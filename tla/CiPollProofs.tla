---------------------------- MODULE CiPollProofs ----------------------------
(* Theorems about CiPoll, for any number of runs, sessions and groups.     *)
EXTENDS CiPoll, TLAPS

(* What an end is made of.                                                 *)
IsEnd(e) ==
  /\ e = [run |-> e.run, started |-> e.started, shape |-> e.shape, pc |-> e.pc,
          closed |-> e.closed, superseded |-> e.superseded]
  /\ e.closed \in BOOLEAN /\ e.superseded \in BOOLEAN

EndsKept == opened \in Nat /\ end = [s \in Sessions |-> end[s]] /\ \A s \in Sessions : IsEnd(end[s])

(* Sessions to come have no end yet.                                       *)
Fresh == \A s \in Sessions : s > opened => end[s] = NewEnd

(* An end that was superseded is one whose callback was at work and whose  *)
(* group is closed.                                                        *)
Silenced == \A s \in Sessions : end[s].superseded => end[s].closed /\ end[s].pc \in Running

(* If it is the last session's, the loop has no run of it to go on with.   *)
Detecting == {"rest", "listing", "listed", "creating", "draining", "returned"}
Abandoned ==
  \A s \in Sessions : end[s].superseded /\ s = opened => tracked = NoRun /\ loop.at \in Detecting

IInv == EndsKept /\ Fresh /\ Silenced /\ Abandoned

(* What SupersededQuiet says of a step.                                    *)
QuietStep ==
  \A s \in Sessions :
    end[s].superseded /\ end'[s].pc \in {"send1", "send2"} => end'[s].pc = end[s].pc

LEMMA InitIsInv == Init => IInv
<1> SUFFICES ASSUME Init PROVE IInv
  OBVIOUS
<1>1. \A s \in Sessions : end[s] = NewEnd  BY DEF Init
<1>2. EndsKept  BY <1>1 DEF Init, EndsKept, IsEnd, NewEnd
<1>3. Fresh  BY <1>1 DEF Fresh
<1>4. Silenced /\ Abandoned  BY <1>1 DEF Silenced, Abandoned, NewEnd
<1>5. QED  BY <1>2, <1>3, <1>4 DEF IInv

(* A step that leaves the ends and the sessions alone keeps the invariant  *)
(* if the loop goes on detecting.                                          *)
LEMMA EndsAlone ==
  ASSUME IInv, end' = end, opened' = opened,
         \A s \in Sessions : end[s].superseded /\ s = opened => tracked' = NoRun /\ loop'.at \in Detecting
  PROVE  IInv' /\ QuietStep
<1>1. EndsKept' /\ Fresh' /\ Silenced'  BY DEF IInv, EndsKept, Fresh, Silenced
<1>2. Abandoned'  BY DEF Abandoned
<1>3. QuietStep  BY DEF QuietStep
<1>4. QED  BY <1>1, <1>2, <1>3 DEF IInv

(* The forge moves beside the loop.                                        *)
LEMMA ForgeKeeps ==
  ASSUME IInv, NEW r \in Runs, Create(r) \/ PickUp(r) \/ Work(r) \/ Cancel(r) \/ Rerun(r)
  PROVE  IInv' /\ QuietStep
<1>1. UNCHANGED <<loop, tracked, opened, end>>
  BY DEF Create, PickUp, Work, Cancel, Rerun, Change, localVars
<1>2. QED  BY <1>1, EndsAlone DEF IInv, Abandoned

(* An end that is amended stays one.                                       *)
LEMMA OverIsEnd ==
  ASSUME NEW s, NEW e, e = Over(s)
  PROVE  IsEnd(e) /\ e.pc = "over" /\ e.superseded = FALSE /\ e.run = end[s].run
BY DEF Over, NewEnd, IsEnd

LEMMA PcAmended ==
  ASSUME NEW e, IsEnd(e), NEW x, NEW d, d = [e EXCEPT !.pc = x]
  PROVE  IsEnd(d) /\ d.pc = x /\ d.closed = e.closed /\ d.superseded = e.superseded /\ d.run = e.run
<1>1. d = [run |-> e.run, started |-> e.started, shape |-> e.shape, pc |-> x,
           closed |-> e.closed, superseded |-> e.superseded]
  BY DEF IsEnd
<1>2. QED  BY <1>1 DEF IsEnd

LEMMA ClosedAmended ==
  ASSUME NEW e, IsEnd(e), NEW d, d = [e EXCEPT !.closed = TRUE]
  PROVE  IsEnd(d) /\ d.pc = e.pc /\ d.closed = TRUE /\ d.superseded = e.superseded /\ d.run = e.run
<1>1. d = [run |-> e.run, started |-> e.started, shape |-> e.shape, pc |-> e.pc,
           closed |-> TRUE, superseded |-> e.superseded]
  BY DEF IsEnd
<1>2. QED  BY <1>1 DEF IsEnd

LEMMA SupersededAmended ==
  ASSUME NEW e, IsEnd(e), NEW x \in BOOLEAN, NEW d, d = [e EXCEPT !.superseded = x]
  PROVE  IsEnd(d) /\ d.pc = e.pc /\ d.closed = e.closed /\ d.superseded = x /\ d.run = e.run
<1>1. d = [run |-> e.run, started |-> e.started, shape |-> e.shape, pc |-> e.pc,
           closed |-> e.closed, superseded |-> x]
  BY DEF IsEnd
<1>2. QED  BY <1>1 DEF IsEnd

(* One end moves on, as its callback does.                                 *)
LEMMA StepKeeps ==
  ASSUME IInv, NEW s \in Sessions, NEW from, NEW to, Step(s, from, to),
         loop' = loop, opened' = opened, tracked' = tracked \/ tracked' = NoRun,
         from # "none", to \in {"send1", "send2"} => from \in {"armed1", "armed2"},
         \/ from \in {"armed1", "armed2"}
         \/ to \in {"over", "clean", "rearm"}
         \/ to = "armed2" /\ ~end[s].closed
  PROVE  IInv' /\ QuietStep
<1>2. /\ end[s].pc = from
      /\ end' = [end EXCEPT ![s] = IF to = "over" THEN Over(s) ELSE [@ EXCEPT !.pc = to]]
  BY DEF Step
<1>3. IsEnd(end[s])  BY DEF IInv, EndsKept
<1>4. \A t \in Sessions : t # s => end'[t] = end[t]  BY <1>2 DEF IInv, EndsKept
<1>5. end'[s] = IF to = "over" THEN Over(s) ELSE [end[s] EXCEPT !.pc = to]
  BY <1>2 DEF IInv, EndsKept
<1>6. CASE to = "over"
  <2>1. end'[s] = Over(s)  BY <1>5, <1>6
  <2>2. IsEnd(end'[s]) /\ end'[s].pc = "over" /\ end'[s].superseded = FALSE
    BY <2>1, OverIsEnd
  <2>3. EndsKept'  BY <1>2, <1>4, <2>2 DEF IInv, EndsKept
  <2>4. s <= opened  BY <1>2, SessionsAssumption DEF IInv, Fresh, EndsKept, NewEnd
  <2>5. Fresh'  BY <1>4, <2>4, SessionsAssumption DEF IInv, Fresh, EndsKept
  <2>6. Silenced' /\ Abandoned'  BY <1>4, <2>2 DEF IInv, Silenced, Abandoned
  <2>7. QuietStep  BY <1>4, <2>2 DEF QuietStep
  <2>8. QED  BY <2>3, <2>5, <2>6, <2>7 DEF IInv
<1>7. CASE to # "over"
  <2>1. end'[s] = [end[s] EXCEPT !.pc = to]  BY <1>5, <1>7
  <2>2. /\ IsEnd(end'[s]) /\ end'[s].pc = to
        /\ end'[s].superseded = end[s].superseded /\ end'[s].closed = end[s].closed
    BY <2>1, <1>3, PcAmended
  <2>3. EndsKept'  BY <1>2, <1>4, <2>2 DEF IInv, EndsKept
  <2>4. s <= opened  BY <1>2, SessionsAssumption DEF IInv, Fresh, EndsKept, NewEnd
  <2>5. Fresh'  BY <1>4, <2>4, SessionsAssumption DEF IInv, Fresh, EndsKept
  <2>6. end[s].superseded => end[s].closed /\ end[s].pc \in Running  BY DEF IInv, Silenced
  <2>7. end[s].superseded => to \in Running /\ to \notin {"send1", "send2"}
    BY <1>2, <1>7, <2>6 DEF Running
  <2>8. Silenced' /\ Abandoned'
    BY <1>4, <2>2, <2>6, <2>7 DEF IInv, Silenced, Abandoned
  <2>9. QuietStep  BY <1>4, <2>2, <2>7 DEF QuietStep
  <2>10. QED  BY <2>3, <2>5, <2>8, <2>9 DEF IInv
<1>8. QED  BY <1>6, <1>7

LEMMA CallbackKeeps ==
  ASSUME IInv, NEW s \in Sessions, Callback(s)
  PROVE  IInv' /\ QuietStep
<1>1. CASE Fire(s)  BY <1>1, StepKeeps DEF Fire, localVars
<1>2. CASE Phase1(s)
  <2>1. CASE StillTracked(s)
    <3>1. Step(s, "send1", "rearm")  BY <1>2, <2>1 DEF Phase1
    <3>2. QED  BY <1>2, <3>1, StepKeeps DEF Phase1, localVars
  <2>2. CASE ~StillTracked(s)
    <3>1. Step(s, "send1", "over")  BY <1>2, <2>2 DEF Phase1
    <3>2. QED  BY <1>2, <3>1, StepKeeps DEF Phase1, localVars
  <2>3. QED  BY <2>1, <2>2
<1>3. CASE Rearm(s)
  <2>1. CASE end[s].closed
    <3>1. Step(s, "rearm", "over")  BY <1>3, <2>1 DEF Rearm
    <3>2. QED  BY <1>3, <3>1, StepKeeps DEF Rearm, localVars
  <2>2. CASE ~end[s].closed
    <3>1. Step(s, "rearm", "armed2")  BY <1>3, <2>2 DEF Rearm
    <3>2. QED  BY <1>3, <2>2, <3>1, StepKeeps DEF Rearm, localVars
  <2>3. QED  BY <2>1, <2>2
<1>4. CASE Phase2(s)  BY <1>4, StepKeeps DEF Phase2, localVars
<1>5. CASE Clean(s)  BY <1>5, StepKeeps DEF Clean
<1>6. QED  BY <1>1, <1>2, <1>3, <1>4, <1>5 DEF Callback

(* Close of the last session's group: it is stopped or marked closed.      *)
LEMMA CloseKeeps ==
  ASSUME IInv, opened \in Sessions
  PROVE  LET e == Close(opened)[opened]
         IN /\ Close(opened) = [end EXCEPT ![opened] = e] /\ IsEnd(e)
            /\ end[opened].pc \in Running => e.pc = end[opened].pc /\ e.closed
            /\ e.superseded => end[opened].superseded
            /\ e.run = end[opened].run /\ e.pc \notin {"armed1", "armed2"}
            /\ e.pc \in {"over", end[opened].pc}
<1>1. IsEnd(end[opened])  BY DEF IInv, EndsKept
<1>2. CASE end[opened].pc \in {"armed1", "armed2"}
  <2>1. Close(opened) = [end EXCEPT ![opened] = Over(opened)]
    BY <1>2 DEF Close, IInv, EndsKept
  <2>2. Close(opened)[opened] = Over(opened)  BY <2>1 DEF IInv, EndsKept
  <2>3. LET e == Over(opened)
        IN IsEnd(e) /\ e.superseded = FALSE /\ e.run = end[opened].run /\ e.pc = "over"
    BY OverIsEnd
  <2>4. QED  BY <1>2, <2>1, <2>2, <2>3 DEF Running
<1>3. CASE end[opened].pc \notin {"armed1", "armed2"}
  <2> DEFINE e == [end[opened] EXCEPT !.closed = TRUE]
  <2>1. Close(opened) = [end EXCEPT ![opened] = e]
    BY <1>3 DEF Close, IInv, EndsKept
  <2>2. Close(opened)[opened] = e  BY <2>1 DEF IInv, EndsKept
  <2>3. /\ IsEnd(e) /\ e.pc = end[opened].pc /\ e.closed
        /\ e.superseded = end[opened].superseded /\ e.run = end[opened].run
    BY <1>1, ClosedAmended
  <2>4. QED  BY <1>3, <2>1, <2>2, <2>3
<1>4. QED  BY <1>2, <1>3

(* What changes the last session's end keeps the invariant, if that end is *)
(* then silenced or not superseded.                                        *)
LEMMA LastEndOnly ==
  ASSUME IInv, opened' = opened, opened \in Sessions, NEW e, IsEnd(e),
         end' = [end EXCEPT ![opened] = e],
         e.superseded => /\ e.closed /\ e.pc \in Running
                         /\ tracked' = NoRun /\ loop'.at \in Detecting,
         end[opened].superseded => e.pc \notin {"send1", "send2"} \/ e.pc = end[opened].pc
  PROVE  IInv' /\ QuietStep
<1>1. end'[opened] = e /\ \A s \in Sessions : s # opened => end'[s] = end[s]
  BY DEF IInv, EndsKept
<1>2. EndsKept'  BY <1>1 DEF IInv, EndsKept
<1>3. Fresh'  BY <1>1, SessionsAssumption DEF IInv, Fresh, EndsKept
<1>4. Silenced' /\ Abandoned'  BY <1>1 DEF IInv, Silenced, Abandoned
<1>5. QuietStep  BY <1>1 DEF QuietStep
<1>6. QED  BY <1>2, <1>3, <1>4, <1>5 DEF IInv

(* The loop's steps that leave every end alone.                            *)
LEMMA LoopKeeps ==
  ASSUME IInv, PollIdle \/ ActiveRuns \/ Seed \/ PollActive \/ LiveJobs \/ PatchActivity
  PROVE  IInv' /\ QuietStep
<1>1. end' = end /\ opened' = opened
  BY DEF PollIdle, ActiveRuns, Seed, PollActive, LiveJobs, PatchActivity, localVars
<1> SUFFICES ASSUME NEW s \in Sessions, end[s].superseded, s = opened
             PROVE  tracked' = NoRun /\ loop'.at \in Detecting
  BY <1>1, EndsAlone
<1>2. tracked = NoRun /\ loop.at \in Detecting  BY DEF IInv, Abandoned
<1>3. CASE PollIdle  BY <1>2, <1>3 DEF PollIdle, Go, localVars, Detecting
<1>4. CASE ActiveRuns  BY <1>2, <1>4 DEF ActiveRuns, localVars, Detecting
<1>5. CASE Seed  BY <1>2, <1>5 DEF Seed, Go, Detecting
<1>6. CASE PollActive  BY <1>2, <1>6 DEF PollActive
<1>7. CASE LiveJobs  BY <1>2, <1>7 DEF LiveJobs, Detecting
<1>8. CASE PatchActivity  BY <1>2, <1>8 DEF PatchActivity, Go, Detecting
<1>9. QED  BY <1>3, <1>4, <1>5, <1>6, <1>7, <1>8

(* The newest run supersedes the end of another.                           *)
LEMMA SelectKeeps ==
  ASSUME IInv, Select
  PROVE  IInv' /\ QuietStep
<1>1. opened' = opened  BY DEF Select
<1>2. CASE tracked' = tracked /\ end' = end /\ loop'.at \in {"rest", "creating"}
  <2>1. \A s \in Sessions : end[s].superseded /\ s = opened => tracked' = NoRun /\ loop'.at \in Detecting
    BY <1>2 DEF IInv, Abandoned, Detecting
  <2>2. QED  BY <1>1, <1>2, <2>1, EndsAlone
<1>3. CASE /\ tracked' = NoRun /\ loop'.at = "creating"
           /\ end' = [Close(opened) EXCEPT ![opened].superseded = end[opened].pc \in Running]
  <2>1. CASE opened \in Sessions
    <3>1. PICK c : c = Close(opened)[opened]  OBVIOUS
    <3>2. PICK e : e = [c EXCEPT !.superseded = end[opened].pc \in Running]  OBVIOUS
    <3>3. /\ Close(opened) = [end EXCEPT ![opened] = c] /\ IsEnd(c)
          /\ end[opened].pc \in Running => c.pc = end[opened].pc /\ c.closed
      BY <2>1, <3>1, CloseKeeps
    <3>4. end' = [end EXCEPT ![opened] = e]
      BY <1>3, <2>1, <3>2, <3>3 DEF IInv, EndsKept
    <3>5. /\ IsEnd(e) /\ e.pc = c.pc /\ e.closed = c.closed
          /\ (e.superseded <=> end[opened].pc \in Running)
      <4>1. CASE end[opened].pc \in Running
        <5>1. e = [c EXCEPT !.superseded = TRUE]  BY <3>2, <4>1
        <5>2. QED  BY <3>3, <4>1, <5>1, SupersededAmended
      <4>2. CASE end[opened].pc \notin Running
        <5>1. (end[opened].pc \in Running) = FALSE  BY <4>2
        <5>2. e = [c EXCEPT !.superseded = FALSE]  BY <3>2, <5>1
        <5>3. QED  BY <3>3, <4>2, <5>2, SupersededAmended
      <4>3. QED  BY <4>1, <4>2
    <3>6. e.superseded => /\ e.closed /\ e.pc \in Running
                          /\ tracked' = NoRun /\ loop'.at \in Detecting
      BY <1>3, <3>3, <3>5 DEF Detecting
    <3>7. end[opened].superseded => e.pc = end[opened].pc
      BY <2>1, <3>3, <3>5 DEF IInv, Silenced
    <3>8. QED  BY <1>1, <2>1, <3>4, <3>5, <3>6, <3>7, LastEndOnly
  <2>2. CASE opened \notin Sessions
    <3>1. end' = end  BY <1>3, <2>2 DEF Close, IInv, EndsKept
    <3>2. QED  BY <1>1, <2>2, <3>1, EndsAlone
  <2>3. QED  BY <2>1, <2>2
<1>4. \/ loop' = At("rest") /\ UNCHANGED <<tracked, end>>
      \/ /\ \E run : loop' = [at |-> "creating", run |-> run]
         /\ \/ /\ tracked' = NoRun
               /\ end' = [Close(opened) EXCEPT ![opened].superseded = end[opened].pc \in Running]
            \/ UNCHANGED <<tracked, end>>
  BY DEF Select, Pick
<1>5. QED  BY <1>2, <1>3, <1>4 DEF At

(* A session opens, or the creation fails.                                 *)
LEMMA CreateActivityKeeps ==
  ASSUME IInv, CreateActivity
  PROVE  IInv' /\ QuietStep
<1>1. CASE Track(loop.run)
  <2>1. /\ opened' = opened + 1 /\ opened + 1 \in Sessions
        /\ end' = [end EXCEPT ![opened + 1] = [@ EXCEPT !.run = loop.run.id]]
    BY <1>1 DEF Track, CreateActivity
  <2>2. end[opened + 1] = NewEnd  BY <2>1 DEF IInv, Fresh, EndsKept
  <2>3. /\ end'[opened + 1] = [NewEnd EXCEPT !.run = loop.run.id]
        /\ \A s \in Sessions : s # opened + 1 => end'[s] = end[s]
    BY <2>1, <2>2 DEF IInv, EndsKept
  <2>4. IsEnd(end'[opened + 1]) /\ end'[opened + 1].superseded = FALSE
        /\ end'[opened + 1].pc = "none"
    BY <2>3 DEF NewEnd, IsEnd
  <2>5. EndsKept'  BY <2>1, <2>3, <2>4 DEF IInv, EndsKept
  <2>6. Fresh'  BY <2>1, <2>3, SessionsAssumption DEF IInv, Fresh, EndsKept
  <2>7. Silenced' /\ Abandoned'  BY <2>1, <2>3, <2>4 DEF IInv, Silenced, Abandoned
  <2>8. QuietStep  BY <2>3, <2>4 DEF QuietStep
  <2>9. QED  BY <2>5, <2>6, <2>7, <2>8 DEF IInv
<1>2. CASE tracked' = tracked /\ opened' = opened /\ end' = end /\ loop' = At("rest")
  <2>1. \A s \in Sessions : end[s].superseded /\ s = opened => tracked' = NoRun /\ loop'.at \in Detecting
    BY <1>2 DEF IInv, Abandoned, Detecting, At
  <2>2. QED  BY <1>2, <2>1, EndsAlone
<1>3. QED  BY <1>1, <1>2 DEF CreateActivity

(* A run that is confirmed over has its end scheduled.                     *)
LEMMA GetRunKeeps ==
  ASSUME IInv, GetRun
  PROVE  IInv' /\ QuietStep
<1>1. loop.at = "confirming" /\ opened' = opened /\ loop'.at \in {"rest", "patching"}
  BY DEF GetRun, At
<1>2. \A s \in Sessions : s = opened => ~end[s].superseded
  BY <1>1 DEF IInv, Abandoned, Detecting
<1>3. CASE end' = end  BY <1>1, <1>2, <1>3, EndsAlone
<1>4. ASSUME NEW started, scheduleEnd(started, loop.shape)
      PROVE  IInv' /\ QuietStep
  <2>1. CASE opened \in Sessions
    <3>1. PICK e : e = [end[opened] EXCEPT !.started = started, !.shape = loop.shape, !.pc = "armed1"]
      OBVIOUS
    <3>2. end' = [end EXCEPT ![opened] = e]  BY <1>4, <3>1 DEF scheduleEnd
    <3>3. IsEnd(e) /\ e.superseded = end[opened].superseded
      <4>1. IsEnd(end[opened])  BY <2>1 DEF IInv, EndsKept
      <4>2. PICK x, y : x = end[opened] /\ y = loop.shape  OBVIOUS
      <4>3. e = [x EXCEPT !.started = started, !.shape = y, !.pc = "armed1"]  BY <3>1, <4>2
      <4>4. e = [run |-> x.run, started |-> started, shape |-> y, pc |-> "armed1",
                 closed |-> x.closed, superseded |-> x.superseded]
        BY <4>1, <4>2, <4>3 DEF IsEnd
      <4>5. QED  BY <4>1, <4>2, <4>4 DEF IsEnd
    <3>4. QED  BY <1>1, <1>2, <2>1, <3>2, <3>3, LastEndOnly
  <2>2. CASE opened \notin Sessions
    <3>1. end' = end  BY <1>4, <2>2 DEF scheduleEnd, IInv, EndsKept
    <3>2. QED  BY <1>1, <1>2, <3>1, EndsAlone
  <2>3. QED  BY <2>1, <2>2
<1>5. QED  BY <1>3, <1>4 DEF GetRun

(* The drain closes the group of a pending end.                            *)
LEMMA ShutdownKeeps ==
  ASSUME IInv, Shutdown
  PROVE  IInv' /\ QuietStep
<1>1. opened' = opened /\ tracked' = tracked /\ loop'.at \in {"draining", "returned"}
  BY DEF Shutdown, Go, At, localVars
<1>2. CASE end' = end
  <2>1. \A s \in Sessions : end[s].superseded /\ s = opened => tracked' = NoRun /\ loop'.at \in Detecting
    BY <1>1 DEF IInv, Abandoned, Detecting
  <2>2. QED  BY <1>1, <1>2, <2>1, EndsAlone
<1>3. CASE Pending /\ end' = Close(opened)
  <2>1. CASE opened \in Sessions
    <3>1. ~end[opened].superseded  BY <1>3, <2>1 DEF IInv, Abandoned, Pending
    <3> DEFINE e == Close(opened)[opened]
    <3>2. end' = [end EXCEPT ![opened] = e] /\ IsEnd(e) /\ (e.superseded => end[opened].superseded)
      BY <1>3, <2>1, CloseKeeps
    <3> HIDE DEF e
    <3>3. QED  BY <1>1, <2>1, <3>1, <3>2, LastEndOnly
  <2>2. CASE opened \notin Sessions
    <3>1. end' = end  BY <1>3, <2>2 DEF Close, IInv, EndsKept
    <3>2. QED  BY <1>1, <2>2, <3>1, EndsAlone
  <2>3. QED  BY <2>1, <2>2
<1>4. QED  BY <1>2, <1>3 DEF Shutdown

LEMMA NextKeeps ==
  ASSUME IInv, [Next]_vars
  PROVE  IInv' /\ QuietStep
<1>1. CASE UNCHANGED vars
  <2>1. UNCHANGED <<loop, tracked, opened, end>>  BY <1>1 DEF vars, localVars
  <2>2. QED  BY <2>1, EndsAlone DEF IInv, Abandoned
<1>2. CASE Loop
  BY <1>2, LoopKeeps, SelectKeeps, CreateActivityKeeps, GetRunKeeps DEF Loop
<1>3. QED
  BY <1>1, <1>2, ForgeKeeps, CallbackKeeps, ShutdownKeeps DEF Next, Returned

(* An end that a new run has superseded begins no further frame, however   *)
(* many runs, sessions and re-runs there are (Close in pollIdle).          *)
THEOREM SupersededStaysQuiet == Spec => SupersededQuiet
<1>1. IInv /\ [Next]_vars => IInv'  BY NextKeeps
<1>2. IInv /\ [Next]_vars => [QuietStep]_vars  BY NextKeeps
<1>3. Spec => []IInv  BY InitIsInv, <1>1, PTL DEF Spec
<1>4. Spec => [][QuietStep]_vars  BY <1>2, <1>3, PTL DEF Spec
<1>5. QED  BY <1>4 DEF SupersededQuiet, QuietStep

---------------------------------------------------------------------------
(* CardNotEndedEarly: an end at work is of an attempt that is over.        *)

ForgeRuns ==
  [on : {"unborn", "queued", "going", "over"}, attempt : Nat, started : Nat,
   seen : Nat, done : BOOLEAN, lag : Int]

ForgeOK ==
  /\ forge \in [Runs -> ForgeRuns]
  /\ \A r \in Runs : forge[r].attempt = 0 <=> forge[r].on = "unborn"

(* Some attempt of the run is over, and the loop has seen that.            *)
Known(r) ==
  \E attempt \in 1..forge[r].attempt :
    /\ <<r, attempt>> \in seenOver
    /\ attempt < forge[r].attempt \/ forge[r].on = "over"

IsTracked(t) ==
  t = [run |-> t.run, started |-> t.started, end |-> t.end, shape |-> t.shape, sent |-> t.sent,
       total |-> t.total, step |-> t.step, liveSent |-> t.liveSent, liveStep |-> t.liveStep]

TrackedOK ==
  \/ tracked = NoRun
  \/ /\ IsTracked(tracked) /\ tracked.run \in Runs /\ opened \in Sessions
     /\ end[opened].run = tracked.run

Live(s) == end[s].pc \in {"armed1", "armed2"} \union Running

(* An end at work is the pending one, or was superseded by another run.    *)
Attended == \A s \in Sessions : Live(s) /\ ~end[s].superseded => s = opened /\ Pending
Apart == \A s \in Sessions : Live(s) /\ end[s].superseded /\ tracked # NoRun => end[s].run # tracked.run

(* What each of the loop's places has established.                         *)
Detection ==
  /\ loop.at \in {"listing", "listed"} =>
       /\ tracked = NoRun \/ (Pending /\ tracked.run = loop.pending)
       /\ \A s \in Sessions : ~end[s].superseded
  /\ loop.at = "listed" => \A run \in loop.runs : run.id \in Runs
  /\ loop.at = "creating" =>
       /\ tracked = NoRun /\ loop.run.id \in Runs
       /\ \A s \in Sessions : Live(s) => end[s].run # loop.run.id
Busy ==
  loop.at \in {"seeding", "scanning", "confirming", "patching"} => tracked # NoRun /\ ~Pending

EndsKnown == \A s \in Sessions : Live(s) => end[s].run \in Runs /\ Known(end[s].run)

IsCard(c) ==
  c = [state |-> c.state, of |-> c.of, total |-> c.total, ladder |-> c.ladder,
       step |-> c.step, live |-> c.live]

CardKnown ==
  /\ IsCard(card)
  /\ card.state = "ended" =>
       /\ card.of \in Sessions /\ card.of <= opened
       /\ end[card.of].run \in Runs /\ Known(end[card.of].run)

LoopInv == TrackedOK /\ Attended /\ Apart /\ Detection /\ Busy

JInv == IInv /\ ForgeOK /\ LoopInv /\ EndsKnown /\ CardKnown

LEMMA InitIsJInv == Init => JInv
<1> SUFFICES ASSUME Init PROVE JInv
  OBVIOUS
<1>1. IInv  BY InitIsInv
<1>2. ForgeOK  BY DEF Init, ForgeOK, ForgeRuns, Unborn
<1>3. \A s \in Sessions : ~Live(s) /\ end[s] = NewEnd  BY DEF Init, Live, Running, NewEnd
<1>4. TrackedOK  BY DEF Init, TrackedOK
<1>5. Attended /\ Apart /\ EndsKnown  BY <1>3 DEF Attended, Apart, EndsKnown
<1>6. loop.at = "rest"  BY DEF Init, At
<1>7. Detection /\ Busy  BY <1>6 DEF Detection, Busy
<1>8. CardKnown  BY DEF Init, CardKnown, NoCard, IsCard
<1>9. QED  BY <1>1, <1>2, <1>4, <1>5, <1>7, <1>8 DEF JInv, LoopInv

(* What is known of a run's attempts stays true as the run moves on.       *)
LEMMA KnownKept ==
  ASSUME ForgeOK, ForgeOK', seenOver \subseteq seenOver', NEW r \in Runs, Known(r),
         forge'[r].attempt >= forge[r].attempt,
         forge[r].on = "over" => forge'[r].on = "over" \/ forge'[r].attempt > forge[r].attempt
  PROVE  Known(r)'
<1>1. PICK a \in 1..forge[r].attempt :
        <<r, a>> \in seenOver /\ (a < forge[r].attempt \/ forge[r].on = "over")
  BY DEF Known
<1>2. forge[r].attempt \in Nat /\ forge'[r].attempt \in Nat  BY DEF ForgeOK, ForgeRuns
<1>3. a \in 1..forge'[r].attempt  BY <1>1, <1>2
<1>4. a < forge'[r].attempt \/ forge'[r].on = "over"  BY <1>1, <1>2
<1>5. <<r, a>> \in seenOver'  BY <1>1
<1>6. QED  BY <1>3, <1>4, <1>5 DEF Known

(* A record of the forge, amended.                                         *)
ForgeSteps ==
  /\ ForgeOK'
  /\ \A r \in Runs : /\ forge'[r].attempt >= forge[r].attempt
                     /\ forge[r].on = "over" => forge'[r].on = "over" \/ forge'[r].attempt > forge[r].attempt

LEMMA ForgeMoves ==
  ASSUME ForgeOK, NEW r \in Runs, Create(r) \/ PickUp(r) \/ Work(r) \/ Cancel(r) \/ Rerun(r)
  PROVE  ForgeSteps
<1>1. ASSUME NEW new \in ForgeRuns, forge' = [forge EXCEPT ![r] = new],
             new.attempt >= forge[r].attempt, new.on # "unborn", new.attempt > 0,
             forge[r].on = "over" => new.on = "over" \/ new.attempt > forge[r].attempt
      PROVE  ForgeSteps
  <2>1. forge'[r] = new /\ \A q \in Runs : q # r => forge'[q] = forge[q]  BY <1>1 DEF ForgeOK
  <2>2. ForgeOK'  BY <1>1, <2>1 DEF ForgeOK
  <2>3. \A q \in Runs : forge[q].attempt \in Nat  BY DEF ForgeOK, ForgeRuns
  <2>4. QED  BY <1>1, <2>1, <2>2, <2>3 DEF ForgeSteps
<1>2. /\ forge[r].attempt \in Nat /\ forge[r].started \in Nat /\ forge[r].seen \in Nat
      /\ forge[r].done \in BOOLEAN /\ forge[r].lag \in Int
      /\ forge[r].on \in {"unborn", "queued", "going", "over"}
      /\ forge[r] = [on |-> forge[r].on, attempt |-> forge[r].attempt, started |-> forge[r].started,
                     seen |-> forge[r].seen, done |-> forge[r].done, lag |-> forge[r].lag]
      /\ forge[r].attempt = 0 <=> forge[r].on = "unborn"
  BY DEF ForgeOK, ForgeRuns
<1>3. CASE Create(r)
  <2>0. forge[r].on = "unborn"  BY <1>3 DEF Create
  <2>1. PICK new : new = [Unborn EXCEPT !.on = "queued", !.attempt = 1]
    OBVIOUS
  <2>2. forge' = [forge EXCEPT ![r] = new]  BY <1>3, <2>1 DEF Create, Change
  <2>3. new = [on |-> "queued", attempt |-> 1, started |-> 0,
              seen |-> 0, done |-> FALSE, lag |-> 0]
    BY <1>2, <2>1 DEF Unborn
  <2>4. new \in ForgeRuns  BY <1>2, <2>0, <2>3 DEF ForgeRuns
  <2>5. new.attempt >= forge[r].attempt /\ new.on # "unborn" /\ new.attempt > 0
        /\ (forge[r].on = "over" => new.on = "over" \/ new.attempt > forge[r].attempt)
    BY <1>2, <2>0, <2>3
  <2>6. QED  BY <1>1, <2>2, <2>4, <2>5
<1>4. CASE PickUp(r)
  <2>0. forge[r].on = "queued"  BY <1>4 DEF PickUp
  <2>1. PICK new : new = [forge[r] EXCEPT !.on = "going", !.started = forge[r].attempt, !.seen = 1]
    OBVIOUS
  <2>2. forge' = [forge EXCEPT ![r] = new]  BY <1>4, <2>1 DEF PickUp, Change
  <2>3. new = [on |-> "going", attempt |-> forge[r].attempt, started |-> forge[r].attempt,
              seen |-> 1, done |-> forge[r].done, lag |-> forge[r].lag]
    BY <1>2, <2>1 DEF Unborn
  <2>4. new \in ForgeRuns  BY <1>2, <2>0, <2>3 DEF ForgeRuns
  <2>5. new.attempt >= forge[r].attempt /\ new.on # "unborn" /\ new.attempt > 0
        /\ (forge[r].on = "over" => new.on = "over" \/ new.attempt > forge[r].attempt)
    BY <1>2, <2>0, <2>3
  <2>6. QED  BY <1>1, <2>2, <2>4, <2>5
<1>5. CASE Work(r)
  <2>0. forge[r].on = "going"  BY <1>5 DEF Work
  <2>2. CASE forge' = [forge EXCEPT ![r] = [forge[r] EXCEPT !.done = TRUE]]
    <3>1. PICK new : new = [forge[r] EXCEPT !.done = TRUE]
      OBVIOUS
    <3>2. forge' = [forge EXCEPT ![r] = new]  BY <2>2, <3>1
    <3>3. new = [on |-> forge[r].on, attempt |-> forge[r].attempt, started |-> forge[r].started,
                seen |-> forge[r].seen, done |-> TRUE, lag |-> forge[r].lag]
      BY <1>2, <3>1 DEF Unborn
    <3>4. new \in ForgeRuns  BY <1>2, <2>0, <3>3 DEF ForgeRuns
    <3>5. new.attempt >= forge[r].attempt /\ new.on # "unborn" /\ new.attempt > 0
          /\ (forge[r].on = "over" => new.on = "over" \/ new.attempt > forge[r].attempt)
      BY <1>2, <2>0, <3>3
    <3>6. QED  BY <1>1, <3>2, <3>4, <3>5
  <2>3. CASE forge' = [forge EXCEPT ![r] = [forge[r] EXCEPT !.done = FALSE, !.seen = forge[r].seen + 1]]
    <3>1. PICK new : new = [forge[r] EXCEPT !.done = FALSE, !.seen = forge[r].seen + 1]
      OBVIOUS
    <3>2. forge' = [forge EXCEPT ![r] = new]  BY <2>3, <3>1
    <3>3. new = [on |-> forge[r].on, attempt |-> forge[r].attempt, started |-> forge[r].started,
                seen |-> forge[r].seen + 1, done |-> FALSE, lag |-> forge[r].lag]
      BY <1>2, <3>1 DEF Unborn
    <3>4. new \in ForgeRuns  BY <1>2, <2>0, <3>3 DEF ForgeRuns
    <3>5. new.attempt >= forge[r].attempt /\ new.on # "unborn" /\ new.attempt > 0
          /\ (forge[r].on = "over" => new.on = "over" \/ new.attempt > forge[r].attempt)
      BY <1>2, <2>0, <3>3
    <3>6. QED  BY <1>1, <3>2, <3>4, <3>5
  <2>4. CASE forge' = [forge EXCEPT ![r] = [forge[r] EXCEPT !.on = "over", !.done = TRUE]]
    <3>1. PICK new : new = [forge[r] EXCEPT !.on = "over", !.done = TRUE]
      OBVIOUS
    <3>2. forge' = [forge EXCEPT ![r] = new]  BY <2>4, <3>1
    <3>3. new = [on |-> "over", attempt |-> forge[r].attempt, started |-> forge[r].started,
                seen |-> forge[r].seen, done |-> TRUE, lag |-> forge[r].lag]
      BY <1>2, <3>1 DEF Unborn
    <3>4. new \in ForgeRuns  BY <1>2, <2>0, <2>4, <3>3 DEF ForgeRuns
    <3>5. new.attempt >= forge[r].attempt /\ new.on # "unborn" /\ new.attempt > 0
          /\ (forge[r].on = "over" => new.on = "over" \/ new.attempt > forge[r].attempt)
      BY <1>2, <2>0, <2>4, <3>3
    <3>6. QED  BY <1>1, <3>2, <3>4, <3>5
  <2>5. QED  BY <1>5, <2>2, <2>3, <2>4 DEF Work, Change
<1>6. CASE Cancel(r)
  <2>0. forge[r].on = "queued"  BY <1>6 DEF Cancel
  <2>1. PICK new : new = [forge[r] EXCEPT !.on = "over", !.seen = 1, !.done = TRUE]
    OBVIOUS
  <2>2. forge' = [forge EXCEPT ![r] = new]  BY <1>6, <2>1 DEF Cancel, Change
  <2>3. new = [on |-> "over", attempt |-> forge[r].attempt, started |-> forge[r].started,
              seen |-> 1, done |-> TRUE, lag |-> forge[r].lag]
    BY <1>2, <2>1 DEF Unborn
  <2>4. new \in ForgeRuns  BY <1>2, <2>0, <2>3 DEF ForgeRuns
  <2>5. new.attempt >= forge[r].attempt /\ new.on # "unborn" /\ new.attempt > 0
        /\ (forge[r].on = "over" => new.on = "over" \/ new.attempt > forge[r].attempt)
    BY <1>2, <2>0, <2>3
  <2>6. QED  BY <1>1, <2>2, <2>4, <2>5
<1>7. CASE Rerun(r)
  <2>0. forge[r].on = "over"  BY <1>7 DEF Rerun
  <2>1. PICK new : new = [Unborn EXCEPT !.on = "queued", !.attempt = forge[r].attempt + 1]
    OBVIOUS
  <2>2. forge' = [forge EXCEPT ![r] = new]  BY <1>7, <2>1 DEF Rerun, Change
  <2>3. new = [on |-> "queued", attempt |-> forge[r].attempt + 1, started |-> 0,
              seen |-> 0, done |-> FALSE, lag |-> 0]
    BY <1>2, <2>1 DEF Unborn
  <2>4. new \in ForgeRuns  BY <1>2, <2>0, <2>3 DEF ForgeRuns
  <2>5. new.attempt >= forge[r].attempt /\ new.on # "unborn" /\ new.attempt > 0
        /\ (forge[r].on = "over" => new.on = "over" \/ new.attempt > forge[r].attempt)
    BY <1>2, <2>0, <2>3
  <2>6. QED  BY <1>1, <2>2, <2>4, <2>5
<1>8. QED  BY <1>3, <1>4, <1>5, <1>6, <1>7

(* The forge may move when nothing else does.                              *)
LEMMA EndsKnownKept ==
  ASSUME JInv, ForgeSteps, seenOver \subseteq seenOver'
  PROVE  \A r \in Runs : Known(r) => Known(r)'
BY KnownKept DEF JInv, ForgeSteps

LEMMA ForgeStays ==
  ASSUME JInv, forge' = forge
  PROVE  ForgeSteps
<1>1. \A r \in Runs : forge[r].attempt \in Nat  BY DEF JInv, ForgeOK, ForgeRuns
<1>2. QED  BY <1>1 DEF JInv, ForgeOK, ForgeSteps

---------------------------------------------------------------------------
(* A step that leaves the ends alone and does not end the card.            *)
LEMMA BesideEnds ==
  ASSUME JInv, IInv', LoopInv', ForgeSteps, end' = end, opened' = opened,
         seenOver \subseteq seenOver',
         card' = card \/ (IsCard(card') /\ card'.state # "ended")
  PROVE  JInv'
<1>1. \A r \in Runs : Known(r) => Known(r)'  BY EndsKnownKept
<1>2. EndsKnown'  BY <1>1 DEF JInv, EndsKnown, Live
<1>3. CardKnown'  BY <1>1 DEF JInv, CardKnown
<1>4. QED  BY <1>2, <1>3 DEF JInv, ForgeSteps

(* What is tracked stays, goes without an end, or is told more of its run. *)
LEMMA TrackedKeeps ==
  ASSUME LoopInv, end' = end, opened' = opened,
         \/ tracked' = tracked
         \/ tracked' = NoRun /\ ~Pending
         \/ /\ tracked # NoRun /\ IsTracked(tracked')
            /\ tracked'.run = tracked.run /\ tracked'.end = tracked.end
  PROVE  /\ TrackedOK' /\ Attended' /\ Apart'
         /\ tracked' # NoRun =>
              tracked # NoRun /\ tracked'.run = tracked.run /\ tracked'.end = tracked.end
         /\ Pending' <=> Pending
<1>1. tracked # NoRun => tracked.run \in Runs /\ opened \in Sessions /\ end[opened].run = tracked.run
  BY DEF LoopInv, TrackedOK
<1>2. 0 \notin Runs  BY RunsAssumption
<1>3. NoRun.run = 0  BY DEF NoRun
<1>4. /\ tracked' # NoRun =>
           tracked # NoRun /\ tracked'.run = tracked.run /\ tracked'.end = tracked.end
      /\ Pending' <=> Pending
  BY <1>1, <1>2, <1>3 DEF Pending
<1>5. TrackedOK'  BY <1>1 DEF LoopInv, TrackedOK
<1>6. Attended' /\ Apart'  BY <1>4 DEF LoopInv, Attended, Apart, Live
<1>7. QED  BY <1>4, <1>5, <1>6

(* A tracked run that is told more.                                        *)
ToldMore(t) == IsTracked(t) /\ t.run = tracked.run /\ t.end = tracked.end

LEMMA TellingMore ==
  ASSUME IsTracked(tracked), NEW t, NEW x, NEW y,
         \/ t = [tracked EXCEPT !.shape = x, !.sent = y]
         \/ t = [tracked EXCEPT !.shape = x]
  PROVE  ToldMore(t)
<1>1. \/ t = [run |-> tracked.run, started |-> tracked.started, end |-> tracked.end, shape |-> x,
              sent |-> y, total |-> tracked.total, step |-> tracked.step,
              liveSent |-> tracked.liveSent, liveStep |-> tracked.liveStep]
      \/ t = [run |-> tracked.run, started |-> tracked.started, end |-> tracked.end, shape |-> x,
              sent |-> tracked.sent, total |-> tracked.total, step |-> tracked.step,
              liveSent |-> tracked.liveSent, liveStep |-> tracked.liveStep]
  BY DEF IsTracked
<1>2. QED  BY <1>1 DEF IsTracked, ToldMore

LEMMA ForgeKeepsJ ==
  ASSUME JInv, NEW r \in Runs, Create(r) \/ PickUp(r) \/ Work(r) \/ Cancel(r) \/ Rerun(r)
  PROVE  JInv'
<1>1. UNCHANGED <<loop, localVars, end, card, history>>
  BY DEF Create, PickUp, Work, Cancel, Rerun, Change
<1>2. IInv'  BY ForgeKeeps DEF JInv
<1>3. ForgeSteps  BY ForgeMoves DEF JInv
<1>4. LoopInv'
  BY <1>1 DEF JInv, LoopInv, TrackedOK, Attended, Apart, Detection, Busy, Live, Pending, localVars
<1>5. QED  BY <1>1, <1>2, <1>3, <1>4, BesideEnds DEF localVars, history

LEMMA PollIdleKeepsJ ==
  ASSUME JInv, PollIdle
  PROVE  JInv'
<1>1. /\ UNCHANGED <<forge, tracked, opened, end, card, seenOver>>
      /\ loop' = [at |-> "listing", pending |-> tracked.run]
      /\ tracked = NoRun \/ Pending
      /\ \A s \in Sessions : ~end[s].superseded
  BY DEF PollIdle, Go, ServerUntouched, localVars, history, Rested
<1>2. TrackedOK' /\ Attended' /\ Apart' /\ (Pending' <=> Pending)
  BY <1>1, TrackedKeeps DEF JInv
<1>3. Detection' /\ Busy'  BY <1>1, <1>2 DEF Detection, Busy
<1>4. IInv'  BY LoopKeeps DEF JInv
<1>5. QED  BY <1>1, <1>2, <1>3, <1>4, BesideEnds, ForgeStays DEF LoopInv

(* A list that was read: what it reports, and what the forge forgets.      *)
Forgets(r, late) ==
  IF r \in Lagging THEN IF r \in late THEN forge[r].lag + 1 ELSE Lag ELSE forge[r].lag

LEMMA ListRead ==
  ASSUME JInv, ActiveRuns
  PROVE  \E late \in SUBSET Lagging :
           /\ loop' = [at |-> "listed", pending |-> loop.pending,
                       runs |-> {Report(r) : r \in Active \union late}]
           /\ forge' = [r \in Runs |-> forge'[r]]
           /\ \A r \in Runs :
                forge'[r] = [on |-> forge[r].on, attempt |-> forge[r].attempt,
                             started |-> forge[r].started, seen |-> forge[r].seen,
                             done |-> forge[r].done, lag |-> Forgets(r, late)]
<1>1. PICK late \in SUBSET Lagging :
        /\ loop' = [at |-> "listed", pending |-> loop.pending,
                    runs |-> {Report(r) : r \in Active \union late}]
        /\ forge' = [r \in Runs |-> IF r \in Lagging THEN Listed(forge[r], r \in late) ELSE forge[r]]
  BY DEF ActiveRuns
<1>2. forge' = [r \in Runs |-> forge'[r]]  BY <1>1
<1>3. ASSUME NEW r \in Runs
      PROVE  forge'[r] = [on |-> forge[r].on, attempt |-> forge[r].attempt,
                          started |-> forge[r].started, seen |-> forge[r].seen,
                          done |-> forge[r].done, lag |-> Forgets(r, late)]
  <2>1. forge[r] \in ForgeRuns  BY DEF JInv, ForgeOK
  <2>2. CASE r \notin Lagging
    <3>1. forge'[r] = forge[r]  BY <1>1, <2>2
    <3>2. Forgets(r, late) = forge[r].lag  BY <2>2 DEF Forgets
    <3>3. QED  BY <2>1, <3>1, <3>2 DEF ForgeRuns
  <2>3. CASE r \in Lagging /\ r \in late
    <3>1. forge'[r] = [forge[r] EXCEPT !.lag = forge[r].lag + 1]  BY <1>1, <2>3 DEF Listed
    <3>2. Forgets(r, late) = forge[r].lag + 1  BY <2>3 DEF Forgets
    <3>3. QED  BY <2>1, <3>1, <3>2 DEF ForgeRuns
  <2>4. CASE r \in Lagging /\ r \notin late
    <3>1. forge'[r] = [forge[r] EXCEPT !.lag = Lag]  BY <1>1, <2>4 DEF Listed
    <3>2. Forgets(r, late) = Lag  BY <2>4 DEF Forgets
    <3>3. QED  BY <2>1, <3>1, <3>2 DEF ForgeRuns
  <2>5. QED  BY <2>2, <2>3, <2>4
<1>4. QED  BY <1>1, <1>2, <1>3

LEMMA ActiveRunsKeepsJ ==
  ASSUME JInv, ActiveRuns
  PROVE  JInv'
<1>0. PICK late \in SUBSET Lagging :
        /\ loop' = [at |-> "listed", pending |-> loop.pending,
                    runs |-> {Report(r) : r \in Active \union late}]
        /\ forge' = [r \in Runs |-> forge'[r]]
        /\ \A r \in Runs :
             forge'[r] = [on |-> forge[r].on, attempt |-> forge[r].attempt,
                          started |-> forge[r].started, seen |-> forge[r].seen,
                          done |-> forge[r].done, lag |-> Forgets(r, late)]
  BY ListRead
<1>1. UNCHANGED <<tracked, opened, end, card, seenOver>> /\ loop.at = "listing"
  BY DEF ActiveRuns, ServerUntouched, localVars, history
<1>2. TrackedOK' /\ Attended' /\ Apart' /\ (Pending' <=> Pending)
  BY <1>1, TrackedKeeps DEF JInv
<1>3. \A run \in loop'.runs : run.id \in Runs
  <2>1. Active \subseteq Runs /\ late \subseteq Runs  BY DEF Active, Lagging
  <2>2. \A r \in Runs : Report(r).id = r  BY DEF Report
  <2>3. QED  BY <1>0, <2>1, <2>2
<1>4. Detection' /\ Busy'  BY <1>0, <1>1, <1>2, <1>3 DEF JInv, LoopInv, Detection, Busy
<1>5. ForgeSteps
  <2>1. \A r \in Runs : /\ forge'[r] \in ForgeRuns
                        /\ forge'[r].on = forge[r].on /\ forge'[r].attempt = forge[r].attempt
    <3> SUFFICES ASSUME NEW r \in Runs
                 PROVE  /\ forge'[r] \in ForgeRuns
                        /\ forge'[r].on = forge[r].on /\ forge'[r].attempt = forge[r].attempt
      OBVIOUS
    <3>1. forge[r] \in ForgeRuns  BY DEF JInv, ForgeOK
    <3>2. Forgets(r, late) \in Int  BY <3>1, LagAssumption DEF Forgets, ForgeRuns
    <3>3. QED  BY <1>0, <3>1, <3>2 DEF ForgeRuns
  <2>2. ForgeOK'  BY <1>0, <2>1 DEF JInv, ForgeOK
  <2>3. \A r \in Runs : forge[r].attempt \in Nat  BY DEF JInv, ForgeOK, ForgeRuns
  <2>4. QED  BY <2>1, <2>2, <2>3 DEF ForgeSteps
<1>6. IInv'  BY LoopKeeps DEF JInv
<1>7. QED  BY <1>1, <1>2, <1>4, <1>5, <1>6, BesideEnds DEF LoopInv

(* The loop's steps on a run on screen: it stays so, and has no end.       *)
LEMMA BusyKeeps ==
  ASSUME JInv, IInv', ForgeSteps, end' = end, opened' = opened, seenOver' = seenOver,
         loop.at \in {"seeding", "scanning", "confirming", "patching"},
         loop'.at \in {"rest", "confirming", "patching"},
         tracked' = tracked \/ ToldMore(tracked'),
         card' = card \/ (IsCard(card') /\ card'.state # "ended")
  PROVE  JInv'
<1>1. tracked # NoRun /\ ~Pending  BY DEF JInv, LoopInv, Busy
<1>2. TrackedOK' /\ Attended' /\ Apart' /\ (Pending' <=> Pending)
  BY <1>1, TrackedKeeps DEF JInv, ToldMore
<1>3. tracked' # NoRun
  <2>1. tracked'.run \in Runs  BY <1>1 DEF JInv, LoopInv, TrackedOK, ToldMore
  <2>2. 0 \notin Runs /\ NoRun.run = 0  BY RunsAssumption DEF NoRun
  <2>3. QED  BY <2>1, <2>2
<1>4. Detection' /\ Busy'  BY <1>1, <1>2, <1>3 DEF Detection, Busy
<1>5. QED  BY <1>2, <1>4, BesideEnds DEF LoopInv

LEMMA FrameIsCard ==
  ASSUME NEW state, NEW session, NEW shape, NEW step
  PROVE  LET c == FullUpdate(state, session, shape, step)
         IN IsCard(c) /\ c.state = state /\ c.of = session
BY DEF FullUpdate, IsCard

LEMMA SeedKeepsJ ==
  ASSUME JInv, Seed
  PROVE  JInv'
<1>1. /\ UNCHANGED <<forge, opened, end, seenOver>>
      /\ loop.at = "seeding" /\ loop'.at = "rest"
  BY DEF Seed, Go, At, history
<1>2. tracked # NoRun /\ IsTracked(tracked)
  BY <1>1 DEF JInv, LoopInv, Busy, TrackedOK
<1>3. PICK shape : /\ card' = card \/ card' = FullUpdate("ongoing", opened, shape, 0)
                   /\ \/ tracked' = [tracked EXCEPT !.shape = shape, !.sent = shape]
                      \/ tracked' = [tracked EXCEPT !.shape = shape, !.sent = NoShape]
  BY DEF Seed
<1>4. ToldMore(tracked')  BY <1>2, <1>3, TellingMore
<1>5. card' = card \/ (IsCard(card') /\ card'.state # "ended")  BY <1>3, FrameIsCard
<1>6. IInv'  BY LoopKeeps DEF JInv
<1>7. QED  BY <1>1, <1>4, <1>5, <1>6, BusyKeeps, ForgeStays

LEMMA PollActiveKeepsJ ==
  ASSUME JInv, PollActive
  PROVE  JInv'
<1>1. /\ UNCHANGED <<forge, opened, end, seenOver, card>>
      /\ tracked # NoRun /\ ~Pending
      /\ \/ loop'.at = "scanning" /\ tracked' = tracked
         \/ loop'.at = "rest" /\ tracked' = NoRun
  BY DEF PollActive, Go, At, ServerUntouched, history
<1>2. TrackedOK' /\ Attended' /\ Apart' /\ (Pending' <=> Pending)
  BY <1>1, TrackedKeeps DEF JInv
<1>3. Detection' /\ Busy'  BY <1>1, <1>2 DEF Detection, Busy
<1>4. IInv'  BY LoopKeeps DEF JInv
<1>5. QED  BY <1>1, <1>2, <1>3, <1>4, BesideEnds, ForgeStays DEF LoopInv

LEMMA LiveJobsKeepsJ ==
  ASSUME JInv, LiveJobs
  PROVE  JInv'
<1>1. /\ UNCHANGED <<forge, opened, end, seenOver, card>>
      /\ loop.at = "scanning" /\ loop'.at \in {"rest", "confirming", "patching"}
      /\ \/ tracked' = tracked
         \/ \E shape : tracked' = [tracked EXCEPT !.shape = shape]
  BY DEF LiveJobs, At, ServerUntouched, history
<1>2. tracked # NoRun /\ IsTracked(tracked)
  BY <1>1 DEF JInv, LoopInv, Busy, TrackedOK
<1>3. tracked' = tracked \/ ToldMore(tracked')  BY <1>1, <1>2, TellingMore
<1>4. IInv'  BY LoopKeeps DEF JInv
<1>5. QED  BY <1>1, <1>3, <1>4, BusyKeeps, ForgeStays

LEMMA PatchKeepsJ ==
  ASSUME JInv, PatchActivity
  PROVE  JInv'
<1>1. /\ UNCHANGED <<forge, opened, end, seenOver>>
      /\ loop.at = "patching" /\ loop'.at = "rest"
  BY DEF PatchActivity, Go, At, history
<1>2. tracked # NoRun /\ IsTracked(tracked)
  BY <1>1 DEF JInv, LoopInv, Busy, TrackedOK
<1>3. IsCard(card)  BY DEF JInv, CardKnown
<1>4. ASSUME NEW timed, Patch(timed)
      PROVE  /\ tracked' = tracked \/ ToldMore(tracked')
             /\ card' = card \/ (IsCard(card') /\ card'.state # "ended")
  <2> DEFINE moved == loop.step # tracked.liveStep
             ladder == tracked.sent # tracked.shape
             anchor == timed /\ (~tracked.liveSent \/ moved)
             clear == ~timed /\ tracked.liveSent /\ moved
             live == IF anchor THEN loop.step ELSE NoStep
             relive == anchor \/ clear
             send == [card EXCEPT !.state = "ongoing", !.of = opened, !.total = loop.shape.total,
                           !.step = loop.step,
                           !.ladder = IF ladder THEN loop.shape ELSE @,
                           !.live = IF relive THEN live ELSE @]
             promote == [tracked EXCEPT !.sent = tracked.shape, !.total = loop.shape.total,
                                 !.step = loop.step,
                                 !.liveSent = IF relive THEN anchor ELSE @,
                                 !.liveStep = IF relive THEN live ELSE @]
  <2>1. \/ Landed(send, promote) \/ UNCHANGED <<card, tracked>>
    BY <1>4 DEF Patch
  <2>2. ToldMore(promote)
    <3>1. PICK b, c, d, e :
            promote = [tracked EXCEPT !.sent = tracked.shape, !.total = b, !.step = c,
                                      !.liveSent = d, !.liveStep = e]
      OBVIOUS
    <3> HIDE DEF promote
    <3>2. promote = [run |-> tracked.run, started |-> tracked.started, end |-> tracked.end,
                     shape |-> tracked.shape, sent |-> tracked.shape, total |-> b, step |-> c,
                     liveSent |-> d, liveStep |-> e]
      BY <1>2, <3>1 DEF IsTracked
    <3>3. QED  BY <3>2 DEF IsTracked, ToldMore
  <2>3. IsCard(send) /\ send.state # "ended"
    <3>1. PICK b, c, d, e :
            send = [card EXCEPT !.state = "ongoing", !.of = opened, !.total = b, !.step = c,
                                !.ladder = d, !.live = e]
      OBVIOUS
    <3> HIDE DEF send
    <3>2. send = [state |-> "ongoing", of |-> opened, total |-> b, ladder |-> d,
                  step |-> c, live |-> e]
      BY <1>3, <3>1 DEF IsCard
    <3>3. QED  BY <3>2 DEF IsCard
  <2> HIDE DEF send, promote
  <2>4. QED  BY <2>1, <2>2, <2>3 DEF Landed
<1>5. Patch(FALSE) \/ Patch(TRUE)  BY DEF PatchActivity
<1>6. IInv'  BY LoopKeeps DEF JInv
<1>7. QED  BY <1>1, <1>4, <1>5, <1>6, BusyKeeps, ForgeStays

(* The newest run takes the place of one whose end is pending.             *)
LEMMA SelectKeepsJ ==
  ASSUME JInv, Select
  PROVE  JInv'
<1>1. UNCHANGED <<forge, opened, seenOver, card>> /\ loop.at = "listed"
  BY DEF Select, Pick, ServerUntouched, history
<1>2. IInv' /\ ForgeSteps  BY <1>1, SelectKeeps, ForgeStays DEF JInv
<1>3. /\ tracked = NoRun \/ (Pending /\ tracked.run = loop.pending)
      /\ \A s \in Sessions : ~end[s].superseded
      /\ \A run \in loop.runs : run.id \in Runs
  BY <1>1 DEF JInv, LoopInv, Detection
<1>4. \A s \in Sessions : Live(s) => s = opened /\ Pending
  BY <1>3 DEF JInv, LoopInv, Attended
<1>5. CASE loop' = At("rest") /\ UNCHANGED <<tracked, end>>
  <2>1. TrackedOK' /\ Attended' /\ Apart'  BY <1>1, <1>5, TrackedKeeps DEF JInv
  <2>2. Detection' /\ Busy'  BY <1>5 DEF Detection, Busy, At
  <2>3. QED  BY <1>1, <1>2, <1>5, <2>1, <2>2, BesideEnds DEF LoopInv
<1>6. ASSUME NEW run \in loop.runs, run.id # loop.pending,
             loop' = [at |-> "creating", run |-> run],
             ~(Pending /\ loop.pending # 0 /\ tracked.run = loop.pending),
             UNCHANGED <<tracked, end>>
      PROVE  JInv'
  <2>1. tracked = NoRun
    <3>1. tracked # NoRun => tracked.run \in Runs  BY DEF JInv, LoopInv, TrackedOK
    <3>2. 0 \notin Runs  BY RunsAssumption
    <3>3. QED  BY <1>3, <1>6, <3>1, <3>2
  <2>2. \A s \in Sessions : ~Live(s)  BY <1>4, <2>1 DEF Pending
  <2>3. TrackedOK' /\ Attended' /\ Apart'  BY <1>1, <1>6, TrackedKeeps DEF JInv
  <2>4. Detection' /\ Busy'  BY <1>3, <1>6, <2>1, <2>2 DEF Detection, Busy, Live
  <2>5. QED  BY <1>1, <1>2, <1>6, <2>3, <2>4, BesideEnds DEF LoopInv
<1>7. ASSUME NEW run \in loop.runs, run.id # loop.pending,
             loop' = [at |-> "creating", run |-> run],
             Pending, tracked.run = loop.pending, tracked' = NoRun,
             end' = [Close(opened) EXCEPT ![opened].superseded = end[opened].pc \in Running]
      PROVE  JInv'
  <2>1. opened \in Sessions /\ end[opened].run = tracked.run /\ tracked.run \in Runs
    BY <1>7 DEF JInv, LoopInv, TrackedOK, Pending
  <2>2. PICK c : c = Close(opened)[opened]  OBVIOUS
  <2>3. PICK e : e = [c EXCEPT !.superseded = end[opened].pc \in Running]  OBVIOUS
  <2>4. /\ Close(opened) = [end EXCEPT ![opened] = c] /\ IsEnd(c)
        /\ c.run = end[opened].run /\ c.pc \in {"over", end[opened].pc}
        /\ c.pc \notin {"armed1", "armed2"}
    BY <2>1, <2>2, CloseKeeps DEF JInv
  <2>5. end' = [end EXCEPT ![opened] = e]
    BY <1>7, <2>1, <2>3, <2>4 DEF JInv, IInv, EndsKept
  <2>6. e.pc = c.pc /\ e.run = c.run /\ (e.superseded <=> end[opened].pc \in Running)
    <3>1. CASE end[opened].pc \in Running
      <4>1. e = [c EXCEPT !.superseded = TRUE]  BY <2>3, <3>1
      <4>2. QED  BY <2>4, <3>1, <4>1, SupersededAmended
    <3>2. CASE end[opened].pc \notin Running
      <4>1. (end[opened].pc \in Running) = FALSE  BY <3>2
      <4>2. e = [c EXCEPT !.superseded = FALSE]  BY <2>3, <4>1
      <4>3. QED  BY <2>4, <3>2, <4>2, SupersededAmended
    <3>3. QED  BY <3>1, <3>2
  <2>7. end'[opened] = e /\ \A s \in Sessions : s # opened => end'[s] = end[s]
    BY <2>1, <2>5 DEF JInv, IInv, EndsKept
  <2>8. \A s \in Sessions : Live(s)' => s = opened /\ Live(s) /\ end[s].pc \in Running
    BY <1>1, <1>4, <2>4, <2>6, <2>7 DEF Live, Running
  <2>9. TrackedOK' /\ Attended' /\ Apart'
    BY <1>1, <1>7, <2>6, <2>7, <2>8 DEF TrackedOK, Attended, Apart
  <2>10. \A s \in Sessions : end'[s].run = end[s].run  BY <2>4, <2>6, <2>7
  <2>11. Detection' /\ Busy'
    BY <1>3, <1>7, <2>1, <2>8, <2>10 DEF Detection, Busy
  <2>12. \A r \in Runs : Known(r) => Known(r)'  BY <1>1, <1>2, EndsKnownKept
  <2>13. EndsKnown'  BY <2>8, <2>10, <2>12 DEF JInv, EndsKnown
  <2>14. CardKnown'  BY <1>1, <2>10, <2>12 DEF JInv, CardKnown
  <2>15. QED  BY <1>2, <2>9, <2>11, <2>13, <2>14 DEF JInv, LoopInv, ForgeSteps
<1>8. QED
  <2>1. \/ loop' = At("rest") /\ UNCHANGED <<tracked, end>>
        \/ \E run \in loop.runs :
             /\ run.id # loop.pending /\ loop' = [at |-> "creating", run |-> run]
             /\ \/ /\ ~(Pending /\ loop.pending # 0 /\ tracked.run = loop.pending)
                   /\ UNCHANGED <<tracked, end>>
                \/ /\ Pending /\ tracked.run = loop.pending /\ tracked' = NoRun
                   /\ end' = [Close(opened) EXCEPT ![opened].superseded = end[opened].pc \in Running]
    BY DEF Select, Newest, Pick
  <2>2. QED  BY <1>5, <1>6, <1>7, <2>1

(* A session opens, or the creation fails.                                 *)
LEMMA CreateKeepsJ ==
  ASSUME JInv, CreateActivity
  PROVE  JInv'
<1>1. /\ UNCHANGED <<forge, seenOver>>
      /\ loop.at = "creating" /\ opened + 1 \in Sessions
  BY DEF CreateActivity, history
<1>2. IInv' /\ ForgeSteps  BY <1>1, CreateActivityKeeps, ForgeStays DEF JInv
<1>3. /\ tracked = NoRun /\ loop.run.id \in Runs
      /\ \A s \in Sessions : Live(s) => end[s].run # loop.run.id
  BY <1>1 DEF JInv, LoopInv, Detection
<1>4. \A s \in Sessions : Live(s) => end[s].superseded
  BY <1>3 DEF JInv, LoopInv, Attended, Pending
<1>5. IsCard(card') /\ card'.of = card.of /\ (card'.state = "ended" => card.state = "ended")
  <2>1. IsCard(card)  BY DEF JInv, CardKnown
  <2>2. CASE card' = card  BY <2>1, <2>2
  <2>3. CASE card' = [card EXCEPT !.state = "ongoing"]
    <3>1. card' = [state |-> "ongoing", of |-> card.of, total |-> card.total, ladder |-> card.ladder,
                   step |-> card.step, live |-> card.live]
      BY <2>1, <2>3 DEF IsCard
    <3>2. QED  BY <3>1 DEF IsCard
  <2>4. QED  BY <2>2, <2>3 DEF CreateActivity
<1>6. CASE Track(loop.run) /\ loop' = At("seeding")
  <2>1. /\ opened' = opened + 1 /\ tracked' = Entry(loop.run)
        /\ end' = [end EXCEPT ![opened + 1] = [@ EXCEPT !.run = loop.run.id]]
    BY <1>6 DEF Track, trackedRun
  <2>2. opened \in Nat /\ end[opened + 1] = NewEnd
    BY <1>1 DEF JInv, IInv, Fresh, EndsKept
  <2>3. /\ end'[opened + 1] = [NewEnd EXCEPT !.run = loop.run.id]
        /\ \A s \in Sessions : s # opened + 1 => end'[s] = end[s]
    BY <1>1, <2>1, <2>2 DEF JInv, IInv, EndsKept
  <2>4. end'[opened + 1].run = loop.run.id /\ end'[opened + 1].pc = "none"
    BY <2>3 DEF NewEnd
  <2>5. IsTracked(tracked') /\ tracked'.run = loop.run.id /\ tracked'.end = "none"
    BY <2>1 DEF Entry, IsTracked
  <2>6. TrackedOK'  BY <1>1, <1>3, <2>1, <2>4, <2>5 DEF TrackedOK
  <2>7. \A s \in Sessions : Live(s)' => Live(s) /\ s # opened + 1 /\ end'[s] = end[s]
    BY <2>3, <2>4 DEF Live, Running
  <2>8. Attended'  BY <1>4, <2>7 DEF Attended
  <2>9. Apart'  BY <1>3, <2>5, <2>7 DEF Apart
  <2>10. tracked' # NoRun
    <3>1. 0 \notin Runs /\ NoRun.run = 0  BY RunsAssumption DEF NoRun
    <3>2. QED  BY <1>3, <2>5, <3>1
  <2>11. Detection' /\ Busy'  BY <1>6, <2>5, <2>10 DEF Detection, Busy, At, Pending
  <2>12. \A r \in Runs : Known(r) => Known(r)'  BY <1>1, <1>2, EndsKnownKept
  <2>13. EndsKnown'  BY <2>7, <2>12 DEF JInv, EndsKnown
  <2>14. CardKnown'
    <3>1. SUFFICES ASSUME card'.state = "ended"
                   PROVE  /\ card.of \in Sessions /\ card.of <= opened'
                          /\ \E r \in Runs : end'[card.of].run = r /\ Known(r)'
      BY <1>5 DEF CardKnown
    <3>2. /\ card.of \in Sessions /\ card.of <= opened
          /\ end[card.of].run \in Runs /\ Known(end[card.of].run)
      BY <1>5, <3>1 DEF JInv, CardKnown
    <3>3. PICK of \in Nat : of = card.of  BY <3>2, SessionsAssumption
    <3>4. of # opened + 1 /\ of <= opened + 1  BY <2>2, <3>2, <3>3
    <3>5. QED  BY <2>1, <2>3, <2>12, <3>2, <3>3, <3>4
  <2>15. QED  BY <1>2, <2>6, <2>8, <2>9, <2>11, <2>13, <2>14 DEF JInv, LoopInv, ForgeSteps
<1>7. CASE UNCHANGED <<tracked, opened, end>> /\ loop' = At("rest")
  <2>1. TrackedOK' /\ Attended' /\ Apart'  BY <1>7, TrackedKeeps DEF JInv
  <2>2. Detection' /\ Busy'  BY <1>7 DEF Detection, Busy, At
  <2>3. \A r \in Runs : Known(r) => Known(r)'  BY <1>1, <1>2, EndsKnownKept
  <2>4. EndsKnown'  BY <1>7, <2>3 DEF JInv, EndsKnown, Live
  <2>5. CardKnown'  BY <1>5, <1>7, <2>3 DEF JInv, CardKnown
  <2>6. QED  BY <1>2, <2>1, <2>2, <2>4, <2>5 DEF JInv, LoopInv, ForgeSteps
<1>8. QED  BY <1>6, <1>7 DEF CreateActivity

(* The forge confirms that the run on screen is over, or does not.         *)
LEMMA GetRunKeepsJ ==
  ASSUME JInv, GetRun
  PROVE  JInv'
<1>1. /\ UNCHANGED <<forge, opened, card>> /\ loop.at = "confirming"
      /\ loop'.at \in {"rest", "patching"}
  BY DEF GetRun, ServerUntouched, At
<1>2. IInv' /\ ForgeSteps  BY <1>1, GetRunKeeps, ForgeStays DEF JInv
<1>3. /\ tracked # NoRun /\ ~Pending /\ IsTracked(tracked) /\ tracked.run \in Runs
      /\ opened \in Sessions /\ end[opened].run = tracked.run
  BY <1>1 DEF JInv, LoopInv, Busy, TrackedOK
<1>4. CASE UNCHANGED <<tracked, end, seenOver>>  BY <1>1, <1>2, <1>4, BusyKeeps
<1>5. ASSUME NEW started, scheduleEnd(started, loop.shape), Confirmed(forge[tracked.run]),
             seenOver' = seenOver \union {<<tracked.run, forge[tracked.run].attempt>>},
             loop' = At("rest")
      PROVE  JInv'
  <2>1. PICK y : y = loop.shape  OBVIOUS
  <2>2. PICK e : e = [end[opened] EXCEPT !.started = started, !.shape = y, !.pc = "armed1"]
    OBVIOUS
  <2>3. end' = [end EXCEPT ![opened] = e]  BY <1>5, <2>1, <2>2 DEF scheduleEnd
  <2>4. e.run = tracked.run /\ e.superseded = end[opened].superseded /\ e.pc = "armed1"
    <3>1. IsEnd(end[opened])  BY <1>3 DEF JInv, IInv, EndsKept
    <3>2. PICK x : x = end[opened]  OBVIOUS
    <3>3. e = [x EXCEPT !.started = started, !.shape = y, !.pc = "armed1"]  BY <2>2, <3>2
    <3>4. e = [run |-> x.run, started |-> started, shape |-> y, pc |-> "armed1",
               closed |-> x.closed, superseded |-> x.superseded]
      BY <3>1, <3>2, <3>3 DEF IsEnd
    <3>5. QED  BY <1>3, <3>2, <3>4
  <2>5. end'[opened] = e /\ \A s \in Sessions : s # opened => end'[s] = end[s]
    BY <1>3, <2>3 DEF JInv, IInv, EndsKept
  <2>6. tracked' = [run |-> tracked.run, started |-> started, end |-> "pending",
                    shape |-> tracked.shape, sent |-> tracked.sent, total |-> tracked.total,
                    step |-> tracked.step, liveSent |-> tracked.liveSent, liveStep |-> tracked.liveStep]
    BY <1>3, <1>5 DEF scheduleEnd, IsTracked
  <2>7. IsTracked(tracked') /\ tracked'.run = tracked.run /\ tracked'.end = "pending"
    BY <2>6 DEF IsTracked
  <2>8. ~e.superseded  BY <1>1, <1>3, <2>4 DEF JInv, IInv, Abandoned
  <2>9. tracked' # NoRun
    <3>1. 0 \notin Runs /\ NoRun.run = 0  BY RunsAssumption DEF NoRun
    <3>2. QED  BY <1>3, <2>7, <3>1
  <2>10. TrackedOK'  BY <1>1, <1>3, <2>4, <2>5, <2>7 DEF TrackedOK
  <2>11. Attended'
    BY <1>1, <1>3, <2>5, <2>7, <2>9 DEF JInv, LoopInv, Attended, Live, Pending
  <2>12. Apart'  BY <1>3, <2>5, <2>7, <2>8 DEF JInv, LoopInv, Apart, Live
  <2>13. Detection' /\ Busy'  BY <1>5 DEF Detection, Busy, At
  <2>14. \A r \in Runs : Known(r) => Known(r)'  BY <1>2, <1>5, EndsKnownKept
  <2>15. \A r \in Runs : r = tracked.run => Known(r)'
    <3>1. forge[tracked.run].on = "over" /\ forge[tracked.run].attempt \in Nat
          /\ forge[tracked.run].attempt # 0
      BY <1>3, <1>5 DEF Confirmed, JInv, ForgeOK, ForgeRuns
    <3>2. forge[tracked.run].attempt \in 1..forge[tracked.run].attempt  BY <3>1
    <3>3. QED  BY <1>1, <1>5, <3>1, <3>2 DEF Known
  <2>16. EndsKnown'  BY <1>3, <2>4, <2>5, <2>14, <2>15 DEF JInv, EndsKnown, Live
  <2>17. CardKnown'
    BY <1>1, <1>3, <2>4, <2>5, <2>14 DEF JInv, CardKnown
  <2>18. QED
    BY <1>2, <2>10, <2>11, <2>12, <2>13, <2>16, <2>17 DEF JInv, LoopInv, ForgeSteps
<1>6. QED  BY <1>4, <1>5 DEF GetRun

(* The drain closes the pending end's group.                               *)
LEMMA ShutdownKeepsJ ==
  ASSUME JInv, Shutdown
  PROVE  JInv'
<1>1. /\ UNCHANGED <<forge, tracked, opened, card, seenOver>>
      /\ loop'.at \in {"draining", "returned"}
  BY DEF Shutdown, Go, At, ServerUntouched, localVars, history
<1>2. IInv' /\ ForgeSteps  BY <1>1, ShutdownKeeps, ForgeStays DEF JInv
<1>3. Detection' /\ Busy'  BY <1>1 DEF Detection, Busy
<1>4. CASE end' = end
  <2>1. TrackedOK' /\ Attended' /\ Apart'  BY <1>1, <1>4, TrackedKeeps DEF JInv
  <2>2. QED  BY <1>1, <1>2, <1>3, <1>4, <2>1, BesideEnds DEF LoopInv
<1>5. CASE Pending /\ end' = Close(opened)
  <2>1. opened \in Sessions /\ end[opened].run = tracked.run /\ tracked # NoRun
    BY <1>5 DEF JInv, LoopInv, TrackedOK, Pending
  <2>2. PICK c : c = Close(opened)[opened]  OBVIOUS
  <2>3. /\ end' = [end EXCEPT ![opened] = c]
        /\ c.run = end[opened].run /\ c.pc \in {"over", end[opened].pc}
        /\ c.superseded => end[opened].superseded
    BY <1>5, <2>1, <2>2, CloseKeeps DEF JInv
  <2>4. end'[opened] = c /\ \A s \in Sessions : s # opened => end'[s] = end[s]
    BY <2>1, <2>3 DEF JInv, IInv, EndsKept
  <2>5. \A s \in Sessions : /\ Live(s)' => Live(s)
                            /\ end'[s].superseded => end[s].superseded
    BY <2>3, <2>4 DEF Live, Running
  <2>5a. \A s \in Sessions : end'[s].run = end[s].run  BY <2>3, <2>4
  <2>6. TrackedOK'  BY <1>1, <2>1, <2>5a DEF JInv, LoopInv, TrackedOK
  <2>7. Attended'  BY <1>1, <1>5, <2>4, <2>5 DEF JInv, LoopInv, Attended, Live, Pending
  <2>8. Apart'  BY <1>1, <2>5, <2>5a DEF JInv, LoopInv, Apart
  <2>9. \A r \in Runs : Known(r) => Known(r)'  BY <1>1, <1>2, EndsKnownKept
  <2>10. EndsKnown'  BY <2>5, <2>5a, <2>9 DEF JInv, EndsKnown
  <2>11. CardKnown'  BY <1>1, <2>5a, <2>9 DEF JInv, CardKnown
  <2>12. QED  BY <1>2, <1>3, <2>6, <2>7, <2>8, <2>10, <2>11 DEF JInv, LoopInv, ForgeSteps
<1>6. QED  BY <1>4, <1>5 DEF Shutdown

(* An end that moves on stays superseded until it is over.                 *)
LEMMA StepSupersedes ==
  ASSUME JInv, NEW s \in Sessions, Callback(s)
  PROVE  end[s].superseded => end'[s].superseded \/ end'[s].pc = "over"
<1>1. PICK from, to : Step(s, from, to)
  BY DEF Callback, Fire, Phase1, Rearm, Phase2, Clean
<1>2. end'[s] = IF to = "over" THEN Over(s) ELSE [end[s] EXCEPT !.pc = to]
  BY <1>1 DEF Step, JInv, IInv, EndsKept
<1>3. CASE to = "over"
  <2>1. end'[s] = Over(s)  BY <1>2, <1>3
  <2>2. QED  BY <2>1, OverIsEnd
<1>4. CASE to # "over"
  <2>1. end'[s] = [end[s] EXCEPT !.pc = to] /\ IsEnd(end[s])
    BY <1>2, <1>4 DEF JInv, IInv, EndsKept
  <2>2. QED  BY <2>1, PcAmended
<1>5. QED  BY <1>3, <1>4

(* A callback moves its end on; phase 2 ends the card of a run that is     *)
(* over, and only the pending end takes its run off the screen.            *)
LEMMA CallbackKeepsJ ==
  ASSUME JInv, NEW s \in Sessions, Callback(s)
  PROVE  JInv'
<1>1. UNCHANGED <<forge, loop, opened, seenOver>>
  BY DEF Callback, Fire, Phase1, Rearm, Phase2, Clean, localVars, history
<1>2. IInv' /\ ForgeSteps  BY <1>1, CallbackKeeps, ForgeStays DEF JInv
<1>3. Live(s)
  BY DEF Callback, Fire, Phase1, Rearm, Phase2, Clean, Step, Live, Running
<1>4. /\ \A t \in Sessions : t # s => end'[t] = end[t]
      /\ end'[s].run = end[s].run
      /\ end'[s].superseded => end[s].superseded
  <2>1. ASSUME NEW from, NEW to, Step(s, from, to)
        PROVE  /\ \A t \in Sessions : t # s => end'[t] = end[t]
               /\ end'[s].run = end[s].run
               /\ end'[s].superseded => end[s].superseded
    <3>1. end' = [end EXCEPT ![s] = IF to = "over" THEN Over(s) ELSE [@ EXCEPT !.pc = to]]
      BY <2>1 DEF Step
    <3>2. \A t \in Sessions : t # s => end'[t] = end[t]  BY <3>1 DEF JInv, IInv, EndsKept
    <3>3. end'[s] = IF to = "over" THEN Over(s) ELSE [end[s] EXCEPT !.pc = to]
      BY <3>1 DEF JInv, IInv, EndsKept
    <3>4. CASE to = "over"
      <4>1. end'[s] = Over(s)  BY <3>3, <3>4
      <4>2. QED  BY <3>2, <4>1, OverIsEnd
    <3>5. CASE to # "over"
      <4>1. end'[s] = [end[s] EXCEPT !.pc = to] /\ IsEnd(end[s])
        BY <3>3, <3>5 DEF JInv, IInv, EndsKept
      <4>2. QED  BY <3>2, <4>1, PcAmended
    <3>6. QED  BY <3>4, <3>5
  <2>2. \E from, to : Step(s, from, to)
    BY DEF Callback, Fire, Phase1, Rearm, Phase2, Clean
  <2>3. QED  BY <2>1, <2>2
<1>5. \A t \in Sessions : Live(t)' => Live(t)  BY <1>3, <1>4 DEF Live
<1>6. /\ tracked' = tracked \/ (tracked' = NoRun /\ Pending /\ s = opened /\ end'[s].pc = "over")
      /\ IsCard(card')
      /\ card' = card \/ card'.state = "ongoing" \/ card'.of = s
  <2>1. IsCard(card)  BY DEF JInv, CardKnown
  <2>2. CASE Fire(s) \/ Rearm(s)
    BY <2>1, <2>2 DEF Fire, Rearm, ServerUntouched, localVars
  <2>3. CASE Phase1(s)  BY <2>1, <2>3, FrameIsCard DEF Phase1, Deliver, localVars
  <2>4. CASE Phase2(s)  BY <2>1, <2>4, FrameIsCard DEF Phase2, Deliver, localVars
  <2>5. CASE Clean(s)
    <3>1. card' = card  BY <2>5 DEF Clean, ServerUntouched
    <3>2. CASE ~StillTracked(s)  BY <2>1, <2>5, <3>1, <3>2 DEF Clean
    <3>3. CASE StillTracked(s)
      <4>1. tracked # NoRun /\ end[s].run = tracked.run  BY <3>3 DEF StillTracked
      <4>2. ~end[s].superseded  BY <1>3, <4>1 DEF JInv, LoopInv, Apart
      <4>3. s = opened /\ Pending  BY <1>3, <4>2 DEF JInv, LoopInv, Attended
      <4>4. end' = [end EXCEPT ![s] = Over(s)]  BY <2>5 DEF Clean, Step
      <4>5. end'[s] = Over(s)  BY <4>4 DEF JInv, IInv, EndsKept
      <4>6. end'[s].pc = "over"  BY <4>5, OverIsEnd
      <4>7. tracked' = NoRun  BY <2>5, <3>3 DEF Clean
      <4>8. QED  BY <2>1, <3>1, <4>3, <4>6, <4>7
    <3>4. QED  BY <3>2, <3>3
  <2>6. QED  BY <2>2, <2>3, <2>4, <2>5 DEF Callback
<1>7. TrackedOK'
  BY <1>1, <1>4, <1>6 DEF JInv, LoopInv, TrackedOK
<1>8. Attended'
  <2>1. SUFFICES ASSUME NEW t \in Sessions, Live(t)', ~end'[t].superseded
                 PROVE  t = opened /\ Pending'
    BY <1>1 DEF Attended
  <2>2. Live(t) /\ ~end[t].superseded
    <3>1. Live(t)  BY <1>5, <2>1
    <3>2. CASE t # s  BY <1>4, <2>1, <3>1, <3>2
    <3>3. CASE t = s
      <4>1. end[s].superseded => end'[s].superseded \/ end'[s].pc = "over"
        BY StepSupersedes
      <4>2. end'[s].pc # "over"  BY <2>1, <3>3 DEF Live, Running
      <4>3. QED  BY <2>1, <3>1, <3>3, <4>1, <4>2
    <3>4. QED  BY <3>2, <3>3
  <2>3. t = opened /\ Pending  BY <2>2 DEF JInv, LoopInv, Attended
  <2>4. ~(t = s /\ end'[s].pc = "over")  BY <2>1 DEF Live, Running
  <2>5. tracked' = tracked  BY <1>6, <2>3, <2>4
  <2>6. QED  BY <2>3, <2>5 DEF Pending
<1>9. Apart'  BY <1>4, <1>5, <1>6 DEF JInv, LoopInv, Apart
<1>10. Detection'
  BY <1>1, <1>4, <1>5, <1>6 DEF JInv, LoopInv, Detection, Pending
<1>11. Busy'  BY <1>1, <1>6 DEF JInv, LoopInv, Busy, Pending
<1>12. \A r \in Runs : Known(r) => Known(r)'  BY <1>1, <1>2, EndsKnownKept
<1>13. EndsKnown'  BY <1>4, <1>5, <1>12 DEF JInv, EndsKnown
<1>14. CardKnown'
  <2>1. SUFFICES ASSUME card'.state = "ended"
                 PROVE  /\ card'.of \in Sessions /\ card'.of <= opened
                        /\ \E r \in Runs : end'[card'.of].run = r /\ Known(r)'
    BY <1>1, <1>6 DEF CardKnown
  <2>2. CASE card' = card
    BY <1>4, <1>12, <2>1, <2>2 DEF JInv, CardKnown
  <2>3. CASE card'.of = s
    <3>1. s <= opened
      BY <1>3, SessionsAssumption DEF JInv, IInv, Fresh, EndsKept, NewEnd, Live, Running
    <3>2. end[s].run \in Runs /\ Known(end[s].run)  BY <1>3 DEF JInv, EndsKnown
    <3>3. QED  BY <1>4, <1>12, <2>3, <3>1, <3>2
  <2>4. QED  BY <1>6, <2>1, <2>2, <2>3
<1>15. QED
  BY <1>2, <1>7, <1>8, <1>9, <1>10, <1>11, <1>13, <1>14 DEF JInv, LoopInv, ForgeSteps

LEMMA NextKeepsJ ==
  ASSUME JInv, [Next]_vars
  PROVE  JInv'
<1>1. CASE UNCHANGED vars
  <2>1. UNCHANGED <<forge, loop, tracked, opened, end, card, seenOver>>
    BY <1>1 DEF vars, localVars, history
  <2>2. IInv'  BY <1>1, NextKeeps DEF JInv
  <2>3. LoopInv'
    BY <2>1 DEF JInv, LoopInv, TrackedOK, Attended, Apart, Detection, Busy, Live, Pending
  <2>4. QED  BY <2>1, <2>2, <2>3, BesideEnds, ForgeStays
<1>2. CASE Loop
  BY <1>2, PollIdleKeepsJ, ActiveRunsKeepsJ, SelectKeepsJ, CreateKeepsJ, SeedKeepsJ,
     PollActiveKeepsJ, LiveJobsKeepsJ, GetRunKeepsJ, PatchKeepsJ DEF Loop
<1>3. QED
  BY <1>1, <1>2, ForgeKeepsJ, CallbackKeepsJ, ShutdownKeepsJ DEF Next, Returned

(* The card is ended only for an attempt that is over and that the loop    *)
(* has confirmed, however many runs, groups and re-runs there are.         *)
THEOREM NotEndedEarly == Spec => []CardNotEndedEarly
<1>1. JInv => CardNotEndedEarly  BY DEF JInv, CardKnown, Known, CardNotEndedEarly
<1>2. JInv /\ [Next]_vars => JInv'  BY NextKeepsJ
<1>3. QED  BY <1>1, <1>2, InitIsJInv, PTL DEF Spec

---------------------------------------------------------------------------
(* NoSecondCard: from the end it schedules to the next run it picks, the   *)
(* loop knows the attempt as the pending run or as the one closed last; no *)
(* list is read between that end and the first that reports its run late.  *)

(* What the loop has seen over is an attempt of before, or one that is.    *)
SeenPast ==
  /\ latest = NoAttempt \/ latest \in seenOver
  /\ \A r \in Runs : \A a \in Nat :
       <<r, a>> \in seenOver => a <= forge[r].attempt /\ (a = forge[r].attempt => forge[r].on = "over")

LagOK == \A r \in Runs : forge[r].lag \in 0..Lag

Stopped == loop.at \in {"draining", "returned"}

(* The attempt whose end was scheduled last is the pending one, or the one *)
(* closed last, if a list may report it.                                   *)
StillReported(r) == forge[r].started # 0 /\ <<r, forge[r].attempt>> = latest
Recognised(r) ==
  \/ Pending /\ tracked.run = r /\ end[opened].started = forge[r].started
  \/ tracked = NoRun /\ lastEnded = [id |-> r, started |-> forge[r].started]
ReportedStill == ~Stopped => \A r \in Runs : StillReported(r) => Recognised(r)

(* No other is still to be reported for the first time.                    *)
Unlisted(r) ==
  /\ forge[r].lag = 0 /\ Lag > 0 /\ forge[r].started # 0
  /\ <<r, forge[r].attempt>> \in seenOver
ListedOnce ==
  \A r \in Runs : Unlisted(r) => StillReported(r) /\ loop.at # "listed"

(* Until the loop stops, the group of a run on screen is open.             *)
OpenEnd == tracked # NoRun /\ ~Stopped => ~end[opened].closed

SeenBefore(run) == Attempt(run) = latest \/ FirstLate(run)
ListHolds ==
  loop.at = "listed" =>
    \A run \in loop.runs :
      SeenBefore(run) => run.id = loop.pending \/ (tracked = NoRun /\ closed(lastEnded, run))
Picked == loop.at = "creating" => latest = NoAttempt

KInv ==
  /\ SeenPast /\ LagOK /\ ReportedStill /\ ListedOnce /\ OpenEnd
  /\ ListHolds /\ Picked /\ NoSecondCard

LEMMA InitIsKInv == Init => KInv
<1> SUFFICES ASSUME Init PROVE KInv
  OBVIOUS
<1>1. \A r \in Runs : forge[r] = Unborn  BY DEF Init
<1>2. LagOK  BY <1>1, LagAssumption DEF LagOK, Unborn
<1>3. latest = NoAttempt /\ seenOver = {}  BY DEF Init
<1>4. SeenPast /\ ListedOnce  BY <1>1, <1>3 DEF SeenPast, ListedOnce, Unlisted
<1>5. ReportedStill  BY <1>1 DEF ReportedStill, StillReported, Unborn
<1>6. loop.at = "rest"  BY DEF Init, At
<1>7. ListHolds /\ Picked  BY <1>6 DEF ListHolds, Picked
<1>8. OpenEnd /\ NoSecondCard  BY DEF Init, OpenEnd, NoSecondCard
<1>9. QED  BY <1>2, <1>4, <1>5, <1>7, <1>8 DEF KInv

(* NoAttempt is of no run.                                                 *)
LEMMA AttemptsAreOfRuns ==
  ASSUME NEW r \in Runs, NEW a
  PROVE  <<r, a>> # NoAttempt
BY RunsAssumption DEF NoAttempt

(* A run that moves on is at an attempt the loop has not seen over.        *)
LEMMA ForgeNew ==
  ASSUME JInv, KInv, NEW r \in Runs,
         Create(r) \/ PickUp(r) \/ Work(r) \/ Cancel(r) \/ Rerun(r)
  PROVE  /\ \A q \in Runs : q # r => forge'[q] = forge[q]
         /\ forge'[r].attempt \in Nat /\ forge'[r].attempt >= forge[r].attempt
         /\ <<r, forge'[r].attempt>> \notin seenOver
         /\ forge'[r].lag \in 0..Lag
<1> DEFINE Good(new) ==
      /\ new.attempt \in Nat /\ new.attempt >= forge[r].attempt
      /\ <<r, new.attempt>> \notin seenOver
      /\ new.lag \in 0..Lag
<1>1. SUFFICES \E new : forge' = [forge EXCEPT ![r] = new] /\ Good(new)
  BY DEF JInv, ForgeOK
<1>2. PICK f : f = forge[r]  OBVIOUS
<1>3. /\ f \in ForgeRuns /\ f.lag \in 0..Lag
      /\ f.attempt = 0 <=> f.on = "unborn"
  BY <1>2 DEF JInv, ForgeOK, KInv, LagOK
<1>4. /\ <<r, f.attempt + 1>> \notin seenOver
      /\ f.on # "over" => <<r, f.attempt>> \notin seenOver
  <2>1. f.attempt \in Nat  BY <1>3 DEF ForgeRuns
  <2>2. QED  BY <1>2, <2>1 DEF KInv, SeenPast
<1>5. CASE Create(r)
  <2>1. PICK new : new = [Unborn EXCEPT !.on = "queued", !.attempt = 1]  OBVIOUS
  <2>2. forge' = [forge EXCEPT ![r] = new] /\ f.on = "unborn"
    BY <1>2, <1>5, <2>1 DEF Create, Change
  <2>3. f.attempt = 0  BY <1>3, <2>2
  <2>4. Good(new)  BY <1>2, <1>3, <1>4, <2>1, <2>3, LagAssumption DEF Unborn
  <2>5. QED  BY <2>2, <2>4
<1>6. CASE PickUp(r)
  <2>1. PICK new : new = [f EXCEPT !.on = "going", !.started = f.attempt, !.seen = 1]  OBVIOUS
  <2>2. forge' = [forge EXCEPT ![r] = new] /\ f.on = "queued"
    BY <1>2, <1>6, <2>1 DEF PickUp, Change
  <2>3. new.on = "going" /\ new.attempt = f.attempt /\ new.started = f.attempt /\ new.lag = f.lag
    BY <1>3, <2>1 DEF ForgeRuns
  <2>4. Good(new)  BY <1>2, <1>3, <1>4, <2>2, <2>3 DEF ForgeRuns
  <2>5. QED  BY <2>2, <2>4
<1>7. CASE Work(r)
  <2>1. f.on = "going"  BY <1>2, <1>7 DEF Work
  <2>2. \A new : new.attempt = f.attempt /\ new.lag = f.lag => Good(new)
    BY <1>2, <1>3, <1>4, <2>1 DEF ForgeRuns
  <2>3. CASE forge' = [forge EXCEPT ![r] = [f EXCEPT !.done = TRUE]]
    <3>1. PICK new : new = [f EXCEPT !.done = TRUE]  OBVIOUS
    <3>2. new.attempt = f.attempt /\ new.lag = f.lag
      BY <1>3, <3>1 DEF ForgeRuns
    <3>3. QED  BY <2>2, <2>3, <3>1, <3>2
  <2>4. CASE forge' = [forge EXCEPT ![r] = [f EXCEPT !.done = FALSE, !.seen = f.seen + 1]]
    <3>1. PICK new : new = [f EXCEPT !.done = FALSE, !.seen = f.seen + 1]  OBVIOUS
    <3>2. new.attempt = f.attempt /\ new.lag = f.lag
      BY <1>3, <3>1 DEF ForgeRuns
    <3>3. QED  BY <2>2, <2>4, <3>1, <3>2
  <2>5. CASE forge' = [forge EXCEPT ![r] = [f EXCEPT !.on = "over", !.done = TRUE]]
    <3>1. PICK new : new = [f EXCEPT !.on = "over", !.done = TRUE]  OBVIOUS
    <3>2. new.attempt = f.attempt /\ new.lag = f.lag
      BY <1>3, <3>1 DEF ForgeRuns
    <3>3. QED  BY <2>2, <2>5, <3>1, <3>2
  <2>6. QED  BY <1>2, <1>7, <2>3, <2>4, <2>5 DEF Work, Change
<1>8. CASE Cancel(r)
  <2>1. PICK new : new = [f EXCEPT !.on = "over", !.seen = 1, !.done = TRUE]  OBVIOUS
  <2>2. forge' = [forge EXCEPT ![r] = new] /\ f.on = "queued"
    BY <1>2, <1>8, <2>1 DEF Cancel, Change
  <2>3. new.on = "over" /\ new.attempt = f.attempt /\ new.lag = f.lag
    BY <1>3, <2>1 DEF ForgeRuns
  <2>4. Good(new)  BY <1>2, <1>3, <1>4, <2>2, <2>3 DEF ForgeRuns
  <2>5. QED  BY <2>2, <2>4
<1>9. CASE Rerun(r)
  <2>1. PICK new : new = [Unborn EXCEPT !.on = "queued", !.attempt = f.attempt + 1]  OBVIOUS
  <2>2. forge' = [forge EXCEPT ![r] = new]  BY <1>2, <1>9, <2>1 DEF Rerun, Change
  <2>3. new.on = "queued" /\ new.attempt = f.attempt + 1 /\ new.lag = 0
    BY <2>1 DEF Unborn
  <2>4. Good(new)  BY <1>2, <1>3, <1>4, <2>3, LagAssumption DEF ForgeRuns
  <2>5. QED  BY <2>2, <2>4
<1>10. QED  BY <1>5, <1>6, <1>7, <1>8, <1>9

LEMMA ForgeKeepsK ==
  ASSUME JInv, KInv, NEW r \in Runs,
         Create(r) \/ PickUp(r) \/ Work(r) \/ Cancel(r) \/ Rerun(r)
  PROVE  KInv'
<1>1. UNCHANGED <<loop, tracked, lastEnded, opened, end, seenOver, latest, twice>>
      /\ loop.at \in {"listing", "seeding", "scanning", "confirming"}
  BY DEF Create, PickUp, Work, Cancel, Rerun, Change, Asked, localVars, history
<1>2. /\ \A q \in Runs : q # r => forge'[q] = forge[q]
      /\ forge'[r].attempt \in Nat /\ forge'[r].attempt >= forge[r].attempt
      /\ <<r, forge'[r].attempt>> \notin seenOver
      /\ forge'[r].lag \in 0..Lag
  BY ForgeNew
<1>3. forge[r].attempt \in Nat  BY DEF JInv, ForgeOK, ForgeRuns
<1>4. SeenPast'
  <2> SUFFICES ASSUME NEW q \in Runs, NEW a \in Nat, <<q, a>> \in seenOver
               PROVE  a <= forge'[q].attempt /\ (a = forge'[q].attempt => forge'[q].on = "over")
    BY <1>1 DEF KInv, SeenPast
  <2>1. a <= forge[q].attempt /\ (a = forge[q].attempt => forge[q].on = "over")
    BY DEF KInv, SeenPast
  <2>2. CASE q # r  BY <1>2, <2>1, <2>2
  <2>3. CASE q = r  BY <1>2, <1>3, <2>1, <2>3
  <2>4. QED  BY <2>2, <2>3
<1>5. LagOK'  BY <1>2 DEF KInv, LagOK
<1>6. <<r, forge'[r].attempt>> # latest
  BY <1>2, AttemptsAreOfRuns DEF KInv, SeenPast
<1>7. ReportedStill'
  <2>1. \A q \in Runs : StillReported(q)' => q # r /\ StillReported(q)
    BY <1>1, <1>2, <1>6 DEF StillReported
  <2>2. QED
    BY <1>1, <1>2, <2>1 DEF KInv, ReportedStill, Recognised, Stopped, Pending
<1>8. ListedOnce'
  <2>1. \A q \in Runs : Unlisted(q)' => q # r /\ Unlisted(q)
    BY <1>1, <1>2 DEF Unlisted
  <2>2. QED  BY <1>1, <1>2, <2>1 DEF KInv, ListedOnce, StillReported
<1>9. ListHolds' /\ Picked'
  BY <1>1 DEF ListHolds, Picked
<1>10. OpenEnd' /\ NoSecondCard'  BY <1>1 DEF KInv, OpenEnd, NoSecondCard, Stopped
<1>11. QED  BY <1>4, <1>5, <1>7, <1>8, <1>9, <1>10 DEF KInv

(* What is known of the forge stays known while it waits for the loop.     *)
LEMMA SeenKept ==
  ASSUME KInv, forge' = forge, seenOver' = seenOver, latest' = latest
  PROVE  /\ SeenPast' /\ LagOK'
         /\ \A r \in Runs : StillReported(r)' <=> StillReported(r)
         /\ loop'.at # "listed" => ListedOnce'
BY DEF KInv, SeenPast, LagOK, StillReported, ListedOnce, Unlisted

LEMMA PollIdleKeepsK ==
  ASSUME KInv, PollIdle
  PROVE  KInv'
<1>1. /\ UNCHANGED <<forge, tracked, lastEnded, opened, end, seenOver, latest, twice>>
      /\ loop.at = "rest" /\ loop'.at = "listing"
  BY DEF PollIdle, Go, localVars, history
<1>2. SeenPast' /\ LagOK' /\ ListedOnce'  BY <1>1, SeenKept
<1>3. ReportedStill'
  BY <1>1 DEF KInv, ReportedStill, StillReported, Recognised, Stopped, Pending
<1>4. ListHolds' /\ Picked'  BY <1>1 DEF ListHolds, Picked
<1>5. OpenEnd' /\ NoSecondCard'  BY <1>1 DEF KInv, OpenEnd, NoSecondCard, Stopped
<1>6. QED  BY <1>2, <1>3, <1>4, <1>5 DEF KInv

(* A list that reports the attempt ended last, or another for the first    *)
(* time, is read while the loop knows that attempt.                        *)
LEMMA ActiveRunsKeepsK ==
  ASSUME JInv, KInv, ActiveRuns
  PROVE  KInv'
<1>0. PICK late \in SUBSET Lagging :
        /\ loop' = [at |-> "listed", pending |-> loop.pending,
                    runs |-> {Report(r) : r \in Active \union late}]
        /\ forge' = [r \in Runs |-> forge'[r]]
        /\ \A r \in Runs :
             forge'[r] = [on |-> forge[r].on, attempt |-> forge[r].attempt,
                          started |-> forge[r].started, seen |-> forge[r].seen,
                          done |-> forge[r].done, lag |-> Forgets(r, late)]
  BY ListRead
<1>1. UNCHANGED <<tracked, lastEnded, opened, end, seenOver, latest, twice>> /\ loop.at = "listing"
  BY DEF ActiveRuns, localVars, history
<1>2. \A r \in Runs : /\ forge'[r].on = forge[r].on /\ forge'[r].attempt = forge[r].attempt
                      /\ forge'[r].started = forge[r].started /\ forge'[r].lag = Forgets(r, late)
  BY <1>0
<1>3. \A r \in Runs : /\ forge[r].lag \in 0..Lag /\ forge[r].attempt \in Nat
                      /\ forge[r].started \in Nat
  BY DEF KInv, LagOK, JInv, ForgeOK, ForgeRuns
<1>4. \A r \in Runs : <<r, forge[r].attempt>> \in seenOver => forge[r].on = "over"
  BY <1>3 DEF KInv, SeenPast
<1>5. SeenPast'  BY <1>1, <1>2 DEF KInv, SeenPast
<1>6. LagOK'
  <2>1. \A r \in Runs : Forgets(r, late) \in 0..Lag
    BY <1>3, LagAssumption DEF Forgets, Lagging
  <2>2. QED  BY <1>2, <2>1 DEF LagOK
<1>7. \A r \in Runs : ~Unlisted(r)'
  <2> SUFFICES ASSUME NEW r \in Runs, Unlisted(r)' PROVE FALSE
    OBVIOUS
  <2>1. /\ Forgets(r, late) = 0 /\ Lag > 0 /\ forge[r].started # 0
        /\ <<r, forge[r].attempt>> \in seenOver
    BY <1>1, <1>2 DEF Unlisted
  <2>2. forge[r].on = "over"  BY <1>4, <2>1
  <2>3. CASE r \in Lagging  BY <1>3, <2>1, <2>3, LagAssumption DEF Forgets
  <2>4. CASE r \notin Lagging
    <3>1. forge[r].lag = 0  BY <2>1, <2>4 DEF Forgets
    <3>2. QED  BY <2>1, <2>2, <2>4, <3>1 DEF Lagging
  <2>5. QED  BY <2>3, <2>4
<1>8. ListedOnce'  BY <1>7 DEF ListedOnce
<1>9. ReportedStill'
  BY <1>0, <1>1, <1>2 DEF KInv, ReportedStill, StillReported, Recognised, Stopped, Pending
<1>10. OpenEnd' /\ NoSecondCard' /\ Picked'
  BY <1>0, <1>1 DEF KInv, OpenEnd, NoSecondCard, Stopped, Picked
<1>11. ListHolds'
  <2> SUFFICES ASSUME NEW r \in Active \union late, SeenBefore(Report(r))'
               PROVE  r = loop.pending \/ (tracked = NoRun /\ closed(lastEnded, Report(r)))
    <3>1. SUFFICES ASSUME NEW run \in loop'.runs, SeenBefore(run)'
                   PROVE  run.id = loop'.pending \/ (tracked' = NoRun /\ closed(lastEnded', run))
      BY DEF ListHolds
    <3>2. PICK r \in Active \union late : run = Report(r)  BY <1>0, <3>1
    <3>3. run.id = r /\ loop'.pending = loop.pending  BY <1>0, <3>2 DEF Report
    <3>4. Report(r).id = r /\ Report(r)' = run
      BY <1>2, <3>2, <3>3 DEF Report, Active, Lagging
    <3>5. SeenBefore(Report(r))'  BY <3>1, <3>4
    <3>6. QED  BY <1>1, <3>2, <3>3, <3>5
  <2>1. r \in Runs  BY DEF Active, Lagging
  <2>2. Report(r)' = Report(r) /\ Report(r).id = r /\ Report(r).attempt = forge[r].attempt
    BY <1>2, <2>1 DEF Report
  <2>3. \/ <<r, forge[r].attempt>> = latest
        \/ <<r, forge[r].attempt>> \in seenOver /\ Forgets(r, late) = 1
    BY <1>1, <1>2, <2>1, <2>2 DEF SeenBefore, FirstLate, Attempt
  <2>4. <<r, forge[r].attempt>> \in seenOver
    BY <2>1, <2>3, AttemptsAreOfRuns DEF KInv, SeenPast
  <2>5. r \in late /\ r \in Lagging  BY <1>4, <2>1, <2>4 DEF Active
  <2>6. forge[r].started # 0 /\ forge[r].lag < Lag  BY <2>5 DEF Lagging
  <2>7. StillReported(r)
    <3>1. CASE <<r, forge[r].attempt>> = latest  BY <2>6, <3>1 DEF StillReported
    <3>2. CASE Forgets(r, late) = 1
      <4>1. forge[r].lag = 0 /\ Lag > 0
        BY <1>3, <2>1, <2>5, <2>6, <3>2, LagAssumption DEF Forgets
      <4>2. Unlisted(r)  BY <2>4, <2>6, <4>1 DEF Unlisted
      <4>3. QED  BY <2>1, <4>2 DEF KInv, ListedOnce
    <3>3. QED  BY <2>3, <3>1, <3>2
  <2>8. Recognised(r)  BY <1>1, <2>1, <2>7 DEF KInv, ReportedStill, Stopped
  <2>9. CASE Pending /\ tracked.run = r
    <3>1. tracked.run = loop.pending
      BY <1>1, <2>9 DEF JInv, LoopInv, Detection, Pending
    <3>2. QED  BY <2>9, <3>1
  <2>10. CASE tracked = NoRun /\ lastEnded = [id |-> r, started |-> forge[r].started]
    BY <1>3, <2>1, <2>6, <2>10 DEF closed, Report
  <2>11. QED  BY <2>8, <2>9, <2>10 DEF Recognised
<1>12. QED  BY <1>5, <1>6, <1>8, <1>9, <1>10, <1>11 DEF KInv

(* Of an attempt that is over, the list's report is not followed.          *)
LEMMA SelectKeepsK ==
  ASSUME KInv, Select
  PROVE  KInv'
<1>1. /\ UNCHANGED <<forge, lastEnded, opened, seenOver>> /\ loop.at = "listed"
      /\ tracked' = NoRun \/ UNCHANGED <<tracked, end>>
      /\ \/ loop' = At("rest") /\ UNCHANGED <<tracked, end, latest, twice>>
         \/ \E run \in loop.runs : /\ ~closed(lastEnded, run) /\ run.id # loop.pending
                                   /\ Pick(run)
  BY DEF Select, Newest, Pick, history
<1>2. \A r \in Runs : ~Unlisted(r)  BY <1>1 DEF KInv, ListedOnce
<1>3. CASE loop' = At("rest") /\ UNCHANGED <<tracked, end, latest, twice>>
  <2>1. loop'.at = "rest"  BY <1>3 DEF At
  <2>2. SeenPast' /\ LagOK' /\ ListedOnce'  BY <1>1, <1>3, <2>1, SeenKept
  <2>3. ReportedStill'
    BY <1>1, <1>3 DEF KInv, ReportedStill, StillReported, Recognised, Stopped, Pending
  <2>4. ListHolds' /\ Picked'  BY <2>1 DEF ListHolds, Picked
  <2>5. OpenEnd' /\ NoSecondCard'  BY <1>1, <1>3 DEF KInv, OpenEnd, NoSecondCard, Stopped
  <2>6. QED  BY <2>2, <2>3, <2>4, <2>5 DEF KInv
<1>4. ASSUME NEW run \in loop.runs, ~closed(lastEnded, run), run.id # loop.pending, Pick(run)
      PROVE  KInv'
  <2>1. loop'.at = "creating" /\ latest' = NoAttempt
        /\ twice' = (twice \/ Attempt(run) = latest \/ FirstLate(run))
    BY <1>4 DEF Pick
  <2>2. ~SeenBefore(run)  BY <1>1, <1>4 DEF KInv, ListHolds
  <2>3. NoSecondCard'  BY <2>1, <2>2 DEF KInv, NoSecondCard, SeenBefore
  <2>4. SeenPast' /\ LagOK'  BY <1>1, <2>1 DEF KInv, SeenPast, LagOK
  <2>5. ListedOnce'  BY <1>1, <1>2 DEF ListedOnce, Unlisted
  <2>6. ReportedStill'
    BY <2>1, AttemptsAreOfRuns DEF ReportedStill, StillReported
  <2>7. ListHolds' /\ Picked'  BY <2>1 DEF ListHolds, Picked
  <2>8. OpenEnd'  BY <1>1 DEF KInv, OpenEnd, Stopped
  <2>9. QED  BY <2>3, <2>4, <2>5, <2>6, <2>7, <2>8 DEF KInv
<1>5. QED  BY <1>1, <1>3, <1>4

LEMMA CreateKeepsK ==
  ASSUME JInv, KInv, CreateActivity
  PROVE  KInv'
<1>1. /\ UNCHANGED <<forge, lastEnded, seenOver, latest, twice>> /\ loop.at = "creating"
      /\ opened + 1 \in Sessions /\ loop'.at \in {"seeding", "rest"}
  BY DEF CreateActivity, At, history
<1>2. SeenPast' /\ LagOK' /\ ListedOnce'  BY <1>1, SeenKept
<1>3. ReportedStill'
  <2>1. latest' = NoAttempt  BY <1>1 DEF KInv, Picked
  <2>2. QED  BY <2>1, AttemptsAreOfRuns DEF ReportedStill, StillReported
<1>4. ListHolds' /\ Picked' /\ NoSecondCard'
  BY <1>1 DEF KInv, ListHolds, Picked, NoSecondCard
<1>5. CASE Track(loop.run)
  <2>2. end[opened + 1] = NewEnd  BY <1>1 DEF JInv, IInv, Fresh, EndsKept
  <2>3. opened' = opened + 1 /\ end' = [end EXCEPT ![opened + 1] = [@ EXCEPT !.run = loop.run.id]]
    BY <1>5 DEF Track
  <2>4. end'[opened'] = [NewEnd EXCEPT !.run = loop.run.id]
    BY <1>1, <2>2, <2>3 DEF JInv, IInv, EndsKept
  <2>5. OpenEnd'  BY <2>4 DEF OpenEnd, NewEnd
  <2>6. QED  BY <1>2, <1>3, <1>4, <2>5 DEF KInv
<1>6. CASE UNCHANGED <<tracked, opened, end>>
  <2>1. OpenEnd'  BY <1>1, <1>6 DEF KInv, OpenEnd, Stopped
  <2>2. QED  BY <1>2, <1>3, <1>4, <2>1 DEF KInv
<1>7. QED  BY <1>5, <1>6 DEF CreateActivity

(* While a run is on screen without an end, none is still reported.        *)
LEMMA OnScreenKeepsK ==
  ASSUME JInv, KInv, UNCHANGED <<forge, lastEnded, opened, seenOver, latest, twice, end>>,
         loop'.at \in {"rest", "scanning", "confirming", "patching"},
         tracked # NoRun, ~Pending, ~Stopped
  PROVE  KInv'
<1>1. SeenPast' /\ LagOK' /\ ListedOnce' /\ \A r \in Runs : StillReported(r)' <=> StillReported(r)
  BY SeenKept
<1>2. \A r \in Runs : ~StillReported(r)
  BY DEF KInv, ReportedStill, Recognised
<1>3. ReportedStill'  BY <1>1, <1>2 DEF ReportedStill
<1>4. ListHolds' /\ Picked'  BY DEF ListHolds, Picked
<1>5. OpenEnd' /\ NoSecondCard'  BY DEF KInv, OpenEnd, NoSecondCard
<1>6. QED  BY <1>1, <1>3, <1>4, <1>5 DEF KInv

LEMMA OnScreenStepsK ==
  ASSUME JInv, KInv, Seed \/ PollActive \/ LiveJobs \/ PatchActivity
  PROVE  KInv'
<1>1. /\ UNCHANGED <<forge, lastEnded, opened, seenOver, latest, twice, end>>
      /\ loop'.at \in {"rest", "scanning", "confirming", "patching"}
      /\ \/ loop.at \in {"seeding", "scanning", "patching"}
         \/ loop.at = "rest" /\ tracked # NoRun /\ ~Pending
  <2>1. CASE Seed  BY <2>1 DEF Seed, Go, At, history
  <2>2. CASE PollActive  BY <2>2 DEF PollActive, Go, At, history
  <2>3. CASE LiveJobs
    <3>1. loop'.at \in {"rest", "confirming", "patching"}  BY <2>3 DEF LiveJobs, At
    <3>2. QED  BY <2>3, <3>1 DEF LiveJobs, history
  <2>4. CASE PatchActivity  BY <2>4 DEF PatchActivity, Go, At, history
  <2>5. QED  BY <2>1, <2>2, <2>3, <2>4
<1>2. tracked # NoRun /\ ~Pending /\ ~Stopped
  BY <1>1 DEF JInv, LoopInv, Busy, Stopped
<1>3. QED  BY <1>1, <1>2, OnScreenKeepsK

(* The attempt whose end is scheduled is the pending one.                  *)
LEMMA GetRunKeepsK ==
  ASSUME JInv, KInv, GetRun
  PROVE  KInv'
<1>1. /\ UNCHANGED <<forge, lastEnded, opened, twice>> /\ loop.at = "confirming"
      /\ loop'.at \in {"rest", "patching"}
  BY DEF GetRun, At
<1>2. /\ tracked # NoRun /\ ~Pending /\ ~Stopped /\ IsTracked(tracked) /\ tracked.run \in Runs
      /\ opened \in Sessions
  BY <1>1 DEF JInv, LoopInv, Busy, Stopped, TrackedOK
<1>3. CASE UNCHANGED <<end, seenOver, latest>>  BY <1>1, <1>2, <1>3, OnScreenKeepsK
<1>4. ASSUME NEW started,
             started = IF forge[tracked.run].started = 0
                       THEN tracked.started ELSE forge[tracked.run].started,
             scheduleEnd(started, loop.shape), Confirmed(forge[tracked.run]),
             seenOver' = seenOver \union {<<tracked.run, forge[tracked.run].attempt>>},
             latest' = <<tracked.run, forge[tracked.run].attempt>>,
             loop' = At("rest")
      PROVE  KInv'
  <2>1. PICK x, y, e : /\ x = end[opened] /\ y = loop.shape
                       /\ e = [x EXCEPT !.started = started, !.shape = y, !.pc = "armed1"]
    OBVIOUS
  <2>2. IsEnd(x)  BY <1>2, <2>1 DEF JInv, IInv, EndsKept
  <2>3. e.started = started /\ e.closed = x.closed  BY <2>1, <2>2 DEF IsEnd
  <2>4. end'[opened] = e
    <3>1. end' = [end EXCEPT ![opened] = e]  BY <1>4, <2>1 DEF scheduleEnd
    <3>2. QED  BY <1>2, <3>1 DEF JInv, IInv, EndsKept
  <2>5. tracked' = [run |-> tracked.run, started |-> started, end |-> "pending",
                    shape |-> tracked.shape, sent |-> tracked.sent, total |-> tracked.total,
                    step |-> tracked.step, liveSent |-> tracked.liveSent, liveStep |-> tracked.liveStep]
    BY <1>2, <1>4 DEF scheduleEnd, IsTracked
  <2>6. tracked'.run = tracked.run /\ tracked'.end = "pending"  BY <2>5
  <2>7. Pending'
    <3>1. 0 \notin Runs /\ NoRun.run = 0  BY RunsAssumption DEF NoRun
    <3>2. tracked' # NoRun  BY <1>2, <2>6, <3>1
    <3>3. QED  BY <2>6, <3>2 DEF Pending
  <2>8. SeenPast'
    <3>1. forge[tracked.run].attempt \in Nat /\ forge[tracked.run].on = "over"
      BY <1>2, <1>4 DEF JInv, ForgeOK, ForgeRuns, Confirmed
    <3>2. QED  BY <1>1, <1>4, <3>1 DEF KInv, SeenPast
  <2>9. LagOK'  BY <1>1 DEF KInv, LagOK
  <2>10. ReportedStill'
    <3> SUFFICES ASSUME NEW r \in Runs, StillReported(r)' PROVE Recognised(r)'
      BY DEF ReportedStill
    <3>1. forge[r].started # 0 /\ <<r, forge[r].attempt>> = latest'
      BY <1>1 DEF StillReported
    <3>2. r = tracked.run  BY <1>4, <3>1
    <3>3. QED  BY <1>1, <1>4, <2>3, <2>4, <2>6, <2>7, <3>1, <3>2 DEF Recognised
  <2>11. ListedOnce'
    <3> SUFFICES ASSUME NEW r \in Runs, Unlisted(r)' PROVE StillReported(r)'
      BY <1>1 DEF ListedOnce
    <3>1. /\ forge[r].lag = 0 /\ Lag > 0 /\ forge[r].started # 0
          /\ <<r, forge[r].attempt>> \in seenOver'
      BY <1>1 DEF Unlisted
    <3>2. CASE <<r, forge[r].attempt>> \in seenOver
      <4>1. Recognised(r)
        BY <1>2, <3>1, <3>2 DEF KInv, ListedOnce, Unlisted, ReportedStill
      <4>2. QED  BY <1>2, <4>1 DEF Recognised
    <3>3. CASE <<r, forge[r].attempt>> = latest'  BY <1>1, <3>1, <3>3 DEF StillReported
    <3>4. QED  BY <1>4, <3>1, <3>2, <3>3
  <2>12. ListHolds' /\ Picked'  BY <1>1 DEF ListHolds, Picked
  <2>13. OpenEnd' /\ NoSecondCard'
    BY <1>1, <1>2, <2>1, <2>3, <2>4 DEF KInv, OpenEnd, NoSecondCard
  <2>14. QED  BY <2>8, <2>9, <2>10, <2>11, <2>12, <2>13 DEF KInv
<1>5. QED  BY <1>3, <1>4 DEF GetRun

(* A run whose end is delivered goes from the screen into lastEnded.       *)
LEMMA CallbackKeepsK ==
  ASSUME JInv, KInv, NEW s \in Sessions, Callback(s)
  PROVE  KInv'
<1>1. UNCHANGED <<forge, loop, opened, seenOver, latest, twice>>
  BY DEF Callback, Fire, Phase1, Rearm, Phase2, Clean, localVars, history
<1>2. SeenPast' /\ LagOK' /\ \A r \in Runs : StillReported(r)' <=> StillReported(r)
  BY <1>1, SeenKept
<1>3. Live(s) /\ IsEnd(end[s])
  BY DEF Callback, Fire, Phase1, Rearm, Phase2, Clean, Step, Live, Running, JInv, IInv, EndsKept
<1>4. StillTracked(s) => s = opened /\ Pending
  <2>1. StillTracked(s) => ~end[s].superseded
    BY <1>3 DEF StillTracked, JInv, LoopInv, Apart
  <2>2. QED  BY <1>3, <2>1 DEF JInv, LoopInv, Attended
<1>5. s = opened /\ tracked # NoRun => StillTracked(s)
  BY DEF StillTracked, JInv, LoopInv, TrackedOK
<1>6. /\ \A t \in Sessions : t # s => end'[t] = end[t]
      /\ end'[s].closed => end[s].closed
      /\ end'[s].pc # "over" => end'[s].started = end[s].started
  <2>1. PICK from, to : Step(s, from, to)
    BY DEF Callback, Fire, Phase1, Rearm, Phase2, Clean
  <2>2. /\ \A t \in Sessions : t # s => end'[t] = end[t]
        /\ end'[s] = IF to = "over" THEN Over(s) ELSE [end[s] EXCEPT !.pc = to]
    BY <2>1 DEF Step, JInv, IInv, EndsKept
  <2>3. CASE to = "over"  BY <2>2, <2>3 DEF Over, NewEnd
  <2>4. CASE to # "over"
    <3>1. PICK x, d : x = end[s] /\ d = [x EXCEPT !.pc = to]  OBVIOUS
    <3>2. d.closed = x.closed /\ d.started = x.started  BY <1>3, <3>1 DEF IsEnd
    <3>3. QED  BY <2>2, <2>4, <3>1, <3>2
  <2>5. QED  BY <2>3, <2>4
<1>7. \/ tracked' = tracked /\ lastEnded' = lastEnded /\ (StillTracked(s) /\ ~Stopped => end'[s].pc # "over")
      \/ /\ StillTracked(s) /\ tracked' = NoRun
         /\ lastEnded' = [id |-> end[s].run, started |-> end[s].started]
  <2>1. \A from, to : Step(s, from, to) /\ to # "over" => end'[s].pc = to
    <3> SUFFICES ASSUME NEW from, NEW to, Step(s, from, to), to # "over"
                 PROVE  end'[s].pc = to
      OBVIOUS
    <3>1. end'[s] = [end[s] EXCEPT !.pc = to]  BY DEF Step, JInv, IInv, EndsKept
    <3>2. QED  BY <1>3, <3>1, PcAmended
  <2>2. CASE Fire(s)
    BY <2>1, <2>2 DEF Fire, localVars
  <2>3. CASE Phase1(s)  BY <2>1, <2>3 DEF Phase1, localVars
  <2>4. CASE Rearm(s)
    <3>1. StillTracked(s) /\ ~Stopped => ~end[s].closed
      BY <1>4 DEF KInv, OpenEnd, StillTracked
    <3>2. tracked' = tracked /\ lastEnded' = lastEnded  BY <2>4 DEF Rearm, localVars
    <3>3. ~end[s].closed => Step(s, "rearm", "armed2")  BY <2>4 DEF Rearm
    <3>4. QED  BY <2>1, <3>1, <3>2, <3>3
  <2>5. CASE Phase2(s)  BY <2>1, <2>5 DEF Phase2, localVars
  <2>6. CASE Clean(s)  BY <2>6, <1>4 DEF Clean
  <2>7. QED  BY <2>2, <2>3, <2>4, <2>5, <2>6 DEF Callback
<1>8. ReportedStill'
  <2> SUFFICES ASSUME NEW r \in Runs, ~Stopped, Recognised(r) PROVE Recognised(r)'
    BY <1>1, <1>2 DEF ReportedStill, KInv, Stopped
  <2>1. opened \in Sessions \/ tracked = NoRun  BY DEF JInv, LoopInv, TrackedOK
  <2>2. CASE tracked = NoRun
    <3>1. ~StillTracked(s)  BY <2>2 DEF StillTracked
    <3>2. QED  BY <1>1, <1>7, <2>2, <3>1 DEF Recognised, Pending
  <2>3. CASE tracked # NoRun
    <3>1. Pending /\ tracked.run = r /\ end[opened].started = forge[r].started
      BY <2>3 DEF Recognised
    <3>2. CASE tracked' = tracked /\ (StillTracked(s) => end'[s].pc # "over")
      <4>1. end'[opened].started = end[opened].started
        BY <1>5, <1>6, <2>1, <2>3, <3>2
      <4>2. QED  BY <1>1, <3>1, <3>2, <4>1 DEF Recognised, Pending
    <3>3. CASE /\ StillTracked(s) /\ tracked' = NoRun
               /\ lastEnded' = [id |-> end[s].run, started |-> end[s].started]
      BY <1>1, <1>4, <3>1, <3>3 DEF Recognised, StillTracked
    <3>4. QED  BY <1>7, <3>2, <3>3
  <2>4. QED  BY <2>2, <2>3
<1>9. ListedOnce' /\ Picked' /\ NoSecondCard'
  BY <1>1 DEF KInv, ListedOnce, Unlisted, StillReported, Picked, NoSecondCard
<1>10. OpenEnd'
  BY <1>1, <1>6, <1>7 DEF KInv, OpenEnd, Stopped, JInv, LoopInv, TrackedOK
<1>11. ListHolds'
  <2>1. tracked = NoRun => tracked' = NoRun /\ lastEnded' = lastEnded
    BY <1>7 DEF StillTracked
  <2>2. QED  BY <1>1, <2>1 DEF KInv, ListHolds, SeenBefore, FirstLate
<1>12. QED  BY <1>2, <1>8, <1>9, <1>10, <1>11 DEF KInv

LEMMA NextKeepsK ==
  ASSUME JInv, KInv, [Next]_vars
  PROVE  KInv'
<1>1. CASE UNCHANGED vars
  <2>1. UNCHANGED <<forge, loop, tracked, lastEnded, opened, end, seenOver, latest, twice>>
    BY <1>1 DEF vars, localVars, history
  <2>2. SeenPast' /\ LagOK'  BY <2>1, SeenKept
  <2>3. ReportedStill' /\ ListedOnce' /\ OpenEnd'
    BY <2>1 DEF KInv, ReportedStill, StillReported, Recognised, ListedOnce, Unlisted, OpenEnd,
       Stopped, Pending
  <2>4. ListHolds' /\ Picked' /\ NoSecondCard'
    BY <2>1 DEF KInv, ListHolds, Picked, SeenBefore, FirstLate, NoSecondCard
  <2>5. QED  BY <2>2, <2>3, <2>4 DEF KInv
<1>2. CASE Loop
  BY <1>2, PollIdleKeepsK, ActiveRunsKeepsK, SelectKeepsK, CreateKeepsK, OnScreenStepsK,
     GetRunKeepsK DEF Loop
<1>3. CASE Shutdown
  <2>1. UNCHANGED <<forge, lastEnded, opened, seenOver, latest, twice>> /\ Stopped'
    BY <1>3 DEF Shutdown, Go, At, Stopped, localVars, history
  <2>2. loop'.at \notin {"listed", "creating"}  BY <2>1 DEF Stopped
  <2>3. SeenPast' /\ LagOK' /\ ListedOnce'  BY <2>1, <2>2, SeenKept
  <2>4. ReportedStill' /\ OpenEnd'  BY <2>1 DEF ReportedStill, OpenEnd
  <2>5. ListHolds' /\ Picked' /\ NoSecondCard'
    BY <2>1, <2>2 DEF KInv, ListHolds, Picked, NoSecondCard
  <2>6. QED  BY <2>3, <2>4, <2>5 DEF KInv
<1>4. QED
  BY <1>1, <1>2, <1>3, ForgeKeepsK, CallbackKeepsK DEF Next, Returned

(* The attempt whose end was scheduled last is not picked again before     *)
(* another run is, and none off the first list that reports it late, for   *)
(* however many lists a forge reports a run that is over, and however many *)
(* runs, re-runs, faults and evictions there are (closed, lastEnded and    *)
(* the pending run's ID in pollIdle).                                      *)
THEOREM NeverCardedAgain == Spec => []NoSecondCard
<1>1. Init => JInv /\ KInv  BY InitIsJInv, InitIsKInv
<1>2. JInv /\ KInv /\ [Next]_vars => (JInv /\ KInv)'  BY NextKeepsJ, NextKeepsK
<1>3. JInv /\ KInv => NoSecondCard  BY DEF KInv
<1>4. QED  BY <1>1, <1>2, <1>3, PTL DEF Spec

---------------------------------------------------------------------------
(* Types.                                                                  *)

ForgeTypes ==
  [on : {"unborn", "queued", "going", "over"}, attempt : Nat, started : Nat,
   seen : Nat, done : BOOLEAN, lag : 0..Lag]
TrackedTypes ==
  [run : Runs, started : Nat, end : {"none", "pending"}, shape : Shapes,
   sent : Shapes, total : Nat, step : Steps, liveSent : BOOLEAN, liveStep : Steps]
PCs == {"none", "armed1", "send1", "rearm", "armed2", "send2", "clean", "over"}
EndTypes ==
  [run : RunRefs, started : Nat, shape : Shapes, pc : PCs, closed : BOOLEAN, superseded : BOOLEAN]

(* A run's groups are all its own, and the last ends with it.              *)
InWaves(run, r) ==
  /\ run.seen <= Groups[r]
  /\ run.on = "queued" => ~run.done
  /\ run.on = "going" /\ run.done => run.seen < Groups[r]
ForgeTyped == forge \in [Runs -> ForgeTypes] /\ \A r \in Runs : InWaves(forge[r], r)
TrackedTyped == tracked = NoRun \/ tracked \in TrackedTypes
EndsTyped == end \in [Sessions -> EndTypes]
LastTyped == lastEnded \in [id : RunRefs, started : Nat] /\ opened \in Sessions \union {0}
CardTyped ==
  /\ card.state \in {"none", "ongoing", "ended"} /\ card.ladder \in Shapes
  /\ card.of \in Sessions \union {0} /\ card.of <= opened
  /\ card.total \in Nat /\ {card.step, card.live} \subseteq Int

(* What the loop carries between two calls.                                *)
LoopTyped ==
  /\ loop.at \in {"rest", "listing", "listed", "creating", "seeding", "scanning",
                  "confirming", "patching", "draining", "returned"}
  /\ loop.at = "listed" => \A run \in loop.runs : run.started \in Nat
  /\ loop.at = "creating" => loop.run.started \in Nat
  /\ loop.at \in {"confirming", "patching"} =>
       loop.step \in Steps \ {NoStep} /\ loop.shape = tracked.shape

TInv == ForgeTyped /\ TrackedTyped /\ EndsTyped /\ LastTyped /\ CardTyped /\ LoopTyped

(* Shapes and steps a run's groups, or a prior run's, come to.             *)
LEMMA ShapeTypes ==
  /\ NoShape \in Shapes /\ Bare \in Shapes /\ {NoStep, 0} \subseteq Steps
  /\ \A r \in Runs : \A n \in 0..Groups[r] : Shape(n, "own") \in Shapes /\ n \in Steps \ {NoStep}
  /\ \A r \in Runs : \A seed \in Seeds[r] : seed \in Shapes
  /\ \A shape \in Shapes : shape.total \in Nat
<1>1. NoShape \in Shapes /\ Bare \in Shapes /\ {NoStep, 0} \subseteq Steps
  BY DEF NoShape, Bare, Shape, Shapes, Totals, Labels, Steps
<1>2. ASSUME NEW r \in Runs, NEW n \in 0..Groups[r]
      PROVE  Shape(n, "own") \in Shapes /\ n \in Steps \ {NoStep}
  <2>1. n \in Counts  BY DEF Counts
  <2>2. n \in Nat  BY GroupsAssumption
  <2>3. QED  BY <2>1, <2>2 DEF Shape, Shapes, Totals, Labels, Steps, NoStep
<1>3. ASSUME NEW r \in Runs, NEW seed \in Seeds[r]
      PROVE  seed \in Shapes
  <2>1. seed = [total |-> seed.total, labels |-> seed.labels]  BY SeedsAssumption
  <2>2. seed.total \in Totals /\ seed.labels \in Labels  BY DEF Totals, Labels
  <2>3. QED  BY <2>1, <2>2 DEF Shapes
<1>4. \A shape \in Shapes : shape.total \in Nat
  <2>1. Counts \subseteq Nat  BY GroupsAssumption DEF Counts
  <2>2. \A seed \in UNION {Seeds[r] : r \in Runs} : seed.total \in Nat  BY SeedsAssumption
  <2>3. SUFFICES ASSUME NEW total \in Totals PROVE total \in Nat
    BY DEF Shapes
  <2>4. CASE total \in Counts  BY <2>1, <2>4
  <2>5. CASE total \in {seed.total : seed \in UNION {Seeds[r] : r \in Runs}}  BY <2>2, <2>5
  <2>6. QED  BY <2>3, <2>4, <2>5 DEF Totals
<1>5. QED  BY <1>1, <1>2, <1>3, <1>4

(* The total a run is known to have only climbs.                           *)
LEMMA ClampClimbs ==
  ASSUME NEW known \in Shapes, NEW scan \in Shapes
  PROVE  Clamp(known, scan) \in Shapes /\ Clamp(known, scan).total >= known.total
<1>1. known.total \in Nat /\ scan.total \in Nat  BY ShapeTypes
<1>2. QED  BY <1>1 DEF Clamp

LEMMA FirstShapesTypes ==
  ASSUME ForgeTyped, NEW r \in Runs, NEW shape \in FirstShapes(r)
  PROVE  shape \in Shapes /\ shape.total > 0
<1> DEFINE scan == IF forge[r].seen = 0 THEN Bare ELSE Shape(forge[r].seen, "own")
<1>1. forge[r].seen \in 0..Groups[r]  BY GroupsAssumption DEF ForgeTyped, ForgeTypes, InWaves
<1>2. scan \in Shapes /\ scan.total > 0  BY <1>1, ShapeTypes DEF Bare, Shape
<1>3. PICK seed \in Seeds[r] : shape = IF seed.total > scan.total THEN seed ELSE scan
  BY DEF FirstShapes
<1>4. seed \in Shapes /\ seed.total \in Nat /\ scan.total \in Nat  BY <1>2, ShapeTypes
<1> HIDE DEF scan
<1>5. QED  BY <1>2, <1>3, <1>4

LEMMA InitIsTInv == Init => TInv
<1> SUFFICES ASSUME Init PROVE TInv
  OBVIOUS
<1>1. ForgeTyped
  <2>1. \A r \in Runs : Unborn \in ForgeTypes /\ InWaves(Unborn, r)
    BY GroupsAssumption, LagAssumption DEF Unborn, ForgeTypes, InWaves
  <2>2. QED  BY <2>1 DEF Init, ForgeTyped
<1>2. EndsTyped
  <2>1. NewEnd \in EndTypes  BY ShapeTypes DEF NewEnd, EndTypes, RunRefs, PCs
  <2>2. QED  BY <2>1 DEF Init, EndsTyped
<1>3. TrackedTyped /\ LastTyped  BY DEF Init, TrackedTyped, LastTyped, NoEnd, RunRefs
<1>4. CardTyped  BY ShapeTypes DEF Init, CardTyped, NoCard, NoStep
<1>5. LoopTyped  BY DEF Init, LoopTyped, At
<1>6. QED  BY <1>1, <1>2, <1>3, <1>4, <1>5 DEF TInv

LEMMA ForgeStaysTyped ==
  ASSUME TInv, NEW r \in Runs, Create(r) \/ PickUp(r) \/ Work(r) \/ Cancel(r) \/ Rerun(r)
  PROVE  ForgeTyped'
<1> DEFINE Good(new) == new \in ForgeTypes /\ InWaves(new, r)
<1>1. SUFFICES \E new : forge' = [forge EXCEPT ![r] = new] /\ Good(new)
  BY DEF TInv, ForgeTyped
<1>2. PICK f : f = forge[r]  OBVIOUS
<1>3. f \in ForgeTypes /\ InWaves(f, r) /\ Groups[r] \in Nat \ {0}
  BY <1>2, GroupsAssumption DEF TInv, ForgeTyped
<1>4. CASE Create(r)
  <2>1. PICK new : new = [Unborn EXCEPT !.on = "queued", !.attempt = 1]  OBVIOUS
  <2>1a. new = [on |-> "queued", attempt |-> 1, started |-> 0,
                  seen |-> 0, done |-> FALSE, lag |-> 0]
    BY <1>3, <2>1, LagAssumption DEF Unborn, ForgeTypes
  <2>2. Good(new)  BY <1>3, <2>1a, LagAssumption DEF ForgeTypes, InWaves
  <2>3. QED  BY <1>4, <2>1, <2>2 DEF Create, Change
<1>5. CASE PickUp(r)
  <2>1. PICK new : new = [f EXCEPT !.on = "going", !.started = f.attempt, !.seen = 1]  OBVIOUS
  <2>1a. new = [on |-> "going", attempt |-> f.attempt, started |-> f.attempt,
                  seen |-> 1, done |-> f.done, lag |-> f.lag]
    BY <1>3, <2>1 DEF ForgeTypes, InWaves
  <2>1b. f.on = "queued"  BY <1>2, <1>5 DEF PickUp
  <2>2. Good(new)  BY <1>3, <2>1a, <2>1b DEF ForgeTypes, InWaves
  <2>3. QED  BY <1>2, <1>5, <2>1, <2>2 DEF PickUp, Change
<1>6. CASE Work(r)
  <2>0. f.on = "going"  BY <1>2, <1>6 DEF Work
  <2>1. CASE f.seen < Groups[r] /\ forge' = [forge EXCEPT ![r] = [f EXCEPT !.done = TRUE]]
    <3>1. PICK new : new = [f EXCEPT !.done = TRUE]  OBVIOUS
    <3>1a. new = [on |-> f.on, attempt |-> f.attempt, started |-> f.started,
                  seen |-> f.seen, done |-> TRUE, lag |-> f.lag]
      BY <1>3, <3>1 DEF ForgeTypes, InWaves
    <3>2. Good(new)  BY <1>3, <2>0, <2>1, <3>1a DEF ForgeTypes, InWaves
    <3>3. QED  BY <2>1, <3>1, <3>2
  <2>2. CASE forge' = [forge EXCEPT ![r] = [f EXCEPT !.done = FALSE, !.seen = f.seen + 1]]
             /\ f.done
    <3>1. PICK new : new = [f EXCEPT !.done = FALSE, !.seen = f.seen + 1]  OBVIOUS
    <3>1a. new = [on |-> f.on, attempt |-> f.attempt, started |-> f.started,
                  seen |-> f.seen + 1, done |-> FALSE, lag |-> f.lag]
      BY <1>3, <2>2, <3>1 DEF ForgeTypes, InWaves
    <3>2. Good(new)  BY <1>3, <2>0, <2>2, <3>1a DEF ForgeTypes, InWaves
    <3>3. QED  BY <2>2, <3>1, <3>2
  <2>3. CASE forge' = [forge EXCEPT ![r] = [f EXCEPT !.on = "over", !.done = TRUE]]
    <3>1. PICK new : new = [f EXCEPT !.on = "over", !.done = TRUE]  OBVIOUS
    <3>1a. new = [on |-> "over", attempt |-> f.attempt, started |-> f.started,
                  seen |-> f.seen, done |-> TRUE, lag |-> f.lag]
      BY <1>3, <3>1 DEF ForgeTypes, InWaves
    <3>2. Good(new)  BY <1>3, <2>0, <3>1a DEF ForgeTypes, InWaves
    <3>3. QED  BY <2>3, <3>1, <3>2
  <2>4. QED  BY <1>2, <1>6, <2>1, <2>2, <2>3 DEF Work, Change
<1>7. CASE Cancel(r)
  <2>1. PICK new : new = [f EXCEPT !.on = "over", !.seen = 1, !.done = TRUE]  OBVIOUS
  <2>1a. new = [on |-> "over", attempt |-> f.attempt, started |-> f.started,
                  seen |-> 1, done |-> TRUE, lag |-> f.lag]
    BY <1>3, <2>1 DEF ForgeTypes, InWaves
  <2>2. Good(new)  BY <1>3, <2>1a DEF ForgeTypes, InWaves
  <2>3. QED  BY <1>2, <1>7, <2>1, <2>2 DEF Cancel, Change
<1>8. CASE Rerun(r)
  <2>1. PICK new : new = [Unborn EXCEPT !.on = "queued", !.attempt = f.attempt + 1]  OBVIOUS
  <2>1a. new = [on |-> "queued", attempt |-> f.attempt + 1, started |-> 0,
                  seen |-> 0, done |-> FALSE, lag |-> 0]
    BY <1>3, <2>1, LagAssumption DEF Unborn, ForgeTypes
  <2>2. Good(new)  BY <1>3, <2>1a, LagAssumption DEF ForgeTypes, InWaves
  <2>3. QED  BY <1>2, <1>8, <2>1, <2>2 DEF Rerun, Change
<1>9. QED  BY <1>4, <1>5, <1>6, <1>7, <1>8

(* The parts of the state a step leaves alone stay typed.                  *)
LEMMA ForgeSame ==
  ASSUME ForgeTyped, forge' = forge
  PROVE  ForgeTyped'
BY DEF ForgeTyped

LEMMA EndsSame ==
  ASSUME EndsTyped, end' = end
  PROVE  EndsTyped'
BY DEF EndsTyped

LEMMA CardSame ==
  ASSUME CardTyped, card' = card, opened' = opened
  PROVE  CardTyped'
BY DEF CardTyped

LEMMA LastSame ==
  ASSUME LastTyped, lastEnded' = lastEnded, opened' = opened
  PROVE  LastTyped'
BY DEF LastTyped

LEMMA TrackedSame ==
  ASSUME TrackedTyped, tracked' = tracked \/ tracked' = NoRun
  PROVE  TrackedTyped'
BY DEF TrackedTyped

LEMMA EndAmended ==
  ASSUME NEW e \in EndTypes, NEW pc \in PCs, NEW b \in BOOLEAN, NEW n \in Nat, NEW shape \in Shapes
  PROVE  /\ [e EXCEPT !.pc = pc] \in EndTypes /\ [e EXCEPT !.closed = b] \in EndTypes
         /\ [e EXCEPT !.superseded = b] \in EndTypes
         /\ [e EXCEPT !.started = n, !.shape = shape, !.pc = pc] \in EndTypes
<1>1. [e EXCEPT !.pc = pc] =
        [run |-> e.run, started |-> e.started, shape |-> e.shape, pc |-> pc,
         closed |-> e.closed, superseded |-> e.superseded]
  BY DEF EndTypes
<1>2. [e EXCEPT !.closed = b] =
        [run |-> e.run, started |-> e.started, shape |-> e.shape, pc |-> e.pc,
         closed |-> b, superseded |-> e.superseded]
  BY DEF EndTypes
<1>3. [e EXCEPT !.superseded = b] =
        [run |-> e.run, started |-> e.started, shape |-> e.shape, pc |-> e.pc,
         closed |-> e.closed, superseded |-> b]
  BY DEF EndTypes
<1>4. PICK d : d = [e EXCEPT !.started = n, !.shape = shape, !.pc = pc]  OBVIOUS
<1>4a. d = [run |-> e.run, started |-> n, shape |-> shape, pc |-> pc,
            closed |-> e.closed, superseded |-> e.superseded]
  BY <1>4 DEF EndTypes
<1>5. QED  BY <1>1, <1>2, <1>3, <1>4, <1>4a DEF EndTypes

LEMMA OverTyped ==
  ASSUME EndsTyped, NEW s \in Sessions
  PROVE  Over(s) \in EndTypes
<1>1. end[s].run \in RunRefs  BY DEF EndsTyped, EndTypes
<1>2. Over(s) = [run |-> end[s].run, started |-> 0, shape |-> NoShape, pc |-> "over",
                 closed |-> FALSE, superseded |-> FALSE]
  <2>1. PICK r : r = end[s].run  OBVIOUS
  <2>2. PICK e : e = [NewEnd EXCEPT !.run = r, !.pc = "over"]  OBVIOUS
  <2>3. e = [run |-> r, started |-> 0, shape |-> NoShape, pc |-> "over",
             closed |-> FALSE, superseded |-> FALSE]
    BY <2>2 DEF NewEnd
  <2>4. QED  BY <2>1, <2>2, <2>3 DEF Over
<1>3. QED  BY <1>1, <1>2, ShapeTypes DEF EndTypes, PCs

LEMMA CloseTyped ==
  ASSUME EndsTyped, opened \in Sessions
  PROVE  Close(opened) \in [Sessions -> EndTypes]
<1>1. CASE end[opened].pc \in {"armed1", "armed2"}
  <2>1. Close(opened) = [end EXCEPT ![opened] = Over(opened)]
    BY <1>1 DEF Close, EndsTyped
  <2>2. QED  BY <2>1, OverTyped DEF EndsTyped
<1>2. CASE end[opened].pc \notin {"armed1", "armed2"}
  <2>1. PICK e : e = [end[opened] EXCEPT !.closed = TRUE]  OBVIOUS
  <2>2. Close(opened) = [end EXCEPT ![opened] = e]
    BY <1>2, <2>1 DEF Close, EndsTyped
  <2>3. e \in EndTypes
    <3>1. end[opened] \in EndTypes  BY DEF EndsTyped
    <3>2. \A x \in EndTypes : [x EXCEPT !.closed = TRUE] \in EndTypes
      BY EndAmended, ShapeTypes DEF PCs
    <3>3. QED  BY <2>1, <3>1, <3>2
  <2>4. QED  BY <2>2, <2>3 DEF EndsTyped
<1>3. QED  BY <1>1, <1>2

(* A frame is a card of its session.                                       *)
LEMMA FrameTyped ==
  ASSUME opened' = opened, NEW state \in {"ongoing", "ended"}, NEW s \in Sessions, s <= opened,
         NEW shape \in Shapes, NEW step \in Int, card' = FullUpdate(state, s, shape, step)
  PROVE  CardTyped'
<1>1. shape.total \in Nat  BY ShapeTypes
<1>2. QED  BY <1>1 DEF CardTyped, FullUpdate, NoStep

LEMMA ForgeKeepsT ==
  ASSUME TInv, NEW r \in Runs, Create(r) \/ PickUp(r) \/ Work(r) \/ Cancel(r) \/ Rerun(r)
  PROVE  TInv'
<1>1. UNCHANGED <<loop, tracked, lastEnded, opened, end, card>>
  BY DEF Create, PickUp, Work, Cancel, Rerun, Change, localVars
<1>2. ForgeTyped'  BY ForgeStaysTyped
<1>3. TrackedTyped' /\ EndsTyped' /\ LastTyped' /\ CardTyped'
  BY <1>1, TrackedSame, EndsSame, LastSame, CardSame DEF TInv
<1>4. LoopTyped'  BY <1>1 DEF TInv, LoopTyped
<1>5. QED  BY <1>2, <1>3, <1>4 DEF TInv

(* The loop's steps that only ask.                                         *)
LEMMA AskingKeepsT ==
  ASSUME JInv, TInv, PollIdle \/ PollActive \/ ActiveRuns
  PROVE  TInv'
<1>1. /\ UNCHANGED <<lastEnded, opened, end, card>> /\ (tracked' = tracked \/ tracked' = NoRun)
      /\ loop'.at \in {"listing", "rest", "scanning", "listed"}
  BY DEF PollIdle, PollActive, ActiveRuns, Go, At, ServerUntouched, localVars
<1>2. TrackedTyped' /\ EndsTyped' /\ LastTyped' /\ CardTyped'
  <2>1. TrackedTyped'  BY <1>1, TrackedSame DEF TInv
  <2>2. EndsTyped' /\ LastTyped' /\ CardTyped'  BY <1>1, EndsSame, LastSame, CardSame DEF TInv
  <2>3. QED  BY <2>1, <2>2
<1>3. CASE PollIdle \/ PollActive
  <2>1. forge' = forge /\ loop'.at # "listed"
    BY <1>3 DEF PollIdle, PollActive, Go, At, localVars
  <2>2. ForgeTyped'  BY <2>1, ForgeSame DEF TInv
  <2>3. LoopTyped'  BY <1>1, <2>1 DEF LoopTyped
  <2>4. QED  BY <1>2, <2>2, <2>3 DEF TInv
<1>4. CASE ActiveRuns
  <2>1. PICK late \in SUBSET Lagging :
          /\ loop' = [at |-> "listed", pending |-> loop.pending,
                      runs |-> {Report(r) : r \in Active \union late}]
          /\ forge' = [r \in Runs |-> forge'[r]]
          /\ \A r \in Runs :
               forge'[r] = [on |-> forge[r].on, attempt |-> forge[r].attempt,
                            started |-> forge[r].started, seen |-> forge[r].seen,
                            done |-> forge[r].done, lag |-> Forgets(r, late)]
    BY <1>4, ListRead
  <2>2. ASSUME NEW r \in Runs
        PROVE  forge'[r] \in ForgeTypes /\ InWaves(forge'[r], r)
    <3>1. forge[r] \in ForgeTypes /\ InWaves(forge[r], r)  BY DEF TInv, ForgeTyped
    <3>2. Forgets(r, late) \in 0..Lag
      BY <3>1, LagAssumption DEF Forgets, Lagging, ForgeTypes
    <3>3. QED  BY <2>1, <3>1, <3>2 DEF ForgeTypes, InWaves
  <2>3. ForgeTyped'  BY <2>1, <2>2 DEF ForgeTyped
  <2>4. \A r \in Runs : forge[r].started \in Nat  BY DEF TInv, ForgeTyped, ForgeTypes
  <2>5. LoopTyped'
    <3>1. \A r \in Active \union late : Report(r).started \in Nat
      BY <2>4 DEF Report, Active, Lagging
    <3>2. QED  BY <2>1, <3>1 DEF LoopTyped
  <2>6. QED  BY <1>2, <2>3, <2>5 DEF TInv
<1>5. QED  BY <1>3, <1>4

LEMMA SelectKeepsT ==
  ASSUME JInv, TInv, Select
  PROVE  TInv'
<1>1. /\ UNCHANGED <<forge, lastEnded, opened, card>> /\ (tracked' = tracked \/ tracked' = NoRun)
      /\ loop.at = "listed"
      /\ \/ loop' = At("rest")
         \/ \E run \in loop.runs : loop' = [at |-> "creating", run |-> run]
      /\ \/ end' = end
         \/ /\ Pending
            /\ end' = [Close(opened) EXCEPT ![opened].superseded = end[opened].pc \in Running]
  BY DEF Select, Newest, Pick, ServerUntouched
<1>2. ForgeTyped' /\ TrackedTyped' /\ LastTyped' /\ CardTyped'
  <2>1. TrackedTyped'  BY <1>1, TrackedSame DEF TInv
  <2>2. ForgeTyped' /\ LastTyped' /\ CardTyped'  BY <1>1, ForgeSame, LastSame, CardSame DEF TInv
  <2>3. QED  BY <2>1, <2>2
<1>3. LoopTyped'  BY <1>1 DEF TInv, LoopTyped, At
<1>4. EndsTyped'
  <2>1. CASE end' = end  BY <2>1, EndsSame DEF TInv
  <2>2. CASE Pending /\ end' = [Close(opened) EXCEPT ![opened].superseded = end[opened].pc \in Running]
    <3>1. opened \in Sessions  BY <2>2 DEF JInv, LoopInv, TrackedOK, Pending
    <3>2. Close(opened) \in [Sessions -> EndTypes]  BY <3>1, CloseTyped DEF TInv
    <3>3. PICK b \in BOOLEAN : b = (end[opened].pc \in Running)
      <4>1. (end[opened].pc \in Running) \in BOOLEAN  BY DEF Running
      <4>2. QED  BY <4>1
    <3>4. PICK c, e : c = Close(opened)[opened] /\ e = [c EXCEPT !.superseded = b]  OBVIOUS
    <3>5. e \in EndTypes
      <4>1. c \in EndTypes  BY <3>1, <3>2, <3>4
      <4>2. \A x \in EndTypes : [x EXCEPT !.superseded = b] \in EndTypes
        BY EndAmended, ShapeTypes DEF PCs
      <4>3. QED  BY <3>4, <4>1, <4>2
    <3>6. end' = [Close(opened) EXCEPT ![opened] = e]  BY <2>2, <3>1, <3>2, <3>3, <3>4
    <3>7. QED  BY <3>2, <3>5, <3>6 DEF EndsTyped
  <2>3. QED  BY <1>1, <2>1, <2>2
<1>5. QED  BY <1>2, <1>3, <1>4 DEF TInv

LEMMA ShutdownKeepsT ==
  ASSUME JInv, TInv, Shutdown
  PROVE  TInv'
<1>1. /\ UNCHANGED <<forge, tracked, lastEnded, opened, card>>
      /\ loop'.at \in {"draining", "returned"}
      /\ end' = end \/ (Pending /\ end' = Close(opened))
  BY DEF Shutdown, Go, At, ServerUntouched, localVars
<1>2. ForgeTyped' /\ TrackedTyped' /\ LastTyped' /\ CardTyped'
  BY <1>1, ForgeSame, TrackedSame, LastSame, CardSame DEF TInv
<1>3. LoopTyped'  BY <1>1 DEF LoopTyped
<1>4. EndsTyped'
  <2>1. CASE end' = end  BY <2>1, EndsSame DEF TInv
  <2>2. CASE Pending /\ end' = Close(opened)
    <3>1. opened \in Sessions  BY <2>2 DEF JInv, LoopInv, TrackedOK, Pending
    <3>2. QED  BY <2>2, <3>1, CloseTyped DEF TInv, EndsTyped
  <2>3. QED  BY <1>1, <2>1, <2>2
<1>5. QED  BY <1>2, <1>3, <1>4 DEF TInv

LEMMA CreateKeepsT ==
  ASSUME JInv, TInv, CreateActivity
  PROVE  TInv'
<1>1. /\ UNCHANGED <<forge, lastEnded>> /\ loop.at = "creating" /\ opened + 1 \in Sessions
      /\ loop'.at \in {"seeding", "rest"}
      /\ card' = card \/ card' = [card EXCEPT !.state = "ongoing"]
      /\ \/ Track(loop.run)
         \/ UNCHANGED <<tracked, opened, end>>
  BY DEF CreateActivity, At
<1>2. opened \in Nat /\ (opened' = opened \/ opened' = opened + 1)
  BY <1>1, SessionsAssumption DEF Track, TInv, LastTyped
<1>3. ForgeTyped' /\ LastTyped'
  BY <1>1, <1>2, ForgeSame DEF TInv, LastTyped
<1>4. CardTyped'
  <2>1. \/ card' = card
        \/ card' = [state |-> "ongoing", of |-> card.of, total |-> card.total, ladder |-> card.ladder,
                    step |-> card.step, live |-> card.live]
    BY <1>1 DEF JInv, CardKnown, IsCard
  <2>2. card.of \in Nat
    <3>1. card.of \in Sessions \union {0}  BY DEF TInv, CardTyped
    <3>2. CASE card.of = 0  BY <3>2
    <3>3. CASE card.of \in Sessions  BY <3>3, SessionsAssumption
    <3>4. QED  BY <3>1, <3>2, <3>3
  <2>3. QED  BY <1>2, <2>1, <2>2 DEF TInv, CardTyped
<1>5. LoopTyped'  BY <1>1 DEF LoopTyped
<1>6. loop.run.id \in Runs /\ loop.run.started \in Nat
  BY <1>1 DEF JInv, LoopInv, Detection, TInv, LoopTyped
<1>7. CASE Track(loop.run)
  <2>1. Entry(loop.run) \in TrackedTypes
    BY <1>6, ShapeTypes DEF Entry, TrackedTypes
  <2>2. TrackedTyped'  BY <1>7, <2>1 DEF Track, trackedRun, TrackedTyped
  <2>3. PICK r, e : r = loop.run.id /\ e = [end[opened + 1] EXCEPT !.run = r]  OBVIOUS
  <2>4. end' = [end EXCEPT ![opened + 1] = e]  BY <1>7, <2>3 DEF Track
  <2>5. e \in EndTypes
    <3>1. end[opened + 1] \in EndTypes  BY <1>1 DEF TInv, EndsTyped
    <3>2. PICK x : x = end[opened + 1]  OBVIOUS
    <3>3. e = [run |-> r, started |-> x.started, shape |-> x.shape, pc |-> x.pc,
               closed |-> x.closed, superseded |-> x.superseded]
      BY <2>3, <3>1, <3>2 DEF EndTypes
    <3>4. QED  BY <1>6, <2>3, <3>1, <3>2, <3>3 DEF EndTypes, RunRefs
  <2>6. EndsTyped'  BY <2>4, <2>5 DEF TInv, EndsTyped
  <2>7. QED  BY <1>3, <1>4, <1>5, <2>2, <2>6 DEF TInv
<1>8. CASE UNCHANGED <<tracked, opened, end>>
  BY <1>3, <1>4, <1>5, <1>8, TrackedSame, EndsSame DEF TInv
<1>9. QED  BY <1>1, <1>7, <1>8

(* What the loop is told of the run on screen.                             *)
LEMMA BusyTyped ==
  ASSUME JInv, TInv, loop.at \in {"seeding", "scanning", "confirming", "patching"}
  PROVE  /\ tracked # NoRun /\ ~Pending /\ tracked \in TrackedTypes
         /\ opened \in Sessions /\ opened <= opened /\ end[opened].run = tracked.run
<1>1. tracked # NoRun /\ ~Pending  BY DEF JInv, LoopInv, Busy
<1>2. opened \in Sessions /\ end[opened].run = tracked.run
  BY <1>1 DEF JInv, LoopInv, TrackedOK
<1>3. opened \in Nat  BY DEF JInv, IInv, EndsKept
<1>4. QED  BY <1>1, <1>2, <1>3 DEF TInv, TrackedTyped

LEMMA SeedKeepsT ==
  ASSUME JInv, TInv, Seed
  PROVE  TInv'
<1>1. /\ UNCHANGED <<forge, lastEnded, opened, end>>
      /\ loop.at = "seeding" /\ loop'.at = "rest"
  BY DEF Seed, Go, At
<1>2. /\ tracked \in TrackedTypes /\ opened \in Sessions /\ opened <= opened
      /\ end[opened].run \in Runs
  BY <1>1, BusyTyped DEF TrackedTypes
<1>3. PICK shape \in FirstShapes(end[opened].run) :
        /\ card' = card \/ card' = FullUpdate("ongoing", opened, shape, 0)
        /\ \/ tracked' = [tracked EXCEPT !.shape = shape, !.sent = shape]
           \/ tracked' = [tracked EXCEPT !.shape = shape, !.sent = NoShape]
  BY DEF Seed
<1>4. shape \in Shapes  BY <1>2, <1>3, FirstShapesTypes DEF TInv
<1>5. TrackedTyped'
  <2>1. \A sent \in Shapes : [tracked EXCEPT !.shape = shape, !.sent = sent] \in TrackedTypes
    BY <1>2, <1>4 DEF TrackedTypes
  <2>2. QED  BY <1>3, <1>4, <2>1, ShapeTypes DEF TrackedTyped
<1>6. CardTyped'
  <2>1. CASE card' = card  BY <1>1, <2>1, CardSame DEF TInv
  <2>2. CASE card' = FullUpdate("ongoing", opened, shape, 0)
    BY <1>1, <1>2, <1>4, <2>2, FrameTyped
  <2>3. QED  BY <1>3, <2>1, <2>2
<1>7. LoopTyped'  BY <1>1 DEF LoopTyped
<1>8. ForgeTyped' /\ EndsTyped' /\ LastTyped'  BY <1>1, ForgeSame, EndsSame, LastSame DEF TInv
<1>9. QED  BY <1>5, <1>6, <1>7, <1>8 DEF TInv

LEMMA LiveJobsKeepsT ==
  ASSUME JInv, TInv, LiveJobs
  PROVE  TInv'
<1>1. UNCHANGED <<forge, lastEnded, opened, end, card>> /\ loop.at = "scanning"
  BY DEF LiveJobs, ServerUntouched
<1>2. tracked \in TrackedTypes /\ tracked.run \in Runs /\ tracked.shape \in Shapes
  BY <1>1, BusyTyped DEF TrackedTypes
<1>3. ForgeTyped' /\ EndsTyped' /\ LastTyped' /\ CardTyped'
  BY <1>1, ForgeSame, EndsSame, LastSame, CardSame DEF TInv
<1>4. CASE UNCHANGED tracked /\ loop' = At("rest")
  <2>1. TrackedTyped' /\ LoopTyped'  BY <1>4, TrackedSame DEF TInv, LoopTyped, At
  <2>2. QED  BY <1>3, <2>1 DEF TInv
<1>5. CASE \E at \in {"confirming", "patching"} :
             LET shape == Clamp(tracked.shape, Shape(forge[tracked.run].seen, "own"))
             IN /\ tracked' = [tracked EXCEPT !.shape = shape]
                /\ loop' = [at |-> at, shape |-> shape, step |-> forge[tracked.run].seen]
  <2>1. PICK n : n = forge[tracked.run].seen  OBVIOUS
  <2>2. n \in 0..Groups[tracked.run]
    BY <1>2, <2>1, GroupsAssumption DEF TInv, ForgeTyped, ForgeTypes, InWaves
  <2>3. Shape(n, "own") \in Shapes /\ n \in Steps \ {NoStep}  BY <1>2, <2>2, ShapeTypes
  <2>4. PICK shape : shape = Clamp(tracked.shape, Shape(n, "own"))  OBVIOUS
  <2>5. shape \in Shapes  BY <1>2, <2>3, <2>4, ClampClimbs
  <2>6. PICK at \in {"confirming", "patching"} :
          /\ tracked' = [tracked EXCEPT !.shape = shape]
          /\ loop' = [at |-> at, shape |-> shape, step |-> n]
    BY <1>5, <2>1, <2>4
  <2>7. tracked' = [run |-> tracked.run, started |-> tracked.started, end |-> tracked.end,
                    shape |-> shape, sent |-> tracked.sent, total |-> tracked.total,
                    step |-> tracked.step, liveSent |-> tracked.liveSent, liveStep |-> tracked.liveStep]
    BY <1>2, <2>6 DEF TrackedTypes
  <2>8. tracked' \in TrackedTypes /\ tracked'.shape = shape
    BY <1>2, <2>5, <2>7 DEF TrackedTypes
  <2>9. TrackedTyped' /\ LoopTyped'  BY <2>3, <2>6, <2>8 DEF TrackedTyped, LoopTyped
  <2>10. QED  BY <1>3, <2>9 DEF TInv
<1>6. QED  BY <1>4, <1>5 DEF LiveJobs

(* What an update of the run on screen comes to.                           *)
Moved == loop.step # tracked.liveStep
Anchored(timed) == timed /\ (~tracked.liveSent \/ Moved)
Relived(timed) == Anchored(timed) \/ (~timed /\ tracked.liveSent /\ Moved)
LiveNow(timed) == IF Anchored(timed) THEN loop.step ELSE NoStep

PatchSend(timed) ==
  [state |-> "ongoing", of |-> opened, total |-> tracked.shape.total,
   ladder |-> IF tracked.sent # tracked.shape THEN tracked.shape ELSE card.ladder,
   step |-> loop.step, live |-> IF Relived(timed) THEN LiveNow(timed) ELSE card.live]
PatchPromote(timed) ==
  [run |-> tracked.run, started |-> tracked.started, end |-> tracked.end,
   shape |-> tracked.shape, sent |-> tracked.shape, total |-> tracked.shape.total, step |-> loop.step,
   liveSent |-> IF Relived(timed) THEN Anchored(timed) ELSE tracked.liveSent,
   liveStep |-> IF Relived(timed) THEN LiveNow(timed) ELSE tracked.liveStep]

LEMMA PatchIs ==
  ASSUME JInv, TInv, PatchActivity
  PROVE  \E timed \in BOOLEAN :
           \/ Landed(PatchSend(timed), PatchPromote(timed))
           \/ UNCHANGED <<card, tracked, lost>>
<1>1. loop.at = "patching"  BY DEF PatchActivity, Go
<1>2. /\ tracked \in TrackedTypes /\ loop.shape = tracked.shape
      /\ IsTracked(tracked) /\ IsCard(card)
  BY <1>1, BusyTyped DEF TInv, LoopTyped, JInv, LoopInv, TrackedOK, CardKnown
<1>3. PICK timed \in BOOLEAN : Patch(timed)  BY DEF PatchActivity
<1>4. [card EXCEPT !.state = "ongoing", !.of = opened, !.total = loop.shape.total,
                   !.step = loop.step,
                   !.ladder = IF tracked.sent # tracked.shape THEN loop.shape ELSE @,
                   !.live = IF Relived(timed) THEN LiveNow(timed) ELSE @]
      = PatchSend(timed)
  <2>1. PICK total, step, ladder, live :
          /\ total = tracked.shape.total /\ step = loop.step
          /\ ladder = IF tracked.sent # tracked.shape THEN tracked.shape ELSE card.ladder
          /\ live = IF Relived(timed) THEN LiveNow(timed) ELSE card.live
    OBVIOUS
  <2>2. PICK c : c = [card EXCEPT !.state = "ongoing", !.of = opened, !.total = total, !.step = step,
                                  !.ladder = ladder, !.live = live]
    OBVIOUS
  <2>3. c = [state |-> "ongoing", of |-> opened, total |-> total, ladder |-> ladder,
             step |-> step, live |-> live]
    BY <1>2, <2>2 DEF IsCard
  <2>4. c = PatchSend(timed)  BY <2>1, <2>3 DEF PatchSend
  <2>5. QED  BY <1>2, <2>1, <2>2, <2>4
<1>5. [tracked EXCEPT !.sent = tracked.shape, !.total = loop.shape.total,
                      !.step = loop.step,
                      !.liveSent = IF Relived(timed) THEN Anchored(timed) ELSE @,
                      !.liveStep = IF Relived(timed) THEN LiveNow(timed) ELSE @]
      = PatchPromote(timed)
  <2>1. PICK total, step, sent, live :
          /\ total = tracked.shape.total /\ step = loop.step
          /\ sent = IF Relived(timed) THEN Anchored(timed) ELSE tracked.liveSent
          /\ live = IF Relived(timed) THEN LiveNow(timed) ELSE tracked.liveStep
    OBVIOUS
  <2>2. PICK t : t = [tracked EXCEPT !.sent = tracked.shape, !.total = total, !.step = step,
                                     !.liveSent = sent, !.liveStep = live]
    OBVIOUS
  <2>3. t = [run |-> tracked.run, started |-> tracked.started, end |-> tracked.end,
             shape |-> tracked.shape, sent |-> tracked.shape, total |-> total, step |-> step,
             liveSent |-> sent, liveStep |-> live]
    BY <1>2, <2>2 DEF IsTracked
  <2>4. t = PatchPromote(timed)  BY <2>1, <2>3 DEF PatchPromote
  <2>5. QED  BY <1>2, <2>1, <2>2, <2>4
<1>6. QED  BY <1>3, <1>4, <1>5 DEF Patch, Relived, LiveNow, Anchored, Moved

LEMMA StepTypes == \A n \in Steps : n \in Int /\ (n # NoStep => n \in Nat)
<1>1. ASSUME NEW n \in Counts PROVE n \in Nat
  BY GroupsAssumption DEF Counts
<1>2. QED  BY <1>1 DEF Steps, NoStep

LEMMA PatchKeepsT ==
  ASSUME JInv, TInv, PatchActivity
  PROVE  TInv'
<1>1. /\ UNCHANGED <<forge, lastEnded, opened, end>>
      /\ loop.at = "patching" /\ loop'.at = "rest"
  BY DEF PatchActivity, Go, At
<1>2. /\ tracked \in TrackedTypes /\ opened \in Sessions /\ opened <= opened
      /\ loop.step \in Steps /\ tracked.shape \in Shapes
  BY <1>1, BusyTyped DEF TrackedTypes, TInv, LoopTyped
<1>3. PICK timed \in BOOLEAN :
           \/ Landed(PatchSend(timed), PatchPromote(timed))
           \/ UNCHANGED <<card, tracked, lost>>
  BY PatchIs
<1>4. TrackedTyped'
  <2>1. Anchored(timed) \in BOOLEAN /\ LiveNow(timed) \in Steps
    BY <1>2, ShapeTypes DEF Anchored, LiveNow
  <2>2. tracked.shape.total \in Nat  BY <1>2, ShapeTypes
  <2>3. PatchPromote(timed) \in TrackedTypes
    BY <1>2, <2>1, <2>2 DEF PatchPromote, TrackedTypes
  <2>4. QED  BY <1>2, <1>3, <2>3 DEF Landed, TrackedTyped
<1>5. CardTyped'
  <2>1. LiveNow(timed) \in Int /\ loop.step \in Int
    BY <1>2, StepTypes, ShapeTypes DEF LiveNow
  <2>2. tracked.shape.total \in Nat  BY <1>2, ShapeTypes
  <2>3. card' = card \/ card' = PatchSend(timed)  BY <1>3 DEF Landed
  <2>4. QED  BY <1>1, <1>2, <2>1, <2>2, <2>3 DEF TInv, CardTyped, PatchSend
<1>6. LoopTyped'  BY <1>1 DEF LoopTyped
<1>7. ForgeTyped' /\ EndsTyped' /\ LastTyped'  BY <1>1, ForgeSame, EndsSame, LastSame DEF TInv
<1>8. QED  BY <1>4, <1>5, <1>6, <1>7 DEF TInv

(* An end that is scheduled carries the shape of the card's last frame.    *)
LEMMA GetRunIs ==
  ASSUME JInv, TInv, GetRun
  PROVE  \/ /\ UNCHANGED <<tracked, end>>
            /\ loop' = [at |-> "patching", shape |-> loop.shape, step |-> 0]
         \/ \E n \in Nat :
              /\ tracked' = [tracked EXCEPT !.started = n, !.end = "pending"]
              /\ tracked' \in TrackedTypes /\ tracked'.end = "pending" /\ tracked' # NoRun
              /\ \E e \in EndTypes :
                   /\ end' = [end EXCEPT ![opened] = e]
                   /\ e.shape = tracked.shape /\ e.pc = "armed1"
                   /\ e.superseded = end[opened].superseded
              /\ loop' = At("rest")
<1>1. loop.at = "confirming"  BY DEF GetRun
<1>2. tracked \in TrackedTypes /\ opened \in Sessions /\ loop.shape = tracked.shape
  BY <1>1, BusyTyped DEF TInv, LoopTyped
<1>3. PICK n : n = IF forge[tracked.run].started = 0
                   THEN tracked.started ELSE forge[tracked.run].started
  OBVIOUS
<1>4. n \in Nat  BY <1>2, <1>3 DEF TInv, ForgeTyped, ForgeTypes, TrackedTypes
<1>5. CASE scheduleEnd(n, loop.shape) /\ loop' = At("rest")
  <2>1. tracked' = [tracked EXCEPT !.started = n, !.end = "pending"]
    BY <1>5 DEF scheduleEnd
  <2>2. tracked' = [run |-> tracked.run, started |-> n, end |-> "pending",
                    shape |-> tracked.shape, sent |-> tracked.sent, total |-> tracked.total,
                    step |-> tracked.step, liveSent |-> tracked.liveSent, liveStep |-> tracked.liveStep]
    BY <1>2, <2>1 DEF TrackedTypes
  <2>3. tracked' \in TrackedTypes /\ tracked'.run = tracked.run /\ tracked'.end = "pending"
    BY <1>2, <1>4, <2>2 DEF TrackedTypes
  <2>4. tracked' # NoRun
    <3>1. 0 \notin Runs /\ NoRun.run = 0 /\ tracked.run \in Runs
      BY <1>2, RunsAssumption DEF NoRun, TrackedTypes
    <3>2. QED  BY <2>3, <3>1
  <2>5. PICK x, y, e : /\ x = end[opened] /\ y = tracked.shape
                       /\ e = [x EXCEPT !.started = n, !.shape = y, !.pc = "armed1"]
    OBVIOUS
  <2>6. end' = [end EXCEPT ![opened] = e]  BY <1>2, <1>5, <2>5 DEF scheduleEnd
  <2>7. x \in EndTypes /\ y \in Shapes  BY <1>2, <2>5 DEF TInv, EndsTyped, TrackedTypes
  <2>8. e = [run |-> x.run, started |-> n, shape |-> y, pc |-> "armed1",
             closed |-> x.closed, superseded |-> x.superseded]
    BY <2>5, <2>7 DEF EndTypes
  <2>9. e \in EndTypes /\ e.shape = tracked.shape /\ e.pc = "armed1"
        /\ e.superseded = end[opened].superseded
    BY <1>4, <2>5, <2>7, <2>8 DEF EndTypes, PCs
  <2>10. QED  BY <1>4, <1>5, <2>1, <2>3, <2>4, <2>6, <2>9
<1>6. QED  BY <1>3, <1>5 DEF GetRun

LEMMA GetRunKeepsT ==
  ASSUME JInv, TInv, GetRun
  PROVE  TInv'
<1>1. UNCHANGED <<forge, lastEnded, opened, card>> /\ loop.at = "confirming"
  BY DEF GetRun, ServerUntouched
<1>2. opened \in Sessions /\ tracked \in TrackedTypes /\ loop.shape = tracked.shape
  BY <1>1, BusyTyped DEF TInv, LoopTyped
<1>3. ForgeTyped' /\ LastTyped' /\ CardTyped'  BY <1>1, ForgeSame, LastSame, CardSame DEF TInv
<1>4. CASE /\ UNCHANGED <<tracked, end>>
           /\ loop' = [at |-> "patching", shape |-> loop.shape, step |-> 0]
  <2>1. TrackedTyped' /\ EndsTyped'  BY <1>4, TrackedSame, EndsSame DEF TInv
  <2>2. LoopTyped'  BY <1>2, <1>4, ShapeTypes DEF LoopTyped, NoStep
  <2>3. QED  BY <1>3, <2>1, <2>2 DEF TInv
<1>5. CASE /\ tracked' \in TrackedTypes /\ loop' = At("rest")
           /\ \E e \in EndTypes : end' = [end EXCEPT ![opened] = e]
  <2>1. TrackedTyped' /\ LoopTyped'  BY <1>5 DEF TrackedTyped, LoopTyped, At
  <2>2. EndsTyped'  BY <1>2, <1>5 DEF TInv, EndsTyped
  <2>3. QED  BY <1>3, <2>1, <2>2 DEF TInv
<1>6. QED  BY <1>4, <1>5, GetRunIs

(* A callback's step, seen from the loop.                                  *)
LEMMA CallbackIs ==
  ASSUME JInv, TInv, NEW s \in Sessions, Callback(s)
  PROVE  /\ UNCHANGED <<forge, loop, opened, lost>> /\ s <= opened
         /\ tracked' = tracked \/ (tracked' = NoRun /\ Pending)
         /\ \A t \in Sessions : t # s => end'[t] = end[t]
         /\ EndsTyped' /\ Live(s)
         /\ end'[s].pc = "over" \/ end'[s].shape = end[s].shape
         /\ lastEnded' \in [id : RunRefs, started : Nat]
         /\ \/ UNCHANGED <<card, foreign>>
            \/ /\ foreign' = (foreign \/ s # opened)
               /\ \E state \in {"ongoing", "ended"} :
                    card' = FullUpdate(state, s, end[s].shape, end[s].shape.total)
<1>1. UNCHANGED <<forge, loop, opened, lost>>
  BY DEF Callback, Fire, Phase1, Rearm, Phase2, Clean, localVars, ServerUntouched, strays, Deliver
<1>2. Live(s) /\ end[s] \in EndTypes
  BY DEF Callback, Fire, Phase1, Rearm, Phase2, Clean, Step, Live, Running, TInv, EndsTyped
<1>3. s <= opened
  BY <1>2, SessionsAssumption DEF JInv, IInv, Fresh, EndsKept, NewEnd, Live, Running
<1>4. tracked' = tracked \/ (tracked' = NoRun /\ Pending)
  <2>1. StillTracked(s) => Pending
    BY <1>2 DEF StillTracked, JInv, LoopInv, Apart, Attended
  <2>2. QED
    BY <2>1 DEF Callback, Fire, Phase1, Rearm, Phase2, Clean, localVars
<1>5. /\ \A t \in Sessions : t # s => end'[t] = end[t]
      /\ EndsTyped' /\ (end'[s].pc = "over" \/ end'[s].shape = end[s].shape)
  <2>1. PICK from, to : Step(s, from, to) /\ to \in PCs
    BY DEF Callback, Fire, Phase1, Rearm, Phase2, Clean, PCs
  <2>2. PICK e : e = IF to = "over" THEN Over(s) ELSE [end[s] EXCEPT !.pc = to]  OBVIOUS
  <2>3. end' = [end EXCEPT ![s] = e]  BY <2>1, <2>2 DEF Step
  <2>4. e \in EndTypes /\ (e.pc = "over" \/ e.shape = end[s].shape)
    <3>1. CASE to = "over"
      <4>1. e = Over(s)  BY <2>2, <3>1
      <4>2. QED  BY <4>1, OverTyped, OverIsEnd DEF TInv
    <3>2. CASE to # "over"
      <4>1. PICK x : x = end[s]  OBVIOUS
      <4>2. e = [run |-> x.run, started |-> x.started, shape |-> x.shape, pc |-> to,
                 closed |-> x.closed, superseded |-> x.superseded]
        BY <1>2, <2>2, <3>2, <4>1 DEF EndTypes
      <4>3. QED  BY <1>2, <2>1, <4>1, <4>2 DEF EndTypes
    <3>3. QED  BY <3>1, <3>2
  <2>5. QED  BY <2>3, <2>4 DEF TInv, EndsTyped
<1>6. lastEnded' \in [id : RunRefs, started : Nat]
  <2>1. lastEnded' = lastEnded \/ lastEnded' = [id |-> end[s].run, started |-> end[s].started]
    BY DEF Callback, Fire, Phase1, Rearm, Phase2, Clean, localVars
  <2>2. QED  BY <1>2, <2>1 DEF TInv, LastTyped, EndTypes
<1>7. \/ UNCHANGED <<card, foreign>>
      \/ /\ foreign' = (foreign \/ s # opened)
         /\ \E state \in {"ongoing", "ended"} :
              card' = FullUpdate(state, s, end[s].shape, end[s].shape.total)
  BY DEF Callback, Fire, Phase1, Rearm, Phase2, Clean, ServerUntouched, strays, Deliver
<1>8. QED  BY <1>1, <1>2, <1>3, <1>4, <1>5, <1>6, <1>7

LEMMA CallbackKeepsT ==
  ASSUME JInv, TInv, NEW s \in Sessions, Callback(s)
  PROVE  TInv'
<1>1. /\ UNCHANGED <<forge, loop, opened>> /\ s <= opened
      /\ tracked' = tracked \/ (tracked' = NoRun /\ Pending)
      /\ EndsTyped' /\ lastEnded' \in [id : RunRefs, started : Nat]
      /\ \/ card' = card
         \/ \E state \in {"ongoing", "ended"} :
              card' = FullUpdate(state, s, end[s].shape, end[s].shape.total)
  BY CallbackIs
<1>2. ForgeTyped'  BY <1>1, ForgeSame DEF TInv
<1>3. TrackedTyped'  BY <1>1, TrackedSame DEF TInv
<1>4. LastTyped'  BY <1>1 DEF TInv, LastTyped
<1>5. CardTyped'
  <2>1. CASE card' = card  BY <1>1, <2>1, CardSame DEF TInv
  <2>2. CASE \E state \in {"ongoing", "ended"} :
               card' = FullUpdate(state, s, end[s].shape, end[s].shape.total)
    <3>1. end[s].shape \in Shapes  BY DEF TInv, EndsTyped, EndTypes
    <3>2. end[s].shape.total \in Int  BY <3>1, ShapeTypes
    <3>3. QED  BY <1>1, <2>2, <3>1, <3>2, FrameTyped
  <2>3. QED  BY <1>1, <2>1, <2>2
<1>6. LoopTyped'
  <2>1. loop.at \in {"confirming", "patching"} => tracked' = tracked
    BY <1>1 DEF JInv, LoopInv, Busy
  <2>2. QED  BY <1>1, <2>1 DEF TInv, LoopTyped
<1>7. QED  BY <1>1, <1>2, <1>3, <1>4, <1>5, <1>6 DEF TInv

LEMMA NextKeepsT ==
  ASSUME JInv, TInv, [Next]_vars
  PROVE  TInv'
<1>1. CASE UNCHANGED vars
  <2>1. UNCHANGED <<forge, loop, tracked, lastEnded, opened, end, card>>
    BY <1>1 DEF vars, localVars
  <2>2. QED
    BY <2>1 DEF TInv, ForgeTyped, TrackedTyped, EndsTyped, LastTyped, CardTyped, LoopTyped
<1>2. CASE Loop
  BY <1>2, AskingKeepsT, SelectKeepsT, CreateKeepsT, SeedKeepsT, LiveJobsKeepsT, GetRunKeepsT,
     PatchKeepsT DEF Loop
<1>3. QED
  BY <1>1, <1>2, ForgeKeepsT, CallbackKeepsT, ShutdownKeepsT DEF Next, Returned

LEMMA Typed ==
  ASSUME JInv, TInv
  PROVE  TypeOK
<1>1. tracked # NoRun => opened # 0 /\ (~Pending => end[opened].pc \in {"none", "over"})
  <2> SUFFICES ASSUME tracked # NoRun
               PROVE  opened # 0 /\ (~Pending => end[opened].pc \in {"none", "over"})
    OBVIOUS
  <2>1. opened \in Sessions  BY DEF JInv, LoopInv, TrackedOK
  <2>2. opened # 0  BY <2>1, SessionsAssumption
  <2>3. ~Pending => ~Live(opened)
    BY <2>1 DEF JInv, LoopInv, Attended, IInv, Abandoned
  <2>4. end[opened].pc \in PCs  BY <2>1 DEF TInv, EndsTyped, EndTypes
  <2>5. QED  BY <2>2, <2>3, <2>4 DEF Live, Running, PCs
<1>2. \A s \in Sessions : s > opened => end[s] = NewEnd  BY DEF JInv, IInv, Fresh
<1>3. forge \in [Runs -> ForgeTypes] /\ \A r \in Runs : forge[r].seen <= Groups[r]
  BY DEF TInv, ForgeTyped, InWaves
<1>4. QED
  BY <1>1, <1>2, <1>3
  DEF TInv, TrackedTyped, EndsTyped, LastTyped, CardTyped, LoopTyped, TypeOK,
      ForgeTypes, TrackedTypes, EndTypes, PCs

---------------------------------------------------------------------------
(* CardFits and TotalClimbs: what the loop counts as sent is on the card,  *)
(* or is sent again.                                                       *)

OnScreen == tracked # NoRun /\ ~Pending
Mine == card.of = opened /\ ~foreign

(* A shape that the loop will never know the run by again.                 *)
Older(sent, shape) ==
  \/ sent.total < shape.total
  \/ sent.total = shape.total /\ sent.labels # "own" /\ shape.labels = "own"

(* A ladder that counts as sent is on the card, unless an old session has  *)
(* written over it; any other is out of date.                              *)
Sent ==
  OnScreen /\ loop.at # "seeding" =>
    \/ Older(tracked.sent, tracked.shape)
    \/ /\ tracked.sent = tracked.shape
       /\ foreign \/ (card.of = opened /\ card.ladder = tracked.shape)

(* So is a window, until an answer is lost; before the first frame one is  *)
(* thought to run.                                                         *)
Window ==
  OnScreen /\ ~foreign =>
    /\ card.of # opened => tracked.liveSent /\ tracked.liveStep = NoStep
    /\ card.of = opened /\ ~lost =>
         card.live = NoStep \/ (tracked.liveSent /\ card.live = tracked.liveStep)

Unseeded == loop.at = "seeding" => card.of # opened

(* What is known of a run, and what its end will say, is no less than what *)
(* the card shows.                                                         *)
Climbs ==
  Mine =>
    /\ OnScreen => card.total <= tracked.shape.total
    /\ opened \in Sessions /\ Live(opened) => card.total <= end[opened].shape.total

CInv == Sent /\ Window /\ Unseeded /\ Climbs /\ LadderFits /\ WindowFits

(* What TotalClimbs says of a step.                                        *)
TotalStep ==
  card.of = opened /\ card'.of = opened' /\ opened' = opened /\ ~foreign' => card'.total >= card.total

LEMMA InitIsCInv == Init => CInv
<1> SUFFICES ASSUME Init PROVE CInv
  OBVIOUS
<1>1. tracked = NoRun /\ loop.at = "rest"  BY DEF Init, At
<1>2. Sent /\ Window /\ Unseeded  BY <1>1 DEF Sent, Window, Unseeded, OnScreen
<1>3. Climbs
  <2>1. opened \notin Sessions  BY SessionsAssumption DEF Init
  <2>2. QED  BY <1>1, <2>1 DEF Climbs, OnScreen
<1>4. LadderFits /\ WindowFits
  BY DEF Init, NoCard, NoShape, Shape, LadderFits, WindowFits
<1>5. QED  BY <1>2, <1>3, <1>4 DEF CInv

(* While a run is on screen, its end is not at work.                       *)
LEMMA NoEndAtWork ==
  ASSUME JInv, OnScreen
  PROVE  opened \in Sessions /\ ~Live(opened)
<1>1. opened \in Sessions  BY DEF OnScreen, JInv, LoopInv, TrackedOK
<1>2. QED  BY <1>1 DEF OnScreen, JInv, LoopInv, Attended, IInv, Abandoned

LEMMA OnScreenWhenBusy ==
  ASSUME JInv, loop.at \in {"seeding", "scanning", "confirming", "patching"}
  PROVE  OnScreen
BY DEF OnScreen, JInv, LoopInv, Busy

(* A step that leaves the card's frame alone, and no more on screen than   *)
(* there was.                                                              *)
LEMMA QuietKeepsC ==
  ASSUME TInv, CInv, UNCHANGED <<opened, foreign, lost>>,
         card'.of = card.of, card'.total = card.total, card'.ladder = card.ladder,
         card'.step = card.step, card'.live = card.live,
         tracked' = tracked \/ tracked' = NoRun,
         loop.at = "seeding" <=> loop'.at = "seeding",
         opened \in Sessions /\ Live(opened)' =>
           Live(opened) /\ end'[opened].shape = end[opened].shape
  PROVE  CInv' /\ TotalStep
<1>1. OnScreen' => OnScreen /\ tracked' = tracked  BY DEF OnScreen, Pending
<1>2. Sent' /\ Window' /\ Unseeded'  BY <1>1 DEF CInv, Sent, Window, Unseeded
<1>3. Climbs'  BY <1>1 DEF CInv, Climbs, Mine
<1>4. LadderFits' /\ WindowFits'  BY DEF CInv, LadderFits, WindowFits
<1>5. TotalStep  BY DEF TotalStep, TInv, CardTyped
<1>6. QED  BY <1>2, <1>3, <1>4, <1>5 DEF CInv

LEMMA ForgeKeepsC ==
  ASSUME TInv, CInv, NEW r \in Runs, Create(r) \/ PickUp(r) \/ Work(r) \/ Cancel(r) \/ Rerun(r)
  PROVE  CInv' /\ TotalStep
<1>1. UNCHANGED <<loop, tracked, opened, end, card, foreign, lost>>
  BY DEF Create, PickUp, Work, Cancel, Rerun, Change, localVars, strays
<1>2. QED  BY <1>1, QuietKeepsC DEF Live

LEMMA AskingKeepsC ==
  ASSUME TInv, CInv, PollIdle \/ PollActive \/ ActiveRuns
  PROVE  CInv' /\ TotalStep
<1>1. UNCHANGED <<opened, end, card, foreign, lost>>
  BY DEF PollIdle, PollActive, ActiveRuns, ServerUntouched, localVars, strays
<1>2. tracked' = tracked \/ tracked' = NoRun
  BY DEF PollIdle, PollActive, ActiveRuns, localVars
<1>3. loop.at # "seeding" /\ loop'.at # "seeding"
  BY DEF PollIdle, PollActive, ActiveRuns, Go, At
<1>4. QED  BY <1>1, <1>2, <1>3, QuietKeepsC DEF Live

(* A group that is closed leaves a frame at work as it is.                 *)
LEMMA CloseShape ==
  ASSUME EndsTyped, opened \in Sessions
  PROVE  LET e == Close(opened)[opened]
         IN e.pc \in {"armed1", "armed2"} \union Running => Live(opened) /\ e.shape = end[opened].shape
<1>1. PICK e : e = Close(opened)[opened]  OBVIOUS
<1>2. CASE end[opened].pc \in {"armed1", "armed2"}
  <2>1. Close(opened) = [end EXCEPT ![opened] = Over(opened)]
    BY <1>2 DEF Close, EndsTyped
  <2>2. e = Over(opened)  BY <1>1, <2>1 DEF EndsTyped
  <2>3. e.pc = "over"  BY <2>2, OverIsEnd
  <2>4. QED  BY <1>1, <2>3 DEF Running
<1>3. CASE end[opened].pc \notin {"armed1", "armed2"}
  <2>1. PICK x, d : x = end[opened] /\ d = [x EXCEPT !.closed = TRUE]  OBVIOUS
  <2>2. Close(opened) = [end EXCEPT ![opened] = d]
    BY <1>3, <2>1 DEF Close, EndsTyped
  <2>3. e = d /\ x \in EndTypes  BY <1>1, <2>1, <2>2 DEF EndsTyped
  <2>4. d.pc = x.pc /\ d.shape = x.shape  BY <2>1, <2>3 DEF EndTypes
  <2>5. QED  BY <1>1, <2>1, <2>3, <2>4 DEF Live
<1>4. QED  BY <1>2, <1>3

LEMMA SelectKeepsC ==
  ASSUME JInv, TInv, CInv, Select
  PROVE  CInv' /\ TotalStep
<1>1. UNCHANGED <<opened, card, foreign, lost>> /\ loop.at = "listed" /\ loop'.at # "seeding"
  <2>1. UNCHANGED <<opened, card, foreign, lost>> /\ loop.at = "listed"
    BY DEF Select, ServerUntouched, strays
  <2>2. loop' = At("rest") \/ \E run : loop' = [at |-> "creating", run |-> run]
    BY DEF Select, Pick
  <2>3. QED  BY <2>1, <2>2 DEF At
<1>2. tracked' = tracked \/ tracked' = NoRun  BY DEF Select
<1>3. opened \in Sessions /\ Live(opened)' =>
        Live(opened) /\ end'[opened].shape = end[opened].shape
  <2>1. CASE end' = end  BY <1>1, <2>1 DEF Live
  <2>2. CASE /\ opened \in Sessions
             /\ end' = [Close(opened) EXCEPT ![opened].superseded = end[opened].pc \in Running]
    <3>1. PICK b, c, e : /\ b = (end[opened].pc \in Running)
                         /\ c = Close(opened)[opened] /\ e = [c EXCEPT !.superseded = b]
      OBVIOUS
    <3>2. Close(opened) \in [Sessions -> EndTypes]  BY <2>2, CloseTyped DEF TInv
    <3>3. end' = [Close(opened) EXCEPT ![opened] = e]  BY <2>2, <3>1, <3>2
    <3>4. end'[opened] = e /\ c \in EndTypes  BY <2>2, <3>1, <3>2, <3>3
    <3>5. e.pc = c.pc /\ e.shape = c.shape  BY <3>1, <3>4 DEF EndTypes
    <3>6. c.pc \in {"armed1", "armed2"} \union Running => Live(opened) /\ c.shape = end[opened].shape
      BY <2>2, <3>1, CloseShape DEF TInv
    <3>7. QED  BY <1>1, <3>4, <3>5, <3>6 DEF Live
  <2>3. CASE Pending /\ opened \notin Sessions  BY <2>3
  <2>4. QED  BY <2>1, <2>2, <2>3 DEF Select
<1>4. QED  BY <1>1, <1>2, <1>3, QuietKeepsC

LEMMA ShutdownKeepsC ==
  ASSUME JInv, TInv, CInv, Shutdown
  PROVE  CInv' /\ TotalStep
<1>1. /\ UNCHANGED <<opened, tracked, card, foreign, lost>>
      /\ loop.at # "seeding" /\ loop'.at # "seeding"
      /\ end' = end \/ (Pending /\ end' = Close(opened))
  BY DEF Shutdown, Go, At, ServerUntouched, strays, localVars
<1>2. opened \in Sessions /\ Live(opened)' =>
        Live(opened) /\ end'[opened].shape = end[opened].shape
  <2>1. CASE end' = end  BY <1>1, <2>1 DEF Live
  <2>2. CASE end' = Close(opened)  BY <1>1, <2>2, CloseShape DEF Live, TInv
  <2>3. QED  BY <1>1, <2>1, <2>2
<1>3. QED  BY <1>1, <1>2, QuietKeepsC

(* A session begins with a card that is not its own.                       *)
LEMMA CreateKeepsC ==
  ASSUME JInv, TInv, CInv, CreateActivity
  PROVE  CInv' /\ TotalStep
<1>1. /\ loop.at = "creating" /\ opened + 1 \in Sessions
      /\ card' = card \/ card' = [card EXCEPT !.state = "ongoing"]
  BY DEF CreateActivity
<1>2. /\ card'.of = card.of /\ card'.total = card.total /\ card'.ladder = card.ladder
      /\ card'.step = card.step /\ card'.live = card.live
  BY <1>1 DEF JInv, CardKnown, IsCard
<1>3. CASE Track(loop.run) /\ loop' = At("seeding")
  <2>1. /\ opened' = opened + 1 /\ tracked' = Entry(loop.run) /\ foreign' = FALSE
        /\ loop'.at = "seeding"
    BY <1>3 DEF Track, trackedRun, At
  <2>2. card'.of # opened' /\ opened' # opened
    <3>1. opened \in Nat /\ card.of <= opened /\ card.of \in Sessions \union {0}
      BY DEF JInv, IInv, EndsKept, TInv, CardTyped
    <3>2. CASE card.of = 0  BY <1>2, <2>1, <3>1, <3>2
    <3>3. CASE card.of \in Sessions
      <4>1. card.of \in Nat  BY <3>3, SessionsAssumption
      <4>2. QED  BY <1>2, <2>1, <3>1, <4>1
    <3>4. QED  BY <3>1, <3>2, <3>3
  <2>3. tracked'.liveSent = TRUE /\ tracked'.liveStep = NoStep  BY <2>1 DEF Entry
  <2>4. Sent' /\ Window' /\ Unseeded'
    BY <2>1, <2>2, <2>3 DEF Sent, Window, Unseeded
  <2>5. Climbs' /\ LadderFits' /\ WindowFits'  BY <2>2 DEF Climbs, Mine, LadderFits, WindowFits
  <2>6. TotalStep  BY <2>2 DEF TotalStep
  <2>7. QED  BY <2>4, <2>5, <2>6 DEF CInv
<1>4. CASE UNCHANGED <<tracked, opened, end, strays>> /\ loop' = At("rest")
  <2>1. UNCHANGED <<foreign, lost>> /\ loop'.at = "rest"  BY <1>4 DEF strays, At
  <2>2. QED  BY <1>1, <1>2, <1>4, <2>1, QuietKeepsC DEF Live
<1>5. QED  BY <1>3, <1>4 DEF CreateActivity

(* The first frame is of the card's new run, or of none of its frames.     *)
LEMMA SeedKeepsC ==
  ASSUME JInv, TInv, CInv, Seed
  PROVE  CInv' /\ TotalStep
<1>1. /\ UNCHANGED <<opened, end, foreign, lost>>
      /\ loop.at = "seeding" /\ loop'.at = "rest"
  BY DEF Seed, Go, At, strays
<1>2. /\ tracked \in TrackedTypes /\ opened \in Sessions /\ end[opened].run \in Runs
      /\ OnScreen /\ ~Live(opened) /\ card.of # opened
  BY <1>1, BusyTyped, OnScreenWhenBusy, NoEndAtWork DEF TrackedTypes, CInv, Unseeded
<1>3. PICK shape \in FirstShapes(end[opened].run) :
        \/ /\ card' = FullUpdate("ongoing", opened, shape, 0)
           /\ tracked' = [tracked EXCEPT !.shape = shape, !.sent = shape]
        \/ /\ card' \in {card, FullUpdate("ongoing", opened, shape, 0)}
           /\ tracked' = [tracked EXCEPT !.shape = shape, !.sent = NoShape]
  BY DEF Seed
<1>4. shape \in Shapes /\ shape.total > 0 /\ shape.total \in Nat
  BY <1>2, <1>3, FirstShapesTypes, ShapeTypes DEF TInv
<1>5. PICK frame : frame = FullUpdate("ongoing", opened, shape, 0)  OBVIOUS
<1>6. /\ frame.of = opened /\ frame.total = shape.total /\ frame.ladder = shape
      /\ frame.live = NoStep
  BY <1>5 DEF FullUpdate
<1>7. /\ tracked'.shape = shape /\ tracked'.liveSent = tracked.liveSent
      /\ tracked'.liveStep = tracked.liveStep
      /\ \/ card' = frame /\ tracked'.sent = shape
         \/ card' \in {card, frame} /\ tracked'.sent = NoShape
  BY <1>2, <1>3, <1>5 DEF TrackedTypes
<1>8. Sent'
  <2>1. Older(NoShape, shape)  BY <1>4 DEF Older, NoShape, Shape
  <2>2. QED  BY <1>1, <1>6, <1>7, <2>1 DEF Sent
<1>9. Window'  BY <1>1, <1>2, <1>6, <1>7 DEF CInv, Window
<1>10. Unseeded'  BY <1>1 DEF Unseeded
<1>11. Climbs'
  BY <1>1, <1>2, <1>4, <1>6, <1>7 DEF Climbs, Mine, Live
<1>12. LadderFits' /\ WindowFits'
  BY <1>1, <1>2, <1>6, <1>7 DEF LadderFits, WindowFits
<1>13. TotalStep  BY <1>2 DEF TotalStep
<1>14. QED  BY <1>8, <1>9, <1>10, <1>11, <1>12, <1>13 DEF CInv

(* What the loop knows of a run only gets newer.                           *)
LEMMA ClampAges ==
  ASSUME NEW sent \in Shapes, NEW known \in Shapes, NEW n \in Nat,
         Older(sent, known) \/ sent = known
  PROVE  LET shape == Clamp(known, Shape(n, "own")) IN shape = known \/ Older(sent, shape)
<1>1. known.total \in Nat /\ sent.total \in Nat  BY ShapeTypes
<1>2. PICK scan : scan = Shape(n, "own")  OBVIOUS
<1>3. scan.total = n /\ scan.labels = "own"  BY <1>2 DEF Shape
<1>4. CASE scan.total > known.total \/ (scan.total = known.total /\ scan.labels # known.labels)
  <2>1. Clamp(known, scan) = scan  BY <1>4 DEF Clamp
  <2>2. Older(sent, scan)  BY <1>1, <1>3, <1>4 DEF Older
  <2>3. QED  BY <1>2, <2>1, <2>2
<1>5. CASE ~(scan.total > known.total \/ (scan.total = known.total /\ scan.labels # known.labels))
  <2>1. Clamp(known, scan) = known  BY <1>5 DEF Clamp
  <2>2. QED  BY <1>2, <2>1
<1>6. QED  BY <1>4, <1>5

LEMMA LiveJobsKeepsC ==
  ASSUME JInv, TInv, CInv, LiveJobs
  PROVE  CInv' /\ TotalStep
<1>1. /\ UNCHANGED <<opened, end, card, foreign, lost>>
      /\ loop.at = "scanning"
  BY DEF LiveJobs, ServerUntouched, strays
<1>2. /\ tracked \in TrackedTypes /\ OnScreen /\ tracked.run \in Runs
      /\ tracked.shape \in Shapes /\ tracked.sent \in Shapes /\ ~Live(opened)
  BY <1>1, BusyTyped, OnScreenWhenBusy, NoEndAtWork DEF TrackedTypes
<1>3. loop'.at # "seeding"
  BY DEF LiveJobs, At
<1>4. CASE tracked' = tracked
  BY <1>1, <1>3, <1>4, QuietKeepsC DEF Live
<1>5. CASE tracked' = [tracked EXCEPT !.shape = Clamp(tracked.shape, Shape(forge[tracked.run].seen, "own"))]
  <2>1. PICK n : n = forge[tracked.run].seen  OBVIOUS
  <2>2. n \in Nat /\ n \in 0..Groups[tracked.run]
    BY <1>2, <2>1, GroupsAssumption DEF TInv, ForgeTyped, ForgeTypes, InWaves
  <2>3. PICK shape : shape = Clamp(tracked.shape, Shape(n, "own"))  OBVIOUS
  <2>4. /\ tracked'.shape = shape /\ tracked'.sent = tracked.sent
        /\ tracked'.liveSent = tracked.liveSent /\ tracked'.liveStep = tracked.liveStep
    BY <1>2, <1>5, <2>1, <2>3 DEF TrackedTypes
  <2>5. shape.total >= tracked.shape.total /\ shape.total \in Nat /\ tracked.shape.total \in Nat
    BY <1>2, <2>2, <2>3, ClampClimbs, ShapeTypes
  <2>6. Sent'
    <3>1. Older(tracked.sent, tracked.shape) \/ tracked.sent = tracked.shape
      BY <1>1, <1>2 DEF CInv, Sent
    <3>2. shape = tracked.shape \/ Older(tracked.sent, shape)
      BY <1>2, <2>2, <2>3, <3>1, ClampAges
    <3>3. QED  BY <1>1, <1>2, <2>4, <3>2 DEF CInv, Sent
  <2>7. Window' /\ Unseeded'  BY <1>1, <1>2, <1>3, <2>4 DEF CInv, Window, Unseeded
  <2>8. Climbs'
    BY <1>1, <1>2, <2>4, <2>5 DEF CInv, Climbs, Mine, Live, TInv, CardTyped
  <2>9. LadderFits' /\ WindowFits'  BY <1>1 DEF CInv, LadderFits, WindowFits
  <2>10. TotalStep  BY <1>1 DEF TotalStep, TInv, CardTyped
  <2>11. QED  BY <2>6, <2>7, <2>8, <2>9, <2>10 DEF CInv
<1>6. QED  BY <1>4, <1>5 DEF LiveJobs

(* An update that lands, with or without its answer, or fails.             *)
LEMMA PatchKeepsC ==
  ASSUME JInv, TInv, CInv, PatchActivity
  PROVE  CInv' /\ TotalStep
<1>1. /\ UNCHANGED <<opened, end, foreign>>
      /\ loop.at = "patching" /\ loop'.at = "rest"
  BY DEF PatchActivity, Go, At
<1>2. /\ tracked \in TrackedTypes /\ OnScreen /\ loop.step \in Nat
      /\ tracked.shape \in Shapes /\ tracked.sent \in Shapes
      /\ opened \in Sessions /\ ~Live(opened)
  <2>1. loop.step \in Nat  BY <1>1, StepTypes DEF TInv, LoopTyped
  <2>2. QED  BY <1>1, <2>1, BusyTyped, OnScreenWhenBusy, NoEndAtWork DEF TrackedTypes
<1>3. PICK timed \in BOOLEAN :
           \/ Landed(PatchSend(timed), PatchPromote(timed))
           \/ UNCHANGED <<card, tracked, lost>>
  BY PatchIs
<1>4. PICK send, promote : send = PatchSend(timed) /\ promote = PatchPromote(timed)
  OBVIOUS
<1>5. CASE UNCHANGED <<card, tracked, lost>>
  BY <1>1, <1>5, QuietKeepsC DEF Live
<1>6. /\ send.of = opened /\ send.total = tracked.shape.total /\ send.step = loop.step
      /\ send.ladder = IF tracked.sent # tracked.shape THEN tracked.shape ELSE card.ladder
      /\ send.live = IF Relived(timed) THEN LiveNow(timed) ELSE card.live
      /\ promote.shape = tracked.shape /\ promote.sent = tracked.shape
      /\ promote.liveSent = IF Relived(timed) THEN Anchored(timed) ELSE tracked.liveSent
      /\ promote.liveStep = IF Relived(timed) THEN LiveNow(timed) ELSE tracked.liveStep
  BY <1>4 DEF PatchSend, PatchPromote
<1>7. tracked.shape.total \in Nat /\ ~Older(tracked.shape, tracked.shape)
  BY <1>2, ShapeTypes DEF Older
<1>8. foreign \/ send.ladder = tracked.shape
  BY <1>1, <1>2, <1>6, <1>7 DEF CInv, Sent
<1>9. ~foreign /\ ~Relived(timed) => card.of = opened
  BY <1>2, <1>3 DEF CInv, Window, Relived, Anchored, Moved, NoStep
<1>10. ~foreign /\ ~lost => send.live \in {NoStep, loop.step}
  <2>1. CASE Relived(timed)  BY <1>6, <2>1 DEF LiveNow
  <2>2. CASE ~Relived(timed)
    <3>1. tracked.liveSent => loop.step = tracked.liveStep
      BY <1>3, <2>2 DEF Relived, Anchored, Moved
    <3>2. QED  BY <1>2, <1>6, <1>9, <2>2, <3>1 DEF CInv, Window
  <2>3. QED  BY <2>1, <2>2
<1>11. TotalStep /\ Climbs' /\ LadderFits'
  <2>1. CASE card' = send /\ (tracked' = tracked \/ tracked' = promote)
    <3>1. TotalStep  BY <1>1, <1>2, <1>6, <2>1 DEF CInv, Climbs, Mine, TotalStep
    <3>2. Climbs'  BY <1>1, <1>2, <1>6, <1>7, <2>1 DEF Climbs, Mine, Live
    <3>3. LadderFits'  BY <1>1, <1>6, <1>8, <2>1 DEF LadderFits
    <3>4. QED  BY <3>1, <3>2, <3>3
  <2>2. CASE UNCHANGED <<card, tracked, lost>>  BY <1>5, <2>2 DEF CInv
  <2>3. QED  BY <1>3, <1>4, <2>1, <2>2 DEF Landed
<1>12. Unseeded'  BY <1>1 DEF Unseeded
<1>13. CASE card' = send /\ tracked' = promote /\ UNCHANGED lost
  <2>1. Sent'  BY <1>1, <1>6, <1>8, <1>13 DEF Sent
  <2>2. WindowFits'  BY <1>1, <1>6, <1>10, <1>13 DEF WindowFits
  <2>3. Window'
    <3>1. CASE Relived(timed)
      BY <1>1, <1>6, <1>13, <3>1 DEF Window, LiveNow
    <3>2. CASE ~Relived(timed)
      BY <1>1, <1>2, <1>6, <1>9, <1>13, <3>2 DEF CInv, Window
    <3>3. QED  BY <3>1, <3>2
  <2>4. QED  BY <1>11, <1>12, <2>1, <2>2, <2>3 DEF CInv
<1>14. CASE card' = send /\ tracked' = tracked /\ lost' = TRUE
  <2>1. Sent'  BY <1>1, <1>2, <1>6, <1>8, <1>14 DEF CInv, Sent
  <2>2. Window' /\ WindowFits'  BY <1>1, <1>6, <1>14 DEF Window, WindowFits
  <2>3. QED  BY <1>11, <1>12, <2>1, <2>2 DEF CInv
<1>15. QED  BY <1>3, <1>4, <1>5, <1>13, <1>14 DEF Landed

LEMMA GetRunKeepsC ==
  ASSUME JInv, TInv, CInv, GetRun
  PROVE  CInv' /\ TotalStep
<1>1. UNCHANGED <<opened, card, foreign, lost>> /\ loop.at = "confirming"
  BY DEF GetRun, ServerUntouched, strays
<1>2. OnScreen /\ opened \in Sessions  BY <1>1, OnScreenWhenBusy, NoEndAtWork
<1>3. CASE /\ UNCHANGED <<tracked, end>>
           /\ loop' = [at |-> "patching", shape |-> loop.shape, step |-> 0]
  <2>1. loop'.at # "seeding"  BY <1>3
  <2>2. QED  BY <1>1, <1>3, <2>1, QuietKeepsC DEF Live
<1>4. CASE /\ tracked'.end = "pending" /\ tracked' # NoRun /\ loop' = At("rest")
           /\ \E e \in EndTypes : end' = [end EXCEPT ![opened] = e] /\ e.shape = tracked.shape
  <2>1. ~OnScreen' /\ loop'.at # "seeding"  BY <1>4 DEF OnScreen, Pending, At
  <2>2. end'[opened].shape = tracked.shape  BY <1>2, <1>4 DEF TInv, EndsTyped
  <2>3. Sent' /\ Window' /\ Unseeded'  BY <2>1 DEF Sent, Window, Unseeded
  <2>4. Climbs'  BY <1>1, <1>2, <2>1, <2>2 DEF CInv, Climbs, Mine
  <2>5. LadderFits' /\ WindowFits'  BY <1>1 DEF CInv, LadderFits, WindowFits
  <2>6. TotalStep  BY <1>1 DEF TotalStep, TInv, CardTyped
  <2>7. QED  BY <2>3, <2>4, <2>5, <2>6 DEF CInv
<1>5. QED  BY <1>3, <1>4, GetRunIs

(* An end's frame is of its session's card, or it is a foreign one.        *)
LEMMA CallbackKeepsC ==
  ASSUME JInv, TInv, CInv, NEW s \in Sessions, Callback(s)
  PROVE  CInv' /\ TotalStep
<1>1. /\ UNCHANGED <<loop, opened, lost>> /\ Live(s)
      /\ tracked' = tracked \/ (tracked' = NoRun /\ Pending)
      /\ \A t \in Sessions : t # s => end'[t] = end[t]
      /\ end'[s].pc = "over" \/ end'[s].shape = end[s].shape
      /\ \/ UNCHANGED <<card, foreign>>
         \/ /\ foreign' = (foreign \/ s # opened)
            /\ \E state \in {"ongoing", "ended"} :
                 card' = FullUpdate(state, s, end[s].shape, end[s].shape.total)
  BY CallbackIs
<1>2. opened \in Sessions /\ Live(opened)' =>
        Live(opened) /\ end'[opened].shape = end[opened].shape
  BY <1>1 DEF Live, Running
<1>3. CASE UNCHANGED <<card, foreign>>
  BY <1>1, <1>2, <1>3, QuietKeepsC
<1>4. CASE /\ foreign' = (foreign \/ s # opened)
           /\ \E state \in {"ongoing", "ended"} :
                card' = FullUpdate(state, s, end[s].shape, end[s].shape.total)
  <2>1. /\ card'.of = s /\ card'.total = end[s].shape.total /\ card'.ladder = end[s].shape
        /\ card'.live = NoStep
    BY <1>4 DEF FullUpdate
  <2>2. LadderFits' /\ WindowFits'  BY <2>1 DEF LadderFits, WindowFits
  <2>3. OnScreen' => OnScreen /\ tracked' = tracked  BY <1>1 DEF OnScreen, Pending
  <2>4. CASE s # opened
    <3>1. foreign' /\ card'.of # opened'  BY <1>1, <1>4, <2>1, <2>4
    <3>2. Sent' /\ Window'  BY <1>1, <2>3, <3>1 DEF CInv, Sent, Window
    <3>3. Unseeded' /\ Climbs' /\ TotalStep  BY <3>1 DEF Unseeded, Climbs, Mine, TotalStep
    <3>4. QED  BY <2>2, <3>2, <3>3 DEF CInv
  <2>5. CASE s = opened
    <3>1. ~OnScreen  BY <1>1, <2>5, NoEndAtWork
    <3>2. ~OnScreen' /\ loop'.at # "seeding"  BY <1>1, <2>3, <3>1, OnScreenWhenBusy
    <3>3. Sent' /\ Window' /\ Unseeded'  BY <3>2 DEF Sent, Window, Unseeded
    <3>4. end[s].shape.total \in Nat
      <4>1. end[s].shape \in Shapes  BY DEF TInv, EndsTyped, EndTypes
      <4>2. QED  BY <4>1, ShapeTypes
    <3>5. Climbs'  BY <1>1, <1>2, <2>1, <2>5, <3>2, <3>4 DEF Climbs, Mine
    <3>6. TotalStep  BY <1>1, <1>4, <2>1, <2>5 DEF CInv, Climbs, Mine, TotalStep
    <3>7. QED  BY <2>2, <3>3, <3>5, <3>6 DEF CInv
  <2>6. QED  BY <2>4, <2>5
<1>5. QED  BY <1>1, <1>3, <1>4

LEMMA NextKeepsC ==
  ASSUME JInv, TInv, CInv, [Next]_vars
  PROVE  CInv' /\ TotalStep
<1>1. CASE UNCHANGED vars
  <2>1. UNCHANGED <<loop, tracked, opened, end, card, foreign, lost>>
    BY <1>1 DEF vars, localVars, strays
  <2>2. QED  BY <2>1, QuietKeepsC DEF Live
<1>2. CASE Loop
  BY <1>2, AskingKeepsC, SelectKeepsC, CreateKeepsC, SeedKeepsC, LiveJobsKeepsC, GetRunKeepsC,
     PatchKeepsC DEF Loop
<1>3. QED
  BY <1>1, <1>2, ForgeKeepsC, CallbackKeepsC, ShutdownKeepsC DEF Next, Returned

(* The state is typed, the ladder on the card has as many groups as its    *)
(* total says, and a live window is of the step that is shown, through     *)
(* every fault: what was not answered for is sent again (patchActivity,    *)
(* shapeSent, liveSent, clearLive).                                        *)
THEOREM CardAlwaysFits == Spec => []CardFits
<1>1. Init => JInv /\ TInv /\ CInv  BY InitIsJInv, InitIsTInv, InitIsCInv
<1>2. JInv /\ TInv /\ CInv /\ [Next]_vars => (JInv /\ TInv /\ CInv)'
  BY NextKeepsJ, NextKeepsT, NextKeepsC
<1>3. JInv /\ TInv /\ CInv => CardFits  BY Typed DEF CInv, CardFits
<1>4. QED  BY <1>1, <1>2, <1>3, PTL DEF Spec

(* The total on the card never falls while one run is on it, whichever of  *)
(* its frames comes last: the seed's, a scan's or the end's (clampShape).  *)
THEOREM TotalsClimb == Spec => TotalClimbs
<1>1. Init => JInv /\ TInv /\ CInv  BY InitIsJInv, InitIsTInv, InitIsCInv
<1>2. JInv /\ TInv /\ CInv /\ [Next]_vars => (JInv /\ TInv /\ CInv)'
  BY NextKeepsJ, NextKeepsT, NextKeepsC
<1>3. JInv /\ TInv /\ CInv /\ [Next]_vars => [TotalStep]_vars  BY NextKeepsC
<1>4. Spec => [][TotalStep]_vars  BY <1>1, <1>2, <1>3, PTL DEF Spec
<1>5. QED  BY <1>4 DEF TotalClimbs, TotalStep

============================================================================
