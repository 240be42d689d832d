------------------------------- MODULE Ladder -------------------------------
(* The steps ladder of a CI run (shared/ci): jobs folded into groups, the   *)
(* counter, what a finished run measures of each group, the weights of the  *)
(* pills and the window the current pill is animated across. Pure           *)
(* functions, over every list of jobs a forge may reveal, start, requeue    *)
(* and finish, with stamps that are late, early or missing (zero).          *)
EXTENDS Integers, SequencesExt

CONSTANTS
  Groups,     \* base names of jobs
  Priors,     \* what earlier runs measured: weights by name, each a function
  RunLength,  \* how long the earlier run took, 0 when unknown
  MaxJobs,    \* bound on the jobs of a run
  LastTime,   \* bound on the clock
  Skew,       \* how far a runner's clock is ahead
  MinWindow,  \* what must be left of a window (5 s)
  MaxWindow   \* the longest window (maxRunLifetime)

VARIABLES jobs, now, prior

vars == <<jobs, now, prior>>

NoTime == 0
Unmeasured == -1

Init == jobs = <<>> /\ now = 1 /\ prior \in Priors

(* ------------------------------- the forge ------------------------------ *)

\* Stamps are missing, right, or of a runner's clock that is ahead.
Stamps == {NoTime, now, now + Skew}

Reveal(g) ==
  /\ Len(jobs) < MaxJobs
  /\ jobs' = Append(jobs, [base |-> g, status |-> "queued", start |-> NoTime, end |-> NoTime])
  /\ UNCHANGED <<now, prior>>

Starts(i) == \E t \in Stamps :
  /\ jobs[i].status # "in_progress"
  /\ jobs' = [jobs EXCEPT ![i] = [@ EXCEPT !.status = "in_progress", !.start = t, !.end = NoTime]]
  /\ UNCHANGED <<now, prior>>

Completes(i) == \E t \in Stamps :
  /\ jobs[i].status = "in_progress"
  /\ jobs' = [jobs EXCEPT ![i] = [@ EXCEPT !.status = "completed", !.end = t]]
  /\ UNCHANGED <<now, prior>>

Tick == now < LastTime /\ now' = now + 1 /\ UNCHANGED <<jobs, prior>>

Next ==
  \/ \E g \in Groups : Reveal(g)
  \/ \E i \in DOMAIN jobs : Starts(i) \/ Completes(i)
  \/ Tick

(* ----------------------------- ComputeSteps ----------------------------- *)

\* A group comes where its first job does.
StepLabels == FoldLeft(LAMBDA labels, j : IF Contains(labels, j.base) THEN labels
                                          ELSE Append(labels, j.base), <<>>, jobs)
Shards(g) == {i \in DOMAIN jobs : jobs[i].base = g}

Active == {s \in DOMAIN StepLabels : \E i \in Shards(StepLabels[s]) : jobs[i].status = "in_progress"}
Open == {s \in DOMAIN StepLabels : \E i \in Shards(StepLabels[s]) : jobs[i].status # "completed"}

CurrentStep == IF Active # {} THEN Min(Active) ELSE IF Open # {} THEN Min(Open) ELSE 0
CurrentStepName ==
  IF Active # {} THEN StepLabels[CurrentStep] ELSE IF Open # {} THEN "Queued" ELSE ""

Earliest(times) == IF times \subseteq {NoTime} THEN NoTime ELSE Min(times \ {NoTime})
Latest(times) == IF times = {} THEN NoTime ELSE Max(times)
FirstStart(g) == Earliest({jobs[i].start : i \in Shards(g)})
LastEnd(g) == Latest({jobs[i].end : i \in Shards(g)})

CurrentStepStartedAt ==
  IF CurrentStep = 0 THEN NoTime ELSE FirstStart(StepLabels[CurrentStep])

(* ----------------------------- GroupWeights ----------------------------- *)

\* A side without a stamp is borrowed from the group; a pair in the wrong
\* order is clock skew, and no measurement.
Spans(g) ==
  LET borrowed(i) == [start |-> IF jobs[i].start = NoTime THEN FirstStart(g) ELSE jobs[i].start,
                      end |-> IF jobs[i].end = NoTime THEN LastEnd(g) ELSE jobs[i].end]
  IN {span \in {borrowed(i) : i \in {k \in Shards(g) : jobs[k].start # NoTime \/ jobs[k].end # NoTime}} :
        span.start =< span.end}

\* Mutant of Joined: a span that begins inside another one ends it.
JoinedShort(cur, span) == [cur EXCEPT !.end = span.end]

Joined(cur, span) == [cur EXCEPT !.end = Latest({@, span.end})]

\* One sweep over the spans in the order of their starts.
Sweep(spans) ==
  LET sorted == SetToSortSeq(spans, LAMBDA a, b : a.start < b.start)
      step(acc, span) ==
        IF span.start =< acc.cur.end THEN [acc EXCEPT !.cur = Joined(@, span)]
        ELSE [total |-> acc.total + acc.cur.end - acc.cur.start, cur |-> span]
      swept == FoldLeft(step, [total |-> 0, cur |-> Head(sorted)], Tail(sorted))
  IN swept.total + swept.cur.end - swept.cur.start

BusyTime(g) ==
  IF FirstStart(g) = NoTime \/ LastEnd(g) = NoTime \/ Spans(g) = {} THEN Unmeasured ELSE Sweep(Spans(g))

Floor == 1
Measured == {g \in ToSet(StepLabels) : BusyTime(g) # Unmeasured}
GroupWeights == [g \in Measured |-> Max({Floor, BusyTime(g)})]

(* ------------------------- the weights of a card ------------------------ *)

\* Nothing outweighs its run, and what was not timed takes an even share of
\* it, when that clears the floor.
EvenShare(labels) == IF labels = {} THEN 0 ELSE RunLength \div Cardinality(labels)
FillWeights(measured, labels) ==
  LET shared == IF EvenShare(labels) > Floor THEN labels \ DOMAIN measured ELSE {} IN
  [g \in DOMAIN measured \union shared |->
     IF g \in shared THEN EvenShare(labels)
     ELSE IF RunLength > Floor THEN Min({measured[g], RunLength}) ELSE measured[g]]

MeanWeight(byName) ==
  Max({Floor, SumFunction(byName) \div Cardinality(DOMAIN byName)})

ProjectWeights(labels, byName) ==
  IF DOMAIN byName = {} THEN <<>>
  ELSE [s \in DOMAIN labels |->
          IF labels[s] \in DOMAIN byName THEN byName[labels[s]] ELSE MeanWeight(byName)]

\* Mutant of PayloadWeights: what was projected, whatever its length.
ProjectedWeights(total, labels, byName) == ProjectWeights(labels, byName)

\* With nothing to size the pills by they are equal, and never omitted.
PayloadWeights(total, labels, byName) ==
  LET projected == ProjectWeights(labels, byName) IN
  IF Len(projected) = total THEN projected ELSE [s \in 1..total |-> Floor]

NoWindow == [start |-> NoTime, end |-> NoTime]

\* Mutant of Estimate: a group without a measurement is given its run's length.
EstimateRun(g, byName) == IF g \in DOMAIN byName THEN byName[g] ELSE RunLength

Estimate(g, byName) == IF g \in DOMAIN byName THEN byName[g] ELSE MeanWeight(byName)

LiveAnchor(byName) ==
  IF \/ CurrentStep = 0 \/ CurrentStepName = "Queued"
     \/ DOMAIN byName = {} \/ CurrentStepStartedAt = NoTime
  THEN NoWindow
  ELSE LET start == Min({CurrentStepStartedAt, now})
           end == start + Min({Estimate(CurrentStepName, byName), MaxWindow})
       IN IF end > now + MinWindow THEN [start |-> start, end |-> end] ELSE NoWindow

(* ------------------------------ properties ------------------------------ *)

Fully == {i \in DOMAIN jobs : jobs[i].start # NoTime /\ jobs[i].end # NoTime}

(* What a group weighs is the time in which at least one of its shards ran, *)
(* however they overlap, queue or are requeued (busyTime, against the union *)
(* it claims to be), and the outer span when no shard has both stamps.      *)
BusyIsUnion ==
  \A g \in ToSet(StepLabels) : BusyTime(g) # Unmeasured =>
    /\ BusyTime(g) = Cardinality({t \in 1..LastTime + Skew :
                        \E span \in Spans(g) : span.start =< t /\ t < span.end})
    /\ Shards(g) \intersect Fully = {} /\ FirstStart(g) =< LastEnd(g) => BusyTime(g) = LastEnd(g) - FirstStart(g)

(* A window is sent only for a group that runs, with more than a moment of  *)
(* it ahead, as long as the pill drawn for that group is wide ("The two     *)
(* must agree", LiveAnchor and ProjectWeights).                             *)
WindowMatchesPill ==
  LET byName == FillWeights(prior, DOMAIN prior)
      window == LiveAnchor(byName)
  IN window # NoWindow =>
       /\ CurrentStep \in Active
       /\ window.start =< now /\ now + MinWindow < window.end
       /\ window.end - window.start =
            Min({ProjectWeights(StepLabels, byName)[CurrentStep], MaxWindow})

(* The weights on the wire are as many as the steps, whether they come of   *)
(* an earlier run, of this run's own measurements or of nothing at all, and *)
(* what a run measured of itself outweighs no run: the server refuses a     *)
(* card on which they differ, and one left out is the run before's          *)
(* (payloadWeights, FillWeights). What the seed shows without a reachable   *)
(* forge is one step without a label.                                       *)
WeightsFitSteps ==
  \A byName \in {FillWeights(prior, DOMAIN prior), FillWeights(GroupWeights, ToSet(StepLabels))} :
    LET weights == PayloadWeights(Len(StepLabels), StepLabels, byName) IN
    /\ Len(weights) = Len(StepLabels)
    /\ \A s \in DOMAIN weights : weights[s] \in Floor..Max({Floor, RunLength})
    /\ Len(PayloadWeights(1, <<>>, byName)) = 1
=============================================================================
