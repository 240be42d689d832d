---------------------------- MODULE ForgejoTasks -----------------------------
(* Where the Forgejo bridge takes the durations of a finished run from      *)
(* (forgejo/internal/forgejo/tasks.go): the repository's tasks, newest      *)
(* first, a page at a time, joined to the run's jobs by their ids. Between  *)
(* two requests other runs create tasks, which shifts every older row down, *)
(* rows are rewritten and the oldest ones pruned.                           *)
EXTENDS Integers, SequencesExt

CONSTANTS
  Jobs,      \* of the run, by task id
  Others,    \* task ids of other runs
  PageSize,  \* rows in a page (taskPageSize)
  MaxPages,  \* pages walked at most (maxTaskPages)
  Slack,     \* how far past the run's stop a completion may be (stoppedSlack)
  MaxSpan,   \* the longest run (maxRunSpan)
  MaxFaults  \* bound on the requests that fail

VARIABLES
  forgejo, \* the tasks, newest first; by id, when each was last written; the run's stop
  walk,    \* the page asked for next, what was counted and seen so far
  jobs,    \* by task id: the stamps
  faults

vars == <<forgejo, walk, jobs, faults>>

NoTime == 0
Started == 1
Stopped == 2
Rewritten == Started + MaxSpan + 1  \* an edit comes days later

\* A run cancelled early has no stop on the wire; "started" is the creation where
\* there is no start, and one in flight as listed may carry neither.
Runs == [started : {NoTime, Started}, stopped : {NoTime, Stopped}]

Init ==
  /\ \E tasks \in SetToAllKPermutations(Jobs \union Others), run \in Runs :
       /\ run.started = NoTime => run.stopped = NoTime
       /\ forgejo = [tasks |-> tasks, written |-> [t \in Jobs \union Others |-> Stopped], run |-> run]
  /\ walk = [page |-> 1, matched |-> 0, seen |-> {}, over |-> FALSE]
  /\ jobs = [j \in Jobs |-> [start |-> NoTime, end |-> NoTime]]
  /\ faults = 0

(* -------------------------------- Forgejo ------------------------------- *)

Listed == ToSet(forgejo.tasks)

ForgejoMoves ==
  /\ ~walk.over
  /\ \/ \E t \in Others \ Listed : forgejo' = [forgejo EXCEPT !.tasks = <<t>> \o @]
     \/ \E t \in Jobs \intersect Listed :
          /\ forgejo.written[t] # Rewritten
          /\ forgejo' = [forgejo EXCEPT !.written[t] = Rewritten]
     \/ forgejo.tasks # <<>> /\ forgejo' = [forgejo EXCEPT !.tasks = Front(@)]
  /\ UNCHANGED <<walk, jobs, faults>>

\* listTasks: what the page holds when it is served.
Page(p) == SubSeq(forgejo.tasks, (p - 1) * PageSize + 1, Min({p * PageSize, Len(forgejo.tasks)}))

(* -------------------------------- the join ------------------------------ *)

\* Mutant of CompletionBound: without a stop nothing is refused.
StopBound == IF forgejo.run.stopped # NoTime THEN forgejo.run.stopped + Slack ELSE NoTime

CompletionBound ==
  IF forgejo.run.stopped # NoTime THEN forgejo.run.stopped + Slack
  ELSE IF forgejo.run.started # NoTime THEN forgejo.run.started + MaxSpan
  ELSE NoTime

Believed(t) == CompletionBound = NoTime \/ forgejo.written[t] =< CompletionBound

\* The start says when the group began; a completion past the bound is none.
JoinTasks(rows) ==
  jobs' = [j \in Jobs |-> IF j \notin rows THEN jobs[j]
                          ELSE [start |-> Started,
                                end |-> IF Believed(j) THEN forgejo.written[j] ELSE jobs[j].end]]

\* Mutant of FreshRows: a row served twice is joined twice.
EveryRow(rows) == rows

FreshRows(rows) == rows \ walk.seen

\* One page. The terminator reads the page as served, not as filtered.
StampHistoricTimings ==
  LET page == Page(walk.page)
      fresh == FreshRows(ToSet(page))
      matched == walk.matched + Cardinality(fresh \intersect Jobs)
  IN
  /\ ~walk.over
  /\ JoinTasks(fresh)
  /\ walk' = [page |-> walk.page + 1, matched |-> matched, seen |-> walk.seen \union fresh,
              over |-> \/ Len(page) < PageSize
                       \/ walk.page + 1 > MaxPages
                       \/ matched >= Cardinality(Jobs)]
  /\ UNCHANGED <<forgejo, faults>>

\* A request that fails ends the walk with what it has.
Fails ==
  /\ ~walk.over /\ faults < MaxFaults
  /\ faults' = faults + 1
  /\ walk' = [walk EXCEPT !.over = TRUE]
  /\ UNCHANGED <<forgejo, jobs>>

Next == ForgejoMoves \/ StampHistoricTimings \/ Fails

(* ------------------------------ properties ------------------------------ *)

StampedJobs == {j \in Jobs : jobs[j].start # NoTime}

(* What the walk counts are jobs, however often a row was served, so it     *)
(* does not stop with a job unmatched; and when it stops before its cap,    *)
(* nothing of the run that is still listed was missed ("Joining it twice    *)
(* counted one job as two", stampHistoricTimings).                          *)
WalkFindsAll ==
  /\ walk.matched = Cardinality(StampedJobs)
  /\ walk.over /\ faults = 0 /\ walk.page =< MaxPages => Jobs \intersect Listed \subseteq StampedJobs

(* No edit of a row after the run is taken for a job's completion, also of  *)
(* a run whose stop is unknown (completionBound).                           *)
EditsAreRefused ==
  \A j \in Jobs : forgejo.run.started # NoTime => jobs[j].end \in {NoTime, Stopped}
=============================================================================
