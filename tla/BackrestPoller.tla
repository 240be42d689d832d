--------------------------- MODULE BackrestPoller ---------------------------
(* The Backrest bridge (backrest/internal/poller): every poll walks the     *)
(* window of recent operations, keeps a record of each one it has a card    *)
(* for, and closes the card in two phases on a timer group of the record.   *)
(* The operations here share a plan and a repo, hence one card; a server    *)
(* may evict it for a more important one and promote it back.               *)
EXTENDS Naturals, FiniteSetsExt

CONSTANTS
  Ops,        \* operation ids, in the order they run
  MaxEvents,  \* bound on what Backrest, the server and the machine do
  MaxFaults   \* bound on calls that fail

VARIABLES
  backrest, \* each operation: its stage, ended long ago, inside the window
  poller,   \* the poll in progress: operations to handle, as read; primed
  tracked,  \* the record of each operation: none, open or ending, and flags
  done,     \* operations closed out
  timers,   \* the timer group of each operation's last record
  card,     \* the activity on the server
  past      \* events, faults, crashes, what a supersede has failed to stop

vars == <<backrest, poller, tracked, done, timers, card, past>>

NoRecord == [at |-> "none", seeded |-> FALSE, preempted |-> FALSE, failing |-> FALSE]
NoTimer == [armed |-> 0, running |-> 0, closed |-> FALSE]
AtRest == [todo |-> {}, read |-> <<>>, primed |-> TRUE, priming |-> FALSE, at |-> "rest"]

Init ==
  /\ backrest = [o \in Ops |-> [stage |-> "none", old |-> FALSE, listed |-> TRUE]]
  /\ poller = [AtRest EXCEPT !.primed = FALSE]
  /\ tracked = [o \in Ops |-> NoRecord]
  /\ done = {}
  /\ timers = [o \in Ops |-> NoTimer]
  /\ card = [state |-> "none", op |-> 0]
  /\ past = [events |-> 0, faults |-> 0, crashed |-> FALSE, overtaken |-> 0]

Happens == past.events < MaxEvents
Counted(failed) ==
  /\ failed => past.faults < MaxFaults
  /\ past' = [past EXCEPT !.faults = IF failed THEN @ + 1 ELSE @]

(* ------------------------ Backrest and the server ----------------------- *)

\* Backrest runs its operations one after the other.
Starts(o) ==
  /\ backrest[o].stage = "none"
  /\ \A p \in Ops : p < o => backrest[p].stage = "done"
  /\ backrest' = [backrest EXCEPT ![o].stage = "running"]

Finishes(o) ==
  /\ backrest[o].stage = "running"
  /\ backrest' = [backrest EXCEPT ![o].stage = "done"]

\* The stale timeout passes, which the server counts as well.
Ages(o) ==
  /\ backrest[o].stage = "done" /\ ~backrest[o].old
  /\ backrest' = [backrest EXCEPT ![o].old = TRUE]

\* Rows leave the window and come back into it.
Scrolls(o) ==
  /\ backrest[o].stage # "none"
  /\ backrest' = [backrest EXCEPT ![o].listed = ~@]

Backrest(o) ==
  /\ Happens
  /\ Starts(o) \/ Finishes(o) \/ Ages(o) \/ Scrolls(o)
  /\ past' = [past EXCEPT !.events = @ + 1]
  /\ UNCHANGED <<poller, tracked, done, timers, card>>

Evict ==
  /\ Happens
  /\ card.state \in {"ongoing", "preempted"}
  /\ card' = [card EXCEPT !.state = IF @ = "ongoing" THEN "preempted" ELSE "ongoing"]
  /\ past' = [past EXCEPT !.events = @ + 1]
  /\ UNCHANGED <<backrest, poller, tracked, done, timers>>

(* -------------------------------- a poll -------------------------------- *)

Poll == \E failed \in BOOLEAN :
  /\ poller.at = "rest"
  /\ Counted(failed)
  /\ poller' = IF failed THEN poller
               ELSE [todo |-> {o \in Ops : backrest[o].stage # "none" /\ backrest[o].listed},
                     read |-> backrest, primed |-> TRUE, priming |-> ~poller.primed,
                     at |-> "handling"]
  /\ UNCHANGED <<backrest, tracked, done, timers, card>>

\* A new record supersedes one of the same card that is closing: its group is
\* closed, which a phase already running does not feel, and it is dropped.
Closing(o) == {p \in Ops \ {o} : tracked[p].at = "ending"}

\* Mutant of ClosedGroup: Stop, which a running phase 1 re-arms after.
StoppedGroup(t) == [t EXCEPT !.armed = 0]

ClosedGroup(t) == [t EXCEPT !.armed = 0, !.closed = TRUE]

IsNew(o) == tracked[o].at = "none"
Records(o) ==
  [p \in Ops |-> IF p = o /\ IsNew(o) THEN [NoRecord EXCEPT !.at = "open"]
                 ELSE IF IsNew(o) /\ p \in Closing(o) THEN NoRecord ELSE tracked[p]]
Groups(o) ==
  [p \in Ops |-> IF IsNew(o) /\ p \in Closing(o) THEN ClosedGroup(timers[p]) ELSE timers[p]]
\* What a supersede cannot reach: a phase being sent, or the whole close of a
\* record still open when the next run of its plan is first seen.
Overtaken(o) ==
  LET others == IF IsNew(o) THEN {p \in Ops \ {o} : tracked[p].at # "none"} ELSE {} IN
  Max({past.overtaken} \union
      {IF tracked[p].at = "open" THEN 3 ELSE timers[p].running : p \in others})

\* What may come of a push: it is held back while preempted, but for a probe;
\* it lands, as a create and a seed the first time and as a patch without a
\* state after that; a preempted card refuses the patch; or it fails.
Results == {"held", "landed", "refused", "failed"}
Possible(r, result) ==
  LET evicted == r.seeded /\ card.state = "preempted" IN
  CASE result = "held"    -> r.preempted
    [] result = "landed"  -> ~evicted
    [] result = "refused" -> evicted
    [] result = "failed"  -> past.faults < MaxFaults

Pushed(r, result) ==
  CASE result = "held"    -> r
    [] result = "landed"  -> [r EXCEPT !.seeded = TRUE, !.preempted = FALSE, !.failing = FALSE]
    [] result = "refused" -> [r EXCEPT !.preempted = TRUE, !.failing = FALSE]
    [] result = "failed"  -> [r EXCEPT !.failing = ~r.preempted]

CardPushed(o, r, result) ==
  IF result # "landed" THEN card
  ELSE [op |-> o, state |-> IF r.seeded THEN card.state ELSE "ongoing"]

Push(o, result) ==
  /\ Possible(Records(o)[o], result)
  /\ card' = CardPushed(o, Records(o)[o], result)
  /\ past' = [past EXCEPT !.faults = IF result = "failed" THEN @ + 1 ELSE @,
                          !.overtaken = Overtaken(o)]

Keeps(o, result) ==
  /\ tracked' = [Records(o) EXCEPT ![o] = Pushed(@, result)]
  /\ timers' = Groups(o)
  /\ UNCHANGED done

\* A record that has been failing for long enough is given up.
Abandons(o, result) ==
  /\ result = "failed" /\ Records(o)[o].failing /\ ~Records(o)[o].preempted
  /\ tracked' = [Records(o) EXCEPT ![o] = NoRecord]
  /\ timers' = Groups(o)
  /\ done' = done \union {o}

HandleRunning(o) ==
  IF o \in done THEN UNCHANGED <<tracked, done, timers, card, past>>
  ELSE \/ tracked[o].seeded /\ UNCHANGED <<tracked, done, timers, card, past>>
       \/ \E result \in Results : Push(o, result) /\ (Keeps(o, result) \/ Abandons(o, result))

Armed == [NoTimer EXCEPT !.armed = 1]

\* An error leaves the close to the next poll; held back or refused does not.
HandleTerminal(o) ==
  IF o \in done THEN UNCHANGED <<tracked, done, timers, card, past>>
  ELSE \E result \in Results :
    /\ Push(o, result)
    /\ IF result = "failed" THEN Keeps(o, result) \/ Abandons(o, result)
       ELSE /\ tracked' = [Records(o) EXCEPT ![o] = [Pushed(@, result) EXCEPT !.at = "ending"]]
            /\ timers' = [Groups(o) EXCEPT ![o] = Armed]
            /\ done' = done \union {o}

\* Mutant of AdoptFinished: what the first poll finds finished is old news.
AdoptNothing(o) ==
  IF poller.read[o].old \/ poller.priming
  THEN done' = done \union {o} /\ UNCHANGED <<tracked, timers, card, past>>
  ELSE HandleTerminal(o)

AdoptFinished(o) ==
  IF poller.read[o].old
  THEN done' = done \union {o} /\ UNCHANGED <<tracked, timers, card, past>>
  ELSE HandleTerminal(o)

Handle ==
  /\ poller.at = "handling" /\ poller.todo # {}
  /\ LET o == Min(poller.todo) IN
     /\ poller' = [poller EXCEPT !.todo = @ \ {o}]
     /\ IF poller.read[o].stage = "running"
        THEN IF poller.priming THEN UNCHANGED <<tracked, done, timers, card, past>>
             ELSE HandleRunning(o)
        ELSE IF tracked[o].at # "none" /\ ~poller.priming THEN HandleTerminal(o)
             ELSE AdoptFinished(o)
  /\ UNCHANGED backrest

\* reapVanished, then pruneDone: an open record whose operation is not in the
\* window is closed, or dropped when it never had a card.
Seen == {o \in Ops : poller.read[o].stage # "none" /\ poller.read[o].listed}
Orphans == {o \in Ops \ Seen : tracked[o].at = "open"}

FinishPoll ==
  /\ poller.at = "handling" /\ poller.todo = {}
  /\ tracked' = [o \in Ops |-> IF o \notin Orphans THEN tracked[o]
                               ELSE IF tracked[o].seeded THEN [tracked[o] EXCEPT !.at = "ending"]
                               ELSE NoRecord]
  /\ timers' = [o \in Ops |-> IF o \in Orphans /\ tracked[o].seeded THEN Armed ELSE timers[o]]
  /\ done' = done \intersect Seen
  /\ poller' = AtRest
  /\ UNCHANGED <<backrest, card, past>>

(* -------------------------- the two-phase close ------------------------- *)

Fire(o) ==
  /\ timers[o].armed # 0
  /\ timers' = [timers EXCEPT ![o].armed = 0, ![o].running = timers[o].armed]
  /\ UNCHANGED <<backrest, poller, tracked, done, card, past>>

\* Each frame carries its state, which the server takes even when preempted.
Phase1(o) == \E failed \in BOOLEAN :
  /\ timers[o].running = 1
  /\ Counted(failed)
  /\ card' = IF failed THEN card ELSE [state |-> "ongoing", op |-> o]
  /\ timers' = [timers EXCEPT ![o].running = 0,
                              ![o].armed = IF timers[o].closed THEN 0 ELSE 2]
  /\ UNCHANGED <<backrest, poller, tracked, done>>

Phase2(o) == \E failed \in BOOLEAN :
  /\ timers[o].running = 2
  /\ Counted(failed)
  /\ card' = IF failed THEN card ELSE [state |-> "ended", op |-> o]
  /\ timers' = [timers EXCEPT ![o].running = 0]
  /\ tracked' = [tracked EXCEPT ![o] = NoRecord]
  /\ UNCHANGED <<backrest, poller, done>>

\* A stopped bridge forgets everything; the card stays.
Crash ==
  /\ Happens /\ poller.at = "rest"
  /\ poller' = [AtRest EXCEPT !.primed = FALSE]
  /\ tracked' = [o \in Ops |-> NoRecord]
  /\ done' = {}
  /\ timers' = [o \in Ops |-> NoTimer]
  /\ past' = [past EXCEPT !.events = @ + 1, !.crashed = TRUE]
  /\ UNCHANGED <<backrest, card>>

Next ==
  \/ \E o \in Ops : Backrest(o)
  \/ Evict \/ Poll \/ Handle \/ FinishPoll
  \/ \E o \in Ops : Fire(o) \/ Phase1(o) \/ Phase2(o)
  \/ Crash

(* ------------------------------ properties ------------------------------ *)

Pending(o) == timers[o].armed # 0 \/ timers[o].running # 0

(* The card of a run being followed is not ended by the close of the run    *)
(* before it (track closes that record's group), but for a phase 2 that was *)
(* being sent when the new run was first seen, or a record still open then. *)
RunKeepsCard ==
  \A o \in Ops : tracked[o].at = "open" /\ tracked[o].seeded /\ past.overtaken < 2
    => card.state # "ended"

(* While no call fails or is overtaken, a card left up between polls is     *)
(* somebody's: a close is on its way, the operation is followed or about to *)
(* be read. What a restart left behind is closed too (adoptFinished), but   *)
(* for an operation that left the window meanwhile or that ended so long    *)
(* ago that the server has swept its card.                                  *)
CardIsClosed ==
  card.state \in {"ongoing", "preempted"} /\ past.faults = 0 /\ past.overtaken = 0 /\ poller = AtRest =>
    \/ \E o \in Ops : Pending(o) \/ tracked[o].at = "open"
    \/ backrest[card.op].stage = "running" \/ backrest[card.op].old
    \/ card.op \notin done /\ (backrest[card.op].listed \/ past.crashed)
=============================================================================
