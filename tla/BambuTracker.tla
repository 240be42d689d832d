---------------------------- MODULE BambuTracker ----------------------------
(* The BambuLab bridge (bambulab/internal/tracker): one loop follows the    *)
(* printer's merged MQTT state on one card, whose two-phase end is armed on *)
(* a timer group and guarded by a generation that every session bumps.      *)
EXTENDS Naturals, FiniteSetsExt

CONSTANTS
  MaxMoves,  \* bound on the printer's changes of state
  MaxFaults  \* bound on sends that fail

VARIABLES
  printer,  \* the printer's gcode state, as merged
  loop,     \* the loop: where it is, tracking, lastState, the state it acts on
  gen,      \* the session's generation
  timers,   \* the group: the armed phase, callbacks running, closed
  card,     \* the activity on the server
  past      \* moves, faults, the last phase a new generation overtook mid-send

vars == <<printer, loop, gen, timers, card, past>>

Printing == {"PREPARE", "RUNNING", "PAUSE"}
Finished == {"FINISH", "FAILED"}
None == [gen |-> 0, phase |-> 0]

Init ==
  /\ printer \in {"UNKNOWN", "IDLE", "RUNNING"}
  /\ loop = [at |-> "loop", tracking |-> FALSE, lastState |-> "UNKNOWN", acts |-> "UNKNOWN"]
  /\ gen = 1
  /\ timers = [armed |-> None, running |-> {}, closed |-> FALSE]
  /\ card = "none"
  /\ past = [moves |-> 0, faults |-> 0, overtaken |-> 0]

\* The printer's state as the reports say it; states in between may be missed.
PrinterMoves(state) ==
  /\ past.moves < MaxMoves
  /\ state # printer
  /\ printer' = state
  /\ past' = [past EXCEPT !.moves = @ + 1]
  /\ UNCHANGED <<loop, gen, timers, card>>

Sends(failed) == failed => past.faults < MaxFaults

Counted(failed) == [past EXCEPT !.faults = IF failed THEN @ + 1 ELSE @]

\* A new generation does not reach a callback that has passed its check.
Overtakes(failed) ==
  [Counted(failed) EXCEPT !.overtaken = Max({@} \union {cb.phase : cb \in timers.running})]

Card(failed, state) == card' = IF failed THEN card ELSE state

(* ------------------------------- the loop ------------------------------- *)

\* startTracking: stop the end of the session before, then create, then seed.
StartTracking ==
  /\ loop.at = "loop" /\ ~loop.tracking
  /\ printer \in Printing
  /\ timers' = [timers EXCEPT !.armed = None]
  /\ gen' = gen + 1
  /\ loop' = [loop EXCEPT !.at = "create", !.acts = printer]
  /\ past' = Overtakes(FALSE)
  /\ UNCHANGED <<printer, card>>

CreateActivity == \E failed \in BOOLEAN :
  /\ loop.at = "create"
  /\ Sends(failed)
  /\ loop' = [loop EXCEPT !.at = IF failed THEN "loop" ELSE "seed"]
  /\ past' = Counted(failed)
  /\ UNCHANGED <<printer, gen, timers, card>>

\* tracking begins only with a seed that landed, so a failed one is retried.
SendSeed == \E failed \in BOOLEAN :
  /\ loop.at = "seed"
  /\ Sends(failed)
  /\ Card(failed, "printing")
  /\ loop' = [loop EXCEPT !.at = "loop", !.tracking = ~failed,
                          !.lastState = IF failed THEN @ ELSE loop.acts]
  /\ past' = Counted(failed)
  /\ UNCHANGED <<printer, gen, timers>>

\* A frame of a transition is sent; one of the same state when it changed.
Progress == \E failed \in BOOLEAN :
  /\ loop.at = "loop" /\ loop.tracking
  /\ printer \in Printing
  /\ Sends(failed)
  /\ \/ Card(failed, "printing")
     \/ ~failed /\ printer = loop.lastState /\ UNCHANGED card
  /\ loop' = [loop EXCEPT !.lastState = printer]
  /\ past' = Counted(failed)
  /\ UNCHANGED <<printer, gen, timers>>

\* Mutant of Finish: the session's generation ends with its tracking.
FinishBumps ==
  /\ loop.at = "loop" /\ loop.tracking
  /\ printer \in Finished /\ loop.lastState # printer
  /\ loop' = [loop EXCEPT !.tracking = FALSE, !.lastState = printer]
  /\ timers' = IF timers.closed THEN timers
               ELSE [timers EXCEPT !.armed = [gen |-> gen, phase |-> 1]]
  /\ gen' = gen + 1
  /\ UNCHANGED <<printer, card, past>>

\* scheduleTwoPhaseEnd leaves the tracking at once and arms phase 1.
Finish ==
  /\ loop.at = "loop" /\ loop.tracking
  /\ printer \in Finished /\ loop.lastState # printer
  /\ loop' = [loop EXCEPT !.tracking = FALSE, !.lastState = printer]
  /\ timers' = IF timers.closed THEN timers
               ELSE [timers EXCEPT !.armed = [gen |-> gen, phase |-> 1]]
  /\ UNCHANGED <<printer, gen, card, past>>

\* endActivity: bump the generation, end the card, whether that lands or not.
Ends(failed) ==
  /\ Sends(failed)
  /\ gen' = gen + 1
  /\ Card(failed, "ended")
  /\ past' = Overtakes(failed)

Cancelled == \E failed \in BOOLEAN :
  /\ loop.at = "loop" /\ loop.tracking
  /\ printer = "IDLE" /\ loop.lastState # "IDLE"
  /\ Ends(failed)
  /\ loop' = [loop EXCEPT !.tracking = FALSE, !.lastState = printer]
  /\ UNCHANGED <<printer, timers>>

(* ------------------------- the two-phase end ---------------------------- *)

\* A timer fires, and its callback goes on only in the session that armed it.
\* Mutant of SameSession: Stop is trusted to have stopped every phase.
AnySession(cb) == TRUE

SameSession(cb) == cb.gen = gen

Fire ==
  /\ timers.armed # None
  /\ timers' = [timers EXCEPT !.armed = None,
                  !.running = IF SameSession(timers.armed) THEN @ \union {timers.armed} ELSE @]
  /\ UNCHANGED <<printer, loop, gen, card, past>>

\* Phase 1 shows the outcome and, landed or not, arms phase 2.
Phase1(cb) == \E failed \in BOOLEAN :
  /\ cb.phase = 1
  /\ Sends(failed)
  /\ Card(failed, "outcome")
  /\ timers' = [timers EXCEPT !.running = @ \ {cb},
                  !.armed = IF timers.closed THEN @ ELSE [cb EXCEPT !.phase = 2]]
  /\ past' = Counted(failed)
  /\ UNCHANGED <<printer, loop, gen>>

Phase2(cb) == \E failed \in BOOLEAN :
  /\ cb.phase = 2
  /\ Sends(failed)
  /\ Card(failed, "ended")
  /\ timers' = [timers EXCEPT !.running = @ \ {cb}]
  /\ past' = Counted(failed)
  /\ UNCHANGED <<printer, loop, gen>>

(* ------------------------------- shutdown ------------------------------- *)

\* The loop closes the group, ends a print it tracks, and waits for callbacks.
Close ==
  /\ loop.at = "loop"
  /\ timers' = [timers EXCEPT !.armed = None, !.closed = TRUE]
  /\ loop' = [loop EXCEPT !.at = "closing"]
  /\ UNCHANGED <<printer, gen, card, past>>

Interrupt == \E failed \in BOOLEAN :
  /\ loop.at = "closing" /\ loop.tracking
  /\ Ends(failed)
  /\ loop' = [loop EXCEPT !.at = "waiting", !.acts = "Interrupted"]
  /\ UNCHANGED <<printer, timers>>

Exit ==
  /\ loop.at = "waiting" \/ (loop.at = "closing" /\ ~loop.tracking)
  /\ timers.running = {}
  /\ loop' = [loop EXCEPT !.at = "exited"]
  /\ UNCHANGED <<printer, gen, timers, card, past>>

Next ==
  \/ \E state \in Printing \union Finished \union {"IDLE"} : PrinterMoves(state)
  \/ StartTracking \/ CreateActivity \/ SendSeed \/ Progress \/ Finish \/ Cancelled
  \/ Fire \/ (\E cb \in timers.running : Phase1(cb) \/ Phase2(cb))
  \/ Close \/ Interrupt \/ Exit

Spec == Init /\ [][Next]_vars

(* ------------------------------ properties ------------------------------ *)

(* A tracked print keeps its card: no phase armed for an earlier session    *)
(* ends it, a re-arm after Stop included (gen, scheduleTwoPhaseEnd). Only a *)
(* phase 2 already past its check when the session began can.               *)
NewPrintKeepsCard ==
  loop.tracking /\ loop.at = "loop" /\ past.overtaken < 2 => card # "ended"

(* A card left up is somebody's: it is tracked, or its end is on its way.   *)
(* Not so when a send failed, when the bridge was stopped before the end of *)
(* a print was due, or when a print began and ended while the one before    *)
(* was still sending phase 1, whose re-arm then takes the group's place     *)
(* (startTracking, finishActivity, endActivity).                            *)
CardIsAccountedFor ==
  card \in {"printing", "outcome"} /\ past.faults = 0 /\ past.overtaken = 0 /\ ~timers.closed =>
    \/ loop.tracking \/ loop.at # "loop"
    \/ timers.armed.gen = gen \/ \E cb \in timers.running : cb.gen = gen
=============================================================================
