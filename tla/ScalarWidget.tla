---------------------------- MODULE ScalarWidget -----------------------------
(* The widget manager's loop for one widget (shared/widgets): a scalar of   *)
(* any template, or a stat_list. Each tick of the poll interval reads the   *)
(* source and publishes what changed; a heartbeat re-sends what stands, so  *)
(* that the device does not dim the widget as stale.                        *)
EXTENDS Integers, FiniteSetsExt

CONSTANTS
  Values,      \* what change detection compares
  Intervals,   \* poll intervals, in units of ten seconds as every time here
  StaleAfter,  \* the stale window of the widget
  Floor,       \* the shortest heartbeat
  MinChange,   \* the change a scalar may make unpublished
  Latency,     \* how long a tick's query and call may take
  MaxFaults    \* bound on calls that fail

VARIABLES
  spec,   \* the widget's interval, kind and update mode
  loop,   \* the goroutine: lastValue, lastContent, needsCreate, time since sent
  widget, \* the server's: its content, and time since it was last stamped
  past    \* faults, last reading, open failures and misses, whether it dimmed

vars == <<spec, loop, widget, past>>

NoValue == -9

\* value is what the change detection sees; extra is the rest of the payload:
\* the points of a trend, the display-only rows of a stat_list.
Empty == [value |-> NoValue, extra |-> 0]
Contents == [value : Values, extra : {0, 1}] \union {Empty}

Readings == IF spec.kind = "stat_list" THEN Contents ELSE Contents \ {Empty}

\* The config refuses an interval of which three do not fit the window.
Valid(interval) == 3 * interval =< StaleAfter

Init ==
  /\ spec \in [interval : {i \in Intervals : Valid(i)}, kind : {"value", "gauge", "stat_list"},
               always : BOOLEAN]
  /\ loop = [at |-> "start", needsCreate |-> FALSE, lastContent |-> Empty, since |-> 0]
  /\ widget = [there |-> FALSE, content |-> Empty, age |-> 0]
  /\ past = [faults |-> 0, read |-> Empty, unsettled |-> FALSE, missed |-> FALSE, dimmed |-> FALSE]

\* A call is answered, fails, or lands with its answer lost.
Results == {"ok", "failed", "lost"}
Possible(result) == result # "ok" => past.faults < MaxFaults

(* -------------------------------- startup ------------------------------- *)

\* The first read: without a value a gauge's create waits for the first one;
\* a failed create fails the start. The ticker sets in after a jitter.
Start == \E found \in BOOLEAN, result \in Results, jitter \in 0..Latency : \E r \in Readings :
  /\ loop.at = "start" /\ Possible(result)
  /\ IF ~found /\ spec.kind = "gauge"
     THEN /\ loop' = [loop EXCEPT !.at = "run", !.needsCreate = TRUE]
          /\ UNCHANGED <<widget, past>>
     ELSE LET content == IF found THEN r ELSE Empty IN
          /\ loop' = [loop EXCEPT !.at = IF result = "ok" THEN "run" ELSE "failed",
                                  !.lastContent = content, !.since = jitter]
          /\ widget' = IF result = "failed" THEN widget
                       ELSE [there |-> TRUE, content |-> content, age |-> jitter]
          /\ past' = [past EXCEPT !.read = content]
  /\ UNCHANGED spec

(* -------------------------------- a tick -------------------------------- *)

\* Mutant of HeartbeatFor: the heartbeat fills the whole window.
HeartbeatWindow == StaleAfter

HeartbeatFor == Max({Floor, StaleAfter \div 2})

Elapsed == loop.since + spec.interval
HeartbeatDue == Elapsed >= HeartbeatFor

\* A stat_list publishes any change of its triggering rows.
ValueChanged(old, new) ==
  IF spec.kind = "stat_list" \/ old = NoValue THEN old # new
  ELSE new - old > MinChange \/ old - new > MinChange

\* A scalar without a value so far is never unchanged: NaN marks it.
Unchanged(r) ==
  /\ ~spec.always
  /\ loop.lastContent.value = NoValue => spec.kind = "stat_list"
  /\ ~ValueChanged(loop.lastContent.value, r.value)

Later(t) == Min({t + spec.interval, StaleAfter + 1})
Dims(d) == widget.there /\ widget.age + spec.interval + d > StaleAfter /\ ~past.missed

\* A read that fails, and for a scalar one without data, skips the tick.
Missed ==
  /\ loop.at = "run"
  /\ loop' = [loop EXCEPT !.since = Later(@)]
  /\ widget' = [widget EXCEPT !.age = Later(@)]
  /\ past' = [past EXCEPT !.missed = TRUE]
  /\ UNCHANGED spec

Skip(r) ==
  /\ loop.at = "run" /\ ~loop.needsCreate
  /\ Unchanged(r) /\ ~HeartbeatDue
  /\ loop' = [loop EXCEPT !.since = Later(@)]
  /\ widget' = [widget EXCEPT !.age = Later(@)]
  /\ past' = [past EXCEPT !.read = r, !.dimmed = @ \/ Dims(0)]
  /\ UNCHANGED spec

\* What is sent at time d of the tick lands, fails, or lands unheard of.
Lands(content, d, result, r) ==
  /\ Possible(result)
  /\ widget' = IF result = "failed" THEN [widget EXCEPT !.age = Later(@)]
               ELSE [there |-> TRUE, content |-> content, age |-> -d]
  /\ past' = [faults |-> IF result = "ok" THEN past.faults ELSE past.faults + 1,
              read |-> r,
              unsettled |-> result # "ok",
              missed |-> result # "ok",
              dimmed |-> past.dimmed \/ Dims(d)]
  /\ UNCHANGED spec

CreateDeferred(r, d, result) ==
  /\ loop.at = "run" /\ loop.needsCreate
  /\ Lands(r, d, result, r)
  /\ loop' = IF result # "ok" THEN [loop EXCEPT !.since = Later(@)]
             ELSE [loop EXCEPT !.needsCreate = FALSE, !.lastContent = r, !.since = -d]

\* Mutant of Payload: a heartbeat renders the content anew.
PayloadAnew(r) == r

\* A heartbeat re-sends the stored content.
Payload(r) == IF Unchanged(r) THEN loop.lastContent ELSE r

Publish(r, d, result) ==
  /\ loop.at = "run" /\ ~loop.needsCreate
  /\ Unchanged(r) => HeartbeatDue
  /\ Lands(Payload(r), d, result, r)
  /\ loop' = IF result # "ok" THEN [loop EXCEPT !.since = Later(@)]
             ELSE [loop EXCEPT !.lastContent = IF Unchanged(r) THEN @ ELSE r, !.since = -d]

Next ==
  \/ Start \/ Missed
  \/ \E r \in Readings :
       \/ Skip(r)
       \/ \E d \in 0..Latency, result \in Results :
            CreateDeferred(r, d, result) \/ Publish(r, d, result)

(* ------------------------------ properties ------------------------------ *)

(* Unless its last call failed, the widget shows the last reading to within *)
(* MinChange, however slowly the metric drifts, and is byte for byte what   *)
(* the loop takes it to be, so that a heartbeat is a touch and no push      *)
(* (runScalar: "names the value the server actually holds"; runStatList).   *)
ShownIsCurrent ==
  loop.at = "run" /\ ~loop.needsCreate /\ ~past.unsettled =>
    /\ widget.content = loop.lastContent
    /\ ~ValueChanged(widget.content.value, past.read.value)

(* A widget whose reads and calls succeed never dims: heartbeats ride the   *)
(* ticker, late by up to an interval and a call's time, and the interval's  *)
(* limit leaves room for both (HeartbeatFor, validateStaleAfter).           *)
NeverDims == ~past.dimmed
=============================================================================
