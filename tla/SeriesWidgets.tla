--------------------------- MODULE SeriesWidgets ----------------------------
(* The widget manager's loop for a multi-source spec (shared/widgets): each *)
(* tick reads a set of series and keeps one widget for each, prunes those   *)
(* that stay away and, if told to, deletes their widgets.                   *)
EXTENDS Naturals, FiniteSets

CONSTANTS
  Series,     \* what the query may return
  Values,     \* their values; a difference of one goes unpublished
  MissGrace,  \* ticks in a row a series may be absent before it is pruned
  MaxSeries,  \* how many series are kept
  Heartbeat,  \* ticks after which an unchanged value is sent again
  MaxFaults   \* bound on calls that fail

VARIABLES
  cleanup,  \* CleanupMissing
  series,   \* seriesState: of each series kept its last value, misses and age
  widgets,  \* the widgets on the server, with the value each shows
  past      \* faults; how many ticks ago each series was last read and kept

vars == <<cleanup, series, widgets, past>>

Absent == 99
Gone == [kept |-> FALSE, last |-> 0, misses |-> 0, since |-> 0]
Fresh(v) == [kept |-> TRUE, last |-> v, misses |-> 0, since |-> 0]

Init ==
  /\ cleanup \in BOOLEAN
  /\ series = [s \in Series |-> Gone]
  /\ widgets = [s \in Series |-> Absent]
  /\ past = [faults |-> 0, away |-> [s \in Series |-> MissGrace]]

Kept == {s \in Series : series[s].kept}

\* A call is answered, fails, or lands with its answer lost. A widget that is
\* not there can be neither updated nor deleted.
Results == {"ok", "failed", "lost"}

(* -------------------------------- a tick -------------------------------- *)

ValueChanged(old, new) == new > old + 1 \/ old > new + 1

Older(st) == [st EXCEPT !.since = IF @ < Heartbeat THEN @ + 1 ELSE @]

\* New series are created while there is room; the rest are dropped.
New(readings) == {s \in Series \ Kept : readings[s] # Absent}
Admitted(readings, tried, ok) ==
  LET filled == Cardinality(Kept \union (tried \intersect ok)) IN
  /\ filled =< MaxSeries
  /\ tried # New(readings) => filled = MaxSeries

\* An update is due when the value moved, or the heartbeat is.
Sends(s, v) == ValueChanged(series[s].last, v) \/ Older(series[s]).since >= Heartbeat

\* Mutant of SeenUnchanged: a series that is seen keeps its misses.
SeenUnmarked(st) == st

SeenUnchanged(st) == [st EXCEPT !.misses = 0]

\* A failed update leaves the series' state as it was.
Updated(s, v, ok) ==
  IF ~Sends(s, v) THEN SeenUnchanged(Older(series[s]))
  ELSE IF ok THEN Fresh(v) ELSE Older(series[s])

\* A series away for its grace is pruned; a failed delete keeps it for the next tick.
MissedOnce(st) ==
  [Older(st) EXCEPT !.misses = IF @ < MissGrace THEN @ + 1 ELSE @]
Prunes(s) == MissedOnce(series[s]).misses >= MissGrace
Pruned(s, ok) ==
  IF ~Prunes(s) \/ ~ok THEN MissedOnce(series[s]) ELSE Gone

Calls(readings, tried) ==
  tried \union {s \in Kept : IF readings[s] = Absent THEN cleanup /\ Prunes(s)
                             ELSE Sends(s, readings[s])}

ApplyMulti(readings, tried, outcome) ==
  LET calls == DOMAIN outcome
      ok == {s \in Series : s \in calls => outcome[s] = "ok"}
      void == {s \in calls \intersect Kept : widgets[s] = Absent}
      faults == past.faults + Cardinality((Series \ ok) \ void)
  IN
  /\ Admitted(readings, tried, ok)
  /\ \A s \in void : outcome[s] = "failed"
  /\ faults =< MaxFaults
  /\ series' = [s \in Series |->
       IF s \in Kept
       THEN IF readings[s] = Absent THEN Pruned(s, s \in ok)
            ELSE Updated(s, readings[s], s \in ok)
       ELSE IF s \in tried \intersect ok THEN Fresh(readings[s]) ELSE Gone]
  /\ widgets' = [s \in Series |->
       IF s \in calls /\ outcome[s] # "failed" THEN readings[s] ELSE widgets[s]]
  /\ past' = [faults |-> faults,
              away |-> [s \in Series |->
                IF readings[s] # Absent /\ (s \in Kept \/ series'[s].kept) THEN 0
                ELSE IF past.away[s] < MissGrace THEN past.away[s] + 1 ELSE MissGrace]]
  /\ UNCHANGED cleanup

\* A query that fails skips the tick: nobody is missed.
Next ==
  \E readings \in [Series -> Values \union {Absent}] :
  \E tried \in SUBSET New(readings) :
  \E outcome \in [Calls(readings, tried) -> Results] :
    ApplyMulti(readings, tried, outcome)

Spec == Init /\ [][Next]_vars

(* ------------------------------ properties ------------------------------ *)

(* While no call fails, the series kept are those read within the grace,    *)
(* never more than the cap, whatever churn of gaps and returns led there;   *)
(* each has a widget that shows its value, and with CleanupMissing no other *)
(* widget is left on the server (applyMulti).                               *)
SeriesMatch ==
  past.faults = 0 =>
    /\ \A s \in Series : series[s].kept <=> past.away[s] < MissGrace
    /\ Cardinality(Kept) =< MaxSeries
    /\ \A s \in Kept : widgets[s] = series[s].last
    /\ cleanup => \A s \in Series : widgets[s] # Absent => series[s].kept

(* The field's comment: missCount counts "consecutive ticks this series has *)
(* been absent; reset when seen", so that only a series away for the whole  *)
(* grace is pruned. An update that fails while the series is seen leaves    *)
(* the count as it was.                                                     *)
OnlyTheAbsentPruned == \A s \in Series : past.away[s] < MissGrace => series[s].kept
=============================================================================
