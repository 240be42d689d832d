--------------------------- MODULE BackrestFrames ---------------------------
(* What the Backrest bridge (backrest/internal/poller) shows of one running *)
(* operation, and when: a poll per unit of time reads the row, derives a    *)
(* rate and a window for the bar to fill across, or the tail of a log, and  *)
(* sends the frame only when it says something new. BackrestPoller has the  *)
(* rest of the bridge: records, evictions, restarts and the close. Here     *)
(* render.live_progress and render.logs are on.                             *)
EXTENDS Integers, FiniteSetsExt

CONSTANTS
  Size,          \* bytes a backup transfers, once the scan has told
  MaxRate,       \* bytes in a unit of time, at most
  MaxLines,      \* lines a prune writes, at most
  ProgressStep,  \* progressChangeFrac, in bytes
  RefreshGap,    \* logRefreshInterval
  MinWindow,     \* minLiveWindow
  MaxETA,        \* render.max_eta
  ReanchorFloor, \* reanchorFloor; reanchorFrac is one in five
  StaleAfter,    \* stale_timeout
  HeartbeatFloor,
  MaxGaps,       \* bound on rows that carry no status line
  MaxFaults,     \* bound on calls that fail
  LastTime

VARIABLES
  op,    \* the row: backup or prune, bytes or lines so far, over or not
  t,     \* the poller's memory of it
  card,  \* the activity on the server, and when it was last updated
  now,
  past   \* faults, lost answers and what the properties compare with

vars == <<op, t, card, now, past>>

Never == 0
NoRef == -1

Frame(phase, progress, start, end, live, lines) ==
  [phase |-> phase, progress |-> progress, start |-> start, end |-> end,
   live |-> live, lines |-> lines]
NoFrame == Frame("none", 0, 0, 0, "unsaid", 0)

Init ==
  /\ op \in [kind : {"backup", "prune"}, done : {0}, scanned : {FALSE}, status : {FALSE},
             log : {NoRef}, over : {FALSE}, failed : {FALSE}]
  /\ t = [seeded |-> FALSE, last |-> NoFrame, lastPushAt |-> Never, lastBytes |-> 0,
          lastSampleAt |-> Never, speed |-> 0, logLines |-> 0, lastLogPoll |-> Never,
          ending |-> FALSE]
  /\ card = [shown |-> NoFrame, at |-> Never]
  /\ now = 1
  /\ past = [due |-> FALSE, failed |-> FALSE, faults |-> 0, lost |-> FALSE, gaps |-> 0,
             fastest |-> 0, unseen |-> Never, asked |-> Never, asks |-> {}]

(* ------------------------------- Backrest ------------------------------- *)

\* The counter moves on, also while restic still scans and while the row has
\* no status line.
Transfers == \E d \in 0..MaxRate, scanned, status \in BOOLEAN :
  /\ op.kind = "backup"
  /\ op.done + d <= Size /\ (op.scanned => scanned)
  /\ op' = [op EXCEPT !.done = @ + d, !.scanned = scanned, !.status = status]
  /\ op.status /\ ~status => past.gaps < MaxGaps
  /\ past' = [past EXCEPT !.due = TRUE, !.fastest = Max({@, d}),
                          !.gaps = IF op.status /\ ~status THEN @ + 1 ELSE @]

Writes == \E written \in {0, 1} :
  /\ op.kind = "prune" /\ op.log + written <= MaxLines
  /\ op' = [op EXCEPT !.log = @ + written]
  /\ past' = [past EXCEPT !.due = TRUE,
       !.unseen = IF @ = Never /\ op.log + written > card.shown.lines THEN now' ELSE @]

\* A backup that ends well has a summary in the place of its status line, and
\* either way it may list files it could not read.
Finishes == \E failed \in BOOLEAN, errors \in {0, 1} :
  /\ op' = [op EXCEPT !.over = TRUE, !.failed = failed, !.status = @ /\ failed,
                      !.log = IF op.kind = "backup" /\ errors > 0 THEN errors ELSE @]
  /\ past' = [past EXCEPT !.due = TRUE]

Backrest ==
  /\ ~past.due /\ ~t.ending /\ now < LastTime
  /\ now' = now + 1
  /\ IF op.over THEN UNCHANGED op /\ past' = [past EXCEPT !.due = TRUE]
     ELSE Transfers \/ Writes \/ Finishes
  /\ UNCHANGED <<t, card>>

(* ------------------------------ the frame ------------------------------- *)

Up(n, d) == (n + d - 1) \div d

\* Rates are in tenths of a byte; a rate that decays stays positive.
Sampled(bytes) ==
  LET inst == Up(10 * (bytes - t.lastBytes), now - t.lastSampleAt)
      rate == IF t.lastSampleAt = Never \/ bytes < t.lastBytes THEN t.speed
              ELSE IF t.speed = 0 THEN inst
              ELSE Up(3 * inst + 7 * t.speed, 10)
  IN [t EXCEPT !.speed = rate, !.lastBytes = bytes, !.lastSampleAt = now]

\* Mutant of Sample: a row without a status line counts as no bytes.
SampleAlways == Sampled(IF op.status THEN op.done ELSE 0)

Sample == IF op.status THEN Sampled(op.done) ELSE t

Remaining == IF op.status /\ op.scanned THEN Size - op.done ELSE 0

\* An estimate worth showing, at rate speed: the time Remaining takes.
Usable(speed) ==
  /\ speed > 0 /\ Remaining > 0
  /\ 10 * Remaining >= MinWindow * speed /\ 10 * Remaining <= MaxETA * speed
Estimate(speed) == now + (10 * Remaining) \div speed

Abs(n) == IF n < 0 THEN -n ELSE n
Drifted(speed) ==
  LET current == t.last.end - now IN
  5 * Abs(10 * Remaining - current * speed) > Max({5 * ReanchorFloor, current}) * speed

\* Mutant of Anchors: a window that has run out is kept within the drift.
AnchorsOnDrift(speed) ==
  Usable(speed) /\ (t.last.end = 0 \/ Drifted(speed))

Anchors(speed) ==
  Usable(speed) /\ (t.last.end = 0 \/ t.last.end <= now \/ Drifted(speed))

RunningContent(r) ==
  LET moved == Anchors(r.speed)
      start == IF moved THEN now ELSE t.last.start
      end   == IF moved THEN Estimate(r.speed) ELSE t.last.end
  IN Frame(IF op.status /\ op.scanned THEN "running" ELSE "scanning",
           IF op.status /\ op.scanned THEN op.done ELSE 0,
           start, end, IF end > 0 THEN "on" ELSE "unsaid", 0)

\* Mutant of Fetched: stamped when the log was read, not when it was asked for.
FetchedStampedLate(fails) ==
  IF op.log = NoRef \/ fails THEN t
  ELSE [t EXCEPT !.lastLogPoll = now, !.logLines = op.log]

Fetched(fails) ==
  IF op.log = NoRef THEN t
  ELSE [t EXCEPT !.lastLogPoll = now, !.logLines = IF fails THEN @ ELSE op.log]

Cached == t.lastLogPoll # Never /\ now - t.lastLogPoll < RefreshGap

\* What a poll asks for: the log of a prune, when it is over at once.
Asks == op.kind = "prune" /\ op.log # NoRef /\ (op.over \/ ~Cached)

Read(fails) ==
  CASE op.kind = "backup" -> IF op.over THEN t ELSE Sample
    [] op.kind = "prune"  -> IF op.over \/ ~Cached THEN Fetched(fails) ELSE t

RepoTaskContent(r) == Frame("pruning", 0, 0, 0, "off", r.logLines)

EndProgress ==
  IF ~op.failed THEN Size ELSE IF op.status /\ op.scanned THEN op.done ELSE 0
EndLines(r) == IF op.kind = "prune" THEN r.logLines ELSE Max({0, op.log})

\* Mutant of EndContent: a final frame that leaves live_progress out.
EndContentUnsaid(r) == Frame("end", EndProgress, 0, 0, "unsaid", EndLines(r))

EndContent(r) == Frame("end", EndProgress, 0, 0, "off", EndLines(r))

Content(r) ==
  IF op.over THEN EndContent(r)
  ELSE IF op.kind = "backup" THEN RunningContent(r) ELSE RepoTaskContent(r)

(* ------------------------------- the push ------------------------------- *)

Heartbeat == Max({StaleAfter \div 2, HeartbeatFloor})

\* Mutant of ShouldPush: the lines of a log wait for the heartbeat.
ShouldPushNoLines(c) ==
  \/ c.phase # t.last.phase
  \/ Abs(c.progress - t.last.progress) >= ProgressStep
  \/ c.end # 0 /\ c.end # t.last.end
  \/ now - t.lastPushAt >= Heartbeat

\* A log view appears with its first line, so a template never changes alone.
ShouldPush(c) ==
  \/ c.phase # t.last.phase
  \/ Abs(c.progress - t.last.progress) >= ProgressStep
  \/ c.end # 0 /\ c.end # t.last.end
  \/ c.lines # t.last.lines
  \/ now - t.lastPushAt >= Heartbeat

\* A patch is merged: what a frame leaves out stays as it was.
Merged(c) ==
  [c EXCEPT !.live = IF @ = "unsaid" THEN card.shown.live ELSE @,
            !.start = IF c.end = 0 THEN card.shown.start ELSE @,
            !.end = IF @ = 0 THEN card.shown.end ELSE @,
            !.lines = IF @ = 0 THEN card.shown.lines ELSE @]

\* Mutant of MarkPushed: the frame is recorded although it has not landed.
MarkPushedSent(r, c, result) ==
  [r EXCEPT !.seeded = TRUE, !.last = c, !.lastPushAt = now, !.ending = op.over /\ result = "landed"]

MarkPushed(r, c, result) ==
  IF result # "landed" THEN r
  ELSE [r EXCEPT !.seeded = TRUE, !.last = c, !.lastPushAt = now, !.ending = op.over]

Shown(c, result) ==
  IF result = "failed" THEN card ELSE [shown |-> Merged(c), at |-> now]

Sends(c) == op.over \/ ~t.seeded \/ ShouldPush(c)

Poll == \E fails \in BOOLEAN, result \in {"silent", "landed", "failed", "lost"} :
  LET r == Read(fails)
      c == Content(r)
      faults == past.faults + (IF fails THEN 1 ELSE 0)
                            + (IF result \in {"failed", "lost"} THEN 1 ELSE 0)
  IN
  /\ past.due
  /\ fails => Asks
  /\ Sends(c) <=> result # "silent"
  /\ faults <= MaxFaults
  /\ t' = IF result = "silent" THEN r ELSE MarkPushed(r, c, result)
  /\ card' = IF result = "silent" THEN card ELSE Shown(c, result)
  /\ past' = [past EXCEPT
       !.due = FALSE, !.faults = faults, !.failed = fails \/ result \in {"failed", "lost"},
       !.lost = IF result = "silent" THEN @ ELSE result = "lost",
       !.unseen = IF card'.shown.lines >= op.log THEN Never ELSE @,
       !.asked = IF Asks THEN now ELSE @,
       !.asks = IF Asks /\ ~op.over /\ past.asked # Never THEN @ \union {now - past.asked} ELSE @]
  /\ UNCHANGED <<op, now>>

Next == Backrest \/ Poll

(* ------------------------------ properties ------------------------------ *)

Polled == ~past.due /\ ~past.failed /\ ~past.lost /\ t.seeded /\ ~op.over

(* A silence is safe: when a poll has sent nothing, or what it sent has     *)
(* landed, the card shows the phase, the bar within the step and the tail   *)
(* the bridge knows of, whatever failed before; and as long as an estimate  *)
(* is worth showing, a bar moves towards a moment ahead that agrees with it *)
(* (shouldPush, anchor, markPushed).                                        *)
SilenceIsSafe ==
  Polled =>
    /\ card.shown.lines = IF op.kind = "prune" THEN t.logLines ELSE 0
    /\ op.kind = "backup" =>
         /\ card.shown.phase = IF op.status /\ op.scanned THEN "running" ELSE "scanning"
         /\ Abs(card.shown.progress - IF op.status /\ op.scanned THEN op.done ELSE 0) < ProgressStep
         /\ Usable(t.speed) =>
              card.shown.live = "on" /\ card.shown.end > now /\ ~Drifted(t.speed)

(* The card is updated before the server sweeps it as stale, also when a    *)
(* call has failed (heartbeat).                                             *)
NeverStale == card.at # Never /\ ~t.ending => now - card.at < StaleAfter

(* The rate is never above what was really transferred in a unit of time:   *)
(* a row without a status line, or a first reading, is no burst (frameFor,  *)
(* sample).                                                                 *)
RateIsReal == t.speed <= 10 * past.fastest

(* While no call fails a line is on the card before the next refresh is     *)
(* due, and the log is not asked for more often, answered or not            *)
(* (cachedLogLines, fetchLogLines).                                         *)
LinesArrive ==
  /\ past.faults = 0 /\ ~past.due /\ past.unseen # Never => now - past.unseen < RefreshGap
  /\ \A gap \in past.asks : gap >= RefreshGap

(* A card that is being closed stands still and has the whole log, if it    *)
(* could be read: the tail is not the cached one, and no field of a running *)
(* frame shows through; the bar of a failed backup stays where it stopped   *)
(* (handleTerminal, endProgress, withLogLines, contentPatch).               *)
FinalFrameIsWhole ==
  t.ending =>
    /\ card.shown.live = "off" /\ card.shown.phase = "end"
    /\ op.log > 0 /\ ~past.failed => card.shown.lines = op.log
    /\ op.kind = "backup" /\ op.failed => card.shown.progress <= op.done
=============================================================================
