-------------------------- MODULE JellyfinPlayback --------------------------
(***************************************************************************)
(* One playback of the relay's Jellyfin provider: the webhooks a player    *)
(* causes, handled one at a time, against the timers that end its card     *)
(* (the Ender's two phases and the pause timer), each of which may fire    *)
(* between any two calls of a handler.  The debounce maps are memory and   *)
(* go with the process.  Time is left out: a timer that is armed may fire, *)
(* and a frame may come within the debounce of the last one or after it.   *)
(***************************************************************************)
EXTENDS Naturals, Sequences

CONSTANTS
  Positions,    \* where in the item a player may be
  MaxWebhooks   \* bound: webhooks delivered

VARIABLES
  handler,  \* the webhook being handled
  store,    \* the playback's row is there
  memory,   \* lastPaused ("none" when there is no entry) and lastProgress
  timers,   \* the Ender's end and callback, the pause timer and its callbacks
  server,   \* the card
  past      \* what the player does, and what went wrong

vars == <<handler, store, memory, timers, server, past>>

Idle == [what |-> "none", paused |-> "play", plan |-> <<>>]
NoMemory == [paused |-> "none", pos |-> 0]
NoTimers == [end |-> "none", callback |-> "none", pause |-> 0, gen |-> 0, fired |-> {}, ending |-> FALSE]

Init ==
  /\ handler = Idle
  /\ store = FALSE
  /\ memory = NoMemory
  /\ timers = NoTimers
  /\ server = "none"
  /\ past = [player |-> "none", pos |-> 0, delivered |-> 0, hurt |-> {}, raced |-> FALSE]

MayFail(kind) == past.hurt \subseteq {kind}
Fault(kind) == MayFail(kind) /\ past' = [past EXCEPT !.hurt = {kind}]
Race(condition) == past' = [past EXCEPT !.raced = @ \/ condition]

---------------------------------------------------------------------------
(* The player: what it does next, and the webhook it causes.               *)

Webhook(what, paused, plan) == [what |-> what, paused |-> paused, plan |-> plan]
Starting == <<"stop", "create", "set", "update", "remember">>

Deliver(from, player, webhook) ==
  /\ handler = Idle /\ past.delivered < MaxWebhooks
  /\ past.player \in from
  /\ handler' = webhook
  /\ past' = [past EXCEPT !.player = player, !.delivered = @ + 1]
  /\ UNCHANGED <<store, memory, timers, server>>

Start == Deliver({"none", "stopped", "paused"}, "playing", Webhook("start", "play", Starting))
StaleStart == Deliver({"none", "stopped"}, "stopped", Webhook("stale", "pause", <<"remember">>))
Plays == Deliver({"none", "playing", "paused"}, "playing", Webhook("progress", "play", <<"debounce">>))
Pauses == Deliver({"playing"}, "paused", Webhook("progress", "pause", <<"debounce">>))

\* Mutant of Stops: nothing is ended under channels=notification.
StopsOnlyAllowed ==
  \E calls \in {<<"schedule">>, <<>>} :
    Deliver({"playing", "paused"}, "stopped", Webhook("stop", "play", <<"unpause">> \o calls))

Stops ==
  \E call \in {"schedule", "endIfTracked"} :    \* by the URL's channels
    Deliver({"playing", "paused"}, "stopped", Webhook("stop", "play", <<"unpause", call>>))

Seeks ==
  \E pos \in Positions :
    /\ handler = Idle /\ past.delivered < MaxWebhooks /\ past.player = "paused"
    /\ handler' = Webhook("progress", "pause", <<"debounce">>)
    /\ past' = [past EXCEPT !.pos = pos, !.delivered = @ + 1]
    /\ UNCHANGED <<store, memory, timers, server>>

---------------------------------------------------------------------------
(* The handlers.                                                           *)

Calls(call) == handler.plan # <<>> /\ Head(handler.plan) = call
Then(plan) == handler' = [handler EXCEPT !.plan = plan]
Advance == Then(Tail(handler.plan))
Answer == handler' = Idle

\* Mutant of StopPause: the timer is stopped and stays in the map.
StopNothing(t) == t

(* Stopping the pause timer takes its entry away, which its callback looks *)
(* for when it has started already.                                        *)
StopPause(t) == [t EXCEPT !.pause = 0]
ArmPause(t) == [t EXCEPT !.pause = t.gen + 1, !.gen = t.gen + 1]

(* The part of handlePlaybackProgress under the lock.                      *)
Debounce ==
  LET changed == memory.paused \notin {"none", handler.paused}
      still == memory.paused = "pause" /\ handler.paused = "pause"
      resumed == IF changed /\ handler.paused = "play" THEN StopPause(timers) ELSE timers
  IN /\ Calls("debounce")
     /\ \/ /\ still                                     \* only a seek counts
           /\ Answer
           /\ memory' = [memory EXCEPT !.pos = past.pos]
           /\ timers' = IF memory.pos = past.pos THEN timers ELSE ArmPause(timers)
           /\ UNCHANGED past
        \/ /\ memory.paused = handler.paused /\ ~still  \* within the debounce
           /\ Answer
           /\ Race(timers.end # "none")
           /\ UNCHANGED <<memory, timers>>
        \/ /\ ~still
           /\ Then(<<"stop", "exists">>)
           /\ memory' = [paused |-> handler.paused, pos |-> past.pos]
           /\ timers' = IF handler.paused = "pause" /\ memory.paused # "pause" THEN ArmPause(timers) ELSE resumed
           /\ UNCHANGED past
     /\ UNCHANGED <<store, server>>

(* A start does not stop a pause timer, and neither stops an end whose     *)
(* callback runs, nor one that a pause timer is about to schedule.         *)
StopTimer ==
  /\ Calls("stop")
  /\ timers' = [timers EXCEPT !.end = "none"]
  /\ Race(timers.callback # "none" \/ timers.ending \/ (handler.what = "start" /\ timers.pause # 0))
  /\ Advance
  /\ UNCHANGED <<store, memory, server>>

(* A failed read counts as no row.                                         *)
Exists ==
  /\ Calls("exists")
  /\ \/ store /\ Then(<<"update">>) /\ UNCHANGED past
     \/ /\ IF store THEN Fault("read") ELSE UNCHANGED past
        /\ Then(IF handler.paused = "pause" THEN <<"unpause">> ELSE <<"create", "set", "update">>)
  /\ UNCHANGED <<store, memory, timers, server>>

CancelPause ==
  /\ Calls("unpause")
  /\ timers' = StopPause(timers)
  /\ Advance
  /\ UNCHANGED <<store, memory, server, past>>

Sent(call, card) ==
  /\ Calls(call)
  /\ \/ server' = card /\ Advance /\ UNCHANGED past
     \/ UNCHANGED server /\ Answer /\ Fault("call")
  /\ UNCHANGED <<store, memory, timers>>

CreateActivity == Sent("create", "ongoing")
UpdateActivity == Sent("update", IF server = "none" THEN "none" ELSE "ongoing")

SetRow ==
  /\ Calls("set")
  /\ (store' = TRUE /\ UNCHANGED past) \/ (UNCHANGED store /\ Fault("write"))
  /\ Advance
  /\ UNCHANGED <<memory, timers, server>>

Remember ==
  /\ Calls("remember")
  /\ memory' = [paused |-> handler.paused, pos |-> past.pos]
  /\ Advance
  /\ UNCHANGED <<store, timers, server, past>>

ScheduleEnd ==
  /\ Calls("schedule")
  /\ timers' = [timers EXCEPT !.end = "phase1"]
  /\ Race(timers.callback # "none" \/ timers.ending)
  /\ Advance
  /\ UNCHANGED <<store, memory, server>>

EndIfTracked ==
  /\ Calls("endIfTracked")
  /\ \/ /\ timers' = [timers EXCEPT !.end = IF store /\ @ = "none" THEN "phase1" ELSE @]
        /\ Race(timers.callback # "none" \/ timers.ending)
     \/ UNCHANGED timers /\ Fault("read")
  /\ Advance
  /\ UNCHANGED <<store, memory, server>>

Answered ==
  /\ handler # Idle /\ handler.plan = <<>>
  /\ Answer
  /\ UNCHANGED <<store, memory, timers, server, past>>

Work ==
  \/ Debounce \/ StopTimer \/ Exists \/ CancelPause \/ CreateActivity \/ UpdateActivity
  \/ SetRow \/ Remember \/ ScheduleEnd \/ EndIfTracked \/ Answered

---------------------------------------------------------------------------
(* The timers.                                                             *)

(* The pause timer's goroutine starts; nothing stops it from then on.  It  *)
(* does not start while the frame that armed it is handled: PauseTimeout   *)
(* is minutes.                                                             *)
FirePause ==
  /\ handler = Idle \/ handler.paused = "play"
  /\ timers.pause # 0 /\ timers.pause \notin timers.fired
  /\ timers' = [timers EXCEPT !.fired = @ \union {timers.pause}]
  /\ UNCHANGED <<handler, store, memory, server, past>>

Superseded(gen) == timers.pause # gen

(* endPaused, under the lock; it fetches the poster before it schedules.   *)
EndPaused ==
  \E gen \in timers.fired :
    /\ timers' = IF Superseded(gen) THEN [timers EXCEPT !.fired = @ \ {gen}]
                 ELSE [timers EXCEPT !.fired = @ \ {gen}, !.pause = 0, !.ending = TRUE]
    /\ UNCHANGED <<handler, store, memory, server, past>>

EndPausedSchedules ==
  /\ timers.ending
  /\ timers' = [timers EXCEPT !.ending = FALSE, !.end = "phase1"]
  /\ UNCHANGED <<handler, store, memory, server, past>>

Phase1 ==
  /\ timers.end = "phase1"
  /\ timers' = [timers EXCEPT !.end = "phase2"]
  /\ UNCHANGED <<handler, store, memory, server, past>>

Phase2 ==
  /\ timers.end = "phase2" /\ timers.callback = "none"
  /\ timers' = [timers EXCEPT !.end = "running", !.callback = "ended"]
  /\ UNCHANGED <<handler, store, memory, server, past>>

SendEnded ==
  /\ timers.callback = "ended"
  /\ \/ server' = (IF server = "none" THEN "none" ELSE "ended") /\ UNCHANGED past
     \/ UNCHANGED server /\ Fault("lost end")
  /\ timers' = [timers EXCEPT !.callback = "row"]
  /\ UNCHANGED <<handler, store, memory>>

DeleteRow ==
  /\ timers.callback = "row"
  /\ (store' = FALSE /\ UNCHANGED past) \/ (UNCHANGED store /\ Fault("write"))
  /\ timers' = [timers EXCEPT !.callback = "cleanup", !.end = IF @ = "running" THEN "none" ELSE @]
  /\ UNCHANGED <<handler, memory, server>>

CleanupDebounce ==
  /\ timers.callback = "cleanup"
  /\ memory' = NoMemory
  /\ timers' = [StopPause(timers) EXCEPT !.callback = "none"]
  /\ UNCHANGED <<handler, store, server, past>>

(* StartCleanup: no update for StaleTimeout.                               *)
Sweep ==
  /\ memory # NoMemory /\ Fault("stale")
  /\ memory' = NoMemory
  /\ timers' = StopPause(timers)
  /\ UNCHANGED <<handler, store, server>>

Crash ==
  /\ Fault("crash")
  /\ handler' = Idle /\ memory' = NoMemory /\ timers' = NoTimers
  /\ UNCHANGED <<store, server>>

Timers ==
  \/ FirePause \/ EndPaused \/ EndPausedSchedules \/ Phase1 \/ Phase2
  \/ SendEnded \/ DeleteRow \/ CleanupDebounce

Next ==
  \/ Start \/ StaleStart \/ Plays \/ Pauses \/ Seeks \/ Stops
  \/ Work \/ Timers \/ Sweep \/ Crash

---------------------------------------------------------------------------
(* Properties.                                                             *)

Quiet == handler = Idle /\ ~past.raced

(* No end is on its way to the card: neither timer is armed, and no        *)
(* callback that started can still schedule or send one.                   *)
NoEndComing ==
  /\ timers.end = "none" /\ timers.callback = "none" /\ ~timers.ending
  /\ \A gen \in timers.fired : Superseded(gen)
  /\ timers.pause = 0

(* While somebody watches, the card is up and no end left over from an     *)
(* earlier pause or stop is coming for it, whatever the store answered.    *)
PlayingStays ==
  Quiet /\ past.hurt \subseteq {"read", "stale"} /\ past.player = "playing"
    => server = "ongoing" /\ NoEndComing

(* A playback that is stopped, or paused and left, does not keep its card: *)
(* an end is coming for it.                                                *)
LeftCardEnds ==
  Quiet /\ past.hurt = {} /\ past.player \in {"paused", "stopped"} /\ server = "ongoing" => ~NoEndComing
=============================================================================
