------------------------------- MODULE Ender -------------------------------
(***************************************************************************)
(* relay/internal/lifecycle/ender.go: the two-phase end of activities on   *)
(* one replica.  A key stands for (user, mapKey) and its slug.  Ends are   *)
(* numbered by their gen.  Every section under e.mu is one action, and so  *)
(* is every attempt of an update; timers fire whenever they are armed.     *)
(*                                                                         *)
(* Around the Ender: handlers of the webhook server, which may call any    *)
(* operation at any time until the server is drained (cmd/pushward-relay   *)
(* main.go); the state store's rows; the PushWard server's activities.  An *)
(* update that fails was either applied before it failed or never is.  A   *)
(* nil store is a handler that never writes a row.                         *)
(***************************************************************************)
EXTENDS Integers, FiniteSets

CONSTANTS Keys, MaxGens   \* bound: how many ends are ever scheduled
ASSUME KeysAssumption == Keys # {}
ASSUME MaxGensAssumption == MaxGens \in Nat

VARIABLES
  timers,    \* the gen of each key's timerPair; 0: not in the map
  nextGen,
  key,       \* the key of each end
  pc,        \* where each end is
  wg,        \* e.wg's counter
  row,       \* which keys have a row in the state store
  act,       \* the last update of each activity the server applied
  tracked,   \* the end a running EndIfTracked's Exists met (0: none), or NoCall
  flush,     \* how far FlushAll and Wait have come
  pending,   \* the ends FlushAll has collected
  flushed    \* keys whose ENDED from FlushAll was applied

handlerVars == <<row, act, tracked>>
flushVars == <<flush, pending, flushed>>
vars == <<timers, nextGen, key, pc, wg, handlerVars, flushVars>>

Gens == 1..MaxGens
NoCall == 0 - 1

Phase1 == {"p1armed", "p1send", "p1pause", "p1resend", "p1check"}
Phase2 == {"p2armed", "p2send", "p2pause", "p2resend", "p2store", "p2clean"}
PCs == {"unused", "stopped", "finished"} \union Phase1 \union Phase2
Armed == {"p1armed", "p2armed"}

Live == {g \in Gens : pc[g] \in Phase1 \union Phase2}

Down == flush # "off"       \* shutdownCtx is cancelled

Init ==
  /\ timers = [k \in Keys |-> 0] /\ nextGen = 0
  /\ key = [g \in Gens |-> CHOOSE k \in Keys : TRUE]
  /\ pc = [g \in Gens |-> "unused"]
  /\ wg = 0
  /\ row = [k \in Keys |-> FALSE] /\ act = [k \in Keys |-> "none"]
  /\ tracked = [k \in Keys |-> NoCall]
  /\ flush = "off" /\ pending = {} /\ flushed = {}

Goto(g, from, to) == pc[g] = from /\ pc' = [pc EXCEPT ![g] = to]

(* The ends of ks whose timer Stop() finds still armed. *)
Stoppable(ks) == {g \in Gens : pc[g] \in Armed /\ \E k \in ks : timers[k] = g}
Stopped(ks) == [g \in Gens |-> IF g \in Stoppable(ks) THEN "stopped" ELSE pc[g]]

---------------------------------------------------------------------------
(* Operations of handlers.  The server is drained before FlushAll.         *)

(* The tail of scheduleEnd: cancel the key's timers, arm phase 1. *)
Arm(k) ==
  LET g == nextGen + 1
  IN /\ nextGen < MaxGens
     /\ nextGen' = g
     /\ timers' = [timers EXCEPT ![k] = g]
     /\ key' = [key EXCEPT ![g] = k]
     /\ pc' = [Stopped({k}) EXCEPT ![g] = "p1armed"]
     /\ wg' = wg - Cardinality(Stoppable({k})) + 1

ScheduleEnd(k) ==
  /\ ~Down
  /\ Arm(k)
  /\ UNCHANGED <<handlerVars, flushVars>>

(* EndIfTracked reads the store (a read that fails is a row not found) ... *)
Exists(k) ==
  /\ ~Down /\ tracked[k] = NoCall /\ row[k]
  /\ tracked' = [tracked EXCEPT ![k] = timers[k]]
  /\ UNCHANGED <<timers, nextGen, key, pc, wg, row, act, flushVars>>

(* ... and then leaves a pending end alone, or arms one. *)
EndIfTracked(k) ==
  /\ tracked[k] # NoCall
  /\ tracked' = [tracked EXCEPT ![k] = NoCall]
  /\ IF timers[k] # 0 THEN UNCHANGED <<timers, nextGen, key, pc, wg>> ELSE Arm(k)
  /\ UNCHANGED <<row, act, flushVars>>

\* Mutant of StopTimers: Done also for a callback that is already running.
StopTimersAlwaysDone(ks) ==
  /\ ~Down
  /\ \E k \in ks : timers[k] # 0
  /\ pc' = Stopped(ks)
  /\ wg' = wg - Cardinality({k \in ks : timers[k] # 0})
  /\ timers' = [k \in Keys |-> IF k \in ks THEN 0 ELSE timers[k]]
  /\ UNCHANGED <<nextGen, key, handlerVars, flushVars>>

\* Mutant of StopTimers: a stopped timer's Done is missing.
StopTimersNeverDone(ks) ==
  /\ ~Down
  /\ \E k \in ks : timers[k] # 0
  /\ pc' = Stopped(ks)
  /\ timers' = [k \in Keys |-> IF k \in ks THEN 0 ELSE timers[k]]
  /\ UNCHANGED <<nextGen, key, wg, handlerVars, flushVars>>

(* StopTimer of one key, StopAll of every key. *)
StopTimers(ks) ==
  /\ ~Down
  /\ \E k \in ks : timers[k] # 0
  /\ pc' = Stopped(ks)
  /\ wg' = wg - Cardinality(Stoppable(ks))
  /\ timers' = [k \in Keys |-> IF k \in ks THEN 0 ELSE timers[k]]
  /\ UNCHANGED <<nextGen, key, handlerVars, flushVars>>

StopTimer(k) == StopTimers({k})
StopAll == StopTimers(Keys)

(* A handler opens or updates the activity, with or without a row. *)
Open(k) ==
  /\ ~Down
  /\ act' = [act EXCEPT ![k] = "ongoing"]
  /\ \E written \in BOOLEAN : row' = [row EXCEPT ![k] = @ \/ written]
  /\ UNCHANGED <<timers, nextGen, key, pc, wg, tracked, flushVars>>

---------------------------------------------------------------------------
(* The callbacks.                                                          *)

(* One UpdateActivity of g: delivered, delivered with its answer lost, or  *)
(* not delivered.                                                          *)
Attempt(g, from, state, onNil, onErr) ==
  /\ pc[g] = from
  /\ \/ /\ act' = [act EXCEPT ![key[g]] = state]
        /\ pc' = [pc EXCEPT ![g] = onNil]
     \/ /\ act' \in {act, [act EXCEPT ![key[g]] = state]}
        /\ pc' = [pc EXCEPT ![g] = onErr]

\* Mutant of UpdateWithRetry: the second attempt's failure is retried, too.
UpdateForever(g, state, send, pause, resend, next) ==
  \/ /\ Attempt(g, send, state, next, pause) \/ Attempt(g, resend, state, next, pause)
     /\ UNCHANGED <<timers, nextGen, key, wg, row, tracked, flush, pending, flushed>>
  \/ /\ Goto(g, pause, IF Down THEN next ELSE resend)
     /\ UNCHANGED <<timers, nextGen, key, wg, handlerVars, flushVars>>

(* updateWithRetry: a second attempt after a pause.  Once shutdownCtx is   *)
(* done an attempt fails without being sent and the pause is cut short.    *)
UpdateWithRetry(g, state, send, pause, resend, next) ==
  \/ /\ \/ Attempt(g, send, state, next, pause)
        \/ Attempt(g, resend, state, next, next)
     /\ UNCHANGED <<timers, nextGen, key, wg, row, tracked, flush, pending, flushed>>
  \/ /\ Goto(g, pause, IF Down THEN next ELSE resend)
     /\ UNCHANGED <<timers, nextGen, key, wg, handlerVars, flushVars>>

FirePhase1(g) ==
  /\ Goto(g, "p1armed", IF Down THEN "p1check" ELSE "p1send")
  /\ UNCHANGED <<timers, nextGen, key, wg, handlerVars, flushVars>>

UpdatePhase1(g) == UpdateWithRetry(g, "final", "p1send", "p1pause", "p1resend", "p1check")

\* Mutant of ArmPhase2: phase 2 is armed although the end was superseded.
ArmPhase2Always(g) ==
  /\ Goto(g, "p1check", "p2armed")
  /\ UNCHANGED <<timers, nextGen, key, wg, handlerVars, flushVars>>

\* Mutant of ArmPhase2: the Add(1) of the phase-2 timer is missing.
ArmPhase2Unadded(g) ==
  /\ Goto(g, "p1check", IF timers[key[g]] = g THEN "p2armed" ELSE "stopped")
  /\ wg' = wg - 1
  /\ UNCHANGED <<timers, nextGen, key, handlerVars, flushVars>>

(* Arm phase 2 if the end is still the key's; Add(1) and the callback's    *)
(* own Done cancel out.                                                    *)
ArmPhase2(g) ==
  LET mine == timers[key[g]] = g
  IN /\ Goto(g, "p1check", IF mine THEN "p2armed" ELSE "stopped")
     /\ wg' = IF mine THEN wg ELSE wg - 1
     /\ UNCHANGED <<timers, nextGen, key, handlerVars, flushVars>>

FirePhase2(g) ==
  /\ Goto(g, "p2armed", IF Down THEN "p2store" ELSE "p2send")
  /\ UNCHANGED <<timers, nextGen, key, wg, handlerVars, flushVars>>

UpdatePhase2(g) ==
  /\ UpdateWithRetry(g, "ended", "p2send", "p2pause", "p2resend", "p2store")

(* store.Delete, which may fail, whether or not the update did. *)
DeleteRow(g) ==
  /\ Goto(g, "p2store", "p2clean")
  /\ \E failed \in BOOLEAN : row' = [row EXCEPT ![key[g]] = @ /\ failed]
  /\ UNCHANGED <<timers, nextGen, key, wg, act, tracked, flushVars>>

\* Mutant of Clean: the key is deleted whoever's it is by now.
CleanAlways(g) ==
  /\ Goto(g, "p2clean", "finished")
  /\ timers' = [timers EXCEPT ![key[g]] = 0]
  /\ wg' = wg - 1
  /\ UNCHANGED <<nextGen, key, handlerVars, flushVars>>

(* Delete the key if it is still this end's, run onComplete, return. *)
Clean(g) ==
  LET mine == timers[key[g]] = g
  IN /\ Goto(g, "p2clean", IF mine THEN "finished" ELSE "stopped")
     /\ timers' = IF mine THEN [timers EXCEPT ![key[g]] = 0] ELSE timers
     /\ wg' = wg - 1
     /\ UNCHANGED <<nextGen, key, handlerVars, flushVars>>

Callback(g) ==
  \/ FirePhase1(g) \/ UpdatePhase1(g) \/ ArmPhase2(g)
  \/ FirePhase2(g) \/ UpdatePhase2(g) \/ DeleteRow(g) \/ Clean(g)

---------------------------------------------------------------------------
(* FlushAll, then Wait, by main once the server is drained.                *)

FlushCancel ==
  /\ flush = "off" /\ \A k \in Keys : tracked[k] = NoCall
  /\ flush' = "cancelled"
  /\ UNCHANGED <<timers, nextGen, key, pc, wg, handlerVars, pending, flushed>>

FlushCollect ==
  LET held == {timers[k] : k \in Keys} \ {0}
  IN /\ flush = "cancelled"
     /\ pending' = held
     /\ flush' = IF held = {} THEN "done" ELSE "waiting"
     /\ pc' = Stopped(Keys)
     /\ wg' = wg - Cardinality(Stoppable(Keys))
     /\ timers' = [k \in Keys |-> 0]
     /\ UNCHANGED <<nextGen, key, handlerVars, flushed>>

\* Mutant of FlushWait: the running callbacks are not waited for.
FlushNoWait ==
  /\ flush = "waiting"
  /\ flush' = "sending"
  /\ UNCHANGED <<timers, nextGen, key, pc, wg, handlerVars, pending, flushed>>

FlushWait ==
  /\ flush = "waiting" /\ wg = 0
  /\ flush' = "sending"
  /\ UNCHANGED <<timers, nextGen, key, pc, wg, handlerVars, pending, flushed>>

(* One pending end: ENDED and the row, each of which may fail. *)
FlushSend(g) ==
  LET k == key[g]
  IN /\ flush = "sending" /\ g \in pending
     /\ pending' = pending \ {g}
     /\ \/ act' = [act EXCEPT ![k] = "ended"] /\ flushed' = flushed \union {k}
        \/ UNCHANGED <<act, flushed>>
     /\ \E failed \in BOOLEAN : row' = [row EXCEPT ![k] = @ /\ failed]
     /\ UNCHANGED <<timers, nextGen, key, pc, wg, tracked, flush>>

(* All sent, or the 10 s are over and the rest is dropped. *)
FlushDone ==
  /\ flush = "sending"
  /\ flush' = "done"
  /\ pending' = {}
  /\ UNCHANGED <<timers, nextGen, key, pc, wg, handlerVars, flushed>>

WaitAll ==
  /\ flush = "done" /\ wg = 0
  /\ flush' = "exited"
  /\ UNCHANGED <<timers, nextGen, key, pc, wg, handlerVars, pending, flushed>>

Exited == flush = "exited" /\ UNCHANGED vars

Shutdown ==
  FlushCollect \/ FlushWait \/ FlushDone \/ WaitAll \/ \E g \in Gens : FlushSend(g)

Next ==
  \/ \E k \in Keys :
       ScheduleEnd(k) \/ Exists(k) \/ EndIfTracked(k) \/ StopTimer(k) \/ Open(k)
  \/ StopAll
  \/ \E g \in Gens : Callback(g)
  \/ FlushCancel \/ Shutdown \/ Exited

(* Timers fire, attempts time out and callbacks run on; once it is called, *)
(* shutdown goes through.  Nothing makes a handler call.                   *)
Fairness ==
  /\ \A g \in Gens : WF_vars(Callback(g))
  /\ WF_vars(Shutdown)

Spec == Init /\ [][Next]_vars /\ Fairness

---------------------------------------------------------------------------
\* Type correctness of every variable of the module.
TypeOK ==
  /\ timers \in [Keys -> 0..nextGen] /\ nextGen \in 0..MaxGens
  /\ key \in [Gens -> Keys] /\ pc \in [Gens -> PCs] /\ wg \in Nat
  /\ row \in [Keys -> BOOLEAN] /\ act \in [Keys -> {"none", "ongoing", "final", "ended"}]
  /\ tracked \in [Keys -> NoCall..nextGen]
  /\ flush \in {"off", "cancelled", "waiting", "sending", "done", "exited"}
  /\ pending \subseteq 1..nextGen /\ flushed \subseteq Keys

(* A timer that is armed belongs to the pair in the map, whatever callback *)
(* was running when it was superseded or called off: no orphaned phase 2,  *)
(* no newer pair clobbered by an old phase 2's cleanup.  So StopTimer and  *)
(* FlushAll reach every timer there is.                                    *)
ArmedIsCurrent ==
  \A g \in Gens : pc[g] \in Armed => timers[key[g]] = g

(* The wait group counts the ends that are armed or running: each Stop     *)
(* that succeeds is balanced once, and no callback twice.                  *)
WgCounts == wg = Cardinality(Live)

(* ender.go, FlushAll: once its ENDED of an activity is applied, nothing   *)
(* is applied to that activity any more, in particular no ONGOING of a     *)
(* phase 1 that was running when the shutdown began.                       *)
FlushedStaysEnded ==
  [][\A k \in flushed : act'[k] = act[k]]_vars

(* When Wait returns nothing is armed or running, superseded ends included,*)
(* and nothing will be.                                                    *)
QuietAfterExit == flush = "exited" => Live = {} /\ \A k \in Keys : timers[k] = 0

(* Every end runs to its finish or is stopped, and the shutdown ends.      *)
EndsComplete == \A g \in Gens : g \in Live ~> g \notin Live

ShutdownEnds == Down ~> flush = "exited"

(* What the callers of an Ender see of an end. *)
Status(g) ==
  CASE pc[g] = "unused"   -> "new"
    [] pc[g] = "finished" -> "finished"
    [] pc[g] \notin {"unused", "finished"} ->
         IF timers[key[g]] # g THEN "off"
         ELSE IF pc[g] \in Phase1 THEN "waiting" ELSE "showing"

(* The Ender implements the two-phase end: an end shows and then finishes  *)
(* once, and only a later end of the key, a Stop or the flush puts it off. *)
Promise == INSTANCE TwoPhaseEnd
             WITH Ends <- Gens, NoEnd <- 0, current <- timers,
                  status <- [g \in Gens |-> Status(g)]
TwoPhase == Promise!Spec
TwoPhaseSteps == Promise!Init /\ [][Promise!Next]_(Promise!vars)
============================================================================
