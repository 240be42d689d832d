-------------------------------- MODULE Relay --------------------------------
(***************************************************************************)
(* One incident of one provider of the relay: the webhooks about it, the   *)
(* handlers that run them (Plans), the rows of the state store, the ends   *)
(* of the provider's Ender, and what the PushWard server shows.  A call of *)
(* a handler is one action; it may fail, and the process may crash between *)
(* any two.                                                                *)
(*                                                                         *)
(* The sender waits for an answer before it tells something new, but may   *)
(* deliver the same webhook again while the first is handled.  An end is   *)
(* what Ender does, kept to what handlers can meet: armed for phase 1 or   *)
(* 2, or a phase-2 callback running, which nothing stops: ENDED, then the  *)
(* row.  Rows live for hours and expire in no run.                         *)
(***************************************************************************)
EXTENDS AlertPlans, MediaPlans, Naturals, FiniteSets

CONSTANTS
  Handlers,
  UrlSets,      \* the sets of webhook URLs a service may be given
  MaxWebhooks,  \* bound: how many are delivered
  MaxKinds      \* bound: of how many kinds the faults of a behaviour are

ASSUME BoundsAssumption == MaxWebhooks \in Nat /\ MaxKinds \in Nat

Alerting == {"komodo", "gatus", "truenas", "uptimekuma"}
UniversalKinds == {"alert", "titled", "progress"}

(* The services, by what their handlers are given: starr's mode and the    *)
(* kind of a universal event are the settings of one incident.             *)
Providers ==
  (Alerting \union {"proxmox", "backrest", "overseerr", "paperless", "unmanic", "changedetection",
    "bazarr", "jellyfin", "prowlarr", "forgejo", "starr", "starr notifying"}) \union UniversalKinds

(* The webhooks of each provider, posted to the URL u.                     *)
Webhooks(service, u) ==
  CASE service = "komodo" -> KomodoWebhooks(u)
    [] service = "uptimekuma" -> UptimeKumaWebhooks(u)
    [] service = "gatus" -> GatusWebhooks(u)
    [] service = "truenas" -> TrueNASWebhooks(u)
    [] service = "proxmox" -> ProxmoxWebhooks(u)
    [] service = "backrest" -> BackrestWebhooks(u)
    [] service = "overseerr" -> OverseerrWebhooks(u)
    [] service = "paperless" -> PaperlessWebhooks(u)
    [] service = "unmanic" -> UnmanicWebhooks(u)
    [] service = "changedetection" -> ChangedetectionWebhooks(u)
    [] service = "bazarr" -> BazarrWebhooks(u)
    [] service = "jellyfin" -> JellyfinWebhooks(u)
    [] service = "forgejo" -> ForgejoWebhooks(u)
    [] service = "prowlarr" -> ProwlarrWebhooks(u)
    [] service = "starr" -> RadarrWebhooks(u, FALSE) \union SonarrWebhooks(u, FALSE)
    [] service = "starr notifying" -> RadarrWebhooks(u, TRUE) \union SonarrWebhooks(u, TRUE)
    [] service \in UniversalKinds -> UniversalWebhooks(u, service)

VARIABLES
  provider, urls,     \* the service, and the URLs its hooks post to
  handler,            \* what each handler still has to do
  row, end, callback, \* the store, the Ender's timers, its running callbacks
  card,               \* the activities
  repeats,            \* the alert repeats until acknowledged
  note,               \* the last push under the alert's collapse id
  last,               \* what the last webhook answered 200 said
  hurt,               \* the kinds of fault there were
  raced,              \* a handler met an end it could not, or did not, stop
  delivered

config == <<provider, urls>>
server == <<card, repeats, note>>
ends == <<end, callback>>
ghosts == <<last, hurt, raced>>
vars == <<config, handler, row, ends, server, ghosts, delivered>>

Keys == {"main", "side"}
Idle == [says |-> "nothing", plan |-> <<>>]
Busy == {h \in Handlers : handler[h] # Idle}

Init ==
  /\ provider \in Providers
  /\ urls \in UrlSets
  /\ handler = [h \in Handlers |-> Idle]
  /\ row = [k \in Keys |-> FALSE]
  /\ end = [k \in Keys |-> "none"] /\ callback = [k \in Keys |-> "none"]
  /\ card = [k \in Keys |-> "none"] /\ repeats = FALSE /\ note = "none"
  /\ last = "nothing" /\ hurt = {} /\ raced = FALSE
  /\ delivered = 0

Deliver(h) ==
  /\ handler[h] = Idle /\ delivered < MaxWebhooks
  /\ \E u \in urls : \E webhook \in Webhooks(provider, u) :
       /\ \A g \in Busy : handler[g].says = webhook.says
       /\ handler' = [handler EXCEPT ![h] = webhook]
  /\ delivered' = delivered + 1
  /\ UNCHANGED <<config, row, ends, server, ghosts>>

---------------------------------------------------------------------------
(* The calls of a handler.                                                 *)

Call(h) == Head(handler[h].plan)
Calls(h, what) == handler[h].plan # <<>> /\ Call(h).do = what
Goto(h, plan) == handler' = [handler EXCEPT ![h].plan = plan]
Next1(h) == Goto(h, Tail(handler[h].plan))

Fault(kind) ==
  /\ hurt' = hurt \union {kind}
  /\ Cardinality(hurt') <= MaxKinds

Otherwise(h) ==
  IF Call(h).or = GoOn THEN Next1(h) ELSE \E plan \in Call(h).or : Goto(h, plan)

Fails(h, kind) == Otherwise(h) /\ Fault(kind)

Stop(h) ==
  LET k == Call(h).key
  IN /\ Calls(h, "stop")
     /\ end' = [end EXCEPT ![k] = "none"]
     /\ raced' = (raced \/ callback[k] # "none")
     /\ Next1(h)
     /\ UNCHANGED <<config, row, callback, server, last, hurt, delivered>>

Schedule(h) ==
  LET k == Call(h).key
  IN /\ Calls(h, "end")
     /\ end' = [end EXCEPT ![k] = "phase1"]
     /\ raced' = (raced \/ callback[k] # "none")
     /\ Next1(h)
     /\ UNCHANGED <<config, row, callback, server, last, hurt, delivered>>

(* An end in flight is left alone.                                         *)
EndTracked(h) ==
  LET k == Call(h).key
  IN /\ Calls(h, "endIfTracked")
     /\ \/ /\ row[k]
           /\ end' = [end EXCEPT ![k] = IF @ = "none" THEN "phase1" ELSE @]
           /\ raced' = (raced \/ (end[k] = "none" /\ callback[k] # "none"))
           /\ Goto(h, Call(h).found)
           /\ UNCHANGED hurt
        \/ /\ ~row[k]
           /\ Goto(h, Call(h).absent)
           /\ UNCHANGED <<end, raced, hurt>>
        \/ Fails(h, "read") /\ UNCHANGED <<end, raced>>
     /\ UNCHANGED <<config, row, callback, server, last, delivered>>

(* Ender.Pending                                                           *)
AskPending(h) ==
  /\ Calls(h, "ifPending")
  /\ Goto(h, IF end[Call(h).key] # "none" THEN Call(h).pending ELSE Call(h).over)
  /\ UNCHANGED <<config, row, ends, server, ghosts, delivered>>

Read(h) ==
  /\ Calls(h, "get")
  /\ \/ Goto(h, IF row[Call(h).key] THEN Call(h).found ELSE Call(h).absent) /\ UNCHANGED hurt
     \/ Fails(h, "read")
  /\ UNCHANGED <<config, row, ends, server, last, raced, delivered>>

Write(h) ==
  /\ \E op \in {"set", "delete"} :
       /\ Calls(h, op)
       /\ \/ /\ row' = [row EXCEPT ![Call(h).key] = op = "set"]
             /\ Next1(h) /\ UNCHANGED hurt
          \/ Fails(h, "write") /\ UNCHANGED row
  /\ UNCHANGED <<config, ends, server, last, raced, delivered>>

(* CreateActivity is an upsert.  Backrest's handlers create without        *)
(* stopping the end of the operation before.                               *)
CreateActivity(h) ==
  /\ Calls(h, "create")
  /\ raced' = (raced \/ (provider = "backrest" /\ end[Call(h).key] # "none"))
  /\ \/ card' = [card EXCEPT ![Call(h).key] = "ongoing"] /\ Next1(h) /\ UNCHANGED hurt
     \/ Fails(h, "call") /\ UNCHANGED card
  /\ UNCHANGED <<config, row, ends, repeats, note, last, delivered>>

(* An activity the server does not have is a 404, which is no fault.       *)
(* starr's manual interaction reopens a card whose end completes after it  *)
(* read the row.                                                           *)
UpdateActivity(h) ==
  LET k == Call(h).key
  IN /\ Calls(h, "update")
     /\ \/ /\ card[k] # "none"
           /\ card' = [card EXCEPT ![k] = Call(h).state]
           /\ Next1(h) /\ UNCHANGED hurt
        \/ card[k] = "none" /\ Otherwise(h) /\ UNCHANGED <<card, hurt>>
        \/ Fails(h, "call") /\ UNCHANGED card
     /\ raced' = (raced \/ (provider = "starr" /\ card[k] = "ended"))
     /\ UNCHANGED <<config, row, ends, repeats, note, last, delivered>>

Notify(h) ==
  /\ Calls(h, "push")
  /\ \/ /\ note' = IF Call(h).note = "notice" THEN note ELSE Call(h).note
        /\ Next1(h) /\ UNCHANGED hurt
     \/ Fails(h, "call") /\ UNCHANGED note
  /\ UNCHANGED <<config, row, ends, card, repeats, last, raced, delivered>>

(* ack.Send: an acknowledged push, or the plain one when the server        *)
(* refuses the acknowledge, or neither.                                    *)
Send1(h) ==
  /\ Calls(h, "send")
  /\ \/ /\ note' = IF Call(h).note = "notice" THEN note ELSE Call(h).note
        /\ repeats' \in {repeats, repeats \/ (Call(h).acked /\ Call(h).note = "alert")}
        /\ Next1(h) /\ UNCHANGED hurt
     \/ Fails(h, "call") /\ UNCHANGED <<note, repeats>>
  /\ UNCHANGED <<config, row, ends, card, last, raced, delivered>>

(* ack.Cancel only logs a failure.                                         *)
CancelRepeats(h) ==
  /\ Calls(h, "cancel")
  /\ \/ repeats' = FALSE /\ Next1(h) /\ UNCHANGED hurt
     \/ Fails(h, "call") /\ UNCHANGED repeats
  /\ UNCHANGED <<config, row, ends, card, note, last, raced, delivered>>

(* Pool.Retract reaches a device, or no device, or fails.                  *)
TakeBack(h) ==
  /\ Calls(h, "retract")
  /\ \/ note' = "none" /\ Goto(h, Call(h).gone) /\ UNCHANGED hurt
     \/ (Fails(h, "call") \/ (Otherwise(h) /\ UNCHANGED hurt)) /\ UNCHANGED note
  /\ UNCHANGED <<config, row, ends, card, repeats, last, raced, delivered>>

(* What a refused webhook left behind is unsure until the next.            *)
Respond(h) ==
  /\ Calls(h, "answer")
  /\ last' = IF handler[h].says = "nothing" THEN last
             ELSE IF Call(h).ok THEN handler[h].says ELSE "unsure"
  /\ handler' = [handler EXCEPT ![h] = Idle]
  /\ UNCHANGED <<config, row, ends, server, hurt, raced, delivered>>

Work(h) ==
  \/ Stop(h) \/ Schedule(h) \/ EndTracked(h) \/ AskPending(h) \/ Read(h) \/ Write(h)
  \/ CreateActivity(h) \/ UpdateActivity(h) \/ Notify(h) \/ Send1(h)
  \/ CancelRepeats(h) \/ TakeBack(h) \/ Respond(h)

---------------------------------------------------------------------------
(* The Ender, and a crash.                                                 *)

Phase1(k) ==
  /\ end[k] = "phase1"
  /\ end' = [end EXCEPT ![k] = "phase2"]
  /\ UNCHANGED <<config, handler, row, callback, server, ghosts, delivered>>

FirePhase2(k) ==
  /\ end[k] = "phase2" /\ callback[k] = "none"
  /\ end' = [end EXCEPT ![k] = "running"]
  /\ callback' = [callback EXCEPT ![k] = "ended"]
  /\ UNCHANGED <<config, handler, row, server, ghosts, delivered>>

SendEnded(k) ==
  /\ callback[k] = "ended"
  /\ \/ card' = [card EXCEPT ![k] = IF @ = "none" THEN @ ELSE "ended"] /\ UNCHANGED hurt
     \/ Fault("lostEnd") /\ UNCHANGED card
  /\ callback' = [callback EXCEPT ![k] = "row"]
  /\ UNCHANGED <<config, handler, row, end, repeats, note, last, raced, delivered>>

DeleteRow(k) ==
  /\ callback[k] = "row"
  /\ \/ row' = [row EXCEPT ![k] = FALSE] /\ UNCHANGED hurt
     \/ Fault("write") /\ UNCHANGED row
  /\ callback' = [callback EXCEPT ![k] = "none"]
  /\ end' = [end EXCEPT ![k] = IF @ = "running" THEN "none" ELSE @]
  /\ UNCHANGED <<config, handler, server, last, raced, delivered>>

EnderStep(k) == Phase1(k) \/ FirePhase2(k) \/ SendEnded(k) \/ DeleteRow(k)

Crash ==
  /\ Busy # {} \/ end # [k \in Keys |-> "none"]
  /\ handler' = [h \in Handlers |-> Idle]
  /\ end' = [k \in Keys |-> "none"] /\ callback' = [k \in Keys |-> "none"]
  /\ last' = IF Busy = {} THEN last ELSE "unsure"
  /\ Fault("crash")
  /\ UNCHANGED <<config, row, server, raced, delivered>>

Next ==
  \/ \E h \in Handlers : Deliver(h) \/ Work(h)
  \/ \E k \in Keys : EnderStep(k)
  \/ Crash

Fairness ==
  /\ \A h \in Handlers : WF_vars(Work(h))
  /\ \A k \in Keys : WF_vars(EnderStep(k))

Spec == Init /\ [][Next]_vars /\ Fairness

---------------------------------------------------------------------------
(* Properties.                                                             *)

TypeOK ==
  /\ \A h \in Handlers : handler[h].says \in {"alert", "on", "off", "unsure", "nothing"}
  /\ row \in [Keys -> BOOLEAN]
  /\ end \in [Keys -> {"none", "phase1", "phase2", "running"}]
  /\ callback \in [Keys -> {"none", "ended", "row"}]
  /\ card \in [Keys -> {"none", "ongoing", "ended"}]
  /\ repeats \in BOOLEAN /\ note \in {"none", "alert", "resolved"}
  /\ last \in {"nothing", "alert", "on", "off", "unsure"}
  /\ hurt \subseteq {"read", "write", "call", "lostEnd", "crash"} /\ raced \in BOOLEAN

Quiet == Busy = {}
AllActivity == \A u \in urls : AllowsActivity(u)

(* The faults after which each provider still leaves no activity behind    *)
(* that nothing will end.                                                  *)
Survives ==
  [p \in Providers |-> CASE p \in Alerting -> {"read", "crash"}
                         [] p = "proxmox" -> {"read", "call"}
                         [] OTHER -> {"read"}]

(* An activity that is shown while no handler runs can still be ended: its *)
(* row is there for a later webhook to find, or its end is under way.      *)
NotStranded ==
  /\ Quiet /\ ~raced /\ hurt \subseteq Survives[provider]
  /\ (provider \in Alerting \union {"starr"} => AllActivity)
  => (card["main"] = "ongoing" => row["main"] \/ end["main"] # "none")

(* An end scheduled for an earlier alert, backup or request never takes    *)
(* away the activity of the one that has since been answered 200.          *)
StaysShown ==
  /\ Quiet /\ ~raced /\ last \in {"alert", "on"} /\ hurt \subseteq {"read"}
  /\ AllActivity /\ provider \notin {"backrest", "starr notifying"}
  => card["main"] = "ongoing"

(* The activity is there while it should be, and can be taken down.        *)
CardKept == TypeOK /\ NotStranded /\ StaysShown

(* After a resolve that nothing went wrong with, no phone still shows the  *)
(* alert as open and none repeats it.                                      *)
AlarmStops ==
  /\ Quiet /\ ~raced /\ last = "off" /\ hurt = {} /\ provider \in Alerting \union {"alert"}
  /\ \A u \in urls : u.ack /\ u.retract
  => note # "alert" /\ ~repeats

(* Once the webhook that reports the outcome is answered 200, the activity *)
(* does not stay up, unless a new incident is reported.                    *)
Over == Quiet /\ last = "off" /\ hurt = {} /\ ~raced /\ (provider \in Alerting \union {"proxmox", "starr"} => AllActivity)
EndComes == Over ~> (card["main"] # "ongoing" \/ last # "off" \/ hurt # {} \/ raced)
============================================================================
