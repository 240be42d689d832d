---------------------------- MODULE FailurePushes ----------------------------
(***************************************************************************)
(* ?retract=1 for Backrest (relay/internal/backrest): the record of the    *)
(* failure push that a plan and repo has up, and what a success takes      *)
(* back.  All operations push under one collapse id, the any-error alert   *)
(* under one of its own.  A retract is a silent push that lands whenever   *)
(* it likes and takes down whatever its id then shows, so pushes after one *)
(* go out under a new id.  Webhooks of one plan are handled one at a time; *)
(* the hook that delivers failures asks for retract.                       *)
(***************************************************************************)
EXTENDS Naturals, Sequences

CONSTANTS
  Operations,   \* SNAPSHOT, PRUNE, CHECK, FORGET
  MaxWebhooks   \* bound: webhooks delivered

VARIABLES
  handler,  \* the webhook being handled
  store,    \* the two records
  server,   \* what the devices show under each id, and the retracts on their way
  past      \* how each operation went last, and what went wrong

vars == <<handler, store, server, past>>

ANY == "ANY"
Keys == {"plan", ANY}
NoFailure == [slug |-> <<>>, op |-> "", gen |-> 0]
Idle == [op |-> "", problem |-> FALSE, pushes |-> FALSE, rec |-> NoFailure, under |-> <<>>, plan |-> <<>>]
Key(op) == IF op = ANY THEN ANY ELSE "plan"

Init ==
  /\ handler = Idle
  /\ store = [k \in Keys |-> NoFailure]
  /\ server = [shows |-> [k \in Keys |-> [gen \in 0..MaxWebhooks |-> ""]], silent |-> {}]
  /\ past = [failing |-> {}, newest |-> [k \in Keys |-> ""], delivered |-> 0, hurt |-> FALSE]

Fault == past' = [past EXCEPT !.hurt = TRUE]

(* A success is pushed only under channels=notification.                   *)
Deliver(op, problem, pushes) ==
  /\ handler = Idle /\ past.delivered < MaxWebhooks
  /\ handler' = [Idle EXCEPT !.op = op, !.problem = problem, !.pushes = pushes,
       !.plan = IF problem THEN <<"load", "notify", "record">>
                ELSE <<"load">> \o (IF pushes THEN <<"notify">> ELSE <<>>) \o <<"clear", "loadAny", "clear">>]
  /\ past' = [past EXCEPT !.delivered = @ + 1]
  /\ UNCHANGED <<store, server>>

Failed == \E op \in Operations \union {ANY} : Deliver(op, TRUE, TRUE)
Succeeded == \E op \in Operations, pushes \in BOOLEAN : Deliver(op, FALSE, pushes)

---------------------------------------------------------------------------
Calls(call) == handler.plan # <<>> /\ Head(handler.plan) = call
Rest == Tail(handler.plan)

(* An unreadable record counts as none.                                    *)
LoadFailure ==
  \E call \in {"load", "loadAny"} :
    LET key == IF call = "loadAny" THEN ANY ELSE Key(handler.op)
    IN /\ Calls(call)
       /\ \/ handler' = [handler EXCEPT !.rec = store[key], !.plan = Rest] /\ UNCHANGED past
          \/ handler' = [handler EXCEPT !.rec = NoFailure, !.plan = Rest] /\ Fault
       /\ UNCHANGED <<store, server>>

\* Mutant of CollapseID: every push goes out under the first id.
FirstID(key, rec) == <<key, 0>>

CollapseID(key, rec) == <<key, rec.gen>>

Notify ==
  LET id == CollapseID(Key(handler.op), handler.rec)
  IN /\ Calls("notify")
     /\ \/ /\ server' = [server EXCEPT !.shows[id[1]][id[2]] = IF handler.problem THEN handler.op ELSE "success"]
           /\ handler' = [handler EXCEPT !.under = id, !.plan = Rest]
           /\ past' = [past EXCEPT !.newest[id[1]] = IF handler.problem THEN handler.op ELSE "success"]
        \/ handler' = [handler EXCEPT !.plan = Rest] /\ Fault /\ UNCHANGED server
     /\ UNCHANGED store

Save(key, rec) ==
  \/ store' = [store EXCEPT ![key] = rec] /\ UNCHANGED past
  \/ UNCHANGED store /\ Fault

(* trackFailure of a problem: the push that is up now is this one's.       *)
Record ==
  /\ Calls("record")
  /\ handler' = [handler EXCEPT !.plan = Rest]
  /\ IF handler.under = <<>> THEN UNCHANGED <<store, past>>
     ELSE Save(Key(handler.op), [slug |-> handler.under, op |-> handler.op, gen |-> handler.rec.gen])
  /\ UNCHANGED server

\* Mutant of Concerns: a success leaves the any-error alert alone.
ConcernsOwn(rec) == rec.slug # <<>> /\ (rec.slug = handler.under \/ rec.op = handler.op)

(* A success concerns the failure of its own operation, the any-error      *)
(* alert, and one that its own push has replaced.                          *)
Concerns(rec) == rec.slug # <<>> /\ (rec.slug = handler.under \/ rec.op \in {handler.op, ANY})

Clear ==
  /\ Calls("clear")
  /\ \/ /\ Concerns(handler.rec) /\ handler.rec.slug # handler.under
        /\ \/ /\ server' = [server EXCEPT !.silent = @ \union {handler.rec.slug}]
              /\ handler' = [handler EXCEPT !.plan = <<"save">> \o Rest, !.rec.gen = @ + 1]
              /\ UNCHANGED past
           \/ UNCHANGED server /\ handler' = [handler EXCEPT !.plan = Rest] /\ Fault
        /\ UNCHANGED store
     \/ /\ Concerns(handler.rec) /\ handler.rec.slug = handler.under
        /\ handler' = [handler EXCEPT !.plan = <<"save">> \o Rest]
        /\ UNCHANGED <<store, server, past>>
     \/ /\ ~Concerns(handler.rec)
        /\ handler' = [handler EXCEPT !.plan = Rest]
        /\ UNCHANGED <<store, server, past>>

SaveCleared ==
  /\ Calls("save")
  /\ handler' = [handler EXCEPT !.plan = Rest]
  /\ Save(handler.rec.slug[1], [NoFailure EXCEPT !.gen = handler.rec.gen])
  /\ UNCHANGED server

Answer ==
  /\ handler # Idle /\ handler.plan = <<>>
  /\ handler' = Idle
  /\ past' = [past EXCEPT !.failing =
       IF handler.problem THEN @ \union {handler.op} ELSE @ \ {handler.op, ANY}]
  /\ UNCHANGED <<store, server>>

(* The silent push lands on a device.                                      *)
Land ==
  \E id \in server.silent :
    /\ server' = [server EXCEPT !.shows[id[1]][id[2]] = "", !.silent = @ \ {id}]
    /\ UNCHANGED <<handler, store, past>>

Crash ==
  /\ handler # Idle /\ handler' = Idle
  /\ Fault
  /\ UNCHANGED <<store, server>>

Next ==
  \/ Failed \/ Succeeded \/ LoadFailure \/ Notify \/ Record \/ Clear \/ SaveCleared
  \/ Answer \/ Land \/ Crash

---------------------------------------------------------------------------
(* Properties.                                                             *)

Calm == handler = Idle /\ ~past.hurt
Showing(key, op) == \E gen \in 0..MaxWebhooks : server.shows[key][gen] = op

(* A failure that is the newest push of its plan, and that no success of   *)
(* its operation has followed, stays on the devices: no retract of an      *)
(* earlier failure, still on its way, can take it down.                    *)
CurrentFailureStays ==
  Calm => \A key \in Keys : past.newest[key] \in past.failing =>
    \E gen \in 0..MaxWebhooks :
      server.shows[key][gen] = past.newest[key] /\ <<key, gen>> \notin server.silent

(* Once an operation has succeeded its failure is taken back, and with it  *)
(* the any-error alert: nothing of them stays up but what a retract is on  *)
(* its way to.                                                             *)
SuccessTakesBack ==
  Calm => \A key \in Keys : \A gen \in 0..MaxWebhooks :
    server.shows[key][gen] \in (Operations \union {ANY}) \ past.failing => <<key, gen>> \in server.silent
=============================================================================
