----------------------------- MODULE SabTracker -----------------------------
(* The SABnzbd bridge (sabnzbd/internal/tracker): one goroutine follows one *)
(* session of the queue on one card, through waits, the download loop, the  *)
(* unpacking loop and the two-phase end. Time is counted in polls.          *)
EXTENDS Naturals

CONSTANTS
  StartPolls,  \* polls for a download to start (12 in the code)
  MorePolls,   \* polls for another download after an unpack (10)
  MaxHold,     \* polls a propagation hold is waited out (2 hours' worth)
  MaxEvents,   \* bound on what SABnzbd does
  MaxFaults    \* bound on calls that fail

VARIABLES
  sab,      \* SABnzbd: its queue, whether it unpacks, a webhook on its way
  tracker,  \* the goroutine: where it is, polls left, hold, recorded mode,
            \* and how many polls in a row have seen a hold
  up,       \* whether the bridge's process runs
  card,     \* the activity on the server
  past      \* how many events and faults there were

vars == <<sab, tracker, up, card, past>>

Idle == [at |-> "idle", resumed |-> FALSE, polls |-> 0, held |-> 0, mode |-> "none", watched |-> 0]

Init ==
  /\ sab = [queue |-> "empty", unpacking |-> FALSE, webhook |-> FALSE]
  /\ tracker = Idle
  /\ up = TRUE
  /\ card = [state |-> "none", shown |-> "none"]
  /\ past = [events |-> 0, faults |-> 0]

(* ---------------------------- SABnzbd itself ---------------------------- *)

Happens == past.events < MaxEvents /\ past' = [past EXCEPT !.events = @ + 1]

Queues(q) ==  \* an NZB is added, held, paused, released
  /\ Happens
  /\ q # sab.queue
  /\ sab' = [sab EXCEPT !.queue = q, !.webhook = @ \/ sab.queue = "empty"]
  /\ UNCHANGED <<tracker, up, card>>

Downloaded(unpacks) ==
  /\ Happens
  /\ sab.queue = "moving"
  /\ sab' = [sab EXCEPT !.queue = "empty", !.unpacking = unpacks]
  /\ UNCHANGED <<tracker, up, card>>

Unpacked ==
  /\ Happens
  /\ sab.unpacking
  /\ sab' = [sab EXCEPT !.unpacking = FALSE]
  /\ UNCHANGED <<tracker, up, card>>

(* ------------------------------- the calls ------------------------------ *)

\* A call to SABnzbd or to the PushWard API fails, within the bound.
Fails(failed) ==
  /\ failed => past.faults < MaxFaults
  /\ past' = IF failed THEN [past EXCEPT !.faults = @ + 1] ELSE past

\* Mutant of Held: giving up a hold forgets when it began.
HeldAnew ==
  IF sab.queue # "held" THEN 0 ELSE IF tracker.held > MaxHold THEN 1 ELSE tracker.held + 1

\* What one read of the queue does to the latched hold, and what it tells.
Held == IF sab.queue = "held" THEN tracker.held + 1 ELSE 0
HasWork == sab.queue \in {"moving", "paused"} \/ (sab.queue = "held" /\ Held =< MaxHold)

Looked ==
  [tracker EXCEPT !.held = Held, !.watched = IF sab.queue = "held" THEN @ + 1 ELSE 0]

Goto(at) == tracker' = [tracker EXCEPT !.at = at]
Leave == tracker' = Idle

Send(failed, state, shown) ==
  card' = IF failed THEN card ELSE [state |-> state, shown |-> shown]

(* ------------------------------ the session ----------------------------- *)

Track(resumed) == tracker' = [Idle EXCEPT !.at = "create", !.resumed = resumed]

\* A webhook that finds a session running is answered and forgotten.
WebhookHandler ==
  /\ up /\ sab.webhook
  /\ sab' = [sab EXCEPT !.webhook = FALSE]
  /\ IF tracker.at = "idle" THEN Track(FALSE) ELSE UNCHANGED tracker
  /\ UNCHANGED <<up, card, past>>

CreateActivity == \E failed \in BOOLEAN :
  /\ tracker.at = "create"
  /\ Fails(failed)
  /\ IF failed THEN Leave ELSE Goto("seed")
  /\ UNCHANGED <<sab, up, card>>

SendSeed == \E failed \in BOOLEAN :
  /\ tracker.at = "seed"
  /\ Fails(failed)
  /\ Send(failed, "ongoing", "Starting")
  /\ IF failed THEN Leave
     ELSE tracker' = [tracker EXCEPT !.at = "starting", !.polls = StartPolls]
  /\ UNCHANGED <<sab, up>>

WaitForQueueActive ==
  /\ tracker.at \in {"starting", "more"} /\ tracker.polls > 0
  /\ \/ Fails(TRUE) /\ tracker' = [tracker EXCEPT !.polls = @ - 1]
     \/ /\ UNCHANGED past
        /\ tracker' = [Looked EXCEPT !.polls = @ - 1,
                                     !.at = IF HasWork THEN "download" ELSE @]
  /\ UNCHANGED <<sab, up, card>>

QueueStaysIdle ==
  /\ tracker.at \in {"starting", "more"} /\ tracker.polls = 0
  /\ Goto(IF tracker.at = "more" THEN "summary" ELSE "peek")
  /\ UNCHANGED <<sab, up, card, past>>

\* Nothing in the queue may still mean an item is being unpacked. A history
\* that cannot be read says nothing is.
PeekUnpacking == \E failed \in BOOLEAN :
  /\ tracker.at = "peek"
  /\ Fails(failed)
  /\ Goto(IF sab.unpacking /\ ~failed THEN "download" ELSE "give up")
  /\ UNCHANGED <<sab, up, card>>

GiveUp == \E failed \in BOOLEAN :
  /\ tracker.at = "give up"
  /\ Fails(failed)
  /\ Send(failed, "ended", "No downloads")
  /\ Leave
  /\ UNCHANGED <<sab, up>>

\* Mutant of RecordSent: a frame is recorded whether or not it landed.
RecordAnyway(polled, mode, failed) == [polled EXCEPT !.mode = mode]

RecordSent(polled, mode, failed) == IF failed THEN polled ELSE [polled EXCEPT !.mode = mode]

\* A frame of a mode other than the last recorded one is always sent; one of
\* the same mode when progress, subtitle, speed or the heartbeat asks for it.
\* It is recorded only once it has landed.
Frame(mode, polled) ==
  \/ /\ tracker.mode = mode
     /\ tracker' = polled
     /\ UNCHANGED <<card, past>>
  \/ \E failed \in BOOLEAN :
       /\ Fails(failed)
       /\ Send(failed, "ongoing", mode)
       /\ tracker' = RecordSent(polled, mode, failed)

TrackDownloads ==
  /\ tracker.at = "download"
  /\ \/ Fails(TRUE) /\ UNCHANGED <<tracker, card>>
     \/ HasWork /\ Frame(sab.queue, Looked)
     \/ ~HasWork /\ tracker' = [Looked EXCEPT !.at = "unpack"] /\ UNCHANGED <<card, past>>
  /\ UNCHANGED <<sab, up>>

\* The frame that opens the unpacking is not recorded.
StartUnpacking == \E failed \in BOOLEAN :
  /\ tracker.at = "unpack"
  /\ Fails(failed)
  /\ Send(failed, "ongoing", "Unpacking")
  /\ Goto("unpacking")
  /\ UNCHANGED <<sab, up>>

TrackPostProcessing ==
  /\ tracker.at = "unpacking"
  /\ \/ sab.unpacking /\ Frame("unpacking", tracker)
     \/ \E failed \in BOOLEAN :
          /\ sab.unpacking => failed
          /\ Fails(failed)
          /\ tracker' = [tracker EXCEPT !.at = "more", !.polls = MorePolls]
          /\ UNCHANGED card
  /\ UNCHANGED <<sab, up>>

\* The summary; a resumed session ends at once, any other in two phases. A
\* failed frame is logged and the next one sent all the same.
FinalUpdate == \E failed \in BOOLEAN :
  /\ tracker.at = "summary" /\ ~tracker.resumed
  /\ Fails(failed)
  /\ Send(failed, "ongoing", "Summary")
  /\ Goto("end")
  /\ UNCHANGED <<sab, up>>

FinalEnd == \E failed \in BOOLEAN :
  /\ tracker.at = "end" \/ (tracker.at = "summary" /\ tracker.resumed)
  /\ Fails(failed)
  /\ Send(failed, "ended", "Summary")
  /\ Leave
  /\ UNCHANGED <<sab, up>>

(* --------------------------- stop and restart --------------------------- *)

\* A stopped bridge leaves the card as it is: a cancelled session sends no more.
Stop ==
  /\ up /\ Happens
  /\ up' = FALSE
  /\ tracker' = Idle
  /\ UNCHANGED <<sab, card>>

\* The queue is read raw, without the latch; then the history.
ResumeIfActive == sab.queue # "empty" \/ sab.unpacking

\* Mutant of Cleanup: only a card that was never seeded is cleaned up.
CleanupUnseeded(failed) ==
  card' = IF failed \/ card.shown # "Starting" THEN card
          ELSE [state |-> "ended", shown |-> "Dismissed"]

Cleanup(failed) ==
  card' = IF failed \/ card.state = "none" THEN card
          ELSE [state |-> "ended", shown |-> "Dismissed"]

Start == \E failed \in BOOLEAN :
  /\ ~up
  /\ up' = TRUE
  /\ Fails(failed)
  /\ \/ ResumeIfActive /\ ~failed /\ Track(TRUE) /\ UNCHANGED card
     \/ ~ResumeIfActive /\ UNCHANGED tracker /\ Cleanup(failed)
     \/ ResumeIfActive /\ failed /\ UNCHANGED tracker /\ Cleanup(FALSE)
  /\ UNCHANGED sab

Next ==
  \/ \E q \in {"moving", "paused", "held"} : Queues(q)
  \/ \E unpacks \in BOOLEAN : Downloaded(unpacks)
  \/ Unpacked \/ WebhookHandler \/ CreateActivity \/ SendSeed
  \/ WaitForQueueActive \/ QueueStaysIdle \/ PeekUnpacking \/ GiveUp
  \/ TrackDownloads \/ StartUnpacking \/ TrackPostProcessing
  \/ FinalUpdate \/ FinalEnd \/ Stop \/ Start

(* ------------------------------ properties ------------------------------ *)

(* While no call has failed, a running bridge that follows nothing has left *)
(* no card up: every session ends what it began, and one that a restart cut *)
(* off is either resumed or cleaned up (Cleanup, ResumeIfActive, track).    *)
IdleLeavesNoCard ==
  up /\ tracker.at = "idle" /\ past.faults = 0 => card.state # "ongoing"

(* A hold that never clears is given up: one session looks at it no longer  *)
(* than the cap and the polls that follow (propagationActive's latch        *)
(* outlives the phases, so the loop cannot begin the wait anew).            *)
HoldGivenUp == tracker.watched =< MaxHold + MorePolls + 1

(* The mode the dedup remembers is on the card, but for the frame that      *)
(* opens the unpacking and is never recorded: no failed send counts as      *)
(* shown (send, recordSent).                                                *)
RecordedIsShown ==
  tracker.mode # "none" /\ tracker.at \in {"download", "unpack", "unpacking", "more"}
    => card.shown \in {tracker.mode, "Unpacking"}
=============================================================================
