----------------------------- MODULE MediaPlans -----------------------------
(***************************************************************************)
(* The plans of the relay's media, download and document webhooks.         *)
(***************************************************************************)
EXTENDS Plans

---------------------------------------------------------------------------
(* overseerr *)

(* handleEvent of a payload that names its media.  A push the server       *)
(* refuses the key for ends the request at once; at the account's activity *)
(* limit a push that got through is enough.                                *)
MediaEvent(u, terminal) ==
  LET card(pushed) ==
        <<StopTimer("main"), Create("main", IF pushed THEN {Done, Refuse} ELSE Refused),
          Update("main", "ongoing", Refused), Set("main", GoOn)>>
        \o When(terminal, <<ScheduleEnd("main")>>) \o Done
      noCard(answer) ==
        IF terminal THEN <<EndIfTracked("main", answer, answer)>> ELSE answer
  IN IF ~AllowsNotification(u) THEN card(FALSE)
     ELSE IF AllowsActivity(u) THEN <<Push("notice", {Refuse, card(FALSE)})>> \o card(TRUE)
     ELSE <<Push("notice", {Refuse, noCard(Refuse)})>> \o noCard(Done)

IssueResolved(u) ==
  IF AllowsNotification(u) /\ u.retract THEN <<Retract(Done, NotifyOnly(u))>> ELSE NotifyOnly(u)

---------------------------------------------------------------------------
(* paperless, unmanic, changedetection *)

Document(u) ==
  IF ~AllowsActivity(u) THEN Instead(u)
  ELSE <<Create("main", Refused), Update("main", "ongoing", Refused), Set("main", GoOn),
         ScheduleEnd("main")>> \o Done

ConsumptionStarted(u) ==
  IF ~AllowsActivity(u) THEN Done
  ELSE <<Create("side", Refused), Update("side", "ongoing", Refused), ScheduleEnd("side")>> \o Done

Transcoded(u) ==
  IF ~AllowsActivity(u) THEN Instead(u)
  ELSE <<Create("main", Refused), ScheduleEnd("main")>> \o Done

\* Mutant of PageChanged: the last update leaves the state out.
PageLeftOpen(u) ==
  IF ~AllowsActivity(u) THEN Instead(u)
  ELSE <<Create("main", Refused), Update("main", "ongoing", Refused),
         Update("main", "", Refused)>> \o Done

PageChanged(u) ==
  IF ~AllowsActivity(u) THEN Instead(u)
  ELSE <<Create("main", Refused), Update("main", "ongoing", Refused),
         Update("main", "ended", Refused)>> \o Done

(* bazarr *)
Subtitle(u) == NotifyOnly(u)

---------------------------------------------------------------------------
(* starr: Radarr and Sonarr in activity mode, or in one whose grabs and    *)
(* imports only notify.  The row "side" is the manual-interaction push     *)
(* that the download's import takes back.                                  *)

CreateFailed(u) == Refused \union (IF AllowsNotification(u) THEN {Done} ELSE {})
Tracked(u) ==
  <<Set("main", {Done}), Create("main", {<<Delete("main")>> \o answer : answer \in CreateFailed(u)})>>
Announce(u) == <<StopTimer("main")>> \o When(AllowsNotification(u), <<Push("notice", GoOn)>>)

Grab(u, notifies) ==
  LET update == <<Update("main", "ongoing", Refused)>> \o Done
      new == Tracked(u) \o update
  IN Announce(u)
     \o (IF notifies \/ ~AllowsActivity(u) THEN Done
         ELSE <<Get("main", <<Set("main", {Done})>> \o update, new, {new})>>)

Import(u, notifies) ==
  LET end == <<ScheduleEnd("main")>> \o Done
      new == Tracked(u) \o end
      import == Announce(u)
        \o (IF notifies \/ ~AllowsActivity(u) THEN Done ELSE <<Get("main", end, new, {new})>>)
      forget == <<Delete("side")>> \o import
  IN <<Get("side", <<Retract(forget, forget)>>, import, {import})>>

ManualInteraction(u, notifies) ==
  LET flip == IF notifies \/ ~AllowsActivity(u) THEN Done
              ELSE <<Get("main", <<StopTimer("main"), Update("main", "ongoing", Refused)>> \o Done, Done, {Done})>>
  IN IF ~AllowsNotification(u) THEN flip
     ELSE <<Push("notice", {flip})>> \o When(u.retract, <<Set("side", GoOn)>>) \o flip

RadarrGrab(u, notifies) == Grab(u, notifies)
RadarrDownload(u, notifies) == Import(u, notifies)
SonarrGrab(u, notifies) == Grab(u, notifies)
SonarrDownload(u, notifies) == Import(u, notifies)
RadarrManualInteraction(u, notifies) == ManualInteraction(u, notifies)
SonarrManualInteraction(u, notifies) == ManualInteraction(u, notifies)

(* Health, updates, renames, additions and deletions.                      *)
Health(u) == NotifyOnly(u)
HealthRestored(u) == IssueResolved(u)
ApplicationUpdate(u) == NotifyOnly(u)
RadarrNotice(u) == NotifyOnly(u)
SonarrNotice(u) == NotifyOnly(u)
ProwlarrGrab(u) == NotifyOnly(u)

---------------------------------------------------------------------------
(* jellyfin, but for its playback.                                         *)

ItemAdded(u) == NotifyOnly(u)
TaskStarted(u) == NotifyOnly(u)
TaskCompleted(u) == NotifyOnly(u)
AuthFailure(u) == NotifyOnly(u)

---------------------------------------------------------------------------
(* gitea's handleForgejo: a run that is over.                              *)

ActionRun(u) ==
  IF ~AllowsActivity(u) THEN Done ELSE <<Create("main", Refused), ScheduleEnd("main")>> \o Done

---------------------------------------------------------------------------
(* The webhooks of each provider.                                          *)

OverseerrWebhooks(u) ==
  {On(MediaEvent(u, FALSE)), Off(MediaEvent(u, TRUE)), Aside(NotifyOnly(u)),
   Aside(IssueResolved(u)), Aside(SendTest)}
PaperlessWebhooks(u) == {Off(Document(u)), Aside(ConsumptionStarted(u))}
UnmanicWebhooks(u) == {Off(Transcoded(u)), Aside(SendTest)}
ChangedetectionWebhooks(u) == {Off(PageChanged(u))}
BazarrWebhooks(u) == {Aside(Subtitle(u)), Aside(SendTest)}
JellyfinWebhooks(u) ==
  {Aside(ItemAdded(u)), Aside(TaskStarted(u)), Aside(TaskCompleted(u)), Aside(AuthFailure(u)), Aside(SendTest)}
RadarrWebhooks(u, notifies) ==
  {On(RadarrGrab(u, notifies)), Off(RadarrDownload(u, notifies)), Perhaps(RadarrManualInteraction(u, notifies)),
   Aside(Health(u)), Aside(HealthRestored(u)), Aside(ApplicationUpdate(u)), Aside(RadarrNotice(u)), Aside(SendTest)}
SonarrWebhooks(u, notifies) ==
  {On(SonarrGrab(u, notifies)), Off(SonarrDownload(u, notifies)), Perhaps(SonarrManualInteraction(u, notifies)),
   Aside(Health(u)), Aside(HealthRestored(u)), Aside(ApplicationUpdate(u)), Aside(SonarrNotice(u)), Aside(SendTest)}
ForgejoWebhooks(u) == {Off(ActionRun(u))}
ProwlarrWebhooks(u) ==
  {Aside(ProwlarrGrab(u)), Aside(Health(u)), Aside(HealthRestored(u)), Aside(ApplicationUpdate(u)), Aside(SendTest)}
=============================================================================
