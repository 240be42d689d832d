----------------------------- MODULE MCServices ------------------------------
(* The services that keep a card, a push or a widget on their own: the      *)
(* relay's providers with more state than a row per incident, the bridges   *)
(* and the loops of the widget manager; and the parts the relay and the CI  *)
(* bridges rest on. None shares state with another (the providers share the *)
(* store, under keys of their own), so a behaviour is one service's, chosen *)
(* in Init, and the variables take what it needs.                           *)
EXTENDS Integers, FiniteSets, TLAPS

(* What is given a number or a set below is checked for these alone; what   *)
(* takes the constants is also proved, for every value of them.             *)
CONSTANTS
  RunHandlers, RunIds, JobNames, MaxRunHooks,                             \* GiteaRuns
  Positions, MaxPlays,                                                    \* JellyfinPlayback
  Requests, Tenants, MaxSize, SampleSize, Burst, Rate, MaxAge, MaxBuckets, \* LimiterMap
  Stoppers,                                                               \* PeriodicRunner
  Callers, URLs, CacheSize, Slots, NegativeTTL, MaxEntries,               \* PosterCache
  MaxMoves,                                                               \* BambuTracker
  Handlers, Instances, MaxWebhooks,                                       \* GrafanaBridge
  StartPolls, MorePolls, MaxHold, MaxEvents,                              \* SabTracker
  NameGroups, AlertsOf, Operations, MaxReports,                           \* GrafanaGroups, FailurePushes
  Readable, PollIntervals, StaleAfter, ShortestHeartbeat, MinChange,      \* ScalarWidget
  Latency, MaxCallFaults,
  SeriesNames, SeriesValues, MissGrace, MaxSeries, ResendTicks,           \* SeriesWidgets
  MaxFaults, LastTime

\* A bucket that goes stale is full again.
ASSUME RatesAssumption ==
  /\ Burst \in Nat /\ Rate \in Nat /\ MaxAge \in Nat /\ MaxSize \in Nat \ {0}
  /\ Burst =< Rate * MaxAge

\* Runs are numbered from 1.
ASSUME RunsAssumption == RunIds \subseteq Nat \ {0}

\* No URL is the word for no hash, no goroutine one of those for stopOnce.
ASSUME CacheAssumption == CacheSize \in Nat /\ NegativeTTL \in Nat /\ "none" \notin URLs
ASSUME StopsAssumption == Stoppers \cap {"free", "over"} = {}

\* A heartbeat at half the window is no shorter than the shortest, and a tick's
\* query and call take no more than heartbeat and interval leave of a window.
ASSUME WindowsAssumption ==
  /\ Readable \subseteq Int /\ PollIntervals \subseteq Nat /\ MinChange \in Nat
  /\ StaleAfter \in Nat /\ ShortestHeartbeat \in Nat /\ Latency \in Nat
  /\ ShortestHeartbeat =< StaleAfter \div 2 /\ 6 * Latency =< StaleAfter

\* No value is 99, which stands for a widget that is not there.
ASSUME SeriesAssumption ==
  /\ IsFiniteSet(SeriesNames) /\ SeriesValues \subseteq Nat \ {99}
  /\ MissGrace \in Nat \ {0} /\ MaxSeries \in Nat

\* A hold is waited out for at least one poll.
ASSUME PollsAssumption == StartPolls \in Nat /\ MorePolls \in Nat /\ MaxHold \in Nat \ {0}

\* No operation is named like the any-error alert, a success or nothing.
ASSUME OperationsAssumption == MaxReports \in Nat /\ Operations \cap {"ANY", "", "success"} = {}

\* No group is named like a row of its name, groups have alerts of their own,
\* and no alert is named like what stands for no row or a Resolved.
ASSUME GroupsAssumption ==
  /\ NameGroups \cap {"plain", "last"} = {}
  /\ \A g \in NameGroups : AlertsOf[g] \cap {"noRow", "resolved"} = {}
  /\ \A g, x \in NameGroups : g # x => AlertsOf[g] \cap AlertsOf[x] = {}

VARIABLES service, source, handler, store, memory, timers, server, past

vars == <<service, source, handler, store, memory, timers, server, past>>

Backrest == INSTANCE BackrestPoller WITH
  Ops <- {1, 2}, MaxEvents <- 6, MaxFaults <- 1,
  backrest <- source, poller <- handler, tracked <- store, done <- memory, card <- server
Frames == INSTANCE BackrestFrames WITH
  Size <- 8, MaxRate <- 2, MaxLines <- 3, ProgressStep <- 2, RefreshGap <- 2, MinWindow <- 1,
  MaxETA <- 5, ReanchorFloor <- 1, StaleAfter <- 6, HeartbeatFloor <- 2, MaxGaps <- 1,
  MaxFaults <- 1, LastTime <- 7, op <- source, t <- handler, now <- timers, card <- server

Timings == {[g \in {} |-> 0], [g \in {"build"} |-> 3]}
Steps == INSTANCE Ladder WITH
  Groups <- {"build", "test"}, Priors <- Timings, RunLength <- 6, MaxJobs <- 2, LastTime <- 3,
  Skew <- 1, MinWindow <- 1, MaxWindow <- 5, jobs <- source, now <- store, prior <- memory
Seeds == INSTANCE SeedCache WITH
  Refs <- {"main", "pr", "tag"}, Capacity <- 2, MaxRuns <- 4,
  Shapes <- {{"build"}, {"build", "test"}}, entries <- store, order <- handler
GitHub == INSTANCE GitHubClient WITH
  PresenceTTL <- 1, Retention <- 1, PruneGap <- 1, Window <- 2, Allowance <- 2, LimitCap <- 1,
  MaxRetries <- 2, MaxLimited <- 1, LastTime <- 2, MaxFaults <- 1,
  github <- source, call <- handler, cache <- store, budget <- memory, now <- timers, answer <- server
Tasks == INSTANCE ForgejoTasks WITH
  Jobs <- {1, 2}, Others <- {10, 11, 12}, PageSize <- 2, MaxPages <- 3, Slack <- 1, MaxSpan <- 4,
  MaxFaults <- 1, forgejo <- source, walk <- handler, jobs <- store, faults <- past
Forgejo == INSTANCE ForgejoClient WITH
  NoActionsTTL <- 1, MaxRetries <- 2, MaxLimited <- 1, PageSize <- 2, MaxPages <- 2,
  LastTime <- 2, MaxFaults <- 3,
  forge <- source, call <- handler, client <- store, now <- timers, answer <- server
Postgres == INSTANCE StateStore WITH
  Groups <- {"g", "h"}, SubKeys <- {"a"}, Values <- {1, 2}, TTLs <- {0, 1}, Inclusive <- FALSE,
  LastTime <- 2, entries <- store, now <- timers, last <- server

None == 0

(* The services that are proved about, and what the stores are proved for;  *)
(* what these modules are about besides them is given no state.             *)
Proved == INSTANCE SharedPartsProofs WITH
  Keys <- Tenants, Sample <- SampleSize, Stops <- Stoppers,
  MaxTimers <- 0, timer <- None, callback <- None, created <- None, wg <- None, stopped <- None,
  mu <- None, caller <- None, shutdown <- None,
  requests <- handler, entries <- store, buckets <- memory, now <- timers,
  loop <- source, stops <- handler, once <- memory, periodic <- server, early <- past,
  callers <- handler, made <- store, order <- memory,
  Groups <- {"g"}, SubKeys <- {"a", "b"}, Values <- {1, 2}, TTLs <- {0, 1, 2}, Inclusive <- TRUE,
  last <- server,
  printer <- source, tracker <- handler, gen <- store, ending <- timers, shown <- server,
  firing <- source, active <- store, handlers <- handler, checker <- memory, polls <- timers,
  alertCard <- server,
  sab <- source, session <- handler, up <- store, activity <- server,
  Floor <- ShortestHeartbeat, MaxScalarFaults <- MaxCallFaults,
  setting <- source, ticker <- handler, scalar <- server, ticked <- past,
  Heartbeat <- ResendTicks,
  cleanup <- source, series <- store, widgets <- server, absences <- past
Pushed == INSTANCE PushProofs WITH
  Calls <- {}, Threshold <- 1, MaxAttempts <- 1, RetryBudget <- 0, MaxRetryAfter <- 1, SecondTicks <- 1,
  Hints <- {}, RequestTimes <- {}, MaxInt <- 1, cb <- None, pc <- None, attempt <- None, throttled <- None,
  override <- None, elapsed <- None, parked <- None, cancelled <- None,
  MaxWebhooks <- MaxReports, PushGroups <- NameGroups, GroupAlerts <- AlertsOf,
  hook <- handler, failures <- store, devices <- server, went <- past,
  hooks <- handler, rows <- store, device <- server, posted <- past
Ended == INSTANCE EnderProofs WITH
  Keys <- {"k"}, MaxGens <- 0, nextGen <- None, key <- None, pc <- None, wg <- None, row <- None,
  act <- None, tracked <- None, flush <- None, pending <- None, flushed <- None,
  playback <- handler, listed <- store, debounced <- memory, ends <- timers, cardState <- server,
  player <- past,
  Workers <- RunHandlers, Runs <- RunIds, Jobs <- JobNames, MaxRuns <- MaxRunHooks,
  workers <- handler, group <- store, armed <- timers, repoCard <- server, heard <- past, timers <- None

\* Two groups of an alert name, for a run.
TwoGroups == [g1 |-> {"a"}, g2 |-> {"b"}]

Init ==
  \/ service = "gitea" /\ Ended!Gitea!Init /\ source = None /\ memory = None
  \/ service = "jellyfin" /\ Ended!Jellyfin!Init /\ source = None
  \/ service = "grafana" /\ Pushed!Grafana!Init /\ source = None /\ memory = None /\ timers = None
  \/ service = "failures" /\ Pushed!Backrest!Init /\ source = None /\ memory = None /\ timers = None
  \/ service = "sabnzbd" /\ Proved!Sabnzbd!Init /\ memory = None /\ timers = None
  \/ service = "bambulab" /\ Proved!Bambulab!Init /\ memory = None
  \/ service = "backrest" /\ Backrest!Init
  \/ service = "frames" /\ Frames!Init /\ store = None /\ memory = None
  \/ service = "alerts" /\ Proved!Alerts!Init
  \/ service = "scalar" /\ Proved!Scalar!Init /\ store = None /\ memory = None /\ timers = None
  \/ service = "multi" /\ Proved!Multi!Init /\ handler = None /\ memory = None /\ timers = None
  \/ /\ service = "ladder" /\ Steps!Init
     /\ handler = None /\ timers = None /\ server = None /\ past = None
  \/ service = "seeds" /\ Seeds!Init /\ source = None /\ memory = None /\ timers = None /\ server = None
  \/ service = "github" /\ GitHub!Init
  \/ service = "tasks" /\ Tasks!Init /\ memory = None /\ timers = None /\ server = None
  \/ service = "limiters" /\ Proved!Limiters!Init /\ source = None /\ server = None
  \/ service = "posters" /\ Proved!Posters!Init /\ source = None /\ server = None
  \/ service = "periodic" /\ Proved!Periodic!Init /\ store = None /\ timers = None
  \/ service = "forgejo" /\ Forgejo!Init /\ memory = None
  \/ /\ service \in {"memory", "postgres"}
     /\ IF service = "memory" THEN Proved!Store!Init ELSE Postgres!Init
     /\ source = None /\ handler = None /\ memory = None /\ past = None

Next ==
  /\ \/ service = "gitea" /\ Ended!Gitea!Next /\ UNCHANGED <<source, memory>>
     \/ service = "jellyfin" /\ Ended!Jellyfin!Next /\ UNCHANGED source
     \/ service = "grafana" /\ Pushed!Grafana!Next /\ UNCHANGED <<source, memory, timers>>
     \/ service = "failures" /\ Pushed!Backrest!Next /\ UNCHANGED <<source, memory, timers>>
     \/ service = "sabnzbd" /\ Proved!Sabnzbd!Next /\ UNCHANGED <<memory, timers>>
     \/ service = "bambulab" /\ Proved!Bambulab!Next /\ UNCHANGED memory
     \/ service = "backrest" /\ Backrest!Next
     \/ service = "frames" /\ Frames!Next /\ UNCHANGED <<store, memory>>
     \/ service = "alerts" /\ Proved!Alerts!Next
     \/ service = "scalar" /\ Proved!Scalar!Next /\ UNCHANGED <<store, memory, timers>>
     \/ service = "multi" /\ Proved!Multi!Next /\ UNCHANGED <<handler, memory, timers>>
     \/ service = "ladder" /\ Steps!Next /\ UNCHANGED <<handler, timers, server, past>>
     \/ service = "seeds" /\ Seeds!Next /\ UNCHANGED <<source, memory, timers, server>>
     \/ service = "github" /\ GitHub!Next
     \/ service = "tasks" /\ Tasks!Next /\ UNCHANGED <<memory, timers, server>>
     \/ service = "limiters" /\ Proved!Limiters!Next /\ UNCHANGED <<source, server>>
     \/ service = "posters" /\ Proved!Posters!Next /\ UNCHANGED <<source, server>>
     \/ service = "periodic" /\ Proved!Periodic!Next /\ UNCHANGED <<store, timers>>
     \/ service = "forgejo" /\ Forgejo!Next /\ UNCHANGED memory
     \/ service = "memory" /\ Proved!Store!Next /\ UNCHANGED <<source, handler, memory, past>>
     \/ service = "postgres" /\ Postgres!Next /\ UNCHANGED <<source, handler, memory, past>>
  /\ UNCHANGED service

Spec == Init /\ [][Next]_vars

(* Each service's properties, stated and explained in its module.           *)

(* gitea: the card ends up on the newest run, whatever the order, and       *)
(* nothing that comes late reopens the card of a completed run. jellyfin:   *)
(* no end left from a pause or a stop reaches a running playback, and an    *)
(* end is coming for a playback that was stopped or left.                   *)
CardsKept ==
  /\ service = "gitea" => Ended!Gitea!NewestRunShown /\ Ended!Gitea!TombstoneHolds
  /\ service = "jellyfin" => Ended!Jellyfin!PlayingStays /\ Ended!Jellyfin!LeftCardEnds

(* pushes: the alert dedup swallows no alert, what the devices show agrees  *)
(* with what fires, no retract still on its way takes down a current        *)
(* failure and a success takes its operation's failure back (grafana and    *)
(* backrest webhooks).                                                      *)
PushesKept ==
  /\ service = "grafana" => Pushed!Grafana!FiringWasPushed /\ Pushed!Grafana!PushMatchesGroups
  /\ service = "failures" =>
       Pushed!Backrest!CurrentFailureStays /\ Pushed!Backrest!SuccessTakesBack

(* sabnzbd: a tracker that follows nothing has left no card up, what the    *)
(* dedup remembers as shown is shown, and a propagation hold that never     *)
(* clears is given up.                                                      *)
SabnzbdKept ==
  service = "sabnzbd" =>
    /\ Proved!Sabnzbd!IdleLeavesNoCard /\ Proved!Sabnzbd!RecordedIsShown
    /\ Proved!Sabnzbd!HoldGivenUp

(* bambulab: no end of an earlier print reaches the one being tracked, and  *)
(* a card left up is tracked or about to be ended.                          *)
BambulabKept == service = "bambulab" => Proved!Bambulab!NewPrintKeepsCard /\ Proved!Bambulab!CardIsAccountedFor

(* backrest: no close of an earlier run reaches the one being followed, and *)
(* every card is closed, also what a restart left behind. frames: where the *)
(* bridge is silent the card is right, it never goes stale, its rate is     *)
(* real, its lines arrive and its last frame is whole.                      *)
BackrestKept ==
  /\ service = "backrest" => Backrest!RunKeepsCard /\ Backrest!CardIsClosed
  /\ service = "frames" =>
       /\ Frames!SilenceIsSafe /\ Frames!NeverStale /\ Frames!RateIsReal
       /\ Frames!LinesArrive /\ Frames!FinalFrameIsWhole

(* grafana bridge: the card and its poller follow the alert's instances,    *)
(* and no poller is left that nobody could stop.                            *)
AlertsKept == service = "alerts" => Proved!Alerts!CardFollowsAlert /\ Proved!Alerts!PollerHasEntry

(* widgets: what is shown is current, to within MinChange, a heartbeat      *)
(* comes before the device dims a widget, and the series kept and their     *)
(* widgets are those read of late.                                          *)
WidgetsKept ==
  /\ service = "scalar" => Proved!Scalar!ShownIsCurrent /\ Proved!Scalar!NeverDims
  /\ service = "multi" => Proved!Multi!SeriesMatch

(* ladder: a group weighs the time in which a shard of it ran, the window   *)
(* is as long as its pill is wide, and the weights fit the steps. seeds:    *)
(* what is stored was measured, and a run is seeded from the best of it.    *)
ShapesKept ==
  /\ service = "ladder" => Steps!BusyIsUnion /\ Steps!WindowMatchesPill /\ Steps!WeightsFitSteps
  /\ service = "seeds" => Seeds!SeedsAreMeasured /\ Seeds!SeedIsBest

(* github: an answer served from the cache is what GitHub has, a repo is    *)
(* not skipped past the TTL, a spent window is left alone, probing an idle  *)
(* repo stays free and a call ends. tasks: the walk over Forgejo's tasks    *)
(* misses no job that is listed and believes no edit. forgejo: no repo is   *)
(* passed over unless Forgejo said it has no Actions, a list of repos has   *)
(* all the owner's within the page cap and no other's unless the token is   *)
(* known to be the owner's, and a request ends.                             *)
ForgesKept ==
  /\ service = "github" =>
       /\ GitHub!AnswersAreCurrent /\ GitHub!AddedWorkflowIsNoticed
       /\ GitHub!SpentIsLeftAlone /\ GitHub!IdleStaysFree /\ GitHub!CallsAreBounded
  /\ service = "tasks" => Tasks!WalkFindsAll /\ Tasks!EditsAreRefused
  /\ service = "forgejo" =>
       Forgejo!AbsenceIsForgejos /\ Forgejo!ReposAreWhole /\ Forgejo!RequestsAreBounded

(* limiters: no tenant or address is let through more than its rate allows, *)
(* however requests race with each other, the eviction and the sweep.       *)
(* posters: only what failed on its own merits is remembered as a failure,  *)
(* and who waited out a fetch has its hash. periodic: when any Stop returns *)
(* nothing runs any more.                                                   *)
SharedPartsKept ==
  /\ service = "limiters" => Proved!Limiters!AdmittedWithinRate /\ Proved!Limiters!MapIsBounded
  /\ service = "posters" => Proved!Posters!FailuresAreRemembered /\ Proved!Posters!PosterIsServed
  /\ service = "periodic" => Proved!Periodic!StoppedIsQuiet

(* store: in memory and in Postgres a row is read until it is deleted,      *)
(* replaced or expired and never after, and no sweep of the expired can be  *)
(* told from outside: every step is one of RowStore's, or is not seen.      *)
StoreKept ==
  /\ service = "memory" => Proved!Store!Promise!Init
  /\ service = "postgres" => Postgres!Promise!Init
  /\ [][service = "memory" =>
          Proved!Store!Promise!Next \/ UNCHANGED <<Proved!Store!Rows, timers, server>>]_vars
  /\ [][service = "postgres" =>
          Postgres!Promise!Next \/ UNCHANGED <<Postgres!Rows, timers, server>>]_vars

---------------------------------------------------------------------------
(* The services proved about keep their properties within the whole.        *)

\* Behaviour of a service that is the one chosen is behaviour of the service.
LEMMA ServiceIsChosen == [Next]_vars => service' = service
BY DEF Next, vars

(* However requests, callers and Stops interleave, the rate limiters, the   *)
(* poster cache and the periodic runner keep what their users rely on.      *)
THEOREM SharedPartsStay == Spec => []SharedPartsKept
<1>1. service = "limiters" /\ Init => Proved!Limiters!Init
  BY DEF Init
<1>2. service = "limiters" /\ [Next]_vars => [Proved!Limiters!Next]_(Proved!Limiters!vars)
  BY DEF Next, vars, Proved!Limiters!vars
<1>3. Proved!Limiters!Init /\ [][Proved!Limiters!Next]_(Proved!Limiters!vars)
        => [](Proved!Limiters!AdmittedWithinRate /\ Proved!Limiters!MapIsBounded)
  <2>1. Proved!RatesAssumed  BY RatesAssumption DEF Proved!RatesAssumed
  <2>2. QED  BY <2>1, Proved!RateLimited
<1>4. service = "posters" /\ Init => Proved!Posters!Init
  BY DEF Init
<1>5. service = "posters" /\ [Next]_vars => [Proved!Posters!Next]_(Proved!Posters!vars)
  BY DEF Next, vars, Proved!Posters!vars
<1>6. Proved!Posters!Init /\ [][Proved!Posters!Next]_(Proved!Posters!vars)
        => [](Proved!Posters!FailuresAreRemembered /\ Proved!Posters!PosterIsServed)
  <2>1. Proved!CacheAssumed  BY CacheAssumption DEF Proved!CacheAssumed
  <2>2. QED  BY <2>1, Proved!PostersKept
<1>7. service = "periodic" /\ Init => Proved!Periodic!Init
  BY DEF Init
<1>8. service = "periodic" /\ [Next]_vars => [Proved!Periodic!Next]_(Proved!Periodic!vars)
  BY DEF Next, vars, Proved!Periodic!vars
<1>9. Proved!Periodic!Init /\ [][Proved!Periodic!Next]_(Proved!Periodic!vars) => []Proved!Periodic!StoppedIsQuiet
  <2>1. Proved!StopsNamed  BY StopsAssumption DEF Proved!StopsNamed
  <2>2. QED  BY <2>1, Proved!StoppedForGood
<1>10. /\ ~(service = "limiters") /\ ~(service = "posters") /\ ~(service = "periodic") => SharedPartsKept
       /\ service = "limiters" /\ Proved!Limiters!AdmittedWithinRate /\ Proved!Limiters!MapIsBounded => SharedPartsKept
       /\ service = "posters" /\ Proved!Posters!FailuresAreRemembered /\ Proved!Posters!PosterIsServed => SharedPartsKept
       /\ service = "periodic" /\ Proved!Periodic!StoppedIsQuiet => SharedPartsKept
  BY DEF SharedPartsKept
<1>11. /\ service = "limiters" /\ [Next]_vars => (service = "limiters")'
       /\ service = "posters" /\ [Next]_vars => (service = "posters")'
       /\ service = "periodic" /\ [Next]_vars => (service = "periodic")'
       /\ ~(service = "limiters") /\ [Next]_vars => (~(service = "limiters"))'
       /\ ~(service = "posters") /\ [Next]_vars => (~(service = "posters"))'
       /\ ~(service = "periodic") /\ [Next]_vars => (~(service = "periodic"))'
  BY ServiceIsChosen
<1>12. QED
  BY <1>1, <1>2, <1>3, <1>4, <1>5, <1>6, <1>7, <1>8, <1>9, <1>10, <1>11, PTL DEF Spec

(* Whatever the printer does between two messages, an end of an earlier     *)
(* print does not reach the one being tracked, and a card left up is        *)
(* tracked or about to be ended (BambuTracker).                             *)
THEOREM BambulabStays == Spec => []BambulabKept
<1>1. service = "bambulab" /\ Init => Proved!Bambulab!Init
  BY DEF Init
<1>2. service = "bambulab" /\ [Next]_vars => [Proved!Bambulab!Next]_(Proved!Bambulab!vars)
  BY DEF Next, vars, Proved!Bambulab!vars
<1>3. Proved!Bambulab!Init /\ [][Proved!Bambulab!Next]_(Proved!Bambulab!vars)
        => [](Proved!Bambulab!NewPrintKeepsCard /\ Proved!Bambulab!CardIsAccountedFor)
  BY Proved!PrintsKept
<1>4. /\ ~(service = "bambulab") => BambulabKept
      /\ Proved!Bambulab!NewPrintKeepsCard /\ Proved!Bambulab!CardIsAccountedFor => BambulabKept
  BY DEF BambulabKept
<1>5. /\ service = "bambulab" /\ [Next]_vars => (service = "bambulab")'
      /\ ~(service = "bambulab") /\ [Next]_vars => (~(service = "bambulab"))'
  BY ServiceIsChosen
<1>6. QED
  BY <1>1, <1>2, <1>3, <1>4, <1>5, PTL DEF Spec

(* However its goroutines interleave, the Grafana bridge's card and poller  *)
(* follow the alert's instances, and no poller is left that nobody could    *)
(* stop (GrafanaBridge).                                                    *)
THEOREM AlertsStay == Spec => []AlertsKept
<1>1. service = "alerts" /\ Init => Proved!Alerts!Init
  BY DEF Init
<1>2. service = "alerts" /\ [Next]_vars => [Proved!Alerts!Next]_(Proved!Alerts!vars)
  BY DEF Next, vars, Proved!Alerts!vars
<1>3. Proved!Alerts!Init /\ [][Proved!Alerts!Next]_(Proved!Alerts!vars)
        => [](Proved!Alerts!CardFollowsAlert /\ Proved!Alerts!PollerHasEntry)
  BY Proved!AlertsFollowed
<1>4. /\ ~(service = "alerts") => AlertsKept
      /\ Proved!Alerts!CardFollowsAlert /\ Proved!Alerts!PollerHasEntry => AlertsKept
  BY DEF AlertsKept
<1>5. /\ service = "alerts" /\ [Next]_vars => (service = "alerts")'
      /\ ~(service = "alerts") /\ [Next]_vars => (~(service = "alerts"))'
  BY ServiceIsChosen
<1>6. QED
  BY <1>1, <1>2, <1>3, <1>4, <1>5, PTL DEF Spec

(* Whatever the queue does between two polls, the SABnzbd tracker that      *)
(* follows nothing has left no card up, what its dedup remembers is shown,  *)
(* and a hold that never clears is given up (SabTracker).                   *)
THEOREM SabnzbdStays == Spec => []SabnzbdKept
<1>1. service = "sabnzbd" /\ Init => Proved!Sabnzbd!Init
  BY DEF Init
<1>2. service = "sabnzbd" /\ [Next]_vars => [Proved!Sabnzbd!Next]_(Proved!Sabnzbd!vars)
  BY DEF Next, vars, Proved!Sabnzbd!vars
<1>3. Proved!Sabnzbd!Init /\ [][Proved!Sabnzbd!Next]_(Proved!Sabnzbd!vars)
        => [](Proved!Sabnzbd!IdleLeavesNoCard /\ Proved!Sabnzbd!HoldGivenUp /\ Proved!Sabnzbd!RecordedIsShown)
  <2>1. Proved!PollsAssumed  BY PollsAssumption DEF Proved!PollsAssumed
  <2>2. QED  BY <2>1, Proved!SessionsKept
<1>4. /\ ~(service = "sabnzbd") => SabnzbdKept
      /\ Proved!Sabnzbd!IdleLeavesNoCard /\ Proved!Sabnzbd!HoldGivenUp /\ Proved!Sabnzbd!RecordedIsShown
           => SabnzbdKept
  BY DEF SabnzbdKept
<1>5. /\ service = "sabnzbd" /\ [Next]_vars => (service = "sabnzbd")'
      /\ ~(service = "sabnzbd") /\ [Next]_vars => (~(service = "sabnzbd"))'
  BY ServiceIsChosen
<1>6. QED
  BY <1>1, <1>2, <1>3, <1>4, <1>5, PTL DEF Spec

(* However its groups' webhooks interleave, the Grafana provider swallows   *)
(* no alert and its push agrees with what fires; whatever becomes of the    *)
(* silent pushes, the Backrest provider's retract takes down no current     *)
(* failure, and a success takes its own back (GrafanaGroups, FailurePushes).*)
THEOREM PushesStay == Spec => []PushesKept
<1>1. service = "grafana" /\ Init => Pushed!Grafana!Init
  BY DEF Init
<1>2. service = "grafana" /\ [Next]_vars => [Pushed!Grafana!Next]_(Pushed!Grafana!vars)
  BY DEF Next, vars, Pushed!Grafana!vars
<1>3. Pushed!Grafana!Init /\ [][Pushed!Grafana!Next]_(Pushed!Grafana!vars)
        => [](Pushed!Grafana!FiringWasPushed /\ Pushed!Grafana!PushMatchesGroups)
  <2>1. Pushed!GroupsNamed  BY GroupsAssumption DEF Pushed!GroupsNamed
  <2>2. QED  BY <2>1, Pushed!GroupsStay
<1>4. service = "failures" /\ Init => Pushed!Backrest!Init
  BY DEF Init
<1>5. service = "failures" /\ [Next]_vars => [Pushed!Backrest!Next]_(Pushed!Backrest!vars)
  BY DEF Next, vars, Pushed!Backrest!vars
<1>6. Pushed!Backrest!Init /\ [][Pushed!Backrest!Next]_(Pushed!Backrest!vars)
        => [](Pushed!Backrest!CurrentFailureStays /\ Pushed!Backrest!SuccessTakesBack)
  <2>1. Pushed!OperationsNamed  BY OperationsAssumption DEF Pushed!OperationsNamed, Pushed!Backrest!ANY
  <2>2. QED  BY <2>1, Pushed!FailuresStay
<1>7. /\ ~(service = "grafana") /\ ~(service = "failures") => PushesKept
      /\ service = "grafana" /\ Pushed!Grafana!FiringWasPushed /\ Pushed!Grafana!PushMatchesGroups => PushesKept
      /\ service = "failures" /\ Pushed!Backrest!CurrentFailureStays /\ Pushed!Backrest!SuccessTakesBack => PushesKept
  BY DEF PushesKept
<1>8. /\ service = "grafana" /\ [Next]_vars => (service = "grafana")'
      /\ service = "failures" /\ [Next]_vars => (service = "failures")'
      /\ ~(service = "grafana") /\ [Next]_vars => (~(service = "grafana"))'
      /\ ~(service = "failures") /\ [Next]_vars => (~(service = "failures"))'
  BY ServiceIsChosen
<1>9. QED
  BY <1>1, <1>2, <1>3, <1>4, <1>5, <1>6, <1>7, <1>8, PTL DEF Spec

(* Whatever the order its webhooks come in and whichever timers fire in     *)
(* between, the card of a repository ends up on the newest run and stays    *)
(* closed once that run completed; the card of a playback stays while       *)
(* somebody watches and has an end coming once it was left (GiteaRuns,      *)
(* JellyfinPlayback).                                                       *)
THEOREM CardsStay == Spec => []CardsKept
<1>1. service = "gitea" /\ Init => Ended!Gitea!Init
  BY DEF Init
<1>2. service = "gitea" /\ [Next]_vars => [Ended!Gitea!Next]_(Ended!Gitea!vars)
  BY DEF Next, vars, Ended!Gitea!vars
<1>3. Ended!Gitea!Init /\ [][Ended!Gitea!Next]_(Ended!Gitea!vars)
        => [](Ended!Gitea!NewestRunShown /\ Ended!Gitea!TombstoneHolds)
  <2>1. Ended!RunsNumbered  BY RunsAssumption DEF Ended!RunsNumbered
  <2>2. QED  BY <2>1, Ended!RunsStay
<1>4. service = "jellyfin" /\ Init => Ended!Jellyfin!Init
  BY DEF Init
<1>5. service = "jellyfin" /\ [Next]_vars => [Ended!Jellyfin!Next]_(Ended!Jellyfin!vars)
  BY DEF Next, vars, Ended!Jellyfin!vars
<1>6. Ended!Jellyfin!Init /\ [][Ended!Jellyfin!Next]_(Ended!Jellyfin!vars)
        => [](Ended!Jellyfin!PlayingStays /\ Ended!Jellyfin!LeftCardEnds)
  BY Ended!PlaybackStays
<1>7. /\ ~(service = "gitea") /\ ~(service = "jellyfin") => CardsKept
      /\ service = "gitea" /\ Ended!Gitea!NewestRunShown /\ Ended!Gitea!TombstoneHolds => CardsKept
      /\ service = "jellyfin" /\ Ended!Jellyfin!PlayingStays /\ Ended!Jellyfin!LeftCardEnds => CardsKept
  BY DEF CardsKept
<1>8. /\ service = "gitea" /\ [Next]_vars => (service = "gitea")'
      /\ service = "jellyfin" /\ [Next]_vars => (service = "jellyfin")'
      /\ ~(service = "gitea") /\ [Next]_vars => (~(service = "gitea"))'
      /\ ~(service = "jellyfin") /\ [Next]_vars => (~(service = "jellyfin"))'
  BY ServiceIsChosen
<1>9. QED
  BY <1>1, <1>2, <1>3, <1>4, <1>5, <1>6, <1>7, <1>8, PTL DEF Spec

(* However slowly a metric drifts, a scalar widget shows the last reading   *)
(* to within MinChange, and its heartbeats come in time; whatever churn of  *)
(* gaps and returns its series went through, a multi-source widget keeps    *)
(* those read of late and no others (ScalarWidget, SeriesWidgets).          *)
THEOREM WidgetsStay == Spec => []WidgetsKept
<1>1. service = "scalar" /\ Init => Proved!Scalar!Init
  BY DEF Init
<1>2. service = "scalar" /\ [Next]_vars => [Proved!Scalar!Next]_(Proved!Scalar!vars)
  BY DEF Next, vars, Proved!Scalar!vars
<1>3. Proved!Scalar!Init /\ [][Proved!Scalar!Next]_(Proved!Scalar!vars)
        => [](Proved!Scalar!ShownIsCurrent /\ Proved!Scalar!NeverDims)
  <2>1. Proved!WindowsAssumed  BY WindowsAssumption DEF Proved!WindowsAssumed
  <2>2. QED  BY <2>1, Proved!ShownStays
<1>4. service = "multi" /\ Init => Proved!Multi!Init
  BY DEF Init
<1>5. service = "multi" /\ [Next]_vars => [Proved!Multi!Next]_(Proved!Multi!vars)
  BY DEF Next, vars, Proved!Multi!vars
<1>6. Proved!Multi!Init /\ [][Proved!Multi!Next]_(Proved!Multi!vars) => []Proved!Multi!SeriesMatch
  <2>1. Proved!SeriesAssumed
    BY SeriesAssumption DEF Proved!SeriesAssumed, Proved!Multi!Absent, Proved!IsFiniteSet, IsFiniteSet
  <2>2. QED  BY <2>1, Proved!SeriesFollowed
<1>7. /\ ~(service = "scalar") /\ ~(service = "multi") => WidgetsKept
      /\ service = "scalar" /\ Proved!Scalar!ShownIsCurrent /\ Proved!Scalar!NeverDims => WidgetsKept
      /\ service = "multi" /\ Proved!Multi!SeriesMatch => WidgetsKept
  BY DEF WidgetsKept
<1>8. /\ service = "scalar" /\ [Next]_vars => (service = "scalar")'
      /\ service = "multi" /\ [Next]_vars => (service = "multi")'
      /\ ~(service = "scalar") /\ [Next]_vars => (~(service = "scalar"))'
      /\ ~(service = "multi") /\ [Next]_vars => (~(service = "multi"))'
  BY ServiceIsChosen
<1>9. QED
  BY <1>1, <1>2, <1>3, <1>4, <1>5, <1>6, <1>7, <1>8, PTL DEF Spec
=============================================================================
