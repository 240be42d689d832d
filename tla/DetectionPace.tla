---------------------------- MODULE DetectionPace ----------------------------
(* How the CI loop paces detection by the forge's request budget            *)
(* (shared/cipoll/poller.go: refreshRepos, spendable, activeReserve,        *)
(* effectiveIdleInterval, claimIdlePass). The clock counts ticks of the     *)
(* active tier; a tick is a discovery, a pass and the tracked runs' polls,  *)
(* as far as each is due, and every request reports what is left.           *)
EXTENDS Integers, FiniteSetsExt

CONSTANTS
  MaxRepos,      \* bound on the repos an owner has
  IdleInterval,  \* configured gap between passes
  RefreshGap,    \* gap between discoveries (repoRefreshInterval)
  Window,        \* length of a budget window
  Allowance,     \* requests in a window
  LastTime       \* bound on the clock

VARIABLES
  forge,    \* what is left of the window, its end; the owner's repos
  stage,    \* what the current tick does next
  repos,    \* watched
  tracked,  \* runs followed
  lastRefresh, lastIdle,
  now,
  overran   \* a pass was claimed with nothing left to spend on it

vars == <<forge, stage, repos, tracked, lastRefresh, lastIdle, now, overran>>

Never == -1

Init ==
  /\ forge \in [left : {Allowance}, reset : {Window}, repos : 1..MaxRepos]
  /\ stage = "discover" /\ repos = 0 /\ tracked = 0
  /\ lastRefresh = Never /\ lastIdle = Never
  /\ now = 0
  /\ overran = FALSE

\* A conditional request that finds nothing new is not billed.
Billed(most) == 0..Min({most, forge.left})
Spends(n) == forge' = [forge EXCEPT !.left = @ - n]

Due(last, interval) == last = Never \/ now - last >= interval

(* -------------------------------- pacing -------------------------------- *)

UntilReset == forge.reset - now
ActiveReserve == tracked * (UntilReset + 1)
Spendable == forge.left - ActiveReserve
Seen == lastRefresh # Never  \* no answer, no budget

\* Evenly over what is left of the window, and never faster than configured.
Paced == Min({Max({(repos * UntilReset) \div Spendable, IdleInterval}), UntilReset})

EffectiveIdleInterval ==
  IF repos = 0 \/ ~Seen THEN IdleInterval
  ELSE IF Spendable =< 0 THEN UntilReset
  ELSE IF repos * UntilReset =< Spendable * IdleInterval THEN IdleInterval
  ELSE Paced

(* --------------------------------- ticks -------------------------------- *)

\* Discovery is the first thing dropped. (One that fails is left out.)
RefreshRepos ==
  /\ stage = "discover"
  /\ stage' = "detect"
  /\ IF Due(lastRefresh, RefreshGap) /\ (Seen => Spendable > 0)
     THEN /\ \E n \in Billed(1) : Spends(n)
          /\ repos' = forge.repos /\ lastRefresh' = now
     ELSE UNCHANGED <<forge, repos, lastRefresh>>
  /\ UNCHANGED <<tracked, lastIdle, now, overran>>

\* The pass is taken before it is made; what is tracked already is skipped.
ClaimIdlePass ==
  /\ stage = "detect"
  /\ stage' = "active"
  /\ IF Due(lastIdle, EffectiveIdleInterval)
     THEN /\ lastIdle' = now
          /\ \E n \in Billed(Max({0, repos - tracked})) : Spends(n)
          /\ \E found \in {0, 1} : tracked' = Min({repos, tracked + found})
          /\ overran' = (overran \/ (lastIdle # Never /\ Spendable =< 0))
     ELSE UNCHANGED <<forge, tracked, lastIdle, overran>>
  /\ UNCHANGED <<repos, lastRefresh, now>>

\* One request for every tracked run; with nothing left they are declined.
PollActive ==
  /\ stage = "active"
  /\ stage' = "wait"
  /\ \E n \in Billed(tracked) : Spends(n)
  /\ \E over \in {0, 1} : tracked' = Max({0, tracked - over})
  /\ UNCHANGED <<repos, lastRefresh, lastIdle, now, overran>>

Tick ==
  /\ stage = "wait" /\ now < LastTime
  /\ stage' = "discover" /\ now' = now + 1
  /\ forge' = IF now' = forge.reset THEN [forge EXCEPT !.left = Allowance, !.reset = @ + Window] ELSE forge
  /\ UNCHANGED <<repos, tracked, lastRefresh, lastIdle, overran>>

Next == RefreshRepos \/ ClaimIdlePass \/ PollActive \/ Tick

Spec == Init /\ [][Next]_vars

(* ------------------------------ properties ------------------------------ *)

(* With nothing left to spend on detection, the window is waited out: no    *)
(* pass is claimed before it ends ("Nothing left to spend on detection.     *)
(* Wait the window out", effectiveIdleInterval). The gap is the time to the *)
(* reset, and it is measured from the last pass.                            *)
WindowWaitedOut == ~overran
=============================================================================
