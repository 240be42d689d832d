--------------------------- MODULE TenantBreakers ---------------------------
(***************************************************************************)
(* relay/internal/client/breaker.go: the tenantBreaker every pooled client *)
(* carries, one CircuitBreaker per tenant in front of the serverBreaker of *)
(* the whole pool.  The two breakers and the streak have a mutex each, so  *)
(* admission and reports are the sequence of critical sections the code    *)
(* takes: smu is serverBreaker.mu, and only recordSuccess and              *)
(* recordFailure take it.                                                  *)
(***************************************************************************)
EXTENDS Integers, FiniteSets, Breaker

CONSTANTS Tenants, Calls,
          TenantOf,    \* the tenant of each call slot
          Threshold,   \* of a tenant's own breaker and of the streak
          MinTenants,  \* serverTenants, 3 in the code
          NoCall

ASSUME ThresholdAssumption == Threshold \in Nat \ {0}
ASSUME TenantAssumption == IsFiniteSet(Tenants) /\ TenantOf \in [Calls -> Tenants]
ASSUME NoCallAssumption == NoCall \notin Calls
ASSUME MinTenantsAssumption == MinTenants \in Nat \ {0}

VARIABLES own,       \* the tenants' CircuitBreakers
          server,    \* serverBreaker.cb, with threshold 1
          streak,    \* serverBreaker.streak, saturated at Threshold
          tenants,   \* the tenants of the streak
          gap,       \* more than window since lastFault
          smu,       \* which call holds serverBreaker.mu, or NoCall
          pc,        \* where each call is; an outcome while it is reported
          faulted    \* history: tenants that reported a fault since the last success

vars == <<own, server, streak, tenants, gap, smu, pc, faulted>>
serverVars == <<server, streak, tenants, gap, smu, faulted>>

Outcomes == {"success", "reachable", "failure", "abort"}
PCs == {"idle", "ownAdmitted", "refused", "running", "locked", "seenOpen"} \union Outcomes

Init ==
  /\ own = [t \in Tenants |-> NewCircuitBreaker]
  /\ server = NewCircuitBreaker
  /\ streak = 0 /\ tenants = {} /\ gap = FALSE
  /\ smu = NoCall
  /\ pc = [c \in Calls |-> "idle"]
  /\ faulted = {}

Goto(c, from, to) == pc[c] = from /\ pc' = [pc EXCEPT ![c] = to]

(* tenantBreaker.Allow: own first. *)
AllowOwn(c) ==
  /\ Goto(c, "idle", "ownAdmitted")
  /\ Allows(own[TenantOf[c]])
  /\ own' = [own EXCEPT ![TenantOf[c]] = AfterAllow(@)]
  /\ UNCHANGED <<serverVars>>

AllowServer(c) ==
  /\ pc[c] = "ownAdmitted"
  /\ server' = AfterAllow(server)
  /\ pc' = [pc EXCEPT ![c] = IF Allows(server) THEN "running" ELSE "refused"]
  /\ UNCHANGED <<own, streak, tenants, gap, smu, faulted>>

\* Mutant of AbortOwn: own is left as Allow found it.
AbortOwnForgotten(c) ==
  /\ Goto(c, "refused", "idle")
  /\ UNCHANGED <<own, serverVars>>

(* The server breaker refused: re-arm own, which may have made this call   *)
(* its probe.                                                              *)
AbortOwn(c) ==
  /\ Goto(c, "refused", "idle")
  /\ own' = [own EXCEPT ![TenantOf[c]] = Abort(@)]
  /\ UNCHANGED <<serverVars>>

(* The call has its outcome, and tells own. *)
ReportOwn(c, o) ==
  /\ Goto(c, "running", o)
  /\ own' = [own EXCEPT ![TenantOf[c]] =
               CASE o = "success"   -> RecordSuccess(@)
                 [] o = "reachable" -> RecordReachable(@)
                 [] o = "failure"   -> RecordFailure(@, Threshold)
                 [] o = "abort"     -> Abort(@)]
  /\ UNCHANGED serverVars

resetLocked == streak' = 0 /\ tenants' = {} /\ gap' = FALSE

\* Mutant of recordSuccess: the streak goes on past a success.
recordSuccessKeepsStreak(c) ==
  /\ smu = NoCall
  /\ Goto(c, "success", "idle")
  /\ server' = RecordSuccess(server)
  /\ faulted' = {}
  /\ UNCHANGED <<own, streak, tenants, gap, smu>>

(* Under s.mu; nothing it reads or writes but cb is used outside s.mu, so  *)
(* the two statements are one step.                                        *)
recordSuccess(c) ==
  /\ smu = NoCall
  /\ Goto(c, "success", "idle")
  /\ server' = RecordSuccess(server)
  /\ resetLocked
  /\ faulted' = {}
  /\ UNCHANGED <<own, smu>>

(* recordReachable and abort go straight to cb, without s.mu. *)
recordReachable(c) ==
  /\ Goto(c, "reachable", "idle")
  /\ server' = RecordReachable(server)
  /\ UNCHANGED <<own, streak, tenants, gap, smu, faulted>>

abort(c) ==
  /\ Goto(c, "abort", "idle")
  /\ server' = Abort(server)
  /\ UNCHANGED <<own, streak, tenants, gap, smu, faulted>>

(* recordFailure takes s.mu and asks cb.IsOpen ... *)
recordFailureLock(c) ==
  /\ smu = NoCall
  /\ Goto(c, "failure", IF IsOpen(server) THEN "seenOpen" ELSE "locked")
  /\ smu' = c
  /\ faulted' = faulted \union {TenantOf[c]}
  /\ UNCHANGED <<own, server, streak, tenants, gap>>

\* Mutant of recordFailureOpen: the early return skips the unlock.
recordFailureOpenStuck(c) ==
  /\ Goto(c, "seenOpen", "idle")
  /\ server' = RecordFailure(server, 1)
  /\ UNCHANGED <<own, streak, tenants, gap, smu, faulted>>

(* ... open: the failure goes to cb as it is by now ... *)
recordFailureOpen(c) ==
  /\ Goto(c, "seenOpen", "idle")
  /\ smu' = NoCall
  /\ server' = RecordFailure(server, 1)
  /\ UNCHANGED <<own, streak, tenants, gap, faulted>>

SpansServer(n, ts) == n >= Threshold /\ Cardinality(ts) >= MinTenants

(* ... closed: it joins the streak, and opens cb if the streak is now long *)
(* and wide enough.                                                        *)
recordFailureClosed(c) ==
  LET kept == IF streak > 0 /\ gap THEN 0 ELSE streak
      from == IF streak > 0 /\ gap THEN {} ELSE tenants
      n    == IF kept = Threshold THEN kept ELSE kept + 1
      ts   == from \union {TenantOf[c]}
  IN /\ Goto(c, "locked", "idle")
     /\ smu' = NoCall
     /\ gap' = FALSE
     /\ IF SpansServer(n, ts)
          THEN server' = RecordFailure(server, 1) /\ streak' = 0 /\ tenants' = {}
          ELSE server' = server /\ streak' = n /\ tenants' = ts
     /\ UNCHANGED <<own, faulted>>

OwnCooldownEnds(t) ==
  /\ own[t].cooling
  /\ own' = [own EXCEPT ![t] = CooldownOver(@)]
  /\ UNCHANGED <<serverVars, pc>>

ServerCooldownEnds ==
  /\ server.cooling
  /\ server' = CooldownOver(server)
  /\ UNCHANGED <<own, streak, tenants, gap, smu, pc, faulted>>

(* The window after the last fault of the streak goes by. *)
WindowPasses ==
  /\ streak > 0 /\ ~gap
  /\ gap' = TRUE
  /\ UNCHANGED <<own, server, streak, tenants, smu, pc, faulted>>

Report(c) ==
  \/ AllowServer(c) \/ AbortOwn(c) \/ \E o \in Outcomes : ReportOwn(c, o)
  \/ recordSuccess(c) \/ recordReachable(c) \/ abort(c)
  \/ recordFailureLock(c) \/ recordFailureOpen(c) \/ recordFailureClosed(c)

Next ==
  \/ \E c \in Calls : AllowOwn(c) \/ Report(c)
  \/ \E t \in Tenants : OwnCooldownEnds(t)
  \/ ServerCooldownEnds \/ WindowPasses

(* A started call runs to its report: its retry loop is bounded and s.mu   *)
(* is handed on (strong fairness for the two steps that wait for it).      *)
Fairness ==
  \A c \in Calls : WF_vars(Report(c)) /\ SF_vars(recordFailureLock(c) \/ recordSuccess(c))

Spec == Init /\ [][Next]_vars /\ Fairness

---------------------------------------------------------------------------
\* Type correctness of every variable of the module.
TypeOK ==
  /\ own \in [Tenants -> Breakers(Threshold)]
  /\ server \in Breakers(1)
  /\ streak \in 0..Threshold /\ tenants \subseteq Tenants /\ gap \in BOOLEAN
  /\ smu \in Calls \union {NoCall}
  /\ pc \in [Calls -> PCs]
  /\ faulted \subseteq Tenants

(* No breaker is half-open with nobody left to settle it.  A call refused  *)
(* by the server breaker may have been made own's probe a moment before.   *)
OwnProbeOut ==
  \A t \in Tenants : own[t].state = "halfOpen" =>
    \E c \in Calls : TenantOf[c] = t /\ pc[c] \in {"ownAdmitted", "refused", "running"}

ServerProbeOut ==
  server.state = "halfOpen" =>
    \E c \in Calls : pc[c] \in Outcomes \union {"running", "locked", "seenOpen"}

ProbesOut == OwnProbeOut /\ ServerProbeOut

(* A fault that found the server breaker closed is judged by the streak    *)
(* while it still is: nobody else can open it in between, for s.mu is held *)
(* from IsOpen to the verdict.                                             *)
ClosedReadStaysClosed ==
  \A c \in Calls : pc[c] = "locked" => server.state = "closed"

(* However the reports interleave, the server breaker stands between the   *)
(* pool and the server only while MinTenants tenants have failed with no   *)
(* success of anyone since: one tenant alone never stops the others.       *)
OneTenantNeverStopsOthers ==
  server.state # "closed" => Cardinality(faulted) >= MinTenants

\* The server breaker's probe is settled: it does not stay half-open.
ServerProbeSettles == server.state = "halfOpen" ~> server.state # "halfOpen"
============================================================================
