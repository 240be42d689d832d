------------------------ MODULE TenantBreakersProofs ------------------------
(* Theorems about TenantBreakers, for every finite set of tenants, every   *)
(* set of concurrent calls and every threshold.                            *)
EXTENDS TenantBreakers, FiniteSetTheorems, TLAPS

---------------------------------------------------------------------------
(* The breaker as a value, for every threshold.                            *)

(* A new breaker is sound: breaker.go NewCircuitBreaker.                   *)
LEMMA NewSound ==
  ASSUME NEW threshold \in Nat \ {0}
  PROVE  Sound(NewCircuitBreaker, threshold)
BY DEF Sound, Breakers, BreakerStates, NewCircuitBreaker

(* Admission and the clock keep it sound: breaker.go Allow.                *)
LEMMA AllowSound ==
  ASSUME NEW threshold \in Nat \ {0}, NEW b, Sound(b, threshold)
  PROVE  Sound(AfterAllow(b), threshold) /\ Sound(CooldownOver(b), threshold)
<1>1. Sound(AfterAllow(b), threshold)
  BY DEF Sound, Breakers, BreakerStates, AfterAllow
<1>2. Sound(CooldownOver(b), threshold)
  BY DEF Sound, Breakers, BreakerStates, CooldownOver
<1>3. QED  BY <1>1, <1>2

(* So does every report, and no report leaves the breaker half-open: the   *)
(* verdict that settles a probe may come from any call: breaker.go         *)
(* RecordSuccess, RecordReachable, Abort.                                  *)
LEMMA ReportSound ==
  ASSUME NEW threshold \in Nat \ {0}, NEW b, Sound(b, threshold)
  PROVE  /\ Sound(RecordSuccess(b), threshold)   /\ RecordSuccess(b).state # "halfOpen"
         /\ Sound(RecordReachable(b), threshold) /\ RecordReachable(b).state # "halfOpen"
         /\ Sound(Abort(b), threshold)           /\ Abort(b).state # "halfOpen"
<1>1. Sound(RecordSuccess(b), threshold) /\ RecordSuccess(b).state # "halfOpen"
  BY NewSound DEF RecordSuccess, NewCircuitBreaker
<1>2. Sound(RecordReachable(b), threshold) /\ RecordReachable(b).state # "halfOpen"
  BY NewSound DEF RecordReachable, NewCircuitBreaker
<1>3. Sound(Abort(b), threshold) /\ Abort(b).state # "halfOpen"
  BY DEF Sound, Breakers, BreakerStates, Abort, Trip
<1>4. QED  BY <1>1, <1>2, <1>3

(* The same of a failure, which is counted when closed and trips when      *)
(* half-open: breaker.go RecordFailure.                                    *)
LEMMA FailureSound ==
  ASSUME NEW threshold \in Nat \ {0}, NEW b, Sound(b, threshold)
  PROVE  /\ Sound(RecordFailure(b, threshold), threshold)
         /\ RecordFailure(b, threshold).state # "halfOpen"
<1>1. CASE b.state = "closed"
  <2>1. CASE b.failures + 1 < threshold
    <3>1. RecordFailure(b, threshold) = [b EXCEPT !.failures = @ + 1]
      BY <1>1, <2>1 DEF RecordFailure, Sound, Breakers
    <3>2. QED  BY <1>1, <2>1, <3>1 DEF Sound, Breakers, BreakerStates
  <2>2. CASE b.failures + 1 >= threshold
    <3>1. RecordFailure(b, threshold) = Trip(b.failures + 1)
      BY <1>1, <2>2 DEF RecordFailure, Sound, Breakers
    <3>2. b.failures + 1 \in 0..threshold
      BY <1>1 DEF Sound, Breakers
    <3>3. QED  BY <3>1, <3>2 DEF Sound, Breakers, BreakerStates, Trip
  <2>3. QED  BY <2>1, <2>2 DEF Sound, Breakers
<1>2. CASE b.state = "halfOpen"
  <2>1. RecordFailure(b, threshold) = Trip(b.failures)  BY <1>2 DEF RecordFailure
  <2>2. QED  BY <1>2, <2>1 DEF Sound, Breakers, BreakerStates, Trip
<1>3. CASE b.state = "open"
  <2>1. RecordFailure(b, threshold) = b  BY <1>3 DEF RecordFailure
  <2>2. QED  BY <1>3, <2>1
<1>4. QED  BY <1>1, <1>2, <1>3 DEF Sound, Breakers, BreakerStates

---------------------------------------------------------------------------
BreakersSound ==
  /\ \A t \in Tenants : Sound(own[t], Threshold)
  /\ Sound(server, 1)

(* s.mu is held exactly from IsOpen to the verdict.                        *)
Mutex == \A c \in Calls : pc[c] \in {"locked", "seenOpen"} => smu = c

(* The tenants of the streak, and the caller about to join it, have failed *)
(* since the last success; a fault that found the server breaker open      *)
(* keeps success out until its verdict, for recordSuccess needs s.mu too.  *)
FaultsKnown ==
  /\ tenants \subseteq faulted
  /\ \A c \in Calls :
       /\ pc[c] = "locked" => TenantOf[c] \in faulted
       /\ pc[c] = "seenOpen" => Cardinality(faulted) >= MinTenants

IInv ==
  /\ TypeOK /\ BreakersSound /\ Mutex /\ FaultsKnown
  /\ ProbesOut /\ ClosedReadStaysClosed /\ OneTenantNeverStopsOthers

(* More tenants in the history never lower its size.                       *)
LEMMA MoreFaulted ==
  ASSUME NEW F \in SUBSET Tenants, NEW t \in Tenants
  PROVE  /\ Cardinality(F) \in Nat
         /\ Cardinality(F \union {t}) \in Nat
         /\ Cardinality(F \union {t}) >= Cardinality(F)
<1>1. IsFiniteSet(F \union {t}) /\ IsFiniteSet(F)
  BY FS_Subset, TenantAssumption, F \union {t} \in SUBSET Tenants
<1>2. F \in SUBSET (F \union {t})  OBVIOUS
<1>3. QED  BY <1>1, <1>2, FS_Subset, FS_CardinalityType

LEMMA Wider ==
  ASSUME NEW F \in SUBSET Tenants, NEW S \in SUBSET F
  PROVE  Cardinality(F) >= Cardinality(S) /\ Cardinality(S) \in Nat /\ Cardinality(F) \in Nat
<1>1. IsFiniteSet(F)  BY FS_Subset, TenantAssumption
<1>2. IsFiniteSet(S)  BY <1>1, FS_Subset
<1>3. QED  BY <1>1, <1>2, FS_Subset, FS_CardinalityType

(* The initial state satisfies the invariant.                              *)
LEMMA Initially == Init => IInv
<1> SUFFICES ASSUME Init PROVE IInv  OBVIOUS
<1>1. BreakersSound
  BY NewSound, ThresholdAssumption DEF Init, BreakersSound
<1>2. TypeOK
  <2>1. 0 \in 0..Threshold  BY ThresholdAssumption
  <2>2. gap \in BOOLEAN  BY DEF Init
  <2>3. own \in [Tenants -> Breakers(Threshold)] /\ server \in Breakers(1)
    BY <1>1 DEF Init, BreakersSound, Sound
  <2>4. QED  BY <2>1, <2>2, <2>3 DEF Init, TypeOK, PCs
<1>3. Mutex /\ FaultsKnown /\ ClosedReadStaysClosed
  BY DEF Init, Mutex, FaultsKnown, ClosedReadStaysClosed
<1>4. ProbesOut /\ OneTenantNeverStopsOthers
  BY DEF Init, ProbesOut, OwnProbeOut, ServerProbeOut, OneTenantNeverStopsOthers, NewCircuitBreaker
<1>5. QED  BY <1>1, <1>2, <1>3, <1>4 DEF IInv

(* Steps that report to the server breaker: none of them leaves it         *)
(* half-open, and own is not touched.                                      *)
LEMMA ServerReported ==
  ASSUME IInv, NEW c \in Calls, pc[c] \in Outcomes \union {"locked", "seenOpen"},
         pc' = [pc EXCEPT ![c] = "idle"], own' = own,
         Sound(server', 1), server'.state # "halfOpen"
  PROVE  ProbesOut' /\ BreakersSound' /\ pc' \in [Calls -> PCs] /\ server' \in Breakers(1)
<1>1. OwnProbeOut'
  <2> SUFFICES ASSUME NEW t \in Tenants, own'[t].state = "halfOpen"
               PROVE  \E d \in Calls : TenantOf[d] = t /\ pc'[d] \in {"ownAdmitted", "refused", "running"}
    BY DEF OwnProbeOut
  <2>1. PICK d \in Calls : TenantOf[d] = t /\ pc[d] \in {"ownAdmitted", "refused", "running"}
    BY DEF IInv, ProbesOut, OwnProbeOut
  <2>2. d # c  BY <2>1 DEF Outcomes
  <2>3. QED  BY <2>1, <2>2 DEF IInv, TypeOK
<1>2. ServerProbeOut'  BY DEF ServerProbeOut
<1>3. BreakersSound'  BY DEF IInv, BreakersSound
<1>4. pc' \in [Calls -> PCs]  BY DEF IInv, TypeOK, PCs
<1>5. server' \in Breakers(1)  BY DEF Sound
<1>6. QED  BY <1>1, <1>2, <1>3, <1>4, <1>5 DEF ProbesOut

(* Steps on own alone, by a call that is not reporting to the server: what *)
(* the server breaker's part of the invariant says is untouched.           *)
LEMMA OwnStep ==
  ASSUME IInv, NEW c \in Calls, NEW at \in {"ownAdmitted", "refused", "idle"} \union Outcomes,
         NEW b, Sound(b, Threshold),
         pc[c] \in {"idle", "refused", "running"},
         b.state = "halfOpen" => at \in {"ownAdmitted", "refused"},
         pc[c] = "running" => at \in Outcomes,
         pc' = [pc EXCEPT ![c] = at],
         own' = [own EXCEPT ![TenantOf[c]] = b],
         UNCHANGED serverVars
  PROVE  IInv'
<1> USE DEF IInv, serverVars
<1>1. TenantOf[c] \in Tenants  BY TenantAssumption
<1>2. BreakersSound'  BY <1>1 DEF BreakersSound, TypeOK
<1>3. TypeOK'
  BY <1>1, <1>2 DEF TypeOK, BreakersSound, Sound, PCs
<1>4. Mutex' /\ FaultsKnown' /\ ClosedReadStaysClosed'
  BY DEF Mutex, FaultsKnown, ClosedReadStaysClosed, TypeOK, Outcomes
<1>5. OwnProbeOut'
  <2> SUFFICES ASSUME NEW t \in Tenants, own'[t].state = "halfOpen"
               PROVE  \E d \in Calls : TenantOf[d] = t /\ pc'[d] \in {"ownAdmitted", "refused", "running"}
    BY DEF OwnProbeOut
  <2>1. CASE t = TenantOf[c]
    <3>1. at \in {"ownAdmitted", "refused"}  BY <2>1, <1>1 DEF TypeOK
    <3>2. QED  BY <2>1, <3>1 DEF TypeOK
  <2>2. CASE t # TenantOf[c]
    <3>1. own[t].state = "halfOpen"  BY <2>2 DEF TypeOK
    <3>2. PICK d \in Calls : TenantOf[d] = t /\ pc[d] \in {"ownAdmitted", "refused", "running"}
      BY <3>1 DEF ProbesOut, OwnProbeOut
    <3>3. QED  BY <2>2, <3>2 DEF TypeOK
  <2>3. QED  BY <2>1, <2>2
<1>6. ServerProbeOut'
  <2> SUFFICES ASSUME server.state = "halfOpen"
               PROVE  \E d \in Calls : pc'[d] \in Outcomes \union {"running", "locked", "seenOpen"}
    BY DEF ServerProbeOut
  <2>1. PICK d \in Calls : pc[d] \in Outcomes \union {"running", "locked", "seenOpen"}
    BY DEF ProbesOut, ServerProbeOut
  <2>2. CASE d = c  BY <2>1, <2>2 DEF TypeOK, Outcomes
  <2>3. CASE d # c  BY <2>1, <2>3 DEF TypeOK
  <2>4. QED  BY <2>2, <2>3
<1>7. OneTenantNeverStopsOthers'  BY DEF OneTenantNeverStopsOthers
<1>8. QED  BY <1>2, <1>3, <1>4, <1>5, <1>6, <1>7 DEF ProbesOut

(* Every step keeps the invariant, one case per action.                    *)
LEMMA Stepwise == IInv /\ [Next]_vars => IInv'
<1> SUFFICES ASSUME IInv, [Next]_vars PROVE IInv'  OBVIOUS
<1> USE DEF IInv
<1>a. Sound(server, 1) /\ \A t \in Tenants : Sound(own[t], Threshold)
  BY DEF BreakersSound
<1>b. 1 \in Nat \ {0}  OBVIOUS
<1>c. \A c \in Calls : TenantOf[c] \in Tenants  BY TenantAssumption
<1>1. CASE UNCHANGED vars
  BY <1>1 DEF vars, TypeOK, BreakersSound, Mutex, FaultsKnown, ProbesOut, OwnProbeOut,
      ServerProbeOut, ClosedReadStaysClosed, OneTenantNeverStopsOthers
<1>2. ASSUME NEW c \in Calls, AllowOwn(c) PROVE IInv'
  <2>1. Sound(AfterAllow(own[TenantOf[c]]), Threshold)
    BY <1>a, <1>c, AllowSound, ThresholdAssumption
  <2>2. pc[c] = "idle" /\ pc' = [pc EXCEPT ![c] = "ownAdmitted"]
        /\ own' = [own EXCEPT ![TenantOf[c]] = AfterAllow(own[TenantOf[c]])]
        /\ UNCHANGED serverVars
    BY <1>2 DEF AllowOwn, Goto
  <2>3. QED  BY <2>1, <2>2, OwnStep
<1>3. ASSUME NEW c \in Calls, AllowServer(c) PROVE IInv'
  <2> DEFINE at == IF Allows(server) THEN "running" ELSE "refused"
  <2>1. pc[c] = "ownAdmitted" /\ pc' = [pc EXCEPT ![c] = at] /\ server' = AfterAllow(server)
        /\ UNCHANGED <<own, streak, tenants, gap, smu, faulted>>
    BY <1>3 DEF AllowServer
  <2>2. Sound(server', 1)  BY <1>a, <1>b, <2>1, AllowSound
  <2>3. /\ server.state = "closed" <=> server'.state = "closed"
        /\ server'.state = "halfOpen" => server.state = "halfOpen" \/ at = "running"
    BY <2>1 DEF AfterAllow, Allows, BreakersSound, Sound, Breakers, BreakerStates
  <2>4. at \in {"running", "refused"}  OBVIOUS
  <2> HIDE DEF at
  <2>5. TypeOK'  BY <2>1, <2>2, <2>4 DEF TypeOK, PCs, Sound
  <2>6. BreakersSound'  BY <2>1, <2>2 DEF BreakersSound
  <2>7. Mutex' /\ FaultsKnown'  BY <2>1, <2>4 DEF Mutex, FaultsKnown, TypeOK
  <2>8. ClosedReadStaysClosed'  BY <2>1, <2>3, <2>4 DEF ClosedReadStaysClosed, TypeOK
  <2>9. OneTenantNeverStopsOthers'  BY <2>1, <2>3 DEF OneTenantNeverStopsOthers
  <2>10. OwnProbeOut'
    BY <2>1, <2>4 DEF ProbesOut, OwnProbeOut, TypeOK
  <2>11. ServerProbeOut'
    BY <2>1, <2>3, <2>4 DEF ProbesOut, ServerProbeOut, TypeOK, Outcomes
  <2>12. QED  BY <2>5, <2>6, <2>7, <2>8, <2>9, <2>10, <2>11 DEF ProbesOut
<1>4. ASSUME NEW c \in Calls, AbortOwn(c) PROVE IInv'
  <2>1. Sound(Abort(own[TenantOf[c]]), Threshold) /\ Abort(own[TenantOf[c]]).state # "halfOpen"
    BY <1>a, <1>c, ReportSound, ThresholdAssumption
  <2>2. pc[c] = "refused" /\ pc' = [pc EXCEPT ![c] = "idle"]
        /\ own' = [own EXCEPT ![TenantOf[c]] = Abort(own[TenantOf[c]])]
        /\ UNCHANGED serverVars
    BY <1>4 DEF AbortOwn, Goto
  <2>3. QED  BY <2>1, <2>2, OwnStep
<1>5. ASSUME NEW c \in Calls, NEW o \in Outcomes, ReportOwn(c, o) PROVE IInv'
  <2> DEFINE b == CASE o = "success"   -> RecordSuccess(own[TenantOf[c]])
                    [] o = "reachable" -> RecordReachable(own[TenantOf[c]])
                    [] o = "failure"   -> RecordFailure(own[TenantOf[c]], Threshold)
                    [] o = "abort"     -> Abort(own[TenantOf[c]])
  <2>1. pc[c] = "running" /\ pc' = [pc EXCEPT ![c] = o]
        /\ own' = [own EXCEPT ![TenantOf[c]] = b] /\ UNCHANGED serverVars
    BY <1>5 DEF ReportOwn, Goto
  <2>2. Sound(b, Threshold) /\ b.state # "halfOpen"
    <3> DEFINE w == own[TenantOf[c]]
    <3>1. Sound(w, Threshold)  BY <1>a, <1>c
    <3> HIDE DEF w
    <3>2. /\ Sound(RecordSuccess(w), Threshold)   /\ RecordSuccess(w).state # "halfOpen"
          /\ Sound(RecordReachable(w), Threshold) /\ RecordReachable(w).state # "halfOpen"
          /\ Sound(Abort(w), Threshold)           /\ Abort(w).state # "halfOpen"
          /\ Sound(RecordFailure(w, Threshold), Threshold)
          /\ RecordFailure(w, Threshold).state # "halfOpen"
      BY <3>1, ReportSound, FailureSound, ThresholdAssumption
    <3>3. CASE o = "success"    BY <3>2, <3>3 DEF w
    <3>4. CASE o = "reachable"  BY <3>2, <3>4 DEF w
    <3>5. CASE o = "failure"    BY <3>2, <3>5 DEF w
    <3>6. CASE o = "abort"      BY <3>2, <3>6 DEF w
    <3>7. QED  BY <3>3, <3>4, <3>5, <3>6 DEF Outcomes
  <2> HIDE DEF b
  <2>3. QED  BY <2>1, <2>2, OwnStep
<1>6. ASSUME NEW c \in Calls, recordSuccess(c) PROVE IInv'
  <2>1. pc[c] = "success" /\ pc' = [pc EXCEPT ![c] = "idle"] /\ own' = own
        /\ server' = RecordSuccess(server) /\ smu = NoCall /\ smu' = smu
        /\ streak' = 0 /\ tenants' = {} /\ gap' = FALSE /\ faulted' = {}
    BY <1>6 DEF recordSuccess, Goto, resetLocked
  <2>2. Sound(server', 1) /\ server'.state = "closed"
    BY <2>1, NewSound DEF RecordSuccess, NewCircuitBreaker
  <2>3. \A d \in Calls : pc[d] \notin {"locked", "seenOpen"}
    BY <2>1, NoCallAssumption DEF Mutex
  <2>4. ProbesOut' /\ BreakersSound' /\ pc' \in [Calls -> PCs] /\ server' \in Breakers(1)
    BY <2>1, <2>2, ServerReported DEF Outcomes
  <2>5. TypeOK'
    <3>1. 0 \in 0..Threshold  BY ThresholdAssumption
    <3>2. gap' \in BOOLEAN  BY <2>1
    <3>3. QED  BY <2>1, <2>4, <3>1, <3>2 DEF TypeOK
  <2>6. Mutex' /\ FaultsKnown' /\ ClosedReadStaysClosed' /\ OneTenantNeverStopsOthers'
    BY <2>1, <2>2, <2>3
    DEF Mutex, FaultsKnown, ClosedReadStaysClosed, OneTenantNeverStopsOthers, TypeOK
  <2>7. QED  BY <2>4, <2>5, <2>6
<1>7. ASSUME NEW c \in Calls, recordReachable(c) \/ abort(c) PROVE IInv'
  <2>1. pc[c] \in Outcomes /\ pc' = [pc EXCEPT ![c] = "idle"]
        /\ UNCHANGED <<own, streak, tenants, gap, smu, faulted>>
        /\ server' \in {RecordReachable(server), Abort(server)}
    BY <1>7 DEF recordReachable, abort, Goto, Outcomes
  <2>2. Sound(server', 1) /\ server'.state # "halfOpen"
    BY <1>a, <1>b, <2>1, ReportSound
  <2>3. /\ server.state = "closed" => server'.state = "closed"
        /\ server'.state # "closed" => server.state # "closed"
    BY <2>1 DEF RecordReachable, Abort
  <2>4. ProbesOut' /\ BreakersSound' /\ pc' \in [Calls -> PCs] /\ server' \in Breakers(1)
    BY <2>1, <2>2, ServerReported
  <2>5. TypeOK'  BY <2>1, <2>4 DEF TypeOK
  <2>6. Mutex' /\ FaultsKnown'  BY <2>1 DEF Mutex, FaultsKnown, TypeOK
  <2>7. ClosedReadStaysClosed' /\ OneTenantNeverStopsOthers'
    BY <2>1, <2>3 DEF ClosedReadStaysClosed, OneTenantNeverStopsOthers, TypeOK
  <2>8. QED  BY <2>4, <2>5, <2>6, <2>7
<1>8. ASSUME NEW c \in Calls, recordFailureLock(c) PROVE IInv'
  <2> DEFINE at == IF IsOpen(server) THEN "seenOpen" ELSE "locked"
             more == faulted \union {TenantOf[c]}
  <2>1. pc[c] = "failure" /\ pc' = [pc EXCEPT ![c] = at] /\ smu = NoCall /\ smu' = c
        /\ faulted' = more /\ UNCHANGED <<own, server, streak, tenants, gap>>
    BY <1>8 DEF recordFailureLock, Goto
  <2>2. /\ at \in {"seenOpen", "locked"}
        /\ at = "seenOpen" => server.state # "closed"
        /\ at = "locked" => server.state = "closed"
    BY DEF IsOpen
  <2>3. Cardinality(more) >= Cardinality(faulted) /\ Cardinality(more) \in Nat
        /\ Cardinality(faulted) \in Nat /\ more \subseteq Tenants
        /\ faulted \subseteq more /\ TenantOf[c] \in more
    BY <1>c, MoreFaulted DEF TypeOK
  <2>4. \A d \in Calls : pc[d] \notin {"locked", "seenOpen"}
    BY <2>1, NoCallAssumption DEF Mutex
  <2> HIDE DEF at, more
  <2>5. TypeOK'  BY <2>1, <2>2, <2>3 DEF TypeOK, PCs
  <2>6. Mutex'  BY <2>1, <2>4 DEF Mutex, TypeOK
  <2>7. OneTenantNeverStopsOthers'
    BY <2>1, <2>3, MinTenantsAssumption DEF OneTenantNeverStopsOthers
  <2>8. FaultsKnown'
    BY <2>1, <2>2, <2>3, <2>4, <2>7 DEF FaultsKnown, TypeOK, OneTenantNeverStopsOthers
  <2>9. ClosedReadStaysClosed'  BY <2>1, <2>2, <2>4 DEF ClosedReadStaysClosed, TypeOK
  <2>10. BreakersSound'  BY <2>1 DEF BreakersSound
  <2>11. OwnProbeOut'  BY <2>1 DEF ProbesOut, OwnProbeOut, TypeOK
  <2>12. ServerProbeOut'  BY <2>1, <2>2 DEF ServerProbeOut, TypeOK
  <2>13. QED  BY <2>5, <2>6, <2>7, <2>8, <2>9, <2>10, <2>11, <2>12 DEF ProbesOut
<1>9. ASSUME NEW c \in Calls, recordFailureOpen(c) PROVE IInv'
  <2>1. pc[c] = "seenOpen" /\ pc' = [pc EXCEPT ![c] = "idle"] /\ smu' = NoCall
        /\ server' = RecordFailure(server, 1)
        /\ UNCHANGED <<own, streak, tenants, gap, faulted>>
    BY <1>9 DEF recordFailureOpen, Goto
  <2>2. Sound(server', 1) /\ server'.state # "halfOpen"
    BY <1>a, <1>b, <2>1, FailureSound
  <2>3. \A d \in Calls \ {c} : pc[d] \notin {"locked", "seenOpen"}
    BY <2>1 DEF Mutex
  <2>4. ProbesOut' /\ BreakersSound' /\ pc' \in [Calls -> PCs] /\ server' \in Breakers(1)
    BY <2>1, <2>2, ServerReported
  <2>5. TypeOK'  BY <2>1, <2>4 DEF TypeOK
  <2>6. Mutex' /\ FaultsKnown' /\ ClosedReadStaysClosed'
    BY <2>1, <2>3 DEF Mutex, FaultsKnown, ClosedReadStaysClosed, TypeOK
  <2>7. OneTenantNeverStopsOthers'
    BY <2>1 DEF FaultsKnown, OneTenantNeverStopsOthers
  <2>8. QED  BY <2>4, <2>5, <2>6, <2>7
<1>10. ASSUME NEW c \in Calls, recordFailureClosed(c) PROVE IInv'
  <2> DEFINE kept == IF streak > 0 /\ gap THEN 0 ELSE streak
             from == IF streak > 0 /\ gap THEN {} ELSE tenants
             n    == IF kept = Threshold THEN kept ELSE kept + 1
             ts   == from \union {TenantOf[c]}
  <2>1. /\ pc[c] = "locked" /\ pc' = [pc EXCEPT ![c] = "idle"] /\ smu' = NoCall /\ gap' = FALSE
        /\ IF SpansServer(n, ts)
             THEN server' = RecordFailure(server, 1) /\ streak' = 0 /\ tenants' = {}
             ELSE server' = server /\ streak' = n /\ tenants' = ts
        /\ UNCHANGED <<own, faulted>>
    BY <1>10 DEF recordFailureClosed, Goto
  <2>2. n \in 0..Threshold /\ ts \subseteq faulted
    BY <2>1, ThresholdAssumption DEF TypeOK, FaultsKnown
  <2>3. SpansServer(n, ts) => Cardinality(faulted) >= MinTenants
    BY <2>2, Wider, MinTenantsAssumption DEF SpansServer, TypeOK
  <2> HIDE DEF kept, from, n, ts
  <2>4. server.state = "closed"  BY <2>1 DEF ClosedReadStaysClosed
  <2>5. Sound(server', 1) /\ server'.state # "halfOpen"
    BY <1>a, <1>b, <2>1, <2>4, FailureSound
  <2>6. \A d \in Calls \ {c} : pc[d] \notin {"locked", "seenOpen"}
    BY <2>1 DEF Mutex
  <2>7. ProbesOut' /\ BreakersSound' /\ pc' \in [Calls -> PCs] /\ server' \in Breakers(1)
    BY <2>1, <2>5, ServerReported
  <2>8. TypeOK'
    <3>1. streak' \in 0..Threshold  BY <2>1, <2>2, ThresholdAssumption
    <3>2. tenants' \subseteq Tenants  BY <2>1, <2>2 DEF TypeOK
    <3>3. gap' \in BOOLEAN  BY <2>1
    <3>4. QED  BY <2>1, <2>7, <3>1, <3>2, <3>3 DEF TypeOK
  <2>9. Mutex' /\ ClosedReadStaysClosed'
    BY <2>1, <2>6 DEF Mutex, ClosedReadStaysClosed, TypeOK
  <2>10. FaultsKnown'
    BY <2>1, <2>2, <2>6 DEF FaultsKnown, TypeOK
  <2>11. OneTenantNeverStopsOthers'
    BY <2>1, <2>3, <2>4 DEF OneTenantNeverStopsOthers
  <2>12. QED  BY <2>7, <2>8, <2>9, <2>10, <2>11
<1>11. ASSUME NEW t \in Tenants, OwnCooldownEnds(t) PROVE IInv'
  <2>1. own' = [own EXCEPT ![t] = CooldownOver(own[t])] /\ UNCHANGED <<serverVars, pc>>
    BY <1>11 DEF OwnCooldownEnds
  <2>2. Sound(CooldownOver(own[t]), Threshold) /\ CooldownOver(own[t]).state = own[t].state
    BY <1>a, AllowSound, ThresholdAssumption DEF CooldownOver, Sound, Breakers
  <2>3. BreakersSound'  BY <2>1, <2>2 DEF BreakersSound, serverVars, TypeOK
  <2>4. TypeOK'  BY <2>1, <2>2 DEF TypeOK, serverVars, Sound
  <2>5. OwnProbeOut'  BY <2>1, <2>2 DEF ProbesOut, OwnProbeOut, TypeOK
  <2>6. QED
    BY <2>1, <2>3, <2>4, <2>5
    DEF serverVars, Mutex, FaultsKnown, ProbesOut, ServerProbeOut, ClosedReadStaysClosed,
        OneTenantNeverStopsOthers
<1>12. CASE ServerCooldownEnds
  <2>1. server' = CooldownOver(server) /\ UNCHANGED <<own, streak, tenants, gap, smu, pc, faulted>>
    BY <1>12 DEF ServerCooldownEnds
  <2>2. Sound(server', 1) /\ server'.state = server.state
    BY <1>a, <1>b, <2>1, AllowSound DEF CooldownOver, Sound, Breakers
  <2>3. BreakersSound' /\ TypeOK'  BY <2>1, <2>2 DEF BreakersSound, TypeOK, Sound
  <2>4. QED
    BY <2>1, <2>2, <2>3
    DEF Mutex, FaultsKnown, ProbesOut, OwnProbeOut, ServerProbeOut, ClosedReadStaysClosed,
        OneTenantNeverStopsOthers
<1>13. CASE WindowPasses
  BY <1>13
  DEF WindowPasses, TypeOK, BreakersSound, Mutex, FaultsKnown, ProbesOut, OwnProbeOut,
      ServerProbeOut, ClosedReadStaysClosed, OneTenantNeverStopsOthers
<1>14. QED
  BY <1>1, <1>2, <1>3, <1>4, <1>5, <1>6, <1>7, <1>8, <1>9, <1>10, <1>11, <1>12, <1>13
  DEF Next, Report

(* Neither a tenant's breaker nor the server's is ever half-open with      *)
(* nobody left to settle it: tenantBreaker.Allow's re-arm of own and every *)
(* report of client/breaker.go.                                            *)
THEOREM NeverWedged == Spec => []ProbesOut
<1>1. IInv => ProbesOut  BY DEF IInv
<1>2. QED  BY <1>1, Initially, Stepwise, PTL DEF Spec

(* The server breaker blocks the pool only while MinTenants tenants have   *)
(* failed with no success since, for every schedule of the reports:        *)
(* serverBreaker.recordFailure and recordSuccess.                          *)
THEOREM TenantsIsolated == Spec => []OneTenantNeverStopsOthers
<1>1. IInv => OneTenantNeverStopsOthers  BY DEF IInv
<1>2. QED  BY <1>1, Initially, Stepwise, PTL DEF Spec

(* Type correctness, for every instance.                                   *)
THEOREM TypeCorrect == Spec => []TypeOK
<1>1. IInv => TypeOK  BY DEF IInv
<1>2. QED  BY <1>1, Initially, Stepwise, PTL DEF Spec
============================================================================
