-------------------------- MODULE SharedPartsProofs --------------------------
(***************************************************************************)
(* What the services keep and what the parts they share promise, for every *)
(* value of their constants: TimerGroup (extended), and the rate limiters, *)
(* the periodic runner, the poster cache, the state store, the BambuLab,   *)
(* Grafana and SABnzbd bridges and the loops of the widget manager         *)
(* (instantiated).  Each has its own variables but for the clock, the      *)
(* entries kept and the record of what went wrong.                         *)
(***************************************************************************)
EXTENDS TimerGroup, FiniteSetTheorems, SequenceTheorems, TLAPS

CONSTANTS
  Requests, Keys, MaxSize, Sample, Burst, Rate, MaxAge, MaxBuckets,  \* LimiterMap
  Stops,                                                             \* PeriodicRunner
  Callers, URLs, CacheSize, Slots, NegativeTTL, MaxEntries,          \* PosterCache
  Groups, SubKeys, Values, TTLs, Inclusive,                          \* StateStore
  MaxMoves,                                                          \* BambuTracker
  Handlers, Instances, MaxWebhooks,                                  \* GrafanaBridge
  StartPolls, MorePolls, MaxHold, MaxEvents,                         \* SabTracker
  Readable, PollIntervals, StaleAfter, Floor, MinChange, Latency,    \* ScalarWidget
  MaxScalarFaults,
  SeriesNames, SeriesValues, MissGrace, MaxSeries, Heartbeat,        \* SeriesWidgets
  MaxFaults, LastTime

VARIABLES
  requests, entries, buckets,         \* LimiterMap
  periodic, loop, once, stops, early, \* PeriodicRunner
  callers, made, order,               \* PosterCache
  last,                               \* StateStore, with entries
  printer, tracker, gen, ending, shown,                    \* BambuTracker
  firing, active, handlers, checker, polls, alertCard,     \* GrafanaBridge
  sab, session, up, activity,                              \* SabTracker
  setting, ticker, scalar, ticked,                         \* ScalarWidget
  cleanup, series, widgets, absences,                      \* SeriesWidgets
  now, past

Limiters == INSTANCE LimiterMap
Periodic == INSTANCE PeriodicRunner
Posters == INSTANCE PosterCache
Store == INSTANCE StateStore
Bambulab == INSTANCE BambuTracker WITH loop <- tracker, timers <- ending, card <- shown
Alerts == INSTANCE GrafanaBridge WITH card <- alertCard
Sabnzbd == INSTANCE SabTracker WITH tracker <- session, card <- activity
Scalar == INSTANCE ScalarWidget WITH
  Values <- Readable, Intervals <- PollIntervals, MaxFaults <- MaxScalarFaults,
  spec <- setting, loop <- ticker, widget <- scalar, past <- ticked
Multi == INSTANCE SeriesWidgets WITH
  Series <- SeriesNames, Values <- SeriesValues, past <- absences

(* --------------------------- the timer group ---------------------------- *)

(* What goes with the counter: a Reset under way is one goroutine's, its   *)
(* prior timer no longer waits once it is stopped, timers not created yet  *)
(* are unused, and the group stays closed.                                 *)
Bookkeeping ==
  /\ mu # "free" => ~stopped /\ created < MaxTimers
  /\ mu = "stopped" => \A t \in Timers : callback[t] # "armed"
  /\ \A t \in Timers : callback[t] = "unused" <=> t > created
  /\ stopped <=> shutdown # "open"
  /\ stopped => timer = 0

IInv == TypeOK /\ Bookkeeping /\ WgCounts /\ ArmedIsKnown /\ QuietAfterShutdown

(* The callbacks that count are finitely many.                             *)
LEMMA LiveFinite == ASSUME TypeOK PROVE IsFiniteSet(Live) /\ Cardinality(Live) \in Nat
<1>1. IsFiniteSet(Timers)  BY FS_Interval, MaxTimersAssumption DEF Timers
<1>2. Live \in SUBSET Timers  BY DEF Live
<1>3. QED  BY <1>1, <1>2, FS_Subset, FS_CardinalityType

(* One live callback more, one less.                                       *)
LEMMA OneMore ==
  ASSUME TypeOK, NEW t \in Timers, t \notin Live, Live' = Live \union {t}
  PROVE  Cardinality(Live') = Cardinality(Live) + 1
BY LiveFinite, FS_AddElement

LEMMA OneLess ==
  ASSUME TypeOK, NEW t \in Timers, t \in Live, Live' = Live \ {t}
  PROVE  Cardinality(Live') = Cardinality(Live) - 1
BY LiveFinite, FS_RemoveElement

(* timer.Stop() && wg.Done() keeps the count and leaves nothing armed.     *)
LEMMA CancelledKeeps ==
  ASSUME TypeOK, ArmedIsKnown, Cancelled
  PROVE  /\ callback' \in [Timers -> {"unused", "armed", "running", "returned", "cancelled"}]
         /\ wg' \in Int
         /\ wg' - Cardinality(Live') = wg - Cardinality(Live)
         /\ Cardinality(Live') \in Nat
         /\ \A t \in Timers : callback'[t] # "armed"
         /\ \A t \in Timers : callback'[t] = "unused" <=> callback[t] = "unused"
         /\ Live' \subseteq Live
<1>1. CASE Stoppable
  <2>1. timer \in Timers /\ callback[timer] = "armed"
    BY <1>1, MaxTimersAssumption DEF Stoppable, TypeOK, Timers
  <2>2. callback' = [callback EXCEPT ![timer] = "cancelled"] /\ wg' = wg - 1
    BY <1>1 DEF Cancelled
  <2>3. Live' = Live \ {timer} /\ timer \in Live
    BY <2>1, <2>2 DEF Live, TypeOK
  <2>4. Cardinality(Live') = Cardinality(Live) - 1
    BY <2>1, <2>3, OneLess
  <2>5. Cardinality(Live') \in Nat
    <3>1. IsFiniteSet(Live')  BY <2>3, LiveFinite, FS_Subset
    <3>2. QED  BY <3>1, FS_CardinalityType
  <2>6. \A t \in Timers : callback'[t] # "armed"
    BY <2>1, <2>2 DEF TypeOK, ArmedIsKnown
  <2>7. \A t \in Timers : callback'[t] = "unused" <=> callback[t] = "unused"
    BY <2>1, <2>2 DEF TypeOK
  <2>8. callback' \in [Timers -> {"unused", "armed", "running", "returned", "cancelled"}]
    BY <2>2 DEF TypeOK
  <2>9. QED  BY <2>2, <2>3, <2>4, <2>5, <2>6, <2>7, <2>8, LiveFinite DEF TypeOK
<1>2. CASE ~Stoppable
  <2>1. callback' = callback /\ wg' = wg  BY <1>2 DEF Cancelled
  <2>2. \A t \in Timers : callback[t] # "armed"
    BY <1>2 DEF Stoppable, ArmedIsKnown, Timers
  <2>3. Live' = Live  BY <2>1 DEF Live
  <2>4. QED  BY <2>1, <2>2, <2>3, LiveFinite DEF TypeOK
<1>3. QED  BY <1>1, <1>2

(* The initial state satisfies the invariant.                              *)
LEMMA Initially == Init => IInv
<1> SUFFICES ASSUME Init PROVE IInv  OBVIOUS
<1>1. TypeOK
  <2>1. 0 \in 0..0 /\ 0 \in 0..MaxTimers /\ 0 \in Int  BY MaxTimersAssumption
  <2>2. stopped \in BOOLEAN  BY DEF Init
  <2>3. QED  BY <2>1, <2>2 DEF Init, TypeOK
<1>2. Live = {}  BY DEF Init, Live
<1>3. WgCounts  BY <1>2, FS_EmptySet DEF Init, WgCounts
<1>4. Bookkeeping /\ ArmedIsKnown /\ QuietAfterShutdown
  BY <1>2 DEF Init, Bookkeeping, ArmedIsKnown, QuietAfterShutdown, Timers
<1>5. QED  BY <1>1, <1>3, <1>4 DEF IInv

(* Every step keeps it, one case per action.                               *)
LEMMA Stepwise == IInv /\ [Next]_vars => IInv'
<1> SUFFICES ASSUME IInv, [Next]_vars PROVE IInv'  OBVIOUS
<1> USE DEF IInv
<1>0. IsFiniteSet(Live) /\ Cardinality(Live) \in Nat  BY LiveFinite
<1>1. CASE UNCHANGED vars
  <2>1. Live' = Live  BY <1>1 DEF vars, Live
  <2>2. QED
    BY <1>1, <2>1 DEF vars, TypeOK, Bookkeeping, WgCounts, ArmedIsKnown, QuietAfterShutdown
<1>2. ASSUME NEW by \in Timers \union {0}, ResetBegin(by) PROVE IInv'
  <2> USE <1>2 DEF ResetBegin
  <2>1. Live' = Live  BY DEF Live
  <2>2. by \in 0..created
    BY MaxTimersAssumption DEF Running, Timers, TypeOK, Bookkeeping
  <2>3. TypeOK'  BY <2>2 DEF TypeOK
  <2>4. WgCounts'  BY <1>0, <2>1 DEF WgCounts, TypeOK
  <2>5. Bookkeeping'  BY DEF Bookkeeping
  <2>6. ArmedIsKnown' /\ QuietAfterShutdown'
    BY DEF ArmedIsKnown, QuietAfterShutdown, Bookkeeping
  <2>7. QED  BY <2>3, <2>4, <2>5, <2>6
<1>3. CASE ResetStop
  <2>1. mu = "added" /\ mu' = "stopped" /\ Cancelled
        /\ UNCHANGED <<timer, created, stopped, caller, shutdown>>
    BY <1>3 DEF ResetStop
  <2>2. TypeOK'  BY <2>1, CancelledKeeps DEF TypeOK
  <2>3. WgCounts'  BY <1>0, <2>1, CancelledKeeps DEF WgCounts, TypeOK
  <2>4. Bookkeeping'  BY <2>1, CancelledKeeps DEF Bookkeeping
  <2>5. ArmedIsKnown' /\ QuietAfterShutdown'
    BY <2>1, CancelledKeeps DEF ArmedIsKnown, QuietAfterShutdown
  <2>6. QED  BY <2>2, <2>3, <2>4, <2>5
<1>4. CASE ResetArm
  <2> DEFINE t == created + 1
  <2>1. /\ mu = "stopped" /\ mu' = "free" /\ caller' = 0 /\ created' = t /\ timer' = t
        /\ callback' = [callback EXCEPT ![t] = "armed"]
        /\ UNCHANGED <<wg, stopped, shutdown>>
    BY <1>4 DEF ResetArm
  <2>2. t \in Timers /\ t \in Nat /\ callback[t] = "unused" /\ ~stopped
        /\ \A u \in Timers : callback[u] # "armed"
    BY <2>1, MaxTimersAssumption DEF Bookkeeping, TypeOK, Timers
  <2>3. Live' = Live \union {t} /\ t \notin Live
    BY <2>1, <2>2 DEF Live, TypeOK
  <2>4. Cardinality(Live') = Cardinality(Live) + 1
    BY <2>2, <2>3, OneMore
  <2>5. TypeOK'
    BY <2>1, <2>2, MaxTimersAssumption DEF TypeOK, Timers
  <2>6. WgCounts'  BY <1>0, <2>1, <2>4 DEF WgCounts, TypeOK
  <2>7. Bookkeeping'
    BY <2>1, <2>2, MaxTimersAssumption DEF Bookkeeping, TypeOK, Timers
  <2>8. ArmedIsKnown'  BY <2>1, <2>2 DEF ArmedIsKnown, TypeOK
  <2>9. QuietAfterShutdown'  BY <2>1, <2>2 DEF QuietAfterShutdown, Bookkeeping
  <2>10. QED  BY <2>5, <2>6, <2>7, <2>8, <2>9
<1>5. CASE Stop \/ Close
  <2>1. /\ mu = "free" /\ Cancelled /\ timer' = 0 /\ UNCHANGED <<created, mu, caller>>
        /\ \/ UNCHANGED <<stopped, shutdown>>
           \/ stopped' = TRUE /\ shutdown' = "closed"
    BY <1>5 DEF Stop, Close
  <2>2. TypeOK'
    <3>1. stopped' \in BOOLEAN  BY <2>1 DEF TypeOK
    <3>2. 0 \in 0..created  BY MaxTimersAssumption DEF TypeOK
    <3>3. QED  BY <2>1, <3>1, <3>2, CancelledKeeps DEF TypeOK
  <2>3. WgCounts'  BY <1>0, <2>1, CancelledKeeps DEF WgCounts, TypeOK
  <2>4. Bookkeeping'  BY <2>1, CancelledKeeps DEF Bookkeeping
  <2>5. ArmedIsKnown'  BY <2>1, CancelledKeeps DEF ArmedIsKnown
  <2>6. QuietAfterShutdown'
    BY <2>1, CancelledKeeps DEF QuietAfterShutdown
  <2>7. QED  BY <2>2, <2>3, <2>4, <2>5, <2>6
<1>6. CASE Wait
  <2> USE <1>6 DEF Wait
  <2>1. Live' = Live  BY DEF Live
  <2>2. mu = "free" /\ Cardinality(Live) = 0
    BY <1>0 DEF Bookkeeping, WgCounts
  <2>3. Live = {}  BY <1>0, <2>2, FS_EmptySet
  <2>4. TypeOK' /\ WgCounts' /\ Bookkeeping' /\ ArmedIsKnown'
    BY <2>1 DEF TypeOK, WgCounts, Bookkeeping, ArmedIsKnown
  <2>5. QuietAfterShutdown'  BY <2>1, <2>2, <2>3 DEF QuietAfterShutdown
  <2>6. QED  BY <2>4, <2>5
<1>7. ASSUME NEW t \in Timers, Fire(t) PROVE IInv'
  <2> USE <1>7 DEF Fire
  <2>1. Live' = Live  BY DEF Live, TypeOK
  <2>2. TypeOK'  BY DEF TypeOK
  <2>3. WgCounts' /\ QuietAfterShutdown'  BY <2>1 DEF WgCounts, QuietAfterShutdown
  <2>4. Bookkeeping' /\ ArmedIsKnown'  BY DEF Bookkeeping, ArmedIsKnown, TypeOK
  <2>5. QED  BY <2>2, <2>3, <2>4
<1>8. ASSUME NEW t \in Timers, Return(t) PROVE IInv'
  <2> USE <1>8 DEF Return
  <2>1. Live' = Live \ {t} /\ t \in Live  BY DEF Live, TypeOK
  <2>2. Cardinality(Live') = Cardinality(Live) - 1  BY <2>1, OneLess
  <2>3. TypeOK'  BY DEF TypeOK
  <2>4. WgCounts'  BY <1>0, <2>2 DEF WgCounts, TypeOK
  <2>5. Bookkeeping' /\ ArmedIsKnown'  BY DEF Bookkeeping, ArmedIsKnown, TypeOK
  <2>6. QuietAfterShutdown'  BY <2>1 DEF QuietAfterShutdown
  <2>7. QED  BY <2>3, <2>4, <2>5, <2>6
<1>9. QED
  BY <1>1, <1>2, <1>3, <1>4, <1>5, <1>6, <1>7, <1>8 DEF Next, Finished

(* The counter balances for every schedule of Resets, Stops, firings and   *)
(* returns, and so does what a Wait that returns can rely on:              *)
(* timergroup.go Reset, clearTimerLocked.                                  *)
THEOREM CounterBalanced == Spec => [](WgCounts /\ ZeroMeansQuiet)
<1>1. ASSUME IInv PROVE WgCounts /\ ZeroMeansQuiet
  <2>1. WgCounts  BY <1>1 DEF IInv
  <2>2. IsFiniteSet(Live) /\ Cardinality(Live) \in Nat  BY <1>1, LiveFinite DEF IInv
  <2>3. ASSUME wg = 0 PROVE Live = {} /\ mu = "free"
    <3>1. mu = "free" /\ Cardinality(Live) = 0  BY <2>1, <2>2, <2>3 DEF WgCounts
    <3>2. QED  BY <2>2, <3>1, FS_EmptySet
  <2>4. QED  BY <2>1, <2>3 DEF ZeroMeansQuiet
<1>2. QED  BY <1>1, Initially, Stepwise, PTL DEF Spec

(* After Close and Wait no callback is scheduled or running, ever:         *)
(* timergroup.go Close, "cannot win a race against Stop".                  *)
THEOREM QuietForGood == Spec => []QuietAfterShutdown
<1>1. IInv => QuietAfterShutdown  BY DEF IInv
<1>2. QED  BY <1>1, Initially, Stepwise, PTL DEF Spec

(* -------------------------- the rate limiters --------------------------- *)

\* A bucket that goes stale is full again.
RatesAssumed ==
  /\ Burst \in Nat /\ Rate \in Nat /\ MaxAge \in Nat /\ MaxSize \in Nat \ {0}
  /\ Burst =< Rate * MaxAge

Held(t) == requests[t].at = "allow"

TypedLimits ==
  /\ now \in Nat
  /\ buckets \in Seq([tokens : Int, counted : Nat])
  /\ entries \in [Keys -> [bucket : Nat, access : Nat]]
  /\ requests \in [Requests -> [at : {"idle", "create", "allow"}, key : Keys \union {0}, bucket : Nat]]
  /\ past \in [admitted : [Keys -> Nat], evicted : SUBSET Keys]
  /\ \A b \in 1..Len(buckets) : buckets[b].tokens \in 0..Burst /\ buckets[b].counted =< now
  /\ \A k \in Keys : entries[k].bucket =< Len(buckets) /\ entries[k].access =< now
  /\ \A t \in Requests :
       /\ requests[t].at # "idle" => requests[t].key \in Keys
       /\ Held(t) => requests[t].bucket \in 1..Len(buckets)

\* A bucket is one key's.
OwnBuckets ==
  /\ \A j, k \in Limiters!Present : entries[j].bucket = entries[k].bucket => j = k
  /\ \A t \in Requests : \A k \in Limiters!Present :
       Held(t) /\ requests[t].bucket = entries[k].bucket => requests[t].key = k

\* Who holds a bucket has just noted it in the map, and a bucket was spent
\* from no later than it was last looked up.
HeldAreFresh ==
  /\ \A t \in Requests : Held(t) =>
       /\ requests[t].key \notin past.evicted => entries[requests[t].key].bucket = requests[t].bucket
       /\ \A k \in Limiters!Present : entries[k].bucket = requests[t].bucket => entries[k].access = now
  /\ \A k \in Limiters!Present : buckets[entries[k].bucket].counted =< entries[k].access

Roomy == IsFiniteSet(Limiters!Present) /\ Cardinality(Limiters!Present) =< MaxSize

\* What a key was let through and what its bucket has left stay within the rate.
WithinRate ==
  \A k \in Keys \ past.evicted :
    IF k \in Limiters!Present
    THEN past.admitted[k] + Limiters!Tokens(buckets[entries[k].bucket]) =< Burst + Rate * now
    ELSE past.admitted[k] =< Rate * now

LInv == TypedLimits /\ OwnBuckets /\ HeldAreFresh /\ Roomy /\ WithinRate

LEMMA TokensAre ==
  ASSUME RatesAssumed, NEW b \in [tokens : Int, counted : Nat], b.tokens \in 0..Burst, now \in Nat, b.counted =< now
  PROVE  /\ Limiters!Tokens(b) \in 0..Burst
         /\ Limiters!Tokens(b) = IF b.tokens + Rate * (now - b.counted) =< Burst
                                 THEN b.tokens + Rate * (now - b.counted) ELSE Burst
<1> DEFINE refilled == b.tokens + Rate * (now - b.counted)
<1>1. now - b.counted \in Nat  OBVIOUS
<1>2. \A n \in Nat : Rate * n \in Nat  BY DEF RatesAssumed
<1>3. Rate * (now - b.counted) \in Nat  BY <1>1, <1>2
<1>4. refilled \in Nat /\ Burst \in Nat  BY <1>3 DEF RatesAssumed
<1>5. Limiters!Tokens(b) = CHOOSE x \in {Burst, refilled} : \A y \in {Burst, refilled} : x =< y
  BY DEF Limiters!Tokens, Limiters!Min
<1> HIDE DEF refilled
<1>6. PICK x \in {Burst, refilled} : \A y \in {Burst, refilled} : x =< y
  BY <1>4
<1>7. Limiters!Tokens(b) \in {Burst, refilled} /\ \A y \in {Burst, refilled} : Limiters!Tokens(b) =< y
  BY <1>5, <1>6
<1>8. Limiters!Tokens(b) = IF refilled =< Burst THEN refilled ELSE Burst
  BY <1>4, <1>7
<1>9. QED  BY <1>4, <1>8 DEF refilled

LEMMA BucketTyped ==
  ASSUME TypedLimits, NEW i \in 1..Len(buckets)
  PROVE  /\ buckets[i] \in [tokens : Int, counted : Nat] /\ buckets[i].counted \in Nat
         /\ buckets[i].tokens \in 0..Burst /\ buckets[i].counted =< now
<1>1. buckets \in Seq([tokens : Int, counted : Nat])  BY DEF TypedLimits
<1>2. buckets[i] \in [tokens : Int, counted : Nat]  BY <1>1, ElementOfSeq, Zenon
<1>3. QED  BY <1>2 DEF TypedLimits

LEMMA PresentBucket ==
  ASSUME TypedLimits, NEW k \in Limiters!Present
  PROVE  /\ k \in Keys /\ entries[k].bucket \in 1..Len(buckets)
         /\ entries[k].access \in Nat /\ entries[k].access =< now
BY DEF TypedLimits, Limiters!Present, Limiters!None

LEMMA LimiterInit == ASSUME RatesAssumed, Limiters!Init PROVE LInv
<1> USE DEF Limiters!Init, Limiters!Idle, Limiters!NoEntry, Limiters!None
<1>1. Limiters!Present = {}  BY DEF Limiters!Present
<1>2. TypedLimits
  <2>1. requests \in [Requests -> [at : {"idle", "create", "allow"}, key : Keys \union {0}, bucket : Nat]]
    OBVIOUS
  <2>2. entries \in [Keys -> [bucket : Nat, access : Nat]] /\ now \in Nat  OBVIOUS
  <2>3. past \in [admitted : [Keys -> Nat], evicted : SUBSET Keys]  OBVIOUS
  <2>4. buckets \in Seq([tokens : Int, counted : Nat]) /\ Len(buckets) = 0  OBVIOUS
  <2>5. \A t \in Requests : requests[t].at = "idle"  OBVIOUS
  <2>6. QED  BY <2>1, <2>2, <2>3, <2>4, <2>5 DEF TypedLimits, Held
<1>3. OwnBuckets /\ HeldAreFresh  BY <1>1 DEF OwnBuckets, HeldAreFresh, Held
<1>4. Roomy  BY <1>1, FS_EmptySet DEF Roomy, RatesAssumed
<1>5. WithinRate
  <2>1. Rate * 0 = 0  BY DEF RatesAssumed
  <2>2. QED  BY <1>1, <2>1 DEF WithinRate
<1>6. QED  BY <1>2, <1>3, <1>4, <1>5 DEF LInv

LEMMA TouchKeeps ==
  ASSUME LInv, NEW t \in Requests, NEW k \in Keys, Limiters!Touch(t, k), now' = now
  PROVE  LInv'
<1> USE DEF LInv
<1>1. /\ k \in Limiters!Present
      /\ entries' = [entries EXCEPT ![k].access = now]
      /\ requests' = [requests EXCEPT ![t] = [at |-> "allow", key |-> k, bucket |-> entries[k].bucket]]
      /\ UNCHANGED <<buckets, past, now>>
  BY DEF Limiters!Touch, Limiters!Hold
<1>2. /\ Limiters!Present' = Limiters!Present /\ Limiters!Present \subseteq Keys
      /\ \A j \in Keys : /\ entries'[j].bucket = entries[j].bucket
                          /\ entries'[j].access = IF j = k THEN now ELSE entries[j].access
  BY <1>1 DEF Limiters!Present, TypedLimits
<1>3. entries[k].bucket \in 1..Len(buckets)  BY <1>1 DEF Limiters!Present, Limiters!None, TypedLimits
<1>4. \A r \in Requests : requests'[r] = IF r = t THEN [at |-> "allow", key |-> k, bucket |-> entries[k].bucket]
                                          ELSE requests[r]
  BY <1>1 DEF TypedLimits
<1>5. TypedLimits'
  <2>1. entries' \in [Keys -> [bucket : Nat, access : Nat]]  BY <1>1 DEF TypedLimits
  <2>2. requests' \in [Requests -> [at : {"idle", "create", "allow"}, key : Keys \union {0}, bucket : Nat]]
    BY <1>1, <1>3 DEF TypedLimits
  <2>3. \A j \in Keys : entries'[j].bucket =< Len(buckets) /\ entries'[j].access =< now
    <3> SUFFICES ASSUME NEW j \in Keys PROVE entries'[j].bucket =< Len(buckets) /\ entries'[j].access =< now
      OBVIOUS
    <3>1. entries[j].bucket =< Len(buckets) /\ entries[j].access =< now /\ now \in Nat  BY DEF TypedLimits
    <3>2. QED  BY <1>2, <3>1
  <2>4. \A r \in Requests :
          /\ requests'[r].at # "idle" => requests'[r].key \in Keys
          /\ requests'[r].at = "allow" => requests'[r].bucket \in 1..Len(buckets)
    <3> SUFFICES ASSUME NEW r \in Requests
                 PROVE  /\ requests'[r].at # "idle" => requests'[r].key \in Keys
                        /\ requests'[r].at = "allow" => requests'[r].bucket \in 1..Len(buckets)
      OBVIOUS
    <3>1. CASE r = t  BY <1>3, <1>4, <3>1
    <3>2. CASE r # t
      <4>1. requests'[r] = requests[r]  BY <1>4, <3>2
      <4>2. QED  BY <4>1 DEF TypedLimits, Held
    <3>3. QED  BY <3>1, <3>2
  <2>5. QED  BY <1>1, <2>1, <2>2, <2>3, <2>4 DEF TypedLimits, Held
<1>6. OwnBuckets'  BY <1>1, <1>2, <1>4 DEF OwnBuckets, Held
<1>7. HeldAreFresh'
  <2>1. \A j \in Limiters!Present : entries[j].bucket = entries[k].bucket => j = k
    BY <1>1 DEF OwnBuckets
  <2>2. \A r \in Requests : requests'[r].at = "allow" =>
          /\ requests'[r].key \notin past.evicted => entries'[requests'[r].key].bucket = requests'[r].bucket
          /\ \A j \in Limiters!Present : entries'[j].bucket = requests'[r].bucket => entries'[j].access = now
    <3> SUFFICES ASSUME NEW r \in Requests, requests'[r].at = "allow"
                 PROVE  /\ requests'[r].key \notin past.evicted => entries'[requests'[r].key].bucket = requests'[r].bucket
                        /\ \A j \in Limiters!Present : entries'[j].bucket = requests'[r].bucket => entries'[j].access = now
      OBVIOUS
    <3>1. CASE r = t
      <4>1. requests'[r].key = k /\ requests'[r].bucket = entries[k].bucket  BY <1>4, <3>1
      <4>2. QED  BY <1>2, <2>1, <4>1
    <3>2. CASE r # t
      <4>1. requests'[r] = requests[r] /\ Held(r)  BY <1>4, <3>2 DEF Held
      <4>2. requests[r].key \in Keys  BY <4>1 DEF TypedLimits, Held
      <4>3. QED  BY <1>2, <4>1, <4>2 DEF HeldAreFresh
    <3>3. QED  BY <3>1, <3>2
  <2>3. \A j \in Limiters!Present : buckets[entries[j].bucket].counted =< entries'[j].access
    <3> SUFFICES ASSUME NEW j \in Limiters!Present PROVE buckets[entries[j].bucket].counted =< entries'[j].access
      OBVIOUS
    <3>1. CASE j = k  BY <1>2, <1>3, <3>1 DEF TypedLimits
    <3>2. CASE j # k  BY <1>2, <3>2 DEF HeldAreFresh
    <3>3. QED  BY <3>1, <3>2
  <2>4. QED  BY <1>1, <1>2, <2>2, <2>3 DEF HeldAreFresh, Held
<1>8. Roomy'  BY <1>2 DEF Roomy
<1>9. WithinRate'
  <2>1. \A b : Limiters!Tokens(b)' = Limiters!Tokens(b)  BY <1>1 DEF Limiters!Tokens
  <2>2. QED  BY <1>1, <1>2, <2>1 DEF WithinRate, Limiters!Tokens
<1>10. QED  BY <1>5, <1>6, <1>7, <1>8, <1>9

\* An eviction that there is need of makes room.
LEMMA RoomMade ==
  ASSUME RatesAssumed, TypedLimits, Roomy, NEW gone \in Limiters!Evictable,
         NEW k \in Keys, k \notin Limiters!Present
  PROVE  /\ gone \subseteq Limiters!Present
         /\ LET kept == (Limiters!Present \ gone) \union {k}
            IN IsFiniteSet(kept) /\ Cardinality(kept) =< MaxSize
<1> DEFINE P == Limiters!Present  kept == (P \ gone) \union {k}
<1>1. IsFiniteSet(P) /\ Cardinality(P) \in Nat /\ Cardinality(P) =< MaxSize
  BY FS_CardinalityType DEF Roomy
<1>0. Limiters!Cardinality(P) = Cardinality(P)
  BY DEF Limiters!Cardinality, Cardinality
<1>2. CASE Cardinality(P) < MaxSize
  <2>1. gone = {}  BY <1>0, <1>2 DEF Limiters!Evictable
  <2>2. kept = P \union {k}  BY <2>1
  <2>3. IsFiniteSet(kept) /\ Cardinality(kept) = Cardinality(P) + 1  BY <1>1, <2>2, FS_AddElement
  <2>4. QED  BY <1>1, <1>2, <2>1, <2>3 DEF RatesAssumed
<1>3. CASE ~(Cardinality(P) < MaxSize)
  <2>1. PICK j \in P : gone = {j}
    <3>1. PICK S \in Limiters!kSubset(Limiters!Min({Sample, Cardinality(P)}), P) :
            \E j \in S : gone = {j}
      BY <1>0, <1>3 DEF Limiters!Evictable
    <3>2. S \subseteq P  BY DEF Limiters!kSubset
    <3>3. QED  BY <3>1, <3>2
  <2>2. IsFiniteSet(P \ {j}) /\ Cardinality(P \ {j}) = Cardinality(P) - 1
    BY <1>1, <2>1, FS_RemoveElement
  <2>3. k \notin P \ {j}  OBVIOUS
  <2>4. IsFiniteSet(kept) /\ Cardinality(kept) = (Cardinality(P) - 1) + 1
    BY <2>1, <2>2, <2>3, FS_AddElement
  <2>5. QED  BY <1>1, <2>1, <2>4 DEF RatesAssumed
<1>4. QED  BY <1>2, <1>3

LEMMA InsertKeeps ==
  ASSUME RatesAssumed, LInv, NEW t \in Requests, NEW k \in Keys, Limiters!Insert(t, k), now' = now
  PROVE  LInv'
<1> USE DEF LInv
<1> DEFINE new == Len(buckets) + 1  fresh == [tokens |-> Burst, counted |-> now]
<1>1. PICK gone \in Limiters!Evictable :
        /\ entries' = [j \in Keys |-> IF j = k THEN [bucket |-> new, access |-> now]
                                      ELSE IF j \in gone THEN Limiters!NoEntry ELSE entries[j]]
        /\ buckets' = Append(buckets, fresh)
        /\ past' = [past EXCEPT !.evicted = @ \union gone]
        /\ requests' = [requests EXCEPT ![t] = [at |-> "allow", key |-> k, bucket |-> new]]
  BY DEF Limiters!Insert, Limiters!Hold
<1>2. k \notin Limiters!Present /\ entries[k].bucket = 0
  BY DEF Limiters!Insert, Limiters!Missing, Limiters!Present, Limiters!None
<1>3. /\ gone \subseteq Limiters!Present
      /\ IsFiniteSet((Limiters!Present \ gone) \union {k})
      /\ Cardinality((Limiters!Present \ gone) \union {k}) =< MaxSize
  BY <1>2, RoomMade
<1>4. Len(buckets) \in Nat /\ new \in Nat /\ new # 0 /\ now \in Nat /\ Burst \in Nat
  BY DEF TypedLimits, RatesAssumed
<1>5. /\ entries'[k].bucket = new /\ entries'[k].access = now
      /\ \A j \in Keys \ {k} : entries'[j] = IF j \in gone THEN Limiters!NoEntry ELSE entries[j]
  BY <1>1
<1>6. Limiters!Present' = (Limiters!Present \ gone) \union {k}
  BY <1>2, <1>3, <1>4, <1>5 DEF Limiters!Present, Limiters!None, Limiters!NoEntry
<1>7. /\ buckets' \in Seq([tokens : Int, counted : Nat]) /\ Len(buckets') = new
      /\ buckets'[new] = fresh /\ \A b \in 1..Len(buckets) : buckets'[b] = buckets[b]
  BY <1>1, <1>4 DEF TypedLimits
<1>8. \A r \in Requests : requests'[r] = IF r = t THEN [at |-> "allow", key |-> k, bucket |-> new] ELSE requests[r]
  BY <1>1 DEF TypedLimits
<1>9. /\ past' \in [admitted : [Keys -> Nat], evicted : SUBSET Keys]
      /\ past'.admitted = past.admitted /\ past'.evicted = past.evicted \union gone
  <2>1. gone \subseteq Keys  BY <1>3 DEF Limiters!Present
  <2>2. past \in [admitted : [Keys -> Nat], evicted : SUBSET Keys]  BY DEF TypedLimits
  <2>3. QED  BY <1>1, <2>1, <2>2
<1>10. \A r \in Requests \ {t} : requests[r].at = "allow" => requests[r].bucket \in 1..Len(buckets)
  BY DEF TypedLimits, Held
<1>11. \A j \in Limiters!Present : entries[j].bucket \in 1..Len(buckets)
  BY DEF Limiters!Present, Limiters!None, TypedLimits
<1> HIDE DEF new, fresh
<1>12. TypedLimits'
  <2>1. entries' \in [Keys -> [bucket : Nat, access : Nat]]
    BY <1>1, <1>4 DEF TypedLimits, Limiters!NoEntry, Limiters!None
  <2>2. requests' \in [Requests -> [at : {"idle", "create", "allow"}, key : Keys \union {0}, bucket : Nat]]
    BY <1>1, <1>4 DEF TypedLimits
  <2>3. \A b \in 1..new : buckets'[b].tokens \in 0..Burst /\ buckets'[b].counted =< now
    <3>1. fresh.tokens \in 0..Burst /\ fresh.counted =< now  BY <1>4 DEF fresh
    <3>2. \A b \in 1..new : b = new \/ b \in 1..Len(buckets)  BY <1>4 DEF new
    <3>3. QED  BY <1>7, <3>1, <3>2 DEF TypedLimits
  <2>4. \A j \in Keys : entries'[j].bucket =< new /\ entries'[j].access =< now
    <3> SUFFICES ASSUME NEW j \in Keys PROVE entries'[j].bucket =< new /\ entries'[j].access =< now
      OBVIOUS
    <3>1. CASE j = k  BY <1>4, <1>5, <3>1
    <3>2. CASE j # k /\ j \in gone
      BY <1>4, <1>5, <3>2 DEF Limiters!NoEntry, Limiters!None
    <3>3. CASE j # k /\ j \notin gone
      <4>1. entries'[j] = entries[j]  BY <1>5, <3>3
      <4>2. entries[j].bucket =< Len(buckets) /\ entries[j].access =< now /\ entries[j].bucket \in Nat
        BY DEF TypedLimits
      <4>3. QED  BY <1>4, <4>1, <4>2 DEF new
    <3>4. QED  BY <3>1, <3>2, <3>3
  <2>5. \A r \in Requests :
          /\ requests'[r].at # "idle" => requests'[r].key \in Keys
          /\ requests'[r].at = "allow" => requests'[r].bucket \in 1..new
    <3> SUFFICES ASSUME NEW r \in Requests
                 PROVE  /\ requests'[r].at # "idle" => requests'[r].key \in Keys
                        /\ requests'[r].at = "allow" => requests'[r].bucket \in 1..new
      OBVIOUS
    <3>1. CASE r = t  BY <1>4, <1>8, <3>1
    <3>2. CASE r # t
      <4>1. requests'[r] = requests[r]  BY <1>8, <3>2
      <4>2. requests[r].at # "idle" => requests[r].key \in Keys  BY DEF TypedLimits
      <4>3. QED  BY <1>4, <1>10, <3>2, <4>1, <4>2 DEF new
    <3>3. QED  BY <3>1, <3>2
  <2>6. QED  BY <1>4, <1>7, <1>9, <2>1, <2>2, <2>3, <2>4, <2>5 DEF TypedLimits, Held
<1>13. OwnBuckets'
  <2>1. \A j \in Limiters!Present' : j # k => j \in Limiters!Present /\ entries'[j] = entries[j] /\ entries[j].bucket # new
    BY <1>4, <1>5, <1>6, <1>11 DEF new, Limiters!Present
  <2>2. \A i, j \in Limiters!Present' : entries'[i].bucket = entries'[j].bucket => i = j
    BY <1>5, <2>1 DEF OwnBuckets
  <2>3. \A r \in Requests : \A j \in Limiters!Present' :
          requests'[r].at = "allow" /\ requests'[r].bucket = entries'[j].bucket => requests'[r].key = j
    <3> SUFFICES ASSUME NEW r \in Requests, NEW j \in Limiters!Present', requests'[r].at = "allow",
                        requests'[r].bucket = entries'[j].bucket
                 PROVE  requests'[r].key = j
      OBVIOUS
    <3>1. CASE r = t
      <4>1. requests'[r].bucket = new /\ requests'[r].key = k  BY <1>8, <3>1
      <4>2. QED  BY <2>1, <4>1
    <3>2. CASE r # t
      <4>1. requests'[r] = requests[r] /\ requests[r].bucket # new  BY <1>4, <1>8, <1>10, <3>2 DEF new
      <4>2. j # k  BY <1>5, <4>1
      <4>3. QED  BY <2>1, <4>1, <4>2 DEF OwnBuckets, Held
    <3>3. QED  BY <3>1, <3>2
  <2>4. QED  BY <2>2, <2>3 DEF OwnBuckets, Held
<1>14. HeldAreFresh'
  <2>1. \A r \in Requests : requests'[r].at = "allow" =>
          /\ requests'[r].key \notin past'.evicted => entries'[requests'[r].key].bucket = requests'[r].bucket
          /\ \A j \in Limiters!Present' : entries'[j].bucket = requests'[r].bucket => entries'[j].access = now
    <3> SUFFICES ASSUME NEW r \in Requests, requests'[r].at = "allow"
                 PROVE  /\ requests'[r].key \notin past'.evicted => entries'[requests'[r].key].bucket = requests'[r].bucket
                        /\ \A j \in Limiters!Present' : entries'[j].bucket = requests'[r].bucket => entries'[j].access = now
      OBVIOUS
    <3>1. CASE r = t
      <4>1. requests'[r].bucket = new /\ requests'[r].key = k  BY <1>8, <3>1
      <4>2. \A j \in Limiters!Present' : entries'[j].bucket = new => j = k
        BY <1>4, <1>5, <1>6, <1>11 DEF new, Limiters!Present
      <4>3. QED  BY <1>5, <4>1, <4>2
    <3>2. CASE r # t
      <4>1. requests'[r] = requests[r] /\ Held(r) /\ requests[r].bucket \in 1..Len(buckets)
        BY <1>8, <1>10, <3>2 DEF Held
      <4>2. requests[r].key \in Keys  BY <4>1 DEF TypedLimits, Held
      <4>3. ASSUME requests[r].key \notin past'.evicted
            PROVE  entries'[requests[r].key].bucket = requests[r].bucket
        <5>1. entries[requests[r].key].bucket = requests[r].bucket
          BY <1>9, <4>1, <4>3 DEF HeldAreFresh
        <5>2. requests[r].key # k  BY <1>2, <4>1, <5>1
        <5>3. requests[r].key \notin gone  BY <1>9, <4>3
        <5>4. QED  BY <1>5, <4>2, <5>1, <5>2, <5>3
      <4>4. ASSUME NEW j \in Limiters!Present', entries'[j].bucket = requests[r].bucket
            PROVE  entries'[j].access = now
        <5>1. j # k  BY <1>4, <1>5, <4>1, <4>4 DEF new
        <5>2. j \in Limiters!Present /\ entries'[j] = entries[j]
          BY <1>5, <1>6, <5>1 DEF Limiters!Present
        <5>3. QED  BY <4>1, <4>4, <5>2 DEF HeldAreFresh
      <4>5. QED  BY <4>1, <4>3, <4>4
    <3>3. QED  BY <3>1, <3>2
  <2>2. \A j \in Limiters!Present' : buckets'[entries'[j].bucket].counted =< entries'[j].access
    <3> SUFFICES ASSUME NEW j \in Limiters!Present' PROVE buckets'[entries'[j].bucket].counted =< entries'[j].access
      OBVIOUS
    <3>1. CASE j = k  BY <1>4, <1>5, <1>7, <3>1 DEF fresh
    <3>2. CASE j # k
      <4>1. j \in Limiters!Present /\ entries'[j] = entries[j]
        BY <1>5, <1>6, <3>2 DEF Limiters!Present
      <4>2. QED  BY <1>7, <1>11, <4>1 DEF HeldAreFresh
    <3>3. QED  BY <3>1, <3>2
  <2>3. QED  BY <2>1, <2>2 DEF HeldAreFresh, Held
<1>15. Roomy'  BY <1>3, <1>6 DEF Roomy
<1>16. WithinRate'
  <2> SUFFICES ASSUME NEW j \in Keys, j \notin past'.evicted
               PROVE  IF j \in Limiters!Present'
                      THEN past.admitted[j] + Limiters!Tokens(buckets[entries[j].bucket])' =< Burst + Rate * now
                      ELSE past.admitted[j] =< Rate * now
    BY <1>9 DEF WithinRate
  <2>1. j \notin past.evicted /\ j \notin gone  BY <1>9
  <2>2. CASE j = k
    <3>1. past.admitted[k] =< Rate * now  BY <1>2, <2>1, <2>2 DEF WithinRate
    <3>2. buckets'[entries'[k].bucket] = fresh  BY <1>5, <1>7
    <3>3. fresh \in [tokens : Int, counted : Nat] /\ fresh.tokens \in 0..Burst /\ fresh.counted =< now
      BY <1>4 DEF fresh
    <3>4. Limiters!Tokens(fresh) \in 0..Burst  BY <1>4, <3>3, TokensAre
    <3>5. Limiters!Tokens(buckets[entries[k].bucket])' = Limiters!Tokens(fresh)
      BY <3>2 DEF Limiters!Tokens
    <3>6. past.admitted[k] \in Nat /\ Rate * now \in Int  BY <1>4 DEF TypedLimits, RatesAssumed
    <3>7. QED  BY <1>4, <1>6, <2>2, <3>1, <3>4, <3>5, <3>6
  <2>3. CASE j # k
    <3>1. j \in Limiters!Present' <=> j \in Limiters!Present  BY <1>6, <2>1, <2>3
    <3>2. entries'[j] = entries[j]  BY <1>5, <2>1, <2>3
    <3>3. j \in Limiters!Present => buckets'[entries'[j].bucket] = buckets[entries[j].bucket]
      BY <1>7, <1>11, <3>2
    <3>4. j \in Limiters!Present =>
            Limiters!Tokens(buckets[entries[j].bucket])' = Limiters!Tokens(buckets[entries[j].bucket])
      BY <3>3 DEF Limiters!Tokens
    <3>5. QED  BY <2>1, <3>1, <3>4 DEF WithinRate
  <2>4. QED  BY <2>2, <2>3
<1>17. QED  BY <1>12, <1>13, <1>14, <1>15, <1>16

LEMMA LookupKeeps ==
  ASSUME LInv, NEW t \in Requests, NEW k \in Keys, Limiters!Lookup(t, k)
  PROVE  LInv'
<1>1. now' = now  BY DEF Limiters!Lookup
<1>2. CASE Limiters!Touch(t, k)  BY <1>1, <1>2, TouchKeeps
<1>3. CASE /\ requests' = [requests EXCEPT ![t] = [at |-> "create", key |-> k, bucket |-> 0]]
           /\ UNCHANGED <<entries, buckets, past>>
  <2>1. Limiters!Present' = Limiters!Present  BY <1>3 DEF Limiters!Present
  <2>2. \A r \in Requests : requests'[r] = requests[r] \/ (requests'[r].at = "create" /\ requests'[r].key = k)
    BY <1>3 DEF LInv, TypedLimits
  <2>3. TypedLimits'
    <3>1. requests' \in [Requests -> [at : {"idle", "create", "allow"}, key : Keys \union {0}, bucket : Nat]]
      BY <1>3 DEF LInv, TypedLimits
    <3>2. QED  BY <1>1, <1>3, <2>2, <3>1 DEF LInv, TypedLimits, Held
  <2>4. OwnBuckets'  BY <1>3, <2>1, <2>2 DEF LInv, OwnBuckets, Held
  <2>5. HeldAreFresh'  BY <1>1, <1>3, <2>1, <2>2 DEF LInv, HeldAreFresh, Held
  <2>6. Roomy'  BY <2>1 DEF LInv, Roomy
  <2>7. WithinRate'  BY <1>1, <1>3, <2>1 DEF LInv, WithinRate, Limiters!Tokens
  <2>8. QED  BY <2>3, <2>4, <2>5, <2>6, <2>7 DEF LInv
<1>4. QED  BY <1>2, <1>3 DEF Limiters!Lookup, Limiters!None

LEMMA AllowKeeps ==
  ASSUME RatesAssumed, LInv, NEW t \in Requests, Limiters!Allow(t)
  PROVE  LInv'
<1> USE DEF LInv
<1> DEFINE b == requests[t].bucket
           tokens == Limiters!Tokens(buckets[b])
           spent == IF tokens >= 1 THEN 1 ELSE 0
           left == [tokens |-> tokens - spent, counted |-> now]
           key == requests[t].key
<1>1. /\ Held(t)
      /\ buckets' = [buckets EXCEPT ![b] = left]
      /\ past' = [past EXCEPT !.admitted[key] = @ + spent]
      /\ requests' = [requests EXCEPT ![t] = Limiters!Idle]
      /\ UNCHANGED <<entries, now>>
  BY DEF Limiters!Allow, Held
<1>2. b \in 1..Len(buckets) /\ key \in Keys  BY <1>1 DEF TypedLimits, Held
<1>3. now \in Nat /\ Burst \in Nat  BY DEF TypedLimits, RatesAssumed
<1>4. tokens \in 0..Burst
  <2>1. buckets[b] \in [tokens : Int, counted : Nat] /\ buckets[b].tokens \in 0..Burst /\ buckets[b].counted =< now
    BY <1>2, BucketTyped
  <2>2. QED  BY <1>3, <2>1, TokensAre
<1>5. spent \in {0, 1} /\ tokens - spent \in 0..Burst  BY <1>3, <1>4
<1>6. left.tokens = tokens - spent /\ left.counted = now /\ left \in [tokens : Int, counted : Nat]
  BY <1>3, <1>5
<1>7. Limiters!Present' = Limiters!Present /\ Limiters!Present \subseteq Keys
  BY <1>1 DEF Limiters!Present
<1>8. \A r \in Requests : requests'[r] = IF r = t THEN Limiters!Idle ELSE requests[r]
  BY <1>1 DEF TypedLimits
<1> HIDE DEF tokens, spent, left, key
<1>9. /\ buckets' \in Seq([tokens : Int, counted : Nat]) /\ Len(buckets') = Len(buckets)
      /\ \A i \in 1..Len(buckets) : buckets'[i] = IF i = b THEN left ELSE buckets[i]
  BY <1>1, <1>2, <1>6 DEF TypedLimits
<1>10. /\ past' \in [admitted : [Keys -> Nat], evicted : SUBSET Keys]
       /\ past'.evicted = past.evicted
       /\ \A j \in Keys : past'.admitted[j] = IF j = key THEN past.admitted[j] + spent ELSE past.admitted[j]
  <2>1. past \in [admitted : [Keys -> Nat], evicted : SUBSET Keys]  BY DEF TypedLimits
  <2>2. past.admitted[key] + spent \in Nat  BY <1>2, <1>5, <2>1
  <2>3. QED  BY <1>1, <1>2, <2>1, <2>2
<1>11. Limiters!Idle.at = "idle"  BY DEF Limiters!Idle
<1>12. TypedLimits'
  <2>1. requests' \in [Requests -> [at : {"idle", "create", "allow"}, key : Keys \union {0}, bucket : Nat]]
    BY <1>1 DEF TypedLimits, Limiters!Idle, Limiters!None
  <2>2. \A i \in 1..Len(buckets) : buckets'[i].tokens \in 0..Burst /\ buckets'[i].counted =< now
    <3> SUFFICES ASSUME NEW i \in 1..Len(buckets) PROVE buckets'[i].tokens \in 0..Burst /\ buckets'[i].counted =< now
      OBVIOUS
    <3>1. CASE i = b  BY <1>3, <1>5, <1>6, <1>9, <3>1
    <3>2. CASE i # b
      <4>1. buckets'[i] = buckets[i]  BY <1>9, <3>2
      <4>2. QED  BY <4>1, BucketTyped
    <3>3. QED  BY <3>1, <3>2
  <2>3. \A r \in Requests :
          /\ requests'[r].at # "idle" => requests'[r].key \in Keys
          /\ requests'[r].at = "allow" => requests'[r].bucket \in 1..Len(buckets)
    BY <1>8, <1>11 DEF TypedLimits, Held
  <2>4. now' \in Nat /\ now' = now /\ entries' = entries /\ Len(buckets') = Len(buckets)
    BY <1>1, <1>3, <1>9
  <2>5. \A k \in Keys : entries[k].bucket =< Len(buckets) /\ entries[k].access =< now
        /\ entries \in [Keys -> [bucket : Nat, access : Nat]]
    BY DEF TypedLimits
  <2>6. QED  BY <1>9, <1>10, <2>1, <2>2, <2>3, <2>4, <2>5 DEF TypedLimits, Held
<1>13. OwnBuckets'  BY <1>1, <1>7, <1>8, <1>11 DEF OwnBuckets, Held
<1>14. HeldAreFresh'
  <2>1. \A r \in Requests : requests'[r].at = "allow" => requests'[r] = requests[r] /\ Held(r)
    BY <1>8, <1>11 DEF Held
  <2>2. \A k \in Limiters!Present : buckets'[entries[k].bucket].counted =< entries[k].access
    <3> SUFFICES ASSUME NEW k \in Limiters!Present PROVE buckets'[entries[k].bucket].counted =< entries[k].access
      OBVIOUS
    <3>1. entries[k].bucket \in 1..Len(buckets)
      BY DEF Limiters!Present, Limiters!None, TypedLimits
    <3>2. CASE entries[k].bucket = b
      <4>1. entries[k].access = now  BY <1>1, <3>2 DEF HeldAreFresh
      <4>2. QED  BY <1>3, <1>6, <1>9, <3>1, <3>2, <4>1
    <3>3. CASE entries[k].bucket # b
      BY <1>9, <3>1, <3>3 DEF HeldAreFresh
    <3>4. QED  BY <3>2, <3>3
  <2>3. QED  BY <1>1, <1>7, <1>10, <2>1, <2>2 DEF HeldAreFresh, Held
<1>15. Roomy'  BY <1>7 DEF Roomy
<1>16. WithinRate'
  <2> SUFFICES ASSUME NEW k \in Keys, k \notin past.evicted
               PROVE  IF k \in Limiters!Present
                      THEN past'.admitted[k] + Limiters!Tokens(buckets[entries[k].bucket])' =< Burst + Rate * now
                      ELSE past'.admitted[k] =< Rate * now
    BY <1>1, <1>7, <1>10 DEF WithinRate
  <2>1. past.admitted[k] \in Nat /\ Rate * now \in Int  BY <1>3 DEF TypedLimits, RatesAssumed
  <2>2. CASE k = key
    <3>1. entries[k].bucket = b  BY <1>1, <2>2 DEF HeldAreFresh, key
    <3>2. k \in Limiters!Present  BY <1>2, <3>1 DEF Limiters!Present, Limiters!None
    <3>3. past.admitted[k] + tokens =< Burst + Rate * now  BY <3>1, <3>2 DEF WithinRate, tokens
    <3>4. Limiters!Tokens(buckets[entries[k].bucket])' = Limiters!Tokens(left)
      BY <1>1, <1>2, <1>9, <3>1 DEF Limiters!Tokens
    <3>5. Limiters!Tokens(left) = tokens - spent
      <4>1. Rate * (now - now) = 0  BY <1>3 DEF RatesAssumed
      <4>2. left.tokens + Rate * (now - left.counted) = tokens - spent  BY <1>4, <1>5, <1>6, <4>1
      <4>3. left.tokens \in 0..Burst /\ left.counted =< now  BY <1>3, <1>5, <1>6
      <4>4. QED  BY <1>3, <1>5, <1>6, <4>2, <4>3, TokensAre
    <3>6. QED  BY <1>3, <1>4, <1>5, <1>10, <2>1, <2>2, <3>2, <3>3, <3>4, <3>5
  <2>3. CASE k # key
    <3>1. ASSUME k \in Limiters!Present
          PROVE  Limiters!Tokens(buckets[entries[k].bucket])' = Limiters!Tokens(buckets[entries[k].bucket])
      <4>1. entries[k].bucket # b  BY <1>1, <2>3, <3>1 DEF OwnBuckets, key
      <4>2. entries[k].bucket \in 1..Len(buckets)
        BY <3>1 DEF Limiters!Present, Limiters!None, TypedLimits
      <4>3. buckets'[entries'[k].bucket] = buckets[entries[k].bucket]  BY <1>1, <1>9, <4>1, <4>2
      <4>4. QED  BY <1>1, <4>3 DEF Limiters!Tokens
    <3>2. QED  BY <1>10, <2>3, <3>1 DEF WithinRate
  <2>4. QED  BY <2>2, <2>3
<1>17. QED  BY <1>12, <1>13, <1>14, <1>15, <1>16

LEMMA SweepKeeps ==
  ASSUME RatesAssumed, LInv, Limiters!Sweep
  PROVE  LInv'
<1> USE DEF LInv
<1> DEFINE swept == {k \in Limiters!Present : entries[k].access < now - MaxAge}
<1>1. /\ entries' = [k \in Keys |-> IF k \in swept THEN Limiters!NoEntry ELSE entries[k]]
      /\ UNCHANGED <<requests, buckets, now, past>>
  BY DEF Limiters!Sweep, Limiters!Stale
<1> HIDE DEF swept
<1>2. swept \subseteq Limiters!Present /\ \A k \in swept : entries[k].access < now - MaxAge
  BY DEF swept
<1>3. now \in Nat /\ Burst \in Nat /\ MaxAge \in Nat  BY DEF TypedLimits, RatesAssumed
<1>4. \A k \in Keys : entries'[k] = IF k \in swept THEN Limiters!NoEntry ELSE entries[k]
  BY <1>1
<1>5. Limiters!Present' = Limiters!Present \ swept /\ Limiters!Present' \subseteq Limiters!Present
  BY <1>4 DEF Limiters!Present, Limiters!NoEntry, Limiters!None
<1>6. \A k \in Limiters!Present' : entries'[k] = entries[k]  BY <1>4, <1>5 DEF Limiters!Present
<1>7. TypedLimits'
  <2>1. entries' \in [Keys -> [bucket : Nat, access : Nat]]
    BY <1>1 DEF TypedLimits, Limiters!NoEntry, Limiters!None
  <2>2. \A k \in Keys : entries'[k].bucket =< Len(buckets) /\ entries'[k].access =< now
    <3> SUFFICES ASSUME NEW k \in Keys PROVE entries'[k].bucket =< Len(buckets) /\ entries'[k].access =< now
      OBVIOUS
    <3>1. CASE k \in swept
      <4>1. entries'[k].bucket = 0 /\ entries'[k].access = 0
        BY <1>4, <3>1 DEF Limiters!NoEntry, Limiters!None
      <4>2. Len(buckets) \in Nat  BY DEF TypedLimits
      <4>3. QED  BY <1>3, <4>1, <4>2
    <3>2. CASE k \notin swept  BY <1>4, <3>2 DEF TypedLimits
    <3>3. QED  BY <3>1, <3>2
  <2>3. QED  BY <1>1, <2>1, <2>2 DEF TypedLimits, Held
<1>8. OwnBuckets'  BY <1>1, <1>5, <1>6 DEF OwnBuckets, Held
<1>9. HeldAreFresh'
  <2>1. ASSUME NEW t \in Requests, Held(t), requests[t].key \notin past.evicted
        PROVE  entries'[requests[t].key].bucket = requests[t].bucket
    <3>1. entries[requests[t].key].bucket = requests[t].bucket /\ requests[t].key \in Keys
          /\ requests[t].bucket \in 1..Len(buckets)
      BY <2>1 DEF HeldAreFresh, TypedLimits, Held
    <3>2. requests[t].key \in Limiters!Present  BY <3>1 DEF Limiters!Present, Limiters!None
    <3>3. entries[requests[t].key].access = now  BY <2>1, <3>1, <3>2 DEF HeldAreFresh
    <3>4. requests[t].key \notin swept  BY <1>2, <1>3, <3>3
    <3>5. QED  BY <1>4, <3>1, <3>4
  <2>2. QED  BY <1>1, <1>5, <1>6, <2>1 DEF HeldAreFresh, Held
<1>10. Roomy'
  <2>1. IsFiniteSet(Limiters!Present)  BY DEF Roomy
  <2>2. /\ IsFiniteSet(Limiters!Present') /\ Cardinality(Limiters!Present') =< Cardinality(Limiters!Present)
        /\ Cardinality(Limiters!Present) \in Nat /\ Cardinality(Limiters!Present') \in Nat
    BY <1>5, <2>1, FS_Subset, FS_CardinalityType
  <2>3. QED  BY <2>2 DEF Roomy, RatesAssumed
<1>11. WithinRate'
  <2> SUFFICES ASSUME NEW k \in Keys, k \notin past.evicted
               PROVE  IF k \in Limiters!Present'
                      THEN past.admitted[k] + Limiters!Tokens(buckets[entries[k].bucket])' =< Burst + Rate * now
                      ELSE past.admitted[k] =< Rate * now
    BY <1>1 DEF WithinRate
  <2>1. past.admitted[k] \in Nat /\ Rate * now \in Int  BY <1>3 DEF TypedLimits, RatesAssumed
  <2>2. CASE k \in swept
    <3> DEFINE b == buckets[entries[k].bucket]
    <3>1. k \in Limiters!Present /\ k \notin Limiters!Present'  BY <1>2, <1>5, <2>2
    <3>2. /\ b \in [tokens : Int, counted : Nat] /\ b.tokens \in 0..Burst /\ b.counted =< now
          /\ b.counted =< entries[k].access /\ entries[k].access \in Nat
      BY <3>1, BucketTyped, PresentBucket DEF HeldAreFresh
    <3> HIDE DEF b
    <3>3. now - b.counted \in Nat /\ MaxAge =< now - b.counted
      <4>1. entries[k].access < now - MaxAge  BY <1>2, <2>2
      <4>2. b.counted \in Nat  BY <3>2
      <4>3. QED  BY <1>3, <3>2, <4>1, <4>2
    <3>4. Rate * MaxAge =< Rate * (now - b.counted) /\ Rate * (now - b.counted) \in Nat /\ Rate * MaxAge \in Nat
      <4>1. \A m, n \in Nat : m =< n => Rate * m =< Rate * n /\ Rate * n \in Nat /\ Rate * m \in Nat
        BY DEF RatesAssumed
      <4>2. QED  BY <1>3, <3>3, <4>1
    <3>5. Limiters!Tokens(b) = Burst
      <4>1. Burst =< Rate * MaxAge  BY DEF RatesAssumed
      <4>2. Limiters!Tokens(b) = IF b.tokens + Rate * (now - b.counted) =< Burst
                                 THEN b.tokens + Rate * (now - b.counted) ELSE Burst
        BY <1>3, <3>2, TokensAre
      <4>3. b.tokens \in Nat  BY <1>3, <3>2
      <4>4. QED  BY <1>3, <3>4, <4>1, <4>2, <4>3
    <3>6. past.admitted[k] + Burst =< Burst + Rate * now  BY <3>1, <3>5 DEF WithinRate, b
    <3>7. QED  BY <1>3, <2>1, <3>1, <3>6
  <2>3. CASE k \notin swept
    <3>1. (k \in Limiters!Present' <=> k \in Limiters!Present) /\ entries'[k] = entries[k]
      BY <1>4, <1>5, <2>3
    <3>2. Limiters!Tokens(buckets[entries[k].bucket])' = Limiters!Tokens(buckets[entries[k].bucket])
      BY <1>1, <3>1 DEF Limiters!Tokens
    <3>3. QED  BY <3>1, <3>2 DEF WithinRate
  <2>4. QED  BY <2>2, <2>3
<1>12. QED  BY <1>7, <1>8, <1>9, <1>10, <1>11

LEMMA TickKeeps ==
  ASSUME RatesAssumed, LInv, Limiters!Tick
  PROVE  LInv'
<1> USE DEF LInv
<1>1. now' = now + 1 /\ UNCHANGED <<requests, entries, buckets, past>>  BY DEF Limiters!Tick
<1>2. \A t \in Requests : ~Held(t) /\ ~Held(t)'  BY <1>1 DEF Limiters!Tick, Held
<1>3. Limiters!Present' = Limiters!Present  BY <1>1 DEF Limiters!Present
<1>4. now \in Nat  BY DEF TypedLimits
<1>5. TypedLimits'
  <2>1. \A b \in 1..Len(buckets) : buckets[b].counted =< now + 1
    <3>1. \A b \in 1..Len(buckets) : buckets[b].counted \in Nat /\ buckets[b].counted =< now
      BY BucketTyped
    <3>2. QED  BY <1>4, <3>1
  <2>2. \A k \in Keys : entries[k].access =< now + 1
    <3>1. \A k \in Keys : entries[k].access \in Nat  BY DEF TypedLimits
    <3>2. QED  BY <1>4, <3>1 DEF TypedLimits
  <2>3. QED  BY <1>1, <1>2, <1>4, <2>1, <2>2 DEF TypedLimits
<1>6. OwnBuckets'  BY <1>1, <1>2, <1>3 DEF OwnBuckets
<1>7. HeldAreFresh'  BY <1>1, <1>2, <1>3 DEF HeldAreFresh
<1>8. Roomy'  BY <1>3 DEF Roomy
<1>9. WithinRate'
  <2>1. \A n \in Nat : Rate * (n + 1) = Rate * n + Rate /\ Rate * n \in Nat  BY DEF RatesAssumed
  <2> SUFFICES ASSUME NEW k \in Keys, k \notin past.evicted
               PROVE  IF k \in Limiters!Present
                      THEN past.admitted[k] + Limiters!Tokens(buckets[entries[k].bucket])' =< Burst + Rate * (now + 1)
                      ELSE past.admitted[k] =< Rate * (now + 1)
    BY <1>1, <1>3 DEF WithinRate
  <2>2. past.admitted[k] \in Nat /\ Rate \in Nat /\ Burst \in Nat  BY DEF TypedLimits, RatesAssumed
  <2>3. CASE k \notin Limiters!Present
    <3>1. past.admitted[k] =< Rate * now  BY <2>3 DEF WithinRate
    <3> DEFINE was == Rate * now  is == Rate * (now + 1)
    <3>2. is = was + Rate /\ was \in Nat  BY <1>4, <2>1
    <3>3. past.admitted[k] =< was  BY <3>1
    <3> HIDE DEF was, is
    <3>4. past.admitted[k] =< is  BY <2>2, <3>2, <3>3
    <3>5. QED  BY <2>3, <3>4 DEF is
  <2>4. CASE k \in Limiters!Present
    <3> DEFINE b == buckets[entries[k].bucket]
    <3>1. b \in [tokens : Int, counted : Nat] /\ b.tokens \in 0..Burst /\ b.counted =< now
      BY <2>4, BucketTyped, PresentBucket
    <3>2. past.admitted[k] + Limiters!Tokens(b) =< Burst + Rate * now  BY <2>4 DEF WithinRate
    <3>3. b' = b  BY <1>1
    <3> DEFINE later == Limiters!Min({Burst, b.tokens + Rate * ((now + 1) - b.counted)})
    <3>4. Limiters!Tokens(b)' = later  BY <1>1, <3>3 DEF Limiters!Tokens
    <3> HIDE DEF b
    <3>5. b.counted \in Nat /\ b.tokens \in Nat /\ now - b.counted \in Nat  BY <1>4, <2>2, <3>1
    <3>6. Rate * ((now - b.counted) + 1) = Rate * (now - b.counted) + Rate /\ Rate * (now - b.counted) \in Nat
      BY <2>1, <3>5
    <3>7. (now + 1) - b.counted = (now - b.counted) + 1  BY <1>4, <3>5
    <3>8. b.tokens + Rate * ((now + 1) - b.counted) = b.tokens + Rate * (now - b.counted) + Rate
      <4>1. Rate * ((now + 1) - b.counted) = Rate * (now - b.counted) + Rate  BY <3>6, <3>7
      <4>2. QED  BY <2>2, <3>5, <3>6, <4>1
    <3>9. later =< Burst /\ later =< b.tokens + Rate * (now - b.counted) + Rate /\ later \in Int
      <4> DEFINE refilled == b.tokens + Rate * (now - b.counted) + Rate
      <4>1. refilled \in Int  BY <2>2, <3>5, <3>6
      <4>2. later = CHOOSE x \in {Burst, refilled} : \A y \in {Burst, refilled} : x =< y
        BY <3>8 DEF Limiters!Min
      <4> HIDE DEF refilled, later
      <4>3. PICK x \in {Burst, refilled} : \A y \in {Burst, refilled} : x =< y  BY <2>2, <4>1
      <4>4. later \in {Burst, refilled} /\ \A y \in {Burst, refilled} : later =< y  BY <4>2, <4>3
      <4>5. later \in Int /\ later =< Burst /\ later =< refilled  BY <2>2, <4>1, <4>4
      <4>6. QED  BY <4>5 DEF refilled
    <3> HIDE DEF later
    <3>10. Limiters!Tokens(b) = IF b.tokens + Rate * (now - b.counted) =< Burst
                                THEN b.tokens + Rate * (now - b.counted) ELSE Burst
      BY <1>4, <3>1, TokensAre
    <3>11. Rate * (now + 1) = Rate * now + Rate /\ Rate * now \in Nat  BY <1>4, <2>1
    <3>12. past.admitted[k] + later =< Burst + Rate * (now + 1)
      BY <2>2, <3>2, <3>5, <3>6, <3>9, <3>10, <3>11
    <3>13. QED  BY <2>4, <3>4, <3>12 DEF b
  <2>5. QED  BY <2>3, <2>4
<1>10. QED  BY <1>5, <1>6, <1>7, <1>8, <1>9

\* No key whose bucket was not evicted is let through more than its burst and
\* its rate allow, and the map never outgrows its size: for any requests, keys,
\* samples and rates (LimiterMap's AdmittedWithinRate and MapIsBounded).
THEOREM RateLimited ==
  ASSUME RatesAssumed
  PROVE  Limiters!Init /\ [][Limiters!Next]_(Limiters!vars)
           => [](Limiters!AdmittedWithinRate /\ Limiters!MapIsBounded)
<1>1. Limiters!Init => LInv  BY LimiterInit
<1>2. LInv /\ [Limiters!Next]_(Limiters!vars) => LInv'
  <2> SUFFICES ASSUME LInv, [Limiters!Next]_(Limiters!vars) PROVE LInv'
    OBVIOUS
  <2>1. ASSUME NEW t \in Requests, NEW k \in Keys, Limiters!Lookup(t, k) PROVE LInv'
    BY <2>1, LookupKeeps
  <2>2. ASSUME NEW t \in Requests, Limiters!GetOrCreate(t) PROVE LInv'
    <3> DEFINE k == requests[t].key
    <3>1. now' = now /\ (Limiters!Insert(t, k) \/ Limiters!Touch(t, k)) /\ requests[t].at = "create"
      BY <2>2 DEF Limiters!GetOrCreate
    <3>2. k \in Keys  BY <3>1 DEF LInv, TypedLimits
    <3> HIDE DEF k
    <3>3. QED  BY <3>1, <3>2, InsertKeeps, TouchKeeps
  <2>3. ASSUME NEW t \in Requests, Limiters!Allow(t) PROVE LInv'  BY <2>3, AllowKeeps
  <2>4. CASE Limiters!Sweep  BY <2>4, SweepKeeps
  <2>5. CASE Limiters!Tick  BY <2>5, TickKeeps
  <2>6. CASE UNCHANGED Limiters!vars
    <3>1. UNCHANGED <<requests, entries, buckets, now, past>>  BY <2>6 DEF Limiters!vars
    <3>2. QED
      BY <3>1 DEF LInv, TypedLimits, OwnBuckets, HeldAreFresh, Roomy, WithinRate, Held,
                  Limiters!Present, Limiters!Tokens
  <2>7. QED  BY <2>1, <2>2, <2>3, <2>4, <2>5, <2>6 DEF Limiters!Next
<1>3. LInv => Limiters!AdmittedWithinRate /\ Limiters!MapIsBounded
  <2> SUFFICES ASSUME LInv PROVE Limiters!AdmittedWithinRate /\ Limiters!MapIsBounded
    OBVIOUS
  <2>1. Limiters!AdmittedWithinRate
    <3> SUFFICES ASSUME NEW k \in Keys, k \notin past.evicted
                 PROVE  past.admitted[k] =< Burst + Rate * now
      BY DEF Limiters!AdmittedWithinRate
    <3>1. past.admitted[k] \in Nat /\ now \in Nat /\ Burst \in Nat /\ Rate * now \in Int
      BY DEF LInv, TypedLimits, RatesAssumed
    <3>2. CASE k \in Limiters!Present
      <4> DEFINE b == buckets[entries[k].bucket]
      <4>1. b \in [tokens : Int, counted : Nat] /\ b.tokens \in 0..Burst /\ b.counted =< now
        BY <3>2, BucketTyped, PresentBucket DEF LInv
      <4>2. Limiters!Tokens(b) \in 0..Burst  BY <3>1, <4>1, TokensAre
      <4>3. past.admitted[k] + Limiters!Tokens(b) =< Burst + Rate * now  BY <3>2 DEF LInv, WithinRate
      <4> HIDE DEF b
      <4>4. QED  BY <3>1, <4>2, <4>3
    <3>3. CASE k \notin Limiters!Present
      <4>1. past.admitted[k] =< Rate * now  BY <3>3 DEF LInv, WithinRate
      <4>2. QED  BY <3>1, <4>1
    <3>4. QED  BY <3>2, <3>3
  <2>2. Limiters!MapIsBounded
    <3>1. Limiters!Cardinality(Limiters!Present) = Cardinality(Limiters!Present)
      BY DEF Limiters!Cardinality, Cardinality
    <3>2. QED  BY <3>1 DEF LInv, Roomy, HeldAreFresh, Held, Limiters!MapIsBounded
  <2>3. QED  BY <2>1, <2>2
<1>4. QED  BY <1>1, <1>2, <1>3, PTL

(* ------------------------- the periodic runner -------------------------- *)

\* The names of goroutines are none of the words the model has for stopOnce.
StopsNamed == Stops \cap {"free", "over"} = {}

TypedStops ==
  /\ periodic \in [started : BOOLEAN, cancelled : BOOLEAN]
  /\ loop \in {"none", "waiting", "running", "over"}
  /\ once \in Stops \union {"free", "over"}
  /\ stops \in [Stops -> {"none", "waiting", "leaving", "returned"}]
  /\ early \in BOOLEAN

\* Only the first Stop is inside the once; it is over when that one returned,
\* and unless it came too early the goroutine is over by then.
PInv ==
  /\ TypedStops
  /\ loop = "none" <=> ~periodic.started
  /\ once = "free" => ~early
  /\ \A s \in Stops :
       /\ once = s <=> stops[s] \in {"waiting", "leaving"}
       /\ stops[s] = "waiting" => ~early
       /\ stops[s] = "leaving" => early
       /\ stops[s] = "returned" => once = "over"
  /\ once = "over" /\ ~early => loop = "over"

\* When any Stop returns nothing runs any more, unless a Stop before the start
\* has used up the once: for any number of Stops (PeriodicRunner's StoppedIsQuiet).
THEOREM StoppedForGood ==
  ASSUME StopsNamed
  PROVE  Periodic!Init /\ [][Periodic!Next]_(Periodic!vars) => []Periodic!StoppedIsQuiet
<1> USE DEF StopsNamed
<1>1. Periodic!Init => PInv
  <2> SUFFICES ASSUME Periodic!Init PROVE PInv
    OBVIOUS
  <2> USE DEF Periodic!Init, Periodic!NoStop
  <2>1. TypedStops  BY DEF TypedStops
  <2>2. \A s \in Stops : stops[s] = "none" /\ once # s  OBVIOUS
  <2>3. QED  BY <2>1, <2>2 DEF PInv
<1>2. PInv /\ [Periodic!Next]_(Periodic!vars) => PInv'
  <2> SUFFICES ASSUME PInv, [Periodic!Next]_(Periodic!vars) PROVE PInv'
    OBVIOUS
  <2> USE DEF PInv, TypedStops
  <2>1. CASE Periodic!Start  BY <2>1 DEF Periodic!Start
  <2>2. CASE Periodic!Cancel  BY <2>2 DEF Periodic!Cancel
  <2>3. CASE Periodic!Run \/ Periodic!Ran \/ Periodic!LoopEnds
    BY <2>3 DEF Periodic!Run, Periodic!Ran, Periodic!LoopEnds
  <2>4. ASSUME NEW s \in Stops, Periodic!Enter(s) PROVE PInv'
    BY <2>4 DEF Periodic!Enter, Periodic!NoStop
  <2>5. ASSUME NEW s \in Stops, Periodic!Stop(s) PROVE PInv'
    BY <2>5 DEF Periodic!Stop
  <2>6. ASSUME NEW s \in Stops, Periodic!LateStop(s) PROVE PInv'
    BY <2>6 DEF Periodic!LateStop
  <2>7. CASE UNCHANGED Periodic!vars  BY <2>7 DEF Periodic!vars
  <2>8. QED  BY <2>1, <2>2, <2>3, <2>4, <2>5, <2>6, <2>7 DEF Periodic!Next
<1>3. PInv => Periodic!StoppedIsQuiet  BY DEF PInv, Periodic!StoppedIsQuiet
<1>4. QED  BY <1>1, <1>2, <1>3, PTL

(* --------------------------- the poster cache --------------------------- *)

CacheAssumed == CacheSize \in Nat /\ NegativeTTL \in Nat /\ "none" \notin URLs

Entries == [url : URLs, runs : {"queued", "fetching", "no"}, hash : URLs \union {"none"}, expires : Nat]
Kept == Posters!ToSet(order)

TypedPosters ==
  /\ now \in Nat \ {0}
  /\ made \in Seq(Entries)
  /\ order \in Seq(1..Len(made)) /\ Len(order) =< CacheSize
  /\ \A i, j \in 1..Len(order) : order[i] = order[j] => i = j
  /\ callers \in [Callers -> [at : {"idle", "waiting", "told"}, entry : Nat, owed : URLs \union {"none"}]]
  /\ \A c \in Callers : callers[c].at # "idle" => callers[c].entry \in 1..Len(made)
  /\ past \in [failed : [URLs -> Nat \union {-1}], blanked : BOOLEAN, hammered : BOOLEAN, robbed : BOOLEAN]

OneEach == \A d, e \in Kept : made[d].url = made[e].url => d = e

\* A fetch that succeeded is never repeated, so whoever waited for it has its
\* hash as long as it likes.
Lasting ==
  /\ \A e \in 1..Len(made) : made[e].runs = "no" /\ made[e].expires = 0 => made[e].hash = made[e].url
  /\ \A c \in Callers : callers[c].at = "told" /\ callers[c].owed # "none" =>
       LET e == callers[c].entry
       IN made[e].runs = "no" /\ made[e].expires = 0 /\ made[e].hash = callers[c].owed

\* What an entry in the cache remembers of its URL's last failure.
Tells(entry, failed, time) ==
  /\ failed # -1 => time >= failed + NegativeTTL \/ (entry.runs = "no" /\ entry.expires = failed + NegativeTTL)
  /\ entry.runs = "no" /\ entry.hash = "none" =>
       entry.expires =< time \/ (failed # -1 /\ entry.expires = failed + NegativeTTL)

\* What is remembered of a URL is the failure of its entry in the cache.
Remembered ==
  /\ \A u \in URLs : past.failed[u] # -1 => \E e \in Kept : made[e].url = u
  /\ \A e \in Kept : Tells(made[e], past.failed[made[e].url], now)

Faultless == ~past.blanked /\ ~past.hammered /\ ~past.robbed

CInv == TypedPosters /\ OneEach /\ Lasting /\ Remembered /\ Faultless

LEMMA KeptAre ==
  ASSUME TypedPosters
  PROVE  /\ Kept = {order[i] : i \in 1..Len(order)} /\ Kept \subseteq 1..Len(made)
         /\ \A e \in 1..Len(made) : made[e] \in Entries
<1>1. order \in Seq(1..Len(made)) /\ made \in Seq(Entries)  BY DEF TypedPosters
<1>2. DOMAIN order = 1..Len(order)  BY <1>1, LenProperties
<1>3. Kept = {order[i] : i \in 1..Len(order)}  BY <1>2 DEF Kept, Posters!ToSet
<1>4. \A i \in 1..Len(order) : order[i] \in 1..Len(made)  BY <1>1, ElementOfSeq, Zenon
<1>5. \A e \in 1..Len(made) : made[e] \in Entries  BY <1>1, ElementOfSeq, Zenon
<1>6. QED  BY <1>3, <1>4, <1>5

\* A sequence without the element at i.
LEMMA Without ==
  ASSUME NEW S, NEW s \in Seq(S), NEW i \in 1..Len(s)
  PROVE  LET rest == Posters!RemoveAt(s, i)
         IN /\ rest \in Seq(S) /\ Len(rest) = Len(s) - 1
            /\ \A j \in 1..Len(rest) : rest[j] = s[IF j < i THEN j ELSE j + 1]
<1> DEFINE a == SubSeq(s, 1, i - 1)  b == SubSeq(s, i + 1, Len(s))
<1>1. Len(s) \in Nat /\ \A j \in 1..Len(s) : s[j] \in S  BY ElementOfSeq, LenProperties, Zenon
<1>2. a \in Seq(S) /\ Len(a) = i - 1 /\ \A j \in 1..(i - 1) : a[j] = s[j]
  <2>1. \A j \in 1..(i - 1) : s[j] \in S  BY <1>1
  <2>2. a \in Seq(S) /\ Len(a) = (IF 1 =< i - 1 THEN (i - 1) - 1 + 1 ELSE 0)
        /\ \A j \in 1..((i - 1) - 1 + 1) : a[j] = s[1 + j - 1]
    BY <1>1, <2>1, SubSeqProperties
  <2>3. QED  BY <1>1, <2>2
<1>3. b \in Seq(S) /\ Len(b) = Len(s) - i /\ \A j \in 1..(Len(s) - i) : b[j] = s[i + j]
  <2>1. \A j \in (i + 1)..Len(s) : s[j] \in S  BY <1>1
  <2>2. b \in Seq(S) /\ Len(b) = (IF i + 1 =< Len(s) THEN Len(s) - (i + 1) + 1 ELSE 0)
        /\ \A j \in 1..(Len(s) - (i + 1) + 1) : b[j] = s[(i + 1) + j - 1]
    BY <1>1, <2>1, SubSeqProperties
  <2>3. \A j \in 1..(Len(s) - i) : (i + 1) + j - 1 = i + j /\ j \in 1..(Len(s) - (i + 1) + 1)  BY <1>1
  <2>4. Len(b) = Len(s) - i  BY <1>1, <2>2
  <2>5. QED  BY <2>2, <2>3, <2>4
<1> HIDE DEF a, b
<1>4. a \o b \in Seq(S) /\ Len(a \o b) = Len(s) - 1
      /\ \A j \in 1..(Len(s) - 1) : (a \o b)[j] = IF j =< i - 1 THEN a[j] ELSE b[j - (i - 1)]
  <2>1. a \o b \in Seq(S) /\ Len(a \o b) = Len(a) + Len(b)
        /\ \A j \in 1..(Len(a) + Len(b)) : (a \o b)[j] = IF j =< Len(a) THEN a[j] ELSE b[j - Len(a)]
    BY <1>2, <1>3, ConcatProperties
  <2>2. Len(a) + Len(b) = Len(s) - 1  BY <1>1, <1>2, <1>3
  <2>3. QED  BY <1>2, <2>1, <2>2
<1>5. \A j \in 1..(Len(s) - 1) : (a \o b)[j] = s[IF j < i THEN j ELSE j + 1]
  <2> SUFFICES ASSUME NEW j \in 1..(Len(s) - 1) PROVE (a \o b)[j] = s[IF j < i THEN j ELSE j + 1]
    OBVIOUS
  <2>1. CASE j < i  BY <1>1, <1>2, <1>4, <2>1
  <2>2. CASE ~(j < i)
    <3>1. j - (i - 1) \in 1..(Len(s) - i) /\ i + (j - (i - 1)) = j + 1  BY <1>1, <2>2
    <3>2. (a \o b)[j] = b[j - (i - 1)]  BY <1>1, <1>4, <2>2
    <3>3. QED  BY <1>3, <2>2, <3>1, <3>2
  <2>3. QED  BY <2>1, <2>2
<1>6. Posters!RemoveAt(s, i) = a \o b  BY DEF Posters!RemoveAt, a, b
<1>7. QED  BY <1>4, <1>5, <1>6

LEMMA Fronted ==
  ASSUME NEW S, NEW s \in Seq(S), NEW e \in S
  PROVE  /\ <<e>> \o s \in Seq(S) /\ Len(<<e>> \o s) = Len(s) + 1
         /\ (<<e>> \o s)[1] = e /\ \A j \in 2..(Len(s) + 1) : (<<e>> \o s)[j] = s[j - 1]
<1>1. <<e>> \in Seq(S) /\ Len(<<e>>) = 1 /\ <<e>>[1] = e /\ Len(s) \in Nat  BY LenProperties
<1>2. /\ <<e>> \o s \in Seq(S) /\ Len(<<e>> \o s) = 1 + Len(s)
      /\ \A j \in 1..(1 + Len(s)) : (<<e>> \o s)[j] = IF j =< 1 THEN <<e>>[j] ELSE s[j - 1]
  <2>1. /\ <<e>> \o s \in Seq(S) /\ Len(<<e>> \o s) = Len(<<e>>) + Len(s)
        /\ \A j \in 1..(Len(<<e>>) + Len(s)) :
             (<<e>> \o s)[j] = IF j =< Len(<<e>>) THEN <<e>>[j] ELSE s[j - Len(<<e>>)]
    <3> DEFINE one == <<e>>
    <3> one \in Seq(S)  BY <1>1
    <3> HIDE DEF one
    <3>1. /\ one \o s \in Seq(S) /\ Len(one \o s) = Len(one) + Len(s)
          /\ \A j \in 1..(Len(one) + Len(s)) :
               (one \o s)[j] = IF j =< Len(one) THEN one[j] ELSE s[j - Len(one)]
      BY ConcatProperties
    <3>2. QED  BY <3>1 DEF one
  <2>2. QED  BY <1>1, <2>1
<1>3. QED  BY <1>1, <1>2

\* The entry that was hit is the one used last, and nothing else changes.
LEMMA FrontKeeps ==
  ASSUME TypedPosters, NEW e, Posters!ToFront(e)
  PROVE  /\ order' \in Seq(1..Len(made)) /\ Len(order') = Len(order)
         /\ \A i, j \in 1..Len(order') : order'[i] = order'[j] => i = j
         /\ {order'[i] : i \in 1..Len(order')} = {order[i] : i \in 1..Len(order)}
<1> DEFINE S == 1..Len(made)
<1>1. order \in Seq(S) /\ Len(order) \in Nat /\ DOMAIN order = 1..Len(order)
  BY LenProperties DEF TypedPosters
<1>2. PICK i \in 1..Len(order) : order[i] = e /\ order' = <<e>> \o Posters!RemoveAt(order, i)
  BY <1>1 DEF Posters!ToFront
<1> DEFINE rest == Posters!RemoveAt(order, i)
<1>3. /\ rest \in Seq(S) /\ Len(rest) = Len(order) - 1
      /\ \A j \in 1..Len(rest) : rest[j] = order[IF j < i THEN j ELSE j + 1]
  BY <1>1, Without
<1>4. e \in S  BY <1>1, <1>2, ElementOfSeq
<1> HIDE DEF S, rest
<1>5. /\ order' \in Seq(S) /\ Len(order') = Len(order)
      /\ order'[1] = e /\ \A j \in 2..Len(order) : order'[j] = rest[j - 1]
  <2>1. order' = <<e>> \o rest  BY <1>2 DEF rest
  <2>2. /\ <<e>> \o rest \in Seq(S) /\ Len(<<e>> \o rest) = Len(rest) + 1
        /\ (<<e>> \o rest)[1] = e /\ \A j \in 2..(Len(rest) + 1) : (<<e>> \o rest)[j] = rest[j - 1]
    <3>1. rest \in Seq(S) /\ e \in S  BY <1>3, <1>4
    <3>2. QED  BY <3>1, Fronted
  <2>3. Len(rest) + 1 = Len(order)  BY <1>1, <1>3
  <2>4. QED  BY <2>1, <2>2, <2>3
<1>6. \A j \in 2..Len(order) : order'[j] = order[IF j - 1 < i THEN j - 1 ELSE j]
  <2> SUFFICES ASSUME NEW j \in 2..Len(order) PROVE order'[j] = order[IF j - 1 < i THEN j - 1 ELSE j]
    OBVIOUS
  <2>1. j - 1 \in 1..Len(rest) /\ (j - 1) + 1 = j  BY <1>1, <1>3
  <2>2. QED  BY <1>3, <1>5, <2>1
<1> DEFINE from(j) == IF j = 1 THEN i ELSE IF j - 1 < i THEN j - 1 ELSE j
<1>7. \A j \in 1..Len(order) : from(j) \in 1..Len(order) /\ order'[j] = order[from(j)]
  <2> SUFFICES ASSUME NEW j \in 1..Len(order) PROVE from(j) \in 1..Len(order) /\ order'[j] = order[from(j)]
    OBVIOUS
  <2>1. CASE j = 1  BY <1>2, <1>5, <2>1
  <2>2. CASE j # 1  BY <1>1, <1>6, <2>2
  <2>3. QED  BY <2>1, <2>2
<1>8. \A j, k \in 1..Len(order) : from(j) = from(k) => j = k  BY <1>1
<1>9. \A k \in 1..Len(order) : \E j \in 1..Len(order) : from(j) = k
  <2> SUFFICES ASSUME NEW k \in 1..Len(order) PROVE \E j \in 1..Len(order) : from(j) = k
    OBVIOUS
  <2>1. CASE k = i  BY <1>1, <2>1
  <2>2. CASE k < i
    <3>1. k + 1 \in 1..Len(order) /\ from(k + 1) = k  BY <1>1, <2>2
    <3>2. QED  BY <3>1
  <2>3. CASE k > i
    <3>1. from(k) = k  BY <1>1, <2>3
    <3>2. QED  BY <3>1
  <2>4. QED  BY <1>1, <2>1, <2>2, <2>3
<1> HIDE DEF from
<1>10. \A j, k \in 1..Len(order') : order'[j] = order'[k] => j = k
  <2> SUFFICES ASSUME NEW j \in 1..Len(order), NEW k \in 1..Len(order), order'[j] = order'[k] PROVE j = k
    BY <1>5
  <2>1. order[from(j)] = order[from(k)] /\ from(j) \in 1..Len(order) /\ from(k) \in 1..Len(order)
    BY <1>7, Zenon
  <2>2. from(j) = from(k)  BY <2>1 DEF TypedPosters
  <2>3. QED  BY <1>8, <2>2
<1>11. {order'[j] : j \in 1..Len(order')} = {order[j] : j \in 1..Len(order)}
  <2>1. \A j \in 1..Len(order) : \E k \in 1..Len(order) : order'[j] = order[k]  BY <1>7, Zenon
  <2>2. \A k \in 1..Len(order) : \E j \in 1..Len(order) : order'[j] = order[k]
    <3> SUFFICES ASSUME NEW k \in 1..Len(order) PROVE \E j \in 1..Len(order) : order'[j] = order[k]
      OBVIOUS
    <3>1. PICK j \in 1..Len(order) : from(j) = k  BY <1>9
    <3>2. QED  BY <1>7, <3>1
  <2>3. Len(order') = Len(order)  BY <1>5
  <2> DEFINE A == {order'[j] : j \in 1..Len(order)}  B == {order[j] : j \in 1..Len(order)}
  <2>4. A \subseteq B  BY <2>1
  <2>5. B \subseteq A  BY <2>2
  <2>6. A = B  BY <2>4, <2>5
  <2>7. QED  BY <2>3, <2>6
<1>12. QED  BY <1>5, <1>10, <1>11 DEF S

LEMMA FrontKept ==
  ASSUME TypedPosters, NEW e, Posters!ToFront(e)
  PROVE  Kept' = Kept
<1>1. order' \in Seq(1..Len(made)) /\ {order'[i] : i \in 1..Len(order')} = {order[i] : i \in 1..Len(order)}
  BY FrontKeeps
<1>2. DOMAIN order' = 1..Len(order')  BY <1>1, LenProperties
<1>3. Kept' = {order'[i] : i \in DOMAIN order'}  BY DEF Kept, Posters!ToSet
<1>4. QED  BY <1>1, <1>2, <1>3, KeptAre

LEMMA PostersStart ==
  ASSUME CacheAssumed, Posters!Init
  PROVE  CInv
<1> USE DEF Posters!Init, Posters!Idle, Posters!NoHash, Posters!Never
<1>1. made = <<>> /\ order = <<>> /\ Len(made) = 0 /\ Len(order) = 0 /\ <<>> \in Seq(Entries) /\ <<>> \in Seq(1..0)
  BY EmptySeq
<1>2. TypedPosters  BY <1>1 DEF TypedPosters, CacheAssumed
<1>3. Kept = {}
  <2>1. Kept = {order[i] : i \in 1..Len(order)}  BY <1>2, KeptAre
  <2>2. QED  BY <1>1, <2>1
<1>4. OneEach  BY <1>3 DEF OneEach
<1>5. Lasting  BY <1>1 DEF Lasting
<1>6. Remembered  BY <1>3 DEF Remembered, Tells
<1>7. QED  BY <1>2, <1>4, <1>5, <1>6 DEF CInv, Faultless

LEMMA PostersTick ==
  ASSUME CacheAssumed, CInv, Posters!Tick
  PROVE  CInv'
<1> USE DEF Posters!Tick, CInv
<1>1. Kept' = Kept  BY DEF Kept, Posters!ToSet
<1>2. now \in Nat /\ now' = now + 1  BY DEF TypedPosters
<1>3. TypedPosters'  BY <1>2 DEF TypedPosters
<1>4. OneEach'  BY <1>1 DEF OneEach
<1>5. Lasting'  BY DEF Lasting
<1>6. Remembered'
  <2>1. /\ Kept \subseteq 1..Len(made) /\ \A e \in 1..Len(made) : made[e] \in Entries  BY KeptAre
  <2>2. \A e \in Kept : made[e].url \in URLs /\ made[e].expires \in Nat /\ past.failed[made[e].url] \in Nat \union {-1}
    BY <2>1 DEF Entries, TypedPosters
  <2>3. made' = made /\ past' = past /\ NegativeTTL \in Nat  BY DEF CacheAssumed
  <2>4. QED  BY <1>1, <1>2, <2>2, <2>3 DEF Remembered, Tells
<1>7. Faultless'  BY DEF Faultless
<1>8. QED  BY <1>3, <1>4, <1>5, <1>6, <1>7

\* A webhook takes what it waited for, or goes on without.
LEMMA LeftKeeps ==
  ASSUME CacheAssumed, CInv, NEW c \in Callers, Posters!Thumbhash(c) \/ Posters!GoesOn(c)
  PROVE  CInv'
<1> USE DEF CInv, Posters!Idle, Posters!NoHash
<1>1. callers' = [callers EXCEPT ![c] = Posters!Idle] /\ UNCHANGED <<made, order, now>>
  BY DEF Posters!Thumbhash, Posters!GoesOn
<1>2. past' = past
  <2>1. CASE Posters!GoesOn(c)  BY <2>1 DEF Posters!GoesOn
  <2>2. CASE Posters!Thumbhash(c)
    <3>1. callers[c].at = "told"  BY <2>2 DEF Posters!Thumbhash
    <3>2. callers[c].entry \in 1..Len(made)  BY <3>1 DEF TypedPosters
    <3>3. made[callers[c].entry] \in Entries  BY <3>2, KeptAre
    <3>4. ~(callers[c].owed # "none" /\ Posters!HashOf(c) = "none")
      BY <3>1 DEF Lasting, Posters!HashOf
    <3> DEFINE blank == callers[c].owed # "none" /\ Posters!HashOf(c) = "none"
    <3>5. past' = [past EXCEPT !.robbed = past.robbed \/ blank]  BY <2>2 DEF Posters!Thumbhash
    <3>6. (past.robbed \/ blank) = past.robbed
      <4>1. past.robbed \in BOOLEAN  BY DEF TypedPosters
      <4>2. QED  BY <3>4, <4>1, Zenon
    <3>7. QED  BY <3>5, <3>6 DEF TypedPosters
  <2>3. QED  BY <2>1, <2>2
<1>3. Kept' = Kept  BY <1>1 DEF Kept, Posters!ToSet
<1>4. TypedPosters'  BY <1>1, <1>2 DEF TypedPosters
<1>5. OneEach'  BY <1>1, <1>3 DEF OneEach
<1>6. Lasting'  BY <1>1, <1>2 DEF Lasting, TypedPosters
<1>7. Remembered'  BY <1>1, <1>2, <1>3 DEF Remembered, Tells
<1>8. Faultless'  BY <1>2 DEF Faultless
<1>9. QED  BY <1>4, <1>5, <1>6, <1>7, <1>8

LEMMA SlotKeeps ==
  ASSUME CacheAssumed, CInv, NEW e \in DOMAIN made, Posters!TakeSlot(e)
  PROVE  CInv'
<1> USE DEF CInv
<1>1. e \in 1..Len(made) /\ made[e] \in Entries /\ made \in Seq(Entries)
  <2>1. made \in Seq(Entries)  BY DEF TypedPosters
  <2>2. DOMAIN made = 1..Len(made)  BY <2>1, LenProperties
  <2>3. QED  BY <2>1, <2>2, KeptAre
<1>2. /\ made[e].runs = "queued" /\ made' = [made EXCEPT ![e] = [made[e] EXCEPT !.runs = "fetching"]]
      /\ UNCHANGED <<callers, order, now, past>>
  BY DEF Posters!TakeSlot
<1>3. made' \in Seq(Entries) /\ Len(made') = Len(made)
      /\ \A d \in 1..Len(made) : made'[d] = IF d = e THEN [made[e] EXCEPT !.runs = "fetching"] ELSE made[d]
  <2>1. [made[e] EXCEPT !.runs = "fetching"] \in Entries  BY <1>1 DEF Entries
  <2>2. QED  BY <1>1, <1>2, <2>1, ExceptSeq
<1>4. Kept' = Kept /\ Kept \subseteq 1..Len(made)  BY <1>2, KeptAre DEF Kept, Posters!ToSet
<1>5. \A d \in 1..Len(made) : /\ made'[d].url = made[d].url
                              /\ d # e => made'[d] = made[d]
                              /\ d = e => made'[d].runs = "fetching"
  BY <1>1, <1>3 DEF Entries
<1>6. TypedPosters'  BY <1>2, <1>3 DEF TypedPosters
<1>7. OneEach'  BY <1>4, <1>5 DEF OneEach
<1>8. Lasting'
  <2>1. \A c \in Callers : callers[c].at = "told" => callers[c].entry \in 1..Len(made)  BY DEF TypedPosters
  <2>2. QED  BY <1>2, <1>3, <1>5, <2>1 DEF Lasting
<1>9. Remembered'  BY <1>2, <1>4, <1>5 DEF Remembered, Tells
<1>10. Faultless'  BY <1>2 DEF Faultless
<1>11. QED  BY <1>6, <1>7, <1>8, <1>9, <1>10

LEMMA HitKeeps ==
  ASSUME CacheAssumed, CInv, NEW c \in Callers, callers[c] = Posters!Idle, NEW u \in URLs,
         NEW e \in Posters!Cached(u), Posters!Hit(c, u, e), UNCHANGED now
  PROVE  CInv'
<1> USE DEF CInv, Posters!Idle, Posters!NoHash, Posters!Zero, Posters!Never
<1>1. e \in Kept /\ made[e].url = u /\ Posters!ToFront(e)  BY DEF Posters!Cached, Kept, Posters!Hit
<1>2. e \in 1..Len(made) /\ made[e] \in Entries /\ made \in Seq(Entries)  BY <1>1, KeptAre DEF TypedPosters
<1>3. Kept' = Kept /\ Kept \subseteq 1..Len(made)  BY <1>1, FrontKept, KeptAre
<1>4. /\ order' \in Seq(1..Len(made)) /\ Len(order') = Len(order)
      /\ \A i, j \in 1..Len(order') : order'[i] = order'[j] => i = j
  BY <1>1, FrontKeeps
<1>5. past.failed[u] \in Nat \union {-1} /\ now \in Nat /\ NegativeTTL \in Nat /\ made[e].expires \in Nat
  BY <1>2 DEF TypedPosters, CacheAssumed, Entries
<1>6. Tells(made[e], past.failed[u], now)  BY <1>1 DEF Remembered, Tells
<1>7. /\ past' = past
      /\ \/ UNCHANGED <<made, callers>>
         \/ Posters!Wait(c, e) /\ made' = made
         \/ /\ Posters!Wait(c, e)
            /\ made[e].runs = "no" /\ made[e].expires # 0 /\ now >= made[e].expires
            /\ made' = [made EXCEPT ![e] = [made[e] EXCEPT !.hash = "none", !.runs = "queued"]]
  <2>1. CASE Posters!Pending(e)  BY <2>1 DEF Posters!Hit
  <2>2. CASE ~Posters!Pending(e) /\ (made[e].expires = 0 \/ now < made[e].expires)
    <3> DEFINE blank == made[e].hash = "none" /\ ~Posters!Recent(u)
    <3>1. past' = [past EXCEPT !.blanked = past.blanked \/ blank] /\ UNCHANGED <<callers, made>>
      BY <2>2 DEF Posters!Hit
    <3>2. made[e].runs = "no"  BY <2>2 DEF Posters!Pending
    <3>3. made[e].expires = 0 => made[e].hash # "none"
      BY <1>1, <1>2, <3>2 DEF Lasting, CacheAssumed
    <3>4. ~blank
      <4> SUFFICES ASSUME made[e].hash = "none" PROVE Posters!Recent(u)
        OBVIOUS
      <4>1. past.failed[u] # -1 /\ made[e].expires = past.failed[u] + NegativeTTL /\ now < made[e].expires
        BY <1>5, <1>6, <2>2, <3>2, <3>3 DEF Tells
      <4>2. QED  BY <1>5, <4>1 DEF Posters!Recent
    <3>5. (past.blanked \/ blank) = past.blanked
      <4>1. past.blanked \in BOOLEAN  BY DEF TypedPosters
      <4>2. QED  BY <3>4, <4>1, Zenon
    <3>6. past' = past  BY <3>1, <3>5 DEF TypedPosters
    <3>7. QED  BY <3>1, <3>6
  <2>3. CASE ~Posters!Pending(e) /\ ~(made[e].expires = 0 \/ now < made[e].expires)
    <3>1. /\ past' = [past EXCEPT !.hammered = past.hammered \/ Posters!Recent(u)] /\ Posters!Wait(c, e)
          /\ made' = [made EXCEPT ![e].hash = "none", ![e].runs = "queued"]
      BY <2>3 DEF Posters!Hit
    <3>2. made[e].runs = "no" /\ made[e].expires # 0 /\ now >= made[e].expires
      BY <1>5, <2>3 DEF Posters!Pending
    <3>3. ~Posters!Recent(u)  BY <1>5, <1>6, <3>2 DEF Posters!Recent, Tells
    <3>4. (past.hammered \/ Posters!Recent(u)) = past.hammered
      <4>1. past.hammered \in BOOLEAN  BY DEF TypedPosters
      <4>2. QED  BY <3>3, <4>1, Zenon
    <3>5. past' = past  BY <3>1, <3>4 DEF TypedPosters
    <3>6. made' = [made EXCEPT ![e] = [made[e] EXCEPT !.hash = "none", !.runs = "queued"]]
      BY <1>2, <3>1
    <3>7. QED  BY <3>1, <3>2, <3>5, <3>6
  <2>4. QED  BY <2>1, <2>2, <2>3
<1>8. /\ made' \in Seq(Entries) /\ Len(made') = Len(made)
      /\ \A d \in 1..Len(made) :
           \/ made'[d] = made[d]
           \/ /\ made[d].runs = "no" /\ made[d].expires # 0 /\ now >= made[d].expires
              /\ made'[d] = [made[d] EXCEPT !.hash = "none", !.runs = "queued"]
  <2>1. CASE made' = made  BY <1>2, <2>1
  <2>2. CASE /\ made[e].runs = "no" /\ made[e].expires # 0 /\ now >= made[e].expires
             /\ made' = [made EXCEPT ![e] = [made[e] EXCEPT !.hash = "none", !.runs = "queued"]]
    <3>1. [made[e] EXCEPT !.hash = "none", !.runs = "queued"] \in Entries  BY <1>2 DEF Entries
    <3>2. /\ made' \in Seq(Entries) /\ Len(made') = Len(made)
          /\ \A d \in 1..Len(made) :
               made'[d] = IF d = e THEN [made[e] EXCEPT !.hash = "none", !.runs = "queued"] ELSE made[d]
      BY <1>2, <2>2, <3>1, ExceptSeq
    <3>3. QED  BY <2>2, <3>2
  <2>3. QED  BY <1>7, <2>1, <2>2
<1>9. \A d \in 1..Len(made) : made[d] \in Entries  BY KeptAre
<1>10. \A d \in 1..Len(made) : made'[d].url = made[d].url /\ made'[d].expires = made[d].expires
  BY <1>8, <1>9 DEF Entries
<1>11. \A x \in Callers : callers'[x] = callers[x] \/ callers'[x] = [at |-> "waiting", entry |-> e, owed |-> "none"]
  BY <1>7 DEF Posters!Wait, TypedPosters
<1>12. TypedPosters'
  <2>1. callers' \in [Callers -> [at : {"idle", "waiting", "told"}, entry : Nat, owed : URLs \union {"none"}]]
    BY <1>2, <1>7 DEF Posters!Wait, TypedPosters
  <2>2. \A x \in Callers : callers'[x].at # "idle" => callers'[x].entry \in 1..Len(made')
    <3> SUFFICES ASSUME NEW x \in Callers, callers'[x].at # "idle" PROVE callers'[x].entry \in 1..Len(made')
      OBVIOUS
    <3>1. CASE callers'[x] = callers[x]  BY <1>8, <3>1 DEF TypedPosters
    <3>2. CASE callers'[x] = [at |-> "waiting", entry |-> e, owed |-> "none"]
      <4>1. callers'[x].entry = e  BY <3>2
      <4>2. Len(made') = Len(made)  BY <1>8
      <4>3. QED  BY <1>2, <4>1, <4>2
    <3>3. QED  BY <1>11, <3>1, <3>2
  <2>3. QED  BY <1>4, <1>7, <1>8, <2>1, <2>2 DEF TypedPosters
<1>13. OneEach'  BY <1>3, <1>10 DEF OneEach
<1>14. Lasting'
  <2>1. \A d \in 1..Len(made') : made'[d].runs = "no" /\ made'[d].expires = 0 => made'[d].hash = made'[d].url
    <3> SUFFICES ASSUME NEW d \in 1..Len(made), made'[d].runs = "no", made'[d].expires = 0
                 PROVE  made'[d].hash = made'[d].url
      BY <1>8
    <3>1. made'[d] = made[d]
      <4>1. made[d] \in Entries  BY <1>9
      <4>2. [made[d] EXCEPT !.hash = "none", !.runs = "queued"].runs # "no"  BY <4>1 DEF Entries
      <4>3. QED  BY <1>8, <4>2
    <3>2. QED  BY <3>1 DEF Lasting
  <2>2. ASSUME NEW x \in Callers, callers'[x].at = "told", callers'[x].owed # "none"
        PROVE  LET d == callers'[x].entry
               IN made'[d].runs = "no" /\ made'[d].expires = 0 /\ made'[d].hash = callers'[x].owed
    <3>1. callers'[x] = callers[x]  BY <1>11, <2>2
    <3>2. callers[x].entry \in 1..Len(made)  BY <2>2, <3>1 DEF TypedPosters
    <3>3. made[callers[x].entry].expires = 0 /\ made[callers[x].entry].runs = "no"
          /\ made[callers[x].entry].hash = callers[x].owed
      BY <2>2, <3>1 DEF Lasting
    <3>4. made'[callers[x].entry] = made[callers[x].entry]  BY <1>8, <3>2, <3>3
    <3>5. QED  BY <3>1, <3>3, <3>4
  <2>3. QED  BY <2>1, <2>2 DEF Lasting
<1>15. Remembered'
  <2>1. \A v \in URLs : past'.failed[v] # -1 => \E d \in Kept' : made'[d].url = v
    BY <1>3, <1>7, <1>10 DEF Remembered, Tells
  <2>2. ASSUME NEW d \in Kept' PROVE Tells(made'[d], past'.failed[made'[d].url], now')
    <3>1. d \in Kept /\ d \in 1..Len(made)  BY <1>3, <2>2
    <3>2. Tells(made[d], past.failed[made[d].url], now)  BY <3>1 DEF Remembered, Tells
    <3>3. made[d] \in Entries /\ past.failed[made[d].url] \in Nat \union {-1}
      BY <1>9, <3>1 DEF TypedPosters, Entries
    <3>4. CASE made'[d] = made[d]  BY <1>7, <3>2, <3>4
    <3>5. CASE /\ made[d].runs = "no" /\ made[d].expires # 0 /\ now >= made[d].expires
               /\ made'[d] = [made[d] EXCEPT !.hash = "none", !.runs = "queued"]
      <4>1. made'[d].runs = "queued" /\ made'[d].url = made[d].url  BY <3>3, <3>5 DEF Entries
      <4>2. made[d].expires \in Nat  BY <3>3 DEF Entries
      <4>3. past.failed[made[d].url] # -1 => now >= past.failed[made[d].url] + NegativeTTL
        BY <1>5, <3>2, <3>3, <3>5, <4>2 DEF Tells
      <4>4. QED  BY <1>7, <4>1, <4>3 DEF Tells
    <3>6. QED  BY <1>8, <3>1, <3>4, <3>5
  <2>3. QED  BY <2>1, <2>2 DEF Remembered, Tells
<1>16. Faultless'  BY <1>7 DEF Faultless
<1>17. QED  BY <1>12, <1>13, <1>14, <1>15, <1>16

LEMMA SettleKeeps ==
  ASSUME CacheAssumed, CInv, NEW e \in DOMAIN made, Posters!Pending(e),
         NEW result \in {"ok", "timeout", "refused", "error"}, Posters!Settle(e, result)
  PROVE  CInv'
<1> USE DEF CInv, Posters!NoHash, Posters!Zero
<1>1. e \in 1..Len(made) /\ made[e] \in Entries /\ made \in Seq(Entries) /\ made[e].runs # "no"
  <2>1. made \in Seq(Entries)  BY DEF TypedPosters
  <2>2. DOMAIN made = 1..Len(made)  BY <2>1, LenProperties
  <2>3. QED  BY <2>1, <2>2, KeptAre DEF Posters!Pending
<1>2. now \in Nat /\ NegativeTTL \in Nat /\ made[e].url \in URLs /\ made[e].url # "none"
  BY <1>1 DEF TypedPosters, CacheAssumed, Entries
<1> DEFINE hash == IF result = "ok" THEN made[e].url ELSE "none"
           until == Posters!Expires(result)
           done == [made[e] EXCEPT !.hash = hash, !.runs = "no", !.expires = until]
<1>3. until \in Nat /\ (result = "ok" => until = 0) /\ (result = "timeout" => until = now)
      /\ (result \in {"refused", "error"} => until = now + NegativeTTL)
  BY <1>2 DEF Posters!Expires
<1>4. hash \in URLs \union {"none"}  BY <1>2
<1>5. /\ made' = [made EXCEPT ![e] = done] /\ UNCHANGED <<order, now>>
      /\ callers' = [c \in Callers |-> IF callers[c].at = "waiting" /\ callers[c].entry = e
                                       THEN [callers[c] EXCEPT !.at = "told", !.owed = hash] ELSE callers[c]]
      /\ past' = [past EXCEPT !.failed = [past.failed EXCEPT ![made[e].url] =
                    IF e \in Kept /\ result \in {"refused", "error"} THEN now ELSE past.failed[made[e].url]]]
  BY DEF Posters!Settle, Kept
<1> HIDE DEF hash, until
<1>6. done \in Entries /\ done.url = made[e].url /\ done.hash = hash /\ done.runs = "no" /\ done.expires = until
  BY <1>1, <1>3, <1>4 DEF Entries
<1> HIDE DEF done
<1>7. /\ made' \in Seq(Entries) /\ Len(made') = Len(made)
      /\ \A d \in 1..Len(made) : made'[d] = IF d = e THEN done ELSE made[d]
  <2>1. done \in Entries  BY <1>6
  <2>2. made' = [made EXCEPT ![e] = done]  BY <1>5
  <2>3. /\ [made EXCEPT ![e] = done] \in Seq(Entries) /\ Len([made EXCEPT ![e] = done]) = Len(made)
        /\ \A d \in 1..Len(made) : [made EXCEPT ![e] = done][d] = IF d = e THEN done ELSE made[d]
    BY <1>1, <2>1, ExceptSeq
  <2>4. QED  BY <2>2, <2>3
<1>8. \A d \in 1..Len(made) : made'[d].url = made[d].url /\ made[d] \in Entries  BY <1>6, <1>7, KeptAre
<1>9. Kept' = Kept /\ Kept \subseteq 1..Len(made)  BY <1>5, KeptAre DEF Kept, Posters!ToSet
<1>10. /\ past'.failed \in [URLs -> Nat \union {-1}]
       /\ past'.blanked = past.blanked /\ past'.hammered = past.hammered /\ past'.robbed = past.robbed
       /\ \A u \in URLs : past'.failed[u] =
            IF u = made[e].url /\ e \in Kept /\ result \in {"refused", "error"} THEN now ELSE past.failed[u]
  BY <1>2, <1>5 DEF TypedPosters
<1>11. \A c \in Callers :
         callers'[c] = IF callers[c].at = "waiting" /\ callers[c].entry = e
                       THEN [callers[c] EXCEPT !.at = "told", !.owed = hash] ELSE callers[c]
  BY <1>5
<1>12. TypedPosters'
  <2>1. callers' \in [Callers -> [at : {"idle", "waiting", "told"}, entry : Nat, owed : URLs \union {"none"}]]
    <3> SUFFICES ASSUME NEW c \in Callers
                 PROVE  callers'[c] \in [at : {"idle", "waiting", "told"}, entry : Nat, owed : URLs \union {"none"}]
      BY <1>5
    <3>1. callers[c] \in [at : {"idle", "waiting", "told"}, entry : Nat, owed : URLs \union {"none"}]
      BY DEF TypedPosters
    <3>2. QED  BY <1>4, <1>11, <3>1
  <2>2. \A c \in Callers : callers'[c].at # "idle" => callers'[c].entry \in 1..Len(made')
    <3> SUFFICES ASSUME NEW c \in Callers, callers'[c].at # "idle" PROVE callers'[c].entry \in 1..Len(made)
      BY <1>7
    <3>1. callers'[c].entry = callers[c].entry /\ callers[c].at # "idle"  BY <1>11 DEF TypedPosters
    <3>2. QED  BY <3>1 DEF TypedPosters
  <2>3. past' \in [failed : [URLs -> Nat \union {-1}], blanked : BOOLEAN, hammered : BOOLEAN, robbed : BOOLEAN]
    BY <1>2, <1>5 DEF TypedPosters
  <2>4. now' = now /\ order' = order  BY <1>5
  <2>5. QED  BY <1>7, <2>1, <2>2, <2>3, <2>4 DEF TypedPosters
<1>13. OneEach'  BY <1>8, <1>9 DEF OneEach
<1>14. Lasting'
  <2>1. ASSUME NEW d \in 1..Len(made'), made'[d].runs = "no", made'[d].expires = 0 PROVE made'[d].hash = made'[d].url
    <3>1. CASE d # e  BY <1>7, <2>1, <3>1 DEF Lasting
    <3>2. CASE d = e
      <4>1. until = 0 /\ made'[d].hash = hash  BY <1>6, <1>7, <2>1, <3>2
      <4>2. now \in Nat \ {0}  BY DEF TypedPosters
      <4>3. result = "ok"  BY <1>2, <1>3, <4>1, <4>2
      <4>4. QED  BY <1>6, <1>7, <2>1, <3>2, <4>1, <4>3 DEF hash
    <3>3. QED  BY <3>1, <3>2
  <2>2. ASSUME NEW c \in Callers, callers'[c].at = "told", callers'[c].owed # "none"
        PROVE  LET d == callers'[c].entry
               IN made'[d].runs = "no" /\ made'[d].expires = 0 /\ made'[d].hash = callers'[c].owed
    <3>1. CASE callers[c].at = "waiting" /\ callers[c].entry = e
      <4>1. callers'[c].owed = hash /\ callers'[c].entry = e  BY <1>11, <3>1 DEF TypedPosters
      <4>2. result = "ok"  BY <2>2, <4>1 DEF hash
      <4>3. QED  BY <1>1, <1>3, <1>6, <1>7, <4>1, <4>2
    <3>2. CASE ~(callers[c].at = "waiting" /\ callers[c].entry = e)
      <4>1. callers'[c] = callers[c]  BY <1>11, <3>2
      <4>2. callers[c].entry \in 1..Len(made)  BY <2>2, <4>1 DEF TypedPosters
      <4>3. made[callers[c].entry].runs = "no" /\ made[callers[c].entry].expires = 0
            /\ made[callers[c].entry].hash = callers[c].owed
        BY <2>2, <4>1 DEF Lasting
      <4>4. made'[callers[c].entry] = made[callers[c].entry]  BY <1>1, <1>7, <4>2, <4>3
      <4>5. QED  BY <4>1, <4>3, <4>4
    <3>3. QED  BY <3>1, <3>2
  <2>3. QED  BY <2>1, <2>2 DEF Lasting
<1>15. Remembered'
  <2>1. \A v \in URLs : past'.failed[v] # -1 => \E d \in Kept' : made'[d].url = v
    <3> SUFFICES ASSUME NEW v \in URLs, past'.failed[v] # -1 PROVE \E d \in Kept : made'[d].url = v
      BY <1>9
    <3>1. (v = made[e].url /\ e \in Kept) \/ past.failed[v] # -1  BY <1>10
    <3>2. \E d \in Kept : made[d].url = v  BY <3>1 DEF Remembered
    <3>3. QED  BY <1>8, <1>9, <3>2
  <2>2. ASSUME NEW d \in Kept' PROVE Tells(made'[d], past'.failed[made'[d].url], now')
    <3>1. d \in Kept /\ d \in 1..Len(made)  BY <1>9, <2>2
    <3>2. Tells(made[d], past.failed[made[d].url], now)  BY <3>1 DEF Remembered
    <3>3. made[d].url \in URLs /\ past.failed[made[d].url] \in Nat \union {-1}
      BY <1>8, <3>1 DEF TypedPosters, Entries
    <3>4. CASE d # e
      <4>1. made'[d] = made[d]  BY <1>7, <3>1, <3>4
      <4>2. e \in Kept => made[d].url # made[e].url  BY <3>1, <3>4 DEF OneEach
      <4>3. past'.failed[made[d].url] = past.failed[made[d].url]  BY <1>10, <3>3, <4>2
      <4>4. QED  BY <1>5, <3>2, <4>1, <4>3
    <3>5. CASE d = e
      <4>1. made'[d] = done /\ made'[d].url = made[e].url  BY <1>6, <1>7, <3>1, <3>5
      <4>2. CASE result \in {"refused", "error"}
        <5>1. past'.failed[made[e].url] = now  BY <1>2, <1>10, <3>1, <3>5, <4>2
        <5>2. done.runs = "no" /\ done.expires = now + NegativeTTL /\ now # -1
          BY <1>2, <1>3, <1>6, <4>2
        <5>3. now' = now  BY <1>5
        <5>4. QED  BY <4>1, <5>1, <5>2, <5>3 DEF Tells
      <4>3. CASE result \in {"ok", "timeout"}
        <5>1. past'.failed[made[e].url] = past.failed[made[e].url]  BY <1>2, <1>10, <4>3
        <5>2. past.failed[made[e].url] # -1 => now >= past.failed[made[e].url] + NegativeTTL
          BY <1>1, <3>2, <3>5 DEF Tells
        <5>3. done.hash = "none" => done.expires =< now  BY <1>2, <1>3, <1>6, <4>3 DEF hash
        <5>4. now' = now  BY <1>5
        <5>5. QED  BY <4>1, <5>1, <5>2, <5>3, <5>4 DEF Tells
      <4>4. QED  BY <4>2, <4>3
    <3>6. QED  BY <3>4, <3>5
  <2>3. QED  BY <2>1, <2>2 DEF Remembered
<1>16. Faultless'  BY <1>10 DEF Faultless
<1>17. QED  BY <1>12, <1>13, <1>14, <1>15, <1>16

\* What the cache holds after a miss: the new entry and the ones used last.
LEMMA RoomFor ==
  ASSUME CacheAssumed, TypedPosters
  PROVE  LET e == Len(made) + 1
             kept == SubSeq(<<e>> \o order, 1, Posters!Min({CacheSize, Len(order) + 1}))
         IN /\ kept \in Seq(1..e) /\ Len(kept) =< CacheSize
            /\ \A i, j \in 1..Len(kept) : kept[i] = kept[j] => i = j
            /\ Posters!ToSet(kept) \subseteq {e} \union Kept
<1> DEFINE e == Len(made) + 1
           long == <<e>> \o order
           n == Posters!Min({CacheSize, Len(order) + 1})
           kept == SubSeq(long, 1, n)
<1>1. Len(made) \in Nat /\ Len(order) \in Nat /\ DOMAIN order = 1..Len(order) /\ CacheSize \in Nat
  BY LenProperties DEF TypedPosters, CacheAssumed
<1>2. order \in Seq(1..e) /\ \A i \in 1..Len(order) : order[i] \in 1..Len(made)
  <2>1. order \in Seq(1..Len(made))  BY DEF TypedPosters
  <2>2. \A i \in 1..Len(order) : order[i] \in 1..Len(made)  BY <2>1, ElementOfSeq, Zenon
  <2>3. 1..Len(made) \subseteq 1..e  BY <1>1
  <2>4. order \in Seq(1..e)  BY <2>1, <2>3
  <2>5. QED  BY <2>2, <2>4
<1>3. e \in 1..e  BY <1>1
<1>4. /\ long \in Seq(1..e) /\ Len(long) = Len(order) + 1
      /\ long[1] = e /\ \A j \in 2..(Len(order) + 1) : long[j] = order[j - 1]
  BY <1>2, <1>3, Fronted
<1>5. n \in Nat /\ n =< CacheSize /\ n =< Len(order) + 1
  BY <1>1 DEF Posters!Min
<1> HIDE DEF e, long, n
<1>6. \A j \in 1..n : long[j] \in 1..e
  <2>1. \A j \in 1..Len(long) : long[j] \in 1..e  BY <1>4, ElementOfSeq, Zenon
  <2>2. QED  BY <1>1, <1>4, <1>5, <2>1
<1>7. kept \in Seq(1..e) /\ Len(kept) = n /\ \A j \in 1..n : kept[j] = long[j]
  <2>1. kept \in Seq(1..e) /\ Len(kept) = (IF 1 =< n THEN n - 1 + 1 ELSE 0)
        /\ \A j \in 1..(n - 1 + 1) : kept[j] = long[1 + j - 1]
    BY <1>5, <1>6, SubSeqProperties
  <2>2. QED  BY <1>5, <2>1
<1>8. DOMAIN kept = 1..n  BY <1>7, LenProperties
<1> HIDE DEF kept
<1>9. ASSUME NEW i \in 1..n, NEW j \in 1..n, kept[i] = kept[j] PROVE i = j
  <2>1. long[i] = long[j]  BY <1>7, <1>9
  <2>2. \A k \in 2..(Len(order) + 1) : long[k] # e
    <3> SUFFICES ASSUME NEW k \in 2..(Len(order) + 1) PROVE long[k] # e
      OBVIOUS
    <3>1. k - 1 \in 1..Len(order)  BY <1>1
    <3>2. long[k] \in 1..Len(made)  BY <1>2, <1>4, <3>1
    <3>3. QED  BY <1>1, <3>2 DEF e
  <2>3. CASE i = 1 \/ j = 1  BY <1>1, <1>4, <1>5, <2>1, <2>2, <2>3
  <2>4. CASE i # 1 /\ j # 1
    <3>1. i - 1 \in 1..Len(order) /\ j - 1 \in 1..Len(order)  BY <1>1, <1>5, <2>4
    <3>2. i \in 2..(Len(order) + 1) /\ j \in 2..(Len(order) + 1)  BY <1>1, <1>5, <2>4
    <3>3. order[i - 1] = order[j - 1]  BY <1>4, <2>1, <3>2
    <3>4. i - 1 = j - 1  BY <3>1, <3>3 DEF TypedPosters
    <3>5. QED  BY <3>4
  <2>5. QED  BY <2>3, <2>4
<1>10. ASSUME NEW j \in 1..n PROVE kept[j] \in {e} \union Kept
  <2>1. CASE j = 1  BY <1>4, <1>7, <2>1
  <2>2. CASE j # 1
    <3>1. j \in 2..(Len(order) + 1) /\ j - 1 \in DOMAIN order  BY <1>1, <1>5, <2>2
    <3>2. kept[j] = order[j - 1]  BY <1>4, <1>7, <3>1
    <3>3. QED  BY <3>1, <3>2 DEF Kept, Posters!ToSet
  <2>3. QED  BY <2>1, <2>2
<1>11. Posters!ToSet(kept) \subseteq {e} \union Kept  BY <1>8, <1>10 DEF Posters!ToSet
<1>12. QED  BY <1>5, <1>7, <1>9, <1>11 DEF kept, long, n, e

LEMMA MissKeeps ==
  ASSUME CacheAssumed, CInv, NEW c \in Callers, callers[c] = Posters!Idle, NEW u \in URLs,
         Posters!Cached(u) = {}, Posters!Miss(c, u), UNCHANGED now
  PROVE  CInv'
<1> USE DEF CInv, Posters!Idle, Posters!NoHash, Posters!Zero, Posters!Never
<1> DEFINE e == Len(made) + 1
           new == Posters!Entry(u)
           gone == {made[x].url : x \in Kept \ Kept'}
<1>1. made \in Seq(Entries) /\ Len(made) \in Nat /\ now \in Nat
  BY LenProperties DEF TypedPosters
<1>2. new \in Entries /\ new.url = u /\ new.runs = "queued"  BY DEF Posters!Entry, Entries
<1>3. /\ made' \in Seq(Entries) /\ Len(made') = e
      /\ \A d \in 1..Len(made) : made'[d] = made[d]
      /\ made'[e] = new
  <2>1. made' = Append(made, new)  BY DEF Posters!Miss
  <2> HIDE DEF new
  <2>2. QED  BY <1>1, <1>2, <2>1, AppendProperties
<1>4. /\ order' \in Seq(1..e) /\ Len(order') =< CacheSize
      /\ \A i, j \in 1..Len(order') : order'[i] = order'[j] => i = j
      /\ Kept' \subseteq {e} \union Kept
  BY RoomFor DEF Posters!Miss, Kept
<1>5. Posters!Wait(c, e)  BY DEF Posters!Miss
<1>6. ~\E d \in Kept : made[d].url = u  BY DEF Posters!Cached, Kept
<1>7. past.failed[u] = -1  BY <1>6 DEF Remembered
<1>8. ~Posters!Recent(u)  BY <1>7 DEF Posters!Recent
<1>9. past' = [past EXCEPT !.failed = [v \in URLs |-> IF v \in gone THEN -1 ELSE past.failed[v]],
                           !.hammered = past.hammered \/ Posters!Recent(u)]
  BY DEF Posters!Miss, Kept
<1>10. (past.hammered \/ Posters!Recent(u)) = past.hammered
  <2>1. past.hammered \in BOOLEAN  BY DEF TypedPosters
  <2>2. QED  BY <1>8, <2>1, Zenon
<1> HIDE DEF gone, new, e
<1>11. past' = [past EXCEPT !.failed = [v \in URLs |-> IF v \in gone THEN -1 ELSE past.failed[v]]]
  BY <1>9, <1>10 DEF TypedPosters
<1>12. /\ past'.failed \in [URLs -> Nat \union {-1}]
       /\ past'.blanked = past.blanked /\ past'.hammered = past.hammered /\ past'.robbed = past.robbed
       /\ \A v \in URLs : past'.failed[v] = IF v \in gone THEN -1 ELSE past.failed[v]
  BY <1>11 DEF TypedPosters
<1>13. Kept \subseteq 1..Len(made) /\ \A d \in 1..Len(made) : made[d] \in Entries  BY KeptAre
<1>14. e \in 1..e /\ 1..Len(made) \subseteq 1..e /\ 1..e = 1..Len(made) \union {e} /\ e \notin Kept
  BY <1>1, <1>13 DEF e
<1>15. \A x \in Callers : callers'[x] = callers[x] \/ callers'[x] = [at |-> "waiting", entry |-> e, owed |-> "none"]
  BY <1>5 DEF Posters!Wait, TypedPosters
<1>16. TypedPosters'
  <2>1. callers' \in [Callers -> [at : {"idle", "waiting", "told"}, entry : Nat, owed : URLs \union {"none"}]]
    <3>1. e \in Nat  BY <1>1 DEF e
    <3>2. QED  BY <1>5, <3>1 DEF Posters!Wait, TypedPosters
  <2>2. ASSUME NEW x \in Callers, callers'[x].at # "idle" PROVE callers'[x].entry \in 1..Len(made')
    <3>1. CASE callers'[x] = callers[x]
      <4>1. callers[x].entry \in 1..Len(made)  BY <2>2, <3>1 DEF TypedPosters
      <4>2. QED  BY <1>3, <1>14, <3>1, <4>1
    <3>2. CASE callers'[x] = [at |-> "waiting", entry |-> e, owed |-> "none"]
      <4>1. callers'[x].entry = e  BY <3>2
      <4>2. QED  BY <1>3, <1>14, <4>1
    <3>3. QED  BY <1>15, <3>1, <3>2
  <2>3. past' \in [failed : [URLs -> Nat \union {-1}], blanked : BOOLEAN, hammered : BOOLEAN, robbed : BOOLEAN]
    BY <1>11 DEF TypedPosters
  <2>4. QED  BY <1>3, <1>4, <2>1, <2>2, <2>3 DEF TypedPosters
<1>17. \A d \in Kept : made'[d] = made[d] /\ made[d].url # u  BY <1>3, <1>6, <1>13
<1>18. OneEach'
  <2> SUFFICES ASSUME NEW d \in Kept', NEW f \in Kept', made'[d].url = made'[f].url PROVE d = f
    BY DEF OneEach
  <2>1. made'[e].url = u  BY <1>2, <1>3
  <2>2. d \in Kept /\ f \in Kept => d = f  BY <1>17 DEF OneEach
  <2>3. QED  BY <1>4, <1>17, <2>1, <2>2
<1>19. Lasting'
  <2>1. ASSUME NEW d \in 1..Len(made'), made'[d].runs = "no", made'[d].expires = 0 PROVE made'[d].hash = made'[d].url
    <3>1. d # e  BY <1>2, <1>3, <2>1
    <3>2. d \in 1..Len(made)  BY <1>3, <1>14, <3>1
    <3>3. QED  BY <1>3, <2>1, <3>2 DEF Lasting
  <2>2. ASSUME NEW x \in Callers, callers'[x].at = "told", callers'[x].owed # "none"
        PROVE  LET d == callers'[x].entry
               IN made'[d].runs = "no" /\ made'[d].expires = 0 /\ made'[d].hash = callers'[x].owed
    <3>1. callers'[x] = callers[x]  BY <1>15, <2>2
    <3>2. callers[x].entry \in 1..Len(made)  BY <2>2, <3>1 DEF TypedPosters
    <3>3. made'[callers[x].entry] = made[callers[x].entry]  BY <1>3, <3>2
    <3>4. QED  BY <2>2, <3>1, <3>3 DEF Lasting
  <2>3. QED  BY <2>1, <2>2 DEF Lasting
<1>20. Remembered'
  <2>1. ASSUME NEW v \in URLs, past'.failed[v] # -1 PROVE \E d \in Kept' : made'[d].url = v
    <3>1. v \notin gone /\ past.failed[v] # -1  BY <1>12, <2>1
    <3>2. PICK d \in Kept : made[d].url = v  BY <3>1 DEF Remembered
    <3>3. d \in Kept'  BY <3>1, <3>2 DEF gone
    <3>4. QED  BY <1>17, <3>2, <3>3
  <2>2. ASSUME NEW d \in Kept' PROVE Tells(made'[d], past'.failed[made'[d].url], now')
    <3>1. CASE d = e
      <4>1. made'[d].url = u /\ made'[d].runs = "queued"  BY <1>2, <1>3, <3>1
      <4>2. past'.failed[u] = -1  BY <1>7, <1>12
      <4>3. QED  BY <4>1, <4>2 DEF Tells
    <3>2. CASE d \in Kept
      <4>1. made[d].url \notin gone
        <5> SUFFICES ASSUME NEW x \in Kept \ Kept', made[x].url = made[d].url PROVE FALSE
          BY DEF gone
        <5>1. x = d  BY <3>2 DEF OneEach
        <5>2. QED  BY <2>2, <5>1
      <4>2. made'[d] = made[d] /\ made[d].url \in URLs  BY <1>13, <1>17, <3>2 DEF Entries
      <4>3. past'.failed[made[d].url] = past.failed[made[d].url]  BY <1>12, <4>1, <4>2
      <4>4. Tells(made[d], past.failed[made[d].url], now)  BY <3>2 DEF Remembered
      <4>5. QED  BY <4>2, <4>3, <4>4
    <3>3. QED  BY <1>4, <2>2, <3>1, <3>2
  <2>3. QED  BY <2>1, <2>2 DEF Remembered
<1>21. Faultless'  BY <1>12 DEF Faultless
<1>22. QED  BY <1>16, <1>18, <1>19, <1>20, <1>21

THEOREM PostersKept ==
  ASSUME CacheAssumed
  PROVE  Posters!Init /\ [][Posters!Next]_(Posters!vars)
           => [](Posters!FailuresAreRemembered /\ Posters!PosterIsServed)
<1>1. Posters!Init => CInv  BY PostersStart
<1>2. CInv /\ [Posters!Next]_(Posters!vars) => CInv'
  <2> SUFFICES ASSUME CInv, [Posters!Next]_(Posters!vars) PROVE CInv'
    OBVIOUS
  <2>1. CASE Posters!Tick  BY <2>1, PostersTick
  <2>2. ASSUME NEW c \in Callers, NEW u \in URLs, Posters!Lookup(c, u) PROVE CInv'
    <3>1. callers[c] = Posters!Idle /\ UNCHANGED now  BY <2>2 DEF Posters!Lookup
    <3>2. CASE Posters!Cached(u) = {} /\ Posters!Miss(c, u)  BY <3>1, <3>2, MissKeeps
    <3>3. CASE \E e \in Posters!Cached(u) : Posters!Hit(c, u, e)  BY <3>1, <3>3, HitKeeps
    <3>4. QED  BY <2>2, <3>2, <3>3 DEF Posters!Lookup
  <2>3. ASSUME NEW c \in Callers, Posters!Thumbhash(c) \/ Posters!GoesOn(c) PROVE CInv'
    BY <2>3, LeftKeeps
  <2>4. ASSUME NEW e \in DOMAIN made, Posters!TakeSlot(e) PROVE CInv'  BY <2>4, SlotKeeps
  <2>5. ASSUME NEW e \in DOMAIN made, Posters!QueueOut(e) PROVE CInv'
    BY <2>5, SettleKeeps DEF Posters!QueueOut, Posters!Pending
  <2>6. ASSUME NEW e \in DOMAIN made, Posters!Fetch(e) PROVE CInv'
    BY <2>6, SettleKeeps DEF Posters!Fetch, Posters!Pending
  <2>7. CASE UNCHANGED Posters!vars
    <3>1. Kept' = Kept  BY <2>7 DEF Posters!vars, Kept, Posters!ToSet
    <3>2. QED  BY <2>7, <3>1 DEF Posters!vars, CInv, TypedPosters, OneEach, Lasting, Remembered, Tells, Faultless
  <2>8. QED  BY <2>1, <2>2, <2>3, <2>4, <2>5, <2>6, <2>7 DEF Posters!Next
<1>3. CInv => Posters!FailuresAreRemembered /\ Posters!PosterIsServed
  <2> SUFFICES ASSUME CInv PROVE Posters!FailuresAreRemembered /\ Posters!PosterIsServed
    OBVIOUS
  <2>1. ASSUME NEW u \in URLs PROVE Posters!Cardinality(Posters!Cached(u)) =< 1
    <3>1. Posters!Cached(u) = {e \in Kept : made[e].url = u}  BY DEF Posters!Cached, Kept
    <3>2. Posters!Cached(u) = {} \/ \E e \in Kept : Posters!Cached(u) = {e}
      BY <3>1 DEF CInv, OneEach
    <3>3. Cardinality({}) = 0 /\ \A e : Cardinality({e}) = 1  BY FS_EmptySet, FS_Singleton
    <3>4. Cardinality(Posters!Cached(u)) =< 1  BY <3>2, <3>3
    <3>5. QED  BY <3>4 DEF Posters!Cardinality, Cardinality
  <2>2. QED  BY <2>1 DEF CInv, Faultless, TypedPosters, Posters!FailuresAreRemembered, Posters!PosterIsServed
<1>4. QED  BY <1>1, <1>2, <1>3, PTL

(* --------------------------- the state store ---------------------------- *)

\* What the proof needs of the rows: the clock and the stamps are numbers.
StoredRows == [there : BOOLEAN, value : Values \union {0}, expires : Nat \union {Store!Forever}]
Stamped == entries \in [Store!Keys -> StoredRows] /\ now \in Nat

(* Every entry carries a stamp, or none for ever, at all times (Set).       *)
THEOREM StampedAlways ==
  ASSUME TTLs \subseteq Nat
  PROVE  Store!Spec => []Stamped
<1>1. Store!Init => Stamped
  BY DEF Store!Init, Stamped, StoredRows, Store!NoEntry
<1>2. Stamped /\ [Store!Next]_(Store!vars) => Stamped'
  <2> SUFFICES ASSUME Stamped, [Store!Next]_(Store!vars) PROVE Stamped'
    OBVIOUS
  <2>1. ASSUME NEW k \in Store!Keys, NEW v \in Values, NEW ttl \in TTLs, Store!Set(k, v, ttl) PROVE Stamped'
    <3>1. [there |-> TRUE, value |-> v, expires |-> Store!ExpiresAt(ttl)] \in StoredRows
      BY DEF Stamped, StoredRows, Store!ExpiresAt, Store!Forever
    <3>2. QED
      BY <2>1, <3>1 DEF Store!Set, Stamped
  <2>2. ASSUME NEW K \in SUBSET Store!Keys, entries' = Store!Without(K), now' = now PROVE Stamped'
    <3>1. Store!NoEntry \in StoredRows
      BY DEF Store!NoEntry, StoredRows
    <3>2. QED
      BY <2>2, <3>1 DEF Store!Without, Stamped
  <2>3. ASSUME NEW k \in Store!Keys, Store!Get(k) \/ Store!Delete(k) PROVE Stamped'
    <3>1. {k} \in SUBSET Store!Keys
      OBVIOUS
    <3>2. QED
      BY <2>2, <2>3, <3>1 DEF Store!Get, Store!Delete, Store!Remove, Stamped
  <2>4. ASSUME NEW g \in Groups, Store!GetGroup(g) \/ Store!DeleteGroup(g) PROVE Stamped'
    <3>1. Store!Of(g) \in SUBSET Store!Keys
      BY DEF Store!Of, Store!Keys
    <3>2. QED
      BY <2>2, <2>4, <3>1 DEF Store!GetGroup, Store!DeleteGroup, Store!Remove, Stamped
  <2>5. CASE Store!Cleanup
    BY <2>2, <2>5 DEF Store!Cleanup, Store!Due
  <2>6. CASE Store!Tick
    BY <2>6 DEF Store!Tick, Stamped
  <2>7. CASE UNCHANGED Store!vars
    BY <2>7 DEF Store!vars, Stamped
  <2>8. QED
    BY <2>1, <2>3, <2>4, <2>5, <2>6, <2>7 DEF Store!Next
<1>3. QED
  BY <1>1, <1>2, PTL DEF Store!Spec

\* A read finds the rows that are there for the handlers, no other.
LEMMA FoundAsPromised == \A K \in SUBSET Store!Keys : Store!Found(K) = Store!Promise!Found(K)
<1> SUFFICES ASSUME NEW K \in SUBSET Store!Keys PROVE Store!Found(K) = Store!Promise!Found(K)
  OBVIOUS
<1>1. \A k \in K : Store!Live(entries[k]) <=> Store!Rows[k].there
  BY DEF Store!Rows
<1>2. \A k \in K : Store!Live(entries[k]) => Store!Rows[k].value = entries[k].value
  BY DEF Store!Rows
<1>3. {j \in K : Store!Live(entries[j])} = {j \in K : Store!Rows[j].there}
  BY <1>1
<1>4. QED
  BY <1>1, <1>2, <1>3 DEF Store!Found, Store!Promise!Found

\* What is removed is gone for the handlers, and nothing else is.
LEMMA WithoutAsPromised ==
  ASSUME NEW K \in SUBSET Store!Keys, entries' = Store!Without(K), now' = now
  PROVE  Store!Rows' = [k \in Store!Keys |-> IF k \in K THEN Store!Promise!NoRow ELSE Store!Rows[k]]
<1>1. \A k \in Store!Keys : entries'[k] = IF k \in K THEN Store!NoEntry ELSE entries[k]
  BY DEF Store!Without
<1>2. ~Store!Live(Store!NoEntry)' /\ ~Store!Live(Store!NoEntry)
  BY DEF Store!Live, Store!NoEntry
<1>3. QED
  BY <1>1, <1>2 DEF Store!Rows, Store!Live, Store!Expired, Store!Promise!NoRow, Store!NoEntry

LEMMA StepAsPromised ==
  ASSUME TTLs \subseteq Nat, Stamped, [Store!Next]_(Store!vars)
  PROVE  [Store!Promise!Next]_(Store!Promise!vars)
<1> USE DEF Store!Promise!Keys, Store!Keys
<1>1. ASSUME NEW k \in Store!Keys, NEW v \in Values, NEW ttl \in TTLs, Store!Set(k, v, ttl)
      PROVE  Store!Promise!Set(k, v, ttl)
  <2> DEFINE e == [there |-> TRUE, value |-> v, expires |-> Store!ExpiresAt(ttl)]
             instant == IF Inclusive THEN 1 ELSE 0
             until == IF ttl = 0 THEN Store!Forever ELSE now + ttl + instant
  <2>1. entries' = [entries EXCEPT ![k] = e] /\ now' = now
    BY <1>1 DEF Store!Set
  <2>2. entries \in [Store!Keys -> StoredRows] /\ now \in Nat /\ ttl \in Nat
    BY DEF Stamped
  <2>3. entries'[k] = e /\ \A j \in Store!Keys \ {k} : entries'[j] = entries[j]
    BY <2>1, <2>2
  <2>4. entries'[k].there /\ entries'[k].value = v /\ entries'[k].expires = Store!ExpiresAt(ttl)
    BY <2>3
  <2>5. Store!Rows'[k] = Store!Promise!Row(v, until)
    <3>1. Store!Rows'[k] = IF ~Store!Live(entries[k])' THEN [there |-> FALSE, value |-> 0, until |-> 0]
                     ELSE [there |-> TRUE, value |-> v,
                           until |-> IF Store!ExpiresAt(ttl) = Store!Forever THEN Store!Forever
                                     ELSE Store!ExpiresAt(ttl) + instant]
      BY <2>4 DEF Store!Rows
    <3>2. Store!Live(entries[k])'
      BY <2>1, <2>2, <2>4 DEF Store!Live, Store!Expired, Store!ExpiresAt, Store!Forever
    <3>3. (IF Store!ExpiresAt(ttl) = Store!Forever THEN Store!Forever ELSE Store!ExpiresAt(ttl) + instant) = until
      BY <2>2 DEF Store!ExpiresAt, Store!Forever
    <3>4. QED
      BY <3>1, <3>2, <3>3 DEF Store!Promise!Row
  <2>6. \A j \in Store!Keys \ {k} : Store!Rows'[j] = Store!Rows[j]
    BY <2>1, <2>3 DEF Store!Rows, Store!Live, Store!Expired
  <2>7. Store!Rows' = [Store!Rows EXCEPT ![k] = Store!Promise!Row(v, until)]
    BY <2>5, <2>6 DEF Store!Rows
  <2>8. last' = Store!Promise!Call("set", {k}, {<<k, v>>})
    BY <1>1 DEF Store!Set, Store!Call, Store!Promise!Call
  <2>9. QED
    BY <2>1, <2>7, <2>8 DEF Store!Promise!Set, Store!Promise!Forever, Store!Forever
<1>2. ASSUME NEW K \in SUBSET Store!Keys, last' = Store!Call("read", K, Store!Found(K)), UNCHANGED <<entries, now>>
      PROVE  Store!Promise!Read(K)
  <2>1. Store!Rows' = Store!Rows
    BY <1>2 DEF Store!Rows, Store!Live, Store!Expired
  <2>2. QED
    BY <1>2, <2>1, FoundAsPromised DEF Store!Promise!Read, Store!Call, Store!Promise!Call
<1>3. ASSUME NEW K \in SUBSET Store!Keys, Store!Remove(K) PROVE Store!Promise!Delete(K)
  BY <1>3, WithoutAsPromised DEF Store!Remove, Store!Promise!Delete, Store!Call, Store!Promise!Call
<1>4. ASSUME Store!Cleanup PROVE UNCHANGED Store!Promise!vars
  <2>1. Store!Due \in SUBSET Store!Keys
    BY DEF Store!Due
  <2>2. Store!Rows' = [k \in Store!Keys |-> IF k \in Store!Due THEN Store!Promise!NoRow ELSE Store!Rows[k]]
    BY <1>4, <2>1, WithoutAsPromised DEF Store!Cleanup
  <2>3. \A k \in Store!Due : Store!Rows[k] = Store!Promise!NoRow
    BY DEF Store!Due, Store!Rows, Store!Live, Store!Promise!NoRow
  <2>4. Store!Rows' = Store!Rows
    BY <2>2, <2>3 DEF Store!Rows
  <2>5. QED
    BY <1>4, <2>4 DEF Store!Cleanup, Store!Promise!vars
<1>5. ASSUME Store!Tick PROVE Store!Promise!Tick
  <2>1. entries' = entries /\ now' = now + 1 /\ last' = last
    BY <1>5 DEF Store!Tick
  <2>2. entries \in [Store!Keys -> StoredRows] /\ now \in Nat
    BY DEF Stamped
  <2>3. ASSUME NEW k \in Store!Keys
        PROVE  Store!Rows'[k] = IF Store!Rows[k].until # Store!Forever /\ Store!Rows[k].until =< now' THEN Store!Promise!NoRow ELSE Store!Rows[k]
    <3>1. entries[k].expires \in Nat \union {Store!Forever} /\ entries[k].there \in BOOLEAN
      BY <2>2 DEF StoredRows
    <3>2. CASE ~Store!Live(entries[k])
      <4>1. ~Store!Live(entries[k])'
        BY <2>1, <2>2, <3>1, <3>2 DEF Store!Live, Store!Expired, Store!Forever
      <4>2. QED
        BY <2>1, <2>2, <3>2, <4>1 DEF Store!Rows, Store!Promise!NoRow
    <3>3. CASE Store!Live(entries[k]) /\ entries[k].expires = Store!Forever
      BY <2>1, <3>3 DEF Store!Rows, Store!Live, Store!Expired
    <3>4. CASE Store!Live(entries[k]) /\ entries[k].expires # Store!Forever
      BY <2>1, <2>2, <3>1, <3>4 DEF Store!Rows, Store!Live, Store!Expired, Store!Forever, Store!Promise!NoRow
    <3>5. QED
      BY <3>2, <3>3, <3>4
  <2>4. QED
    BY <2>1, <2>3 DEF Store!Rows, Store!Promise!Tick, Store!Promise!Forever, Store!Forever
<1>6. CASE UNCHANGED Store!vars
  BY <1>6 DEF Store!vars, Store!Promise!vars, Store!Rows, Store!Live, Store!Expired
<1>7. ASSUME NEW k \in Store!Keys, Store!Get(k) \/ Store!Delete(k) PROVE Store!Promise!Read({k}) \/ Store!Promise!Delete({k})
  <2>1. {k} \in SUBSET Store!Keys
    OBVIOUS
  <2>2. QED
    BY <1>2, <1>3, <1>7, <2>1 DEF Store!Get, Store!Delete
<1>8. ASSUME NEW g \in Groups, Store!GetGroup(g) \/ Store!DeleteGroup(g)
      PROVE  Store!Promise!Read(Store!Promise!Of(g)) \/ Store!Promise!Delete(Store!Promise!Of(g))
  <2>1. Store!Of(g) \in SUBSET Store!Keys /\ Store!Promise!Of(g) = Store!Of(g)
    BY DEF Store!Of, Store!Promise!Of
  <2>2. QED
    BY <1>2, <1>3, <1>8, <2>1 DEF Store!GetGroup, Store!DeleteGroup
<1>9. QED
  BY <1>1, <1>4, <1>5, <1>6, <1>7, <1>8 DEF Store!Next, Store!Promise!Next

(* The store implements its promise: a row is read from Set until it is     *)
(* deleted, replaced or expired and never after, and no sweep is seen.      *)
THEOREM StoreKeepsPromise ==
  ASSUME TTLs \subseteq Nat
  PROVE  Store!Spec => Store!Promise!Spec
<1>1. Store!Init => Store!Promise!Init
  BY DEF Store!Init, Store!Promise!Init, Store!Rows, Store!Live, Store!NoEntry, Store!Promise!NoRow, Store!Keys, Store!Promise!Keys, Store!Call, Store!Promise!Call
<1>2. Stamped /\ [Store!Next]_(Store!vars) => [Store!Promise!Next]_(Store!Promise!vars)
  BY StepAsPromised
<1>3. Store!Spec => []Stamped
  BY StampedAlways
<1>4. QED
  BY <1>1, <1>2, <1>3, PTL DEF Store!Spec, Store!Promise!Spec

(* ------------------------- the BambuLab bridge -------------------------- *)

Armed == ending.armed
Sending == ending.running

States == Bambulab!Printing \union Bambulab!Finished \union {"UNKNOWN", "IDLE", "Interrupted"}

TypedPrint ==
  /\ printer \in States
  /\ tracker \in [at : {"loop", "create", "seed", "closing", "waiting", "exited"},
                  tracking : BOOLEAN, lastState : States, acts : States]
  /\ gen \in Nat \ {0}
  /\ ending \in [armed : [gen : Nat, phase : {0, 1, 2}],
                 running : SUBSET [gen : Nat, phase : {1, 2}], closed : BOOLEAN]
  /\ shown \in {"none", "printing", "outcome", "ended"}
  /\ past \in [moves : Nat, faults : Nat, overtaken : {0, 1, 2}]

\* A print that has begun has a generation of its own.
Begun == tracker.tracking \/ tracker.at \in {"create", "seed"}

BInv ==
  /\ TypedPrint
  /\ tracker.at \in {"create", "seed"} => ~tracker.tracking
  /\ Armed.phase = 0 => Armed = Bambulab!None
  /\ Armed.gen =< gen /\ \A cb \in Sending : cb.gen =< gen
  /\ Begun => Armed.gen # gen /\ \A cb \in Sending : cb.gen # gen
  /\ \A cb \in Sending : cb.gen # gen => past.overtaken >= cb.phase
  /\ past.overtaken = 0 => Armed = Bambulab!None \/ Armed.gen = gen
  /\ Bambulab!NewPrintKeepsCard
  /\ Bambulab!CardIsAccountedFor

\* What a new generation overtakes is counted.
LEMMA OvertakesCounts ==
  ASSUME TypedPrint, NEW failed \in BOOLEAN, past' = Bambulab!Overtakes(failed)
  PROVE  /\ past' \in [moves : Nat, faults : Nat, overtaken : {0, 1, 2}]
         /\ past'.overtaken >= past.overtaken
         /\ \A cb \in Sending : past'.overtaken >= cb.phase
         /\ past.faults =< past'.faults /\ (past'.faults = past.faults => ~failed)
<1> DEFINE S == {past.overtaken} \union {cb.phase : cb \in Sending}
<1>1. S \subseteq {0, 1, 2} /\ past.overtaken \in S /\ \A cb \in Sending : cb.phase \in S  BY DEF TypedPrint, Sending
<1>2. Bambulab!Max(S) \in S /\ \A i \in S : Bambulab!Max(S) >= i
  <2> HIDE DEF S
  <2>1. \E m \in S : \A i \in S : m >= i
    <3>1. CASE 2 \in S  BY <1>1, <3>1
    <3>2. CASE 2 \notin S /\ 1 \in S  BY <1>1, <3>2
    <3>3. CASE S = {0}  BY <3>3
    <3>4. QED  BY <1>1, <3>1, <3>2, <3>3
  <2>2. QED  BY <2>1 DEF Bambulab!Max
<1>3. past = [moves |-> past.moves, faults |-> past.faults, overtaken |-> past.overtaken]
      /\ past.moves \in Nat /\ past.faults \in Nat /\ past.overtaken \in {0, 1, 2}
  BY DEF TypedPrint
<1>4. Bambulab!Counted(failed) = [moves |-> past.moves, faults |-> IF failed THEN past.faults + 1 ELSE past.faults,
                                  overtaken |-> past.overtaken]
  BY <1>3 DEF Bambulab!Counted
<1>5. S = {Bambulab!Counted(failed).overtaken} \union {cb.phase : cb \in ending.running}  BY <1>4 DEF Sending
<1> HIDE DEF S
<1>6. past' = [moves |-> past.moves, faults |-> IF failed THEN past.faults + 1 ELSE past.faults,
               overtaken |-> Bambulab!Max(S)]
  BY <1>4, <1>5 DEF Bambulab!Overtakes
<1>7. Bambulab!Max(S) \in {0, 1, 2}  BY <1>1, <1>2
<1>8. past'.overtaken = Bambulab!Max(S)  BY <1>6
<1>9. QED  BY <1>1, <1>2, <1>3, <1>6, <1>7, <1>8

LEMMA CountedIs ==
  ASSUME TypedPrint, NEW failed \in BOOLEAN, past' = Bambulab!Counted(failed)
  PROVE  /\ past' \in [moves : Nat, faults : Nat, overtaken : {0, 1, 2}]
         /\ past'.overtaken = past.overtaken
         /\ past.faults =< past'.faults /\ (past'.faults = past.faults <=> ~failed)
BY DEF Bambulab!Counted, TypedPrint

LEMMA PrintInit == ASSUME Bambulab!Init PROVE BInv
<1> USE DEF Bambulab!Init, Armed, Sending, Bambulab!None
<1>1. TypedPrint
  <2>1. printer \in States  BY DEF States, Bambulab!Printing
  <2>2. tracker \in [at : {"loop", "create", "seed", "closing", "waiting", "exited"},
                     tracking : BOOLEAN, lastState : States, acts : States]
    BY DEF States
  <2>3. ending.armed \in [gen : Nat, phase : {0, 1, 2}] /\ ending.running = {}  OBVIOUS
  <2>4. ending = [armed |-> ending.armed, running |-> {}, closed |-> FALSE]  OBVIOUS
  <2>5. past \in [moves : Nat, faults : Nat, overtaken : {0, 1, 2}]  OBVIOUS
  <2>6. QED  BY <2>1, <2>2, <2>3, <2>4, <2>5 DEF TypedPrint
<1>2. Armed = Bambulab!None /\ Sending = {} /\ gen = 1 /\ ~Begun  BY DEF Begun
<1>3. ~tracker.tracking /\ tracker.at = "loop" /\ shown = "none"  OBVIOUS
<1>4. QED
  BY <1>1, <1>2, <1>3 DEF BInv, Bambulab!NewPrintKeepsCard, Bambulab!CardIsAccountedFor

LEMMA PrintSteps == ASSUME BInv, [Bambulab!Next]_(Bambulab!vars) PROVE BInv'
<1> USE DEF Armed, Sending, Begun, Bambulab!None
<1>1. TypedPrint  BY DEF BInv
<1>2. /\ tracker = [at |-> tracker.at, tracking |-> tracker.tracking, lastState |-> tracker.lastState, acts |-> tracker.acts]
      /\ ending = [armed |-> ending.armed, running |-> ending.running, closed |-> ending.closed]
      /\ past = [moves |-> past.moves, faults |-> past.faults, overtaken |-> past.overtaken]
  BY <1>1 DEF TypedPrint
<1>3. ASSUME NEW state \in Bambulab!Printing \union Bambulab!Finished \union {"IDLE"}, Bambulab!PrinterMoves(state)
      PROVE  BInv'
  BY <1>1, <1>2, <1>3 DEF Bambulab!PrinterMoves, BInv, TypedPrint, States,
       Bambulab!NewPrintKeepsCard, Bambulab!CardIsAccountedFor
<1>4. CASE Bambulab!StartTracking
  <2>1. past' = Bambulab!Overtakes(FALSE)  BY <1>4 DEF Bambulab!StartTracking
  <2>2. /\ past' \in [moves : Nat, faults : Nat, overtaken : {0, 1, 2}]
        /\ past'.overtaken >= past.overtaken
        /\ \A cb \in Sending : past'.overtaken >= cb.phase
    BY <1>1, <2>1, OvertakesCounts
  <2>3. /\ gen' = gen + 1 /\ UNCHANGED <<printer, shown>> /\ ~tracker.tracking
        /\ tracker' = [tracker EXCEPT !.at = "create", !.acts = printer]
        /\ ending' = [ending EXCEPT !.armed = [gen |-> 0, phase |-> 0]]
    BY <1>4 DEF Bambulab!StartTracking
  <2>4. tracker'.at = "create" /\ tracker'.tracking = FALSE /\ Armed' = [gen |-> 0, phase |-> 0] /\ Sending' = Sending
    BY <1>1, <2>3 DEF TypedPrint
  <2>5. TypedPrint'
    <3>1. tracker' \in [at : {"loop", "create", "seed", "closing", "waiting", "exited"},
                        tracking : BOOLEAN, lastState : States, acts : States]
      BY <1>1, <2>3 DEF TypedPrint
    <3>2. ending' \in [armed : [gen : Nat, phase : {0, 1, 2}],
                       running : SUBSET [gen : Nat, phase : {1, 2}], closed : BOOLEAN]
      BY <1>1, <1>2, <2>3 DEF TypedPrint
    <3>3. QED  BY <1>1, <2>2, <2>3, <3>1, <3>2 DEF TypedPrint
  <2>6. QED
    BY <1>1, <2>2, <2>3, <2>4, <2>5 DEF BInv, TypedPrint, Bambulab!NewPrintKeepsCard, Bambulab!CardIsAccountedFor
<1>5. CASE Bambulab!CreateActivity
  <2>1. PICK failed \in BOOLEAN :
          /\ tracker.at = "create"
          /\ tracker' = [tracker EXCEPT !.at = IF failed THEN "loop" ELSE "seed"]
          /\ past' = Bambulab!Counted(failed)
          /\ UNCHANGED <<printer, gen, ending, shown>>
    BY <1>5 DEF Bambulab!CreateActivity
  <2>2. /\ past' \in [moves : Nat, faults : Nat, overtaken : {0, 1, 2}]
        /\ past'.overtaken = past.overtaken
        /\ past.faults =< past'.faults /\ (past'.faults = past.faults <=> ~failed)
    BY <1>1, <2>1, CountedIs
  <2>3. tracker'.at = (IF failed THEN "loop" ELSE "seed") /\ tracker'.tracking = tracker.tracking
    BY <1>1, <2>1 DEF TypedPrint
  <2>4. TypedPrint'  BY <1>1, <2>1, <2>2 DEF TypedPrint, States
  <2>5. QED
    BY <1>1, <2>1, <2>2, <2>3, <2>4 DEF BInv, TypedPrint, Bambulab!NewPrintKeepsCard, Bambulab!CardIsAccountedFor
<1>6. CASE Bambulab!SendSeed
  <2>1. PICK failed \in BOOLEAN :
          /\ tracker.at = "seed"
          /\ shown' = IF failed THEN shown ELSE "printing"
          /\ tracker' = [tracker EXCEPT !.at = "loop", !.tracking = ~failed,
                                        !.lastState = IF failed THEN @ ELSE tracker.acts]
          /\ past' = Bambulab!Counted(failed)
          /\ UNCHANGED <<printer, gen, ending>>
    BY <1>6 DEF Bambulab!SendSeed, Bambulab!Card
  <2>2. /\ past' \in [moves : Nat, faults : Nat, overtaken : {0, 1, 2}]
        /\ past'.overtaken = past.overtaken
        /\ past.faults =< past'.faults /\ (past'.faults = past.faults <=> ~failed)
    BY <1>1, <2>1, CountedIs
  <2>3. TypedPrint'
    <3>1. tracker' \in [at : {"loop", "create", "seed", "closing", "waiting", "exited"},
                        tracking : BOOLEAN, lastState : States, acts : States]
      BY <1>1, <1>2, <2>1 DEF TypedPrint, States, Bambulab!Printing, Bambulab!Finished
    <3>2. ending' \in [armed : [gen : Nat, phase : {0, 1, 2}],
                       running : SUBSET [gen : Nat, phase : {1, 2}], closed : BOOLEAN]
      BY <1>1, <1>2, <2>1 DEF BInv, TypedPrint
    <3>3. shown' \in {"none", "printing", "outcome", "ended"}  BY <1>1, <2>1 DEF TypedPrint, Bambulab!Card
    <3>4. gen' \in Nat \ {0}  BY <1>1, <2>1 DEF TypedPrint, Bambulab!Ends
    <3>5. QED  BY <1>1, <2>2, <2>1, <3>1, <3>2, <3>3, <3>4 DEF TypedPrint
  <2>4. tracker'.at = "loop" /\ (tracker'.tracking <=> ~failed)  BY <1>1, <2>1 DEF TypedPrint
  <2>5. QED  BY <1>1, <2>1, <2>2, <2>3, <2>4 DEF BInv, TypedPrint, Bambulab!NewPrintKeepsCard, Bambulab!CardIsAccountedFor
<1>7. CASE Bambulab!Progress
  <2>1. PICK failed \in BOOLEAN :
          /\ tracker.at = "loop" /\ tracker.tracking
          /\ shown' = "printing" \/ UNCHANGED shown
          /\ tracker' = [tracker EXCEPT !.lastState = printer]
          /\ past' = Bambulab!Counted(failed)
          /\ UNCHANGED <<printer, gen, ending>>
    BY <1>7 DEF Bambulab!Progress, Bambulab!Card
  <2>2. /\ past' \in [moves : Nat, faults : Nat, overtaken : {0, 1, 2}]
        /\ past'.overtaken = past.overtaken
        /\ past.faults =< past'.faults /\ (past'.faults = past.faults <=> ~failed)
    BY <1>1, <2>1, CountedIs
  <2>3. TypedPrint'
    <3>1. tracker' \in [at : {"loop", "create", "seed", "closing", "waiting", "exited"},
                        tracking : BOOLEAN, lastState : States, acts : States]
      BY <1>1, <1>2, <2>1 DEF TypedPrint, States, Bambulab!Printing, Bambulab!Finished
    <3>2. ending' \in [armed : [gen : Nat, phase : {0, 1, 2}],
                       running : SUBSET [gen : Nat, phase : {1, 2}], closed : BOOLEAN]
      BY <1>1, <1>2, <2>1 DEF BInv, TypedPrint
    <3>3. shown' \in {"none", "printing", "outcome", "ended"}  BY <1>1, <2>1 DEF TypedPrint, Bambulab!Card
    <3>4. gen' \in Nat \ {0}  BY <1>1, <2>1 DEF TypedPrint, Bambulab!Ends
    <3>5. QED  BY <1>1, <2>2, <2>1, <3>1, <3>2, <3>3, <3>4 DEF TypedPrint
  <2>4. tracker'.at = "loop" /\ tracker'.tracking  BY <1>1, <2>1 DEF TypedPrint
  <2>5. QED  BY <1>1, <2>1, <2>2, <2>3, <2>4 DEF BInv, TypedPrint, Bambulab!NewPrintKeepsCard, Bambulab!CardIsAccountedFor
<1>8. CASE Bambulab!Finish
  <2>1. /\ tracker.at = "loop" /\ tracker.tracking
        /\ tracker' = [tracker EXCEPT !.tracking = FALSE, !.lastState = printer]
        /\ ending' = IF ending.closed THEN ending ELSE [ending EXCEPT !.armed = [gen |-> gen, phase |-> 1]]
        /\ UNCHANGED <<printer, gen, shown, past>>
    BY <1>8 DEF Bambulab!Finish
  <2>3. TypedPrint'
    <3>1. tracker' \in [at : {"loop", "create", "seed", "closing", "waiting", "exited"},
                        tracking : BOOLEAN, lastState : States, acts : States]
      BY <1>1, <1>2, <2>1 DEF TypedPrint, States, Bambulab!Printing, Bambulab!Finished
    <3>2. ending' \in [armed : [gen : Nat, phase : {0, 1, 2}],
                       running : SUBSET [gen : Nat, phase : {1, 2}], closed : BOOLEAN]
      BY <1>1, <1>2, <2>1 DEF BInv, TypedPrint
    <3>3. shown' \in {"none", "printing", "outcome", "ended"}  BY <1>1, <2>1 DEF TypedPrint, Bambulab!Card
    <3>4. gen' \in Nat \ {0}  BY <1>1, <2>1 DEF TypedPrint, Bambulab!Ends
    <3>5. QED  BY <1>1, <2>1, <3>1, <3>2, <3>3, <3>4 DEF TypedPrint
  <2>4. /\ tracker'.at = "loop" /\ ~tracker'.tracking /\ Sending' = Sending /\ (ending.closed <=> ending'.closed)
        /\ Armed' = IF ending.closed THEN Armed ELSE [gen |-> gen, phase |-> 1]
    BY <1>1, <2>1 DEF TypedPrint
  <2>5. QED  BY <1>1, <2>1, <2>3, <2>4 DEF BInv, TypedPrint, Bambulab!NewPrintKeepsCard, Bambulab!CardIsAccountedFor
<1>9. CASE Bambulab!Cancelled
  <2>1. PICK failed \in BOOLEAN :
          /\ tracker.at = "loop" /\ tracker.tracking
          /\ gen' = gen + 1
          /\ shown' = IF failed THEN shown ELSE "ended"
          /\ tracker' = [tracker EXCEPT !.tracking = FALSE, !.lastState = printer]
          /\ past' = Bambulab!Overtakes(failed)
          /\ UNCHANGED <<printer, ending>>
    BY <1>9 DEF Bambulab!Cancelled, Bambulab!Ends, Bambulab!Card
  <2>2. /\ past' \in [moves : Nat, faults : Nat, overtaken : {0, 1, 2}]
        /\ past'.overtaken >= past.overtaken
        /\ \A cb \in Sending : past'.overtaken >= cb.phase
        /\ past.faults =< past'.faults /\ (past'.faults = past.faults => ~failed)
    BY <1>1, <2>1, OvertakesCounts
  <2>3. TypedPrint'
    <3>1. tracker' \in [at : {"loop", "create", "seed", "closing", "waiting", "exited"},
                        tracking : BOOLEAN, lastState : States, acts : States]
      BY <1>1, <1>2, <2>1 DEF TypedPrint, States, Bambulab!Printing, Bambulab!Finished
    <3>2. ending' \in [armed : [gen : Nat, phase : {0, 1, 2}],
                       running : SUBSET [gen : Nat, phase : {1, 2}], closed : BOOLEAN]
      BY <1>1, <1>2, <2>1 DEF BInv, TypedPrint
    <3>3. shown' \in {"none", "printing", "outcome", "ended"}  BY <1>1, <2>1 DEF TypedPrint, Bambulab!Card
    <3>4. gen' \in Nat \ {0}  BY <1>1, <2>1 DEF TypedPrint, Bambulab!Ends
    <3>5. QED  BY <1>1, <2>2, <2>1, <3>1, <3>2, <3>3, <3>4 DEF TypedPrint
  <2>4. tracker'.at = "loop" /\ ~tracker'.tracking  BY <1>1, <2>1 DEF TypedPrint
  <2>5. QED  BY <1>1, <2>1, <2>2, <2>3, <2>4 DEF BInv, TypedPrint, Bambulab!NewPrintKeepsCard, Bambulab!CardIsAccountedFor
<1>10. CASE Bambulab!Fire
  <2>1. /\ Armed # [gen |-> 0, phase |-> 0]
        /\ ending' = [ending EXCEPT !.armed = [gen |-> 0, phase |-> 0],
                       !.running = IF Armed.gen = gen THEN @ \union {Armed} ELSE @]
        /\ UNCHANGED <<printer, tracker, gen, shown, past>>
    BY <1>10 DEF Bambulab!Fire, Bambulab!SameSession
  <2>3. TypedPrint'
    <3>1. tracker' \in [at : {"loop", "create", "seed", "closing", "waiting", "exited"},
                        tracking : BOOLEAN, lastState : States, acts : States]
      BY <1>1, <1>2, <2>1 DEF TypedPrint, States, Bambulab!Printing, Bambulab!Finished
    <3>2. ending' \in [armed : [gen : Nat, phase : {0, 1, 2}],
                       running : SUBSET [gen : Nat, phase : {1, 2}], closed : BOOLEAN]
      BY <1>1, <1>2, <2>1 DEF BInv, TypedPrint
    <3>3. shown' \in {"none", "printing", "outcome", "ended"}  BY <1>1, <2>1 DEF TypedPrint, Bambulab!Card
    <3>4. gen' \in Nat \ {0}  BY <1>1, <2>1 DEF TypedPrint, Bambulab!Ends
    <3>5. QED  BY <1>1, <2>1, <3>1, <3>2, <3>3, <3>4 DEF TypedPrint
  <2>4. /\ Armed' = [gen |-> 0, phase |-> 0] /\ (ending.closed <=> ending'.closed)
        /\ Sending' = IF Armed.gen = gen THEN Sending \union {Armed} ELSE Sending
    BY <1>1, <2>1 DEF TypedPrint
  <2>5. QED  BY <1>1, <2>1, <2>3, <2>4 DEF BInv, TypedPrint, Bambulab!NewPrintKeepsCard, Bambulab!CardIsAccountedFor
<1>11. ASSUME NEW cb \in ending.running, Bambulab!Phase1(cb) PROVE BInv'
  <2>1. PICK failed \in BOOLEAN :
          /\ cb.phase = 1
          /\ shown' = IF failed THEN shown ELSE "outcome"
          /\ ending' = [ending EXCEPT !.running = @ \ {cb},
                         !.armed = IF ending.closed THEN @ ELSE [cb EXCEPT !.phase = 2]]
          /\ past' = Bambulab!Counted(failed)
          /\ UNCHANGED <<printer, tracker, gen>>
    BY <1>11 DEF Bambulab!Phase1, Bambulab!Card
  <2>2. /\ past' \in [moves : Nat, faults : Nat, overtaken : {0, 1, 2}]
        /\ past'.overtaken = past.overtaken
        /\ past.faults =< past'.faults /\ (past'.faults = past.faults <=> ~failed)
    BY <1>1, <2>1, CountedIs
  <2>3. TypedPrint'
    <3>1. tracker' \in [at : {"loop", "create", "seed", "closing", "waiting", "exited"},
                        tracking : BOOLEAN, lastState : States, acts : States]
      BY <1>1, <1>2, <2>1 DEF TypedPrint, States, Bambulab!Printing, Bambulab!Finished
    <3>2. ending' \in [armed : [gen : Nat, phase : {0, 1, 2}],
                       running : SUBSET [gen : Nat, phase : {1, 2}], closed : BOOLEAN]
      BY <1>1, <1>2, <2>1 DEF BInv, TypedPrint
    <3>3. shown' \in {"none", "printing", "outcome", "ended"}  BY <1>1, <2>1 DEF TypedPrint, Bambulab!Card
    <3>4. gen' \in Nat \ {0}  BY <1>1, <2>1 DEF TypedPrint, Bambulab!Ends
    <3>5. QED  BY <1>1, <2>2, <2>1, <3>1, <3>2, <3>3, <3>4 DEF TypedPrint
  <2>4. /\ Sending' = Sending \ {cb} /\ (ending.closed <=> ending'.closed)
        /\ Armed' = IF ending.closed THEN Armed ELSE [gen |-> cb.gen, phase |-> 2]
    BY <1>1, <2>1 DEF TypedPrint
  <2>5. QED  BY <1>1, <1>11, <2>1, <2>2, <2>3, <2>4 DEF BInv, TypedPrint, Bambulab!NewPrintKeepsCard, Bambulab!CardIsAccountedFor
<1>12. ASSUME NEW cb \in ending.running, Bambulab!Phase2(cb) PROVE BInv'
  <2>1. PICK failed \in BOOLEAN :
          /\ cb.phase = 2
          /\ shown' = IF failed THEN shown ELSE "ended"
          /\ ending' = [ending EXCEPT !.running = @ \ {cb}]
          /\ past' = Bambulab!Counted(failed)
          /\ UNCHANGED <<printer, tracker, gen>>
    BY <1>12 DEF Bambulab!Phase2, Bambulab!Card
  <2>2. /\ past' \in [moves : Nat, faults : Nat, overtaken : {0, 1, 2}]
        /\ past'.overtaken = past.overtaken
        /\ past.faults =< past'.faults /\ (past'.faults = past.faults <=> ~failed)
    BY <1>1, <2>1, CountedIs
  <2>3. TypedPrint'
    <3>1. tracker' \in [at : {"loop", "create", "seed", "closing", "waiting", "exited"},
                        tracking : BOOLEAN, lastState : States, acts : States]
      BY <1>1, <1>2, <2>1 DEF TypedPrint, States, Bambulab!Printing, Bambulab!Finished
    <3>2. ending' \in [armed : [gen : Nat, phase : {0, 1, 2}],
                       running : SUBSET [gen : Nat, phase : {1, 2}], closed : BOOLEAN]
      BY <1>1, <1>2, <2>1 DEF BInv, TypedPrint
    <3>3. shown' \in {"none", "printing", "outcome", "ended"}  BY <1>1, <2>1 DEF TypedPrint, Bambulab!Card
    <3>4. gen' \in Nat \ {0}  BY <1>1, <2>1 DEF TypedPrint, Bambulab!Ends
    <3>5. QED  BY <1>1, <2>2, <2>1, <3>1, <3>2, <3>3, <3>4 DEF TypedPrint
  <2>4. Sending' = Sending \ {cb} /\ (ending.closed <=> ending'.closed) /\ Armed' = Armed
    BY <1>1, <2>1 DEF TypedPrint
  <2>5. QED  BY <1>1, <1>12, <2>1, <2>2, <2>3, <2>4 DEF BInv, TypedPrint, Bambulab!NewPrintKeepsCard, Bambulab!CardIsAccountedFor
<1>13. CASE Bambulab!Close
  <2>1. /\ tracker.at = "loop"
        /\ ending' = [ending EXCEPT !.armed = [gen |-> 0, phase |-> 0], !.closed = TRUE]
        /\ tracker' = [tracker EXCEPT !.at = "closing"]
        /\ UNCHANGED <<printer, gen, shown, past>>
    BY <1>13 DEF Bambulab!Close
  <2>3. TypedPrint'
    <3>1. tracker' \in [at : {"loop", "create", "seed", "closing", "waiting", "exited"},
                        tracking : BOOLEAN, lastState : States, acts : States]
      BY <1>1, <1>2, <2>1 DEF TypedPrint, States, Bambulab!Printing, Bambulab!Finished
    <3>2. ending' \in [armed : [gen : Nat, phase : {0, 1, 2}],
                       running : SUBSET [gen : Nat, phase : {1, 2}], closed : BOOLEAN]
      BY <1>1, <1>2, <2>1 DEF BInv, TypedPrint
    <3>3. shown' \in {"none", "printing", "outcome", "ended"}  BY <1>1, <2>1 DEF TypedPrint, Bambulab!Card
    <3>4. gen' \in Nat \ {0}  BY <1>1, <2>1 DEF TypedPrint, Bambulab!Ends
    <3>5. QED  BY <1>1, <2>1, <3>1, <3>2, <3>3, <3>4 DEF TypedPrint
  <2>4. /\ tracker'.at = "closing" /\ (tracker'.tracking <=> tracker.tracking)
        /\ Sending' = Sending /\ Armed' = [gen |-> 0, phase |-> 0]
    BY <1>1, <2>1 DEF TypedPrint
  <2>5. QED  BY <1>1, <2>1, <2>3, <2>4 DEF BInv, TypedPrint, Bambulab!NewPrintKeepsCard, Bambulab!CardIsAccountedFor
<1>14. CASE Bambulab!Interrupt
  <2>1. PICK failed \in BOOLEAN :
          /\ tracker.at = "closing" /\ tracker.tracking
          /\ gen' = gen + 1
          /\ shown' = IF failed THEN shown ELSE "ended"
          /\ tracker' = [tracker EXCEPT !.at = "waiting", !.acts = "Interrupted"]
          /\ past' = Bambulab!Overtakes(failed)
          /\ UNCHANGED <<printer, ending>>
    BY <1>14 DEF Bambulab!Interrupt, Bambulab!Ends, Bambulab!Card
  <2>2. /\ past' \in [moves : Nat, faults : Nat, overtaken : {0, 1, 2}]
        /\ past'.overtaken >= past.overtaken
        /\ \A cb \in Sending : past'.overtaken >= cb.phase
        /\ past.faults =< past'.faults /\ (past'.faults = past.faults => ~failed)
    BY <1>1, <2>1, OvertakesCounts
  <2>3. TypedPrint'
    <3>1. tracker' \in [at : {"loop", "create", "seed", "closing", "waiting", "exited"},
                        tracking : BOOLEAN, lastState : States, acts : States]
      BY <1>1, <1>2, <2>1 DEF TypedPrint, States, Bambulab!Printing, Bambulab!Finished
    <3>2. ending' \in [armed : [gen : Nat, phase : {0, 1, 2}],
                       running : SUBSET [gen : Nat, phase : {1, 2}], closed : BOOLEAN]
      BY <1>1, <1>2, <2>1 DEF BInv, TypedPrint
    <3>3. shown' \in {"none", "printing", "outcome", "ended"}  BY <1>1, <2>1 DEF TypedPrint, Bambulab!Card
    <3>4. gen' \in Nat \ {0}  BY <1>1, <2>1 DEF TypedPrint, Bambulab!Ends
    <3>5. QED  BY <1>1, <2>2, <2>1, <3>1, <3>2, <3>3, <3>4 DEF TypedPrint
  <2>4. tracker'.at = "waiting" /\ tracker'.tracking  BY <1>1, <2>1 DEF TypedPrint
  <2>5. QED  BY <1>1, <2>1, <2>2, <2>3, <2>4 DEF BInv, TypedPrint, Bambulab!NewPrintKeepsCard, Bambulab!CardIsAccountedFor
<1>15. CASE Bambulab!Exit
  <2>1. /\ tracker.at \in {"closing", "waiting"}
        /\ tracker' = [tracker EXCEPT !.at = "exited"]
        /\ UNCHANGED <<printer, gen, ending, shown, past>>
    BY <1>15 DEF Bambulab!Exit
  <2>3. TypedPrint'
    <3>1. tracker' \in [at : {"loop", "create", "seed", "closing", "waiting", "exited"},
                        tracking : BOOLEAN, lastState : States, acts : States]
      BY <1>1, <1>2, <2>1 DEF TypedPrint, States, Bambulab!Printing, Bambulab!Finished
    <3>2. ending' \in [armed : [gen : Nat, phase : {0, 1, 2}],
                       running : SUBSET [gen : Nat, phase : {1, 2}], closed : BOOLEAN]
      BY <1>1, <1>2, <2>1 DEF BInv, TypedPrint
    <3>3. shown' \in {"none", "printing", "outcome", "ended"}  BY <1>1, <2>1 DEF TypedPrint, Bambulab!Card
    <3>4. gen' \in Nat \ {0}  BY <1>1, <2>1 DEF TypedPrint, Bambulab!Ends
    <3>5. QED  BY <1>1, <2>1, <3>1, <3>2, <3>3, <3>4 DEF TypedPrint
  <2>4. tracker'.at = "exited" /\ (tracker'.tracking <=> tracker.tracking)  BY <1>1, <2>1 DEF TypedPrint
  <2>5. QED  BY <1>1, <2>1, <2>3, <2>4 DEF BInv, TypedPrint, Bambulab!NewPrintKeepsCard, Bambulab!CardIsAccountedFor
<1>16. CASE UNCHANGED Bambulab!vars
  BY <1>1, <1>16 DEF Bambulab!vars, BInv, TypedPrint, Bambulab!NewPrintKeepsCard, Bambulab!CardIsAccountedFor
<1>17. QED
  BY <1>3, <1>4, <1>5, <1>6, <1>7, <1>8, <1>9, <1>10, <1>11, <1>12, <1>13, <1>14, <1>15, <1>16 DEF Bambulab!Next

\* For any number of prints and faults of the BambuLab bridge: no end that was
\* armed for an earlier print reaches the one being tracked, and a card left
\* up is tracked or its end is on its way (BambuTracker's NewPrintKeepsCard
\* and CardIsAccountedFor).
THEOREM PrintsKept ==
  Bambulab!Init /\ [][Bambulab!Next]_(Bambulab!vars)
    => [](Bambulab!NewPrintKeepsCard /\ Bambulab!CardIsAccountedFor)
<1>1. Bambulab!Init => BInv  BY PrintInit
<1>2. BInv /\ [Bambulab!Next]_(Bambulab!vars) => BInv'  BY PrintSteps
<1>3. BInv => Bambulab!NewPrintKeepsCard /\ Bambulab!CardIsAccountedFor  BY DEF BInv
<1>4. QED  BY <1>1, <1>2, <1>3, PTL

(* -------------------------- the Grafana bridge -------------------------- *)

At(h, places) == handlers[h].at \in places

TypedAlerts ==
  /\ firing \subseteq Instances
  /\ active \in [there : BOOLEAN, fps : SUBSET Instances, seen : Nat]
  /\ \A h \in Handlers :
       handlers[h] \in [at : {"reserve", "create", "update", "start", "release", "stop", "end"},
                      fp : Instances, new : BOOLEAN] \union {Alerts!Done}
  /\ handlers = [h \in Handlers |-> handlers[h]]
  /\ checker \in [at : {"idle", "ask", "confirm", "stop", "end"}, seen : Nat]
  /\ polls \in BOOLEAN
  /\ alertCard \in {"none", "created", "ongoing", "ended"}
  /\ past \in [webhooks : Nat, faults : Nat, lost : BOOLEAN, overlapped : BOOLEAN]

\* The entry, the poller and the card go together, but for what a goroutine
\* at work has still to do.
Together ==
  /\ active.there <=> active.fps # {}
  /\ Alerts!TearingDown => ~active.there
  /\ Alerts!Failing # {} => active.there
  /\ polls => active.there \/ checker.at = "stop" \/ \E h \in Handlers : At(h, {"stop"})
  /\ alertCard \in {"created", "ongoing"} => active.there \/ Alerts!TearingDown
  /\ active.there => polls \/ \E h \in Handlers : At(h, {"create", "update", "start"}) /\ handlers[h].new
  /\ active.there => alertCard \in {"created", "ongoing"} \/ \E h \in Handlers : At(h, {"create"}) /\ handlers[h].new

\* The fingerprints are those that fire, but for a webhook still at work on
\* one; what has fired since the checker asked has refreshed the entry.
Current ==
  /\ \A h \in Handlers : At(h, {"reserve"}) => handlers[h].fp \in firing
  /\ \A h \in Handlers : At(h, {"release"}) => handlers[h].fp \notin firing
  /\ \A g, h \in Handlers : ~At(g, {"done"}) /\ ~At(h, {"done"}) /\ handlers[g].fp = handlers[h].fp => g = h
  /\ \A fp \in Instances : fp \in firing /\ fp \notin active.fps
       => \E h \in Handlers : At(h, {"reserve"}) /\ handlers[h].fp = fp
  /\ \A fp \in Instances : fp \in active.fps /\ fp \notin firing
       => \E h \in Handlers : At(h, {"release"}) /\ handlers[h].fp = fp
  /\ checker.at = "confirm" => \A fp \in firing \intersect active.fps : active.seen > checker.seen
  /\ checker.at = "confirm" => firing = {} \/ past.webhooks > checker.seen

GInv ==
  /\ TypedAlerts
  /\ active.seen =< past.webhooks /\ checker.seen =< past.webhooks
  /\ past.faults = 0 /\ ~past.overlapped => Together
  /\ past.faults = 0 /\ ~past.overlapped /\ ~past.lost => Current

\* Goroutine h goes on as r.
Becomes(h, r) == handlers' = [g \in Handlers |-> IF g = h THEN r ELSE handlers[g]]

LEMMA HandlerGoes ==
  ASSUME TypedAlerts, NEW h \in Handlers
  PROVE  /\ \A at : Alerts!Goto(h, at) => Becomes(h, [at |-> at, fp |-> handlers[h].fp, new |-> handlers[h].new])
         /\ Alerts!Return(h) => Becomes(h, Alerts!Done)
         /\ ~At(h, {"done"}) => handlers[h].fp \in Instances /\ handlers[h].new \in BOOLEAN
<1>1. handlers[h] = [at |-> handlers[h].at, fp |-> handlers[h].fp, new |-> handlers[h].new]
  BY DEF TypedAlerts, Alerts!Done
<1>2. handlers = [g \in Handlers |-> handlers[g]]  BY DEF TypedAlerts
<1>3. \A at : Alerts!Goto(h, at) => Becomes(h, [at |-> at, fp |-> handlers[h].fp, new |-> handlers[h].new])
  <2> TAKE at
  <2> HAVE Alerts!Goto(h, at)
  <2>1. handlers' = [handlers EXCEPT ![h] = [handlers[h] EXCEPT !.at = at]]  BY DEF Alerts!Goto
  <2>2. [handlers[h] EXCEPT !.at = at] = [at |-> at, fp |-> handlers[h].fp, new |-> handlers[h].new]
    BY <1>1
  <2>3. QED  BY <1>2, <2>1, <2>2 DEF Becomes
<1>4. Alerts!Return(h) => Becomes(h, Alerts!Done)  BY <1>2 DEF Alerts!Return, Becomes
<1>5. ~At(h, {"done"}) => handlers[h].fp \in Instances /\ handlers[h].new \in BOOLEAN
  BY DEF TypedAlerts, Alerts!Done, At
<1>6. QED  BY <1>3, <1>4, <1>5

LEMMA AlertsInit == ASSUME Alerts!Init PROVE GInv
<1> USE DEF Alerts!Init, Alerts!Done, Alerts!NoEntry
<1>1. TypedAlerts
  <2>1. active \in [there : BOOLEAN, fps : SUBSET Instances, seen : Nat]  OBVIOUS
  <2>2. handlers = [h \in Handlers |-> Alerts!Done] /\ handlers = [h \in Handlers |-> handlers[h]]  OBVIOUS
  <2>3. checker \in [at : {"idle", "ask", "confirm", "stop", "end"}, seen : Nat]  OBVIOUS
  <2>4. past \in [webhooks : Nat, faults : Nat, lost : BOOLEAN, overlapped : BOOLEAN]  OBVIOUS
  <2>5. QED  BY <2>1, <2>2, <2>3, <2>4 DEF TypedAlerts
<1>2. \A h \in Handlers : At(h, {"done"}) /\ handlers[h].at = "done"  BY DEF At
<1>3. Together  BY <1>2 DEF Together, At, Alerts!TearingDown, Alerts!Failing
<1>4. Current  BY <1>2 DEF Current, At
<1>5. QED  BY <1>1, <1>3, <1>4 DEF GInv

LEMMA WebhookKeeps ==
  ASSUME GInv, NEW h \in Handlers, NEW fp \in Instances, NEW fires \in BOOLEAN, Alerts!Webhook(h, fp, fires)
  PROVE  GInv'
<1> DEFINE r == [at |-> IF fires THEN "reserve" ELSE "release", fp |-> fp, new |-> FALSE]
<1>1. TypedAlerts  BY DEF GInv
<1>2. PICK lost \in BOOLEAN :
        /\ handlers[h].at = "done" /\ (fires \/ fp \in firing)
        /\ firing' = IF fires THEN firing \union {fp} ELSE firing \ {fp}
        /\ past' = [past EXCEPT !.webhooks = @ + 1, !.lost = @ \/ lost,
                                !.overlapped = @ \/ fp \in {handlers[g].fp : g \in Handlers}]
        /\ handlers' = IF lost THEN handlers ELSE [handlers EXCEPT ![h] = r]
        /\ UNCHANGED <<active, checker, polls, alertCard>>
  BY DEF Alerts!Webhook
<1>3. /\ past' \in [webhooks : Nat, faults : Nat, lost : BOOLEAN, overlapped : BOOLEAN]
      /\ past'.webhooks = past.webhooks + 1 /\ past'.faults = past.faults
      /\ past'.lost <=> past.lost \/ lost
      /\ past'.overlapped <=> past.overlapped \/ \E g \in Handlers : handlers[g].fp = fp
  <2> DEFINE b == past.lost \/ lost
             c == past.overlapped \/ fp \in {handlers[g].fp : g \in Handlers}
  <2>1. past = [webhooks |-> past.webhooks, faults |-> past.faults, lost |-> past.lost, overlapped |-> past.overlapped]
        /\ past.webhooks \in Nat /\ past.faults \in Nat
    BY <1>1 DEF TypedAlerts
  <2>2. past' = [webhooks |-> past.webhooks + 1, faults |-> past.faults, lost |-> b, overlapped |-> c]
    BY <1>2, <2>1
  <2>3. b \in BOOLEAN /\ c \in BOOLEAN  OBVIOUS
  <2>4. c <=> past.overlapped \/ \E g \in Handlers : handlers[g].fp = fp  OBVIOUS
  <2> HIDE DEF b, c
  <2>5. past'.lost = b /\ past'.overlapped = c  BY <2>2
  <2>6. b <=> past.lost \/ lost  BY DEF b
  <2>7. QED  BY <2>1, <2>2, <2>3, <2>4, <2>5, <2>6
<1>4. ~lost => Becomes(h, r)  BY <1>1, <1>2 DEF TypedAlerts, Becomes
<1>5. r \in [at : {"reserve", "create", "update", "start", "release", "stop", "end"}, fp : Instances, new : BOOLEAN]
      /\ r.fp = fp /\ r.at = (IF fires THEN "reserve" ELSE "release")
  OBVIOUS
<1> HIDE DEF r
<1>6. TypedAlerts'
  <2>1. firing' \subseteq Instances  BY <1>1, <1>2 DEF TypedAlerts
  <2>2. (\A g \in Handlers : handlers'[g] = handlers[g] \/ handlers'[g] = r) /\ handlers' = [g \in Handlers |-> handlers'[g]]
    BY <1>1, <1>2, <1>4 DEF Becomes, TypedAlerts
  <2>3. QED  BY <1>1, <1>2, <1>3, <1>5, <2>1, <2>2 DEF TypedAlerts
<1>7. \A g \in Handlers : handlers'[g] = IF g = h /\ ~lost THEN r ELSE handlers[g]
  BY <1>2, <1>4 DEF Becomes
<1>8. past.faults = 0 /\ ~past'.overlapped => Together'
  BY <1>1, <1>2, <1>3, <1>5, <1>7 DEF GInv, Together, At, Alerts!TearingDown, Alerts!Failing
<1>9. ASSUME past.faults = 0, ~past'.overlapped, ~past'.lost PROVE Current'
  <2>1. Current /\ ~lost /\ \A g \in Handlers : handlers[g].fp # fp  BY <1>3, <1>9 DEF GInv
  <2>2. \A g \in Handlers : handlers'[g] = IF g = h THEN r ELSE handlers[g]  BY <1>7, <2>1
  <2>3. active.seen \in Nat /\ checker.seen \in Nat /\ past.webhooks \in Nat /\ checker.seen =< past.webhooks
    BY <1>1 DEF GInv, TypedAlerts
  <2> USE DEF Current, At
  <2>4. \A i \in Instances : i # fp => (i \in firing' <=> i \in firing)  BY <1>2
  <2>5. (checker.at = "confirm" => \A i \in firing \intersect active.fps : active.seen > checker.seen)'
    BY <1>2, <2>1, <2>2, <2>3, <2>4
  <2>6. QED  BY <1>2, <1>3, <1>5, <2>1, <2>2, <2>3, <2>4, <2>5
<1>10. QED  BY <1>1, <1>2, <1>3, <1>6, <1>8, <1>9 DEF GInv, TypedAlerts

LEMMA AlertsCounted ==
  ASSUME TypedAlerts, NEW failed \in BOOLEAN, Alerts!Counted(failed)
  PROVE  /\ past' \in [webhooks : Nat, faults : Nat, lost : BOOLEAN, overlapped : BOOLEAN]
         /\ past'.webhooks = past.webhooks /\ past'.faults = (IF failed THEN past.faults + 1 ELSE past.faults)
         /\ past'.lost = past.lost /\ past'.overlapped = past.overlapped
BY DEF Alerts!Counted, TypedAlerts

LEMMA AlertsOverlap ==
  ASSUME TypedAlerts, NEW b \in BOOLEAN, past' = [past EXCEPT !.overlapped = @ \/ b]
  PROVE  /\ past' \in [webhooks : Nat, faults : Nat, lost : BOOLEAN, overlapped : BOOLEAN]
         /\ past'.webhooks = past.webhooks /\ past'.faults = past.faults
         /\ past'.lost = past.lost /\ (past'.overlapped <=> past.overlapped \/ b)
<1> DEFINE c == past.overlapped \/ b
<1>1. past = [webhooks |-> past.webhooks, faults |-> past.faults, lost |-> past.lost, overlapped |-> past.overlapped]
      /\ past.webhooks \in Nat /\ past.faults \in Nat /\ past.lost \in BOOLEAN
  BY DEF TypedAlerts
<1>2. past' = [webhooks |-> past.webhooks, faults |-> past.faults, lost |-> past.lost, overlapped |-> c]
  BY <1>1
<1>3. c \in BOOLEAN /\ (c <=> past.overlapped \/ b)  OBVIOUS
<1> HIDE DEF c
<1>4. past'.overlapped = c /\ past'.lost = past.lost  BY <1>2
<1>5. QED  BY <1>1, <1>2, <1>3, <1>4

\* A goroutine that goes on as a typed record keeps the types.
LEMMA HandlerTyped ==
  ASSUME TypedAlerts, NEW h \in Handlers, NEW r, Becomes(h, r),
         r \in [at : {"reserve", "create", "update", "start", "release", "stop", "end"},
               fp : Instances, new : BOOLEAN] \union {Alerts!Done},
         firing' \subseteq Instances,
         active' \in [there : BOOLEAN, fps : SUBSET Instances, seen : Nat],
         checker' = checker, polls' \in BOOLEAN,
         alertCard' \in {"none", "created", "ongoing", "ended"},
         past' \in [webhooks : Nat, faults : Nat, lost : BOOLEAN, overlapped : BOOLEAN]
  PROVE  TypedAlerts' /\ \A g \in Handlers : handlers'[g] = IF g = h THEN r ELSE handlers[g]
<1>1. \A g \in Handlers : handlers'[g] = IF g = h THEN r ELSE handlers[g]  BY DEF Becomes
<1>2. handlers' = [g \in Handlers |-> handlers'[g]]  BY DEF Becomes
<1>3. QED  BY <1>1, <1>2 DEF TypedAlerts

LEMMA ReserveKeeps ==
  ASSUME GInv, NEW h \in Handlers, Alerts!Reserve(h)
  PROVE  GInv'
<1> DEFINE n == ~active.there
           to == IF active.there THEN "update" ELSE "create"
           r == [at |-> to, fp |-> handlers[h].fp, new |-> n]
<1>1. TypedAlerts  BY DEF GInv
<1>2. /\ handlers[h].at = "reserve"
      /\ active' = [there |-> TRUE, fps |-> active.fps \union {handlers[h].fp}, seen |-> past.webhooks]
      /\ handlers' = [handlers EXCEPT ![h].at = to, ![h].new = n]
      /\ past' = [past EXCEPT !.overlapped = @ \/ Alerts!TearingDown]
      /\ UNCHANGED <<firing, checker, polls, alertCard>>
  BY DEF Alerts!Reserve
<1>3. handlers[h].fp \in Instances  BY <1>1, <1>2, HandlerGoes DEF At
<1>4. Alerts!TearingDown \in BOOLEAN  BY DEF Alerts!TearingDown
<1>5. /\ past' \in [webhooks : Nat, faults : Nat, lost : BOOLEAN, overlapped : BOOLEAN]
      /\ past'.webhooks = past.webhooks /\ past'.faults = past.faults
      /\ past'.lost = past.lost /\ (past'.overlapped <=> past.overlapped \/ Alerts!TearingDown)
  BY <1>1, <1>2, <1>4, AlertsOverlap
<1>6. n \in BOOLEAN /\ (n <=> ~active.there) /\ to \in {"update", "create"} /\ (to = "update" <=> active.there)
  BY <1>1 DEF TypedAlerts
<1> HIDE DEF n, to
<1>7. Becomes(h, r)
  <2>1. handlers[h] = [at |-> handlers[h].at, fp |-> handlers[h].fp, new |-> handlers[h].new]
        /\ handlers = [g \in Handlers |-> handlers[g]]
    BY <1>1 DEF TypedAlerts, Alerts!Done
  <2> DEFINE f == [handlers EXCEPT ![h] = [handlers[h] EXCEPT !.at = to]]
  <2>2. handlers' = [f EXCEPT ![h] = [f[h] EXCEPT !.new = n]]  BY <1>2
  <2>3. f = [g \in Handlers |-> IF g = h THEN [at |-> to, fp |-> handlers[h].fp, new |-> handlers[h].new] ELSE handlers[g]]
    BY <2>1
  <2> HIDE DEF f
  <2>4. f[h] = [at |-> to, fp |-> handlers[h].fp, new |-> handlers[h].new]  BY <2>3
  <2>5. [f[h] EXCEPT !.new = n] = r  BY <2>4
  <2>6. QED  BY <2>2, <2>3, <2>5 DEF Becomes
<1>13. r \in [at : {"reserve", "create", "update", "start", "release", "stop", "end"}, fp : Instances, new : BOOLEAN]
      /\ r.fp = handlers[h].fp /\ r.at = to /\ r.new = n
  BY <1>3, <1>6
<1> HIDE DEF r
<1>8. active' \in [there : BOOLEAN, fps : SUBSET Instances, seen : Nat]
      /\ active'.there /\ active'.fps = active.fps \union {handlers[h].fp} /\ active'.seen = past.webhooks
  BY <1>1, <1>2, <1>3 DEF TypedAlerts
<1> HIDE DEF r
<1>9. TypedAlerts' /\ \A g \in Handlers : handlers'[g] = IF g = h THEN r ELSE handlers[g]
  BY <1>1, <1>2, <1>5, <1>7, <1>8, <1>13, HandlerTyped DEF TypedAlerts
<1>10. ASSUME past.faults = 0, ~past'.overlapped PROVE Together'
  <2>1. Together /\ ~Alerts!TearingDown  BY <1>5, <1>10 DEF GInv
  <2>2. ~Alerts!TearingDown'  BY <1>2, <1>6, <1>9, <1>13, <2>1 DEF Alerts!TearingDown
  <2>3. h \in Alerts!Failing'  BY <1>6, <1>9, <1>13 DEF Alerts!Failing
  <2>4. CASE active.there
    <3>1. \A g \in Handlers : At(g, {"create", "update", "start"}) /\ handlers[g].new => g # h  BY <1>2 DEF At
    <3>2. QED
      BY <1>2, <1>8, <1>9, <2>1, <2>2, <2>3, <2>4, <3>1 DEF Together, At
  <2>5. CASE ~active.there
    <3>1. handlers'[h].at = "create" /\ handlers'[h].new  BY <1>6, <1>9, <1>13, <2>5
    <3>2. QED  BY <1>2, <1>8, <1>9, <2>1, <2>2, <2>3, <2>5, <3>1 DEF Together, At
  <2>6. QED  BY <2>4, <2>5
<1>11. ASSUME past.faults = 0, ~past'.overlapped, ~past'.lost PROVE Current'
  <2>1. Current  BY <1>5, <1>11 DEF GInv
  <2>2. handlers[h].fp \in firing /\ handlers'[h].at \in {"update", "create"} /\ handlers'[h].fp = handlers[h].fp
    <3>1. handlers[h].fp \in firing  BY <1>2, <2>1 DEF Current, At
    <3>2. handlers'[h] = r  BY <1>9
    <3>3. QED  BY <1>6, <1>13, <3>1, <3>2
  <2>3. checker.at = "confirm" => past.webhooks > checker.seen  BY <2>1, <2>2 DEF Current
  <2>4. \A g \in Handlers : g # h => handlers'[g] = handlers[g]  BY <1>9
  <2>12. firing' = firing /\ checker' = checker /\ handlers[h].at = "reserve"  BY <1>2
  <2> USE <2>1, <2>2, <2>4, <2>12 DEF Current, At
  <2>5. \A g \in Handlers : (At(g, {"reserve"}) => handlers[g].fp \in firing)' /\ (At(g, {"release"}) => handlers[g].fp \notin firing)'
    OBVIOUS
  <2>6. \A g, i \in Handlers : (~At(g, {"done"}) /\ ~At(i, {"done"}) /\ handlers[g].fp = handlers[i].fp => g = i)'
    OBVIOUS
  <2>7. \A fp \in Instances : (fp \in firing /\ fp \notin active.fps
          => \E g \in Handlers : At(g, {"reserve"}) /\ handlers[g].fp = fp)'
    BY <1>8
  <2>8. \A fp \in Instances : (fp \in active.fps /\ fp \notin firing
          => \E g \in Handlers : At(g, {"release"}) /\ handlers[g].fp = fp)'
    BY <1>8
  <2>9. (checker.at = "confirm" => \A fp \in firing \intersect active.fps : active.seen > checker.seen)'
    BY <1>8, <2>3
  <2>10. (checker.at = "confirm" => firing = {} \/ past.webhooks > checker.seen)'
    BY <1>5
  <2>11. QED  BY <2>5, <2>6, <2>7, <2>8, <2>9, <2>10
<1>12. QED  BY <1>1, <1>2, <1>5, <1>8, <1>9, <1>10, <1>11 DEF GInv, TypedAlerts

\* A goroutine goes on, the entry is as it was and no teardown begins.
LEMMA CreateKeeps ==
  ASSUME GInv, NEW h \in Handlers, Alerts!CreateActivity(h)
  PROVE  GInv'
<1> DEFINE r == [at |-> "update", fp |-> handlers[h].fp, new |-> handlers[h].new]
<1>1. TypedAlerts  BY DEF GInv
<1>2. PICK failed \in BOOLEAN :
        /\ handlers[h].at = "create"
        /\ Alerts!Counted(failed)
        /\ failed => active' = Alerts!NoEntry /\ Alerts!Return(h) /\ UNCHANGED alertCard
        /\ ~failed => /\ alertCard' = IF alertCard = "ongoing" THEN alertCard ELSE "created"
                      /\ Alerts!Goto(h, "update") /\ UNCHANGED active
        /\ UNCHANGED <<firing, checker, polls>>
  BY DEF Alerts!CreateActivity
<1>3. /\ past' \in [webhooks : Nat, faults : Nat, lost : BOOLEAN, overlapped : BOOLEAN]
      /\ past'.webhooks = past.webhooks /\ past'.faults = (IF failed THEN past.faults + 1 ELSE past.faults)
      /\ past'.lost = past.lost /\ past'.overlapped = past.overlapped
  BY <1>1, <1>2, AlertsCounted
<1>4. handlers[h].fp \in Instances /\ handlers[h].new \in BOOLEAN  BY <1>1, <1>2, HandlerGoes DEF At
<1>5. CASE failed
  <2>1. Becomes(h, Alerts!Done)  BY <1>1, <1>2, <1>5, HandlerGoes
  <2>2. active' \in [there : BOOLEAN, fps : SUBSET Instances, seen : Nat] /\ active'.seen = 0
    <3>1. active' = [there |-> FALSE, fps |-> {}, seen |-> 0]  BY <1>2, <1>5 DEF Alerts!NoEntry
    <3>2. QED  BY <3>1
  <2>3. TypedAlerts'  BY <1>1, <1>2, <1>3, <1>5, <2>1, <2>2, HandlerTyped DEF TypedAlerts
  <2>4. past'.faults # 0  BY <1>1, <1>3, <1>5 DEF TypedAlerts
  <2>5. QED  BY <1>1, <1>2, <1>3, <2>2, <2>3, <2>4 DEF GInv, TypedAlerts
<1>6. CASE ~failed
  <2>1. Becomes(h, r)  BY <1>1, <1>2, <1>6, HandlerGoes
  <2>2. r \in [at : {"reserve", "create", "update", "start", "release", "stop", "end"}, fp : Instances, new : BOOLEAN]
        /\ r.fp = handlers[h].fp /\ r.at = "update" /\ r.new = handlers[h].new
    BY <1>4
  <2> HIDE DEF r
  <2>3. TypedAlerts' /\ \A g \in Handlers : handlers'[g] = IF g = h THEN r ELSE handlers[g]
    BY <1>1, <1>2, <1>3, <1>6, <2>1, <2>2, HandlerTyped DEF TypedAlerts
  <2>4. past.faults = 0 /\ ~past'.overlapped => Together'
    BY <1>1, <1>2, <1>3, <1>6, <2>2, <2>3 DEF GInv, Together, At, Alerts!TearingDown, Alerts!Failing
  <2>5. past.faults = 0 /\ ~past'.overlapped /\ ~past'.lost => Current'
    BY <1>1, <1>2, <1>3, <1>6, <2>2, <2>3 DEF GInv, Current, At, TypedAlerts
  <2>6. QED  BY <1>1, <1>2, <1>3, <1>6, <2>3, <2>4, <2>5 DEF GInv, TypedAlerts
<1>7. QED  BY <1>5, <1>6

\* A goroutine that is done with the fingerprints leaves them as they are.
LEMMA CurrentGoes ==
  ASSUME Current, NEW h \in Handlers, NEW r, Becomes(h, r),
         handlers[h].at \notin {"reserve", "release", "done"},
         r.at = "done" \/ (r.at \notin {"reserve", "release"} /\ r.fp = handlers[h].fp),
         firing' = firing, active' = active, checker' = checker, past'.webhooks = past.webhooks
  PROVE  Current'
<1>1. \A g \in Handlers : handlers'[g] = IF g = h THEN r ELSE handlers[g]  BY DEF Becomes
<1>2. QED  BY <1>1 DEF Current, At

LEMMA UpdateKeeps ==
  ASSUME GInv, NEW h \in Handlers, Alerts!Update(h)
  PROVE  GInv'
<1>1. TypedAlerts  BY DEF GInv
<1>2. PICK failed \in BOOLEAN :
        /\ handlers[h].at = "update"
        /\ Alerts!Counted(failed) \/ (~failed /\ UNCHANGED past)
        /\ alertCard' = "ongoing" \/ UNCHANGED alertCard
        /\ IF handlers[h].new /\ ~failed THEN Alerts!Goto(h, "start") ELSE Alerts!Return(h)
        /\ UNCHANGED <<firing, active, checker, polls>>
  BY DEF Alerts!Update
<1>3. /\ past' \in [webhooks : Nat, faults : Nat, lost : BOOLEAN, overlapped : BOOLEAN]
      /\ past'.webhooks = past.webhooks /\ past'.faults = (IF failed THEN past.faults + 1 ELSE past.faults)
      /\ past'.lost = past.lost /\ past'.overlapped = past.overlapped
  BY <1>1, <1>2, AlertsCounted DEF TypedAlerts
<1>4. handlers[h].fp \in Instances /\ handlers[h].new \in BOOLEAN  BY <1>1, <1>2, HandlerGoes DEF At
<1> DEFINE r == IF handlers[h].new /\ ~failed
                THEN [at |-> "start", fp |-> handlers[h].fp, new |-> handlers[h].new] ELSE Alerts!Done
<1>5. Becomes(h, r)  BY <1>1, <1>2, HandlerGoes
<1>6. /\ r \in [at : {"reserve", "create", "update", "start", "release", "stop", "end"}, fp : Instances, new : BOOLEAN]
               \union {Alerts!Done}
      /\ r.at = "done" \/ (r.at = "start" /\ r.fp = handlers[h].fp /\ r.new)
      /\ handlers[h].new /\ ~failed => r.at = "start"
  BY <1>4 DEF Alerts!Done
<1> HIDE DEF r
<1>7. TypedAlerts' /\ \A g \in Handlers : handlers'[g] = IF g = h THEN r ELSE handlers[g]
  BY <1>1, <1>2, <1>3, <1>5, <1>6, HandlerTyped DEF TypedAlerts
<1>8. past'.faults = 0 => past.faults = 0 /\ ~failed  BY <1>1, <1>3 DEF TypedAlerts
<1>9. UNCHANGED <<active, checker, polls>> /\ (alertCard' = "ongoing" \/ alertCard' = alertCard) /\ handlers[h].at = "update"
  BY <1>2
<1>10. past'.faults = 0 /\ ~past'.overlapped => Together'
  <2> SUFFICES ASSUME past.faults = 0, ~failed, ~past.overlapped PROVE Together'
    BY <1>3, <1>8
  <2>1. Together  BY DEF GInv
  <2>2. QED  BY <1>6, <1>7, <1>9, <2>1 DEF Together, At, Alerts!TearingDown, Alerts!Failing
<1>11. past'.faults = 0 /\ ~past'.overlapped /\ ~past'.lost => Current'
  BY <1>2, <1>3, <1>5, <1>6, <1>8, CurrentGoes DEF GInv
<1>12. QED  BY <1>1, <1>2, <1>3, <1>7, <1>10, <1>11 DEF GInv, TypedAlerts

LEMMA StartPollerKeeps ==
  ASSUME GInv, NEW h \in Handlers, Alerts!StartPoller(h)
  PROVE  GInv'
<1>1. TypedAlerts  BY DEF GInv
<1>2. handlers[h].at = "start" /\ polls' = TRUE /\ Alerts!Return(h)
      /\ UNCHANGED <<firing, active, checker, alertCard, past>>
  BY DEF Alerts!StartPoller
<1>3. Becomes(h, Alerts!Done)  BY <1>1, <1>2, HandlerGoes
<1>4. TypedAlerts' /\ \A g \in Handlers : handlers'[g] = IF g = h THEN Alerts!Done ELSE handlers[g]
  BY <1>1, <1>2, <1>3, HandlerTyped DEF TypedAlerts
<1>5. Together => Together'
  BY <1>2, <1>4 DEF Together, At, Alerts!TearingDown, Alerts!Failing, Alerts!Done
<1>6. Current => Current'  BY <1>2, <1>3, CurrentGoes DEF Alerts!Done
<1>7. QED  BY <1>2, <1>4, <1>5, <1>6 DEF GInv

LEMMA StopPollerKeeps ==
  ASSUME GInv, NEW h \in Handlers, Alerts!StopPoller(h)
  PROVE  GInv'
<1> DEFINE r == [at |-> "end", fp |-> handlers[h].fp, new |-> handlers[h].new]
<1>1. TypedAlerts  BY DEF GInv
<1>2. handlers[h].at = "stop" /\ polls' = FALSE /\ Alerts!Goto(h, "end")
      /\ UNCHANGED <<firing, active, checker, alertCard, past>>
  BY DEF Alerts!StopPoller
<1>3. Becomes(h, r) /\ handlers[h].fp \in Instances /\ handlers[h].new \in BOOLEAN
  BY <1>1, <1>2, HandlerGoes DEF At
<1>4. r \in [at : {"reserve", "create", "update", "start", "release", "stop", "end"}, fp : Instances, new : BOOLEAN]
      /\ r.at = "end" /\ r.fp = handlers[h].fp
  BY <1>3
<1> HIDE DEF r
<1>5. TypedAlerts' /\ \A g \in Handlers : handlers'[g] = IF g = h THEN r ELSE handlers[g]
  <2>1. /\ firing' \subseteq Instances /\ active' \in [there : BOOLEAN, fps : SUBSET Instances, seen : Nat]
        /\ checker' = checker /\ polls' \in BOOLEAN
        /\ alertCard' \in {"none", "created", "ongoing", "ended"}
        /\ past' \in [webhooks : Nat, faults : Nat, lost : BOOLEAN, overlapped : BOOLEAN]
    BY <1>1, <1>2 DEF TypedAlerts
  <2>2. QED  BY <1>1, <1>3, <1>4, <2>1, HandlerTyped
<1>6. Together => Together'
  <2> SUFFICES ASSUME Together PROVE Together'
    OBVIOUS
  <2>1. ~active.there /\ Alerts!TearingDown /\ Alerts!TearingDown'
    BY <1>2, <1>4, <1>5 DEF Together, Alerts!TearingDown
  <2>2. Alerts!Failing' = Alerts!Failing  BY <1>2, <1>4, <1>5 DEF Alerts!Failing
  <2>3. QED  BY <1>2, <2>1, <2>2 DEF Together
<1>7. Current => Current'  BY <1>2, <1>3, <1>4, CurrentGoes
<1>8. QED  BY <1>2, <1>5, <1>6, <1>7 DEF GInv

LEMMA EndActivityKeeps ==
  ASSUME GInv, NEW h \in Handlers, Alerts!EndActivity(h)
  PROVE  GInv'
<1>1. TypedAlerts  BY DEF GInv
<1>2. PICK failed \in BOOLEAN :
        /\ handlers[h].at = "end" /\ Alerts!Counted(failed)
        /\ alertCard' = IF failed THEN alertCard ELSE "ended"
        /\ Alerts!Return(h) /\ UNCHANGED <<firing, active, checker, polls>>
  BY DEF Alerts!EndActivity
<1>3. /\ past' \in [webhooks : Nat, faults : Nat, lost : BOOLEAN, overlapped : BOOLEAN]
      /\ past'.webhooks = past.webhooks /\ past'.faults = (IF failed THEN past.faults + 1 ELSE past.faults)
      /\ past'.lost = past.lost /\ past'.overlapped = past.overlapped
  BY <1>1, <1>2, AlertsCounted
<1>4. Becomes(h, Alerts!Done)  BY <1>1, <1>2, HandlerGoes
<1>5. TypedAlerts' /\ \A g \in Handlers : handlers'[g] = IF g = h THEN Alerts!Done ELSE handlers[g]
  BY <1>1, <1>2, <1>3, <1>4, HandlerTyped DEF TypedAlerts
<1>6. past'.faults = 0 => past.faults = 0 /\ ~failed  BY <1>1, <1>3 DEF TypedAlerts
<1>7. past'.faults = 0 /\ ~past'.overlapped => Together'
  <2> SUFFICES ASSUME past.faults = 0, ~failed, ~past.overlapped PROVE Together'
    BY <1>3, <1>6
  <2>1. Together  BY DEF GInv
  <2>2. ~active.there /\ alertCard' = "ended" /\ UNCHANGED <<active, checker, polls>>
    BY <1>2, <2>1 DEF Together, Alerts!TearingDown
  <2>3. Alerts!Failing' = Alerts!Failing /\ (\A g \in Handlers : handlers'[g].at = "stop" <=> handlers[g].at = "stop")
    BY <1>2, <1>5 DEF Alerts!Failing, Alerts!Done
  <2>4. QED  BY <2>1, <2>2, <2>3 DEF Together, At
<1>8. past'.faults = 0 /\ ~past'.overlapped /\ ~past'.lost => Current'
  BY <1>2, <1>3, <1>4, <1>6, CurrentGoes DEF GInv, Alerts!Done
<1>9. QED  BY <1>2, <1>3, <1>5, <1>7, <1>8 DEF GInv

LEMMA NothingThere ==
  active' = Alerts!NoEntry
    => /\ active' \in [there : BOOLEAN, fps : SUBSET Instances, seen : Nat]
       /\ ~active'.there /\ active'.fps = {} /\ active'.seen = 0
<1> SUFFICES ASSUME active' = Alerts!NoEntry
             PROVE  /\ active' \in [there : BOOLEAN, fps : SUBSET Instances, seen : Nat]
                    /\ ~active'.there /\ active'.fps = {} /\ active'.seen = 0
  OBVIOUS
<1>1. active' = [there |-> FALSE, fps |-> {}, seen |-> 0]  BY DEF Alerts!NoEntry
<1>2. QED  BY <1>1

LEMMA DroppedIs ==
  ASSUME TypedAlerts, Alerts!Dropped
  PROVE  /\ past' \in [webhooks : Nat, faults : Nat, lost : BOOLEAN, overlapped : BOOLEAN]
         /\ past'.webhooks = past.webhooks /\ past'.faults = past.faults
         /\ past'.lost = past.lost /\ (past'.overlapped <=> past.overlapped \/ Alerts!Failing # {})
         /\ active' \in [there : BOOLEAN, fps : SUBSET Instances, seen : Nat]
         /\ ~active'.there /\ active'.fps = {} /\ active'.seen = 0
<1> DEFINE b == Alerts!Failing # {}
<1>1. b \in BOOLEAN /\ past' = [past EXCEPT !.overlapped = @ \/ b]  BY DEF Alerts!Dropped
<1>2. b <=> Alerts!Failing # {}  OBVIOUS
<1> HIDE DEF b
<1>3. QED  BY <1>1, <1>2, AlertsOverlap, NothingThere DEF Alerts!Dropped

LEMMA ReleaseKeeps ==
  ASSUME GInv, NEW h \in Handlers, Alerts!Release(h)
  PROVE  GInv'
<1> DEFINE left == active.fps \ {handlers[h].fp}
           drops == active.there /\ left = {}
           r == IF drops THEN [at |-> "stop", fp |-> handlers[h].fp, new |-> handlers[h].new] ELSE Alerts!Done
<1>1. TypedAlerts  BY DEF GInv
<1>2. /\ handlers[h].at = "release" /\ UNCHANGED <<firing, checker, polls, alertCard>>
      /\ drops => Alerts!Dropped /\ Alerts!Goto(h, "stop")
      /\ ~drops => active' = [active EXCEPT !.fps = left] /\ Alerts!Return(h) /\ UNCHANGED past
  BY DEF Alerts!Release
<1>3. /\ past' \in [webhooks : Nat, faults : Nat, lost : BOOLEAN, overlapped : BOOLEAN]
      /\ past'.webhooks = past.webhooks /\ past'.faults = past.faults /\ past'.lost = past.lost
      /\ past'.overlapped <=> past.overlapped \/ (drops /\ Alerts!Failing # {})
  BY <1>1, <1>2, DroppedIs DEF TypedAlerts
<1>4. /\ active' \in [there : BOOLEAN, fps : SUBSET Instances, seen : Nat]
      /\ active'.fps = left /\ (active'.there <=> active.there /\ ~drops)
      /\ active'.seen = IF drops THEN 0 ELSE active.seen
  <2>1. CASE drops  BY <1>1, <1>2, <2>1, DroppedIs
  <2>2. CASE ~drops
    <3>1. active = [there |-> active.there, fps |-> active.fps, seen |-> active.seen]
          /\ active.there \in BOOLEAN /\ left \subseteq Instances /\ active.seen \in Nat
      BY <1>1 DEF TypedAlerts
    <3>2. active' = [there |-> active.there, fps |-> left, seen |-> active.seen]  BY <1>2, <2>2, <3>1
    <3> HIDE DEF left
    <3>3. QED  BY <2>2, <3>1, <3>2
  <2>3. QED  BY <2>1, <2>2
<1>5. handlers[h].fp \in Instances /\ handlers[h].new \in BOOLEAN  BY <1>1, <1>2, HandlerGoes DEF At
<1>6. Becomes(h, r)  BY <1>1, <1>2, HandlerGoes
<1>7. /\ r \in [at : {"reserve", "create", "update", "start", "release", "stop", "end"}, fp : Instances, new : BOOLEAN]
               \union {Alerts!Done}
      /\ drops => r.at = "stop" /\ r.fp = handlers[h].fp
      /\ ~drops => r.at = "done"
  BY <1>5 DEF Alerts!Done
<1>8. left = active.fps \ {handlers[h].fp} /\ (drops <=> active.there /\ left = {})  OBVIOUS
<1> HIDE DEF left, drops, r
<1>9. TypedAlerts' /\ \A g \in Handlers : handlers'[g] = IF g = h THEN r ELSE handlers[g]
  BY <1>1, <1>2, <1>3, <1>4, <1>6, <1>7, HandlerTyped DEF TypedAlerts
<1>10. UNCHANGED <<firing, checker, polls, alertCard>> /\ handlers[h].at = "release"  BY <1>2
<1>11. \A g \in Handlers : g # h => handlers'[g] = handlers[g]  BY <1>9
<1>12. handlers'[h] = r  BY <1>9
<1>13. ASSUME Together, ~past'.overlapped PROVE Together'
  <2>1. Alerts!Failing' = Alerts!Failing  BY <1>7, <1>10, <1>11, <1>12 DEF Alerts!Failing
  <2>2. CASE drops
    <3>1. Alerts!TearingDown' /\ At(h, {"stop"})'  BY <1>7, <1>12, <2>2 DEF Alerts!TearingDown, At
    <3>2. Alerts!Failing = {} /\ ~active'.there /\ active'.fps = {}  BY <1>3, <1>4, <1>8, <1>13, <2>2
    <3>3. QED  BY <2>1, <3>1, <3>2 DEF Together
  <2>3. CASE ~drops
    <3>1. Alerts!TearingDown' <=> Alerts!TearingDown  BY <1>7, <1>10, <1>11, <1>12, <2>3 DEF Alerts!TearingDown
    <3>2. (active'.there <=> active.there) /\ (active'.there <=> active'.fps # {})
      BY <1>4, <1>8, <1>13, <2>3 DEF Together
    <3>3. \A places : \A g \in Handlers : g # h => (At(g, places)' <=> At(g, places)) /\ handlers'[g].new = handlers[g].new
      BY <1>11 DEF At
    <3>4. ~At(h, {"stop"}) /\ ~At(h, {"create", "update", "start"}) /\ ~At(h, {"create"})  BY <1>10 DEF At
    <3>5. QED  BY <1>10, <1>13, <2>1, <3>1, <3>2, <3>3, <3>4 DEF Together
  <2>4. QED  BY <2>2, <2>3
<1>14. ASSUME Current PROVE Current'
  <2>1. handlers[h].fp \notin firing  BY <1>10, <1>14 DEF Current, At
  <2>2. r.at \notin {"reserve", "release"} /\ (r.at = "done" \/ r.fp = handlers[h].fp)  BY <1>7
  <2>3. checker.at = "confirm" => \A fp \in firing \intersect active'.fps : active'.seen > checker.seen
    BY <1>4, <1>8, <1>14 DEF Current
  <2>4. \A g \in Handlers : (At(g, {"reserve"}) => handlers[g].fp \in firing)' /\ (At(g, {"release"}) => handlers[g].fp \notin firing)'
    BY <1>10, <1>11, <1>12, <1>14, <2>2 DEF Current, At
  <2>5. \A g, i \in Handlers : (~At(g, {"done"}) /\ ~At(i, {"done"}) /\ handlers[g].fp = handlers[i].fp => g = i)'
    BY <1>10, <1>11, <1>12, <1>14, <2>2 DEF Current, At
  <2>6. \A fp \in Instances : (fp \in firing /\ fp \notin active.fps
          => \E g \in Handlers : At(g, {"reserve"}) /\ handlers[g].fp = fp)'
    BY <1>4, <1>8, <1>10, <1>11, <1>14, <2>1 DEF Current, At
  <2>7. \A fp \in Instances : (fp \in active.fps /\ fp \notin firing
          => \E g \in Handlers : At(g, {"release"}) /\ handlers[g].fp = fp)'
    BY <1>4, <1>8, <1>10, <1>11, <1>14 DEF Current, At
  <2>8. (checker.at = "confirm" => firing = {} \/ past.webhooks > checker.seen)'  BY <1>3, <1>10, <1>14 DEF Current
  <2>9. QED  BY <1>10, <2>3, <2>4, <2>5, <2>6, <2>7, <2>8 DEF Current
<1>15. QED  BY <1>1, <1>3, <1>4, <1>9, <1>10, <1>13, <1>14 DEF GInv, TypedAlerts

\* The checker, the sweeper and the poller leave the goroutines alone.
LEMMA CheckerKeeps ==
  ASSUME GInv,
         \/ Alerts!CheckStates \/ Alerts!IsAlertFiring \/ Alerts!Confirm
         \/ Alerts!CheckerStops \/ Alerts!CheckerEnds \/ Alerts!SweepStale \/ Alerts!PollTick
  PROVE  GInv'
<1>1. TypedAlerts  BY DEF GInv
<1>2. CASE Alerts!CheckStates
  <2>1. /\ checker.at = "idle" /\ active.there /\ checker' = [at |-> "ask", seen |-> active.seen]
        /\ UNCHANGED <<firing, active, handlers, polls, alertCard, past>>
    BY <1>2 DEF Alerts!CheckStates
  <2>2. checker'.at = "ask" /\ checker'.seen = active.seen /\ active.seen \in Nat  BY <1>1, <2>1 DEF TypedAlerts
  <2>3. TypedAlerts'  BY <1>1, <2>1, <2>2 DEF TypedAlerts
  <2>4. Together => Together'  BY <2>1, <2>2 DEF Together, Alerts!TearingDown, Alerts!Failing, At
  <2>5. Current => Current'  BY <2>1, <2>2 DEF Current, At
  <2>6. QED  BY <2>1, <2>2, <2>3, <2>4, <2>5 DEF GInv
<1>3. CASE Alerts!IsAlertFiring
  <2>1. PICK failed \in BOOLEAN :
          /\ checker.at = "ask" /\ (IF failed THEN Alerts!Counted(TRUE) ELSE UNCHANGED past)
          /\ checker' = [checker EXCEPT !.at = IF failed THEN "idle" ELSE IF firing = {} THEN "confirm" ELSE "idle"]
          /\ UNCHANGED <<firing, active, handlers, polls, alertCard>>
    <3>1. CASE Alerts!Counted(TRUE) /\ checker' = [checker EXCEPT !.at = "idle"]
      BY <1>3, <3>1 DEF Alerts!IsAlertFiring
    <3>2. CASE /\ checker' = [checker EXCEPT !.at = IF firing = {} THEN "confirm" ELSE "idle"]
               /\ UNCHANGED past
      BY <1>3, <3>2 DEF Alerts!IsAlertFiring
    <3>3. QED  BY <1>3, <3>1, <3>2 DEF Alerts!IsAlertFiring
  <2>2. /\ checker' = [at |-> checker'.at, seen |-> checker.seen]
        /\ (checker'.at = "idle" \/ (checker'.at = "confirm" /\ firing = {})) /\ checker.seen \in Nat
    BY <1>1, <2>1 DEF TypedAlerts
  <2>3. /\ past' \in [webhooks : Nat, faults : Nat, lost : BOOLEAN, overlapped : BOOLEAN]
        /\ past'.webhooks = past.webhooks /\ (past'.faults = 0 => past.faults = 0)
        /\ past'.lost = past.lost /\ past'.overlapped = past.overlapped
    <3>1. CASE failed
      <4>1. Alerts!Counted(TRUE)  BY <2>1, <3>1
      <4>2. /\ past' \in [webhooks : Nat, faults : Nat, lost : BOOLEAN, overlapped : BOOLEAN]
            /\ past'.webhooks = past.webhooks /\ past'.faults = (IF TRUE THEN past.faults + 1 ELSE past.faults)
            /\ past'.lost = past.lost /\ past'.overlapped = past.overlapped
        BY <1>1, <4>1, AlertsCounted
      <4>3. past.faults \in Nat /\ past'.faults = past.faults + 1  BY <1>1, <4>2 DEF TypedAlerts
      <4>4. past'.faults # 0  BY <4>3
      <4>5. QED  BY <4>2, <4>4
    <3>2. CASE ~failed  BY <1>1, <2>1, <3>2 DEF TypedAlerts
    <3>3. QED  BY <3>1, <3>2
  <2>4. UNCHANGED <<firing, active, handlers, polls, alertCard>> /\ checker.at = "ask"
        /\ checker'.seen = checker.seen /\ checker'.at \in {"idle", "confirm"} /\ (checker'.at = "confirm" => firing = {})
    BY <2>1, <2>2
  <2>5. TypedAlerts'
    <3>1. checker' \in [at : {"idle", "ask", "confirm", "stop", "end"}, seen : Nat]  BY <1>1, <2>2, <2>4 DEF TypedAlerts
    <3>2. QED  BY <1>1, <2>3, <2>4, <3>1 DEF TypedAlerts
  <2>6. Together => Together'  BY <2>4 DEF Together, Alerts!TearingDown, Alerts!Failing, At
  <2>7. Current => Current'  BY <2>3, <2>4 DEF Current, At
  <2>8. QED  BY <2>3, <2>4, <2>5, <2>6, <2>7 DEF GInv
<1>4. CASE Alerts!Confirm
  <2>1. checker.at = "confirm" /\ UNCHANGED <<firing, handlers, polls, alertCard>>  BY <1>4 DEF Alerts!Confirm
  <2>2. CASE Alerts!Unrefreshed
    <3>1. Alerts!Dropped /\ checker' = [checker EXCEPT !.at = "stop"]  BY <1>4, <2>2 DEF Alerts!Confirm
    <3>2. checker'.at = "stop" /\ checker'.seen = checker.seen
          /\ checker' \in [at : {"idle", "ask", "confirm", "stop", "end"}, seen : Nat]
      BY <1>1, <3>1 DEF TypedAlerts
    <3>3. active.there /\ active.seen = checker.seen  BY <2>2 DEF Alerts!Unrefreshed
    <3>4. /\ past' \in [webhooks : Nat, faults : Nat, lost : BOOLEAN, overlapped : BOOLEAN]
          /\ past'.webhooks = past.webhooks /\ past'.faults = past.faults
          /\ past'.lost = past.lost /\ (past'.overlapped <=> past.overlapped \/ Alerts!Failing # {})
          /\ active' \in [there : BOOLEAN, fps : SUBSET Instances, seen : Nat]
          /\ ~active'.there /\ active'.fps = {} /\ active'.seen = 0
      BY <1>1, <3>1, DroppedIs
    <3>5. TypedAlerts'  BY <1>1, <2>1, <3>2, <3>4 DEF TypedAlerts
    <3>6. Together /\ Alerts!Failing = {} => Together'
      BY <2>1, <3>2, <3>4 DEF Together, Alerts!TearingDown, Alerts!Failing, At
    <3>7. Current => Current'
      <4> SUFFICES ASSUME Current PROVE Current'
        OBVIOUS
      <4>1. checker.seen \in Nat  BY <1>1 DEF TypedAlerts
      <4>2. firing \intersect active.fps = {}  BY <2>1, <3>3, <4>1 DEF Current
      <4>3. QED  BY <2>1, <3>2, <3>4, <4>2 DEF Current, At
    <3>8. active'.seen =< past'.webhooks /\ checker'.seen =< past'.webhooks  BY <1>1, <3>2, <3>4 DEF GInv, TypedAlerts
    <3>9. QED  BY <3>4, <3>5, <3>6, <3>7, <3>8 DEF GInv
  <2>3. CASE ~Alerts!Unrefreshed
    <3>1. checker' = [checker EXCEPT !.at = "idle"] /\ UNCHANGED <<active, past>>  BY <1>4, <2>3 DEF Alerts!Confirm
    <3>2. checker'.at = "idle" /\ checker'.seen = checker.seen
          /\ checker' \in [at : {"idle", "ask", "confirm", "stop", "end"}, seen : Nat]
      BY <1>1, <3>1 DEF TypedAlerts
    <3>3. UNCHANGED <<active, past>>  BY <3>1
    <3>4. TypedAlerts'  BY <1>1, <2>1, <3>2, <3>3 DEF TypedAlerts
    <3>5. Together => Together'  BY <2>1, <3>2, <3>3 DEF Together, Alerts!TearingDown, Alerts!Failing, At
    <3>6. Current => Current'  BY <2>1, <3>2, <3>3 DEF Current, At
    <3>7. QED  BY <2>1, <3>2, <3>3, <3>4, <3>5, <3>6 DEF GInv
  <2>4. QED  BY <2>2, <2>3
<1>5. CASE Alerts!CheckerStops
  <2>1. /\ checker.at = "stop" /\ polls' = FALSE /\ checker' = [checker EXCEPT !.at = "end"]
        /\ UNCHANGED <<firing, active, handlers, alertCard, past>>
    BY <1>5 DEF Alerts!CheckerStops
  <2>2. checker'.at = "end" /\ checker'.seen = checker.seen
        /\ checker' \in [at : {"idle", "ask", "confirm", "stop", "end"}, seen : Nat]
    BY <1>1, <2>1 DEF TypedAlerts
  <2>3. checker.at = "stop" /\ polls' = FALSE /\ UNCHANGED <<firing, active, handlers, alertCard, past>>  BY <2>1
  <2>4. TypedAlerts'  BY <1>1, <2>2, <2>3 DEF TypedAlerts
  <2>5. Together => Together'
    BY <2>2, <2>3 DEF Together, Alerts!TearingDown, Alerts!Failing, At
  <2>6. Current => Current'  BY <2>2, <2>3 DEF Current, At
  <2>7. QED  BY <2>2, <2>3, <2>4, <2>5, <2>6 DEF GInv
<1>6. CASE Alerts!CheckerEnds
  <2>1. PICK failed \in BOOLEAN :
          /\ checker.at = "end" /\ Alerts!Counted(failed)
          /\ alertCard' = IF failed THEN alertCard ELSE "ended"
          /\ checker' = [checker EXCEPT !.at = "idle"]
          /\ UNCHANGED <<firing, active, handlers, polls>>
    BY <1>6 DEF Alerts!CheckerEnds
  <2>2. checker'.at = "idle" /\ checker'.seen = checker.seen
        /\ checker' \in [at : {"idle", "ask", "confirm", "stop", "end"}, seen : Nat]
    BY <1>1, <2>1 DEF TypedAlerts
  <2>3. /\ past' \in [webhooks : Nat, faults : Nat, lost : BOOLEAN, overlapped : BOOLEAN]
        /\ past'.webhooks = past.webhooks /\ past'.faults = (IF failed THEN past.faults + 1 ELSE past.faults)
        /\ past'.lost = past.lost /\ past'.overlapped = past.overlapped
    BY <1>1, <2>1, AlertsCounted
  <2>4. checker.at = "end" /\ UNCHANGED <<firing, active, handlers, polls>>
        /\ alertCard' = IF failed THEN alertCard ELSE "ended"
    BY <2>1
  <2>5. past'.faults = 0 => past.faults = 0 /\ ~failed  BY <1>1, <2>3 DEF TypedAlerts
  <2>6. TypedAlerts'  BY <1>1, <2>2, <2>3, <2>4 DEF TypedAlerts
  <2>7. Together /\ ~failed => Together'
    BY <2>2, <2>4 DEF Together, Alerts!TearingDown, Alerts!Failing, At
  <2>8. Current => Current'  BY <2>2, <2>3, <2>4 DEF Current, At
  <2>9. QED  BY <2>2, <2>3, <2>4, <2>5, <2>6, <2>7, <2>8 DEF GInv
<1>7. CASE Alerts!SweepStale
  <2>1. /\ active.there /\ \A h \in Handlers : handlers[h].at = "done"
        /\ polls' = FALSE /\ active' = Alerts!NoEntry
        /\ alertCard' = IF alertCard = "none" THEN alertCard ELSE "ended"
        /\ past' = [past EXCEPT !.lost = TRUE]
        /\ UNCHANGED <<firing, handlers, checker>>
    BY <1>7 DEF Alerts!SweepStale
  <2>2. /\ past' \in [webhooks : Nat, faults : Nat, lost : BOOLEAN, overlapped : BOOLEAN]
        /\ past'.webhooks = past.webhooks /\ past'.faults = past.faults
        /\ past'.lost /\ past'.overlapped = past.overlapped
    BY <1>1, <2>1 DEF TypedAlerts
  <2>3. /\ active' \in [there : BOOLEAN, fps : SUBSET Instances, seen : Nat]
        /\ ~active'.there /\ active'.fps = {} /\ active'.seen = 0
    BY <2>1, NothingThere
  <2>4. active.there /\ (\A h \in Handlers : handlers[h].at = "done") /\ polls' = FALSE
        /\ alertCard' \in {"none", "ended"} /\ UNCHANGED <<firing, handlers, checker>>
    BY <1>1, <2>1 DEF TypedAlerts
  <2>5. TypedAlerts'  BY <1>1, <2>2, <2>3, <2>4 DEF TypedAlerts
  <2>6. Together => Together'
    BY <2>3, <2>4 DEF Together, Alerts!TearingDown, Alerts!Failing, At
  <2>7. active'.seen =< past'.webhooks /\ checker'.seen =< past'.webhooks  BY <1>1, <2>2, <2>3, <2>4 DEF GInv, TypedAlerts
  <2>8. QED  BY <2>2, <2>3, <2>4, <2>5, <2>6, <2>7 DEF GInv
<1>8. CASE Alerts!PollTick
  <2>1. polls /\ alertCard' = "ongoing" /\ UNCHANGED <<firing, active, handlers, checker, polls, past>>
    BY <1>8 DEF Alerts!PollTick
  <2>2. TypedAlerts'  BY <1>1, <2>1 DEF TypedAlerts
  <2>3. Together => Together'  BY <2>1 DEF Together, Alerts!TearingDown, Alerts!Failing, At
  <2>4. Current => Current'  BY <2>1 DEF Current, At
  <2>5. QED  BY <2>1, <2>2, <2>3, <2>4 DEF GInv
<1>9. QED  BY <1>2, <1>3, <1>4, <1>5, <1>6, <1>7, <1>8

\* For any goroutines, instances and webhooks of the Grafana bridge: the card
\* and its poller follow the alert's instances, and no poller is left that
\* nobody could stop (GrafanaBridge's CardFollowsAlert and PollerHasEntry).
THEOREM AlertsFollowed ==
  Alerts!Init /\ [][Alerts!Next]_(Alerts!vars) => [](Alerts!CardFollowsAlert /\ Alerts!PollerHasEntry)
<1>1. Alerts!Init => GInv  BY AlertsInit
<1>2. GInv /\ [Alerts!Next]_(Alerts!vars) => GInv'
  <2> SUFFICES ASSUME GInv, [Alerts!Next]_(Alerts!vars) PROVE GInv'
    OBVIOUS
  <2>1. CASE UNCHANGED Alerts!vars
    <3>1. UNCHANGED <<firing, active, handlers, checker, polls, alertCard, past>>  BY <2>1 DEF Alerts!vars
    <3>2. QED
      BY <3>1 DEF GInv, TypedAlerts, Together, Current, At, Alerts!TearingDown, Alerts!Failing
  <2>2. QED
    BY <2>1, WebhookKeeps, ReserveKeeps, CreateKeeps, UpdateKeeps, StartPollerKeeps, ReleaseKeeps,
       StopPollerKeeps, EndActivityKeeps, CheckerKeeps DEF Alerts!Next
<1>3. GInv => Alerts!CardFollowsAlert /\ Alerts!PollerHasEntry
  <2> SUFFICES ASSUME GInv, Alerts!Quiet, past.faults = 0, ~past.overlapped
               PROVE  /\ ~past.lost => /\ firing = active.fps
                                       /\ polls <=> firing # {}
                                       /\ (alertCard \in {"created", "ongoing"}) <=> firing # {}
                      /\ polls => active.there
    BY DEF Alerts!CardFollowsAlert, Alerts!PollerHasEntry
  <2>1. Together /\ TypedAlerts /\ (~past.lost => Current)  BY DEF GInv
  <2>2. /\ checker.at \notin {"stop", "end"}
        /\ \A places : \A h \in Handlers : At(h, places) => "done" \in places
    BY DEF Alerts!Quiet, At
  <2>3. ~Alerts!TearingDown  BY <2>2 DEF Alerts!TearingDown, Alerts!Quiet
  <2>4. polls <=> active.there  BY <2>1, <2>2, <2>3 DEF Together
  <2>5. alertCard \in {"created", "ongoing"} <=> active.there  BY <2>1, <2>2, <2>3 DEF Together
  <2>6. ~past.lost => firing = active.fps  BY <2>1, <2>2 DEF Current, TypedAlerts
  <2>7. QED  BY <2>1, <2>4, <2>5, <2>6 DEF Together
<1>4. QED  BY <1>1, <1>2, <1>3, PTL

(* -------------------------- the SABnzbd bridge -------------------------- *)

\* A hold is waited out for at least one poll.
PollsAssumed == StartPolls \in Nat /\ MorePolls \in Nat /\ MaxHold \in Nat \ {0}

Queue == {"empty", "moving", "paused", "held"}
Modes == Queue \union {"none", "unpacking"}
Places == {"idle", "create", "seed", "starting", "peek", "give up", "download", "unpack",
           "unpacking", "more", "summary", "end"}

TypedSession ==
  /\ sab \in [queue : Queue, unpacking : BOOLEAN, webhook : BOOLEAN]
  /\ session \in [at : Places, resumed : BOOLEAN, polls : Nat, held : Nat, mode : Modes, watched : Nat]
  /\ up \in BOOLEAN
  /\ past \in [events : Nat, faults : Nat]

\* A session, whose polls that saw a hold are those the latch has counted.
Session(at, left, held, mode) ==
  [at |-> at, resumed |-> session.resumed, polls |-> left, held |-> held, mode |-> mode, watched |-> held]

\* One session looks at a hold once a poll: up to the cap while it downloads,
\* once more to leave, and while it waits for more.
HoldFits(at, left, held, mode) ==
  /\ at \in {"idle", "create", "seed", "starting", "peek", "give up"} => held = 0 /\ mode = "none"
  /\ at = "download" => held =< MaxHold
  /\ at \in {"unpack", "unpacking"} => held =< MaxHold + 1
  /\ at = "more" => held + left =< MaxHold + MorePolls + 1
  /\ at \in {"summary", "end"} => held =< MaxHold + MorePolls + 1

\* A recorded mode is on the card.
ModeFits(at, mode) ==
  mode # "none" /\ at \in {"download", "unpack", "unpacking", "more"} => activity.shown \in {mode, "Unpacking"}

SInv ==
  /\ TypedSession
  /\ session.watched = session.held
  /\ HoldFits(session.at, session.polls, session.held, session.mode)
  /\ ~up => session.at = "idle"
  /\ Sabnzbd!IdleLeavesNoCard /\ Sabnzbd!RecordedIsShown

\* What a call does to the count of faults.
LEMMA SabFails ==
  ASSUME SInv, NEW failed \in BOOLEAN, Sabnzbd!Fails(failed)
  PROVE  /\ past' \in [events : Nat, faults : Nat]
         /\ failed => past'.faults # 0
         /\ ~failed => past' = past
BY DEF Sabnzbd!Fails, SInv, TypedSession

LEMMA SabInit == ASSUME PollsAssumed, Sabnzbd!Init PROVE SInv
BY DEF PollsAssumed, Sabnzbd!Init, Sabnzbd!Idle, SInv, TypedSession, HoldFits, Queue, Places, Modes,
       Sabnzbd!IdleLeavesNoCard, Sabnzbd!RecordedIsShown

\* What SInv says of a session, a field at a time.
LEMMA SessionIs ==
  ASSUME SInv
  PROVE  /\ session = Session(session.at, session.polls, session.held, session.mode)
         /\ session.at \in Places /\ session.polls \in Nat /\ session.held \in Nat /\ session.mode \in Modes
         /\ session.resumed \in BOOLEAN
         /\ HoldFits(session.at, session.polls, session.held, session.mode)
         /\ ModeFits(session.at, session.mode)
BY DEF SInv, TypedSession, Session, ModeFits, Sabnzbd!RecordedIsShown

\* A session that ends.
LEMMA SessionLeaves ==
  ASSUME PollsAssumed, SInv, Sabnzbd!Leave, sab' = sab, up' = up, past' \in [events : Nat, faults : Nat],
         up /\ past'.faults = 0 => activity'.state # "ongoing"
  PROVE  SInv'
<1>1. session' = [at |-> "idle", resumed |-> FALSE, polls |-> 0, held |-> 0, mode |-> "none", watched |-> 0]
  BY DEF Sabnzbd!Leave, Sabnzbd!Idle
<1>2. QED
  BY <1>1 DEF PollsAssumed, SInv, TypedSession, HoldFits, Queue, Places, Modes,
       Sabnzbd!IdleLeavesNoCard, Sabnzbd!RecordedIsShown

\* A session that goes on.
LEMMA SessionGoes ==
  ASSUME SInv, NEW at \in Places \ {"idle"}, NEW left \in Nat, NEW held \in Nat, NEW mode \in Modes,
         session' = Session(at, left, held, mode), HoldFits(at, left, held, mode),
         mode # "none" /\ at \in {"download", "unpack", "unpacking", "more"} => activity'.shown \in {mode, "Unpacking"},
         sab' = sab, up' = up, session.at # "idle", past' \in [events : Nat, faults : Nat]
  PROVE  SInv'
<1>1. /\ session'.at = at /\ session'.polls = left /\ session'.held = held /\ session'.mode = mode
      /\ session'.watched = held
      /\ session' \in [at : Places, resumed : BOOLEAN, polls : Nat, held : Nat, mode : Modes, watched : Nat]
  <2>1. session.resumed \in BOOLEAN  BY SessionIs
  <2>2. QED  BY <2>1 DEF Session
<1>2. TypedSession'  BY <1>1 DEF SInv, TypedSession
<1>3. up \/ session.at = "idle"  BY DEF SInv
<1>4. HoldFits(session.at, session.polls, session.held, session.mode)'  BY <1>1 DEF HoldFits
<1>5. Sabnzbd!IdleLeavesNoCard' /\ Sabnzbd!RecordedIsShown'
  BY <1>1 DEF Sabnzbd!IdleLeavesNoCard, Sabnzbd!RecordedIsShown
<1>6. QED  BY <1>1, <1>2, <1>3, <1>4, <1>5 DEF SInv

LEMMA SessionJumps ==
  ASSUME SInv, NEW at, Sabnzbd!Goto(at)
  PROVE  session' = Session(at, session.polls, session.held, session.mode)
BY SessionIs DEF Sabnzbd!Goto, Session

\* What a look at the queue makes of the session.
LEMMA SessionLooks ==
  ASSUME PollsAssumed, SInv
  PROVE  /\ Sabnzbd!Held \in Nat /\ Sabnzbd!Held =< session.held + 1
         /\ Sabnzbd!Looked = Session(session.at, session.polls, Sabnzbd!Held, session.mode)
         /\ sab.queue # "held" => Sabnzbd!Held = 0
         /\ Sabnzbd!HasWork => Sabnzbd!Held =< MaxHold
         /\ ~Sabnzbd!HasWork => sab.queue \in {"held", "empty"} /\ (sab.queue = "held" => Sabnzbd!Held > MaxHold)
<1>1. session.held \in Nat /\ session.watched = session.held /\ sab.queue \in Queue
  BY DEF SInv, TypedSession
<1>2. Sabnzbd!Held = IF sab.queue = "held" THEN session.held + 1 ELSE 0
  BY DEF Sabnzbd!Held
<1>3. Sabnzbd!Looked = Session(session.at, session.polls, Sabnzbd!Held, session.mode)
  <2> DEFINE seen == IF sab.queue = "held" THEN session.watched + 1 ELSE 0
  <2>1. Sabnzbd!Looked = [session EXCEPT !.held = Sabnzbd!Held, !.watched = seen]
    <3>1. session = Session(session.at, session.polls, session.held, session.mode)  BY SessionIs
    <3>2. QED  BY <3>1 DEF Sabnzbd!Looked, Session
  <2>2. seen = Sabnzbd!Held  BY <1>1, <1>2
  <2> HIDE DEF seen
  <2>3. session = Session(session.at, session.polls, session.held, session.mode)  BY SessionIs
  <2>4. QED  BY <2>1, <2>2, <2>3 DEF Session
<1>4. QED  BY <1>1, <1>2, <1>3 DEF Sabnzbd!HasWork, Queue, PollsAssumed

\* SABnzbd moves on; the bridge does not.
LEMMA SabHappens ==
  ASSUME SInv, Sabnzbd!Happens
  PROVE  past' \in [events : Nat, faults : Nat] /\ past'.faults = past.faults
BY DEF Sabnzbd!Happens, SInv, TypedSession

LEMMA SabMoves ==
  ASSUME SInv,
         \/ \E q \in {"moving", "paused", "held"} : Sabnzbd!Queues(q)
         \/ \E unpacks \in BOOLEAN : Sabnzbd!Downloaded(unpacks)
         \/ Sabnzbd!Unpacked
  PROVE  SInv'
<1>1. TypedSession  BY DEF SInv
<1>2. UNCHANGED <<session, up, activity>> /\ Sabnzbd!Happens
  <2>1. ASSUME NEW q \in {"moving", "paused", "held"}, Sabnzbd!Queues(q)
        PROVE  UNCHANGED <<session, up, activity>> /\ Sabnzbd!Happens
    BY <2>1 DEF Sabnzbd!Queues
  <2>2. ASSUME NEW unpacks \in BOOLEAN, Sabnzbd!Downloaded(unpacks)
        PROVE  UNCHANGED <<session, up, activity>> /\ Sabnzbd!Happens
    BY <2>2 DEF Sabnzbd!Downloaded
  <2>3. Sabnzbd!Unpacked => UNCHANGED <<session, up, activity>> /\ Sabnzbd!Happens  BY DEF Sabnzbd!Unpacked
  <2>4. QED  BY <2>1, <2>2, <2>3
<1>3. past' \in [events : Nat, faults : Nat] /\ past'.faults = past.faults
  BY <1>2, SabHappens
<1>4. sab' \in [queue : Queue, unpacking : BOOLEAN, webhook : BOOLEAN]
  <2>1. ASSUME NEW q \in {"moving", "paused", "held"}, Sabnzbd!Queues(q)
        PROVE  sab' \in [queue : Queue, unpacking : BOOLEAN, webhook : BOOLEAN]
    <3> DEFINE b == sab.webhook \/ sab.queue = "empty"
    <3>1. sab' = [queue |-> q, unpacking |-> sab.unpacking, webhook |-> b]
      BY <1>1, <2>1 DEF Sabnzbd!Queues, TypedSession
    <3>2. b \in BOOLEAN /\ sab.unpacking \in BOOLEAN /\ q \in Queue  BY <1>1 DEF TypedSession, Queue
    <3> HIDE DEF b
    <3>3. QED  BY <3>1, <3>2
  <2>2. QED
    BY <1>1, <2>1 DEF Sabnzbd!Downloaded, Sabnzbd!Unpacked, TypedSession, Queue
<1>5. QED
  BY <1>1, <1>2, <1>3, <1>4 DEF SInv, TypedSession, HoldFits, Sabnzbd!IdleLeavesNoCard, Sabnzbd!RecordedIsShown

LEMMA SabCreates == ASSUME PollsAssumed, SInv, Sabnzbd!CreateActivity PROVE SInv'
<1>1. PICK failed \in BOOLEAN : /\ session.at = "create" /\ Sabnzbd!Fails(failed)
                                /\ (IF failed THEN Sabnzbd!Leave ELSE Sabnzbd!Goto("seed"))
                                /\ UNCHANGED <<sab, up, activity>>
  BY DEF Sabnzbd!CreateActivity
<1>2. past' \in [events : Nat, faults : Nat] /\ (failed => past'.faults # 0)  BY <1>1, SabFails
<1>3. CASE failed  BY <1>1, <1>2, <1>3, SessionLeaves
<1>4. CASE ~failed
  <2>1. session' = Session("seed", session.polls, session.held, session.mode)  BY <1>1, <1>4, SessionJumps
  <2>2. HoldFits("seed", session.polls, session.held, session.mode)  BY <1>1, SessionIs DEF HoldFits
  <2>3. "seed" \in Places \ {"idle"}  BY DEF Places
  <2>4. QED  BY <1>1, <1>2, <2>1, <2>2, <2>3, SessionIs, SessionGoes
<1>5. QED  BY <1>3, <1>4

LEMMA SabSeeds == ASSUME PollsAssumed, SInv, Sabnzbd!SendSeed PROVE SInv'
<1>1. PICK failed \in BOOLEAN :
        /\ session.at = "seed" /\ Sabnzbd!Fails(failed)
        /\ (IF failed THEN Sabnzbd!Leave ELSE session' = [session EXCEPT !.at = "starting", !.polls = StartPolls])
        /\ UNCHANGED <<sab, up>>
  BY DEF Sabnzbd!SendSeed
<1>2. past' \in [events : Nat, faults : Nat] /\ (failed => past'.faults # 0)  BY <1>1, SabFails
<1>3. CASE failed  BY <1>1, <1>2, <1>3, SessionLeaves
<1>4. CASE ~failed
  <2>1. session' = Session("starting", StartPolls, session.held, session.mode)
    <3>1. session' = [session EXCEPT !.at = "starting", !.polls = StartPolls]  BY <1>1, <1>4
    <3>2. session = Session(session.at, session.polls, session.held, session.mode)  BY SessionIs
    <3> DEFINE begun == [session EXCEPT !.at = "starting"]
    <3>3. begun = Session("starting", session.polls, session.held, session.mode)  BY <3>2 DEF Session
    <3>4. session' = [begun EXCEPT !.polls = StartPolls]  BY <3>1
    <3> HIDE DEF begun
    <3>5. QED  BY <3>3, <3>4 DEF Session
  <2>2. HoldFits("starting", StartPolls, session.held, session.mode)  BY <1>1, SessionIs DEF HoldFits
  <2>3. "starting" \in Places \ {"idle"} /\ StartPolls \in Nat  BY DEF Places, PollsAssumed
  <2>4. QED  BY <1>1, <1>2, <2>1, <2>2, <2>3, SessionIs, SessionGoes
<1>5. QED  BY <1>3, <1>4

LEMMA SabWaits == ASSUME PollsAssumed, SInv, Sabnzbd!WaitForQueueActive PROVE SInv'
<1>1. session.at \in {"starting", "more"} /\ session.polls > 0 /\ UNCHANGED <<sab, up, activity>>
  BY DEF Sabnzbd!WaitForQueueActive
<1> DEFINE left == session.polls - 1
<1>2. left \in Nat /\ session.polls = left + 1 /\ session.polls \in Nat /\ session.held \in Nat  BY <1>1, SessionIs
<1>3. CASE Sabnzbd!Fails(TRUE) /\ session' = [session EXCEPT !.polls = @ - 1]
  <2>1. past' \in [events : Nat, faults : Nat]  BY <1>3, SabFails
  <2>2. session' = [session EXCEPT !.polls = left]  BY <1>3
  <2> HIDE DEF left
  <2>3. session' = Session(session.at, left, session.held, session.mode)  BY <2>2, SessionIs DEF Session
  <2>4. HoldFits(session.at, left, session.held, session.mode)
    <3>1. HoldFits(session.at, session.polls, session.held, session.mode)  BY SessionIs
    <3>2. session.at = "starting" => session.held = 0 /\ session.mode = "none"  BY <3>1 DEF HoldFits
    <3>3. session.at = "more" => session.held + session.polls =< MaxHold + MorePolls + 1  BY <3>1 DEF HoldFits
    <3>4. session.at = "more" => session.held + left =< MaxHold + MorePolls + 1
      BY <1>2, <3>3 DEF PollsAssumed
    <3>5. session.at \in {"starting", "more"}  BY <1>1
    <3>6. QED  BY <3>2, <3>4, <3>5 DEF HoldFits
  <2>5. session.mode # "none" /\ session.at \in {"download", "unpack", "unpacking", "more"}
          => activity'.shown \in {session.mode, "Unpacking"}
    BY <1>1, SessionIs DEF ModeFits
  <2>6. session.at \in Places \ {"idle"} /\ session.mode \in Modes /\ session.at # "idle" /\ sab' = sab /\ up' = up
    BY <1>1, SessionIs
  <2>7. QED  BY <1>2, <2>1, <2>3, <2>4, <2>5, <2>6, SessionGoes
<1>4. CASE /\ UNCHANGED past
           /\ session' = [Sabnzbd!Looked EXCEPT !.polls = @ - 1, !.at = IF Sabnzbd!HasWork THEN "download" ELSE @]
  <2> DEFINE at == IF Sabnzbd!HasWork THEN "download" ELSE session.at
             L == Session(session.at, session.polls, Sabnzbd!Held, session.mode)
  <2>1. session' = Session(at, left, Sabnzbd!Held, session.mode)
    <3>1. L.polls = session.polls /\ L.at = session.at  BY Zenon DEF Session
    <3>2. Sabnzbd!Looked = L  BY SessionLooks
    <3> HIDE DEF L
    <3>3. session' = [L EXCEPT !.polls = L.polls - 1, !.at = IF Sabnzbd!HasWork THEN "download" ELSE L.at]
      BY <1>4, <3>2, Zenon
    <3>4. L.polls - 1 = left /\ (IF Sabnzbd!HasWork THEN "download" ELSE L.at) = at  BY <3>1
    <3> HIDE DEF at, left
    <3>5. session' = [L EXCEPT !.polls = left, !.at = at]  BY <3>3, <3>4, Zenon
    <3>6. QED  BY <3>5 DEF L, Session
  <2>2. /\ at \in Places \ {"idle"} /\ (at = "download" <=> Sabnzbd!HasWork) /\ (at # "download" => at = session.at)
    BY <1>1 DEF Places
  <2> HIDE DEF at, left, L
  <2>3. HoldFits(at, left, Sabnzbd!Held, session.mode)
    <3>1. session.at = "starting" => session.held = 0 /\ session.mode = "none"  BY SessionIs DEF HoldFits
    <3>2. session.at = "more" => session.held + session.polls =< MaxHold + MorePolls + 1  BY SessionIs DEF HoldFits
    <3>3. Sabnzbd!Held \in Nat /\ Sabnzbd!Held =< session.held + 1 /\ (Sabnzbd!HasWork => Sabnzbd!Held =< MaxHold)
          /\ (~Sabnzbd!HasWork => Sabnzbd!Held = 0 \/ Sabnzbd!Held > MaxHold)
      BY SessionLooks DEF PollsAssumed
    <3>4. /\ MaxHold \in Nat /\ MaxHold > 0 /\ MorePolls \in Nat  BY DEF PollsAssumed
    <3>5. at = "starting" => Sabnzbd!Held = 0 /\ session.mode = "none"  BY <1>2, <2>2, <3>1, <3>3, <3>4
    <3>6. at = "download" => Sabnzbd!Held =< MaxHold  BY <2>2, <3>3
    <3>7. at = "more" => Sabnzbd!Held + left =< MaxHold + MorePolls + 1  BY <1>2, <2>2, <3>2, <3>3, <3>4
    <3>8. at \in {"starting", "more", "download"}  BY <1>1, <2>2
    <3>9. QED  BY <3>5, <3>6, <3>7, <3>8 DEF HoldFits
  <2>4. session.mode # "none" /\ at \in {"download", "unpack", "unpacking", "more"}
          => activity'.shown \in {session.mode, "Unpacking"}
    <3>1. session.at = "starting" => session.mode = "none"  BY SessionIs DEF HoldFits
    <3>2. QED  BY <1>1, <2>2, <3>1, SessionIs DEF ModeFits
  <2>5. past' \in [events : Nat, faults : Nat]  BY <1>4 DEF SInv, TypedSession
  <2>6. Sabnzbd!Held \in Nat /\ session.mode \in Modes /\ session.at # "idle"  BY <1>1, SessionLooks, SessionIs
  <2>7. QED  BY <1>1, <1>2, <2>1, <2>2, <2>3, <2>4, <2>5, <2>6, SessionGoes
<1>5. QED  BY <1>3, <1>4 DEF Sabnzbd!WaitForQueueActive

LEMMA SabStaysIdle == ASSUME PollsAssumed, SInv, Sabnzbd!QueueStaysIdle PROVE SInv'
<1> DEFINE at == IF session.at = "more" THEN "summary" ELSE "peek"
<1>1. /\ session.at \in {"starting", "more"} /\ session.polls = 0 /\ Sabnzbd!Goto(at)
      /\ UNCHANGED <<sab, up, activity, past>>
  BY DEF Sabnzbd!QueueStaysIdle
<1>2. session' = Session(at, session.polls, session.held, session.mode)  BY <1>1, SessionJumps
<1>3. HoldFits(at, session.polls, session.held, session.mode)
  <2>1. HoldFits(session.at, session.polls, session.held, session.mode) /\ session.held \in Nat  BY SessionIs
  <2>2. session.at = "starting" => session.held = 0 /\ session.mode = "none"  BY <2>1 DEF HoldFits
  <2>3. session.at = "more" => session.held + session.polls =< MaxHold + MorePolls + 1  BY <2>1 DEF HoldFits
  <2>4. session.at = "more" => session.held =< MaxHold + MorePolls + 1  BY <1>1, <2>1, <2>3 DEF PollsAssumed
  <2>5. QED  BY <1>1, <2>2, <2>4 DEF HoldFits
<1>4. at \in Places \ {"idle"} /\ past' \in [events : Nat, faults : Nat] /\ session.at # "idle" /\ sab' = sab /\ up' = up
  BY <1>1 DEF Places, SInv, TypedSession
<1>5. at \notin {"download", "unpack", "unpacking", "more"}  OBVIOUS
<1>6. session.polls \in Nat /\ session.held \in Nat /\ session.mode \in Modes  BY SessionIs
<1> HIDE DEF at
<1>7. QED  BY <1>2, <1>3, <1>4, <1>5, <1>6, SessionGoes

LEMMA SabPeeks == ASSUME PollsAssumed, SInv, Sabnzbd!PeekUnpacking PROVE SInv'
<1>1. PICK failed \in BOOLEAN :
        /\ session.at = "peek" /\ Sabnzbd!Fails(failed) /\ UNCHANGED <<sab, up, activity>>
        /\ Sabnzbd!Goto(IF sab.unpacking /\ ~failed THEN "download" ELSE "give up")
  BY DEF Sabnzbd!PeekUnpacking
<1> DEFINE at == IF sab.unpacking /\ ~failed THEN "download" ELSE "give up"
<1>2. session' = Session(at, session.polls, session.held, session.mode)
  <2>1. Sabnzbd!Goto(at)  BY <1>1
  <2> HIDE DEF at
  <2>2. QED  BY <2>1, SessionJumps
<1>3. session.held = 0 /\ session.mode = "none"  BY <1>1, SessionIs DEF HoldFits
<1>4. past' \in [events : Nat, faults : Nat]  BY <1>1, SabFails
<1>5. at \in Places \ {"idle"} /\ at \in {"download", "give up"}  BY DEF Places
<1> HIDE DEF at
<1>6. HoldFits(at, session.polls, session.held, session.mode)
  <2>1. 0 =< MaxHold  BY DEF PollsAssumed
  <2>2. QED  BY <1>3, <1>5, <2>1 DEF HoldFits
<1>7. session.polls \in Nat /\ session.held \in Nat /\ session.mode \in Modes  BY SessionIs
<1>8. session.at # "idle" /\ sab' = sab /\ up' = up  BY <1>1
<1>9. QED  BY <1>2, <1>3, <1>4, <1>5, <1>6, <1>7, <1>8, SessionGoes

\* The frames that end a card.
LEMMA SabEnds == ASSUME PollsAssumed, SInv, Sabnzbd!GiveUp \/ Sabnzbd!FinalEnd PROVE SInv'
<1>1. PICK failed \in BOOLEAN, word \in {"No downloads", "Summary"} :
        /\ Sabnzbd!Fails(failed) /\ Sabnzbd!Send(failed, "ended", word) /\ Sabnzbd!Leave /\ UNCHANGED <<sab, up>>
  <2>1. CASE Sabnzbd!GiveUp  BY <2>1 DEF Sabnzbd!GiveUp
  <2>2. CASE Sabnzbd!FinalEnd  BY <2>2 DEF Sabnzbd!FinalEnd
  <2>3. QED  BY <2>1, <2>2
<1>2. past' \in [events : Nat, faults : Nat] /\ (failed => past'.faults # 0)  BY <1>1, SabFails
<1>3. ~failed => activity'.state = "ended"  BY <1>1 DEF Sabnzbd!Send
<1>4. QED  BY <1>1, <1>2, <1>3, SessionLeaves

\* A frame of the session as it was last polled, with the mode it shows.
LEMMA SabFrames ==
  ASSUME PollsAssumed, SInv, NEW mode \in Queue \union {"unpacking"}, NEW held \in Nat,
         session.at \in {"download", "unpacking"},
         Sabnzbd!Frame(mode, Session(session.at, session.polls, held, session.mode)),
         session.at = "download" => held =< MaxHold, session.at = "unpacking" => held = session.held,
         UNCHANGED <<sab, up>>
  PROVE  SInv'
<1> DEFINE polled == Session(session.at, session.polls, held, session.mode)
<1>1. PICK m \in {mode, session.mode} :
        /\ session' = Session(session.at, session.polls, held, m)
        /\ m # "none" => activity'.shown \in {m, "Unpacking"}
        /\ past' \in [events : Nat, faults : Nat]
  <2>1. CASE session.mode = mode /\ session' = polled /\ UNCHANGED <<activity, past>>
    <3>1. mode # "none" => activity'.shown \in {mode, "Unpacking"}  BY <2>1, SessionIs DEF ModeFits
    <3>2. past' \in [events : Nat, faults : Nat]  BY <2>1 DEF SInv, TypedSession
    <3>3. QED  BY <2>1, <3>1, <3>2
  <2>2. ASSUME NEW failed \in BOOLEAN, Sabnzbd!Fails(failed), Sabnzbd!Send(failed, "ongoing", mode),
               session' = Sabnzbd!RecordSent(polled, mode, failed)
        PROVE  \E m \in {mode, session.mode} :
                 /\ session' = Session(session.at, session.polls, held, m)
                 /\ m # "none" => activity'.shown \in {m, "Unpacking"}
                 /\ past' \in [events : Nat, faults : Nat]
    <3>1. past' \in [events : Nat, faults : Nat]  BY <2>2, SabFails
    <3>2. CASE failed
      <4>1. session' = polled /\ activity' = activity  BY <2>2, <3>2 DEF Sabnzbd!RecordSent, Sabnzbd!Send
      <4>2. session.mode # "none" => activity'.shown \in {session.mode, "Unpacking"}  BY <4>1, SessionIs DEF ModeFits
      <4>3. QED  BY <3>1, <4>1, <4>2
    <3>3. CASE ~failed
      <4>1. session' = [polled EXCEPT !.mode = mode] /\ activity'.shown = mode
        BY <2>2, <3>3 DEF Sabnzbd!RecordSent, Sabnzbd!Send
      <4>2. session' = Session(session.at, session.polls, held, mode)  BY <4>1 DEF Session
      <4>3. QED  BY <3>1, <4>1, <4>2
    <3>4. QED  BY <3>2, <3>3
  <2>3. QED  BY <2>1, <2>2 DEF Sabnzbd!Frame
<1> HIDE DEF polled
<1>2. m \in Modes /\ session.polls \in Nat /\ session.at \in Places \ {"idle"}  BY SessionIs DEF Modes
<1>3. HoldFits(session.at, session.polls, held, m)
  <2>1. session.at = "unpacking" => session.held =< MaxHold + 1  BY SessionIs DEF HoldFits
  <2>2. QED  BY <2>1 DEF HoldFits
<1>4. session.at # "idle" /\ sab' = sab /\ up' = up  OBVIOUS
<1>5. QED  BY <1>1, <1>2, <1>3, <1>4, SessionGoes

LEMMA SabDownloads == ASSUME PollsAssumed, SInv, Sabnzbd!TrackDownloads PROVE SInv'
<1>1. session.at = "download" /\ UNCHANGED <<sab, up>>  BY DEF Sabnzbd!TrackDownloads
<1>2. session.polls \in Nat /\ session.held \in Nat /\ session.mode \in Modes /\ session.at # "idle"
      /\ sab' = sab /\ up' = up
  BY <1>1, SessionIs
<1>3. CASE Sabnzbd!Fails(TRUE) /\ UNCHANGED <<session, activity>>
  <2>1. past' \in [events : Nat, faults : Nat]  BY <1>3, SabFails
  <2>2. session' = Session(session.at, session.polls, session.held, session.mode)  BY <1>3, SessionIs
  <2>3. session.mode # "none" /\ session.at \in {"download", "unpack", "unpacking", "more"}
          => activity'.shown \in {session.mode, "Unpacking"}
    BY <1>3, SessionIs DEF ModeFits
  <2>4. HoldFits(session.at, session.polls, session.held, session.mode) /\ session.at \in Places \ {"idle"}
    BY <1>2, SessionIs
  <2>5. QED  BY <1>2, <2>1, <2>2, <2>3, <2>4, SessionGoes
<1>4. CASE Sabnzbd!HasWork /\ Sabnzbd!Frame(sab.queue, Sabnzbd!Looked)
  <2>1. /\ Sabnzbd!Held \in Nat /\ Sabnzbd!Held =< MaxHold
        /\ Sabnzbd!Looked = Session(session.at, session.polls, Sabnzbd!Held, session.mode)
    BY <1>4, SessionLooks
  <2>2. sab.queue \in Queue  BY DEF SInv, TypedSession
  <2>3. Sabnzbd!Frame(sab.queue, Session(session.at, session.polls, Sabnzbd!Held, session.mode))  BY <1>4, <2>1
  <2>4. QED  BY <1>1, <2>1, <2>2, <2>3, SabFrames
<1>5. CASE ~Sabnzbd!HasWork /\ session' = [Sabnzbd!Looked EXCEPT !.at = "unpack"] /\ UNCHANGED <<activity, past>>
  <2>1. /\ Sabnzbd!Held \in Nat /\ Sabnzbd!Held =< session.held + 1
        /\ Sabnzbd!Looked = Session(session.at, session.polls, Sabnzbd!Held, session.mode)
    BY SessionLooks
  <2>2. session' = Session("unpack", session.polls, Sabnzbd!Held, session.mode)
    <3>1. session' = [Session(session.at, session.polls, Sabnzbd!Held, session.mode) EXCEPT !.at = "unpack"]
      BY <1>5, <2>1
    <3>2. QED  BY <3>1 DEF Session
  <2>3. HoldFits("unpack", session.polls, Sabnzbd!Held, session.mode)
    <3>1. session.held =< MaxHold  BY <1>1, SessionIs DEF HoldFits
    <3>2. QED  BY <1>2, <2>1, <3>1 DEF HoldFits, PollsAssumed
  <2>4. session.mode # "none" => activity'.shown \in {session.mode, "Unpacking"}
    BY <1>1, <1>5, SessionIs DEF ModeFits
  <2>5. past' \in [events : Nat, faults : Nat] /\ "unpack" \in Places \ {"idle"}
    BY <1>5 DEF SInv, TypedSession, Places
  <2>6. QED  BY <1>2, <2>1, <2>2, <2>3, <2>4, <2>5, SessionGoes
<1>6. QED  BY <1>3, <1>4, <1>5 DEF Sabnzbd!TrackDownloads

LEMMA SabUnpacks == ASSUME PollsAssumed, SInv, Sabnzbd!StartUnpacking \/ Sabnzbd!TrackPostProcessing PROVE SInv'
<1>1. session.at \in {"unpack", "unpacking"} /\ sab' = sab /\ up' = up
  BY DEF Sabnzbd!StartUnpacking, Sabnzbd!TrackPostProcessing
<1>2. session.polls \in Nat /\ session.held \in Nat /\ session.mode \in Modes /\ session.at # "idle"
      /\ session.held =< MaxHold + 1
      /\ (session.mode # "none" => activity.shown \in {session.mode, "Unpacking"})
  BY <1>1, SessionIs DEF HoldFits, ModeFits
<1>3. CASE Sabnzbd!StartUnpacking
  <2>1. PICK failed \in BOOLEAN : /\ Sabnzbd!Fails(failed) /\ Sabnzbd!Goto("unpacking")
                                  /\ Sabnzbd!Send(failed, "ongoing", "Unpacking")
    BY <1>3 DEF Sabnzbd!StartUnpacking
  <2>2. past' \in [events : Nat, faults : Nat] /\ "unpacking" \in Places \ {"idle"}  BY <2>1, SabFails DEF Places
  <2>3. session' = Session("unpacking", session.polls, session.held, session.mode)  BY <2>1, SessionJumps
  <2>4. HoldFits("unpacking", session.polls, session.held, session.mode)  BY <1>2 DEF HoldFits
  <2>5. session.mode # "none" => activity'.shown \in {session.mode, "Unpacking"}  BY <1>2, <2>1 DEF Sabnzbd!Send
  <2>6. QED  BY <1>1, <1>2, <2>2, <2>3, <2>4, <2>5, SessionGoes
<1>4. CASE session.at = "unpacking" /\ Sabnzbd!Frame("unpacking", session)
  <2>1. Sabnzbd!Frame("unpacking", Session(session.at, session.polls, session.held, session.mode))  BY <1>4, SessionIs
  <2>2. QED  BY <1>1, <1>2, <1>4, <2>1, SabFrames
<1>5. ASSUME NEW failed \in BOOLEAN, session.at = "unpacking", Sabnzbd!Fails(failed),
             session' = [session EXCEPT !.at = "more", !.polls = MorePolls], activity' = activity
      PROVE  SInv'
  <2>1. past' \in [events : Nat, faults : Nat] /\ "more" \in Places \ {"idle"}  BY <1>5, SabFails DEF Places
  <2>2. session' = Session("more", MorePolls, session.held, session.mode)
    <3> DEFINE over == [session EXCEPT !.at = "more"]
    <3>1. session = Session(session.at, session.polls, session.held, session.mode)  BY SessionIs
    <3>2. over = Session("more", session.polls, session.held, session.mode)  BY <3>1 DEF Session
    <3>3. session' = [over EXCEPT !.polls = MorePolls]  BY <1>5
    <3> HIDE DEF over
    <3>4. QED  BY <3>2, <3>3 DEF Session
  <2>3. HoldFits("more", MorePolls, session.held, session.mode)  BY <1>2 DEF HoldFits, PollsAssumed
  <2>4. session.mode # "none" => activity'.shown \in {session.mode, "Unpacking"}  BY <1>2, <1>5
  <2>5. MorePolls \in Nat  BY DEF PollsAssumed
  <2>6. QED  BY <1>1, <1>2, <2>1, <2>2, <2>3, <2>4, <2>5, SessionGoes
<1>6. QED  BY <1>3, <1>4, <1>5 DEF Sabnzbd!TrackPostProcessing

LEMMA SabSums == ASSUME PollsAssumed, SInv, Sabnzbd!FinalUpdate PROVE SInv'
<1>1. PICK failed \in BOOLEAN :
        session.at = "summary" /\ Sabnzbd!Fails(failed) /\ Sabnzbd!Goto("end") /\ UNCHANGED <<sab, up>>
  BY DEF Sabnzbd!FinalUpdate
<1>2. past' \in [events : Nat, faults : Nat] /\ "end" \in Places \ {"idle"}  BY <1>1, SabFails DEF Places
<1>3. session' = Session("end", session.polls, session.held, session.mode)  BY <1>1, SessionJumps
<1>4. HoldFits("end", session.polls, session.held, session.mode)  BY <1>1, SessionIs DEF HoldFits
<1>5. session.polls \in Nat /\ session.held \in Nat /\ session.mode \in Modes /\ session.at # "idle"
      /\ sab' = sab /\ up' = up
  BY <1>1, SessionIs
<1>6. QED  BY <1>2, <1>3, <1>4, <1>5, SessionGoes

\* A session that begins.
LEMMA SessionBegins ==
  ASSUME PollsAssumed, SInv, NEW resumed \in BOOLEAN, Sabnzbd!Track(resumed), up',
         sab' \in [queue : Queue, unpacking : BOOLEAN, webhook : BOOLEAN], past' \in [events : Nat, faults : Nat]
  PROVE  SInv'
<1>1. session' = [at |-> "create", resumed |-> resumed, polls |-> 0, held |-> 0, mode |-> "none", watched |-> 0]
  BY DEF Sabnzbd!Track, Sabnzbd!Idle
<1>2. TypedSession'  BY <1>1 DEF TypedSession, Places, Modes, SInv
<1>3. QED
  BY <1>1, <1>2 DEF SInv, HoldFits, Sabnzbd!IdleLeavesNoCard, Sabnzbd!RecordedIsShown

LEMMA SabWebhook == ASSUME PollsAssumed, SInv, Sabnzbd!WebhookHandler PROVE SInv'
<1>1. /\ up /\ UNCHANGED <<up, activity, past>> /\ sab' = [sab EXCEPT !.webhook = FALSE]
      /\ (IF session.at = "idle" THEN Sabnzbd!Track(FALSE) ELSE UNCHANGED session)
  BY DEF Sabnzbd!WebhookHandler
<1>2. sab' \in [queue : Queue, unpacking : BOOLEAN, webhook : BOOLEAN]  BY <1>1 DEF SInv, TypedSession
<1>3. past' \in [events : Nat, faults : Nat] /\ up'  BY <1>1 DEF SInv, TypedSession
<1>4. CASE session.at = "idle"  BY <1>1, <1>2, <1>3, <1>4, SessionBegins
<1>5. CASE session.at # "idle"
  <2>1. UNCHANGED <<session, up, activity, past>>  BY <1>1, <1>5
  <2>2. QED
    BY <1>2, <2>1 DEF SInv, TypedSession, HoldFits, Sabnzbd!IdleLeavesNoCard, Sabnzbd!RecordedIsShown
<1>6. QED  BY <1>4, <1>5

LEMMA SabStops == ASSUME PollsAssumed, SInv, Sabnzbd!Stop PROVE SInv'
<1>1. Sabnzbd!Happens /\ (up' \in BOOLEAN /\ ~up') /\ session' = Sabnzbd!Idle /\ UNCHANGED <<sab, activity>>
  BY DEF Sabnzbd!Stop
<1>2. session' = [at |-> "idle", resumed |-> FALSE, polls |-> 0, held |-> 0, mode |-> "none", watched |-> 0]
  BY <1>1 DEF Sabnzbd!Idle
<1>3. past' \in [events : Nat, faults : Nat]  BY <1>1, SabHappens
<1>4. up' \in BOOLEAN /\ ~up' /\ sab' \in [queue : Queue, unpacking : BOOLEAN, webhook : BOOLEAN]
  BY <1>1 DEF SInv, TypedSession
<1>5. session' \in [at : Places, resumed : BOOLEAN, polls : Nat, held : Nat, mode : Modes, watched : Nat]
  BY <1>2 DEF Places, Modes
<1>6. TypedSession'  BY <1>3, <1>4, <1>5 DEF TypedSession
<1>7. QED
  BY <1>2, <1>4, <1>6 DEF SInv, HoldFits, Sabnzbd!IdleLeavesNoCard, Sabnzbd!RecordedIsShown

LEMMA SabStarts == ASSUME PollsAssumed, SInv, Sabnzbd!Start PROVE SInv'
<1>1. PICK failed \in BOOLEAN :
        /\ ~up /\ up' = TRUE /\ Sabnzbd!Fails(failed) /\ sab' = sab
        /\ \/ Sabnzbd!Track(TRUE)
           \/ UNCHANGED session /\ Sabnzbd!Cleanup(failed)
           \/ failed /\ UNCHANGED session /\ Sabnzbd!Cleanup(FALSE)
  BY DEF Sabnzbd!Start
<1>2. past' \in [events : Nat, faults : Nat] /\ (failed => past'.faults # 0)  BY <1>1, SabFails
<1>3. sab' \in [queue : Queue, unpacking : BOOLEAN, webhook : BOOLEAN] /\ up' \in BOOLEAN
  BY <1>1 DEF SInv, TypedSession
<1>4. CASE Sabnzbd!Track(TRUE)  BY <1>1, <1>2, <1>3, <1>4, SessionBegins
<1>5. CASE UNCHANGED session /\ (failed \/ Sabnzbd!Cleanup(FALSE))
  <2>1. session'.at = "idle" /\ session' = session  BY <1>1, <1>5 DEF SInv
  <2>2. past'.faults = 0 => activity'.state # "ongoing"  BY <1>2, <1>5 DEF Sabnzbd!Cleanup
  <2>3. TypedSession'  BY <1>2, <1>3, <2>1 DEF TypedSession, SInv
  <2>4. QED
    BY <2>1, <2>2, <2>3 DEF SInv, HoldFits, Sabnzbd!IdleLeavesNoCard, Sabnzbd!RecordedIsShown
<1>6. QED
  <2>1. Sabnzbd!Cleanup(failed) => failed \/ Sabnzbd!Cleanup(FALSE)
    <3>1. CASE failed  BY <3>1
    <3>2. CASE ~failed
      <4>1. failed = FALSE  BY <3>2
      <4>2. QED  BY <4>1
    <3>3. QED  BY <3>1, <3>2
  <2>2. QED  BY <1>1, <1>4, <1>5, <2>1

\* For any number of polls, holds, events and faults of the SABnzbd bridge: a
\* session leaves no card up, a hold that never clears is given up, and what
\* the dedup remembers as shown is shown (SabTracker's IdleLeavesNoCard,
\* HoldGivenUp and RecordedIsShown).
THEOREM SessionsKept ==
  ASSUME PollsAssumed
  PROVE  Sabnzbd!Init /\ [][Sabnzbd!Next]_(Sabnzbd!vars)
           => [](Sabnzbd!IdleLeavesNoCard /\ Sabnzbd!HoldGivenUp /\ Sabnzbd!RecordedIsShown)
<1>1. Sabnzbd!Init => SInv  BY SabInit
<1>2. SInv /\ [Sabnzbd!Next]_(Sabnzbd!vars) => SInv'
  <2> SUFFICES ASSUME SInv, [Sabnzbd!Next]_(Sabnzbd!vars) PROVE SInv'
    OBVIOUS
  <2>1. CASE UNCHANGED Sabnzbd!vars
    BY <2>1 DEF Sabnzbd!vars, SInv, TypedSession, HoldFits, Sabnzbd!IdleLeavesNoCard, Sabnzbd!RecordedIsShown
  <2>2. QED
    BY <2>1, SabMoves, SabCreates, SabSeeds, SabWaits, SabStaysIdle, SabPeeks, SabEnds, SabDownloads, SabUnpacks,
       SabSums, SabWebhook, SabStops, SabStarts DEF Sabnzbd!Next
<1>3. SInv => Sabnzbd!IdleLeavesNoCard /\ Sabnzbd!HoldGivenUp /\ Sabnzbd!RecordedIsShown
  <2> SUFFICES ASSUME SInv PROVE Sabnzbd!HoldGivenUp
    BY DEF SInv
  <2>1. session.at \in Places /\ session.held \in Nat /\ session.polls \in Nat
        /\ HoldFits(session.at, session.polls, session.held, session.mode)
    BY SessionIs
  <2>2. MaxHold \in Nat /\ MorePolls \in Nat  BY DEF PollsAssumed
  <2>3. CASE session.at = "more"
    <3>1. session.held + session.polls =< MaxHold + MorePolls + 1  BY <2>1, <2>3 DEF HoldFits
    <3>2. QED  BY <2>1, <2>2, <3>1 DEF Sabnzbd!HoldGivenUp, SInv
  <2>4. CASE session.at # "more"
    <3>1. session.held = 0 \/ session.held =< MaxHold \/ session.held =< MaxHold + 1
          \/ session.held =< MaxHold + MorePolls + 1
      BY <2>1, <2>4 DEF HoldFits, Places
    <3>2. QED  BY <2>1, <2>2, <3>1 DEF Sabnzbd!HoldGivenUp, SInv
  <2>5. QED  BY <2>3, <2>4
<1>4. QED  BY <1>1, <1>2, <1>3, PTL

(* -------------------------- the scalar widgets -------------------------- *)

\* The shortest window is a minute, of which HeartbeatFor's floor of 30s is half.
\* Heartbeat and interval fill five sixths of a window (HeartbeatFor's comment):
\* a tick's query and call have the sixth that is left.
WindowsAssumed ==
  /\ Readable \subseteq Int /\ PollIntervals \subseteq Nat /\ MinChange \in Nat
  /\ StaleAfter \in Nat /\ Floor \in Nat /\ Latency \in Nat
  /\ Floor =< StaleAfter \div 2 /\ 6 * Latency =< StaleAfter

(* The larger and the smaller of two.                                       *)
LEMMA MaxOfTwo ==
  ASSUME NEW a \in Int, NEW b \in Int, a =< b
  PROVE  Scalar!Max({a, b}) = b
<1>1. Scalar!Max({a, b}) = CHOOSE x \in {a, b} : \A y \in {a, b} : x >= y  BY DEF Scalar!Max
<1>2. \A x \in {a, b} : (\A y \in {a, b} : x >= y) => x = b  OBVIOUS
<1>3. QED  BY <1>1, <1>2

Ticker(at, needsCreate, lastContent, since) ==
  [at |-> at, needsCreate |-> needsCreate, lastContent |-> lastContent, since |-> since]
Shows(there, content, age) == [there |-> there, content |-> content, age |-> age]
Ticked(faults, read, unsettled, missed, dimmed) ==
  [faults |-> faults, read |-> read, unsettled |-> unsettled, missed |-> missed, dimmed |-> dimmed]

TypedTicks ==
  /\ setting.interval \in Nat /\ 3 * setting.interval =< StaleAfter
  /\ ticker = Ticker(ticker.at, ticker.needsCreate, ticker.lastContent, ticker.since)
  /\ ticker.needsCreate \in BOOLEAN /\ ticker.since \in Int /\ ticker.lastContent.value \in Int
  /\ scalar = Shows(scalar.there, scalar.content, scalar.age)
  /\ scalar.there \in BOOLEAN /\ scalar.age \in Int
  /\ ticked = Ticked(ticked.faults, ticked.read, ticked.unsettled, ticked.missed, ticked.dimmed)
  /\ ticked.unsettled \in BOOLEAN /\ ticked.missed \in BOOLEAN /\ ticked.dimmed \in BOOLEAN

\* What was answered is shown, and the reading since then is close to it.
Settled ==
  ticker.at = "run" /\ ~ticker.needsCreate /\ ~ticked.unsettled =>
    /\ scalar.content = ticker.lastContent
    /\ ~Scalar!ValueChanged(scalar.content.value, ticked.read.value)

\* Every tick has found the heartbeat not due yet, or sent.
Beating ==
  /\ ~ticked.dimmed
  /\ ticker.at = "start" => ~scalar.there /\ ~ticker.needsCreate
  /\ ticker.at = "run" /\ scalar.there /\ ~ticked.missed =>
       /\ ~ticker.needsCreate /\ scalar.age = ticker.since
       /\ ticker.since < Scalar!HeartbeatFor \/ ticker.since =< Latency

TickInv == TypedTicks /\ Settled /\ Beating

LEMMA HalfTheWindow == ASSUME WindowsAssumed PROVE Scalar!HeartbeatFor = StaleAfter \div 2
<1>1. StaleAfter \div 2 \in Int /\ Floor \in Int /\ Floor =< StaleAfter \div 2  BY DEF WindowsAssumed
<1> DEFINE half == StaleAfter \div 2
<1> HIDE DEF half
<1>2. Scalar!Max({Floor, half}) = half  BY <1>1, MaxOfTwo DEF half
<1>3. QED  BY <1>2 DEF Scalar!HeartbeatFor, half

LEMMA LaterBounds ==
  ASSUME WindowsAssumed, TypedTicks, NEW t \in Int
  PROVE  Scalar!Later(t) \in Int /\ Scalar!Later(t) =< t + setting.interval
<1> DEFINE a == t + setting.interval   b == StaleAfter + 1
<1>1. a \in Int /\ b \in Int  BY DEF TypedTicks, WindowsAssumed
<1> HIDE DEF a, b
<1>2. Scalar!Min({a, b}) = CHOOSE x \in {a, b} : \A y \in {a, b} : x =< y  BY DEF Scalar!Min
<1>3. \E x \in {a, b} : \A y \in {a, b} : x =< y  BY <1>1
<1>4. Scalar!Min({a, b}) \in {a, b} /\ Scalar!Min({a, b}) =< a  BY <1>2, <1>3
<1>5. QED  BY <1>1, <1>4 DEF Scalar!Later, a, b

(* The room the interval's limit leaves: no tick comes too late.            *)
LEMMA NoDim ==
  ASSUME WindowsAssumed, TickInv, ticker.at = "run", NEW d \in 0..Latency
  PROVE  ~Scalar!Dims(d)
<1>1. Scalar!HeartbeatFor = StaleAfter \div 2  BY HalfTheWindow
<1>2. /\ StaleAfter \in Nat /\ Latency \in Nat /\ 6 * Latency =< StaleAfter /\ d =< Latency /\ d \in Nat
      /\ setting.interval \in Nat /\ 3 * setting.interval =< StaleAfter /\ ticker.since \in Int
  BY DEF WindowsAssumed, TickInv, TypedTicks
<1>3. ASSUME scalar.there, ~ticked.missed  PROVE scalar.age + setting.interval + d =< StaleAfter
  <2>1. scalar.age = ticker.since /\ (ticker.since < StaleAfter \div 2 \/ ticker.since =< Latency)
    BY <1>1, <1>3 DEF TickInv, Beating
  <2>2. 2 * (StaleAfter \div 2) =< StaleAfter /\ StaleAfter \div 2 \in Int  BY <1>2
  <2> DEFINE half == StaleAfter \div 2
  <2> HIDE DEF half
  <2>3. QED  BY <1>2, <2>1, <2>2 DEF half
<1>4. QED
  <2>1. scalar.age \in Int  BY DEF TickInv, TypedTicks
  <2>2. QED  BY <1>2, <1>3, <2>1 DEF Scalar!Dims

(* What a reading is to itself.                                             *)
LEMMA SameValue == ASSUME WindowsAssumed, NEW v \in Int PROVE ~Scalar!ValueChanged(v, v)
<1>1. v - v = 0 /\ MinChange \in Nat  BY DEF WindowsAssumed
<1>2. QED  BY <1>1 DEF Scalar!ValueChanged

LEMMA Readings == ASSUME WindowsAssumed, NEW r \in Scalar!Readings PROVE r.value \in Int
<1>1. r \in Scalar!Contents  BY DEF Scalar!Readings
<1>2. CASE r = Scalar!Empty  BY <1>2 DEF Scalar!Empty, Scalar!NoValue
<1>3. CASE r \in [value : Readable, extra : {0, 1}]  BY <1>3 DEF WindowsAssumed
<1>4. QED  BY <1>1, <1>2, <1>3 DEF Scalar!Contents

(* The goroutine after a tick, and what it sent.                            *)
LEMMA TickerForms ==
  ASSUME TypedTicks, NEW content, NEW since
  PROVE  /\ [ticker EXCEPT !.since = since] = Ticker(ticker.at, ticker.needsCreate, ticker.lastContent, since)
         /\ [ticker EXCEPT !.needsCreate = FALSE, !.lastContent = content, !.since = since]
              = Ticker(ticker.at, FALSE, content, since)
         /\ [ticker EXCEPT !.lastContent = content, !.since = since]
              = Ticker(ticker.at, ticker.needsCreate, content, since)
         /\ [scalar EXCEPT !.age = since] = Shows(scalar.there, scalar.content, since)
<1> DEFINE at == ticker.at   needs == ticker.needsCreate   answered == ticker.lastContent   was == ticker.since
           there == scalar.there   shows == scalar.content   age == scalar.age   no == FALSE
<1>1. ticker = Ticker(at, needs, answered, was) /\ scalar = Shows(there, shows, age)  BY DEF TypedTicks
<1> HIDE DEF at, needs, answered, was, there, shows, age, no
<1> DEFINE t1 == [ticker EXCEPT !.needsCreate = no]
           t2 == [t1 EXCEPT !.lastContent = content]   t3 == [t2 EXCEPT !.since = since]
           u2 == [ticker EXCEPT !.lastContent = content]   u3 == [u2 EXCEPT !.since = since]
<1>2. /\ [ticker EXCEPT !.needsCreate = no, !.lastContent = content, !.since = since] = t3
      /\ [ticker EXCEPT !.lastContent = content, !.since = since] = u3
  OBVIOUS
<1>3. t1 = Ticker(at, no, answered, was) /\ u2 = Ticker(at, needs, content, was)  BY <1>1 DEF Ticker
<1> HIDE DEF t1, u2
<1>4. t2 = Ticker(at, no, content, was) /\ u3 = Ticker(at, needs, content, since)  BY <1>3 DEF Ticker
<1> HIDE DEF t2
<1>5. t3 = Ticker(at, no, content, since)  BY <1>4 DEF Ticker
<1> HIDE DEF t3, u3
<1>6. /\ [ticker EXCEPT !.since = since] = Ticker(at, needs, answered, since)
      /\ [scalar EXCEPT !.age = since] = Shows(there, shows, since)
  BY <1>1 DEF Ticker, Shows
<1>7. QED  BY <1>2, <1>4, <1>5, <1>6 DEF at, needs, answered, there, shows, no

LEMMA LandsForm ==
  ASSUME WindowsAssumed, TickInv, ticker.at = "run", NEW content, NEW r, NEW d \in 0..Latency, NEW result,
         Scalar!Lands(content, d, result, r)
  PROVE  /\ setting' = setting /\ -d \in Int /\ -d =< Latency
         /\ result = "ok" => /\ scalar' = Shows(TRUE, content, -d)
                             /\ ticked' = Ticked(ticked.faults, r, FALSE, FALSE, FALSE)
         /\ result # "ok" => /\ scalar' = Shows(scalar'.there, scalar'.content, scalar'.age)
                             /\ scalar'.there \in BOOLEAN /\ scalar'.age \in Int
                             /\ ticked' = Ticked(ticked.faults + 1, r, TRUE, TRUE, FALSE)
<1>1. ~Scalar!Dims(d) /\ ~ticked.dimmed /\ ticked.dimmed \in BOOLEAN
  BY NoDim DEF TickInv, Beating, TypedTicks
<1>2. -d \in Int /\ -d =< Latency  BY DEF WindowsAssumed
<1>3. setting' = setting  BY DEF Scalar!Lands
<1> DEFINE fails == result # "ok"   dims == ticked.dimmed \/ Scalar!Dims(d)
           faults == IF ~fails THEN ticked.faults ELSE ticked.faults + 1
<1>4. ticked' = [faults |-> faults, read |-> r, unsettled |-> fails, missed |-> fails, dimmed |-> dims]
  BY DEF Scalar!Lands
<1>5. dims = FALSE  BY <1>1
<1> HIDE DEF dims
<1>6. ticked' = Ticked(faults, r, fails, fails, FALSE)  BY <1>4, <1>5 DEF Ticked
<1>7. scalar' = IF result = "failed" THEN [scalar EXCEPT !.age = Scalar!Later(scalar.age)]
                ELSE Shows(TRUE, content, -d)
  BY DEF Scalar!Lands, Shows
<1>8. CASE result = "ok"
  <2>1. fails = FALSE  BY <1>8
  <2>2. QED  BY <1>2, <1>3, <1>6, <1>7, <1>8, <2>1
<1>9. CASE result # "ok"
  <2>1. fails = TRUE  BY <1>9
  <2>2. scalar' = Shows(scalar'.there, scalar'.content, scalar'.age)
        /\ scalar'.there \in BOOLEAN /\ scalar'.age \in Int
    <3> DEFINE age == Scalar!Later(scalar.age)   yes == TRUE   sooner == -d
    <3>1. scalar.age \in Int /\ scalar.there \in BOOLEAN  BY DEF TickInv, TypedTicks
    <3>2. age \in Int  BY <3>1, LaterBounds DEF TickInv
    <3>3. [scalar EXCEPT !.age = age] = Shows(scalar.there, scalar.content, age)
      BY TickerForms DEF TickInv
    <3>4. yes \in BOOLEAN /\ sooner \in Int  BY <1>2
    <3>5. scalar' = Shows(scalar.there, scalar.content, age) \/ scalar' = Shows(yes, content, sooner)
      BY <1>7, <3>3
    <3> HIDE DEF age, yes, sooner
    <3>6. QED  BY <3>1, <3>2, <3>4, <3>5 DEF Shows
  <2>3. QED  BY <1>2, <1>3, <1>6, <1>9, <2>1, <2>2
<1>10. QED  BY <1>8, <1>9

LEMMA SkipKeeps ==
  ASSUME WindowsAssumed, TickInv, NEW r \in Scalar!Readings, Scalar!Skip(r)
  PROVE  TickInv'
<1> DEFINE since == Scalar!Later(ticker.since)   age == Scalar!Later(scalar.age)
<1>1. /\ ticker.at = "run" /\ ~ticker.needsCreate /\ Scalar!Unchanged(r) /\ ~Scalar!HeartbeatDue
      /\ setting' = setting
      /\ ticker' = [ticker EXCEPT !.since = since] /\ scalar' = [scalar EXCEPT !.age = age]
      /\ ticked' = [ticked EXCEPT !.read = r, !.dimmed = ticked.dimmed \/ Scalar!Dims(0)]
  BY DEF Scalar!Skip
<1>2. /\ since \in Int /\ since =< ticker.since + setting.interval /\ age \in Int
  BY LaterBounds DEF TickInv, TypedTicks
<1>3. ticker.since + setting.interval < Scalar!HeartbeatFor /\ Scalar!HeartbeatFor \in Int
  <2>1. Scalar!HeartbeatFor \in Int  BY HalfTheWindow DEF WindowsAssumed
  <2>2. QED  BY <1>1, <2>1 DEF Scalar!HeartbeatDue, Scalar!Elapsed, TickInv, TypedTicks
<1>4. scalar.age = ticker.since => age = since  OBVIOUS
<1> DEFINE dims == ticked.dimmed \/ Scalar!Dims(0)
<1>5. dims = FALSE
  <2>1. 0 \in 0..Latency  BY DEF WindowsAssumed
  <2>2. ~Scalar!Dims(0)  BY <1>1, <2>1, NoDim
  <2>3. QED  BY <2>2 DEF TickInv, Beating
<1> HIDE DEF since, age
<1>6. /\ ticker' = Ticker(ticker.at, ticker.needsCreate, ticker.lastContent, since)
      /\ scalar' = Shows(scalar.there, scalar.content, age)
  BY <1>1, TickerForms DEF TickInv
<1>7. ticked' = Ticked(ticked.faults, r, ticked.unsettled, ticked.missed, dims)
  <2> HIDE DEF dims
  <2>1. ticked' = [ticked EXCEPT !.read = r, !.dimmed = dims]  BY <1>1 DEF dims
  <2>2. QED  BY <2>1 DEF TickInv, TypedTicks, Ticked
<1> HIDE DEF dims
<1>8. /\ ticker'.at = ticker.at /\ ticker'.needsCreate = ticker.needsCreate
      /\ ticker'.lastContent = ticker.lastContent /\ ticker'.since = since
      /\ scalar'.there = scalar.there /\ scalar'.content = scalar.content /\ scalar'.age = age
      /\ ticked'.read = r /\ ticked'.unsettled = ticked.unsettled /\ ticked'.missed = ticked.missed
      /\ ticked'.dimmed = dims
  BY <1>6, <1>7 DEF Ticker, Shows, Ticked
<1>9. TypedTicks'
  BY <1>1, <1>2, <1>5, <1>6, <1>7, <1>8 DEF TickInv, TypedTicks, Ticker, Shows, Ticked
<1>10. Settled'
  <2>1. ~Scalar!ValueChanged(ticker.lastContent.value, r.value)  BY <1>1 DEF Scalar!Unchanged
  <2>2. QED  BY <1>1, <1>8, <2>1 DEF TickInv, Settled, Scalar!ValueChanged
<1>11. Beating'
  BY <1>1, <1>2, <1>3, <1>4, <1>5, <1>8 DEF TickInv, TypedTicks, Beating, Scalar!HeartbeatFor
<1>12. QED  BY <1>9, <1>10, <1>11 DEF TickInv

LEMMA MissedKeeps ==
  ASSUME WindowsAssumed, TickInv, Scalar!Missed
  PROVE  TickInv'
<1> DEFINE since == Scalar!Later(ticker.since)   age == Scalar!Later(scalar.age)   yes == TRUE
<1>1. /\ ticker.at = "run" /\ setting' = setting
      /\ ticker' = [ticker EXCEPT !.since = since] /\ scalar' = [scalar EXCEPT !.age = age]
      /\ ticked' = [ticked EXCEPT !.missed = yes]
  BY DEF Scalar!Missed
<1>2. since \in Int /\ age \in Int /\ yes \in BOOLEAN  BY LaterBounds DEF TickInv, TypedTicks
<1> HIDE DEF since, age
<1>3. /\ ticker' = Ticker(ticker.at, ticker.needsCreate, ticker.lastContent, since)
      /\ scalar' = Shows(scalar.there, scalar.content, age)
  BY <1>1, TickerForms DEF TickInv
<1>4. ticked' = Ticked(ticked.faults, ticked.read, ticked.unsettled, yes, ticked.dimmed)
  <2> HIDE DEF yes
  <2>1. QED  BY <1>1 DEF TickInv, TypedTicks, Ticked
<1>5. ticked'.missed  BY <1>4 DEF Ticked
<1> HIDE DEF yes
<1>6. /\ ticker'.at = ticker.at /\ ticker'.needsCreate = ticker.needsCreate
      /\ ticker'.lastContent = ticker.lastContent /\ ticker'.since = since
      /\ scalar'.there = scalar.there /\ scalar'.content = scalar.content /\ scalar'.age = age
      /\ ticked'.read = ticked.read /\ ticked'.unsettled = ticked.unsettled /\ ticked'.missed = yes
      /\ ticked'.dimmed = ticked.dimmed
  BY <1>3, <1>4 DEF Ticker, Shows, Ticked
<1>7. TypedTicks'
  BY <1>1, <1>2, <1>3, <1>4, <1>6 DEF TickInv, TypedTicks, Ticker, Shows, Ticked
<1>8. Settled'  BY <1>1, <1>6 DEF TickInv, Settled, Scalar!ValueChanged
<1>9. Beating'  BY <1>1, <1>5, <1>6 DEF TickInv, Beating
<1>10. QED  BY <1>7, <1>8, <1>9 DEF TickInv

(* What follows a call in a tick, whichever sent it.                        *)
LEMMA SentKeeps ==
  ASSUME WindowsAssumed, TickInv, ticker.at = "run", NEW content, NEW r, NEW d \in 0..Latency, NEW result,
         Scalar!Lands(content, d, result, r), content.value \in Int,
         ~Scalar!ValueChanged(content.value, r.value),
         result = "ok"  => ticker' = Ticker(ticker.at, FALSE, content, -d),
         result # "ok" => ticker' = [ticker EXCEPT !.since = Scalar!Later(@)]
  PROVE  TickInv'
<1>1. /\ setting' = setting /\ -d \in Int /\ -d =< Latency
      /\ result = "ok" => /\ scalar' = Shows(TRUE, content, -d)
                          /\ ticked' = Ticked(ticked.faults, r, FALSE, FALSE, FALSE)
      /\ result # "ok" => /\ scalar' = Shows(scalar'.there, scalar'.content, scalar'.age)
                          /\ scalar'.there \in BOOLEAN /\ scalar'.age \in Int
                          /\ ticked' = Ticked(ticked.faults + 1, r, TRUE, TRUE, FALSE)
  BY LandsForm
<1> DEFINE no == FALSE   yes == TRUE   sooner == -d
<1>2. no \in BOOLEAN /\ yes \in BOOLEAN /\ ~no /\ yes  OBVIOUS
<1>3. sooner \in Int /\ sooner =< Latency  BY <1>1
<1>4. /\ setting.interval \in Nat /\ 3 * setting.interval =< StaleAfter
      /\ ticker.needsCreate \in BOOLEAN /\ ticker.lastContent.value \in Int
  BY DEF TickInv, TypedTicks
<1>5. CASE result = "ok"
  <2>1. /\ ticker' = Ticker(ticker.at, no, content, sooner) /\ scalar' = Shows(yes, content, sooner)
        /\ ticked' = Ticked(ticked.faults, r, no, no, no)
    BY <1>1, <1>5
  <2> HIDE DEF no, yes, sooner
  <2>2. /\ ticker'.at = ticker.at /\ ticker'.needsCreate = no /\ ticker'.lastContent = content
        /\ ticker'.since = sooner /\ scalar'.there = yes /\ scalar'.content = content
        /\ scalar'.age = sooner /\ ticked'.read = r /\ ticked'.unsettled = no /\ ticked'.missed = no
        /\ ticked'.dimmed = no /\ ticked'.faults = ticked.faults
    BY <2>1 DEF Ticker, Shows, Ticked
  <2>3. TypedTicks'
    BY <1>1, <1>2, <1>3, <1>4, <2>1, <2>2 DEF TypedTicks
  <2>4. Settled'  BY <1>1, <2>2 DEF Settled, Scalar!ValueChanged
  <2>5. Beating'  BY <1>2, <1>3, <2>2 DEF Beating
  <2>6. QED  BY <2>3, <2>4, <2>5 DEF TickInv
<1>6. CASE result # "ok"
  <2> DEFINE since == Scalar!Later(ticker.since)   more == ticked.faults + 1
  <2>1. since \in Int  BY LaterBounds DEF TickInv, TypedTicks
  <2>2. ticker' = [ticker EXCEPT !.since = since]  BY <1>6
  <2>3. /\ ticked' = Ticked(more, r, yes, yes, no)
        /\ scalar' = Shows(scalar'.there, scalar'.content, scalar'.age)
        /\ scalar'.there \in BOOLEAN /\ scalar'.age \in Int
    BY <1>1, <1>6
  <2> HIDE DEF since, more, no, yes, sooner
  <2>4. ticker' = Ticker(ticker.at, ticker.needsCreate, ticker.lastContent, since)
    BY <2>2, TickerForms DEF TickInv
  <2>5. /\ ticker'.at = ticker.at /\ ticker'.needsCreate = ticker.needsCreate
        /\ ticker'.lastContent = ticker.lastContent /\ ticker'.since = since
        /\ ticked'.read = r /\ ticked'.unsettled = yes /\ ticked'.missed = yes
        /\ ticked'.dimmed = no /\ ticked'.faults = more
    BY <2>3, <2>4 DEF Ticker, Ticked
  <2>6. TypedTicks'
    BY <1>1, <1>2, <1>4, <2>1, <2>3, <2>4, <2>5 DEF TypedTicks
  <2>7. Settled'  BY <1>2, <2>5 DEF Settled
  <2>8. Beating'  BY <1>2, <2>5 DEF Beating
  <2>9. QED  BY <2>6, <2>7, <2>8 DEF TickInv
<1>7. QED  BY <1>5, <1>6

LEMMA CreateDeferredKeeps ==
  ASSUME WindowsAssumed, TickInv, NEW r \in Scalar!Readings, NEW d \in 0..Latency, NEW result,
         Scalar!CreateDeferred(r, d, result)
  PROVE  TickInv'
<1>1. ticker.at = "run" /\ Scalar!Lands(r, d, result, r)  BY DEF Scalar!CreateDeferred
<1>2. r.value \in Int /\ ~Scalar!ValueChanged(r.value, r.value)  BY Readings, SameValue
<1>3. ASSUME result = "ok"  PROVE ticker' = Ticker(ticker.at, FALSE, r, -d)
  <2> DEFINE sooner == -d
  <2>1. ticker' = [ticker EXCEPT !.needsCreate = FALSE, !.lastContent = r, !.since = sooner]
    BY <1>3 DEF Scalar!CreateDeferred
  <2> HIDE DEF sooner
  <2>2. ticker' = Ticker(ticker.at, FALSE, r, sooner)  BY <2>1, TickerForms DEF TickInv
  <2>3. QED  BY <2>2 DEF sooner
<1>4. result # "ok" => ticker' = [ticker EXCEPT !.since = Scalar!Later(@)]  BY DEF Scalar!CreateDeferred
<1>5. QED  BY <1>1, <1>2, <1>3, <1>4, SentKeeps

LEMMA PublishKeeps ==
  ASSUME WindowsAssumed, TickInv, NEW r \in Scalar!Readings, NEW d \in 0..Latency, NEW result,
         Scalar!Publish(r, d, result)
  PROVE  TickInv'
<1> DEFINE content == Scalar!Payload(r)
<1>1. ticker.at = "run" /\ ~ticker.needsCreate /\ Scalar!Lands(content, d, result, r)
  BY DEF Scalar!Publish
<1>2. content.value \in Int /\ ~Scalar!ValueChanged(content.value, r.value)
  <2>1. CASE Scalar!Unchanged(r)
    <3>1. content = ticker.lastContent  BY <2>1 DEF Scalar!Payload
    <3>2. QED  BY <2>1, <3>1 DEF Scalar!Unchanged, TickInv, TypedTicks
  <2>2. CASE ~Scalar!Unchanged(r)
    <3>1. content = r  BY <2>2 DEF Scalar!Payload
    <3>2. QED  BY <3>1, Readings, SameValue
  <2>3. QED  BY <2>1, <2>2
<1>3. ASSUME result = "ok"  PROVE ticker' = Ticker(ticker.at, FALSE, content, -d)
  <2> DEFINE sooner == -d
  <2>1. ticker' = [ticker EXCEPT !.lastContent = IF Scalar!Unchanged(r) THEN @ ELSE r, !.since = sooner]
    BY <1>3 DEF Scalar!Publish
  <2>2. content = IF Scalar!Unchanged(r) THEN ticker.lastContent ELSE r  BY DEF Scalar!Payload
  <2> HIDE DEF sooner, content
  <2>3. ticker' = [ticker EXCEPT !.lastContent = content, !.since = sooner]  BY <2>1, <2>2
  <2>4. ticker' = Ticker(ticker.at, ticker.needsCreate, content, sooner)
    BY <2>3, TickerForms DEF TickInv
  <2>5. ticker.needsCreate = FALSE  BY <1>1 DEF TickInv, TypedTicks
  <2>6. QED  BY <2>4, <2>5 DEF sooner
<1>4. result # "ok" => ticker' = [ticker EXCEPT !.since = Scalar!Later(@)]  BY DEF Scalar!Publish
<1> HIDE DEF content
<1>5. QED  BY <1>1, <1>2, <1>3, <1>4, SentKeeps

(* A deferred create leaves nothing on the server; any other start leaves   *)
(* what it sent, or has failed.                                             *)
LEMMA StartKeeps ==
  ASSUME WindowsAssumed, TickInv, Scalar!Start
  PROVE  TickInv'
<1> DEFINE run == "run"   failed == "failed"   ok == "ok"   yes == TRUE   start == "start"
<1>0. start # run /\ start # failed /\ run # failed /\ yes \in BOOLEAN /\ yes  OBVIOUS
<1> DEFINE Starts(found, result, jitter, r) ==
             /\ ticker.at = "start" /\ Scalar!Possible(result)
             /\ IF ~found /\ setting.kind = "gauge"
                THEN /\ ticker' = [ticker EXCEPT !.at = "run", !.needsCreate = TRUE]
                     /\ UNCHANGED <<scalar, ticked>>
                ELSE LET content == IF found THEN r ELSE Scalar!Empty IN
                     /\ ticker' = [ticker EXCEPT !.at = IF result = "ok" THEN "run" ELSE "failed",
                                                 !.lastContent = content, !.since = jitter]
                     /\ scalar' = IF result = "failed" THEN scalar
                                  ELSE [there |-> TRUE, content |-> content, age |-> jitter]
                     /\ ticked' = [ticked EXCEPT !.read = content]
             /\ UNCHANGED setting
<1>a. PICK found \in BOOLEAN, result \in Scalar!Results, jitter \in 0..Latency :
        \E r \in Scalar!Readings : Starts(found, result, jitter, r)
  BY DEF Scalar!Start
<1>b. PICK r \in Scalar!Readings : Starts(found, result, jitter, r)  BY <1>a
<1>1. /\ ticker.at = start
      /\ IF ~found /\ setting.kind = "gauge"
         THEN /\ ticker' = [ticker EXCEPT !.at = run, !.needsCreate = yes]
              /\ scalar' = scalar /\ ticked' = ticked
         ELSE LET content == IF found THEN r ELSE Scalar!Empty IN
              /\ ticker' = [ticker EXCEPT !.at = IF result = ok THEN run ELSE failed,
                                          !.lastContent = content, !.since = jitter]
              /\ scalar' = IF result = failed THEN scalar
                           ELSE [there |-> yes, content |-> content, age |-> jitter]
              /\ ticked' = [ticked EXCEPT !.read = content]
      /\ setting' = setting
  BY <1>b
<1> DEFINE content == IF found THEN r ELSE Scalar!Empty
           at == IF result = ok THEN run ELSE failed
<1>2. /\ setting.interval \in Nat /\ 3 * setting.interval =< StaleAfter
      /\ ticker = Ticker(ticker.at, ticker.needsCreate, ticker.lastContent, ticker.since)
      /\ ticker.needsCreate \in BOOLEAN /\ ticker.since \in Int /\ ticker.lastContent.value \in Int
      /\ scalar = Shows(scalar.there, scalar.content, scalar.age)
      /\ scalar.there \in BOOLEAN /\ scalar.age \in Int
      /\ ticked = Ticked(ticked.faults, ticked.read, ticked.unsettled, ticked.missed, ticked.dimmed)
      /\ ticked.unsettled \in BOOLEAN /\ ticked.missed \in BOOLEAN /\ ticked.dimmed \in BOOLEAN
      /\ ~ticked.dimmed /\ ~scalar.there /\ ~ticker.needsCreate
  BY <1>1 DEF TickInv, TypedTicks, Beating
<1>3. jitter \in Int /\ jitter =< Latency  BY DEF WindowsAssumed
<1>4. content.value \in Int /\ ~Scalar!ValueChanged(content.value, content.value)
  <2>1. Scalar!Empty.value \in Int  BY DEF Scalar!Empty, Scalar!NoValue
  <2>2. CASE found
    <3>1. content = r  BY <2>2
    <3>2. QED  BY <3>1, Readings, SameValue
  <2>3. CASE ~found
    <3>1. content = Scalar!Empty  BY <2>3
    <3>2. QED  BY <2>1, <3>1, SameValue
  <2>4. QED  BY <2>2, <2>3
<1>5. CASE ~found /\ setting.kind = "gauge"
  <2> DEFINE t1 == [ticker EXCEPT !.at = run]   t2 == [t1 EXCEPT !.needsCreate = yes]
  <2>1. ticker' = t2 /\ scalar' = scalar /\ ticked' = ticked  BY <1>1, <1>5
  <2> HIDE DEF run, failed, yes
  <2>2. t1 = Ticker(run, ticker.needsCreate, ticker.lastContent, ticker.since)  BY <1>2 DEF Ticker
  <2> HIDE DEF t1
  <2>3. ticker' = Ticker(run, yes, ticker.lastContent, ticker.since)  BY <2>1, <2>2 DEF Ticker
  <2>4. /\ ticker'.at = run /\ ticker'.needsCreate = yes /\ ticker'.lastContent = ticker.lastContent
        /\ ticker'.since = ticker.since
    BY <2>3 DEF Ticker
  <2>5. TypedTicks'  BY <1>0, <1>1, <1>2, <2>1, <2>3, <2>4 DEF TypedTicks
  <2>6. Settled'  BY <1>0, <2>4 DEF Settled
  <2>7. Beating'
    <3>1. ticker'.at # "start"  BY <2>4 DEF run
    <3>2. QED  BY <1>2, <2>1, <3>1 DEF Beating
  <2>8. QED  BY <2>5, <2>6, <2>7 DEF TickInv
<1>6. CASE ~(~found /\ setting.kind = "gauge")
  <2> DEFINE t1 == [ticker EXCEPT !.at = at]   t2 == [t1 EXCEPT !.lastContent = content]
             t3 == [t2 EXCEPT !.since = jitter]
  <2>1. /\ ticker' = t3 /\ ticked' = [ticked EXCEPT !.read = content]
        /\ scalar' = IF result = failed THEN scalar ELSE Shows(yes, content, jitter)
    BY <1>1, <1>6 DEF Shows
  <2>a. at # start /\ (at = run => result # failed)  OBVIOUS
  <2> HIDE DEF at, content, yes, start, run, failed, ok
  <2>2. t1 = Ticker(at, ticker.needsCreate, ticker.lastContent, ticker.since)  BY <1>2 DEF Ticker
  <2> HIDE DEF t1
  <2>3. t2 = Ticker(at, ticker.needsCreate, content, ticker.since)  BY <2>2 DEF Ticker
  <2> HIDE DEF t2
  <2>4. ticker' = Ticker(at, ticker.needsCreate, content, jitter)  BY <2>1, <2>3 DEF Ticker
  <2>5. ticked' = Ticked(ticked.faults, content, ticked.unsettled, ticked.missed, ticked.dimmed)
    BY <1>2, <2>1 DEF Ticked
  <2>6. /\ ticker'.at = at /\ ticker'.needsCreate = ticker.needsCreate /\ ticker'.lastContent = content
        /\ ticker'.since = jitter /\ ticked'.read = content /\ ticked'.unsettled = ticked.unsettled
        /\ ticked'.missed = ticked.missed /\ ticked'.dimmed = ticked.dimmed
        /\ ticked'.faults = ticked.faults
    BY <2>4, <2>5 DEF Ticker, Ticked
  <2>7. /\ scalar' = Shows(scalar'.there, scalar'.content, scalar'.age)
        /\ scalar'.there \in BOOLEAN /\ scalar'.age \in Int
        /\ at = run => scalar'.there /\ scalar'.content = content /\ scalar'.age = jitter
    <3>1. CASE result = failed  BY <1>2, <2>1, <2>a, <3>1
    <3>2. CASE result # failed
      <4>1. scalar' = Shows(yes, content, jitter)  BY <2>1, <3>2
      <4>2. QED  BY <1>0, <1>3, <4>1 DEF Shows
    <3>3. QED  BY <3>1, <3>2
  <2>8. TypedTicks'  BY <1>1, <1>2, <1>3, <1>4, <2>4, <2>5, <2>6, <2>7 DEF TypedTicks
  <2>9. Settled'
    <3>1. ticker'.at = "run" => at = run  BY <2>6 DEF run
    <3>2. ~Scalar!ValueChanged(content.value, content.value)'
      BY <1>1, <1>4, <2>6 DEF Scalar!ValueChanged
    <3>3. QED  BY <1>1, <1>4, <2>6, <2>7, <3>1 DEF Settled, Scalar!ValueChanged
  <2>10. Beating'  
    <3>1. ticker'.at # "start" /\ (ticker'.at = "run" => at = run)  BY <2>6, <2>a DEF run, start
    <3>2. QED  BY <1>2, <1>3, <2>6, <2>7, <3>1 DEF Beating
  <2>11. QED  BY <2>8, <2>9, <2>10 DEF TickInv
<1>7. QED  BY <1>5, <1>6

LEMMA TickInvInit == ASSUME WindowsAssumed, Scalar!Init PROVE TickInv
<1> DEFINE start == "start"   no == FALSE   zero == 0   none == Scalar!Empty
<1>0. no \in BOOLEAN /\ ~no /\ zero \in Int /\ start = "start" /\ start # "run"  OBVIOUS
<1>1. none.value \in Int  BY DEF Scalar!Empty, Scalar!NoValue
<1>2. ticker = Ticker(start, no, none, zero)  BY DEF Scalar!Init, Ticker
<1>3. scalar = Shows(no, none, zero)  BY DEF Scalar!Init, Shows
<1>4. ticked = Ticked(zero, none, no, no, no)  BY DEF Scalar!Init, Ticked
<1>5. setting.interval \in Nat /\ 3 * setting.interval =< StaleAfter
  BY DEF Scalar!Init, Scalar!Valid, WindowsAssumed
<1> HIDE DEF start, no, zero, none
<1>6. /\ ticker.at = start /\ ticker.needsCreate = no /\ ticker.lastContent = none
      /\ ticker.since = zero /\ scalar.there = no /\ scalar.content = none /\ scalar.age = zero
      /\ ticked.faults = zero /\ ticked.read = none /\ ticked.unsettled = no
      /\ ticked.missed = no /\ ticked.dimmed = no
  BY <1>2, <1>3, <1>4 DEF Ticker, Shows, Ticked
<1>7. TypedTicks  BY <1>0, <1>1, <1>2, <1>3, <1>4, <1>5, <1>6 DEF TypedTicks
<1>8. Settled  BY <1>0, <1>6 DEF Settled
<1>9. Beating  BY <1>0, <1>6 DEF Beating
<1>10. QED  BY <1>7, <1>8, <1>9 DEF TickInv

LEMMA TickInvStep == ASSUME WindowsAssumed, TickInv, [Scalar!Next]_(Scalar!vars) PROVE TickInv'
<1>1. CASE Scalar!Start  BY <1>1, StartKeeps
<1>2. CASE Scalar!Missed  BY <1>2, MissedKeeps
<1>3. ASSUME NEW r \in Scalar!Readings, Scalar!Skip(r)  PROVE TickInv'  BY <1>3, SkipKeeps
<1>4. ASSUME NEW r \in Scalar!Readings, NEW d \in 0..Latency, NEW result \in Scalar!Results,
             Scalar!CreateDeferred(r, d, result) \/ Scalar!Publish(r, d, result)
      PROVE  TickInv'
  BY <1>4, CreateDeferredKeeps, PublishKeeps
<1>5. CASE UNCHANGED Scalar!vars
  <2>1. setting' = setting /\ ticker' = ticker /\ scalar' = scalar /\ ticked' = ticked
    BY <1>5 DEF Scalar!vars
  <2>2. QED
    BY <2>1 DEF TickInv, TypedTicks, Settled, Beating, Ticker, Shows, Ticked, Scalar!ValueChanged,
                Scalar!HeartbeatFor
<1>6. QED  BY <1>1, <1>2, <1>3, <1>4, <1>5 DEF Scalar!Next

(* Unless its last call failed, a scalar widget shows the last reading to   *)
(* within MinChange, and what the loop takes it to show; and a widget whose *)
(* reads and calls succeed is sent to before the device dims it (runScalar, *)
(* runStatList, HeartbeatFor, validateStaleAfter).                          *)
THEOREM ShownStays ==
  ASSUME WindowsAssumed
  PROVE  Scalar!Init /\ [][Scalar!Next]_(Scalar!vars) => [](Scalar!ShownIsCurrent /\ Scalar!NeverDims)
<1>1. Scalar!Init => TickInv  BY TickInvInit
<1>2. TickInv /\ [Scalar!Next]_(Scalar!vars) => TickInv'  BY TickInvStep
<1>3. TickInv => Scalar!ShownIsCurrent /\ Scalar!NeverDims
  BY DEF TickInv, Settled, Beating, Scalar!ShownIsCurrent, Scalar!NeverDims
<1>4. QED  BY <1>1, <1>2, <1>3, PTL

(* --------------------------- the series widgets -------------------------- *)

SeriesAssumed ==
  /\ IsFiniteSet(SeriesNames) /\ SeriesValues \subseteq Nat \ {Multi!Absent}
  /\ MissGrace \in Nat \ {0} /\ MaxSeries \in Nat

Followed == [kept : BOOLEAN, last : Nat, misses : Nat, since : Nat]

\* While no call has failed, a series' misses are the ticks it has been away.
Matched ==
  /\ cleanup \in BOOLEAN /\ series \in [SeriesNames -> Followed] /\ absences.away \in [SeriesNames -> Nat]
  /\ \A s \in SeriesNames :
       /\ series[s].kept => /\ series[s].misses = absences.away[s] /\ absences.away[s] < MissGrace
                            /\ widgets[s] = series[s].last /\ series[s].last # Multi!Absent
       /\ ~series[s].kept => /\ series[s] = Multi!Gone /\ absences.away[s] = MissGrace
                             /\ cleanup => widgets[s] = Multi!Absent
  /\ Cardinality(Multi!Kept) =< MaxSeries

MatchInv == absences.faults \in Nat /\ (absences.faults = 0 => Matched)

LEMMA SameCard == ASSUME NEW S PROVE Multi!Cardinality(S) = Cardinality(S)
  BY DEF Multi!Cardinality, Cardinality

LEMMA SeriesForms ==
  ASSUME NEW st \in Followed, NEW v \in Nat
  PROVE  /\ Multi!Gone \in Followed /\ ~Multi!Gone.kept
         /\ Multi!Fresh(v) \in Followed /\ Multi!Fresh(v).kept /\ Multi!Fresh(v).last = v
         /\ Multi!Fresh(v).misses = 0
         /\ Multi!Older(st) \in Followed /\ Multi!Older(st).kept = st.kept
         /\ Multi!Older(st).last = st.last /\ Multi!Older(st).misses = st.misses
<1>1. Multi!Gone \in Followed /\ ~Multi!Gone.kept  BY DEF Multi!Gone, Followed
<1>2. /\ Multi!Fresh(v) \in Followed /\ Multi!Fresh(v).kept /\ Multi!Fresh(v).last = v
      /\ Multi!Fresh(v).misses = 0
  BY DEF Multi!Fresh, Followed
<1> DEFINE since == IF st.since < Heartbeat THEN st.since + 1 ELSE st.since
<1>3. since \in Nat  BY DEF Followed
<1>4. Multi!Older(st) = [st EXCEPT !.since = since]  BY DEF Multi!Older
<1> HIDE DEF since
<1>5. /\ Multi!Older(st) \in Followed /\ Multi!Older(st).kept = st.kept
      /\ Multi!Older(st).last = st.last /\ Multi!Older(st).misses = st.misses
  BY <1>3, <1>4 DEF Followed
<1>6. QED  BY <1>1, <1>2, <1>5

LEMMA SeenForms ==
  ASSUME NEW st \in Followed, MissGrace \in Nat
  PROVE  /\ Multi!SeenUnchanged(st) \in Followed /\ Multi!SeenUnchanged(st).kept = st.kept
         /\ Multi!SeenUnchanged(st).last = st.last /\ Multi!SeenUnchanged(st).misses = 0
         /\ Multi!MissedOnce(st) \in Followed /\ Multi!MissedOnce(st).kept = st.kept
         /\ Multi!MissedOnce(st).last = st.last
         /\ Multi!MissedOnce(st).misses = IF st.misses < MissGrace THEN st.misses + 1 ELSE st.misses
<1>1. /\ Multi!SeenUnchanged(st) \in Followed /\ Multi!SeenUnchanged(st).kept = st.kept
      /\ Multi!SeenUnchanged(st).last = st.last /\ Multi!SeenUnchanged(st).misses = 0
  BY DEF Multi!SeenUnchanged, Followed
<1> DEFINE older == Multi!Older(st)
           misses == IF older.misses < MissGrace THEN older.misses + 1 ELSE older.misses
<1>2. /\ older \in Followed /\ older.kept = st.kept /\ older.last = st.last /\ older.misses = st.misses
  <2>1. 0 \in Nat  OBVIOUS
  <2>2. QED  BY <2>1, SeriesForms
<1>3. Multi!MissedOnce(st) = [older EXCEPT !.misses = misses]  BY DEF Multi!MissedOnce
<1> HIDE DEF older
<1>4. misses \in Nat  BY <1>2 DEF Followed
<1>5. misses = IF st.misses < MissGrace THEN st.misses + 1 ELSE st.misses  BY <1>2
<1> HIDE DEF misses
<1>6. /\ Multi!MissedOnce(st) \in Followed /\ Multi!MissedOnce(st).kept = st.kept
      /\ Multi!MissedOnce(st).last = st.last /\ Multi!MissedOnce(st).misses = misses
  BY <1>2, <1>3, <1>4 DEF Followed
<1>7. QED  BY <1>1, <1>5, <1>6

(* A tick whose calls all succeed.                                          *)
LEMMA TickMatches ==
  ASSUME SeriesAssumed, Matched,
         NEW readings \in [SeriesNames -> SeriesValues \union {Multi!Absent}],
         NEW tried \in SUBSET Multi!New(readings),
         NEW outcome \in [Multi!Calls(readings, tried) -> Multi!Results],
         Multi!ApplyMulti(readings, tried, outcome),
         \A s \in DOMAIN outcome : outcome[s] = "ok"
  PROVE  Matched'
<1> DEFINE calls == Multi!Calls(readings, tried)
           ok == {s \in SeriesNames : s \in DOMAIN outcome => outcome[s] = "ok"}
<1>1. DOMAIN outcome = calls /\ ok = SeriesNames  OBVIOUS
<1>2. /\ \A s \in SeriesNames : /\ s \in tried => readings[s] # Multi!Absent /\ ~series[s].kept
                                /\ s \in Multi!Kept <=> series[s].kept
      /\ tried \subseteq SeriesNames
  BY DEF Multi!New, Multi!Kept
<1>3. \A s \in SeriesNames :
        s \in calls <=> \/ s \in tried
                        \/ series[s].kept /\ IF readings[s] = Multi!Absent
                                             THEN cleanup /\ Multi!Prunes(s)
                                             ELSE Multi!Sends(s, readings[s])
  BY <1>2 DEF Multi!Calls
<1>4. \A s \in SeriesNames : readings[s] \in Nat
  <2>1. \A s \in SeriesNames : readings[s] \in SeriesValues \union {Multi!Absent}  OBVIOUS
  <2>2. SeriesValues \union {Multi!Absent} \subseteq Nat  BY DEF SeriesAssumed, Multi!Absent
  <2>3. QED  BY <2>1, <2>2
<1>5. /\ Multi!Admitted(readings, tried, ok) /\ cleanup' = cleanup
      /\ series' = [s \in SeriesNames |->
           IF s \in Multi!Kept
           THEN IF readings[s] = Multi!Absent THEN Multi!Pruned(s, s \in ok)
                ELSE Multi!Updated(s, readings[s], s \in ok)
           ELSE IF s \in tried \intersect ok THEN Multi!Fresh(readings[s]) ELSE Multi!Gone]
      /\ widgets' = [s \in SeriesNames |->
           IF s \in DOMAIN outcome /\ outcome[s] # "failed" THEN readings[s] ELSE widgets[s]]
      /\ absences'.away = [s \in SeriesNames |->
           IF readings[s] # Multi!Absent /\ (s \in Multi!Kept \/ series'[s].kept) THEN 0
           ELSE IF absences.away[s] < MissGrace THEN absences.away[s] + 1 ELSE MissGrace]
  BY DEF Multi!ApplyMulti
<1>6. \A s \in SeriesNames :
        /\ series'[s] = IF series[s].kept
                        THEN IF readings[s] = Multi!Absent THEN Multi!Pruned(s, TRUE)
                             ELSE Multi!Updated(s, readings[s], TRUE)
                        ELSE IF s \in tried THEN Multi!Fresh(readings[s]) ELSE Multi!Gone
        /\ widgets'[s] = IF s \in calls THEN readings[s] ELSE widgets[s]
        /\ absences'.away[s] =
             IF readings[s] # Multi!Absent /\ (series[s].kept \/ series'[s].kept) THEN 0
             ELSE IF absences.away[s] < MissGrace THEN absences.away[s] + 1 ELSE MissGrace
  BY <1>1, <1>2, <1>5
<1>7. ASSUME NEW s \in SeriesNames
      PROVE  /\ series'[s] \in Followed /\ absences'.away[s] \in Nat
             /\ series'[s].kept => /\ series'[s].misses = absences'.away[s] /\ absences'.away[s] < MissGrace
                                   /\ widgets'[s] = series'[s].last /\ series'[s].last # Multi!Absent
                                   /\ series[s].kept \/ s \in tried
             /\ ~series'[s].kept => /\ series'[s] = Multi!Gone /\ absences'.away[s] = MissGrace
                                    /\ cleanup => widgets'[s] = Multi!Absent
  <2> DEFINE st == series[s]   v == readings[s]   away == absences.away[s]   older == Multi!Older(st)
             st1 == series'[s]   away1 == absences'.away[s]   shows == widgets[s]   shows1 == widgets'[s]
  <2>1. st \in Followed /\ away \in Nat /\ v \in Nat /\ MissGrace \in Nat \ {0}
    BY <1>4 DEF Matched, SeriesAssumed
  <2>2. /\ st.kept => st.misses = away /\ away < MissGrace /\ shows = st.last /\ st.last # Multi!Absent
        /\ ~st.kept => st = Multi!Gone /\ away = MissGrace /\ (cleanup => shows = Multi!Absent)
    BY DEF Matched
  <2>3. /\ st1 = IF st.kept THEN IF v = Multi!Absent THEN Multi!Pruned(s, TRUE)
                                 ELSE Multi!Updated(s, v, TRUE)
                 ELSE IF s \in tried THEN Multi!Fresh(v) ELSE Multi!Gone
        /\ shows1 = IF s \in calls THEN v ELSE shows
        /\ away1 = IF v # Multi!Absent /\ (st.kept \/ st1.kept) THEN 0
                   ELSE IF away < MissGrace THEN away + 1 ELSE MissGrace
    BY <1>6
  <2>4. CASE st.kept /\ v = Multi!Absent
    <3> DEFINE missed == Multi!MissedOnce(st)
    <3>1. missed \in Followed /\ missed.kept /\ missed.last = st.last /\ missed.misses = away + 1
      BY <2>1, <2>2, <2>4, SeenForms
    <3>2. Multi!Prunes(s) <=> away + 1 >= MissGrace  BY <3>1 DEF Multi!Prunes
    <3>3. st1 = IF Multi!Prunes(s) THEN Multi!Gone ELSE missed  BY <2>3, <2>4 DEF Multi!Pruned
    <3>4. s \in calls <=> cleanup /\ Multi!Prunes(s)  BY <1>2, <1>3, <2>4
    <3>5. away1 = away + 1  BY <2>2, <2>3, <2>4
    <3> HIDE DEF missed, st, v, away, st1, away1, shows, shows1, older, calls
    <3>6. CASE Multi!Prunes(s)
      <4>1. st1 = Multi!Gone /\ st1 \in Followed /\ ~st1.kept  BY <2>1, <3>3, <3>6, SeriesForms
      <4>2. away1 \in Nat /\ away1 = MissGrace  BY <2>1, <2>2, <2>4, <3>2, <3>5, <3>6
      <4>3. cleanup => shows1 = Multi!Absent  BY <2>3, <2>4, <3>4, <3>6
      <4>4. QED  BY <4>1, <4>2, <4>3 DEF st1, away1, shows1
    <3>7. CASE ~Multi!Prunes(s)
      <4>1. st1 = missed /\ shows1 = shows  BY <2>3, <3>3, <3>4, <3>7
      <4>2. away1 \in Nat /\ away1 < MissGrace  BY <2>1, <3>2, <3>5, <3>7
      <4>3. QED  BY <2>2, <2>4, <3>1, <3>5, <4>1, <4>2 DEF st1, away1, shows1, st
    <3>8. QED  BY <3>6, <3>7
  <2>5. CASE st.kept /\ v # Multi!Absent
    <3> DEFINE unmissed == Multi!SeenUnchanged(older)
    <3>1. older \in Followed /\ older.kept /\ older.last = st.last  BY <2>1, <2>5, SeriesForms
    <3>2. unmissed \in Followed /\ unmissed.kept /\ unmissed.last = st.last /\ unmissed.misses = 0
      BY <2>1, <3>1, SeenForms
    <3>3. st1 = IF ~Multi!Sends(s, v) THEN unmissed ELSE Multi!Fresh(v)
      BY <2>3, <2>5 DEF Multi!Updated
    <3>4. s \in calls <=> Multi!Sends(s, v)  BY <1>2, <1>3, <2>5
    <3>5. away1 = 0  BY <2>3, <2>5
    <3> HIDE DEF unmissed, st, v, away, st1, away1, shows, shows1, older, calls
    <3>6. CASE Multi!Sends(s, v)
      <4>1. st1 \in Followed /\ st1.kept /\ st1.last = v /\ st1.misses = 0
        BY <2>1, <3>3, <3>6, SeriesForms
      <4>2. shows1 = v  BY <2>3, <3>4, <3>6
      <4>3. QED  BY <2>1, <2>5, <3>5, <4>1, <4>2 DEF st1, away1, shows1, st
    <3>7. CASE ~Multi!Sends(s, v)
      <4>1. st1 = unmissed /\ shows1 = shows  BY <2>3, <3>3, <3>4, <3>7
      <4>2. QED  BY <2>1, <2>2, <2>5, <3>2, <3>5, <4>1 DEF st1, away1, shows1, st
    <3>8. QED  BY <3>6, <3>7
  <2>6. CASE ~st.kept /\ s \in tried
    <3>1. v # Multi!Absent /\ s \in calls  BY <1>2, <1>3, <2>6
    <3>2. st1 = Multi!Fresh(v)  BY <2>3, <2>6
    <3>3. st1 \in Followed /\ st1.kept /\ st1.last = v /\ st1.misses = 0
      BY <2>1, <3>2, SeriesForms
    <3>4. shows1 = v /\ away1 = 0  BY <2>3, <3>1, <3>3
    <3>5. QED  BY <2>1, <2>6, <3>1, <3>3, <3>4
  <2>7. CASE ~st.kept /\ s \notin tried
    <3>1. s \notin calls  BY <1>3, <2>7
    <3>2. st1 = Multi!Gone /\ st1 \in Followed /\ ~st1.kept  BY <2>1, <2>3, <2>7, SeriesForms
    <3>3. shows1 = shows  BY <2>3, <3>1
    <3>4. away1 = MissGrace  BY <2>1, <2>2, <2>3, <2>7, <3>2
    <3>5. QED  BY <2>1, <2>2, <2>7, <3>2, <3>3, <3>4
  <2>8. QED  BY <2>4, <2>5, <2>6, <2>7
<1>8. Cardinality(Multi!Kept') =< MaxSeries
  <2> DEFINE filled == Multi!Kept \union (tried \intersect ok)
  <2>1. Cardinality(filled) =< MaxSeries
    <3> HIDE DEF ok
    <3>1. Multi!Admitted(readings, tried, ok)  BY <1>5
    <3>2. QED  BY <3>1, SameCard DEF Multi!Admitted
  <2>2. Multi!Kept' \subseteq filled  BY <1>1, <1>2, <1>7 DEF Multi!Kept
  <2>3. IsFiniteSet(filled)
    <3>1. filled \subseteq SeriesNames  BY <1>2 DEF Multi!Kept
    <3>2. QED  BY <3>1, FS_Subset DEF SeriesAssumed
  <2> HIDE DEF filled
  <2>4. Cardinality(Multi!Kept') =< Cardinality(filled)  BY <2>2, <2>3, FS_Subset
  <2>5. IsFiniteSet(Multi!Kept')  BY <2>2, <2>3, FS_Subset
  <2>6. Cardinality(Multi!Kept') \in Nat /\ Cardinality(filled) \in Nat
    BY <2>3, <2>5, FS_CardinalityType
  <2>7. QED  BY <2>1, <2>4, <2>6 DEF SeriesAssumed
<1>9. series' \in [SeriesNames -> Followed] /\ absences'.away \in [SeriesNames -> Nat]
  BY <1>5, <1>7
<1>10. cleanup' \in BOOLEAN /\ cleanup' = cleanup  BY <1>5 DEF Matched
<1>11. QED  BY <1>7, <1>8, <1>9, <1>10 DEF Matched

(* A tick after which no call has failed is one whose calls all succeeded:  *)
(* a series that is kept has a widget, which an update or a delete finds.   *)
LEMMA MatchStep == ASSUME SeriesAssumed, MatchInv, [Multi!Next]_(Multi!vars) PROVE MatchInv'
<1>1. CASE Multi!Next
  <2>1. PICK readings \in [SeriesNames -> SeriesValues \union {Multi!Absent}] :
          \E tried \in SUBSET Multi!New(readings) :
          \E outcome \in [Multi!Calls(readings, tried) -> Multi!Results] :
            Multi!ApplyMulti(readings, tried, outcome)
    BY <1>1 DEF Multi!Next
  <2>2. PICK tried \in SUBSET Multi!New(readings) :
          \E outcome \in [Multi!Calls(readings, tried) -> Multi!Results] :
            Multi!ApplyMulti(readings, tried, outcome)
    BY <2>1
  <2>3. PICK outcome \in [Multi!Calls(readings, tried) -> Multi!Results] :
          Multi!ApplyMulti(readings, tried, outcome)
    BY <2>2
  <2> DEFINE ok == {s \in SeriesNames : s \in DOMAIN outcome => outcome[s] = "ok"}
             void == {s \in DOMAIN outcome \intersect Multi!Kept : widgets[s] = Multi!Absent}
             failed == (SeriesNames \ ok) \ void
  <2>4. absences'.faults = absences.faults + Cardinality(failed)  BY <2>3, SameCard DEF Multi!ApplyMulti
  <2>5. IsFiniteSet(failed) /\ Cardinality(failed) \in Nat
    <3>1. failed \subseteq SeriesNames  OBVIOUS
    <3> HIDE DEF failed
    <3>2. IsFiniteSet(failed)  BY <3>1, FS_Subset DEF SeriesAssumed
    <3>3. QED  BY <3>2, FS_CardinalityType
  <2>6. ASSUME absences'.faults = 0  PROVE Matched'
    <3> HIDE DEF failed
    <3>1. absences.faults = 0 /\ Cardinality(failed) = 0  BY <2>4, <2>5, <2>6 DEF MatchInv
    <3>2. Matched  BY <3>1 DEF MatchInv
    <3>3. failed = {}  BY <2>5, <3>1, FS_EmptySet
    <3>4. void = {}  BY <3>2 DEF Matched, Multi!Kept
    <3>5. DOMAIN outcome \subseteq SeriesNames
      BY DEF Multi!Calls, Multi!New, Multi!Kept
    <3>6. \A s \in DOMAIN outcome : outcome[s] = "ok"  BY <3>3, <3>4, <3>5 DEF failed
    <3>7. QED  BY <2>3, <3>2, <3>6, TickMatches
  <2>7. absences'.faults \in Nat  BY <2>4, <2>5 DEF MatchInv
  <2>8. QED  BY <2>6, <2>7 DEF MatchInv
<1>2. CASE UNCHANGED Multi!vars
  BY <1>2 DEF Multi!vars, MatchInv, Matched, Multi!Kept
<1>3. QED  BY <1>1, <1>2

LEMMA MatchInit == ASSUME SeriesAssumed, Multi!Init PROVE MatchInv
<1>1. /\ cleanup \in BOOLEAN /\ series = [s \in SeriesNames |-> Multi!Gone]
      /\ widgets = [s \in SeriesNames |-> Multi!Absent]
      /\ absences.faults = 0 /\ absences.away = [s \in SeriesNames |-> MissGrace]
  BY DEF Multi!Init
<1>2. Multi!Gone \in Followed /\ ~Multi!Gone.kept  BY DEF Multi!Gone, Followed
<1>3. Multi!Kept = {}  BY <1>1, <1>2 DEF Multi!Kept
<1>4. Cardinality(Multi!Kept) =< MaxSeries  BY <1>3, FS_EmptySet DEF SeriesAssumed
<1>5. Matched  BY <1>1, <1>2, <1>4 DEF Matched, SeriesAssumed
<1>6. QED  BY <1>1, <1>5 DEF MatchInv

(* While no call fails, the series kept are those read within the grace,    *)
(* never more than the cap, each with a widget of its value, and no other   *)
(* widget is left for CleanupMissing to delete (applyMulti).                *)
THEOREM SeriesFollowed ==
  ASSUME SeriesAssumed
  PROVE  Multi!Init /\ [][Multi!Next]_(Multi!vars) => []Multi!SeriesMatch
<1>1. Multi!Init => MatchInv  BY MatchInit
<1>2. MatchInv /\ [Multi!Next]_(Multi!vars) => MatchInv'  BY MatchStep
<1>3. MatchInv => Multi!SeriesMatch
  <2>1. ASSUME Matched, NEW s \in SeriesNames
        PROVE  /\ series[s].kept <=> absences.away[s] < MissGrace
               /\ s \in Multi!Kept => widgets[s] = series[s].last
               /\ cleanup => (widgets[s] # Multi!Absent => series[s].kept)
    <3>1. MissGrace \in Nat /\ series[s].kept \in BOOLEAN  BY <2>1 DEF Matched, SeriesAssumed, Followed
    <3>2. QED  BY <2>1, <3>1 DEF Matched, Multi!Kept
  <2>2. ASSUME Matched  PROVE Multi!Cardinality(Multi!Kept) =< MaxSeries
    BY <2>2, SameCard DEF Matched
  <2>3. Multi!Kept \subseteq SeriesNames  BY DEF Multi!Kept
  <2>4. QED  BY <2>1, <2>2, <2>3 DEF MatchInv, Multi!SeriesMatch
<1>4. QED  BY <1>1, <1>2, <1>3, PTL
=============================================================================
