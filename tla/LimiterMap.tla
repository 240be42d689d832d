----------------------------- MODULE LimiterMap ------------------------------
(* The relay's rate limiters (ratelimit): a token bucket for every tenant   *)
(* and route, and for every address, in a map that evicts what was used     *)
(* least recently once it is full (lrumap) and is swept of what was not     *)
(* used for a while. Requests look up their bucket under the read lock,     *)
(* again under the write lock when it is missing, and spend from it         *)
(* outside of both.                                                         *)
EXTENDS Integers, SequencesExt

CONSTANTS
  Requests,   \* threads
  Keys,
  MaxSize,    \* entries (maxEntries)
  Sample,     \* how many of them an eviction looks at (evictionSampleSize)
  Burst, Rate,\* of a bucket
  MaxAge,     \* how long a bucket may go unused (SweepStale)
  LastTime, MaxBuckets  \* bounds: the clock, buckets ever made

VARIABLES
  requests, \* where each is, for which key, with which bucket
  entries,  \* by key: the bucket and its last access, or none
  buckets,  \* every bucket made, its tokens and when they were counted
  now,
  past      \* requests admitted by key; keys that were evicted

vars == <<requests, entries, buckets, now, past>>

None == 0
NoEntry == [bucket |-> None, access |-> 0]
Idle == [at |-> "idle", key |-> None, bucket |-> None]

Init ==
  /\ requests = [t \in Requests |-> Idle]
  /\ entries = [k \in Keys |-> NoEntry]
  /\ buckets = <<>>
  /\ now = 0
  /\ past = [admitted |-> [k \in Keys |-> 0], evicted |-> {}]

Present == {k \in Keys : entries[k].bucket # None}

Hold(t, k, b) == requests' = [requests EXCEPT ![t] = [at |-> "allow", key |-> k, bucket |-> b]]

\* Found: the access is noted under the lock the entry was found under.
Touch(t, k) ==
  /\ k \in Present
  /\ entries' = [entries EXCEPT ![k].access = now]
  /\ Hold(t, k, entries[k].bucket)
  /\ UNCHANGED <<buckets, past>>

\* GetOrCreate under the read lock.
Lookup(t, k) ==
  /\ requests[t].at = "idle"
  /\ \/ Touch(t, k)
     \/ /\ k \notin Present
        /\ requests' = [requests EXCEPT ![t] = [at |-> "create", key |-> k, bucket |-> None]]
        /\ UNCHANGED <<entries, buckets, past>>
  /\ UNCHANGED now

\* What goes is the oldest of a sample, when there is no room.
Evictable ==
  IF Cardinality(Present) < MaxSize THEN {{}}
  ELSE {{k} : k \in UNION {{k \in S : \A j \in S : entries[k].access =< entries[j].access} :
                             S \in kSubset(Min({Sample, Cardinality(Present)}), Present)}}

\* Mutant of Missing: what was missing under the read lock is still missing.
MissingStill(k) == TRUE

Missing(k) == k \notin Present

Insert(t, k) ==
  /\ Missing(k) /\ Len(buckets) < MaxBuckets
  /\ \E gone \in Evictable :
       LET b == Len(buckets) + 1 IN
       /\ entries' = [j \in Keys |-> IF j = k THEN [bucket |-> b, access |-> now]
                                     ELSE IF j \in gone THEN NoEntry ELSE entries[j]]
       /\ buckets' = Append(buckets, [tokens |-> Burst, counted |-> now])
       /\ past' = [past EXCEPT !.evicted = @ \union gone]
       /\ Hold(t, k, b)

\* GetOrCreate under the write lock, with the second look.
GetOrCreate(t) ==
  /\ requests[t].at = "create"
  /\ LET k == requests[t].key IN Insert(t, k) \/ (~Missing(k) /\ Touch(t, k))
  /\ UNCHANGED now

\* The bucket is refilled for the time gone by and spent from, if it can be.
Tokens(b) == Min({Burst, b.tokens + Rate * (now - b.counted)})
Allow(t) ==
  LET b == requests[t].bucket
      tokens == Tokens(buckets[b])
      spent == IF tokens >= 1 THEN 1 ELSE 0
  IN
  /\ requests[t].at = "allow"
  /\ buckets' = [buckets EXCEPT ![b] = [tokens |-> tokens - spent, counted |-> now]]
  /\ past' = [past EXCEPT !.admitted[requests[t].key] = @ + spent]
  /\ requests' = [requests EXCEPT ![t] = Idle]
  /\ UNCHANGED <<entries, now>>

\* Mutant of Stale: as many units of age, one too few.
StaleEarly(k) == entries[k].access =< now - (MaxAge - 1)

Stale(k) == entries[k].access < now - MaxAge

Sweep ==
  /\ entries' = [k \in Keys |-> IF k \in Present /\ Stale(k) THEN NoEntry ELSE entries[k]]
  /\ UNCHANGED <<requests, buckets, now, past>>

\* A request is over well within a unit of time.
Tick ==
  /\ now < LastTime /\ \A t \in Requests : requests[t].at = "idle"
  /\ now' = now + 1
  /\ UNCHANGED <<requests, entries, buckets, past>>

Next ==
  \/ \E t \in Requests : (\E k \in Keys : Lookup(t, k)) \/ GetOrCreate(t) \/ Allow(t)
  \/ Sweep \/ Tick

(* ------------------------------ properties ------------------------------ *)

(* A key is never let through more than its burst and its rate allow, how-  *)
(* ever its first requests race and whatever a sweep forgets, as long as    *)
(* its bucket was not evicted to make room (GetOrCreate, SweepStale).       *)
AdmittedWithinRate ==
  \A k \in Keys \ past.evicted : past.admitted[k] =< Burst + Rate * now

(* The map never grows past its size, and whoever makes room for itself is  *)
(* in it.                                                                   *)
MapIsBounded ==
  /\ Cardinality(Present) =< MaxSize
  /\ \A t \in Requests : requests[t].at = "allow" /\ requests[t].key \notin past.evicted =>
       entries[requests[t].key].bucket = requests[t].bucket
=============================================================================
