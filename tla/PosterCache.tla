----------------------------- MODULE PosterCache -----------------------------
(* The relay's artwork hashes (shared/poster/poster.go): webhooks share one *)
(* cache and one fetch of a URL, wait for it a moment and go on without,    *)
(* fetches queue for a few slots, and what failed is remembered for a while *)
(* unless it only ran out of time. Length and reachability of a URL and the *)
(* decoding of an image are left out, what a fetch comes to is its choice.  *)
EXTENDS Integers, SequencesExt

CONSTANTS
  Callers, URLs,
  CacheSize,    \* URLs held (cacheSize)
  Slots,        \* fetches at once (fetchConcurrency)
  NegativeTTL,  \* how long a failure is remembered (negativeTTL)
  LastTime, MaxEntries  \* bounds: the clock, entries ever made

VARIABLES
  callers,  \* whom each waits for; what its own fill came to
  made,     \* every entry made
  order,    \* those in the cache, the one used last first
  now,
  past      \* by URL, when the cached one last failed; what went wrong

vars == <<callers, made, order, now, past>>

Zero == 0      \* a positive entry's expires
Never == -1
NoHash == "none"
Idle == [at |-> "idle", entry |-> 0, owed |-> NoHash]

Init ==
  /\ callers = [c \in Callers |-> Idle]
  /\ made = <<>> /\ order = <<>>
  /\ now = 1
  /\ past = [failed |-> [u \in URLs |-> Never], blanked |-> FALSE, hammered |-> FALSE, robbed |-> FALSE]

Entry(u) == [url |-> u, runs |-> "queued", hash |-> NoHash, expires |-> Zero]
Pending(e) == made[e].runs # "no"
Cached(u) == {e \in ToSet(order) : made[e].url = u}
Recent(u) == past.failed[u] # Never /\ now - past.failed[u] < NegativeTTL

Tick == now < LastTime /\ now' = now + 1 /\ UNCHANGED <<callers, made, order, past>>

(* ------------------------------ the callers ----------------------------- *)

Wait(c, e) == callers' = [callers EXCEPT ![c] = [at |-> "waiting", entry |-> e, owed |-> NoHash]]
ToFront(e) == \E i \in DOMAIN order : order[i] = e /\ order' = <<e>> \o RemoveAt(order, i)

\* The hit that needs no fetch is answered at once.
Hit(c, u, e) ==
  /\ ToFront(e)
  /\ IF Pending(e) THEN Wait(c, e) /\ UNCHANGED <<made, past>>
     ELSE IF made[e].expires = Zero \/ now < made[e].expires
     THEN /\ past' = [past EXCEPT !.blanked = @ \/ (made[e].hash = NoHash /\ ~Recent(u))]
          /\ UNCHANGED <<callers, made>>
     ELSE /\ made' = [made EXCEPT ![e].hash = NoHash, ![e].runs = "queued"]
          /\ past' = [past EXCEPT !.hammered = @ \/ Recent(u)]
          /\ Wait(c, e)

\* A miss makes an entry, and room for it; the fill of one evicted goes on.
Miss(c, u) ==
  LET e == Len(made) + 1
      kept == SubSeq(<<e>> \o order, 1, Min({CacheSize, Len(order) + 1}))
      gone == {made[x].url : x \in ToSet(order) \ ToSet(kept)}
  IN
  /\ e =< MaxEntries
  /\ made' = Append(made, Entry(u))
  /\ order' = kept
  /\ past' = [past EXCEPT !.failed = [v \in URLs |-> IF v \in gone THEN Never ELSE @[v]],
                          !.hammered = @ \/ Recent(u)]
  /\ Wait(c, e)

Lookup(c, u) ==
  /\ callers[c] = Idle
  /\ (Cached(u) = {} /\ Miss(c, u)) \/ \E e \in Cached(u) : Hit(c, u, e)
  /\ UNCHANGED now

\* Mutant of HashOf: the answer is read from the cache.
HashOfCached(c) ==
  IF callers[c].entry \in ToSet(order) THEN made[callers[c].entry].hash ELSE NoHash

HashOf(c) == made[callers[c].entry].hash

\* The fill it waited for is over; by now there may be another.
Thumbhash(c) ==
  /\ callers[c].at = "told"
  /\ past' = [past EXCEPT !.robbed = @ \/ (callers[c].owed # NoHash /\ HashOf(c) = NoHash)]
  /\ callers' = [callers EXCEPT ![c] = Idle]
  /\ UNCHANGED <<made, order, now>>

\* The inline wait is over, or the webhook is.
GoesOn(c) ==
  /\ callers[c].at = "waiting"
  /\ callers' = [callers EXCEPT ![c] = Idle]
  /\ UNCHANGED <<made, order, now, past>>

(* -------------------------------- the fills ----------------------------- *)

Fetching == {e \in DOMAIN made : made[e].runs = "fetching"}

TakeSlot(e) ==
  /\ made[e].runs = "queued" /\ Cardinality(Fetching) < Slots
  /\ made' = [made EXCEPT ![e].runs = "fetching"]
  /\ UNCHANGED <<callers, order, now, past>>

\* Mutant of Expires: running out of time counts like any failure.
ExpiresLate(result) == IF result = "ok" THEN Zero ELSE now + NegativeTTL

Expires(result) ==
  CASE result = "ok" -> Zero [] result = "timeout" -> now [] OTHER -> now + NegativeTTL

Settle(e, result) ==
  LET hash == IF result = "ok" THEN made[e].url ELSE NoHash IN
  /\ made' = [made EXCEPT ![e].hash = hash, ![e].runs = "no", ![e].expires = Expires(result)]
  /\ callers' = [c \in Callers |-> IF callers[c].at = "waiting" /\ callers[c].entry = e
                                   THEN [callers[c] EXCEPT !.at = "told", !.owed = hash] ELSE callers[c]]
  /\ past' = [past EXCEPT !.failed[made[e].url] =
                IF e \in ToSet(order) /\ result \in {"refused", "error"} THEN now ELSE @]
  /\ UNCHANGED <<order, now>>

\* No slot came free in time.
QueueOut(e) == made[e].runs = "queued" /\ Cardinality(Fetching) = Slots /\ Settle(e, "timeout")

Fetch(e) ==
  made[e].runs = "fetching" /\ \E result \in {"ok", "timeout", "refused", "error"} : Settle(e, result)

Next ==
  \/ Tick
  \/ \E c \in Callers : (\E u \in URLs : Lookup(c, u)) \/ Thumbhash(c) \/ GoesOn(c)
  \/ \E e \in DOMAIN made : TakeSlot(e) \/ QueueOut(e) \/ Fetch(e)

(* ------------------------------ properties ------------------------------ *)

(* Only what failed on its own merits is remembered as a failure, and for   *)
(* as long as it is remembered it is not fetched again: a burst that ran    *)
(* out of time blanks nothing, and a broken URL is not tried by every web-  *)
(* hook (startFill, negativeTTL).                                           *)
FailuresAreRemembered == ~past.blanked /\ ~past.hammered

(* A webhook that waited out a fetch that succeeded has its hash, also when *)
(* the entry has been evicted by then (evict: "still closes its channel for *)
(* whoever is waiting"); and one URL is in the cache once.                  *)
PosterIsServed ==
  /\ ~past.robbed
  /\ Len(order) =< CacheSize /\ \A u \in URLs : Cardinality(Cached(u)) =< 1
=============================================================================
