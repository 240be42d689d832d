----------------------------- MODULE StateStore ------------------------------
(* The relay's state store, in Postgres and in memory: rows that are stamped*)
(* with their expiry when they are set, filtered by it when they are read   *)
(* and removed by a sweep some time later. The two differ at the instant of *)
(* the expiry. A group is a provider, a tenant's digest and a key; the      *)
(* relay's clock and the database's are taken to agree.                     *)
EXTENDS Integers

CONSTANTS
  Groups, SubKeys, Values,
  TTLs,      \* of the rows set, 0 for a row that never expires
  Inclusive, \* a row can be read at the instant of its expiry (in memory)
  LastTime   \* bound on the clock

VARIABLES
  entries,  \* the table
  now,
  last      \* the last call: what it asked for and what it was told

vars == <<entries, now, last>>

Keys == Groups \X SubKeys
Forever == -1
Call(op, K, found) == [op |-> op, keys |-> K, found |-> found]
NoEntry == [there |-> FALSE, value |-> 0, expires |-> 0]

Init ==
  /\ entries = [k \in Keys |-> NoEntry]
  /\ now = 0
  /\ last = Call("none", {}, {})

\* Mutant of Expired: a row without a TTL is due at once.
ExpiredAlways(e) == e.there /\ (IF Inclusive THEN now > e.expires ELSE now >= e.expires)

Expired(e) == e.there /\ e.expires # Forever /\ (IF Inclusive THEN now > e.expires ELSE now >= e.expires)
Live(e) == e.there /\ ~Expired(e)

ExpiresAt(ttl) == IF ttl = 0 THEN Forever ELSE now + ttl

\* An upsert replaces the expiry with the value.
Set(k, v, ttl) ==
  /\ entries' = [entries EXCEPT ![k] = [there |-> TRUE, value |-> v, expires |-> ExpiresAt(ttl)]]
  /\ last' = Call("set", {k}, {<<k, v>>})
  /\ UNCHANGED now

Found(K) == {<<k, entries[k].value>> : k \in {j \in K : Live(entries[j])}}

\* Exists is told from Get by what its callers do with it.
Get(k) == last' = Call("read", {k}, Found({k})) /\ UNCHANGED <<entries, now>>

Of(g) == {g} \X SubKeys
GetGroup(g) == last' = Call("read", Of(g), Found(Of(g))) /\ UNCHANGED <<entries, now>>

Without(K) == [k \in Keys |-> IF k \in K THEN NoEntry ELSE entries[k]]
Remove(K) ==
  /\ entries' = Without(K)
  /\ last' = Call("delete", K, {})
  /\ UNCHANGED now
Delete(k) == Remove({k})
DeleteGroup(g) == Remove(Of(g))

\* Mutant of Due: whatever has an expiry.
DueAll == {k \in Keys : entries[k].expires # Forever}

Due == {k \in Keys : Expired(entries[k])}

\* The sweep.
Cleanup ==
  /\ entries' = Without(Due)
  /\ UNCHANGED <<now, last>>

Tick == now < LastTime /\ now' = now + 1 /\ UNCHANGED <<entries, last>>

Next ==
  \/ \E k \in Keys : \/ \E v \in Values, ttl \in TTLs : Set(k, v, ttl)
                     \/ Get(k) \/ Delete(k)
  \/ \E g \in Groups : GetGroup(g) \/ DeleteGroup(g)
  \/ Cleanup
  \/ Tick

Spec == Init /\ [][Next]_vars

(* ------------------------------ properties ------------------------------ *)

(* What the store promises, with a row for every entry that can be read and *)
(* its last instant counted in where it is.                                 *)
Rows == [k \in Keys |->
  IF ~Live(entries[k]) THEN [there |-> FALSE, value |-> 0, until |-> 0]
  ELSE [there |-> TRUE, value |-> entries[k].value,
        until |-> IF entries[k].expires = Forever THEN Forever
                  ELSE entries[k].expires + (IF Inclusive THEN 1 ELSE 0)]]
Promise == INSTANCE RowStore WITH rows <- Rows

(* Rows that expired without being removed are never read, and the sweep    *)
(* removes no other: it cannot be told from outside when it runs (Cleanup   *)
(* against Get, GetGroup and Exists, in both stores).                       *)
KeepsPromise == Promise!Init /\ [][Promise!Next]_<<Rows, now, last>>

=============================================================================
