------------------------------ MODULE RowStore -------------------------------
(* What the relay's handlers are promised of their store (state.Store): a   *)
(* row can be read from the moment it is set until it is deleted, replaced  *)
(* or its TTL is over, and then it is gone.                                 *)
EXTENDS Integers

CONSTANTS Groups, SubKeys, Values, TTLs

VARIABLES
  rows,
  now,
  last   \* the last call: what it asked for and what it was told

vars == <<rows, now, last>>

Keys == Groups \X SubKeys
Forever == -1
NoRow == [there |-> FALSE, value |-> 0, until |-> 0]
Row(v, until) == [there |-> TRUE, value |-> v, until |-> until]
Call(op, K, found) == [op |-> op, keys |-> K, found |-> found]

Init ==
  /\ rows = [k \in Keys |-> NoRow]
  /\ now = 0
  /\ last = Call("none", {}, {})

\* A row lasts its TTL; whether it can be read at that very instant is open.
Set(k, v, ttl) ==
  /\ \E instant \in {0, 1} :
       rows' = [rows EXCEPT ![k] = Row(v, IF ttl = 0 THEN Forever ELSE now + ttl + instant)]
  /\ last' = Call("set", {k}, {<<k, v>>})
  /\ UNCHANGED now

Found(K) == {<<k, rows[k].value>> : k \in {j \in K : rows[j].there}}
Read(K) == last' = Call("read", K, Found(K)) /\ UNCHANGED <<rows, now>>

Delete(K) ==
  /\ rows' = [k \in Keys |-> IF k \in K THEN NoRow ELSE rows[k]]
  /\ last' = Call("delete", K, {})
  /\ UNCHANGED now

Tick ==
  /\ now' = now + 1
  /\ rows' = [k \in Keys |-> IF rows[k].until # Forever /\ rows[k].until =< now' THEN NoRow ELSE rows[k]]
  /\ UNCHANGED last

Of(g) == {g} \X SubKeys

Next ==
  \/ \E k \in Keys : \/ \E v \in Values, ttl \in TTLs : Set(k, v, ttl)
                     \/ Read({k}) \/ Delete({k})
  \/ \E g \in Groups : Read(Of(g)) \/ Delete(Of(g))
  \/ Tick

Spec == Init /\ [][Next]_vars
=============================================================================
