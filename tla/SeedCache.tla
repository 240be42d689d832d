----------------------------- MODULE SeedCache ------------------------------
(* The shape cache of the CI loop (shared/cipoll/cache.go): what the last   *)
(* run of a workflow on a ref left behind for the next one to be seeded     *)
(* from, the merge of its measurements with those stored, and the eviction. *)
EXTENDS Naturals, SequencesExt

CONSTANTS
  Refs,      \* refs of the one workflow of the one repository
  Shapes,    \* sets of group labels a run may reveal
  Capacity,  \* entries kept (1024)
  MaxRuns    \* bound on the runs that finish

VARIABLES
  entries,  \* by ref: nothing, or what the last run filed
  order,    \* refs, the oldest entry first
  past      \* runs; by ref, the runs that measured each group, who succeeded

vars == <<entries, order, past>>

NoEntry == [there |-> FALSE, shape |-> {}, weights |-> {}, success |-> FALSE, run |-> 0]

Init ==
  /\ entries = [r \in Refs |-> NoEntry]
  /\ order = <<>>
  /\ past = [runs |-> 0, measured |-> [r \in Refs |-> {}], won |-> [r \in Refs |-> FALSE]]

\* A weight is who measured which group; a share of the run has nobody.
Nobody == 0
Weight(g, run) == [group |-> g, by |-> run]
GroupsOf(weights) == {w.group : w \in weights}

\* Fresh measurements win; what is missing comes from those stored.
Without(weights, groups) == {w \in weights : w.group \notin groups}
MergeWeights(fresh, prev) == fresh \union Without(prev, GroupsOf(fresh))

\* What the next run is given: what was not measured takes a share of the run.
SeedWeights(e) ==
  e.weights \union {Weight(g, Nobody) : g \in e.shape \ GroupsOf(e.weights)}

\* Mutant of Filed: the shares of the run are stored with the measurements.
FiledFilled(e) == [e EXCEPT !.weights = SeedWeights(e)]

Filed(e) == e

\* A run that failed never takes the place of one that succeeded.
Kept(prev, e) == prev.there /\ prev.success /\ ~e.success

\* Over capacity the oldest goes.
Evicted(keys) == IF Len(keys) > Capacity THEN {Head(keys)} ELSE {}

Put(r, shape, timed, success) ==
  LET prev == entries[r]
      run == past.runs + 1
      fresh == {Weight(g, run) : g \in timed}
      e == [there |-> TRUE, shape |-> shape, success |-> success, run |-> run,
            weights |-> IF prev.there /\ prev.shape = shape THEN MergeWeights(fresh, prev.weights)
                        ELSE fresh]
      keys == Append(SelectSeq(order, LAMBDA k : k # r), r)
      gone == Evicted(keys)
  IN
  /\ past.runs < MaxRuns
  /\ timed \subseteq shape
  /\ IF Kept(prev, e)
     THEN /\ past' = [past EXCEPT !.runs = run]
          /\ UNCHANGED <<entries, order>>
     ELSE /\ entries' = [k \in Refs |-> IF k \in gone THEN NoEntry
                                        ELSE IF k = r THEN Filed(e) ELSE entries[k]]
          /\ order' = IF gone = {} THEN keys ELSE Tail(keys)
          /\ past' = [runs |-> run,
                      measured |-> [k \in Refs |->
                        IF k \in gone THEN {}
                        ELSE IF k = r
                        THEN fresh \union (IF prev.there /\ prev.shape = shape THEN past.measured[k] ELSE {})
                        ELSE past.measured[k]],
                      won |-> [k \in Refs |-> k \notin gone /\ (past.won[k] \/ (k = r /\ success))]]

\* The entry of the run's own ref, else the newest that succeeded, else the newest.
Get(r) ==
  LET newest(test(_)) ==
        LET found == {i \in DOMAIN order : test(entries[order[i]])} IN
        IF found = {} THEN NoEntry ELSE entries[order[Max(found)]]
      succeeded == newest(LAMBDA e : e.success)
  IN IF entries[r].there THEN entries[r]
     ELSE IF succeeded.there THEN succeeded ELSE newest(LAMBDA e : TRUE)

Next ==
  \E r \in Refs, shape \in Shapes, success \in BOOLEAN : \E timed \in SUBSET shape :
    Put(r, shape, timed, success)

(* ------------------------------ properties ------------------------------ *)

(* What is stored was measured, by the newest run of that ref and shape     *)
(* that could: no share of a run's length is ever merged as if it were, and *)
(* a run that could not time a group does not lose what is known of it.     *)
(* Once a run has succeeded the entry is one that did. The order lists each *)
(* entry once, and no more than the capacity (put, mergeWeights).           *)
SeedsAreMeasured ==
  /\ \A r \in Refs :
       /\ entries[r].weights = {w \in past.measured[r] :
            \A v \in past.measured[r] : v.group = w.group => v.by =< w.by}
       /\ past.won[r] => entries[r].success
  /\ ToSet(order) = {r \in Refs : entries[r].there}
  /\ IsInjective(order) /\ Len(order) =< Capacity

(* A run is seeded while anything of its workflow is known, from a success  *)
(* when there is one to choose, and only a group nobody timed is given a    *)
(* share of the run (get, seedWeights).                                     *)
SeedIsBest ==
  \A r \in Refs : order # <<>> =>
    LET seed == Get(r) IN
    /\ seed.there /\ GroupsOf(SeedWeights(seed)) = seed.shape
    /\ ~entries[r].there /\ ~seed.success => \A k \in Refs : ~past.won[k]
    /\ \A w \in SeedWeights(seed) : w.by = Nobody => w.group \notin GroupsOf(seed.weights)
=============================================================================
