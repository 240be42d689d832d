---------------------------- MODULE EnderProofs ----------------------------
(* Theorems about the ends of cards: the Ender, for any keys and any number *)
(* of ends (Ender); the card of a playback, for any positions and number of *)
(* webhooks (JellyfinPlayback); the card of a repository, for any handlers, *)
(* runs, jobs and number of webhooks (GiteaRuns).                           *)
EXTENDS Ender, Sequences, FiniteSetTheorems, SequenceTheorems, TLAPS

CONSTANTS
  Positions, MaxPlays,            \* JellyfinPlayback
  Workers, Runs, Jobs, MaxRuns    \* GiteaRuns

VARIABLES
  playback, listed, debounced, ends, cardState, player,   \* JellyfinPlayback
  workers, group, armed, repoCard, heard                  \* GiteaRuns

Jellyfin == INSTANCE JellyfinPlayback WITH
  MaxWebhooks <- MaxPlays, handler <- playback, store <- listed, memory <- debounced, timers <- ends,
  server <- cardState, past <- player
Gitea == INSTANCE GiteaRuns WITH
  Handlers <- Workers, MaxWebhooks <- MaxRuns,
  handler <- workers, store <- group, timers <- armed, server <- repoCard, past <- heard

---------------------------------------------------------------------------
(* The Ender.                                                              *)

(* The end a key holds is the key's own and not over; ends not scheduled   *)
(* yet are unused; nobody calls once the shutdown began; FlushAll leaves   *)
(* no key held, and from its wait on nothing is armed or running.          *)
Bookkeeping ==
  /\ \A k \in Keys : timers[k] # 0 => key[timers[k]] = k /\ timers[k] \in Live
  /\ \A g \in Gens : pc[g] = "unused" <=> g > nextGen
  /\ Down => \A k \in Keys : tracked[k] = NoCall
  /\ flush \notin {"off", "cancelled"} => \A k \in Keys : timers[k] = 0

Flushing ==
  /\ flush = "sending" \/ flushed # {} => Live = {}
  /\ flushed # {} => flush \in {"sending", "done", "exited"}
  /\ \A k \in flushed : act[k] = "ended"

IInv ==
  TypeOK /\ Bookkeeping /\ Flushing /\ WgCounts /\ ArmedIsCurrent /\ QuietAfterExit

(* The ends that count are finitely many.                                  *)
LEMMA LiveFinite == IsFiniteSet(Live) /\ Cardinality(Live) \in Nat
<1>1. IsFiniteSet(Gens)  BY FS_Interval, MaxGensAssumption DEF Gens
<1>2. Live \in SUBSET Gens  BY DEF Live
<1>3. QED  BY <1>1, <1>2, FS_Subset, FS_CardinalityType

(* Stopping the timers of ks takes exactly the stopped ends out of the     *)
(* count and leaves nothing of ks armed.                                   *)
LEMMA Stopping ==
  ASSUME IInv, NEW ks \in SUBSET Keys
  PROVE  /\ Stopped(ks) \in [Gens -> PCs]
         /\ \A g \in Gens : Stopped(ks)[g] \in Armed =>
              pc[g] \in Armed /\ key[g] \notin ks
         /\ \A g \in Gens : Stopped(ks)[g] = "unused" <=> pc[g] = "unused"
         /\ {g \in Gens : Stopped(ks)[g] \in Phase1 \union Phase2} = Live \ Stoppable(ks)
         /\ \A g \in Stoppable(ks) : key[g] \in ks
         /\ Cardinality(Stoppable(ks)) \in Nat
         /\ Cardinality(Live \ Stoppable(ks)) = Cardinality(Live) - Cardinality(Stoppable(ks))
         /\ Cardinality(Live \ Stoppable(ks)) \in Nat
<1> USE DEF IInv
<1>1. Stoppable(ks) \subseteq Live
  BY DEF Stoppable, Live, Armed, Phase1, Phase2
<1>2. Cardinality(Live \ Stoppable(ks)) = Cardinality(Live) - Cardinality(Stoppable(ks))
  <2>1. Live \intersect Stoppable(ks) = Stoppable(ks)  BY <1>1
  <2>2. QED  BY <2>1, LiveFinite, FS_Difference
<1>3. Cardinality(Stoppable(ks)) \in Nat /\ Cardinality(Live \ Stoppable(ks)) \in Nat
  BY <1>1, LiveFinite, FS_Subset, FS_CardinalityType
<1>4. \A g \in Stoppable(ks) : key[g] \in ks
  BY DEF Stoppable, Bookkeeping, Gens
<1>5. \A g \in Gens : Stopped(ks)[g] \in Armed => pc[g] \in Armed /\ key[g] \notin ks
  BY DEF Stopped, Stoppable, ArmedIsCurrent, Armed, TypeOK
<1>6. \A g \in Gens : Stopped(ks)[g] = "unused" <=> pc[g] = "unused"
  BY DEF Stopped, Stoppable, Armed
<1>7. {g \in Gens : Stopped(ks)[g] \in Phase1 \union Phase2} = Live \ Stoppable(ks)
  BY <1>1 DEF Stopped, Live, Phase1, Phase2
<1>8. Stopped(ks) \in [Gens -> PCs]
  BY DEF Stopped, PCs, TypeOK
<1>9. QED  BY <1>2, <1>3, <1>4, <1>5, <1>6, <1>7, <1>8

(* The initial state satisfies the invariant.                              *)
LEMMA Initially == Init => IInv
<1> SUFFICES ASSUME Init PROVE IInv  OBVIOUS
<1>1. TypeOK
  <2>1. (CHOOSE k \in Keys : TRUE) \in Keys  BY KeysAssumption
  <2>2. 0 \in 0..0 /\ 0 \in 0..MaxGens /\ 0 \in Nat /\ NoCall \in NoCall..0
    BY MaxGensAssumption DEF NoCall
  <2>3. "unused" \in PCs  BY DEF PCs
  <2>4. key \in [Gens -> Keys]  BY <2>1 DEF Init
  <2>5. tracked \in [Keys -> NoCall..nextGen]  BY <2>2 DEF Init
  <2>6. row \in [Keys -> BOOLEAN]  BY DEF Init
  <2>7. QED  BY <2>2, <2>3, <2>4, <2>5, <2>6 DEF Init, TypeOK
<1>2. Live = {}  BY DEF Init, Live, Phase1, Phase2
<1>3. WgCounts  BY <1>2, FS_EmptySet DEF Init, WgCounts
<1>4. Bookkeeping  BY DEF Init, Bookkeeping, Gens, Down
<1>5. Flushing /\ QuietAfterExit  BY <1>2 DEF Init, Flushing, QuietAfterExit
<1>6. ArmedIsCurrent  BY DEF Init, ArmedIsCurrent, Armed
<1>7. QED  BY <1>1, <1>3, <1>4, <1>5, <1>6 DEF IInv

(* scheduleEnd keeps the invariant: the ends it stops leave the count, the *)
(* one it arms joins it and holds the key.                                 *)
LEMMA ArmKeeps ==
  ASSUME IInv, ~Down, NEW k \in Keys, Arm(k), UNCHANGED <<row, act, flushVars>>,
         tracked' = tracked \/ tracked' = [tracked EXCEPT ![k] = NoCall]
  PROVE  IInv'
<1> USE DEF IInv
<1> DEFINE g == nextGen + 1
           S == Stoppable({k})
<1>1. /\ nextGen < MaxGens /\ nextGen' = g
      /\ timers' = [timers EXCEPT ![k] = g] /\ key' = [key EXCEPT ![g] = k]
      /\ pc' = [Stopped({k}) EXCEPT ![g] = "p1armed"]
      /\ wg' = wg - Cardinality(S) + 1
  BY DEF Arm
<1>2. g \in Gens /\ pc[g] = "unused" /\ g \in 0..g /\ g \in 0..MaxGens /\ nextGen \in Nat
  BY <1>1, MaxGensAssumption DEF Gens, TypeOK, Bookkeeping
<1>3. g \notin Live /\ g \notin S
  BY <1>2 DEF Live, Stoppable, Armed, Phase1, Phase2
<1>4. {k} \in SUBSET Keys  OBVIOUS
<1>g. /\ nextGen' = nextGen + 1 /\ g = nextGen + 1 /\ g \in Nat
      /\ 0..nextGen \subseteq 0..nextGen' /\ 1..nextGen \subseteq 1..nextGen'
      /\ NoCall..nextGen \subseteq NoCall..nextGen' /\ NoCall \in NoCall..nextGen'
  BY <1>1, <1>2 DEF NoCall
<1> HIDE DEF g, S
<1>5. Live' = (Live \ S) \union {g}
  <2>1. \A h \in Gens : pc'[h] = IF h = g THEN "p1armed" ELSE Stopped({k})[h]
    BY <1>1, <1>4, Stopping
  <2>2. {h \in Gens : Stopped({k})[h] \in Phase1 \union Phase2} = Live \ S
    BY <1>4, Stopping DEF S
  <2>3. QED  BY <1>2, <2>1, <2>2 DEF Live, Phase1, Phase2
<1>6. Cardinality(Live') = Cardinality(Live) - Cardinality(S) + 1
  <2>1. IsFiniteSet(Live \ S)  BY LiveFinite, FS_Difference
  <2>2. Cardinality(Live') = Cardinality(Live \ S) + 1
    BY <1>3, <1>5, <2>1, FS_AddElement
  <2>3. QED  BY <1>4, <2>2, Stopping DEF S
<1>7. wg' = Cardinality(Live') /\ wg' \in Nat
  <2>1. Cardinality(Live) - Cardinality(S) \in Nat
    <3>1. Cardinality(Live \ S) = Cardinality(Live) - Cardinality(S)
      BY <1>4, Stopping DEF S
    <3>2. Cardinality(Live \ S) \in Nat  BY <1>4, Stopping DEF S
    <3>3. QED  BY <3>1, <3>2
  <2>2. QED  BY <1>1, <1>6, <2>1, LiveFinite DEF WgCounts
<1>8. TypeOK'
  <2>1. timers' \in [Keys -> 0..nextGen'] /\ nextGen' \in 0..MaxGens
    BY <1>1, <1>2, <1>g DEF TypeOK
  <2>2. key' \in [Gens -> Keys]  BY <1>1, <1>2 DEF TypeOK
  <2>3. pc' \in [Gens -> PCs]
    <3>1. "p1armed" \in PCs  BY DEF PCs, Phase1
    <3>2. QED  BY <1>1, <1>4, <3>1, Stopping
  <2>4. tracked' \in [Keys -> NoCall..nextGen']
    BY <1>g DEF TypeOK
  <2>5. pending' \subseteq 1..nextGen'
    BY <1>g DEF TypeOK, flushVars
  <2>6. row' \in [Keys -> BOOLEAN]  BY DEF TypeOK
  <2>7. QED  BY <1>7, <2>1, <2>2, <2>3, <2>4, <2>5, <2>6 DEF TypeOK, flushVars
<1>9. Bookkeeping'
  <2>1. ASSUME NEW m \in Keys, timers'[m] # 0
        PROVE  key'[timers'[m]] = m /\ timers'[m] \in Live'
    <3>1. CASE m = k  BY <1>1, <1>2, <1>5, <3>1 DEF TypeOK
    <3>2. CASE m # k
      <4>1. timers'[m] = timers[m] /\ timers[m] \in Live /\ key[timers[m]] = m
        BY <1>1, <2>1, <3>2 DEF TypeOK, Bookkeeping
      <4>2. timers[m] # g /\ key'[timers[m]] = m
        BY <1>1, <1>3, <4>1 DEF TypeOK, Live
      <4>3. timers[m] \notin S  BY <1>4, <3>2, <4>1, Stopping DEF S
      <4>4. QED  BY <1>5, <4>1, <4>2, <4>3
    <3>3. QED  BY <3>1, <3>2
  <2>2. \A h \in Gens : pc'[h] = "unused" <=> h > nextGen'
    <3>1. \A h \in Gens \ {g} : pc'[h] = "unused" <=> h > nextGen
      <4>1. \A h \in Gens \ {g} : pc'[h] = Stopped({k})[h]
        BY <1>1, <1>4, Stopping
      <4>2. \A h \in Gens : Stopped({k})[h] = "unused" <=> pc[h] = "unused"
        BY <1>4, Stopping
      <4>3. QED  BY <4>1, <4>2 DEF Bookkeeping
    <3>2. pc'[g] = "p1armed"  BY <1>1, <1>2, <1>4, Stopping
    <3>3. QED  BY <1>2, <1>g, <3>1, <3>2 DEF Gens
  <2>3. ~Down' /\ flush' = "off"  BY DEF Down, flushVars
  <2>4. QED  BY <2>1, <2>2, <2>3 DEF Bookkeeping
<1>10. Flushing' /\ QuietAfterExit'
  BY DEF Flushing, QuietAfterExit, Down, flushVars
<1>11. ArmedIsCurrent'
  <2> SUFFICES ASSUME NEW h \in Gens, pc'[h] \in Armed PROVE timers'[key'[h]] = h
    BY DEF ArmedIsCurrent
  <2>1. CASE h = g  BY <1>1, <2>1 DEF TypeOK
  <2>2. CASE h # g
    <3>1. pc[h] \in Armed /\ key[h] # k
      BY <1>1, <1>4, <2>2, Stopping
    <3>2. QED  BY <1>1, <2>2, <3>1 DEF ArmedIsCurrent, TypeOK
  <2>3. QED  BY <2>1, <2>2
<1>12. QED  BY <1>7, <1>8, <1>9, <1>10, <1>11 DEF WgCounts

(* StopTimer, StopAll and FlushAll's collection: what a sweep of the keys  *)
(* ks leaves of the invariant whatever else the step does.                 *)
LEMMA SweepKeeps ==
  ASSUME IInv, NEW ks \in SUBSET Keys,
         pc' = Stopped(ks), wg' = wg - Cardinality(Stoppable(ks)),
         timers' = [k \in Keys |-> IF k \in ks THEN 0 ELSE timers[k]],
         UNCHANGED <<nextGen, key>>
  PROVE  /\ timers' \in [Keys -> 0..nextGen'] /\ pc' \in [Gens -> PCs]
         /\ wg' \in Nat /\ WgCounts' /\ ArmedIsCurrent'
         /\ \A k \in Keys : timers'[k] # 0 => key'[timers'[k]] = k /\ timers'[k] \in Live'
         /\ \A g \in Gens : pc'[g] = "unused" <=> g > nextGen'
         /\ Live' \subseteq Live
<1> USE DEF IInv
<1> DEFINE S == Stoppable(ks)
<1>1. Live' = Live \ S  BY Stopping DEF Live
<1>2. wg' = Cardinality(Live') /\ wg' \in Nat
  <2>1. Cardinality(Live \ S) = Cardinality(Live) - Cardinality(S)
    BY Stopping
  <2>2. Cardinality(Live \ S) \in Nat  BY Stopping
  <2>3. QED  BY <1>1, <2>1, <2>2 DEF WgCounts
<1>3. timers' \in [Keys -> 0..nextGen']
  <2>1. 0 \in 0..nextGen  BY DEF TypeOK
  <2>2. QED  BY <2>1 DEF TypeOK
<1>4. ArmedIsCurrent'
  <2> SUFFICES ASSUME NEW g \in Gens, pc'[g] \in Armed PROVE timers'[key'[g]] = g
    BY DEF ArmedIsCurrent
  <2>1. pc[g] \in Armed /\ key[g] \notin ks  BY Stopping
  <2>2. QED  BY <2>1 DEF ArmedIsCurrent, TypeOK
<1>5. ASSUME NEW k \in Keys, timers'[k] # 0
      PROVE  key'[timers'[k]] = k /\ timers'[k] \in Live'
  <2>1. k \notin ks /\ timers'[k] = timers[k]  BY <1>5
  <2>2. key[timers[k]] = k /\ timers[k] \in Live  BY <1>5, <2>1 DEF Bookkeeping
  <2>3. \A g \in S : key[g] \in ks  BY Stopping
  <2>4. timers[k] \notin S  BY <2>1, <2>2, <2>3
  <2>5. QED  BY <1>1, <2>1, <2>2, <2>4
<1>6. \A g \in Gens : pc'[g] = "unused" <=> g > nextGen'
  BY Stopping DEF Bookkeeping
<1>7. pc' \in [Gens -> PCs]  BY Stopping
<1>8. QED  BY <1>1, <1>2, <1>3, <1>4, <1>5, <1>6, <1>7 DEF WgCounts

(* What every step of a callback of g does: it moves on, armed again only  *)
(* while its end holds the key, or it is over and counts itself out.       *)
LEMMA CallbackMoves ==
  ASSUME IInv, NEW g \in Gens, Callback(g)
  PROVE  /\ g \in Live
         /\ \E p \in PCs :
              /\ pc' = [pc EXCEPT ![g] = p] /\ p # "unused"
              /\ \/ /\ p \in Phase1 \union Phase2
                    /\ p \in Armed => timers[key[g]] = g
                    /\ timers' = timers /\ wg' = wg
                 \/ /\ p \notin Phase1 \union Phase2
                    /\ timers' = IF timers[key[g]] = g THEN [timers EXCEPT ![key[g]] = 0]
                                 ELSE timers
                    /\ wg' = wg - 1
         /\ UNCHANGED <<nextGen, key, tracked, flush, pending, flushed>>
         /\ row' \in [Keys -> BOOLEAN]
         /\ act' \in [Keys -> {"none", "ongoing", "final", "ended"}]
<1> USE DEF IInv
<1> USE DEF PCs, Phase1, Phase2, Armed
<1>0. key[g] \in Keys  BY DEF TypeOK
<1>1. ASSUME NEW from, NEW to \in PCs \ {"unused"}, Goto(g, from, to), from \in Phase1 \union Phase2
      PROVE  g \in Live /\ pc' = [pc EXCEPT ![g] = to]
  BY <1>1 DEF Goto, Live
<1>2. ASSUME NEW state \in {"final", "ended"}, NEW send, NEW pause, NEW resend, NEW next,
             {send, pause, resend, next} \subseteq (Phase1 \union Phase2) \ Armed,
             UpdateWithRetry(g, state, send, pause, resend, next)
      PROVE  /\ g \in Live
             /\ \E p \in (Phase1 \union Phase2) \ Armed : pc' = [pc EXCEPT ![g] = p]
             /\ UNCHANGED <<timers, nextGen, key, wg, row, tracked, flush, pending, flushed>>
            
             /\ act' \in [Keys -> {"none", "ongoing", "final", "ended"}]
  <2>1. CASE Goto(g, pause, IF Down THEN next ELSE resend)
             /\ UNCHANGED <<timers, nextGen, key, wg, handlerVars, flushVars>>
    BY <1>2, <2>1 DEF Goto, Live, handlerVars, flushVars, TypeOK
  <2>2. CASE /\ Attempt(g, send, state, next, pause) \/ Attempt(g, resend, state, next, next)
             /\ UNCHANGED <<timers, nextGen, key, wg, row, tracked, flush, pending, flushed>>
    <3>1. act' = act \/ act' = [act EXCEPT ![key[g]] = state]
      BY <2>2 DEF Attempt
    <3>2. act' \in [Keys -> {"none", "ongoing", "final", "ended"}]
      BY <1>0, <1>2, <3>1 DEF TypeOK
    <3>3. QED  BY <1>2, <2>2, <3>2 DEF Attempt, Live
  <2>3. QED  BY <1>2, <2>1, <2>2 DEF UpdateWithRetry
<1>3. CASE FirePhase1(g) \/ FirePhase2(g)
  BY <1>3 DEF FirePhase1, FirePhase2, Goto, Live, handlerVars, flushVars, TypeOK
<1>4. CASE UpdatePhase1(g)
  <2>1. UpdateWithRetry(g, "final", "p1send", "p1pause", "p1resend", "p1check")
    BY <1>4 DEF UpdatePhase1
  <2>2. QED  BY <1>2, <2>1 DEF TypeOK
<1>5. CASE UpdatePhase2(g)
  <2>1. UpdateWithRetry(g, "ended", "p2send", "p2pause", "p2resend", "p2store")
    BY <1>5 DEF UpdatePhase2
  <2>2. QED  BY <1>2, <2>1 DEF TypeOK
<1>6. CASE ArmPhase2(g)
  <2>1. /\ pc[g] = "p1check" /\ timers' = timers
        /\ UNCHANGED <<nextGen, key, row, act, tracked, flush, pending, flushed>>
    BY <1>6 DEF ArmPhase2, Goto, handlerVars, flushVars
  <2>2. CASE timers[key[g]] = g
    <3>1. pc' = [pc EXCEPT ![g] = "p2armed"] /\ wg' = wg
      BY <1>6, <2>2 DEF ArmPhase2, Goto
    <3>2. QED  BY <2>1, <2>2, <3>1 DEF Live, TypeOK
  <2>3. CASE timers[key[g]] # g
    <3>1. pc' = [pc EXCEPT ![g] = "stopped"] /\ wg' = wg - 1
      BY <1>6, <2>3 DEF ArmPhase2, Goto
    <3>2. QED  BY <2>1, <2>3, <3>1 DEF Live, TypeOK
  <2>4. QED  BY <2>2, <2>3
<1>7. CASE DeleteRow(g)
  <2>1. row' \in [Keys -> BOOLEAN]  BY <1>0, <1>7 DEF DeleteRow, TypeOK
  <2>2. QED  BY <1>7, <2>1 DEF DeleteRow, Goto, Live, flushVars, TypeOK
<1>8. CASE Clean(g)
  <2>1. /\ pc[g] = "p2clean" /\ wg' = wg - 1
        /\ UNCHANGED <<nextGen, key, row, act, tracked, flush, pending, flushed>>
        /\ timers' = IF timers[key[g]] = g THEN [timers EXCEPT ![key[g]] = 0] ELSE timers
    BY <1>8 DEF Clean, Goto, handlerVars, flushVars
  <2>2. PICK p \in {"finished", "stopped"} : pc' = [pc EXCEPT ![g] = p]
    BY <1>8 DEF Clean, Goto
  <2>3. p \in PCs /\ p # "unused" /\ p \notin Phase1 \union Phase2  OBVIOUS
  <2>4. g \in Live  BY <2>1 DEF Live
  <2>5. QED  BY <2>1, <2>2, <2>3, <2>4 DEF TypeOK
<1>9. QED  BY <1>3, <1>4, <1>5, <1>6, <1>7, <1>8 DEF Callback

(* So a callback's step keeps the invariant.                               *)
LEMMA CallbackKeeps ==
  ASSUME IInv, NEW g \in Gens, Callback(g)
  PROVE  IInv'
<1> USE DEF IInv
<1>1. PICK p \in PCs :
        /\ pc' = [pc EXCEPT ![g] = p] /\ p # "unused"
        /\ \/ /\ p \in Phase1 \union Phase2
              /\ p \in Armed => timers[key[g]] = g
              /\ timers' = timers /\ wg' = wg
           \/ /\ p \notin Phase1 \union Phase2
              /\ timers' = IF timers[key[g]] = g THEN [timers EXCEPT ![key[g]] = 0]
                           ELSE timers
              /\ wg' = wg - 1
  BY CallbackMoves
<1>2. g \in Live /\ key[g] \in Keys /\ pc[g] # "unused"
  BY CallbackMoves DEF TypeOK, Live, Phase1, Phase2
<1>3. UNCHANGED <<nextGen, key, tracked, flush, pending, flushed>>
  BY CallbackMoves
<1>4. flush \notin {"sending", "exited"} /\ flushed = {}
  BY <1>2 DEF Flushing, QuietAfterExit
<1>5. \A h \in Gens : h # g => pc'[h] = pc[h]  BY <1>1 DEF TypeOK
<1>6. pc'[g] = p  BY <1>1 DEF TypeOK
<1>7. \/ p \in Phase1 \union Phase2 /\ Live' = Live
      \/ p \notin Phase1 \union Phase2 /\ Live' = Live \ {g}
  BY <1>2, <1>5, <1>6 DEF Live
<1>8. wg' = Cardinality(Live') /\ wg' \in Nat
  <2>1. CASE p \in Phase1 \union Phase2
    BY <1>1, <1>7, <2>1, LiveFinite DEF WgCounts
  <2>2. CASE p \notin Phase1 \union Phase2
    <3>1. Cardinality(Live \ {g}) = Cardinality(Live) - 1 /\ IsFiniteSet(Live \ {g})
      BY <1>2, LiveFinite, FS_RemoveElement
    <3>2. QED  BY <1>1, <1>7, <2>2, <3>1, FS_CardinalityType DEF WgCounts
  <2>3. QED  BY <2>1, <2>2
<1>9. timers' \in [Keys -> 0..nextGen]
  <2>1. 0 \in 0..nextGen  BY DEF TypeOK
  <2>2. QED  BY <1>1, <2>1 DEF TypeOK
<1>10. TypeOK'
  <2>1. pc' \in [Gens -> PCs]  BY <1>1 DEF TypeOK
  <2>2. row' \in [Keys -> BOOLEAN]
        /\ act' \in [Keys -> {"none", "ongoing", "final", "ended"}]
    BY CallbackMoves
  <2>3. QED  BY <1>3, <1>8, <1>9, <2>1, <2>2 DEF TypeOK
<1>11. Bookkeeping'
  <2>1. ASSUME NEW k \in Keys, timers'[k] # 0
        PROVE  key'[timers'[k]] = k /\ timers'[k] \in Live'
    <3>1. timers'[k] = timers[k]
      BY <1>1, <1>2, <2>1 DEF TypeOK
    <3>2. key[timers[k]] = k /\ timers[k] \in Live  BY <2>1, <3>1 DEF Bookkeeping
    <3>3. timers[k] = g => timers' = timers /\ p \in Phase1 \union Phase2
      BY <1>1, <1>2, <2>1, <3>1, <3>2 DEF TypeOK
    <3>4. QED  BY <1>3, <1>7, <3>1, <3>2, <3>3
  <2>2. \A h \in Gens : pc'[h] = "unused" <=> h > nextGen'
    BY <1>1, <1>2, <1>3, <1>5, <1>6 DEF Bookkeeping
  <2>3. flush \notin {"off", "cancelled"} => \A k \in Keys : timers'[k] = 0
    BY <1>1, <1>2 DEF Bookkeeping, TypeOK
  <2>4. QED  BY <1>3, <2>1, <2>2, <2>3 DEF Bookkeeping, Down
<1>12. Flushing' /\ QuietAfterExit'
  BY <1>3, <1>4 DEF Flushing, QuietAfterExit
<1>13. ArmedIsCurrent'
  <2> SUFFICES ASSUME NEW h \in Gens, pc'[h] \in Armed PROVE timers'[key'[h]] = h
    BY DEF ArmedIsCurrent
  <2>1. CASE h = g
    BY <1>1, <1>3, <1>6, <2>1 DEF Armed, Phase1, Phase2
  <2>2. CASE h # g
    <3>1. timers[key[h]] = h /\ key[h] \in Keys
      BY <1>5, <2>2 DEF ArmedIsCurrent, TypeOK
    <3>2. key[h] = key[g] => timers[key[g]] # g  BY <2>2, <3>1
    <3>3. QED  BY <1>1, <1>2, <1>3, <3>1, <3>2 DEF TypeOK
  <2>3. QED  BY <2>1, <2>2
<1>14. QED  BY <1>8, <1>10, <1>11, <1>12, <1>13 DEF WgCounts

(* Every step keeps the invariant, one case per action.                    *)
LEMMA Stepwise == IInv /\ [Next]_vars => IInv'
<1> SUFFICES ASSUME IInv, [Next]_vars PROVE IInv'  OBVIOUS
<1> USE DEF IInv
<1>1. CASE UNCHANGED vars
  <2>1. Live' = Live  BY <1>1 DEF vars, Live
  <2>2. QED
    BY <1>1, <2>1 DEF vars, handlerVars, flushVars, TypeOK, Bookkeeping, Flushing,
                     WgCounts, ArmedIsCurrent, QuietAfterExit, Down
<1>2. ASSUME NEW k \in Keys, ScheduleEnd(k) PROVE IInv'
  BY <1>2, ArmKeeps DEF ScheduleEnd, handlerVars
<1>3. ASSUME NEW k \in Keys, Exists(k) PROVE IInv'
  <2> USE <1>3 DEF Exists, handlerVars, flushVars
  <2>1. Live' = Live  BY DEF Live
  <2>2. TypeOK'
    <3>1. timers[k] \in NoCall..nextGen  BY DEF TypeOK, NoCall
    <3>2. tracked' \in [Keys -> NoCall..nextGen']  BY <3>1 DEF TypeOK
    <3>3. QED  BY <3>2 DEF TypeOK
  <2>3. Bookkeeping' /\ Flushing'  BY <2>1 DEF Bookkeeping, Flushing, Down
  <2>4. WgCounts' /\ ArmedIsCurrent' /\ QuietAfterExit'
    BY <2>1 DEF WgCounts, ArmedIsCurrent, QuietAfterExit
  <2>5. QED  BY <2>2, <2>3, <2>4
<1>4. ASSUME NEW k \in Keys, EndIfTracked(k) PROVE IInv'
  <2>1. ~Down  BY <1>4 DEF EndIfTracked, Bookkeeping
  <2>2. CASE timers[k] = 0
    BY <1>4, <2>1, <2>2, ArmKeeps DEF EndIfTracked
  <2>3. CASE timers[k] # 0
    <3> USE <1>4, <2>3 DEF EndIfTracked, flushVars
    <3>1. Live' = Live  BY DEF Live
    <3>2. tracked' \in [Keys -> NoCall..nextGen']
      <4>1. NoCall \in NoCall..nextGen  BY DEF TypeOK, NoCall
      <4>2. QED  BY <4>1 DEF TypeOK
    <3>3. TypeOK'  BY <3>2 DEF TypeOK
    <3>4. Bookkeeping' /\ Flushing'  BY <2>1, <3>1 DEF Bookkeeping, Flushing, Down
    <3>5. WgCounts' /\ ArmedIsCurrent' /\ QuietAfterExit'
      BY <3>1 DEF WgCounts, ArmedIsCurrent, QuietAfterExit
    <3>6. QED  BY <3>3, <3>4, <3>5
  <2>4. QED  BY <2>2, <2>3
<1>5. ASSUME NEW ks \in SUBSET Keys, StopTimers(ks) PROVE IInv'
  <2>1. /\ ~Down /\ pc' = Stopped(ks) /\ wg' = wg - Cardinality(Stoppable(ks))
        /\ timers' = [k \in Keys |-> IF k \in ks THEN 0 ELSE timers[k]]
        /\ UNCHANGED <<nextGen, key, handlerVars, flushVars>>
    BY <1>5 DEF StopTimers
  <2> HIDE DEF IInv
  <2>2. /\ timers' \in [Keys -> 0..nextGen'] /\ pc' \in [Gens -> PCs]
        /\ wg' \in Nat /\ WgCounts' /\ ArmedIsCurrent'
        /\ \A k \in Keys : timers'[k] # 0 => key'[timers'[k]] = k /\ timers'[k] \in Live'
        /\ \A g \in Gens : pc'[g] = "unused" <=> g > nextGen'
    BY <2>1, SweepKeeps
  <2> USE DEF IInv
  <2>3. TypeOK'  BY <2>1, <2>2 DEF TypeOK, handlerVars, flushVars
  <2>4. Bookkeeping' /\ Flushing' /\ QuietAfterExit'
    BY <2>1, <2>2 DEF Bookkeeping, Flushing, QuietAfterExit, Down, handlerVars, flushVars
  <2>5. QED  BY <2>2, <2>3, <2>4
<1>6. ASSUME NEW k \in Keys, Open(k) PROVE IInv'
  <2> USE <1>6 DEF Open, flushVars
  <2>1. Live' = Live  BY DEF Live
  <2>2. row' \in [Keys -> BOOLEAN]  BY DEF TypeOK
  <2>3. act' \in [Keys -> {"none", "ongoing", "final", "ended"}]  BY DEF TypeOK
  <2>4. TypeOK'  BY <2>2, <2>3 DEF TypeOK
  <2>5. Bookkeeping' /\ Flushing'  BY <2>1 DEF Bookkeeping, Flushing, Down
  <2>6. WgCounts' /\ ArmedIsCurrent' /\ QuietAfterExit'
    BY <2>1 DEF WgCounts, ArmedIsCurrent, QuietAfterExit
  <2>7. QED  BY <2>4, <2>5, <2>6
<1>7. ASSUME NEW g \in Gens, Callback(g) PROVE IInv'
  BY <1>7, CallbackKeeps
<1>8. CASE FlushCancel
  <2> USE <1>8 DEF FlushCancel, handlerVars
  <2>1. Live' = Live  BY DEF Live
  <2>2. TypeOK'  BY DEF TypeOK
  <2>3. Bookkeeping' /\ Flushing'  BY <2>1 DEF Bookkeeping, Flushing, Down
  <2>4. WgCounts' /\ ArmedIsCurrent' /\ QuietAfterExit'
    BY <2>1 DEF WgCounts, ArmedIsCurrent, QuietAfterExit
  <2>5. QED  BY <2>2, <2>3, <2>4
<1>9. CASE FlushCollect
  <2> DEFINE held == {timers[k] : k \in Keys} \ {0}
  <2>1. /\ flush = "cancelled" /\ pending' = held
        /\ flush' = (IF held = {} THEN "done" ELSE "waiting")
        /\ pc' = Stopped(Keys) /\ wg' = wg - Cardinality(Stoppable(Keys))
        /\ timers' = [k \in Keys |-> 0]
        /\ UNCHANGED <<nextGen, key, handlerVars, flushed>>
    BY <1>9 DEF FlushCollect
  <2>2. timers' = [k \in Keys |-> IF k \in Keys THEN 0 ELSE timers[k]] /\ Keys \in SUBSET Keys
    BY <2>1
  <2> HIDE DEF IInv
  <2>3. /\ timers' \in [Keys -> 0..nextGen'] /\ pc' \in [Gens -> PCs]
        /\ wg' \in Nat /\ WgCounts' /\ ArmedIsCurrent'
        /\ \A k \in Keys : timers'[k] # 0 => key'[timers'[k]] = k /\ timers'[k] \in Live'
        /\ \A g \in Gens : pc'[g] = "unused" <=> g > nextGen'
    BY <2>1, <2>2, SweepKeeps
  <2> USE DEF IInv
  <2>4. held \subseteq 1..nextGen  BY DEF TypeOK
  <2> HIDE DEF held
  <2>5. TypeOK'  BY <2>1, <2>3, <2>4 DEF TypeOK, handlerVars
  <2>6. Bookkeeping' /\ Flushing' /\ QuietAfterExit'
    BY <2>1, <2>3 DEF Bookkeeping, Flushing, QuietAfterExit, Down, handlerVars
  <2>7. QED  BY <2>3, <2>5, <2>6
<1>10. CASE FlushWait \/ WaitAll
  <2>1. /\ wg = 0 /\ flush \in {"waiting", "done"} /\ flush' \in {"sending", "exited"}
        /\ UNCHANGED <<timers, nextGen, key, pc, wg, handlerVars, pending, flushed>>
    BY <1>10 DEF FlushWait, WaitAll
  <2>2. Live = {}  BY <2>1, LiveFinite, FS_EmptySet DEF WgCounts
  <2>3. Live' = Live  BY <2>1 DEF Live
  <2>4. TypeOK'  BY <2>1 DEF TypeOK, handlerVars
  <2>5. Bookkeeping'  BY <2>1, <2>3 DEF Bookkeeping, Down, handlerVars
  <2>6. Flushing'  BY <2>1, <2>2, <2>3 DEF Flushing, handlerVars
  <2>7. WgCounts' /\ ArmedIsCurrent'  BY <2>1, <2>3 DEF WgCounts, ArmedIsCurrent
  <2>8. QuietAfterExit'  BY <2>1, <2>2, <2>3 DEF QuietAfterExit, Bookkeeping
  <2>9. QED  BY <2>4, <2>5, <2>6, <2>7, <2>8
<1>11. ASSUME NEW g \in Gens, FlushSend(g) PROVE IInv'
  <2> USE <1>11 DEF FlushSend
  <2>1. Live' = Live /\ Live = {}  BY DEF Live, Flushing
  <2>2. key[g] \in Keys  BY DEF TypeOK
  <2>3. row' \in [Keys -> BOOLEAN]  BY <2>2 DEF TypeOK
  <2>4. act' \in [Keys -> {"none", "ongoing", "final", "ended"}]  BY <2>2 DEF TypeOK
  <2>5. TypeOK'  BY <2>2, <2>3, <2>4 DEF TypeOK
  <2>6. Flushing'
    <3>1. \A k \in flushed' : act'[k] = "ended"  BY <2>2 DEF Flushing, TypeOK
    <3>2. QED  BY <2>1, <3>1 DEF Flushing
  <2>7. Bookkeeping'  BY <2>1 DEF Bookkeeping, Down
  <2>8. WgCounts' /\ ArmedIsCurrent' /\ QuietAfterExit'
    BY <2>1 DEF WgCounts, ArmedIsCurrent, QuietAfterExit
  <2>9. QED  BY <2>5, <2>6, <2>7, <2>8
<1>12. CASE FlushDone
  <2> USE <1>12 DEF FlushDone, handlerVars
  <2>1. Live' = Live  BY DEF Live
  <2>3. TypeOK'  BY DEF TypeOK, Gens
  <2>4. Bookkeeping' /\ Flushing'  BY <2>1 DEF Bookkeeping, Flushing, Down
  <2>5. WgCounts' /\ ArmedIsCurrent' /\ QuietAfterExit'
    BY <2>1 DEF WgCounts, ArmedIsCurrent, QuietAfterExit
  <2>6. QED  BY <2>3, <2>4, <2>5
<1>13. QED
  BY <1>1, <1>2, <1>3, <1>4, <1>5, <1>6, <1>7, <1>8, <1>9, <1>10, <1>11, <1>12
  DEF Next, StopTimer, StopAll, Shutdown, Exited

(* Every variable keeps its type; in particular wg never goes negative,    *)
(* which would panic: ender.go, every Stop that counts a Done.             *)
THEOREM TypeCorrect == Spec => []TypeOK
<1>1. IInv => TypeOK  BY DEF IInv
<1>2. QED  BY <1>1, Initially, Stepwise, PTL DEF Spec

(* No orphaned phase 2 and no clobbered newer pair, for any interleaving   *)
(* of handlers and callbacks: ender.go lines 197-204 and 235-239.          *)
THEOREM NoOrphans == Spec => []ArmedIsCurrent
<1>1. IInv => ArmedIsCurrent  BY DEF IInv
<1>2. QED  BY <1>1, Initially, Stepwise, PTL DEF Spec

(* The wait group balances, and what the process relies on when Wait       *)
(* returns holds: ender.go, FlushAll and Wait.                             *)
THEOREM ShutdownIsQuiet == Spec => [](WgCounts /\ QuietAfterExit)
<1>1. IInv => WgCounts /\ QuietAfterExit  BY DEF IInv
<1>2. QED  BY <1>1, Initially, Stepwise, PTL DEF Spec

(* An ENDED of FlushAll that was applied is the last word on its activity: *)
(* ender.go lines 318-321.                                                 *)
THEOREM FlushedIsFinal == Spec => FlushedStaysEnded
<1>1. ASSUME IInv, [Next]_vars PROVE [\A k \in flushed : act'[k] = act[k]]_vars
  <2> SUFFICES ASSUME NEW j \in flushed, Next PROVE act'[j] = act[j]
    BY <1>1
  <2> USE <1>1 DEF IInv
  <2>1. Down /\ Live = {} /\ act[j] = "ended" /\ j \in Keys
    BY DEF Flushing, Down, TypeOK
  <2>2. ASSUME NEW g \in Gens, Callback(g) PROVE FALSE
    BY <2>1, <2>2, CallbackMoves
  <2>3. ASSUME NEW g \in Gens, FlushSend(g) PROVE act'[j] = act[j]
    BY <2>1, <2>3 DEF FlushSend, TypeOK
  <2>4. ASSUME NEW k \in Keys, EndIfTracked(k) PROVE act'[j] = act[j]
    BY <2>4 DEF EndIfTracked
  <2>5. CASE \E k \in Keys : ScheduleEnd(k) \/ Exists(k) \/ StopTimer(k) \/ Open(k)
    BY <2>1, <2>5 DEF ScheduleEnd, Exists, StopTimer, StopTimers, Open, handlerVars
  <2>6. CASE StopAll \/ FlushCancel \/ Exited
    BY <2>6 DEF StopAll, StopTimers, FlushCancel, Exited, vars, handlerVars
  <2>7. CASE FlushCollect \/ FlushWait \/ FlushDone \/ WaitAll
    BY <2>7 DEF FlushCollect, FlushWait, FlushDone, WaitAll, handlerVars
  <2>8. QED  BY <2>2, <2>3, <2>4, <2>5, <2>6, <2>7 DEF Next, Shutdown
<1>2. QED  BY <1>1, Initially, Stepwise, PTL DEF Spec, FlushedStaysEnded

(* A step that leaves every end where it is, timers and statuses alike, is *)
(* invisible to the callers.                                               *)
LEMMA Invisible ==
  ASSUME timers' = timers, \A g \in Gens : Status(g)' = Status(g)
  PROVE  UNCHANGED Promise!vars
BY DEF Promise!vars

(* Arming an end is scheduling it in place of the key's former one.        *)
LEMMA ArmSchedules ==
  ASSUME IInv, NEW k \in Keys, Arm(k)
  PROVE  Promise!Schedule(k, nextGen + 1)
<1> USE DEF IInv
<1>0. nextGen + 1 \in Gens
  BY MaxGensAssumption DEF Arm, Gens, TypeOK
<1>g. PICK g \in Gens : g = nextGen + 1  BY <1>0
<1>1. /\ pc[g] = "unused" /\ g # 0
      /\ timers' = [timers EXCEPT ![k] = g] /\ key' = [key EXCEPT ![g] = k]
      /\ pc' = [Stopped({k}) EXCEPT ![g] = "p1armed"]
  BY <1>g DEF Arm, Gens, TypeOK, Bookkeeping
<1>2. Stopped({k}) \in [Gens -> PCs]  BY Stopping
<1>3. Status(g) = "new"  BY <1>1 DEF Status
<1>4. Status(g)' = "waiting"
  BY <1>1, <1>2 DEF Status, Phase1, TypeOK
<1>5. ASSUME NEW h \in Gens, h # g
      PROVE  Status(h)' = IF timers[k] = h THEN "off" ELSE Status(h)
  <2>1. pc'[h] = Stopped({k})[h] /\ key'[h] = key[h] /\ key[h] \in Keys
    BY <1>1, <1>2, <1>5 DEF TypeOK
  <2>2. timers'[key[h]] = IF key[h] = k THEN g ELSE timers[key[h]]
    BY <1>1, <2>1 DEF TypeOK
  <2>3. CASE timers[k] = h
    <3>1. key[h] = k /\ h \in Live  BY <2>3, <1>5 DEF Bookkeeping, Gens
    <3>2. pc'[h] \in {"stopped", pc[h]}  BY <2>1 DEF Stopped
    <3>3. QED  BY <1>5, <2>1, <2>2, <2>3, <3>1, <3>2 DEF Status, Live, Phase1, Phase2
  <2>4. CASE timers[k] # h
    <3>1. h \notin Stoppable({k})  BY <2>4 DEF Stoppable
    <3>2. pc'[h] = pc[h]  BY <2>1, <3>1 DEF Stopped
    <3>3. timers'[key[h]] = h <=> timers[key[h]] = h
      BY <1>5, <2>2, <2>4
    <3>4. QED  BY <2>1, <2>4, <3>2, <3>3 DEF Status
  <2>5. QED  BY <2>3, <2>4
<1>6. [h \in Gens |-> Status(h)]' =
        [[h \in Gens |-> IF \E j \in {k} : timers[j] = h THEN "off" ELSE Status(h)]
           EXCEPT ![g] = "waiting"]
  BY <1>1, <1>4, <1>5
<1>7. QED  BY <1>g, <1>1, <1>3, <1>6 DEF Promise!Schedule, Promise!Off

(* A sweep calls off the ends of its keys.                                 *)
LEMMA SweepCallsOff ==
  ASSUME IInv, NEW ks \in SUBSET Keys, pc' = Stopped(ks), UNCHANGED key,
         timers' = [k \in Keys |-> IF k \in ks THEN 0 ELSE timers[k]]
  PROVE  Promise!CallOff(ks)
<1> USE DEF IInv
<1>1. ASSUME NEW h \in Gens
      PROVE  Status(h)' = IF \E k \in ks : timers[k] = h THEN "off" ELSE Status(h)
  <2>1. key[h] \in Keys /\ h # 0  BY DEF TypeOK, Gens
  <2>2. timers'[key[h]] = IF key[h] \in ks THEN 0 ELSE timers[key[h]]  BY <2>1
  <2>3. CASE \E k \in ks : timers[k] = h
    <3>1. key[h] \in ks /\ h \in Live  BY <2>1, <2>3 DEF Bookkeeping
    <3>2. pc'[h] \in {"stopped", pc[h]}  BY DEF Stopped
    <3>3. QED  BY <2>1, <2>2, <2>3, <3>1, <3>2 DEF Status, Live, Phase1, Phase2
  <2>4. CASE ~\E k \in ks : timers[k] = h
    <3>1. pc'[h] = pc[h]  BY <2>4 DEF Stopped, Stoppable
    <3>2. timers'[key[h]] = h <=> timers[key[h]] = h  BY <2>1, <2>2, <2>4
    <3>3. QED  BY <2>4, <3>1, <3>2 DEF Status
  <2>5. QED  BY <2>3, <2>4
<1>2. QED  BY <1>1 DEF Promise!CallOff, Promise!Off

(* A callback's step shows its end, finishes it or is invisible.           *)
LEMMA CallbackSteps ==
  ASSUME IInv, NEW g \in Gens, Callback(g)
  PROVE  [Promise!Next]_(Promise!vars)
<1> USE DEF IInv
<1>0. key[g] \in Keys /\ UNCHANGED key  BY CallbackMoves DEF TypeOK
<1>1. ASSUME NEW p, pc' = [pc EXCEPT ![g] = p], timers' = timers,
             \/ pc[g] \in Phase1 /\ p \in Phase1
             \/ pc[g] \in Phase2 /\ p \in Phase2
             \/ timers[key[g]] # g /\ g \in Live /\ p = "stopped"
      PROVE  UNCHANGED Promise!vars
  <2>1. \A h \in Gens : h # g => pc'[h] = pc[h]  BY <1>1 DEF TypeOK
  <2>2. pc'[g] = p  BY <1>1 DEF TypeOK
  <2>3. Status(g)' = Status(g)
    BY <1>0, <1>1, <2>2 DEF Status, Live, Phase1, Phase2
  <2>4. \A h \in Gens : h # g => Status(h)' = Status(h)
    BY <1>0, <1>1, <2>1 DEF Status
  <2>5. QED  BY <1>1, <2>3, <2>4, Invisible
<1>2. CASE FirePhase1(g) \/ UpdatePhase1(g)
  <2>1. \E p \in Phase1 : pc' = [pc EXCEPT ![g] = p] /\ pc[g] \in Phase1 /\ timers' = timers
    BY <1>2 DEF FirePhase1, UpdatePhase1, UpdateWithRetry, Attempt, Goto, Phase1
  <2>2. QED  BY <1>1, <2>1
<1>3. CASE FirePhase2(g) \/ UpdatePhase2(g) \/ DeleteRow(g)
  <2>1. \E p \in Phase2 : pc' = [pc EXCEPT ![g] = p] /\ pc[g] \in Phase2 /\ timers' = timers
    BY <1>3 DEF FirePhase2, UpdatePhase2, UpdateWithRetry, Attempt, DeleteRow, Goto, Phase2
  <2>2. QED  BY <1>1, <2>1
<1>4. CASE (ArmPhase2(g) \/ Clean(g)) /\ timers[key[g]] # g
  <2>1. pc' = [pc EXCEPT ![g] = "stopped"] /\ timers' = timers /\ g \in Live
    BY <1>4, CallbackMoves DEF ArmPhase2, Clean, Goto
  <2>2. QED  BY <1>1, <1>4, <2>1
<1>5. CASE ArmPhase2(g) /\ timers[key[g]] = g
  <2>1. pc[g] = "p1check" /\ pc' = [pc EXCEPT ![g] = "p2armed"] /\ timers' = timers
    BY <1>5 DEF ArmPhase2, Goto
  <2>2. Status(g) = "waiting" /\ Status(g)' = "showing"
    BY <1>0, <1>5, <2>1 DEF Status, Phase1, TypeOK
  <2>3. \A h \in Gens : h # g => Status(h)' = Status(h)
    BY <1>0, <2>1 DEF Status, TypeOK
  <2>4. [h \in Gens |-> Status(h)]' = [[h \in Gens |-> Status(h)] EXCEPT ![g] = "showing"]
    BY <2>2, <2>3
  <2>5. Promise!Show(g)  BY <2>1, <2>2, <2>4 DEF Promise!Show
  <2>6. QED  BY <2>5 DEF Promise!Next
<1>6. CASE Clean(g) /\ timers[key[g]] = g
  <2> DEFINE k == key[g]
  <2>1. /\ pc[g] = "p2clean" /\ pc' = [pc EXCEPT ![g] = "finished"]
        /\ timers' = [timers EXCEPT ![k] = 0]
    BY <1>6 DEF Clean, Goto
  <2>2. Status(g) = "showing" /\ Status(g)' = "finished"
    BY <1>0, <1>6, <2>1 DEF Status, Phase1, TypeOK
  <2>3. ASSUME NEW h \in Gens, h # g PROVE Status(h)' = Status(h)
    <3>1. pc'[h] = pc[h] /\ key[h] \in Keys  BY <2>1, <2>3 DEF TypeOK
    <3>2. timers'[key[h]] = h <=> timers[key[h]] = h
      BY <1>0, <1>6, <2>1, <2>3, <3>1 DEF TypeOK, Gens
    <3>3. QED  BY <1>0, <3>1, <3>2 DEF Status
  <2>4. [h \in Gens |-> Status(h)]' = [[h \in Gens |-> Status(h)] EXCEPT ![g] = "finished"]
    BY <2>2, <2>3
  <2>5. timers[k] = g /\ g # 0 /\ k \in Keys  BY <1>0, <1>6 DEF Gens
  <2>6. Promise!Finish(k)
    BY <2>1, <2>2, <2>4, <2>5 DEF Promise!Finish
  <2>7. QED  BY <1>0, <2>6 DEF Promise!Next
<1>7. QED  BY <1>2, <1>3, <1>4, <1>5, <1>6 DEF Callback

(* Every step of the Ender is a step of the two-phase end or invisible to  *)
(* its callers: ender.go, ScheduleEnd, StopTimer, FlushAll, the callbacks. *)
THEOREM ImplementsTwoPhase == Spec => TwoPhaseSteps
<1>1. Init => Promise!Init
  BY DEF Init, Promise!Init, Status
<1>2. ASSUME IInv, [Next]_vars PROVE [Promise!Next]_(Promise!vars)
  <2> USE <1>2 DEF IInv
  <2>1. ASSUME UNCHANGED <<timers, key, pc>> PROVE UNCHANGED Promise!vars
    BY <2>1, Invisible DEF Status
  <2>2. CASE UNCHANGED vars  BY <2>1, <2>2 DEF vars
  <2>3. ASSUME NEW k \in Keys, Arm(k) PROVE Promise!Next
    <3>1. nextGen + 1 \in Gens  BY <2>3, MaxGensAssumption DEF Arm, Gens, TypeOK
    <3>2. QED  BY <2>3, <3>1, ArmSchedules DEF Promise!Next
  <2>4. ASSUME NEW k \in Keys, ScheduleEnd(k) \/ EndIfTracked(k)
        PROVE  [Promise!Next]_(Promise!vars)
    BY <2>1, <2>3, <2>4 DEF ScheduleEnd, EndIfTracked
  <2>5. ASSUME NEW k \in Keys, Exists(k) \/ Open(k) PROVE UNCHANGED Promise!vars
    BY <2>1, <2>5 DEF Exists, Open
  <2>6. ASSUME NEW ks \in SUBSET Keys, StopTimers(ks) PROVE Promise!Next
    <3>1. Promise!CallOff(ks)  BY <2>6, SweepCallsOff DEF StopTimers
    <3>2. QED  BY <3>1 DEF Promise!Next
  <2>7. CASE FlushCollect
    <3>1. timers' = [k \in Keys |-> IF k \in Keys THEN 0 ELSE timers[k]]
      BY <2>7 DEF FlushCollect
    <3>2. Promise!CallOff(Keys)  BY <2>7, <3>1, SweepCallsOff DEF FlushCollect
    <3>3. QED  BY <3>2 DEF Promise!Next
  <2>8. ASSUME NEW g \in Gens, FlushSend(g) PROVE UNCHANGED Promise!vars
    BY <2>1, <2>8 DEF FlushSend
  <2>9. CASE FlushCancel \/ FlushWait \/ FlushDone \/ WaitAll \/ Exited
    BY <2>1, <2>9 DEF FlushCancel, FlushWait, FlushDone, WaitAll, Exited, vars
  <2>10. QED
    BY <2>2, <2>4, <2>5, <2>6, <2>7, <2>8, <2>9, CallbackSteps
    DEF Next, Shutdown, StopTimer, StopAll
<1>3. QED
  BY <1>1, <1>2, Initially, Stepwise, PTL DEF Spec, TwoPhaseSteps

---------------------------------------------------------------------------
(* The card of a playback (JellyfinPlayback).                              *)

Ends(end, callback, pause, gen, fired, ending) ==
  [end |-> end, callback |-> callback, pause |-> pause, gen |-> gen, fired |-> fired, ending |-> ending]

TypedEnds(t) ==
  /\ t = Ends(t.end, t.callback, t.pause, t.gen, t.fired, t.ending)
  /\ t.gen \in Nat /\ t.pause \in 0..t.gen /\ t.fired \subseteq 1..t.gen
  /\ t.ending \in BOOLEAN
  /\ t.end \in {"none", "phase1", "phase2", "running"}
  /\ t.callback \in {"none", "ended", "row", "cleanup"}
  /\ t.end = "running" => t.callback \in {"ended", "row"}

TypedPlayback ==
  /\ playback = Jellyfin!Webhook(playback.what, playback.paused, playback.plan)
  /\ listed \in BOOLEAN /\ cardState \in {"none", "ongoing", "ended"}
  /\ debounced = [paused |-> debounced.paused, pos |-> debounced.pos]
  /\ TypedEnds(ends)
  /\ player = [player |-> player.player, pos |-> player.pos, delivered |-> player.delivered,
               hurt |-> player.hurt, raced |-> player.raced]

\* No call failed, and nothing was lost.
Unhurt == player.hurt = {}

\* No end is under way, apart from the pause timer.
Still == ends.end = "none" /\ ends.callback = "none" /\ ~ends.ending
Calm == Still /\ ends.pause = 0

\* An end that comes for the card, and a card that one comes for if it is up.
Coming == ends.end \in {"phase1", "phase2"} \/ ends.callback = "ended" \/ ends.ending \/ ends.pause # 0
Pledged == Unhurt /\ cardState = "ongoing" => Coming

\* A playback that never began, that runs, that was paused, that was stopped.
Nothing == cardState = "none" /\ ~listed /\ Calm /\ debounced.paused = "none"
Up == cardState = "ongoing" /\ listed /\ Calm /\ debounced.paused \in {"none", "play"}
Left == debounced.paused \in {"none", "pause"} /\ Pledged
Gone == ends.pause = 0 /\ Pledged

\* What holds whatever is at work.
Accounted ==
  /\ listed => cardState # "none"
  /\ ends.callback \in {"row", "cleanup"} => cardState # "ongoing"
  /\ Unhurt /\ cardState = "ongoing" => listed \/ (playback.plan # <<>> /\ Head(playback.plan) = "set")
  /\ Unhurt /\ ends.callback = "cleanup" => ~listed
  /\ ends.pause # 0 => debounced.paused = "pause"

At(what, paused, state, plan) == playback = Jellyfin!Webhook(what, paused, plan) /\ player.player = state
Starting(plan) == At("start", "play", "playing", plan)
Stale(plan) == At("stale", "pause", "stopped", plan)
Playing(plan) == At("progress", "play", "playing", plan)
Pausing(plan) == At("progress", "pause", "paused", plan)
Quitting(plan) == At("stop", "play", "stopped", plan)

Resumed == ends.pause = 0 /\ debounced.paused \in {"none", "play"}
Paused == debounced.paused \in {"none", "pause"} /\ ends.pause \notin ends.fired

\* Where a webhook is, and what holds there.
Stage ==
  \/ playback = Jellyfin!Idle /\ \/ player.player = "none" /\ Nothing
                                 \/ player.player = "playing" /\ Up
                                 \/ player.player = "paused" /\ Left
                                 \/ player.player = "stopped" /\ Gone
  \/ Starting(Jellyfin!Starting)
  \/ Starting(<<"create", "set", "update", "remember">>) /\ Calm
  \/ Starting(<<"set", "update", "remember">>) /\ Calm /\ cardState = "ongoing"
  \/ Starting(<<"update", "remember">>) /\ Calm /\ cardState = "ongoing" /\ listed
  \/ Starting(<<"remember">>) /\ Calm /\ cardState = "ongoing" /\ listed
  \/ Starting(<<>>) /\ Up
  \/ Stale(<<"remember">>) /\ Gone
  \/ Stale(<<>>) /\ Gone
  \/ Playing(<<"debounce">>) /\ (debounced.paused = "play" => Up)
  \/ Playing(<<"stop", "exists">>) /\ Resumed
  \/ Playing(<<"exists">>) /\ Resumed /\ Still
  \/ Playing(<<"create", "set", "update">>) /\ Resumed /\ Still
  \/ Playing(<<"set", "update">>) /\ Resumed /\ Still /\ cardState = "ongoing"
  \/ Playing(<<"update">>) /\ Resumed /\ Still /\ listed
  \/ Playing(<<>>) /\ Up
  \/ Pausing(<<"debounce">>) /\ (Up \/ Left)
  \/ Pausing(<<"stop", "exists">>) /\ Paused /\ (Unhurt /\ listed => ends.pause # 0)
  \/ Pausing(<<"exists">>) /\ Paused /\ Still /\ (Unhurt /\ listed => ends.pause # 0)
  \/ Pausing(<<"update">>) /\ Paused /\ Still /\ (Unhurt => listed /\ ends.pause # 0)
  \/ Pausing(<<"unpause">>) /\ Paused /\ Still /\ (Unhurt => ~listed)
  \/ Pausing(<<>>) /\ Left
  \/ Quitting(<<"unpause", "schedule">>)
  \/ Quitting(<<"unpause", "endIfTracked">>)
  \/ Quitting(<<"schedule">>) /\ ends.pause = 0
  \/ Quitting(<<"endIfTracked">>) /\ ends.pause = 0
  \/ Quitting(<<>>) /\ Gone

Survived == ~player.raced /\ player.hurt \subseteq {"read", "stale"}

VInv == TypedPlayback /\ (Survived => Accounted /\ Stage)

(* A plan's head.                                                           *)
LEMMA DebounceStage ==
  ASSUME Stage, Jellyfin!Calls("debounce")
  PROVE  \/ Playing(<<"debounce">>) /\ (debounced.paused = "play" => Up)
         \/ Pausing(<<"debounce">>) /\ (Up \/ Left)
BY DEF Stage, Jellyfin!Calls, Jellyfin!Idle, Jellyfin!Webhook, Jellyfin!Starting,
       Starting, Stale, Playing, Pausing, Quitting, At

LEMMA StopStage ==
  ASSUME Stage, Jellyfin!Calls("stop")
  PROVE  \/ Starting(Jellyfin!Starting)
         \/ Playing(<<"stop", "exists">>) /\ Resumed
         \/ Pausing(<<"stop", "exists">>) /\ Paused /\ (Unhurt /\ listed => ends.pause # 0)
BY DEF Stage, Jellyfin!Calls, Jellyfin!Idle, Jellyfin!Webhook, Jellyfin!Starting,
       Starting, Stale, Playing, Pausing, Quitting, At

LEMMA ExistsStage ==
  ASSUME Stage, Jellyfin!Calls("exists")
  PROVE  \/ Playing(<<"exists">>) /\ Resumed /\ Still
         \/ Pausing(<<"exists">>) /\ Paused /\ Still /\ (Unhurt /\ listed => ends.pause # 0)
BY DEF Stage, Jellyfin!Calls, Jellyfin!Idle, Jellyfin!Webhook, Jellyfin!Starting,
       Starting, Stale, Playing, Pausing, Quitting, At

LEMMA UnpauseStage ==
  ASSUME Stage, Jellyfin!Calls("unpause")
  PROVE  \/ Pausing(<<"unpause">>) /\ Paused /\ Still /\ (Unhurt => ~listed)
         \/ Quitting(<<"unpause", "schedule">>)
         \/ Quitting(<<"unpause", "endIfTracked">>)
BY DEF Stage, Jellyfin!Calls, Jellyfin!Idle, Jellyfin!Webhook, Jellyfin!Starting,
       Starting, Stale, Playing, Pausing, Quitting, At

LEMMA CreateStage ==
  ASSUME Stage, Jellyfin!Calls("create")
  PROVE  \/ Starting(<<"create", "set", "update", "remember">>) /\ Calm
         \/ Playing(<<"create", "set", "update">>) /\ Resumed /\ Still
BY DEF Stage, Jellyfin!Calls, Jellyfin!Idle, Jellyfin!Webhook, Jellyfin!Starting,
       Starting, Stale, Playing, Pausing, Quitting, At

LEMMA SetStage ==
  ASSUME Stage, Jellyfin!Calls("set")
  PROVE  \/ Starting(<<"set", "update", "remember">>) /\ Calm /\ cardState = "ongoing"
         \/ Playing(<<"set", "update">>) /\ Resumed /\ Still /\ cardState = "ongoing"
BY DEF Stage, Jellyfin!Calls, Jellyfin!Idle, Jellyfin!Webhook, Jellyfin!Starting,
       Starting, Stale, Playing, Pausing, Quitting, At

LEMMA UpdateStage ==
  ASSUME Stage, Jellyfin!Calls("update")
  PROVE  \/ Starting(<<"update", "remember">>) /\ Calm /\ cardState = "ongoing" /\ listed
         \/ Playing(<<"update">>) /\ Resumed /\ Still /\ listed
         \/ Pausing(<<"update">>) /\ Paused /\ Still /\ (Unhurt => listed /\ ends.pause # 0)
BY DEF Stage, Jellyfin!Calls, Jellyfin!Idle, Jellyfin!Webhook, Jellyfin!Starting,
       Starting, Stale, Playing, Pausing, Quitting, At

LEMMA RememberStage ==
  ASSUME Stage, Jellyfin!Calls("remember")
  PROVE  \/ Starting(<<"remember">>) /\ Calm /\ cardState = "ongoing" /\ listed
         \/ Stale(<<"remember">>) /\ Gone
BY DEF Stage, Jellyfin!Calls, Jellyfin!Idle, Jellyfin!Webhook, Jellyfin!Starting,
       Starting, Stale, Playing, Pausing, Quitting, At

LEMMA EndStage ==
  ASSUME Stage, Jellyfin!Calls("schedule") \/ Jellyfin!Calls("endIfTracked")
  PROVE  \/ Quitting(<<"schedule">>) /\ ends.pause = 0
         \/ Quitting(<<"endIfTracked">>) /\ ends.pause = 0
BY DEF Stage, Jellyfin!Calls, Jellyfin!Idle, Jellyfin!Webhook, Jellyfin!Starting,
       Starting, Stale, Playing, Pausing, Quitting, At

LEMMA AnsweredStage ==
  ASSUME Stage, playback # Jellyfin!Idle, playback.plan = <<>>
  PROVE  \/ Starting(<<>>) /\ Up
         \/ Stale(<<>>) /\ Gone
         \/ Playing(<<>>) /\ Up
         \/ Pausing(<<>>) /\ Left
         \/ Quitting(<<>>) /\ Gone
<1>1. <<>> # Jellyfin!Starting  BY DEF Jellyfin!Starting
<1>2. QED
  BY <1>1 DEF Stage, Jellyfin!Webhook, Starting, Stale, Playing, Pausing, Quitting, At

LEMMA IdleStage ==
  ASSUME Stage, playback = Jellyfin!Idle
  PROVE  \/ player.player = "none" /\ Nothing
         \/ player.player = "playing" /\ Up
         \/ player.player = "paused" /\ Left
         \/ player.player = "stopped" /\ Gone
<1>1. playback.what = "none"  BY DEF Jellyfin!Idle
<1>2. QED
  BY <1>1 DEF Stage, Jellyfin!Webhook, Starting, Stale, Playing, Pausing, Quitting, At

(* What went wrong stays.                                                   *)
LEMMA WentWrong ==
  ASSUME TypedPlayback, Jellyfin!Next
  PROVE  (Survived' => Survived) /\ (Unhurt' => Unhurt)
<1> USE DEF Survived, Unhurt, Jellyfin!Fault, Jellyfin!MayFail, Jellyfin!Race
<1>0. player = [player |-> player.player, pos |-> player.pos, delivered |-> player.delivered,
               hurt |-> player.hurt, raced |-> player.raced]
  BY DEF TypedPlayback
<1>1. ASSUME NEW kind, Jellyfin!Fault(kind)  PROVE (Survived' => Survived) /\ (Unhurt' => Unhurt)
  BY <1>0, <1>1
<1>2. ASSUME UNCHANGED player  PROVE (Survived' => Survived) /\ (Unhurt' => Unhurt)
  BY <1>2
<1>3. ASSUME NEW c, Jellyfin!Race(c)  PROVE (Survived' => Survived) /\ (Unhurt' => Unhurt)
  BY <1>0, <1>3
<1>4. CASE Jellyfin!Start \/ Jellyfin!StaleStart \/ Jellyfin!Plays \/ Jellyfin!Pauses \/ Jellyfin!Seeks \/ Jellyfin!Stops
  BY <1>0, <1>4 DEF Jellyfin!Start, Jellyfin!StaleStart, Jellyfin!Plays, Jellyfin!Pauses, Jellyfin!Seeks, Jellyfin!Stops, Jellyfin!Deliver
<1> HIDE DEF Survived, Unhurt, Jellyfin!Fault, Jellyfin!MayFail, Jellyfin!Race
<1>5. CASE Jellyfin!Work
  <2>1. CASE Jellyfin!Debounce  BY <1>2, <1>3, <2>1 DEF Jellyfin!Debounce
  <2>2. CASE Jellyfin!StopTimer  BY <1>2, <1>3, <2>2 DEF Jellyfin!StopTimer
  <2>3. CASE Jellyfin!Exists  BY <1>1, <1>2, <2>3 DEF Jellyfin!Exists
  <2>4. CASE Jellyfin!CancelPause \/ Jellyfin!Remember \/ Jellyfin!Answered
    BY <1>2, <2>4 DEF Jellyfin!CancelPause, Jellyfin!Remember, Jellyfin!Answered
  <2>5. CASE Jellyfin!CreateActivity \/ Jellyfin!UpdateActivity
    BY <1>1, <1>2, <2>5 DEF Jellyfin!CreateActivity, Jellyfin!UpdateActivity, Jellyfin!Sent
  <2>6. CASE Jellyfin!SetRow  BY <1>1, <1>2, <2>6 DEF Jellyfin!SetRow
  <2>7. CASE Jellyfin!ScheduleEnd  BY <1>3, <2>7 DEF Jellyfin!ScheduleEnd
  <2>8. CASE Jellyfin!EndIfTracked  BY <1>1, <1>3, <2>8 DEF Jellyfin!EndIfTracked
  <2>9. QED  BY <1>5, <2>1, <2>2, <2>3, <2>4, <2>5, <2>6, <2>7, <2>8 DEF Jellyfin!Work
<1>6. CASE Jellyfin!Timers
  BY <1>1, <1>2, <1>6 DEF Jellyfin!Timers, Jellyfin!FirePause, Jellyfin!EndPaused, Jellyfin!EndPausedSchedules,
     Jellyfin!Phase1, Jellyfin!Phase2, Jellyfin!SendEnded, Jellyfin!DeleteRow, Jellyfin!CleanupDebounce
<1>7. CASE Jellyfin!Sweep \/ Jellyfin!Crash
  BY <1>1, <1>7 DEF Jellyfin!Sweep, Jellyfin!Crash
<1>8. QED  BY <1>4, <1>5, <1>6, <1>7 DEF Jellyfin!Next

LEMMA PauseForms ==
  ASSUME NEW t, TypedEnds(t)
  PROVE  /\ Jellyfin!StopPause(t) = Ends(t.end, t.callback, 0, t.gen, t.fired, t.ending)
         /\ Jellyfin!ArmPause(t) = Ends(t.end, t.callback, t.gen + 1, t.gen + 1, t.fired, t.ending)
         /\ TypedEnds(Jellyfin!StopPause(t)) /\ TypedEnds(Jellyfin!ArmPause(t))
         /\ t.end # "running" => TypedEnds([Jellyfin!StopPause(t) EXCEPT !.callback = "none"])
         /\ [Jellyfin!StopPause(t) EXCEPT !.callback = "none"] = Ends(t.end, "none", 0, t.gen, t.fired, t.ending)
<1>1. t = Ends(t.end, t.callback, t.pause, t.gen, t.fired, t.ending)  BY DEF TypedEnds
<1>2. Jellyfin!StopPause(t) = Ends(t.end, t.callback, 0, t.gen, t.fired, t.ending)
  BY <1>1 DEF Jellyfin!StopPause, Ends
<1>3. Jellyfin!ArmPause(t) = Ends(t.end, t.callback, t.gen + 1, t.gen + 1, t.fired, t.ending)
  <2> DEFINE next == t.gen + 1
  <2>1. Jellyfin!ArmPause(t) = [t EXCEPT !.pause = next, !.gen = next]  BY DEF Jellyfin!ArmPause
  <2> HIDE DEF next
  <2>2. Jellyfin!ArmPause(t) = Ends(t.end, t.callback, next, next, t.fired, t.ending)  BY <1>1, <2>1 DEF Ends
  <2>3. QED  BY <2>2 DEF next
<1>4. [Jellyfin!StopPause(t) EXCEPT !.callback = "none"] = Ends(t.end, "none", 0, t.gen, t.fired, t.ending)
  BY <1>2 DEF Ends
<1>5. TypedEnds(Jellyfin!StopPause(t))  BY <1>2 DEF TypedEnds, Ends
<1>6. TypedEnds(Jellyfin!ArmPause(t))  BY <1>3 DEF TypedEnds, Ends
<1>7. t.end # "running" => TypedEnds([Jellyfin!StopPause(t) EXCEPT !.callback = "none"])
  BY <1>4 DEF TypedEnds, Ends
<1>8. QED  BY <1>2, <1>3, <1>4, <1>5, <1>6, <1>7

LEMMA PauseFields ==
  ASSUME NEW t, TypedEnds(t)
  PROVE  /\ LET r == Jellyfin!StopPause(t)
            IN  /\ r.end = t.end /\ r.callback = t.callback /\ r.pause = 0
                /\ r.gen = t.gen /\ r.fired = t.fired /\ r.ending = t.ending
         /\ LET r == Jellyfin!ArmPause(t)
            IN  /\ r.end = t.end /\ r.callback = t.callback /\ r.pause = t.gen + 1
                /\ r.gen = t.gen + 1 /\ r.fired = t.fired /\ r.ending = t.ending
<1> DEFINE r == Jellyfin!StopPause(t)   u == Jellyfin!ArmPause(t)   next == t.gen + 1
<1>1. r = Ends(t.end, t.callback, 0, t.gen, t.fired, t.ending) /\ u = Ends(t.end, t.callback, next, next, t.fired, t.ending)
  BY PauseForms
<1> HIDE DEF r, u, next
<1>2. /\ r.end = t.end /\ r.callback = t.callback /\ r.pause = 0
      /\ r.gen = t.gen /\ r.fired = t.fired /\ r.ending = t.ending
  BY <1>1 DEF Ends
<1>3. /\ u.end = t.end /\ u.callback = t.callback /\ u.pause = next
      /\ u.gen = next /\ u.fired = t.fired /\ u.ending = t.ending
  BY <1>1 DEF Ends
<1>4. QED  BY <1>2, <1>3 DEF r, u, next

LEMMA PlaybackTyped == TypedPlayback /\ Jellyfin!Next => TypedPlayback'
<1> SUFFICES ASSUME TypedPlayback, Jellyfin!Next  PROVE TypedPlayback'
  OBVIOUS
<1> USE DEF Jellyfin!Webhook, Ends, Jellyfin!Idle
<1>0. /\ playback = Jellyfin!Webhook(playback.what, playback.paused, playback.plan)
      /\ listed \in BOOLEAN /\ cardState \in {"none", "ongoing", "ended"}
      /\ debounced = [paused |-> debounced.paused, pos |-> debounced.pos]
      /\ TypedEnds(ends)
      /\ player = [player |-> player.player, pos |-> player.pos, delivered |-> player.delivered,
               hurt |-> player.hurt, raced |-> player.raced]
  BY DEF TypedPlayback
<1>10. /\ TypedEnds(Jellyfin!StopPause(ends)) /\ TypedEnds(Jellyfin!ArmPause(ends))
       /\ ends.end # "running" => TypedEnds([Jellyfin!StopPause(ends) EXCEPT !.callback = "none"])
  BY <1>0, PauseForms
<1>1. CASE Jellyfin!Start \/ Jellyfin!StaleStart \/ Jellyfin!Plays \/ Jellyfin!Pauses \/ Jellyfin!Seeks \/ Jellyfin!Stops
  BY <1>0, <1>1 DEF TypedPlayback, Jellyfin!Start, Jellyfin!StaleStart, Jellyfin!Plays, Jellyfin!Pauses, Jellyfin!Seeks,
     Jellyfin!Stops, Jellyfin!Deliver
<1>2. CASE Jellyfin!Work
  <2> USE DEF Jellyfin!Calls, Jellyfin!Then, Jellyfin!Advance, Jellyfin!Answer, Jellyfin!Fault, Jellyfin!Race
  <2>1. CASE Jellyfin!Debounce
    <3>1. TypedEnds(ends')
      BY <1>0, <1>10, <2>1 DEF Jellyfin!Debounce
    <3>2. /\ playback' = Jellyfin!Webhook(playback'.what, playback'.paused, playback'.plan)
          /\ debounced' = [paused |-> debounced'.paused, pos |-> debounced'.pos]
          /\ player' = [player |-> player'.player, pos |-> player'.pos, delivered |-> player'.delivered,
               hurt |-> player'.hurt, raced |-> player'.raced]
      BY <1>0, <2>1 DEF Jellyfin!Debounce
    <3>3. QED  BY <1>0, <2>1, <3>1, <3>2 DEF TypedPlayback, Jellyfin!Debounce
  <2>2. CASE Jellyfin!StopTimer
    BY <1>0, <2>2 DEF TypedPlayback, TypedEnds, Jellyfin!StopTimer
  <2>3. CASE Jellyfin!Exists
    BY <1>0, <2>3 DEF TypedPlayback, Jellyfin!Exists
  <2>4. CASE Jellyfin!CancelPause \/ Jellyfin!Remember \/ Jellyfin!Answered
    BY <1>0, <2>4 DEF TypedPlayback, TypedEnds, Jellyfin!CancelPause, Jellyfin!Remember, Jellyfin!Answered, Jellyfin!StopPause
  <2>5. CASE Jellyfin!CreateActivity \/ Jellyfin!UpdateActivity
    BY <1>0, <2>5 DEF TypedPlayback, Jellyfin!CreateActivity, Jellyfin!UpdateActivity, Jellyfin!Sent
  <2>6. CASE Jellyfin!SetRow
    BY <1>0, <2>6 DEF TypedPlayback, Jellyfin!SetRow
  <2>7. CASE Jellyfin!ScheduleEnd
    BY <1>0, <2>7 DEF TypedPlayback, TypedEnds, Jellyfin!ScheduleEnd
  <2>8. CASE Jellyfin!EndIfTracked
    BY <1>0, <2>8 DEF TypedPlayback, TypedEnds, Jellyfin!EndIfTracked
  <2>9. QED  BY <1>2, <2>1, <2>2, <2>3, <2>4, <2>5, <2>6, <2>7, <2>8 DEF Jellyfin!Work
<1>3. CASE Jellyfin!Timers
  <2> USE DEF Jellyfin!Fault
  <2>1. CASE Jellyfin!FirePause
    <3>1. TypedEnds(ends')
      <4> DEFINE begun == ends.fired \union {ends.pause}
      <4>1. begun \subseteq 1..ends.gen  BY <1>0, <2>1 DEF TypedEnds, Jellyfin!FirePause
      <4>2. ends' = [ends EXCEPT !.fired = begun]  BY <2>1 DEF Jellyfin!FirePause
      <4> HIDE DEF begun
      <4>3. QED  BY <1>0, <4>1, <4>2 DEF TypedEnds
    <3>2. QED  BY <1>0, <2>1, <3>1 DEF TypedPlayback, Jellyfin!FirePause
  <2>10. CASE Jellyfin!EndPaused
    <3>1. TypedEnds(ends')
      <4>1. PICK gen \in ends.fired :
              ends' = IF Jellyfin!Superseded(gen) THEN [ends EXCEPT !.fired = @ \ {gen}]
                      ELSE [ends EXCEPT !.fired = @ \ {gen}, !.pause = 0, !.ending = TRUE]
        BY <2>1, <2>10 DEF Jellyfin!EndPaused
      <4> DEFINE begun == ends.fired \ {gen}   over == TRUE
      <4>2. begun \subseteq 1..ends.gen  BY <1>0 DEF TypedEnds
      <4>3. over \in BOOLEAN  OBVIOUS
      <4>4. \/ ends' = [ends EXCEPT !.fired = begun]
            \/ ends' = [ends EXCEPT !.fired = begun, !.pause = 0, !.ending = over]
        BY <4>1
      <4> HIDE DEF begun, over
      <4>5. ends.gen \in Nat /\ 0 \in 0..ends.gen  BY <1>0 DEF TypedEnds
      <4>6. CASE ends' = [ends EXCEPT !.fired = begun]  BY <1>0, <4>2, <4>6 DEF TypedEnds
      <4>7. CASE ends' = [ends EXCEPT !.fired = begun, !.pause = 0, !.ending = over]
        <5>1. ends' = Ends(ends.end, ends.callback, 0, ends.gen, begun, over)
          BY <1>0, <4>7 DEF TypedEnds
        <5>2. QED  BY <1>0, <4>2, <4>3, <4>5, <5>1 DEF TypedEnds
      <4>8. QED  BY <4>4, <4>6, <4>7
    <3>2. QED  BY <1>0, <2>10, <3>1 DEF TypedPlayback, Jellyfin!EndPaused
  <2>2. CASE Jellyfin!EndPausedSchedules \/ Jellyfin!Phase1 \/ Jellyfin!Phase2
    BY <1>0, <2>2 DEF TypedPlayback, TypedEnds, Jellyfin!EndPausedSchedules, Jellyfin!Phase1, Jellyfin!Phase2
  <2>3. CASE Jellyfin!SendEnded \/ Jellyfin!DeleteRow
    BY <1>0, <2>3 DEF TypedPlayback, TypedEnds, Jellyfin!SendEnded, Jellyfin!DeleteRow
  <2>4. CASE Jellyfin!CleanupDebounce
    <3>1. TypedEnds(ends')  BY <1>0, <1>10, <2>4 DEF Jellyfin!CleanupDebounce, TypedEnds
    <3>2. QED  BY <1>0, <2>4, <3>1 DEF TypedPlayback, Jellyfin!CleanupDebounce, Jellyfin!NoMemory
  <2>5. QED  BY <1>3, <2>1, <2>10, <2>2, <2>3, <2>4 DEF Jellyfin!Timers
<1>4. CASE Jellyfin!Sweep
  BY <1>0, <1>10, <1>4 DEF TypedPlayback, Jellyfin!Sweep, Jellyfin!NoMemory, Jellyfin!Fault
<1>6. CASE Jellyfin!Crash
  <2>1. TypedEnds(Jellyfin!NoTimers)
    <3> DEFINE off == FALSE   nobody == {}
    <3>1. off \in BOOLEAN /\ nobody \subseteq 1..0  OBVIOUS
    <3>2. Jellyfin!NoTimers = Ends("none", "none", 0, 0, nobody, off)  BY DEF Jellyfin!NoTimers
    <3> HIDE DEF off, nobody
    <3>3. QED  BY <3>1, <3>2 DEF TypedEnds
  <2>2. QED  BY <1>0, <1>6, <2>1 DEF TypedPlayback, Jellyfin!Crash, Jellyfin!NoMemory, Jellyfin!Fault
<1>5. QED  BY <1>1, <1>2, <1>3, <1>4, <1>6 DEF Jellyfin!Next

(* What a webhook's plan begins with.                                       *)
LEMMA Heads ==
  /\ Head(Jellyfin!Starting) = "stop" /\ Head(<<"remember">>) = "remember" /\ Head(<<"debounce">>) = "debounce"
  /\ Head(<<"unpause", "schedule">>) = "unpause" /\ Head(<<"unpause", "endIfTracked">>) = "unpause"
<1>1. Head(<<"stop", "create", "set", "update", "remember">>) = "stop"  OBVIOUS
<1>2. /\ Head(<<"remember">>) = "remember" /\ Head(<<"debounce">>) = "debounce"
      /\ Head(<<"unpause", "schedule">>) = "unpause" /\ Head(<<"unpause", "endIfTracked">>) = "unpause"
  OBVIOUS
<1>3. QED  BY <1>1, <1>2 DEF Jellyfin!Starting

(* A webhook is delivered.                                                  *)
LEMMA DeliveryKept ==
  ASSUME TypedPlayback, Accounted, Stage,
         \/ Jellyfin!Start \/ Jellyfin!StaleStart \/ Jellyfin!Plays
         \/ Jellyfin!Pauses \/ Jellyfin!Seeks \/ Jellyfin!Stops
  PROVE  Accounted' /\ Stage'
<1> USE DEF Jellyfin!Start, Jellyfin!StaleStart, Jellyfin!Plays, Jellyfin!Pauses, Jellyfin!Seeks,
            Jellyfin!Stops, Jellyfin!Deliver
<1>1. /\ playback = Jellyfin!Idle /\ UNCHANGED <<listed, debounced, ends, cardState>>
      /\ player'.hurt = player.hurt
      /\ Head(playback'.plan) # "set"
  <2>1. player = [player |-> player.player, pos |-> player.pos, delivered |-> player.delivered,
               hurt |-> player.hurt, raced |-> player.raced]
    BY DEF TypedPlayback
  <2>2. playback = Jellyfin!Idle /\ UNCHANGED <<listed, debounced, ends, cardState>>  OBVIOUS
  <2>3. player'.hurt = player.hurt  BY <2>1
  <2>4. CASE Jellyfin!Start  BY <2>2, <2>3, <2>4, Heads DEF Jellyfin!Webhook
  <2>5. CASE Jellyfin!Stops
    <3>1. PICK call \in {"schedule", "endIfTracked"} :
            playback' = Jellyfin!Webhook("stop", "play", <<"unpause", call>>)
      BY <2>5
    <3>2. playback'.plan = <<"unpause", call>>  BY <3>1 DEF Jellyfin!Webhook
    <3>3. Head(playback'.plan) = "unpause"  BY <3>2, Heads
    <3>4. QED  BY <2>2, <2>3, <3>3
  <2>6. CASE Jellyfin!StaleStart  BY <2>2, <2>3, <2>6, Heads DEF Jellyfin!Webhook
  <2>7. CASE Jellyfin!Plays  BY <2>2, <2>3, <2>7, Heads DEF Jellyfin!Webhook
  <2>8. CASE Jellyfin!Pauses  BY <2>2, <2>3, <2>8, Heads DEF Jellyfin!Webhook
  <2>9. CASE Jellyfin!Seeks
    <3>1. playback' = Jellyfin!Webhook("progress", "pause", <<"debounce">>)  BY <2>9
    <3>2. playback'.plan = <<"debounce">>  BY <3>1 DEF Jellyfin!Webhook
    <3>3. QED  BY <2>2, <2>3, <3>2, Heads
  <2>10. QED  BY <2>4, <2>5, <2>6, <2>7, <2>8, <2>9
<1>2. /\ Up' = Up /\ Left' = Left /\ Gone' = Gone /\ Nothing' = Nothing
  BY <1>1 DEF Up, Left, Gone, Nothing, Calm, Still, Pledged, Unhurt, Coming
<1>3. Accounted'
  <2>1. QED  BY <1>1, Heads DEF Accounted, Unhurt, Jellyfin!Idle
<1>4. Stage'
  <2>1. player = [player |-> player.player, pos |-> player.pos, delivered |-> player.delivered,
               hurt |-> player.hurt, raced |-> player.raced]
    BY DEF TypedPlayback
  <2>2. CASE Jellyfin!Start
    <3>1. Starting(Jellyfin!Starting)'  BY <2>1, <2>2 DEF Starting, At
    <3>2. QED  BY <3>1 DEF Stage
  <2>3. CASE Jellyfin!StaleStart
    <3>1. Stale(<<"remember">>)'  BY <2>1, <2>3 DEF Stale, At
    <3>2. Nothing => Gone  BY DEF Nothing, Gone, Calm, Pledged
    <3>3. Gone'  BY <1>1, <1>2, <2>3, <3>2, IdleStage
    <3>4. QED  BY <3>1, <3>3 DEF Stage
  <2>4. CASE Jellyfin!Plays
    <3>1. Playing(<<"debounce">>)'  BY <2>1, <2>4 DEF Playing, At
    <3>2. debounced.paused = "play" => Up
      BY <1>1, <2>4, IdleStage DEF Nothing, Left
    <3>3. QED  BY <1>1, <1>2, <3>1, <3>2 DEF Stage
  <2>5. CASE Jellyfin!Pauses \/ Jellyfin!Seeks
    <3>1. Pausing(<<"debounce">>)'  BY <2>1, <2>5 DEF Pausing, At
    <3>2. Up \/ Left  BY <1>1, <2>5, IdleStage
    <3>3. QED  BY <1>2, <3>1, <3>2 DEF Stage
  <2>6. CASE Jellyfin!Stops
    <3>1. Quitting(<<"unpause", "schedule">>)' \/ Quitting(<<"unpause", "endIfTracked">>)'
      BY <2>1, <2>6 DEF Quitting, At
    <3>2. QED  BY <3>1 DEF Stage
  <2>7. QED  BY <2>2, <2>3, <2>4, <2>5, <2>6
<1>5. QED  BY <1>3, <1>4

(* The debounce, under the lock.                                            *)
LEMMA DebounceKept ==
  ASSUME TypedPlayback, Accounted, Stage, Jellyfin!Debounce
  PROVE  Accounted' /\ Stage'
<1>1. /\ Jellyfin!Calls("debounce") /\ UNCHANGED <<listed, cardState>>
      /\ player'.player = player.player /\ player'.hurt = player.hurt
  BY DEF Jellyfin!Debounce, Jellyfin!Race, TypedPlayback
<1>2. playback.plan # <<>> /\ Head(playback.plan) # "set"  BY <1>1 DEF Jellyfin!Calls
<1>3. Unhurt' = Unhurt  BY <1>1 DEF Unhurt
<1>4. TypedEnds(ends) /\ playback = Jellyfin!Webhook(playback.what, playback.paused, playback.plan)
      /\ debounced = [paused |-> debounced.paused, pos |-> debounced.pos]
  BY DEF TypedPlayback
<1>5. CASE Playing(<<"debounce">>) /\ (debounced.paused = "play" => Up)
  <2>1. playback.paused = "play" /\ player.player = "playing" /\ playback.what = "progress"
    BY <1>5 DEF Playing, At, Jellyfin!Webhook
  <2>2. CASE Jellyfin!Answer
    <3>1. debounced.paused = "play" /\ UNCHANGED <<debounced, ends>>
      BY <1>2, <1>4, <2>1, <2>2 DEF Jellyfin!Debounce, Jellyfin!Answer, Jellyfin!Then, Jellyfin!Idle, Jellyfin!Webhook
    <3>2. Up'  BY <1>1, <1>5, <3>1 DEF Up, Calm, Still
    <3>3. Stage'  BY <1>1, <2>1, <2>2, <3>2 DEF Stage, Jellyfin!Answer
    <3>4. Accounted'  BY <1>1, <1>2, <1>3, <3>1 DEF Accounted
    <3>5. QED  BY <3>3, <3>4
  <2>3. CASE Jellyfin!Then(<<"stop", "exists">>)
    <3>1. debounced' = [paused |-> playback.paused, pos |-> player.pos]
          /\ (ends' = Jellyfin!StopPause(ends) \/ (ends' = ends /\ debounced.paused # "pause"))
      BY <1>4, <2>1, <2>3 DEF Jellyfin!Debounce, Jellyfin!Answer, Jellyfin!Then, Jellyfin!Idle, Jellyfin!Webhook
    <3>2. ends'.pause = 0 /\ ends'.callback = ends.callback
      BY <1>4, <3>1, PauseFields DEF Accounted
    <3>3. debounced'.paused = "play"  BY <2>1, <3>1
    <3>4. Resumed'  BY <3>2, <3>3 DEF Resumed
    <3>5. Playing(<<"stop", "exists">>)'
      BY <1>1, <1>4, <1>5, <2>3 DEF Playing, At, Jellyfin!Then, Jellyfin!Webhook
    <3>6. Stage'  BY <3>4, <3>5 DEF Stage
    <3>7. playback'.plan = <<"stop", "exists">>  BY <3>5 DEF Playing, At, Jellyfin!Webhook
    <3>8. Accounted'  BY <1>1, <1>2, <1>3, <3>2, <3>3, <3>7 DEF Accounted
    <3>9. QED  BY <3>6, <3>8
  <2>4. QED  BY <2>2, <2>3 DEF Jellyfin!Debounce
<1>6. CASE Pausing(<<"debounce">>) /\ (Up \/ Left)
  <2>1. playback.paused = "pause" /\ player.player = "paused" /\ playback.what = "progress"
    BY <1>6 DEF Pausing, At, Jellyfin!Webhook
  <2>0. ends.gen \in Nat /\ ends.gen + 1 \in Nat \ {0} /\ ends.gen + 1 \notin ends.fired
    BY <1>4 DEF TypedEnds
  <2>2. CASE Jellyfin!Answer
    <3>1. /\ debounced.paused = "pause" /\ debounced' = [debounced EXCEPT !.pos = player.pos]
          /\ ends' = ends \/ ends' = Jellyfin!ArmPause(ends)
      BY <1>2, <1>4, <2>1, <2>2 DEF Jellyfin!Debounce, Jellyfin!Answer, Jellyfin!Then, Jellyfin!Idle, Jellyfin!Webhook
    <3>2. debounced'.paused = "pause"  BY <1>4, <3>1
    <3>3. Left  BY <1>6, <3>1 DEF Up
    <3>4. /\ ends'.callback = ends.callback /\ ends'.end = ends.end /\ ends'.ending = ends.ending
          /\ ends.pause # 0 => ends'.pause # 0
      BY <1>4, <2>0, <3>1, PauseFields
    <3>5. Left'  BY <1>1, <1>3, <3>2, <3>3, <3>4 DEF Left, Pledged, Coming
    <3>6. Stage'  BY <1>1, <2>1, <2>2, <3>5 DEF Stage, Jellyfin!Answer
    <3>7. Accounted'  BY <1>1, <1>2, <1>3, <3>2, <3>4 DEF Accounted
    <3>8. QED  BY <3>6, <3>7
  <2>3. CASE Jellyfin!Then(<<"stop", "exists">>)
    <3>1. debounced' = [paused |-> playback.paused, pos |-> player.pos]
          /\ ends' = Jellyfin!ArmPause(ends)
      BY <1>4, <2>1, <2>3 DEF Jellyfin!Debounce, Jellyfin!Answer, Jellyfin!Then, Jellyfin!Idle, Jellyfin!Webhook
    <3>2. ends'.pause = ends.gen + 1 /\ ends'.callback = ends.callback /\ ends'.fired = ends.fired
      BY <1>4, <3>1, PauseFields
    <3>3. debounced'.paused = "pause"  BY <2>1, <3>1
    <3>4. Paused' /\ ends'.pause # 0  BY <2>0, <3>2, <3>3 DEF Paused
    <3>5. Pausing(<<"stop", "exists">>)'
      BY <1>1, <1>4, <1>6, <2>3 DEF Pausing, At, Jellyfin!Then, Jellyfin!Webhook
    <3>6. Stage'  BY <3>4, <3>5 DEF Stage
    <3>7. playback'.plan = <<"stop", "exists">>  BY <3>5 DEF Pausing, At, Jellyfin!Webhook
    <3>8. Accounted'  BY <1>1, <1>2, <1>3, <3>2, <3>3, <3>7 DEF Accounted
    <3>9. QED  BY <3>6, <3>8
  <2>4. QED  BY <2>2, <2>3 DEF Jellyfin!Debounce
<1>7. QED  BY <1>1, <1>5, <1>6, DebounceStage

(* What is left of a plan after its first call.                             *)
LEMMA Tails ==
  /\ Tail(Jellyfin!Starting) = <<"create", "set", "update", "remember">>
  /\ Tail(<<"create", "set", "update", "remember">>) = <<"set", "update", "remember">>
  /\ Tail(<<"set", "update", "remember">>) = <<"update", "remember">>
  /\ Tail(<<"update", "remember">>) = <<"remember">>
  /\ Tail(<<"create", "set", "update">>) = <<"set", "update">> /\ Tail(<<"set", "update">>) = <<"update">>
  /\ Tail(<<"stop", "exists">>) = <<"exists">>
  /\ Tail(<<"unpause", "schedule">>) = <<"schedule">> /\ Tail(<<"unpause", "endIfTracked">>) = <<"endIfTracked">>
  /\ \A call : Tail(<<call>>) = <<>>
<1>1. /\ Tail(<<"stop", "create", "set", "update", "remember">>) = <<"create", "set", "update", "remember">>
      /\ Tail(<<"create", "set", "update", "remember">>) = <<"set", "update", "remember">>
      /\ Tail(<<"set", "update", "remember">>) = <<"update", "remember">>
  OBVIOUS
<1>2. /\ Tail(<<"create", "set", "update">>) = <<"set", "update">> /\ Tail(<<"set", "update">>) = <<"update">>
      /\ Tail(<<"update", "remember">>) = <<"remember">>
      /\ Tail(<<"stop", "exists">>) = <<"exists">>
      /\ Tail(<<"unpause", "schedule">>) = <<"schedule">> /\ Tail(<<"unpause", "endIfTracked">>) = <<"endIfTracked">>
  OBVIOUS
<1>3. \A call : Tail(<<call>>) = <<>>  OBVIOUS
<1>4. QED  BY <1>1, <1>2, <1>3 DEF Jellyfin!Starting

(* A handler's next call leaves it what it works on.                        *)
LEMMA Moves ==
  ASSUME TypedPlayback, NEW plan, Jellyfin!Then(plan), player'.player = player.player
  PROVE  /\ \A p : Starting(p) => Starting(plan)'
         /\ \A p : Stale(p) => Stale(plan)'
         /\ \A p : Playing(p) => Playing(plan)'
         /\ \A p : Pausing(p) => Pausing(plan)'
         /\ \A p : Quitting(p) => Quitting(plan)'
         /\ playback'.plan = plan /\ playback'.what = playback.what /\ playback'.paused = playback.paused
BY DEF TypedPlayback, Jellyfin!Then, Jellyfin!Webhook, Starting, Stale, Playing, Pausing, Quitting, At

LEMMA PlanOf ==
  \A p : /\ Starting(p) => playback.plan = p /\ playback.what = "start" /\ playback.paused = "play"
         /\ Stale(p) => playback.plan = p /\ playback.what = "stale" /\ playback.paused = "pause"
         /\ Playing(p) => playback.plan = p /\ playback.what = "progress" /\ playback.paused = "play"
         /\ Pausing(p) => playback.plan = p /\ playback.what = "progress" /\ playback.paused = "pause"
         /\ Quitting(p) => playback.plan = p /\ playback.what = "stop" /\ playback.paused = "play"
BY DEF Starting, Stale, Playing, Pausing, Quitting, At, Jellyfin!Webhook

(* The calls of a handler.                                                  *)
LEMMA StopKept ==
  ASSUME TypedPlayback, Accounted, Stage, Survived', Jellyfin!StopTimer
  PROVE  Accounted' /\ Stage'
<1>1. /\ Jellyfin!Calls("stop") /\ UNCHANGED <<listed, debounced, cardState>>
      /\ player'.player = player.player /\ player'.hurt = player.hurt
      /\ ends' = [ends EXCEPT !.end = "none"]
      /\ ends.callback = "none" /\ ~ends.ending /\ ~(playback.what = "start" /\ ends.pause # 0)
      /\ Jellyfin!Then(Tail(playback.plan))
  BY DEF Jellyfin!StopTimer, Jellyfin!Race, Jellyfin!Advance, TypedPlayback, TypedEnds, Survived
<1>2. /\ ends'.end = "none" /\ ends'.callback = "none" /\ ~ends'.ending
      /\ ends'.pause = ends.pause /\ ends'.fired = ends.fired
  BY <1>1 DEF TypedPlayback, TypedEnds, Ends
<1>3. Still' /\ Unhurt' = Unhurt  BY <1>1, <1>2 DEF Still, Unhurt
<1>4. Head(playback.plan) # "set"  BY <1>1 DEF Jellyfin!Calls
<1>5. Accounted'  BY <1>1, <1>2, <1>3, <1>4 DEF Accounted
<1>6. CASE Starting(Jellyfin!Starting)
  <2>1. Starting(<<"create", "set", "update", "remember">>)'  BY <1>1, <1>6, Moves, PlanOf, Tails
  <2>2. Calm'  BY <1>1, <1>2, <1>3, <1>6, PlanOf DEF Calm
  <2>3. QED  BY <1>5, <2>1, <2>2 DEF Stage
<1>7. CASE Playing(<<"stop", "exists">>) /\ Resumed
  <2>1. Playing(<<"exists">>)'  BY <1>1, <1>7, Moves, PlanOf, Tails
  <2>2. Resumed'  BY <1>1, <1>2, <1>7 DEF Resumed
  <2>3. QED  BY <1>3, <1>5, <2>1, <2>2 DEF Stage
<1>8. CASE Pausing(<<"stop", "exists">>) /\ Paused /\ (Unhurt /\ listed => ends.pause # 0)
  <2>1. Pausing(<<"exists">>)'  BY <1>1, <1>8, Moves, PlanOf, Tails
  <2>2. Paused'  BY <1>1, <1>2, <1>8 DEF Paused
  <2>3. QED  BY <1>1, <1>2, <1>3, <1>5, <1>8, <2>1, <2>2 DEF Stage
<1>9. QED  BY <1>1, <1>6, <1>7, <1>8, StopStage

LEMMA ExistsKept ==
  ASSUME TypedPlayback, Accounted, Stage, Survived', Jellyfin!Exists
  PROVE  Accounted' /\ Stage'
<1>1. /\ Jellyfin!Calls("exists") /\ UNCHANGED <<listed, debounced, cardState, ends>>
      /\ player'.player = player.player /\ (Unhurt' => Unhurt)
      /\ \/ listed /\ Jellyfin!Then(<<"update">>)
         \/ playback.paused = "pause" /\ Jellyfin!Then(<<"unpause">>) /\ (Unhurt' => ~listed)
         \/ playback.paused # "pause" /\ Jellyfin!Then(<<"create", "set", "update">>)
  BY DEF Jellyfin!Exists, Jellyfin!Fault, TypedPlayback, Unhurt
<1>2. Still' = Still /\ Resumed' = Resumed /\ Paused' = Paused
  BY <1>1 DEF Still, Resumed, Paused
<1>4. Head(playback.plan) # "set"  BY <1>1 DEF Jellyfin!Calls
<1>5. Accounted'  BY <1>1, <1>2, <1>4 DEF Accounted
<1>6. CASE Playing(<<"exists">>) /\ Resumed /\ Still
  <2>1. playback.paused = "play"  BY <1>6, PlanOf
  <2>2. CASE listed /\ Jellyfin!Then(<<"update">>)
    <3>1. Playing(<<"update">>)'  BY <1>1, <1>6, <2>2, Moves
    <3>2. QED  BY <1>1, <1>2, <1>5, <1>6, <2>2, <3>1 DEF Stage
  <2>3. CASE Jellyfin!Then(<<"create", "set", "update">>)
    <3>1. Playing(<<"create", "set", "update">>)'  BY <1>1, <1>6, <2>3, Moves
    <3>2. QED  BY <1>1, <1>2, <1>5, <1>6, <3>1 DEF Stage
  <2>4. QED  BY <1>1, <2>1, <2>2, <2>3
<1>7. CASE Pausing(<<"exists">>) /\ Paused /\ Still /\ (Unhurt /\ listed => ends.pause # 0)
  <2>1. playback.paused = "pause"  BY <1>7, PlanOf
  <2>2. CASE listed /\ Jellyfin!Then(<<"update">>)
    <3>1. Pausing(<<"update">>)'  BY <1>1, <1>7, <2>2, Moves
    <3>2. QED  BY <1>1, <1>2, <1>5, <1>7, <2>2, <3>1 DEF Stage
  <2>3. CASE Jellyfin!Then(<<"unpause">>) /\ (Unhurt' => ~listed)
    <3>1. Pausing(<<"unpause">>)'  BY <1>1, <1>7, <2>3, Moves
    <3>2. QED  BY <1>1, <1>2, <1>5, <1>7, <2>3, <3>1 DEF Stage
  <2>4. QED  BY <1>1, <2>1, <2>2, <2>3
<1>8. QED  BY <1>1, <1>6, <1>7, ExistsStage

LEMMA UnpauseKept ==
  ASSUME TypedPlayback, Accounted, Stage, Jellyfin!CancelPause
  PROVE  Accounted' /\ Stage'
<1>1. /\ Jellyfin!Calls("unpause") /\ UNCHANGED <<listed, debounced, cardState, player>>
      /\ ends' = Jellyfin!StopPause(ends) /\ Jellyfin!Then(Tail(playback.plan)) /\ TypedEnds(ends)
  BY DEF Jellyfin!CancelPause, Jellyfin!Advance, TypedPlayback
<1>2. /\ ends'.end = ends.end /\ ends'.callback = ends.callback /\ ends'.ending = ends.ending
      /\ ends'.pause = 0
  BY <1>1, PauseFields
<1>3. Unhurt' = Unhurt  BY <1>1 DEF Unhurt
<1>4. Head(playback.plan) # "set"  BY <1>1 DEF Jellyfin!Calls
<1>5. Accounted'  BY <1>1, <1>2, <1>3, <1>4 DEF Accounted
<1>6. CASE Pausing(<<"unpause">>) /\ Paused /\ Still /\ (Unhurt => ~listed)
  <2>1. Pausing(<<>>)'  BY <1>1, <1>6, Moves, PlanOf, Tails
  <2>2. Left'  BY <1>1, <1>3, <1>4, <1>6 DEF Left, Pledged, Paused, Accounted
  <2>3. QED  BY <1>5, <2>1, <2>2 DEF Stage
<1>7. CASE Quitting(<<"unpause", "schedule">>)
  <2>1. Quitting(<<"schedule">>)'  BY <1>1, <1>7, Moves, PlanOf, Tails
  <2>2. QED  BY <1>2, <1>5, <2>1 DEF Stage
<1>8. CASE Quitting(<<"unpause", "endIfTracked">>)
  <2>1. Quitting(<<"endIfTracked">>)'  BY <1>1, <1>8, Moves, PlanOf, Tails
  <2>2. QED  BY <1>2, <1>5, <2>1 DEF Stage
<1>9. QED  BY <1>1, <1>6, <1>7, <1>8, UnpauseStage

LEMMA CreateKept ==
  ASSUME TypedPlayback, Accounted, Stage, Survived', Jellyfin!CreateActivity
  PROVE  Accounted' /\ Stage'
<1>1. /\ Jellyfin!Calls("create") /\ UNCHANGED <<listed, debounced, ends, player>>
      /\ cardState' = "ongoing" /\ Jellyfin!Then(Tail(playback.plan))
  BY DEF Jellyfin!CreateActivity, Jellyfin!Sent, Jellyfin!Fault, Jellyfin!Advance, Survived, TypedPlayback
<1>2. Calm' = Calm /\ Still' = Still /\ Resumed' = Resumed /\ Unhurt' = Unhurt
  BY <1>1 DEF Calm, Still, Resumed, Unhurt
<1>3. ASSUME Still, Head(playback'.plan) = "set", playback'.plan # <<>>  PROVE Accounted'
  BY <1>1, <1>2, <1>3 DEF Accounted, Still
<1>4. CASE Starting(<<"create", "set", "update", "remember">>) /\ Calm
  <2>1. Starting(<<"set", "update", "remember">>)'  BY <1>1, <1>4, Moves, PlanOf, Tails
  <2>2. playback'.plan = <<"set", "update", "remember">>  BY <2>1 DEF Starting, At, Jellyfin!Webhook
  <2>3. Accounted'  BY <1>3, <1>4, <2>2 DEF Calm
  <2>4. QED  BY <1>1, <1>2, <1>4, <2>1, <2>3 DEF Stage
<1>5. CASE Playing(<<"create", "set", "update">>) /\ Resumed /\ Still
  <2>1. Playing(<<"set", "update">>)'  BY <1>1, <1>5, Moves, PlanOf, Tails
  <2>2. playback'.plan = <<"set", "update">>  BY <2>1 DEF Playing, At, Jellyfin!Webhook
  <2>3. Accounted'  BY <1>3, <1>5, <2>2
  <2>4. QED  BY <1>1, <1>2, <1>5, <2>1, <2>3 DEF Stage
<1>6. QED  BY <1>1, <1>4, <1>5, CreateStage

LEMMA UpdateKept ==
  ASSUME TypedPlayback, Accounted, Stage, Survived', Jellyfin!UpdateActivity
  PROVE  Accounted' /\ Stage'
<1>1. /\ Jellyfin!Calls("update") /\ UNCHANGED <<listed, debounced, ends, player>>
      /\ cardState' = IF cardState = "none" THEN "none" ELSE "ongoing"
      /\ Jellyfin!Then(Tail(playback.plan))
  BY DEF Jellyfin!UpdateActivity, Jellyfin!Sent, Jellyfin!Fault, Jellyfin!Advance, Survived, TypedPlayback
<1>2. Calm' = Calm /\ Still' = Still /\ Resumed' = Resumed /\ Unhurt' = Unhurt
  BY <1>1 DEF Calm, Still, Resumed, Unhurt
<1>3. ASSUME Still, Unhurt => listed  PROVE Accounted'
  BY <1>1, <1>2, <1>3 DEF Accounted, Still
<1>4. CASE Starting(<<"update", "remember">>) /\ Calm /\ cardState = "ongoing" /\ listed
  <2>1. Starting(<<"remember">>)'  BY <1>1, <1>4, Moves, PlanOf, Tails
  <2>2. Accounted'  BY <1>3, <1>4 DEF Calm
  <2>3. QED  BY <1>1, <1>2, <1>4, <2>1, <2>2 DEF Stage
<1>5. CASE Playing(<<"update">>) /\ Resumed /\ Still /\ listed
  <2>1. Playing(<<>>)'  BY <1>1, <1>5, Moves, PlanOf, Tails
  <2>2. cardState' = "ongoing"  BY <1>1, <1>5 DEF Accounted
  <2>3. Up'  BY <1>1, <1>2, <1>5, <2>2 DEF Up, Calm, Resumed
  <2>4. Accounted'  BY <1>3, <1>5
  <2>5. QED  BY <2>1, <2>3, <2>4 DEF Stage
<1>6. CASE Pausing(<<"update">>) /\ Paused /\ Still /\ (Unhurt => listed /\ ends.pause # 0)
  <2>1. Pausing(<<>>)'  BY <1>1, <1>6, Moves, PlanOf, Tails
  <2>2. Left'  BY <1>1, <1>2, <1>6 DEF Left, Pledged, Coming, Paused
  <2>3. Accounted'  BY <1>3, <1>6
  <2>4. QED  BY <2>1, <2>2, <2>3 DEF Stage
<1>7. QED  BY <1>1, <1>4, <1>5, <1>6, UpdateStage

LEMMA SetKept ==
  ASSUME TypedPlayback, Accounted, Stage, Survived', Jellyfin!SetRow
  PROVE  Accounted' /\ Stage'
<1>1. /\ Jellyfin!Calls("set") /\ UNCHANGED <<cardState, debounced, ends, player>>
      /\ listed' = TRUE /\ Jellyfin!Then(Tail(playback.plan))
  BY DEF Jellyfin!SetRow, Jellyfin!Fault, Jellyfin!Advance, Survived, TypedPlayback
<1>2. Calm' = Calm /\ Still' = Still /\ Resumed' = Resumed /\ Unhurt' = Unhurt
  BY <1>1 DEF Calm, Still, Resumed, Unhurt
<1>3. ASSUME Still, cardState = "ongoing"  PROVE Accounted'
  BY <1>1, <1>2, <1>3 DEF Accounted, Still
<1>4. CASE Starting(<<"set", "update", "remember">>) /\ Calm /\ cardState = "ongoing"
  <2>1. Starting(<<"update", "remember">>)'  BY <1>1, <1>4, Moves, PlanOf, Tails
  <2>2. Accounted'  BY <1>3, <1>4 DEF Calm
  <2>3. QED  BY <1>1, <1>2, <1>4, <2>1, <2>2 DEF Stage
<1>5. CASE Playing(<<"set", "update">>) /\ Resumed /\ Still /\ cardState = "ongoing"
  <2>1. Playing(<<"update">>)'  BY <1>1, <1>5, Moves, PlanOf, Tails
  <2>2. Accounted'  BY <1>3, <1>5
  <2>3. QED  BY <1>1, <1>2, <1>5, <2>1, <2>2 DEF Stage
<1>6. QED  BY <1>1, <1>4, <1>5, SetStage

LEMMA RememberKept ==
  ASSUME TypedPlayback, Accounted, Stage, Jellyfin!Remember
  PROVE  Accounted' /\ Stage'
<1>1. /\ Jellyfin!Calls("remember") /\ UNCHANGED <<listed, cardState, ends, player>>
      /\ debounced' = [paused |-> playback.paused, pos |-> player.pos]
      /\ Jellyfin!Then(Tail(playback.plan))
  BY DEF Jellyfin!Remember, Jellyfin!Advance
<1>2. /\ Calm' = Calm /\ Gone' = Gone /\ Unhurt' = Unhurt /\ debounced'.paused = playback.paused
  BY <1>1 DEF Calm, Still, Gone, Pledged, Coming, Unhurt
<1>3. Head(playback.plan) # "set"  BY <1>1 DEF Jellyfin!Calls
<1>4. ASSUME ends.pause = 0  PROVE Accounted'
  BY <1>1, <1>2, <1>3, <1>4 DEF Accounted
<1>5. CASE Starting(<<"remember">>) /\ Calm /\ cardState = "ongoing" /\ listed
  <2>1. Starting(<<>>)' /\ playback.paused = "play"  BY <1>1, <1>5, Moves, PlanOf, Tails
  <2>2. Up'  BY <1>1, <1>2, <1>5, <2>1 DEF Up
  <2>3. Accounted'  BY <1>4, <1>5 DEF Calm
  <2>4. QED  BY <2>1, <2>2, <2>3 DEF Stage
<1>6. CASE Stale(<<"remember">>) /\ Gone
  <2>1. Stale(<<>>)'  BY <1>1, <1>6, Moves, PlanOf, Tails
  <2>2. Accounted'  BY <1>4, <1>6 DEF Gone
  <2>3. QED  BY <1>2, <1>6, <2>1, <2>2 DEF Stage
<1>7. QED  BY <1>1, <1>5, <1>6, RememberStage

LEMMA EndKept ==
  ASSUME TypedPlayback, Accounted, Stage, Survived', Jellyfin!ScheduleEnd \/ Jellyfin!EndIfTracked
  PROVE  Accounted' /\ Stage'
<1>0. /\ TypedEnds(ends) /\ listed \in BOOLEAN
      /\ player = [player |-> player.player, pos |-> player.pos, delivered |-> player.delivered,
               hurt |-> player.hurt, raced |-> player.raced]
  BY DEF TypedPlayback
<1>1. /\ Jellyfin!Calls("schedule") \/ Jellyfin!Calls("endIfTracked")
      /\ UNCHANGED <<listed, debounced, cardState>> /\ Jellyfin!Then(Tail(playback.plan))
      /\ player'.player = player.player /\ (Unhurt' => Unhurt)
  BY <1>0 DEF Jellyfin!ScheduleEnd, Jellyfin!EndIfTracked, Jellyfin!Fault, Jellyfin!Race, Jellyfin!Advance, Unhurt
<1>2. /\ ends'.callback = ends.callback /\ ends'.ending = ends.ending /\ ends'.pause = ends.pause
      /\ Unhurt' /\ listed => ends'.end \in {"phase1", "phase2"}
  <2>1. CASE Jellyfin!ScheduleEnd
    <3>1. ends' = [ends EXCEPT !.end = "phase1"]  BY <2>1 DEF Jellyfin!ScheduleEnd
    <3>2. QED  BY <1>0, <3>1 DEF TypedEnds, Ends
  <2>2. CASE Jellyfin!EndIfTracked /\ ends' = ends /\ ~Unhurt'
    BY <2>2
  <2>3. CASE Jellyfin!EndIfTracked /\ ~(ends' = ends /\ ~Unhurt')
    <3>1. /\ ends' = [ends EXCEPT !.end = IF listed /\ ends.end = "none" THEN "phase1" ELSE ends.end]
          /\ ends.callback = "none"
      BY <1>0, <2>3 DEF Jellyfin!EndIfTracked, Jellyfin!Fault, Jellyfin!Race, Survived, Unhurt
    <3> DEFINE then == IF listed /\ ends.end = "none" THEN "phase1" ELSE ends.end
    <3>2. listed => then \in {"phase1", "phase2"}  BY <1>0, <3>1 DEF TypedEnds
    <3>3. ends' = [ends EXCEPT !.end = then]  BY <3>1
    <3> HIDE DEF then
    <3>4. QED  BY <1>0, <3>2, <3>3 DEF TypedEnds, Ends
  <2>4. QED  BY <2>1, <2>2, <2>3
<1>3. Head(playback.plan) # "set"  BY <1>1 DEF Jellyfin!Calls
<1>4. Accounted'  BY <1>1, <1>2, <1>3 DEF Accounted
<1>5. Quitting(<<>>)'
  <2>1. PICK call : Quitting(<<call>>)  BY <1>1, EndStage
  <2>2. Jellyfin!Then(<<>>)  BY <1>1, <2>1, PlanOf, Tails
  <2>3. QED  BY <1>1, <2>1, <2>2, Moves
<1>6. Gone'
  <2>1. ends.pause = 0  BY <1>1, EndStage
  <2>2. Unhurt' /\ cardState = "ongoing" => listed  BY <1>1, <1>3 DEF Accounted
  <2>3. QED  BY <1>1, <1>2, <2>1, <2>2 DEF Gone, Pledged, Coming
<1>7. QED  BY <1>4, <1>5, <1>6 DEF Stage

LEMMA AnsweredKept ==
  ASSUME TypedPlayback, Accounted, Stage, Jellyfin!Answered
  PROVE  Accounted' /\ Stage'
<1>1. /\ playback # Jellyfin!Idle /\ playback.plan = <<>> /\ playback' = Jellyfin!Idle
      /\ UNCHANGED <<listed, debounced, ends, cardState, player>>
  BY DEF Jellyfin!Answered, Jellyfin!Answer
<1>2. Up' = Up /\ Left' = Left /\ Gone' = Gone /\ Unhurt' = Unhurt
  BY <1>1 DEF Up, Left, Gone, Calm, Still, Pledged, Coming, Unhurt
<1>3. Accounted'  BY <1>1, <1>2 DEF Accounted
<1>4. /\ \A p : Starting(p) => player.player = "playing"
      /\ \A p : Playing(p) => player.player = "playing"
      /\ \A p : Stale(p) => player.player = "stopped"
      /\ \A p : Pausing(p) => player.player = "paused"
      /\ \A p : Quitting(p) => player.player = "stopped"
  BY DEF Starting, Playing, Stale, Pausing, Quitting, At
<1>5. \/ player.player = "playing" /\ Up
      \/ player.player = "paused" /\ Left
      \/ player.player = "stopped" /\ Gone
  BY <1>1, <1>4, AnsweredStage
<1>6. QED  BY <1>1, <1>2, <1>3, <1>5 DEF Stage

(* What a timer's step leaves of what a webhook relies on.                  *)
Framed ==
  /\ playback' = playback /\ player'.player = player.player
  /\ Unhurt' => Unhurt
  /\ listed' => listed
Quieter ==
  /\ debounced'.paused \in {debounced.paused, "none"}
  /\ Calm => Calm' /\ UNCHANGED <<listed, cardState>>
  /\ Resumed => Resumed'
  /\ ends.pause = 0 => ends'.pause = 0
  /\ Left => Left'
  /\ Gone => Gone'
Handled ==
  playback # Jellyfin!Idle /\ playback.paused = "pause" /\ Paused =>
    /\ Paused'
    /\ Still => Still' /\ UNCHANGED listed
    /\ Unhurt' /\ listed' /\ ends.pause # 0 => ends'.pause # 0

LEMMA PauseFires ==
  ASSUME TypedPlayback, Accounted, Jellyfin!FirePause \/ Jellyfin!EndPaused
  PROVE  Framed /\ Accounted' /\ Quieter /\ Handled
<1>1. TypedEnds(ends) /\ UNCHANGED <<playback, listed, debounced, cardState, player>>
  BY DEF TypedPlayback, Jellyfin!FirePause, Jellyfin!EndPaused
<1>2. CASE Jellyfin!FirePause
  <2> DEFINE begun == ends.fired \union {ends.pause}
  <2>1. ends' = [ends EXCEPT !.fired = begun]  BY <1>2 DEF Jellyfin!FirePause
  <2> HIDE DEF begun
  <2>2. /\ ends'.end = ends.end /\ ends'.callback = ends.callback /\ ends'.ending = ends.ending
        /\ ends'.pause = ends.pause
    BY <1>1, <2>1 DEF TypedEnds, Ends
  <2>3. ends.pause # 0 /\ (playback = Jellyfin!Idle \/ playback.paused = "play")
    BY <1>2 DEF Jellyfin!FirePause
  <2>4. Accounted'  BY <1>1, <2>2 DEF Accounted, Unhurt
  <2>5. Quieter
    BY <1>1, <2>2, <2>3 DEF Quieter, Calm, Still, Resumed, Left, Gone, Pledged, Coming, Unhurt
  <2>6. Handled  BY <2>3 DEF Handled
  <2>7. QED  BY <1>1, <2>4, <2>5, <2>6 DEF Framed, Unhurt
<1>3. CASE Jellyfin!EndPaused
  <2>1. PICK gen \in ends.fired :
          ends' = IF Jellyfin!Superseded(gen) THEN [ends EXCEPT !.fired = @ \ {gen}]
                  ELSE [ends EXCEPT !.fired = @ \ {gen}, !.pause = 0, !.ending = TRUE]
    BY <1>3 DEF Jellyfin!EndPaused
  <2>2. gen # 0  BY <1>1 DEF TypedEnds
  <2> DEFINE begun == ends.fired \ {gen}   over == TRUE
  <2>3. begun \subseteq ends.fired /\ over  OBVIOUS
  <2>4. CASE ends.pause # gen
    <3>1. ends' = [ends EXCEPT !.fired = begun]  BY <2>1, <2>4 DEF Jellyfin!Superseded
    <3> HIDE DEF begun, over
    <3>2. /\ ends'.end = ends.end /\ ends'.callback = ends.callback /\ ends'.ending = ends.ending
          /\ ends'.pause = ends.pause /\ ends'.fired = begun
      BY <1>1, <3>1 DEF TypedEnds, Ends
    <3>3. Accounted'  BY <1>1, <3>2 DEF Accounted, Unhurt
    <3>4. Quieter
      BY <1>1, <3>2 DEF Quieter, Calm, Still, Resumed, Left, Gone, Pledged, Coming, Unhurt
    <3>5. Handled  BY <1>1, <2>3, <3>2 DEF Handled, Paused, Still, Unhurt
    <3>6. QED  BY <1>1, <3>3, <3>4, <3>5 DEF Framed, Unhurt
  <2>5. CASE ends.pause = gen
    <3>1. ends' = [ends EXCEPT !.fired = begun, !.pause = 0, !.ending = over]  BY <2>1, <2>5 DEF Jellyfin!Superseded
    <3> HIDE DEF begun, over
    <3>2. ends' = Ends(ends.end, ends.callback, 0, ends.gen, begun, over)
      BY <1>1, <3>1 DEF TypedEnds, Ends
    <3>3. /\ ends'.end = ends.end /\ ends'.callback = ends.callback /\ ends'.ending
          /\ ends'.pause = 0
      BY <2>3, <3>2 DEF Ends
    <3>4. Accounted'  BY <1>1, <3>3 DEF Accounted, Unhurt
    <3>5. Quieter
      BY <1>1, <2>2, <2>5, <3>3 DEF Quieter, Calm, Still, Resumed, Left, Gone, Pledged, Coming, Unhurt
    <3>6. Handled  BY <2>5 DEF Handled, Paused
    <3>7. QED  BY <1>1, <3>4, <3>5, <3>6 DEF Framed, Unhurt
  <2>6. QED  BY <2>4, <2>5
<1>4. QED  BY <1>2, <1>3

(* Neither an end nor a delete is lost.                                     *)
LEMMA NothingLost ==
  ASSUME TypedPlayback, Survived'
  PROVE  ~Jellyfin!Fault("lost end") /\ ~Jellyfin!Fault("write")
<1>1. ASSUME NEW kind, kind # "read", kind # "stale"  PROVE ~Jellyfin!Fault(kind)
  <2>1. player = [player |-> player.player, pos |-> player.pos, delivered |-> player.delivered,
                  hurt |-> player.hurt, raced |-> player.raced]
    BY DEF TypedPlayback
  <2> DEFINE kinds == {kind}
  <2>2. ~(kinds \subseteq {"read", "stale"})  BY <1>1
  <2> HIDE DEF kinds
  <2>3. player' = [player EXCEPT !.hurt = kinds] => player'.hurt = kinds  BY <2>1
  <2>4. player' # [player EXCEPT !.hurt = kinds]  BY <2>2, <2>3 DEF Survived
  <2>5. QED  BY <2>4 DEF Jellyfin!Fault, kinds
<1> DEFINE lost == "lost end"   write == "write"
<1>2. lost # "read" /\ lost # "stale" /\ write # "read" /\ write # "stale"  OBVIOUS
<1> HIDE DEF lost, write
<1>3. ~Jellyfin!Fault(lost) /\ ~Jellyfin!Fault(write)  BY <1>1, <1>2
<1>4. QED  BY <1>3 DEF lost, write

LEMMA PhaseFires ==
  ASSUME TypedPlayback, Accounted, Survived',
         \/ Jellyfin!EndPausedSchedules \/ Jellyfin!Phase1 \/ Jellyfin!Phase2
         \/ Jellyfin!SendEnded \/ Jellyfin!DeleteRow
  PROVE  Framed /\ Accounted' /\ Quieter /\ Handled
<1> USE DEF Jellyfin!EndPausedSchedules, Jellyfin!Phase1, Jellyfin!Phase2, Jellyfin!SendEnded, Jellyfin!DeleteRow
<1>1. /\ TypedEnds(ends) /\ UNCHANGED <<playback, debounced>> /\ player' = player
      /\ listed \in BOOLEAN /\ cardState \in {"none", "ongoing", "ended"}
  <2>1. TypedEnds(ends) /\ listed \in BOOLEAN /\ cardState \in {"none", "ongoing", "ended"}
    BY DEF TypedPlayback
  <2>2. UNCHANGED <<playback, debounced>>  OBVIOUS
  <2>3. player' = player  BY NothingLost
  <2>4. QED  BY <2>1, <2>2, <2>3
<1>2. /\ ends'.pause = ends.pause /\ ends'.fired = ends.fired
      /\ Coming => Coming' \/ ends'.callback \in {"row", "cleanup"}
      /\ ~Still
  BY <1>1 DEF TypedEnds, Ends, Coming, Still
<1>3. /\ listed' => listed
      /\ cardState' = "none" <=> cardState = "none"
      /\ cardState' = "ongoing" => cardState = "ongoing"
      /\ ends'.callback \in {"row", "cleanup"} => cardState' # "ongoing"
      /\ ends'.callback = "cleanup" => ends.callback = "cleanup" \/ ~listed'
      /\ cardState' = "ongoing" /\ listed => listed'
  <2>1. CASE Jellyfin!EndPausedSchedules \/ Jellyfin!Phase1 \/ Jellyfin!Phase2
    <3>1. UNCHANGED <<listed, cardState>> /\ ends'.callback \in {ends.callback, "ended"}
      BY <1>1, <2>1 DEF TypedEnds, Ends
    <3>2. QED  BY <1>1, <3>1 DEF Accounted
  <2>2. CASE Jellyfin!SendEnded
    <3>1. /\ UNCHANGED listed /\ ends'.callback = "row"
          /\ cardState' = IF cardState = "none" THEN "none" ELSE "ended"
      <4>1. ends' = [ends EXCEPT !.callback = "row"]  BY <2>2
      <4>2. ends'.callback = "row"  BY <1>1, <4>1 DEF TypedEnds, Ends
      <4>3. UNCHANGED listed /\ cardState' = IF cardState = "none" THEN "none" ELSE "ended"
        BY <2>2, NothingLost
      <4>4. QED  BY <4>2, <4>3
    <3>2. QED  BY <1>1, <3>1
  <2>3. CASE Jellyfin!DeleteRow
    <3>1. UNCHANGED cardState /\ ends.callback = "row" /\ ends'.callback = "cleanup" /\ ~listed'
      <4> DEFINE then == IF ends.end = "running" THEN "none" ELSE ends.end
      <4>1. ends' = [ends EXCEPT !.callback = "cleanup", !.end = then]  BY <2>3
      <4> HIDE DEF then
      <4>2. ends'.callback = "cleanup"  BY <1>1, <4>1 DEF TypedEnds, Ends
      <4>3. UNCHANGED cardState /\ ends.callback = "row"  BY <2>3
      <4>4. ~listed'  BY <2>3, NothingLost
      <4>5. QED  BY <4>2, <4>3, <4>4
    <3>2. cardState # "ongoing"  BY <3>1 DEF Accounted
    <3>3. QED  BY <1>1, <3>1, <3>2
  <2>4. QED  BY <2>1, <2>2, <2>3
<1> HIDE DEF Jellyfin!EndPausedSchedules, Jellyfin!Phase1, Jellyfin!Phase2, Jellyfin!SendEnded, Jellyfin!DeleteRow
<1>4. Unhurt' = Unhurt  BY <1>1 DEF Unhurt
<1>5. Accounted'  BY <1>1, <1>2, <1>3, <1>4 DEF Accounted
<1>6. Quieter
  BY <1>1, <1>2, <1>3, <1>4 DEF Quieter, Calm, Resumed, Left, Gone, Pledged
<1>7. Handled  BY <1>1, <1>2, <1>3, <1>4 DEF Handled, Paused
<1>8. QED  BY <1>1, <1>3, <1>5, <1>6, <1>7 DEF Framed, Unhurt

LEMMA CleanupFires ==
  ASSUME TypedPlayback, Accounted, Jellyfin!CleanupDebounce
  PROVE  Framed /\ Accounted' /\ Quieter /\ Handled
<1>1. /\ TypedEnds(ends) /\ UNCHANGED <<playback, listed, cardState, player>>
      /\ debounced'.paused = "none" /\ ends.callback = "cleanup"
      /\ ends' = [Jellyfin!StopPause(ends) EXCEPT !.callback = "none"]
  BY DEF TypedPlayback, Jellyfin!CleanupDebounce, Jellyfin!NoMemory
<1>2. ends' = Ends(ends.end, "none", 0, ends.gen, ends.fired, ends.ending)  BY <1>1, PauseForms
<1>3. /\ ends'.end = ends.end /\ ends'.callback = "none" /\ ends'.pause = 0 /\ ends'.ending = ends.ending
      /\ ends'.fired = ends.fired
  BY <1>2 DEF Ends
<1>4. 0 \notin ends.fired  BY <1>1 DEF TypedEnds
<1>5. cardState # "ongoing" /\ ~Still /\ (Unhurt => ~listed)  BY <1>1 DEF Accounted, Still
<1>6. Unhurt' = Unhurt  BY <1>1 DEF Unhurt
<1>7. Accounted'  BY <1>1, <1>3, <1>5, <1>6 DEF Accounted
<1>8. Quieter  BY <1>1, <1>3, <1>5, <1>6 DEF Quieter, Calm, Resumed, Left, Gone, Pledged
<1>9. Handled  BY <1>1, <1>3, <1>4, <1>5, <1>6 DEF Handled, Paused
<1>10. QED  BY <1>1, <1>7, <1>8, <1>9 DEF Framed, Unhurt

(* The sweep forgets what was debounced, and the pause timer with it.       *)
LEMMA SweepFires ==
  ASSUME TypedPlayback, Accounted, Jellyfin!Sweep
  PROVE  Framed /\ Accounted' /\ Quieter /\ Handled
<1>1. /\ TypedEnds(ends) /\ UNCHANGED <<playback, listed, cardState>>
      /\ player'.player = player.player /\ debounced'.paused = "none" /\ ~Unhurt'
      /\ ends' = Jellyfin!StopPause(ends)
  BY DEF TypedPlayback, Jellyfin!Sweep, Jellyfin!NoMemory, Jellyfin!Fault, Unhurt
<1>2. /\ ends'.end = ends.end /\ ends'.callback = ends.callback /\ ends'.pause = 0
      /\ ends'.ending = ends.ending /\ ends'.fired = ends.fired
  BY <1>1, PauseFields
<1>3. 0 \notin ends.fired  BY <1>1 DEF TypedEnds
<1>4. Accounted'  BY <1>1, <1>2 DEF Accounted
<1>5. Quieter  BY <1>1, <1>2 DEF Quieter, Calm, Still, Resumed, Left, Gone, Pledged
<1>6. Handled  BY <1>1, <1>2, <1>3 DEF Handled, Paused, Still
<1>7. QED  BY <1>1, <1>4, <1>5, <1>6 DEF Framed

(* Where a webhook is, it stays, whatever fires.                            *)
LEMMA FiringKept ==
  ASSUME Accounted, Stage, Framed, Quieter, Handled
  PROVE  Stage'
<1>1. /\ \A p : Starting(p) => Starting(p)'
      /\ \A p : Stale(p) => Stale(p)'
      /\ \A p : Playing(p) => Playing(p)'
      /\ \A p : Pausing(p) => Pausing(p)'
      /\ \A p : Quitting(p) => Quitting(p)'
  BY DEF Framed, Starting, Stale, Playing, Pausing, Quitting, At
<1>2. \A p : Pausing(p) => playback.paused = "pause" /\ playback # Jellyfin!Idle
  BY DEF Pausing, At, Jellyfin!Webhook, Jellyfin!Idle
<1>3. (Up => Up') /\ (Nothing => Nothing') /\ (debounced'.paused = "play" => debounced.paused = "play")
  BY DEF Quieter, Up, Nothing, Calm
<1>4. Resumed /\ Still => Resumed' /\ Still' /\ UNCHANGED <<listed, cardState>>
  BY DEF Quieter, Resumed, Calm
<1>5. CASE playback = Jellyfin!Idle
  <2>1. \/ player.player = "none" /\ Nothing
        \/ player.player = "playing" /\ Up
        \/ player.player = "paused" /\ Left
        \/ player.player = "stopped" /\ Gone
    BY <1>5, IdleStage
  <2>2. QED  BY <1>3, <1>5, <2>1 DEF Stage, Framed, Quieter
<1>6. CASE \E p : Starting(p) /\ \/ p = Jellyfin!Starting
                                 \/ p = <<"create", "set", "update", "remember">> /\ Calm
                                 \/ p = <<"set", "update", "remember">> /\ Calm /\ cardState = "ongoing"
                                 \/ p = <<"update", "remember">> /\ Calm /\ cardState = "ongoing" /\ listed
                                 \/ p = <<"remember">> /\ Calm /\ cardState = "ongoing" /\ listed
                                 \/ p = <<>> /\ Up
  <2>1. Calm => Calm' /\ UNCHANGED <<listed, cardState>>  BY DEF Quieter
  <2>2. QED  BY <1>1, <1>3, <1>6, <2>1 DEF Stage
<1>7. CASE \E p : \/ Stale(p) /\ p \in {<<"remember">>, <<>>} /\ Gone
                  \/ Quitting(p) /\ \/ p \in {<<"unpause", "schedule">>, <<"unpause", "endIfTracked">>}
                                    \/ p \in {<<"schedule">>, <<"endIfTracked">>} /\ ends.pause = 0
                                    \/ p = <<>> /\ Gone
  BY <1>1, <1>7 DEF Stage, Quieter
<1>8. CASE \E p : Playing(p) /\ \/ p = <<"debounce">> /\ (debounced.paused = "play" => Up)
                                \/ p = <<"stop", "exists">> /\ Resumed
                                \/ p = <<"exists">> /\ Resumed /\ Still
                                \/ p = <<"create", "set", "update">> /\ Resumed /\ Still
                                \/ p = <<"set", "update">> /\ Resumed /\ Still /\ cardState = "ongoing"
                                \/ p = <<"update">> /\ Resumed /\ Still /\ listed
                                \/ p = <<>> /\ Up
  <2>1. Resumed => Resumed'  BY DEF Quieter
  <2>2. QED  BY <1>1, <1>3, <1>4, <1>8, <2>1 DEF Stage
<1>9. ASSUME NEW p, Pausing(p)
      PROVE  /\ Left => Left'
             /\ Paused => Paused' /\ (Still => Still' /\ UNCHANGED listed)
             /\ Paused /\ Unhurt' /\ listed' /\ ends.pause # 0 => ends'.pause # 0
             /\ (Unhurt' => Unhurt) /\ (listed' => listed)
  BY <1>2, <1>9 DEF Quieter, Handled, Framed
<1>10. CASE \E p : Pausing(p) /\ \/ p = <<"debounce">> /\ (Up \/ Left)
                                 \/ /\ p = <<"stop", "exists">> /\ Paused
                                    /\ Unhurt /\ listed => ends.pause # 0
                                 \/ /\ p = <<"exists">> /\ Paused /\ Still
                                    /\ Unhurt /\ listed => ends.pause # 0
                                 \/ /\ p = <<"update">> /\ Paused /\ Still
                                    /\ Unhurt => listed /\ ends.pause # 0
                                 \/ p = <<"unpause">> /\ Paused /\ Still /\ (Unhurt => ~listed)
                                 \/ p = <<>> /\ Left
  BY <1>1, <1>3, <1>9, <1>10 DEF Stage
<1>11. QED
  <2>1. CASE \/ Starting(Jellyfin!Starting)
             \/ Starting(<<"create", "set", "update", "remember">>) /\ Calm
             \/ Starting(<<"set", "update", "remember">>) /\ Calm /\ cardState = "ongoing"
             \/ Starting(<<"update", "remember">>) /\ Calm /\ cardState = "ongoing" /\ listed
             \/ Starting(<<"remember">>) /\ Calm /\ cardState = "ongoing" /\ listed
             \/ Starting(<<>>) /\ Up
    BY <1>6, <2>1
  <2>2. CASE \/ Stale(<<"remember">>) /\ Gone
             \/ Stale(<<>>) /\ Gone
             \/ Quitting(<<"unpause", "schedule">>)
             \/ Quitting(<<"unpause", "endIfTracked">>)
             \/ Quitting(<<"schedule">>) /\ ends.pause = 0
             \/ Quitting(<<"endIfTracked">>) /\ ends.pause = 0
             \/ Quitting(<<>>) /\ Gone
    BY <1>7, <2>2
  <2>3. CASE \/ Playing(<<"debounce">>) /\ (debounced.paused = "play" => Up)
             \/ Playing(<<"stop", "exists">>) /\ Resumed
             \/ Playing(<<"exists">>) /\ Resumed /\ Still
             \/ Playing(<<"create", "set", "update">>) /\ Resumed /\ Still
             \/ Playing(<<"set", "update">>) /\ Resumed /\ Still /\ cardState = "ongoing"
             \/ Playing(<<"update">>) /\ Resumed /\ Still /\ listed
             \/ Playing(<<>>) /\ Up
    BY <1>8, <2>3
  <2>4. CASE \/ Pausing(<<"debounce">>) /\ (Up \/ Left)
             \/ Pausing(<<"stop", "exists">>) /\ Paused /\ (Unhurt /\ listed => ends.pause # 0)
             \/ Pausing(<<"exists">>) /\ Paused /\ Still /\ (Unhurt /\ listed => ends.pause # 0)
             \/ Pausing(<<"update">>) /\ Paused /\ Still /\ (Unhurt => listed /\ ends.pause # 0)
             \/ Pausing(<<"unpause">>) /\ Paused /\ Still /\ (Unhurt => ~listed)
             \/ Pausing(<<>>) /\ Left
    BY <1>10, <2>4
  <2>5. QED  BY <1>5, <2>1, <2>2, <2>3, <2>4 DEF Stage

(* The invariant is kept by every step.                                     *)
LEMMA PlaybackKept == VInv /\ [Jellyfin!Next]_(Jellyfin!vars) => VInv'
<1>1. ASSUME VInv, UNCHANGED Jellyfin!vars  PROVE VInv'
  BY <1>1 DEF VInv, Jellyfin!vars, TypedPlayback, Survived, Accounted, Unhurt, Stage, Starting, Stale, Playing,
     Pausing, Quitting, At, Resumed, Paused, Up, Left, Gone, Nothing, Calm, Still, Pledged, Coming
<1>2. ASSUME VInv, Jellyfin!Next  PROVE VInv'
  <2>1. TypedPlayback' /\ (Survived' => Survived)  BY <1>2, PlaybackTyped, WentWrong DEF VInv
  <2>2. SUFFICES ASSUME Survived'  PROVE Accounted' /\ Stage'
    BY <2>1 DEF VInv
  <2>3. TypedPlayback /\ Accounted /\ Stage  BY <1>2, <2>1, <2>2 DEF VInv
  <2>4. CASE \/ Jellyfin!Start \/ Jellyfin!StaleStart \/ Jellyfin!Plays
             \/ Jellyfin!Pauses \/ Jellyfin!Seeks \/ Jellyfin!Stops
    BY <2>3, <2>4, DeliveryKept
  <2>5. CASE Jellyfin!Work
    BY <2>2, <2>3, <2>5, DebounceKept, StopKept, ExistsKept, UnpauseKept, CreateKept, UpdateKept, SetKept,
       RememberKept, EndKept, AnsweredKept DEF Jellyfin!Work
  <2>6. CASE Jellyfin!Timers \/ Jellyfin!Sweep
    <3>1. Framed /\ Accounted' /\ Quieter /\ Handled
      BY <2>2, <2>3, <2>6, PauseFires, PhaseFires, CleanupFires, SweepFires DEF Jellyfin!Timers
    <3>2. QED  BY <2>3, <3>1, FiringKept
  <2>7. CASE Jellyfin!Crash
    BY <2>2, <2>3, <2>7 DEF Jellyfin!Crash, Jellyfin!Fault, Survived, TypedPlayback
  <2>8. QED  BY <1>2, <2>4, <2>5, <2>6, <2>7 DEF Jellyfin!Next
<1>3. QED  BY <1>1, <1>2

LEMMA PlaybackBegins == Jellyfin!Init => VInv
<1> SUFFICES ASSUME Jellyfin!Init  PROVE VInv
  OBVIOUS
<1>1. TypedPlayback
  <2>1. TypedEnds(Jellyfin!NoTimers)
    <3> DEFINE off == FALSE   nobody == {}
    <3>1. off \in BOOLEAN /\ nobody \subseteq 1..0  OBVIOUS
    <3>2. Jellyfin!NoTimers = Ends("none", "none", 0, 0, nobody, off)  BY DEF Jellyfin!NoTimers, Ends
    <3> HIDE DEF off, nobody
    <3>3. QED  BY <3>1, <3>2 DEF TypedEnds, Ends
  <2>2. player = [player |-> player.player, pos |-> player.pos, delivered |-> player.delivered,
               hurt |-> player.hurt, raced |-> player.raced]
    BY DEF Jellyfin!Init
  <2>3. QED
    BY <2>1, <2>2 DEF TypedPlayback, Jellyfin!Init, Jellyfin!Idle, Jellyfin!Webhook, Jellyfin!NoMemory
<1>2. Calm /\ debounced.paused = "none" /\ ends.callback = "none" /\ cardState = "none" /\ ~listed
  BY DEF Jellyfin!Init, Jellyfin!NoTimers, Jellyfin!NoMemory, Calm, Still
<1>3. Accounted  BY <1>2 DEF Accounted, Calm
<1>4. playback = Jellyfin!Idle /\ player.player = "none"  BY DEF Jellyfin!Init
<1>5. Stage  BY <1>2, <1>4 DEF Stage, Nothing
<1>6. QED  BY <1>1, <1>3, <1>5 DEF VInv

LEMMA PlaybackFits == VInv => Jellyfin!PlayingStays /\ Jellyfin!LeftCardEnds
<1> SUFFICES ASSUME VInv, playback = Jellyfin!Idle, Survived
             PROVE  Jellyfin!PlayingStays /\ Jellyfin!LeftCardEnds
  BY DEF Jellyfin!PlayingStays, Jellyfin!LeftCardEnds, Jellyfin!Quiet, Survived
<1>1. /\ Accounted /\ TypedEnds(ends)
      /\ \/ player.player = "none" /\ Nothing
         \/ player.player = "playing" /\ Up
         \/ player.player = "paused" /\ Left
         \/ player.player = "stopped" /\ Gone
  BY IdleStage DEF VInv, TypedPlayback
<1>2. player.player = "playing" => cardState = "ongoing" /\ Jellyfin!NoEndComing
  <2>1. \A gen \in ends.fired : gen # 0  BY <1>1 DEF TypedEnds
  <2>2. QED  BY <1>1, <2>1 DEF Up, Calm, Still, Jellyfin!NoEndComing, Jellyfin!Superseded
<1>3. Unhurt /\ player.player \in {"paused", "stopped"} /\ cardState = "ongoing" => ~Jellyfin!NoEndComing
  BY <1>1 DEF Left, Gone, Pledged, Coming, Jellyfin!NoEndComing
<1>4. QED  BY <1>2, <1>3 DEF Jellyfin!PlayingStays, Jellyfin!LeftCardEnds, Unhurt

\* Whatever the player does and whichever timers fire between two webhooks of
\* it, a running playback's card stays up and no end is on its way to it, and
\* a card left by a pause or a stop has its end coming.
THEOREM PlaybackStays ==
  Jellyfin!Init /\ [][Jellyfin!Next]_(Jellyfin!vars) => [](Jellyfin!PlayingStays /\ Jellyfin!LeftCardEnds)
BY PlaybackBegins, PlaybackKept, PlaybackFits, PTL

---------------------------------------------------------------------------
(* The card of a repository (GiteaRuns).                                   *)

RunsNumbered == Runs \subseteq Nat \ {0}

Worker(event, jobs, plan) == [event |-> event, jobs |-> jobs, plan |-> plan]
Timers(phase, frame, sending) == [phase |-> phase, frame |-> frame, sending |-> sending]
Heard(delivered, newest, done, hurt, raced) ==
  [delivered |-> delivered, newest |-> newest, done |-> done, hurt |-> hurt, raced |-> raced]

TypedWorker(w) ==
  /\ w = Worker(w.event, w.jobs, w.plan)
  /\ w # Gitea!Idle => w.event.run \in Nat \ {0} /\ w.event.what \in {"start", "completed", "job"}

TypedGroup(g) ==
  /\ g = [run |-> g.run, jobs |-> g.jobs] /\ g.run = [id |-> g.run.id, completed |-> g.run.completed]
  /\ g.run.id \in Nat /\ g.run.completed \in BOOLEAN
TypedArmed(a) ==
  a = Timers(a.phase, a.frame, a.sending) /\ a.phase \in {"none", "phase1", "phase2"}
TypedCard(c) == c = [state |-> c.state, frame |-> c.frame]
TypedHeard(x) ==
  /\ x = Heard(x.delivered, x.newest, x.done, x.hurt, x.raced)
  /\ x.newest \in Nat /\ x.done \subseteq Nat /\ x.raced \in BOOLEAN

TypedRuns ==
  /\ workers = [h \in Workers |-> workers[h]]
  /\ \A h \in Workers : TypedWorker(workers[h])
  /\ TypedGroup(group) /\ TypedArmed(armed) /\ TypedCard(repoCard) /\ TypedHeard(heard)

Of(jobs, run) == \A job \in jobs : job[1] = run
Undisturbed == heard.hurt = {}
Undamaged == ~heard.raced /\ heard.hurt \subseteq {"call"}

\* What is being sent is what is armed.
Sending == armed.sending # {} =>
  armed.phase # "none" /\ armed.sending = {[phase |-> armed.phase, frame |-> armed.frame]}
Unarmed == armed.phase = "none" /\ armed.sending = {}

\* The tombstone and the card, when newest is the newest run answered and done
\* are those whose completion was.
Guarded(newest, done) ==
  /\ group.run.id =< newest /\ \A run \in done : run =< newest
  /\ group.run.completed => repoCard.state # "ongoing" \/ armed.phase # "none"
  /\ armed.phase # "none" => group.run.completed
  /\ newest \in done => group.run.id = newest /\ group.run.completed

\* The same and the frames, when no call was refused.
Followed(newest, done) ==
  /\ group.run.id = newest /\ (group.run.completed <=> newest \in done)
  /\ Of(group.jobs, newest)
  /\ Of(repoCard.frame.jobs, repoCard.frame.run)
  /\ armed.phase # "none" => armed.frame.run = newest /\ Of(armed.frame.jobs, newest)
  /\ newest = 0 => done = {} /\ repoCard.state = "none" /\ armed.phase = "none" /\ group.jobs = {}
  /\ newest # 0 =>
       /\ repoCard.state # "none"
       /\ repoCard.frame.run = newest \/ armed.phase # "none"
       /\ newest \notin done => repoCard.state = "ongoing"

Settled(newest, done) == Guarded(newest, done) /\ (Undisturbed => Followed(newest, done))

RunOf(h) == workers[h].event.run
PlanIs(h, what, plan) == workers[h].event.what = what /\ workers[h].plan = plan
DoneBy(h) == IF workers[h].event.what = "completed" THEN heard.done \union {RunOf(h)} ELSE heard.done

\* A webhook that is not late.
Current(h) ==
  /\ Gitea!Later(h) \notin heard.done /\ \A run \in heard.done : run =< heard.newest
  /\ Undisturbed => RunOf(h) = Gitea!Later(h) /\ Of(workers[h].jobs, RunOf(h)) /\ Of(repoCard.frame.jobs, repoCard.frame.run)
Fresh(h) == Settled(heard.newest, heard.done) /\ Current(h) /\ group.run.id < RunOf(h)
Halted(h) == Current(h) /\ Unarmed
Vacant(h) ==
  /\ Halted(h) /\ ~group.run.completed /\ group.run.id =< Gitea!Later(h)
  /\ Undisturbed => Of(group.jobs, RunOf(h))
Recorded(h) == Vacant(h) /\ (Undisturbed => group.run.id = RunOf(h))
Shown(h) == Vacant(h) /\ (Undisturbed => repoCard.state = "ongoing")
Entombed(h) ==
  /\ Halted(h) /\ group.run.id = RunOf(h) /\ group.run.completed
  /\ Undisturbed => Of(group.jobs, RunOf(h)) /\ repoCard.state = "ongoing"

\* What holds where a webhook is.
Working(h) ==
  \/ workers[h].plan = <<"read">> /\ Settled(heard.newest, heard.done)
  \/ workers[h].plan = <<>> /\ Settled(Gitea!Later(h), DoneBy(h))
  \/ PlanIs(h, "start", <<"stop", "clear", "putRun", "create", "update">>) /\ Fresh(h)
  \/ PlanIs(h, "start", <<"clear", "putRun", "create", "update">>) /\ Halted(h)
  \/ PlanIs(h, "start", <<"putRun", "create", "update">>) /\ Vacant(h)
  \/ PlanIs(h, "start", <<"create", "update">>) /\ Recorded(h)
  \/ PlanIs(h, "start", <<"update">>) /\ Recorded(h)
  \/ PlanIs(h, "completed", <<"stop", "clear", "create", "putRun", "schedule">>) /\ Fresh(h)
  \/ PlanIs(h, "completed", <<"clear", "create", "putRun", "schedule">>) /\ Halted(h)
  \/ PlanIs(h, "completed", <<"create", "putRun", "schedule">>) /\ Vacant(h)
  \/ PlanIs(h, "completed", <<"putRun", "schedule">>) /\ Shown(h)
  \/ PlanIs(h, "completed", <<"schedule">>) /\ Entombed(h)
  \/ PlanIs(h, "job", <<"stop", "clear", "putRun", "create", "putJob", "update">>) /\ Fresh(h)
  \/ PlanIs(h, "job", <<"clear", "putRun", "create", "putJob", "update">>) /\ Halted(h)
  \/ PlanIs(h, "job", <<"putRun", "create", "putJob", "update">>) /\ Vacant(h)
  \/ PlanIs(h, "job", <<"create", "putJob", "update">>) /\ Recorded(h)
  \/ PlanIs(h, "job", <<"putJob", "update">>) /\ Recorded(h)
  \/ PlanIs(h, "job", <<"update">>) /\ Recorded(h)

Alone(h) == workers[h] # Gitea!Idle /\ \A x \in Workers : x # h => workers[x] = Gitea!Idle

Handling ==
  \/ (\A h \in Workers : workers[h] = Gitea!Idle) /\ Settled(heard.newest, heard.done)
  \/ \E h \in Workers : Alone(h) /\ Working(h)

RInv == TypedRuns /\ (Undamaged => Sending /\ Handling)

(* A handler's state is replaced.                                           *)
LEMMA Replaced ==
  ASSUME TypedRuns, NEW h \in Workers, NEW w, TypedWorker(w), workers' = [workers EXCEPT ![h] = w]
  PROVE  /\ workers'[h] = w /\ \A x \in Workers : x # h => workers'[x] = workers[x]
         /\ workers' = [x \in Workers |-> workers'[x]] /\ \A x \in Workers : TypedWorker(workers'[x])
BY DEF TypedRuns

LEMMA WorkerForm ==
  ASSUME NEW w, w = Worker(w.event, w.jobs, w.plan), NEW plan, NEW jobs
  PROVE  [w EXCEPT !.plan = plan, !.jobs = jobs] = Worker(w.event, jobs, plan)
<1> DEFINE event == w.event   had == w.jobs   left == w.plan   u == [w EXCEPT !.plan = plan]
<1>1. w = [event |-> event, jobs |-> had, plan |-> left]  BY DEF Worker
<1> HIDE DEF event, had, left
<1>2. u = [event |-> event, jobs |-> had, plan |-> plan]  BY <1>1
<1>3. [w EXCEPT !.plan = plan, !.jobs = jobs] = [u EXCEPT !.jobs = jobs]  OBVIOUS
<1> HIDE DEF u
<1>4. [u EXCEPT !.jobs = jobs] = [event |-> event, jobs |-> jobs, plan |-> plan]  BY <1>2
<1>5. QED  BY <1>3, <1>4 DEF event, Worker

LEMMA Advanced ==
  ASSUME TypedRuns, NEW h \in Workers, workers[h] # Gitea!Idle, Gitea!Advance(h)
  PROVE  /\ workers' = [workers EXCEPT ![h] = Worker(workers[h].event, workers[h].jobs, Tail(workers[h].plan))]
         /\ TypedWorker(Worker(workers[h].event, workers[h].jobs, Tail(workers[h].plan)))
<1>1. /\ workers[h] = Worker(workers[h].event, workers[h].jobs, workers[h].plan)
      /\ workers[h].event.run \in Nat \ {0} /\ workers[h].event.what \in {"start", "completed", "job"}
      /\ workers = [x \in Workers |-> workers[x]]
  BY DEF TypedRuns, TypedWorker
<1> DEFINE left == Tail(workers[h].plan)
<1>2. workers' = [workers EXCEPT ![h] = [workers[h] EXCEPT !.plan = left]]
  BY <1>1 DEF Gitea!Advance
<1> HIDE DEF left
<1>3. [workers[h] EXCEPT !.plan = left] = Worker(workers[h].event, workers[h].jobs, left)
  BY <1>1 DEF Worker
<1>4. TypedWorker(Worker(workers[h].event, workers[h].jobs, left))
  BY <1>1 DEF TypedWorker, Worker
<1>5. QED  BY <1>2, <1>3, <1>4 DEF left

LEMMA IdleTyped == TypedWorker(Gitea!Idle)
<1> DEFINE e == [what |-> "none", run |-> 0]
<1>1. Gitea!Idle = [event |-> e, jobs |-> {}, plan |-> <<>>]  BY DEF Gitea!Idle
<1> HIDE DEF e
<1>2. QED  BY <1>1 DEF TypedWorker, Worker

(* A handler that has a call to make is at work.                            *)
LEMMA AtWork ==
  ASSUME NEW h \in Workers, NEW call, Gitea!Calls(h, call)
  PROVE  workers[h] # Gitea!Idle
BY DEF Gitea!Calls, Gitea!Idle

(* A fault is on record, and a race.                                        *)
LEMMA Faulted ==
  ASSUME TypedHeard(heard), NEW kind, Gitea!Fault(kind)
  PROVE  /\ TypedHeard(heard') /\ (Undamaged' => Undamaged /\ kind = "call")
         /\ heard'.newest = heard.newest /\ heard'.done = heard.done
<1> DEFINE kinds == {kind}
<1>1. heard' = [heard EXCEPT !.hurt = kinds] /\ heard.hurt \subseteq kinds
  BY DEF Gitea!Fault, Gitea!MayFail
<1>2. kinds \subseteq {"call"} => kind = "call"  OBVIOUS
<1> HIDE DEF kinds
<1>3. heard' = Heard(heard.delivered, heard.newest, heard.done, kinds, heard.raced)
  BY <1>1 DEF TypedHeard, Heard
<1>4. QED  BY <1>1, <1>2, <1>3 DEF TypedHeard, Heard, Undamaged

LEMMA Raced ==
  ASSUME TypedHeard(heard), NEW c \in BOOLEAN, heard' = [heard EXCEPT !.raced = heard.raced \/ c]
  PROVE  /\ TypedHeard(heard') /\ (Undamaged' => Undamaged /\ ~c) /\ Undisturbed' = Undisturbed
         /\ heard'.newest = heard.newest /\ heard'.done = heard.done
<1> DEFINE now == heard.raced \/ c
<1>1. now \in BOOLEAN /\ (now <=> heard.raced \/ c)  OBVIOUS
<1> HIDE DEF now
<1>2. heard' = [heard EXCEPT !.raced = now]  BY DEF now
<1>3. heard' = Heard(heard.delivered, heard.newest, heard.done, heard.hurt, now)
  BY <1>2 DEF TypedHeard, Heard
<1>4. QED  BY <1>1, <1>3 DEF TypedHeard, Heard, Undamaged, Undisturbed

(* The steps, as what they make of each part.                               *)
LEMMA ReceiveForm ==
  ASSUME RunsNumbered, TypedRuns, NEW h \in Workers, Gitea!Receive(h)
  PROVE  /\ workers[h] = Gitea!Idle /\ UNCHANGED <<group, armed, repoCard>>
         /\ \E event \in Gitea!Events :
              /\ workers' = [workers EXCEPT ![h] = Worker(event, {}, <<"read">>)]
              /\ TypedWorker(Worker(event, {}, <<"read">>))
         /\ TypedHeard(heard')
         /\ Undamaged' => Undamaged /\ Gitea!Busy = {}
         /\ Undisturbed' = Undisturbed /\ heard'.newest = heard.newest /\ heard'.done = heard.done
<1>1. PICK event \in Gitea!Events : workers' = [workers EXCEPT ![h] = Worker(event, {}, <<"read">>)]
  BY DEF Gitea!Receive, Worker
<1>2. event.run \in Nat \ {0} /\ event.what \in {"start", "completed", "job"}  BY DEF Gitea!Events, RunsNumbered
<1>3. TypedWorker(Worker(event, {}, <<"read">>))
  <2> DEFINE none == {}   plan == <<"read">>
  <2> HIDE DEF none, plan
  <2>1. TypedWorker(Worker(event, none, plan))  BY <1>2 DEF TypedWorker, Worker
  <2>2. QED  BY <2>1 DEF none, plan
<1> DEFINE count == heard.delivered + 1   overlap == (heard.raced \/ Gitea!Busy # {})
<1>4. heard' = [heard EXCEPT !.delivered = count, !.raced = overlap]
  BY DEF Gitea!Receive
<1>5. overlap \in BOOLEAN /\ (~overlap => Gitea!Busy = {}) /\ (~overlap => ~heard.raced)
  BY DEF TypedRuns, TypedHeard
<1> HIDE DEF count, overlap
<1>6. heard' = Heard(count, heard.newest, heard.done, heard.hurt, overlap)
  BY <1>4 DEF TypedRuns, TypedHeard, Heard
<1>7. /\ TypedHeard(heard') /\ (Undamaged' => Undamaged /\ Gitea!Busy = {})
      /\ Undisturbed' = Undisturbed /\ heard'.newest = heard.newest /\ heard'.done = heard.done
  BY <1>5, <1>6 DEF TypedRuns, TypedHeard, Heard, Undamaged, Undisturbed
<1>8. workers[h] = Gitea!Idle /\ UNCHANGED <<group, armed, repoCard>>  BY DEF Gitea!Receive
<1>9. QED  BY <1>1, <1>3, <1>7, <1>8

LEMMA ReadForm ==
  ASSUME TypedRuns, NEW h \in Workers, Gitea!Read(h), Undamaged'
  PROVE  LET w == Worker(workers[h].event, Gitea!Shown(workers[h].event, group.run, group.jobs),
                         Gitea!Plan(workers[h].event, group.run))
         IN  /\ workers' = [workers EXCEPT ![h] = w] /\ TypedWorker(w)
             /\ UNCHANGED <<group, armed, repoCard, heard>>
<1> DEFINE plan == Gitea!Plan(workers[h].event, group.run)
           jobs == Gitea!Shown(workers[h].event, group.run, group.jobs)
           w == Worker(workers[h].event, jobs, plan)
<1>1. Gitea!Calls(h, "read") /\ UNCHANGED <<group, armed, repoCard>>  BY DEF Gitea!Read
<1>2. /\ workers[h] = Worker(workers[h].event, workers[h].jobs, workers[h].plan)
      /\ workers[h].event.run \in Nat \ {0} /\ workers[h].event.what \in {"start", "completed", "job"}
      /\ workers = [x \in Workers |-> workers[x]]
  BY <1>1, AtWork DEF TypedRuns, TypedWorker
<1>3. /\ workers' = [workers EXCEPT ![h].plan = plan, ![h].jobs = jobs]
      /\ UNCHANGED heard
  <2>1. PICK read \in {group, [run |-> Gitea!NoRun, jobs |-> {}]} :
          /\ workers' = [workers EXCEPT ![h].plan = Gitea!Plan(Gitea!Event(h), read.run),
                                        ![h].jobs = Gitea!Shown(Gitea!Event(h), read.run, read.jobs)]
          /\ IF read = group THEN UNCHANGED heard ELSE Gitea!Fault("read")
    BY DEF Gitea!Read
  <2>2. ~Gitea!Fault("read")  BY Faulted DEF TypedRuns
  <2>3. read = group /\ UNCHANGED heard  BY <2>1, <2>2
  <2>4. QED  BY <2>1, <2>3 DEF Gitea!Event
<1> HIDE DEF plan, jobs
<1>4. workers' = [workers EXCEPT ![h] = w]
  <2>1. workers' = [workers EXCEPT ![h] = [workers[h] EXCEPT !.plan = plan, !.jobs = jobs]]
    BY <1>2, <1>3
  <2>2. [workers[h] EXCEPT !.plan = plan, !.jobs = jobs] = w  BY <1>2, WorkerForm
  <2>3. QED  BY <2>1, <2>2
<1>5. TypedWorker(w)  BY <1>2 DEF TypedWorker, Worker
<1>6. QED  BY <1>1, <1>3, <1>4, <1>5 DEF plan, jobs

LEMMA StopForm ==
  ASSUME TypedRuns, NEW h \in Workers, Gitea!StopTimer(h)
  PROVE  /\ Gitea!Calls(h, "stop") /\ Gitea!Advance(h) /\ UNCHANGED <<group, repoCard>>
         /\ armed' = Timers("none", armed.frame, armed.sending)
         /\ TypedHeard(heard') /\ Undisturbed' = Undisturbed
         /\ Undamaged' => Undamaged /\ armed.sending = {}
         /\ heard'.newest = heard.newest /\ heard'.done = heard.done
<1>1. Gitea!Calls(h, "stop") /\ Gitea!Advance(h) /\ UNCHANGED <<group, repoCard>>
  BY DEF Gitea!StopTimer
<1>2. armed' = Timers("none", armed.frame, armed.sending)
  BY DEF Gitea!StopTimer, TypedRuns, TypedArmed, Timers
<1> DEFINE late == (armed.sending # {})
<1>3. late \in BOOLEAN /\ heard' = [heard EXCEPT !.raced = heard.raced \/ late]  BY DEF Gitea!StopTimer
<1>4. ~late => armed.sending = {}  OBVIOUS
<1> HIDE DEF late
<1>5. QED  BY <1>1, <1>2, <1>3, <1>4, Raced DEF TypedRuns

LEMMA ScheduleForm ==
  ASSUME TypedRuns, NEW h \in Workers, Gitea!ScheduleEnd(h)
  PROVE  /\ Gitea!Calls(h, "schedule") /\ Gitea!Advance(h) /\ UNCHANGED <<group, repoCard>>
         /\ armed' = Timers("phase1", Gitea!Frame(h), armed.sending)
         /\ TypedHeard(heard') /\ Undisturbed' = Undisturbed
         /\ Undamaged' => Undamaged /\ armed.sending = {}
         /\ heard'.newest = heard.newest /\ heard'.done = heard.done
<1>1. Gitea!Calls(h, "schedule") /\ Gitea!Advance(h) /\ UNCHANGED <<group, repoCard>>
  BY DEF Gitea!ScheduleEnd
<1>2. armed' = Timers("phase1", Gitea!Frame(h), armed.sending)
  BY DEF Gitea!ScheduleEnd, TypedRuns, TypedArmed, Timers
<1> DEFINE late == (armed.sending # {})
<1>3. late \in BOOLEAN /\ heard' = [heard EXCEPT !.raced = heard.raced \/ late]  BY DEF Gitea!ScheduleEnd
<1>4. ~late => armed.sending = {}  OBVIOUS
<1> HIDE DEF late
<1>5. QED  BY <1>1, <1>2, <1>3, <1>4, Raced DEF TypedRuns

LEMMA StoredForm ==
  ASSUME TypedRuns, NEW h \in Workers, NEW call, NEW g, Gitea!Stored(h, call, g)
  PROVE  /\ Gitea!Calls(h, call) /\ Gitea!Advance(h) /\ UNCHANGED <<armed, repoCard>>
         /\ TypedHeard(heard') /\ group' \in {g, group}
         /\ Undamaged' => UNCHANGED heard /\ group' = g
BY Faulted DEF Gitea!Stored, TypedRuns

LEMMA SentForm ==
  ASSUME TypedRuns, NEW h \in Workers, NEW call, NEW card, Gitea!Sent(h, call, card)
  PROVE  /\ Gitea!Calls(h, call) /\ UNCHANGED <<group, armed>>
         /\ \/ repoCard' = card /\ Gitea!Advance(h) /\ UNCHANGED heard
            \/ /\ UNCHANGED repoCard /\ workers' = [workers EXCEPT ![h] = Gitea!Idle]
               /\ TypedHeard(heard') /\ (Undamaged' => Undamaged) /\ ~Undisturbed'
               /\ heard'.newest = Gitea!Later(h) /\ heard'.done = heard.done
<1>1. CASE repoCard' = card /\ Gitea!Advance(h) /\ UNCHANGED heard
  BY <1>1 DEF Gitea!Sent
<1>2. CASE /\ UNCHANGED repoCard /\ Gitea!Refuse(h) /\ Gitea!MayFail("call")
           /\ heard' = [heard EXCEPT !.hurt = {"call"}, !.newest = Gitea!Later(h)]
  <2> DEFINE kinds == {"call"}   newest == Gitea!Later(h)
  <2>1. heard' = [heard EXCEPT !.hurt = kinds, !.newest = newest]  BY <1>2
  <2>2. heard.hurt \subseteq {"call"} /\ kinds \subseteq {"call"} /\ kinds # {}  BY <1>2 DEF Gitea!MayFail
  <2>3. newest \in Nat
    <3>1. workers[h].event.run \in Nat  BY <1>1, AtWork DEF TypedRuns, TypedWorker, Gitea!Sent
    <3>2. QED  BY <3>1 DEF Gitea!Later, Gitea!Event, TypedRuns, TypedHeard
  <2> HIDE DEF kinds, newest
  <2>4. heard' = Heard(heard.delivered, newest, heard.done, kinds, heard.raced)
    BY <2>1 DEF TypedRuns, TypedHeard, Heard
  <2>5. /\ TypedHeard(heard') /\ (Undamaged' => Undamaged) /\ ~Undisturbed'
        /\ heard'.newest = newest /\ heard'.done = heard.done
    BY <2>2, <2>3, <2>4 DEF TypedRuns, TypedHeard, Heard, Undamaged, Undisturbed
  <2>6. QED  BY <1>2, <2>5 DEF Gitea!Sent, Gitea!Refuse, newest
<1>3. QED  BY <1>1, <1>2 DEF Gitea!Sent

LEMMA AnswerForm ==
  ASSUME TypedRuns, NEW h \in Workers, Gitea!Answer(h)
  PROVE  /\ workers[h] # Gitea!Idle /\ workers[h].plan = <<>>
         /\ workers' = [workers EXCEPT ![h] = Gitea!Idle] /\ UNCHANGED <<group, armed, repoCard>>
         /\ TypedHeard(heard') /\ (Undamaged' => Undamaged) /\ Undisturbed' = Undisturbed
         /\ heard'.newest = Gitea!Later(h) /\ heard'.done = DoneBy(h)
<1>1. workers[h] # Gitea!Idle /\ workers[h].plan = <<>> /\ UNCHANGED <<group, armed, repoCard>>
      /\ workers' = [workers EXCEPT ![h] = Gitea!Idle]
  BY DEF Gitea!Answer
<1> DEFINE newest == Gitea!Later(h)   done == DoneBy(h)
<1>2. heard' = [heard EXCEPT !.newest = newest, !.done = done]
  BY DEF Gitea!Answer, DoneBy, RunOf, Gitea!Event
<1>3. newest \in Nat /\ done \subseteq Nat
  <2>1. workers[h].event.run \in Nat  BY <1>1 DEF TypedRuns, TypedWorker
  <2>2. QED  BY <2>1 DEF Gitea!Later, Gitea!Event, DoneBy, RunOf, TypedRuns, TypedHeard
<1> HIDE DEF newest, done
<1>4. heard' = Heard(heard.delivered, newest, done, heard.hurt, heard.raced)
  BY <1>2 DEF TypedRuns, TypedHeard, Heard
<1>5. /\ TypedHeard(heard') /\ (Undamaged' => Undamaged) /\ Undisturbed' = Undisturbed
      /\ heard'.newest = newest /\ heard'.done = done
  BY <1>3, <1>4 DEF TypedRuns, TypedHeard, Heard, Undamaged, Undisturbed
<1>6. QED  BY <1>1, <1>5 DEF newest, done

LEMMA LandForm ==
  ASSUME TypedRuns, Gitea!Land
  PROVE  /\ UNCHANGED <<workers, group>> /\ TypedHeard(heard') /\ TypedCard(repoCard') /\ TypedArmed(armed')
         /\ \E sent \in armed.sending :
              LET mine == armed.phase = sent.phase /\ armed.frame = sent.frame
                  over == sent.phase = "phase2"
              IN  /\ armed' = Timers(IF ~mine THEN armed.phase ELSE IF over THEN "none" ELSE "phase2",
                                    armed.frame, {})
                  /\ Undamaged' =>
                       /\ UNCHANGED heard
                       /\ repoCard' = IF repoCard.state = "none" THEN repoCard
                                      ELSE [state |-> IF over THEN "ended" ELSE "ongoing", frame |-> sent.frame]
<1> DEFINE lost == "lost end"
<1>0. lost # "call"  OBVIOUS
<1>1. PICK sent \in armed.sending :
        LET mine == armed.phase = sent.phase /\ armed.frame = sent.frame
            over == sent.phase = "phase2"
        IN  /\ \/ /\ repoCard' = IF repoCard.state = "none" THEN repoCard
                                 ELSE [state |-> IF over THEN "ended" ELSE "ongoing", frame |-> sent.frame]
                  /\ UNCHANGED heard
               \/ UNCHANGED repoCard /\ Gitea!Fault(lost)
            /\ armed' = [armed EXCEPT !.sending = {},
                                      !.phase = IF ~mine THEN @ ELSE IF over THEN "none" ELSE "phase2"]
  BY DEF Gitea!Land
<1> DEFINE mine == armed.phase = sent.phase /\ armed.frame = sent.frame
           over == sent.phase = "phase2"
           phase == IF ~mine THEN armed.phase ELSE IF over THEN "none" ELSE "phase2"
           nothing == {}
           state == IF over THEN "ended" ELSE "ongoing"
<1>2. armed' = [armed EXCEPT !.sending = nothing, !.phase = phase]  BY <1>1
<1>3. phase \in {"none", "phase1", "phase2"}  BY DEF TypedRuns, TypedArmed
<1> HIDE DEF lost
<1>4. Gitea!Fault(lost) => TypedHeard(heard') /\ ~Undamaged'
  BY <1>0, Faulted DEF TypedRuns
<1>5. \/ /\ repoCard' = IF repoCard.state = "none" THEN repoCard ELSE [state |-> state, frame |-> sent.frame]
         /\ UNCHANGED heard
      \/ UNCHANGED repoCard /\ Gitea!Fault(lost)
  BY <1>1
<1> HIDE DEF phase, nothing, state
<1>6. armed' = Timers(phase, armed.frame, nothing)  BY <1>2 DEF TypedRuns, TypedArmed, Timers
<1>7. TypedArmed(armed')  BY <1>3, <1>6 DEF TypedArmed, Timers
<1>8. TypedCard(repoCard') /\ TypedHeard(heard')
  <2>1. TypedCard(repoCard)  BY DEF TypedRuns
  <2>2. TypedCard([state |-> state, frame |-> sent.frame])  BY DEF TypedCard
  <2>3. TypedHeard(heard) /\ (UNCHANGED heard => TypedHeard(heard'))  BY DEF TypedRuns
  <2>4. QED  BY <1>4, <1>5, <2>1, <2>2, <2>3
<1>9. UNCHANGED <<workers, group>>  BY DEF Gitea!Land
<1>10. Undamaged' => /\ UNCHANGED heard
                     /\ repoCard' = IF repoCard.state = "none" THEN repoCard ELSE [state |-> state, frame |-> sent.frame]
  BY <1>4, <1>5
<1>11. QED  BY <1>6, <1>7, <1>8, <1>9, <1>10 DEF phase, nothing, state

LEMMA RunsTyped == RunsNumbered /\ TypedRuns /\ Gitea!Next => TypedRuns'
<1> SUFFICES ASSUME RunsNumbered, TypedRuns, Gitea!Next  PROVE TypedRuns'
  OBVIOUS
<1> DEFINE Kinds == workers = [h \in Workers |-> workers[h]] /\ \A h \in Workers : TypedWorker(workers[h])
<1>0. Kinds /\ TypedGroup(group) /\ TypedArmed(armed) /\ TypedCard(repoCard) /\ TypedHeard(heard)
  BY DEF TypedRuns
<1>1. Kinds' /\ TypedGroup(group') /\ TypedArmed(armed') /\ TypedCard(repoCard') /\ TypedHeard(heard') => TypedRuns'
  BY DEF TypedRuns
<1>2. ASSUME NEW h \in Workers, workers[h] # Gitea!Idle, Gitea!Advance(h)  PROVE Kinds'
  BY <1>2, Advanced, Replaced
<1>3. ASSUME NEW h \in Workers, workers' = [workers EXCEPT ![h] = Gitea!Idle]  PROVE Kinds'
  BY <1>3, IdleTyped, Replaced
<1>4. ASSUME NEW kind, Gitea!Fault(kind)  PROVE TypedHeard(heard')
  BY <1>4, <1>0, Faulted
<1> HIDE DEF Kinds
<1>5. ASSUME NEW h \in Workers, Gitea!Receive(h)  PROVE TypedRuns'
  <2>1. Kinds'  BY <1>5, ReceiveForm, Replaced DEF Kinds
  <2>2. QED  BY <1>0, <1>1, <1>5, <2>1, ReceiveForm
<1>6. ASSUME NEW h \in Workers, Gitea!Read(h)  PROVE TypedRuns'
  <2>1. PICK g \in {group, [run |-> Gitea!NoRun, jobs |-> {}]} :
          workers' = [workers EXCEPT ![h].plan = Gitea!Plan(Gitea!Event(h), g.run),
                                     ![h].jobs = Gitea!Shown(Gitea!Event(h), g.run, g.jobs)]
    BY <1>6 DEF Gitea!Read
  <2> DEFINE plan == Gitea!Plan(Gitea!Event(h), g.run)   jobs == Gitea!Shown(Gitea!Event(h), g.run, g.jobs)
  <2> HIDE DEF plan, jobs
  <2>2. workers[h] = Worker(workers[h].event, workers[h].jobs, workers[h].plan)
    BY DEF TypedRuns, TypedWorker
  <2>3. workers' = [workers EXCEPT ![h] = [workers[h] EXCEPT !.plan = plan, !.jobs = jobs]]
    BY <2>1 DEF plan, jobs
  <2>4. workers' = [workers EXCEPT ![h] = Worker(workers[h].event, jobs, plan)]
    BY <2>2, <2>3, WorkerForm
  <2>5. TypedWorker(Worker(workers[h].event, jobs, plan))
    <3>1. workers[h] # Gitea!Idle /\ TypedWorker(workers[h])  BY <1>6, AtWork DEF Gitea!Read, TypedRuns
    <3>2. QED  BY <3>1 DEF TypedWorker, Worker
  <2>6. Kinds'  BY <2>4, <2>5, Replaced DEF Kinds
  <2>7. TypedHeard(heard') /\ UNCHANGED <<group, armed, repoCard>>  BY <1>0, <1>4, <1>6 DEF Gitea!Read
  <2>8. QED  BY <1>0, <1>1, <2>6, <2>7
<1>7. ASSUME NEW h \in Workers, Gitea!StopTimer(h) \/ Gitea!ScheduleEnd(h)  PROVE TypedRuns'
  <2>1. /\ Gitea!Advance(h) /\ workers[h] # Gitea!Idle /\ UNCHANGED <<group, repoCard>> /\ TypedHeard(heard')
    BY <1>7, StopForm, ScheduleForm, AtWork
  <2>2. TypedArmed(armed')  BY <1>7, StopForm, ScheduleForm DEF TypedArmed, Timers
  <2>3. QED  BY <1>0, <1>1, <1>2, <2>1, <2>2
<1>8. ASSUME NEW h \in Workers, Gitea!DeleteGroup(h) \/ Gitea!PutRun(h) \/ Gitea!PutJob(h)  PROVE TypedRuns'
  <2>1. PICK call, g : TypedGroup(g) /\ Gitea!Stored(h, call, g)
    <3>1. CASE Gitea!DeleteGroup(h)
      <4> DEFINE no == FALSE   nobody == {}   g == [run |-> [id |-> 0, completed |-> no], jobs |-> nobody]
      <4>1. no \in BOOLEAN  OBVIOUS
      <4>2. Gitea!Stored(h, "clear", g)  BY <3>1 DEF Gitea!DeleteGroup, Gitea!NoRun
      <4> HIDE DEF no, nobody
      <4>3. TypedGroup(g)  BY <4>1 DEF TypedGroup
      <4>4. QED  BY <4>2, <4>3
    <3>2. CASE Gitea!PutRun(h)
      <4> DEFINE over == (workers[h].event.what = "completed")   run == workers[h].event.run
                 g == [group EXCEPT !.run = [id |-> run, completed |-> over]]
      <4>1. over \in BOOLEAN  OBVIOUS
      <4>2. Gitea!Stored(h, "putRun", g)  BY <3>2 DEF Gitea!PutRun, Gitea!Event
      <4>3. run \in Nat
        BY <3>2, AtWork DEF Gitea!PutRun, Gitea!Stored, TypedRuns, TypedWorker
      <4> HIDE DEF over, run
      <4>4. g = [run |-> [id |-> run, completed |-> over], jobs |-> group.jobs]
        BY <1>0 DEF TypedGroup
      <4>5. TypedGroup(g)  BY <4>1, <4>3, <4>4 DEF TypedGroup
      <4>6. QED  BY <4>2, <4>5
    <3>3. CASE Gitea!PutJob(h)
      <4> DEFINE jobs == group.jobs \union {<<Gitea!Event(h).run, Gitea!Event(h).job>>}
                 g == [group EXCEPT !.jobs = jobs]
      <4>1. Gitea!Stored(h, "putJob", g)  BY <3>3 DEF Gitea!PutJob
      <4> HIDE DEF jobs
      <4>2. g = [run |-> group.run, jobs |-> jobs]  BY <1>0 DEF TypedGroup
      <4>3. TypedGroup(g)  BY <1>0, <4>2 DEF TypedGroup
      <4>4. QED  BY <4>1, <4>3
    <3>4. QED  BY <1>8, <3>1, <3>2, <3>3
  <2>2. /\ Gitea!Advance(h) /\ workers[h] # Gitea!Idle /\ UNCHANGED <<armed, repoCard>> /\ TypedHeard(heard')
        /\ TypedGroup(group')
    BY <1>0, <2>1, StoredForm, AtWork
  <2>3. QED  BY <1>0, <1>1, <1>2, <2>2
<1>9. ASSUME NEW h \in Workers, Gitea!CreateActivity(h) \/ Gitea!UpdateActivity(h)  PROVE TypedRuns'
  <2>1. PICK call, card : TypedCard(card) /\ Gitea!Sent(h, call, card)
    <3>1. CASE Gitea!CreateActivity(h)
      <4>1. TypedCard([repoCard EXCEPT !.state = "ongoing"])  BY <1>0 DEF TypedCard
      <4>2. QED  BY <3>1, <4>1 DEF Gitea!CreateActivity
    <3>2. CASE Gitea!UpdateActivity(h)
      <4>1. ASSUME NEW f  PROVE TypedCard([state |-> "ongoing", frame |-> f])  BY DEF TypedCard
      <4>2. QED  BY <3>2, <4>1 DEF Gitea!UpdateActivity
    <3>3. QED  BY <1>9, <3>1, <3>2
  <2>2. UNCHANGED <<group, armed>> /\ workers[h] # Gitea!Idle
    BY <2>1, SentForm, AtWork
  <2>3. \/ repoCard' = card /\ Gitea!Advance(h) /\ UNCHANGED heard
        \/ UNCHANGED repoCard /\ workers' = [workers EXCEPT ![h] = Gitea!Idle] /\ TypedHeard(heard')
    BY <2>1, SentForm
  <2>4. QED  BY <1>0, <1>1, <1>2, <1>3, <2>1, <2>2, <2>3
<1>10. ASSUME NEW h \in Workers, Gitea!Answer(h)  PROVE TypedRuns'
  BY <1>0, <1>1, <1>3, <1>10, AnswerForm
<1>11. CASE Gitea!Fire
  <2> DEFINE sending == {[phase |-> armed.phase, frame |-> armed.frame]}
  <2>1. armed' = [armed EXCEPT !.sending = sending] /\ UNCHANGED <<workers, group, repoCard, heard>>
    BY <1>11 DEF Gitea!Fire
  <2> HIDE DEF sending
  <2>2. TypedArmed(armed')  BY <1>0, <2>1 DEF TypedArmed, Timers
  <2>3. QED  BY <1>0, <1>1, <2>1, <2>2 DEF Kinds
<1>12. CASE Gitea!Land
  BY <1>0, <1>1, <1>12, LandForm DEF Kinds
<1>13. CASE Gitea!Crash
  <2>1. Kinds'
    <3>1. workers' = [h \in Workers |-> Gitea!Idle]  BY <1>13 DEF Gitea!Crash
    <3> DEFINE idle == Gitea!Idle
    <3>2. TypedWorker(idle) /\ workers' = [h \in Workers |-> idle]  BY <3>1, IdleTyped
    <3> HIDE DEF idle
    <3>3. QED  BY <3>2 DEF Kinds
  <2>2. TypedArmed(armed')
    <3> DEFINE nothing == {}
    <3>1. armed' = Timers("none", Gitea!NoFrame, nothing)  BY <1>13 DEF Gitea!Crash, Timers
    <3> HIDE DEF nothing
    <3>2. QED  BY <3>1 DEF TypedArmed, Timers
  <2>3. TypedHeard(heard') /\ UNCHANGED <<group, repoCard>>  BY <1>4, <1>13 DEF Gitea!Crash
  <2>4. QED  BY <1>0, <1>1, <2>1, <2>2, <2>3
<1>14. QED
  BY <1>5, <1>6, <1>7, <1>8, <1>9, <1>10, <1>11, <1>12, <1>13 DEF Gitea!Next, Gitea!Work

(* One webhook at a time.                                                   *)
LEMMA OnlyOne ==
  ASSUME Handling, NEW h \in Workers, workers[h] # Gitea!Idle
  PROVE  Alone(h) /\ Working(h)
BY DEF Handling, Alone

LEMMA Moved ==
  ASSUME TypedRuns, NEW h \in Workers, Alone(h), Gitea!Advance(h)
  PROVE  /\ Alone(h)' /\ workers'[h].event = workers[h].event /\ workers'[h].jobs = workers[h].jobs
         /\ workers'[h].plan = Tail(workers[h].plan)
<1>1. workers[h] # Gitea!Idle  BY DEF Alone
<1> DEFINE w == Worker(workers[h].event, workers[h].jobs, Tail(workers[h].plan))
<1>2. workers' = [workers EXCEPT ![h] = w] /\ TypedWorker(w)  BY <1>1, Advanced
<1>3. workers'[h] = w /\ \A x \in Workers : x # h => workers'[x] = workers[x]  BY <1>2, Replaced
<1>4. w # Gitea!Idle
  <2>1. workers[h].event.what # "none"  BY <1>1 DEF TypedRuns, TypedWorker
  <2>2. Gitea!Idle.event.what = "none"  BY DEF Gitea!Idle
  <2>3. w.event = workers[h].event  BY DEF Worker
  <2>4. QED  BY <2>1, <2>2, <2>3
<1>5. w.event = workers[h].event /\ w.jobs = workers[h].jobs /\ w.plan = Tail(workers[h].plan)  BY DEF Worker
<1> HIDE DEF w
<1>6. QED  BY <1>3, <1>4, <1>5 DEF Alone

(* A webhook is received.                                                   *)
LEMMA ReceiveKept ==
  ASSUME RunsNumbered, TypedRuns, Sending, Handling, Undamaged', NEW h \in Workers, Gitea!Receive(h)
  PROVE  Sending' /\ Handling'
<1>1. /\ \A x \in Workers : workers[x] = Gitea!Idle
      /\ UNCHANGED <<group, armed, repoCard>>
      /\ Undisturbed' = Undisturbed /\ heard'.newest = heard.newest /\ heard'.done = heard.done
  BY ReceiveForm DEF Gitea!Busy
<1>2. PICK event \in Gitea!Events :
        /\ workers' = [workers EXCEPT ![h] = Worker(event, {}, <<"read">>)]
        /\ TypedWorker(Worker(event, {}, <<"read">>))
  BY ReceiveForm
<1>3. /\ workers'[h] = Worker(event, {}, <<"read">>)
      /\ \A x \in Workers : x # h => workers'[x] = Gitea!Idle
  BY <1>1, <1>2, Replaced
<1>4. workers'[h].plan = <<"read">>  BY <1>3 DEF Worker
<1>5. workers'[h] # Gitea!Idle
  <2>1. Gitea!Idle.plan = <<>>  BY DEF Gitea!Idle
  <2>2. <<"read">> # <<>>  OBVIOUS
  <2>3. QED  BY <1>4, <2>1, <2>2
<1>6. Settled(heard.newest, heard.done)  BY <1>1 DEF Handling, Alone
<1>7. Settled(heard.newest, heard.done)'  BY <1>1, <1>6 DEF Settled, Guarded, Followed
<1>8. Alone(h)' /\ Working(h)'  BY <1>3, <1>4, <1>5, <1>7 DEF Alone, Working
<1>9. QED  BY <1>1, <1>8 DEF Sending, Handling

(* Nothing but the handler's own calls moves it.                            *)
LEMMA AtStop ==
  ASSUME NEW h \in Workers, Working(h), Gitea!Calls(h, "stop")
  PROVE  /\ Fresh(h)
         /\ \/ PlanIs(h, "start", <<"stop", "clear", "putRun", "create", "update">>)
            \/ PlanIs(h, "completed", <<"stop", "clear", "create", "putRun", "schedule">>)
            \/ PlanIs(h, "job", <<"stop", "clear", "putRun", "create", "putJob", "update">>)
BY DEF Working, PlanIs, Gitea!Calls

LEMMA AtClear ==
  ASSUME NEW h \in Workers, Working(h), Gitea!Calls(h, "clear")
  PROVE  /\ Halted(h)
         /\ \/ PlanIs(h, "start", <<"clear", "putRun", "create", "update">>)
            \/ PlanIs(h, "completed", <<"clear", "create", "putRun", "schedule">>)
            \/ PlanIs(h, "job", <<"clear", "putRun", "create", "putJob", "update">>)
BY DEF Working, PlanIs, Gitea!Calls

LEMMA AtPutRun ==
  ASSUME NEW h \in Workers, Working(h), Gitea!Calls(h, "putRun")
  PROVE  \/ PlanIs(h, "start", <<"putRun", "create", "update">>) /\ Vacant(h)
         \/ PlanIs(h, "completed", <<"putRun", "schedule">>) /\ Shown(h)
         \/ PlanIs(h, "job", <<"putRun", "create", "putJob", "update">>) /\ Vacant(h)
BY DEF Working, PlanIs, Gitea!Calls

LEMMA AtCreate ==
  ASSUME NEW h \in Workers, Working(h), Gitea!Calls(h, "create")
  PROVE  \/ PlanIs(h, "start", <<"create", "update">>) /\ Recorded(h)
         \/ PlanIs(h, "completed", <<"create", "putRun", "schedule">>) /\ Vacant(h)
         \/ PlanIs(h, "job", <<"create", "putJob", "update">>) /\ Recorded(h)
BY DEF Working, PlanIs, Gitea!Calls

LEMMA AtPutJob ==
  ASSUME NEW h \in Workers, Working(h), Gitea!Calls(h, "putJob")
  PROVE  PlanIs(h, "job", <<"putJob", "update">>) /\ Recorded(h)
BY DEF Working, PlanIs, Gitea!Calls

LEMMA AtUpdate ==
  ASSUME NEW h \in Workers, Working(h), Gitea!Calls(h, "update")
  PROVE  /\ Recorded(h)
         /\ PlanIs(h, "start", <<"update">>) \/ PlanIs(h, "job", <<"update">>)
BY DEF Working, PlanIs, Gitea!Calls

LEMMA AtSchedule ==
  ASSUME NEW h \in Workers, Working(h), Gitea!Calls(h, "schedule")
  PROVE  PlanIs(h, "completed", <<"schedule">>) /\ Entombed(h)
BY DEF Working, PlanIs, Gitea!Calls

LEMMA AtRead ==
  ASSUME NEW h \in Workers, Working(h), Gitea!Calls(h, "read")
  PROVE  Settled(heard.newest, heard.done)
BY DEF Working, PlanIs, Gitea!Calls

LEMMA AtAnswer ==
  ASSUME NEW h \in Workers, Working(h), workers[h].plan = <<>>
  PROVE  Settled(Gitea!Later(h), DoneBy(h))
BY DEF Working, PlanIs

LEMMA PlanTails ==
  /\ Tail(<<"stop", "clear", "putRun", "create", "update">>) = <<"clear", "putRun", "create", "update">>
  /\ Tail(<<"clear", "putRun", "create", "update">>) = <<"putRun", "create", "update">>
  /\ Tail(<<"putRun", "create", "update">>) = <<"create", "update">> /\ Tail(<<"create", "update">>) = <<"update">>
  /\ Tail(<<"stop", "clear", "create", "putRun", "schedule">>) = <<"clear", "create", "putRun", "schedule">>
  /\ Tail(<<"clear", "create", "putRun", "schedule">>) = <<"create", "putRun", "schedule">>
  /\ Tail(<<"create", "putRun", "schedule">>) = <<"putRun", "schedule">>
  /\ Tail(<<"putRun", "schedule">>) = <<"schedule">>
  /\ Tail(<<"stop", "clear", "putRun", "create", "putJob", "update">>)
       = <<"clear", "putRun", "create", "putJob", "update">>
  /\ Tail(<<"clear", "putRun", "create", "putJob", "update">>) = <<"putRun", "create", "putJob", "update">>
  /\ Tail(<<"putRun", "create", "putJob", "update">>) = <<"create", "putJob", "update">>
  /\ Tail(<<"create", "putJob", "update">>) = <<"putJob", "update">> /\ Tail(<<"putJob", "update">>) = <<"update">>
  /\ \A call : Tail(<<call>>) = <<>>
OBVIOUS

LEMMA LaterIs ==
  ASSUME TypedRuns, NEW h \in Workers, workers[h] # Gitea!Idle
  PROVE  /\ RunOf(h) \in Nat \ {0} /\ Gitea!Later(h) \in Nat \ {0} /\ heard.newest \in Nat
         /\ heard.newest =< Gitea!Later(h) /\ RunOf(h) =< Gitea!Later(h)
         /\ Gitea!Later(h) \in {heard.newest, RunOf(h)}
         /\ group.run.id \in Nat /\ group.run.completed \in BOOLEAN
         /\ workers[h].event.what \in {"start", "completed", "job"}
         /\ \A run \in heard.done : run \in Nat
<1>1. RunOf(h) \in Nat \ {0} /\ heard.newest \in Nat /\ workers[h].event.what \in {"start", "completed", "job"}
  BY DEF TypedRuns, TypedWorker, TypedHeard, RunOf
<1>2. Gitea!Later(h) = IF RunOf(h) > heard.newest THEN RunOf(h) ELSE heard.newest
  BY DEF Gitea!Later, Gitea!Event, RunOf
<1>3. group.run.id \in Nat /\ group.run.completed \in BOOLEAN /\ \A run \in heard.done : run \in Nat
  BY DEF TypedRuns, TypedGroup, TypedHeard
<1>4. QED  BY <1>1, <1>2, <1>3

(* What a call that answers leaves of the handler's place.                  *)
LEMMA Proceeds ==
  ASSUME TypedRuns, Handling, Sending, NEW h \in Workers, NEW call, Gitea!Calls(h, call), Gitea!Advance(h),
         heard'.newest = heard.newest, heard'.done = heard.done, Undisturbed' = Undisturbed
  PROVE  /\ Alone(h) /\ Working(h) /\ workers[h] # Gitea!Idle /\ Alone(h)'
         /\ RunOf(h)' = RunOf(h) /\ Gitea!Later(h)' = Gitea!Later(h) /\ DoneBy(h)' = DoneBy(h)
         /\ workers'[h].jobs = workers[h].jobs /\ workers'[h].event = workers[h].event
         /\ \A what, p : PlanIs(h, what, p) => PlanIs(h, what, Tail(p))'
         /\ UNCHANGED repoCard => (Current(h) => Current(h)')
<1>1. workers[h] # Gitea!Idle  BY AtWork
<1>2. Alone(h) /\ Working(h)  BY <1>1, OnlyOne
<1>3. /\ Alone(h)' /\ workers'[h].event = workers[h].event /\ workers'[h].jobs = workers[h].jobs
      /\ workers'[h].plan = Tail(workers[h].plan)
  BY <1>2, Moved
<1>4. RunOf(h)' = RunOf(h) /\ Gitea!Later(h)' = Gitea!Later(h) /\ DoneBy(h)' = DoneBy(h)
  BY <1>3 DEF RunOf, Gitea!Later, Gitea!Event, DoneBy
<1>5. \A what, p : PlanIs(h, what, p) => PlanIs(h, what, Tail(p))'
  BY <1>3 DEF PlanIs
<1>6. UNCHANGED repoCard => (Current(h) => Current(h)')
  BY <1>3, <1>4 DEF Current
<1>7. QED  BY <1>1, <1>2, <1>3, <1>4, <1>5, <1>6

LEMMA StopHandled ==
  ASSUME TypedRuns, Sending, Handling, Undamaged', NEW h \in Workers, Gitea!StopTimer(h)
  PROVE  Sending' /\ Handling'
<1>1. /\ Gitea!Calls(h, "stop") /\ Gitea!Advance(h) /\ UNCHANGED <<group, repoCard>>
      /\ armed' = Timers("none", armed.frame, armed.sending) /\ armed.sending = {}
      /\ heard'.newest = heard.newest /\ heard'.done = heard.done /\ Undisturbed' = Undisturbed
  BY StopForm
<1>2. armed'.phase = "none" /\ armed'.sending = {}  BY <1>1 DEF Timers
<1>3. /\ Alone(h)' /\ Working(h)
      /\ \A what, p : PlanIs(h, what, p) => PlanIs(h, what, Tail(p))'
      /\ Current(h) => Current(h)'
  BY <1>1, Proceeds
<1>4. Halted(h)'  BY <1>1, <1>2, <1>3, AtStop DEF Fresh, Halted, Unarmed
<1>5. \/ PlanIs(h, "start", <<"clear", "putRun", "create", "update">>)'
      \/ PlanIs(h, "completed", <<"clear", "create", "putRun", "schedule">>)'
      \/ PlanIs(h, "job", <<"clear", "putRun", "create", "putJob", "update">>)'
  BY <1>1, <1>3, AtStop, PlanTails
<1>6. Working(h)'  BY <1>4, <1>5 DEF Working
<1>7. QED  BY <1>2, <1>3, <1>6 DEF Sending, Handling

LEMMA ClearHandled ==
  ASSUME TypedRuns, Sending, Handling, Undamaged', NEW h \in Workers, Gitea!DeleteGroup(h)
  PROVE  Sending' /\ Handling'
<1>1. /\ Gitea!Calls(h, "clear") /\ Gitea!Advance(h) /\ UNCHANGED <<armed, repoCard, heard>>
      /\ group' = [run |-> Gitea!NoRun, jobs |-> {}]
  BY StoredForm DEF Gitea!DeleteGroup
<1>2. group'.run.id = 0 /\ group'.run.completed = FALSE /\ group'.jobs = {}
  BY <1>1 DEF Gitea!NoRun
<1>3. /\ Alone(h)' /\ Working(h) /\ workers[h] # Gitea!Idle
      /\ Gitea!Later(h)' = Gitea!Later(h)
      /\ \A what, p : PlanIs(h, what, p) => PlanIs(h, what, Tail(p))'
      /\ Current(h) => Current(h)'
  BY <1>1, Proceeds DEF Undisturbed
<1>4. Gitea!Later(h) \in Nat  BY <1>3, LaterIs
<1>5. Vacant(h)'  BY <1>1, <1>2, <1>3, <1>4, AtClear DEF Vacant, Halted, Unarmed, Of
<1>6. \/ PlanIs(h, "start", <<"putRun", "create", "update">>)'
      \/ PlanIs(h, "completed", <<"create", "putRun", "schedule">>)'
      \/ PlanIs(h, "job", <<"putRun", "create", "putJob", "update">>)'
  BY <1>1, <1>3, AtClear, PlanTails
<1>7. Working(h)'  BY <1>5, <1>6 DEF Working
<1>8. QED  BY <1>1, <1>3, <1>7 DEF Sending, Handling

LEMMA PutRunHandled ==
  ASSUME TypedRuns, Sending, Handling, Undamaged', NEW h \in Workers, Gitea!PutRun(h)
  PROVE  Sending' /\ Handling'
<1> DEFINE over == (workers[h].event.what = "completed")
<1>1. /\ Gitea!Calls(h, "putRun") /\ Gitea!Advance(h) /\ UNCHANGED <<armed, repoCard, heard>>
      /\ group' = [group EXCEPT !.run = [id |-> RunOf(h), completed |-> over]]
  BY StoredForm DEF Gitea!PutRun, Gitea!Event, RunOf
<1>2. group'.run.id = RunOf(h) /\ group'.run.completed = over /\ group'.jobs = group.jobs
  <2> DEFINE run == [id |-> RunOf(h), completed |-> over]
  <2>1. run.id = RunOf(h) /\ run.completed = over  OBVIOUS
  <2>2. group' = [group EXCEPT !.run = run]  BY <1>1
  <2> HIDE DEF run
  <2>3. group' = [run |-> run, jobs |-> group.jobs]  BY <2>2 DEF TypedRuns, TypedGroup
  <2>4. group'.run = run /\ group'.jobs = group.jobs  BY <2>3
  <2>5. QED  BY <2>1, <2>4
<1>3. /\ Alone(h)' /\ Working(h) /\ workers[h] # Gitea!Idle
      /\ Gitea!Later(h)' = Gitea!Later(h) /\ RunOf(h)' = RunOf(h)
      /\ \A what, p : PlanIs(h, what, p) => PlanIs(h, what, Tail(p))'
      /\ Current(h) => Current(h)'
      /\ Undisturbed' = Undisturbed
  BY <1>1, Proceeds DEF Undisturbed
<1>4. Gitea!Later(h) \in Nat /\ RunOf(h) =< Gitea!Later(h)  BY <1>3, LaterIs
<1> HIDE DEF over
<1>5. ASSUME \/ PlanIs(h, "start", <<"putRun", "create", "update">>) /\ Vacant(h)
             \/ PlanIs(h, "job", <<"putRun", "create", "putJob", "update">>) /\ Vacant(h)
      PROVE  Working(h)'
  <2>1. ~over  BY <1>5 DEF PlanIs, over
  <2>2. Recorded(h)'  BY <1>1, <1>2, <1>3, <1>4, <1>5, <2>1 DEF Recorded, Vacant, Halted, Unarmed
  <2>3. \/ PlanIs(h, "start", <<"create", "update">>)'
        \/ PlanIs(h, "job", <<"create", "putJob", "update">>)'
    BY <1>3, <1>5, PlanTails
  <2>4. QED  BY <2>2, <2>3 DEF Working
<1>6. ASSUME PlanIs(h, "completed", <<"putRun", "schedule">>) /\ Shown(h)
      PROVE  Working(h)'
  <2>1. over  BY <1>6 DEF PlanIs, over
  <2>2. Entombed(h)'  BY <1>1, <1>2, <1>3, <1>6, <2>1 DEF Entombed, Shown, Vacant, Halted, Unarmed
  <2>3. PlanIs(h, "completed", <<"schedule">>)'  BY <1>3, <1>6, PlanTails
  <2>4. QED  BY <2>2, <2>3 DEF Working
<1>7. Working(h)'  BY <1>1, <1>3, <1>5, <1>6, AtPutRun
<1>8. QED  BY <1>1, <1>3, <1>7 DEF Sending, Handling

LEMMA PutJobHandled ==
  ASSUME TypedRuns, Sending, Handling, Undamaged', NEW h \in Workers, Gitea!PutJob(h)
  PROVE  Sending' /\ Handling'
<1> DEFINE job == <<RunOf(h), workers[h].event.job>>   jobs == group.jobs \union {job}
<1>1. /\ Gitea!Calls(h, "putJob") /\ Gitea!Advance(h) /\ UNCHANGED <<armed, repoCard, heard>>
      /\ group' = [group EXCEPT !.jobs = jobs]
  BY StoredForm DEF Gitea!PutJob, Gitea!Event, RunOf
<1>2. job[1] = RunOf(h) /\ \A j \in jobs : j \in group.jobs \/ j = job  OBVIOUS
<1> HIDE DEF job, jobs
<1>3. group'.run = group.run /\ group'.jobs = jobs  BY <1>1 DEF TypedRuns, TypedGroup
<1>4. /\ Alone(h)' /\ Working(h) /\ workers[h] # Gitea!Idle
      /\ Gitea!Later(h)' = Gitea!Later(h) /\ RunOf(h)' = RunOf(h)
      /\ \A what, p : PlanIs(h, what, p) => PlanIs(h, what, Tail(p))'
      /\ Current(h) => Current(h)'
      /\ Undisturbed' = Undisturbed
  BY <1>1, Proceeds DEF Undisturbed
<1>5. PlanIs(h, "job", <<"putJob", "update">>) /\ Recorded(h)  BY <1>1, <1>4, AtPutJob
<1>6. Recorded(h)'
  BY <1>1, <1>2, <1>3, <1>4, <1>5 DEF Recorded, Vacant, Halted, Unarmed, Of
<1>7. PlanIs(h, "job", <<"update">>)'  BY <1>4, <1>5, PlanTails
<1>8. Working(h)'  BY <1>6, <1>7 DEF Working
<1>9. QED  BY <1>1, <1>4, <1>8 DEF Sending, Handling

(* A refused call ends the handler: what it leaves is settled.              *)
LEMMA RefusedHandled ==
  ASSUME TypedRuns, Sending, NEW h \in Workers, Alone(h), Vacant(h),
         workers' = [workers EXCEPT ![h] = Gitea!Idle], UNCHANGED <<group, armed, repoCard>>,
         ~Undisturbed', heard'.newest = Gitea!Later(h), heard'.done = heard.done
  PROVE  Sending' /\ Handling'
<1>1. \A x \in Workers : workers'[x] = Gitea!Idle  BY Replaced, IdleTyped DEF Alone
<1>2. workers[h] # Gitea!Idle  BY DEF Alone
<1>3. Guarded(Gitea!Later(h), heard.done)
  BY <1>2, LaterIs DEF Guarded, Vacant, Halted, Current, Unarmed
<1>4. Settled(heard.newest, heard.done)'  BY <1>3 DEF Settled, Guarded
<1>5. QED  BY <1>1, <1>4 DEF Handling, Sending

LEMMA CreateHandled ==
  ASSUME TypedRuns, Sending, Handling, Undamaged', NEW h \in Workers, Gitea!CreateActivity(h)
  PROVE  Sending' /\ Handling'
<1>1. /\ Gitea!Calls(h, "create") /\ UNCHANGED <<group, armed>>
      /\ \/ repoCard' = [repoCard EXCEPT !.state = "ongoing"] /\ Gitea!Advance(h) /\ UNCHANGED heard
         \/ /\ UNCHANGED repoCard /\ workers' = [workers EXCEPT ![h] = Gitea!Idle]
            /\ ~Undisturbed' /\ heard'.newest = Gitea!Later(h) /\ heard'.done = heard.done
  BY SentForm DEF Gitea!CreateActivity
<1>2. workers[h] # Gitea!Idle /\ Alone(h) /\ Working(h)  BY <1>1, AtWork, OnlyOne
<1>3. \/ PlanIs(h, "start", <<"create", "update">>) /\ Recorded(h)
      \/ PlanIs(h, "completed", <<"create", "putRun", "schedule">>) /\ Vacant(h)
      \/ PlanIs(h, "job", <<"create", "putJob", "update">>) /\ Recorded(h)
  BY <1>1, <1>2, AtCreate
<1>4. CASE /\ UNCHANGED repoCard /\ workers' = [workers EXCEPT ![h] = Gitea!Idle]
           /\ ~Undisturbed' /\ heard'.newest = Gitea!Later(h) /\ heard'.done = heard.done
  BY <1>1, <1>2, <1>3, <1>4, RefusedHandled DEF Recorded
<1>5. CASE repoCard' = [repoCard EXCEPT !.state = "ongoing"] /\ Gitea!Advance(h) /\ UNCHANGED heard
  <2>1. repoCard'.state = "ongoing" /\ repoCard'.frame = repoCard.frame
    BY <1>5 DEF TypedRuns, TypedCard
  <2>2. /\ Alone(h)' /\ Gitea!Later(h)' = Gitea!Later(h) /\ RunOf(h)' = RunOf(h)
        /\ workers'[h].jobs = workers[h].jobs
        /\ \A what, p : PlanIs(h, what, p) => PlanIs(h, what, Tail(p))'
        /\ Undisturbed' = Undisturbed
    BY <1>1, <1>5, Proceeds DEF Undisturbed
  <2>3. Current(h) => Current(h)'  BY <1>5, <2>1, <2>2 DEF Current
  <2>4. Vacant(h) => Vacant(h)' /\ Shown(h)'
    BY <1>1, <2>1, <2>2, <2>3 DEF Shown, Vacant, Halted, Unarmed
  <2>5. Recorded(h) => Recorded(h)'  BY <1>1, <2>2, <2>4 DEF Recorded
  <2>6. Working(h)'
    <3>1. ASSUME PlanIs(h, "start", <<"create", "update">>), Recorded(h)  PROVE Working(h)'
      <4>1. PlanIs(h, "start", <<"update">>)'  BY <2>2, <3>1, PlanTails
      <4>2. QED  BY <2>5, <3>1, <4>1 DEF Working
    <3>2. ASSUME PlanIs(h, "completed", <<"create", "putRun", "schedule">>), Vacant(h)  PROVE Working(h)'
      <4>1. PlanIs(h, "completed", <<"putRun", "schedule">>)'  BY <2>2, <3>2, PlanTails
      <4>2. QED  BY <2>4, <3>2, <4>1 DEF Working
    <3>3. ASSUME PlanIs(h, "job", <<"create", "putJob", "update">>), Recorded(h)  PROVE Working(h)'
      <4>1. PlanIs(h, "job", <<"putJob", "update">>)'  BY <2>2, <3>3, PlanTails
      <4>2. QED  BY <2>5, <3>3, <4>1 DEF Working
    <3>4. QED  BY <1>3, <3>1, <3>2, <3>3
  <2>7. QED  BY <1>1, <2>2, <2>6 DEF Sending, Handling
<1>6. QED  BY <1>1, <1>4, <1>5

LEMMA UpdateHandled ==
  ASSUME TypedRuns, Sending, Handling, Undamaged', NEW h \in Workers, Gitea!UpdateActivity(h)
  PROVE  Sending' /\ Handling'
<1>1. /\ Gitea!Calls(h, "update") /\ UNCHANGED <<group, armed>>
      /\ \/ /\ repoCard' = [state |-> "ongoing", frame |-> Gitea!Frame(h)]
            /\ Gitea!Advance(h) /\ UNCHANGED heard
         \/ /\ UNCHANGED repoCard /\ workers' = [workers EXCEPT ![h] = Gitea!Idle]
            /\ ~Undisturbed' /\ heard'.newest = Gitea!Later(h) /\ heard'.done = heard.done
  BY SentForm DEF Gitea!UpdateActivity
<1>2. workers[h] # Gitea!Idle /\ Alone(h) /\ Working(h)  BY <1>1, AtWork, OnlyOne
<1>3. Recorded(h) /\ (PlanIs(h, "start", <<"update">>) \/ PlanIs(h, "job", <<"update">>))
  BY <1>1, <1>2, AtUpdate
<1>4. CASE /\ UNCHANGED repoCard /\ workers' = [workers EXCEPT ![h] = Gitea!Idle]
           /\ ~Undisturbed' /\ heard'.newest = Gitea!Later(h) /\ heard'.done = heard.done
  BY <1>1, <1>2, <1>3, <1>4, RefusedHandled DEF Recorded
<1>5. CASE /\ repoCard' = [state |-> "ongoing", frame |-> Gitea!Frame(h)]
           /\ Gitea!Advance(h) /\ UNCHANGED heard
  <2>1. /\ repoCard'.state = "ongoing" /\ repoCard'.frame.run = RunOf(h)
        /\ repoCard'.frame.jobs = workers[h].jobs
    BY <1>5 DEF Gitea!Frame, Gitea!Event, RunOf
  <2>2. /\ Alone(h)' /\ Gitea!Later(h)' = Gitea!Later(h) /\ DoneBy(h)' = DoneBy(h)
        /\ \A what, p : PlanIs(h, what, p) => PlanIs(h, what, Tail(p))'
        /\ Undisturbed' = Undisturbed
    BY <1>1, <1>5, Proceeds DEF Undisturbed
  <2>3. DoneBy(h) = heard.done  BY <1>3 DEF PlanIs, DoneBy
  <2>4. workers'[h].plan = <<>>
    <3>1. PlanIs(h, "start", <<>>)' \/ PlanIs(h, "job", <<>>)'  BY <1>3, <2>2, PlanTails
    <3>2. QED  BY <3>1 DEF PlanIs
  <2>5. Guarded(Gitea!Later(h), heard.done)'
    BY <1>1, <1>2, <1>3, <1>5, <2>2, LaterIs DEF Guarded, Recorded, Vacant, Halted, Current, Unarmed
  <2>6. Undisturbed => Followed(Gitea!Later(h), heard.done)'
    BY <1>1, <1>2, <1>3, <1>5, <2>1, <2>2, LaterIs
    DEF Followed, Recorded, Vacant, Halted, Current, Unarmed, Of
  <2>7. Settled(Gitea!Later(h), DoneBy(h))'
    BY <1>5, <2>2, <2>3, <2>5, <2>6 DEF Settled
  <2>8. Working(h)'  BY <2>4, <2>7 DEF Working
  <2>9. QED  BY <1>1, <2>2, <2>8 DEF Sending, Handling
<1>6. QED  BY <1>1, <1>4, <1>5

LEMMA ScheduleHandled ==
  ASSUME TypedRuns, Sending, Handling, Undamaged', NEW h \in Workers, Gitea!ScheduleEnd(h)
  PROVE  Sending' /\ Handling'
<1>1. /\ Gitea!Calls(h, "schedule") /\ Gitea!Advance(h) /\ UNCHANGED <<group, repoCard>>
      /\ armed' = Timers("phase1", Gitea!Frame(h), armed.sending) /\ armed.sending = {}
      /\ heard'.newest = heard.newest /\ heard'.done = heard.done /\ Undisturbed' = Undisturbed
  BY ScheduleForm
<1>2. /\ armed'.phase = "phase1" /\ armed'.sending = {}
      /\ armed'.frame.run = RunOf(h) /\ armed'.frame.jobs = workers[h].jobs
  BY <1>1 DEF Timers, Gitea!Frame, Gitea!Event, RunOf
<1>3. /\ Alone(h)' /\ Working(h) /\ workers[h] # Gitea!Idle
      /\ Gitea!Later(h)' = Gitea!Later(h) /\ DoneBy(h)' = DoneBy(h)
      /\ \A what, p : PlanIs(h, what, p) => PlanIs(h, what, Tail(p))'
  BY <1>1, Proceeds
<1>4. PlanIs(h, "completed", <<"schedule">>) /\ Entombed(h)  BY <1>1, <1>3, AtSchedule
<1>5. DoneBy(h) = heard.done \union {RunOf(h)}  BY <1>4 DEF PlanIs, DoneBy
<1>6. workers'[h].plan = <<>>
  <2>1. PlanIs(h, "completed", <<>>)'  BY <1>3, <1>4, PlanTails
  <2>2. QED  BY <2>1 DEF PlanIs
<1>7. \A run : run \in DoneBy(h) <=> run \in heard.done \/ run = RunOf(h)  BY <1>5
<1>8. Guarded(Gitea!Later(h), DoneBy(h))'
  BY <1>1, <1>2, <1>3, <1>4, <1>7, LaterIs DEF Guarded, Entombed, Halted, Current, Unarmed
<1>9. Undisturbed => Followed(Gitea!Later(h), DoneBy(h))'
  BY <1>1, <1>2, <1>3, <1>4, <1>7, LaterIs
  DEF Followed, Entombed, Halted, Current, Unarmed, Of
<1>10. Settled(Gitea!Later(h), DoneBy(h))'  BY <1>1, <1>8, <1>9 DEF Settled
<1>11. Working(h)'  BY <1>6, <1>10 DEF Working
<1>12. QED  BY <1>2, <1>3, <1>11 DEF Sending, Handling

LEMMA AnswerHandled ==
  ASSUME TypedRuns, Sending, Handling, Undamaged', NEW h \in Workers, Gitea!Answer(h)
  PROVE  Sending' /\ Handling'
<1>1. /\ workers[h] # Gitea!Idle /\ workers[h].plan = <<>> /\ UNCHANGED <<group, armed, repoCard>>
      /\ workers' = [workers EXCEPT ![h] = Gitea!Idle]
      /\ Undisturbed' = Undisturbed /\ heard'.newest = Gitea!Later(h) /\ heard'.done = DoneBy(h)
  BY AnswerForm
<1>2. Alone(h) /\ Working(h)  BY <1>1, OnlyOne
<1>3. Settled(Gitea!Later(h), DoneBy(h))  BY <1>1, <1>2, AtAnswer
<1>4. \A x \in Workers : workers'[x] = Gitea!Idle  BY <1>1, <1>2, Replaced, IdleTyped DEF Alone
<1>5. Settled(heard.newest, heard.done)'  BY <1>1, <1>3 DEF Settled, Guarded, Followed
<1>6. QED  BY <1>1, <1>4, <1>5 DEF Handling, Sending

(* Short sequences of calls, joined.                                        *)
LEMMA Joined23 ==
  ASSUME NEW S, NEW a \in S, NEW b \in S, NEW c \in S, NEW d \in S, NEW e \in S
  PROVE  <<a, b>> \o <<c, d, e>> = <<a, b, c, d, e>>
<1>1. <<a, b>> \in Seq(S) /\ <<c, d, e>> \in Seq(S) /\ <<a, b, c, d, e>> \in Seq(S)  OBVIOUS
<1>2. <<a, b>> \o <<c, d, e>> \in Seq(S) /\ Len(<<a, b>> \o <<c, d, e>>) = 5  BY <1>1
<1>3. \A i \in 1..5 : (<<a, b>> \o <<c, d, e>>)[i] = <<a, b, c, d, e>>[i]  BY <1>1
<1>4. QED  BY <1>1, <1>2, <1>3, SeqEqual

LEMMA Joined21 ==
  ASSUME NEW S, NEW a \in S, NEW b \in S, NEW c \in S
  PROVE  <<a, b>> \o <<c>> = <<a, b, c>>
<1>1. <<a, b>> \in Seq(S) /\ <<c>> \in Seq(S) /\ <<a, b, c>> \in Seq(S)  OBVIOUS
<1>2. <<a, b>> \o <<c>> \in Seq(S) /\ Len(<<a, b>> \o <<c>>) = 3  BY <1>1
<1>3. \A i \in 1..3 : (<<a, b>> \o <<c>>)[i] = <<a, b, c>>[i]  BY <1>1
<1>4. QED  BY <1>1, <1>2, <1>3, SeqEqual

LEMMA Joined32 ==
  ASSUME NEW S, NEW a \in S, NEW b \in S, NEW c \in S, NEW d \in S, NEW e \in S
  PROVE  <<a, b, c>> \o <<d, e>> = <<a, b, c, d, e>>
<1>1. <<a, b, c>> \in Seq(S) /\ <<d, e>> \in Seq(S) /\ <<a, b, c, d, e>> \in Seq(S)  OBVIOUS
<1>2. <<a, b, c>> \o <<d, e>> \in Seq(S) /\ Len(<<a, b, c>> \o <<d, e>>) = 5  BY <1>1
<1>3. \A i \in 1..5 : (<<a, b, c>> \o <<d, e>>)[i] = <<a, b, c, d, e>>[i]  BY <1>1
<1>4. QED  BY <1>1, <1>2, <1>3, SeqEqual

LEMMA Joined22 ==
  ASSUME NEW S, NEW a \in S, NEW b \in S, NEW c \in S, NEW d \in S
  PROVE  <<a, b>> \o <<c, d>> = <<a, b, c, d>>
<1>1. <<a, b>> \in Seq(S) /\ <<c, d>> \in Seq(S) /\ <<a, b, c, d>> \in Seq(S)  OBVIOUS
<1>2. <<a, b>> \o <<c, d>> \in Seq(S) /\ Len(<<a, b>> \o <<c, d>>) = 4  BY <1>1
<1>3. \A i \in 1..4 : (<<a, b>> \o <<c, d>>)[i] = <<a, b, c, d>>[i]  BY <1>1
<1>4. QED  BY <1>1, <1>2, <1>3, SeqEqual

LEMMA Joined42 ==
  ASSUME NEW S, NEW a \in S, NEW b \in S, NEW c \in S, NEW d \in S, NEW e \in S, NEW f \in S
  PROVE  <<a, b, c, d>> \o <<e, f>> = <<a, b, c, d, e, f>>
<1>1. <<a, b, c, d>> \in Seq(S) /\ <<e, f>> \in Seq(S) /\ <<a, b, c, d, e, f>> \in Seq(S)  OBVIOUS
<1>2. <<a, b, c, d>> \o <<e, f>> \in Seq(S) /\ Len(<<a, b, c, d>> \o <<e, f>>) = 6  BY <1>1
<1>3. \A i \in 1..6 : (<<a, b, c, d>> \o <<e, f>>)[i] = <<a, b, c, d, e, f>>[i]  BY <1>1
<1>4. QED  BY <1>1, <1>2, <1>3, SeqEqual

LEMMA Joined12 ==
  ASSUME NEW S, NEW a \in S, NEW b \in S, NEW c \in S
  PROVE  <<a>> \o <<b, c>> = <<a, b, c>>
<1>1. <<a>> \in Seq(S) /\ <<b, c>> \in Seq(S) /\ <<a, b, c>> \in Seq(S)  OBVIOUS
<1>2. <<a>> \o <<b, c>> \in Seq(S) /\ Len(<<a>> \o <<b, c>>) = 3  BY <1>1
<1>3. \A i \in 1..3 : (<<a>> \o <<b, c>>)[i] = <<a, b, c>>[i]  BY <1>1
<1>4. QED  BY <1>1, <1>2, <1>3, SeqEqual

(* What a webhook sets out to do.                                           *)
LEMMA Concatenated ==
  /\ <<"stop", "clear">> \o <<"putRun", "create", "update">> = <<"stop", "clear", "putRun", "create", "update">>
  /\ (<<"stop", "clear">> \o <<"create">>) \o <<"putRun", "schedule">>
       = <<"stop", "clear", "create", "putRun", "schedule">>
  /\ (<<"stop", "clear">> \o <<"putRun", "create">>) \o <<"putJob", "update">>
       = <<"stop", "clear", "putRun", "create", "putJob", "update">>
  /\ (<<>> \o <<"create">>) \o <<"putRun", "schedule">> = <<"create", "putRun", "schedule">>
  /\ (<<>> \o <<"putRun", "create">>) \o <<"putJob", "update">> = <<"putRun", "create", "putJob", "update">>
  /\ (<<>> \o <<>>) \o <<"putRun", "schedule">> = <<"putRun", "schedule">>
  /\ (<<>> \o <<>>) \o <<"putJob", "update">> = <<"putJob", "update">>
  /\ <<>> \o <<"putRun", "create", "update">> = <<"putRun", "create", "update">>
<1> DEFINE Names == {"stop", "clear", "create", "update", "putRun", "putJob", "schedule"}
<1>1. /\ "stop" \in Names /\ "clear" \in Names /\ "create" \in Names /\ "update" \in Names
      /\ "putRun" \in Names /\ "putJob" \in Names /\ "schedule" \in Names
  OBVIOUS
<1> HIDE DEF Names
<1>2. <<"stop", "clear">> \o <<"putRun", "create", "update">> = <<"stop", "clear", "putRun", "create", "update">>
  BY <1>1, Joined23
<1>3. <<"stop", "clear">> \o <<"create">> = <<"stop", "clear", "create">>  BY <1>1, Joined21
<1>4. <<"stop", "clear", "create">> \o <<"putRun", "schedule">> = <<"stop", "clear", "create", "putRun", "schedule">>
  BY <1>1, Joined32
<1>5. <<"stop", "clear">> \o <<"putRun", "create">> = <<"stop", "clear", "putRun", "create">>  BY <1>1, Joined22
<1>6. <<"stop", "clear", "putRun", "create">> \o <<"putJob", "update">>
        = <<"stop", "clear", "putRun", "create", "putJob", "update">>
  BY <1>1, Joined42
<1>7. <<"create">> \o <<"putRun", "schedule">> = <<"create", "putRun", "schedule">>  BY <1>1, Joined12
<1>8. <<"putRun", "create">> \o <<"putJob", "update">> = <<"putRun", "create", "putJob", "update">>
  BY <1>1, Joined22
<1>9. /\ <<>> \o <<"create">> = <<"create">> /\ <<>> \o <<"putRun", "create">> = <<"putRun", "create">>
      /\ <<>> \o <<>> = <<>> /\ <<>> \o <<"putRun", "schedule">> = <<"putRun", "schedule">>
      /\ <<>> \o <<"putJob", "update">> = <<"putJob", "update">>
      /\ <<>> \o <<"putRun", "create", "update">> = <<"putRun", "create", "update">>
  <2>1. \A a, b, c : <<>> \o <<a, b, c>> = <<a, b, c>>  OBVIOUS
  <2>2. \A a, b : <<>> \o <<a, b>> = <<a, b>>  OBVIOUS
  <2>3. \A a : <<>> \o <<a>> = <<a>>  OBVIOUS
  <2>4. <<>> \o <<>> = <<>>  OBVIOUS
  <2>5. QED  BY <2>1, <2>2, <2>3, <2>4
<1>10. QED  BY <1>2, <1>3, <1>4, <1>5, <1>6, <1>7, <1>8, <1>9

LEMMA PlansMade ==
  ASSUME NEW event, NEW prev, event.run \in Nat, prev.id \in Nat, ~Gitea!Late(event, prev)
  PROVE  /\ event.run >= prev.id /\ (event.run = prev.id => ~prev.completed)
         /\ event.what = "start" =>
              Gitea!Plan(event, prev) = IF event.run > prev.id
                THEN <<"stop", "clear", "putRun", "create", "update">> ELSE <<"putRun", "create", "update">>
         /\ event.what = "completed" =>
              Gitea!Plan(event, prev) =
                IF event.run = prev.id THEN <<"putRun", "schedule">>
                ELSE IF prev = Gitea!NoRun THEN <<"create", "putRun", "schedule">>
                ELSE <<"stop", "clear", "create", "putRun", "schedule">>
         /\ event.what = "job" =>
              Gitea!Plan(event, prev) =
                IF event.run = prev.id THEN <<"putJob", "update">>
                ELSE IF prev = Gitea!NoRun THEN <<"putRun", "create", "putJob", "update">>
                ELSE <<"stop", "clear", "putRun", "create", "putJob", "update">>
<1>1. event.run >= prev.id /\ (event.run = prev.id => ~prev.completed)  BY DEF Gitea!Late
<1>2. CASE event.what = "start"
  <2>1. Gitea!Plan(event, prev) = Gitea!Started(event, prev)  BY <1>2 DEF Gitea!Plan
  <2>2. CASE event.run > prev.id
    BY <1>1, <1>2, <2>1, <2>2, Concatenated DEF Gitea!Started, Gitea!Newer, Gitea!When, Gitea!Supersede
  <2>3. CASE event.run = prev.id
    BY <1>1, <1>2, <2>1, <2>3, Concatenated DEF Gitea!Started, Gitea!Newer, Gitea!When, Gitea!Supersede
  <2>4. QED  BY <1>1, <2>2, <2>3
<1>3. CASE event.what = "completed"
  <2> DEFINE fresh == event.run > prev.id /\ prev # Gitea!NoRun   other == event.run # prev.id
  <2>1. Gitea!Plan(event, prev) =
          ((IF fresh THEN <<"stop", "clear">> ELSE <<>>) \o (IF other THEN <<"create">> ELSE <<>>)) \o <<"putRun", "schedule">>
    BY <1>3 DEF Gitea!Plan, Gitea!Completed, Gitea!Newer, Gitea!Tracked, Gitea!When, Gitea!Supersede
  <2>2. CASE event.run = prev.id
    <3>1. ~fresh /\ ~other  BY <2>2
    <3> HIDE DEF fresh, other
    <3>2. QED  BY <1>1, <1>3, <2>1, <2>2, <3>1, Concatenated
  <2>3. CASE event.run > prev.id /\ prev = Gitea!NoRun
    <3>1. ~fresh /\ other  BY <2>3
    <3> HIDE DEF fresh, other
    <3>2. QED  BY <1>1, <1>3, <2>1, <2>3, <3>1, Concatenated
  <2>4. CASE event.run > prev.id /\ prev # Gitea!NoRun
    <3>1. fresh /\ other  BY <2>4
    <3> HIDE DEF fresh, other
    <3>2. QED  BY <1>1, <1>3, <2>1, <2>4, <3>1, Concatenated
  <2>5. QED  BY <1>1, <2>2, <2>3, <2>4
<1>4. CASE event.what = "job"
  <2> DEFINE fresh == event.run > prev.id /\ prev # Gitea!NoRun   other == event.run # prev.id
  <2>1. Gitea!Plan(event, prev) =
          ((IF fresh THEN <<"stop", "clear">> ELSE <<>>) \o (IF other THEN <<"putRun", "create">> ELSE <<>>)) \o <<"putJob", "update">>
    BY <1>4 DEF Gitea!Plan, Gitea!JobChanged, Gitea!Newer, Gitea!Tracked, Gitea!When, Gitea!Supersede
  <2>2. CASE event.run = prev.id
    <3>1. ~fresh /\ ~other  BY <2>2
    <3> HIDE DEF fresh, other
    <3>2. QED  BY <1>1, <1>4, <2>1, <2>2, <3>1, Concatenated
  <2>3. CASE event.run > prev.id /\ prev = Gitea!NoRun
    <3>1. ~fresh /\ other  BY <2>3
    <3> HIDE DEF fresh, other
    <3>2. QED  BY <1>1, <1>4, <2>1, <2>3, <3>1, Concatenated
  <2>4. CASE event.run > prev.id /\ prev # Gitea!NoRun
    <3>1. fresh /\ other  BY <2>4
    <3> HIDE DEF fresh, other
    <3>2. QED  BY <1>1, <1>4, <2>1, <2>4, <3>1, Concatenated
  <2>5. QED  BY <1>1, <2>2, <2>3, <2>4
<1>5. QED  BY <1>1, <1>2, <1>3, <1>4

(* Nothing is shown of a run but the webhook's own.                         *)
LEMMA ShownIsOwn ==
  ASSUME NEW event, NEW prev, NEW jobs,
         event.run = prev.id \/ (event.what = "completed" /\ prev = Gitea!NoRun) => Of(jobs, event.run)
  PROVE  Of(Gitea!Shown(event, prev, jobs), event.run)
<1> DEFINE kept == IF (event.what = "completed" /\ prev = Gitea!NoRun) \/ event.run = prev.id THEN jobs ELSE {}
           job == <<event.run, event.job>>
<1>1. Of(kept, event.run)  BY DEF Of
<1>2. Gitea!Shown(event, prev, jobs) = IF event.what = "job" THEN kept \union {job} ELSE kept
  BY DEF Gitea!Shown, Gitea!Tracked
<1>3. job[1] = event.run  OBVIOUS
<1> HIDE DEF kept, job
<1>4. QED  BY <1>1, <1>2, <1>3 DEF Of

LEMMA ReadHandled ==
  ASSUME TypedRuns, Sending, Handling, Undamaged', NEW h \in Workers, Gitea!Read(h)
  PROVE  Sending' /\ Handling'
<1> DEFINE e == workers[h].event   prev == group.run
           plan == Gitea!Plan(e, prev)   jobs == Gitea!Shown(e, prev, group.jobs)
           w == Worker(e, jobs, plan)
<1>1. /\ workers' = [workers EXCEPT ![h] = w] /\ TypedWorker(w)
      /\ UNCHANGED <<group, armed, repoCard, heard>>
  BY ReadForm
<1>2. Gitea!Calls(h, "read")  BY DEF Gitea!Read
<1>3. workers[h] # Gitea!Idle /\ Alone(h) /\ Working(h)  BY <1>2, AtWork, OnlyOne
<1>4. Settled(heard.newest, heard.done)  BY <1>2, <1>3, AtRead
<1>5. /\ e.run \in Nat \ {0} /\ e.what \in {"start", "completed", "job"} /\ e.run = RunOf(h)
      /\ prev.id \in Nat /\ prev.completed \in BOOLEAN
  BY <1>3, LaterIs DEF RunOf
<1>6. workers'[h] = w /\ \A x \in Workers : x # h => workers'[x] = workers[x]
  BY <1>1, Replaced
<1>7. w.event = e /\ w.jobs = jobs /\ w.plan = plan  BY DEF Worker
<1>8. Alone(h)'
  <2>1. w # Gitea!Idle
    <3>1. Gitea!Idle.event.what = "none"  BY DEF Gitea!Idle
    <3>2. QED  BY <1>5, <1>7, <3>1
  <2>2. QED  BY <1>3, <1>6, <2>1 DEF Alone
<1>9. /\ RunOf(h)' = RunOf(h) /\ Gitea!Later(h)' = Gitea!Later(h) /\ DoneBy(h)' = DoneBy(h)
      /\ workers'[h].event = e /\ workers'[h].jobs = jobs /\ workers'[h].plan = plan
  BY <1>1, <1>6, <1>7 DEF RunOf, Gitea!Later, Gitea!Event, DoneBy
<1> HIDE DEF w
<1>10. Undisturbed' = Undisturbed  BY <1>1 DEF Undisturbed
<1>11. SUFFICES Working(h)'
  BY <1>1, <1>8 DEF Sending, Handling
<1>12. CASE Gitea!Late(e, prev)
  <2>1. plan = <<>>  BY <1>12 DEF Gitea!Plan
  <2>2. RunOf(h) =< group.run.id /\ (RunOf(h) = group.run.id => group.run.completed)
    BY <1>5, <1>12 DEF Gitea!Late
  <2>3. Gitea!Later(h) = heard.newest
    BY <1>3, <1>4, <1>5, <2>2, LaterIs DEF Settled, Guarded
  <2>4. \A run : run \in DoneBy(h) => run \in heard.done \/ (run = RunOf(h) /\ RunOf(h) =< group.run.id)
    BY <2>2 DEF DoneBy
  <2>5. Guarded(Gitea!Later(h), DoneBy(h))
    BY <1>3, <1>4, <2>2, <2>3, <2>4, LaterIs DEF Settled, Guarded
  <2>6. Undisturbed => Followed(Gitea!Later(h), DoneBy(h))
    <3>1. \A run : run \in heard.done => run \in DoneBy(h)  BY DEF DoneBy
    <3>2. QED
      BY <1>3, <1>4, <2>2, <2>3, <2>4, <3>1, LaterIs DEF Settled, Guarded, Followed
  <2>7. Settled(Gitea!Later(h), DoneBy(h))'
    BY <1>1, <1>9, <1>10, <2>5, <2>6 DEF Settled, Guarded, Followed
  <2>8. QED  BY <1>9, <2>1, <2>7 DEF Working
<1>13. CASE ~Gitea!Late(e, prev)
  <2>1. e.run >= prev.id /\ (e.run = prev.id => ~prev.completed)  BY <1>5, <1>13, PlansMade
  <2>2. Gitea!Later(h) \notin heard.done /\ \A run \in heard.done : run =< heard.newest
    BY <1>3, <1>4, <1>5, <2>1, LaterIs DEF Settled, Guarded
  <2>3. Undisturbed => RunOf(h) = Gitea!Later(h) /\ Of(repoCard.frame.jobs, repoCard.frame.run)
    BY <1>3, <1>4, <1>5, <2>1, LaterIs DEF Settled, Followed
  <2>4. Undisturbed => Of(jobs, RunOf(h))
    <3>1. ASSUME Undisturbed, e.run = prev.id \/ prev = Gitea!NoRun  PROVE Of(group.jobs, e.run)
      <4>1. Followed(heard.newest, heard.done)  BY <1>4, <3>1 DEF Settled
      <4>2. CASE e.run = prev.id  BY <4>1, <4>2 DEF Followed
      <4>3. CASE prev = Gitea!NoRun
        <5>1. prev.id = 0  BY <4>3 DEF Gitea!NoRun
        <5>2. QED  BY <4>1, <5>1 DEF Followed, Of
      <4>4. QED  BY <3>1, <4>2, <4>3
    <3>2. QED  BY <1>5, <3>1, ShownIsOwn
  <2>5. Current(h)'
    BY <1>1, <1>9, <1>10, <2>2, <2>3, <2>4 DEF Current
  <2>6. e.run > prev.id => Fresh(h)'
    <3>1. Settled(heard.newest, heard.done)'  BY <1>1, <1>4, <1>10 DEF Settled, Guarded, Followed
    <3>2. QED  BY <1>1, <1>5, <1>9, <2>5, <3>1 DEF Fresh
  <2>7. ~prev.completed => Halted(h)'
    <3>1. ~prev.completed => Unarmed  BY <1>4 DEF Settled, Guarded, Unarmed, Sending
    <3>2. QED  BY <1>1, <2>5, <3>1 DEF Halted, Unarmed
  <2>8. e.run = prev.id => Recorded(h)' /\ Shown(h)'
    <3>1. ASSUME e.run = prev.id, Undisturbed
          PROVE  group.run.id = RunOf(h) /\ Of(group.jobs, RunOf(h)) /\ repoCard.state = "ongoing"
      <4>1. Followed(heard.newest, heard.done)  BY <1>4, <3>1 DEF Settled
      <4>2. QED  BY <1>5, <2>1, <3>1, <4>1 DEF Followed
    <3>2. RunOf(h) =< Gitea!Later(h)  BY <1>3, LaterIs
    <3>3. QED  BY <1>1, <1>5, <1>9, <1>10, <2>1, <2>7, <3>1, <3>2 DEF Recorded, Shown, Vacant
  <2>9. prev = Gitea!NoRun => Vacant(h)'
    <3>1. ASSUME prev = Gitea!NoRun  PROVE prev.id = 0 /\ ~prev.completed  BY <3>1 DEF Gitea!NoRun
    <3>2. ASSUME Undisturbed, prev.id = 0  PROVE Of(group.jobs, RunOf(h))
      <4>1. Followed(heard.newest, heard.done)  BY <1>4, <3>2 DEF Settled
      <4>2. QED  BY <3>2, <4>1 DEF Followed, Of
    <3>3. Gitea!Later(h) \in Nat  BY <1>3, LaterIs
    <3>4. QED  BY <1>1, <1>9, <1>10, <2>7, <3>1, <3>2, <3>3 DEF Vacant
  <2>10. prev = Gitea!NoRun => e.run # prev.id /\ e.run > prev.id
    BY <1>5, <2>1 DEF Gitea!NoRun
  <2>11. e.run # prev.id => e.run > prev.id  BY <1>5, <2>1
  <2>12. CASE e.what = "start"
    <3>1. \A p : plan = p => PlanIs(h, "start", p)'  BY <1>9, <2>12 DEF PlanIs
    <3>2. plan = IF e.run > prev.id
            THEN <<"stop", "clear", "putRun", "create", "update">> ELSE <<"putRun", "create", "update">>
      BY <1>5, <1>13, <2>12, PlansMade
    <3> HIDE DEF plan
    <3>3. CASE e.run > prev.id  BY <2>6, <3>1, <3>2, <3>3 DEF Working
    <3>4. CASE e.run = prev.id
      <4>1. ~(e.run > prev.id)  BY <1>5, <3>4
      <4>2. PlanIs(h, "start", <<"putRun", "create", "update">>)'  BY <3>1, <3>2, <4>1
      <4>3. QED  BY <2>8, <3>4, <4>2 DEF Working, Recorded
    <3>5. QED  BY <2>11, <3>3, <3>4
  <2>13. CASE e.what = "completed"
    <3>1. \A p : plan = p => PlanIs(h, "completed", p)'  BY <1>9, <2>13 DEF PlanIs
    <3>2. plan = IF e.run = prev.id THEN <<"putRun", "schedule">>
                 ELSE IF prev = Gitea!NoRun THEN <<"create", "putRun", "schedule">>
                 ELSE <<"stop", "clear", "create", "putRun", "schedule">>
      BY <1>5, <1>13, <2>13, PlansMade
    <3> HIDE DEF plan
    <3>3. CASE e.run = prev.id  BY <2>8, <3>1, <3>2, <3>3 DEF Working
    <3>4. CASE e.run # prev.id /\ prev = Gitea!NoRun  BY <2>9, <3>1, <3>2, <3>4 DEF Working
    <3>5. CASE e.run # prev.id /\ prev # Gitea!NoRun  BY <2>6, <2>11, <3>1, <3>2, <3>5 DEF Working
    <3>6. QED  BY <3>3, <3>4, <3>5
  <2>14. CASE e.what = "job"
    <3>1. \A p : plan = p => PlanIs(h, "job", p)'  BY <1>9, <2>14 DEF PlanIs
    <3>2. plan = IF e.run = prev.id THEN <<"putJob", "update">>
                 ELSE IF prev = Gitea!NoRun THEN <<"putRun", "create", "putJob", "update">>
                 ELSE <<"stop", "clear", "putRun", "create", "putJob", "update">>
      BY <1>5, <1>13, <2>14, PlansMade
    <3> HIDE DEF plan
    <3>3. CASE e.run = prev.id  BY <2>8, <3>1, <3>2, <3>3 DEF Working
    <3>4. CASE e.run # prev.id /\ prev = Gitea!NoRun  BY <2>9, <3>1, <3>2, <3>4 DEF Working
    <3>5. CASE e.run # prev.id /\ prev # Gitea!NoRun  BY <2>6, <2>11, <3>1, <3>2, <3>5 DEF Working
    <3>6. QED  BY <3>3, <3>4, <3>5
  <2>15. QED  BY <1>5, <2>12, <2>13, <2>14
<1>14. QED  BY <1>12, <1>13

(* A timer fires or its frame lands: where webhooks are stays true.         *)
LEMMA TimersPass ==
  ASSUME Handling, ~Unarmed, UNCHANGED <<workers, group, heard>>,
         \A newest, done : Settled(newest, done) => Settled(newest, done)',
         \A h \in Workers : Fresh(h) => Fresh(h)'
  PROVE  Handling'
<1>0. Settled(heard.newest, heard.done) => Settled(heard.newest, heard.done)'
  <2> DEFINE newest == heard.newest   done == heard.done
  <2>1. newest' = newest /\ done' = done  OBVIOUS
  <2> HIDE DEF newest, done
  <2>2. Settled(newest, done) => Settled(newest, done)'  BY <2>1 DEF Settled, Guarded, Followed
  <2>3. QED  BY <2>2 DEF newest, done
<1>1. CASE (\A h \in Workers : workers[h] = Gitea!Idle) /\ Settled(heard.newest, heard.done)
  BY <1>0, <1>1 DEF Handling
<1>2. CASE \E h \in Workers : Alone(h) /\ Working(h)
  <2>1. PICK h \in Workers : Alone(h) /\ Working(h)  BY <1>2
  <2>2. Alone(h)'  BY <2>1 DEF Alone
  <2>3. Gitea!Later(h)' = Gitea!Later(h) /\ DoneBy(h)' = DoneBy(h)
    BY DEF Gitea!Later, Gitea!Event, DoneBy, RunOf
  <2>4. ~Halted(h) /\ ~Vacant(h) /\ ~Recorded(h) /\ ~Shown(h) /\ ~Entombed(h)
    BY DEF Halted, Vacant, Recorded, Shown, Entombed
  <2>5. \A what, p : PlanIs(h, what, p) => PlanIs(h, what, p)'  BY DEF PlanIs
  <2>6. CASE workers[h].plan = <<"read">> /\ Settled(heard.newest, heard.done)
    <3>1. Settled(heard.newest, heard.done)'  BY <1>0, <2>6
    <3>2. workers'[h].plan = <<"read">>  BY <2>6
    <3>3. QED  BY <2>2, <3>1, <3>2 DEF Working, Handling
  <2>7. CASE workers[h].plan = <<>> /\ Settled(Gitea!Later(h), DoneBy(h))
    <3> DEFINE later == Gitea!Later(h)   done == DoneBy(h)
    <3>1. Settled(later, done) /\ later' = later /\ done' = done  BY <2>3, <2>7
    <3> HIDE DEF later, done
    <3>2. Settled(later, done)'  BY <3>1 DEF Settled, Guarded, Followed
    <3>3. Settled(Gitea!Later(h), DoneBy(h))'  BY <3>2 DEF later, done
    <3>4. workers'[h].plan = <<>>  BY <2>7
    <3>5. QED  BY <2>2, <3>3, <3>4 DEF Working, Handling
  <2>8. CASE /\ Fresh(h)
             /\ \/ PlanIs(h, "start", <<"stop", "clear", "putRun", "create", "update">>)
                \/ PlanIs(h, "completed", <<"stop", "clear", "create", "putRun", "schedule">>)
                \/ PlanIs(h, "job", <<"stop", "clear", "putRun", "create", "putJob", "update">>)
    <3>1. Fresh(h)'  BY <2>8
    <3>2. \/ PlanIs(h, "start", <<"stop", "clear", "putRun", "create", "update">>)'
          \/ PlanIs(h, "completed", <<"stop", "clear", "create", "putRun", "schedule">>)'
          \/ PlanIs(h, "job", <<"stop", "clear", "putRun", "create", "putJob", "update">>)'
      BY <2>5, <2>8
    <3>3. QED  BY <2>2, <3>1, <3>2 DEF Working, Handling
  <2>9. QED  BY <2>1, <2>4, <2>6, <2>7, <2>8 DEF Working
<1>3. QED  BY <1>1, <1>2 DEF Handling

LEMMA FireHandled ==
  ASSUME TypedRuns, Sending, Handling, Gitea!Fire
  PROVE  Sending' /\ Handling'
<1> DEFINE going == {[phase |-> armed.phase, frame |-> armed.frame]}
<1>1. /\ armed.phase # "none" /\ armed' = [armed EXCEPT !.sending = going]
      /\ UNCHANGED <<workers, group, repoCard, heard>>
  BY DEF Gitea!Fire
<1>2. armed'.phase = armed.phase /\ armed'.frame = armed.frame /\ armed'.sending = going
  <2> HIDE DEF going
  <2>1. armed' = Timers(armed.phase, armed.frame, going)  BY <1>1 DEF TypedRuns, TypedArmed, Timers
  <2>2. QED  BY <2>1 DEF Timers
<1>3. Sending'  BY <1>1, <1>2 DEF Sending
<1>4. \A newest, done : Settled(newest, done) => Settled(newest, done)'
  BY <1>1, <1>2 DEF Settled, Guarded, Followed, Undisturbed
<1>5. \A h \in Workers : Fresh(h) => Fresh(h)'
  <2> SUFFICES ASSUME NEW h \in Workers, Fresh(h)  PROVE Fresh(h)'
    OBVIOUS
  <2>1. Settled(heard.newest, heard.done)'  BY <1>1, <1>4 DEF Fresh, Settled, Guarded, Followed
  <2>2. Current(h)'  BY <1>1 DEF Fresh, Current, Gitea!Later, Gitea!Event, RunOf, Undisturbed
  <2>3. QED  BY <1>1, <2>1, <2>2 DEF Fresh, RunOf
<1>6. ~Unarmed  BY <1>1 DEF Unarmed
<1>7. Handling'  BY <1>1, <1>4, <1>5, <1>6, TimersPass
<1>8. QED  BY <1>3, <1>7

LEMMA LandHandled ==
  ASSUME TypedRuns, Sending, Handling, Undamaged', Gitea!Land
  PROVE  Sending' /\ Handling'
<1> DEFINE over == armed.phase = "phase2"
<1>1. /\ UNCHANGED <<workers, group, heard>> /\ armed.phase # "none"
      /\ armed'.phase = IF over THEN "none" ELSE "phase2"
      /\ armed'.frame = armed.frame /\ armed'.sending = {}
      /\ repoCard' = IF repoCard.state = "none" THEN repoCard
                     ELSE [state |-> IF over THEN "ended" ELSE "ongoing", frame |-> armed.frame]
  <2>1. PICK sent \in armed.sending :
          LET mine == armed.phase = sent.phase /\ armed.frame = sent.frame
              last == sent.phase = "phase2"
          IN  /\ armed' = Timers(IF ~mine THEN armed.phase ELSE IF last THEN "none" ELSE "phase2",
                                armed.frame, {})
              /\ UNCHANGED heard
              /\ repoCard' = IF repoCard.state = "none" THEN repoCard
                             ELSE [state |-> IF last THEN "ended" ELSE "ongoing", frame |-> sent.frame]
    BY LandForm
  <2>2. armed.phase # "none" /\ sent = [phase |-> armed.phase, frame |-> armed.frame]
    BY <2>1 DEF Sending
  <2>3. sent.phase = armed.phase /\ sent.frame = armed.frame  BY <2>2
  <2> DEFINE nothing == {}   phase == IF over THEN "none" ELSE "phase2"
  <2>4. armed' = Timers(phase, armed.frame, nothing)  BY <2>1, <2>3
  <2> HIDE DEF nothing, phase
  <2>5. armed'.phase = phase /\ armed'.frame = armed.frame /\ armed'.sending = nothing
    BY <2>4 DEF Timers
  <2>6. UNCHANGED <<workers, group>>  BY LandForm
  <2>7. QED  BY <2>1, <2>2, <2>3, <2>5, <2>6 DEF nothing, phase
<1>2. /\ repoCard.state = "none" => repoCard'.state = "none" /\ repoCard'.frame = repoCard.frame
      /\ repoCard.state # "none" => /\ repoCard'.state = IF over THEN "ended" ELSE "ongoing"
                                    /\ repoCard'.frame = armed.frame
  BY <1>1
<1>3. armed'.phase # "none" => ~over  BY <1>1
<1>4. over => armed'.phase = "none"  BY <1>1
<1>5. Undisturbed' = Undisturbed  BY <1>1 DEF Undisturbed
<1> HIDE DEF over
<1>6. \A newest, done : Guarded(newest, done) => Guarded(newest, done)'
  BY <1>1, <1>2, <1>3, <1>4 DEF Guarded
<1>7. \A newest, done : Guarded(newest, done) /\ Followed(newest, done) => Followed(newest, done)'
  <2> SUFFICES ASSUME NEW newest, NEW done, Guarded(newest, done), Followed(newest, done)
               PROVE  Followed(newest, done)'
    OBVIOUS
  <2>1. newest \in done /\ newest # 0  BY <1>1 DEF Guarded, Followed
  <2>2. armed.frame.run = newest /\ Of(armed.frame.jobs, newest)  BY <1>1 DEF Followed
  <2>3. Of(repoCard'.frame.jobs, repoCard'.frame.run)  BY <1>2, <2>2 DEF Followed
  <2>4. repoCard'.state # "none" /\ repoCard'.frame.run = newest  BY <1>2, <2>1, <2>2 DEF Followed
  <2>5. group' = group  BY <1>1
  <2>6. QED  BY <1>1, <2>1, <2>2, <2>3, <2>4, <2>5 DEF Followed
<1>8. \A newest, done : Settled(newest, done) => Settled(newest, done)'
  BY <1>5, <1>6, <1>7 DEF Settled
<1>9. \A h \in Workers : Fresh(h) => Fresh(h)'
  <2> SUFFICES ASSUME NEW h \in Workers, Fresh(h)  PROVE Fresh(h)'
    OBVIOUS
  <2> DEFINE newest == heard.newest   done == heard.done
  <2>1. Settled(newest, done)'
    <3>1. newest' = newest /\ done' = done  BY <1>1
    <3>2. Settled(newest, done)  BY DEF Fresh
    <3> HIDE DEF newest, done
    <3>3. QED  BY <1>8, <3>1, <3>2 DEF Settled, Guarded, Followed
  <2>2. Undisturbed => Of(repoCard'.frame.jobs, repoCard'.frame.run)
    <3>1. Undisturbed => Of(armed.frame.jobs, armed.frame.run)
      BY <1>1 DEF Fresh, Settled, Followed
    <3>2. QED  BY <1>2, <3>1 DEF Fresh, Current
  <2>3. Gitea!Later(h)' = Gitea!Later(h) /\ RunOf(h)' = RunOf(h)
    BY <1>1 DEF Gitea!Later, Gitea!Event, RunOf
  <2>4. Current(h)'
    BY <1>1, <1>5, <2>2, <2>3 DEF Fresh, Current
  <2>5. QED  BY <1>1, <2>1, <2>3, <2>4 DEF Fresh
<1>10. ~Unarmed  BY <1>1 DEF Unarmed
<1>11. Handling'  BY <1>1, <1>8, <1>9, <1>10, TimersPass
<1>12. QED  BY <1>1, <1>11 DEF Sending

(* What is damaged stays so.                                                *)
LEMMA StaysDamaged ==
  ASSUME RunsNumbered, TypedRuns, Gitea!Next
  PROVE  Undamaged' => Undamaged
<1>1. ASSUME NEW h \in Workers, Gitea!Receive(h)  PROVE Undamaged' => Undamaged  BY <1>1, ReceiveForm
<1>2. ASSUME NEW h \in Workers, Gitea!Read(h)  PROVE Undamaged' => Undamaged
  BY <1>2, ReadForm DEF Undamaged
<1>3. ASSUME NEW h \in Workers, Gitea!StopTimer(h)  PROVE Undamaged' => Undamaged  BY <1>3, StopForm
<1>4. ASSUME NEW h \in Workers, Gitea!ScheduleEnd(h)  PROVE Undamaged' => Undamaged  BY <1>4, ScheduleForm
<1>5. ASSUME NEW h \in Workers, NEW call, NEW g, Gitea!Stored(h, call, g)  PROVE Undamaged' => Undamaged
  BY <1>5, StoredForm DEF Undamaged
<1>6. ASSUME NEW h \in Workers, Gitea!DeleteGroup(h) \/ Gitea!PutRun(h) \/ Gitea!PutJob(h)
      PROVE  Undamaged' => Undamaged
  BY <1>5, <1>6 DEF Gitea!DeleteGroup, Gitea!PutRun, Gitea!PutJob
<1>7. ASSUME NEW h \in Workers, NEW call, NEW card, Gitea!Sent(h, call, card)  PROVE Undamaged' => Undamaged
  BY <1>7, SentForm DEF Undamaged
<1>8. ASSUME NEW h \in Workers, Gitea!CreateActivity(h) \/ Gitea!UpdateActivity(h)  PROVE Undamaged' => Undamaged
  BY <1>7, <1>8 DEF Gitea!CreateActivity, Gitea!UpdateActivity
<1>9. ASSUME NEW h \in Workers, Gitea!Answer(h)  PROVE Undamaged' => Undamaged  BY <1>9, AnswerForm
<1>10. Gitea!Fire => (Undamaged' => Undamaged)  BY DEF Gitea!Fire, Undamaged
<1>11. Gitea!Land => (Undamaged' => Undamaged)  BY LandForm DEF Undamaged
<1>12. Gitea!Crash => (Undamaged' => Undamaged)  BY Faulted DEF Gitea!Crash, TypedRuns
<1>13. QED
  BY <1>1, <1>2, <1>3, <1>4, <1>6, <1>8, <1>9, <1>10, <1>11, <1>12 DEF Gitea!Next, Gitea!Work

LEMMA NotCrashed == TypedRuns /\ Undamaged' => ~Gitea!Crash
<1> DEFINE kind == "crash"
<1>1. kind # "call"  OBVIOUS
<1>2. Gitea!Crash => Gitea!Fault(kind)  BY DEF Gitea!Crash
<1> HIDE DEF kind
<1>3. QED  BY <1>1, <1>2, Faulted DEF TypedRuns

LEMMA RunsKept == ASSUME RunsNumbered, RInv, [Gitea!Next]_(Gitea!vars)  PROVE RInv'
<1>1. CASE UNCHANGED Gitea!vars
  <2>1. UNCHANGED <<workers, group, armed, repoCard, heard>>  BY <1>1 DEF Gitea!vars
  <2>2. TypedRuns' /\ Undamaged' = Undamaged  BY <2>1 DEF RInv, TypedRuns, Undamaged
  <2>3. Sending => Sending'  BY <2>1 DEF Sending
  <2>4. Handling => Handling'
    <3>1. Gitea!Idle' = Gitea!Idle  BY DEF Gitea!Idle
    <3>2. Settled(heard.newest, heard.done) => Settled(heard.newest, heard.done)'
      BY <2>1 DEF Settled, Guarded, Followed, Undisturbed
    <3>3. \A h \in Workers : Alone(h) => Alone(h)'  BY <2>1 DEF Alone
    <3>4. ASSUME NEW h \in Workers  PROVE Working(h) => Working(h)'
      <4>1. workers'[h].plan = workers[h].plan /\ \A what, p : PlanIs(h, what, p) => PlanIs(h, what, p)'
        BY <2>1 DEF PlanIs
      <4>2. Gitea!Later(h)' = Gitea!Later(h) /\ RunOf(h)' = RunOf(h) /\ DoneBy(h)' = DoneBy(h)
        BY <2>1 DEF Gitea!Later, Gitea!Event, DoneBy, RunOf
      <4>3. Settled(Gitea!Later(h), DoneBy(h)) => Settled(Gitea!Later(h), DoneBy(h))'
        BY <2>1, <4>2 DEF Settled, Guarded, Followed, Undisturbed
      <4>4. Current(h) => Current(h)'  BY <2>1, <4>2 DEF Current, Undisturbed
      <4>5. Fresh(h) => Fresh(h)'  BY <2>1, <3>2, <4>2, <4>4 DEF Fresh
      <4>6. Halted(h) => Halted(h)'  BY <2>1, <4>4 DEF Halted, Unarmed
      <4>7. Vacant(h) => Vacant(h)'  BY <2>1, <4>2, <4>6 DEF Vacant, Undisturbed
      <4>8. (Recorded(h) => Recorded(h)') /\ (Shown(h) => Shown(h)') /\ (Entombed(h) => Entombed(h)')
        BY <2>1, <4>2, <4>6, <4>7 DEF Recorded, Shown, Entombed, Undisturbed
      <4>9. CASE \/ workers[h].plan = <<"read">> /\ Settled(heard.newest, heard.done)
                 \/ workers[h].plan = <<>> /\ Settled(Gitea!Later(h), DoneBy(h))
        <5>1. \/ workers'[h].plan = <<"read">> /\ Settled(heard.newest, heard.done)'
              \/ workers'[h].plan = <<>> /\ Settled(Gitea!Later(h), DoneBy(h))'
          BY <3>2, <4>1, <4>3, <4>9
        <5>2. QED  BY <5>1 DEF Working
      <4>10. CASE ~ \/ workers[h].plan = <<"read">> /\ Settled(heard.newest, heard.done)
                    \/ workers[h].plan = <<>> /\ Settled(Gitea!Later(h), DoneBy(h))
        BY <4>1, <4>5, <4>6, <4>7, <4>8, <4>10 DEF Working
      <4>11. QED  BY <4>9, <4>10
    <3>5. QED  BY <2>1, <3>2, <3>3, <3>4 DEF Handling
  <2>5. QED  BY <2>2, <2>3, <2>4 DEF RInv
<1>2. CASE Gitea!Next
  <2>1. TypedRuns'  BY <1>2, RunsTyped DEF RInv
  <2>2. ASSUME Undamaged'  PROVE Sending' /\ Handling'
    <3>1. TypedRuns /\ Sending /\ Handling /\ ~Gitea!Crash
      BY <1>2, <2>2, StaysDamaged, NotCrashed DEF RInv
    <3>2. QED
      BY <1>2, <2>2, <3>1, ReceiveKept, ReadHandled, StopHandled, ClearHandled, PutRunHandled, PutJobHandled,
         CreateHandled, UpdateHandled, ScheduleHandled, AnswerHandled, FireHandled, LandHandled
      DEF Gitea!Next, Gitea!Work
  <2>3. QED  BY <2>1, <2>2 DEF RInv
<1>3. QED  BY <1>1, <1>2

LEMMA RunsBegin == Gitea!Init => RInv
<1> SUFFICES ASSUME Gitea!Init  PROVE RInv
  OBVIOUS
<1> DEFINE nothing == {}   no == FALSE
<1>1. /\ workers = [h \in Workers |-> Gitea!Idle] /\ group = [run |-> Gitea!NoRun, jobs |-> nothing]
      /\ armed = Timers("none", Gitea!NoFrame, nothing)
      /\ repoCard = [state |-> "none", frame |-> Gitea!NoFrame]
      /\ heard = Heard(0, 0, nothing, nothing, no)
  BY DEF Gitea!Init, Timers, Heard
<1>2. Gitea!NoRun = [id |-> 0, completed |-> no]  BY DEF Gitea!NoRun
<1>3. Gitea!NoFrame = [run |-> 0, jobs |-> nothing]  BY DEF Gitea!NoFrame
<1>4. \A x : x \notin nothing  OBVIOUS
<1>5. no \in BOOLEAN /\ ~no /\ nothing \subseteq Nat  OBVIOUS
<1> HIDE DEF nothing, no
<1>6. \A h \in Workers : workers[h] = Gitea!Idle  BY <1>1
<1>7. /\ group.run = Gitea!NoRun /\ group.jobs = nothing /\ group.run.id = 0 /\ group.run.completed = no
  BY <1>1, <1>2
<1>8. armed.phase = "none" /\ armed.frame = Gitea!NoFrame /\ armed.sending = nothing  BY <1>1 DEF Timers
<1>9. repoCard.state = "none" /\ repoCard.frame.run = 0 /\ repoCard.frame.jobs = nothing  BY <1>1, <1>3
<1>10. heard.newest = 0 /\ heard.done = nothing /\ heard.raced = no  BY <1>1 DEF Heard
<1>11. TypedRuns
  <2>1. TypedGroup(group)  BY <1>1, <1>2, <1>5, <1>7 DEF TypedGroup
  <2>2. TypedArmed(armed)  BY <1>1, <1>8 DEF TypedArmed, Timers
  <2>3. TypedCard(repoCard)  BY <1>1 DEF TypedCard
  <2>4. TypedHeard(heard)  BY <1>1, <1>5 DEF TypedHeard, Heard
  <2>5. workers = [h \in Workers |-> workers[h]] /\ \A h \in Workers : TypedWorker(workers[h])
    <3> DEFINE idle == Gitea!Idle
    <3>1. TypedWorker(idle) /\ workers = [h \in Workers |-> idle]  BY <1>1, IdleTyped
    <3> HIDE DEF idle
    <3>2. QED  BY <3>1
  <2>6. QED  BY <2>1, <2>2, <2>3, <2>4, <2>5 DEF TypedRuns
<1>12. Sending
  BY <1>4, <1>8 DEF Sending
<1>13. Guarded(heard.newest, heard.done)
  BY <1>4, <1>5, <1>7, <1>8, <1>9, <1>10 DEF Guarded
<1>14. Followed(heard.newest, heard.done)
  BY <1>4, <1>5, <1>7, <1>8, <1>9, <1>10 DEF Followed, Of, nothing
<1>15. QED  BY <1>6, <1>11, <1>12, <1>13, <1>14 DEF RInv, Handling, Settled

LEMMA RunsFit == RInv => Gitea!NewestRunShown /\ Gitea!TombstoneHolds
<1> SUFFICES ASSUME RInv  PROVE Gitea!NewestRunShown /\ Gitea!TombstoneHolds
  OBVIOUS
<1>1. Gitea!Clean({}) => Undamaged /\ Undisturbed  BY DEF Gitea!Clean, Undamaged, Undisturbed
<1>2. Gitea!Clean({"call"}) => Undamaged  BY DEF Gitea!Clean, Undamaged
<1>3. Gitea!Quiet => \A h \in Workers : workers[h] = Gitea!Idle  BY DEF Gitea!Quiet, Gitea!Busy
<1>4. Undamaged /\ Gitea!Quiet => Settled(heard.newest, heard.done)
  BY <1>3 DEF RInv, Handling, Alone
<1>5. Gitea!NewestRunShown
  <2> SUFFICES ASSUME Gitea!Quiet, Gitea!Clean({}), heard.newest # 0
               PROVE  /\ repoCard.frame.run = heard.newest \/ (armed.phase # "none" /\ armed.frame.run = heard.newest)
                      /\ \A job \in repoCard.frame.jobs : job[1] = repoCard.frame.run
                      /\ heard.newest \notin heard.done => repoCard.state = "ongoing" /\ armed.phase = "none"
    BY DEF Gitea!NewestRunShown
  <2>1. Guarded(heard.newest, heard.done) /\ Followed(heard.newest, heard.done)  BY <1>1, <1>4 DEF Settled
  <2>2. QED  BY <2>1 DEF Guarded, Followed, Of
<1>6. Gitea!TombstoneHolds
  BY <1>2, <1>4 DEF Gitea!TombstoneHolds, Settled, Guarded
<1>7. QED  BY <1>5, <1>6

\* Whatever the order the webhooks of a repository's runs come in, its card
\* ends up on the newest run and stays until that run completes, and nothing
\* that comes late reopens the card of a completed run.
THEOREM RunsStay ==
  ASSUME RunsNumbered
  PROVE  Gitea!Init /\ [][Gitea!Next]_(Gitea!vars) => [](Gitea!NewestRunShown /\ Gitea!TombstoneHolds)
<1>1. Gitea!Init => RInv  BY RunsBegin
<1>2. RInv /\ [Gitea!Next]_(Gitea!vars) => RInv'  BY RunsKept
<1>3. RInv => Gitea!NewestRunShown /\ Gitea!TombstoneHolds  BY RunsFit
<1>4. QED  BY <1>1, <1>2, <1>3, PTL
============================================================================
