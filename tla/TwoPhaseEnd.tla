---------------------------- MODULE TwoPhaseEnd ----------------------------
(***************************************************************************)
(* What relay/internal/lifecycle/ender.go promises its callers: an end     *)
(* asked for an activity shows its final content and then finishes, unless *)
(* a later end of the same activity replaces it or it is called off; an    *)
(* activity has at most one end under way.                                 *)
(***************************************************************************)
EXTENDS Naturals

CONSTANTS Keys, Ends, NoEnd

VARIABLES current,  \* the end under way for each activity, or NoEnd
          status    \* of each end

vars == <<current, status>>

Init ==
  /\ current = [k \in Keys |-> NoEnd]
  /\ status = [e \in Ends |-> "new"]

(* The ends of the activities in ks are off. *)
Off(ks) ==
  [e \in Ends |-> IF \E k \in ks : current[k] = e THEN "off" ELSE status[e]]

Schedule(k, e) ==
  /\ status[e] = "new"
  /\ status' = [Off({k}) EXCEPT ![e] = "waiting"]
  /\ current' = [current EXCEPT ![k] = e]

CallOff(ks) ==
  /\ status' = Off(ks)
  /\ current' = [k \in Keys |-> IF k \in ks THEN NoEnd ELSE current[k]]

Show(e) ==
  /\ status[e] = "waiting"
  /\ status' = [status EXCEPT ![e] = "showing"]
  /\ UNCHANGED current

Finish(k) ==
  /\ current[k] # NoEnd /\ status[current[k]] = "showing"
  /\ status' = [status EXCEPT ![current[k]] = "finished"]
  /\ current' = [current EXCEPT ![k] = NoEnd]

Next ==
  \/ \E k \in Keys : Finish(k) \/ \E e \in Ends : Schedule(k, e)
  \/ \E ks \in SUBSET Keys : CallOff(ks)
  \/ \E e \in Ends : Show(e)

Fairness ==
  /\ \A e \in Ends : WF_vars(Show(e))
  /\ \A k \in Keys : WF_vars(Finish(k))

Spec == Init /\ [][Next]_vars /\ Fairness
============================================================================
