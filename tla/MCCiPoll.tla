------------------------------- MODULE MCCiPoll -------------------------------
(***************************************************************************)
(* CiPoll on small instances: two runs, one of which may be re-run, of up  *)
(* to two groups; a prior run of another path and one that was longer.     *)
(***************************************************************************)
EXTENDS CiPoll

MCGroups == <<2, 1>>
MCSessions == 1..5
MCSeeds == [r \in {1, 2} |-> {IF r = 1 THEN NoShape ELSE Shape(2, "seed")}]
MCLimit == [attempts |-> 2, upsets |-> 1]
============================================================================
