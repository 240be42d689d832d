------------------------------ MODULE MCArgoCD ------------------------------
(* One tick is 5 s: a grace period of two, a slack of one, as configured.  *)
EXTENDS ArgoCD

CONSTANTS r1, r2, v1, v2

One == {r1}
Two == {r1, r2}
OneRevision == {v1}
TwoRevisions == {v1, v2}

Bounds(webhooks, faults, restarts, sweeps) ==
  [webhooks |-> webhooks, faults |-> faults, restarts |-> restarts, sweeps |-> sweeps]
Single == Bounds(3, 1, 1, 0)
Pair == Bounds(2, 0, 1, 1)
Sweeps == Bounds(3, 0, 0, 1)
============================================================================
