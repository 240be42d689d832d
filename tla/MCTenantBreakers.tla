-------------------------- MODULE MCTenantBreakers --------------------------
(* Two tenants, of which one has two calls that race for its own breaker.  *)
EXTENDS TenantBreakers, TLC

CONSTANTS t1, t2, u1

TwoTenants == {t1, t2}
ThreeCalls == {t1, t2, u1}
TwoCallsOfOne == (t1 :> t1) @@ (t2 :> t2) @@ (u1 :> t1)
============================================================================
