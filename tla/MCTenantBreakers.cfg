CONSTANTS
  t1 = t1
  t2 = t2
  u1 = u1
  NoCall = NoCall
  Tenants <- TwoTenants
  Calls <- ThreeCalls
  TenantOf <- TwoCallsOfOne
  Threshold = 2
  MinTenants = 2
SPECIFICATION Spec
INVARIANTS
  TypeOK
  ProbesOut
  OneTenantNeverStopsOthers
PROPERTIES
  ServerProbeSettles
