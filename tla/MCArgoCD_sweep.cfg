CONSTANTS
  r1 = r1
  r2 = r2
  v1 = v1
  v2 = v2
  NoRevision = NoRevision
  Replicas <- One
  Revisions <- TwoRevisions
  Grace = 2
  Slack = 1
  LastEvent = 3
  Limit <- Sweeps
SPECIFICATION Spec
PROPERTIES
  SweepSparesPending
