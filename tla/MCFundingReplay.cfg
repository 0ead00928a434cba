CONSTANTS
  b1 = b1
  b2 = b2
  q1 = q1
  q2 = q2
  Tabs <- OneTab
  Requests <- OneRequest
  Routes <- SendOnly
  MaxIntents = 1
  MaxAttempts = 2
  MaxTransfers = 2
  MaxSyncs = 1
  MaxReverts = 0
  MaxLost = 0
SPECIFICATION Spec
CHECK_DEADLOCK FALSE
INVARIANTS NeverResubmits
