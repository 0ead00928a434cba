CONSTANTS
  b1 = b1
  b2 = b2
  q1 = q1
  q2 = q2
  Tabs <- OneTab
  Requests <- TwoRequests
  Routes <- SendOrSpend
  MaxIntents = 1
  MaxAttempts = 2
  MaxTransfers = 1
  MaxSyncs = 2
  MaxReverts = 1
  MaxLost = 1
SPECIFICATION FairSpec
CHECK_DEADLOCK FALSE
INVARIANTS SyncedOnce
PROPERTIES TransfersCredited
