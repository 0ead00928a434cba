CONSTANTS
  b1 = b1
  b2 = b2
  q1 = q1
  q2 = q2
  Tabs <- OneTab
  Requests <- OneRequest
  Routes <- SendOnly
  MaxIntents = 2
  MaxAttempts = 2
  MaxTransfers = 2
  MaxSyncs = 1
  MaxReverts = 1
  MaxLost = 0
SPECIFICATION Spec
SYMMETRY Symmetry
CHECK_DEADLOCK FALSE
INVARIANTS TypeOK CreditedOnce KnownNeverRepeated SyncedOnce
PROPERTIES DestinationKept CancelMovesNothing ImplementsLedger
