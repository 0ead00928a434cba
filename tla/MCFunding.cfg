CONSTANTS
  b1 = b1
  b2 = b2
  q1 = q1
  q2 = q2
  Tabs <- TwoTabs
  Requests <- OneRequest
  Routes <- SendOnly
  MaxIntents = 1
  MaxAttempts = 2
  MaxTransfers = 2
  MaxSyncs = 1
  MaxReverts = 1
  MaxLost = 1
SPECIFICATION Spec
SYMMETRY Symmetry
CHECK_DEADLOCK FALSE
INVARIANTS CreditedOnce KnownNeverRepeated
PROPERTIES DestinationKept ImplementsLedger
