CONSTANTS
  tab1 = tab1
  tab2 = tab2
  q1 = q1
  q2 = q2
  Tabs <- OneTab
  Requests <- TwoRequests
  MaxQuotes = 2
  MaxCharges = 1
  MaxDeadlines = 2
  MaxLost = 2
SPECIFICATION FairSpec
CHECK_DEADLOCK FALSE
INVARIANTS SecondNeedsRefusal ConfirmedIsSound
PROPERTIES IdentifiersKept DeploymentSettles
