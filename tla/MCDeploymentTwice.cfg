CONSTANTS
  tab1 = tab1
  tab2 = tab2
  q1 = q1
  q2 = q2
  Tabs <- OneTab
  Requests <- TwoRequests
  MaxQuotes = 1
  MaxCharges = 1
  MaxDeadlines = 1
  MaxLost = 1
SPECIFICATION Spec
CHECK_DEADLOCK FALSE
INVARIANTS OneContract
