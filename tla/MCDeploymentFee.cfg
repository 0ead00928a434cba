CONSTANTS
  tab1 = tab1
  tab2 = tab2
  q1 = q1
  q2 = q2
  Tabs <- OneTab
  Requests <- OneRequest
  MaxQuotes = 2
  MaxCharges = 2
  MaxDeadlines = 1
  MaxLost = 1
SPECIFICATION FeeFairSpec
CHECK_DEADLOCK FALSE
PROPERTIES ChargeRecorded
