CONSTANTS
  owner = owner
  admin = admin
  researcher = researcher
  r1 = r1
  h = h
  p1 = p1
  q1 = q1
  q2 = q2
  tab1 = tab1
  tab2 = tab2
  NoHash = NoHash
  NoAddress = NoAddress
  ProgramKeys <- MCPrograms
  ContentHashes <- MCHashes
  Accounts <- MCAccounts
  Wallets <- MCWallets
  Owner = owner
  Controller = admin
  ProgramKey = p1
  ContentHash = h
  PayoutWallet = researcher
  ReportKeys <- OneReport
  MaxReward = 1
  Creators <- TwoRequests
  Reconcilers <- TwoRequests
  Tabs <- OneTab
  Pool = 1
  MaxDeposits = 1
  MaxIntents = 3
  MaxSent = 3
  MaxUnheard = 1
  MaxTime = 1
SPECIFICATION Spec
SYMMETRY Symmetry
CHECK_DEADLOCK FALSE
INVARIANTS TypeOK RecordedOnce ReplacementsLinear AvailableIsThere
PROPERTIES OutcomesKept
