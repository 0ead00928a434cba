CONSTANTS
  owner = owner
  admin = admin
  researcher = researcher
  r1 = r1
  r2 = r2
  h = h
  p1 = p1
  q1 = q1
  q2 = q2
  NoHash = NoHash
  NoAddress = NoAddress
  ProgramKeys <- MCPrograms
  ContentHashes <- MCHashes
  Accounts <- MCAccounts
  Wallets <- MCWallets
  Owner <- owner
  Controller <- admin
  ProgramKey <- p1
  ContentHash <- MCHashOf
  PayoutWallet <- MCWalletOf
  ReportKeys <- TwoReports
  Requests <- TwoRequests
  Amounts <- Unit
  MaxReward = 1
  Pool = 2
  MaxIntents = 2
  MaxSignatures = 2
  MaxUnsure = 0
  MaxRelays = 0
  MaxLost = 0
SPECIFICATION Spec
SYMMETRY Symmetry
CHECK_DEADLOCK FALSE
INVARIANTS TypeOK PoolsMatchIntents AvailableIsHonest
