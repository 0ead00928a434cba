CONSTANTS
  owner = owner
  admin = admin
  other = other
  researcher = researcher
  r1 = r1
  h = h
  p1 = p1
  p2 = p2
  e1 = e1
  e2 = e2
  NoHash = NoHash
  NoAddress = NoAddress
  NotDeployed = NotDeployed
  ProgramKeys <- MCPrograms
  ReportKeys <- MCReports
  ContentHashes <- MCHashes
  Accounts <- MCAccounts
  Wallets <- MCWallets
  Owners <- MCOwners
  EscrowAddresses <- MCEscrows
  AdminContract <- admin
  OtherController <- other
  FeeAmounts <- MCFee
  InitialFee = 1
  MaxReward = 1
  MaxDeposit = 1
  MaxFees = 1
  MaxBlockTime = 2
SPECIFICATION AdminSpec
SYMMETRY Symmetry
INVARIANTS RegistrySound DeactivationAgrees 
