CONSTANTS
  owner = owner
  controller = controller
  anyone = anyone
  researcher = researcher
  r1 = r1
  r2 = r2
  h = h
  prog = prog
  NoHash = NoHash
  NoAddress = NoAddress
  ProgramKeys <- MCPrograms
  ReportKeys <- MCReports
  ContentHashes <- MCHashes
  Accounts <- MCAccounts
  Callers <- MCAccounts
  Wallets <- MCWallets
  ProgramKey <- prog
  ProgramOwner <- owner
  AdminController <- controller
  MaxReward = 2
  InitialUnlock = 1
  MaxInflow = 4
  MaxTime = 2
SPECIFICATION FairSpec
INVARIANTS TypeOK Solvency CountersMatchRewards FundsConserved WithdrawnMeansSettled
PROPERTIES NoNewDebtAfterEnd ImplementsPromise ApprovedIsPaid
