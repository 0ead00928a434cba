------------------------- MODULE BountyEscrowAdmin --------------------------
(***************************************************************************)
(* The platform controller of packages/contracts/src/BountyEscrowAdmin.sol *)
(* together with the program escrows it may be registered with.  Anyone    *)
(* deploys an escrow with any key, owner and controller; the admin wallet  *)
(* registers some of them, and from then on acts on them through this      *)
(* contract, interleaved with their owners acting on them directly.        *)
(* No name of this module is one of BountyEscrow's, the module of a single *)
(* escrow, so that proofs may extend both.                                 *)
(***************************************************************************)
EXTENDS EscrowContract

CONSTANTS
  EscrowAddresses,  \* addresses at which escrows can be deployed
  NotDeployed,      \* an address without code
  Owners,           \* program owner accounts
  AdminContract,    \* this contract's address
  OtherController,  \* a controller that is not this contract
  FeeAmounts,       \* program fees the admin wallet may set
  InitialFee,       \* programFeeAmount given to the constructor
  MaxDeposit,       \* bound: balance an escrow is funded up to
  MaxFees,          \* bound: balance of this contract
  MaxBlockTime      \* bound: last unlock time, one after the last block timestamp

ASSUME AdminConstants ==
  /\ Owners \cup {AdminContract, OtherController} \subseteq Accounts
  /\ OtherController # AdminContract
  /\ AdminContract \notin Owners
  /\ NoAddress \notin EscrowAddresses
  /\ NotDeployed \notin Escrow
  /\ IsFiniteSet(ReportKeys) /\ IsFiniteSet(ProgramKeys)
  /\ FeeAmounts \subseteq Nat \ {0}
  /\ InitialFee \in FeeAmounts
  /\ {MaxDeposit, MaxFees, MaxBlockTime} \subseteq Nat

VARIABLES
  escrows,            \* the contract at each address, or NotDeployed
  blockTime,          \* block.timestamp
  programEscrows, programFeePaid, programDeactivated, programFeeAmount,
  balance,            \* USDC held by this contract
  charged,            \* history: the fee each program paid, 0 before it paid
  donated,            \* history: USDC sent to this contract outside payProgramFee
  feesWithdrawn       \* history: USDC sent to the admin wallet

registryVars == <<programEscrows, programFeePaid, programDeactivated, programFeeAmount>>
feeVars == <<balance, charged, donated, feesWithdrawn>>
adminVars == <<escrows, blockTime, registryVars, feeVars>>

IsDeployed(a) == escrows[a] # NotDeployed

DeployedEscrows == {a \in EscrowAddresses : IsDeployed(a)}

Registered(k) == programEscrows[k] # NoAddress

\* _escrow(programKey) reverts for an unregistered program.
EscrowOf(k) == escrows[programEscrows[k]]

AdminTypeOK ==
  /\ escrows \in [EscrowAddresses -> Escrow \cup {NotDeployed}]
  /\ blockTime \in Nat
  /\ programEscrows \in [ProgramKeys -> EscrowAddresses \cup {NoAddress}]
  /\ programFeePaid \in [ProgramKeys -> BOOLEAN]
  /\ programDeactivated \in [ProgramKeys -> BOOLEAN]
  /\ programFeeAmount \in FeeAmounts
  /\ balance \in Nat
  /\ charged \in [ProgramKeys -> Nat]
  /\ donated \in Nat
  /\ feesWithdrawn \in Nat

AdminInit ==
  /\ escrows = [a \in EscrowAddresses |-> NotDeployed]
  /\ blockTime = 0
  /\ programEscrows = [k \in ProgramKeys |-> NoAddress]
  /\ programFeePaid = [k \in ProgramKeys |-> FALSE]
  /\ programDeactivated = [k \in ProgramKeys |-> FALSE]
  /\ programFeeAmount = InitialFee
  /\ balance = 0
  /\ charged = [k \in ProgramKeys |-> 0]
  /\ donated = 0
  /\ feesWithdrawn = 0

-----------------------------------------------------------------------------
\* The platform contract.

PayProgramFee(k) ==
  /\ ~programFeePaid[k]
  /\ balance + programFeeAmount <= MaxFees
  /\ programFeePaid' = [programFeePaid EXCEPT ![k] = TRUE]
  /\ balance' = balance + programFeeAmount
  /\ charged' = [charged EXCEPT ![k] = @ + programFeeAmount]
  /\ UNCHANGED <<escrows, blockTime, programEscrows, programDeactivated, programFeeAmount,
                 donated, feesWithdrawn>>

\* Bug variant: the program key is not compared.
CanRegisterAnyKey(k, a) ==
  /\ programEscrows[k] = NoAddress
  /\ IsDeployed(a)
  /\ escrows[a].adminController = AdminContract

\* The escrow must name this program and this controller; its token and its
\* withdraw recipient are fixed by its own constructor.
CanRegister(k, a) ==
  /\ programEscrows[k] = NoAddress
  /\ IsDeployed(a)
  /\ escrows[a].programKey = k
  /\ escrows[a].adminController = AdminContract

RegisterProgramEscrow(k, a) ==
  /\ CanRegister(k, a)
  /\ programEscrows' = [programEscrows EXCEPT ![k] = a]
  /\ UNCHANGED <<escrows, blockTime, programFeePaid, programDeactivated, programFeeAmount, feeVars>>

\* Bug variant: the registry flag is not set.
DeactivateProgramSilently(k) ==
  /\ Registered(k)
  /\ CanDeactivate(EscrowOf(k), AdminContract)
  /\ escrows' = [escrows EXCEPT ![programEscrows[k]] = AfterDeactivate(@)]
  /\ UNCHANGED <<blockTime, registryVars, feeVars>>

DeactivateProgram(k) ==
  /\ Registered(k)
  /\ CanDeactivate(EscrowOf(k), AdminContract)
  /\ escrows' = [escrows EXCEPT ![programEscrows[k]] = AfterDeactivate(@)]
  /\ programDeactivated' = [programDeactivated EXCEPT ![k] = TRUE]
  /\ UNCHANGED <<blockTime, programEscrows, programFeePaid, programFeeAmount, feeVars>>

PauseProgram(k) ==
  /\ Registered(k)
  /\ CanPause(EscrowOf(k), AdminContract)
  /\ escrows' = [escrows EXCEPT ![programEscrows[k]] = AfterPause(@)]
  /\ UNCHANGED <<blockTime, registryVars, feeVars>>

UnpauseProgram(k) ==
  /\ Registered(k)
  /\ CanUnpause(EscrowOf(k), AdminContract)
  /\ escrows' = [escrows EXCEPT ![programEscrows[k]] = AfterUnpause(@)]
  /\ UNCHANGED <<blockTime, registryVars, feeVars>>

CloseProgram(k) ==
  /\ Registered(k)
  /\ CanClose(EscrowOf(k), AdminContract, blockTime)
  /\ escrows' = [escrows EXCEPT ![programEscrows[k]] = AfterClose(@)]
  /\ UNCHANGED <<blockTime, registryVars, feeVars>>

ExtendProgramTimeline(k, t) ==
  /\ Registered(k)
  /\ CanExtend(EscrowOf(k), AdminContract, t)
  /\ escrows' = [escrows EXCEPT ![programEscrows[k]] = AfterExtend(@, t)]
  /\ UNCHANGED <<blockTime, registryVars, feeVars>>

ApproveProgramReward(k, r, h, w, amount) ==
  /\ Registered(k)
  /\ CanApprove(EscrowOf(k), AdminContract, r, amount)
  /\ escrows' = [escrows EXCEPT ![programEscrows[k]] = AfterApprove(@, r, h, w, amount)]
  /\ UNCHANGED <<blockTime, registryVars, feeVars>>

WithdrawPlatformFees(amount) ==
  /\ amount \in 1..balance
  /\ balance' = balance - amount
  /\ feesWithdrawn' = feesWithdrawn + amount
  /\ UNCHANGED <<escrows, blockTime, registryVars, charged, donated>>

SetProgramFeeAmount(amount) ==
  /\ amount # 0
  /\ programFeeAmount' = amount
  /\ UNCHANGED <<escrows, blockTime, programEscrows, programFeePaid, programDeactivated, feeVars>>

-----------------------------------------------------------------------------
\* What others do to the escrows directly, and to this contract's balance.
DeployEscrow(a, key, owner, controller, unlockAt) ==
  /\ ~IsDeployed(a)
  /\ CanDeploy(unlockAt, blockTime)
  /\ escrows' = [escrows EXCEPT ![a] = Deployed(key, owner, controller, unlockAt)]
  /\ UNCHANGED <<blockTime, registryVars, feeVars>>

DepositTo(a, amount) ==
  /\ ObservedLifetimeInflow(escrows[a]) + amount <= MaxDeposit
  /\ escrows' = [escrows EXCEPT ![a] = AfterDeposit(@, amount)]
  /\ UNCHANGED <<blockTime, registryVars, feeVars>>

\* The program owner, or a controller that is not this contract, calls the
\* escrow itself.
DirectCall(a, caller) ==
  LET e == escrows[a] IN
  /\ \/ CanPause(e, caller) /\ escrows' = [escrows EXCEPT ![a] = AfterPause(e)]
     \/ CanUnpause(e, caller) /\ escrows' = [escrows EXCEPT ![a] = AfterUnpause(e)]
     \/ CanClose(e, caller, blockTime) /\ escrows' = [escrows EXCEPT ![a] = AfterClose(e)]
     \/ CanDeactivate(e, caller) /\ escrows' = [escrows EXCEPT ![a] = AfterDeactivate(e)]
     \/ \E t \in 0..MaxBlockTime :
          CanExtend(e, caller, t) /\ escrows' = [escrows EXCEPT ![a] = AfterExtend(e, t)]
     \/ \E r \in ReportKeys, h \in ContentHashes, w \in Wallets, amount \in 1..MaxDeposit :
          /\ CanApprove(e, caller, r, amount)
          /\ escrows' = [escrows EXCEPT ![a] = AfterApprove(e, r, h, w, amount)]
     \/ \E amount \in 1..MaxDeposit :
          /\ CanWithdraw(e, caller, blockTime, amount)
          /\ escrows' = [escrows EXCEPT ![a] = AfterWithdraw(e, amount)]
  /\ UNCHANGED <<blockTime, registryVars, feeVars>>

AnyoneCall(a) ==
  LET e == escrows[a] IN
  /\ \/ CanSync(e) /\ escrows' = [escrows EXCEPT ![a] = AfterSync(e)]
     \/ \E r \in ReportKeys :
          CanPay(e, r) /\ escrows' = [escrows EXCEPT ![a] = AfterPay(e, r)]
  /\ UNCHANGED <<blockTime, registryVars, feeVars>>

DonateToAdmin(amount) ==
  /\ balance + amount <= MaxFees
  /\ donated + amount <= MaxFees
  /\ balance' = balance + amount
  /\ donated' = donated + amount
  /\ UNCHANGED <<escrows, blockTime, registryVars, charged, feesWithdrawn>>

TimePasses ==
  /\ blockTime + 1 < MaxBlockTime
  /\ blockTime' = blockTime + 1
  /\ UNCHANGED <<escrows, registryVars, feeVars>>

AdminNext ==
  \/ \E k \in ProgramKeys :
       \/ PayProgramFee(k) \/ DeactivateProgram(k) \/ PauseProgram(k)
       \/ UnpauseProgram(k) \/ CloseProgram(k)
       \/ \E a \in EscrowAddresses : RegisterProgramEscrow(k, a)
       \/ \E t \in 0..MaxBlockTime : ExtendProgramTimeline(k, t)
       \/ \E r \in ReportKeys, h \in ContentHashes, w \in Wallets, amount \in 0..MaxDeposit :
            ApproveProgramReward(k, r, h, w, amount)
  \/ \E amount \in 1..MaxFees : WithdrawPlatformFees(amount)
  \/ \E amount \in FeeAmounts \cup {0} : SetProgramFeeAmount(amount)
  \/ \E a \in EscrowAddresses, key \in ProgramKeys, owner \in Owners,
        controller \in {AdminContract, OtherController}, t \in 0..MaxBlockTime :
       DeployEscrow(a, key, owner, controller, t)
  \/ \E a \in DeployedEscrows :
       \/ \E amount \in 1..MaxDeposit : DepositTo(a, amount)
       \/ \E caller \in Owners \cup {OtherController} : DirectCall(a, caller)
       \/ AnyoneCall(a)
  \/ \E amount \in 1..MaxFees : DonateToAdmin(amount)
  \/ TimePasses

AdminSpec == AdminInit /\ [][AdminNext]_adminVars

-----------------------------------------------------------------------------
(***************************************************************************)
(* Correctness                                                             *)
(***************************************************************************)
\* The registry only ever names escrows that were deployed for that program
\* and that accept this contract as their controller, so no call of the
\* admin wallet can reach another program's escrow.
RegistrySound ==
  \A k \in ProgramKeys :
    Registered(k) =>
      /\ programEscrows[k] \in DeployedEscrows
      /\ EscrowOf(k).programKey = k
      /\ EscrowOf(k).adminController = AdminContract

\* programDeactivated tells the truth in both directions: an escrow that
\* answers to this contract is deactivated exactly when it is the one
\* registered for its program and the registry says so.  Nobody can
\* deactivate it behind the registry's back, before or after registration.
DeactivationAgrees ==
  /\ \A k \in ProgramKeys : programDeactivated[k] => Registered(k)
  /\ \A a \in DeployedEscrows :
       escrows[a].adminController = AdminContract =>
         (escrows[a].deactivated <=>
            /\ programEscrows[escrows[a].programKey] = a
            /\ programDeactivated[escrows[a].programKey])

\* Interleaving the controller, the owners and third parties keeps every
\* escrow sound: it holds what it owes and its counters are true.
EscrowsSound == \A a \in DeployedEscrows : Sound(escrows[a])

\* The inductive invariant of the registry.  An escrow that answers to this
\* contract and is not registered for its program has never been deactivated.
RegistryInv ==
  /\ escrows \in [EscrowAddresses -> Escrow \cup {NotDeployed}]
  /\ programEscrows \in [ProgramKeys -> EscrowAddresses \cup {NoAddress}]
  /\ programDeactivated \in [ProgramKeys -> BOOLEAN]
  /\ blockTime \in Nat
  /\ EscrowsSound
  /\ \A a \in DeployedEscrows : escrows[a].programOwner # AdminContract
  /\ RegistrySound
  /\ DeactivationAgrees

\* The contract's balance is the fees programs paid, each once, plus what was
\* donated, less what the admin wallet took: no escrow money ever enters it.
FeesAccounted ==
  /\ balance + feesWithdrawn = UnitSum(charged, ProgramKeys) + donated
  /\ \A k \in ProgramKeys : charged[k] \in (IF programFeePaid[k] THEN FeeAmounts ELSE {0})
=============================================================================
