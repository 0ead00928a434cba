--------------------------- MODULE EscrowContract ---------------------------
(***************************************************************************)
(* packages/contracts/src/BountyEscrow.sol as operators on one contract's  *)
(* storage: for each external function its preconditions (modifiers,       *)
(* reverts and checked arithmetic) and the storage it leaves behind.  A    *)
(* reverted call changes nothing, so Can* is the guard of the call and     *)
(* After* the whole of its effect.  The modules that compose escrows with  *)
(* the token, the platform controller or the off-chain ledger all use      *)
(* these operators.                                                        *)
(*                                                                         *)
(* `balance' is the USDC token's entry for this contract                   *)
(* (token.balanceOf(address(this))); everything else is contract storage.  *)
(* Amounts are in the token's smallest unit.                               *)
(***************************************************************************)
EXTENDS Naturals, FiniteSets

CONSTANTS
  ProgramKeys,   \* bytes32 program identifiers
  ReportKeys,    \* bytes32 report identifiers
  ContentHashes, \* bytes32 hashes of approved report content
  Accounts,      \* addresses that call contracts
  Wallets,       \* addresses rewards are paid to
  NoHash,        \* bytes32(0)
  NoAddress,     \* address(0)
  MaxReward      \* type(uint128).max

ASSUME ContractConstants ==
  /\ NoHash \notin ContentHashes
  /\ NoAddress \notin Accounts \cup Wallets
  /\ MaxReward \in Nat

RewardStatus == {"None", "Approved", "Paid"}

Reward ==
  [approvedContentHash : ContentHashes \cup {NoHash},
   researcher          : Wallets \cup {NoAddress},
   amount              : 0..MaxReward,
   status              : RewardStatus]

\* The zero value of a mapping entry that was never written.
NoReward ==
  [approvedContentHash |-> NoHash, researcher |-> NoAddress,
   amount |-> 0, status |-> "None"]

Escrow ==
  [programKey               : ProgramKeys,
   programOwner             : Accounts,
   adminController          : Accounts,
   balance                  : Nat,
   refundUnlockAt           : Nat,
   closed                   : BOOLEAN,
   paused                   : BOOLEAN,
   deactivated              : BOOLEAN,
   totalFunded              : Nat,
   totalPaid                : Nat,
   totalWithdrawn           : Nat,
   totalApprovedOutstanding : Nat,
   rewards                  : [ReportKeys -> Reward]]

CanDeploy(unlockAt, timestamp) == unlockAt > timestamp

Deployed(key, owner, controller, unlockAt) ==
  [programKey |-> key, programOwner |-> owner, adminController |-> controller,
   balance |-> 0, refundUnlockAt |-> unlockAt,
   closed |-> FALSE, paused |-> FALSE, deactivated |-> FALSE,
   totalFunded |-> 0, totalPaid |-> 0, totalWithdrawn |-> 0,
   totalApprovedOutstanding |-> 0,
   rewards |-> [k \in ReportKeys |-> NoReward]]

OwnerOrAdmin(e, caller) == caller \in {e.programOwner, e.adminController}

AvailableBalance(e) ==
  IF e.balance > e.totalApprovedOutstanding
  THEN e.balance - e.totalApprovedOutstanding ELSE 0

-----------------------------------------------------------------------------
\* USDC sent to the contract's address by anyone, without calling it.
AfterDeposit(e, amount) == [e EXCEPT !.balance = @ + amount]

ObservedLifetimeInflow(e) == e.balance + e.totalPaid + e.totalWithdrawn

CanSync(e) == ObservedLifetimeInflow(e) > e.totalFunded

\* Bug variant: adds the lifetime inflow to the total instead of replacing it.
AfterSyncAgain(e) == [e EXCEPT !.totalFunded = @ + ObservedLifetimeInflow(e)]

AfterSync(e) == [e EXCEPT !.totalFunded = ObservedLifetimeInflow(e)]

\* Bug variant: reserves against the whole balance.
CanApproveAgainstBalance(e, caller, k, amount) ==
  /\ OwnerOrAdmin(e, caller)
  /\ ~e.closed /\ ~e.paused /\ ~e.deactivated
  /\ amount \in 1..MaxReward
  /\ e.rewards[k].status = "None"
  /\ amount <= e.balance

\* Bug variant: amount is not limited to uint128.
CanApproveAnyAmount(e, caller, k, amount) ==
  /\ OwnerOrAdmin(e, caller)
  /\ ~e.closed /\ ~e.paused /\ ~e.deactivated
  /\ amount > 0
  /\ e.rewards[k].status = "None"
  /\ amount <= AvailableBalance(e)

CanApprove(e, caller, k, amount) ==
  /\ OwnerOrAdmin(e, caller)
  /\ ~e.closed
  /\ ~e.paused
  /\ ~e.deactivated
  /\ amount \in 1..MaxReward
  /\ e.rewards[k].status = "None"
  /\ amount <= AvailableBalance(e)

AfterApprove(e, k, hash, researcher, amount) ==
  [e EXCEPT
     !.rewards[k] = [approvedContentHash |-> hash, researcher |-> researcher,
                     amount |-> amount, status |-> "Approved"],
     !.totalApprovedOutstanding = @ + amount]

\* Bug variant: payouts stop while the escrow is paused.
CanPayUnpaused(e, k) ==
  e.rewards[k].status = "Approved" /\ ~e.paused /\ e.rewards[k].amount <= e.balance

\* The subtraction from totalApprovedOutstanding is checked and safeTransfer
\* reverts when the balance is too small.
CanPay(e, k) ==
  /\ e.rewards[k].status = "Approved"
  /\ e.rewards[k].amount <= e.totalApprovedOutstanding
  /\ e.rewards[k].amount <= e.balance

\* Bug variant: the reservation is not released by the payout.
AfterPayKeepingReservation(e, k) ==
  [e EXCEPT
     !.rewards[k].status = "Paid",
     !.totalPaid = @ + e.rewards[k].amount,
     !.balance = @ - e.rewards[k].amount]

AfterPay(e, k) ==
  [e EXCEPT
     !.rewards[k].status = "Paid",
     !.totalApprovedOutstanding = @ - e.rewards[k].amount,
     !.totalPaid = @ + e.rewards[k].amount,
     !.balance = @ - e.rewards[k].amount]

CanExtend(e, caller, newUnlockAt) ==
  OwnerOrAdmin(e, caller) /\ newUnlockAt > e.refundUnlockAt

AfterExtend(e, newUnlockAt) == [e EXCEPT !.refundUnlockAt = newUnlockAt]

CanClose(e, caller, timestamp) ==
  OwnerOrAdmin(e, caller) /\ ~e.closed /\ timestamp >= e.refundUnlockAt

AfterClose(e) == [e EXCEPT !.closed = TRUE]

CanPause(e, caller) == OwnerOrAdmin(e, caller) /\ ~e.deactivated

AfterPause(e) == [e EXCEPT !.paused = TRUE]

\* Bug variant: unpause also revives a deactivated escrow.
CanUnpauseAlways(e, caller) == OwnerOrAdmin(e, caller)

CanUnpause(e, caller) == OwnerOrAdmin(e, caller) /\ ~e.deactivated

AfterUnpause(e) == [e EXCEPT !.paused = FALSE]

CanDeactivate(e, caller) == caller = e.adminController

AfterDeactivate(e) == [e EXCEPT !.deactivated = TRUE, !.paused = TRUE]

\* Bug variants: withdrawal without closing first, or with rewards outstanding.
CanWithdrawOpen(e, caller, timestamp, expected) ==
  /\ caller = e.programOwner
  /\ timestamp >= e.refundUnlockAt
  /\ e.totalApprovedOutstanding = 0
  /\ expected \in 1..e.balance

CanWithdrawOwing(e, caller, timestamp, expected) ==
  /\ caller = e.programOwner
  /\ e.closed
  /\ timestamp >= e.refundUnlockAt
  /\ expected \in 1..e.balance

CanWithdraw(e, caller, timestamp, expected) ==
  /\ caller = e.programOwner
  /\ e.closed
  /\ timestamp >= e.refundUnlockAt
  /\ e.totalApprovedOutstanding = 0
  /\ expected > 0
  /\ e.balance >= expected

AfterWithdraw(e, expected) ==
  [e EXCEPT !.totalWithdrawn = @ + expected, !.balance = @ - expected]

-----------------------------------------------------------------------------
(***************************************************************************)
(* What the contract owes and has paid, read from the rewards themselves   *)
(* and never from its counters: one element <<k, i>> for every unit i of   *)
(* report k's reward.                                                      *)
(***************************************************************************)
UnitsOf(e, k) == {k} \X (1..e.rewards[k].amount)

UnitsWith(e, status) ==
  UNION {UnitsOf(e, k) : k \in {j \in ReportKeys : e.rewards[j].status = status}}

Owed(e) == Cardinality(UnitsWith(e, "Approved"))

PaidOut(e) == Cardinality(UnitsWith(e, "Paid"))

\* The sum of the amounts f over S, counted in the same way: as many as the
\* units <<x, i>> of all of them.
UnitSum(f, S) == Cardinality(UNION {{x} \X (1..f[x]) : x \in S})

(***************************************************************************)
(* The contract's storage is well formed, its two counters say what its    *)
(* rewards say, and it holds what it owes.                                 *)
(***************************************************************************)
Covered(e) == e.totalApprovedOutstanding <= e.balance

CountersAgree(e) ==
  /\ e.totalApprovedOutstanding = Owed(e)
  /\ e.totalPaid = PaidOut(e)

\* Every commitment is for something: approveReward rejects amount 0.
Priced(e) ==
  \A k \in ReportKeys : e.rewards[k].status = "Approved" => e.rewards[k].amount > 0

Sound(e) == e \in Escrow /\ CountersAgree(e) /\ Covered(e) /\ Priced(e)
=============================================================================
