---------------------------- MODULE BountyEscrow ----------------------------
(***************************************************************************)
(* One deployed program escrow together with the USDC token and the block  *)
(* clock.  Each action is one transaction; the chain orders transactions   *)
(* of independent callers arbitrarily, so Next interleaves them freely.    *)
(***************************************************************************)
EXTENDS EscrowContract

CONSTANTS
  ProgramKey, ProgramOwner, AdminController,
  Callers,      \* accounts that send transactions, the two above included
  InitialUnlock,\* refundUnlockAt given to the constructor at time 0
  MaxInflow,    \* bound: USDC ever sent to the escrow
  MaxTime       \* bound: last block timestamp and unlock time

ASSUME EscrowConstants ==
  /\ ProgramKey \in ProgramKeys
  /\ {ProgramOwner, AdminController} \subseteq Callers
  /\ Callers \subseteq Accounts
  /\ IsFiniteSet(ReportKeys)
  /\ InitialUnlock \in Nat \ {0}
  /\ MaxInflow \in Nat
  /\ MaxTime \in Nat

VARIABLES
  escrow,     \* the contract's storage and token balance
  now,        \* block.timestamp
  inflow,     \* history: USDC ever sent to the escrow
  received    \* history: USDC each account received from the escrow

vars == <<escrow, now, inflow, received>>

Recipients == Wallets \cup {ProgramOwner}

TypeOK ==
  /\ escrow \in Escrow
  /\ now \in Nat
  /\ inflow \in Nat
  /\ received \in [Recipients -> Nat]

Init ==
  /\ escrow = Deployed(ProgramKey, ProgramOwner, AdminController, InitialUnlock)
  /\ now = 0
  /\ inflow = 0
  /\ received = [a \in Recipients |-> 0]

\* Time passes between blocks.
Tick ==
  /\ now < MaxTime
  /\ now' = now + 1
  /\ UNCHANGED <<escrow, inflow, received>>

\* Send, Bridge, Gateway or a third party transfers USDC to the escrow address.
Deposit(amount) ==
  /\ inflow + amount <= MaxInflow
  /\ escrow' = AfterDeposit(escrow, amount)
  /\ inflow' = inflow + amount
  /\ UNCHANGED <<now, received>>

SyncExternalFunding ==
  /\ CanSync(escrow)
  /\ escrow' = AfterSync(escrow)
  /\ UNCHANGED <<now, inflow, received>>

ApproveReward(caller, k, hash, researcher, amount) ==
  /\ CanApprove(escrow, caller, k, amount)
  /\ escrow' = AfterApprove(escrow, k, hash, researcher, amount)
  /\ UNCHANGED <<now, inflow, received>>

\* Permissionless: the caller is irrelevant.
PayReward(k) ==
  /\ CanPay(escrow, k)
  /\ escrow' = AfterPay(escrow, k)
  /\ received' = [received EXCEPT ![escrow.rewards[k].researcher] =
                                     @ + escrow.rewards[k].amount]
  /\ UNCHANGED <<now, inflow>>

ExtendRefundUnlockAt(caller, newUnlockAt) ==
  /\ CanExtend(escrow, caller, newUnlockAt)
  /\ escrow' = AfterExtend(escrow, newUnlockAt)
  /\ UNCHANGED <<now, inflow, received>>

Close(caller) ==
  /\ CanClose(escrow, caller, now)
  /\ escrow' = AfterClose(escrow)
  /\ UNCHANGED <<now, inflow, received>>

Pause(caller) ==
  /\ CanPause(escrow, caller)
  /\ escrow' = AfterPause(escrow)
  /\ UNCHANGED <<now, inflow, received>>

Unpause(caller) ==
  /\ CanUnpause(escrow, caller)
  /\ escrow' = AfterUnpause(escrow)
  /\ UNCHANGED <<now, inflow, received>>

Deactivate(caller) ==
  /\ CanDeactivate(escrow, caller)
  /\ escrow' = AfterDeactivate(escrow)
  /\ UNCHANGED <<now, inflow, received>>

WithdrawRemaining(caller, expected) ==
  /\ CanWithdraw(escrow, caller, now, expected)
  /\ escrow' = AfterWithdraw(escrow, expected)
  /\ received' = [received EXCEPT ![ProgramOwner] = @ + expected]
  /\ UNCHANGED <<now, inflow>>

Next ==
  \/ Tick
  \/ \E amount \in 1..MaxInflow : Deposit(amount)
  \/ SyncExternalFunding
  \/ \E c \in Callers, k \in ReportKeys, h \in ContentHashes, w \in Wallets,
        amount \in 0..MaxInflow : ApproveReward(c, k, h, w, amount)
  \/ \E k \in ReportKeys : PayReward(k)
  \/ \E c \in Callers, t \in 0..MaxTime : ExtendRefundUnlockAt(c, t)
  \/ \E c \in Callers : Close(c) \/ Pause(c) \/ Unpause(c) \/ Deactivate(c)
  \/ \E c \in Callers, amount \in 0..MaxInflow : WithdrawRemaining(c, amount)

Spec == Init /\ [][Next]_vars

(***************************************************************************)
(* payReward may be sent by anyone, so one participant who wants a reward  *)
(* paid is enough to make its payout weakly fair.  Nothing else is fair.   *)
(***************************************************************************)
FairSpec == Spec /\ \A k \in ReportKeys : WF_vars(PayReward(k))

-----------------------------------------------------------------------------
(***************************************************************************)
(* Correctness                                                             *)
(***************************************************************************)
\* approveReward reserves against the live balance, unsynced transfers
\* included, and every outflow is checked: what is approved and unpaid is
\* always covered by USDC the contract holds.
Solvency == Covered(escrow)

\* The two counters withdrawRemaining and availableBalance trust equal what
\* the rewards mapping says is owed and was paid, over every order of calls.
CountersMatchRewards == CountersAgree(escrow)

\* No USDC appears or vanishes, and syncExternalFunding, which adds lifetime
\* outflow back to the live balance, never counts a deposit twice.
FundsConserved ==
  /\ ObservedLifetimeInflow(escrow) = inflow
  /\ escrow.totalFunded <= inflow

\* Once the owner has withdrawn anything the program is closed and owes no
\* researcher anything, and neither can change again.
WithdrawnMeansSettled ==
  escrow.totalWithdrawn > 0 => escrow.closed /\ Owed(escrow) = 0

\* The inductive invariant: the safety invariants above hold together with
\* the contract being sound and its owner never changing.
IInv ==
  /\ TypeOK
  /\ Sound(escrow)
  /\ escrow.programOwner = ProgramOwner
  /\ FundsConserved
  /\ WithdrawnMeansSettled

\* A committed reward keeps its hash, recipient and amount for ever and moves
\* only from Approved to Paid, whatever the owner, the controller or the
\* payer send.
CommitmentsKept ==
  [][\A k \in ReportKeys :
       LET old == escrow.rewards[k]
           new == escrow'.rewards[k]
       IN  old.status # "None" =>
             new = old \/ (old.status = "Approved" /\ new = [old EXCEPT !.status = "Paid"])
    ]_vars

\* After deactivation or closing no report gets a new reward, and neither the
\* owner nor the controller can bring the escrow back.
NoNewDebtAfterEnd ==
  [][escrow.closed \/ escrow.deactivated =>
       /\ Owed(escrow') <= Owed(escrow)
       /\ escrow.closed => escrow'.closed
       /\ escrow.deactivated => escrow'.deactivated /\ escrow'.paused]_vars

\* An approved reward is paid in the end: pausing, closing, deactivating,
\* extending the unlock time or withdrawing never strands it.
ApprovedIsPaid ==
  \A k \in ReportKeys :
    escrow.rewards[k].status = "Approved" ~> escrow.rewards[k].status = "Paid"

-----------------------------------------------------------------------------
(***************************************************************************)
(* The escrow implements the promise: the pot is the balance less what is  *)
(* outstanding, an Approved reward is an open promise and a Paid one an    *)
(* honoured promise.                                                       *)
(***************************************************************************)
PromiseOf(r) ==
  CASE r.status = "None"     -> [state |-> "unmade"]
    [] r.status = "Approved" -> [state |-> "open", to |-> r.researcher,
                                 amount |-> r.amount]
    [] r.status = "Paid"     -> [state |-> "honoured", to |-> r.researcher,
                                 amount |-> r.amount]

Promise == INSTANCE EscrowPromise WITH
  Owner   <- ProgramOwner,
  pot     <- escrow.balance - escrow.totalApprovedOutstanding,
  promise <- [k \in ReportKeys |-> PromiseOf(escrow.rewards[k])],
  paidTo  <- received

\* Every behaviour of the contract is a behaviour of the promise: no
\* interleaving of calls spends committed money, pays twice, or redirects it.
ImplementsPromise == Promise!Spec
=============================================================================
