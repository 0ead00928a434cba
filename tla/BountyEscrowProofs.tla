------------------------- MODULE BountyEscrowProofs -------------------------
(***************************************************************************)
(* Safety of the escrow for any reports, wallets, callers, amounts and     *)
(* times.  The inductive invariant is IInv; the contract-level part of it  *)
(* is carried by the lemmas of EscrowContractTheorems, one per call.  The  *)
(* second half is about the platform controller and all the escrows it may *)
(* be registered with.                                                     *)
(***************************************************************************)
EXTENDS BountyEscrow, BountyEscrowAdmin, EscrowContractTheorems

\* The invariant holds when the escrow is deployed.
LEMMA InitIInv == Init => IInv
<1> SUFFICES ASSUME Init PROVE IInv
  OBVIOUS
<1> USE EscrowConstants
<1>1. Sound(escrow)
  <2>1. /\ ProgramKey \in ProgramKeys
        /\ ProgramOwner \in Accounts /\ AdminController \in Accounts
        /\ InitialUnlock \in Nat
    OBVIOUS
  <2> QED BY <2>1, DeploySound DEF Init
<1>2. TypeOK
  BY <1>1 DEF Init, TypeOK, Sound
<1> QED
  BY <1>1, <1>2 DEF IInv, Init, Deployed, FundsConserved, WithdrawnMeansSettled,
                    ObservedLifetimeInflow

\* Every transaction, and every stuttering step, keeps the invariant.
LEMMA NextIInv == IInv /\ [Next]_vars => IInv'
<1> SUFFICES ASSUME IInv, [Next]_vars PROVE IInv'
  OBVIOUS
<1> USE EscrowConstants
<1>0. /\ escrow \in Escrow /\ Sound(escrow) /\ now \in Nat /\ inflow \in Nat
      /\ received \in [Recipients -> Nat]
      /\ escrow.programOwner = ProgramOwner
      /\ IsFiniteSet(ReportKeys)
      /\ ObservedLifetimeInflow(escrow) = inflow
      /\ escrow.totalFunded <= inflow
      /\ escrow.totalWithdrawn > 0 => escrow.closed /\ Owed(escrow) = 0
  BY DEF IInv, TypeOK, FundsConserved, WithdrawnMeansSettled
<1> USE DEF IInv, TypeOK, FundsConserved, WithdrawnMeansSettled
<1>q. ASSUME escrow' \in Escrow, Sound(escrow'),
             escrow'.programOwner = escrow.programOwner,
             escrow'.balance = escrow.balance,
             escrow'.totalPaid = escrow.totalPaid,
             escrow'.totalWithdrawn = escrow.totalWithdrawn,
             escrow'.totalFunded = escrow.totalFunded,
             escrow'.rewards = escrow.rewards,
             escrow.closed => escrow'.closed,
             UNCHANGED <<now, inflow, received>>
      PROVE  IInv'
  <2>1. Owed(escrow') = Owed(escrow)
    BY <1>q, UnitsWithSame
  <2> QED BY <1>0, <1>q, <2>1 DEF ObservedLifetimeInflow
<1>1. CASE Tick
  BY <1>0, <1>1 DEF Tick
<1>2. ASSUME NEW amount \in 1..MaxInflow, Deposit(amount) PROVE IInv'
  <2>1. amount \in Nat /\ escrow' = AfterDeposit(escrow, amount)
    BY <1>2 DEF Deposit
  <2>2. Sound(escrow')
    BY <1>0, <2>1, QuietCallsSound
  <2>3. /\ escrow'.balance = escrow.balance + amount
        /\ escrow'.rewards = escrow.rewards
        /\ escrow'.totalPaid = escrow.totalPaid
        /\ escrow'.totalWithdrawn = escrow.totalWithdrawn
        /\ escrow'.totalFunded = escrow.totalFunded
        /\ escrow'.closed = escrow.closed
        /\ escrow'.programOwner = escrow.programOwner
    BY <1>0, <2>1 DEF AfterDeposit, Escrow
  <2>4. Owed(escrow') = Owed(escrow)
    BY <2>3, UnitsWithSame
  <2>5. inflow' = inflow + amount /\ now' = now /\ received' = received
    BY <1>2 DEF Deposit
  <2>6. /\ escrow.balance \in Nat /\ escrow.totalPaid \in Nat
        /\ escrow.totalWithdrawn \in Nat /\ escrow.totalFunded \in Nat
    BY <1>0 DEF Escrow
  <2>7. FundsConserved'
    BY <1>0, <2>1, <2>3, <2>5, <2>6 DEF ObservedLifetimeInflow
  <2>8. WithdrawnMeansSettled'
    BY <1>0, <2>3, <2>4
  <2>9. TypeOK'
    BY <1>0, <2>1, <2>2, <2>5 DEF Sound
  <2> QED BY <1>0, <2>2, <2>3, <2>7, <2>8, <2>9
<1>3. CASE SyncExternalFunding
  <2>1. escrow' = AfterSync(escrow) /\ now' = now /\ inflow' = inflow /\ received' = received
    BY <1>3 DEF SyncExternalFunding
  <2>2. Sound(escrow')
    BY <1>0, <2>1, QuietCallsSound
  <2>3. /\ escrow'.balance = escrow.balance
        /\ escrow'.rewards = escrow.rewards
        /\ escrow'.totalPaid = escrow.totalPaid
        /\ escrow'.totalWithdrawn = escrow.totalWithdrawn
        /\ escrow'.totalFunded = ObservedLifetimeInflow(escrow)
        /\ escrow'.closed = escrow.closed
        /\ escrow'.programOwner = escrow.programOwner
    BY <1>0, <2>1 DEF AfterSync, Escrow
  <2>4. Owed(escrow') = Owed(escrow)
    BY <2>3, UnitsWithSame
  <2>5. FundsConserved'
    BY <1>0, <2>1, <2>3 DEF ObservedLifetimeInflow
  <2>6. WithdrawnMeansSettled'
    BY <1>0, <2>3, <2>4
  <2>7. TypeOK'
    BY <1>0, <2>1, <2>2 DEF Sound
  <2> QED BY <1>0, <2>2, <2>3, <2>5, <2>6, <2>7
<1>4. ASSUME NEW c \in Callers, NEW k \in ReportKeys, NEW h \in ContentHashes,
             NEW w \in Wallets, NEW amount \in 0..MaxInflow,
             ApproveReward(c, k, h, w, amount)
      PROVE  IInv'
  <2>1. /\ CanApprove(escrow, c, k, amount)
        /\ escrow' = AfterApprove(escrow, k, h, w, amount)
        /\ now' = now /\ inflow' = inflow /\ received' = received
    BY <1>4 DEF ApproveReward
  <2>2. Sound(escrow')
    BY <1>0, <2>1, ApproveSound
  <2>3. /\ escrow'.balance = escrow.balance
        /\ escrow'.totalPaid = escrow.totalPaid
        /\ escrow'.totalWithdrawn = escrow.totalWithdrawn
        /\ escrow'.totalFunded = escrow.totalFunded
        /\ escrow'.closed = escrow.closed
        /\ escrow'.programOwner = escrow.programOwner
    BY <1>0, <2>1 DEF AfterApprove, Escrow
  <2>4. ~escrow.closed
    BY <2>1 DEF CanApprove
  <2>5. FundsConserved'
    BY <1>0, <2>1, <2>3 DEF ObservedLifetimeInflow
  <2>6. WithdrawnMeansSettled'
    BY <1>0, <2>3, <2>4
  <2>7. TypeOK'
    BY <1>0, <2>1, <2>2 DEF Sound
  <2> QED BY <1>0, <2>2, <2>3, <2>5, <2>6, <2>7
<1>5. ASSUME NEW k \in ReportKeys, PayReward(k) PROVE IInv'
  <2> DEFINE amount == escrow.rewards[k].amount
             to == escrow.rewards[k].researcher
  <2>1. /\ CanPay(escrow, k)
        /\ escrow' = AfterPay(escrow, k)
        /\ received' = [received EXCEPT ![to] = @ + amount]
        /\ now' = now /\ inflow' = inflow
    BY <1>5 DEF PayReward
  <2> HIDE DEF amount, to
  <2>2. Sound(escrow')
    BY <1>0, <2>1, PaySound
  <2>3. amount \in Nat
    BY <1>0, ContractConstants DEF Escrow, Reward, amount
  <2>4. /\ escrow'.balance = escrow.balance - amount
        /\ escrow'.totalPaid = escrow.totalPaid + amount
        /\ escrow'.totalWithdrawn = escrow.totalWithdrawn
        /\ escrow'.totalFunded = escrow.totalFunded
        /\ escrow'.closed = escrow.closed
        /\ escrow'.programOwner = escrow.programOwner
    BY <1>0, <2>1 DEF AfterPay, Escrow, amount
  <2>5. /\ escrow.balance \in Nat /\ escrow.totalPaid \in Nat
        /\ escrow.totalWithdrawn \in Nat
    BY <1>0 DEF Escrow
  <2>6. FundsConserved'
    BY <1>0, <2>1, <2>3, <2>4, <2>5 DEF ObservedLifetimeInflow
  <2>7. WithdrawnMeansSettled'
    <3>1. Owed(escrow') = Owed(escrow) - amount /\ Owed(escrow') \in Nat
      BY <1>0, <2>1, <2>2, PayUnits, UnitsWithFinite DEF Sound, Owed, amount
    <3>2. Owed(escrow) \in Nat
      BY <1>0, UnitsWithFinite DEF Owed
    <3> QED BY <1>0, <2>3, <2>4, <3>1, <3>2
  <2>8. received' \in [Recipients -> Nat]
    <3>1. \A a \in Recipients : received[a] \in Nat /\ received[a] + amount \in Nat
      BY <1>0, <2>3
    <3>2. received' = [a \in Recipients |->
                         IF a = to THEN received[to] + amount ELSE received[a]]
      BY <1>0, <2>1
    <3> QED BY <3>1, <3>2
  <2>9. TypeOK'
    BY <1>0, <2>1, <2>2, <2>8 DEF Sound
  <2> QED BY <1>0, <2>2, <2>4, <2>6, <2>7, <2>9
<1>6. ASSUME NEW c \in Callers, NEW t \in 0..MaxTime, ExtendRefundUnlockAt(c, t)
      PROVE  IInv'
  <2>1. t \in Nat /\ escrow' = AfterExtend(escrow, t)
    BY <1>6 DEF ExtendRefundUnlockAt
  <2>2. Sound(escrow')
    BY <1>0, <2>1, QuietCallsSound
  <2> QED BY <1>0, <1>6, <2>1, <2>2, <1>q DEF ExtendRefundUnlockAt, AfterExtend, Escrow, Sound
<1>7. ASSUME NEW c \in Callers, Close(c) PROVE IInv'
  <2>1. escrow' = AfterClose(escrow)
    BY <1>7 DEF Close
  <2>2. Sound(escrow')
    BY <1>0, <2>1, QuietCallsSound
  <2> QED BY <1>0, <1>7, <2>1, <2>2, <1>q DEF Close, AfterClose, Escrow, Sound
<1>8. ASSUME NEW c \in Callers, Pause(c) PROVE IInv'
  <2>1. escrow' = AfterPause(escrow)
    BY <1>8 DEF Pause
  <2>2. Sound(escrow')
    BY <1>0, <2>1, QuietCallsSound
  <2> QED BY <1>0, <1>8, <2>1, <2>2, <1>q DEF Pause, AfterPause, Escrow, Sound
<1>9. ASSUME NEW c \in Callers, Unpause(c) PROVE IInv'
  <2>1. escrow' = AfterUnpause(escrow)
    BY <1>9 DEF Unpause
  <2>2. Sound(escrow')
    BY <1>0, <2>1, QuietCallsSound
  <2> QED BY <1>0, <1>9, <2>1, <2>2, <1>q DEF Unpause, AfterUnpause, Escrow, Sound
<1>10. ASSUME NEW c \in Callers, Deactivate(c) PROVE IInv'
  <2>1. escrow' = AfterDeactivate(escrow)
    BY <1>10 DEF Deactivate
  <2>2. Sound(escrow')
    BY <1>0, <2>1, QuietCallsSound
  <2> QED BY <1>0, <1>10, <2>1, <2>2, <1>q DEF Deactivate, AfterDeactivate, Escrow, Sound
<1>11. ASSUME NEW c \in Callers, NEW amount \in 0..MaxInflow,
              WithdrawRemaining(c, amount)
       PROVE  IInv'
  <2>1. /\ CanWithdraw(escrow, c, now, amount)
        /\ escrow' = AfterWithdraw(escrow, amount)
        /\ received' = [received EXCEPT ![ProgramOwner] = @ + amount]
        /\ now' = now /\ inflow' = inflow
        /\ amount \in Nat
    BY <1>11 DEF WithdrawRemaining
  <2>2. Sound(escrow')
    BY <1>0, <2>1, WithdrawSound
  <2>3. /\ escrow'.balance = escrow.balance - amount
        /\ escrow'.totalPaid = escrow.totalPaid
        /\ escrow'.totalWithdrawn = escrow.totalWithdrawn + amount
        /\ escrow'.totalFunded = escrow.totalFunded
        /\ escrow'.closed = escrow.closed
        /\ escrow'.rewards = escrow.rewards
        /\ escrow'.programOwner = escrow.programOwner
    BY <1>0, <2>1 DEF AfterWithdraw, Escrow
  <2>4. escrow.closed /\ Owed(escrow) = 0
    BY <1>0, <2>1 DEF CanWithdraw, Sound, CountersAgree
  <2>5. /\ escrow.balance \in Nat /\ escrow.totalPaid \in Nat
        /\ escrow.totalWithdrawn \in Nat
    BY <1>0 DEF Escrow
  <2>6. FundsConserved'
    BY <1>0, <2>1, <2>3, <2>5 DEF ObservedLifetimeInflow
  <2>7. WithdrawnMeansSettled'
    BY <2>3, <2>4, UnitsWithSame
  <2>8. received' \in [Recipients -> Nat]
    BY <1>0, <2>1 DEF Recipients
  <2>9. TypeOK'
    BY <1>0, <2>1, <2>2, <2>8 DEF Sound
  <2> QED BY <1>0, <2>2, <2>3, <2>6, <2>7, <2>9
<1>12. CASE UNCHANGED vars
  BY <1>0, <1>12 DEF vars
<1> QED
  BY <1>1, <1>2, <1>3, <1>4, <1>5, <1>6, <1>7, <1>8, <1>9, <1>10, <1>11, <1>12
  DEF Next

-----------------------------------------------------------------------------
\* The inductive invariant holds in every reachable state.
THEOREM IInvHolds == Spec => []IInv
<1> QED BY InitIInv, NextIInv, PTL DEF Spec

\* Contract storage, clock and receipts always have their types: amounts stay
\* natural numbers, so no checked subtraction of the contract underflows.
THEOREM TypeCorrect == Spec => []TypeOK
<1>1. IInv => TypeOK
  BY DEF IInv
<1> QED BY <1>1, IInvHolds, PTL

\* Approved and unpaid rewards are always covered by the contract's balance.
THEOREM SolvencyHolds == Spec => []Solvency
<1>1. IInv => Solvency
  BY DEF IInv, Sound, Solvency
<1> QED BY <1>1, IInvHolds, PTL

\* totalApprovedOutstanding and totalPaid always equal what the rewards say.
THEOREM CountersMatchRewardsHolds == Spec => []CountersMatchRewards
<1>1. IInv => CountersMatchRewards
  BY DEF IInv, Sound, CountersMatchRewards
<1> QED BY <1>1, IInvHolds, PTL

\* USDC is conserved and totalFunded never counts a deposit twice.
THEOREM FundsConservedHolds == Spec => []FundsConserved
<1>1. IInv => FundsConserved
  BY DEF IInv
<1> QED BY <1>1, IInvHolds, PTL

\* The owner withdraws only from a closed escrow that owes nothing, and it
\* owes nothing ever after.
THEOREM WithdrawnMeansSettledHolds == Spec => []WithdrawnMeansSettled
<1>1. IInv => WithdrawnMeansSettled
  BY DEF IInv
<1> QED BY <1>1, IInvHolds, PTL

-----------------------------------------------------------------------------
\* How one step changes the rewards: not at all, one new approval of an
\* unused report while the escrow takes approvals, or one payout.
RewardsStep ==
  \/ escrow'.rewards = escrow.rewards
  \/ \E k \in ReportKeys, h \in ContentHashes, w \in Wallets, amount \in 1..MaxReward :
       /\ ~escrow.closed /\ ~escrow.deactivated
       /\ escrow.rewards[k].status = "None"
       /\ escrow' = AfterApprove(escrow, k, h, w, amount)
  \/ \E k \in ReportKeys : CanPay(escrow, k) /\ escrow' = AfterPay(escrow, k)

LEMMA RewardsOnlyStep == IInv /\ [Next]_vars => RewardsStep
<1> SUFFICES ASSUME IInv, [Next]_vars PROVE RewardsStep
  OBVIOUS
<1>0. escrow \in Escrow
  BY DEF IInv, TypeOK
<1>1. CASE Tick
  BY <1>1 DEF Tick, RewardsStep
<1>2. ASSUME NEW amount, Deposit(amount) PROVE RewardsStep
  BY <1>0, <1>2 DEF Deposit, AfterDeposit, RewardsStep, Escrow
<1>3. CASE SyncExternalFunding
  BY <1>0, <1>3 DEF SyncExternalFunding, AfterSync, RewardsStep, Escrow
<1>4. ASSUME NEW c \in Callers, NEW k \in ReportKeys, NEW h \in ContentHashes,
             NEW w \in Wallets, NEW amount \in 0..MaxInflow,
             ApproveReward(c, k, h, w, amount)
      PROVE  RewardsStep
  BY <1>4 DEF ApproveReward, CanApprove, RewardsStep
<1>5. ASSUME NEW k \in ReportKeys, PayReward(k) PROVE RewardsStep
  BY <1>5 DEF PayReward, RewardsStep
<1>6. ASSUME NEW c, NEW t, ExtendRefundUnlockAt(c, t) PROVE RewardsStep
  BY <1>0, <1>6 DEF ExtendRefundUnlockAt, AfterExtend, RewardsStep, Escrow
<1>7. ASSUME NEW c, Close(c) \/ Pause(c) \/ Unpause(c) \/ Deactivate(c)
      PROVE  RewardsStep
  BY <1>0, <1>7 DEF Close, Pause, Unpause, Deactivate, AfterClose, AfterPause,
                    AfterUnpause, AfterDeactivate, RewardsStep, Escrow
<1>8. ASSUME NEW c, NEW amount, WithdrawRemaining(c, amount) PROVE RewardsStep
  BY <1>0, <1>8 DEF WithdrawRemaining, AfterWithdraw, RewardsStep, Escrow
<1>9. CASE UNCHANGED vars
  BY <1>9 DEF vars, RewardsStep
<1> QED
  BY <1>1, <1>2, <1>3, <1>4, <1>5, <1>6, <1>7, <1>8, <1>9 DEF Next

\* A committed reward keeps its hash, recipient and amount for ever and is
\* paid at most once, whoever calls what in which order.
THEOREM CommitmentsKeptHolds == Spec => CommitmentsKept
<1> DEFINE Kept ==
      \A k \in ReportKeys :
        LET old == escrow.rewards[k]
            new == escrow'.rewards[k]
        IN  old.status # "None" =>
              new = old \/ (old.status = "Approved" /\ new = [old EXCEPT !.status = "Paid"])
<1>1. IInv /\ [Next]_vars => Kept
  <2> SUFFICES ASSUME IInv, [Next]_vars, NEW k \in ReportKeys,
                      escrow.rewards[k].status # "None"
               PROVE  \/ escrow'.rewards[k] = escrow.rewards[k]
                      \/ /\ escrow.rewards[k].status = "Approved"
                         /\ escrow'.rewards[k] = [escrow.rewards[k] EXCEPT !.status = "Paid"]
    OBVIOUS
  <2>0. escrow \in Escrow
    BY DEF IInv, TypeOK
  <2>1. CASE escrow'.rewards = escrow.rewards
    BY <2>1
  <2>2. ASSUME NEW j \in ReportKeys, NEW h, NEW w, NEW amount,
               escrow.rewards[j].status = "None",
               escrow' = AfterApprove(escrow, j, h, w, amount)
        PROVE  escrow'.rewards[k] = escrow.rewards[k]
    BY <2>0, <2>2 DEF AfterApprove, Escrow
  <2>3. ASSUME NEW j \in ReportKeys, CanPay(escrow, j), escrow' = AfterPay(escrow, j)
        PROVE  \/ escrow'.rewards[k] = escrow.rewards[k]
               \/ /\ escrow.rewards[k].status = "Approved"
                  /\ escrow'.rewards[k] = [escrow.rewards[k] EXCEPT !.status = "Paid"]
    BY <2>0, <2>3 DEF AfterPay, CanPay, Escrow
  <2> QED BY <2>1, <2>2, <2>3, RewardsOnlyStep DEF RewardsStep
<1>2. Spec => [][Kept]_vars
  BY <1>1, IInvHolds, PTL DEF Spec
<1> QED BY <1>2 DEF CommitmentsKept

\* After closing or deactivation what is owed only shrinks.
LEMMA OwedOnlyShrinks ==
  IInv /\ [Next]_vars /\ (escrow.closed \/ escrow.deactivated)
    => Owed(escrow') <= Owed(escrow)
<1> SUFFICES ASSUME IInv, [Next]_vars, escrow.closed \/ escrow.deactivated
             PROVE  Owed(escrow') <= Owed(escrow)
  OBVIOUS
<1>0. escrow \in Escrow /\ IsFiniteSet(ReportKeys)
  BY EscrowConstants DEF IInv, TypeOK
<1>1. Owed(escrow) \in Nat
  BY <1>0, UnitsWithFinite DEF Owed
<1>2. CASE escrow'.rewards = escrow.rewards
  BY <1>1, <1>2, UnitsWithSame
<1>3. ASSUME NEW k \in ReportKeys, CanPay(escrow, k), escrow' = AfterPay(escrow, k)
      PROVE  Owed(escrow') <= Owed(escrow)
  <2>1. escrow.rewards[k].amount \in Nat
    BY <1>0, ContractConstants DEF Escrow, Reward
  <2>2. Owed(escrow') = Owed(escrow) - escrow.rewards[k].amount
    BY <1>0, <1>3, PayUnits
  <2> QED BY <1>1, <2>1, <2>2
<1> QED BY <1>2, <1>3, RewardsOnlyStep DEF RewardsStep

\* A deactivated escrow is paused, which unpause respects for ever.
DeactivatedIsPaused == escrow.deactivated => escrow.paused

\* Neither closing nor deactivation can be taken back.
LEMMA EndIsFinal ==
  IInv /\ DeactivatedIsPaused /\ [Next]_vars =>
    /\ DeactivatedIsPaused'
    /\ escrow.closed => escrow'.closed
    /\ escrow.deactivated => escrow'.deactivated /\ escrow'.paused
<1> SUFFICES ASSUME IInv, DeactivatedIsPaused, [Next]_vars
             PROVE  /\ DeactivatedIsPaused'
                    /\ escrow.closed => escrow'.closed
                    /\ escrow.deactivated => escrow'.deactivated /\ escrow'.paused
  OBVIOUS
<1> USE DEF DeactivatedIsPaused
<1>0. escrow \in Escrow
  BY DEF IInv, TypeOK
<1> DEFINE Goal == /\ DeactivatedIsPaused'
                   /\ escrow.closed => escrow'.closed
                   /\ escrow.deactivated => escrow'.deactivated /\ escrow'.paused
<1>1. CASE Tick
  BY <1>1 DEF Tick
<1>2. ASSUME NEW amount, Deposit(amount) PROVE Goal
  BY <1>0, <1>2 DEF Deposit, AfterDeposit, Escrow
<1>3. CASE SyncExternalFunding
  BY <1>0, <1>3 DEF SyncExternalFunding, AfterSync, Escrow
<1>4. ASSUME NEW c, NEW k, NEW h, NEW w, NEW amount, ApproveReward(c, k, h, w, amount)
      PROVE  Goal
  BY <1>0, <1>4 DEF ApproveReward, AfterApprove, Escrow
<1>5. ASSUME NEW k, PayReward(k) PROVE Goal
  BY <1>0, <1>5 DEF PayReward, AfterPay, Escrow
<1>6. ASSUME NEW c, NEW t, ExtendRefundUnlockAt(c, t) PROVE Goal
  BY <1>0, <1>6 DEF ExtendRefundUnlockAt, AfterExtend, Escrow
<1>7. ASSUME NEW c, Close(c) \/ Pause(c) \/ Deactivate(c) PROVE Goal
  BY <1>0, <1>7 DEF Close, Pause, Deactivate, AfterClose, AfterPause,
                    AfterDeactivate, Escrow
<1>8. ASSUME NEW c, Unpause(c) PROVE Goal
  BY <1>0, <1>8 DEF Unpause, CanUnpause, AfterUnpause, Escrow
<1>9. ASSUME NEW c, NEW amount, WithdrawRemaining(c, amount) PROVE Goal
  BY <1>0, <1>9 DEF WithdrawRemaining, AfterWithdraw, Escrow
<1>10. CASE UNCHANGED vars
  BY <1>10 DEF vars
<1> QED
  BY <1>1, <1>2, <1>3, <1>4, <1>5, <1>6, <1>7, <1>8, <1>9, <1>10 DEF Next

\* No step after closing or deactivation creates new debt, and no owner or
\* controller call reopens the escrow.
THEOREM NoNewDebtAfterEndHolds == Spec => NoNewDebtAfterEnd
<1> DEFINE Frozen ==
      escrow.closed \/ escrow.deactivated =>
        /\ Owed(escrow') <= Owed(escrow)
        /\ escrow.closed => escrow'.closed
        /\ escrow.deactivated => escrow'.deactivated /\ escrow'.paused
<1>1. Init => DeactivatedIsPaused
  BY DEF Init, Deployed, DeactivatedIsPaused
<1>2. IInv /\ DeactivatedIsPaused /\ [Next]_vars => DeactivatedIsPaused'
  BY EndIsFinal
<1>3. IInv /\ DeactivatedIsPaused /\ [Next]_vars => Frozen
  BY EndIsFinal, OwedOnlyShrinks
<1>4. Spec => [](IInv /\ DeactivatedIsPaused)
  BY <1>1, <1>2, IInvHolds, PTL DEF Spec
<1>5. Spec => [][Frozen]_vars
  BY <1>3, <1>4, PTL DEF Spec
<1> QED BY <1>5 DEF NoNewDebtAfterEnd

-----------------------------------------------------------------------------
(***************************************************************************)
(* The refinement: every step of the contract is a step of the promise or  *)
(* leaves the promise alone.                                               *)
(***************************************************************************)
Pot == escrow.balance - escrow.totalApprovedOutstanding

Promises == [k \in ReportKeys |-> PromiseOf(escrow.rewards[k])]

\* Calls that change neither balance, debt, rewards nor receipts are
\* invisible to the promise.
LEMMA QuietStep ==
  ASSUME escrow'.balance = escrow.balance,
         escrow'.totalApprovedOutstanding = escrow.totalApprovedOutstanding,
         escrow'.rewards = escrow.rewards,
         received' = received
  PROVE  UNCHANGED Promise!vars
BY DEF Promise!vars, PromiseOf

\* A deployed escrow has an empty pot and has promised nothing.
LEMMA PromiseInit == Init => Promise!Init
<1> SUFFICES ASSUME Init PROVE Promise!Init
  OBVIOUS
<1>1. escrow.balance - escrow.totalApprovedOutstanding = 0
  BY DEF Init, Deployed
<1>2. \A k \in ReportKeys : PromiseOf(escrow.rewards[k]) = [state |-> "unmade"]
  BY DEF Init, Deployed, NoReward, PromiseOf
<1> QED BY <1>1, <1>2 DEF Promise!Init, Promise!Unmade, Init

\* Every contract step is a promise step or a stutter.
LEMMA PromiseStep == IInv /\ [Next]_vars => [Promise!Next]_Promise!vars
<1> SUFFICES ASSUME IInv, [Next]_vars PROVE [Promise!Next]_Promise!vars
  OBVIOUS
<1>0. /\ escrow \in Escrow
      /\ escrow.balance \in Nat /\ escrow.totalApprovedOutstanding \in Nat
      /\ escrow.totalApprovedOutstanding <= escrow.balance
      /\ \A k \in ReportKeys : escrow.rewards[k].amount \in Nat
      /\ received \in [Recipients -> Nat]
  BY ContractConstants DEF IInv, TypeOK, Sound, Covered, Escrow, Reward
<1>1. CASE Tick
  BY <1>1, QuietStep DEF Tick
<1>2. ASSUME NEW amount \in 1..MaxInflow, Deposit(amount) PROVE Promise!Next
  <2>1. /\ escrow'.balance = escrow.balance + amount
        /\ escrow'.totalApprovedOutstanding = escrow.totalApprovedOutstanding
        /\ escrow'.rewards = escrow.rewards
        /\ received' = received
    BY <1>0, <1>2 DEF Deposit, AfterDeposit, Escrow
  <2>2. /\ Pot' \in Nat /\ Pot' > Pot
    BY <1>0, <2>1, EscrowConstants DEF Pot
  <2>3. Promise!Fund
    BY <2>1, <2>2 DEF Promise!Fund, Pot, PromiseOf
  <2> QED BY <2>3 DEF Promise!Next
<1>3. CASE SyncExternalFunding
  BY <1>0, <1>3, QuietStep DEF SyncExternalFunding, AfterSync, Escrow
<1>4. ASSUME NEW c \in Callers, NEW k \in ReportKeys, NEW h \in ContentHashes,
             NEW w \in Wallets, NEW amount \in 0..MaxInflow,
             ApproveReward(c, k, h, w, amount)
      PROVE  Promise!Next
  <2>1. /\ escrow.rewards[k].status = "None"
        /\ amount \in 1..MaxReward /\ amount \in Nat
        /\ amount <= escrow.balance - escrow.totalApprovedOutstanding
    BY <1>0, <1>4, ContractConstants DEF ApproveReward, CanApprove, AvailableBalance
  <2> DEFINE r == [approvedContentHash |-> h, researcher |-> w,
                   amount |-> amount, status |-> "Approved"]
  <2>2. /\ escrow'.balance = escrow.balance
        /\ escrow'.totalApprovedOutstanding = escrow.totalApprovedOutstanding + amount
        /\ escrow'.rewards = [escrow.rewards EXCEPT ![k] = r]
        /\ received' = received
    BY <1>0, <1>4 DEF ApproveReward, AfterApprove, Escrow
  <2>3. /\ PromiseOf(escrow.rewards[k]) = [state |-> "unmade"]
        /\ PromiseOf(r) = [state |-> "open", to |-> w, amount |-> amount]
    BY <2>1 DEF PromiseOf
  <2>4. amount \in 1..Pot /\ Pot' = Pot - amount
    BY <1>0, <2>1, <2>2 DEF Pot
  <2>5. Promises' = [Promises EXCEPT ![k] = PromiseOf(r)]
    <3> HIDE DEF r
    <3>1. escrow.rewards \in [ReportKeys -> Reward]
      BY <1>0 DEF Escrow
    <3> QED BY <2>2, <3>1 DEF Promises
  <2>6. Promise!Commit(k)
    <3>1. w \in Recipients
      BY DEF Recipients
    <3> HIDE DEF r
    <3> QED BY <2>2, <2>3, <2>4, <2>5, <3>1
            DEF Promise!Commit, Promise!Unmade, Promise!Open, Pot, Promises
  <2> QED BY <2>6 DEF Promise!Next
<1>5. ASSUME NEW k \in ReportKeys, PayReward(k) PROVE Promise!Next
  <2> DEFINE w == escrow.rewards[k].researcher
             amount == escrow.rewards[k].amount
             r == [escrow.rewards[k] EXCEPT !.status = "Paid"]
  <2>1. /\ escrow.rewards[k] \in Reward
        /\ escrow.rewards[k].status = "Approved"
    BY <1>0, <1>5 DEF PayReward, CanPay, Escrow
  <2>2. /\ escrow'.balance = escrow.balance - amount
        /\ escrow'.totalApprovedOutstanding = escrow.totalApprovedOutstanding - amount
        /\ escrow'.rewards = [escrow.rewards EXCEPT ![k] = r]
        /\ received' = [received EXCEPT ![w] = @ + amount]
    BY <1>0, <1>5 DEF PayReward, AfterPay, Escrow
  <2>3. PromiseOf(escrow.rewards[k]) = [state |-> "open", to |-> w, amount |-> amount]
    BY <2>1 DEF PromiseOf
  <2>4. PromiseOf(r) = [state |-> "honoured", to |-> w, amount |-> amount]
    BY <2>1 DEF PromiseOf, Reward
  <2>5. Pot' = Pot
    BY <1>0, <2>2 DEF Pot
  <2>6. Promises' = [Promises EXCEPT ![k] = PromiseOf(r)]
    <3> HIDE DEF r
    <3>1. escrow.rewards \in [ReportKeys -> Reward]
      BY <1>0 DEF Escrow
    <3> QED BY <2>2, <3>1 DEF Promises
  <2>7. Promise!Honour(k)
    <3> HIDE DEF r, w, amount
    <3>1. /\ Promises[k].state = "open" /\ Promises[k].to = w
          /\ Promises[k].amount = amount
      BY <2>3 DEF Promises
    <3> QED BY <2>2, <2>4, <2>5, <2>6, <3>1
            DEF Promise!Honour, Promise!Honoured, Pot, Promises
  <2> QED BY <2>7 DEF Promise!Next
<1>6. ASSUME NEW c, NEW t, ExtendRefundUnlockAt(c, t) PROVE UNCHANGED Promise!vars
  BY <1>0, <1>6, QuietStep DEF ExtendRefundUnlockAt, AfterExtend, Escrow
<1>7. ASSUME NEW c, Close(c) \/ Pause(c) \/ Unpause(c) \/ Deactivate(c)
      PROVE  UNCHANGED Promise!vars
  BY <1>0, <1>7, QuietStep DEF Close, Pause, Unpause, Deactivate, AfterClose,
     AfterPause, AfterUnpause, AfterDeactivate, Escrow
<1>8. ASSUME NEW c \in Callers, NEW amount \in 0..MaxInflow,
             WithdrawRemaining(c, amount)
      PROVE  Promise!Next
  <2>1. /\ escrow.totalApprovedOutstanding = 0
        /\ amount > 0 /\ amount <= escrow.balance /\ amount \in Nat
    BY <1>8 DEF WithdrawRemaining, CanWithdraw
  <2>2. /\ escrow'.balance = escrow.balance - amount
        /\ escrow'.totalApprovedOutstanding = escrow.totalApprovedOutstanding
        /\ escrow'.rewards = escrow.rewards
        /\ received' = [received EXCEPT ![ProgramOwner] = @ + amount]
    BY <1>0, <1>8 DEF WithdrawRemaining, AfterWithdraw, Escrow
  <2>3. amount \in 1..Pot /\ Pot' = Pot - amount
    BY <1>0, <2>1, <2>2 DEF Pot
  <2>4. \A k \in ReportKeys : Promises[k].state # "open"
    <3>1. \A k \in ReportKeys : escrow.rewards[k].status # "Approved"
      BY <2>1, NothingOwedNothingApproved, EscrowConstants DEF IInv
    <3>2. \A k \in ReportKeys : escrow.rewards[k].status \in {"None", "Paid"}
      BY <1>0, <3>1 DEF Escrow, Reward, RewardStatus
    <3> QED BY <3>2 DEF Promises, PromiseOf
  <2>5. Promise!Refund
    <3>1. Promises' = Promises
      BY <2>2 DEF Promises
    <3>2. /\ Pot' = Pot - amount
          /\ received' = [received EXCEPT ![ProgramOwner] = received[ProgramOwner] + amount]
      BY <2>2, <2>3
    <3> QED BY <2>3, <2>4, <3>1, <3>2, Zenon DEF Promise!Refund, Pot, Promises
  <2> QED BY <2>5 DEF Promise!Next
<1>9. CASE UNCHANGED vars
  BY <1>9, QuietStep DEF vars
<1> QED
  BY <1>1, <1>2, <1>3, <1>4, <1>5, <1>6, <1>7, <1>8, <1>9 DEF Next

\* The contract implements the promise for every program.
THEOREM ImplementsPromiseHolds == Spec => ImplementsPromise
<1> QED BY PromiseInit, PromiseStep, IInvHolds, PTL
        DEF Spec, ImplementsPromise, Promise!Spec

-----------------------------------------------------------------------------
(***************************************************************************)
(* The registry of the platform controller, for any number of programs,    *)
(* escrows and owners.  Every step either leaves the escrows' identities   *)
(* and deactivation alone, deploys one, registers one or deactivates one.  *)
(***************************************************************************)

\* A call that keeps an escrow's identity and, where this contract is the
\* controller, its deactivation flag.
SameIdentity(e, f) ==
  /\ f.programKey = e.programKey
  /\ f.programOwner = e.programOwner
  /\ f.adminController = e.adminController
  /\ e.adminController = AdminContract => f.deactivated = e.deactivated

\* Changing one deployed escrow soundly, and not its identity, keeps the
\* invariant whoever did it.
LEMMA OneEscrowStep ==
  ASSUME RegistryInv, NEW a \in DeployedEscrows, NEW f,
         Sound(f), SameIdentity(escrows[a], f),
         escrows' = [escrows EXCEPT ![a] = f],
         UNCHANGED <<programEscrows, programDeactivated, blockTime>>
  PROVE  RegistryInv'
<1> USE DEF RegistryInv
<1>1. a \in EscrowAddresses /\ escrows[a] # NotDeployed /\ f \in Escrow /\ f # NotDeployed
  BY AdminConstants DEF DeployedEscrows, IsDeployed, Sound
<1>2. escrows'[a] = f /\ \A b \in EscrowAddresses \ {a} : escrows'[b] = escrows[b]
  BY <1>1
<1>3. escrows' \in [EscrowAddresses -> Escrow \cup {NotDeployed}]
  BY <1>1
<1>4. DeployedEscrows' = DeployedEscrows
  BY <1>1, <1>2 DEF DeployedEscrows, IsDeployed
<1>5. EscrowsSound'
  BY <1>1, <1>2, <1>4 DEF EscrowsSound, DeployedEscrows
<1>6. \A b \in DeployedEscrows : SameIdentity(escrows[b], escrows'[b])
  BY <1>1, <1>2 DEF SameIdentity, DeployedEscrows
<1>7. \A b \in DeployedEscrows' : escrows'[b].programOwner # AdminContract
  BY <1>4, <1>6 DEF SameIdentity
<1>8. RegistrySound'
  BY <1>4, <1>6 DEF RegistrySound, SameIdentity, Registered, EscrowOf
<1>9. DeactivationAgrees'
  BY <1>4, <1>6 DEF DeactivationAgrees, SameIdentity, Registered
<1> QED BY <1>3, <1>5, <1>7, <1>8, <1>9

\* Every contract call but deactivate keeps identity and deactivation.
LEMMA CallsKeepIdentity ==
  ASSUME NEW e \in Escrow, NEW n \in Nat, NEW r \in ReportKeys, NEW h, NEW w
  PROVE  /\ SameIdentity(e, AfterDeposit(e, n))
         /\ SameIdentity(e, AfterSync(e))
         /\ SameIdentity(e, AfterApprove(e, r, h, w, n))
         /\ SameIdentity(e, AfterPay(e, r))
         /\ SameIdentity(e, AfterExtend(e, n))
         /\ SameIdentity(e, AfterClose(e))
         /\ SameIdentity(e, AfterPause(e))
         /\ SameIdentity(e, AfterUnpause(e))
         /\ SameIdentity(e, AfterWithdraw(e, n))
BY DEF SameIdentity, AfterDeposit, AfterSync, AfterApprove, AfterPay, AfterExtend,
       AfterClose, AfterPause, AfterUnpause, AfterWithdraw, Escrow

\* Calls that keep identity never need more than this: the address is
\* deployed, and what it becomes is sound.
LEMMA QuietEscrowStep ==
  ASSUME RegistryInv, NEW a \in DeployedEscrows, NEW n \in Nat, NEW f,
         \/ f = AfterDeposit(escrows[a], n)
         \/ f = AfterSync(escrows[a])
         \/ f = AfterExtend(escrows[a], n)
         \/ f = AfterClose(escrows[a])
         \/ f = AfterPause(escrows[a])
         \/ f = AfterUnpause(escrows[a]),
         escrows' = [escrows EXCEPT ![a] = f],
         UNCHANGED <<programEscrows, programDeactivated, blockTime>>
  PROVE  RegistryInv'
<1>1. Sound(escrows[a]) /\ escrows[a] \in Escrow
  BY DEF RegistryInv, EscrowsSound, Sound
<1>2. Sound(f)
  BY <1>1, QuietCallsSound
<1>3. SameIdentity(escrows[a], f)
  BY <1>1 DEF SameIdentity, AfterDeposit, AfterSync, AfterExtend, AfterClose,
              AfterPause, AfterUnpause, Escrow
<1> QED BY <1>2, <1>3, OneEscrowStep

\* A registered program's escrow is deployed.
LEMMA RegisteredIsDeployed ==
  ASSUME RegistryInv, NEW k \in ProgramKeys, Registered(k)
  PROVE  programEscrows[k] \in DeployedEscrows
BY DEF RegistryInv, RegistrySound

\* Nothing is deployed, registered or deactivated at the start.
LEMMA InitRegistryInv == AdminInit => RegistryInv
<1> SUFFICES ASSUME AdminInit PROVE RegistryInv
  OBVIOUS
<1>1. DeployedEscrows = {}
  BY DEF AdminInit, DeployedEscrows, IsDeployed
<1>2. \A k \in ProgramKeys : ~Registered(k)
  BY DEF AdminInit, Registered
<1> QED BY <1>1, <1>2
        DEF AdminInit, RegistryInv, EscrowsSound, RegistrySound, DeactivationAgrees

\* Deployment adds a sound escrow that nobody has deactivated.
LEMMA DeployStep ==
  ASSUME RegistryInv, NEW a \in EscrowAddresses, NEW key \in ProgramKeys,
         NEW owner \in Owners, NEW controller \in {AdminContract, OtherController},
         NEW t \in Nat, DeployEscrow(a, key, owner, controller, t)
  PROVE  RegistryInv'
<1> USE DEF RegistryInv
<1> DEFINE d == Deployed(key, owner, controller, t)
<1>1. Sound(d)
  BY DeploySound, AdminConstants
<1>2. /\ d \in Escrow /\ d # NotDeployed /\ ~d.deactivated
      /\ d.programOwner # AdminContract
  BY <1>1, AdminConstants DEF Sound, Deployed
<1>3. /\ escrows' = [escrows EXCEPT ![a] = d]
      /\ a \notin DeployedEscrows
      /\ programEscrows' = programEscrows
      /\ programDeactivated' = programDeactivated
      /\ blockTime' = blockTime
  BY DEF DeployEscrow, DeployedEscrows, registryVars
<1> HIDE DEF d
<1>4. escrows'[a] = d /\ \A b \in DeployedEscrows : escrows'[b] = escrows[b] /\ b # a
  BY <1>3 DEF DeployedEscrows
<1>5. DeployedEscrows' = DeployedEscrows \cup {a}
  BY <1>2, <1>3, <1>4 DEF DeployedEscrows, IsDeployed
<1>6. escrows' \in [EscrowAddresses -> Escrow \cup {NotDeployed}]
  BY <1>2, <1>3
<1>7. EscrowsSound'
  BY <1>1, <1>4, <1>5 DEF EscrowsSound
<1>8. \A b \in DeployedEscrows' : escrows'[b].programOwner # AdminContract
  BY <1>2, <1>4, <1>5
<1>9. RegistrySound'
  BY <1>3, <1>4, <1>5 DEF RegistrySound, Registered, EscrowOf
<1>10. DeactivationAgrees'
  <2>1. \A k \in ProgramKeys : programEscrows[k] # a
    BY <1>3, AdminConstants DEF RegistrySound, Registered
  <2>2. d.programKey \in ProgramKeys
    BY <1>2 DEF Escrow
  <2> QED BY <1>2, <1>3, <1>4, <1>5, <2>1, <2>2 DEF DeactivationAgrees, Registered
<1> QED BY <1>3, <1>6, <1>7, <1>8, <1>9, <1>10

\* Registration takes an escrow that was never deactivated.
LEMMA RegisterStep ==
  ASSUME RegistryInv, NEW k \in ProgramKeys, NEW a \in EscrowAddresses,
         RegisterProgramEscrow(k, a)
  PROVE  RegistryInv'
<1> USE DEF RegistryInv
<1>1. /\ programEscrows[k] = NoAddress
      /\ a \in DeployedEscrows
      /\ escrows[a].programKey = k
      /\ escrows[a].adminController = AdminContract
      /\ programEscrows' = [programEscrows EXCEPT ![k] = a]
      /\ escrows' = escrows /\ programDeactivated' = programDeactivated /\ blockTime' = blockTime
  BY DEF RegisterProgramEscrow, CanRegister, DeployedEscrows
<1>2. DeployedEscrows' = DeployedEscrows /\ EscrowsSound'
  BY <1>1 DEF DeployedEscrows, IsDeployed, EscrowsSound
<1>3. programEscrows' \in [ProgramKeys -> EscrowAddresses \cup {NoAddress}]
  BY <1>1
<1>4. RegistrySound'
  BY <1>1, <1>2, AdminConstants DEF RegistrySound, Registered, EscrowOf
<1>5. DeactivationAgrees'
  <2>0. \A j \in ProgramKeys : programDeactivated[j] => programEscrows'[j] # NoAddress
    BY <1>1, AdminConstants DEF DeactivationAgrees, Registered
  <2> SUFFICES ASSUME NEW b \in DeployedEscrows, escrows[b].adminController = AdminContract
               PROVE  escrows[b].deactivated <=>
                        /\ programEscrows'[escrows[b].programKey] = b
                        /\ programDeactivated[escrows[b].programKey]
    BY <1>1, <1>2, <2>0 DEF DeactivationAgrees, Registered
  <2>1. b \in EscrowAddresses /\ escrows[b].programKey \in ProgramKeys
    BY DEF DeployedEscrows, IsDeployed, Escrow
  <2>2. CASE escrows[b].programKey # k
    BY <1>1, <2>1, <2>2 DEF DeactivationAgrees
  <2>3. CASE escrows[b].programKey = k
    <3>1. ~escrows[b].deactivated
      BY <1>1, <2>1, <2>3, AdminConstants DEF DeactivationAgrees
    <3>2. ~programDeactivated[k]
      BY <1>1 DEF DeactivationAgrees, Registered
    <3> QED BY <2>3, <3>1, <3>2
  <2> QED BY <2>2, <2>3
<1> QED BY <1>1, <1>2, <1>3, <1>4, <1>5

\* Deactivation marks the escrow and the registry in one transaction.
LEMMA DeactivateStep ==
  ASSUME RegistryInv, NEW k \in ProgramKeys, DeactivateProgram(k)
  PROVE  RegistryInv'
<1> USE DEF RegistryInv
<1> DEFINE a == programEscrows[k]
           f == AfterDeactivate(escrows[a])
<1>1. /\ a \in DeployedEscrows /\ escrows[a].programKey = k
      /\ escrows[a].adminController = AdminContract
      /\ escrows' = [escrows EXCEPT ![a] = f]
      /\ programDeactivated' = [programDeactivated EXCEPT ![k] = TRUE]
      /\ programEscrows' = programEscrows /\ blockTime' = blockTime
  BY DEF DeactivateProgram, RegistrySound, EscrowOf
<1>2. escrows[a] \in Escrow /\ Sound(escrows[a]) /\ a \in EscrowAddresses
  BY <1>1 DEF EscrowsSound, Sound, DeployedEscrows
<1>3. Sound(f) /\ f \in Escrow /\ f # NotDeployed
  BY <1>2, QuietCallsSound, AdminConstants DEF Sound
<1>4. /\ f.programKey = k /\ f.programOwner = escrows[a].programOwner
      /\ f.adminController = AdminContract /\ f.deactivated
  BY <1>1, <1>2 DEF AfterDeactivate, Escrow
<1> HIDE DEF f
<1>5. escrows'[a] = f /\ \A b \in EscrowAddresses \ {a} : escrows'[b] = escrows[b]
  BY <1>1, <1>2
<1>6. DeployedEscrows' = DeployedEscrows
  BY <1>1, <1>3, <1>5 DEF DeployedEscrows, IsDeployed
<1>7. escrows' \in [EscrowAddresses -> Escrow \cup {NotDeployed}]
  BY <1>1, <1>3
<1>8. EscrowsSound'
  BY <1>3, <1>5, <1>6 DEF EscrowsSound, DeployedEscrows
<1>9. \A b \in DeployedEscrows' : escrows'[b].programOwner # AdminContract
  BY <1>1, <1>4, <1>5, <1>6 DEF DeployedEscrows
<1>10. RegistrySound'
  <2> SUFFICES ASSUME NEW j \in ProgramKeys, programEscrows[j] # NoAddress
               PROVE  /\ programEscrows[j] \in DeployedEscrows
                      /\ escrows'[programEscrows[j]].programKey = j
                      /\ escrows'[programEscrows[j]].adminController = AdminContract
    BY <1>1, <1>6 DEF RegistrySound, Registered, EscrowOf
  <2>1. /\ programEscrows[j] \in DeployedEscrows
        /\ escrows[programEscrows[j]].programKey = j
        /\ escrows[programEscrows[j]].adminController = AdminContract
    BY DEF RegistrySound, Registered, EscrowOf
  <2> QED BY <1>1, <1>4, <1>5, <2>1 DEF DeployedEscrows
<1>11. DeactivationAgrees'
  <2>1. \A j \in ProgramKeys : programDeactivated'[j] => programEscrows'[j] # NoAddress
    BY <1>1, AdminConstants DEF DeactivationAgrees, Registered, DeployedEscrows
  <2>2. ASSUME NEW b \in DeployedEscrows, escrows'[b].adminController = AdminContract
        PROVE  escrows'[b].deactivated <=>
                 /\ programEscrows[escrows'[b].programKey] = b
                 /\ programDeactivated'[escrows'[b].programKey]
    <3>1. CASE b = a
      BY <1>1, <1>4, <1>5, <3>1
    <3>2. CASE b # a
      <4>1. escrows'[b] = escrows[b] /\ escrows[b].programKey \in ProgramKeys
        BY <1>5, <3>2 DEF DeployedEscrows, IsDeployed, Escrow
      <4>2. CASE escrows[b].programKey = k
        BY <1>1, <2>2, <3>2, <4>1, <4>2 DEF DeactivationAgrees
      <4>3. CASE escrows[b].programKey # k
        BY <1>1, <2>2, <4>1, <4>3 DEF DeactivationAgrees
      <4> QED BY <4>2, <4>3
    <3> QED BY <3>1, <3>2
  <2> QED BY <1>1, <1>6, <2>1, <2>2 DEF DeactivationAgrees, Registered
<1> QED BY <1>1, <1>7, <1>8, <1>9, <1>10, <1>11

\* An approval, by the controller or the owner, keeps the invariant.
LEMMA ApproveStep ==
  ASSUME RegistryInv, NEW a \in DeployedEscrows, NEW caller, NEW r \in ReportKeys,
         NEW h \in ContentHashes, NEW w \in Wallets, NEW n \in Nat,
         CanApprove(escrows[a], caller, r, n),
         escrows' = [escrows EXCEPT ![a] = AfterApprove(escrows[a], r, h, w, n)],
         UNCHANGED <<programEscrows, programDeactivated, blockTime>>
  PROVE  RegistryInv'
<1>1. Sound(escrows[a]) /\ escrows[a] \in Escrow
  BY DEF RegistryInv, EscrowsSound, Sound
<1>2. Sound(AfterApprove(escrows[a], r, h, w, n))
  BY <1>1, ApproveSound, AdminConstants
<1>3. SameIdentity(escrows[a], AfterApprove(escrows[a], r, h, w, n))
  BY <1>1, CallsKeepIdentity
<1> QED BY <1>2, <1>3, OneEscrowStep

\* Whatever an owner or another controller sends to a deployed escrow.
LEMMA DirectStep ==
  ASSUME RegistryInv, NEW a \in DeployedEscrows,
         NEW caller \in Owners \cup {OtherController}, DirectCall(a, caller)
  PROVE  RegistryInv'
<1> DEFINE e == escrows[a]
<1>0. /\ Sound(e) /\ e \in Escrow /\ blockTime \in Nat /\ caller # AdminContract
      /\ UNCHANGED <<programEscrows, programDeactivated, blockTime>>
  BY AdminConstants DEF RegistryInv, EscrowsSound, Sound, DirectCall, registryVars
<1>1. CASE \E f \in {AfterPause(e), AfterUnpause(e), AfterClose(e)} :
             escrows' = [escrows EXCEPT ![a] = f]
  BY <1>0, <1>1, QuietEscrowStep
<1>2. CASE CanDeactivate(e, caller) /\ escrows' = [escrows EXCEPT ![a] = AfterDeactivate(e)]
  <2>1. Sound(AfterDeactivate(e))
    BY <1>0, QuietCallsSound
  <2>2. SameIdentity(e, AfterDeactivate(e))
    BY <1>0, <1>2 DEF SameIdentity, CanDeactivate, AfterDeactivate, Escrow
  <2> QED BY <1>0, <1>2, <2>1, <2>2, OneEscrowStep
<1>3. ASSUME NEW t \in 0..MaxBlockTime, escrows' = [escrows EXCEPT ![a] = AfterExtend(e, t)]
      PROVE  RegistryInv'
  <2>1. t \in Nat
    OBVIOUS
  <2> QED BY <1>0, <1>3, <2>1, QuietEscrowStep
<1>4. ASSUME NEW r \in ReportKeys, NEW h \in ContentHashes, NEW w \in Wallets,
             NEW n \in 1..MaxDeposit, CanApprove(e, caller, r, n),
             escrows' = [escrows EXCEPT ![a] = AfterApprove(e, r, h, w, n)]
      PROVE  RegistryInv'
  <2>1. n \in Nat
    OBVIOUS
  <2> QED BY <1>0, <1>4, <2>1, ApproveStep
<1>5. ASSUME NEW n \in 1..MaxDeposit, CanWithdraw(e, caller, blockTime, n),
             escrows' = [escrows EXCEPT ![a] = AfterWithdraw(e, n)]
      PROVE  RegistryInv'
  <2>1. Sound(AfterWithdraw(e, n))
    BY <1>0, <1>5, WithdrawSound
  <2>2. SameIdentity(e, AfterWithdraw(e, n))
    BY <1>0 DEF SameIdentity, AfterWithdraw, Escrow
  <2> QED BY <1>0, <1>5, <2>1, <2>2, OneEscrowStep
<1> QED
  BY <1>1, <1>2, <1>3, <1>4, <1>5 DEF DirectCall

\* Whatever a third party sends to a deployed escrow.
LEMMA AnyoneStep ==
  ASSUME RegistryInv, NEW a \in DeployedEscrows, AnyoneCall(a)
  PROVE  RegistryInv'
<1> DEFINE e == escrows[a]
<1>0. /\ Sound(e) /\ e \in Escrow
      /\ UNCHANGED <<programEscrows, programDeactivated, blockTime>>
  BY DEF RegistryInv, EscrowsSound, Sound, AnyoneCall, registryVars
<1>1. CASE escrows' = [escrows EXCEPT ![a] = AfterSync(e)]
  BY <1>0, <1>1, QuietEscrowStep
<1>2. ASSUME NEW r \in ReportKeys, CanPay(e, r),
             escrows' = [escrows EXCEPT ![a] = AfterPay(e, r)]
      PROVE  RegistryInv'
  <2>1. Sound(AfterPay(e, r))
    BY <1>0, <1>2, PaySound, AdminConstants
  <2>2. SameIdentity(e, AfterPay(e, r))
    BY <1>0 DEF SameIdentity, AfterPay, Escrow
  <2> QED BY <1>0, <1>2, <2>1, <2>2, OneEscrowStep
<1> QED BY <1>1, <1>2 DEF AnyoneCall

\* A step that leaves escrows and registry alone.
LEMMA IdleStep ==
  ASSUME RegistryInv, UNCHANGED <<escrows, programEscrows, programDeactivated>>, blockTime' \in Nat
  PROVE  RegistryInv'
BY DEF RegistryInv, EscrowsSound, DeployedEscrows, IsDeployed, RegistrySound,
       DeactivationAgrees, Registered, EscrowOf

\* Every step keeps the invariant.
LEMMA NextRegistryInv == RegistryInv /\ [AdminNext]_adminVars => RegistryInv'
<1> SUFFICES ASSUME RegistryInv, [AdminNext]_adminVars PROVE RegistryInv'
  OBVIOUS
<1>0. blockTime \in Nat
  BY DEF RegistryInv
<1>1. ASSUME NEW k \in ProgramKeys, PayProgramFee(k) PROVE RegistryInv'
  BY <1>0, <1>1, IdleStep DEF PayProgramFee
<1>2. ASSUME NEW k \in ProgramKeys, DeactivateProgram(k) PROVE RegistryInv'
  BY <1>2, DeactivateStep
<1>3. ASSUME NEW k \in ProgramKeys,
             PauseProgram(k) \/ UnpauseProgram(k) \/ CloseProgram(k)
      PROVE  RegistryInv'
  <2>1. programEscrows[k] \in DeployedEscrows
    BY <1>3, RegisteredIsDeployed DEF PauseProgram, UnpauseProgram, CloseProgram
  <2> QED BY <1>3, <2>1, QuietEscrowStep
          DEF PauseProgram, UnpauseProgram, CloseProgram, registryVars
<1>4. ASSUME NEW k \in ProgramKeys, NEW a \in EscrowAddresses, RegisterProgramEscrow(k, a)
      PROVE  RegistryInv'
  BY <1>4, RegisterStep
<1>5. ASSUME NEW k \in ProgramKeys, NEW t \in 0..MaxBlockTime, ExtendProgramTimeline(k, t)
      PROVE  RegistryInv'
  <2>1. programEscrows[k] \in DeployedEscrows
    BY <1>5, RegisteredIsDeployed DEF ExtendProgramTimeline
  <2>2. /\ t \in Nat
        /\ escrows' = [escrows EXCEPT ![programEscrows[k]] =
                                    AfterExtend(escrows[programEscrows[k]], t)]
        /\ UNCHANGED <<programEscrows, programDeactivated, blockTime>>
    BY <1>5 DEF ExtendProgramTimeline, registryVars
  <2> QED BY <2>1, <2>2, QuietEscrowStep
<1>6. ASSUME NEW k \in ProgramKeys, NEW r \in ReportKeys, NEW h \in ContentHashes,
             NEW w \in Wallets, NEW n \in 0..MaxDeposit, ApproveProgramReward(k, r, h, w, n)
      PROVE  RegistryInv'
  <2>1. programEscrows[k] \in DeployedEscrows
    BY <1>6, RegisteredIsDeployed DEF ApproveProgramReward
  <2>2. /\ n \in Nat
        /\ CanApprove(escrows[programEscrows[k]], AdminContract, r, n)
        /\ escrows' = [escrows EXCEPT ![programEscrows[k]] =
                         AfterApprove(escrows[programEscrows[k]], r, h, w, n)]
        /\ UNCHANGED <<programEscrows, programDeactivated, blockTime>>
    BY <1>6 DEF ApproveProgramReward, registryVars, EscrowOf
  <2> QED BY <2>1, <2>2, ApproveStep
<1>7. ASSUME NEW n, WithdrawPlatformFees(n) \/ SetProgramFeeAmount(n) \/ DonateToAdmin(n)
      PROVE  RegistryInv'
  BY <1>0, <1>7, IdleStep
     DEF WithdrawPlatformFees, SetProgramFeeAmount, DonateToAdmin, registryVars
<1>8. ASSUME NEW a \in EscrowAddresses, NEW key \in ProgramKeys, NEW owner \in Owners,
             NEW controller \in {AdminContract, OtherController}, NEW t \in 0..MaxBlockTime,
             DeployEscrow(a, key, owner, controller, t)
      PROVE  RegistryInv'
  BY <1>8, DeployStep
<1>9. ASSUME NEW a \in DeployedEscrows, NEW n \in 1..MaxDeposit, DepositTo(a, n)
      PROVE  RegistryInv'
  <2>1. /\ n \in Nat
        /\ escrows' = [escrows EXCEPT ![a] = AfterDeposit(escrows[a], n)]
        /\ UNCHANGED <<programEscrows, programDeactivated, blockTime>>
    BY <1>9 DEF DepositTo, registryVars
  <2> QED BY <2>1, QuietEscrowStep
<1>10. ASSUME NEW a \in DeployedEscrows, NEW caller \in Owners \cup {OtherController},
              DirectCall(a, caller)
       PROVE  RegistryInv'
  BY <1>10, DirectStep
<1>11. ASSUME NEW a \in DeployedEscrows, AnyoneCall(a) PROVE RegistryInv'
  BY <1>11, AnyoneStep
<1>12. CASE TimePasses
  BY <1>0, <1>12, IdleStep DEF TimePasses, registryVars
<1>13. CASE UNCHANGED adminVars
  BY <1>0, <1>13, IdleStep DEF adminVars, registryVars
<1> QED
  BY <1>1, <1>2, <1>3, <1>4, <1>5, <1>6, <1>7, <1>8, <1>9, <1>10, <1>11, <1>12, <1>13
  DEF AdminNext

\* The registry invariant holds in every reachable state.
THEOREM RegistryInvHolds == AdminSpec => []RegistryInv
<1> QED BY InitRegistryInv, NextRegistryInv, PTL DEF AdminSpec

\* A registered escrow is always deployed, for its own program, and under
\* this contract's control.
THEOREM RegistrySoundHolds == AdminSpec => []RegistrySound
<1>1. RegistryInv => RegistrySound
  BY DEF RegistryInv
<1> QED BY <1>1, RegistryInvHolds, PTL

\* The registry's deactivation flag and the escrow's own flag always agree.
THEOREM DeactivationAgreesHolds == AdminSpec => []DeactivationAgrees
<1>1. RegistryInv => DeactivationAgrees
  BY DEF RegistryInv
<1> QED BY <1>1, RegistryInvHolds, PTL

\* However the controller, owners and third parties interleave, every
\* escrow stays solvent with true counters.
THEOREM EscrowsSoundHolds == AdminSpec => []EscrowsSound
<1>1. RegistryInv => EscrowsSound
  BY DEF RegistryInv
<1> QED BY <1>1, RegistryInvHolds, PTL

\* What the controller keeps about fees has its type and adds up.
FeesKept ==
  /\ programFeePaid \in [ProgramKeys -> BOOLEAN]
  /\ programFeeAmount \in FeeAmounts
  /\ balance \in Nat
  /\ charged \in [ProgramKeys -> Nat]
  /\ donated \in Nat
  /\ feesWithdrawn \in Nat
  /\ FeesAccounted

\* No fee was paid at first.
LEMMA InitFeesKept == AdminInit => FeesKept
<1> SUFFICES ASSUME AdminInit PROVE FeesKept
  OBVIOUS
<1>1. /\ UNION {{k} \X (1..charged[k]) : k \in ProgramKeys} = {}
      /\ Cardinality({}) = 0
  BY FS_EmptySet DEF AdminInit
<1>2. UnitSum(charged, ProgramKeys) = 0
  BY <1>1 DEF UnitSum
<1> QED
  BY <1>2, AdminConstants DEF AdminInit, FeesKept, FeesAccounted

\* A program pays the fee of the moment, and only if it has paid none.
LEMMA PayFeeKeeps ==
  ASSUME FeesKept, NEW k \in ProgramKeys, PayProgramFee(k)
  PROVE  FeesKept'
<1> USE DEF FeesKept, FeesAccounted
<1>1. /\ ~programFeePaid[k] /\ charged[k] = 0 /\ programFeeAmount \in Nat
      /\ programFeePaid' = [programFeePaid EXCEPT ![k] = TRUE]
      /\ charged' = [charged EXCEPT ![k] = charged[k] + programFeeAmount]
      /\ balance' = balance + programFeeAmount
      /\ UNCHANGED <<programFeeAmount, donated, feesWithdrawn>>
  BY AdminConstants DEF PayProgramFee
<1>2. /\ charged' \in [ProgramKeys -> Nat] /\ charged'[k] = programFeeAmount
      /\ \A j \in ProgramKeys \ {k} : charged'[j] = charged[j]
  BY <1>1
<1>3. IsFiniteSet(ProgramKeys) /\ \A j \in ProgramKeys : charged[j] \in Nat
  BY AdminConstants
<1>4. UnitSum(charged', ProgramKeys) = UnitSum(charged, ProgramKeys) + programFeeAmount
  <2>1. programFeeAmount \in Nat /\ charged[k] = 0
    BY <1>1
  <2>2. charged'[k] = programFeeAmount
    BY <1>2
  <2>3. \A j \in ProgramKeys \ {k} : charged'[j] = charged[j]
    BY <1>2
  <2> HIDE DEF FeesKept, FeesAccounted
  <2> QED BY ONLY <1>3, <2>1, <2>2, <2>3, k \in ProgramKeys, UnitsAdded
<1>5. UnitSum(charged, ProgramKeys) \in Nat
  BY <1>3, UnitsFinite
<1>6. \A j \in ProgramKeys :
        charged'[j] \in (IF programFeePaid'[j] THEN FeeAmounts ELSE {0})
  BY <1>1, <1>2
<1> QED
  BY <1>1, <1>2, <1>4, <1>5, <1>6

\* Every step of the controller, the owners and third parties.
LEMMA NextFeesKept == FeesKept /\ [AdminNext]_adminVars => FeesKept'
<1> SUFFICES ASSUME FeesKept, [AdminNext]_adminVars PROVE FeesKept'
  OBVIOUS
<1>0. UnitSum(charged, ProgramKeys) \in Nat
  BY AdminConstants, UnitsFinite DEF FeesKept
<1>1. ASSUME UNCHANGED <<programFeePaid, programFeeAmount, feeVars>> PROVE FeesKept'
  BY <1>1 DEF FeesKept, FeesAccounted, feeVars
<1>2. ASSUME NEW k \in ProgramKeys, PayProgramFee(k) PROVE FeesKept'
  BY <1>2, PayFeeKeeps
<1>3. ASSUME NEW amount \in 1..MaxFees, WithdrawPlatformFees(amount) PROVE FeesKept'
  <2>1. /\ balance' \in Nat /\ feesWithdrawn' \in Nat
        /\ balance' + feesWithdrawn' = balance + feesWithdrawn
        /\ UNCHANGED <<programFeePaid, programFeeAmount, charged, donated>>
    BY <1>3, AdminConstants DEF WithdrawPlatformFees, FeesKept, registryVars
  <2> QED BY <2>1 DEF FeesKept, FeesAccounted
<1>4. ASSUME NEW amount \in FeeAmounts \cup {0}, SetProgramFeeAmount(amount) PROVE FeesKept'
  BY <1>4 DEF SetProgramFeeAmount, FeesKept, FeesAccounted, feeVars
<1>5. ASSUME NEW amount \in 1..MaxFees, DonateToAdmin(amount) PROVE FeesKept'
  <2>1. /\ balance' \in Nat /\ donated' \in Nat
        /\ balance' = balance + amount /\ donated' = donated + amount
        /\ UNCHANGED <<programFeePaid, programFeeAmount, charged, feesWithdrawn>>
    BY <1>5, AdminConstants DEF DonateToAdmin, FeesKept, registryVars
  <2> QED BY <1>0, <2>1, AdminConstants DEF FeesKept, FeesAccounted
<1>6. ASSUME NEW k \in ProgramKeys,
             \/ \E a \in EscrowAddresses : RegisterProgramEscrow(k, a)
             \/ DeactivateProgram(k) \/ PauseProgram(k) \/ UnpauseProgram(k) \/ CloseProgram(k)
             \/ \E t \in 0..MaxBlockTime : ExtendProgramTimeline(k, t)
      PROVE  UNCHANGED <<programFeePaid, programFeeAmount, feeVars>>
  BY <1>6 DEF RegisterProgramEscrow, DeactivateProgram, PauseProgram, UnpauseProgram,
              CloseProgram, ExtendProgramTimeline, registryVars
<1> QED
  BY <1>1, <1>2, <1>3, <1>4, <1>5, <1>6
  DEF AdminNext, ApproveProgramReward, DeployEscrow, DepositTo, DirectCall, AnyoneCall,
      TimePasses, adminVars, registryVars

\* FeesAccounted: the controller holds the fees programs paid, each once at
\* the price of its day, plus donations, less what was withdrawn.
THEOREM FeesAccountedHolds == AdminSpec => []FeesAccounted
<1>1. FeesKept => FeesAccounted
  BY DEF FeesKept
<1> QED BY <1>1, InitFeesKept, NextFeesKept, PTL DEF AdminSpec

\* AdminTypeOK: the type invariant of the controller and its escrows.
THEOREM AdminTypeOKHolds == AdminSpec => []AdminTypeOK
<1>1. FeesKept /\ RegistryInv => AdminTypeOK
  BY DEF FeesKept, RegistryInv, AdminTypeOK
<1>2. AdminSpec => []FeesKept
  BY InitFeesKept, NextFeesKept, PTL DEF AdminSpec
<1> QED BY <1>1, <1>2, RegistryInvHolds, PTL
=============================================================================
