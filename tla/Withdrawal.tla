----------------------------- MODULE Withdrawal -----------------------------
(***************************************************************************)
(* The end of a program: the owner takes what is left in the escrow.  The  *)
(* API keeps one withdrawal intent at a time, with the amount it read from *)
(* the chain; the owner's browser asks the wallet for close and            *)
(* withdrawRemaining transactions and reports their hashes; reconcile      *)
(* requests verify the receipts and record what was withdrawn.  Meanwhile  *)
(*                                                                         *)
(*   - deposits arrive that no sync and no intent has counted;             *)
(*   - rewards of the program are still reserved, approved, paid and       *)
(*     recorded (one unit each; RewardSettlement has their operations);    *)
(*   - the platform's controller closes the escrow, and either party       *)
(*     extends its refund lock;                                            *)
(*   - wallets answer late, or never, and prompts of two tabs cross.       *)
(*                                                                         *)
(* The contract is EscrowContract's.  A transaction hash is the index of   *)
(* the transaction in `sent', an intent's id is its index in `intents'.    *)
(***************************************************************************)
EXTENDS EscrowContract, Sequences

CONSTANTS
  Owner, Controller, ProgramKey, ContentHash, PayoutWallet,
  Pool,         \* USDC the program was funded with, synced and credited
  Creators,     \* creation requests in flight at once
  Reconcilers,  \* reconcile requests in flight at once
  Tabs,         \* browser tabs of the owner
  MaxDeposits,  \* bound: units deposited after funding
  MaxIntents,   \* bound: withdrawal_intents
  MaxSent,      \* bound: transactions the owner sends
  MaxUnheard,   \* bound: wallet calls that send without answering
  MaxTime       \* bound: block.timestamp

ASSUME WithdrawalConstants ==
  /\ {Owner, Controller} \subseteq Accounts
  /\ ProgramKey \in ProgramKeys
  /\ ContentHash \in ContentHashes
  /\ PayoutWallet \in Wallets
  /\ {Pool, MaxDeposits, MaxIntents, MaxSent, MaxUnheard} \subseteq Nat
  /\ MaxTime \in Nat \ {0}
  /\ MaxReward > 0
  /\ IsFiniteSet(ReportKeys)

Requests == Creators \cup Reconcilers

VARIABLES
  escrow,     \* the contract
  now,        \* block.timestamp
  sent,       \* the owner's transactions to the escrow
  pool,       \* programs: total_pool, paid_pool, withdrawn_pool
  settled,    \* rewards: their stage in the database and the block that paid them
  intents,    \* withdrawal_intents
  pending,    \* hashes the browser holds until the API has recorded them
  tabs,       \* wallet prompts open
  unheard,    \* wallet calls sent without an answer so far
  requests    \* creation and reconcile requests

chain == <<escrow, now, sent, settled>>
database == <<pool, intents>>
vars == <<chain, database, pending, tabs, unheard, requests>>

-----------------------------------------------------------------------------
(* Rows and what is computed from them.                                    *)

Ops == {"close", "withdraw"}

NoHashes == [op \in Ops |-> 0]

Final == {"complete", "failed"}

ReadyTo(op) == IF op = "close" THEN "ready_to_close" ELSE "ready_to_withdraw"

Uncertain(op) ==
  IF op = "close" THEN "close_submission_uncertain" ELSE "withdraw_submission_uncertain"

Submitted(op) == IF op = "close" THEN "close_submitted" ELSE "withdraw_submitted"

NewIntent(amount, before, closed, replaces) ==
  [amount |-> amount, before |-> before, closeRequired |-> ~closed,
   status |-> IF closed THEN "ready_to_withdraw" ELSE "ready_to_close",
   hash |-> NoHashes, closeVerified |-> FALSE,
   replaces |-> replaces, replacedBy |-> 0]

NoReceipt == [funded |-> 0, balance |-> 0, paid |-> 0, withdrawn |-> 0, outstanding |-> 0]

Accounting(e) ==
  [funded |-> e.totalFunded, balance |-> e.balance, paid |-> e.totalPaid,
   withdrawn |-> e.totalWithdrawn, outstanding |-> e.totalApprovedOutstanding]

NoPrompt == [intent |-> 0, op |-> "close"]

IdleRequest ==
  [does |-> "nothing", intent |-> 0, balance |-> 0, before |-> 0, closed |-> FALSE]

Init ==
  /\ escrow = [Deployed(ProgramKey, Owner, Controller, 1) EXCEPT
                 !.balance = Pool, !.totalFunded = Pool]
  /\ now = 1
  /\ sent = <<>>
  /\ pool = [total |-> Pool, paid |-> 0, withdrawn |-> 0]
  /\ settled = [k \in ReportKeys |-> [stage |-> "none", receipt |-> NoReceipt]]
  /\ intents = <<>>
  /\ pending = [i \in 1..MaxIntents |-> NoHashes]
  /\ tabs = [t \in Tabs |-> NoPrompt]
  /\ unheard = 0
  /\ requests = [q \in Requests |-> IdleRequest]

Reserved == {k \in ReportKeys : settled[k].stage = "reserved"}

Available == pool.total - pool.paid - pool.withdrawn - Cardinality(Reserved)

SetIntent(i, row) == intents' = [intents EXCEPT ![i] = row]

SetRequest(q, r) == requests' = [requests EXCEPT ![q] = r]

-----------------------------------------------------------------------------
(* The chain.                                                              *)

Deposit ==
  /\ ObservedLifetimeInflow(escrow) < Pool + MaxDeposits
  /\ escrow' = AfterDeposit(escrow, 1)
  /\ UNCHANGED <<now, sent, settled, database, pending, tabs, unheard, requests>>

SyncExternalFunding ==
  /\ CanSync(escrow)
  /\ escrow' = AfterSync(escrow)
  /\ UNCHANGED <<now, sent, settled, database, pending, tabs, unheard, requests>>

Tick ==
  /\ now < MaxTime
  /\ now' = now + 1
  /\ UNCHANGED <<escrow, sent, settled, database, pending, tabs, unheard, requests>>

ExtendRefundUnlockAt ==
  /\ CanExtend(escrow, Owner, escrow.refundUnlockAt + 1)
  /\ escrow.refundUnlockAt < MaxTime
  /\ escrow' = AfterExtend(escrow, escrow.refundUnlockAt + 1)
  /\ UNCHANGED <<now, sent, settled, database, pending, tabs, unheard, requests>>

ControllerCloses ==
  /\ CanClose(escrow, Controller, now)
  /\ escrow' = AfterClose(escrow)
  /\ UNCHANGED <<now, sent, settled, database, pending, tabs, unheard, requests>>

Succeeds(tx) ==
  IF tx.op = "close" THEN CanClose(escrow, Owner, now)
  ELSE CanWithdraw(escrow, Owner, now, tx.amount)

Mine(n) ==
  /\ sent[n].outcome = "pending"
  /\ sent' = [sent EXCEPT ![n].outcome = IF Succeeds(sent[n]) THEN "success" ELSE "reverted"]
  /\ escrow' = IF ~Succeeds(sent[n]) THEN escrow
               ELSE IF sent[n].op = "close" THEN AfterClose(escrow)
               ELSE AfterWithdraw(escrow, sent[n].amount)
  /\ UNCHANGED <<now, settled, database, pending, tabs, unheard, requests>>

-----------------------------------------------------------------------------
(* Rewards.                                                                *)

Stage(k, stage, receipt) ==
  settled' = [settled EXCEPT ![k] = [stage |-> stage, receipt |-> receipt]]

\* create_reward_settlement_intent_atomic looks at the pool, not at withdrawals.
ReserveReward(k) ==
  /\ settled[k].stage = "none"
  /\ Available > 0
  /\ Stage(k, "reserved", NoReceipt)
  /\ UNCHANGED <<escrow, now, sent, database, pending, tabs, unheard, requests>>

\* A cancellation that does not look at the chain.
CancelRewardApproved(k) ==
  /\ settled[k].stage = "reserved"
  /\ Stage(k, "none", NoReceipt)
  /\ UNCHANGED <<escrow, now, sent, database, pending, tabs, unheard, requests>>

CancelReward(k) ==
  /\ settled[k].stage = "reserved"
  /\ escrow.rewards[k].status = "None"
  /\ Stage(k, "none", NoReceipt)
  /\ UNCHANGED <<escrow, now, sent, database, pending, tabs, unheard, requests>>

ApproveReward(k) ==
  /\ settled[k].stage = "reserved"
  /\ CanApprove(escrow, Owner, k, 1)
  /\ escrow' = AfterApprove(escrow, k, ContentHash, PayoutWallet, 1)
  /\ UNCHANGED <<now, sent, settled, database, pending, tabs, unheard, requests>>

\* The snapshot verifyRewardPayout reads at the receipt's block.
PayReward(k) ==
  /\ CanPay(escrow, k)
  /\ escrow' = AfterPay(escrow, k)
  /\ Stage(k, settled[k].stage, Accounting(escrow'))
  /\ UNCHANGED <<now, sent, database, pending, tabs, unheard, requests>>

\* verifyRewardPayout's conservation check, and the comparison of
\* confirm_reward_payout_with_accounting_atomic with the program's row.
Confirmable(receipt) ==
  /\ receipt.funded = receipt.balance + receipt.paid + receipt.withdrawn
  /\ receipt.paid >= pool.paid + 1
  /\ receipt.paid + receipt.outstanding = pool.paid + Cardinality(Reserved)
  /\ receipt.funded = pool.total
  /\ receipt.withdrawn = pool.withdrawn

RecordPayout(k) ==
  /\ settled[k].stage = "reserved"
  /\ escrow.rewards[k].status = "Paid"
  /\ Confirmable(settled[k].receipt)
  /\ Stage(k, "paid", settled[k].receipt)
  /\ pool' = [pool EXCEPT !.paid = @ + 1]
  /\ UNCHANGED <<escrow, now, sent, intents, pending, tabs, unheard, requests>>

-----------------------------------------------------------------------------
(* Creating an intent.                                                     *)

Replaceable(i) ==
  /\ intents[i].status = "failed"
  /\ intents[i].hash.close # 0 \/ intents[i].hash.withdraw # 0

\* prepareWithdrawalCreation credits every deposit the scan finds, before any
\* of the checks that follow.
StartCreate(q, failed) ==
  /\ q \in Creators
  /\ requests[q].does = "nothing"
  /\ Len(intents) < MaxIntents
  /\ failed # 0 => Replaceable(failed)
  /\ pool' = [pool EXCEPT !.total = ObservedLifetimeInflow(escrow)]
  /\ SetRequest(q, [IdleRequest EXCEPT !.does = "read", !.intent = failed])
  /\ UNCHANGED <<chain, intents, pending, tabs, unheard>>

\* getWithdrawalState's reads are separate calls: the balance may be later.
ReadCounters(q) ==
  /\ requests[q].does = "read"
  /\ SetRequest(q, IF escrow.refundUnlockAt > now \/ escrow.totalApprovedOutstanding # 0
                   THEN IdleRequest
                   ELSE [requests[q] EXCEPT !.does = "balance", !.closed = escrow.closed,
                                            !.before = escrow.totalWithdrawn])
  /\ UNCHANGED <<chain, database, pending, tabs, unheard>>

ReadBalance(q) ==
  /\ requests[q].does = "balance"
  /\ SetRequest(q, IF escrow.balance = 0 THEN IdleRequest
                   ELSE [requests[q] EXCEPT !.does = "create", !.balance = escrow.balance])
  /\ UNCHANGED <<chain, database, pending, tabs, unheard>>

Active == {i \in DOMAIN intents : intents[i].status \notin Final}

Unreplaced == {i \in DOMAIN intents : intents[i].status = "failed" /\ intents[i].replacedBy = 0}

\* Without the trigger that demands linked replacements.
CanCreateUnlinked(amount, failed) ==
  /\ Reserved = {}
  /\ amount > 0 /\ amount = Available
  /\ Active = {}
  /\ failed # 0 => failed \in Unreplaced

CanCreate(amount, failed) ==
  /\ Reserved = {}
  /\ amount > 0 /\ amount = Available
  /\ Active = {}
  /\ IF failed = 0 THEN Unreplaced = {} ELSE failed \in Unreplaced

CreateIntent(q) ==
  LET r == requests[q]
      row == NewIntent(r.balance, r.before, r.closed, r.intent) IN
  /\ r.does = "create"
  /\ SetRequest(q, IdleRequest)
  /\ IF CanCreate(r.balance, r.intent)
     THEN /\ Len(intents) < MaxIntents
          /\ intents' =
               IF r.intent = 0 THEN Append(intents, row)
               ELSE Append([intents EXCEPT ![r.intent].replacedBy = Len(intents) + 1], row)
     ELSE UNCHANGED intents
  /\ UNCHANGED <<chain, pool, pending, tabs, unheard>>

-----------------------------------------------------------------------------
(* The owner's browser.                                                    *)

Held(i, op) == pending[i][op]

\* withdrawalContinuationAction: sign_close, sign_withdraw.
PromptWallet(t, i, op) ==
  /\ tabs[t] = NoPrompt
  /\ intents[i].status = ReadyTo(op)
  /\ Held(i, "close") = 0 /\ Held(i, "withdraw") = 0
  /\ tabs' = [tabs EXCEPT ![t] = [intent |-> i, op |-> op]]
  /\ UNCHANGED <<chain, database, pending, unheard, requests>>

Send(t) ==
  /\ tabs[t] # NoPrompt
  /\ Len(sent) < MaxSent
  /\ sent' = Append(sent, [op |-> tabs[t].op, amount |-> intents[tabs[t].intent].amount,
                           outcome |-> "pending"])
  /\ tabs' = [tabs EXCEPT ![t] = NoPrompt]
  /\ UNCHANGED <<escrow, now, settled>>

\* persistAndObserveReturnedWithdrawalHash keeps the hash before reporting it.
WalletSends(t) ==
  /\ Send(t)
  /\ pending' = [pending EXCEPT ![tabs[t].intent][tabs[t].op] = Len(sent) + 1]
  /\ UNCHANGED <<database, unheard, requests>>

WalletRejects(t) ==
  /\ tabs[t] # NoPrompt
  /\ tabs' = [tabs EXCEPT ![t] = NoPrompt]
  /\ UNCHANGED <<chain, database, pending, unheard, requests>>

\* The wallet sends but its answer is lost, with or without the tab; a tab
\* that is left reports the submission as uncertain.
WalletUnheard(t, reports) ==
  LET i == tabs[t].intent
      op == tabs[t].op IN
  /\ unheard < MaxUnheard
  /\ unheard' = unheard + 1
  /\ Send(t)
  /\ IF reports /\ intents[i].status = ReadyTo(op)
     THEN SetIntent(i, [intents[i] EXCEPT !.status = Uncertain(op)])
     ELSE UNCHANGED intents
  /\ UNCHANGED <<pool, pending, requests>>

\* observe_withdrawal_operation_atomic on a row that is not final.
CanObserve(i, op, n) ==
  /\ intents[i].hash[op] \in {0, n}
  /\ IF op = "close" THEN intents[i].closeRequired
     ELSE intents[i].status \in {ReadyTo(op), Uncertain(op)} \/ intents[i].hash[op] # 0

Observed(i, op, n) ==
  [intents[i] EXCEPT
     !.hash = [@ EXCEPT ![op] = n],
     !.status = IF @ \in {ReadyTo(op), Uncertain(op)} THEN Submitted(op) ELSE @]

\* A hash the server refuses stays in storage, in the way of any other action.
ObserveHash(i, op) ==
  LET n == Held(i, op) IN
  /\ n # 0
  /\ op = "withdraw" => Held(i, "close") = 0
  /\ \/ intents[i].status \in Final /\ UNCHANGED intents
     \/ /\ intents[i].status \notin Final
        /\ CanObserve(i, op, n)
        /\ SetIntent(i, Observed(i, op, n))
  /\ pending' = [pending EXCEPT ![i][op] = 0]
  /\ UNCHANGED <<chain, pool, tabs, unheard, requests>>

\* withdrawalContinuationAction: attach_close, attach_withdraw.  The owner may
\* paste the hash of another of their transactions.
AttachHash(i, op, n) ==
  /\ intents[i].status = Uncertain(op)
  /\ Held(i, "close") = 0 /\ Held(i, "withdraw") = 0
  /\ CanObserve(i, op, n)
  /\ SetIntent(i, Observed(i, op, n))
  /\ UNCHANGED <<chain, pool, pending, tabs, unheard, requests>>

-----------------------------------------------------------------------------
(* Reconciling an intent.                                                  *)

StartReconcile(q, i) ==
  /\ q \in Reconcilers
  /\ requests[q].does = "nothing"
  /\ intents[i].status \notin Final
  /\ intents[i].closeRequired => intents[i].hash.close # 0
  /\ \/ /\ intents[i].closeRequired /\ intents[i].status = "close_submitted"
        /\ SetRequest(q, [IdleRequest EXCEPT !.does = "close", !.intent = i])
     \/ /\ ~(intents[i].closeRequired /\ intents[i].status = "close_submitted")
        /\ intents[i].hash.withdraw # 0
        /\ SetRequest(q, [IdleRequest EXCEPT !.does = "withdraw", !.intent = i])
  /\ UNCHANGED <<chain, database, pending, tabs, unheard>>

\* fail_withdrawal_intent_atomic and the trigger on final rows; the hash it
\* names is on the row.
FailedIntent(i) ==
  IF intents[i].status \in Final THEN intents[i] ELSE [intents[i] EXCEPT !.status = "failed"]

\* Bug variant: the status moves on, the close is not marked as verified.
ConfirmedCloseUnmarked(i) ==
  IF intents[i].status = "close_submitted"
  THEN [intents[i] EXCEPT !.status = "ready_to_withdraw"]
  ELSE intents[i]

ConfirmedClose(i) ==
  IF intents[i].status = "close_submitted"
  THEN [intents[i] EXCEPT !.status = "ready_to_withdraw", !.closeVerified = TRUE]
  ELSE intents[i]

\* verifyClose, which waits for the receipt, and the write that follows it.
VerifyClose(q) ==
  LET i == requests[q].intent
      tx == sent[intents[i].hash.close] IN
  /\ requests[q].does = "close"
  /\ tx.outcome # "pending"
  /\ IF tx.outcome = "success" /\ tx.op = "close" /\ escrow.closed
     THEN /\ SetIntent(i, ConfirmedClose(i))
          /\ SetRequest(q, IF intents[i].hash.withdraw = 0 THEN IdleRequest
                           ELSE [requests[q] EXCEPT !.does = "withdraw"])
     ELSE /\ SetIntent(i, FailedIntent(i))
          /\ SetRequest(q, IdleRequest)
  /\ UNCHANGED <<chain, pool, pending, tabs, unheard>>

\* verifyWithdrawal: the receipt, and the counter as it is now.
VerifyWithdrawal(q) ==
  LET row == intents[requests[q].intent]
      tx == sent[row.hash.withdraw] IN
  /\ requests[q].does = "withdraw"
  /\ tx.outcome # "pending"
  /\ SetRequest(q, [requests[q] EXCEPT !.does =
       IF /\ tx.outcome = "success" /\ tx.op = "withdraw" /\ tx.amount = row.amount
          /\ escrow.totalWithdrawn = row.before + row.amount
       THEN "record" ELSE "fail"])
  /\ UNCHANGED <<chain, database, pending, tabs, unheard>>

FailIntent(q) ==
  /\ requests[q].does = "fail"
  /\ SetIntent(requests[q].intent, FailedIntent(requests[q].intent))
  /\ SetRequest(q, IdleRequest)
  /\ UNCHANGED <<chain, pool, pending, tabs, unheard>>

\* Transactions escrow_transactions holds.
Recorded == {intents[i].hash.withdraw : i \in {j \in DOMAIN intents : intents[j].status = "complete"}}

\* A reconcile_withdrawal_intent_atomic that overlooks what is on file.
CanRecordAgain(i) ==
  /\ intents[i].status = "withdraw_submitted"
  /\ intents[i].closeRequired => intents[i].closeVerified
  /\ Reserved = {} /\ Available >= intents[i].amount

CanRecord(i) ==
  /\ intents[i].status = "withdraw_submitted"
  /\ intents[i].closeRequired => intents[i].closeVerified
  /\ Reserved = {} /\ Available >= intents[i].amount
  /\ intents[i].hash.withdraw \notin Recorded

RecordWithdrawal(q) ==
  LET i == requests[q].intent IN
  /\ requests[q].does = "record"
  /\ IF CanRecord(i)
     THEN /\ SetIntent(i, [intents[i] EXCEPT !.status = "complete"])
          /\ pool' = [pool EXCEPT !.withdrawn = @ + intents[i].amount]
     ELSE UNCHANGED <<pool, intents>>
  /\ SetRequest(q, IdleRequest)
  /\ UNCHANGED <<chain, pending, tabs, unheard>>

-----------------------------------------------------------------------------
ChainStep ==
  \/ Deposit \/ SyncExternalFunding \/ Tick \/ ExtendRefundUnlockAt \/ ControllerCloses
  \/ \E n \in DOMAIN sent : Mine(n)

RewardStep ==
  \E k \in ReportKeys :
    ReserveReward(k) \/ CancelReward(k) \/ ApproveReward(k) \/ PayReward(k) \/ RecordPayout(k)

CreateStep ==
  \E q \in Requests :
    \/ \E failed \in {0} \cup DOMAIN intents : StartCreate(q, failed)
    \/ ReadCounters(q) \/ ReadBalance(q) \/ CreateIntent(q)

BrowserStep ==
  \/ \E t \in Tabs :
       \/ \E i \in DOMAIN intents, op \in Ops : PromptWallet(t, i, op)
       \/ WalletSends(t) \/ WalletRejects(t)
       \/ \E reports \in BOOLEAN : WalletUnheard(t, reports)
  \/ \E i \in DOMAIN intents, op \in Ops :
       ObserveHash(i, op) \/ \E n \in DOMAIN sent : AttachHash(i, op, n)

ReconcileStep ==
  \E q \in Requests :
    \/ \E i \in DOMAIN intents : StartReconcile(q, i)
    \/ VerifyClose(q) \/ VerifyWithdrawal(q) \/ FailIntent(q) \/ RecordWithdrawal(q)

Next == ChainStep \/ RewardStep \/ CreateStep \/ BrowserStep \/ ReconcileStep

Spec == Init /\ [][Next]_vars

\* Transactions are mined; a tab reports the hash it holds; the owner, who
\* reloads until an intent is final, has it reconciled, and every request
\* that has been started is answered.
FairSpec ==
  /\ Spec
  /\ \A n \in 1..MaxSent : WF_vars(n \in DOMAIN sent /\ Mine(n))
  /\ \A i \in 1..MaxIntents, op \in Ops :
       WF_vars(i \in DOMAIN intents /\ ObserveHash(i, op))
  /\ \A q \in Requests :
       /\ WF_vars(ReadCounters(q) \/ ReadBalance(q) \/ CreateIntent(q))
       /\ WF_vars(VerifyClose(q) \/ VerifyWithdrawal(q) \/ FailIntent(q) \/ RecordWithdrawal(q))
  /\ \A i \in 1..MaxIntents :
       SF_vars(i \in DOMAIN intents /\ \E q \in Requests : StartReconcile(q, i))

-----------------------------------------------------------------------------
(* Properties.                                                             *)

IntentStatus == Final \cup UNION {{ReadyTo(op), Uncertain(op), Submitted(op)} : op \in Ops}

IntentRow ==
  [amount : Nat \ {0}, before : Nat, closeRequired : BOOLEAN, status : IntentStatus,
   hash : [Ops -> 0..MaxSent], closeVerified : BOOLEAN, replaces : 0..MaxIntents,
   replacedBy : 0..MaxIntents]

Receipt == [funded : Nat, balance : Nat, paid : Nat, withdrawn : Nat, outstanding : Nat]

\* Every row has its type, and a row past a step has the hash of that step.
TypeOK ==
  /\ escrow \in Escrow /\ now \in 1..MaxTime
  /\ sent \in Seq([op : Ops, amount : Nat, outcome : {"pending", "success", "reverted"}])
  /\ pool \in [total : Nat, paid : Nat, withdrawn : Nat]
  /\ settled \in [ReportKeys -> [stage : {"none", "reserved", "paid"}, receipt : Receipt]]
  /\ intents \in Seq(IntentRow)
  /\ \A i \in DOMAIN intents :
       /\ \A op \in Ops : intents[i].status = Submitted(op) => intents[i].hash[op] # 0
       /\ intents[i].status = "complete" => intents[i].hash.withdraw # 0
       /\ intents[i].hash.withdraw # 0 /\ intents[i].closeRequired => intents[i].closeVerified
  /\ pending \in [1..MaxIntents -> [Ops -> 0..MaxSent]]
  /\ tabs \in [Tabs -> [intent : 0..MaxIntents, op : Ops]]
  /\ unheard \in 0..MaxUnheard
  /\ requests \in [Requests ->
       [does : {"nothing", "read", "balance", "create", "close", "withdraw", "record", "fail"},
        intent : 0..MaxIntents, balance : Nat, before : Nat, closed : BOOLEAN]]
  /\ \A q \in Requests : requests[q].intent \in {0} \cup DOMAIN intents

Complete == {i \in DOMAIN intents : intents[i].status = "complete"}

\* What is recorded as withdrawn is on chain, once: every complete intent has
\* a successful withdrawal of its own, and withdrawn_pool is their sum,
\* whatever hashes were pasted and whichever request recorded them.
RecordedOnce ==
  /\ \A i \in Complete :
       LET tx == sent[intents[i].hash.withdraw] IN
       tx.outcome = "success" /\ tx.op = "withdraw" /\ tx.amount = intents[i].amount
  /\ \A i, j \in Complete : intents[i].hash.withdraw = intents[j].hash.withdraw => i = j
  /\ pool.withdrawn = UnitSum([i \in DOMAIN intents |-> intents[i].amount], Complete)
  /\ pool.withdrawn <= escrow.totalWithdrawn

\* Intents form one line: each follows a complete one, or replaces the one
\* that failed before it; only the last may be open.
ReplacementsLinear ==
  \A i \in DOMAIN intents :
    /\ i < Len(intents) => intents[i].status \in Final
    /\ i > 1 => intents[i].replaces = IF intents[i - 1].status = "failed" THEN i - 1 ELSE 0
    /\ intents[i].replacedBy =
         IF intents[i].status = "failed" /\ i < Len(intents) THEN i + 1 ELSE 0

\* With every withdrawal recorded, what the program's row calls available is
\* in the escrow and owed to nobody, so that an intent never asks for a
\* reward's money and a new reward is never promised what has left.
AvailableIsThere ==
  pool.withdrawn = escrow.totalWithdrawn => Available <= AvailableBalance(escrow)

\* A final intent keeps its outcome and its evidence; only its replacement
\* may still be linked, once.
OutcomesKept ==
  [][\A i \in DOMAIN intents : intents[i].status \in Final =>
       \/ intents'[i] = intents[i]
       \/ intents[i].replacedBy = 0 /\ [intents'[i] EXCEPT !.replacedBy = 0] = intents[i]]_vars

\* An intent that starts from a counter older than the withdrawals recorded
\* before it: its creation read the counter before the last of them was mined.
Outdated ==
  \E i \in DOMAIN intents :
    intents[i].before < UnitSum([j \in DOMAIN intents |-> intents[j].amount],
                                {j \in Complete : j < i})

\* The answer of a wallet was lost, a reward was reserved meanwhile, or a deposit
\* is not yet credited.
Unmatchable == unheard > 0 \/ Reserved # {} \/ pool.total # ObservedLifetimeInflow(escrow)

\* What has been withdrawn is recorded in the end, so that the intent of a
\* transaction that succeeded is never failed for good, while a creation and a
\* reconciliation interleave; unless the creation is left with an old counter or
\* the receipt cannot match.
WithdrawalsRecorded ==
  pool.withdrawn # escrow.totalWithdrawn
    ~> pool.withdrawn = escrow.totalWithdrawn \/ Unmatchable \/ Outdated

\* The same whenever the creation read the counter.
StaleWithdrawalsRecorded ==
  pool.withdrawn # escrow.totalWithdrawn
    ~> pool.withdrawn = escrow.totalWithdrawn \/ Unmatchable

\* "final RewardPaid event -> database moves reserved -> paid"
PayoutsConfirmable ==
  \A k \in ReportKeys :
    settled[k].stage = "reserved" /\ escrow.rewards[k].status = "Paid"
      => Confirmable(settled[k].receipt)
=============================================================================
