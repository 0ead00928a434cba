-------------------------- MODULE RewardSettlement --------------------------
(***************************************************************************)
(* Reward settlement: how one validated report's reward is reserved in the *)
(* database, approved on chain by the owner's wallet, paid on chain by     *)
(* anyone, and recorded as paid.  Five parties interleave:                 *)
(*                                                                         *)
(*   - the chain: one BountyEscrow (EscrowContract) and its transactions,  *)
(*     mined one or two to a block;                                        *)
(*   - the owner's browser: wallet prompts that send, fail, or leave the   *)
(*     owner unsure whether they sent (reward-approval-orchestrator.ts);   *)
(*   - the API: reconcile and cancel requests of RewardSettlementService,  *)
(*     each holding a `row' it read earlier across its awaits, several at  *)
(*     a time, any of them lost at any await;                              *)
(*   - the relay: Circle, which broadcasts payReward once per idempotency  *)
(*     key;                                                                *)
(*   - the database: one atomic SQL function per repository call.          *)
(*                                                                         *)
(* A transaction hash is the transaction's index in `txs'; the attempt_no  *)
(* of an operation is its index, and a provider idempotency key is the     *)
(* attempt it was drawn for.  The escrow is fully funded before the first  *)
(* state and every deposit is synced, so total_pool is Pool throughout.    *)
(***************************************************************************)
EXTENDS EscrowContract, Sequences, SequencesExt

CONSTANTS
  Owner,          \* the escrow's program owner
  Controller,     \* the escrow's admin controller
  ProgramKey,     \* the program whose rewards are settled
  ContentHash,    \* report -> hash of its approved content
  PayoutWallet,   \* report -> its researcher's verified payout wallet
  Amounts,        \* rewards the owner may choose
  Pool,           \* USDC the escrow and the program were funded with
  Requests,       \* API requests that may be in flight at once
  MaxIntents,     \* bound: settlement intents ever created
  MaxSignatures,  \* bound: approval transactions the owner ever sends
  MaxUnsure,      \* bound: attempts while a wallet may fail without saying whether it sent
  MaxRelays,      \* bound: relay attempts per intent
  MaxLost         \* bound: requests lost at an await

ASSUME SettlementConstants ==
  /\ {Owner, Controller} \subseteq Accounts
  /\ ProgramKey \in ProgramKeys
  /\ ContentHash \in [ReportKeys -> ContentHashes]
  /\ PayoutWallet \in [ReportKeys -> Wallets]
  /\ Amounts \subseteq 1..MaxReward
  /\ {Pool, MaxIntents, MaxSignatures, MaxUnsure, MaxRelays, MaxLost} \subseteq Nat
  /\ IsFiniteSet(ReportKeys)

VARIABLES
  escrow,         \* the contract
  txs,            \* every transaction sent, in the order of sending
  intents,        \* reward_settlement_intents with their operations
  reports,        \* reports.status
  reserved_pool, paid_pool,   \* the program's row
  browser,        \* the owner's wallet prompt for each intent
  requests,       \* the API requests in flight
  lost            \* requests lost so far

chain == <<escrow, txs>>
database == <<intents, reports, reserved_pool, paid_pool>>
vars == <<chain, database, browser, requests, lost>>

-----------------------------------------------------------------------------
(***************************************************************************)
(* Data                                                                    *)
(***************************************************************************)
IntentStatus == {"awaiting_approval", "approval_submitted", "ready_for_payout",
                 "payout_submitted", "paid", "failed"}

ActiveStatus == {"submission_uncertain", "provider_accepted", "submitted"}

OperationStatus == ActiveStatus \cup {"confirmed", "failed"}

ReportStatus == {"validated", "reward_approved", "payment_pending", "paid"}

Operation(status, tx) == [status |-> status, tx |-> tx]

NoOperation == Operation("none", 0)

Latest(ops) == IF ops = <<>> THEN NoOperation ELSE Last(ops)

Active(ops) == {n \in DOMAIN ops : ops[n].status \in ActiveStatus}

With(ops, statuses) == {n \in DOMAIN ops : ops[n].status \in statuses}

\* The intents whose amount is still part of reserved_pool.
Live == {i \in DOMAIN intents : intents[i].status \notin {"failed", "paid"}}

\* unique (transaction_hash) over all operations.
HashKnown(t) ==
  \E i \in DOMAIN intents : \E op \in Range(intents[i].approvals) \cup Range(intents[i].payouts) :
    op.tx = t

Approval(i) ==
  [kind |-> "approve", report |-> intents[i].report, amount |-> intents[i].amount,
   intent |-> i, attempt |-> 0, outcome |-> "pending", post |-> <<0, 0>>]

\* payReward takes only the report key; attempt 0 is a payer other than the relay.
Payment(k, i, attempt) ==
  [kind |-> "pay", report |-> k, amount |-> 0,
   intent |-> i, attempt |-> attempt, outcome |-> "pending", post |-> <<0, 0>>]

Sent(kind) == {t \in DOMAIN txs : txs[t].kind = kind}

Relays(i, attempt) == {t \in Sent("pay") : txs[t].intent = i /\ txs[t].attempt = attempt}

\* Transactions of this kind for this report whose event is on chain.
Logged(kind, k) == {t \in Sent(kind) : txs[t].report = k /\ txs[t].outcome = "success"}

Idle == [at |-> "idle", intent |-> 0, row |-> <<>>, tx |-> 0]

Init ==
  /\ escrow = [Deployed(ProgramKey, Owner, Controller, 1)
                 EXCEPT !.balance = Pool, !.totalFunded = Pool]
  /\ txs = <<>>
  /\ intents = <<>>
  /\ reports = [k \in ReportKeys |-> "validated"]
  /\ reserved_pool = 0
  /\ paid_pool = 0
  /\ browser = [i \in 1..MaxIntents |-> "idle"]
  /\ requests = [p \in Requests |-> Idle]
  /\ lost = 0

-----------------------------------------------------------------------------
(***************************************************************************)
(* The chain.  A block mines one or two transactions in some order; what   *)
(* eth_call reads at a transaction's block is the state at the block's     *)
(* end.                                                                    *)
(***************************************************************************)
Succeeds(e, tx) ==
  IF tx.kind = "approve" THEN CanApprove(e, Owner, tx.report, tx.amount)
                         ELSE CanPay(e, tx.report)

After(e, tx) ==
  IF ~Succeeds(e, tx) THEN e
  ELSE IF tx.kind = "approve"
       THEN AfterApprove(e, tx.report, ContentHash[tx.report], PayoutWallet[tx.report], tx.amount)
       ELSE AfterPay(e, tx.report)

Mined(e, tx, end) ==
  [tx EXCEPT !.outcome = IF Succeeds(e, tx) THEN "success" ELSE "reverted",
             !.post = IF Succeeds(e, tx) /\ tx.kind = "pay"
                      THEN <<end.totalPaid, end.totalApprovedOutstanding>> ELSE @]

MineBlock(t, u) ==
  LET middle == After(escrow, txs[t])
      end    == IF t = u THEN middle ELSE After(middle, txs[u]) IN
  /\ txs[t].outcome = "pending"
  /\ txs[u].outcome = "pending"
  /\ escrow' = end
  /\ txs' = [s \in DOMAIN txs |->
               CASE s = t -> Mined(escrow, txs[t], end)
                 [] s = u /\ s # t -> Mined(middle, txs[u], end)
                 [] OTHER -> txs[s]]
  /\ UNCHANGED <<database, browser, requests, lost>>

\* Anyone pays an approved reward.
ExternalPay(k) ==
  /\ escrow.rewards[k].status = "Approved"
  /\ \A t \in Sent("pay") :
       txs[t].report = k /\ txs[t].intent = 0 => txs[t].outcome # "pending"
  /\ txs' = Append(txs, Payment(k, 0, 0))
  /\ UNCHANGED <<escrow, database, browser, requests, lost>>

\* Circle gives a relayed transaction up: FAILED, CANCELLED or DENIED.
RelayDenied(t) ==
  /\ txs[t].kind = "pay"
  /\ txs[t].intent # 0
  /\ txs[t].outcome = "pending"
  /\ txs' = [txs EXCEPT ![t].outcome = "reverted"]
  /\ UNCHANGED <<escrow, database, browser, requests, lost>>

-----------------------------------------------------------------------------
(***************************************************************************)
(* The database.  Each Can* is what a SQL function checks, each action the *)
(* whole of what it writes; a rejected call changes nothing.               *)
(***************************************************************************)
SetIntent(i, status) == intents' = [intents EXCEPT ![i].status = status]

SetReport(i, from, to) ==
  reports' = [reports EXCEPT ![intents[i].report] = IF @ = from THEN to ELSE @]

CreateIntent(k, amount) ==
  /\ Len(intents) < MaxIntents
  /\ reports[k] = "validated"
  /\ \A i \in DOMAIN intents : intents[i].report = k => intents[i].status = "failed"
  /\ amount <= Pool - reserved_pool - paid_pool
  /\ intents' = Append(intents, [report |-> k, amount |-> amount,
                                 status |-> "awaiting_approval",
                                 approvals |-> <<>>, payouts |-> <<>>])
  /\ reserved_pool' = reserved_pool + amount
  /\ UNCHANGED <<chain, reports, paid_pool, browser, requests, lost>>

\* A hash that is already the live approval's is only acknowledged.
ApprovalReplayed(i, t) ==
  /\ intents[i].status \notin {"awaiting_approval", "failed"}
  /\ \E op \in Range(intents[i].approvals) :
       op.tx = t /\ op.status \in {"submitted", "confirmed"}

CanObserveApproval(i, t) == intents[i].status = "awaiting_approval" /\ ~HashKnown(t)

\* The pending uncertain attempt takes the hash; without one a new attempt does.
ObserveApproval(i, t) ==
  LET ops == intents[i].approvals
      uncertain == With(ops, {"submission_uncertain"}) IN
  /\ intents' = [intents EXCEPT
       ![i].status = "approval_submitted",
       ![i].approvals = IF uncertain = {}
                        THEN Append(ops, Operation("submitted", t))
                        ELSE [n \in DOMAIN ops |->
                                IF n \in uncertain THEN Operation("submitted", t) ELSE ops[n]]]
  /\ UNCHANGED <<reports, reserved_pool, paid_pool>>

ObserveUncertain(i) ==
  /\ intents[i].status = "awaiting_approval"
  /\ Active(intents[i].approvals) = {}
  /\ intents' = [intents EXCEPT
       ![i].approvals = Append(@, Operation("submission_uncertain", 0))]
  /\ UNCHANGED <<reports, reserved_pool, paid_pool>>

\* Bug variant: the report may be in any status and any hash may be confirmed.
CanConfirmAnyApproval(i, t) == intents[i].status \in {"awaiting_approval", "approval_submitted"}

CanConfirmApproval(i, t) ==
  /\ intents[i].status = "approval_submitted"
  /\ \E op \in Range(intents[i].approvals) : op = Operation("submitted", t)
  /\ reports[intents[i].report] = "validated"

ConfirmApproval(i, t) ==
  /\ intents' = [intents EXCEPT
       ![i].status = "ready_for_payout",
       ![i].approvals = [n \in DOMAIN @ |->
          IF @[n] = Operation("submitted", t) THEN Operation("confirmed", t) ELSE @[n]]]
  /\ reports' = [reports EXCEPT ![intents[i].report] = "reward_approved"]
  /\ UNCHANGED <<reserved_pool, paid_pool>>

Failing(ops) ==
  [n \in DOMAIN ops |->
     IF n \in Active(ops) THEN [ops[n] EXCEPT !.status = "failed"] ELSE ops[n]]

\* Bug variant: the intent goes back even when no attempt is active.
CanAlwaysFail(i) == TRUE

\* fail_reward_settlement_operation_atomic fails whichever attempt is active,
\* not the one whose evidence was bad; at most one is (active_key).
CanFailApproval(i) == Active(intents[i].approvals) # {}

FailApproval(i) ==
  /\ intents' = [intents EXCEPT ![i].status = "awaiting_approval",
                                ![i].approvals = Failing(@)]
  /\ UNCHANGED <<reports, reserved_pool, paid_pool>>

CanFailPayout(i) == Active(intents[i].payouts) # {}

FailPayout(i) ==
  /\ intents' = [intents EXCEPT ![i].status = "ready_for_payout",
                                ![i].payouts = Failing(@)]
  /\ SetReport(i, "payment_pending", "reward_approved")
  /\ UNCHANGED <<reserved_pool, paid_pool>>

\* Bug variant: an intent whose approval was already submitted may be cancelled.
CanCancelSubmitted(i) == intents[i].status \in {"awaiting_approval", "approval_submitted"}

CanCancelIntent(i) ==
  /\ intents[i].status = "awaiting_approval"
  /\ With(intents[i].approvals, ActiveStatus \cup {"confirmed"}) = {}

\* Bug variant: the reservation is not returned to the pool.
CancelIntentOnly(i) ==
  SetIntent(i, "failed") /\ UNCHANGED <<reports, reserved_pool, paid_pool>>

CancelIntent(i) ==
  /\ SetIntent(i, "failed")
  /\ reserved_pool' = reserved_pool - intents[i].amount
  /\ UNCHANGED <<reports, paid_pool>>

CanPrepareRelay(i) ==
  intents[i].status = "ready_for_payout" /\ Active(intents[i].payouts) = {}

PrepareRelay(i) ==
  /\ intents' = [intents EXCEPT
       ![i].payouts = Append(@, Operation("submission_uncertain", 0))]
  /\ UNCHANGED <<reports, reserved_pool, paid_pool>>

CanAcceptRelay(i, n) ==
  /\ intents[i].status = "ready_for_payout"
  /\ intents[i].payouts[n].status = "submission_uncertain"

AcceptRelay(i, n) ==
  /\ intents' = [intents EXCEPT ![i].status = "payout_submitted",
                                ![i].payouts[n].status = "provider_accepted"]
  /\ SetReport(i, "reward_approved", "payment_pending")
  /\ UNCHANGED <<reserved_pool, paid_pool>>

CanAttachHash(i, n, t) == intents[i].payouts[n].status = "provider_accepted" /\ ~HashKnown(t)

AttachHash(i, n, t) ==
  /\ intents' = [intents EXCEPT ![i].payouts[n] = Operation("submitted", t)]
  /\ UNCHANGED <<reports, reserved_pool, paid_pool>>

PayoutKnown(i, t) == \E op \in Range(intents[i].payouts) : op.tx = t

\* Bug variant: a payout observed while the relay is in flight is rejected.
CanObservePayoutReady(i, t) == PayoutKnown(i, t) \/ intents[i].status = "ready_for_payout"

CanObservePayout(i, t) ==
  \/ PayoutKnown(i, t)
  \/ intents[i].status \in {"ready_for_payout", "payout_submitted"} /\ ~HashKnown(t)

\* A known hash is returned as it is, whatever its status; otherwise the
\* relay's attempt is superseded.
ObservePayout(i, t) ==
  /\ \/ PayoutKnown(i, t) /\ UNCHANGED <<intents, reports>>
     \/ /\ ~PayoutKnown(i, t)
        /\ intents' = [intents EXCEPT
             ![i].status = "payout_submitted",
             ![i].payouts = Append(Failing(@), Operation("submitted", t))]
        /\ SetReport(i, "reward_approved", "payment_pending")
  /\ UNCHANGED <<reserved_pool, paid_pool>>

\* The locked program row must agree with the accounting at the end of the
\* payout's block: conservation over paid and outstanding, which may have
\* advanced past this payout.
ProjectionMatches(i, post) ==
  /\ post[1] >= paid_pool + intents[i].amount
  /\ post[2] <= reserved_pool - intents[i].amount
  /\ post[1] + post[2] = paid_pool + reserved_pool

CanConfirmPayout(i, t) ==
  /\ intents[i].status = "payout_submitted"
  /\ \E op \in Range(intents[i].payouts) : op = Operation("submitted", t)
  /\ reports[intents[i].report] = "payment_pending"
  /\ reserved_pool >= intents[i].amount
  /\ ProjectionMatches(i, txs[t].post)

ConfirmPayout(i, t) ==
  /\ intents' = [intents EXCEPT
       ![i].status = "paid",
       ![i].payouts = [n \in DOMAIN @ |->
          IF @[n] = Operation("submitted", t) THEN Operation("confirmed", t) ELSE @[n]]]
  /\ reports' = [reports EXCEPT ![intents[i].report] = "paid"]
  /\ reserved_pool' = reserved_pool - intents[i].amount
  /\ paid_pool' = paid_pool + intents[i].amount

-----------------------------------------------------------------------------
(***************************************************************************)
(* The owner's browser.                                                    *)
(***************************************************************************)
BrowserState == {"idle", "prompt", "unsure"}

OpenPrompt(i) ==
  /\ browser[i] = "idle"
  /\ intents[i].status = "awaiting_approval"
  /\ With(intents[i].approvals, ActiveStatus \cup {"confirmed"}) = {}
  /\ browser' = [browser EXCEPT ![i] = "prompt"]
  /\ UNCHANGED <<chain, database, requests, lost>>

Send(i) == Cardinality(Sent("approve")) < MaxSignatures /\ txs' = Append(txs, Approval(i))

\* The wallet returns the hash: the browser can report it from now on.
Sign(i) ==
  /\ browser[i] = "prompt"
  /\ Send(i)
  /\ browser' = [browser EXCEPT ![i] = "idle"]
  /\ UNCHANGED <<escrow, database, requests, lost>>

\* The wallet fails without saying whether it sent.
SignUnsure(i) ==
  /\ browser[i] = "prompt"
  /\ Len(intents[i].approvals) < MaxUnsure
  /\ Send(i) \/ UNCHANGED txs
  /\ browser' = [browser EXCEPT ![i] = "unsure"]
  /\ UNCHANGED <<escrow, database, requests, lost>>

\* The owner rejects the prompt, or the page is closed.
LeavePrompt(i) ==
  /\ browser[i] # "idle"
  /\ browser' = [browser EXCEPT ![i] = "idle"]
  /\ UNCHANGED <<chain, database, requests, lost>>

ReportUnsure(i) ==
  /\ browser[i] = "unsure"
  /\ ObserveUncertain(i)
  /\ browser' = [browser EXCEPT ![i] = "idle"]
  /\ UNCHANGED <<chain, requests, lost>>

ReportHash(t) ==
  LET i == txs[t].intent IN
  /\ txs[t].kind = "approve"
  /\ CanObserveApproval(i, t)
  /\ ObserveApproval(i, t)
  /\ UNCHANGED <<chain, browser, requests, lost>>

-----------------------------------------------------------------------------
(***************************************************************************)
(* The API.  A request is at the await named by `at'; `row' is the intent  *)
(* as it last read it and `tx' the transaction it has evidence of.         *)
(***************************************************************************)
\* Where reconcile goes with a row it has just read.
Route(row) ==
  CASE row.status = "awaiting_approval"
         /\ Latest(row.approvals).status = "submission_uncertain" -> "findApproval"
    [] row.status = "approval_submitted"
         /\ Latest(row.approvals).status = "submitted"            -> "verifyApproval"
    [] row.status \in {"ready_for_payout", "payout_submitted"}    -> "findPayout"
    [] OTHER                                                      -> "idle"

\* Where it goes once no payout of the report is on chain.
PayoutRoute(row) ==
  CASE row.status = "ready_for_payout"
         /\ Latest(row.payouts).status \in {"none", "failed"}     -> "prepareRelay"
    [] row.status = "ready_for_payout"
         /\ Latest(row.payouts).status = "submission_uncertain"   -> "submitRelay"
    [] row.status = "payout_submitted"
         /\ Latest(row.payouts).status = "provider_accepted"      -> "waitRelay"
    [] row.status = "payout_submitted"
         /\ Latest(row.payouts).status = "submitted"              -> "verifyPayout"
    [] OTHER                                                      -> "idle"

Goto(p, at) ==
  requests' = [requests EXCEPT ![p] = IF at = "idle" THEN Idle ELSE [@ EXCEPT !.at = at]]

GotoWith(p, at, t) == requests' = [requests EXCEPT ![p].at = at, ![p].tx = t]

\* The database accepts the call and the request goes on, or rejects it and
\* the request fails with nothing changed.
Call(p, can, write, at) ==
  /\ \/ can /\ write /\ Goto(p, at)
     \/ ~can /\ UNCHANGED database /\ Goto(p, "idle")
  /\ UNCHANGED <<chain, browser, lost>>

\* The chain is read and the request goes on.
Read(p) == UNCHANGED <<chain, database, browser, lost>>

StartReconcile(p, i) ==
  /\ requests[p] = Idle
  /\ Route(intents[i]) # "idle"
  /\ requests' = [requests EXCEPT ![p] =
       [at |-> Route(intents[i]), intent |-> i, row |-> intents[i], tx |-> 0]]
  /\ Read(p)

StartCancel(p, i) ==
  /\ requests[p] = Idle
  /\ intents[i].status \notin {"paid", "failed"}
  /\ requests' = [requests EXCEPT ![p] =
       [at |-> "scanBeforeCancel", intent |-> i, row |-> intents[i], tx |-> 0]]
  /\ Read(p)

\* findRewardApproval: the report's only RewardApproved event, which must
\* carry this intent's amount.
FindApproval(p) ==
  LET row == requests[p].row  found == Logged("approve", row.report) IN
  /\ requests[p].at \in {"findApproval", "scanBeforeCancel"}
  /\ \/ found = {} /\ Goto(p, IF requests[p].at = "findApproval" THEN "idle" ELSE "cancel")
     \/ \E t \in found : txs[t].amount # row.amount /\ Goto(p, "idle")
     \/ \E t \in found : /\ txs[t].amount = row.amount
                         /\ GotoWith(p, IF requests[p].at = "findApproval"
                                        THEN "observeApproval" ELSE "observeInstead", t)
  /\ Read(p)

\* observeRewardApproval with what the scan found; cancel then gives up.
ObserveFound(p) ==
  LET r == requests[p] IN
  /\ r.at \in {"observeApproval", "observeInstead"}
  /\ Call(p, CanObserveApproval(r.intent, r.tx) \/ ApprovalReplayed(r.intent, r.tx),
          IF CanObserveApproval(r.intent, r.tx)
          THEN ObserveApproval(r.intent, r.tx) ELSE UNCHANGED database,
          IF r.at = "observeApproval" THEN "reread" ELSE "idle")

Cancel(p) ==
  LET i == requests[p].intent IN
  /\ requests[p].at = "cancel"
  /\ Call(p, CanCancelIntent(i), CancelIntent(i), "idle")

\* Bug variant: a transaction without a receipt yet is taken for a success.
VerifyApprovalEarly(p) ==
  LET t == Latest(requests[p].row.approvals).tx IN
  /\ requests[p].at = "verifyApproval"
  /\ \/ txs[t].outcome # "reverted" /\ GotoWith(p, "confirmApproval", t)
     \/ txs[t].outcome = "reverted" /\ Goto(p, "failApproval")
  /\ Read(p)

\* A receipt that is still missing is retried later; a reverted transaction
\* fails the attempt.  An observed hash is this intent's own transaction or
\* one found with its amount, so a success carries its event.
VerifyApproval(p) ==
  LET t == Latest(requests[p].row.approvals).tx IN
  /\ requests[p].at = "verifyApproval"
  /\ \/ txs[t].outcome = "pending" /\ Goto(p, "idle")
     \/ txs[t].outcome = "success" /\ GotoWith(p, "confirmApproval", t)
     \/ txs[t].outcome = "reverted" /\ Goto(p, "failApproval")
  /\ Read(p)

ApprovalFails(p) ==
  LET i == requests[p].intent IN
  /\ requests[p].at = "failApproval"
  /\ Call(p, CanFailApproval(i), FailApproval(i), "idle")

\* A repeated confirmation with the same evidence is acknowledged.
ApprovalConfirmed(p) ==
  LET r == requests[p]
      again == \E op \in Range(intents[r.intent].approvals) : op = Operation("confirmed", r.tx) IN
  /\ r.at = "confirmApproval"
  /\ Call(p, CanConfirmApproval(r.intent, r.tx) \/ again,
          IF again THEN UNCHANGED database ELSE ConfirmApproval(r.intent, r.tx),
          "rereadForPayout")

\* The row is read again after a database call.
Reread(p) ==
  LET row == intents[requests[p].intent] IN
  /\ requests[p].at \in {"reread", "rereadForPayout", "rereadRelay"}
  /\ LET at == CASE requests[p].at = "reread" -> Route(row)
                 [] requests[p].at = "rereadForPayout" -> "findPayout"
                 [] OTHER -> PayoutRoute(row) IN
     requests' = [requests EXCEPT ![p] =
       IF at = "idle" THEN Idle ELSE [@ EXCEPT !.at = at, !.row = row]]
  /\ Read(p)

FindPayout(p) ==
  LET found == Logged("pay", requests[p].row.report) IN
  /\ requests[p].at = "findPayout"
  /\ \/ found = {} /\ Goto(p, PayoutRoute(requests[p].row))
     \/ \E t \in found : GotoWith(p, "observePayout", t)
  /\ Read(p)

PayoutObserved(p) ==
  LET r == requests[p] IN
  /\ r.at = "observePayout"
  /\ Call(p, CanObservePayout(r.intent, r.tx), ObservePayout(r.intent, r.tx), "confirmPayout")

PayoutConfirmed(p) ==
  LET r == requests[p] IN
  /\ r.at = "confirmPayout"
  /\ Call(p, CanConfirmPayout(r.intent, r.tx), ConfirmPayout(r.intent, r.tx), "idle")

RelayPrepared(p) ==
  LET i == requests[p].intent IN
  /\ requests[p].at = "prepareRelay"
  /\ Call(p, CanPrepareRelay(i) /\ Len(intents[i].payouts) < MaxRelays,
          PrepareRelay(i), "rereadRelay")

\* Circle broadcasts once for an idempotency key, whoever repeats the call.
RelaySubmitted(p) ==
  LET r == requests[p]  n == Len(requests[p].row.payouts) IN
  /\ r.at = "submitRelay"
  /\ txs' = IF Relays(r.intent, n) = {}
            THEN Append(txs, Payment(r.row.report, r.intent, n)) ELSE txs
  /\ Goto(p, "acceptRelay")
  /\ UNCHANGED <<escrow, database, browser, lost>>

RelayAccepted(p) ==
  LET r == requests[p]  n == Len(requests[p].row.payouts) IN
  /\ r.at = "acceptRelay"
  /\ Call(p, CanAcceptRelay(r.intent, n), AcceptRelay(r.intent, n), "rereadRelay")

WaitRelay(p) ==
  LET r == requests[p] IN
  /\ r.at = "waitRelay"
  /\ \E t \in Relays(r.intent, Len(r.row.payouts)) :
       \/ txs[t].outcome = "pending"  /\ Goto(p, "idle")
       \/ txs[t].outcome = "reverted" /\ Goto(p, "failPayout")
       \/ txs[t].outcome = "success"  /\ GotoWith(p, "attachHash", t)
  /\ Read(p)

PayoutFails(p) ==
  LET i == requests[p].intent IN
  /\ requests[p].at = "failPayout"
  /\ Call(p, CanFailPayout(i), FailPayout(i), "idle")

HashAttached(p) ==
  LET r == requests[p]  n == Len(requests[p].row.payouts) IN
  /\ r.at = "attachHash"
  /\ Call(p, CanAttachHash(r.intent, n, r.tx), AttachHash(r.intent, n, r.tx), "rereadRelay")

VerifyPayout(p) ==
  /\ requests[p].at = "verifyPayout"
  /\ GotoWith(p, "confirmPayout", Latest(requests[p].row.payouts).tx)
  /\ Read(p)

\* The process stops, or the call it awaits fails, before or after taking
\* effect: whatever it had already written stays.
Lose(p) ==
  /\ requests[p] # Idle
  /\ lost < MaxLost
  /\ lost' = lost + 1
  /\ Goto(p, "idle")
  /\ UNCHANGED <<chain, database, browser>>

Step(p) ==
  \/ FindApproval(p) \/ ObserveFound(p) \/ Cancel(p) \/ VerifyApproval(p)
  \/ ApprovalFails(p) \/ ApprovalConfirmed(p) \/ Reread(p) \/ FindPayout(p)
  \/ PayoutObserved(p) \/ PayoutConfirmed(p) \/ RelayPrepared(p) \/ RelaySubmitted(p)
  \/ RelayAccepted(p) \/ WaitRelay(p) \/ PayoutFails(p) \/ HashAttached(p) \/ VerifyPayout(p)

Next ==
  \/ \E t, u \in DOMAIN txs : MineBlock(t, u)
  \/ \E k \in ReportKeys : ExternalPay(k) \/ \E amount \in Amounts : CreateIntent(k, amount)
  \/ \E i \in DOMAIN intents :
       \/ OpenPrompt(i) \/ Sign(i) \/ SignUnsure(i) \/ LeavePrompt(i) \/ ReportUnsure(i)
       \/ \E p \in Requests : StartReconcile(p, i) \/ StartCancel(p, i)
  \/ \E t \in DOMAIN txs : ReportHash(t) \/ RelayDenied(t)
  \/ \E p \in Requests : Step(p) \/ Lose(p)

Spec == Init /\ [][Next]_vars

(***************************************************************************)
(* Fairness: the chain mines what was sent, an API request that was        *)
(* started goes on, and the page or a client keeps asking to reconcile     *)
(* every intent (a page that polls asks again however often other requests *)
(* get in between, hence strong fairness).  Nothing is assumed of the      *)
(* owner, of payers other than the relay, or of cancellation.              *)
(***************************************************************************)
Fairness ==
  /\ WF_vars(\E t \in DOMAIN txs : MineBlock(t, t))
  /\ \A p \in Requests : WF_vars(Step(p))
  /\ \A i \in 1..MaxIntents :
       SF_vars(i \in DOMAIN intents /\ \E p \in Requests : StartReconcile(p, i))

FairSpec == Spec /\ Fairness

-----------------------------------------------------------------------------
(***************************************************************************)
(* Correctness                                                             *)
(***************************************************************************)
\* The settlement tables, the program row, the wallet prompts and the requests
\* hold only values their columns and types allow.
TypeOK ==
  /\ escrow \in Escrow
  /\ \A i \in DOMAIN intents :
       /\ intents[i].report \in ReportKeys
       /\ intents[i].amount \in Amounts
       /\ intents[i].status \in IntentStatus
       /\ \A op \in Range(intents[i].approvals) \cup Range(intents[i].payouts) :
            op.status \in OperationStatus /\ op.tx \in DOMAIN txs \cup {0}
  /\ reports \in [ReportKeys -> ReportStatus]
  /\ {reserved_pool, paid_pool, lost} \subseteq Nat
  /\ reserved_pool + paid_pool <= Pool
  /\ browser \in [1..MaxIntents -> BrowserState]

Total(S) == Cardinality(UNION {{i} \X (1..intents[i].amount) : i \in S})

PaidIntents == {i \in DOMAIN intents : intents[i].status = "paid"}

\* The program's counters say what its intents say, however confirmations,
\* failures, cancellations and repeated requests interleave: an amount is
\* reserved once, and released or moved to paid_pool once.
PoolsMatchIntents == reserved_pool = Total(Live) /\ paid_pool = Total(PaidIntents)

\* The report, its intent and the intent's operations are always at the same
\* stage, with one attempt in flight and one live or paid intent per report:
\* no order of stale requests tears them apart.
StagesAgree ==
  /\ \A i \in DOMAIN intents :
       LET row == intents[i]  report == reports[intents[i].report]
           approved == With(row.approvals, {"confirmed"}) # {} IN
       /\ Cardinality(Active(row.approvals)) <= 1
       /\ Cardinality(Active(row.payouts)) <= 1
       /\ CASE row.status = "awaiting_approval" ->
                report = "validated" /\ With(row.approvals, {"submitted", "confirmed"}) = {}
            [] row.status = "approval_submitted" ->
                report = "validated" /\ With(row.approvals, {"submitted"}) # {}
            [] row.status = "ready_for_payout" ->
                /\ report = "reward_approved" /\ approved
                /\ With(row.payouts, {"provider_accepted", "submitted", "confirmed"}) = {}
            [] row.status = "payout_submitted" ->
                /\ report = "payment_pending" /\ approved
                /\ With(row.payouts, {"provider_accepted", "submitted"}) # {}
            [] row.status = "paid" ->
                /\ report = "paid" /\ approved
                /\ Cardinality(With(row.payouts, {"confirmed"})) = 1
            [] row.status = "failed" -> Active(row.approvals) = {} /\ ~approved
  /\ \A i, j \in DOMAIN intents :
       intents[i].report = intents[j].report /\ "failed" \notin {intents[i].status, intents[j].status}
         => i = j

\* The database never says more than the chain: an approved intent's reward is
\* committed on chain with its amount, hash and wallet, a paid one's is paid, by
\* the transaction recorded for it.
RecordedIsReal ==
  \A i \in DOMAIN intents :
    LET row == intents[i]  reward == escrow.rewards[intents[i].report] IN
    row.status \in {"ready_for_payout", "payout_submitted", "paid"} =>
      /\ reward.status # "None"
      /\ reward.amount = row.amount
      /\ reward.approvedContentHash = ContentHash[row.report]
      /\ reward.researcher = PayoutWallet[row.report]
      /\ row.status = "paid" =>
           /\ reward.status = "Paid"
           /\ \E t \in Logged("pay", row.report) :
                Operation("confirmed", t) \in Range(row.payouts)

\* Approvals that succeeded for an intent cancelled without their evidence.
LateApprovals ==
  {t \in Sent("approve") :
     LET row == intents[txs[t].intent] IN
     /\ txs[t].outcome = "success"
     /\ row.status = "failed"
     /\ {Operation("submitted", t), Operation("confirmed", t)} \cap Range(row.approvals) = {}}

\* What the database lets the owner reserve next, the contract can honour,
\* unless an approval it had no evidence of landed around a cancellation.
AvailableIsHonest ==
  LateApprovals = {} => Pool - reserved_pool - paid_pool <= AvailableBalance(escrow)

\* "Reserve before the browser prompt ... prevents off-chain availability from
\* overbooking the contract balance", with no exception.
NeverOverbooked == Pool - reserved_pool - paid_pool <= AvailableBalance(escrow)

\* A settlement confirmed on chain never falls back behind its confirmation,
\* paid and cancelled are final, and no recorded hash is ever rewritten: a
\* stale request may fail an attempt, never undo evidence.
SettlementKept ==
  [][\A i \in DOMAIN intents :
       LET row == intents[i]  new == intents'[i] IN
       /\ row.status \in {"ready_for_payout", "payout_submitted"} =>
            new.status \in {"ready_for_payout", "payout_submitted", "paid"}
       /\ row.status \in {"paid", "failed"} => new = row
       /\ \A n \in DOMAIN row.approvals :
            /\ row.approvals[n].tx # 0 => new.approvals[n].tx = row.approvals[n].tx
            /\ row.approvals[n].status = "confirmed" => new.approvals[n] = row.approvals[n]
       /\ \A n \in DOMAIN row.payouts :
            row.payouts[n].tx # 0 => new.payouts[n].tx = row.payouts[n].tx]_vars

\* Intents the database knows to be approved and that are paid on chain.
PaidOnChain ==
  {i \in DOMAIN intents :
     /\ intents[i].status \in {"ready_for_payout", "payout_submitted"}
     /\ escrow.rewards[intents[i].report].status = "Paid"}

\* A payout that counts on chain, filed under an attempt that was failed: its hash
\* is known now, and a known hash is answered with the failed row.
Misfiled ==
  {i \in DOMAIN intents :
     \E t \in Logged("pay", intents[i].report) :
       Operation("failed", t) \in Range(intents[i].payouts)}

\* Intents of a program that has reserved a reward for another report too: then
\* the order of the payouts decides (PayoutsRecordedInAnyOrder).
Accompanied ==
  {i \in DOMAIN intents : \E j \in DOMAIN intents : intents[j].report # intents[i].report}

\* Once the only reward of a program is approved and paid on chain, the database
\* moves reserved to paid and the report becomes paid, whoever paid, whatever is
\* lost and however two stale requests interleave, unless one of them failed the
\* attempt that holds the payout.  Nothing is funded or withdrawn meanwhile (see
\* PayoutsConfirmable of Withdrawal).
PayoutRecorded ==
  \A i \in 1..MaxIntents :
    i \in PaidOnChain ~> i \in PaidIntents \cup Misfiled \cup Accompanied

\* The same without an exception (docs: a payout's evidence moves reserved to paid).
PayoutAlwaysRecorded == \A i \in 1..MaxIntents : i \in PaidOnChain ~> i \in PaidIntents

\* The same when nothing else is under way: every live intent is approved and
\* paid on chain and only the database has to catch up.
PayoutsRecordedInAnyOrder ==
  \A i \in 1..MaxIntents :
    i \in PaidOnChain /\ Live \subseteq PaidOnChain ~> i \in PaidIntents

\* Reservations whose approval may or may not have been sent.
Unsure ==
  {i \in DOMAIN intents :
     intents[i].status = "awaiting_approval" /\ Active(intents[i].approvals) # {}}

\* Such a reservation is eventually retried or released.
UnsureResolved == \A i \in 1..MaxIntents : i \in Unsure ~> i \notin Unsure
=============================================================================
