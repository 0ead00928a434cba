# Formal verification of the bug bounty escrow platform

The platform lets companies ("programs") lock USDC in an escrow contract on the
Arc chain, receive vulnerability reports, and pay researchers from the escrow.
It is a TypeScript monorepo: Solidity contracts, a NestJS API, Postgres
functions that hold all the business state, an AI review worker, and a Next.js
client. Money moves on chain; decisions are recorded in Postgres; the API
carries evidence from one to the other. The correctness of the system is the
agreement of those two ledgers under concurrency, lost answers and impatience,
and that is what this project models, checks and proves.

1. [Inventory](#1-inventory)
2. [Modules](#2-modules)
3. [Runs, bounds, fairness](#3-runs)
4. [Proofs](#4-proofs)
5. [What the checks found](#5-findings)
6. [Not modelled](#6-not-modelled)
7. [Plan](#7-plan)

Paths are relative to the repository. `M/` stands for
`packages/database/migrations/`, `A/` for `apps/api/src/`.

## 1. Inventory

### 1.1 BountyEscrow contract — `packages/contracts/src/BountyEscrow.sol`

*State.* The program owner, the optional admin controller, four counters
(`totalFunded`, `totalApprovedOutstanding`, `totalPaid`, `totalWithdrawn`),
`refundUnlockAt`, the flags `paused`, `deactivated` and `closed`, and one reward
per report key (`None`, `Approved`, `Paid`, with hash, researcher and `uint128`
amount). Its USDC balance lives in the token.
*Operations.* `syncExternalFunding`, `approveReward`, `payReward` (anyone),
`extendRefundUnlockAt`, `close`, `pause`, `unpause`, `deactivate`,
`withdrawRemaining`.
*Interacts with* the USDC token, the admin controller, the owner's wallet, the
relay, the deposit routes (plain transfers).
*Hard.* Every account's calls interleave in any order; unsynced deposits; the
lifetime inflow is reconstructed from three counters.
*Correct when* it is always solvent for what it approved, counters say what the
rewards say, no deposit is counted twice, commitments are final and paid once,
and an approved reward can never be stranded.

### 1.2 BountyEscrowAdmin controller — `packages/contracts/src/BountyEscrowAdmin.sol`

*State.* `programEscrows`, `programFeePaid`, `programDeactivated`,
`programFeeAmount`, and collected fees. *Operations.* Fee payment, registration,
the forwarded controls (deactivate, pause, unpause, close, extend, approve), fee
withdrawal, fee change. *Interacts with* every registered escrow, whose owner
acts on it too. *Correct when* the registry only names escrows of that program
under this controller, its deactivation flag agrees with the escrow's, each
program pays its fee once, and fees are all it ever holds.

### 1.3 Reward settlement — `A/escrow/reward-settlement.service.ts` and the SQL functions of `M/20260729000600`, `M/20260729000800`, `M/20260810000400`

*State.* `reward_settlement_intents` (awaiting_approval, approval_submitted,
ready_for_payout, payout_submitted, paid, failed), their append-only
`reward_settlement_operations` (attempts, each with status, idempotency key and
hash), the program's `reserved_pool` and `paid_pool`, and `reports.status`.
*Operations.* Create, observe approval, confirm approval, fail an attempt,
cancel, prepare/accept/attach a relay, observe an outside payout, confirm a
payout.
*Interacts with* the contract (through receipts, event scans and `eth_call`),
Circle's relay, the owner's browser.
*Hard.* `reconcile` reads a row, awaits the chain and Circle several times, and
then writes; several requests do that at once; any of them can be lost; anyone
can pay a reward outside the relay; a transaction may be sent and not mined.
*Correct when* report, intent and operations stay at one stage, the counters
match the intents, the database never says more than the chain, evidence is
never undone, and what is paid on chain is recorded in the end.

### 1.4 AI review queue — `M/20260731000100`, `M/20260801000300`, `M/20260810000500`, `A/reports/ai-review.repository.ts`, `packages/ai/src/orchestrator.ts`

*State.* `ai_triage_runs` per report revision (queued, running, completed,
failed, attempt_count, lease), results with `superseded_at`.
*Operations.* Enqueue, claim with stale re-queue, persist fingerprint, persist
ready, persist unavailable, manual retry.
*Hard.* Workers crash, leases expire while the worker goes on, retries delete
results, runs of one program must be ordered.
*Correct when* a completed run has its fingerprint and its result for good, at most
one run of a program executes, and every run finishes.

### 1.5 Funding intents and recovery — `M/20260729000100`, `000400`, `000700`, `000900`, `001000`, `A/escrow/escrow.service.ts`, `circle-funding-executor.ts`

*State.* `funding_intents` (status, expiry, recorded destination, verified
transaction, sync key, reconcile lease), destination attempts (claim token, arm,
uncertainty, hash), `escrow_funding_events`, `total_pool`, and in every open tab
the tokens it drew. *Operations.* Create, claim, arm, record, report uncertain,
release, replace, recovery check, reconcile under a lease, late reconciliation,
expire, cancel. *Hard.* Two tabs, lapsed leases, a wallet that sends and does not
answer, deposits credited by two paths, transactions that arrive after the
intent is gone. *Correct when* each transfer is credited exactly once and only if
it is on chain, a hash that is recorded stays recorded, and what arrives is
credited in the end.

### 1.6 Remaining-funds withdrawal — `M/20260729000800`, `M/20260801000700`, `A/escrow/escrow.service.ts`, `program-withdrawal-flow.ts`

*State.* `withdrawal_intents` (amount, counter before, status, two hashes, links
to what they replace), `withdrawn_pool`; in the browser the hashes that are not
yet acknowledged. *Operations.* Create, prompt, observe or attach a hash,
reconcile the close, reconcile the withdrawal, fail, replace.
*Hard.* Everything read from the chain is old when it is written; the platform
may close first; a prompt may be answered late or never; a reward may still be
settling. *Correct when* what is recorded happened once, replacements form a
line, the amount asked for is nobody's, and each withdrawal is recorded.

### 1.7 Escrow deployment and fee gate — `M/20260801000600`, `M/20260801001000`, `A/escrow/escrow.service.ts`, `program-lifecycle.tsx`

*State.* Fee quotes, the program's one row in `escrow_contracts` (status, key
number, deadline snapshot, Circle's identifiers), and what the page believes.
*Operations.* Quote, charge, report the charge, create the row, submit to Circle,
rotate the key once, store, wait, register with the controller, confirm.
*Hard.* Circle's answer may be lost or a refusal; the owner repeats everything;
the deadline is edited; quotes expire under a charge.
*Correct when* a program has one escrow, confirmed only when it is finished,
registered and its fee shown to be paid, and every started deployment settles.

### 1.8 Wallet challenges and payout wallets — `M/20260729000500`, `M/20260810000400`

Nonce challenges used once before they expire; a report freezes a snapshot of
its researcher's verified wallet. *Correct when* an intent only ever pays the
wallet the report had when it was created.

### 1.9 Gateway webhook subscription — `M/20260729000200`, `A/escrow/gateway-subscription-lifecycle.service.ts`

Replicas converge a remote subscription on the latest desired revision under a
lease; intents become ready when their address is subscribed. *Correct when* an
older revision never overwrites a newer one and readiness is never early.

### 1.10 Report lifecycle — `M/20260725002100`, `M/20260731000100`, `M/20260809000300`, `M/20260810000100`, `M/20260810000600`, `packages/domain/src/transitions.ts`

*State.* `reports` (status, text and its hash, severity, original, payout wallet
version, disclosure), `report_revisions`. *Operations.* Submit, update,
resubmit, choose the payout wallet, request information, validate, reject, mark
duplicate, send back, reopen, decide disclosure. *Hard.* The hash of an edit is
computed over a copy read earlier; marking locks one of the two reports;
settlement starts while the owner sends the report back. *Correct when* what is
settled is frozen, duplicates lead to an original, revisions and statuses move
together, and decided disclosures are final.

### 1.11 Program lifecycle and publishing — `M/20260809000100`, `M/20260801000900`

Draft, awaiting funding, active, paused, expired, closed; publishing needs a
confirmed and funded escrow. *Correct when* statuses follow the domain's table.

### 1.12 The rest

Legacy payment RPCs (superseded), attachments and storage cleanup,
authentication, onboarding and row-level security, the rewards read model,
notifications, AI providers and prompts, the API shell, shared contracts and
ABIs, the web client. They are request-scoped predicates, reads, I/O or
presentation; `PROJECT.json` lists each with its reason. The Circle and Arc
adapters (their answers) and the client's flows (reward approval, funding,
withdrawal, deployment) take part in the protocols and are modelled there.

## 2. Modules

```
 EscrowContract            one escrow as a record: Can<Call>, After<Call>
   |-- BountyEscrow        one contract, its callers, clock and depositors
   |     `-- EscrowPromise   abstract specification it refines
   |-- BountyEscrowAdmin   the controller and any number of escrows
   |-- RewardSettlement    browser, API, relay and database against the chain
   |     `-- RewardSettlementProofs
   |-- Withdrawal          the end of a program, against the chain
   |     `-- WithdrawalProofs
   `-- EscrowContractTheorems  used by the proofs about each of the four
         `-- BountyEscrowProofs  about BountyEscrow and BountyEscrowAdmin

 FundingIntent             tabs, reconcile requests, Circle, chain, database
   |-- FundingLedger         abstract specification it refines
   `-- FundingIntentProofs

 Deployment                fee gate, deploy requests, Circle, registration
   `-- DeploymentProofs

 ReportLifecycle           researcher, reviewers, owner, settlement, program
   `-- ReportLifecycleProofs

 AiReviewQueue             reports, queue rows and worker loops
   `-- AiReviewQueueProofs
```

Each specification has a module `MC...` that gives its constants small values.
What one module details another reduces to the effect it has on the rows it
shares: `ReportLifecycle` has settlement and funding as the writes they make to
report and program, `Withdrawal` has rewards as stages of one unit each,
`RewardSettlement` has the funded pool as a constant.

`EscrowContract` has no variables. A contract instance is a record with the
Solidity storage fields (same names) plus `balance`, its USDC. Each entry point
is a pair: `CanX` is the conjunction of its modifiers and reverts, `AfterX` the
storage it leaves. Three specifications use it with one, many, and one contract
behind a chain of transactions, so the contract is translated once. The amount
checks and the `uint128` narrowing of `approveReward` are `MaxReward`, the
largest representable reward.

`BountyEscrow` adds a clock, deposits, and history variables (`inflow`: USDC ever
sent in; `received`: USDC ever sent to each account). Each action carries its
caller. `EscrowPromise` says what a researcher is promised without counters,
clocks or flags: a pot, promises, payments. Its `pot` is mapped to
`balance - totalApprovedOutstanding`, an `Approved` reward to an open promise.

`BountyEscrowAdmin` keeps the escrows at a set of addresses. Anyone deploys an
escrow with any program key, owner and controller, at any time before or after
its registration; the admin wallet's calls go through the controller, while
`DirectCall` is everything an owner (or a controller that is not this contract)
sends to the escrow itself and `AnyoneCall` what a third party sends.

`RewardSettlement` is the composition of five parties.

| Party | State | Actions | Code |
|---|---|---|---|
| chain | `escrow`, `txs` | `MineBlock`, `ExternalPay` | `BountyEscrow.sol`, `A/escrow/arc-rpc.adapter.ts` |
| relay | `txs` of kind pay with an attempt | `RelaySubmitted`, `RelayDenied` | `A/escrow/circle-contracts.adapter.ts` |
| database | `intents`, `reports`, `reserved_pool`, `paid_pool` | `CreateIntent`, `Can*` and the write of the same name | the SQL functions |
| browser | `browser` | `OpenPrompt`, `Sign`, `SignUnsure`, `LeavePrompt`, `ReportUnsure`, `ReportHash` | `reward-approval-orchestrator.ts` |
| API | `requests` | `StartReconcile`, `StartCancel`, one action per await, `Lose` | `RewardSettlementService` |

The granularity follows the code: a SQL function is one transaction that locks
its rows, hence one step; the TypeScript between two awaits runs without
interruption, hence one step; every await is a step boundary at which other
requests, the chain and the browser move. A request carries `row`, the intent as
it last read it, and decides on that copy exactly as the code does; the writes
check the current row as the SQL does, and a rejected write ends the request
with nothing changed. A request may be lost at any await (`Lose`), which is a
process stop or a failed call after or before its effect. A block mines one or two
transactions, because the code reads the accounting at the *end* of a payout's
block.

`AiReviewQueue` stands beside them: it shares only the report with the money.

| Party | State | Actions | Code |
|---|---|---|---|
| people | `content`, `answering` | `SubmitReport`, `RequestInformation`, `EditReport`, `ResubmitReport`, `RetryReportAiRun` | `submit_report_atomic`, `update_report_atomic`, `retry_report_ai_run_atomic` |
| queue | `runs` | the enqueueing in those, `ClaimAiTriageRun` | `enqueue_report_ai_run_atomic`, `claim_ai_triage_run` |
| worker loops | `workers` | `AskProvider`, `PersistFingerprint`, `PersistReady`, `FinishReady`, `PersistUnavailable`, `DatabaseFails`, `Lose` | `AiReviewWorker.runOnce`, `SupabaseAiReviewQueueRepository` |
| time | `stale`, `due` of a run | `LeaseExpires`, `FallsDue` | `locked_at`, `next_attempt_at` |

A run is one row of `ai_triage_runs` with the hash of its revision and its row of
`ai_triage_results`; its place in `runs` is the order of enqueueing, which the
lock on `ai_program_queues` makes the submission sequence of its program. Each
SQL function and each single `update` or `insert` of the repository is one
step; `runOnce` can be overtaken between any two of them, and a replica starts a
new loop every five seconds without waiting for the last, so `Workers` are
loops, not processes. Each claim draws a random token; a loop has one claim at a
time, so the token is the loop (`holder`). `PersistReady` and `FinishReady` are
the two halves of `persistReady`: the insertion does not look at the lease, the
update does. `retried` and `retries` are history.

`FundingIntent` is the way USDC comes in. One transfer moves one unit.

| Party | State | Actions | Code |
|---|---|---|---|
| owner's tabs | `tabs` | `ContinueFunding`, `ClaimAttempt`, `CreateReplacement`, `ArmAttempt`, `PromptWallet`, `ObserveDestination`, `ReportUncertain`, `ReleaseRejected` | `circle-funding-executor.ts`, `program-lifecycle.tsx` and the SQL function of each call |
| owner | `intents` | `CreateFundingIntent`, `CancelFundingIntent`, `AttachDestinationHash`, `CheckFundingRecovery`, `Expire`, `EndProgram` | `M/20260729000100`, `000700` |
| reconcile requests | `requests` | `StartReconcile`, `ClaimReconciliation`, `VerifyDestination`, `ReadSync`, `SubmitSync`, `StoreSync`, `AwaitSync`, `ReconcileFunding`, `LoseRequest`, `LeaseLapses` | `EscrowService.reconcileFunding` |
| database | `rows`, `late`, `total_pool` | the writes of those, `ReconcileLateFunding` | `M/20260729000100` |
| Circle and chain | `circle`, `txs`, `totalFunded` | `RunSync`, `Mine` | `arc-rpc.adapter.ts`, `circle-contracts.adapter.ts` |

A tab keeps every hash its wallet returned until the server has taken it, and
before it signs for an intent again it first observes the one it keeps
(`MaySign`); a hash may be observed for an attempt of the intent it was not sent
for, since neither the tab nor the SQL compares the two.
A tab that is closed or reloaded loses its tokens: it is a tab that never moves
again, and the reloaded page is another of `Tabs`. `FundingLedger` says what all
this is for: transfers arrive, each is credited at most once and after it
arrived, and the pool is the number credited. `arrived` is mapped to the
successful transfers, `credited` to the union of both places the database
credits one.

`Withdrawal` is the way the rest goes out.

| Party | State | Actions | Code |
|---|---|---|---|
| chain | `escrow`, `now`, `sent` | `Deposit`, `SyncExternalFunding`, `Tick`, `ExtendRefundUnlockAt`, `ControllerCloses`, `Mine` | `BountyEscrow.sol` |
| rewards | `settled` | `ReserveReward`, `CancelReward`, `ApproveReward`, `PayReward`, `RecordPayout` | `M/20260729000600`, `000800` |
| creation | `requests` | `StartCreate`, `ReadCounters`, `ReadBalance`, `CreateIntent` | `EscrowService`, `M/20260729000800`, `M/20260801000700` |
| browser | `tabs`, `pending` | `PromptWallet`, `WalletSends`, `WalletRejects`, `WalletUnheard`, `ObserveHash`, `AttachHash` | `program-withdrawal-flow.ts`, `program-lifecycle.tsx` |
| reconciliation | `requests`, `intents`, `pool` | `StartReconcile`, `VerifyClose`, `VerifyWithdrawal`, `FailIntent`, `RecordWithdrawal` | `EscrowService`, `M/20260729000800` |

`Deployment` is how an escrow comes to be. A contract is named by the key it was
submitted under, a charge by its index. A charge is of this program or of another;
a quote that is marked paid keeps the charge it was marked paid on. The page
reports the charge it made (`ObserveFee`); the endpoint takes the hash of any
(`ReportCharge`), and what counts as evidence is what the Arc adapter compares
(`Evident`).

| Party | State | Actions | Code |
|---|---|---|---|
| page and wallet | `tabs`, `quotes`, `charges`, `deadline` | `GetQuote`, `SendCharge`, `MineCharge`, `ChargeAnswered`, `ChargeTimesOut`, `ObserveFee`, `ReportCharge`, `ChargeOther`, `QuoteFallsDue`, `LoadPage`, `EditDeadline`, `StartDeploy` | `program-lifecycle.tsx`, `M/20260801000600` |
| deploy requests | `requests`, `row` | `CreateRecord`, `Submit`, `Rotate`, `Store`, `Wait`, `Register`, `Registered`, `Confirm`, `LoseRequest` | `EscrowService.deploy`, `M/20260801001000` |
| Circle | `circle`, `registration` | the answers in `Submit`, `FinishDeployment`, `FinishRegistration` | `circle-contracts.adapter.ts` |

Circle answers one key with one operation once it has accepted it, refuses what
it cannot validate (HTTP 400), and may accept without being heard; these are the
three answers of `Submit`.

`ReportLifecycle` is a report from submission to payment or disclosure, with its
program. Where the code reads, awaits and writes, or locks one row of the two it
relates, there are two steps: `StartUpdate`/`WriteUpdate`,
`StartSelect`/`WriteSelect`, `StartMarkDuplicate`/`FinishMarkDuplicate`. The
others (`SubmitReport`, `RequestInformation`, `Validate`, `Reject`,
`SendBackForReview`, `DecideDisclosure`, `PublishProgram`, `SetProgramStatus`,
`DeadlinePasses`) are one SQL transaction each. Settlement appears as what it
does to the report (`CreateIntent`, `CancelIntent`, `ConfirmApproval`,
`ObservePayout`, `FailPayout`, `ConfirmPayout`), funding as its credits
(`FundingCompletes`, `LateFunding`).

Data that no property distinguishes is left out: addresses of other programs,
audit rows, hashes as text, wording of errors. A transaction hash is the index of
the transaction, an attempt number the index of the operation.

## 3. Runs

| Run | States (about) | Question |
|---|---|---|
| `escrow` | 27 k | Is one contract safe under every order of calls, is an approved reward paid whatever the owner and controller do, and does it implement the promise? |
| `admin_registry` | 1.10 M | Do the registry and two escrows stay right under controller, owners and third parties? |
| `settlement_concurrent` | 1.15 M | Do two concurrent stale requests keep report, intent, operations and chain consistent, the program's counters equal to its intents, and what it offers to what the contract can honour? |
| `settlement_liveness` | 0.1 M | Two stale requests, a lost one, a denied relay, an outside payer: is a payout on chain recorded in the end, but for the exceptions it names? |
| `ai_queue` | 0.51 M | Do worker loops, lapsed leases, losses and a retry keep completed runs true and final, and a program's runs apart? |
| `ai_queue_liveness` | 0.24 M | Does every run finish, through losses, lapsed leases and failing providers? |
| `funding` | 1.26 M | With two tabs, reverts, replacements and a lost request: is each transfer credited once, is a known one never sent again, is a recorded one kept, and is the ledger implemented? |
| `funding_liveness` | 0.37 M | With two reconcile requests under a lease that lapses: is one sync alive, and is every transfer that arrives credited? |
| `reports` | 3.52 M | Two reports of a program, two overlapping edits or wallet changes of one of them, under everybody's interleaving: is what settles frozen, do duplicates lead to an original, is the shown revision the one of the row's hash? |
| `withdrawal` | 0.25 M | Is what is recorded as withdrawn real and counted once, are replacements a line, is what is asked for nobody's, and is a withdrawal recorded, but for the exceptions it names? |
| `deployment` | 0.54 M | Two requests of a page that may be reloaded: when does Circle deploy twice, what is confirmed, and does a started deployment settle? |
| `settlement_order` | | Expected violation, see section 5. |

More configurations lie beside them. These hold as well:
`MCSettlementReports` (two requests of two reports that share one pool,
`PoolsMatchIntents`, `AvailableIsHonest`), `MCFundingTwo` (two intents of one tab,
two transfers, `CancelMovesNothing`), `MCWithdrawalRequests` (two requests that
both create and reconcile, `OutcomesKept`). `MCSettlementStale`, `MCSettlementOverbooked`,
`MCSettlementUnsure`, `MCAiQueueAlone`, `MCAiQueueContinues`,
`MCAiQueueSuperseded`, `MCFundingReplay`, `MCFundingReopened`, `MCReportsHash`,
`MCReportsDomain`, `MCWithdrawalPayouts`, `MCWithdrawalStale`,
`MCDeploymentTwice`, `MCDeploymentResume`, `MCDeploymentFee` and
`MCDeploymentPaid` print the counterexamples of section 5. Type invariants are checked by a run or a
configuration of each module, or proved.

**Bounds.** Each is a named constant that appears only in the guard of the action
it limits. Deadlock is checked only where nothing is bounded away (`escrow`,
`admin_registry`); elsewhere everything may be paid, cancelled, completed or
used up, and then nothing is left to do.

* `escrow`: two reports, amounts up to 2, inflow up to 4, two
  ticks of the clock around an initial unlock time of 1, callers that are owner,
  controller and nobody, recipients one of which is the owner. Enough for two
  rewards of different size, an amount over the limit, a late deposit after
  closing, an extension past and a withdrawal after the unlock time.
* `admin_registry`: two program keys and two addresses, so that one key can be
  claimed by two escrows, one escrow can carry the wrong key, and one a foreign
  controller.
* `settlement_*`: two requests are enough for one to be stale with respect to the
  other, in both runs; two signatures for a second approval that reverts and two
  relay attempts for an attempt after a failure (`settlement_concurrent`); one of
  each and one lost request for liveness, enough for an outside payer to compete
  with the relay. Two reports, or a second intent after a cancelled one, compete
  for the pool in `MCSettlementReports` and in the theorems. `MaxUnsure`,
  `MaxLost`, `MaxIntents` bound retries.
* `ai_queue*`: two loops, so that one is overtaken; two attempts, so that there
  is a last one that is not the first (the code has five); two runs, of two
  revisions of a report (safety) or of two reports (liveness), for order and
  supersession; one retry. The retried run is the interesting one, so liveness
  goes without: a retry resets the attempts, and a person who retries for ever
  keeps a queue busy for ever. All run on one program; that several programs
  share the queue is covered by the proofs, which assume nothing of `ProgramOf`.
* `funding`: two tabs (one is the reload of the other, or both are open), two
  transfers and one revert, so that a replacement exists and both the attempt and
  its replacement may arrive; one request that may be lost, against the scan
  before a withdrawal. Two attempts per intent (`MaxAttempts`). `funding_liveness` has two requests for the lease, two
  syncs so that one may be given up, and both the send and the spend route.
* `withdrawal`: one reward of one unit that may be reserved, approved, paid and
  recorded at any time; one deposit nobody has credited; three intents, so that a
  replacement follows a failure and another follows that or a completion; two
  sent transactions, one of them perhaps by a wallet that does not answer; time
  up to 2, so that the lock is extended past a prompt. One request creates
  intents (`Creators`) and another reconciles (`Reconcilers`), so that a counter
  may be read under a withdrawal that is being mined and recorded. Two creations
  or two reconciliations at once are in `MCWithdrawalRequests` and the theorems.
* `deployment`: two keys are the code's own maximum; two requests (of pages that
  come one after another), two quotes so that one expires under a charge, one
  charge, of this program or of another, two deadlines so that one is edited, two
  lost requests. A second charge of the program, which reverts, is in
  `MCDeploymentFee` and the theorems.
* `reports`: two reports, so that each may be marked a duplicate of the other;
  two texts, two revisions and two wallet versions, so that one is older; one
  unit of pool, so that the two compete for it; two requests in flight, both about
  one of the reports (`ReportOf`), so that edits, resubmissions and wallet changes
  of it overlap. Requests about both reports are in the theorems.

**Fairness.**

* Contract: `WF(PayReward(k))`. `payReward` has no access control, so one
  participant willing to send it is enough; the owner, controller and depositors
  may do what they like or nothing.
* Settlement: `WF` of mining, because the chain includes pending transactions;
  `WF` of every step of a request that was started, because a Node process goes
  on with a promise it awaits; `SF` of starting a reconciliation of each intent,
  because clients poll `reconcile` again and again, so a request that is possible
  infinitely often is made. Neither the owner's wallet, outside payers nor
  cancellation is fair. `Lose` competes with every step, `MaxLost` times.
  `PayoutRecorded` excepts a payout filed under an attempt that was failed
  (`Misfiled`) and a program that has reserved another reward (`Accompanied`);
  both are in section 5.
* AI queue: `WF` of a loop's claim, because every replica drains the queue every
  five seconds; `WF` of the steps of a loop that has a job, because the provider
  call has a timeout and the rest are awaits; `WF` of time (leases lapse, delays
  end). Nobody has to submit, answer or retry. `Lose` may happen at every step.
* Funding: `WF` of mining, of Circle's sync, of a request's steps, of a lease
  lapsing; `WF` of ending the program and of the scan that credits late transfers,
  because `prepareWithdrawalCreation` runs it before each withdrawal and the
  owner takes the rest out of a program that has ended. No tab is fair: a hash
  the browser never reported is credited nevertheless.
* Withdrawal: `WF` of mining; `WF` of reporting a hash the browser holds, because
  it keeps it in local storage and sends it on every load; `WF` of the steps of a
  request; `SF` of reconciling an intent, because the page polls until the intent
  is final. Nobody has to sign. `WithdrawalsRecorded` leaves out four
  situations it names: a wallet's answer was lost, a reward was reserved
  meanwhile, a deposit is not yet credited (`Unmatchable`), an intent was created
  from a counter that is older than a recorded withdrawal (`Outdated`); section 5
  says what happens in them.
* Deployment: `WF` of a request's steps, of Circle finishing what it took, of an
  owner whose page offers the button pressing it, and of a page that does not
  show the fee as paid being loaded again. `Lose` may stop a request, and
  `DeploymentSettles` names the three situations in which a deployment is left
  where it is (`Abandoned`).

Symmetry is used only in runs without liveness properties: over
report keys, requests, program keys, escrow addresses, worker loops, content
hashes, tabs and texts, which no definition tells apart.

## 4. Proofs

| Module | Theorems |
|---|---|
| `EscrowContractTheorems` | lemmas: every `AfterX` under `CanX` keeps `Sound` (solvent, counters equal to the sums over rewards), sums as cardinalities of sets of units (over rewards, programs, transactions, intents), identity fields |
| `BountyEscrowProofs` | `TypeCorrect`, `SolvencyHolds`, `CountersMatchRewardsHolds`, `FundsConservedHolds`, `WithdrawnMeansSettledHolds`, `CommitmentsKeptHolds`, `NoNewDebtAfterEndHolds`, `ImplementsPromiseHolds`; of the controller `RegistryInvHolds`, `RegistrySoundHolds`, `DeactivationAgreesHolds`, `EscrowsSoundHolds`, `FeesAccountedHolds`, `AdminTypeOKHolds` |
| `RewardSettlementProofs` | `SettlementInvHolds`, `SettlementTypeCorrect`, `StagesAgreeHolds`, `PoolsMatchIntentsHolds`, `RecordedIsRealHolds`, `SettlementKeptHolds`, `AvailableIsHonestHolds` |
| `AiReviewQueueProofs` | `QueueInvHolds`, `QueueTypeCorrect`, `CompletedHasResultHolds`, `AloneUnlessRetriedHolds`, `CompletedIsFinalHolds` |
| `FundingIntentProofs` | `FundingInvHolds`, `FundingTypeCorrect`, `CreditedOnceHolds`, `DestinationKeptHolds`, `ImplementsLedgerHolds`, `SyncedOnceHolds`, `KnownNeverRepeatedHolds`, `CancelMovesNothingHolds` |
| `WithdrawalProofs` | `WithdrawalInvHolds`, `TypeOKHolds`, `RecordedOnceHolds`, `ReplacementsLinearHolds`, `AvailableIsThereHolds`, `OutcomesKeptHolds` |
| `ReportLifecycleProofs` | `ReportInvHolds`, `ReportTypesHold`, `SettledIsFrozenHolds`, `DuplicateChainsEndHolds`, `RevisionIsCurrentHolds`, `NeverReopenableHolds`, `DisclosedIsFinalHolds`, `ProgramFollowsDomainHolds` |
| `DeploymentProofs` | `DeploymentInvHolds`, `DeploymentTypeCorrect`, `SecondNeedsRefusalHolds`, `ConfirmedIsSoundHolds`, `IdentifiersKeptHolds` |

They hold for every number of reports, accounts, programs, escrows, intents,
tabs, requests and loops and every amount and bound, under the named assumptions of
each module: `EscrowConstants`, `AdminConstants` (finitely many report and
program keys, the owners are accounts, the admin contract owns no escrow),
`SettlementConstants` (finitely many reports, rewards between 1 and the largest),
`QueueConstants` (at least one attempt is allowed), `FundingConstants`
(at least one sync key; no tab is called "none"), `WithdrawalConstants` (finitely
many reports, time for at least one instant), `ReportConstants` (finitely many
reports, at least one wallet version) and `DeploymentConstants` (at least one
deadline).

*Sums.* `CountersAgree` compares counters with sums over the rewards mapping. A
sum is written as the cardinality of a set of units (`UnitsOf`: the pairs of a
report and 1..amount), so that approving adds a disjoint finite set and paying
moves one; the library's cardinality facts then do what induction would.
`UnitSum(f, S)` is the same for any table of naturals over a finite set: fees
charged per program, what each transaction took out, what each intent recorded.

*`IInv` of the escrow.* Solvency alone is not inductive: `approveReward` checks
the live balance against a *counter*, so solvency needs the counter to equal the
sum of approved rewards, and this needs types. `WithdrawnMeansSettled` needs in
addition that withdrawing requires `closed` and zero outstanding, and that
approving is impossible once closed.

*`RegistryInv`.* `DeactivationAgrees` is only inductive over escrows that are not
registered as well: an escrow answering to this controller cannot have been
deactivated *before* its registration, because only its controller can
deactivate it and the controller only reaches registered escrows. That in turn
needs that the admin contract owns no escrow. `FeesAccounted` is
inductive with the types of what it counts (`FeesKept`): a program that is not
marked as paid was charged nothing, so a payment adds its fee to the sum and
overwrites no charge that was counted.

*`SettlementInv`.* `StagesAgree` and `RecordedIsReal` fail to be inductive in one
place: a request writes what it found out several awaits earlier. So the
invariant has six parts. `RowsOK` says for each status which attempts a row may
have (`RowOK`) and that each recorded hash is a transaction for this very reward,
mined if it is a confirmed approval or a payout (`EvidenceOK`). `ChainOK` says
that the escrow shows, for ever, what each of its successful transactions did.
`RequestsOK` says that the copy a request holds is of its intent's report and
amount and that the call it is about to make has its evidence on chain
(`StageOK`). This survives everything other parties do, because transactions are
only added and their success is final (`TxsGrow`), and because an intent's report
and amount never change (`IntentsGrow`); it says nothing of the intent's status,
which may have moved on: the database checks that again. `TxsOK` ties each
transaction to the intent it was sent for, `PoolsOK` counts amounts as units, and
`PromptsOK` is the types of the rest. A write to an attempt is first shown to give a
good row (`Writes`), then to leave the other rows alone (`RowWritten`: of the same
report there are only cancelled ones, which do not mind where the report goes).
`AvailableIsHonest` is then an injection: each unit the escrow committed belongs
to a successful approval, that approval to an intent, and this intent is live or
paid, or the approval is one of `LateApprovals`.

*`QueueInv`.* That a completed run has its evidence says nothing of the worker
about to complete it, so `HeldWork` is added: a loop that still holds its run and
is past a write finds what it wrote. It survives other loops because they write
only rows they hold, or only add a result, and a retry because it clears the
holder together with the evidence. `AloneUnlessRetried` only speaks of running
runs and is strengthened to `PriorsFinished`: everything before a run that was
ever started is finished, or was retried by hand. Every step but enqueueing and
claiming changes one row, so the proof has one lemma for that (`OneRowStep`).

*`FundingInv`.* That the pool counts each transfer once is not inductive: a
request credits the transfer it verified several steps ago, while other requests
verify, expire or replace. `KeysAgree` says that a sync belongs to the intent's
current key, `LeasesAgree` that whoever holds a lease, live or lapsed, still finds
the keys it read, `CreditsAgree` that every row of `escrow_funding_events` is a
transfer that arrived, with the sync and the verified transaction its intent
still has. So crediting adds one to the pool, or nothing when the scan was there
first. `DestinationKept` needs `DestinationsAgree` too: a recorded
destination that has not reverted belongs to an attempt that is still open, and
only a failed attempt lets go of one. The refinement sends each step to an
arrival, a credit (of the set the scan took, or of one transfer) or a stutter.

*`SyncsAgree`.* `SyncedOnce` says that of an intent's sync transactions at most
one was not given up. A sync is only sent under a key a request read earlier, so
the invariant says that Circle knows no key beyond the intent's current one,
that every earlier one failed, and that no request holds a later one.

*`HashesAgree`.* `KnownNeverRepeated` says that an attempt whose hash was returned
by a wallet is never sent a second time while the first may arrive. It is about
what a tab remembers and what the server knows of it, so the invariant relates
the three: one attempt of an intent is open at a time (`AttemptsAgree`), a
returned hash is of an attempt its tab prompted for, and as long as the server
calls that attempt uncertain the tab still keeps the hash (`ReturnedAgree`), and
a tab on its way to the wallet keeps no hash and is the only one there for its
attempt (`PromptsAgree`). The proof corrected the model. With two intents TLC had
shown the invariant false, because the tab of the model signed again while it
kept a returned hash; the page observes that hash first
(`program-lifecycle.tsx:2555-2640`, `program-funding-flow.ts:736-766`), and the
model now does too. `CancelMovesNothing` adds that an attempt fails with the hash
of its revert, or with its intent, which is then given up for good
(`AttemptsFailWell`): so in an intent that can be cancelled every attempt is as if it had
never been armed, and no hash came back.

*`WithdrawalInv`.* It has five parts, one per party. `ChainOK`: the escrow is sound,
holds what the rewards' stages say, and has paid out exactly what the successful
transactions took. `IntentsOK`: a row past a step has the hash of that step
(`RowOK`), and only a failed intent has a successor, and only one (`Line`).
`BrowserOK`: prompts and pending hashes are of intents and transactions that
exist. `RequestsOK`: the step a request is about to take rests on a transaction
it verified, and what it copied is still there. `RecordsOK`: the pool counts what
complete intents recorded, and each complete intent has a successful withdrawal
of its amount that no other has. `RecordedOnce` then compares two sums over units,
the recorded and the mined, by the injection from complete intents to
transactions; `AvailableIsThere` needs the counters of the pool to lag behind the
contract's, never to lead.

*`ReportInv`.* `SettledIsFrozen` needs to know which columns are set together at
every status (`ColumnsOK`), which status goes with each stage of the intent
(`StagesOK`), and what a running request or an unfinished mark may still write:
both hold a lock or check the status again (`MarksOK`, `RequestsOK`). That chains
of duplicates end is proved by the order of submission: an original is earlier
than its duplicate (`ChainsOK`), so in any set of duplicates the earliest has its
original outside; that there is an earliest is well-foundedness of the naturals.
`NeverReopenable` is `ProgramOK`: a program that was published has a pool.

*`DeploymentInv`.* Each request's claim about the row or about Circle
(`RequestSound`: "the row holds my key's identifiers", "my contract is
complete") must survive every other request. One frame lemma does this: what the
row, Circle's deployments and the registration have gained is never lost
(`Grows`), and that keeps every claim; each step is then only shown to grow and
to establish its own. `SecondNeedsRefusal` is `KeysSound`: a second key is only
known, to a row or to a request, after Circle refused the first. A quote keeps
the charge it was marked paid on, and charges only gain outcomes, so the evidence
behind a paid quote stays (`EvidenceKept`).

*Refinement.* `ImplementsPromise` is proved by showing `IInv`-states map to
promise states, each call to a promise step or a stutter: a deposit funds the
pot, approval commits, payout honours, withdrawal refunds (all promises honoured
because nothing is outstanding), everything else stutters.

*Only model-checked.* Liveness, which is outside the prover's reach
(`ApprovedIsPaid`, `PayoutRecorded`, `RunsFinish`, `TransfersCredited`,
`WithdrawalsRecorded`, `DeploymentSettles`). Every other property of a passing
run is stated by a theorem.

## 5. Findings

What the code does and a document, comment or message says otherwise, or what
leaves money or a row stuck. The first is a run expected to be violated, and
`PROJECT.json` quotes the sentence; the configuration named with each of the
others shows its counterexample, those without one were met while modelling.
`CP` is `docs/create-program-owner-flow-for-figma.md`, `RR`
`docs/review-report-owner-flow-for-figma.md`.

**Settlement**

* **`settlement_order`** — a payout's accounting is read at its own block and
  compared with the program row as it is *now*
  (`M/20260729000800_cp13_completion_gaps.sql:616-644`). If two rewards are paid
  in different blocks and the later is confirmed first, the earlier can never be
  confirmed: report `payment_pending` and amount reserved for ever.
* **`PayoutAlwaysRecorded`** (`MCSettlementStale.cfg`) —
  `fail_reward_settlement_operation_atomic` (`M/20260729000600:657`) fails
  whichever attempt is active. A request that saw a relay fail can so fail the
  real outside payout another request has just recorded in its place; the known
  hash is then returned as a failed row and never confirmed. `PayoutRecorded`
  (checked, with two requests) says that for a program with one reward this is the
  only way.
* **`NeverOverbooked`** (`MCSettlementOverbooked.cfg`) — cancelling scans for
  *mined* approvals; one that is sent and not mined commits the contract after
  the reservation is released. `AvailableIsHonest` (checked and proved) says this
  is the only way.
* **`UnsureResolved`** (`MCSettlementUnsure.cfg`) — an approval recorded as
  uncertain that was in fact never sent is never released and never retried.
  CP:1170 says it must be one or the other.

**AI queue**

* **`QueueContinues`** (`MCAiQueueContinues.cfg`) — a claim returns a lapsed run to
  the queue only while it has attempts left. A worker that stops on the last
  attempt leaves the run running for ever, retrying by hand is refused, and every
  later run of the program waits. `RunsFinish` (checked to hold) says this is the
  only way.
* **`OneAtATime`** (`MCAiQueueAlone.cfg`) — a failed run that is retried by hand
  goes back to its old place in the queue, while a later run of the program may be
  running: the claim compares with earlier runs only, so both run at once.
  `docs/submit-bug-researcher-flow-for-figma.md:120` says a program has at most
  one job running. `AloneUnlessRetried` (checked and proved) says that this is the
  only way.
* **`PriorResultsSuperseded`** (`MCAiQueueSuperseded.cfg`) — the results of earlier
  revisions are marked when the new revision is enqueued; one that is still being
  worked on inserts its result afterwards, and it is never marked, although
  RR:743 says it is. Readers compare revision and hash, so it is not shown as
  current.

**Funding**

* **`NeverResubmits`** (`MCFundingReplay.cfg`) — an attempt recorded as uncertain is
  armed and prompted again by the tab that still holds its token
  (`program-lifecycle.tsx:2574`), while the message of the same state promises "this
  screen will never submit another Send while the attempt is uncertain"
  (`program-funding-flow.ts:721`). If the first send did happen, two transfers
  leave. Both are credited in the end (`TransfersCredited`), and only a wallet
  that did not say what it did is asked twice (`KnownNeverRepeated`).
* **`CompleteIsFinal`** (`MCFundingReopened.cfg`) — `observe` has no guard on the
  intent's status (`M/20260729000700:1442`), so a hash reported by a second tab
  reopens an intent that is complete.
* An intent that expired while the late scan had claimed nothing for it can be
  cancelled although a replacement attempt is armed; its transfer is then
  credited by the scan only.
* `markFundingSyncing` compares nothing with the row it read; a stale request may
  set the status back, and the next reconciliation mends it.

**Reports and programs**

* **`HashCoversText`** (`MCReportsHash.cfg`) — "The hash covers the post-edit state"
  (`A/reports/report.service.ts:167`), but it covers a merge with a copy read
  before the write. Two edits in flight leave a row with the hash of neither.
  `RevisionIsCurrent` (checked and proved) says that revision and row at least
  carry the same hash.
* **`ReportFollowsDomain`** (`MCReportsDomain.cfg`) — a payout that fails takes the
  report from `payment_pending` back to `reward_approved`
  (`M/20260729000600:679`), a transition `packages/domain/src/transitions.ts:31`
  does not have.
* Reopening a duplicate is dead code: it asks for an active program without a pool
  (RR:231), and publishing demands one. `NeverReopenable` (checked and proved).
* Sending a validated report back does not check that the program is still
  reviewable, which RR:498 asks for; a request for information in a program that has ended
  leaves the report in `needs_information`, because resubmitting is refused.

**Withdrawal**

* **`PayoutsConfirmable`** (`MCWithdrawalPayouts.cfg`) — a payout is confirmed only
  if the balance at its block equals what the database expects
  (`M/20260729000800:635-644`, `arc-rpc.adapter.ts:841-852`). A deposit nobody
  has synced, or a withdrawal not yet recorded, makes them differ for good: the
  reward is paid and never recorded. CP:1166-1167 has no such condition.
* **`StaleWithdrawalsRecorded`** (`MCWithdrawalStale.cfg`) — the
  counter an intent starts from is read before the previous withdrawal is mined;
  the later intent then never matches its receipt. `WithdrawalsRecorded` names it
  (`Outdated`) and the other ways a withdrawal is lost, and says there are no more.
* A wallet that sends without answering, or two tabs, lead to a second signature;
  it reverts, and if it is reported first the intent fails while the first
  transaction has withdrawn. The hash the API refused stays in local storage.
* The page shows the platform closing as a way on, but only the owner may
  withdraw (`withdrawRemaining` is `onlyOwner`; CP:57, CP:2342).

**Deployment**

* **`OneContract`** (`MCDeploymentTwice.cfg`) — CP:169-171 says a retry never creates
  a second contract. Two requests of one key, one refused and one accepted
  unheard, do: the refused one moves to the second key. `SecondNeedsRefusal`
  (checked and proved) says it takes a refusal.
* **`AcceptedResumes`** (`MCDeploymentResume.cfg`) — the page's comment says that it
  resumes from the server's record after a reload (`program-lifecycle.tsx:955`,
  CP:2003); it only shows the record, and nothing calls `deploy` again unless the
  page still offers the button.
* **`PaidWasCharged`** (`MCDeploymentPaid.cfg`) — CP:25 opens deployment once the
  exact payment on chain is verified, of a fee that CP:2539-2540 takes per program.
  The evidence for a paid quote is a charge with its payer and amount
  (`arc-rpc.adapter.ts:484-513`); the event's program key is not compared, no hash
  is kept unique, and `registerProgramEscrow` does not ask for `programFeePaid`. The
  charge of another program so serves this one too, and this one is deployed
  without a charge of its own. `ConfirmedIsSound` (checked and proved) therefore
  asks for a charge of some program.
* **`ChargeRecorded`** (`MCDeploymentFee.cfg`) — a charge whose answer the page did
  not wait for, or whose quote expired under it, is never reported; the fee is
  paid on chain and the program is asked again (CP:181-184, CP:2004, CP:2533).
* A registration that fails is answered from the same idempotency key for ever; a
  second refusal leaves the row `accepted` rather than in the error state
  CP:174-175 describes; a failed deployment is final and nothing replaces it.

## 6. Not modelled

* Settlement: deposits, withdrawals, pausing and closing of the escrow while
  rewards are settled (the pool is the constant `Pool`; `Withdrawal` has the two
  sides together with rewards of one step); the verification of bytecode and log
  encoding in the Arc adapter; audit and review rows; the proof that a payout
  wallet is controlled; authorisation.
* AI queue: the claim for one given program, which has no caller; the statuses of
  a report other than "its researcher may edit it" (so a retry is possible in
  more states than the code allows); what a comparison reads of earlier runs; the
  provider's answers, of which only success, passing and final failure matter.
* Contract: reentrancy (every external call is to USDC, after the storage is
  written, under `nonReentrant`); `uint256` overflow of counters (checked
  arithmetic reverts, and USDC's supply is far below). A reward paid to the
  escrow's own address is excluded by `Wallets`.
* Funding: retrying a bridge's delivery, telemetry, deposits into the source
  balance and unified balances whose transfer emits several logs. Amounts are
  equal units; the owner pastes only hashes of transactions of his own; the quote
  is fresh and the source collection ready when they are asked for; consecutive
  scans of blocks overlap, so that the scan misses nothing.
* Withdrawal: the program has ended and the lock can be reached in the first
  state; idempotency keys, which a model without repeated HTTP calls has no use
  for; rewards have no relay and no attempts here.
* Deployment: one program; the passing of the deadline, whose effect on Circle is
  among its failures; checks of artifact and bytecode; the wallet's network
  switch and token approval; waived fees, which nothing sets.
* Reports: comments, attachments, impacts and scopes; the readiness of a
  program's text for publishing; wallet challenges, which one locked transaction
  uses up or refuses.
* Components marked `not_modelled` in `PROJECT.json`: the Gateway subscription only
  gates when an intent's source balance is offered, and each of its writes
  compares the revision it read under a lease; the legacy payment RPCs are
  superseded and not called; attachments are uploads and deletions; authentication
  and row-level security are predicates of one request; read models and
  notifications follow the state modelled here; AI providers, the API shell,
  shared contracts and generated code have no state of their own. Most of the
  client is forms and presentation: of it only what prompts a wallet or carries a
  hash is modelled.

## 7. Plan

Done, in this order: the contract, its controller and their proofs; reward
settlement and its proofs; the AI review queue and its proofs; funding with its ledger,
refinement and proofs; the report and program lifecycle and their proofs;
withdrawal and its proofs; deployment and its proofs.

What would come next:

1. An abstract specification of settlement (a reward is reserved, committed and
   paid once) that `RewardSettlement` refines, as `FundingLedger` is for funding.
2. `GatewaySubscription`: desired revision, sync lease and readiness.
3. Deposits and withdrawals in `RewardSettlement` itself, so that relay attempts
   and withdrawals race in one model.
