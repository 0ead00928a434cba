----------------------- MODULE RewardSettlementProofs -----------------------
(***************************************************************************)
(* Proofs about RewardSettlement, for any number of reports, intents,      *)
(* requests, transactions and amounts: report, intent and operations stay  *)
(* at one stage, the program's counters are the sums of its intents, and   *)
(* the database never says more than the chain.                            *)
(***************************************************************************)
EXTENDS RewardSettlement, EscrowContractTheorems

-----------------------------------------------------------------------------
(***************************************************************************)
(* The inductive invariant                                                 *)
(***************************************************************************)
OperationRow == [status : OperationStatus, tx : Nat]

IntentRow ==
  [report : ReportKeys, amount : Amounts, status : IntentStatus,
   approvals : Seq(OperationRow), payouts : Seq(OperationRow)]

Outcome == {"pending", "success", "reverted"}

TxRow ==
  [kind : {"approve", "pay"}, report : ReportKeys, amount : Nat, intent : Nat,
   attempt : Nat, outcome : Outcome, post : Nat \X Nat]

Stages ==
  {"findApproval", "scanBeforeCancel", "observeApproval", "observeInstead", "cancel",
   "verifyApproval", "confirmApproval", "failApproval", "reread", "rereadForPayout",
   "rereadRelay", "findPayout", "observePayout", "confirmPayout", "prepareRelay",
   "submitRelay", "acceptRelay", "waitRelay", "attachHash", "failPayout", "verifyPayout"}

RequestRow == [at : Stages, intent : Nat, row : IntentRow, tx : Nat]

Has(ops, statuses) == \E n \in DOMAIN ops : ops[n].status \in statuses

\* One attempt is in flight; an attempt has a hash from its submission on, and
\* none before.
AttemptsOK(ops) ==
  /\ \A m, n \in DOMAIN ops :
       ops[m].status \in ActiveStatus /\ ops[n].status \in ActiveStatus => m = n
  /\ \A n \in DOMAIN ops :
       /\ ops[n].status \in {"submission_uncertain", "provider_accepted"} => ops[n].tx = 0
       /\ ops[n].status \in {"submitted", "confirmed"} => ops[n].tx # 0

\* What a status of the intent says of its operations and its report.
RowOK(row, report) ==
  /\ AttemptsOK(row.approvals)
  /\ AttemptsOK(row.payouts)
  /\ ~Has(row.approvals, {"provider_accepted"})
  /\ row.status \in {"awaiting_approval", "approval_submitted"} =>
       report = "validated" /\ ~Has(row.approvals, {"confirmed"}) /\ row.payouts = <<>>
  /\ row.status = "awaiting_approval" => ~Has(row.approvals, {"submitted"})
  /\ row.status = "approval_submitted" => Has(row.approvals, {"submitted"})
  /\ row.status \in {"ready_for_payout", "payout_submitted", "paid"} =>
       Has(row.approvals, {"confirmed"}) /\ ~Has(row.approvals, ActiveStatus)
  /\ row.status = "ready_for_payout" =>
       report = "reward_approved" /\ ~Has(row.payouts, {"provider_accepted", "submitted", "confirmed"})
  /\ row.status = "payout_submitted" =>
       /\ report = "payment_pending"
       /\ Has(row.payouts, {"provider_accepted", "submitted"})
       /\ ~Has(row.payouts, {"confirmed"})
  /\ row.status = "paid" =>
       /\ report = "paid"
       /\ ~Has(row.payouts, ActiveStatus)
       /\ \E n \in DOMAIN row.payouts : With(row.payouts, {"confirmed"}) = {n}
  /\ row.status = "failed" =>
       ~Has(row.approvals, ActiveStatus \cup {"confirmed"}) /\ row.payouts = <<>>

\* In a chain T of transactions: those that approve a reward, those of them
\* that committed it, and those that paid a report.
Approving(T, row) ==
  {t \in DOMAIN T : T[t].kind = "approve" /\ T[t].report = row.report /\ T[t].amount = row.amount}

Committing(T, row) == {t \in Approving(T, row) : T[t].outcome = "success"}

Paying(T, k) ==
  {t \in DOMAIN T : T[t].kind = "pay" /\ T[t].report = k /\ T[t].outcome = "success"}

\* Recorded hashes are of this reward's transactions; an approval is confirmed,
\* and a payout recorded at all, only once its event is on chain.
EvidenceOK(row, T) ==
  /\ \A n \in DOMAIN row.approvals :
       /\ row.approvals[n].tx # 0 => row.approvals[n].tx \in Approving(T, row)
       /\ row.approvals[n].status = "confirmed" => row.approvals[n].tx \in Committing(T, row)
  /\ \A n \in DOMAIN row.payouts :
       row.payouts[n].tx # 0 => row.payouts[n].tx \in Paying(T, row.report)

RowsOK ==
  /\ intents \in Seq(IntentRow)
  /\ Len(intents) <= MaxIntents
  /\ reports \in [ReportKeys -> ReportStatus]
  /\ \A i \in DOMAIN intents :
       RowOK(intents[i], reports[intents[i].report]) /\ EvidenceOK(intents[i], txs)
  /\ \A i, j \in DOMAIN intents :
       intents[i].report = intents[j].report /\ "failed" \notin {intents[i].status, intents[j].status}
         => i = j

PoolsOK == PoolsMatchIntents /\ reserved_pool + paid_pool <= Pool

Committed(e, k, amount) ==
  /\ e.rewards[k].status # "None"
  /\ e.rewards[k].amount = amount
  /\ e.rewards[k].approvedContentHash = ContentHash[k]
  /\ e.rewards[k].researcher = PayoutWallet[k]

\* What a successful transaction did to the escrow.
Done(e, tx) ==
  IF tx.kind = "approve" THEN Committed(e, tx.report, tx.amount)
                         ELSE e.rewards[tx.report].status = "Paid"

\* The escrow shows what its successful transactions did, and nothing else.
ChainOK ==
  /\ Sound(escrow)
  /\ escrow.balance + escrow.totalPaid = Pool
  /\ txs \in Seq(TxRow)
  /\ \A t \in DOMAIN txs : txs[t].outcome = "success" => Done(escrow, txs[t])
  /\ \A k \in ReportKeys : escrow.rewards[k].status # "None" => Logged("approve", k) # {}

\* A transaction sent for an intent is for its reward.
SentFor(tx, I) ==
  /\ tx.kind = "approve" \/ tx.intent # 0 =>
       tx.intent \in DOMAIN I /\ tx.report = I[tx.intent].report
  /\ tx.kind = "approve" => tx.amount = I[tx.intent].amount

TxsOK == \A t \in DOMAIN txs : SentFor(txs[t], intents)

\* What the stage of a request says of its copy and its transaction: the call it
\* is about to make has its evidence on chain.
StageOK(at, row, tx, T) ==
  /\ at \in {"submitRelay", "acceptRelay", "waitRelay", "attachHash"} => row.payouts # <<>>
  /\ at = "verifyApproval" => Latest(row.approvals).tx \in Approving(T, row)
  /\ at \in {"observeApproval", "observeInstead", "confirmApproval"} => tx \in Committing(T, row)
  /\ at \in {"observePayout", "attachHash"} => tx \in Paying(T, row.report)

\* A request's copy is an earlier row of its intent.
RequestOK(r, I, T) ==
  /\ r.intent \in DOMAIN I
  /\ r.row.report = I[r.intent].report
  /\ r.row.amount = I[r.intent].amount
  /\ Len(r.row.payouts) <= Len(I[r.intent].payouts)
  /\ StageOK(r.at, r.row, r.tx, T)

RequestsOK ==
  /\ requests \in [Requests -> RequestRow \cup {Idle}]
  /\ \A p \in Requests : requests[p] # Idle => RequestOK(requests[p], intents, txs)

PromptsOK == browser \in [1..MaxIntents -> BrowserState] /\ lost \in Nat

SettlementInv == RowsOK /\ PoolsOK /\ ChainOK /\ TxsOK /\ RequestsOK /\ PromptsOK

-----------------------------------------------------------------------------
(***************************************************************************)
(* Operations: what the writes to a sequence of attempts give              *)
(***************************************************************************)
\* An operation is a row of its table.
LEMMA OperationTyped ==
  ASSUME NEW s \in OperationStatus, NEW t \in Nat
  PROVE  /\ Operation(s, t) \in OperationRow
         /\ Operation(s, t).status = s
         /\ Operation(s, t).tx = t
BY DEF Operation, OperationRow

\* Rewriting attempts in place keeps the sequence one of attempts.
LEMMA RewrittenTyped ==
  ASSUME NEW ops \in Seq(OperationRow), NEW new \in [DOMAIN ops -> OperationRow]
  PROVE  /\ new \in Seq(OperationRow)
         /\ Len(new) = Len(ops)
         /\ DOMAIN new = DOMAIN ops
<1>1. Len(ops) \in Nat /\ DOMAIN ops = 1..Len(ops)
  OBVIOUS
<1> QED BY <1>1

\* A new attempt goes to the end.
LEMMA AppendedTyped ==
  ASSUME NEW ops \in Seq(OperationRow), NEW op \in OperationRow
  PROVE  /\ Append(ops, op) \in Seq(OperationRow)
         /\ Len(Append(ops, op)) = Len(ops) + 1
         /\ Len(ops) \in Nat
         /\ DOMAIN ops = 1..Len(ops)
         /\ DOMAIN Append(ops, op) = 1..(Len(ops) + 1)
         /\ Append(ops, op)[Len(ops) + 1] = op
         /\ \A n \in DOMAIN ops : Append(ops, op)[n] = ops[n]
         /\ \A n \in DOMAIN Append(ops, op) :
              (n = Len(ops) + 1 /\ Append(ops, op)[n] = op) \/ (n \in DOMAIN ops /\ Append(ops, op)[n] = ops[n])
<1> DEFINE new == Append(ops, op)
<1>1. /\ new \in Seq(OperationRow) /\ Len(new) = Len(ops) + 1 /\ Len(ops) \in Nat
      /\ DOMAIN ops = 1..Len(ops) /\ DOMAIN new = 1..(Len(ops) + 1)
      /\ new[Len(ops) + 1] = op
      /\ \A n \in DOMAIN ops : new[n] = ops[n]
  OBVIOUS
<1> HIDE DEF new
<1>2. ASSUME NEW n \in DOMAIN new
      PROVE  (n = Len(ops) + 1 /\ new[n] = op) \/ (n \in DOMAIN ops /\ new[n] = ops[n])
  <2>1. n \in 1..(Len(ops) + 1)
    BY <1>1
  <2>2. n = Len(ops) + 1 \/ n \in 1..Len(ops)
    BY <1>1, <2>1
  <2>3. ASSUME n = Len(ops) + 1 PROVE new[n] = op
    BY <1>1, <2>3
  <2>4. ASSUME n \in 1..Len(ops) PROVE n \in DOMAIN ops /\ new[n] = ops[n]
    <3>1. n \in DOMAIN ops
      BY <1>1, <2>4
    <3> QED BY <1>1, <3>1
  <2> QED BY <2>2, <2>3, <2>4
<1> QED BY <1>1, <1>2 DEF new

\* The attempt at n of a table of attempts is one.
LEMMA AttemptTyped ==
  ASSUME NEW ops \in Seq(OperationRow), NEW n \in DOMAIN ops
  PROVE  /\ ops[n] \in OperationRow
         /\ ops[n].status \in OperationStatus
         /\ ops[n].tx \in Nat
         /\ ops[n] = Operation(ops[n].status, ops[n].tx)
<1>1. ops[n] \in OperationRow
  OBVIOUS
<1> QED BY <1>1 DEF OperationRow, Operation

\* Failing the attempt in flight leaves none, and every hash where it was.
LEMMA FailingKeeps ==
  ASSUME NEW ops \in Seq(OperationRow), AttemptsOK(ops)
  PROVE  /\ Failing(ops) \in Seq(OperationRow)
         /\ Len(Failing(ops)) = Len(ops)
         /\ DOMAIN Failing(ops) = DOMAIN ops
         /\ AttemptsOK(Failing(ops))
         /\ ~Has(Failing(ops), ActiveStatus)
         /\ \A n \in DOMAIN ops :
              /\ Failing(ops)[n].tx = ops[n].tx
              /\ Failing(ops)[n].status \in {ops[n].status, "failed"}
              /\ ops[n].status = "confirmed" => Failing(ops)[n] = ops[n]
<1> DEFINE new == Failing(ops)
<1>1. \A n \in DOMAIN ops : ops[n] \in OperationRow
  BY AttemptTyped
<1>2. ASSUME NEW n \in DOMAIN ops
      PROVE  /\ new[n] \in OperationRow
             /\ new[n].tx = ops[n].tx
             /\ ops[n].status \in ActiveStatus => new[n].status = "failed"
             /\ ops[n].status \notin ActiveStatus => new[n] = ops[n]
  BY <1>1 DEF Failing, Active, OperationRow, OperationStatus
<1>3. new = [n \in DOMAIN ops |-> new[n]]
  BY DEF Failing
<1> HIDE DEF new
<1>4. new \in [DOMAIN ops -> OperationRow]
  BY <1>2, <1>3
<1>5. new \in Seq(OperationRow) /\ Len(new) = Len(ops) /\ DOMAIN new = DOMAIN ops
  BY <1>4, RewrittenTyped
<1>6. AttemptsOK(new)
  BY <1>2, <1>5 DEF AttemptsOK, ActiveStatus
<1>7. ~Has(new, ActiveStatus)
  BY <1>2, <1>5 DEF Has, ActiveStatus
<1>8. \A n \in DOMAIN ops : ops[n].status = "confirmed" => new[n] = ops[n]
  BY <1>2 DEF ActiveStatus
<1>9. \A n \in DOMAIN ops : new[n].status \in {ops[n].status, "failed"}
  BY <1>2
<1> QED BY <1>2, <1>5, <1>6, <1>7, <1>8, <1>9 DEF new

-----------------------------------------------------------------------------
(***************************************************************************)
(* Rows: what each write makes of an intent                                *)
(***************************************************************************)
\* What SettlementKept says of one intent.
KeepsRow(row, new) ==
  /\ row.status \in {"ready_for_payout", "payout_submitted"} =>
       new.status \in {"ready_for_payout", "payout_submitted", "paid"}
  /\ row.status \in {"paid", "failed"} => new = row
  /\ \A n \in DOMAIN row.approvals :
       /\ row.approvals[n].tx # 0 => new.approvals[n].tx = row.approvals[n].tx
       /\ row.approvals[n].status = "confirmed" => new.approvals[n] = row.approvals[n]
  /\ \A n \in DOMAIN row.payouts :
       row.payouts[n].tx # 0 => new.payouts[n].tx = row.payouts[n].tx

\* A write to an intent that is not cancelled or paid, and what it must keep.
Writes(row, new, report, T) ==
  /\ new \in IntentRow
  /\ new.report = row.report /\ new.amount = row.amount
  /\ row.status \notin {"failed", "paid"}
  /\ RowOK(new, report)
  /\ EvidenceOK(new, T)
  /\ Len(row.payouts) <= Len(new.payouts)
  /\ KeepsRow(row, new)

\* A write to the approvals of an intent that is not approved yet.
LEMMA ApprovalsWritten ==
  ASSUME NEW row \in IntentRow, NEW report, NEW T, RowOK(row, report), EvidenceOK(row, T),
         row.status \in {"awaiting_approval", "approval_submitted"},
         NEW status \in IntentStatus, NEW after, NEW ops \in Seq(OperationRow),
         AttemptsOK(ops), ~Has(ops, {"provider_accepted"}),
         DOMAIN row.approvals \subseteq DOMAIN ops,
         \A n \in DOMAIN row.approvals :
           row.approvals[n].tx # 0 => ops[n].tx = row.approvals[n].tx,
         \A n \in DOMAIN ops :
           /\ ops[n].tx # 0 => ops[n].tx \in Approving(T, row)
           /\ ops[n].status = "confirmed" => ops[n].tx \in Committing(T, row),
         \/ /\ status \in {"awaiting_approval", "approval_submitted"}
            /\ after = "validated" /\ ~Has(ops, {"confirmed"})
            /\ Has(ops, {"submitted"}) <=> status = "approval_submitted"
         \/ /\ status = "ready_for_payout" /\ after = "reward_approved"
            /\ Has(ops, {"confirmed"}) /\ ~Has(ops, ActiveStatus)
         \/ status = "failed" /\ ~Has(ops, ActiveStatus \cup {"confirmed"})
  PROVE  Writes(row, [row EXCEPT !.status = status, !.approvals = ops], after, T)
<1> DEFINE new == [row EXCEPT !.status = status, !.approvals = ops]
<1>1. /\ new \in IntentRow
      /\ new.status = status /\ new.approvals = ops
      /\ new.report = row.report /\ new.amount = row.amount /\ new.payouts = row.payouts
  BY DEF IntentRow
<1> HIDE DEF new
<1>2. /\ row.payouts = <<>> /\ ~Has(row.approvals, {"confirmed"})
      /\ AttemptsOK(row.payouts) /\ ~Has(new.payouts, {"provider_accepted", "submitted", "confirmed"})
  BY <1>1 DEF RowOK, Has
<1>3. RowOK(new, after)
  BY <1>1, <1>2 DEF RowOK
<1>4. Approving(T, new) = Approving(T, row) /\ Committing(T, new) = Committing(T, row)
  BY <1>1 DEF Approving, Committing
<1>5. EvidenceOK(new, T)
  BY <1>1, <1>4 DEF EvidenceOK
<1>6. KeepsRow(row, new)
  BY <1>1, <1>2 DEF KeepsRow, Has
<1>7. Len(row.payouts) <= Len(new.payouts)
  BY <1>1, <1>2
<1> QED BY <1>1, <1>3, <1>5, <1>6, <1>7 DEF Writes, new

\* A write to the payouts of an intent that is approved and not paid yet.
LEMMA PayoutsWritten ==
  ASSUME NEW row \in IntentRow, NEW report, NEW T, RowOK(row, report), EvidenceOK(row, T),
         row.status \in {"ready_for_payout", "payout_submitted"},
         NEW status \in IntentStatus, NEW after, NEW ops \in Seq(OperationRow),
         AttemptsOK(ops), Len(row.payouts) <= Len(ops),
         DOMAIN row.payouts \subseteq DOMAIN ops,
         \A n \in DOMAIN row.payouts :
           row.payouts[n].tx # 0 => ops[n].tx = row.payouts[n].tx,
         \A n \in DOMAIN ops : ops[n].tx # 0 => ops[n].tx \in Paying(T, row.report),
         \/ /\ status = "ready_for_payout" /\ after = "reward_approved"
            /\ ~Has(ops, {"provider_accepted", "submitted", "confirmed"})
         \/ /\ status = "payout_submitted" /\ after = "payment_pending"
            /\ Has(ops, {"provider_accepted", "submitted"}) /\ ~Has(ops, {"confirmed"})
         \/ /\ status = "paid" /\ after = "paid"
            /\ ~Has(ops, ActiveStatus)
            /\ \E n \in DOMAIN ops : With(ops, {"confirmed"}) = {n}
  PROVE  Writes(row, [row EXCEPT !.status = status, !.payouts = ops], after, T)
<1> DEFINE new == [row EXCEPT !.status = status, !.payouts = ops]
<1>1. /\ new \in IntentRow
      /\ new.status = status /\ new.payouts = ops
      /\ new.report = row.report /\ new.amount = row.amount /\ new.approvals = row.approvals
  BY DEF IntentRow
<1> HIDE DEF new
<1>2. /\ AttemptsOK(row.approvals) /\ ~Has(row.approvals, {"provider_accepted"})
      /\ Has(row.approvals, {"confirmed"}) /\ ~Has(row.approvals, ActiveStatus)
  BY DEF RowOK
<1>3. RowOK(new, after)
  BY <1>1, <1>2 DEF RowOK
<1>4. Approving(T, new) = Approving(T, row) /\ Committing(T, new) = Committing(T, row)
  BY <1>1 DEF Approving, Committing
<1>5. EvidenceOK(new, T)
  BY <1>1, <1>4 DEF EvidenceOK
<1>6. KeepsRow(row, new)
  BY <1>1 DEF KeepsRow
<1> QED BY <1>1, <1>3, <1>5, <1>6 DEF Writes, new

\* The attempts after an approval's hash t was observed.
Observed(ops, t) ==
  IF With(ops, {"submission_uncertain"}) = {}
  THEN Append(ops, Operation("submitted", t))
  ELSE [n \in DOMAIN ops |->
          IF n \in With(ops, {"submission_uncertain"}) THEN Operation("submitted", t) ELSE ops[n]]

\* A hash the browser reports or a scan finds is recorded with the uncertain
\* attempt, or as a new one.
LEMMA ObserveApprovalWrites ==
  ASSUME NEW row \in IntentRow, NEW report, NEW T, RowOK(row, report), EvidenceOK(row, T),
         row.status = "awaiting_approval",
         NEW t \in Approving(T, row), t \in Nat \ {0}
  PROVE  Writes(row, [row EXCEPT !.status = "approval_submitted",
                                 !.approvals = Observed(row.approvals, t)], report, T)
<1> DEFINE old == row.approvals
           ops == Observed(old, t)
           op  == Operation("submitted", t)
<1>1. old \in Seq(OperationRow) /\ op \in OperationRow /\ op.status = "submitted" /\ op.tx = t
  BY OperationTyped DEF IntentRow, OperationStatus, ActiveStatus
<1>2. /\ AttemptsOK(old) /\ ~Has(old, {"provider_accepted", "submitted", "confirmed"})
      /\ report = "validated"
  BY DEF RowOK, Has
<1>3. /\ \A n \in DOMAIN old : old[n].tx # 0 => old[n].tx \in Approving(T, row)
  BY DEF EvidenceOK
<1>4. /\ ops \in Seq(OperationRow)
      /\ AttemptsOK(ops)
      /\ ~Has(ops, {"provider_accepted", "confirmed"})
      /\ Has(ops, {"submitted"})
      /\ DOMAIN old \subseteq DOMAIN ops
      /\ \A n \in DOMAIN old : old[n].tx # 0 => ops[n].tx = old[n].tx
      /\ \A n \in DOMAIN ops : ops[n].tx # 0 => ops[n].tx \in Approving(T, row)
  <2>1. CASE With(old, {"submission_uncertain"}) = {}
    <3>1. ops = Append(old, op)
      BY <2>1 DEF Observed
    <3>2. \A n \in DOMAIN old : old[n].status \notin ActiveStatus
      BY <2>1, <1>2 DEF With, Has, ActiveStatus
    <3> HIDE DEF ops, op, old
    <3>3. /\ ops \in Seq(OperationRow)
          /\ DOMAIN old = 1..Len(old) /\ Len(old) \in Nat
          /\ DOMAIN ops = 1..(Len(old) + 1)
          /\ ops[Len(old) + 1] = op
          /\ \A n \in DOMAIN old : ops[n] = old[n]
      BY <1>1, <3>1, AppendedTyped
    <3>4. \A n \in DOMAIN ops : (n = Len(old) + 1 /\ ops[n] = op) \/ (n \in DOMAIN old /\ ops[n] = old[n])
      BY <1>1, <3>1, AppendedTyped
    <3>5. AttemptsOK(ops)
      BY <3>2, <3>4, <1>1, <1>2 DEF AttemptsOK
    <3>6. ~Has(ops, {"provider_accepted", "confirmed"})
      BY <3>4, <1>1, <1>2 DEF Has
    <3>7. Has(ops, {"submitted"})
      BY <3>3, <1>1 DEF Has
    <3>8. \A n \in DOMAIN ops : ops[n].tx # 0 => ops[n].tx \in Approving(T, row)
      BY <3>4, <1>1, <1>3
    <3> QED BY <3>3, <3>5, <3>6, <3>7, <3>8
  <2>2. CASE With(old, {"submission_uncertain"}) # {}
    <3>1. ops = [n \in DOMAIN old |->
                   IF n \in With(old, {"submission_uncertain"}) THEN op ELSE old[n]]
      BY <2>2 DEF Observed
    <3>2. PICK u \in DOMAIN old : old[u].status = "submission_uncertain"
      BY <2>2 DEF With
    <3>3. \A n \in DOMAIN old : old[n].status \in ActiveStatus => n = u
      BY <3>2, <1>2 DEF AttemptsOK, ActiveStatus
    <3> HIDE DEF ops, op, old
    <3>4. \A n \in DOMAIN old : IF n = u THEN ops[n] = op ELSE ops[n] = old[n]
      BY <3>1, <3>2, <3>3 DEF With, ActiveStatus
    <3>5. ops \in Seq(OperationRow) /\ DOMAIN ops = DOMAIN old
      <4>1. ops \in [DOMAIN old -> OperationRow]
        BY <3>1, <1>1, AttemptTyped
      <4> QED BY <4>1, <1>1, RewrittenTyped
    <3>6. AttemptsOK(ops)
      BY <3>3, <3>4, <3>5, <1>1, <1>2 DEF AttemptsOK
    <3>7. ~Has(ops, {"provider_accepted", "confirmed"})
      BY <3>4, <3>5, <1>1, <1>2 DEF Has
    <3>8. Has(ops, {"submitted"})
      BY <3>2, <3>4, <3>5, <1>1 DEF Has
    <3>9. \A n \in DOMAIN old : old[n].tx # 0 => ops[n].tx = old[n].tx
      BY <3>2, <3>4, <1>2 DEF AttemptsOK
    <3>10. \A n \in DOMAIN ops : ops[n].tx # 0 => ops[n].tx \in Approving(T, row)
      BY <3>4, <3>5, <1>1, <1>3
    <3> QED BY <3>5, <3>6, <3>7, <3>8, <3>9, <3>10
  <2> QED BY <2>1, <2>2
<1> HIDE DEF ops, op
<1>5. /\ ~Has(ops, {"provider_accepted"}) /\ ~Has(ops, {"confirmed"})
      /\ "approval_submitted" \in IntentStatus
      /\ \A n \in DOMAIN ops : ops[n].status # "confirmed"
  BY <1>4 DEF Has, IntentStatus
<1>6. Writes(row, [row EXCEPT !.status = "approval_submitted", !.approvals = ops], report, T)
  BY <1>2, <1>4, <1>5, ApprovalsWritten
<1> QED BY <1>6 DEF ops

\* An uncertain attempt is recorded when none is in flight.
LEMMA ObserveUncertainWrites ==
  ASSUME NEW row \in IntentRow, NEW report, NEW T, RowOK(row, report), EvidenceOK(row, T),
         row.status = "awaiting_approval", Active(row.approvals) = {}
  PROVE  Writes(row, [row EXCEPT !.status = "awaiting_approval",
                        !.approvals = Append(row.approvals, Operation("submission_uncertain", 0))],
                report, T)
<1> DEFINE old == row.approvals
           op  == Operation("submission_uncertain", 0)
           ops == Append(old, op)
<1>1. old \in Seq(OperationRow) /\ op \in OperationRow /\ op.status = "submission_uncertain" /\ op.tx = 0
  BY OperationTyped DEF IntentRow, OperationStatus, ActiveStatus
<1>2. /\ AttemptsOK(old) /\ ~Has(old, {"provider_accepted", "submitted", "confirmed"})
      /\ report = "validated"
      /\ \A n \in DOMAIN old : old[n].status \notin ActiveStatus
  BY DEF RowOK, Has, Active
<1>3. /\ \A n \in DOMAIN old : old[n].tx # 0 => old[n].tx \in Approving(T, row)
  BY DEF EvidenceOK
<1> HIDE DEF op, old
<1>4. /\ ops \in Seq(OperationRow)
      /\ DOMAIN old = 1..Len(old) /\ Len(old) \in Nat
      /\ DOMAIN ops = 1..(Len(old) + 1)
      /\ ops[Len(old) + 1] = op
      /\ \A n \in DOMAIN old : ops[n] = old[n]
  BY <1>1, AppendedTyped
<1>5. \A n \in DOMAIN ops : (n = Len(old) + 1 /\ ops[n] = op) \/ (n \in DOMAIN old /\ ops[n] = old[n])
  BY <1>1, AppendedTyped
<1> HIDE DEF ops
<1>6. AttemptsOK(ops)
  BY <1>1, <1>2, <1>5 DEF AttemptsOK
<1>7. ~Has(ops, {"provider_accepted"}) /\ ~Has(ops, {"confirmed"}) /\ ~Has(ops, {"submitted"})
  BY <1>1, <1>2, <1>5 DEF Has
<1>8. \A n \in DOMAIN ops : ops[n].tx # 0 => ops[n].tx \in Approving(T, row)
  BY <1>1, <1>3, <1>5
<1>9. /\ "awaiting_approval" \in IntentStatus /\ DOMAIN old \subseteq DOMAIN ops
      /\ \A n \in DOMAIN ops : ops[n].status # "confirmed"
      /\ \A n \in DOMAIN old : old[n].tx # 0 => ops[n].tx = old[n].tx
  BY <1>4, <1>7 DEF Has, IntentStatus
<1>10. Writes(row, [row EXCEPT !.status = "awaiting_approval", !.approvals = ops], report, T)
  BY <1>2, <1>4, <1>6, <1>7, <1>8, <1>9, ApprovalsWritten DEF old
<1> QED BY <1>10 DEF ops, op, old

\* The attempts after those with hash t were confirmed.
Confirmed(ops, t) ==
  [n \in DOMAIN ops |->
     IF ops[n] = Operation("submitted", t) THEN Operation("confirmed", t) ELSE ops[n]]

\* Confirming the attempt in flight leaves none, and every hash where it was.
LEMMA ConfirmedKeeps ==
  ASSUME NEW ops \in Seq(OperationRow), NEW t \in Nat, AttemptsOK(ops),
         NEW m \in DOMAIN ops, ops[m] = Operation("submitted", t)
  PROVE  /\ Confirmed(ops, t) \in Seq(OperationRow)
         /\ Len(Confirmed(ops, t)) = Len(ops)
         /\ DOMAIN Confirmed(ops, t) = DOMAIN ops
         /\ AttemptsOK(Confirmed(ops, t))
         /\ ~Has(Confirmed(ops, t), ActiveStatus)
         /\ Confirmed(ops, t)[m] = Operation("confirmed", t)
         /\ \A n \in DOMAIN ops \ {m} : Confirmed(ops, t)[n] = ops[n]
         /\ t # 0
<1> DEFINE new == Confirmed(ops, t)
<1>1. \A n \in DOMAIN ops : ops[n] \in OperationRow
  BY AttemptTyped
<1>2. /\ Operation("confirmed", t) \in OperationRow
      /\ Operation("confirmed", t).status = "confirmed" /\ Operation("confirmed", t).tx = t
      /\ ops[m].status = "submitted" /\ ops[m].tx = t
  BY OperationTyped DEF OperationStatus, ActiveStatus
<1>3. t # 0 /\ \A n \in DOMAIN ops : ops[n].status \in ActiveStatus => n = m
  BY <1>2 DEF AttemptsOK, ActiveStatus
<1>4. \A n \in DOMAIN ops : ops[n] = Operation("submitted", t) <=> n = m
  BY <1>2, <1>3 DEF ActiveStatus
<1>5. /\ new \in [DOMAIN ops -> OperationRow]
      /\ \A n \in DOMAIN ops : IF n = m THEN new[n] = Operation("confirmed", t) ELSE new[n] = ops[n]
  BY <1>1, <1>2, <1>4 DEF Confirmed
<1> HIDE DEF new
<1>6. new \in Seq(OperationRow) /\ Len(new) = Len(ops) /\ DOMAIN new = DOMAIN ops
  BY <1>5, RewrittenTyped
<1>7. AttemptsOK(new)
  BY <1>2, <1>3, <1>5, <1>6 DEF AttemptsOK
<1>8. ~Has(new, ActiveStatus)
  BY <1>2, <1>3, <1>5, <1>6 DEF Has, ActiveStatus
<1> QED BY <1>3, <1>5, <1>6, <1>7, <1>8 DEF new

\* An approval is confirmed with the hash that was submitted for it.
LEMMA ConfirmApprovalWrites ==
  ASSUME NEW row \in IntentRow, NEW report, NEW T, RowOK(row, report), EvidenceOK(row, T),
         row.status = "approval_submitted", NEW t \in Committing(T, row), t \in Nat,
         NEW m \in DOMAIN row.approvals, row.approvals[m] = Operation("submitted", t)
  PROVE  Writes(row, [row EXCEPT !.status = "ready_for_payout",
                                 !.approvals = Confirmed(row.approvals, t)], "reward_approved", T)
<1> DEFINE old == row.approvals
           ops == Confirmed(old, t)
<1>1. old \in Seq(OperationRow) /\ AttemptsOK(old) /\ ~Has(old, {"provider_accepted"})
  BY DEF IntentRow, RowOK
<1>2. /\ Operation("confirmed", t).status = "confirmed" /\ Operation("confirmed", t).tx = t
      /\ old[m].tx = t
  BY OperationTyped DEF OperationStatus, ActiveStatus
<1>3. /\ ops \in Seq(OperationRow) /\ DOMAIN ops = DOMAIN old
      /\ AttemptsOK(ops) /\ ~Has(ops, ActiveStatus)
      /\ ops[m] = Operation("confirmed", t)
      /\ \A n \in DOMAIN old \ {m} : ops[n] = old[n]
  BY <1>1, ConfirmedKeeps
<1> HIDE DEF ops
<1>4. ~Has(ops, {"provider_accepted"}) /\ Has(ops, {"confirmed"})
  BY <1>2, <1>3 DEF Has, ActiveStatus
<1>5. /\ \A n \in DOMAIN old : old[n].tx # 0 => ops[n].tx = old[n].tx
      /\ \A n \in DOMAIN ops :
           /\ ops[n].tx # 0 => ops[n].tx \in Approving(T, row)
           /\ ops[n].status = "confirmed" => ops[n].tx \in Committing(T, row)
  BY <1>2, <1>3 DEF EvidenceOK, Committing
<1>6. "ready_for_payout" \in IntentStatus
  BY DEF IntentStatus
<1>7. Writes(row, [row EXCEPT !.status = "ready_for_payout", !.approvals = ops],
             "reward_approved", T)
  BY <1>3, <1>4, <1>5, <1>6, ApprovalsWritten
<1> QED BY <1>7 DEF ops

\* Failing an approval opens the intent again.
LEMMA FailApprovalWrites ==
  ASSUME NEW row \in IntentRow, NEW report, NEW T, RowOK(row, report), EvidenceOK(row, T),
         Active(row.approvals) # {}
  PROVE  Writes(row, [row EXCEPT !.status = "awaiting_approval",
                                 !.approvals = Failing(row.approvals)], report, T)
<1> DEFINE old == row.approvals
           ops == Failing(old)
<1>1. old \in Seq(OperationRow) /\ AttemptsOK(old) /\ ~Has(old, {"provider_accepted"})
  BY DEF IntentRow, RowOK
<1>2. Has(old, ActiveStatus) /\ Has(old, ActiveStatus \cup {"confirmed"})
  BY DEF Active, Has
<1>3. row.status \in IntentStatus
  BY DEF IntentRow
<1>4. row.status \in {"awaiting_approval", "approval_submitted"}
  BY <1>2, <1>3 DEF RowOK, IntentStatus
<1>5. report = "validated" /\ ~Has(old, {"confirmed"})
  BY <1>4 DEF RowOK
<1>6. /\ ops \in Seq(OperationRow) /\ DOMAIN ops = DOMAIN old
      /\ AttemptsOK(ops) /\ ~Has(ops, ActiveStatus)
      /\ \A n \in DOMAIN old : ops[n].tx = old[n].tx /\ ops[n].status \in {old[n].status, "failed"}
  BY <1>1, FailingKeeps
<1> HIDE DEF ops
<1>7. /\ ~Has(ops, {"provider_accepted"}) /\ ~Has(ops, {"submitted"}) /\ ~Has(ops, {"confirmed"})
  BY <1>5, <1>6 DEF Has, ActiveStatus
<1>8. \A n \in DOMAIN ops :
        /\ ops[n].tx # 0 => ops[n].tx \in Approving(T, row)
        /\ ops[n].status # "confirmed"
  BY <1>6, <1>7 DEF EvidenceOK, Has
<1>9. "awaiting_approval" \in IntentStatus
  BY DEF IntentStatus
<1>10. Writes(row, [row EXCEPT !.status = "awaiting_approval", !.approvals = ops], report, T)
  BY <1>4, <1>5, <1>6, <1>7, <1>8, <1>9, ApprovalsWritten
<1> QED BY <1>10 DEF ops

\* Cancelling fails an intent without an attempt in flight.
LEMMA CancelWrites ==
  ASSUME NEW row \in IntentRow, NEW report, NEW T, RowOK(row, report), EvidenceOK(row, T),
         row.status = "awaiting_approval",
         With(row.approvals, ActiveStatus \cup {"confirmed"}) = {}
  PROVE  Writes(row, [row EXCEPT !.status = "failed"], report, T)
<1> DEFINE ops == row.approvals
<1>1. ops \in Seq(OperationRow) /\ AttemptsOK(ops) /\ ~Has(ops, {"provider_accepted"})
  BY DEF IntentRow, RowOK
<1>2. ~Has(ops, ActiveStatus \cup {"confirmed"})
  BY DEF With, Has
<1>3. \A n \in DOMAIN ops :
        /\ ops[n].tx # 0 => ops[n].tx \in Approving(T, row)
        /\ ops[n].status = "confirmed" => ops[n].tx \in Committing(T, row)
  BY DEF EvidenceOK
<1>4. "failed" \in IntentStatus
  BY DEF IntentStatus
<1>5. Writes(row, [row EXCEPT !.status = "failed", !.approvals = ops], report, T)
  BY <1>1, <1>2, <1>3, <1>4, ApprovalsWritten
<1>6. [row EXCEPT !.status = "failed", !.approvals = ops] = [row EXCEPT !.status = "failed"]
  BY DEF IntentRow
<1> QED BY <1>5, <1>6

\* A new attempt may be put in flight when none is.
LEMMA AppendKeeps ==
  ASSUME NEW ops \in Seq(OperationRow), AttemptsOK(ops), ~Has(ops, ActiveStatus),
         NEW op \in OperationRow, op.status \in ActiveStatus,
         op.status = "submitted" <=> op.tx # 0
  PROVE  /\ Append(ops, op) \in Seq(OperationRow)
         /\ AttemptsOK(Append(ops, op))
         /\ DOMAIN ops \subseteq DOMAIN Append(ops, op)
         /\ Len(ops) <= Len(Append(ops, op))
         /\ \A n \in DOMAIN ops : Append(ops, op)[n] = ops[n]
         /\ \A n \in DOMAIN Append(ops, op) :
              Append(ops, op)[n] = op \/ (n \in DOMAIN ops /\ Append(ops, op)[n] = ops[n])
         /\ \E n \in DOMAIN Append(ops, op) : Append(ops, op)[n] = op
<1> DEFINE new == Append(ops, op)
<1>1. /\ new \in Seq(OperationRow) /\ Len(new) = Len(ops) + 1 /\ Len(ops) \in Nat
      /\ DOMAIN ops = 1..Len(ops) /\ DOMAIN new = 1..(Len(ops) + 1)
      /\ new[Len(ops) + 1] = op
      /\ \A n \in DOMAIN ops : new[n] = ops[n]
      /\ \A n \in DOMAIN new :
           (n = Len(ops) + 1 /\ new[n] = op) \/ (n \in DOMAIN ops /\ new[n] = ops[n])
  BY AppendedTyped
<1> HIDE DEF new
<1>2. \A n \in DOMAIN ops : ops[n].status \notin ActiveStatus
  BY DEF Has
<1>3. AttemptsOK(new)
  BY <1>1, <1>2 DEF AttemptsOK, ActiveStatus
<1>4. Len(ops) + 1 \in DOMAIN new /\ DOMAIN ops \subseteq DOMAIN new /\ Len(ops) <= Len(new)
  BY <1>1
<1> QED BY <1>1, <1>3, <1>4 DEF new

\* An attempt without a hash may go on.
LEMMA ReplaceKeeps ==
  ASSUME NEW ops \in Seq(OperationRow), AttemptsOK(ops),
         NEW m \in DOMAIN ops, ops[m].status \in {"submission_uncertain", "provider_accepted"},
         NEW op \in OperationRow, op.status \in ActiveStatus,
         op.status = "submitted" <=> op.tx # 0
  PROVE  /\ [ops EXCEPT ![m] = op] \in Seq(OperationRow)
         /\ Len([ops EXCEPT ![m] = op]) = Len(ops)
         /\ DOMAIN [ops EXCEPT ![m] = op] = DOMAIN ops
         /\ AttemptsOK([ops EXCEPT ![m] = op])
         /\ [ops EXCEPT ![m] = op][m] = op
         /\ \A n \in DOMAIN ops \ {m} : [ops EXCEPT ![m] = op][n] = ops[n]
         /\ \A n \in DOMAIN ops : ops[n].tx # 0 => [ops EXCEPT ![m] = op][n].tx = ops[n].tx
<1> DEFINE new == [ops EXCEPT ![m] = op]
<1>1. new \in [DOMAIN ops -> OperationRow]
  BY AttemptTyped
<1>2. new[m] = op /\ \A n \in DOMAIN ops \ {m} : new[n] = ops[n]
  OBVIOUS
<1> HIDE DEF new
<1>3. new \in Seq(OperationRow) /\ Len(new) = Len(ops) /\ DOMAIN new = DOMAIN ops
  BY <1>1, RewrittenTyped
<1>4. ops[m].tx = 0 /\ \A n \in DOMAIN ops : ops[n].status \in ActiveStatus => n = m
  BY DEF AttemptsOK, ActiveStatus
<1>5. AttemptsOK(new)
  BY <1>2, <1>3, <1>4 DEF AttemptsOK, ActiveStatus
<1>6. \A n \in DOMAIN ops : ops[n].tx # 0 => new[n].tx = ops[n].tx
  BY <1>2, <1>4
<1> QED BY <1>2, <1>3, <1>5, <1>6 DEF new

\* An intent with an attempt to pay it in flight is approved and not paid.
LEMMA PayoutInFlight ==
  ASSUME NEW row \in IntentRow, NEW report, RowOK(row, report),
         NEW n \in DOMAIN row.payouts, row.payouts[n].status \in ActiveStatus
  PROVE  /\ row.status \in {"ready_for_payout", "payout_submitted"}
         /\ row.payouts[n].status \in {"provider_accepted", "submitted"} => row.status = "payout_submitted"
<1>1. row.status \in IntentStatus
  BY DEF IntentRow
<1>2. Has(row.payouts, ActiveStatus) /\ row.payouts # <<>>
  BY DEF Has
<1>3. row.status \notin {"awaiting_approval", "approval_submitted", "failed", "paid"}
  BY <1>2 DEF RowOK
<1>4. row.payouts[n].status \in {"provider_accepted", "submitted"} =>
        Has(row.payouts, {"provider_accepted", "submitted", "confirmed"})
  BY DEF Has
<1>5. row.payouts[n].status \in {"provider_accepted", "submitted"} => row.status # "ready_for_payout"
  BY <1>4 DEF RowOK
<1> QED BY <1>1, <1>3, <1>5 DEF IntentStatus

\* The facts every write to the payouts of an approved intent starts from.
LEMMA PayoutFacts ==
  ASSUME NEW row \in IntentRow, NEW report, NEW T, RowOK(row, report), EvidenceOK(row, T),
         row.status \in {"ready_for_payout", "payout_submitted"}
  PROVE  /\ row.payouts \in Seq(OperationRow) /\ AttemptsOK(row.payouts)
         /\ row.status = "ready_for_payout" =>
              /\ report = "reward_approved"
              /\ ~Has(row.payouts, {"provider_accepted", "submitted", "confirmed"})
         /\ row.status = "payout_submitted" => report = "payment_pending"
         /\ ~Has(row.payouts, {"confirmed"})
         /\ \A n \in DOMAIN row.payouts : row.payouts[n].tx # 0 => row.payouts[n].tx \in Paying(T, row.report)
<1>1. row.payouts \in Seq(OperationRow)
  BY DEF IntentRow
<1>2. Has(row.payouts, {"confirmed"}) => Has(row.payouts, {"provider_accepted", "submitted", "confirmed"})
  BY DEF Has
<1> QED BY <1>1, <1>2 DEF RowOK, EvidenceOK

\* A relay is prepared when no attempt is in flight.
LEMMA PrepareRelayWrites ==
  ASSUME NEW row \in IntentRow, NEW report, NEW T, RowOK(row, report), EvidenceOK(row, T),
         row.status = "ready_for_payout", Active(row.payouts) = {}
  PROVE  Writes(row, [row EXCEPT !.status = "ready_for_payout",
                        !.payouts = Append(row.payouts, Operation("submission_uncertain", 0))],
                report, T)
<1> DEFINE old == row.payouts
           op  == Operation("submission_uncertain", 0)
           ops == Append(old, op)
<1>1. op \in OperationRow /\ op.status = "submission_uncertain" /\ op.tx = 0
  BY OperationTyped DEF OperationStatus, ActiveStatus
<1>2. /\ old \in Seq(OperationRow) /\ AttemptsOK(old) /\ report = "reward_approved"
      /\ ~Has(old, {"provider_accepted", "submitted", "confirmed"})
      /\ \A n \in DOMAIN old : old[n].tx # 0 => old[n].tx \in Paying(T, row.report)
  BY PayoutFacts
<1>3. ~Has(old, ActiveStatus)
  BY DEF Has, Active
<1> HIDE DEF op
<1>4. /\ ops \in Seq(OperationRow) /\ AttemptsOK(ops)
      /\ DOMAIN old \subseteq DOMAIN ops /\ Len(old) <= Len(ops)
      /\ \A n \in DOMAIN old : ops[n] = old[n]
      /\ \A n \in DOMAIN ops : ops[n] = op \/ (n \in DOMAIN old /\ ops[n] = old[n])
  BY <1>1, <1>2, <1>3, AppendKeeps DEF ActiveStatus
<1> HIDE DEF ops
<1>5. /\ ~Has(ops, {"provider_accepted", "submitted", "confirmed"})
      /\ \A n \in DOMAIN ops : ops[n].tx # 0 => ops[n].tx \in Paying(T, row.report)
  BY <1>1, <1>2, <1>4 DEF Has
<1>6. "ready_for_payout" \in IntentStatus /\ \A n \in DOMAIN old : old[n].tx # 0 => ops[n].tx = old[n].tx
  BY <1>4 DEF IntentStatus
<1>7. Writes(row, [row EXCEPT !.status = "ready_for_payout", !.payouts = ops], report, T)
  BY <1>2, <1>4, <1>5, <1>6, PayoutsWritten
<1> QED BY <1>7 DEF ops, op

\* The relay accepts the prepared attempt.
LEMMA AcceptRelayWrites ==
  ASSUME NEW row \in IntentRow, NEW report, NEW T, RowOK(row, report), EvidenceOK(row, T),
         row.status = "ready_for_payout",
         NEW m \in DOMAIN row.payouts, row.payouts[m].status = "submission_uncertain"
  PROVE  Writes(row, [row EXCEPT !.status = "payout_submitted",
                        !.payouts = [row.payouts EXCEPT ![m] = Operation("provider_accepted", 0)]],
                "payment_pending", T)
<1> DEFINE old == row.payouts
           op  == Operation("provider_accepted", 0)
           ops == [old EXCEPT ![m] = op]
<1>1. op \in OperationRow /\ op.status = "provider_accepted" /\ op.tx = 0
  BY OperationTyped DEF OperationStatus, ActiveStatus
<1>2. /\ old \in Seq(OperationRow) /\ AttemptsOK(old) /\ ~Has(old, {"confirmed"})
      /\ \A n \in DOMAIN old : old[n].tx # 0 => old[n].tx \in Paying(T, row.report)
  BY PayoutFacts
<1> HIDE DEF op
<1>3. /\ ops \in Seq(OperationRow) /\ AttemptsOK(ops)
      /\ DOMAIN ops = DOMAIN old /\ Len(ops) = Len(old) /\ Len(old) \in Nat
      /\ ops[m] = op
      /\ \A n \in DOMAIN old \ {m} : ops[n] = old[n]
      /\ \A n \in DOMAIN old : old[n].tx # 0 => ops[n].tx = old[n].tx
  BY <1>1, <1>2, ReplaceKeeps DEF ActiveStatus
<1> HIDE DEF ops
<1>4. /\ Has(ops, {"provider_accepted", "submitted"}) /\ ~Has(ops, {"confirmed"})
      /\ \A n \in DOMAIN ops : ops[n].tx # 0 => ops[n].tx \in Paying(T, row.report)
  BY <1>1, <1>2, <1>3 DEF Has
<1>5. "payout_submitted" \in IntentStatus /\ DOMAIN old \subseteq DOMAIN ops /\ Len(old) <= Len(ops)
  BY <1>3 DEF IntentStatus
<1>6. Writes(row, [row EXCEPT !.status = "payout_submitted", !.payouts = ops], "payment_pending", T)
  BY <1>3, <1>4, <1>5, PayoutsWritten
<1> QED BY <1>6 DEF ops, op

\* The relay's transaction gives the accepted attempt its hash.
LEMMA AttachHashWrites ==
  ASSUME NEW row \in IntentRow, NEW report, NEW T, RowOK(row, report), EvidenceOK(row, T),
         NEW m \in DOMAIN row.payouts, row.payouts[m].status = "provider_accepted",
         NEW t \in Paying(T, row.report), t \in Nat \ {0}
  PROVE  /\ row.status = "payout_submitted" /\ report = "payment_pending"
         /\ Writes(row, [row EXCEPT !.status = "payout_submitted",
                           !.payouts = [row.payouts EXCEPT ![m] = Operation("submitted", t)]],
                   report, T)
<1> DEFINE old == row.payouts
           op  == Operation("submitted", t)
           ops == [old EXCEPT ![m] = op]
<1>1. op \in OperationRow /\ op.status = "submitted" /\ op.tx = t
  BY OperationTyped DEF OperationStatus, ActiveStatus
<1>2. row.status = "payout_submitted"
  BY PayoutInFlight DEF ActiveStatus
<1>3. /\ old \in Seq(OperationRow) /\ AttemptsOK(old) /\ ~Has(old, {"confirmed"})
      /\ report = "payment_pending"
      /\ \A n \in DOMAIN old : old[n].tx # 0 => old[n].tx \in Paying(T, row.report)
  BY <1>2, PayoutFacts
<1> HIDE DEF op
<1>4. /\ ops \in Seq(OperationRow) /\ AttemptsOK(ops)
      /\ DOMAIN ops = DOMAIN old /\ Len(ops) = Len(old) /\ Len(old) \in Nat
      /\ ops[m] = op
      /\ \A n \in DOMAIN old \ {m} : ops[n] = old[n]
      /\ \A n \in DOMAIN old : old[n].tx # 0 => ops[n].tx = old[n].tx
  BY <1>1, <1>3, ReplaceKeeps DEF ActiveStatus
<1> HIDE DEF ops
<1>5. /\ Has(ops, {"provider_accepted", "submitted"}) /\ ~Has(ops, {"confirmed"})
      /\ \A n \in DOMAIN ops : ops[n].tx # 0 => ops[n].tx \in Paying(T, row.report)
  BY <1>1, <1>3, <1>4 DEF Has
<1>6. "payout_submitted" \in IntentStatus /\ DOMAIN old \subseteq DOMAIN ops /\ Len(old) <= Len(ops)
  BY <1>4 DEF IntentStatus
<1>7. Writes(row, [row EXCEPT !.status = "payout_submitted", !.payouts = ops], report, T)
  BY <1>2, <1>3, <1>4, <1>5, <1>6, PayoutsWritten
<1> QED BY <1>2, <1>3, <1>7 DEF ops, op

\* A payout found on chain supersedes the attempt in flight.
LEMMA ObservePayoutWrites ==
  ASSUME NEW row \in IntentRow, NEW report, NEW T, RowOK(row, report), EvidenceOK(row, T),
         row.status \in {"ready_for_payout", "payout_submitted"},
         NEW t \in Paying(T, row.report), t \in Nat \ {0}
  PROVE  Writes(row, [row EXCEPT !.status = "payout_submitted",
                        !.payouts = Append(Failing(row.payouts), Operation("submitted", t))],
                "payment_pending", T)
<1> DEFINE old == row.payouts
           op  == Operation("submitted", t)
           mid == Failing(old)
           ops == Append(mid, op)
<1>1. op \in OperationRow /\ op.status = "submitted" /\ op.tx = t
  BY OperationTyped DEF OperationStatus, ActiveStatus
<1>2. /\ old \in Seq(OperationRow) /\ AttemptsOK(old) /\ ~Has(old, {"confirmed"})
      /\ \A n \in DOMAIN old : old[n].tx # 0 => old[n].tx \in Paying(T, row.report)
  BY PayoutFacts
<1>3. /\ mid \in Seq(OperationRow) /\ Len(mid) = Len(old) /\ DOMAIN mid = DOMAIN old
      /\ AttemptsOK(mid) /\ ~Has(mid, ActiveStatus)
      /\ \A n \in DOMAIN old : mid[n].tx = old[n].tx /\ mid[n].status \in {old[n].status, "failed"}
  BY <1>2, FailingKeeps
<1> HIDE DEF mid, op
<1>4. /\ ops \in Seq(OperationRow) /\ AttemptsOK(ops)
      /\ DOMAIN mid \subseteq DOMAIN ops /\ Len(mid) <= Len(ops)
      /\ \A n \in DOMAIN mid : ops[n] = mid[n]
      /\ \A n \in DOMAIN ops : ops[n] = op \/ (n \in DOMAIN mid /\ ops[n] = mid[n])
      /\ \E n \in DOMAIN ops : ops[n] = op
  BY <1>1, <1>3, AppendKeeps DEF ActiveStatus
<1> HIDE DEF ops
<1>5. /\ Has(ops, {"provider_accepted", "submitted"}) /\ ~Has(ops, {"confirmed"})
      /\ \A n \in DOMAIN ops : ops[n].tx # 0 => ops[n].tx \in Paying(T, row.report)
  BY <1>1, <1>2, <1>3, <1>4 DEF Has
<1>6. /\ "payout_submitted" \in IntentStatus /\ DOMAIN old \subseteq DOMAIN ops /\ Len(old) <= Len(ops)
      /\ \A n \in DOMAIN old : old[n].tx # 0 => ops[n].tx = old[n].tx
  BY <1>3, <1>4 DEF IntentStatus
<1>7. Writes(row, [row EXCEPT !.status = "payout_submitted", !.payouts = ops], "payment_pending", T)
  BY <1>4, <1>5, <1>6, PayoutsWritten
<1> QED BY <1>7 DEF ops, mid, op

\* Failing the attempt in flight makes the intent ready to be paid again.
LEMMA FailPayoutWrites ==
  ASSUME NEW row \in IntentRow, NEW report, NEW T, RowOK(row, report), EvidenceOK(row, T),
         Active(row.payouts) # {}
  PROVE  /\ report \in {"reward_approved", "payment_pending"}
         /\ Writes(row, [row EXCEPT !.status = "ready_for_payout",
                                    !.payouts = Failing(row.payouts)], "reward_approved", T)
<1> DEFINE old == row.payouts
           ops == Failing(old)
<1>1. PICK n \in DOMAIN old : old[n].status \in ActiveStatus
  BY DEF Active
<1>2. row.status \in {"ready_for_payout", "payout_submitted"}
  BY <1>1, PayoutInFlight
<1>3. /\ old \in Seq(OperationRow) /\ AttemptsOK(old) /\ ~Has(old, {"confirmed"})
      /\ report \in {"reward_approved", "payment_pending"}
      /\ \A m \in DOMAIN old : old[m].tx # 0 => old[m].tx \in Paying(T, row.report)
  BY <1>2, PayoutFacts
<1>4. /\ ops \in Seq(OperationRow) /\ Len(ops) = Len(old) /\ DOMAIN ops = DOMAIN old
      /\ Len(old) \in Nat
      /\ AttemptsOK(ops) /\ ~Has(ops, ActiveStatus)
      /\ \A m \in DOMAIN old : ops[m].tx = old[m].tx /\ ops[m].status \in {old[m].status, "failed"}
  BY <1>3, FailingKeeps
<1> HIDE DEF ops
<1>5. /\ ~Has(ops, {"provider_accepted", "submitted", "confirmed"})
      /\ \A m \in DOMAIN ops : ops[m].tx # 0 => ops[m].tx \in Paying(T, row.report)
  BY <1>3, <1>4 DEF Has, ActiveStatus
<1>6. "ready_for_payout" \in IntentStatus /\ DOMAIN old \subseteq DOMAIN ops /\ Len(old) <= Len(ops)
  BY <1>4 DEF IntentStatus
<1>7. Writes(row, [row EXCEPT !.status = "ready_for_payout", !.payouts = ops], "reward_approved", T)
  BY <1>2, <1>4, <1>5, <1>6, PayoutsWritten
<1> QED BY <1>3, <1>7 DEF ops

\* A payout is confirmed with the hash that was submitted for it, once.
LEMMA ConfirmPayoutWrites ==
  ASSUME NEW row \in IntentRow, NEW report, NEW T, RowOK(row, report), EvidenceOK(row, T),
         row.status = "payout_submitted", NEW t \in Nat,
         NEW m \in DOMAIN row.payouts, row.payouts[m] = Operation("submitted", t)
  PROVE  Writes(row, [row EXCEPT !.status = "paid",
                                 !.payouts = Confirmed(row.payouts, t)], "paid", T)
<1> DEFINE old == row.payouts
           ops == Confirmed(old, t)
<1>1. /\ old \in Seq(OperationRow) /\ AttemptsOK(old) /\ ~Has(old, {"confirmed"})
      /\ \A n \in DOMAIN old : old[n].tx # 0 => old[n].tx \in Paying(T, row.report)
  BY PayoutFacts
<1>2. /\ Operation("confirmed", t).status = "confirmed" /\ Operation("confirmed", t).tx = t
      /\ old[m].tx = t
  BY OperationTyped DEF OperationStatus, ActiveStatus
<1>3. /\ ops \in Seq(OperationRow) /\ Len(ops) = Len(old) /\ DOMAIN ops = DOMAIN old
      /\ Len(old) \in Nat
      /\ AttemptsOK(ops) /\ ~Has(ops, ActiveStatus)
      /\ ops[m] = Operation("confirmed", t)
      /\ \A n \in DOMAIN old \ {m} : ops[n] = old[n]
  BY <1>1, ConfirmedKeeps
<1> HIDE DEF ops
<1>4. With(ops, {"confirmed"}) = {m}
  BY <1>1, <1>2, <1>3 DEF With, Has
<1>5. /\ \A n \in DOMAIN ops : ops[n].tx # 0 => ops[n].tx \in Paying(T, row.report)
      /\ \A n \in DOMAIN old : old[n].tx # 0 => ops[n].tx = old[n].tx
  BY <1>1, <1>2, <1>3
<1>6. "paid" \in IntentStatus /\ DOMAIN old \subseteq DOMAIN ops /\ Len(old) <= Len(ops)
  BY <1>3 DEF IntentStatus
<1>7. Writes(row, [row EXCEPT !.status = "paid", !.payouts = ops], "paid", T)
  BY <1>3, <1>4, <1>5, <1>6, PayoutsWritten
<1> QED BY <1>7 DEF ops

-----------------------------------------------------------------------------
(***************************************************************************)
(* What only grows: intents are added and their payouts are, transactions  *)
(* are sent and stay what they are                                         *)
(***************************************************************************)
IntentsGrow(I, J) ==
  \A i \in DOMAIN I :
    /\ i \in DOMAIN J
    /\ J[i].report = I[i].report
    /\ J[i].amount = I[i].amount
    /\ Len(I[i].payouts) <= Len(J[i].payouts)

TxsGrow(T, U) ==
  \A t \in DOMAIN T :
    /\ t \in DOMAIN U
    /\ U[t].kind = T[t].kind /\ U[t].report = T[t].report /\ U[t].amount = T[t].amount
    /\ U[t].intent = T[t].intent
    /\ T[t].outcome = "success" => U[t].outcome = "success"

\* What a step does to the rows of the intents.
Kept == \A i \in DOMAIN intents : KeepsRow(intents[i], intents'[i])

\* Evidence stays evidence.
LEMMA EvidenceStays ==
  ASSUME NEW T, NEW U, TxsGrow(T, U), NEW row
  PROVE  /\ Approving(T, row) \subseteq Approving(U, row)
         /\ Committing(T, row) \subseteq Committing(U, row)
         /\ \A k : Paying(T, k) \subseteq Paying(U, k)
         /\ EvidenceOK(row, T) => EvidenceOK(row, U)
<1>1. Approving(T, row) \subseteq Approving(U, row)
  BY DEF Approving, TxsGrow
<1>2. Committing(T, row) \subseteq Committing(U, row)
  BY <1>1 DEF Committing, Approving, TxsGrow
<1>3. \A k : Paying(T, k) \subseteq Paying(U, k)
  BY DEF Paying, TxsGrow
<1>4. EvidenceOK(row, T) => EvidenceOK(row, U)
  BY <1>1, <1>2, <1>3 DEF EvidenceOK
<1> QED BY <1>1, <1>2, <1>3, <1>4

\* What a request relies on stays true.
LEMMA StageStays ==
  ASSUME NEW T, NEW U, TxsGrow(T, U), NEW at, NEW row, NEW tx, StageOK(at, row, tx, T)
  PROVE  StageOK(at, row, tx, U)
BY EvidenceStays DEF StageOK

\* A request and its copy stay good while other requests write.
LEMMA RequestStays ==
  ASSUME NEW I \in Seq(IntentRow), NEW J \in Seq(IntentRow), IntentsGrow(I, J),
         NEW T, NEW U, TxsGrow(T, U),
         NEW r \in RequestRow, RequestOK(r, I, T)
  PROVE  RequestOK(r, J, U)
<1>1. /\ r.intent \in DOMAIN J /\ r.row.report = J[r.intent].report
      /\ r.row.amount = J[r.intent].amount
      /\ Len(I[r.intent].payouts) <= Len(J[r.intent].payouts)
  BY DEF RequestOK, IntentsGrow
<1>2. /\ r.row.payouts \in Seq(OperationRow) /\ I[r.intent].payouts \in Seq(OperationRow)
      /\ J[r.intent].payouts \in Seq(OperationRow)
  <2>1. r.row \in IntentRow /\ I[r.intent] \in IntentRow /\ J[r.intent] \in IntentRow
    BY <1>1 DEF RequestOK, RequestRow
  <2> QED BY <2>1 DEF IntentRow
<1>3. /\ Len(r.row.payouts) \in Nat /\ Len(I[r.intent].payouts) \in Nat
      /\ Len(J[r.intent].payouts) \in Nat
  <2>1. ASSUME NEW ops \in Seq(OperationRow) PROVE Len(ops) \in Nat
    OBVIOUS
  <2> QED BY <1>2, <2>1
<1>4. Len(r.row.payouts) <= Len(J[r.intent].payouts)
  BY <1>1, <1>3 DEF RequestOK
<1>5. StageOK(r.at, r.row, r.tx, U)
  BY StageStays DEF RequestOK
<1> QED BY <1>1, <1>4, <1>5 DEF RequestOK

\* Nothing is lost by doing nothing.
LEMMA GrowReflexive ==
  ASSUME NEW I \in Seq(IntentRow), NEW T
  PROVE  IntentsGrow(I, I) /\ TxsGrow(T, T)
<1>1. \A i \in DOMAIN I : Len(I[i].payouts) \in Nat
  BY DEF IntentRow
<1> QED BY <1>1 DEF IntentsGrow, TxsGrow

\* A transaction sent for an intent stays one for its reward.
LEMMA SentStays ==
  ASSUME NEW I, NEW J, IntentsGrow(I, J), NEW tx, SentFor(tx, I), NEW ux,
         ux.kind = tx.kind, ux.intent = tx.intent, ux.report = tx.report, ux.amount = tx.amount
  PROVE  SentFor(ux, J)
BY DEF SentFor, IntentsGrow

\* A cancelled intent no longer depends on its report.
LEMMA FailedRow ==
  ASSUME NEW row, NEW report, NEW other, RowOK(row, report), row.status = "failed"
  PROVE  RowOK(row, other)
BY DEF RowOK

\* A row that stays keeps what it kept.
LEMMA KeepsItself ==
  ASSUME NEW row
  PROVE  KeepsRow(row, row)
BY DEF KeepsRow

-----------------------------------------------------------------------------
(***************************************************************************)
(* Steps of the parts                                                      *)
(***************************************************************************)
\* The intents' rows stay good while the chain grows.
LEMMA RowsStay ==
  ASSUME RowsOK, intents' = intents, reports' = reports, TxsGrow(txs, txs')
  PROVE  RowsOK' /\ Kept /\ IntentsGrow(intents, intents')
<1>1. \A i \in DOMAIN intents : EvidenceOK(intents[i], txs')
  BY EvidenceStays DEF RowsOK
<1>2. RowsOK'
  BY <1>1 DEF RowsOK
<1>3. Kept
  BY KeepsItself DEF Kept
<1>4. IntentsGrow(intents, intents')
  BY GrowReflexive DEF RowsOK
<1> QED BY <1>2, <1>3, <1>4

\* A rewritten table of intents is one.
LEMMA RowsTyped ==
  ASSUME NEW I \in Seq(IntentRow), NEW J \in [DOMAIN I -> IntentRow]
  PROVE  J \in Seq(IntentRow) /\ Len(J) = Len(I)
<1>1. Len(I) \in Nat /\ DOMAIN I = 1..Len(I)
  OBVIOUS
<1> QED BY <1>1

\* A write to one intent: its report follows it, and the intents cancelled
\* before it for the same report do not mind.
LEMMA RowWritten ==
  ASSUME RowsOK, NEW i \in DOMAIN intents, NEW new, NEW after \in ReportStatus,
         Writes(intents[i], new, after, txs),
         intents' = [intents EXCEPT ![i] = new],
         reports' = [reports EXCEPT ![intents[i].report] = after],
         txs' = txs
  PROVE  /\ RowsOK' /\ Kept /\ IntentsGrow(intents, intents')
         /\ DOMAIN intents' = DOMAIN intents
         /\ intents'[i] = new
         /\ \A j \in DOMAIN intents \ {i} : intents'[j] = intents[j]
<1> DEFINE k == intents[i].report
<1>1. /\ intents \in Seq(IntentRow) /\ Len(intents) <= MaxIntents
      /\ reports \in [ReportKeys -> ReportStatus]
      /\ \A j \in DOMAIN intents : RowOK(intents[j], reports[intents[j].report])
      /\ \A j \in DOMAIN intents : EvidenceOK(intents[j], txs)
  BY DEF RowsOK
<1>2. /\ new \in IntentRow /\ new.report = k /\ new.amount = intents[i].amount
      /\ intents[i].status \notin {"failed", "paid"}
      /\ RowOK(new, after) /\ EvidenceOK(new, txs)
      /\ Len(intents[i].payouts) <= Len(new.payouts)
      /\ KeepsRow(intents[i], new)
  BY DEF Writes
<1>3. \A j \in DOMAIN intents : intents[j] \in IntentRow /\ intents[j].report \in ReportKeys
  <2>1. \A j \in DOMAIN intents : intents[j] \in IntentRow
    BY <1>1
  <2> QED BY <2>1 DEF IntentRow
<1>4. /\ DOMAIN intents' = DOMAIN intents
      /\ intents'[i] = new
      /\ \A j \in DOMAIN intents \ {i} : intents'[j] = intents[j]
  BY <1>1
<1>5. intents' \in Seq(IntentRow) /\ Len(intents') = Len(intents)
  <2>1. intents' \in [DOMAIN intents -> IntentRow]
    BY <1>2, <1>3
  <2> QED BY <1>1, <2>1, RowsTyped
<1>6. /\ reports' \in [ReportKeys -> ReportStatus]
      /\ reports'[k] = after
      /\ \A j \in DOMAIN intents : intents[j].report # k => reports'[intents[j].report] = reports[intents[j].report]
  BY <1>1, <1>3
<1>7. ASSUME NEW j \in DOMAIN intents
      PROVE  RowOK(intents'[j], reports'[intents'[j].report]) /\ EvidenceOK(intents'[j], txs)
  <2>1. ASSUME j = i PROVE intents'[j] = new /\ reports'[intents'[j].report] = after
    BY <2>1, <1>2, <1>4, <1>6
  <2>2. ASSUME j # i, intents[j].report = k PROVE intents[j].status = "failed"
    BY <2>2, <1>2 DEF RowsOK
  <2>3. ASSUME j # i, intents[j].report = k
        PROVE  RowOK(intents[j], reports'[intents[j].report])
    BY <2>2, <2>3, <1>1, FailedRow
  <2>4. ASSUME j # i, intents[j].report # k
        PROVE  RowOK(intents[j], reports'[intents[j].report])
    BY <2>4, <1>1, <1>6
  <2>5. j # i => intents'[j] = intents[j]
    BY <1>4
  <2>6. RowOK(intents'[j], reports'[intents'[j].report])
    BY <2>1, <2>3, <2>4, <2>5, <1>2
  <2>7. EvidenceOK(intents'[j], txs)
    BY <2>5, <1>1, <1>2, <1>4
  <2> QED BY <2>6, <2>7
<1>8. ASSUME NEW m \in DOMAIN intents, NEW n \in DOMAIN intents,
             intents'[m].report = intents'[n].report,
             "failed" \notin {intents'[m].status, intents'[n].status}
      PROVE  m = n
  <2>1. \A j \in DOMAIN intents :
          /\ intents'[j].report = intents[j].report
          /\ intents'[j].status # "failed" => intents[j].status # "failed"
    BY <1>2, <1>4
  <2> QED BY <2>1, <1>8 DEF RowsOK
<1>9. RowsOK'
  BY <1>1, <1>4, <1>5, <1>6, <1>7, <1>8 DEF RowsOK
<1>10. Kept
  BY <1>2, <1>4, KeepsItself DEF Kept
<1>11. IntentsGrow(intents, intents')
  BY <1>1, <1>2, <1>4, GrowReflexive DEF IntentsGrow
<1> QED BY <1>4, <1>9, <1>10, <1>11

\* Nothing that was sent or done is disturbed when the chain stays.
LEMMA ChainStays ==
  ASSUME SettlementInv, UNCHANGED chain, IntentsGrow(intents, intents')
  PROVE  ChainOK' /\ TxsOK' /\ TxsGrow(txs, txs')
<1>1. escrow' = escrow /\ txs' = txs
  BY DEF chain
<1>2. ChainOK'
  BY <1>1 DEF SettlementInv, ChainOK, Logged, Sent
<1>3. TxsOK'
  BY <1>1, SentStays DEF SettlementInv, TxsOK
<1>4. TxsGrow(txs, txs')
  BY <1>1 DEF TxsGrow
<1> QED BY <1>2, <1>3, <1>4

\* Requests stay good while others go on.
LEMMA RequestsStay ==
  ASSUME SettlementInv, RowsOK', IntentsGrow(intents, intents'), TxsGrow(txs, txs'),
         NEW p \in Requests, requests[p] # Idle
  PROVE  /\ requests[p] \in RequestRow
         /\ RequestOK(requests[p], intents', txs')
<1>1. requests[p] \in RequestRow /\ RequestOK(requests[p], intents, txs)
  BY DEF SettlementInv, RequestsOK
<1>2. intents \in Seq(IntentRow) /\ intents' \in Seq(IntentRow)
  BY DEF SettlementInv, RowsOK
<1> QED BY <1>1, <1>2, RequestStays

\* One request goes on with a good copy, or ends.
LEMMA RequestGoesOn ==
  ASSUME SettlementInv, RowsOK', IntentsGrow(intents, intents'), TxsGrow(txs, txs'),
         NEW p \in Requests, NEW r, requests' = [requests EXCEPT ![p] = r],
         r = Idle \/ (r \in RequestRow /\ RequestOK(r, intents', txs'))
  PROVE  RequestsOK'
<1>1. requests \in [Requests -> RequestRow \cup {Idle}]
  BY DEF SettlementInv, RequestsOK
<1>2. requests'[p] = r /\ \A q \in Requests \ {p} : requests'[q] = requests[q]
  BY <1>1
<1>3. requests' \in [Requests -> RequestRow \cup {Idle}]
  BY <1>1
<1>4. \A q \in Requests : requests'[q] # Idle => RequestOK(requests'[q], intents', txs')
  BY <1>2, RequestsStay
<1> QED BY <1>3, <1>4 DEF RequestsOK

\* No request moves.
LEMMA RequestsWait ==
  ASSUME SettlementInv, RowsOK', IntentsGrow(intents, intents'), TxsGrow(txs, txs'),
         requests' = requests
  PROVE  RequestsOK'
<1>1. requests' \in [Requests -> RequestRow \cup {Idle}]
  BY DEF SettlementInv, RequestsOK
<1>2. \A q \in Requests : requests'[q] # Idle => RequestOK(requests'[q], intents', txs')
  BY RequestsStay
<1> QED BY <1>1, <1>2 DEF RequestsOK

-----------------------------------------------------------------------------
(***************************************************************************)
(* The program's counters                                                  *)
(***************************************************************************)
UnitsIn(I, S) == UNION {{i} \X (1..I[i].amount) : i \in S}

LiveOf(I) == {i \in DOMAIN I : I[i].status \notin {"failed", "paid"}}

PaidOf(I) == {i \in DOMAIN I : I[i].status = "paid"}

\* A unit is in the sum when its intent is.
LEMMA UnitsInElements ==
  ASSUME NEW I, NEW S, NEW u
  PROVE  u \in UnitsIn(I, S) <=> \E i \in S : u \in {i} \X (1..I[i].amount)
BY DEF UnitsIn

\* The intents of a table have an amount, and are finitely many.
LEMMA TableFinite ==
  ASSUME NEW I \in Seq(IntentRow)
  PROVE  /\ IsFiniteSet(DOMAIN I)
         /\ \A i \in DOMAIN I : I[i].amount \in Nat /\ I[i].amount \in 1..MaxReward
<1>1. Len(I) \in Nat /\ DOMAIN I = 1..Len(I)
  OBVIOUS
<1>2. \A i \in DOMAIN I : I[i] \in IntentRow
  OBVIOUS
<1>3. \A i \in DOMAIN I : I[i].amount \in Amounts
  BY <1>2 DEF IntentRow
<1>4. \A i \in DOMAIN I : I[i].amount \in 1..MaxReward
  BY <1>3, SettlementConstants
<1>5. MaxReward \in Nat
  BY ContractConstants
<1>6. IsFiniteSet(DOMAIN I)
  BY <1>1, UpTo
<1> QED BY <1>4, <1>5, <1>6

\* The units of some intents can be counted.
LEMMA UnitsInFinite ==
  ASSUME NEW I \in Seq(IntentRow), NEW S \in SUBSET DOMAIN I
  PROVE  IsFiniteSet(UnitsIn(I, S)) /\ Cardinality(UnitsIn(I, S)) \in Nat
<1> DEFINE All == (DOMAIN I) \X (1..MaxReward)
<1>1. MaxReward \in Nat
  BY ContractConstants
<1>2. IsFiniteSet(1..MaxReward)
  BY <1>1, UpTo
<1>3. IsFiniteSet(All)
  BY <1>2, TableFinite, FS_Product
<1>4. ASSUME NEW u \in UnitsIn(I, S) PROVE u \in All
  <2>1. PICK i \in S : u \in {i} \X (1..I[i].amount)
    BY UnitsInElements
  <2>2. i \in DOMAIN I /\ I[i].amount \in 1..MaxReward
    BY TableFinite
  <2> QED BY <1>1, <2>1, <2>2
<1>5. IsFiniteSet(UnitsIn(I, S))
  BY <1>3, <1>4, FS_Subset
<1> QED BY <1>5, FS_CardinalityType

\* An intent adds its amount to the sum.
LEMMA UnitsAdd ==
  ASSUME NEW I \in Seq(IntentRow), NEW S \in SUBSET DOMAIN I, NEW i \in DOMAIN I, i \notin S
  PROVE  Cardinality(UnitsIn(I, S \cup {i})) = Cardinality(UnitsIn(I, S)) + I[i].amount
<1> DEFINE One == {i} \X (1..I[i].amount)
<1>1. I[i].amount \in Nat
  BY TableFinite
<1>2. IsFiniteSet(One) /\ Cardinality(One) = I[i].amount
  BY <1>1, UnitsOfOne
<1>3. IsFiniteSet(UnitsIn(I, S)) /\ Cardinality(UnitsIn(I, S)) \in Nat
  BY UnitsInFinite
<1>4. UnitsIn(I, S \cup {i}) = UnitsIn(I, S) \cup One
  BY UnitsInElements
<1>5. UnitsIn(I, S) \cap One = {}
  BY UnitsInElements
<1> HIDE DEF One
<1>6. Cardinality(UnitsIn(I, S) \cup One) = Cardinality(UnitsIn(I, S)) + Cardinality(One)
  BY <1>2, <1>3, <1>5, DisjointUnion
<1> QED BY <1>1, <1>2, <1>3, <1>4, <1>6

\* The sum depends on the amounts alone.
LEMMA UnitsSame ==
  ASSUME NEW I, NEW J, NEW S, \A i \in S : J[i].amount = I[i].amount
  PROVE  UnitsIn(J, S) = UnitsIn(I, S)
BY UnitsInElements

\* The counters are the sums of the intents.
Counts(I, reserved, paid) ==
  /\ reserved = Cardinality(UnitsIn(I, LiveOf(I)))
  /\ paid = Cardinality(UnitsIn(I, PaidOf(I)))

\* The sums of PoolsMatchIntents.
LEMMA PoolsCount ==
  PoolsMatchIntents <=> Counts(intents, reserved_pool, paid_pool)
BY DEF PoolsMatchIntents, Total, Live, PaidIntents, Counts, UnitsIn, LiveOf, PaidOf

\* The same, of the next state.
LEMMA PoolsCountNext ==
  PoolsMatchIntents' <=> Counts(intents', reserved_pool', paid_pool')
BY DEF PoolsMatchIntents, Total, Live, PaidIntents, Counts, UnitsIn, LiveOf, PaidOf

\* The counters are numbers within the pool.
LEMMA PoolsTyped ==
  ASSUME RowsOK, PoolsOK
  PROVE  reserved_pool \in Nat /\ paid_pool \in Nat /\ Pool \in Nat
<1>1. intents \in Seq(IntentRow)
  BY DEF RowsOK
<1>2. LiveOf(intents) \in SUBSET DOMAIN intents /\ PaidOf(intents) \in SUBSET DOMAIN intents
  BY DEF LiveOf, PaidOf
<1>3. reserved_pool \in Nat /\ paid_pool \in Nat
  BY <1>1, <1>2, UnitsInFinite, PoolsCount DEF PoolsOK, Counts
<1> QED BY <1>3, SettlementConstants

\* What every step keeps of the tables and the chain.
TablesKept ==
  /\ RowsOK' /\ PoolsOK' /\ ChainOK' /\ TxsOK' /\ Kept
  /\ IntentsGrow(intents, intents') /\ TxsGrow(txs, txs')

\* A write to one intent that changes only how far its settlement is.
LEMMA PoolsStay ==
  ASSUME NEW I \in Seq(IntentRow), NEW J, DOMAIN J = DOMAIN I, NEW i \in DOMAIN I,
         J[i].amount = I[i].amount, \A j \in DOMAIN I \ {i} : J[j] = I[j],
         I[i].status \notin {"failed", "paid"}, J[i].status \notin {"failed", "paid"},
         NEW reserved, NEW paid, Counts(I, reserved, paid)
  PROVE  Counts(J, reserved, paid)
<1>1. LiveOf(J) = LiveOf(I) /\ PaidOf(J) = PaidOf(I)
  BY DEF LiveOf, PaidOf
<1>2. \A j \in DOMAIN I : J[j].amount = I[j].amount
  OBVIOUS
<1>3. UnitsIn(J, LiveOf(I)) = UnitsIn(I, LiveOf(I)) /\ UnitsIn(J, PaidOf(I)) = UnitsIn(I, PaidOf(I))
  BY <1>2, UnitsSame DEF LiveOf, PaidOf
<1> QED BY <1>1, <1>3 DEF Counts

\* An intent that is no longer live gives its amount back.
LEMMA PoolsRelease ==
  ASSUME NEW I \in Seq(IntentRow), NEW J, DOMAIN J = DOMAIN I, NEW i \in DOMAIN I,
         J[i].amount = I[i].amount, \A j \in DOMAIN I \ {i} : J[j] = I[j],
         I[i].status \notin {"failed", "paid"}, J[i].status \in {"failed", "paid"},
         NEW reserved, NEW paid, Counts(I, reserved, paid)
  PROVE  /\ Counts(J, reserved - I[i].amount,
                   IF J[i].status = "paid" THEN paid + I[i].amount ELSE paid)
         /\ I[i].amount \in Nat
<1> DEFINE S == LiveOf(I) \ {i}
<1>1. LiveOf(J) = S /\ LiveOf(I) = S \cup {i} /\ i \notin PaidOf(I)
  BY DEF LiveOf, PaidOf
<1>2. PaidOf(J) = IF J[i].status = "paid" THEN PaidOf(I) \cup {i} ELSE PaidOf(I)
  BY DEF PaidOf
<1>3. S \in SUBSET DOMAIN I /\ i \notin S /\ PaidOf(I) \in SUBSET DOMAIN I
  BY DEF LiveOf, PaidOf
<1>4. \A j \in DOMAIN I : J[j].amount = I[j].amount
  OBVIOUS
<1>5. /\ UnitsIn(J, S) = UnitsIn(I, S)
      /\ UnitsIn(J, PaidOf(I)) = UnitsIn(I, PaidOf(I))
      /\ UnitsIn(J, PaidOf(I) \cup {i}) = UnitsIn(I, PaidOf(I) \cup {i})
  <2>1. \A R \in SUBSET DOMAIN I : UnitsIn(J, R) = UnitsIn(I, R)
    BY <1>4, UnitsSame
  <2> QED BY <1>3, <2>1
<1> HIDE DEF S
<1>6. /\ I[i].amount \in Nat
      /\ Cardinality(UnitsIn(I, S)) \in Nat
      /\ Cardinality(UnitsIn(I, S \cup {i})) = Cardinality(UnitsIn(I, S)) + I[i].amount
      /\ Cardinality(UnitsIn(I, PaidOf(I) \cup {i})) = Cardinality(UnitsIn(I, PaidOf(I))) + I[i].amount
  BY <1>1, <1>3, UnitsAdd, UnitsInFinite, TableFinite
<1>7. Cardinality(UnitsIn(J, LiveOf(J))) = reserved - I[i].amount
  BY <1>1, <1>5, <1>6 DEF Counts
<1>8. Cardinality(UnitsIn(J, PaidOf(J))) = IF J[i].status = "paid" THEN paid + I[i].amount ELSE paid
  BY <1>2, <1>5, <1>6 DEF Counts
<1> QED BY <1>6, <1>7, <1>8 DEF Counts

\* A new intent reserves its amount.
LEMMA PoolsReserve ==
  ASSUME NEW I \in Seq(IntentRow), NEW row \in IntentRow, row.status \notin {"failed", "paid"},
         NEW reserved, NEW paid, Counts(I, reserved, paid)
  PROVE  Counts(Append(I, row), reserved + row.amount, paid)
<1> DEFINE J == Append(I, row)
           n == Len(I) + 1
<1>1. /\ J \in Seq(IntentRow) /\ Len(I) \in Nat /\ DOMAIN I = 1..Len(I)
      /\ DOMAIN J = 1..(Len(I) + 1) /\ J[n] = row
      /\ \A i \in DOMAIN I : J[i] = I[i]
  OBVIOUS
<1> HIDE DEF J
<1>2. n \in DOMAIN J /\ n \notin DOMAIN I /\ DOMAIN J = DOMAIN I \cup {n}
  BY <1>1
<1> HIDE DEF n
<1>3. /\ LiveOf(J) = LiveOf(I) \cup {n} /\ PaidOf(J) = PaidOf(I)
      /\ n \notin LiveOf(I) /\ LiveOf(I) \in SUBSET DOMAIN J
  BY <1>1, <1>2 DEF LiveOf, PaidOf
<1>4. /\ UnitsIn(J, LiveOf(I)) = UnitsIn(I, LiveOf(I))
      /\ UnitsIn(J, PaidOf(I)) = UnitsIn(I, PaidOf(I))
  BY <1>1, UnitsSame DEF LiveOf, PaidOf
<1>5. Cardinality(UnitsIn(J, LiveOf(I) \cup {n})) = Cardinality(UnitsIn(J, LiveOf(I))) + J[n].amount
  BY <1>1, <1>2, <1>3, UnitsAdd
<1> QED BY <1>1, <1>3, <1>4, <1>5 DEF Counts, J

\* The tables and the chain after a write that keeps the counters.
LEMMA PlainWrite ==
  ASSUME SettlementInv, NEW i \in DOMAIN intents, NEW new, NEW after \in ReportStatus,
         Writes(intents[i], new, after, txs), new.status \notin {"failed", "paid"},
         intents' = [intents EXCEPT ![i] = new],
         reports' = [reports EXCEPT ![intents[i].report] = after],
         UNCHANGED <<reserved_pool, paid_pool>>, UNCHANGED chain
  PROVE  TablesKept
<1>1. txs' = txs
  BY DEF chain
<1>2. /\ RowsOK' /\ Kept /\ IntentsGrow(intents, intents')
      /\ DOMAIN intents' = DOMAIN intents /\ intents'[i] = new
      /\ \A j \in DOMAIN intents \ {i} : intents'[j] = intents[j]
  BY <1>1, RowWritten DEF SettlementInv
<1>3. /\ new.amount = intents[i].amount /\ intents[i].status \notin {"failed", "paid"}
  BY DEF Writes
<1>4. intents \in Seq(IntentRow) /\ Counts(intents, reserved_pool, paid_pool)
  BY PoolsCount DEF SettlementInv, RowsOK, PoolsOK
<1>5. Counts(intents', reserved_pool, paid_pool)
  BY <1>2, <1>3, <1>4, PoolsStay
<1>6. PoolsOK'
  BY <1>5, PoolsCountNext DEF SettlementInv, PoolsOK
<1> QED BY <1>2, <1>6, ChainStays DEF TablesKept

\* The tables and the chain after a write that ends the settlement.
LEMMA EndingWrite ==
  ASSUME SettlementInv, NEW i \in DOMAIN intents, NEW new, NEW after \in ReportStatus,
         Writes(intents[i], new, after, txs), new.status \in {"failed", "paid"},
         intents' = [intents EXCEPT ![i] = new],
         reports' = [reports EXCEPT ![intents[i].report] = after],
         reserved_pool' = reserved_pool - intents[i].amount,
         paid_pool' = IF new.status = "paid" THEN paid_pool + intents[i].amount ELSE paid_pool,
         UNCHANGED chain
  PROVE  TablesKept
<1>1. txs' = txs
  BY DEF chain
<1>2. /\ RowsOK' /\ Kept /\ IntentsGrow(intents, intents')
      /\ DOMAIN intents' = DOMAIN intents /\ intents'[i] = new
      /\ \A j \in DOMAIN intents \ {i} : intents'[j] = intents[j]
  BY <1>1, RowWritten DEF SettlementInv
<1>3. /\ new.amount = intents[i].amount /\ intents[i].status \notin {"failed", "paid"}
  BY DEF Writes
<1>4. intents \in Seq(IntentRow) /\ Counts(intents, reserved_pool, paid_pool)
  BY PoolsCount DEF SettlementInv, RowsOK, PoolsOK
<1>5. Counts(intents', reserved_pool', paid_pool') /\ intents[i].amount \in Nat
  BY <1>2, <1>3, <1>4, PoolsRelease
<1>6. reserved_pool' + paid_pool' <= Pool
  BY <1>5, PoolsTyped DEF SettlementInv, PoolsOK
<1>7. PoolsOK'
  BY <1>5, <1>6, PoolsCountNext DEF PoolsOK
<1> QED BY <1>2, <1>7, ChainStays DEF TablesKept

\* The tables and the chain after a step that writes neither.
LEMMA NoWrite ==
  ASSUME SettlementInv, UNCHANGED database, UNCHANGED chain
  PROVE  TablesKept
<1>1. /\ intents' = intents /\ reports' = reports /\ txs' = txs
      /\ reserved_pool' = reserved_pool /\ paid_pool' = paid_pool
  BY DEF database, chain
<1>2. TxsGrow(txs, txs')
  BY <1>1 DEF TxsGrow
<1>3. RowsOK' /\ Kept /\ IntentsGrow(intents, intents')
  BY <1>1, <1>2, RowsStay DEF SettlementInv
<1>4. PoolsOK'
  BY <1>1, PoolsCount, PoolsCountNext DEF SettlementInv, PoolsOK
<1> QED BY <1>3, <1>4, ChainStays DEF TablesKept

-----------------------------------------------------------------------------
(***************************************************************************)
(* The database's writes                                                   *)
(***************************************************************************)
\* What is known of an intent.
LEMMA RowKnown ==
  ASSUME SettlementInv, NEW i \in DOMAIN intents
  PROVE  /\ intents \in Seq(IntentRow) /\ intents[i] \in IntentRow
         /\ intents[i].report \in ReportKeys
         /\ reports \in [ReportKeys -> ReportStatus]
         /\ reports[intents[i].report] \in ReportStatus
         /\ RowOK(intents[i], reports[intents[i].report])
         /\ EvidenceOK(intents[i], txs)
         /\ reports = [reports EXCEPT ![intents[i].report] = reports[intents[i].report]]
<1>1. /\ intents \in Seq(IntentRow)
      /\ reports \in [ReportKeys -> ReportStatus]
      /\ RowOK(intents[i], reports[intents[i].report])
      /\ EvidenceOK(intents[i], txs)
  BY DEF SettlementInv, RowsOK
<1>2. intents[i] \in IntentRow
  BY <1>1
<1>3. intents[i].report \in ReportKeys
  BY <1>2 DEF IntentRow
<1> QED BY <1>1, <1>2, <1>3

\* What is known of a transaction: its place is a number, never 0.
LEMMA TxKnown ==
  ASSUME SettlementInv, NEW t \in DOMAIN txs
  PROVE  t \in Nat \ {0} /\ txs[t] \in TxRow /\ txs \in Seq(TxRow) /\ SentFor(txs[t], intents)
<1>1. txs \in Seq(TxRow) /\ SentFor(txs[t], intents)
  BY DEF SettlementInv, ChainOK, TxsOK
<1>2. DOMAIN txs = 1..Len(txs) /\ Len(txs) \in Nat
  BY <1>1
<1> QED BY <1>1, <1>2

\* observe_reward_approval with a hash.
LEMMA ObserveApprovalKeeps ==
  ASSUME SettlementInv, NEW i \in DOMAIN intents, NEW t \in Approving(txs, intents[i]),
         CanObserveApproval(i, t), ObserveApproval(i, t), UNCHANGED chain
  PROVE  TablesKept
<1> DEFINE row == intents[i]
           ops == Observed(row.approvals, t)
           new == [row EXCEPT !.status = "approval_submitted", !.approvals = ops]
<1>1. t \in Nat \ {0}
  BY TxKnown DEF Approving
<1>2. Writes(row, new, reports[row.report], txs)
  BY <1>1, RowKnown, ObserveApprovalWrites DEF CanObserveApproval
<1>3. /\ intents' = [intents EXCEPT ![i].status = "approval_submitted", ![i].approvals = ops]
      /\ UNCHANGED <<reports, reserved_pool, paid_pool>>
  BY DEF ObserveApproval, Observed
<1> HIDE DEF ops
<1>4. intents' = [intents EXCEPT ![i] = new] /\ new.status = "approval_submitted"
  BY <1>3, RowKnown DEF IntentRow
<1> HIDE DEF new
<1>5. reports' = [reports EXCEPT ![row.report] = reports[row.report]]
  BY <1>3, RowKnown
<1> QED BY <1>2, <1>3, <1>4, <1>5, RowKnown, PlainWrite

\* observe_reward_approval without one.
LEMMA ObserveUncertainKeeps ==
  ASSUME SettlementInv, NEW i \in DOMAIN intents, ObserveUncertain(i), UNCHANGED chain
  PROVE  TablesKept
<1> DEFINE row == intents[i]
           ops == Append(row.approvals, Operation("submission_uncertain", 0))
           new == [row EXCEPT !.status = "awaiting_approval", !.approvals = ops]
<1>1. Writes(row, new, reports[row.report], txs)
  BY RowKnown, ObserveUncertainWrites DEF ObserveUncertain
<1>2. /\ intents' = [intents EXCEPT ![i].approvals = ops]
      /\ row.status = "awaiting_approval"
      /\ UNCHANGED <<reports, reserved_pool, paid_pool>>
  BY DEF ObserveUncertain
<1> HIDE DEF ops
<1>3. intents' = [intents EXCEPT ![i] = new] /\ new.status = "awaiting_approval"
  BY <1>2, RowKnown DEF IntentRow
<1> HIDE DEF new
<1>4. reports' = [reports EXCEPT ![row.report] = reports[row.report]]
  BY <1>2, RowKnown
<1> QED BY <1>1, <1>2, <1>3, <1>4, RowKnown, PlainWrite

\* confirm_reward_approval.
LEMMA ConfirmApprovalKeeps ==
  ASSUME SettlementInv, NEW i \in DOMAIN intents, NEW t \in Committing(txs, intents[i]),
         CanConfirmApproval(i, t), ConfirmApproval(i, t), UNCHANGED chain
  PROVE  TablesKept
<1> DEFINE row == intents[i]
           ops == Confirmed(row.approvals, t)
           new == [row EXCEPT !.status = "ready_for_payout", !.approvals = ops]
<1>1. t \in Nat
  BY TxKnown DEF Committing, Approving
<1>2. row \in IntentRow /\ row.approvals \in Seq(OperationRow)
  BY RowKnown DEF IntentRow
<1>3. PICK m \in DOMAIN row.approvals : row.approvals[m] = Operation("submitted", t)
  BY <1>2 DEF CanConfirmApproval, Range
<1>4. Writes(row, new, "reward_approved", txs)
  BY <1>1, <1>3, RowKnown, ConfirmApprovalWrites DEF CanConfirmApproval
<1>5. /\ intents' = [intents EXCEPT ![i].status = "ready_for_payout", ![i].approvals = ops]
      /\ reports' = [reports EXCEPT ![row.report] = "reward_approved"]
      /\ UNCHANGED <<reserved_pool, paid_pool>>
  BY <1>2, RowKnown DEF ConfirmApproval, Confirmed, IntentRow
<1> HIDE DEF ops
<1>6. intents' = [intents EXCEPT ![i] = new] /\ new.status = "ready_for_payout"
  BY <1>5, RowKnown DEF IntentRow
<1> HIDE DEF new
<1>7. "reward_approved" \in ReportStatus
  BY DEF ReportStatus
<1> QED BY <1>4, <1>5, <1>6, <1>7, PlainWrite

\* fail_reward_settlement_operation on an approval.
LEMMA FailApprovalKeeps ==
  ASSUME SettlementInv, NEW i \in DOMAIN intents,
         CanFailApproval(i), FailApproval(i), UNCHANGED chain
  PROVE  TablesKept
<1> DEFINE row == intents[i]
           ops == Failing(row.approvals)
           new == [row EXCEPT !.status = "awaiting_approval", !.approvals = ops]
<1>1. Writes(row, new, reports[row.report], txs)
  BY RowKnown, FailApprovalWrites DEF CanFailApproval
<1>2. /\ intents' = [intents EXCEPT ![i].status = "awaiting_approval", ![i].approvals = ops]
      /\ UNCHANGED <<reports, reserved_pool, paid_pool>>
  BY RowKnown DEF FailApproval, IntentRow
<1> HIDE DEF ops
<1>3. intents' = [intents EXCEPT ![i] = new] /\ new.status = "awaiting_approval"
  BY <1>2, RowKnown DEF IntentRow
<1> HIDE DEF new
<1>4. reports' = [reports EXCEPT ![row.report] = reports[row.report]]
  BY <1>2, RowKnown
<1> QED BY <1>1, <1>2, <1>3, <1>4, RowKnown, PlainWrite

\* cancel_reward_settlement.
LEMMA CancelKeeps ==
  ASSUME SettlementInv, NEW i \in DOMAIN intents,
         CanCancelIntent(i), CancelIntent(i), UNCHANGED chain
  PROVE  TablesKept
<1> DEFINE row == intents[i]
           new == [row EXCEPT !.status = "failed"]
<1>1. Writes(row, new, reports[row.report], txs)
  BY RowKnown, CancelWrites DEF CanCancelIntent
<1>2. /\ intents' = [intents EXCEPT ![i].status = "failed"]
      /\ reserved_pool' = reserved_pool - row.amount
      /\ UNCHANGED <<reports, paid_pool>>
  BY DEF CancelIntent, SetIntent
<1>3. intents' = [intents EXCEPT ![i] = new] /\ new.status = "failed"
  BY <1>2, RowKnown DEF IntentRow
<1> HIDE DEF new
<1>4. reports' = [reports EXCEPT ![row.report] = reports[row.report]]
  BY <1>2, RowKnown
<1>5. paid_pool' = IF new.status = "paid" THEN paid_pool + intents[i].amount ELSE paid_pool
  BY <1>2, <1>3
<1> QED BY <1>1, <1>2, <1>3, <1>4, <1>5, RowKnown, EndingWrite

\* prepare_reward_payout_relay.
LEMMA PrepareRelayKeeps ==
  ASSUME SettlementInv, NEW i \in DOMAIN intents,
         CanPrepareRelay(i), PrepareRelay(i), UNCHANGED chain
  PROVE  TablesKept
<1> DEFINE row == intents[i]
           ops == Append(row.payouts, Operation("submission_uncertain", 0))
           new == [row EXCEPT !.status = "ready_for_payout", !.payouts = ops]
<1>1. Writes(row, new, reports[row.report], txs)
  BY RowKnown, PrepareRelayWrites DEF CanPrepareRelay
<1>2. /\ intents' = [intents EXCEPT ![i].payouts = ops]
      /\ row.status = "ready_for_payout"
      /\ UNCHANGED <<reports, reserved_pool, paid_pool>>
  BY DEF PrepareRelay, CanPrepareRelay
<1> HIDE DEF ops
<1>3. intents' = [intents EXCEPT ![i] = new] /\ new.status = "ready_for_payout"
  BY <1>2, RowKnown DEF IntentRow
<1> HIDE DEF new
<1>4. reports' = [reports EXCEPT ![row.report] = reports[row.report]]
  BY <1>2, RowKnown
<1> QED BY <1>1, <1>2, <1>3, <1>4, RowKnown, PlainWrite

\* What SetReport makes of a report.
LEMMA SetReportGives ==
  ASSUME SettlementInv, NEW i \in DOMAIN intents, NEW from, NEW to, SetReport(i, from, to)
  PROVE  reports' = [reports EXCEPT ![intents[i].report] =
                       IF reports[intents[i].report] = from THEN to ELSE reports[intents[i].report]]
BY RowKnown DEF SetReport

\* accept_reward_payout_relay.
LEMMA AcceptRelayKeeps ==
  ASSUME SettlementInv, NEW i \in DOMAIN intents, NEW n \in DOMAIN intents[i].payouts,
         CanAcceptRelay(i, n), AcceptRelay(i, n), UNCHANGED chain
  PROVE  TablesKept
<1> DEFINE row == intents[i]
           ops == [row.payouts EXCEPT ![n] = Operation("provider_accepted", 0)]
           new == [row EXCEPT !.status = "payout_submitted", !.payouts = ops]
<1>1. row.status = "ready_for_payout" /\ row.payouts[n].status = "submission_uncertain"
  BY DEF CanAcceptRelay
<1>2. Writes(row, new, "payment_pending", txs)
  BY <1>1, RowKnown, AcceptRelayWrites
<1>3. row.payouts[n].tx = 0 /\ reports[row.report] = "reward_approved"
  BY <1>1, RowKnown DEF RowOK, AttemptsOK
<1>4. /\ intents' = [intents EXCEPT ![i].status = "payout_submitted",
                                    ![i].payouts[n].status = "provider_accepted"]
      /\ UNCHANGED <<reserved_pool, paid_pool>>
      /\ SetReport(i, "reward_approved", "payment_pending")
  BY DEF AcceptRelay
<1>5. reports' = [reports EXCEPT ![row.report] = "payment_pending"]
  BY <1>3, <1>4, SetReportGives
<1>6. "provider_accepted" \in OperationStatus /\ "payment_pending" \in ReportStatus
  BY DEF OperationStatus, ActiveStatus, ReportStatus
<1>7. intents' = [intents EXCEPT ![i] = new]
  <2>1. row \in IntentRow /\ intents \in Seq(IntentRow)
    BY RowKnown
  <2>2. row.payouts[n] = Operation(row.payouts[n].status, row.payouts[n].tx)
    BY <2>1, AttemptTyped DEF IntentRow
  <2>3. [row.payouts[n] EXCEPT !.status = "provider_accepted"] = Operation("provider_accepted", 0)
    BY <1>3, <2>2 DEF Operation
  <2>4. [row.payouts EXCEPT ![n].status = "provider_accepted"] = ops
    BY <2>3
  <2>5. [row EXCEPT !.status = "payout_submitted", !.payouts[n].status = "provider_accepted"]
          = [row EXCEPT !.status = "payout_submitted",
                        !.payouts = [row.payouts EXCEPT ![n].status = "provider_accepted"]]
    BY <2>1 DEF IntentRow
  <2>6. intents' = [intents EXCEPT ![i] = [row EXCEPT !.status = "payout_submitted",
                                                      !.payouts[n].status = "provider_accepted"]]
    BY <1>4, <2>1 DEF IntentRow
  <2> QED BY <2>4, <2>5, <2>6
<1> HIDE DEF ops
<1>8. new.status = "payout_submitted"
  BY RowKnown DEF IntentRow
<1> HIDE DEF new
<1> QED BY <1>2, <1>4, <1>5, <1>6, <1>7, <1>8, PlainWrite

\* attach_reward_payout_hash.
LEMMA AttachHashKeeps ==
  ASSUME SettlementInv, NEW i \in DOMAIN intents, NEW n \in DOMAIN intents[i].payouts,
         NEW t \in Paying(txs, intents[i].report),
         CanAttachHash(i, n, t), AttachHash(i, n, t), UNCHANGED chain
  PROVE  TablesKept
<1> DEFINE row == intents[i]
           ops == [row.payouts EXCEPT ![n] = Operation("submitted", t)]
           new == [row EXCEPT !.status = "payout_submitted", !.payouts = ops]
<1>1. t \in Nat \ {0}
  BY TxKnown DEF Paying
<1>2. /\ row.status = "payout_submitted"
      /\ Writes(row, new, reports[row.report], txs)
  BY <1>1, RowKnown, AttachHashWrites DEF CanAttachHash
<1>3. /\ intents' = [intents EXCEPT ![i].payouts[n] = Operation("submitted", t)]
      /\ UNCHANGED <<reports, reserved_pool, paid_pool>>
  BY DEF AttachHash
<1>4. intents' = [intents EXCEPT ![i].payouts = ops]
  BY <1>3
<1> HIDE DEF ops
<1>5. intents' = [intents EXCEPT ![i] = new] /\ new.status = "payout_submitted"
  BY <1>2, <1>4, RowKnown DEF IntentRow
<1> HIDE DEF new
<1>6. reports' = [reports EXCEPT ![row.report] = reports[row.report]]
  BY <1>3, RowKnown
<1> QED BY <1>2, <1>3, <1>5, <1>6, RowKnown, PlainWrite

\* observe_reward_payout: a known hash changes nothing.
LEMMA ObservePayoutKeeps ==
  ASSUME SettlementInv, NEW i \in DOMAIN intents, NEW t \in Paying(txs, intents[i].report),
         CanObservePayout(i, t), ObservePayout(i, t), UNCHANGED chain
  PROVE  TablesKept
<1> DEFINE row == intents[i]
           ops == Append(Failing(row.payouts), Operation("submitted", t))
           new == [row EXCEPT !.status = "payout_submitted", !.payouts = ops]
<1>1. ASSUME PayoutKnown(i, t) PROVE TablesKept
  BY <1>1, NoWrite DEF ObservePayout, database
<1>2. ASSUME ~PayoutKnown(i, t) PROVE TablesKept
  <2>1. t \in Nat \ {0}
    BY TxKnown DEF Paying
  <2>2. row.status \in {"ready_for_payout", "payout_submitted"}
    BY <1>2 DEF CanObservePayout
  <2>3. Writes(row, new, "payment_pending", txs)
    BY <2>1, <2>2, RowKnown, ObservePayoutWrites
  <2>4. reports[row.report] \in {"reward_approved", "payment_pending"}
    BY <2>2, RowKnown DEF RowOK
  <2>5. /\ intents' = [intents EXCEPT ![i].status = "payout_submitted", ![i].payouts = ops]
        /\ SetReport(i, "reward_approved", "payment_pending")
        /\ UNCHANGED <<reserved_pool, paid_pool>>
    BY <1>2, RowKnown DEF ObservePayout, IntentRow
  <2>6. reports' = [reports EXCEPT ![row.report] = "payment_pending"]
    BY <2>4, <2>5, SetReportGives
  <2> HIDE DEF ops
  <2>7. intents' = [intents EXCEPT ![i] = new] /\ new.status = "payout_submitted"
    BY <2>5, RowKnown DEF IntentRow
  <2> HIDE DEF new
  <2>8. "payment_pending" \in ReportStatus
    BY DEF ReportStatus
  <2> QED BY <2>3, <2>5, <2>6, <2>7, <2>8, PlainWrite
<1> QED BY <1>1, <1>2

\* fail_reward_settlement_operation on a payout.
LEMMA FailPayoutKeeps ==
  ASSUME SettlementInv, NEW i \in DOMAIN intents,
         CanFailPayout(i), FailPayout(i), UNCHANGED chain
  PROVE  TablesKept
<1> DEFINE row == intents[i]
           ops == Failing(row.payouts)
           new == [row EXCEPT !.status = "ready_for_payout", !.payouts = ops]
<1>1. /\ reports[row.report] \in {"reward_approved", "payment_pending"}
      /\ Writes(row, new, "reward_approved", txs)
  BY RowKnown, FailPayoutWrites DEF CanFailPayout
<1>2. /\ intents' = [intents EXCEPT ![i].status = "ready_for_payout", ![i].payouts = ops]
      /\ SetReport(i, "payment_pending", "reward_approved")
      /\ UNCHANGED <<reserved_pool, paid_pool>>
  BY RowKnown DEF FailPayout, IntentRow
<1>3. reports' = [reports EXCEPT ![row.report] = "reward_approved"]
  BY <1>1, <1>2, SetReportGives
<1> HIDE DEF ops
<1>4. intents' = [intents EXCEPT ![i] = new] /\ new.status = "ready_for_payout"
  BY <1>2, RowKnown DEF IntentRow
<1> HIDE DEF new
<1>5. "reward_approved" \in ReportStatus
  BY DEF ReportStatus
<1> QED BY <1>1, <1>2, <1>3, <1>4, <1>5, PlainWrite

\* confirm_reward_payout.
LEMMA ConfirmPayoutKeeps ==
  ASSUME SettlementInv, NEW i \in DOMAIN intents, NEW t \in Nat,
         CanConfirmPayout(i, t), ConfirmPayout(i, t), UNCHANGED chain
  PROVE  TablesKept
<1> DEFINE row == intents[i]
           ops == Confirmed(row.payouts, t)
           new == [row EXCEPT !.status = "paid", !.payouts = ops]
<1>1. row \in IntentRow /\ row.payouts \in Seq(OperationRow)
  BY RowKnown DEF IntentRow
<1>2. PICK m \in DOMAIN row.payouts : row.payouts[m] = Operation("submitted", t)
  BY <1>1 DEF CanConfirmPayout, Range
<1>3. Writes(row, new, "paid", txs)
  BY <1>2, RowKnown, ConfirmPayoutWrites DEF CanConfirmPayout
<1>4. /\ intents' = [intents EXCEPT ![i].status = "paid", ![i].payouts = ops]
      /\ reports' = [reports EXCEPT ![row.report] = "paid"]
      /\ reserved_pool' = reserved_pool - row.amount
      /\ paid_pool' = paid_pool + row.amount
  BY <1>1, RowKnown DEF ConfirmPayout, Confirmed, IntentRow
<1> HIDE DEF ops
<1>5. intents' = [intents EXCEPT ![i] = new] /\ new.status = "paid"
  BY <1>4, RowKnown DEF IntentRow
<1> HIDE DEF new
<1>6. "paid" \in ReportStatus
  BY DEF ReportStatus
<1> QED BY <1>3, <1>4, <1>5, <1>6, EndingWrite

-----------------------------------------------------------------------------
(***************************************************************************)
(* The chain's steps                                                       *)
(***************************************************************************)
\* A reward that was committed stays committed, and a paid one paid.
Later(e, f) ==
  \A k \in ReportKeys :
    /\ e.rewards[k].status # "None" =>
         /\ f.rewards[k].status # "None"
         /\ f.rewards[k].amount = e.rewards[k].amount
         /\ f.rewards[k].approvedContentHash = e.rewards[k].approvedContentHash
         /\ f.rewards[k].researcher = e.rewards[k].researcher
    /\ e.rewards[k].status = "Paid" => f.rewards[k].status = "Paid"

\* What a mined transaction, successful or not, makes of the escrow.
LEMMA AfterIsSound ==
  ASSUME NEW e, Sound(e), NEW tx \in TxRow
  PROVE  /\ Sound(After(e, tx))
         /\ After(e, tx).balance + After(e, tx).totalPaid = e.balance + e.totalPaid
         /\ Later(e, After(e, tx))
         /\ Succeeds(e, tx) => Done(After(e, tx), tx)
         /\ \A k \in ReportKeys : After(e, tx).rewards[k].status # "None" =>
              \/ e.rewards[k].status # "None"
              \/ Succeeds(e, tx) /\ tx.kind = "approve" /\ tx.report = k
<1> DEFINE k == tx.report
           f == After(e, tx)
           h == ContentHash[k]
           w == PayoutWallet[k]
<1>1. /\ e \in Escrow /\ k \in ReportKeys /\ tx.amount \in Nat /\ tx.kind \in {"approve", "pay"}
      /\ h \in ContentHashes /\ w \in Wallets /\ IsFiniteSet(ReportKeys)
  BY SettlementConstants DEF Sound, TxRow
<1>2. ASSUME ~Succeeds(e, tx)
      PROVE  /\ Sound(f) /\ Later(e, f)
             /\ f.balance + f.totalPaid = e.balance + e.totalPaid
             /\ \A j \in ReportKeys : f.rewards[j].status # "None" => e.rewards[j].status # "None"
  BY <1>2 DEF After, Later
<1>3. ASSUME Succeeds(e, tx), tx.kind = "approve"
      PROVE  /\ Sound(f) /\ Later(e, f) /\ Done(f, tx)
             /\ f.balance + f.totalPaid = e.balance + e.totalPaid
             /\ \A j \in ReportKeys : f.rewards[j].status # "None" => e.rewards[j].status # "None" \/ j = k
  <2>1. f = AfterApprove(e, k, h, w, tx.amount) /\ CanApprove(e, Owner, k, tx.amount)
    BY <1>3 DEF After, Succeeds
  <2>2. Sound(f)
    BY <1>1, <2>1, ApproveSound
  <2>3. e.rewards[k].status = "None"
    BY <2>1 DEF CanApprove
  <2>4. /\ f.rewards[k] = [approvedContentHash |-> h, researcher |-> w,
                           amount |-> tx.amount, status |-> "Approved"]
        /\ \A j \in ReportKeys : j # k => f.rewards[j] = e.rewards[j]
        /\ f.balance = e.balance /\ f.totalPaid = e.totalPaid
    BY <1>1, <2>1 DEF AfterApprove, Escrow
  <2> HIDE DEF f, h, w
  <2>5. Later(e, f)
    BY <2>3, <2>4 DEF Later
  <2>6. Done(f, tx)
    BY <1>3, <2>4 DEF Done, Committed, h, w
  <2> QED BY <2>2, <2>4, <2>5, <2>6
<1>4. ASSUME Succeeds(e, tx), tx.kind = "pay"
      PROVE  /\ Sound(f) /\ Later(e, f) /\ Done(f, tx)
             /\ f.balance + f.totalPaid = e.balance + e.totalPaid
             /\ \A j \in ReportKeys : f.rewards[j].status # "None" => e.rewards[j].status # "None"
  <2>1. f = AfterPay(e, k) /\ CanPay(e, k)
    BY <1>4 DEF After, Succeeds
  <2>2. Sound(f)
    BY <1>1, <2>1, PaySound
  <2>3. e.rewards[k].status = "Approved"
    BY <2>1 DEF CanPay
  <2>4. e.rewards[k] \in Reward /\ e.rewards[k].amount \in Nat
    BY <1>1, ContractConstants DEF Escrow, Reward
  <2>5. /\ f.rewards[k] = [e.rewards[k] EXCEPT !.status = "Paid"]
        /\ \A j \in ReportKeys : j # k => f.rewards[j] = e.rewards[j]
    BY <1>1, <2>1 DEF AfterPay, Escrow
  <2>6. /\ f.balance = e.balance - e.rewards[k].amount
        /\ f.totalPaid = e.totalPaid + e.rewards[k].amount
        /\ e.balance \in Nat /\ e.totalPaid \in Nat
    BY <1>1, <2>1 DEF AfterPay, Escrow
  <2> HIDE DEF f
  <2>7. f.balance + f.totalPaid = e.balance + e.totalPaid
    BY <2>4, <2>6
  <2>8. /\ f.rewards[k].status = "Paid"
        /\ f.rewards[k].amount = e.rewards[k].amount
        /\ f.rewards[k].approvedContentHash = e.rewards[k].approvedContentHash
        /\ f.rewards[k].researcher = e.rewards[k].researcher
    BY <2>4, <2>5 DEF Reward
  <2>9. Later(e, f)
    BY <2>3, <2>5, <2>8 DEF Later
  <2>10. Done(f, tx)
    BY <1>4, <2>8 DEF Done
  <2> QED BY <2>2, <2>3, <2>5, <2>7, <2>9, <2>10
<1> HIDE DEF f
<1> QED BY <1>1, <1>2, <1>3, <1>4 DEF f

\* Time goes one way.
LEMMA LaterTransitive ==
  ASSUME NEW e, NEW f, NEW g, Later(e, f), Later(f, g)
  PROVE  Later(e, g)
BY DEF Later

\* What was done stays done.
LEMMA DoneStays ==
  ASSUME NEW e, NEW f, Later(e, f), NEW tx, tx.report \in ReportKeys, Done(e, tx),
         NEW ux, ux.kind = tx.kind, ux.report = tx.report, ux.amount = tx.amount
  PROVE  Done(f, ux)
BY DEF Done, Committed, Later

\* A mined transaction is the one that was sent, with its outcome.
LEMMA MinedTyped ==
  ASSUME NEW e, NEW tx \in TxRow, NEW end \in Escrow
  PROVE  /\ Mined(e, tx, end) \in TxRow
         /\ Mined(e, tx, end).kind = tx.kind /\ Mined(e, tx, end).report = tx.report
         /\ Mined(e, tx, end).amount = tx.amount /\ Mined(e, tx, end).intent = tx.intent
         /\ Mined(e, tx, end).outcome = "success" <=> Succeeds(e, tx)
<1> DEFINE outcome == IF Succeeds(e, tx) THEN "success" ELSE "reverted"
           post == IF Succeeds(e, tx) /\ tx.kind = "pay"
                   THEN <<end.totalPaid, end.totalApprovedOutstanding>> ELSE tx.post
           new == [tx EXCEPT !.outcome = outcome, !.post = post]
<1>1. outcome \in Outcome /\ (outcome = "success" <=> Succeeds(e, tx))
  BY DEF Outcome
<1>2. post \in Nat \X Nat
  BY DEF TxRow, Escrow
<1>3. Mined(e, tx, end) = new
  BY DEF Mined, TxRow
<1> HIDE DEF outcome, post
<1>4. new \in TxRow /\ new.outcome = outcome
  BY <1>1, <1>2 DEF TxRow
<1>5. new.kind = tx.kind /\ new.report = tx.report /\ new.amount = tx.amount /\ new.intent = tx.intent
  BY DEF TxRow
<1> QED BY <1>1, <1>3, <1>4, <1>5

\* The tables after a step of the chain alone.
LEMMA ChainGrows ==
  ASSUME SettlementInv, UNCHANGED database, ChainOK', TxsGrow(txs, txs'),
         \A t \in DOMAIN txs' : SentFor(txs'[t], intents)
  PROVE  TablesKept
<1>1. /\ intents' = intents /\ reports' = reports
      /\ reserved_pool' = reserved_pool /\ paid_pool' = paid_pool
  BY DEF database
<1>2. RowsOK' /\ Kept /\ IntentsGrow(intents, intents')
  BY <1>1, RowsStay DEF SettlementInv
<1>3. PoolsOK'
  BY <1>1, PoolsCount, PoolsCountNext DEF SettlementInv, PoolsOK
<1>4. TxsOK'
  BY <1>1 DEF TxsOK
<1> QED BY <1>2, <1>3, <1>4 DEF TablesKept

\* A rewritten sequence of transactions is one.
LEMMA TxsTyped ==
  ASSUME NEW T \in Seq(TxRow), NEW U \in [DOMAIN T -> TxRow]
  PROVE  U \in Seq(TxRow) /\ DOMAIN U = DOMAIN T
<1>1. Len(T) \in Nat /\ DOMAIN T = 1..Len(T)
  OBVIOUS
<1> QED BY <1>1

\* A block, of one transaction or two.
LEMMA MineBlockKeeps ==
  ASSUME SettlementInv, NEW t \in DOMAIN txs, NEW u \in DOMAIN txs, MineBlock(t, u)
  PROVE  TablesKept
<1> DEFINE middle == After(escrow, txs[t])
           end == IF t = u THEN middle ELSE After(middle, txs[u])
           tx == txs[t]
           ux == txs[u]
<1>1. /\ Sound(escrow) /\ escrow.balance + escrow.totalPaid = Pool
      /\ txs \in Seq(TxRow) /\ tx \in TxRow /\ ux \in TxRow
      /\ \A s \in DOMAIN txs : txs[s] \in TxRow /\ SentFor(txs[s], intents)
      /\ \A s \in DOMAIN txs : txs[s].outcome = "success" => Done(escrow, txs[s])
      /\ \A k \in ReportKeys : escrow.rewards[k].status # "None" => Logged("approve", k) # {}
  BY TxKnown DEF SettlementInv, ChainOK
<1>2. /\ Sound(middle) /\ Later(escrow, middle)
      /\ middle.balance + middle.totalPaid = Pool
      /\ Succeeds(escrow, tx) => Done(middle, tx)
      /\ \A k \in ReportKeys : middle.rewards[k].status # "None" =>
           \/ escrow.rewards[k].status # "None"
           \/ Succeeds(escrow, tx) /\ tx.kind = "approve" /\ tx.report = k
  BY <1>1, AfterIsSound
<1> HIDE DEF middle
<1>3. /\ Sound(end) /\ Later(middle, end)
      /\ end.balance + end.totalPaid = Pool
      /\ t # u /\ Succeeds(middle, ux) => Done(end, ux)
      /\ \A k \in ReportKeys : end.rewards[k].status # "None" =>
           \/ middle.rewards[k].status # "None"
           \/ t # u /\ Succeeds(middle, ux) /\ ux.kind = "approve" /\ ux.report = k
  <2>1. ASSUME t = u PROVE end = middle /\ Later(middle, end)
    BY <2>1 DEF Later
  <2>2. ASSUME t # u
        PROVE  /\ Sound(end) /\ Later(middle, end)
               /\ end.balance + end.totalPaid = Pool
               /\ Succeeds(middle, ux) => Done(end, ux)
               /\ \A k \in ReportKeys : end.rewards[k].status # "None" =>
                    \/ middle.rewards[k].status # "None"
                    \/ Succeeds(middle, ux) /\ ux.kind = "approve" /\ ux.report = k
    <3> DEFINE last == After(middle, ux)
    <3>1. end = last
      BY <2>2
    <3>2. /\ Sound(last) /\ Later(middle, last)
          /\ last.balance + last.totalPaid = middle.balance + middle.totalPaid
          /\ Succeeds(middle, ux) => Done(last, ux)
          /\ \A k \in ReportKeys : last.rewards[k].status # "None" =>
               \/ middle.rewards[k].status # "None"
               \/ Succeeds(middle, ux) /\ ux.kind = "approve" /\ ux.report = k
      BY <1>1, <1>2, AfterIsSound
    <3> HIDE DEF last, end
    <3> QED BY <1>2, <3>1, <3>2
  <2> QED BY <1>2, <2>1, <2>2
<1>4. /\ txs[t].outcome = "pending" /\ txs[u].outcome = "pending"
      /\ escrow' = end
      /\ txs' = [s \in DOMAIN txs |->
                   CASE s = t -> Mined(escrow, tx, end)
                     [] s = u /\ s # t -> Mined(middle, ux, end)
                     [] OTHER -> txs[s]]
      /\ UNCHANGED database
  BY DEF MineBlock, middle
<1> HIDE DEF end, tx, ux
<1>5. end \in Escrow /\ Later(escrow, end)
  BY <1>2, <1>3, LaterTransitive DEF Sound
<1>6. /\ DOMAIN txs' = DOMAIN txs
      /\ txs'[t] = Mined(escrow, tx, end)
      /\ t # u => txs'[u] = Mined(middle, ux, end)
      /\ \A s \in DOMAIN txs \ {t, u} : txs'[s] = txs[s]
  BY <1>4
<1>7. ASSUME NEW s \in DOMAIN txs
      PROVE  /\ txs'[s] \in TxRow
             /\ txs'[s].kind = txs[s].kind /\ txs'[s].report = txs[s].report
             /\ txs'[s].amount = txs[s].amount /\ txs'[s].intent = txs[s].intent
             /\ txs[s].outcome = "success" => txs'[s].outcome = "success"
             /\ txs'[s].outcome = "success" => Done(end, txs'[s])
  <2>1. CASE s = t
    <3>1. /\ txs'[s] = Mined(escrow, tx, end) /\ txs[s] = tx /\ tx.outcome = "pending"
          /\ tx.report \in ReportKeys
      BY <1>1, <1>4, <1>6, <2>1 DEF tx, TxRow
    <3>2. /\ txs'[s] \in TxRow
          /\ txs'[s].kind = tx.kind /\ txs'[s].report = tx.report
          /\ txs'[s].amount = tx.amount /\ txs'[s].intent = tx.intent
          /\ txs'[s].outcome = "success" <=> Succeeds(escrow, tx)
      BY <1>1, <1>5, <3>1, MinedTyped
    <3>3. txs'[s].outcome = "success" => Done(end, txs'[s])
      BY <1>2, <1>3, <3>1, <3>2, DoneStays
    <3> QED BY <3>1, <3>2, <3>3
  <2>2. CASE s = u /\ s # t
    <3>1. /\ txs'[s] = Mined(middle, ux, end) /\ txs[s] = ux /\ ux.outcome = "pending"
          /\ ux.report \in ReportKeys
      BY <1>1, <1>4, <1>6, <2>2 DEF ux, TxRow
    <3>2. /\ txs'[s] \in TxRow
          /\ txs'[s].kind = ux.kind /\ txs'[s].report = ux.report
          /\ txs'[s].amount = ux.amount /\ txs'[s].intent = ux.intent
          /\ txs'[s].outcome = "success" <=> Succeeds(middle, ux)
      BY <1>1, <1>5, <3>1, MinedTyped
    <3>3. Later(end, end)
      BY DEF Later
    <3>4. txs'[s].outcome = "success" => Done(end, txs'[s])
      BY <1>3, <2>2, <3>1, <3>2, <3>3, DoneStays
    <3> QED BY <3>1, <3>2, <3>4
  <2>3. CASE s \notin {t, u}
    <3>1. txs'[s] = txs[s] /\ txs[s] \in TxRow /\ txs[s].report \in ReportKeys
      BY <1>1, <1>6, <2>3 DEF TxRow
    <3>2. txs'[s].outcome = "success" => Done(end, txs'[s])
      BY <1>1, <1>5, <3>1, DoneStays
    <3> QED BY <3>1, <3>2
  <2> QED BY <2>1, <2>2, <2>3
<1>8. txs' \in Seq(TxRow)
  <2>1. txs' \in [DOMAIN txs -> TxRow]
    BY <1>4, <1>7
  <2> QED BY <1>1, <2>1, TxsTyped
<1>9. TxsGrow(txs, txs')
  BY <1>6, <1>7 DEF TxsGrow
<1>10. \A s \in DOMAIN txs' : SentFor(txs'[s], intents)
  BY <1>1, <1>6, <1>7 DEF SentFor
<1>11. ASSUME NEW k \in ReportKeys, end.rewards[k].status # "None"
       PROVE  Logged("approve", k)' # {}
  <2>1. ASSUME NEW s \in DOMAIN txs, txs[s].kind = "approve", txs[s].report = k,
               txs'[s].outcome = "success"
        PROVE  s \in Logged("approve", k)'
    BY <1>6, <1>7, <2>1 DEF Logged, Sent
  <2>2. ASSUME escrow.rewards[k].status # "None" PROVE Logged("approve", k)' # {}
    <3>1. PICK s \in Logged("approve", k) : TRUE
      BY <1>1, <2>2
    <3>2. s \in DOMAIN txs /\ txs[s].kind = "approve" /\ txs[s].report = k /\ txs[s].outcome = "success"
      BY <3>1 DEF Logged, Sent
    <3> QED BY <1>7, <2>1, <3>2
  <2>3. ASSUME Succeeds(escrow, tx), tx.kind = "approve", tx.report = k
        PROVE  Logged("approve", k)' # {}
    <3>1. txs'[t].outcome = "success"
      BY <1>1, <1>5, <1>6, <2>3, MinedTyped
    <3> QED BY <2>1, <2>3, <3>1 DEF tx
  <2>4. ASSUME t # u, Succeeds(middle, ux), ux.kind = "approve", ux.report = k
        PROVE  Logged("approve", k)' # {}
    <3>1. txs'[u].outcome = "success"
      BY <1>1, <1>5, <1>6, <2>4, MinedTyped
    <3> QED BY <2>1, <2>4, <3>1 DEF ux
  <2> QED BY <1>2, <1>3, <1>11, <2>2, <2>3, <2>4
<1>12. ChainOK'
  BY <1>3, <1>4, <1>6, <1>7, <1>8, <1>11 DEF ChainOK
<1> QED BY <1>4, <1>9, <1>10, <1>12, ChainGrows

\* A transaction is sent for its intent.
LEMMA SendKeeps ==
  ASSUME SettlementInv, NEW tx \in TxRow, tx.outcome = "pending", SentFor(tx, intents),
         txs' = Append(txs, tx), escrow' = escrow, UNCHANGED database
  PROVE  TablesKept
<1>1. /\ Sound(escrow) /\ escrow.balance + escrow.totalPaid = Pool
      /\ txs \in Seq(TxRow)
      /\ \A s \in DOMAIN txs : txs[s] \in TxRow /\ SentFor(txs[s], intents)
      /\ \A s \in DOMAIN txs : txs[s].outcome = "success" => Done(escrow, txs[s])
      /\ \A k \in ReportKeys : escrow.rewards[k].status # "None" => Logged("approve", k) # {}
  BY TxKnown DEF SettlementInv, ChainOK
<1>2. /\ txs' \in Seq(TxRow) /\ Len(txs) \in Nat /\ DOMAIN txs = 1..Len(txs)
      /\ DOMAIN txs' = 1..(Len(txs) + 1)
      /\ txs'[Len(txs) + 1] = tx
      /\ \A s \in DOMAIN txs : txs'[s] = txs[s]
  BY <1>1
<1>3. /\ \A s \in DOMAIN txs : s \in DOMAIN txs'
      /\ \A s \in DOMAIN txs' : s \in DOMAIN txs \/ s = Len(txs) + 1
  BY <1>2
<1>4. TxsGrow(txs, txs')
  BY <1>2, <1>3 DEF TxsGrow
<1>5. \A s \in DOMAIN txs' : SentFor(txs'[s], intents)
  BY <1>1, <1>2, <1>3
<1>6. \A s \in DOMAIN txs' : txs'[s].outcome = "success" => Done(escrow, txs'[s])
  BY <1>1, <1>2, <1>3
<1>7. ASSUME NEW k \in ReportKeys, escrow.rewards[k].status # "None"
      PROVE  Logged("approve", k)' # {}
  <2>1. PICK s \in Logged("approve", k) : TRUE
    BY <1>1, <1>7
  <2>2. s \in Logged("approve", k)'
    BY <1>2, <1>3, <2>1 DEF Logged, Sent
  <2> QED BY <2>2
<1>8. ChainOK'
  BY <1>1, <1>2, <1>6, <1>7 DEF ChainOK
<1> QED BY <1>4, <1>5, <1>8, ChainGrows

\* The owner's transaction is for its intent.
LEMMA ApprovalTyped ==
  ASSUME SettlementInv, NEW i \in DOMAIN intents
  PROVE  Approval(i) \in TxRow /\ Approval(i).outcome = "pending" /\ SentFor(Approval(i), intents)
<1>1. intents[i] \in IntentRow
  BY RowKnown
<1>2. intents[i].report \in ReportKeys /\ intents[i].amount \in Amounts
  BY <1>1 DEF IntentRow
<1>3. intents[i].amount \in Nat /\ i \in Nat
  <2>1. intents[i].amount \in 1..MaxReward /\ MaxReward \in Nat
    BY <1>2, SettlementConstants, ContractConstants
  <2>2. intents \in Seq(IntentRow)
    BY RowKnown
  <2>3. DOMAIN intents = 1..Len(intents) /\ Len(intents) \in Nat
    BY <2>2
  <2> QED BY <2>1, <2>3
<1>4. Approval(i) \in TxRow
  BY <1>2, <1>3 DEF Approval, TxRow, Outcome
<1>5. SentFor(Approval(i), intents)
  BY DEF SentFor, Approval
<1> QED BY <1>4, <1>5 DEF Approval

\* A payment is for its report, and for its intent's when the relay sends it.
LEMMA PaymentTyped ==
  ASSUME SettlementInv, NEW k \in ReportKeys, NEW i \in Nat, NEW n \in Nat,
         i = 0 \/ (i \in DOMAIN intents /\ intents[i].report = k)
  PROVE  /\ Payment(k, i, n) \in TxRow /\ Payment(k, i, n).outcome = "pending"
         /\ SentFor(Payment(k, i, n), intents)
<1>1. Payment(k, i, n) \in TxRow
  BY DEF Payment, TxRow, Outcome
<1>2. SentFor(Payment(k, i, n), intents)
  BY DEF SentFor, Payment
<1> QED BY <1>1, <1>2 DEF Payment

\* The relay gives a transaction up.
LEMMA RelayDeniedKeeps ==
  ASSUME SettlementInv, NEW t \in DOMAIN txs, RelayDenied(t)
  PROVE  TablesKept
<1>1. /\ Sound(escrow) /\ escrow.balance + escrow.totalPaid = Pool
      /\ txs \in Seq(TxRow) /\ txs[t] \in TxRow
      /\ \A s \in DOMAIN txs : txs[s] \in TxRow /\ SentFor(txs[s], intents)
      /\ \A s \in DOMAIN txs : txs[s].outcome = "success" => Done(escrow, txs[s])
      /\ \A k \in ReportKeys : escrow.rewards[k].status # "None" => Logged("approve", k) # {}
  BY TxKnown DEF SettlementInv, ChainOK
<1> DEFINE new == [txs[t] EXCEPT !.outcome = "reverted"]
<1>2. /\ new \in TxRow /\ new.outcome = "reverted"
      /\ new.kind = txs[t].kind /\ new.report = txs[t].report
      /\ new.amount = txs[t].amount /\ new.intent = txs[t].intent
  BY <1>1 DEF TxRow, Outcome
<1>3. /\ txs[t].outcome = "pending"
      /\ txs' = [txs EXCEPT ![t] = new]
      /\ escrow' = escrow /\ UNCHANGED database
  BY <1>1 DEF RelayDenied
<1> HIDE DEF new
<1>4. /\ DOMAIN txs' = DOMAIN txs /\ txs'[t] = new
      /\ \A s \in DOMAIN txs \ {t} : txs'[s] = txs[s]
  BY <1>1, <1>3
<1>5. ASSUME NEW s \in DOMAIN txs
      PROVE  /\ txs'[s] \in TxRow
             /\ txs'[s].kind = txs[s].kind /\ txs'[s].report = txs[s].report
             /\ txs'[s].amount = txs[s].amount /\ txs'[s].intent = txs[s].intent
             /\ txs[s].outcome = "success" => txs'[s].outcome = "success"
             /\ txs'[s].outcome = "success" => txs'[s] = txs[s]
  <2>1. ASSUME s = t PROVE txs'[s] = new
    BY <2>1, <1>4
  <2>2. ASSUME s # t PROVE txs'[s] = txs[s]
    BY <2>2, <1>4
  <2> QED BY <2>1, <2>2, <1>1, <1>2, <1>3
<1>6. txs' \in Seq(TxRow)
  <2>1. txs' \in [DOMAIN txs -> TxRow]
    BY <1>1, <1>2, <1>3
  <2> QED BY <1>1, <2>1, TxsTyped
<1>7. TxsGrow(txs, txs')
  BY <1>4, <1>5 DEF TxsGrow
<1>8. \A s \in DOMAIN txs' : SentFor(txs'[s], intents)
  BY <1>1, <1>4, <1>5 DEF SentFor
<1>9. \A s \in DOMAIN txs' : txs'[s].outcome = "success" => Done(escrow, txs'[s])
  BY <1>1, <1>4, <1>5
<1>10. ASSUME NEW k \in ReportKeys, escrow.rewards[k].status # "None"
       PROVE  Logged("approve", k)' # {}
  <2>1. PICK s \in Logged("approve", k) : TRUE
    BY <1>1, <1>10
  <2>2. s \in Logged("approve", k)'
    BY <1>4, <1>5, <2>1 DEF Logged, Sent
  <2> QED BY <2>2
<1>11. ChainOK'
  BY <1>1, <1>3, <1>6, <1>9, <1>10 DEF ChainOK
<1> QED BY <1>3, <1>7, <1>8, <1>11, ChainGrows

\* Anyone's payment.
LEMMA ExternalPayKeeps ==
  ASSUME SettlementInv, NEW k \in ReportKeys, ExternalPay(k)
  PROVE  TablesKept
<1>1. txs' = Append(txs, Payment(k, 0, 0)) /\ escrow' = escrow /\ UNCHANGED database
  BY DEF ExternalPay
<1> QED BY <1>1, PaymentTyped, SendKeeps

\* create_reward_settlement_intent.
LEMMA CreateIntentKeeps ==
  ASSUME SettlementInv, NEW k \in ReportKeys, NEW amount \in Amounts, CreateIntent(k, amount)
  PROVE  TablesKept
<1> DEFINE row == [report |-> k, amount |-> amount, status |-> "awaiting_approval",
                   approvals |-> <<>>, payouts |-> <<>>]
<1>1. /\ row \in IntentRow /\ row.report = k /\ row.amount = amount
      /\ row.status = "awaiting_approval" /\ row.approvals = <<>> /\ row.payouts = <<>>
  BY DEF IntentRow, IntentStatus
<1> HIDE DEF row
<1>2. /\ Len(intents) < MaxIntents /\ reports[k] = "validated"
      /\ \A i \in DOMAIN intents : intents[i].report = k => intents[i].status = "failed"
      /\ amount <= Pool - reserved_pool - paid_pool
      /\ intents' = Append(intents, row)
      /\ reserved_pool' = reserved_pool + amount
      /\ reports' = reports /\ paid_pool' = paid_pool /\ txs' = txs
      /\ UNCHANGED chain
  BY DEF CreateIntent, chain, row
<1>3. /\ intents \in Seq(IntentRow)
      /\ reports \in [ReportKeys -> ReportStatus]
      /\ \A i \in DOMAIN intents : RowOK(intents[i], reports[intents[i].report])
      /\ \A i \in DOMAIN intents : EvidenceOK(intents[i], txs)
      /\ \A i, j \in DOMAIN intents :
           intents[i].report = intents[j].report /\ "failed" \notin {intents[i].status, intents[j].status}
             => i = j
  BY DEF SettlementInv, RowsOK
<1>4. /\ intents' \in Seq(IntentRow) /\ Len(intents) \in Nat /\ Len(intents') = Len(intents) + 1
      /\ DOMAIN intents = 1..Len(intents) /\ DOMAIN intents' = 1..(Len(intents) + 1)
      /\ intents'[Len(intents) + 1] = row
      /\ \A i \in DOMAIN intents : intents'[i] = intents[i]
  BY <1>1, <1>2, <1>3
<1>5. /\ \A i \in DOMAIN intents : i \in DOMAIN intents'
      /\ \A i \in DOMAIN intents' : i \in DOMAIN intents \/ i = Len(intents) + 1
  BY <1>4
<1>6. RowOK(row, "validated") /\ EvidenceOK(row, txs)
  <2>1. /\ AttemptsOK(<<>>) /\ \A S : ~Has(<<>>, S)
    BY DEF AttemptsOK, Has
  <2>2. RowOK(row, "validated")
    BY <1>1, <2>1 DEF RowOK
  <2>3. EvidenceOK(row, txs)
    BY <1>1 DEF EvidenceOK
  <2> QED BY <2>2, <2>3
<1>7. \A i \in DOMAIN intents' :
        RowOK(intents'[i], reports[intents'[i].report]) /\ EvidenceOK(intents'[i], txs)
  BY <1>1, <1>2, <1>3, <1>4, <1>5, <1>6
<1>8. ASSUME NEW i \in DOMAIN intents', NEW j \in DOMAIN intents',
             intents'[i].report = intents'[j].report,
             "failed" \notin {intents'[i].status, intents'[j].status}
      PROVE  i = j
  BY <1>1, <1>2, <1>3, <1>4, <1>5, <1>8
<1>9. MaxIntents \in Nat /\ Pool \in Nat
  BY SettlementConstants
<1>10. RowsOK'
  BY <1>2, <1>3, <1>4, <1>7, <1>8, <1>9 DEF RowsOK
<1>11. Kept
  BY <1>4, KeepsItself DEF Kept
<1>12. IntentsGrow(intents, intents')
  BY <1>3, <1>4, <1>5, GrowReflexive DEF IntentsGrow
<1>13. Counts(intents', reserved_pool', paid_pool')
  <2>1. Counts(intents, reserved_pool, paid_pool)
    BY PoolsCount DEF SettlementInv, PoolsOK
  <2> QED BY <1>1, <1>2, <1>3, <2>1, PoolsReserve
<1>14. amount \in Nat
  BY SettlementConstants, ContractConstants
<1>15. reserved_pool' + paid_pool' <= Pool
  BY <1>2, <1>14, PoolsTyped DEF SettlementInv
<1>16. PoolsOK'
  BY <1>13, <1>15, PoolsCountNext DEF PoolsOK
<1> QED BY <1>2, <1>10, <1>11, <1>12, <1>16, ChainStays DEF TablesKept

-----------------------------------------------------------------------------
(***************************************************************************)
(* The requests                                                            *)
(***************************************************************************)
\* What is known of a request under way.
LEMMA RequestKnown ==
  ASSUME SettlementInv, NEW p \in Requests, requests[p].at # "idle"
  PROVE  /\ requests[p] # Idle /\ requests[p] \in RequestRow
         /\ RequestOK(requests[p], intents, txs)
         /\ requests[p].intent \in DOMAIN intents
         /\ requests[p].row \in IntentRow
         /\ requests[p].row.report = intents[requests[p].intent].report
         /\ requests[p].row.amount = intents[requests[p].intent].amount
         /\ Approving(txs, requests[p].row) = Approving(txs, intents[requests[p].intent])
         /\ Committing(txs, requests[p].row) = Committing(txs, intents[requests[p].intent])
         /\ Paying(txs, requests[p].row.report) = Paying(txs, intents[requests[p].intent].report)
<1>1. requests[p] # Idle
  BY DEF Idle
<1>2. requests[p] \in RequestRow /\ RequestOK(requests[p], intents, txs)
  BY <1>1 DEF SettlementInv, RequestsOK
<1>3. /\ requests[p].intent \in DOMAIN intents
      /\ requests[p].row.report = intents[requests[p].intent].report
      /\ requests[p].row.amount = intents[requests[p].intent].amount
  BY <1>2 DEF RequestOK
<1>4. requests[p].row \in IntentRow
  BY <1>2 DEF RequestRow
<1>5. /\ Approving(txs, requests[p].row) = Approving(txs, intents[requests[p].intent])
      /\ Committing(txs, requests[p].row) = Committing(txs, intents[requests[p].intent])
  BY <1>3 DEF Approving, Committing
<1> QED BY <1>1, <1>2, <1>3, <1>4, <1>5

\* Stages that need no evidence.
PlainStage == Stages \ {"submitRelay", "acceptRelay", "waitRelay", "attachHash", "verifyApproval",
                        "observeApproval", "observeInstead", "confirmApproval", "observePayout"}

\* A request that goes on with the evidence its stage needs is a good one.
LEMMA MovedRequest ==
  ASSUME SettlementInv, RowsOK', IntentsGrow(intents, intents'), TxsGrow(txs, txs'),
         NEW p \in Requests, requests[p].at # "idle",
         NEW at \in Stages, NEW t \in Nat,
         StageOK(at, requests[p].row, t, txs'),
         NEW r, r = [requests[p] EXCEPT !.at = at, !.tx = t]
  PROVE  /\ r \in RequestRow
         /\ RequestOK(r, intents', txs')
<1>1. requests[p] \in RequestRow /\ RequestOK(requests[p], intents', txs')
  BY RequestKnown, RequestsStay
<1>2. /\ r \in RequestRow
      /\ r.at = at /\ r.tx = t /\ r.row = requests[p].row /\ r.intent = requests[p].intent
  BY <1>1 DEF RequestRow
<1>3. RequestOK(r, intents', txs')
  BY <1>1, <1>2 DEF RequestOK
<1> QED BY <1>2, <1>3

\* Goto a stage whose evidence the request has, or end.
LEMMA GotoKeeps ==
  ASSUME SettlementInv, TablesKept, NEW p \in Requests, requests[p].at # "idle",
         NEW at \in Stages \cup {"idle"},
         at # "idle" => StageOK(at, requests[p].row, requests[p].tx, txs'),
         Goto(p, at)
  PROVE  RequestsOK'
<1> DEFINE r == IF at = "idle" THEN Idle ELSE [requests[p] EXCEPT !.at = at]
<1>1. requests' = [requests EXCEPT ![p] = r]
  <2>1. requests \in [Requests -> RequestRow \cup {Idle}]
    BY DEF SettlementInv, RequestsOK
  <2> QED BY <2>1 DEF Goto
<1>2. requests[p] \in RequestRow
  BY RequestKnown
<1>3. ASSUME at # "idle" PROVE r \in RequestRow /\ RequestOK(r, intents', txs')
  <2>1. r = [requests[p] EXCEPT !.at = at, !.tx = requests[p].tx] /\ requests[p].tx \in Nat
    BY <1>2, <1>3 DEF RequestRow
  <2> QED BY <1>3, <2>1, MovedRequest DEF TablesKept
<1>4. r = Idle \/ (r \in RequestRow /\ RequestOK(r, intents', txs'))
  BY <1>3
<1> HIDE DEF r
<1> QED BY <1>1, <1>4, RequestGoesOn DEF TablesKept

\* Goto a stage that needs no evidence.
LEMMA GotoPlain ==
  ASSUME SettlementInv, TablesKept, NEW p \in Requests, requests[p].at # "idle",
         NEW at \in PlainStage \cup {"idle"}, Goto(p, at)
  PROVE  RequestsOK'
<1>1. at # "idle" => StageOK(at, requests[p].row, requests[p].tx, txs')
  BY DEF StageOK, PlainStage
<1>2. at \in Stages \cup {"idle"}
  BY DEF PlainStage
<1> QED BY <1>1, <1>2, GotoKeeps

\* Goto a stage with the evidence found for it.
LEMMA GotoWithKeeps ==
  ASSUME SettlementInv, TablesKept, NEW p \in Requests, requests[p].at # "idle",
         NEW at \in Stages, NEW t \in Nat,
         StageOK(at, requests[p].row, t, txs'), GotoWith(p, at, t)
  PROVE  RequestsOK'
<1> DEFINE r == [requests[p] EXCEPT !.at = at, !.tx = t]
<1>1. requests' = [requests EXCEPT ![p] = r]
  <2>1. requests \in [Requests -> RequestRow \cup {Idle}] /\ requests[p] \in RequestRow
    BY RequestKnown DEF SettlementInv, RequestsOK
  <2> QED BY <2>1 DEF GotoWith, RequestRow
<1>2. r \in RequestRow /\ RequestOK(r, intents', txs')
  BY MovedRequest DEF TablesKept
<1> HIDE DEF r
<1> QED BY <1>1, <1>2, RequestGoesOn DEF TablesKept

\* A step that keeps the tables and the requests keeps everything.
LEMMA StepKeeps ==
  ASSUME SettlementInv, TablesKept, RequestsOK', UNCHANGED <<browser, lost>>
  PROVE  SettlementInv' /\ Kept
<1>1. PromptsOK'
  BY DEF SettlementInv, PromptsOK
<1> QED BY <1>1 DEF SettlementInv, TablesKept

\* What a read leaves.
LEMMA ReadKeeps ==
  ASSUME SettlementInv, NEW p, Read(p)
  PROVE  TablesKept /\ UNCHANGED <<browser, lost>> /\ txs' = txs
BY NoWrite DEF Read, chain

\* findRewardApproval.
LEMMA FindApprovalStep ==
  ASSUME SettlementInv, NEW p \in Requests, FindApproval(p)
  PROVE  SettlementInv' /\ Kept
<1> DEFINE row == requests[p].row
           found == Logged("approve", row.report)
<1>1. /\ requests[p].at \in {"findApproval", "scanBeforeCancel"} /\ requests[p].at # "idle"
      /\ \/ found = {} /\ Goto(p, IF requests[p].at = "findApproval" THEN "idle" ELSE "cancel")
         \/ \E t \in found : txs[t].amount # row.amount /\ Goto(p, "idle")
         \/ \E t \in found : /\ txs[t].amount = row.amount
                             /\ GotoWith(p, IF requests[p].at = "findApproval"
                                            THEN "observeApproval" ELSE "observeInstead", t)
      /\ Read(p)
  BY DEF FindApproval
<1>2. TablesKept /\ UNCHANGED <<browser, lost>> /\ txs' = txs
  BY <1>1, ReadKeeps
<1>3. ASSUME NEW t \in found, txs[t].amount = row.amount,
             GotoWith(p, IF requests[p].at = "findApproval"
                         THEN "observeApproval" ELSE "observeInstead", t)
      PROVE  RequestsOK'
  <2> DEFINE at == IF requests[p].at = "findApproval" THEN "observeApproval" ELSE "observeInstead"
  <2>1. t \in Committing(txs, row) /\ t \in DOMAIN txs
    BY <1>3 DEF Logged, Sent, Committing, Approving
  <2>2. t \in Nat
    BY <2>1, TxKnown
  <2>3. at \in Stages /\ at \in {"observeApproval", "observeInstead"}
    BY DEF Stages
  <2>4. GotoWith(p, at, t)
    BY <1>3
  <2> HIDE DEF at
  <2>5. StageOK(at, row, t, txs')
    BY <1>2, <2>1, <2>3 DEF StageOK
  <2> QED BY <1>1, <1>2, <2>2, <2>3, <2>4, <2>5, GotoWithKeeps
<1>4. ASSUME Goto(p, IF requests[p].at = "findApproval" THEN "idle" ELSE "cancel")
      PROVE  RequestsOK'
  <2> DEFINE at == IF requests[p].at = "findApproval" THEN "idle" ELSE "cancel"
  <2>1. at \in PlainStage \cup {"idle"} /\ Goto(p, at)
    BY <1>4 DEF PlainStage, Stages
  <2> HIDE DEF at
  <2> QED BY <1>1, <1>2, <2>1, GotoPlain
<1>5. ASSUME Goto(p, "idle") PROVE RequestsOK'
  BY <1>1, <1>2, <1>5, GotoPlain
<1>6. RequestsOK'
  BY <1>1, <1>3, <1>4, <1>5
<1> QED BY <1>2, <1>6, StepKeeps

\* observeRewardApproval after the scan.
LEMMA ObserveFoundStep ==
  ASSUME SettlementInv, NEW p \in Requests, ObserveFound(p)
  PROVE  SettlementInv' /\ Kept
<1> DEFINE r == requests[p]
           i == requests[p].intent
           t == requests[p].tx
           at == IF r.at = "observeApproval" THEN "reread" ELSE "idle"
<1>1. /\ r.at \in {"observeApproval", "observeInstead"} /\ r.at # "idle"
      /\ \/ /\ CanObserveApproval(i, t) \/ ApprovalReplayed(i, t)
            /\ IF CanObserveApproval(i, t) THEN ObserveApproval(i, t) ELSE UNCHANGED database
            /\ Goto(p, at)
         \/ UNCHANGED database /\ Goto(p, "idle")
      /\ UNCHANGED <<chain, browser, lost>>
  BY DEF ObserveFound, Call
<1>2. i \in DOMAIN intents /\ t \in Committing(txs, intents[i])
  <2>1. /\ i \in DOMAIN intents /\ RequestOK(r, intents, txs)
        /\ Committing(txs, r.row) = Committing(txs, intents[i])
    BY <1>1, RequestKnown
  <2> QED BY <1>1, <2>1 DEF RequestOK, StageOK
<1>3. t \in Approving(txs, intents[i])
  BY <1>2 DEF Committing
<1>4. TablesKept
  <2>1. ASSUME CanObserveApproval(i, t), ObserveApproval(i, t) PROVE TablesKept
    BY <1>1, <1>2, <1>3, <2>1, ObserveApprovalKeeps
  <2>2. ASSUME UNCHANGED database PROVE TablesKept
    BY <1>1, <2>2, NoWrite
  <2> QED BY <1>1, <2>1, <2>2
<1>5. at \in PlainStage \cup {"idle"} /\ "idle" \in PlainStage \cup {"idle"}
  BY DEF PlainStage, Stages
<1> HIDE DEF at
<1>6. RequestsOK'
  BY <1>1, <1>4, <1>5, GotoPlain
<1> QED BY <1>1, <1>4, <1>6, StepKeeps

\* cancelRewardSettlement after a scan that found nothing.
LEMMA CancelStep ==
  ASSUME SettlementInv, NEW p \in Requests, Cancel(p)
  PROVE  SettlementInv' /\ Kept
<1> DEFINE i == requests[p].intent
<1>1. /\ requests[p].at # "idle"
      /\ \/ CanCancelIntent(i) /\ CancelIntent(i)
         \/ UNCHANGED database
      /\ Goto(p, "idle")
      /\ UNCHANGED <<chain, browser, lost>>
  BY DEF Cancel, Call
<1>2. i \in DOMAIN intents
  BY <1>1, RequestKnown
<1>3. TablesKept
  BY <1>1, <1>2, CancelKeeps, NoWrite
<1>4. RequestsOK'
  BY <1>1, <1>3, GotoPlain
<1> QED BY <1>1, <1>3, <1>4, StepKeeps

\* The receipt of an approval.
LEMMA VerifyApprovalStep ==
  ASSUME SettlementInv, NEW p \in Requests, VerifyApproval(p)
  PROVE  SettlementInv' /\ Kept
<1> DEFINE row == requests[p].row
           t == Latest(row.approvals).tx
<1>1. /\ requests[p].at = "verifyApproval" /\ requests[p].at # "idle"
      /\ \/ Goto(p, "idle")
         \/ txs[t].outcome = "success" /\ GotoWith(p, "confirmApproval", t)
         \/ Goto(p, "failApproval")
      /\ Read(p)
  BY DEF VerifyApproval
<1>2. TablesKept /\ UNCHANGED <<browser, lost>> /\ txs' = txs
  BY <1>1, ReadKeeps
<1>3. t \in Approving(txs, row)
  BY <1>1, RequestKnown DEF RequestOK, StageOK
<1>4. t \in Nat
  BY <1>3, TxKnown DEF Approving
<1> HIDE DEF t
<1>5. ASSUME txs[t].outcome = "success", GotoWith(p, "confirmApproval", t) PROVE RequestsOK'
  <2>1. t \in Committing(txs, row)
    BY <1>3, <1>5 DEF Committing
  <2>2. StageOK("confirmApproval", row, t, txs') /\ "confirmApproval" \in Stages
    BY <1>2, <2>1 DEF StageOK, Stages
  <2> QED BY <1>1, <1>2, <1>4, <1>5, <2>2, GotoWithKeeps
<1>6. "failApproval" \in PlainStage \cup {"idle"} /\ "idle" \in PlainStage \cup {"idle"}
  BY DEF PlainStage, Stages
<1>7. RequestsOK'
  BY <1>1, <1>2, <1>5, <1>6, GotoPlain
<1> QED BY <1>2, <1>7, StepKeeps

\* failApproval.
LEMMA ApprovalFailsStep ==
  ASSUME SettlementInv, NEW p \in Requests, ApprovalFails(p)
  PROVE  SettlementInv' /\ Kept
<1> DEFINE i == requests[p].intent
<1>1. /\ requests[p].at # "idle"
      /\ \/ CanFailApproval(i) /\ FailApproval(i)
         \/ UNCHANGED database
      /\ Goto(p, "idle")
      /\ UNCHANGED <<chain, browser, lost>>
  BY DEF ApprovalFails, Call
<1>2. i \in DOMAIN intents
  BY <1>1, RequestKnown
<1>3. TablesKept
  BY <1>1, <1>2, FailApprovalKeeps, NoWrite
<1>4. RequestsOK'
  BY <1>1, <1>3, GotoPlain
<1> QED BY <1>1, <1>3, <1>4, StepKeeps

\* confirmApproval.
LEMMA ApprovalConfirmedStep ==
  ASSUME SettlementInv, NEW p \in Requests, ApprovalConfirmed(p)
  PROVE  SettlementInv' /\ Kept
<1> DEFINE r == requests[p]
           i == requests[p].intent
           t == requests[p].tx
<1>1. /\ r.at = "confirmApproval" /\ r.at # "idle"
      /\ \/ CanConfirmApproval(i, t) /\ ConfirmApproval(i, t)
         \/ UNCHANGED database
      /\ Goto(p, "rereadForPayout") \/ Goto(p, "idle")
      /\ UNCHANGED <<chain, browser, lost>>
  BY DEF ApprovalConfirmed, Call
<1>2. i \in DOMAIN intents /\ t \in Committing(txs, intents[i])
  <2>1. /\ i \in DOMAIN intents /\ RequestOK(r, intents, txs)
        /\ Committing(txs, r.row) = Committing(txs, intents[i])
    BY <1>1, RequestKnown
  <2> QED BY <1>1, <2>1 DEF RequestOK, StageOK
<1>3. TablesKept
  BY <1>1, <1>2, ConfirmApprovalKeeps, NoWrite
<1>4. "rereadForPayout" \in PlainStage \cup {"idle"} /\ "idle" \in PlainStage \cup {"idle"}
  BY DEF PlainStage, Stages
<1>5. RequestsOK'
  BY <1>1, <1>3, <1>4, GotoPlain
<1> QED BY <1>1, <1>3, <1>5, StepKeeps

\* The latest attempt is the last one, if there is any.
LEMMA LatestKnown ==
  ASSUME NEW ops \in Seq(OperationRow)
  PROVE  /\ Latest(ops).tx \in Nat
         /\ Latest(ops).status # "none" =>
              ops # <<>> /\ \E n \in DOMAIN ops : Latest(ops) = ops[n]
<1>1. ASSUME ops = <<>> PROVE Latest(ops).tx = 0 /\ Latest(ops).status = "none"
  BY <1>1 DEF Latest, NoOperation, Operation
<1>2. ASSUME ops # <<>> PROVE \E n \in DOMAIN ops : Latest(ops) = ops[n]
  <2>1. Len(ops) \in DOMAIN ops
    BY <1>2
  <2>2. Latest(ops) = ops[Len(ops)]
    BY <1>2 DEF Latest, Last
  <2> QED BY <2>1, <2>2
<1> QED BY <1>1, <1>2, AttemptTyped

\* Where a row is routed, it has what the stage needs.
LEMMA RouteKnown ==
  ASSUME NEW row \in IntentRow, NEW report, NEW T, RowOK(row, report), EvidenceOK(row, T), NEW tx
  PROVE  /\ Route(row) \in Stages \cup {"idle"}
         /\ Route(row) # "idle" => StageOK(Route(row), row, tx, T)
<1> DEFINE ops == row.approvals
<1>1. /\ Route(row) \in {"findApproval", "verifyApproval", "findPayout", "idle"}
      /\ Route(row) = "verifyApproval" => Latest(ops).status = "submitted"
  BY DEF Route
<1>2. ops \in Seq(OperationRow) /\ AttemptsOK(ops)
  BY DEF IntentRow, RowOK
<1>3. ASSUME Latest(ops).status = "submitted" PROVE Latest(ops).tx \in Approving(T, row)
  <2>1. PICK n \in DOMAIN ops : Latest(ops) = ops[n]
    BY <1>2, <1>3, LatestKnown
  <2> QED BY <1>2, <1>3, <2>1 DEF AttemptsOK, EvidenceOK
<1>4. Route(row) # "idle" => StageOK(Route(row), row, tx, T)
  BY <1>1, <1>3 DEF StageOK
<1> QED BY <1>1, <1>4 DEF Stages

\* The same once no payout is on chain.
LEMMA PayoutRouteKnown ==
  ASSUME NEW row \in IntentRow, NEW T, NEW tx
  PROVE  /\ PayoutRoute(row) \in Stages \cup {"idle"}
         /\ PayoutRoute(row) # "idle" => StageOK(PayoutRoute(row), row, tx, T)
<1> DEFINE ops == row.payouts
<1>1. /\ PayoutRoute(row) \in {"prepareRelay", "submitRelay", "waitRelay", "verifyPayout", "idle"}
      /\ PayoutRoute(row) \in {"submitRelay", "waitRelay"} => Latest(ops).status # "none"
  BY DEF PayoutRoute
<1>2. ops \in Seq(OperationRow)
  BY DEF IntentRow
<1>3. Latest(ops).status # "none" => ops # <<>>
  BY <1>2, LatestKnown
<1>4. PayoutRoute(row) # "idle" => StageOK(PayoutRoute(row), row, tx, T)
  BY <1>1, <1>3 DEF StageOK
<1> QED BY <1>1, <1>4 DEF Stages

\* A copy just read is good.
LEMMA FreshRequest ==
  ASSUME SettlementInv, NEW i \in DOMAIN intents, NEW at \in Stages, NEW t \in Nat,
         StageOK(at, intents[i], t, txs)
  PROVE  LET r == [at |-> at, intent |-> i, row |-> intents[i], tx |-> t]
         IN  r \in RequestRow /\ RequestOK(r, intents, txs)
<1> DEFINE r == [at |-> at, intent |-> i, row |-> intents[i], tx |-> t]
<1>1. intents[i] \in IntentRow /\ intents \in Seq(IntentRow)
  BY RowKnown
<1>2. i \in Nat
  <2>1. DOMAIN intents = 1..Len(intents) /\ Len(intents) \in Nat
    BY <1>1
  <2> QED BY <2>1
<1>3. r \in RequestRow
  BY <1>1, <1>2 DEF RequestRow
<1>4. Len(intents[i].payouts) <= Len(intents[i].payouts)
  <2>1. intents[i].payouts \in Seq(OperationRow)
    BY <1>1 DEF IntentRow
  <2>2. Len(intents[i].payouts) \in Nat
    BY <2>1
  <2> QED BY <2>2
<1>5. RequestOK(r, intents, txs)
  BY <1>4 DEF RequestOK
<1> QED BY <1>3, <1>5

\* The tables and the evidence of a read are the ones that are known.
LEMMA ReadSame ==
  ASSUME SettlementInv, NEW p, Read(p)
  PROVE  TablesKept /\ UNCHANGED <<browser, lost>> /\ txs' = txs /\ intents' = intents
BY NoWrite DEF Read, chain, database

\* The row is read again.
LEMMA RereadStep ==
  ASSUME SettlementInv, NEW p \in Requests, Reread(p)
  PROVE  SettlementInv' /\ Kept
<1> DEFINE i == requests[p].intent
           row == intents[i]
           at == CASE requests[p].at = "reread" -> Route(row)
                   [] requests[p].at = "rereadForPayout" -> "findPayout"
                   [] OTHER -> PayoutRoute(row)
           new == [requests[p] EXCEPT !.at = at, !.row = row]
<1>1. /\ requests[p].at \in {"reread", "rereadForPayout", "rereadRelay"}
      /\ requests[p].at # "idle"
      /\ requests' = [requests EXCEPT ![p] = IF at = "idle" THEN Idle ELSE [@ EXCEPT !.at = at, !.row = row]]
      /\ Read(p)
  BY DEF Reread
<1>2. TablesKept /\ UNCHANGED <<browser, lost>> /\ txs' = txs /\ intents' = intents
  BY <1>1, ReadSame
<1>3. /\ requests[p] \in RequestRow /\ i \in DOMAIN intents
      /\ requests \in [Requests -> RequestRow \cup {Idle}]
      /\ row \in IntentRow /\ RowOK(row, reports[row.report]) /\ EvidenceOK(row, txs)
  BY <1>1, RequestKnown, RowKnown DEF SettlementInv, RequestsOK
<1>4. /\ at \in Stages \cup {"idle"}
      /\ at # "idle" => StageOK(at, row, requests[p].tx, txs)
  <2>1. /\ Route(row) \in Stages \cup {"idle"}
        /\ Route(row) # "idle" => StageOK(Route(row), row, requests[p].tx, txs)
    BY <1>3, RouteKnown
  <2>2. /\ PayoutRoute(row) \in Stages \cup {"idle"}
        /\ PayoutRoute(row) # "idle" => StageOK(PayoutRoute(row), row, requests[p].tx, txs)
    BY <1>3, PayoutRouteKnown
  <2>3. "findPayout" \in Stages /\ StageOK("findPayout", row, requests[p].tx, txs)
    BY DEF Stages, StageOK
  <2>4. at \in {Route(row), "findPayout", PayoutRoute(row)}
    BY <1>1
  <2> HIDE DEF at
  <2> QED BY <2>1, <2>2, <2>3, <2>4
<1>5. requests' = [requests EXCEPT ![p] = IF at = "idle" THEN Idle ELSE new]
  BY <1>1, <1>3
<1> HIDE DEF at
<1>6. ASSUME at # "idle" PROVE new \in RequestRow /\ RequestOK(new, intents', txs')
  <2>1. /\ new \in RequestRow
        /\ new.at = at /\ new.row = row /\ new.intent = i /\ new.tx = requests[p].tx
    <3>1. at \in Stages /\ row \in IntentRow /\ requests[p] \in RequestRow
      BY <1>3, <1>4, <1>6
    <3> HIDE DEF row
    <3> QED BY <3>1 DEF RequestRow
  <2>2. RequestOK([at |-> at, intent |-> i, row |-> row, tx |-> requests[p].tx], intents, txs)
    <3>1. requests[p].tx \in Nat
      BY <1>3 DEF RequestRow
    <3> QED BY <1>3, <1>4, <1>6, <3>1, FreshRequest
  <2> HIDE DEF new
  <2>3. RequestOK(new, intents, txs)
    BY <2>1, <2>2 DEF RequestOK
  <2> QED BY <1>2, <2>1, <2>3
<1> DEFINE next == IF at = "idle" THEN Idle ELSE new
<1>7. next = Idle \/ (next \in RequestRow /\ RequestOK(next, intents', txs'))
  BY <1>6
<1>8. requests' = [requests EXCEPT ![p] = next]
  BY <1>5
<1> HIDE DEF next
<1>9. RequestsOK'
  BY <1>2, <1>7, <1>8, RequestGoesOn DEF TablesKept
<1> QED BY <1>2, <1>9, StepKeeps

\* findRewardPayout.
LEMMA FindPayoutStep ==
  ASSUME SettlementInv, NEW p \in Requests, FindPayout(p)
  PROVE  SettlementInv' /\ Kept
<1> DEFINE row == requests[p].row
           found == Logged("pay", row.report)
<1>1. /\ requests[p].at = "findPayout" /\ requests[p].at # "idle"
      /\ \/ Goto(p, PayoutRoute(row))
         \/ \E t \in found : GotoWith(p, "observePayout", t)
      /\ Read(p)
  BY DEF FindPayout
<1>2. TablesKept /\ UNCHANGED <<browser, lost>> /\ txs' = txs
  BY <1>1, ReadKeeps
<1>3. ASSUME NEW t \in found, GotoWith(p, "observePayout", t) PROVE RequestsOK'
  <2>1. t \in Paying(txs, row.report) /\ t \in DOMAIN txs
    BY DEF Logged, Sent, Paying
  <2>2. t \in Nat
    BY <2>1, TxKnown
  <2>3. StageOK("observePayout", row, t, txs') /\ "observePayout" \in Stages
    BY <1>2, <2>1 DEF StageOK, Stages
  <2> QED BY <1>1, <1>2, <1>3, <2>2, <2>3, GotoWithKeeps
<1>4. ASSUME Goto(p, PayoutRoute(row)) PROVE RequestsOK'
  <2>1. row \in IntentRow
    BY <1>1, RequestKnown
  <2>2. /\ PayoutRoute(row) \in Stages \cup {"idle"}
        /\ PayoutRoute(row) # "idle" => StageOK(PayoutRoute(row), row, requests[p].tx, txs')
    BY <2>1, PayoutRouteKnown
  <2> QED BY <1>1, <1>2, <1>4, <2>2, GotoKeeps
<1>5. RequestsOK'
  BY <1>1, <1>3, <1>4
<1> QED BY <1>2, <1>5, StepKeeps

\* observe_reward_payout with what the scan found.
LEMMA PayoutObservedStep ==
  ASSUME SettlementInv, NEW p \in Requests, PayoutObserved(p)
  PROVE  SettlementInv' /\ Kept
<1> DEFINE r == requests[p]
           i == requests[p].intent
           t == requests[p].tx
<1>1. /\ r.at = "observePayout" /\ r.at # "idle"
      /\ \/ CanObservePayout(i, t) /\ ObservePayout(i, t)
         \/ UNCHANGED database
      /\ Goto(p, "confirmPayout") \/ Goto(p, "idle")
      /\ UNCHANGED <<chain, browser, lost>>
  BY DEF PayoutObserved, Call
<1>2. i \in DOMAIN intents /\ t \in Paying(txs, intents[i].report)
  <2>1. /\ i \in DOMAIN intents /\ RequestOK(r, intents, txs)
        /\ Paying(txs, r.row.report) = Paying(txs, intents[i].report)
    BY <1>1, RequestKnown
  <2> QED BY <1>1, <2>1 DEF RequestOK, StageOK
<1>3. TablesKept
  BY <1>1, <1>2, ObservePayoutKeeps, NoWrite
<1>4. "confirmPayout" \in PlainStage \cup {"idle"} /\ "idle" \in PlainStage \cup {"idle"}
  BY DEF PlainStage, Stages
<1>5. RequestsOK'
  BY <1>1, <1>3, <1>4, GotoPlain
<1> QED BY <1>1, <1>3, <1>5, StepKeeps

\* confirm_reward_payout.
LEMMA PayoutConfirmedStep ==
  ASSUME SettlementInv, NEW p \in Requests, PayoutConfirmed(p)
  PROVE  SettlementInv' /\ Kept
<1> DEFINE r == requests[p]
           i == requests[p].intent
           t == requests[p].tx
<1>1. /\ r.at = "confirmPayout" /\ r.at # "idle"
      /\ \/ CanConfirmPayout(i, t) /\ ConfirmPayout(i, t)
         \/ UNCHANGED database
      /\ Goto(p, "idle")
      /\ UNCHANGED <<chain, browser, lost>>
  BY DEF PayoutConfirmed, Call
<1>2. i \in DOMAIN intents /\ r \in RequestRow
  BY <1>1, RequestKnown
<1>3. t \in Nat
  BY <1>2 DEF RequestRow
<1>4. TablesKept
  BY <1>1, <1>2, <1>3, ConfirmPayoutKeeps, NoWrite
<1>5. RequestsOK'
  BY <1>1, <1>4, GotoPlain
<1> QED BY <1>1, <1>4, <1>5, StepKeeps

\* prepare_reward_payout_relay.
LEMMA RelayPreparedStep ==
  ASSUME SettlementInv, NEW p \in Requests, RelayPrepared(p)
  PROVE  SettlementInv' /\ Kept
<1> DEFINE i == requests[p].intent
<1>1. /\ requests[p].at # "idle"
      /\ \/ CanPrepareRelay(i) /\ PrepareRelay(i)
         \/ UNCHANGED database
      /\ Goto(p, "rereadRelay") \/ Goto(p, "idle")
      /\ UNCHANGED <<chain, browser, lost>>
  BY DEF RelayPrepared, Call
<1>2. i \in DOMAIN intents
  BY <1>1, RequestKnown
<1>3. TablesKept
  BY <1>1, <1>2, PrepareRelayKeeps, NoWrite
<1>4. "rereadRelay" \in PlainStage \cup {"idle"} /\ "idle" \in PlainStage \cup {"idle"}
  BY DEF PlainStage, Stages
<1>5. RequestsOK'
  BY <1>1, <1>3, <1>4, GotoPlain
<1> QED BY <1>1, <1>3, <1>5, StepKeeps

\* The relay sends payReward, once per attempt.
LEMMA RelaySubmittedStep ==
  ASSUME SettlementInv, NEW p \in Requests, RelaySubmitted(p)
  PROVE  SettlementInv' /\ Kept
<1> DEFINE r == requests[p]
           i == requests[p].intent
           n == Len(requests[p].row.payouts)
           k == requests[p].row.report
<1>1. /\ r.at = "submitRelay" /\ r.at # "idle"
      /\ txs' = Append(txs, Payment(k, i, n)) \/ txs' = txs
      /\ Goto(p, "acceptRelay")
      /\ UNCHANGED <<escrow, database, browser, lost>>
  BY DEF RelaySubmitted
<1>2. /\ r \in RequestRow /\ r.row \in IntentRow /\ i \in DOMAIN intents
      /\ k = intents[i].report /\ r.row.payouts # <<>>
  <2>1. RequestOK(r, intents, txs)
    BY <1>1, RequestKnown
  <2>2. r.row.payouts # <<>>
    BY <1>1, <2>1 DEF RequestOK, StageOK
  <2> QED BY <1>1, <2>2, RequestKnown
<1>3. k \in ReportKeys /\ i \in Nat /\ n \in Nat
  <2>1. r.row.payouts \in Seq(OperationRow) /\ k \in ReportKeys
    BY <1>2 DEF IntentRow
  <2>2. i \in Nat
    BY <1>2 DEF RequestRow
  <2>3. n \in Nat
    BY <2>1
  <2> QED BY <2>1, <2>2, <2>3
<1>4. /\ Payment(k, i, n) \in TxRow /\ Payment(k, i, n).outcome = "pending"
      /\ SentFor(Payment(k, i, n), intents)
  BY <1>2, <1>3, PaymentTyped
<1>5. TablesKept
  <2>1. ASSUME txs' = Append(txs, Payment(k, i, n)) PROVE TablesKept
    BY <1>1, <1>4, <2>1, SendKeeps
  <2>2. ASSUME txs' = txs PROVE TablesKept
    BY <1>1, <2>2, NoWrite DEF chain
  <2> QED BY <1>1, <2>1, <2>2
<1>6. StageOK("acceptRelay", r.row, r.tx, txs') /\ "acceptRelay" \in Stages \cup {"idle"}
  BY <1>2 DEF StageOK, Stages
<1>7. RequestsOK'
  BY <1>1, <1>5, <1>6, GotoKeeps
<1> QED BY <1>1, <1>5, <1>7, StepKeeps

\* The last attempt of a request's copy is one of its intent.
LEMMA AttemptOfCopy ==
  ASSUME SettlementInv, NEW p \in Requests, requests[p].at # "idle",
         requests[p].row.payouts # <<>>
  PROVE  Len(requests[p].row.payouts) \in DOMAIN intents[requests[p].intent].payouts
<1> DEFINE old == requests[p].row.payouts
           now == intents[requests[p].intent].payouts
<1>1. /\ requests[p].row \in IntentRow /\ requests[p].intent \in DOMAIN intents
      /\ RequestOK(requests[p], intents, txs)
  BY RequestKnown
<1>2. intents[requests[p].intent] \in IntentRow
  BY <1>1, RowKnown
<1>3. old \in Seq(OperationRow) /\ now \in Seq(OperationRow)
  BY <1>1, <1>2 DEF IntentRow
<1>4. Len(old) <= Len(now)
  BY <1>1 DEF RequestOK
<1> HIDE DEF old, now
<1>5. Len(old) \in Nat /\ Len(old) # 0 /\ Len(now) \in Nat /\ DOMAIN now = 1..Len(now)
  <2>1. old # <<>>
    BY DEF old
  <2> QED BY <1>3, <2>1
<1>6. Len(old) \in DOMAIN now
  BY <1>4, <1>5
<1> QED BY <1>6 DEF old, now

\* accept_reward_payout_relay.
LEMMA RelayAcceptedStep ==
  ASSUME SettlementInv, NEW p \in Requests, RelayAccepted(p)
  PROVE  SettlementInv' /\ Kept
<1> DEFINE r == requests[p]
           i == requests[p].intent
           n == Len(requests[p].row.payouts)
<1>1. /\ r.at = "acceptRelay" /\ r.at # "idle"
      /\ \/ CanAcceptRelay(i, n) /\ AcceptRelay(i, n)
         \/ UNCHANGED database
      /\ Goto(p, "rereadRelay") \/ Goto(p, "idle")
      /\ UNCHANGED <<chain, browser, lost>>
  BY DEF RelayAccepted, Call
<1>2. i \in DOMAIN intents /\ RequestOK(r, intents, txs)
  BY <1>1, RequestKnown
<1>3. r.row.payouts # <<>>
  BY <1>1, <1>2 DEF RequestOK, StageOK
<1>4. n \in DOMAIN intents[i].payouts
  BY <1>1, <1>3, AttemptOfCopy
<1> HIDE DEF n
<1>5. TablesKept
  BY <1>1, <1>2, <1>4, AcceptRelayKeeps, NoWrite
<1>6. "rereadRelay" \in PlainStage \cup {"idle"} /\ "idle" \in PlainStage \cup {"idle"}
  BY DEF PlainStage, Stages
<1>7. RequestsOK'
  BY <1>1, <1>5, <1>6, GotoPlain
<1> QED BY <1>1, <1>5, <1>7, StepKeeps

\* What became of the relay's transaction.
LEMMA WaitRelayStep ==
  ASSUME SettlementInv, NEW p \in Requests, WaitRelay(p)
  PROVE  SettlementInv' /\ Kept
<1> DEFINE r == requests[p]
           i == requests[p].intent
           sent == Relays(i, Len(r.row.payouts))
<1>1. /\ r.at = "waitRelay" /\ r.at # "idle"
      /\ \E t \in sent : \/ Goto(p, "idle")
                         \/ Goto(p, "failPayout")
                         \/ txs[t].outcome = "success" /\ GotoWith(p, "attachHash", t)
      /\ Read(p)
  BY DEF WaitRelay
<1>2. TablesKept /\ UNCHANGED <<browser, lost>> /\ txs' = txs
  BY <1>1, ReadKeeps
<1>3. /\ r \in RequestRow /\ i \in DOMAIN intents /\ RequestOK(r, intents, txs)
      /\ r.row.report = intents[i].report
  BY <1>1, RequestKnown
<1>4. ASSUME NEW t \in sent, txs[t].outcome = "success", GotoWith(p, "attachHash", t)
      PROVE  RequestsOK'
  <2>1. t \in DOMAIN txs /\ txs[t].kind = "pay" /\ txs[t].intent = i
    BY <1>4 DEF Relays, Sent
  <2>2. t \in Nat /\ SentFor(txs[t], intents)
    BY <2>1, TxKnown
  <2>3. i # 0
    <3>1. intents \in Seq(IntentRow)
      BY <1>3, RowKnown
    <3>2. DOMAIN intents = 1..Len(intents) /\ Len(intents) \in Nat
      BY <3>1
    <3> QED BY <1>3, <3>2
  <2>4. t \in Paying(txs, r.row.report)
    BY <1>3, <1>4, <2>1, <2>2, <2>3 DEF Paying, SentFor
  <2>5. r.row.payouts # <<>>
    BY <1>1, <1>3 DEF RequestOK, StageOK
  <2>6. StageOK("attachHash", r.row, t, txs') /\ "attachHash" \in Stages
    BY <1>2, <2>4, <2>5 DEF StageOK, Stages
  <2> QED BY <1>1, <1>2, <1>4, <2>2, <2>6, GotoWithKeeps
<1>5. "failPayout" \in PlainStage \cup {"idle"} /\ "idle" \in PlainStage \cup {"idle"}
  BY DEF PlainStage, Stages
<1>6. ASSUME Goto(p, "idle") \/ Goto(p, "failPayout") PROVE RequestsOK'
  BY <1>1, <1>2, <1>5, <1>6, GotoPlain
<1>7. RequestsOK'
  BY <1>1, <1>4, <1>6
<1> QED BY <1>2, <1>7, StepKeeps

\* failPayout.
LEMMA PayoutFailsStep ==
  ASSUME SettlementInv, NEW p \in Requests, PayoutFails(p)
  PROVE  SettlementInv' /\ Kept
<1> DEFINE i == requests[p].intent
<1>1. /\ requests[p].at # "idle"
      /\ \/ CanFailPayout(i) /\ FailPayout(i)
         \/ UNCHANGED database
      /\ Goto(p, "idle")
      /\ UNCHANGED <<chain, browser, lost>>
  BY DEF PayoutFails, Call
<1>2. i \in DOMAIN intents
  BY <1>1, RequestKnown
<1>3. TablesKept
  BY <1>1, <1>2, FailPayoutKeeps, NoWrite
<1>4. RequestsOK'
  BY <1>1, <1>3, GotoPlain
<1> QED BY <1>1, <1>3, <1>4, StepKeeps

\* attach_reward_payout_hash.
LEMMA HashAttachedStep ==
  ASSUME SettlementInv, NEW p \in Requests, HashAttached(p)
  PROVE  SettlementInv' /\ Kept
<1> DEFINE r == requests[p]
           i == requests[p].intent
           t == requests[p].tx
           n == Len(requests[p].row.payouts)
<1>1. /\ r.at = "attachHash" /\ r.at # "idle"
      /\ \/ CanAttachHash(i, n, t) /\ AttachHash(i, n, t)
         \/ UNCHANGED database
      /\ Goto(p, "rereadRelay") \/ Goto(p, "idle")
      /\ UNCHANGED <<chain, browser, lost>>
  BY DEF HashAttached, Call
<1>2. /\ i \in DOMAIN intents /\ RequestOK(r, intents, txs)
      /\ Paying(txs, r.row.report) = Paying(txs, intents[i].report)
  BY <1>1, RequestKnown
<1>3. r.row.payouts # <<>> /\ t \in Paying(txs, intents[i].report)
  BY <1>1, <1>2 DEF RequestOK, StageOK
<1>4. n \in DOMAIN intents[i].payouts
  BY <1>1, <1>3, AttemptOfCopy
<1> HIDE DEF n
<1>5. TablesKept
  BY <1>1, <1>2, <1>3, <1>4, AttachHashKeeps, NoWrite
<1>6. "rereadRelay" \in PlainStage \cup {"idle"} /\ "idle" \in PlainStage \cup {"idle"}
  BY DEF PlainStage, Stages
<1>7. RequestsOK'
  BY <1>1, <1>5, <1>6, GotoPlain
<1> QED BY <1>1, <1>5, <1>7, StepKeeps

\* The receipt of a payout that is recorded.
LEMMA VerifyPayoutStep ==
  ASSUME SettlementInv, NEW p \in Requests, VerifyPayout(p)
  PROVE  SettlementInv' /\ Kept
<1> DEFINE row == requests[p].row
           t == Latest(row.payouts).tx
<1>1. /\ requests[p].at = "verifyPayout" /\ requests[p].at # "idle"
      /\ GotoWith(p, "confirmPayout", t)
      /\ Read(p)
  BY DEF VerifyPayout
<1>2. TablesKept /\ UNCHANGED <<browser, lost>> /\ txs' = txs
  BY <1>1, ReadKeeps
<1>3. row \in IntentRow
  BY <1>1, RequestKnown
<1>4. t \in Nat
  BY <1>3, LatestKnown DEF IntentRow
<1> HIDE DEF t
<1>5. StageOK("confirmPayout", row, t, txs') /\ "confirmPayout" \in Stages
  BY DEF StageOK, Stages
<1>6. RequestsOK'
  BY <1>1, <1>2, <1>4, <1>5, GotoWithKeeps
<1> QED BY <1>2, <1>6, StepKeeps

\* A request that is lost changes nothing else.
LEMMA LoseStep ==
  ASSUME SettlementInv, NEW p \in Requests, Lose(p)
  PROVE  SettlementInv' /\ Kept
<1>1. /\ requests[p] # Idle /\ lost' = lost + 1 /\ Goto(p, "idle")
      /\ UNCHANGED <<chain, database, browser>>
  BY DEF Lose
<1>2. TablesKept
  BY <1>1, NoWrite
<1>3. requests' = [requests EXCEPT ![p] = Idle]
  BY <1>1 DEF Goto
<1>4. RequestsOK'
  BY <1>2, <1>3, RequestGoesOn DEF TablesKept
<1>5. PromptsOK'
  BY <1>1 DEF SettlementInv, PromptsOK
<1> QED BY <1>2, <1>4, <1>5 DEF SettlementInv, TablesKept

\* reconcile starts with the row it reads.
LEMMA StartReconcileStep ==
  ASSUME SettlementInv, NEW p \in Requests, NEW i \in DOMAIN intents, StartReconcile(p, i)
  PROVE  SettlementInv' /\ Kept
<1> DEFINE at == Route(intents[i])
           r == [at |-> at, intent |-> i, row |-> intents[i], tx |-> 0]
<1>1. at # "idle" /\ requests' = [requests EXCEPT ![p] = r] /\ Read(p)
  BY DEF StartReconcile
<1>2. TablesKept /\ UNCHANGED <<browser, lost>> /\ txs' = txs /\ intents' = intents
  BY <1>1, ReadSame
<1>3. at \in Stages /\ StageOK(at, intents[i], 0, txs)
  BY <1>1, RowKnown, RouteKnown
<1> HIDE DEF at
<1>4. r \in RequestRow /\ RequestOK(r, intents, txs)
  BY <1>3, FreshRequest
<1> HIDE DEF r
<1>5. RequestsOK'
  BY <1>1, <1>2, <1>4, RequestGoesOn DEF TablesKept
<1> QED BY <1>2, <1>5, StepKeeps

\* cancel starts with the row it reads.
LEMMA StartCancelStep ==
  ASSUME SettlementInv, NEW p \in Requests, NEW i \in DOMAIN intents, StartCancel(p, i)
  PROVE  SettlementInv' /\ Kept
<1> DEFINE r == [at |-> "scanBeforeCancel", intent |-> i, row |-> intents[i], tx |-> 0]
<1>1. requests' = [requests EXCEPT ![p] = r] /\ Read(p)
  BY DEF StartCancel
<1>2. TablesKept /\ UNCHANGED <<browser, lost>> /\ txs' = txs /\ intents' = intents
  BY <1>1, ReadSame
<1>3. "scanBeforeCancel" \in Stages /\ StageOK("scanBeforeCancel", intents[i], 0, txs)
  BY DEF Stages, StageOK
<1>4. r \in RequestRow /\ RequestOK(r, intents, txs)
  BY <1>3, FreshRequest
<1> HIDE DEF r
<1>5. RequestsOK'
  BY <1>1, <1>2, <1>4, RequestGoesOn DEF TablesKept
<1> QED BY <1>2, <1>5, StepKeeps

\* A step outside the requests.
LEMMA OutsideKeeps ==
  ASSUME SettlementInv, TablesKept, UNCHANGED <<requests, lost>>,
         browser' \in [1..MaxIntents -> BrowserState]
  PROVE  SettlementInv' /\ Kept
<1>1. RequestsOK'
  BY RequestsWait DEF TablesKept
<1>2. PromptsOK'
  BY DEF SettlementInv, PromptsOK
<1> QED BY <1>1, <1>2 DEF SettlementInv, TablesKept

\* What the owner does in the browser.
LEMMA BrowserStep ==
  ASSUME SettlementInv, NEW i \in DOMAIN intents,
         OpenPrompt(i) \/ Sign(i) \/ SignUnsure(i) \/ LeavePrompt(i) \/ ReportUnsure(i)
  PROVE  SettlementInv' /\ Kept
<1>1. browser \in [1..MaxIntents -> BrowserState]
  BY DEF SettlementInv, PromptsOK
<1>2. /\ browser' \in [1..MaxIntents -> BrowserState]
      /\ UNCHANGED <<requests, lost>>
  BY <1>1 DEF OpenPrompt, Sign, SignUnsure, LeavePrompt, ReportUnsure, BrowserState
<1>3. ASSUME Send(i), UNCHANGED <<escrow, database>> PROVE TablesKept
  <2>1. txs' = Append(txs, Approval(i)) /\ escrow' = escrow
    BY <1>3 DEF Send
  <2> QED BY <1>3, <2>1, ApprovalTyped, SendKeeps
<1>4. TablesKept
  <2>1. CASE OpenPrompt(i) \/ LeavePrompt(i)
    BY <2>1, NoWrite DEF OpenPrompt, LeavePrompt
  <2>2. CASE Sign(i)
    BY <2>2, <1>3 DEF Sign
  <2>3. CASE SignUnsure(i)
    <3>1. UNCHANGED <<escrow, database>> /\ (Send(i) \/ UNCHANGED txs)
      BY <2>3 DEF SignUnsure
    <3>2. ASSUME UNCHANGED txs PROVE TablesKept
      BY <3>1, <3>2, NoWrite DEF chain
    <3> QED BY <3>1, <3>2, <1>3
  <2>4. CASE ReportUnsure(i)
    BY <2>4, ObserveUncertainKeeps DEF ReportUnsure
  <2> QED BY <2>1, <2>2, <2>3, <2>4
<1> QED BY <1>2, <1>4, OutsideKeeps

\* The browser reports the hash of the transaction it sent.
LEMMA ReportHashStep ==
  ASSUME SettlementInv, NEW t \in DOMAIN txs, ReportHash(t)
  PROVE  SettlementInv' /\ Kept
<1> DEFINE i == txs[t].intent
<1>1. /\ txs[t].kind = "approve" /\ CanObserveApproval(i, t) /\ ObserveApproval(i, t)
      /\ UNCHANGED <<chain, browser, requests, lost>>
  BY DEF ReportHash
<1>2. /\ i \in DOMAIN intents /\ txs[t].report = intents[i].report
      /\ txs[t].amount = intents[i].amount
  BY <1>1, TxKnown DEF SentFor
<1>3. t \in Approving(txs, intents[i])
  BY <1>1, <1>2 DEF Approving
<1>4. TablesKept
  BY <1>1, <1>2, <1>3, ObserveApprovalKeeps
<1> QED BY <1>1, <1>4, OutsideKeeps DEF SettlementInv, PromptsOK

\* A step of the chain or of the program's owner.
LEMMA QuietStep ==
  ASSUME SettlementInv, TablesKept, UNCHANGED <<browser, requests, lost>>
  PROVE  SettlementInv' /\ Kept
BY OutsideKeeps DEF SettlementInv, PromptsOK

-----------------------------------------------------------------------------
(***************************************************************************)
(* The invariant                                                           *)
(***************************************************************************)
\* Nothing is reserved, sent or under way at first.
LEMMA InitSettlementInv == Init => SettlementInv
<1> SUFFICES ASSUME Init PROVE SettlementInv
  OBVIOUS
<1>1. /\ txs = <<>> /\ intents = <<>> /\ reserved_pool = 0 /\ paid_pool = 0 /\ lost = 0
      /\ reports = [k \in ReportKeys |-> "validated"]
      /\ browser = [i \in 1..MaxIntents |-> "idle"]
      /\ requests = [p \in Requests |-> Idle]
      /\ escrow = [Deployed(ProgramKey, Owner, Controller, 1)
                     EXCEPT !.balance = Pool, !.totalFunded = Pool]
  BY DEF Init
<1>2. Pool \in Nat /\ MaxIntents \in Nat
  BY SettlementConstants
<1>3. RowsOK
  BY <1>1, <1>2 DEF RowsOK, ReportStatus
<1>4. PoolsOK
  <2>1. UnitsIn(intents, LiveOf(intents)) = {} /\ UnitsIn(intents, PaidOf(intents)) = {}
    BY <1>1 DEF UnitsIn, LiveOf, PaidOf
  <2>2. Counts(intents, 0, 0)
    BY <2>1, FS_EmptySet DEF Counts
  <2> QED BY <1>1, <1>2, <2>2, PoolsCount DEF PoolsOK
<1>5. ChainOK
  <2> DEFINE d == Deployed(ProgramKey, Owner, Controller, 1)
  <2>1. /\ Owner \in Accounts /\ Controller \in Accounts /\ ProgramKey \in ProgramKeys
        /\ IsFiniteSet(ReportKeys)
    BY SettlementConstants
  <2>2. Sound(d)
    BY <2>1, DeploySound
  <2>3. /\ d \in Escrow /\ d.balance = 0 /\ d.totalPaid = 0 /\ d.totalApprovedOutstanding = 0
        /\ \A k \in ReportKeys : d.rewards[k].status = "None"
    BY <2>2 DEF Sound, Deployed, NoReward
  <2>4. escrow = [d EXCEPT !.balance = Pool, !.totalFunded = Pool]
    BY <1>1
  <2> HIDE DEF d
  <2>5. /\ escrow \in Escrow
        /\ escrow.balance = Pool /\ escrow.totalPaid = d.totalPaid
        /\ escrow.totalApprovedOutstanding = d.totalApprovedOutstanding
        /\ escrow.rewards = d.rewards
    BY <1>2, <2>3, <2>4 DEF Escrow
  <2>6. Owed(escrow) = Owed(d) /\ PaidOut(escrow) = PaidOut(d)
    BY <2>5, UnitsWithSame
  <2>7. CountersAgree(escrow)
    BY <2>2, <2>5, <2>6 DEF Sound, CountersAgree
  <2>8. Covered(escrow) /\ Priced(escrow)
    BY <1>2, <2>3, <2>5 DEF Covered, Priced
  <2>9. Sound(escrow) /\ escrow.balance + escrow.totalPaid = Pool
    BY <1>2, <2>3, <2>5, <2>7, <2>8 DEF Sound
  <2>10. \A k \in ReportKeys : escrow.rewards[k].status = "None"
    BY <2>3, <2>5
  <2> QED BY <1>1, <2>9, <2>10 DEF ChainOK
<1>6. TxsOK
  BY <1>1 DEF TxsOK
<1>7. RequestsOK
  BY <1>1 DEF RequestsOK
<1>8. PromptsOK
  BY <1>1 DEF PromptsOK, BrowserState
<1> QED BY <1>3, <1>4, <1>5, <1>6, <1>7, <1>8 DEF SettlementInv

\* Every step keeps the invariant, and of every row what SettlementKept says.
LEMMA NextSettlementInv == SettlementInv /\ [Next]_vars => SettlementInv' /\ Kept
<1> SUFFICES ASSUME SettlementInv, [Next]_vars PROVE SettlementInv' /\ Kept
  OBVIOUS
<1>1. ASSUME NEW t \in DOMAIN txs, NEW u \in DOMAIN txs, MineBlock(t, u)
      PROVE  SettlementInv' /\ Kept
  BY <1>1, MineBlockKeeps, QuietStep DEF MineBlock
<1>2. ASSUME NEW k \in ReportKeys, ExternalPay(k)
      PROVE  SettlementInv' /\ Kept
  BY <1>2, ExternalPayKeeps, QuietStep DEF ExternalPay
<1>3. ASSUME NEW k \in ReportKeys, NEW amount \in Amounts, CreateIntent(k, amount)
      PROVE  SettlementInv' /\ Kept
  BY <1>3, CreateIntentKeeps, QuietStep DEF CreateIntent
<1>4. ASSUME NEW t \in DOMAIN txs, RelayDenied(t)
      PROVE  SettlementInv' /\ Kept
  BY <1>4, RelayDeniedKeeps, QuietStep DEF RelayDenied
<1>5. ASSUME NEW p \in Requests, Step(p)
      PROVE  SettlementInv' /\ Kept
  BY <1>5, FindApprovalStep, ObserveFoundStep, CancelStep, VerifyApprovalStep,
     ApprovalFailsStep, ApprovalConfirmedStep, RereadStep, FindPayoutStep, PayoutObservedStep,
     PayoutConfirmedStep, RelayPreparedStep, RelaySubmittedStep, RelayAcceptedStep, WaitRelayStep,
     PayoutFailsStep, HashAttachedStep, VerifyPayoutStep DEF Step
<1>6. CASE UNCHANGED vars
  <2>1. UNCHANGED chain /\ UNCHANGED database /\ UNCHANGED <<browser, requests, lost>>
    BY <1>6 DEF vars
  <2> QED BY <2>1, NoWrite, QuietStep
<1> QED BY <1>1, <1>2, <1>3, <1>4, <1>5, <1>6, BrowserStep, ReportHashStep,
           StartReconcileStep, StartCancelStep, LoseStep DEF Next

-----------------------------------------------------------------------------
(***************************************************************************)
(* The theorems                                                            *)
(***************************************************************************)
\* The invariant holds in every reachable state.
THEOREM SettlementInvHolds == Spec => []SettlementInv
<1>1. SettlementInv /\ [Next]_vars => SettlementInv'
  BY NextSettlementInv
<1> QED BY <1>1, InitSettlementInv, PTL DEF Spec

\* A set of attempts in which no two differ counts at most one.
LEMMA AtMostOne ==
  ASSUME NEW ops, AttemptsOK(ops)
  PROVE  Cardinality(Active(ops)) <= 1
<1>1. ASSUME Active(ops) = {} PROVE Cardinality(Active(ops)) <= 1
  BY <1>1, FS_EmptySet
<1>2. ASSUME NEW n \in Active(ops) PROVE Cardinality(Active(ops)) <= 1
  <2>1. Active(ops) = {n}
    BY DEF Active, AttemptsOK
  <2> QED BY <2>1, FS_Singleton
<1> QED BY <1>1, <1>2

\* Every attempt of an intent is typed, and its hash is a transaction's.
LEMMA AttemptsKnown ==
  ASSUME SettlementInv, NEW i \in DOMAIN intents
  PROVE  \A op \in Range(intents[i].approvals) \cup Range(intents[i].payouts) :
           op.status \in OperationStatus /\ op.tx \in DOMAIN txs \cup {0}
<1> DEFINE row == intents[i]
<1>1. row \in IntentRow /\ EvidenceOK(row, txs)
  BY RowKnown
<1> HIDE DEF row
<1>2. row.approvals \in Seq(OperationRow) /\ row.payouts \in Seq(OperationRow)
  BY <1>1 DEF IntentRow
<1>3. \A n \in DOMAIN row.approvals :
        row.approvals[n].status \in OperationStatus /\ row.approvals[n].tx \in DOMAIN txs \cup {0}
  BY <1>1, <1>2, AttemptTyped DEF EvidenceOK, Approving
<1>4. \A n \in DOMAIN row.payouts :
        row.payouts[n].status \in OperationStatus /\ row.payouts[n].tx \in DOMAIN txs \cup {0}
  BY <1>1, <1>2, AttemptTyped DEF EvidenceOK, Paying
<1> QED BY <1>3, <1>4 DEF Range, row

\* TypeOK: the settlement tables, the program row, the wallet prompts and the
\* requests hold only values their columns and types allow.
THEOREM SettlementTypeCorrect == Spec => []TypeOK
<1>1. ASSUME SettlementInv PROVE TypeOK
  <2>1. escrow \in Escrow /\ reports \in [ReportKeys -> ReportStatus]
    BY <1>1 DEF SettlementInv, RowsOK, ChainOK, Sound
  <2>2. /\ {reserved_pool, paid_pool, lost} \subseteq Nat
        /\ reserved_pool + paid_pool <= Pool
        /\ browser \in [1..MaxIntents -> BrowserState]
    BY <1>1, PoolsTyped DEF SettlementInv, PoolsOK, PromptsOK
  <2>3. ASSUME NEW i \in DOMAIN intents
        PROVE  /\ intents[i].report \in ReportKeys
               /\ intents[i].amount \in Amounts
               /\ intents[i].status \in IntentStatus
    BY <1>1, RowKnown DEF IntentRow
  <2> QED BY <1>1, <2>1, <2>2, <2>3, AttemptsKnown DEF TypeOK
<1> QED BY <1>1, SettlementInvHolds, PTL

\* StagesAgree: a report, its intent and the intent's operations are always at
\* the same stage, whatever stale requests do.
THEOREM StagesAgreeHolds == Spec => []StagesAgree
<1>1. ASSUME SettlementInv PROVE StagesAgree
  <2>1. ASSUME NEW i \in DOMAIN intents
        PROVE  LET row == intents[i]  report == reports[intents[i].report]
                   approved == With(row.approvals, {"confirmed"}) # {} IN
               /\ Cardinality(Active(row.approvals)) <= 1
               /\ Cardinality(Active(row.payouts)) <= 1
               /\ CASE row.status = "awaiting_approval" ->
                        report = "validated" /\ With(row.approvals, {"submitted", "confirmed"}) = {}
                    [] row.status = "approval_submitted" ->
                        report = "validated" /\ With(row.approvals, {"submitted"}) # {}
                    [] row.status = "ready_for_payout" ->
                        /\ report = "reward_approved" /\ approved
                        /\ With(row.payouts, {"provider_accepted", "submitted", "confirmed"}) = {}
                    [] row.status = "payout_submitted" ->
                        /\ report = "payment_pending" /\ approved
                        /\ With(row.payouts, {"provider_accepted", "submitted"}) # {}
                    [] row.status = "paid" ->
                        /\ report = "paid" /\ approved
                        /\ Cardinality(With(row.payouts, {"confirmed"})) = 1
                    [] row.status = "failed" -> Active(row.approvals) = {} /\ ~approved
    <3> DEFINE row == intents[i]
               report == reports[intents[i].report]
    <3>1. RowOK(row, report) /\ row.status \in IntentStatus
      BY <1>1, RowKnown DEF IntentRow
    <3> HIDE DEF row, report
    <3>2. Cardinality(Active(row.approvals)) <= 1 /\ Cardinality(Active(row.payouts)) <= 1
      BY <3>1, AtMostOne DEF RowOK
    <3>3. ASSUME row.status = "paid" PROVE Cardinality(With(row.payouts, {"confirmed"})) = 1
      <4>1. PICK n \in DOMAIN row.payouts : With(row.payouts, {"confirmed"}) = {n}
        BY <3>1, <3>3 DEF RowOK
      <4> QED BY <4>1, FS_Singleton
    <3>4. \A ops, S : (Has(ops, S) <=> With(ops, S) # {})
      BY DEF Has, With
    <3>5. ASSUME row.status = "awaiting_approval"
          PROVE  report = "validated" /\ With(row.approvals, {"submitted", "confirmed"}) = {}
      BY <3>1, <3>5 DEF RowOK, Has, With
    <3>6. ASSUME row.status = "failed"
          PROVE  Active(row.approvals) = {} /\ With(row.approvals, {"confirmed"}) = {}
      BY <3>1, <3>6 DEF RowOK, Has, With, Active
    <3>7. row.status \in {"ready_for_payout", "payout_submitted", "paid"} =>
            With(row.approvals, {"confirmed"}) # {}
      BY <3>1, <3>4 DEF RowOK
    <3>8. row.status = "approval_submitted" =>
            report = "validated" /\ With(row.approvals, {"submitted"}) # {}
      BY <3>1, <3>4 DEF RowOK
    <3>9. row.status = "ready_for_payout" =>
            /\ report = "reward_approved"
            /\ With(row.payouts, {"provider_accepted", "submitted", "confirmed"}) = {}
      BY <3>1, <3>4 DEF RowOK
    <3>10. row.status = "payout_submitted" =>
            /\ report = "payment_pending"
            /\ With(row.payouts, {"provider_accepted", "submitted"}) # {}
      BY <3>1, <3>4 DEF RowOK
    <3>11. row.status = "paid" => report = "paid"
      BY <3>1 DEF RowOK
    <3> QED BY <3>1, <3>2, <3>3, <3>5, <3>6, <3>7, <3>8, <3>9, <3>10, <3>11 DEF row, report, IntentStatus
  <2>2. \A i, j \in DOMAIN intents :
          intents[i].report = intents[j].report /\ "failed" \notin {intents[i].status, intents[j].status}
            => i = j
    BY <1>1 DEF SettlementInv, RowsOK
  <2> QED BY <2>1, <2>2 DEF StagesAgree
<1> QED BY <1>1, SettlementInvHolds, PTL

\* PoolsMatchIntents: an amount is reserved once, and released or moved to
\* paid_pool once.
THEOREM PoolsMatchIntentsHolds == Spec => []PoolsMatchIntents
<1>1. SettlementInv => PoolsMatchIntents
  BY DEF SettlementInv, PoolsOK
<1> QED BY <1>1, SettlementInvHolds, PTL

\* RecordedIsReal: the database never says more of a reward than the chain.
THEOREM RecordedIsRealHolds == Spec => []RecordedIsReal
<1>1. ASSUME SettlementInv, NEW i \in DOMAIN intents,
             intents[i].status \in {"ready_for_payout", "payout_submitted", "paid"}
      PROVE  Committed(escrow, intents[i].report, intents[i].amount)
  <2> DEFINE row == intents[i]
  <2>1. RowOK(row, reports[row.report]) /\ EvidenceOK(row, txs)
    BY <1>1, RowKnown
  <2>2. PICK n \in DOMAIN row.approvals : row.approvals[n].status = "confirmed"
    BY <1>1, <2>1 DEF RowOK, Has
  <2>3. PICK t \in DOMAIN txs : /\ txs[t].kind = "approve" /\ txs[t].outcome = "success"
                                /\ txs[t].report = row.report /\ txs[t].amount = row.amount
    BY <2>1, <2>2 DEF EvidenceOK, Committing, Approving
  <2>4. Done(escrow, txs[t])
    BY <1>1, <2>3 DEF SettlementInv, ChainOK
  <2> QED BY <2>3, <2>4 DEF Done
<1>2. ASSUME SettlementInv, NEW i \in DOMAIN intents, intents[i].status = "paid"
      PROVE  /\ escrow.rewards[intents[i].report].status = "Paid"
             /\ \E t \in Logged("pay", intents[i].report) :
                  Operation("confirmed", t) \in Range(intents[i].payouts)
  <2> DEFINE row == intents[i]
  <2>1. RowOK(row, reports[row.report]) /\ EvidenceOK(row, txs) /\ row \in IntentRow
    BY <1>2, RowKnown
  <2>2. PICK n \in DOMAIN row.payouts : With(row.payouts, {"confirmed"}) = {n}
    BY <1>2, <2>1 DEF RowOK
  <2>3. row.payouts[n].status = "confirmed"
    BY <2>2 DEF With
  <2> DEFINE t == row.payouts[n].tx
  <2>4. t \in Paying(txs, row.report)
    BY <2>1, <2>3 DEF RowOK, AttemptsOK, EvidenceOK
  <2>5. row.payouts \in Seq(OperationRow)
    BY <2>1 DEF IntentRow
  <2>6. row.payouts[n] = Operation("confirmed", t)
    BY <2>3, <2>5, AttemptTyped
  <2>7. Operation("confirmed", t) \in Range(row.payouts)
    BY <2>6 DEF Range
  <2>8. t \in Logged("pay", row.report)
    BY <2>4 DEF Paying, Logged, Sent
  <2>9. Done(escrow, txs[t])
    BY <1>2, <2>4 DEF SettlementInv, ChainOK, Paying
  <2>10. escrow.rewards[row.report].status = "Paid"
    BY <2>4, <2>9 DEF Done, Paying
  <2> QED BY <2>7, <2>8, <2>10
<1>3. SettlementInv => RecordedIsReal
  BY <1>1, <1>2 DEF RecordedIsReal, Committed
<1> QED BY <1>3, SettlementInvHolds, PTL

\* SettlementKept: a confirmed approval is never undone, paid and cancelled are
\* final, and no recorded hash is rewritten.
THEOREM SettlementKeptHolds == Spec => SettlementKept
<1>1. SettlementInv /\ [Next]_vars =>
        [\A i \in DOMAIN intents :
           LET row == intents[i]  new == intents'[i] IN
           /\ row.status \in {"ready_for_payout", "payout_submitted"} =>
                new.status \in {"ready_for_payout", "payout_submitted", "paid"}
           /\ row.status \in {"paid", "failed"} => new = row
           /\ \A n \in DOMAIN row.approvals :
                /\ row.approvals[n].tx # 0 => new.approvals[n].tx = row.approvals[n].tx
                /\ row.approvals[n].status = "confirmed" => new.approvals[n] = row.approvals[n]
           /\ \A n \in DOMAIN row.payouts :
                row.payouts[n].tx # 0 => new.payouts[n].tx = row.payouts[n].tx]_vars
  BY NextSettlementInv DEF Kept, KeepsRow
<1> QED BY <1>1, SettlementInvHolds, PTL DEF Spec, SettlementKept

\* Unless an approval landed around a cancellation, every reward the escrow
\* committed is one of a live or paid intent, with its amount.
LEMMA CommittedIsIntended ==
  ASSUME SettlementInv, LateApprovals = {},
         NEW k \in ReportKeys, escrow.rewards[k].status # "None"
  PROVE  \E i \in DOMAIN intents : /\ intents[i].status # "failed"
                                   /\ intents[i].report = k
                                   /\ intents[i].amount = escrow.rewards[k].amount
<1>1. PICK t \in Logged("approve", k) : TRUE
  BY DEF SettlementInv, ChainOK
<1>2. /\ t \in DOMAIN txs /\ t \in Sent("approve") /\ txs[t].kind = "approve"
      /\ txs[t].report = k /\ txs[t].outcome = "success"
  BY <1>1 DEF Logged, Sent
<1>3. Committed(escrow, k, txs[t].amount)
  BY <1>2 DEF SettlementInv, ChainOK, Done
<1> DEFINE i == txs[t].intent
           row == intents[i]
<1>4. i \in DOMAIN intents /\ row.report = k /\ row.amount = txs[t].amount
  BY <1>2 DEF SettlementInv, TxsOK, SentFor
<1>5. row.status # "failed"
  <2>1. SUFFICES ASSUME row.status = "failed" PROVE FALSE
    OBVIOUS
  <2>2. RowOK(row, reports[row.report]) /\ row \in IntentRow
    BY <1>4, RowKnown
  <2>3. ~Has(row.approvals, ActiveStatus \cup {"confirmed"})
    BY <2>1, <2>2 DEF RowOK
  <2>4. row.approvals \in Seq(OperationRow)
    BY <2>2 DEF IntentRow
  <2>5. \A n \in DOMAIN row.approvals : row.approvals[n].status \notin {"submitted", "confirmed"}
    BY <2>3 DEF Has, ActiveStatus
  <2>6. Operation("submitted", t).status = "submitted" /\ Operation("confirmed", t).status = "confirmed"
    BY DEF Operation
  <2>7. Operation("submitted", t) \notin Range(row.approvals) /\ Operation("confirmed", t) \notin Range(row.approvals)
    BY <2>5, <2>6 DEF Range
  <2>8. t \in LateApprovals
    BY <1>2, <2>1, <2>7 DEF LateApprovals
  <2> QED BY <2>8
<1>6. row.amount = escrow.rewards[k].amount
  BY <1>3, <1>4 DEF Committed
<1> QED BY <1>4, <1>5, <1>6

\* Then the units the escrow committed are no more than those of the intents.
LEMMA CommittedAtMostIntended ==
  ASSUME SettlementInv, LateApprovals = {}
  PROVE  Owed(escrow) + PaidOut(escrow) <= reserved_pool + paid_pool
<1> DEFINE A == UnitsWith(escrow, "Approved")
           B == UnitsWith(escrow, "Paid")
           L == UnitsIn(intents, LiveOf(intents))
           M == UnitsIn(intents, PaidOf(intents))
           For(k) == CHOOSE i \in DOMAIN intents : /\ intents[i].status # "failed"
                                                   /\ intents[i].report = k
                                                   /\ intents[i].amount = escrow.rewards[k].amount
           f == [u \in A \cup B |-> <<For(u[1]), u[2]>>]
<1>1. escrow \in Escrow /\ intents \in Seq(IntentRow) /\ IsFiniteSet(ReportKeys)
  BY SettlementConstants DEF SettlementInv, RowsOK, ChainOK, Sound
<1>2. LiveOf(intents) \in SUBSET DOMAIN intents /\ PaidOf(intents) \in SUBSET DOMAIN intents
  BY DEF LiveOf, PaidOf
<1>3. /\ IsFiniteSet(A) /\ IsFiniteSet(B) /\ IsFiniteSet(L) /\ IsFiniteSet(M)
      /\ Owed(escrow) = Cardinality(A) /\ PaidOut(escrow) = Cardinality(B)
      /\ reserved_pool = Cardinality(L) /\ paid_pool = Cardinality(M)
  BY <1>1, <1>2, UnitsWithFinite, UnitsInFinite, PoolsCount
     DEF SettlementInv, PoolsOK, Counts, Owed, PaidOut
<1>4. ASSUME NEW k \in ReportKeys, escrow.rewards[k].status # "None"
      PROVE  /\ For(k) \in DOMAIN intents
             /\ intents[For(k)].status # "failed"
             /\ intents[For(k)].report = k
             /\ intents[For(k)].amount = escrow.rewards[k].amount
  BY <1>4, CommittedIsIntended
<1>5. ASSUME NEW u \in A \cup B
      PROVE  \E k \in ReportKeys : \E n \in 1..escrow.rewards[k].amount :
               u = <<k, n>> /\ escrow.rewards[k].status # "None"
  <2>1. PICK k \in ReportKeys : escrow.rewards[k].status # "None" /\ u \in UnitsOf(escrow, k)
    BY UnitsWithElements
  <2> QED BY <2>1 DEF UnitsOf
<1>6. \A i \in DOMAIN intents : intents[i].status # "failed" => i \in LiveOf(intents) \cup PaidOf(intents)
  BY DEF LiveOf, PaidOf
<1> HIDE DEF For
<1>7. ASSUME NEW u \in A \cup B PROVE <<For(u[1]), u[2]>> \in L \cup M
  <2>1. PICK k \in ReportKeys : /\ escrow.rewards[k].status # "None"
                               /\ \E n \in 1..escrow.rewards[k].amount : u = <<k, n>>
    BY <1>5
  <2>1a. PICK n \in 1..escrow.rewards[k].amount : u = <<k, n>>
    BY <2>1
  <2>2. For(k) \in LiveOf(intents) \cup PaidOf(intents) /\ n \in 1..intents[For(k)].amount
    BY <1>4, <1>6, <2>1, <2>1a
  <2>3. <<For(k), n>> \in {For(k)} \X (1..intents[For(k)].amount)
    BY <2>2
  <2>4. <<For(k), n>> \in L \cup M
    BY <2>2, <2>3, UnitsInElements
  <2>5. u[1] = k /\ u[2] = n
    BY <2>1a
  <2> QED BY <2>4, <2>5
<1>8. ASSUME NEW u \in A \cup B, NEW v \in A \cup B, f[u] = f[v] PROVE u = v
  <2>1. PICK k \in ReportKeys : /\ escrow.rewards[k].status # "None"
                               /\ \E n \in 1..escrow.rewards[k].amount : u = <<k, n>>
    BY <1>5
  <2>1a. PICK n \in 1..escrow.rewards[k].amount : u = <<k, n>>
    BY <2>1
  <2>2. PICK l \in ReportKeys : /\ escrow.rewards[l].status # "None"
                               /\ \E m \in 1..escrow.rewards[l].amount : v = <<l, m>>
    BY <1>5
  <2>2a. PICK m \in 1..escrow.rewards[l].amount : v = <<l, m>>
    BY <2>2
  <2>3. f[u] = <<For(k), n>> /\ f[v] = <<For(l), m>>
    BY <2>1a, <2>2a
  <2>4. For(k) = For(l) /\ n = m
    BY <1>8, <2>3
  <2>5. intents[For(k)].report = k /\ intents[For(l)].report = l
    BY <1>4, <2>1, <2>2
  <2> QED BY <2>1a, <2>2a, <2>4, <2>5
<1>9. f \in Injection(A \cup B, L \cup M)
  <2> DEFINE S == A \cup B
             T == L \cup M
  <2>1. \A u \in S : f[u] \in T
    BY <1>7
  <2>2. f = [u \in S |-> f[u]]
    OBVIOUS
  <2>3. \A u, v \in S : f[u] = f[v] => u = v
    BY <1>8
  <2> HIDE DEF f, S, T
  <2>4. f \in [S -> T]
    BY <2>1, <2>2
  <2>5. f \in Injection(S, T)
    BY <2>3, <2>4 DEF Injection, IsInjective
  <2> QED BY <2>5 DEF S, T
<1>10. IsFiniteSet(L \cup M) /\ IsFiniteSet(A \cup B)
  BY <1>3, FS_Union
<1>11. A \cap B = {}
  BY UnitsWithElements DEF UnitsOf
<1>12. L \cap M = {}
  BY UnitsInElements DEF LiveOf, PaidOf
<1> HIDE DEF A, B, L, M, f
<1>13. Cardinality(A \cup B) <= Cardinality(L \cup M)
  BY <1>9, <1>10, FS_Injection
<1>14. /\ Cardinality(A \cup B) = Cardinality(A) + Cardinality(B)
       /\ Cardinality(L \cup M) = Cardinality(L) + Cardinality(M)
  BY <1>3, <1>11, <1>12, DisjointUnion
<1> QED BY <1>3, <1>13, <1>14

\* AvailableIsHonest: what the database lets the owner reserve next, the
\* contract can honour, unless an approval landed around a cancellation.
THEOREM AvailableIsHonestHolds == Spec => []AvailableIsHonest
<1>1. ASSUME SettlementInv PROVE AvailableIsHonest
  <2>1. SUFFICES ASSUME LateApprovals = {}
                 PROVE  Pool - reserved_pool - paid_pool <= AvailableBalance(escrow)
    BY DEF AvailableIsHonest
  <2>2. /\ Sound(escrow) /\ escrow.balance + escrow.totalPaid = Pool
    BY <1>1 DEF SettlementInv, ChainOK
  <2>3. /\ escrow.balance \in Nat /\ escrow.totalPaid \in Nat
        /\ escrow.totalApprovedOutstanding \in Nat
        /\ escrow.totalApprovedOutstanding <= escrow.balance
        /\ escrow.totalApprovedOutstanding = Owed(escrow) /\ escrow.totalPaid = PaidOut(escrow)
    BY <2>2 DEF Sound, Covered, CountersAgree, Escrow
  <2>4. AvailableBalance(escrow) = escrow.balance - escrow.totalApprovedOutstanding
    BY <2>3 DEF AvailableBalance
  <2>5. reserved_pool \in Nat /\ paid_pool \in Nat /\ Pool \in Nat
    BY <1>1, PoolsTyped DEF SettlementInv
  <2>6. Owed(escrow) + PaidOut(escrow) <= reserved_pool + paid_pool
    BY <1>1, <2>1, CommittedAtMostIntended
  <2> QED BY <2>2, <2>3, <2>4, <2>5, <2>6
<1> QED BY <1>1, SettlementInvHolds, PTL
=============================================================================
