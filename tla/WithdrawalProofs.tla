------------------------- MODULE WithdrawalProofs --------------------------
(***************************************************************************)
(* Safety of a program's end, for any number of intents, browser tabs,     *)
(* requests, reports, deposits and transactions.                           *)
(*                                                                         *)
(* WithdrawalInv is inductive.  RecordedOnce alone is not: a reconcile     *)
(* request decides that a withdrawal happened from what it reads of the    *)
(* chain and writes it down later, so what it read must still be true of   *)
(* the row it writes (RequestsOK); and what is recorded stays within what  *)
(* left the escrow because the escrow's counter is the sum of the owner's  *)
(* transactions that succeeded (ChainOK).                                  *)
(***************************************************************************)
EXTENDS Withdrawal, EscrowContractTheorems, SequenceTheorems

Tx == [op : Ops, amount : Nat, outcome : {"pending", "success", "reverted"}]

\* What each of the transactions S took out of the escrow.
Took(S) ==
  [n \in 1..MaxSent |->
     IF n \in DOMAIN S /\ S[n].op = "withdraw" /\ S[n].outcome = "success"
     THEN S[n].amount ELSE 0]

SettledRow == [stage : {"none", "reserved", "paid"}, receipt : Receipt]

\* Rewards are of one unit, and none is on chain that the database does not
\* hold a reservation or a payout for.
HeldFor(e, rows) ==
  \A k \in ReportKeys :
    e.rewards[k].status # "None" => e.rewards[k].amount = 1 /\ rows[k].stage # "none"

\* The escrow's counter of withdrawals is what the owner's transactions took.
ChainOK ==
  /\ Sound(escrow) /\ now \in 1..MaxTime
  /\ sent \in Seq(Tx) /\ Len(sent) <= MaxSent
  /\ settled \in [ReportKeys -> SettledRow]
  /\ HeldFor(escrow, settled)
  /\ escrow.totalWithdrawn = UnitSum(Took(sent), 1..MaxSent)

\* A row past a step has the hash of that step, of one of the n transactions
\* that were sent.
RowOK(row, n) ==
  /\ \A op \in Ops : row.status = Submitted(op) => row.hash[op] # 0
  /\ row.status = "complete" => row.hash.withdraw # 0
  /\ row.closeRequired
       /\ (row.hash.withdraw # 0
           \/ row.status \in {ReadyTo("withdraw"), Uncertain("withdraw"),
                              Submitted("withdraw"), "complete"})
     => row.closeVerified
  /\ \A op \in Ops : row.hash[op] <= n

\* ReplacementsLinear, of any table of intents.
Line(I) ==
  \A i \in DOMAIN I :
    /\ i < Len(I) => I[i].status \in Final
    /\ i > 1 => I[i].replaces = IF I[i - 1].status = "failed" THEN i - 1 ELSE 0
    /\ I[i].replacedBy = IF I[i].status = "failed" /\ i < Len(I) THEN i + 1 ELSE 0

IntentsOK ==
  /\ intents \in Seq(IntentRow) /\ Len(intents) <= MaxIntents
  /\ \A i \in DOMAIN intents : RowOK(intents[i], Len(sent))
  /\ Line(intents)

Prompt == [intent : 0..MaxIntents, op : Ops]

BrowserOK ==
  /\ pending \in [1..MaxIntents -> [Ops -> 0..Len(sent)]]
  /\ tabs \in [Tabs -> Prompt]
  /\ \A t \in Tabs : tabs[t] = NoPrompt \/ tabs[t].intent \in DOMAIN intents
  /\ unheard \in 0..MaxUnheard

\* The withdrawal an intent was made for happened, in the transaction of S
\* whose hash its row has.
Happened(row, S) ==
  LET tx == S[row.hash.withdraw] IN
  /\ row.hash.withdraw # 0
  /\ tx.outcome = "success" /\ tx.op = "withdraw" /\ tx.amount = row.amount

RequestState ==
  [does : {"nothing", "read", "balance", "create", "close", "withdraw", "record", "fail"},
   intent : 0..MaxIntents, balance : Nat, before : Nat, closed : BOOLEAN]

\* A request that reconciles has a row with the hash it is about, and one
\* that is about to record has a withdrawal that happened.
RequestOK(r, I, S) ==
  /\ r.intent \in {0} \cup DOMAIN I
  /\ r.does \in {"close", "withdraw", "record", "fail"} => r.intent \in DOMAIN I
  /\ r.does = "close" => I[r.intent].hash.close # 0
  /\ r.does = "withdraw" => I[r.intent].hash.withdraw # 0
  /\ r.does = "record" => Happened(I[r.intent], S)

RequestsOK ==
  /\ requests \in [Requests -> RequestState]
  /\ \A q \in Requests : RequestOK(requests[q], intents, sent)

\* What each of the intents I has recorded as withdrawn.
Counted(I) ==
  [i \in 1..MaxIntents |->
     IF i \in DOMAIN I /\ I[i].status = "complete" THEN I[i].amount ELSE 0]

PaidRewards(rows) == {k \in ReportKeys : rows[k].stage = "paid"}

\* Complete intents have withdrawals that happened, each its own.
OwnWithdrawals(I, S) ==
  /\ \A i \in DOMAIN I : I[i].status = "complete" => Happened(I[i], S)
  /\ \A i, j \in DOMAIN I :
       /\ I[i].status = "complete" /\ I[j].status = "complete"
       /\ I[i].hash.withdraw = I[j].hash.withdraw
       => i = j

PoolRow == [total : Nat, paid : Nat, withdrawn : Nat]

RecordsOK ==
  /\ pool \in PoolRow
  /\ pool.paid = Cardinality(PaidRewards(settled))
  /\ pool.total <= ObservedLifetimeInflow(escrow)
  /\ pool.withdrawn = UnitSum(Counted(intents), 1..MaxIntents)
  /\ OwnWithdrawals(intents, sent)

WithdrawalInv == ChainOK /\ IntentsOK /\ BrowserOK /\ RequestsOK /\ RecordsOK

-----------------------------------------------------------------------------
(* Tables.                                                                 *)

\* A row is written.
LEMMA RowsWritten ==
  ASSUME NEW R, NEW I \in Seq(R), NEW i \in DOMAIN I, NEW row \in R,
         NEW J, J = [I EXCEPT ![i] = row]
  PROVE  /\ J \in Seq(R) /\ Len(J) = Len(I) /\ DOMAIN J = DOMAIN I
         /\ DOMAIN I = 1..Len(I) /\ Len(I) \in Nat
         /\ J[i] = row
         /\ \A j \in DOMAIN I : j # i => J[j] = I[j]
<1>1. DOMAIN I = 1..Len(I) /\ Len(I) \in Nat
  BY LenProperties
<1>2. /\ J \in Seq(R) /\ Len(J) = Len(I)
      /\ \A j \in 1..Len(I) : J[j] = IF j = i THEN row ELSE I[j]
  BY <1>1, ExceptSeq
<1> QED BY <1>1, <1>2

\* A row is appended.
LEMMA RowsAppended ==
  ASSUME NEW R, NEW I \in Seq(R), NEW row \in R, NEW J, J = Append(I, row)
  PROVE  /\ J \in Seq(R) /\ Len(J) = Len(I) + 1 /\ Len(I) \in Nat
         /\ DOMAIN I = 1..Len(I) /\ DOMAIN J = 1..(Len(I) + 1)
         /\ J[Len(I) + 1] = row
         /\ \A j \in DOMAIN I : J[j] = I[j]
<1>1. DOMAIN I = 1..Len(I) /\ Len(I) \in Nat
  BY LenProperties
<1>2. /\ J \in Seq(R) /\ Len(J) = Len(I) + 1
      /\ \A j \in 1..Len(I) : J[j] = I[j]
      /\ J[Len(I) + 1] = row
  BY AppendProperties
<1>3. DOMAIN J = 1..Len(J)
  BY <1>2, LenProperties
<1> QED BY <1>1, <1>2, <1>3

\* What a write may make of a row: a final one stays, and so does a hash.
Successor(r, s) ==
  /\ s \in IntentRow
  /\ s.amount = r.amount /\ s.replaces = r.replaces /\ s.replacedBy = r.replacedBy
  /\ \A op \in Ops : r.hash[op] # 0 => s.hash[op] = r.hash[op]
  /\ r.status \in Final => s = r

\* The line of replacements does not mind a write to one row.
LEMMA LineWritten ==
  ASSUME NEW I \in Seq(IntentRow), Line(I), NEW i \in DOMAIN I, NEW row,
         Successor(I[i], row), NEW J, J = [I EXCEPT ![i] = row]
  PROVE  Line(J)
<1>1. /\ row \in IntentRow /\ row.replaces = I[i].replaces /\ row.replacedBy = I[i].replacedBy
      /\ I[i].status \in Final => row = I[i]
  BY DEF Successor
<1>2. /\ Len(J) = Len(I) /\ DOMAIN J = DOMAIN I /\ DOMAIN I = 1..Len(I) /\ Len(I) \in Nat
      /\ J[i] = row /\ \A j \in DOMAIN I : j # i => J[j] = I[j]
  BY <1>1, RowsWritten
<1>3. ASSUME NEW j \in DOMAIN I, j < Len(I) PROVE J[j] = I[j] /\ I[j].status \in Final
  BY <1>1, <1>2, <1>3 DEF Line
<1>4. ASSUME NEW j \in DOMAIN I
      PROVE  J[j].replaces = I[j].replaces /\ J[j].replacedBy = I[j].replacedBy
  BY <1>1, <1>2
<1>5. ASSUME NEW j \in DOMAIN J
      PROVE  /\ j < Len(J) => J[j].status \in Final
             /\ j > 1 => J[j].replaces = IF J[j - 1].status = "failed" THEN j - 1 ELSE 0
             /\ J[j].replacedBy = IF J[j].status = "failed" /\ j < Len(J) THEN j + 1 ELSE 0
  <2>1. j \in DOMAIN I /\ j \in 1..Len(I)
    BY <1>2
  <2>2. j < Len(J) => J[j].status \in Final
    BY <1>2, <1>3, <2>1
  <2>3. ASSUME j > 1
        PROVE  J[j].replaces = IF J[j - 1].status = "failed" THEN j - 1 ELSE 0
    <3>1. j - 1 \in DOMAIN I /\ j - 1 < Len(I)
      BY <1>2, <2>1, <2>3
    <3>2. J[j - 1] = I[j - 1]
      BY <1>3, <3>1
    <3> QED BY <1>4, <2>1, <2>3, <3>2 DEF Line
  <2>4. J[j].replacedBy = IF J[j].status = "failed" /\ j < Len(J) THEN j + 1 ELSE 0
    <3>1. CASE j < Len(I)
      BY <1>2, <1>3, <2>1, <3>1 DEF Line
    <3>2. CASE ~(j < Len(I))
      BY <1>2, <1>4, <2>1, <3>2 DEF Line
    <3> QED BY <3>1, <3>2
  <2> QED BY <2>2, <2>3, <2>4
<1> QED BY <1>5 DEF Line

\* The line goes on with an intent that follows a complete one.
LEMMA LineContinued ==
  ASSUME NEW I \in Seq(IntentRow), Line(I), \A i \in DOMAIN I : I[i].status \in Final,
         \A i \in DOMAIN I : ~(I[i].status = "failed" /\ I[i].replacedBy = 0),
         NEW row \in IntentRow, row.status \notin Final, row.replacedBy = 0, row.replaces = 0,
         NEW J, J = Append(I, row)
  PROVE  Line(J)
<1>1. /\ Len(J) = Len(I) + 1 /\ Len(I) \in Nat
      /\ DOMAIN I = 1..Len(I) /\ DOMAIN J = 1..(Len(I) + 1)
      /\ J[Len(I) + 1] = row /\ \A j \in DOMAIN I : J[j] = I[j]
  BY RowsAppended
<1>2. row.status # "failed"
  BY DEF Final
<1>3. Len(I) > 0 => I[Len(I)].status # "failed"
  BY <1>1 DEF Line
<1>4. ASSUME NEW j \in DOMAIN J
      PROVE  /\ j < Len(J) => J[j].status \in Final
             /\ j > 1 => J[j].replaces = IF J[j - 1].status = "failed" THEN j - 1 ELSE 0
             /\ J[j].replacedBy = IF J[j].status = "failed" /\ j < Len(J) THEN j + 1 ELSE 0
  <2>1. CASE j \in DOMAIN I
    <3>1. J[j] = I[j] /\ j < Len(J) /\ j \in 1..Len(I)
      BY <1>1, <2>1
    <3>2. j > 1 => J[j - 1] = I[j - 1]
      BY <1>1, <3>1
    <3>3. I[j].status = "failed" => j < Len(I)
      BY <1>1, <1>3, <3>1
    <3> QED BY <2>1, <3>1, <3>2, <3>3 DEF Line
  <2>2. CASE j \notin DOMAIN I
    <3>1. j = Len(I) + 1 /\ J[j] = row
      BY <1>1, <2>2
    <3>2. ASSUME j > 1 PROVE J[j - 1].status # "failed"
      <4>1. j - 1 = Len(I) /\ Len(I) > 0 /\ Len(I) \in DOMAIN I
        BY ONLY <1>1, <3>1, <3>2
      <4> QED BY ONLY <1>1, <1>3, <4>1
    <3>3. ~(j < Len(J)) /\ row.replaces = 0 /\ row.replacedBy = 0
      BY <1>1, <3>1
    <3> QED BY ONLY <1>2, <3>1, <3>2, <3>3
  <2> QED BY <2>1, <2>2
<1> QED BY <1>4 DEF Line

\* The line goes on with a replacement of the last intent, which failed.
LEMMA LineReplaced ==
  ASSUME NEW I \in Seq(IntentRow), Line(I), \A i \in DOMAIN I : I[i].status \in Final,
         NEW f \in DOMAIN I, I[f].status = "failed", I[f].replacedBy = 0,
         NEW row \in IntentRow, row.status \notin Final, row.replacedBy = 0, row.replaces = f,
         NEW old \in IntentRow, old.replacedBy = Len(I) + 1,
         old.status = I[f].status, old.replaces = I[f].replaces,
         NEW K, K = [I EXCEPT ![f] = old], NEW J, J = Append(K, row)
  PROVE  Line(J)
<1>1. /\ Len(I) \in Nat /\ DOMAIN I = 1..Len(I) /\ K \in Seq(IntentRow)
      /\ Len(K) = Len(I) /\ K[f] = old /\ \A j \in DOMAIN I : j # f => K[j] = I[j]
  BY RowsWritten
<1>2. /\ Len(J) = Len(I) + 1 /\ DOMAIN J = 1..(Len(I) + 1)
      /\ J[Len(I) + 1] = row /\ \A j \in DOMAIN I : J[j] = K[j]
  BY <1>1, RowsAppended
<1>3. f = Len(I)
  BY <1>1 DEF Line
<1>4. \A j \in DOMAIN I : j < Len(I) => J[j] = I[j]
  BY ONLY <1>1, <1>2, <1>3
<1>5. J[Len(I)] = old /\ row.status # "failed"
  BY <1>1, <1>2, <1>3 DEF Final
<1>6. ASSUME NEW j \in DOMAIN J
      PROVE  /\ j < Len(J) => J[j].status \in Final
             /\ j > 1 => J[j].replaces = IF J[j - 1].status = "failed" THEN j - 1 ELSE 0
             /\ J[j].replacedBy = IF J[j].status = "failed" /\ j < Len(J) THEN j + 1 ELSE 0
  <2>1. CASE j \in DOMAIN I /\ j < Len(I)
    <3>1. J[j] = I[j] /\ j < Len(J) /\ j \in 1..Len(I)
      BY <1>1, <1>2, <1>4, <2>1
    <3>2. j > 1 => J[j - 1] = I[j - 1]
      BY <1>1, <1>4, <2>1, <3>1
    <3> QED BY <2>1, <3>1, <3>2 DEF Line
  <2>2. CASE j = Len(I)
    <3>1. J[j].status = "failed" /\ J[j].replaces = I[j].replaces /\ J[j].replacedBy = j + 1
      BY <1>3, <1>5, <2>2
    <3>2. j > 1 => J[j - 1] = I[j - 1]
      BY ONLY <1>1, <1>4, <2>2
    <3>3. j \in DOMAIN I /\ j < Len(J)
      BY <1>2, <1>3, <2>2
    <3> QED BY <3>1, <3>2, <3>3 DEF Line, Final
  <2>3. CASE j = Len(I) + 1
    <3>1. J[j] = row /\ j - 1 = Len(I) /\ ~(j < Len(J))
      BY ONLY <1>1, <1>2, <2>3
    <3>2. J[j - 1].status = "failed" /\ row.replaces = j - 1 /\ row.replacedBy = 0
      BY <1>3, <1>5, <3>1
    <3> QED BY ONLY <1>5, <3>1, <3>2
  <2> QED BY <1>1, <1>2, <2>1, <2>2, <2>3
<1> QED BY <1>6 DEF Line

-----------------------------------------------------------------------------
(* What every step does to the tables: transactions are added and settled, *)
(* intents are added, keep their amounts and hashes, and, once final, their *)
(* outcome.                                                                *)

SentGrows(S, T) ==
  /\ T \in Seq(Tx) /\ Len(S) <= Len(T)
  /\ \A n \in DOMAIN S : S[n].outcome # "pending" => T[n] = S[n]

\* OutcomesKept, of two tables of intents.
OutcomesStay(I, J) ==
  \A i \in DOMAIN I : I[i].status \in Final =>
    \/ J[i] = I[i]
    \/ I[i].replacedBy = 0 /\ [J[i] EXCEPT !.replacedBy = 0] = I[i]

Grows(I, J) ==
  /\ \A i \in DOMAIN I :
       /\ i \in DOMAIN J /\ J[i].amount = I[i].amount
       /\ \A op \in Ops : I[i].hash[op] # 0 => J[i].hash[op] = I[i].hash[op]
       /\ I[i].status \in Final => J[i].status = I[i].status
  /\ OutcomesStay(I, J)

\* Nothing is recorded as withdrawn.
SameComplete(I, J) ==
  \A i \in DOMAIN J : J[i].status = "complete" => i \in DOMAIN I /\ I[i].status = "complete"

\* What happened has happened.
LEMMA HappenedStays ==
  ASSUME NEW S \in Seq(Tx), NEW T, SentGrows(S, T),
         NEW r \in IntentRow, r.hash.withdraw <= Len(S), Happened(r, S),
         NEW s \in IntentRow, s.amount = r.amount,
         \A op \in Ops : r.hash[op] # 0 => s.hash[op] = r.hash[op]
  PROVE  Happened(s, T)
<1> DEFINE n == r.hash["withdraw"]
<1>1. n \in Nat /\ n # 0 /\ n <= Len(S) /\ s.hash["withdraw"] = n
  BY DEF IntentRow, Happened, Ops
<1>2. Len(S) \in Nat /\ DOMAIN S = 1..Len(S)
  BY LenProperties
<1>3. n \in DOMAIN S
  BY <1>1, <1>2
<1>4. S[n].outcome = "success"
  BY DEF Happened
<1>5. T[n] = S[n]
  BY <1>3, <1>4 DEF SentGrows
<1> QED BY <1>1, <1>5 DEF Happened

\* A request's evidence stays evidence.
LEMMA RequestStays ==
  ASSUME NEW I \in Seq(IntentRow), NEW J \in Seq(IntentRow), NEW S \in Seq(Tx), NEW T,
         \A i \in DOMAIN I : RowOK(I[i], Len(S)), Grows(I, J), SentGrows(S, T),
         NEW r \in RequestState, RequestOK(r, I, S)
  PROVE  RequestOK(r, J, T)
<1>1. \A i \in DOMAIN I : i \in DOMAIN J /\ I[i] \in IntentRow
  BY ElementOfSeq, LenProperties DEF Grows
<1>2. r.intent \in {0} \cup DOMAIN J
  BY <1>1 DEF RequestOK
<1>3. ASSUME r.intent \in DOMAIN I
      PROVE  /\ r.intent \in DOMAIN J
             /\ r.does = "close" => J[r.intent].hash.close # 0
             /\ r.does = "withdraw" => J[r.intent].hash.withdraw # 0
             /\ r.does = "record" => Happened(J[r.intent], T)
  <2> DEFINE i == r.intent
  <2>1. /\ I[i] \in IntentRow /\ J[i] \in IntentRow /\ J[i].amount = I[i].amount
        /\ \A op \in Ops : I[i].hash[op] # 0 => J[i].hash[op] = I[i].hash[op]
    BY <1>1, <1>3, ElementOfSeq, LenProperties DEF Grows
  <2>2. I[i].hash["withdraw"] <= Len(S)
    BY <1>3 DEF RowOK, Ops
  <2>3. r.does = "record" => Happened(J[i], T)
    <3>1. SUFFICES ASSUME r.does = "record" PROVE Happened(J[i], T)
      OBVIOUS
    <3>2. Happened(I[i], S)
      BY <3>1 DEF RequestOK
    <3> QED BY <2>1, <2>2, <3>2, HappenedStays
  <2>4. /\ r.does = "close" => J[i].hash["close"] # 0
        /\ r.does = "withdraw" => J[i].hash["withdraw"] # 0
    BY <2>1 DEF RequestOK, Ops
  <2> QED BY <1>1, <1>3, <2>3, <2>4
<1> QED BY <1>2, <1>3 DEF RequestOK

\* As long as nothing is recorded, the sum of what is recorded stays, and
\* every complete intent keeps the withdrawal that is its own.
LEMMA RecordsStay ==
  ASSUME NEW I \in Seq(IntentRow), NEW J \in Seq(IntentRow), NEW S \in Seq(Tx), NEW T,
         \A i \in DOMAIN I : RowOK(I[i], Len(S)), Grows(I, J), SentGrows(S, T),
         SameComplete(I, J), OwnWithdrawals(I, S)
  PROVE  OwnWithdrawals(J, T) /\ Counted(J) = Counted(I)
<1>1. \A i \in DOMAIN I : I[i] \in IntentRow
  BY ElementOfSeq, LenProperties
<1>2. \A i \in DOMAIN J : J[i] \in IntentRow
  BY ElementOfSeq, LenProperties
<1>3. ASSUME NEW i \in DOMAIN J, J[i].status = "complete"
      PROVE  /\ i \in DOMAIN I /\ I[i].status = "complete" /\ Happened(J[i], T)
             /\ J[i].hash["withdraw"] = I[i].hash["withdraw"]
  <2>1. i \in DOMAIN I /\ I[i].status = "complete"
    BY <1>3 DEF SameComplete
  <2>2. /\ Happened(I[i], S) /\ I[i].hash["withdraw"] <= Len(S)
        /\ J[i].amount = I[i].amount
        /\ \A op \in Ops : I[i].hash[op] # 0 => J[i].hash[op] = I[i].hash[op]
    BY <2>1 DEF OwnWithdrawals, RowOK, Grows, Ops
  <2>3. Happened(J[i], T)
    BY <1>1, <1>2, <1>3, <2>1, <2>2, HappenedStays
  <2> QED BY <2>1, <2>2, <2>3 DEF Happened, Ops
<1>4. OwnWithdrawals(J, T)
  BY <1>3 DEF OwnWithdrawals
<1>5. ASSUME NEW i \in 1..MaxIntents
      PROVE  (IF i \in DOMAIN J /\ J[i].status = "complete" THEN J[i].amount ELSE 0)
             = (IF i \in DOMAIN I /\ I[i].status = "complete" THEN I[i].amount ELSE 0)
  BY DEF Grows, SameComplete, Final
<1>6. Counted(J) = Counted(I)
  BY <1>5 DEF Counted
<1> QED BY <1>4, <1>6

-----------------------------------------------------------------------------
(* Putting a step together.                                                *)

LEMMA GrowsSelf ==
  ASSUME NEW I
  PROVE  Grows(I, I) /\ SameComplete(I, I)
BY DEF Grows, SameComplete, OutcomesStay

LEMMA SentSelf ==
  ASSUME NEW S \in Seq(Tx)
  PROVE  SentGrows(S, S)
<1>1. Len(S) \in Nat
  BY LenProperties
<1> QED BY <1>1 DEF SentGrows

\* A table of intents that is not written is still right when transactions
\* have been sent.
LEMMA IntentsUnmoved ==
  ASSUME IntentsOK, ChainOK, SentGrows(sent, sent'), intents' = intents
  PROVE  IntentsOK' /\ Grows(intents, intents') /\ SameComplete(intents, intents')
<1>1. Len(sent) \in Nat /\ Len(sent') \in Nat /\ Len(sent) <= Len(sent')
  BY LenProperties DEF ChainOK, SentGrows
<1>2. ASSUME NEW i \in DOMAIN intents PROVE RowOK(intents[i], Len(sent'))
  <2>1. intents[i] \in IntentRow /\ RowOK(intents[i], Len(sent))
    BY ElementOfSeq, LenProperties DEF IntentsOK
  <2>2. \A op \in Ops : intents[i].hash[op] \in Nat /\ intents[i].hash[op] <= Len(sent)
    BY <2>1, WithdrawalConstants DEF IntentRow, RowOK
  <2>3. \A op \in Ops : intents[i].hash[op] <= Len(sent')
    BY <1>1, <2>2
  <2> QED BY <2>1, <2>3 DEF RowOK
<1>3. IntentsOK'
  BY <1>2 DEF IntentsOK
<1>4. Grows(intents, intents) /\ SameComplete(intents, intents)
  BY GrowsSelf
<1> QED BY <1>3, <1>4

LEMMA BrowserUnmoved ==
  ASSUME BrowserOK, ChainOK, SentGrows(sent, sent'), UNCHANGED <<pending, tabs, unheard>>,
         \A i \in DOMAIN intents : i \in DOMAIN intents'
  PROVE  BrowserOK'
<1>1. Len(sent) \in Nat /\ Len(sent') \in Nat /\ Len(sent) <= Len(sent')
  BY LenProperties DEF ChainOK, SentGrows
<1>2. 0..Len(sent) \subseteq 0..Len(sent')
  BY <1>1
<1>3. pending' \in [1..MaxIntents -> [Ops -> 0..Len(sent')]]
  BY <1>2 DEF BrowserOK
<1> QED BY <1>3 DEF BrowserOK

\* A step that records nothing keeps the invariant if it keeps its parts;
\* requests it does not touch stay right.
LEMMA Assemble ==
  ASSUME WithdrawalInv, ChainOK', IntentsOK', BrowserOK',
         Grows(intents, intents'), SameComplete(intents, intents'), SentGrows(sent, sent'),
         requests' \in [Requests -> RequestState],
         \A q \in Requests :
           requests'[q] = requests[q] \/ RequestOK(requests'[q], intents', sent'),
         pool' \in PoolRow, pool'.withdrawn = pool.withdrawn,
         pool'.paid = Cardinality(PaidRewards(settled')),
         pool'.total <= ObservedLifetimeInflow(escrow')
  PROVE  WithdrawalInv'
<1>1. /\ intents \in Seq(IntentRow) /\ intents' \in Seq(IntentRow) /\ sent \in Seq(Tx)
      /\ \A i \in DOMAIN intents : RowOK(intents[i], Len(sent))
  BY DEF WithdrawalInv, IntentsOK, ChainOK
<1>2. ASSUME NEW q \in Requests PROVE RequestOK(requests'[q], intents', sent')
  <2>1. CASE requests'[q] = requests[q]
    <3>1. requests[q] \in RequestState /\ RequestOK(requests[q], intents, sent)
      BY DEF WithdrawalInv, RequestsOK
    <3>2. RequestOK(requests[q], intents', sent')
      BY <1>1, <3>1, RequestStays
    <3> QED BY <2>1, <3>2
  <2> QED BY <2>1
<1>3. RequestsOK'
  BY <1>2 DEF RequestsOK
<1>4. OwnWithdrawals(intents', sent') /\ Counted(intents') = Counted(intents)
  <2>1. OwnWithdrawals(intents, sent)
    BY DEF WithdrawalInv, RecordsOK
  <2> QED BY <1>1, <2>1, RecordsStay
<1>5. pool'.withdrawn = UnitSum(Counted(intents'), 1..MaxIntents)
  BY <1>4 DEF WithdrawalInv, RecordsOK
<1>6. RecordsOK'
  BY <1>4, <1>5 DEF RecordsOK
<1> QED BY <1>3, <1>6 DEF WithdrawalInv

\* What every step but a recorded withdrawal establishes.
Kept == WithdrawalInv' /\ OutcomesStay(intents, intents')

\* A step of the chain or of a reward.
LEMMA ElsewhereKeeps ==
  ASSUME WithdrawalInv, ChainOK', SentGrows(sent, sent'),
         UNCHANGED <<intents, pending, tabs, unheard, requests>>,
         pool' \in PoolRow, pool'.withdrawn = pool.withdrawn,
         pool'.paid = Cardinality(PaidRewards(settled')),
         pool'.total <= ObservedLifetimeInflow(escrow')
  PROVE  Kept
<1>1. IntentsOK' /\ Grows(intents, intents') /\ SameComplete(intents, intents')
  BY IntentsUnmoved DEF WithdrawalInv
<1>2. BrowserOK'
  BY BrowserUnmoved DEF WithdrawalInv
<1>3. /\ requests' \in [Requests -> RequestState]
      /\ \A q \in Requests :
           requests'[q] = requests[q] \/ RequestOK(requests'[q], intents', sent')
  BY DEF WithdrawalInv, RequestsOK
<1>4. WithdrawalInv'
  BY <1>1, <1>2, <1>3, Assemble
<1> QED BY <1>1, <1>4 DEF Kept, Grows

\* A step of the database, the API or the browser.
LEMMA OffChainKeeps ==
  ASSUME WithdrawalInv, UNCHANGED chain, pool' = pool, IntentsOK', BrowserOK',
         Grows(intents, intents'), SameComplete(intents, intents'),
         requests' \in [Requests -> RequestState],
         \A q \in Requests :
           requests'[q] = requests[q] \/ RequestOK(requests'[q], intents', sent')
  PROVE  Kept
<1>1. ChainOK'
  BY DEF WithdrawalInv, ChainOK, chain
<1>2. SentGrows(sent, sent')
  BY SentSelf DEF WithdrawalInv, ChainOK, chain
<1>3. /\ pool' \in PoolRow /\ pool'.withdrawn = pool.withdrawn
      /\ pool'.paid = Cardinality(PaidRewards(settled'))
      /\ pool'.total <= ObservedLifetimeInflow(escrow')
  BY DEF WithdrawalInv, RecordsOK, chain
<1>4. WithdrawalInv'
  BY <1>1, <1>2, <1>3, Assemble
<1> QED BY <1>4 DEF Kept, Grows

-----------------------------------------------------------------------------
(* The chain.                                                              *)

LEMMA InflowType ==
  ASSUME NEW e, Sound(e)
  PROVE  /\ ObservedLifetimeInflow(e) \in Nat
         /\ e.balance \in Nat /\ e.totalPaid \in Nat /\ e.totalWithdrawn \in Nat
BY DEF Sound, Escrow, ObservedLifetimeInflow

\* A call that touches neither a reward nor the counter of withdrawals.
LEMMA EscrowMoves ==
  ASSUME WithdrawalInv, Sound(escrow'), UNCHANGED <<now, sent, settled>>,
         escrow'.rewards = escrow.rewards, escrow'.totalWithdrawn = escrow.totalWithdrawn,
         ObservedLifetimeInflow(escrow) <= ObservedLifetimeInflow(escrow'),
         UNCHANGED <<pool, intents, pending, tabs, unheard, requests>>
  PROVE  Kept
<1>1. ChainOK'
  BY DEF WithdrawalInv, ChainOK, HeldFor
<1>2. SentGrows(sent, sent')
  BY SentSelf DEF WithdrawalInv, ChainOK
<1>3. pool.total <= ObservedLifetimeInflow(escrow')
  <2>1. /\ pool.total \in Nat /\ pool.total <= ObservedLifetimeInflow(escrow)
        /\ ObservedLifetimeInflow(escrow) \in Nat /\ ObservedLifetimeInflow(escrow') \in Nat
    BY InflowType DEF WithdrawalInv, RecordsOK, PoolRow, ChainOK
  <2> QED BY <2>1
<1>4. pool \in PoolRow /\ pool.paid = Cardinality(PaidRewards(settled))
  BY DEF WithdrawalInv, RecordsOK
<1> QED BY <1>1, <1>2, <1>3, <1>4, ElsewhereKeeps

LEMMA DepositKeeps == ASSUME WithdrawalInv, Deposit PROVE Kept
<1>1. Sound(escrow) /\ escrow \in Escrow
  BY DEF WithdrawalInv, ChainOK, Sound
<1>2. escrow' = AfterDeposit(escrow, 1) /\ Sound(escrow')
  BY <1>1, QuietCallsSound DEF Deposit
<1>3. /\ escrow'.rewards = escrow.rewards /\ escrow'.totalWithdrawn = escrow.totalWithdrawn
      /\ ObservedLifetimeInflow(escrow) <= ObservedLifetimeInflow(escrow')
  BY <1>1, <1>2 DEF AfterDeposit, ObservedLifetimeInflow, Escrow
<1> QED BY <1>2, <1>3, EscrowMoves DEF Deposit, database

LEMMA SyncKeeps == ASSUME WithdrawalInv, SyncExternalFunding PROVE Kept
<1>1. Sound(escrow) /\ escrow \in Escrow
  BY DEF WithdrawalInv, ChainOK, Sound
<1>2. escrow' = AfterSync(escrow) /\ Sound(escrow')
  BY <1>1, QuietCallsSound DEF SyncExternalFunding
<1>3. /\ escrow'.rewards = escrow.rewards /\ escrow'.totalWithdrawn = escrow.totalWithdrawn
      /\ ObservedLifetimeInflow(escrow) <= ObservedLifetimeInflow(escrow')
  BY <1>1, <1>2 DEF AfterSync, ObservedLifetimeInflow, Escrow
<1> QED BY <1>2, <1>3, EscrowMoves DEF SyncExternalFunding, database

LEMMA ExtendKeeps == ASSUME WithdrawalInv, ExtendRefundUnlockAt PROVE Kept
<1>1. Sound(escrow) /\ escrow \in Escrow /\ escrow.refundUnlockAt + 1 \in Nat
  BY DEF WithdrawalInv, ChainOK, Sound, Escrow
<1>2. escrow' = AfterExtend(escrow, escrow.refundUnlockAt + 1) /\ Sound(escrow')
  BY <1>1, QuietCallsSound DEF ExtendRefundUnlockAt
<1>3. /\ escrow'.rewards = escrow.rewards /\ escrow'.totalWithdrawn = escrow.totalWithdrawn
      /\ ObservedLifetimeInflow(escrow) <= ObservedLifetimeInflow(escrow')
  BY <1>1, <1>2 DEF AfterExtend, ObservedLifetimeInflow, Escrow
<1> QED BY <1>2, <1>3, EscrowMoves DEF ExtendRefundUnlockAt, database

LEMMA ControllerClosesKeeps == ASSUME WithdrawalInv, ControllerCloses PROVE Kept
<1>1. Sound(escrow) /\ escrow \in Escrow
  BY DEF WithdrawalInv, ChainOK, Sound
<1>2. escrow' = AfterClose(escrow) /\ Sound(escrow')
  BY <1>1, QuietCallsSound DEF ControllerCloses
<1>3. /\ escrow'.rewards = escrow.rewards /\ escrow'.totalWithdrawn = escrow.totalWithdrawn
      /\ ObservedLifetimeInflow(escrow) <= ObservedLifetimeInflow(escrow')
  BY <1>1, <1>2 DEF AfterClose, ObservedLifetimeInflow, Escrow
<1> QED BY <1>2, <1>3, EscrowMoves DEF ControllerCloses, database

LEMMA TickKeeps == ASSUME WithdrawalInv, Tick PROVE Kept
<1>1. ChainOK'
  BY WithdrawalConstants DEF WithdrawalInv, ChainOK, HeldFor, Tick
<1>2. SentGrows(sent, sent')
  BY SentSelf DEF WithdrawalInv, ChainOK, Tick
<1>3. /\ pool \in PoolRow /\ pool.paid = Cardinality(PaidRewards(settled))
      /\ pool.total <= ObservedLifetimeInflow(escrow)
  BY DEF WithdrawalInv, RecordsOK
<1> QED BY <1>1, <1>2, <1>3, ElsewhereKeeps DEF Tick, database

\* A transaction is mined: a successful withdrawal adds what it takes to the
\* contract's counter, and nothing else does.
LEMMA MineKeeps == ASSUME WithdrawalInv, NEW n \in DOMAIN sent, Mine(n) PROVE Kept
<1> DEFINE tx == sent[n]
           mined == [tx EXCEPT !.outcome = IF Succeeds(tx) THEN "success" ELSE "reverted"]
<1>1. /\ Sound(escrow) /\ escrow \in Escrow /\ now \in Nat /\ sent \in Seq(Tx)
      /\ Len(sent) <= MaxSent /\ HeldFor(escrow, settled)
      /\ escrow.totalWithdrawn = UnitSum(Took(sent), 1..MaxSent)
  BY DEF WithdrawalInv, ChainOK, Sound
<1>2. tx \in Tx /\ tx.amount \in Nat /\ tx.op \in Ops /\ tx.outcome = "pending"
  <2>1. tx \in Tx
    BY <1>1, ElementOfSeq, LenProperties
  <2> QED BY <2>1 DEF Mine, Tx
<1>3. /\ mined \in Tx /\ mined.op = tx.op /\ mined.amount = tx.amount
      /\ mined.outcome = IF Succeeds(tx) THEN "success" ELSE "reverted"
  BY <1>2 DEF Tx
<1>4. sent' = [sent EXCEPT ![n] = mined]
  BY DEF Mine
<1> HIDE DEF mined
<1>5. /\ sent' \in Seq(Tx) /\ Len(sent') = Len(sent) /\ DOMAIN sent' = DOMAIN sent
      /\ sent'[n] = mined /\ \A m \in DOMAIN sent : m # n => sent'[m] = sent[m]
      /\ DOMAIN sent = 1..Len(sent) /\ Len(sent) \in Nat
  BY <1>1, <1>3, <1>4, RowsWritten
<1>6. SentGrows(sent, sent')
  BY <1>2, <1>5 DEF SentGrows
<1>7. n \in 1..MaxSent /\ MaxSent \in Nat
  BY <1>1, <1>5, WithdrawalConstants
<1>8. /\ IsFiniteSet(1..MaxSent) /\ \A m \in 1..MaxSent : Took(sent)[m] \in Nat
      /\ Took(sent)[n] = 0
  <2>1. \A m \in DOMAIN sent : sent[m] \in Tx
    BY <1>1, ElementOfSeq, LenProperties
  <2>2. \A m \in 1..MaxSent : Took(sent)[m] \in Nat
    BY <2>1 DEF Took, Tx
  <2> QED BY <1>2, <1>7, <2>2, UpTo DEF Took
<1>9. \A m \in 1..MaxSent : m # n => Took(sent')[m] = Took(sent)[m]
  BY <1>5 DEF Took
<1>10. Took(sent')[n] = IF tx.op = "withdraw" /\ Succeeds(tx) THEN tx.amount ELSE 0
  BY <1>3, <1>5, <1>7 DEF Took
<1>11. /\ Sound(escrow') /\ escrow'.rewards = escrow.rewards
       /\ escrow'.totalWithdrawn
            = escrow.totalWithdrawn + (IF tx.op = "withdraw" /\ Succeeds(tx) THEN tx.amount ELSE 0)
       /\ ObservedLifetimeInflow(escrow') = ObservedLifetimeInflow(escrow)
  <2>1. CASE ~Succeeds(tx)
    <3>1. escrow' = escrow /\ escrow.totalWithdrawn \in Nat
      BY <1>1, <2>1 DEF Mine, Escrow
    <3> QED BY <1>1, <2>1, <3>1
  <2>2. CASE Succeeds(tx) /\ tx.op = "close"
    <3>1. escrow' = AfterClose(escrow)
      BY <2>2 DEF Mine
    <3>2. Sound(escrow')
      BY <1>1, <3>1, QuietCallsSound
    <3>3. /\ escrow'.rewards = escrow.rewards /\ escrow'.totalWithdrawn = escrow.totalWithdrawn + 0
          /\ ObservedLifetimeInflow(escrow') = ObservedLifetimeInflow(escrow)
      BY <1>1, <3>1 DEF AfterClose, ObservedLifetimeInflow, Escrow
    <3> QED BY <2>2, <3>2, <3>3
  <2>3. CASE Succeeds(tx) /\ tx.op = "withdraw"
    <3>1. escrow' = AfterWithdraw(escrow, tx.amount) /\ CanWithdraw(escrow, Owner, now, tx.amount)
      BY <2>3 DEF Mine, Succeeds
    <3>2. Sound(escrow')
      BY <1>1, <1>2, <3>1, WithdrawSound
    <3>3. escrow.balance >= tx.amount
      BY <3>1 DEF CanWithdraw
    <3>4. /\ escrow'.rewards = escrow.rewards
          /\ escrow'.totalWithdrawn = escrow.totalWithdrawn + tx.amount
          /\ ObservedLifetimeInflow(escrow') = ObservedLifetimeInflow(escrow)
      BY <1>1, <1>2, <3>1, <3>3 DEF AfterWithdraw, ObservedLifetimeInflow, Escrow
    <3> QED BY <2>3, <3>2, <3>4
  <2> QED BY <1>2, <2>1, <2>2, <2>3 DEF Ops
<1>12. escrow'.totalWithdrawn = UnitSum(Took(sent'), 1..MaxSent)
  <2> DEFINE m == IF tx.op = "withdraw" /\ Succeeds(tx) THEN tx.amount ELSE 0
  <2>1. m \in Nat
    BY <1>2
  <2>2. Took(sent')[n] = m
    BY <1>10
  <2> HIDE DEF m
  <2>3. UnitSum(Took(sent'), 1..MaxSent) = UnitSum(Took(sent), 1..MaxSent) + m
    <3>1. \A j \in (1..MaxSent) \ {n} : Took(sent')[j] = Took(sent)[j]
      BY <1>9
    <3> QED BY ONLY <1>7, <1>8, <2>1, <2>2, <3>1, UnitsAdded
  <2> QED BY <1>1, <1>11, <2>3 DEF m
<1>13. ChainOK'
  BY <1>1, <1>5, <1>11, <1>12 DEF WithdrawalInv, ChainOK, HeldFor, Mine
<1>14. /\ pool \in PoolRow /\ pool.paid = Cardinality(PaidRewards(settled))
       /\ pool.total <= ObservedLifetimeInflow(escrow')
  BY <1>11 DEF WithdrawalInv, RecordsOK
<1> QED BY <1>6, <1>13, <1>14, ElsewhereKeeps DEF Mine, database

-----------------------------------------------------------------------------
(* Rewards.                                                                *)

\* A reward's row is written.
LEMMA StageTyped ==
  ASSUME settled \in [ReportKeys -> SettledRow], NEW k \in ReportKeys,
         NEW stage \in {"none", "reserved", "paid"}, NEW receipt \in Receipt,
         Stage(k, stage, receipt)
  PROVE  /\ settled' \in [ReportKeys -> SettledRow]
         /\ settled'[k].stage = stage
         /\ \A j \in ReportKeys : j # k => settled'[j] = settled[j]
<1> DEFINE row == [stage |-> stage, receipt |-> receipt]
<1>1. row \in SettledRow /\ row.stage = stage
  BY DEF SettledRow
<1>2. settled' = [settled EXCEPT ![k] = row]
  BY DEF Stage
<1> HIDE DEF row
<1> QED BY <1>1, <1>2

\* Nothing was read at a payout that has not happened.
LEMMA NoReceiptTyped == NoReceipt \in Receipt
BY DEF NoReceipt, Receipt

\* A step that changes one reward's stage, but not to or from paid.
LEMMA StageKeeps ==
  ASSUME WithdrawalInv, Sound(escrow'), NEW k \in ReportKeys,
         settled' \in [ReportKeys -> SettledRow],
         settled'[k].stage = "paid" <=> settled[k].stage = "paid",
         \A j \in ReportKeys : j # k => settled'[j] = settled[j],
         HeldFor(escrow', settled'),
         escrow'.totalWithdrawn = escrow.totalWithdrawn,
         ObservedLifetimeInflow(escrow') = ObservedLifetimeInflow(escrow),
         UNCHANGED <<now, sent, pool, intents, pending, tabs, unheard, requests>>
  PROVE  Kept
<1>1. ChainOK'
  BY DEF WithdrawalInv, ChainOK
<1>2. SentGrows(sent, sent')
  BY SentSelf DEF WithdrawalInv, ChainOK
<1>3. PaidRewards(settled') = PaidRewards(settled)
  BY DEF PaidRewards
<1>4. /\ pool \in PoolRow /\ pool.paid = Cardinality(PaidRewards(settled'))
      /\ pool.total <= ObservedLifetimeInflow(escrow')
  BY <1>3 DEF WithdrawalInv, RecordsOK
<1> QED BY <1>1, <1>2, <1>4, ElsewhereKeeps

LEMMA ReserveKeeps == ASSUME WithdrawalInv, NEW k \in ReportKeys, ReserveReward(k) PROVE Kept
<1>1. /\ Sound(escrow) /\ HeldFor(escrow, settled) /\ settled \in [ReportKeys -> SettledRow]
  BY DEF WithdrawalInv, ChainOK
<1>2. /\ settled[k].stage = "none" /\ Stage(k, "reserved", NoReceipt)
      /\ UNCHANGED <<escrow, now, sent, pool, intents, pending, tabs, unheard, requests>>
  BY DEF ReserveReward, database
<1>3. /\ settled' \in [ReportKeys -> SettledRow] /\ settled'[k].stage = "reserved"
      /\ \A j \in ReportKeys : j # k => settled'[j] = settled[j]
  BY <1>1, <1>2, StageTyped, NoReceiptTyped
<1>4. HeldFor(escrow', settled')
  BY <1>1, <1>2, <1>3 DEF HeldFor
<1> QED BY <1>1, <1>2, <1>3, <1>4, StageKeeps

\* Only a reservation the chain knows nothing of is given up.
LEMMA CancelKeeps == ASSUME WithdrawalInv, NEW k \in ReportKeys, CancelReward(k) PROVE Kept
<1>1. /\ Sound(escrow) /\ HeldFor(escrow, settled) /\ settled \in [ReportKeys -> SettledRow]
  BY DEF WithdrawalInv, ChainOK
<1>2. /\ settled[k].stage = "reserved" /\ escrow.rewards[k].status = "None"
      /\ Stage(k, "none", NoReceipt)
      /\ UNCHANGED <<escrow, now, sent, pool, intents, pending, tabs, unheard, requests>>
  BY DEF CancelReward, database
<1>3. /\ settled' \in [ReportKeys -> SettledRow] /\ settled'[k].stage = "none"
      /\ \A j \in ReportKeys : j # k => settled'[j] = settled[j]
  BY <1>1, <1>2, StageTyped, NoReceiptTyped
<1>4. HeldFor(escrow', settled')
  BY <1>1, <1>2, <1>3 DEF HeldFor
<1> QED BY <1>1, <1>2, <1>3, <1>4, StageKeeps

LEMMA ApproveKeeps == ASSUME WithdrawalInv, NEW k \in ReportKeys, ApproveReward(k) PROVE Kept
<1>1. /\ Sound(escrow) /\ escrow \in Escrow /\ HeldFor(escrow, settled)
      /\ settled \in [ReportKeys -> SettledRow]
  BY DEF WithdrawalInv, ChainOK, Sound
<1>2. /\ settled[k].stage = "reserved" /\ CanApprove(escrow, Owner, k, 1)
      /\ escrow' = AfterApprove(escrow, k, ContentHash, PayoutWallet, 1)
      /\ UNCHANGED <<settled, now, sent, pool, intents, pending, tabs, unheard, requests>>
  BY DEF ApproveReward, database
<1>3. Sound(escrow')
  <2>1. ContentHash \in ContentHashes /\ PayoutWallet \in Wallets /\ IsFiniteSet(ReportKeys)
    BY WithdrawalConstants
  <2> QED BY <1>1, <1>2, <2>1, ApproveSound
<1>4. /\ escrow'.totalWithdrawn = escrow.totalWithdrawn
      /\ ObservedLifetimeInflow(escrow') = ObservedLifetimeInflow(escrow)
      /\ escrow'.rewards[k].amount = 1
      /\ \A j \in ReportKeys : j # k => escrow'.rewards[j] = escrow.rewards[j]
  BY <1>1, <1>2 DEF AfterApprove, ObservedLifetimeInflow, Escrow
<1>5. HeldFor(escrow', settled')
  BY <1>1, <1>2, <1>4 DEF HeldFor
<1> QED BY <1>1, <1>2, <1>3, <1>4, <1>5, StageKeeps

\* A payout moves money out of the balance into what was paid.
LEMMA PayKeeps == ASSUME WithdrawalInv, NEW k \in ReportKeys, PayReward(k) PROVE Kept
<1>1. /\ Sound(escrow) /\ escrow \in Escrow /\ HeldFor(escrow, settled)
      /\ settled \in [ReportKeys -> SettledRow]
  BY DEF WithdrawalInv, ChainOK, Sound
<1>2. /\ CanPay(escrow, k) /\ escrow' = AfterPay(escrow, k)
      /\ Stage(k, settled[k].stage, Accounting(escrow'))
      /\ UNCHANGED <<now, sent, pool, intents, pending, tabs, unheard, requests>>
  BY DEF PayReward, database
<1>3. Sound(escrow')
  BY <1>1, <1>2, PaySound, WithdrawalConstants
<1>4. Accounting(escrow') \in Receipt
  BY <1>3 DEF Sound, Escrow, Accounting, Receipt
<1>5. /\ settled' \in [ReportKeys -> SettledRow] /\ settled'[k].stage = settled[k].stage
      /\ \A j \in ReportKeys : j # k => settled'[j] = settled[j]
  <2>1. settled[k].stage \in {"none", "reserved", "paid"}
    BY <1>1 DEF SettledRow
  <2> QED BY <1>1, <1>2, <1>4, <2>1, StageTyped
<1>6. /\ escrow.rewards[k].status = "Approved" /\ escrow.rewards[k].amount \in Nat
      /\ escrow.balance >= escrow.rewards[k].amount
  BY <1>1, <1>2, ContractConstants DEF CanPay, Escrow, Reward
<1>7. /\ escrow'.totalWithdrawn = escrow.totalWithdrawn
      /\ escrow'.rewards[k].amount = escrow.rewards[k].amount
      /\ \A j \in ReportKeys : j # k => escrow'.rewards[j] = escrow.rewards[j]
  BY <1>1, <1>2 DEF AfterPay, Escrow
<1>8. ObservedLifetimeInflow(escrow') = ObservedLifetimeInflow(escrow)
  <2> DEFINE a == escrow.rewards[k].amount
  <2>1. /\ escrow'.balance = escrow.balance - a /\ escrow'.totalPaid = escrow.totalPaid + a
        /\ escrow.balance \in Nat /\ escrow.totalPaid \in Nat /\ escrow.totalWithdrawn \in Nat
    BY <1>1, <1>2 DEF AfterPay, Escrow
  <2> HIDE DEF a
  <2>2. a \in Nat
    BY <1>6 DEF a
  <2> QED BY <1>7, <2>1, <2>2 DEF ObservedLifetimeInflow
<1>9. HeldFor(escrow', settled')
  BY <1>1, <1>5, <1>6, <1>7 DEF HeldFor
<1> QED BY <1>2, <1>3, <1>5, <1>7, <1>8, <1>9, StageKeeps

\* A confirmed payout is counted once.
LEMMA RecordPayoutKeeps == ASSUME WithdrawalInv, NEW k \in ReportKeys, RecordPayout(k) PROVE Kept
<1>1. /\ Sound(escrow) /\ HeldFor(escrow, settled) /\ settled \in [ReportKeys -> SettledRow]
      /\ pool \in PoolRow /\ pool.paid = Cardinality(PaidRewards(settled))
      /\ pool.total <= ObservedLifetimeInflow(escrow)
  BY DEF WithdrawalInv, ChainOK, RecordsOK
<1>2. /\ settled[k].stage = "reserved" /\ Stage(k, "paid", settled[k].receipt)
      /\ pool' = [pool EXCEPT !.paid = @ + 1]
      /\ UNCHANGED <<escrow, now, sent, intents, pending, tabs, unheard, requests>>
  BY DEF RecordPayout
<1>3. /\ settled' \in [ReportKeys -> SettledRow] /\ settled'[k].stage = "paid"
      /\ \A j \in ReportKeys : j # k => settled'[j] = settled[j]
  <2>1. settled[k].receipt \in Receipt
    BY <1>1 DEF SettledRow
  <2> QED BY <1>1, <1>2, <2>1, StageTyped
<1>4. HeldFor(escrow', settled')
  BY <1>1, <1>2, <1>3 DEF HeldFor
<1>5. ChainOK'
  BY <1>2, <1>3, <1>4 DEF WithdrawalInv, ChainOK
<1>6. SentGrows(sent, sent')
  BY <1>2, SentSelf DEF WithdrawalInv, ChainOK
<1>7. /\ PaidRewards(settled') = PaidRewards(settled) \cup {k} /\ k \notin PaidRewards(settled)
      /\ PaidRewards(settled) \in SUBSET ReportKeys
  BY <1>2, <1>3 DEF PaidRewards
<1>8. IsFiniteSet(PaidRewards(settled))
  BY <1>7, FS_Subset, WithdrawalConstants
<1>9. Cardinality(PaidRewards(settled')) = Cardinality(PaidRewards(settled)) + 1
  BY <1>7, <1>8, FS_AddElement
<1>10. /\ pool' \in PoolRow /\ pool'.paid = pool.paid + 1
       /\ pool'.withdrawn = pool.withdrawn /\ pool'.total = pool.total
  BY <1>1, <1>2 DEF PoolRow
<1>11. /\ pool'.paid = Cardinality(PaidRewards(settled'))
       /\ pool'.total <= ObservedLifetimeInflow(escrow')
  BY <1>1, <1>2, <1>9, <1>10
<1> QED BY <1>2, <1>5, <1>6, <1>10, <1>11, ElsewhereKeeps

-----------------------------------------------------------------------------
(* Creating an intent.                                                     *)

\* A request moves on.
LEMMA RequestSet ==
  ASSUME RequestsOK, NEW q \in Requests, NEW r \in RequestState, SetRequest(q, r)
  PROVE  /\ requests' \in [Requests -> RequestState] /\ requests'[q] = r
         /\ \A p \in Requests : p # q => requests'[p] = requests[p]
BY DEF RequestsOK, SetRequest

LEMMA IdleTyped == IdleRequest \in RequestState /\ \A I, S : RequestOK(IdleRequest, I, S)
<1>1. IdleRequest \in RequestState
  BY WithdrawalConstants DEF IdleRequest, RequestState
<1>2. ASSUME NEW I, NEW S PROVE RequestOK(IdleRequest, I, S)
  BY DEF IdleRequest, RequestOK
<1> QED BY <1>1, <1>2

\* A step that only moves a request on.
LEMMA RequestStepKeeps ==
  ASSUME WithdrawalInv, NEW q \in Requests, NEW r \in RequestState,
         RequestOK(r, intents, sent), SetRequest(q, r),
         UNCHANGED <<chain, database, pending, tabs, unheard>>
  PROVE  Kept
<1>1. /\ intents' = intents /\ pool' = pool /\ sent' = sent /\ UNCHANGED chain
      /\ UNCHANGED <<pending, tabs, unheard>>
  BY DEF chain, database
<1>2. SentGrows(sent, sent')
  BY <1>1, SentSelf DEF WithdrawalInv, ChainOK
<1>3. IntentsOK' /\ Grows(intents, intents') /\ SameComplete(intents, intents')
  BY <1>1, <1>2, IntentsUnmoved DEF WithdrawalInv
<1>4. BrowserOK'
  BY <1>1, <1>2, BrowserUnmoved DEF WithdrawalInv
<1>5. /\ requests' \in [Requests -> RequestState] /\ requests'[q] = r
      /\ \A p \in Requests : p # q => requests'[p] = requests[p]
  BY RequestSet DEF WithdrawalInv
<1>6. \A p \in Requests :
        requests'[p] = requests[p] \/ RequestOK(requests'[p], intents', sent')
  BY <1>1, <1>5
<1> QED BY <1>1, <1>3, <1>4, <1>5, <1>6, OffChainKeeps

\* Deposits are credited from the chain before anything is checked.
LEMMA StartCreateKeeps ==
  ASSUME WithdrawalInv, NEW q \in Requests, NEW failed \in {0} \cup DOMAIN intents,
         StartCreate(q, failed)
  PROVE  Kept
<1> DEFINE r == [IdleRequest EXCEPT !.does = "read", !.intent = failed]
<1>1. /\ SetRequest(q, r) /\ pool' = [pool EXCEPT !.total = ObservedLifetimeInflow(escrow)]
      /\ UNCHANGED <<chain, intents, pending, tabs, unheard>>
  BY DEF StartCreate
<1>2. failed \in 0..MaxIntents
  BY LenProperties, WithdrawalConstants DEF WithdrawalInv, IntentsOK
<1>3. r \in RequestState /\ r.does = "read" /\ r.intent = failed
  BY <1>2, IdleTyped DEF RequestState, IdleRequest
<1> HIDE DEF r
<1>4. RequestOK(r, intents, sent)
  BY <1>3 DEF RequestOK
<1>5. /\ requests' \in [Requests -> RequestState] /\ requests'[q] = r
      /\ \A p \in Requests : p # q => requests'[p] = requests[p]
  BY <1>1, <1>3, RequestSet DEF WithdrawalInv
<1>6. SentGrows(sent, sent') /\ ChainOK' /\ sent' = sent /\ escrow' = escrow /\ settled' = settled
  BY <1>1, SentSelf DEF WithdrawalInv, ChainOK, chain
<1>7. IntentsOK' /\ Grows(intents, intents') /\ SameComplete(intents, intents')
  BY <1>1, <1>6, IntentsUnmoved DEF WithdrawalInv
<1>8. BrowserOK'
  BY <1>1, <1>6, BrowserUnmoved DEF WithdrawalInv
<1>9. /\ pool' \in PoolRow /\ pool'.withdrawn = pool.withdrawn /\ pool'.paid = pool.paid
      /\ pool'.total = ObservedLifetimeInflow(escrow)
  <2>1. pool \in PoolRow /\ ObservedLifetimeInflow(escrow) \in Nat
    BY InflowType DEF WithdrawalInv, RecordsOK, ChainOK
  <2> QED BY <1>1, <2>1 DEF PoolRow
<1>10. /\ pool'.paid = Cardinality(PaidRewards(settled'))
       /\ pool'.total <= ObservedLifetimeInflow(escrow')
  <2>1. ObservedLifetimeInflow(escrow) \in Nat
    BY InflowType DEF WithdrawalInv, ChainOK
  <2> QED BY <1>6, <1>9, <2>1 DEF WithdrawalInv, RecordsOK
<1>11. \A p \in Requests :
         requests'[p] = requests[p] \/ RequestOK(requests'[p], intents', sent')
  BY <1>1, <1>4, <1>5, <1>6
<1>12. WithdrawalInv'
  BY <1>5, <1>6, <1>7, <1>8, <1>9, <1>10, <1>11, Assemble
<1> QED BY <1>7, <1>12 DEF Kept, Grows

LEMMA ReadCountersKeeps ==
  ASSUME WithdrawalInv, NEW q \in Requests, ReadCounters(q)
  PROVE  Kept
<1> DEFINE r == requests[q]
           next == [r EXCEPT !.does = "balance", !.closed = escrow.closed,
                             !.before = escrow.totalWithdrawn]
<1>1. r \in RequestState /\ RequestOK(r, intents, sent)
  BY DEF WithdrawalInv, RequestsOK
<1>2. escrow.closed \in BOOLEAN /\ escrow.totalWithdrawn \in Nat
  BY DEF WithdrawalInv, ChainOK, Sound, Escrow
<1>3. next \in RequestState /\ next.does = "balance" /\ next.intent = r.intent
  BY <1>1, <1>2 DEF RequestState
<1>4. /\ SetRequest(q, IdleRequest) \/ SetRequest(q, next)
      /\ UNCHANGED <<chain, database, pending, tabs, unheard>>
  BY DEF ReadCounters
<1> HIDE DEF next, r
<1>5. RequestOK(next, intents, sent)
  BY <1>1, <1>3 DEF RequestOK
<1> QED BY <1>3, <1>4, <1>5, IdleTyped, RequestStepKeeps

LEMMA ReadBalanceKeeps ==
  ASSUME WithdrawalInv, NEW q \in Requests, ReadBalance(q)
  PROVE  Kept
<1> DEFINE r == requests[q]
           next == [r EXCEPT !.does = "create", !.balance = escrow.balance]
<1>1. r \in RequestState /\ RequestOK(r, intents, sent)
  BY DEF WithdrawalInv, RequestsOK
<1>2. escrow.balance \in Nat
  BY DEF WithdrawalInv, ChainOK, Sound, Escrow
<1>3. next \in RequestState /\ next.does = "create" /\ next.intent = r.intent
  BY <1>1, <1>2 DEF RequestState
<1>4. /\ SetRequest(q, IdleRequest) \/ SetRequest(q, next)
      /\ UNCHANGED <<chain, database, pending, tabs, unheard>>
  BY DEF ReadBalance
<1> HIDE DEF next, r
<1>5. RequestOK(next, intents, sent)
  BY <1>1, <1>3 DEF RequestOK
<1> QED BY <1>3, <1>4, <1>5, IdleTyped, RequestStepKeeps

\* The row of a new intent.
LEMMA NewIntentTyped ==
  ASSUME NEW amount \in Nat, amount > 0, NEW before \in Nat, NEW closed \in BOOLEAN,
         NEW replaces \in 0..MaxIntents, NEW n \in Nat
  PROVE  LET row == NewIntent(amount, before, closed, replaces) IN
         /\ row \in IntentRow /\ RowOK(row, n)
         /\ row.status \notin Final /\ row.status # "complete"
         /\ row.replaces = replaces /\ row.replacedBy = 0
<1> DEFINE row == NewIntent(amount, before, closed, replaces)
<1>1. NoHashes \in [Ops -> 0..MaxSent] /\ \A op \in Ops : NoHashes[op] = 0
  BY WithdrawalConstants DEF NoHashes
<1>2. row.status \in {"ready_to_withdraw", "ready_to_close"} /\ row.status \in IntentStatus
  BY DEF NewIntent, IntentStatus, ReadyTo, Ops
<1>3. row \in IntentRow
  BY <1>1, <1>2, WithdrawalConstants DEF NewIntent, IntentRow
<1>4. /\ row.hash = NoHashes /\ row.closeRequired = ~closed
      /\ row.replaces = replaces /\ row.replacedBy = 0
      /\ row.status = IF closed THEN "ready_to_withdraw" ELSE "ready_to_close"
  BY DEF NewIntent
<1> HIDE DEF row
<1>5. RowOK(row, n)
  <2>1. \A op \in Ops : row.status # Submitted(op)
    BY <1>4 DEF Ops, Submitted
  <2>2. row.hash["withdraw"] = 0 /\ \A op \in Ops : row.hash[op] <= n
    BY <1>1, <1>4 DEF Ops
  <2>3. row.status # "complete"
    BY <1>4
  <2>4. row.closeRequired =>
          row.status \notin {ReadyTo("withdraw"), Uncertain("withdraw"),
                             Submitted("withdraw"), "complete"}
    BY <1>4 DEF ReadyTo, Uncertain, Submitted
  <2> QED BY <2>1, <2>2, <2>3, <2>4 DEF RowOK
<1> QED BY <1>2, <1>3, <1>4, <1>5 DEF Final, row

\* The row of the intent it replaces.
Linked(r, m) == [r EXCEPT !.replacedBy = m]

LEMMA LinkedTyped ==
  ASSUME NEW r \in IntentRow, r.replacedBy = 0, NEW m \in 0..MaxIntents, NEW n \in Nat,
         RowOK(r, n)
  PROVE  LET s == Linked(r, m) IN
         /\ s \in IntentRow /\ RowOK(s, n) /\ [s EXCEPT !.replacedBy = 0] = r
         /\ s.replacedBy = m /\ s.status = r.status /\ s.replaces = r.replaces
         /\ s.amount = r.amount /\ s.hash = r.hash
<1> DEFINE s == Linked(r, m)
<1>1. /\ s \in IntentRow /\ s.replacedBy = m /\ s.status = r.status /\ s.replaces = r.replaces
      /\ s.amount = r.amount /\ s.hash = r.hash /\ s.closeRequired = r.closeRequired
      /\ s.closeVerified = r.closeVerified
  BY DEF IntentRow, Linked
<1>2. [s EXCEPT !.replacedBy = 0] = r
  BY DEF IntentRow, Linked
<1> HIDE DEF s
<1>3. RowOK(s, n)
  BY ONLY <1>1, RowOK(r, n) DEF RowOK
<1> QED BY <1>1, <1>2, <1>3 DEF s

\* An intent is created: the first, the next after one that is complete, or
\* the replacement of one that failed.
LEMMA CreateKeeps ==
  ASSUME WithdrawalInv, NEW q \in Requests, CreateIntent(q)
  PROVE  Kept
<1> DEFINE r == requests[q]
           row == NewIntent(r.balance, r.before, r.closed, r.intent)
           last == Len(intents) + 1
           old == Linked(intents[r.intent], last)
           linked == [intents EXCEPT ![r.intent] = old]
<1>1. /\ r \in RequestState /\ intents \in Seq(IntentRow) /\ Line(intents)
      /\ \A i \in DOMAIN intents : intents[i] \in IntentRow /\ RowOK(intents[i], Len(sent))
      /\ DOMAIN intents = 1..Len(intents) /\ Len(intents) \in Nat /\ Len(intents) <= MaxIntents
      /\ sent \in Seq(Tx) /\ Len(sent) \in Nat
  BY ElementOfSeq, LenProperties DEF WithdrawalInv, RequestsOK, IntentsOK, ChainOK
<1>2. /\ SetRequest(q, IdleRequest) /\ pool' = pool /\ UNCHANGED chain
      /\ UNCHANGED <<chain, pending, tabs, unheard>>
      /\ sent' = sent
  BY DEF CreateIntent, chain
<1>3. SentGrows(sent, sent')
  BY <1>1, <1>2, SentSelf
<1>4. CASE ~CanCreate(r.balance, r.intent)
  <2>1. UNCHANGED <<chain, database, pending, tabs, unheard>>
    BY <1>4 DEF CreateIntent, database
  <2> QED BY <1>2, <2>1, IdleTyped, RequestStepKeeps
<1>5. CASE CanCreate(r.balance, r.intent)
  <2>1. /\ r.balance > 0 /\ r.balance \in Nat /\ r.before \in Nat /\ r.closed \in BOOLEAN
        /\ r.intent \in 0..MaxIntents
        /\ \A i \in DOMAIN intents : intents[i].status \in Final
        /\ r.intent = 0 => \A i \in DOMAIN intents :
                             ~(intents[i].status = "failed" /\ intents[i].replacedBy = 0)
        /\ r.intent # 0 => /\ r.intent \in DOMAIN intents
                           /\ intents[r.intent].status = "failed"
                           /\ intents[r.intent].replacedBy = 0
    BY <1>1, <1>5 DEF CanCreate, Active, Unreplaced, RequestState
  <2>2. /\ row \in IntentRow /\ RowOK(row, Len(sent))
        /\ row.status \notin Final /\ row.status # "complete"
        /\ row.replaces = r.intent /\ row.replacedBy = 0
    BY <1>1, <2>1, NewIntentTyped
  <2>3. /\ Len(intents) < MaxIntents
        /\ r.intent = 0 => intents' = Append(intents, row)
        /\ r.intent # 0 => intents' = Append(linked, row)
    BY <1>5 DEF CreateIntent, Linked
  <2>4. last \in 0..MaxIntents
    BY <1>1, <2>3, WithdrawalConstants
  <2> HIDE DEF r, row
  <2>5. ASSUME r.intent = 0
        PROVE  /\ intents' \in Seq(IntentRow) /\ Line(intents')
               /\ DOMAIN intents' = 1..last /\ Len(intents') = last /\ intents'[last] = row
               /\ \A i \in DOMAIN intents : intents'[i] = intents[i]
    <3>1. intents' = Append(intents, row)
      BY <2>3, <2>5
    <3>2. Line(intents')
      BY <1>1, <2>1, <2>2, <2>5, <3>1, LineContinued
    <3> QED BY <1>1, <2>2, <3>1, <3>2, RowsAppended
  <2>6. ASSUME r.intent # 0
        PROVE  /\ intents' \in Seq(IntentRow) /\ Line(intents')
               /\ DOMAIN intents' = 1..last /\ Len(intents') = last /\ intents'[last] = row
               /\ intents'[r.intent] = old /\ r.intent \in DOMAIN intents
               /\ \A i \in DOMAIN intents : i # r.intent => intents'[i] = intents[i]
               /\ old \in IntentRow /\ RowOK(old, Len(sent))
               /\ [old EXCEPT !.replacedBy = 0] = intents[r.intent]
               /\ intents[r.intent].replacedBy = 0
               /\ old.status = intents[r.intent].status
               /\ old.amount = intents[r.intent].amount /\ old.hash = intents[r.intent].hash
    <3>1. intents' = Append(linked, row) /\ r.intent \in DOMAIN intents
      BY <2>1, <2>3, <2>6
    <3>2. /\ old \in IntentRow /\ RowOK(old, Len(sent)) /\ old.replacedBy = last
          /\ [old EXCEPT !.replacedBy = 0] = intents[r.intent]
          /\ old.status = intents[r.intent].status /\ old.replaces = intents[r.intent].replaces
          /\ old.amount = intents[r.intent].amount /\ old.hash = intents[r.intent].hash
      <4>1. /\ intents[r.intent] \in IntentRow /\ RowOK(intents[r.intent], Len(sent))
            /\ intents[r.intent].replacedBy = 0 /\ Len(sent) \in Nat
        BY <1>1, <2>1, <2>6
      <4> QED BY <2>4, <4>1, LinkedTyped
    <3> HIDE DEF old
    <3>3. /\ linked \in Seq(IntentRow) /\ Len(linked) = Len(intents)
          /\ DOMAIN linked = DOMAIN intents /\ linked[r.intent] = old
          /\ \A i \in DOMAIN intents : i # r.intent => linked[i] = intents[i]
      BY <1>1, <3>1, <3>2, RowsWritten
    <3>4. Line(intents')
      BY <1>1, <2>1, <2>2, <2>6, <3>1, <3>2, LineReplaced
    <3> HIDE DEF linked
    <3>5. /\ intents' \in Seq(IntentRow) /\ Len(intents') = Len(linked) + 1
          /\ DOMAIN intents' = 1..(Len(linked) + 1) /\ intents'[Len(linked) + 1] = row
          /\ \A i \in DOMAIN linked : intents'[i] = linked[i]
      BY <2>2, <3>1, <3>3, RowsAppended
    <3> QED BY <2>1, <2>6, <3>1, <3>2, <3>3, <3>4, <3>5
  <2> HIDE DEF old, linked
  <2>7. /\ intents' \in Seq(IntentRow) /\ Line(intents') /\ Len(intents') <= MaxIntents
        /\ DOMAIN intents' = 1..last /\ intents'[last] = row
        /\ \A i \in DOMAIN intents : i \in DOMAIN intents'
    <3>1. /\ intents' \in Seq(IntentRow) /\ Line(intents') /\ Len(intents') = last
          /\ DOMAIN intents' = 1..last /\ intents'[last] = row
      BY <2>5, <2>6
    <3>2. last <= MaxIntents /\ \A i \in 1..Len(intents) : i \in 1..last
      BY <1>1, <2>3, WithdrawalConstants
    <3> QED BY <1>1, <3>1, <3>2
  <2>8. ASSUME NEW i \in DOMAIN intents
        PROVE  /\ intents'[i].amount = intents[i].amount /\ intents'[i].hash = intents[i].hash
               /\ intents'[i].status = intents[i].status /\ RowOK(intents'[i], Len(sent))
               /\ \/ intents'[i] = intents[i]
                  \/ /\ intents[i].replacedBy = 0
                     /\ [intents'[i] EXCEPT !.replacedBy = 0] = intents[i]
    <3>1. CASE r.intent = 0
      BY <1>1, <2>5, <3>1
    <3>2. CASE r.intent # 0 /\ i # r.intent
      BY <1>1, <2>6, <3>2
    <3>3. CASE r.intent # 0 /\ i = r.intent
      BY <2>6, <3>3
    <3> QED BY <3>1, <3>2, <3>3
  <2>9. ASSUME NEW i \in DOMAIN intents' PROVE i \in DOMAIN intents \/ i = last
    BY <1>1, <2>7
  <2>10. \A i \in DOMAIN intents' : RowOK(intents'[i], Len(sent'))
    BY <1>2, <2>2, <2>7, <2>8, <2>9
  <2>11. IntentsOK'
    BY <2>7, <2>10 DEF IntentsOK
  <2>12. Grows(intents, intents')
    BY <2>7, <2>8 DEF Grows, OutcomesStay
  <2>13. SameComplete(intents, intents')
    BY <2>2, <2>7, <2>8, <2>9 DEF SameComplete
  <2>14. BrowserOK'
    BY <1>2, <1>3, <2>7, BrowserUnmoved DEF WithdrawalInv
  <2>15. /\ requests' \in [Requests -> RequestState]
         /\ \A p \in Requests :
              requests'[p] = requests[p] \/ RequestOK(requests'[p], intents', sent')
    BY <1>2, IdleTyped, RequestSet DEF WithdrawalInv
  <2> QED BY <1>2, <2>11, <2>12, <2>13, <2>14, <2>15, OffChainKeeps
<1> QED BY <1>4, <1>5

-----------------------------------------------------------------------------
(* Writes to a row.                                                        *)

\* A row that is right stays right when transactions have been sent.
LEMMA RowStays ==
  ASSUME NEW row \in IntentRow, NEW n \in Nat, NEW m \in Nat, n <= m, RowOK(row, n)
  PROVE  RowOK(row, m)
<1>1. \A op \in Ops : row.hash[op] \in Nat /\ row.hash[op] <= n
  BY WithdrawalConstants DEF IntentRow, RowOK
<1>2. \A op \in Ops : row.hash[op] <= m
  BY <1>1
<1> QED BY <1>2 DEF RowOK

\* A write of a successor keeps the table right; it records nothing if the row
\* is not made complete.
LEMMA RowReplaced ==
  ASSUME IntentsOK, ChainOK, SentGrows(sent, sent'), NEW i \in DOMAIN intents, NEW row,
         Successor(intents[i], row), RowOK(row, Len(sent)), SetIntent(i, row)
  PROVE  /\ IntentsOK' /\ Grows(intents, intents')
         /\ (row.status = "complete" => intents[i].status = "complete")
              => SameComplete(intents, intents')
         /\ DOMAIN intents' = DOMAIN intents /\ intents'[i] = row
         /\ \A j \in DOMAIN intents : j # i => intents'[j] = intents[j]
<1>1. /\ intents \in Seq(IntentRow) /\ Len(intents) <= MaxIntents /\ Line(intents)
      /\ \A j \in DOMAIN intents : intents[j] \in IntentRow /\ RowOK(intents[j], Len(sent))
      /\ row \in IntentRow /\ intents' = [intents EXCEPT ![i] = row]
  BY ElementOfSeq, LenProperties DEF IntentsOK, Successor, SetIntent
<1>2. /\ intents' \in Seq(IntentRow) /\ Len(intents') = Len(intents)
      /\ DOMAIN intents' = DOMAIN intents /\ intents'[i] = row
      /\ \A j \in DOMAIN intents : j # i => intents'[j] = intents[j]
  BY <1>1, RowsWritten
<1>3. Line(intents')
  BY <1>1, LineWritten
<1>4. Len(sent) \in Nat /\ Len(sent') \in Nat /\ Len(sent) <= Len(sent')
  BY LenProperties DEF ChainOK, SentGrows
<1>5. ASSUME NEW j \in DOMAIN intents' PROVE RowOK(intents'[j], Len(sent'))
  <2>1. intents'[j] \in IntentRow /\ RowOK(intents'[j], Len(sent))
    BY <1>1, <1>2
  <2> QED BY <1>4, <2>1, RowStays
<1>6. IntentsOK'
  BY <1>1, <1>2, <1>3, <1>5 DEF IntentsOK
<1>7. Grows(intents, intents')
  BY <1>2 DEF Grows, OutcomesStay, Successor
<1>8. (row.status = "complete" => intents[i].status = "complete")
        => SameComplete(intents, intents')
  BY <1>2 DEF SameComplete
<1> QED BY <1>2, <1>6, <1>7, <1>8

\* An uncertain submission, a hash that is observed, a failure and a verified
\* close write successors.
LEMMA UncertainRow ==
  ASSUME NEW r \in IntentRow, NEW n \in Nat, RowOK(r, n), NEW op \in Ops,
         r.status = ReadyTo(op), NEW s, s = [r EXCEPT !.status = Uncertain(op)]
  PROVE  Successor(r, s) /\ RowOK(s, n) /\ s.status # "complete"
<1>1. Uncertain(op) \in IntentStatus
  BY DEF IntentStatus
<1>2. /\ s \in IntentRow /\ s.status = Uncertain(op) /\ s.amount = r.amount
      /\ s.hash = r.hash /\ s.replaces = r.replaces /\ s.replacedBy = r.replacedBy
      /\ s.closeRequired = r.closeRequired /\ s.closeVerified = r.closeVerified
  BY <1>1 DEF IntentRow
<1>3. r.status \notin Final /\ s.status # "complete"
  BY <1>2 DEF Final, ReadyTo, Uncertain
<1>4. \A o \in Ops : s.status # Submitted(o)
  BY <1>2 DEF Uncertain, Submitted
<1>5. s.status \in {ReadyTo("withdraw"), Uncertain("withdraw"), Submitted("withdraw"), "complete"}
        => r.status = ReadyTo("withdraw")
  BY <1>2 DEF ReadyTo, Uncertain, Submitted, Ops
<1>6. Successor(r, s)
  BY <1>2, <1>3 DEF Successor
<1> QED BY <1>2, <1>3, <1>4, <1>5, <1>6 DEF RowOK

LEMMA ObservedRow ==
  ASSUME WithdrawalInv, NEW i \in DOMAIN intents, NEW op \in Ops, NEW n \in 1..Len(sent),
         intents[i].status \notin Final, CanObserve(i, op, n)
  PROVE  /\ Successor(intents[i], Observed(i, op, n))
         /\ RowOK(Observed(i, op, n), Len(sent))
         /\ Observed(i, op, n).status # "complete"
<1> DEFINE r == intents[i]
           s == Observed(i, op, n)
<1>1. r \in IntentRow /\ RowOK(r, Len(sent)) /\ Len(sent) \in Nat /\ Len(sent) <= MaxSent
  BY ElementOfSeq, LenProperties DEF WithdrawalInv, IntentsOK, ChainOK
<1>2. n \in 0..MaxSent /\ n \in Nat /\ n # 0 /\ n <= Len(sent)
  BY <1>1, WithdrawalConstants
<1>3. Submitted(op) \in IntentStatus
  BY DEF IntentStatus
<1>4. r.hash \in [Ops -> 0..MaxSent] /\ r.status \in IntentStatus
  BY <1>1 DEF IntentRow
<1>5. /\ s.hash = [r.hash EXCEPT ![op] = n]
      /\ s.status = IF r.status \in {ReadyTo(op), Uncertain(op)} THEN Submitted(op) ELSE r.status
      /\ s.amount = r.amount /\ s.replaces = r.replaces /\ s.replacedBy = r.replacedBy
      /\ s.closeRequired = r.closeRequired /\ s.closeVerified = r.closeVerified
      /\ s \in IntentRow
  <2>1. [r.hash EXCEPT ![op] = n] \in [Ops -> 0..MaxSent]
    BY <1>2, <1>4
  <2> QED BY <1>1, <1>3, <1>4, <2>1 DEF Observed, IntentRow
<1>6. /\ s.hash[op] = n
      /\ \A o \in Ops : o # op => s.hash[o] = r.hash[o]
      /\ r.hash[op] \in {0, n}
      /\ op = "withdraw" => r.status \in {ReadyTo(op), Uncertain(op)} \/ r.hash["withdraw"] # 0
  BY <1>4, <1>5 DEF CanObserve
<1> HIDE DEF s, r
<1>7. r.status \notin Final
  BY DEF r
<1>8. Successor(r, s)
  BY <1>5, <1>6, <1>7 DEF Successor
<1>9. s.status # "complete"
  BY <1>5, <1>7 DEF Final, Submitted
<1>10. \A o \in Ops : s.status = Submitted(o) => s.hash[o] # 0
  <2>1. ASSUME NEW o \in Ops, s.status = Submitted(o), o # op PROVE s.hash[o] # 0
    <3>1. s.status = r.status
      BY <1>5, <2>1 DEF Submitted, Ops
    <3> QED BY <1>1, <1>6, <2>1, <3>1 DEF RowOK
  <2> QED BY <1>2, <1>6, <2>1
<1>11. \A o \in Ops : s.hash[o] <= Len(sent)
  BY <1>1, <1>2, <1>6 DEF RowOK
<1>12. ASSUME s.closeRequired,
              \/ s.hash["withdraw"] # 0
              \/ s.status \in {ReadyTo("withdraw"), Uncertain("withdraw"),
                               Submitted("withdraw"), "complete"}
       PROVE  s.closeVerified
  <2>1. CASE op = "withdraw"
    <3>1. r.hash["withdraw"] # 0 \/ r.status \in {ReadyTo("withdraw"), Uncertain("withdraw")}
      BY <1>6, <2>1
    <3> QED BY <1>1, <1>5, <1>12, <3>1 DEF RowOK
  <2>2. CASE op = "close"
    <3>1. s.hash["withdraw"] = r.hash["withdraw"]
      BY <1>6, <2>2 DEF Ops
    <3>2. s.status = r.status \/ s.status = "close_submitted"
      BY <1>5, <2>2 DEF Submitted
    <3>3. \/ r.hash["withdraw"] # 0
          \/ r.status \in {ReadyTo("withdraw"), Uncertain("withdraw"),
                           Submitted("withdraw"), "complete"}
      BY <1>12, <3>1, <3>2 DEF ReadyTo, Uncertain, Submitted
    <3> QED BY <1>1, <1>5, <1>12, <3>3 DEF RowOK
  <2> QED BY <2>1, <2>2 DEF Ops
<1>13. RowOK(s, Len(sent))
  BY <1>9, <1>10, <1>11, <1>12 DEF RowOK
<1> QED BY <1>8, <1>9, <1>13 DEF r, s

LEMMA FailedRow ==
  ASSUME WithdrawalInv, NEW i \in DOMAIN intents
  PROVE  /\ Successor(intents[i], FailedIntent(i)) /\ RowOK(FailedIntent(i), Len(sent))
         /\ FailedIntent(i).status = "complete" => intents[i].status = "complete"
<1> DEFINE r == intents[i]
           s == [r EXCEPT !.status = "failed"]
<1>1. r \in IntentRow /\ RowOK(r, Len(sent))
  BY ElementOfSeq, LenProperties DEF WithdrawalInv, IntentsOK
<1>2. CASE r.status \in Final
  BY <1>1, <1>2 DEF FailedIntent, Successor
<1>3. CASE r.status \notin Final
  <2>1. FailedIntent(i) = s
    BY <1>3 DEF FailedIntent
  <2>2. "failed" \in IntentStatus
    BY DEF IntentStatus, Final
  <2>3. /\ s \in IntentRow /\ s.status = "failed" /\ s.amount = r.amount
        /\ s.hash = r.hash /\ s.replaces = r.replaces /\ s.replacedBy = r.replacedBy
        /\ s.closeRequired = r.closeRequired /\ s.closeVerified = r.closeVerified
    BY <1>1, <2>2 DEF IntentRow
  <2>4. Successor(r, s)
    BY <1>3, <2>3 DEF Successor
  <2>5. RowOK(s, Len(sent))
    BY <1>1, <2>3 DEF RowOK, ReadyTo, Uncertain, Submitted, Ops
  <2> QED BY <2>1, <2>3, <2>4, <2>5
<1> QED BY <1>2, <1>3

LEMMA ConfirmedRow ==
  ASSUME WithdrawalInv, NEW i \in DOMAIN intents
  PROVE  /\ Successor(intents[i], ConfirmedClose(i)) /\ RowOK(ConfirmedClose(i), Len(sent))
         /\ ConfirmedClose(i).status = "complete" => intents[i].status = "complete"
<1> DEFINE r == intents[i]
           s == [r EXCEPT !.status = "ready_to_withdraw", !.closeVerified = TRUE]
<1>1. r \in IntentRow /\ RowOK(r, Len(sent))
  BY ElementOfSeq, LenProperties DEF WithdrawalInv, IntentsOK
<1>2. CASE r.status # "close_submitted"
  BY <1>1, <1>2 DEF ConfirmedClose, Successor
<1>3. CASE r.status = "close_submitted"
  <2>1. ConfirmedClose(i) = s
    BY <1>3 DEF ConfirmedClose
  <2>2. "ready_to_withdraw" \in IntentStatus
    BY DEF IntentStatus, Ops, ReadyTo
  <2>3. /\ s \in IntentRow /\ s.status = "ready_to_withdraw" /\ s.amount = r.amount
        /\ s.hash = r.hash /\ s.replaces = r.replaces /\ s.replacedBy = r.replacedBy
        /\ s.closeRequired = r.closeRequired /\ s.closeVerified = TRUE
    BY <1>1, <2>2 DEF IntentRow
  <2>4. Successor(r, s)
    BY <1>3, <2>3 DEF Successor, Final
  <2>5. RowOK(s, Len(sent))
    BY <1>1, <2>3 DEF RowOK, Submitted, Ops
  <2> QED BY <2>1, <2>3, <2>4, <2>5
<1> QED BY <1>2, <1>3

-----------------------------------------------------------------------------
(* The owner's browser.                                                    *)

\* A step that writes neither the chain nor the requests, nor pool.
LEMMA BrowserStepKeeps ==
  ASSUME WithdrawalInv, UNCHANGED <<chain, pool, requests>>, IntentsOK', BrowserOK',
         Grows(intents, intents'), SameComplete(intents, intents')
  PROVE  Kept
<1>1. /\ requests' \in [Requests -> RequestState]
      /\ \A q \in Requests :
           requests'[q] = requests[q] \/ RequestOK(requests'[q], intents', sent')
  BY DEF WithdrawalInv, RequestsOK
<1> QED BY <1>1, OffChainKeeps

LEMMA IntentsAsTheyAre ==
  ASSUME WithdrawalInv, UNCHANGED <<sent, intents>>
  PROVE  IntentsOK' /\ Grows(intents, intents') /\ SameComplete(intents, intents')
<1>1. SentGrows(sent, sent')
  BY SentSelf DEF WithdrawalInv, ChainOK
<1> QED BY <1>1, IntentsUnmoved DEF WithdrawalInv

LEMMA NoPromptTyped == NoPrompt \in Prompt
BY WithdrawalConstants DEF NoPrompt, Prompt, Ops

LEMMA PromptKeeps ==
  ASSUME WithdrawalInv, NEW t \in Tabs, NEW i \in DOMAIN intents, NEW op \in Ops,
         PromptWallet(t, i, op)
  PROVE  Kept
<1>1. /\ tabs' = [tabs EXCEPT ![t] = [intent |-> i, op |-> op]]
      /\ UNCHANGED <<chain, pool, requests>> /\ UNCHANGED <<sent, intents, pending, unheard>>
  BY DEF PromptWallet, chain, database
<1>2. i \in 0..MaxIntents
  BY LenProperties, WithdrawalConstants DEF WithdrawalInv, IntentsOK
<1>3. BrowserOK'
  BY <1>1, <1>2 DEF WithdrawalInv, BrowserOK, Prompt
<1> QED BY <1>1, <1>3, IntentsAsTheyAre, BrowserStepKeeps

LEMMA RejectKeeps ==
  ASSUME WithdrawalInv, NEW t \in Tabs, WalletRejects(t)
  PROVE  Kept
<1>1. /\ tabs' = [tabs EXCEPT ![t] = NoPrompt]
      /\ UNCHANGED <<chain, pool, requests>> /\ UNCHANGED <<sent, intents, pending, unheard>>
  BY DEF WalletRejects, chain, database
<1>2. BrowserOK'
  BY <1>1, NoPromptTyped DEF WithdrawalInv, BrowserOK
<1> QED BY <1>1, <1>2, IntentsAsTheyAre, BrowserStepKeeps

\* A transaction that is sent has taken nothing yet.
LEMMA SendEffect ==
  ASSUME WithdrawalInv, NEW t \in Tabs, Send(t)
  PROVE  /\ ChainOK' /\ SentGrows(sent, sent')
         /\ Len(sent) \in Nat /\ Len(sent') = Len(sent) + 1 /\ Len(sent') <= MaxSent
         /\ tabs[t].intent \in DOMAIN intents /\ tabs[t].op \in Ops
         /\ tabs' \in [Tabs -> Prompt]
         /\ \A u \in Tabs : tabs'[u] = NoPrompt \/ tabs'[u].intent \in DOMAIN intents
<1> DEFINE i == tabs[t].intent
           tx == [op |-> tabs[t].op, amount |-> intents[i].amount, outcome |-> "pending"]
<1>1. /\ i \in DOMAIN intents /\ tabs[t].op \in Ops
      /\ sent' = Append(sent, tx) /\ tabs' = [tabs EXCEPT ![t] = NoPrompt]
      /\ UNCHANGED <<escrow, now, settled>> /\ Len(sent) < MaxSent
  BY DEF WithdrawalInv, BrowserOK, Prompt, Send
<1>2. sent \in Seq(Tx)
  BY DEF WithdrawalInv, ChainOK
<1>3. tx \in Tx /\ tx.outcome = "pending"
  <2>1. intents[i] \in IntentRow
    BY <1>1, ElementOfSeq, LenProperties DEF WithdrawalInv, IntentsOK
  <2> QED BY <1>1, <2>1 DEF Tx, IntentRow
<1> HIDE DEF tx, i
<1>4. /\ sent' \in Seq(Tx) /\ Len(sent') = Len(sent) + 1 /\ Len(sent) \in Nat
      /\ DOMAIN sent = 1..Len(sent) /\ DOMAIN sent' = 1..(Len(sent) + 1)
      /\ sent'[Len(sent) + 1] = tx /\ \A n \in DOMAIN sent : sent'[n] = sent[n]
  BY <1>1, <1>2, <1>3, RowsAppended
<1>5. SentGrows(sent, sent')
  BY <1>4 DEF SentGrows
<1>6. ASSUME NEW n \in 1..MaxSent
      PROVE  (IF n \in DOMAIN sent' /\ sent'[n].op = "withdraw" /\ sent'[n].outcome = "success"
              THEN sent'[n].amount ELSE 0)
             = (IF n \in DOMAIN sent /\ sent[n].op = "withdraw" /\ sent[n].outcome = "success"
                THEN sent[n].amount ELSE 0)
  <2>1. CASE n \in DOMAIN sent
    BY <1>4, <2>1
  <2>2. CASE n \notin DOMAIN sent
    <3>1. n \in DOMAIN sent' => n = Len(sent) + 1
      BY <1>4, <2>2
    <3> QED BY <1>3, <1>4, <2>2, <3>1
  <2> QED BY <2>1, <2>2
<1>7. Took(sent') = Took(sent)
  BY <1>6 DEF Took
<1>8. Len(sent') <= MaxSent
  BY <1>1, <1>4, WithdrawalConstants
<1>9. ChainOK'
  BY <1>1, <1>4, <1>7, <1>8 DEF WithdrawalInv, ChainOK, HeldFor
<1>10. /\ tabs' \in [Tabs -> Prompt]
       /\ \A u \in Tabs : tabs'[u] = NoPrompt \/ tabs'[u].intent \in DOMAIN intents
  BY <1>1, NoPromptTyped DEF WithdrawalInv, BrowserOK
<1> QED BY <1>1, <1>4, <1>5, <1>8, <1>9, <1>10 DEF i

\* A hash in storage is of a transaction that was sent.
LEMMA PendingTyped ==
  ASSUME NEW m \in Nat, NEW n \in Nat, m <= n, NEW i, NEW op, NEW h \in 0..n,
         pending \in [1..MaxIntents -> [Ops -> 0..m]],
         pending' = [pending EXCEPT ![i][op] = h]
  PROVE  pending' \in [1..MaxIntents -> [Ops -> 0..n]]
<1>1. 0..m \subseteq 0..n
  OBVIOUS
<1>2. pending \in [1..MaxIntents -> [Ops -> 0..n]]
  BY <1>1
<1>3. [pending[i] EXCEPT ![op] = h] \in [Ops -> 0..n] \/ i \notin 1..MaxIntents
  BY <1>2
<1> QED BY <1>2, <1>3

\* The parts of a transaction that was sent.
LEMMA SendKeeps ==
  ASSUME WithdrawalInv, NEW t \in Tabs, Send(t), UNCHANGED <<pool, requests>>,
         IntentsOK', Grows(intents, intents'), SameComplete(intents, intents'),
         pending' \in [1..MaxIntents -> [Ops -> 0..Len(sent')]],
         unheard' \in 0..MaxUnheard
  PROVE  Kept
<1>1. /\ ChainOK' /\ SentGrows(sent, sent') /\ tabs' \in [Tabs -> Prompt]
      /\ \A u \in Tabs : tabs'[u] = NoPrompt \/ tabs'[u].intent \in DOMAIN intents
      /\ UNCHANGED <<escrow, settled>>
  BY SendEffect DEF Send
<1>2. \A i \in DOMAIN intents : i \in DOMAIN intents'
  BY DEF Grows
<1>3. BrowserOK'
  BY <1>1, <1>2 DEF BrowserOK
<1>4. /\ requests' \in [Requests -> RequestState]
      /\ \A q \in Requests :
           requests'[q] = requests[q] \/ RequestOK(requests'[q], intents', sent')
  BY DEF WithdrawalInv, RequestsOK
<1>5. /\ pool' \in PoolRow /\ pool'.withdrawn = pool.withdrawn
      /\ pool'.paid = Cardinality(PaidRewards(settled'))
      /\ pool'.total <= ObservedLifetimeInflow(escrow')
  BY <1>1 DEF WithdrawalInv, RecordsOK
<1>6. WithdrawalInv'
  BY <1>1, <1>3, <1>4, <1>5, Assemble
<1> QED BY <1>6 DEF Kept, Grows

LEMMA SendsKeeps ==
  ASSUME WithdrawalInv, NEW t \in Tabs, WalletSends(t)
  PROVE  Kept
<1>1. /\ Send(t) /\ UNCHANGED <<pool, requests>> /\ UNCHANGED <<intents, unheard>>
      /\ pending' = [pending EXCEPT ![tabs[t].intent][tabs[t].op] = Len(sent) + 1]
  BY DEF WalletSends, database
<1>2. SentGrows(sent, sent') /\ Len(sent) \in Nat /\ Len(sent') = Len(sent) + 1
  BY <1>1, SendEffect
<1>3. IntentsOK' /\ Grows(intents, intents') /\ SameComplete(intents, intents')
  BY <1>1, <1>2, IntentsUnmoved DEF WithdrawalInv
<1>4. pending \in [1..MaxIntents -> [Ops -> 0..Len(sent)]]
  BY DEF WithdrawalInv, BrowserOK
<1>5. /\ Len(sent) + 1 \in Nat /\ Len(sent) <= Len(sent) + 1
      /\ Len(sent) + 1 \in 0..(Len(sent) + 1)
  BY <1>2
<1>6. pending' \in [1..MaxIntents -> [Ops -> 0..(Len(sent) + 1)]]
  BY <1>1, <1>2, <1>4, <1>5, PendingTyped
<1>7. unheard' \in 0..MaxUnheard
  BY <1>1 DEF WithdrawalInv, BrowserOK
<1> QED BY <1>1, <1>2, <1>3, <1>6, <1>7, SendKeeps

LEMMA UnheardKeeps ==
  ASSUME WithdrawalInv, NEW t \in Tabs, NEW reports \in BOOLEAN, WalletUnheard(t, reports)
  PROVE  Kept
<1> DEFINE i == tabs[t].intent
           op == tabs[t].op
           row == [intents[i] EXCEPT !.status = Uncertain(op)]
<1>1. /\ Send(t) /\ UNCHANGED <<pool, requests>> /\ pending' = pending
      /\ unheard < MaxUnheard /\ unheard' = unheard + 1
      /\ \/ intents[i].status = ReadyTo(op) /\ SetIntent(i, row)
         \/ intents' = intents
  BY DEF WalletUnheard
<1>2. /\ SentGrows(sent, sent') /\ Len(sent) \in Nat /\ Len(sent') = Len(sent) + 1
      /\ i \in DOMAIN intents /\ op \in Ops
  BY <1>1, SendEffect
<1>3. IntentsOK' /\ Grows(intents, intents') /\ SameComplete(intents, intents')
  <2>1. CASE intents[i].status = ReadyTo(op) /\ SetIntent(i, row)
    <3>1. intents[i] \in IntentRow /\ RowOK(intents[i], Len(sent))
      BY <1>2, ElementOfSeq, LenProperties DEF WithdrawalInv, IntentsOK
    <3>2. Successor(intents[i], row) /\ RowOK(row, Len(sent)) /\ row.status # "complete"
      BY <1>2, <2>1, <3>1, UncertainRow
    <3> HIDE DEF row
    <3> QED BY <1>2, <2>1, <3>2, RowReplaced DEF WithdrawalInv
  <2>2. CASE intents' = intents
    BY <1>2, <2>2, IntentsUnmoved DEF WithdrawalInv
  <2> QED BY <1>1, <2>1, <2>2
<1>4. pending' \in [1..MaxIntents -> [Ops -> 0..Len(sent')]]
  <2>1. 0..Len(sent) \subseteq 0..Len(sent')
    BY <1>2
  <2> QED BY <1>1, <2>1 DEF WithdrawalInv, BrowserOK
<1>5. unheard' \in 0..MaxUnheard
  BY <1>1, WithdrawalConstants DEF WithdrawalInv, BrowserOK
<1> QED BY <1>1, <1>3, <1>4, <1>5, SendKeeps

LEMMA ObserveKeeps ==
  ASSUME WithdrawalInv, NEW i \in DOMAIN intents, NEW op \in Ops, ObserveHash(i, op)
  PROVE  Kept
<1> DEFINE n == Held(i, op)
<1>1. /\ n # 0 /\ UNCHANGED <<chain, pool, requests>> /\ UNCHANGED <<sent, tabs, unheard>>
      /\ pending' = [pending EXCEPT ![i][op] = 0]
      /\ \/ intents' = intents
         \/ /\ intents[i].status \notin Final /\ CanObserve(i, op, n)
            /\ SetIntent(i, Observed(i, op, n))
  BY DEF ObserveHash, chain
<1>2. /\ SentGrows(sent, sent') /\ Len(sent) \in Nat
      /\ pending \in [1..MaxIntents -> [Ops -> 0..Len(sent)]]
  BY <1>1, SentSelf, LenProperties DEF WithdrawalInv, ChainOK, BrowserOK
<1>3. n \in 1..Len(sent)
  <2>1. i \in 1..MaxIntents
    BY LenProperties, WithdrawalConstants DEF WithdrawalInv, IntentsOK
  <2>2. n \in 0..Len(sent)
    BY <1>2, <2>1 DEF Held
  <2> QED BY <1>1, <1>2, <2>2
<1> HIDE DEF n
<1>4. IntentsOK' /\ Grows(intents, intents') /\ SameComplete(intents, intents')
  <2>1. CASE /\ intents[i].status \notin Final /\ CanObserve(i, op, n)
             /\ SetIntent(i, Observed(i, op, n))
    <3>1. /\ Successor(intents[i], Observed(i, op, n))
          /\ RowOK(Observed(i, op, n), Len(sent)) /\ Observed(i, op, n).status # "complete"
      BY <1>3, <2>1, ObservedRow
    <3> QED BY <1>2, <2>1, <3>1, RowReplaced DEF WithdrawalInv
  <2>2. CASE intents' = intents
    BY <1>1, <2>2, IntentsAsTheyAre
  <2> QED BY <1>1, <2>1, <2>2
<1>5. pending' \in [1..MaxIntents -> [Ops -> 0..Len(sent)]]
  <2>1. Len(sent) <= Len(sent) /\ 0 \in 0..Len(sent)
    BY <1>2
  <2> QED BY <1>1, <1>2, <2>1, PendingTyped
<1>6. BrowserOK'
  BY <1>1, <1>4, <1>5 DEF WithdrawalInv, BrowserOK, Grows
<1> QED BY <1>1, <1>4, <1>6, BrowserStepKeeps

LEMMA AttachKeeps ==
  ASSUME WithdrawalInv, NEW i \in DOMAIN intents, NEW op \in Ops, NEW n \in DOMAIN sent,
         AttachHash(i, op, n)
  PROVE  Kept
<1>1. /\ UNCHANGED <<chain, pool, requests>> /\ UNCHANGED <<sent, pending, tabs, unheard>>
      /\ intents[i].status = Uncertain(op) /\ CanObserve(i, op, n)
      /\ SetIntent(i, Observed(i, op, n))
  BY DEF AttachHash, chain
<1>2. SentGrows(sent, sent') /\ n \in 1..Len(sent)
  BY <1>1, SentSelf, LenProperties DEF WithdrawalInv, ChainOK
<1>3. intents[i].status \notin Final
  BY <1>1 DEF Uncertain, Final
<1>4. /\ Successor(intents[i], Observed(i, op, n))
      /\ RowOK(Observed(i, op, n), Len(sent)) /\ Observed(i, op, n).status # "complete"
  BY <1>1, <1>2, <1>3, ObservedRow
<1>5. IntentsOK' /\ Grows(intents, intents') /\ SameComplete(intents, intents')
  BY <1>1, <1>2, <1>4, RowReplaced DEF WithdrawalInv
<1>6. BrowserOK'
  <2>1. \A j \in DOMAIN intents : j \in DOMAIN intents'
    BY <1>5 DEF Grows
  <2> QED BY <1>1, <1>2, <2>1, BrowserUnmoved DEF WithdrawalInv
<1> QED BY <1>1, <1>5, <1>6, BrowserStepKeeps

-----------------------------------------------------------------------------
(* Reconciling an intent.                                                  *)

LEMMA StartReconcileKeeps ==
  ASSUME WithdrawalInv, NEW q \in Requests, NEW i \in DOMAIN intents, StartReconcile(q, i)
  PROVE  Kept
<1> DEFINE closing == [IdleRequest EXCEPT !.does = "close", !.intent = i]
           withdrawing == [IdleRequest EXCEPT !.does = "withdraw", !.intent = i]
<1>1. /\ UNCHANGED <<chain, database, pending, tabs, unheard>>
      /\ \/ intents[i].hash.close # 0 /\ SetRequest(q, closing)
         \/ intents[i].hash.withdraw # 0 /\ SetRequest(q, withdrawing)
  BY DEF StartReconcile
<1>2. i \in 0..MaxIntents
  BY LenProperties, WithdrawalConstants DEF WithdrawalInv, IntentsOK
<1>3. /\ closing \in RequestState /\ closing.does = "close" /\ closing.intent = i
      /\ withdrawing \in RequestState /\ withdrawing.does = "withdraw" /\ withdrawing.intent = i
  BY <1>2, IdleTyped DEF RequestState, IdleRequest
<1> HIDE DEF closing, withdrawing
<1>4. /\ intents[i].hash.close # 0 => RequestOK(closing, intents, sent)
      /\ intents[i].hash.withdraw # 0 => RequestOK(withdrawing, intents, sent)
  BY <1>3 DEF RequestOK
<1> QED BY <1>1, <1>3, <1>4, RequestStepKeeps

\* A request that writes a row and goes on, or is done.
LEMMA ReconcileStepKeeps ==
  ASSUME WithdrawalInv, NEW q \in Requests, NEW i \in DOMAIN intents, NEW row,
         Successor(intents[i], row), RowOK(row, Len(sent)),
         row.status = "complete" => intents[i].status = "complete",
         SetIntent(i, row), NEW r \in RequestState, SetRequest(q, r),
         RequestOK(r, intents', sent),
         UNCHANGED <<chain, pool, pending, tabs, unheard>>
  PROVE  Kept
<1>1. sent' = sent /\ SentGrows(sent, sent') /\ UNCHANGED chain /\ pool' = pool
  BY SentSelf DEF WithdrawalInv, ChainOK, chain
<1>2. IntentsOK' /\ Grows(intents, intents') /\ SameComplete(intents, intents')
  BY <1>1, RowReplaced DEF WithdrawalInv
<1>3. BrowserOK'
  <2>1. \A j \in DOMAIN intents : j \in DOMAIN intents'
    BY <1>2 DEF Grows
  <2> QED BY <1>1, <2>1, BrowserUnmoved DEF WithdrawalInv
<1>4. /\ requests' \in [Requests -> RequestState] /\ requests'[q] = r
      /\ \A p \in Requests : p # q => requests'[p] = requests[p]
  BY RequestSet DEF WithdrawalInv
<1>5. \A p \in Requests :
        requests'[p] = requests[p] \/ RequestOK(requests'[p], intents', sent')
  BY <1>1, <1>4
<1> QED BY <1>1, <1>2, <1>3, <1>4, <1>5, OffChainKeeps

LEMMA VerifyCloseKeeps ==
  ASSUME WithdrawalInv, NEW q \in Requests, VerifyClose(q)
  PROVE  Kept
<1> DEFINE r == requests[q]
           i == r.intent
           next == [r EXCEPT !.does = "withdraw"]
<1>1. r \in RequestState /\ RequestOK(r, intents, sent) /\ r.does = "close"
  BY DEF WithdrawalInv, RequestsOK, VerifyClose
<1>2. i \in DOMAIN intents
  BY <1>1 DEF RequestOK
<1>3. next \in RequestState /\ next.does = "withdraw" /\ next.intent = i
  BY <1>1 DEF RequestState
<1>4. /\ UNCHANGED <<chain, pool, pending, tabs, unheard>>
      /\ \/ /\ SetIntent(i, ConfirmedClose(i))
            /\ \/ SetRequest(q, IdleRequest)
               \/ intents[i].hash.withdraw # 0 /\ SetRequest(q, next)
         \/ SetIntent(i, FailedIntent(i)) /\ SetRequest(q, IdleRequest)
  BY DEF VerifyClose
<1>5. /\ Successor(intents[i], ConfirmedClose(i)) /\ RowOK(ConfirmedClose(i), Len(sent))
      /\ ConfirmedClose(i).status = "complete" => intents[i].status = "complete"
  BY <1>2, ConfirmedRow
<1>6. /\ Successor(intents[i], FailedIntent(i)) /\ RowOK(FailedIntent(i), Len(sent))
      /\ FailedIntent(i).status = "complete" => intents[i].status = "complete"
  BY <1>2, FailedRow
<1> HIDE DEF next, i, r
<1>7. ASSUME SetIntent(i, ConfirmedClose(i)), intents[i].hash.withdraw # 0
      PROVE  RequestOK(next, intents', sent)
  <2>1. ChainOK /\ IntentsOK /\ SentGrows(sent, sent')
    BY <1>4, SentSelf DEF WithdrawalInv, ChainOK, chain
  <2>2. /\ DOMAIN intents' = DOMAIN intents /\ intents'[i] = ConfirmedClose(i)
    BY <1>2, <1>5, <1>7, <2>1, RowReplaced
  <2>3. ConfirmedClose(i).hash["withdraw"] = intents[i].hash["withdraw"]
    BY <1>5, <1>7 DEF Successor, Ops
  <2>4. intents'[i].hash["withdraw"] # 0
    BY <1>7, <2>2, <2>3
  <2> QED BY <1>2, <1>3, <2>2, <2>4 DEF RequestOK
<1>8. IdleRequest \in RequestState /\ RequestOK(IdleRequest, intents', sent)
  BY IdleTyped
<1>9. CASE SetIntent(i, ConfirmedClose(i)) /\ SetRequest(q, IdleRequest)
  BY ONLY <1>2, <1>4, <1>5, <1>8, <1>9, WithdrawalInv, q \in Requests, ReconcileStepKeeps
<1>10. CASE /\ SetIntent(i, ConfirmedClose(i)) /\ intents[i].hash.withdraw # 0
            /\ SetRequest(q, next)
  BY <1>2, <1>3, <1>4, <1>5, <1>7, <1>10, ReconcileStepKeeps
<1>11. CASE SetIntent(i, FailedIntent(i)) /\ SetRequest(q, IdleRequest)
  BY ONLY <1>2, <1>4, <1>6, <1>8, <1>11, WithdrawalInv, q \in Requests, ReconcileStepKeeps
<1> QED BY <1>4, <1>9, <1>10, <1>11

LEMMA VerifyWithdrawalKeeps ==
  ASSUME WithdrawalInv, NEW q \in Requests, VerifyWithdrawal(q)
  PROVE  Kept
<1> DEFINE r == requests[q]
           next(does) == [r EXCEPT !.does = does]
<1>1. r \in RequestState /\ RequestOK(r, intents, sent) /\ r.does = "withdraw"
  BY DEF WithdrawalInv, RequestsOK, VerifyWithdrawal
<1>2. r.intent \in DOMAIN intents /\ intents[r.intent].hash.withdraw # 0
  BY <1>1 DEF RequestOK
<1>3. /\ UNCHANGED <<chain, database, pending, tabs, unheard>>
      /\ \/ Happened(intents[r.intent], sent) /\ SetRequest(q, next("record"))
         \/ SetRequest(q, next("fail"))
  BY <1>2 DEF VerifyWithdrawal, Happened
<1>4. /\ next("record") \in RequestState /\ next("record").does = "record"
      /\ next("record").intent = r.intent
      /\ next("fail") \in RequestState /\ next("fail").does = "fail"
      /\ next("fail").intent = r.intent
  BY <1>1 DEF RequestState
<1> HIDE DEF next, r
<1>5. /\ Happened(intents[r.intent], sent) => RequestOK(next("record"), intents, sent)
      /\ RequestOK(next("fail"), intents, sent)
  BY <1>2, <1>4 DEF RequestOK
<1> QED BY <1>3, <1>4, <1>5, RequestStepKeeps

LEMMA FailKeeps ==
  ASSUME WithdrawalInv, NEW q \in Requests, FailIntent(q)
  PROVE  Kept
<1> DEFINE i == requests[q].intent
<1>1. i \in DOMAIN intents
  BY DEF WithdrawalInv, RequestsOK, RequestOK, FailIntent
<1>2. /\ UNCHANGED <<chain, pool, pending, tabs, unheard>>
      /\ SetIntent(i, FailedIntent(i)) /\ SetRequest(q, IdleRequest)
  BY DEF FailIntent
<1>3. /\ Successor(intents[i], FailedIntent(i)) /\ RowOK(FailedIntent(i), Len(sent))
      /\ FailedIntent(i).status = "complete" => intents[i].status = "complete"
  BY <1>1, FailedRow
<1>4. IdleRequest \in RequestState /\ RequestOK(IdleRequest, intents', sent)
  BY IdleTyped
<1> QED BY <1>1, <1>2, <1>3, <1>4, ReconcileStepKeeps

\* The row of an intent whose withdrawal is recorded.
Completed(r) == [r EXCEPT !.status = "complete"]

LEMMA CompletedRow ==
  ASSUME NEW r \in IntentRow, NEW n \in Nat, RowOK(r, n), r.status = "withdraw_submitted"
  PROVE  /\ Successor(r, Completed(r)) /\ RowOK(Completed(r), n)
         /\ Completed(r).status = "complete" /\ Completed(r).amount = r.amount
         /\ Completed(r).hash = r.hash
<1> DEFINE s == Completed(r)
<1>1. "complete" \in IntentStatus
  BY DEF IntentStatus, Final
<1>2. /\ s \in IntentRow /\ s.status = "complete" /\ s.amount = r.amount
      /\ s.hash = r.hash /\ s.replaces = r.replaces /\ s.replacedBy = r.replacedBy
      /\ s.closeRequired = r.closeRequired /\ s.closeVerified = r.closeVerified
  BY <1>1 DEF IntentRow, Completed
<1> HIDE DEF s
<1>3. Successor(r, s)
  BY <1>2 DEF Successor, Final
<1>4. /\ r.hash["withdraw"] # 0
      /\ r.closeRequired => r.closeVerified
  BY DEF RowOK, Submitted, Ops
<1>5. RowOK(s, n)
  BY <1>2, <1>4 DEF RowOK, Submitted, Ops
<1> QED BY <1>2, <1>3, <1>5 DEF s

\* A withdrawal is recorded: the sum grows by its amount, and its transaction
\* is that of no other complete intent.
LEMMA RecordKeeps ==
  ASSUME WithdrawalInv, NEW q \in Requests, RecordWithdrawal(q)
  PROVE  Kept
<1> DEFINE i == requests[q].intent
           row == Completed(intents[i])
<1>1. /\ i \in DOMAIN intents /\ Happened(intents[i], sent)
      /\ UNCHANGED <<chain, pending, tabs, unheard>> /\ SetRequest(q, IdleRequest)
  BY DEF WithdrawalInv, RequestsOK, RequestOK, RecordWithdrawal
<1>2. CASE ~CanRecord(i)
  <2>1. UNCHANGED <<chain, database, pending, tabs, unheard>>
    BY <1>2 DEF RecordWithdrawal, database
  <2> QED BY <1>1, <2>1, IdleTyped, RequestStepKeeps
<1>3. CASE CanRecord(i)
  <2>1. /\ SetIntent(i, row) /\ pool' = [pool EXCEPT !.withdrawn = @ + intents[i].amount]
        /\ intents[i].status = "withdraw_submitted"
        /\ \A j \in DOMAIN intents :
             intents[j].status = "complete" =>
               intents[j].hash["withdraw"] # intents[i].hash["withdraw"]
    BY <1>3 DEF RecordWithdrawal, CanRecord, Completed, Recorded
  <2>2. /\ sent \in Seq(Tx) /\ Len(sent) \in Nat /\ intents \in Seq(IntentRow)
        /\ \A j \in DOMAIN intents : intents[j] \in IntentRow /\ RowOK(intents[j], Len(sent))
        /\ DOMAIN intents = 1..Len(intents) /\ Len(intents) \in Nat /\ Len(intents) <= MaxIntents
    BY ElementOfSeq, LenProperties DEF WithdrawalInv, IntentsOK, ChainOK
  <2>3. /\ Successor(intents[i], row) /\ RowOK(row, Len(sent)) /\ row.status = "complete"
        /\ row.amount = intents[i].amount /\ row.hash = intents[i].hash
    BY <1>1, <2>1, <2>2, CompletedRow
  <2>4. /\ sent' = sent /\ SentGrows(sent, sent') /\ settled' = settled /\ escrow' = escrow
        /\ ChainOK'
    BY <1>1, SentSelf DEF WithdrawalInv, ChainOK, chain
  <2> HIDE DEF row, i
  <2>5. /\ IntentsOK' /\ Grows(intents, intents') /\ DOMAIN intents' = DOMAIN intents
        /\ intents'[i] = row
        /\ \A j \in DOMAIN intents : j # i => intents'[j] = intents[j]
    BY <1>1, <2>1, <2>3, <2>4, RowReplaced DEF WithdrawalInv
  <2>6. BrowserOK'
    BY <1>1, <2>4, <2>5, BrowserUnmoved DEF WithdrawalInv
  <2>7. RequestsOK'
    <3>1. /\ requests' \in [Requests -> RequestState] /\ requests'[q] = IdleRequest
          /\ \A p \in Requests : p # q => requests'[p] = requests[p]
      BY <1>1, IdleTyped, RequestSet DEF WithdrawalInv
    <3>2. intents' \in Seq(IntentRow)
      BY <2>5 DEF IntentsOK
    <3>3. ASSUME NEW p \in Requests PROVE RequestOK(requests'[p], intents', sent')
      <4>1. CASE p = q
        BY <3>1, <4>1, IdleTyped
      <4>2. CASE p # q
        <5>1. requests[p] \in RequestState /\ RequestOK(requests[p], intents, sent)
          BY DEF WithdrawalInv, RequestsOK
        <5>2. RequestOK(requests[p], intents', sent')
          BY <2>2, <2>4, <2>5, <3>2, <5>1, RequestStays
        <5> QED BY <3>1, <4>2, <5>2
      <4> QED BY <4>1, <4>2
    <3> QED BY <3>1, <3>3 DEF RequestsOK
  <2>8. OwnWithdrawals(intents, sent)
    BY DEF WithdrawalInv, RecordsOK
  <2>9. OwnWithdrawals(intents', sent')
    <3>1. ASSUME NEW j \in DOMAIN intents, intents'[j].status = "complete"
          PROVE  /\ Happened(intents'[j], sent')
                 /\ intents'[j].hash["withdraw"] = intents[j].hash["withdraw"]
                 /\ j = i \/ intents[j].status = "complete"
      <4>1. CASE j = i
        BY <1>1, <2>3, <2>4, <2>5, <4>1 DEF Happened
      <4>2. CASE j # i
        BY <2>4, <2>5, <2>8, <3>1, <4>2 DEF OwnWithdrawals
      <4> QED BY <4>1, <4>2
    <3>2. ASSUME NEW j \in DOMAIN intents, NEW k \in DOMAIN intents,
                 intents'[j].status = "complete", intents'[k].status = "complete",
                 intents'[j].hash["withdraw"] = intents'[k].hash["withdraw"]
          PROVE  j = k
      <4>1. /\ intents[j].hash["withdraw"] = intents[k].hash["withdraw"]
            /\ j = i \/ intents[j].status = "complete"
            /\ k = i \/ intents[k].status = "complete"
        BY <3>1, <3>2
      <4> QED BY <2>1, <2>8, <4>1 DEF OwnWithdrawals
    <3> QED BY <2>5, <3>1, <3>2 DEF OwnWithdrawals
  <2>10. UnitSum(Counted(intents'), 1..MaxIntents)
         = UnitSum(Counted(intents), 1..MaxIntents) + intents[i].amount
    <3>1. i \in 1..MaxIntents /\ IsFiniteSet(1..MaxIntents)
      BY <1>1, <2>2, WithdrawalConstants, FS_Interval
    <3>2. intents[i].amount \in Nat /\ \A j \in 1..MaxIntents : Counted(intents)[j] \in Nat
      BY <1>1, <2>2 DEF Counted, IntentRow
    <3>3. Counted(intents)[i] = 0 /\ Counted(intents')[i] = intents[i].amount
      BY <1>1, <2>1, <2>3, <2>5, <3>1 DEF Counted
    <3>4. \A j \in (1..MaxIntents) \ {i} : Counted(intents')[j] = Counted(intents)[j]
      BY <2>5 DEF Counted
    <3> DEFINE f == Counted(intents)
               g == Counted(intents')
               n == intents[i].amount
               S == 1..MaxIntents
    <3>5. /\ i \in S /\ IsFiniteSet(S) /\ \A j \in S : f[j] \in Nat
          /\ n \in Nat /\ f[i] = 0 /\ g[i] = n
          /\ \A j \in S \ {i} : g[j] = f[j]
      BY <3>1, <3>2, <3>3, <3>4
    <3> HIDE DEF f, g, n, S
    <3>6. UnitSum(g, S) = UnitSum(f, S) + n
      BY ONLY <3>5, UnitsAdded
    <3> QED BY <3>6 DEF f, g, n, S
  <2>11. /\ pool' \in PoolRow /\ pool'.paid = pool.paid /\ pool'.total = pool.total
         /\ pool'.withdrawn = pool.withdrawn + intents[i].amount
    <3>1. pool \in PoolRow /\ intents[i].amount \in Nat
      BY <1>1, <2>2 DEF WithdrawalInv, RecordsOK, IntentRow
    <3> QED BY <2>1, <3>1 DEF PoolRow
  <2>12. RecordsOK'
    BY <2>4, <2>9, <2>10, <2>11 DEF WithdrawalInv, RecordsOK
  <2> QED BY <2>4, <2>5, <2>6, <2>7, <2>12 DEF Kept, WithdrawalInv, Grows
<1> QED BY <1>2, <1>3

-----------------------------------------------------------------------------
(* The invariant.                                                          *)

LEMMA InitWithdrawalInv == Init => WithdrawalInv
<1> SUFFICES ASSUME Init PROVE WithdrawalInv
  OBVIOUS
<1> DEFINE e == Deployed(ProgramKey, Owner, Controller, 1)
<1>1. /\ Sound(e) /\ e.balance = 0 /\ e.totalFunded = 0 /\ e.totalWithdrawn = 0
      /\ e.totalPaid = 0 /\ e \in Escrow /\ e.totalApprovedOutstanding = 0
      /\ \A k \in ReportKeys : e.rewards[k].status = "None"
  <2>1. Sound(e)
    BY WithdrawalConstants, DeploySound
  <2>2. e \in Escrow
    BY <2>1 DEF Sound
  <2> QED BY <2>1, <2>2 DEF Deployed, NoReward
<1>2. Pool \in Nat
  BY WithdrawalConstants
<1>3. /\ escrow = [e EXCEPT !.balance = Pool, !.totalFunded = Pool] /\ escrow \in Escrow
      /\ escrow.balance = Pool /\ escrow.rewards = e.rewards /\ escrow.totalWithdrawn = 0
      /\ escrow.totalPaid = e.totalPaid
      /\ escrow.totalApprovedOutstanding = e.totalApprovedOutstanding
  BY <1>1, <1>2 DEF Init, Escrow
<1>4. Sound(escrow)
  <2>1. Owed(escrow) = Owed(e) /\ PaidOut(escrow) = PaidOut(e)
    BY <1>3, UnitsWithSame
  <2> QED BY <1>1, <1>2, <1>3, <2>1 DEF Sound, CountersAgree, Covered, Priced
<1>5. /\ sent = <<>> /\ sent \in Seq(Tx) /\ Len(sent) = 0 /\ DOMAIN sent = {}
      /\ intents = <<>> /\ intents \in Seq(IntentRow) /\ Len(intents) = 0
      /\ DOMAIN intents = {}
  BY EmptySeq DEF Init
<1>6. settled \in [ReportKeys -> SettledRow] /\ \A k \in ReportKeys : settled[k].stage = "none"
  BY DEF Init, SettledRow, NoReceipt, Receipt
<1>7. UnitSum(Took(sent), 1..MaxSent) = 0 /\ UnitSum(Counted(intents), 1..MaxIntents) = 0
  <2>1. \A m \in 1..MaxSent : Took(sent)[m] = 0
    BY <1>5 DEF Took
  <2>2. \A m \in 1..MaxIntents : Counted(intents)[m] = 0
    BY <1>5 DEF Counted
  <2> QED BY <2>1, <2>2, NoUnits
<1>8. ChainOK
  <2>1. HeldFor(escrow, settled)
    BY <1>1, <1>3 DEF HeldFor
  <2>2. now \in 1..MaxTime
    BY WithdrawalConstants DEF Init
  <2>3. Len(sent) <= MaxSent
    BY <1>5, WithdrawalConstants
  <2> QED BY <1>3, <1>4, <1>5, <1>6, <1>7, <2>1, <2>2, <2>3 DEF ChainOK
<1>9. IntentsOK
  <2>1. Len(intents) <= MaxIntents
    BY <1>5, WithdrawalConstants
  <2> QED BY <1>5, <2>1 DEF IntentsOK, Line
<1>10. BrowserOK
  <2>1. pending \in [1..MaxIntents -> [Ops -> 0..Len(sent)]]
    <3>1. NoHashes \in [Ops -> 0..Len(sent)]
      BY <1>5 DEF NoHashes
    <3> QED BY <3>1 DEF Init
  <2>2. tabs \in [Tabs -> Prompt] /\ \A t \in Tabs : tabs[t] = NoPrompt
    BY NoPromptTyped DEF Init
  <2>3. unheard \in 0..MaxUnheard
    BY WithdrawalConstants DEF Init
  <2> QED BY <2>1, <2>2, <2>3 DEF BrowserOK
<1>11. RequestsOK
  BY IdleTyped DEF Init, RequestsOK
<1>12. RecordsOK
  <2>1. PaidRewards(settled) = {}
    BY <1>6 DEF PaidRewards
  <2>2. Cardinality(PaidRewards(settled)) = 0
    BY <2>1, FS_EmptySet
  <2>3. /\ pool \in PoolRow /\ pool.total = Pool /\ pool.paid = 0 /\ pool.withdrawn = 0
    BY <1>2 DEF Init, PoolRow
  <2>4. Pool <= ObservedLifetimeInflow(escrow)
    BY <1>1, <1>2, <1>3 DEF ObservedLifetimeInflow
  <2>5. OwnWithdrawals(intents, sent)
    BY <1>5 DEF OwnWithdrawals
  <2> QED BY <1>7, <2>2, <2>3, <2>4, <2>5 DEF RecordsOK
<1> QED BY <1>8, <1>9, <1>10, <1>11, <1>12 DEF WithdrawalInv

LEMMA NextKeeps == WithdrawalInv /\ [Next]_vars => Kept
<1> SUFFICES ASSUME WithdrawalInv, [Next]_vars PROVE Kept
  OBVIOUS
<1>1. CASE ChainStep
  BY <1>1, DepositKeeps, SyncKeeps, TickKeeps, ExtendKeeps, ControllerClosesKeeps, MineKeeps
     DEF ChainStep
<1>2. CASE RewardStep
  BY <1>2, ReserveKeeps, CancelKeeps, ApproveKeeps, PayKeeps, RecordPayoutKeeps
     DEF RewardStep
<1>3. CASE CreateStep
  BY <1>3, StartCreateKeeps, ReadCountersKeeps, ReadBalanceKeeps, CreateKeeps DEF CreateStep
<1>4. CASE BrowserStep
  BY <1>4, PromptKeeps, SendsKeeps, RejectKeeps, UnheardKeeps, ObserveKeeps, AttachKeeps
     DEF BrowserStep
<1>5. CASE ReconcileStep
  BY <1>5, StartReconcileKeeps, VerifyCloseKeeps, VerifyWithdrawalKeeps, FailKeeps, RecordKeeps
     DEF ReconcileStep
<1>6. CASE UNCHANGED vars
  <2>1. UNCHANGED <<chain, pool, requests>> /\ UNCHANGED <<sent, intents, pending, tabs, unheard>>
    BY <1>6 DEF vars, chain, database
  <2>2. BrowserOK'
    BY <2>1 DEF WithdrawalInv, BrowserOK
  <2> QED BY <2>1, <2>2, IntentsAsTheyAre, BrowserStepKeeps
<1> QED BY <1>1, <1>2, <1>3, <1>4, <1>5, <1>6 DEF Next

\* In every reachable state the escrow is sound and counts what the owner's
\* transactions took, the intents form one line, requests hold evidence that
\* is still true, and the program's row is the sum of the records.
THEOREM WithdrawalInvHolds == Spec => []WithdrawalInv
<1>1. Init => WithdrawalInv
  BY InitWithdrawalInv
<1>2. WithdrawalInv /\ [Next]_vars => WithdrawalInv'
  BY NextKeeps DEF Kept
<1> QED BY <1>1, <1>2, PTL DEF Spec

-----------------------------------------------------------------------------
(* What follows from it.                                                   *)

\* Every reachable state is typed, and a row past a step has the hash of that
\* step.
THEOREM TypeOKHolds == Spec => []TypeOK
<1>1. ASSUME WithdrawalInv PROVE TypeOK
  <2>1. /\ sent \in Seq(Tx) /\ Len(sent) \in Nat /\ Len(sent) <= MaxSent
        /\ \A i \in DOMAIN intents : RowOK(intents[i], Len(sent))
    BY <1>1, LenProperties DEF WithdrawalInv, ChainOK, IntentsOK
  <2>2. escrow \in Escrow /\ now \in 1..MaxTime
    BY <1>1 DEF WithdrawalInv, ChainOK, Sound
  <2>3. /\ sent \in Seq([op : Ops, amount : Nat, outcome : {"pending", "success", "reverted"}])
        /\ settled \in [ReportKeys -> [stage : {"none", "reserved", "paid"}, receipt : Receipt]]
        /\ pool \in [total : Nat, paid : Nat, withdrawn : Nat]
    BY <1>1 DEF WithdrawalInv, ChainOK, RecordsOK, Tx, SettledRow, PoolRow
  <2>4. /\ intents \in Seq(IntentRow)
        /\ \A i \in DOMAIN intents :
             /\ \A op \in Ops : intents[i].status = Submitted(op) => intents[i].hash[op] # 0
             /\ intents[i].status = "complete" => intents[i].hash.withdraw # 0
             /\ intents[i].hash.withdraw # 0 /\ intents[i].closeRequired
                  => intents[i].closeVerified
    BY <1>1, <2>1 DEF WithdrawalInv, IntentsOK, RowOK
  <2>5. pending \in [1..MaxIntents -> [Ops -> 0..MaxSent]]
    <3>1. 0..Len(sent) \subseteq 0..MaxSent
      BY <2>1, WithdrawalConstants
    <3> QED BY <1>1, <3>1 DEF WithdrawalInv, BrowserOK
  <2>6. tabs \in [Tabs -> [intent : 0..MaxIntents, op : Ops]] /\ unheard \in 0..MaxUnheard
    BY <1>1 DEF WithdrawalInv, BrowserOK, Prompt
  <2>7. /\ requests \in [Requests ->
             [does : {"nothing", "read", "balance", "create", "close", "withdraw", "record",
                      "fail"},
              intent : 0..MaxIntents, balance : Nat, before : Nat, closed : BOOLEAN]]
        /\ \A q \in Requests : requests[q].intent \in {0} \cup DOMAIN intents
    BY <1>1 DEF WithdrawalInv, RequestsOK, RequestState, RequestOK
  <2> QED BY <2>2, <2>3, <2>4, <2>5, <2>6, <2>7 DEF TypeOK
<1> QED BY <1>1, WithdrawalInvHolds, PTL

\* What is recorded is the sum of the complete intents' amounts.
LEMMA CountedComplete ==
  ASSUME WithdrawalInv
  PROVE  UnitSum(Counted(intents), 1..MaxIntents)
         = UnitSum([i \in DOMAIN intents |-> intents[i].amount], Complete)
<1> DEFINE g == [i \in DOMAIN intents |-> intents[i].amount]
           f == Counted(intents)
           A == UNION {{x} \X (1..f[x]) : x \in 1..MaxIntents}
           B == UNION {{x} \X (1..g[x]) : x \in Complete}
<1>1. DOMAIN intents \subseteq 1..MaxIntents
  BY LenProperties, WithdrawalConstants DEF WithdrawalInv, IntentsOK
<1>2. \A x \in Complete : x \in 1..MaxIntents /\ g[x] = f[x]
  BY <1>1 DEF Complete, Counted
<1>3. \A x \in 1..MaxIntents : x \notin Complete => f[x] = 0
  BY DEF Complete, Counted
<1>4. \A x : 1..0 = {}
  BY SMT
<1> HIDE DEF f, g
<1>5. ASSUME NEW u \in A PROVE u \in B
  <2>1. PICK x \in 1..MaxIntents : u \in {x} \X (1..f[x])
    OBVIOUS
  <2>2. x \in Complete
    BY <1>3, <1>4, <2>1
  <2> QED BY <1>2, <2>1, <2>2
<1>6. ASSUME NEW u \in B PROVE u \in A
  <2>1. PICK x \in Complete : u \in {x} \X (1..g[x])
    OBVIOUS
  <2> QED BY <1>2, <2>1
<1>7. A = B
  BY <1>5, <1>6
<1> QED BY <1>7 DEF UnitSum, f, g

\* What is recorded has left the escrow: each unit of a complete intent is a
\* unit of the transaction that is its own.
LEMMA CountedTook ==
  ASSUME WithdrawalInv
  PROVE  UnitSum(Counted(intents), 1..MaxIntents) <= UnitSum(Took(sent), 1..MaxSent)
<1> DEFINE f == Counted(intents)
           g == Took(sent)
           A == UNION {{x} \X (1..f[x]) : x \in 1..MaxIntents}
           B == UNION {{n} \X (1..g[n]) : n \in 1..MaxSent}
           own(x) == intents[x].hash["withdraw"]
           to == [u \in A |-> <<own(u[1]), u[2]>>]
<1>1. /\ sent \in Seq(Tx) /\ Len(sent) \in Nat /\ Len(sent) <= MaxSent
      /\ DOMAIN sent = 1..Len(sent) /\ MaxSent \in Nat
      /\ \A i \in DOMAIN intents : intents[i] \in IntentRow /\ RowOK(intents[i], Len(sent))
      /\ OwnWithdrawals(intents, sent)
  BY ElementOfSeq, LenProperties, WithdrawalConstants
     DEF WithdrawalInv, ChainOK, IntentsOK, RecordsOK
<1>2. IsFiniteSet(B)
  <2>1. \A n \in DOMAIN sent : sent[n] \in Tx
    BY <1>1, ElementOfSeq
  <2>2. \A n \in 1..MaxSent : g[n] \in Nat
    BY <2>1 DEF Took, Tx
  <2>3. IsFiniteSet(1..MaxSent)
    BY <1>1, FS_Interval
  <2> DEFINE S == 1..MaxSent
  <2>4. IsFiniteSet(S) /\ \A n \in S : g[n] \in Nat
    BY <2>2, <2>3
  <2> HIDE DEF g, S
  <2>5. IsFiniteSet(UNION {{n} \X (1..g[n]) : n \in S})
    BY ONLY <2>4, UnitsFinite
  <2> QED BY <2>5 DEF S
<1>3. ASSUME NEW x \in 1..MaxIntents, f[x] # 0
      PROVE  /\ x \in DOMAIN intents /\ intents[x].status = "complete"
             /\ own(x) \in 1..MaxSent /\ g[own(x)] = f[x]
  <2>1. x \in DOMAIN intents /\ intents[x].status = "complete" /\ f[x] = intents[x].amount
    BY <1>3 DEF Counted
  <2>2. /\ own(x) \in Nat /\ own(x) # 0 /\ own(x) <= Len(sent)
        /\ sent[own(x)].outcome = "success" /\ sent[own(x)].op = "withdraw"
        /\ sent[own(x)].amount = intents[x].amount
    BY <1>1, <2>1 DEF OwnWithdrawals, Happened, RowOK, IntentRow, Ops
  <2>3. own(x) \in DOMAIN sent /\ own(x) \in 1..MaxSent
    BY ONLY <1>1, <2>2
  <2>4. g[own(x)] = sent[own(x)].amount
    BY <2>2, <2>3 DEF Took
  <2> QED BY <2>1, <2>2, <2>3, <2>4
<1>4. \A x, y \in DOMAIN intents :
        intents[x].status = "complete" /\ intents[y].status = "complete" /\ own(x) = own(y)
          => x = y
  BY <1>1 DEF OwnWithdrawals
<1> HIDE DEF f, g, own
<1>5. ASSUME NEW u \in A
      PROVE  /\ u = <<u[1], u[2]>> /\ u[1] \in 1..MaxIntents /\ u[2] \in 1..f[u[1]]
             /\ f[u[1]] # 0
  <2>1. PICK x \in 1..MaxIntents : u \in {x} \X (1..f[x])
    OBVIOUS
  <2>2. u[1] = x /\ u[2] \in 1..f[x] /\ u = <<u[1], u[2]>>
    BY <2>1
  <2>3. 1..0 = {}
    BY SMT
  <2> QED BY <2>2, <2>3
<1>6. ASSUME NEW u \in A PROVE to[u] \in B
  <2>1. own(u[1]) \in 1..MaxSent /\ u[2] \in 1..g[own(u[1])]
    BY <1>3, <1>5
  <2>2. to[u] = <<own(u[1]), u[2]>>
    OBVIOUS
  <2> QED BY <2>1, <2>2
<1>7. ASSUME NEW u \in A, NEW v \in A, to[u] = to[v] PROVE u = v
  <2>1. own(u[1]) = own(v[1]) /\ u[2] = v[2]
    BY <1>7
  <2>2. u[1] = v[1]
    BY <1>3, <1>4, <1>5, <2>1
  <2> QED BY <1>5, <2>1, <2>2
<1>8. to \in Injection(A, B)
  <2>1. to \in [A -> B]
    BY <1>6
  <2>2. \A u, v \in A : to[u] = to[v] => u = v
    BY <1>7
  <2> HIDE DEF A, B, to
  <2> QED BY <2>1, <2>2 DEF Injection, IsInjective
<1> HIDE DEF A, B, to
<1>9. Cardinality(A) <= Cardinality(B)
  BY <1>2, <1>8, FS_Injection
<1> QED BY <1>9 DEF UnitSum, A, B, f, g

\* Every complete intent has a successful withdrawal of its amount that is no
\* other intent's, withdrawn_pool is the sum of their amounts and never more
\* than the contract has paid out to its owner.
THEOREM RecordedOnceHolds == Spec => []RecordedOnce
<1>1. ASSUME WithdrawalInv PROVE RecordedOnce
  <2>1. /\ pool.withdrawn = UnitSum(Counted(intents), 1..MaxIntents)
        /\ OwnWithdrawals(intents, sent)
        /\ escrow.totalWithdrawn = UnitSum(Took(sent), 1..MaxSent)
    BY <1>1 DEF WithdrawalInv, RecordsOK, ChainOK
  <2>2. pool.withdrawn = UnitSum([i \in DOMAIN intents |-> intents[i].amount], Complete)
    BY <1>1, <2>1, CountedComplete
  <2>3. pool.withdrawn <= escrow.totalWithdrawn
    BY <1>1, <2>1, CountedTook
  <2>4. \A i \in Complete :
          LET tx == sent[intents[i].hash.withdraw] IN
          tx.outcome = "success" /\ tx.op = "withdraw" /\ tx.amount = intents[i].amount
    BY <2>1 DEF OwnWithdrawals, Complete, Happened
  <2>5. \A i, j \in Complete :
          intents[i].hash.withdraw = intents[j].hash.withdraw => i = j
    BY <2>1 DEF OwnWithdrawals, Complete
  <2> QED BY <2>2, <2>3, <2>4, <2>5 DEF RecordedOnce
<1> QED BY <1>1, WithdrawalInvHolds, PTL

\* Only the last intent may be open, and each names the failed one before it
\* that it replaces, which names it.
THEOREM ReplacementsLinearHolds == Spec => []ReplacementsLinear
<1>1. WithdrawalInv => ReplacementsLinear
  BY DEF WithdrawalInv, IntentsOK, Line, ReplacementsLinear
<1> QED BY <1>1, WithdrawalInvHolds, PTL

\* Rewards of one unit owed or paid on chain are reserved or paid in the
\* database.
LEMMA OnChainIsHeld ==
  ASSUME WithdrawalInv
  PROVE  /\ escrow.totalPaid + escrow.totalApprovedOutstanding
              <= Cardinality(PaidRewards(settled)) + Cardinality(Reserved)
         /\ Cardinality(PaidRewards(settled)) \in Nat /\ Cardinality(Reserved) \in Nat
<1> DEFINE P == PaidRewards(settled)
           R == Reserved
           One == 1..1
           A == UnitsWith(escrow, "Approved")
           B == UnitsWith(escrow, "Paid")
<1>1. Sound(escrow) /\ escrow \in Escrow /\ HeldFor(escrow, settled)
      /\ settled \in [ReportKeys -> SettledRow] /\ IsFiniteSet(ReportKeys)
  BY WithdrawalConstants DEF WithdrawalInv, ChainOK, Sound
<1>2. /\ IsFiniteSet(P) /\ IsFiniteSet(R) /\ P \cap R = {}
      /\ \A k \in ReportKeys : settled[k].stage # "none" => k \in P \cup R
  <2>1. P \in SUBSET ReportKeys /\ R \in SUBSET ReportKeys
    BY DEF PaidRewards, Reserved
  <2>2. P \cap R = {}
    BY DEF PaidRewards, Reserved
  <2>3. \A k \in ReportKeys : settled[k].stage \in {"none", "reserved", "paid"}
    BY <1>1 DEF SettledRow
  <2>4. \A k \in ReportKeys : settled[k].stage # "none" => k \in P \cup R
    BY <2>3 DEF PaidRewards, Reserved
  <2> QED BY <1>1, <2>1, <2>2, <2>4, FS_Subset
<1>3. IsFiniteSet(A) /\ IsFiniteSet(B)
  BY <1>1, UnitsWithFinite
<1>4. ASSUME NEW u PROVE u \in A \cup B => u \in (P \cup R) \X One
  <2>1. SUFFICES ASSUME NEW s \in {"Approved", "Paid"}, u \in UnitsWith(escrow, s)
                 PROVE  u \in (P \cup R) \X One
    OBVIOUS
  <2>2. PICK k \in ReportKeys : escrow.rewards[k].status = s /\ u \in UnitsOf(escrow, k)
    BY <2>1, UnitsWithElements
  <2>3. escrow.rewards[k].amount = 1 /\ settled[k].stage # "none"
    BY <1>1, <2>2 DEF HeldFor
  <2>4. u \in {k} \X One /\ k \in P \cup R
    BY <1>2, <2>2, <2>3 DEF UnitsOf
  <2> QED BY <2>4
<1>5. A \cap B = {}
  <2>1. ASSUME NEW u, u \in A, u \in B PROVE FALSE
    <3>1. PICK k \in ReportKeys :
            escrow.rewards[k].status = "Approved" /\ u \in UnitsOf(escrow, k)
      BY <2>1, UnitsWithElements
    <3>2. PICK j \in ReportKeys :
            escrow.rewards[j].status = "Paid" /\ u \in UnitsOf(escrow, j)
      BY <2>1, UnitsWithElements
    <3>3. u[1] = k /\ u[1] = j
      BY <3>1, <3>2 DEF UnitsOf
    <3> QED BY <3>1, <3>2, <3>3
  <2> QED BY <2>1
<1> HIDE DEF P, R, A, B
<1>6. Cardinality(A \cup B) = Cardinality(A) + Cardinality(B)
  BY <1>3, <1>5, DisjointUnion
<1>7. /\ IsFiniteSet((P \cup R) \X One)
      /\ Cardinality((P \cup R) \X One) = Cardinality(P) + Cardinality(R)
      /\ Cardinality(P) \in Nat /\ Cardinality(R) \in Nat
  <2>1. IsFiniteSet(One) /\ Cardinality(One) = 1
    BY UpTo
  <2> HIDE DEF One
  <2>2. Cardinality(P) \in Nat /\ Cardinality(R) \in Nat
    BY <1>2, FS_CardinalityType
  <2>3. IsFiniteSet(P \cup R) /\ Cardinality(P \cup R) = Cardinality(P) + Cardinality(R)
    BY <1>2, DisjointUnion, FS_Union
  <2>4. /\ IsFiniteSet((P \cup R) \X One)
        /\ Cardinality((P \cup R) \X One) = Cardinality(P \cup R) * Cardinality(One)
    BY <2>1, <2>3, FS_Product
  <2> QED BY <2>1, <2>2, <2>3, <2>4
<1>8. A \cup B \in SUBSET ((P \cup R) \X One)
  BY <1>4
<1>9. Cardinality(A \cup B) <= Cardinality((P \cup R) \X One)
  BY <1>7, <1>8, FS_Subset
<1>10. /\ escrow.totalApprovedOutstanding = Cardinality(A)
       /\ escrow.totalPaid = Cardinality(B)
       /\ Cardinality(A) \in Nat /\ Cardinality(B) \in Nat
  BY <1>1, <1>3, FS_CardinalityType DEF Sound, CountersAgree, Owed, PaidOut, A, B
<1> QED BY <1>6, <1>7, <1>9, <1>10 DEF P, R

\* With every withdrawal recorded, what the program's row calls available is
\* in the escrow and owed to nobody.
THEOREM AvailableIsThereHolds == Spec => []AvailableIsThere
<1>1. ASSUME WithdrawalInv, pool.withdrawn = escrow.totalWithdrawn
      PROVE  Available <= AvailableBalance(escrow)
  <2>1. /\ pool \in PoolRow /\ pool.paid = Cardinality(PaidRewards(settled))
        /\ pool.total <= ObservedLifetimeInflow(escrow)
        /\ escrow \in Escrow /\ Covered(escrow)
    BY <1>1 DEF WithdrawalInv, RecordsOK, ChainOK, Sound
  <2>2. /\ escrow.totalPaid + escrow.totalApprovedOutstanding
              <= Cardinality(PaidRewards(settled)) + Cardinality(Reserved)
        /\ Cardinality(PaidRewards(settled)) \in Nat /\ Cardinality(Reserved) \in Nat
    BY <1>1, OnChainIsHeld
  <2>3. /\ escrow.balance \in Nat /\ escrow.totalPaid \in Nat
        /\ escrow.totalWithdrawn \in Nat /\ escrow.totalApprovedOutstanding \in Nat
        /\ pool.total \in Nat /\ pool.withdrawn \in Nat
    BY <2>1 DEF Escrow, PoolRow
  <2>4. escrow.totalApprovedOutstanding <= escrow.balance
    BY <2>1 DEF Covered
  <2>5. AvailableBalance(escrow) = escrow.balance - escrow.totalApprovedOutstanding
    BY <2>3, <2>4 DEF AvailableBalance
  <2>6. pool.total <= escrow.balance + escrow.totalPaid + escrow.totalWithdrawn
    BY <2>1 DEF ObservedLifetimeInflow
  <2> QED BY <1>1, <2>1, <2>2, <2>3, <2>5, <2>6 DEF Available
<1>2. WithdrawalInv => AvailableIsThere
  BY <1>1 DEF AvailableIsThere
<1> QED BY <1>2, WithdrawalInvHolds, PTL

\* A step never changes the outcome or the evidence of a final intent; it may
\* only link the intent that replaces it, once.
THEOREM OutcomesKeptHolds == Spec => OutcomesKept
<1>1. WithdrawalInv /\ [Next]_vars =>
        [\A i \in DOMAIN intents : intents[i].status \in Final =>
           \/ intents'[i] = intents[i]
           \/ intents[i].replacedBy = 0 /\ [intents'[i] EXCEPT !.replacedBy = 0] = intents[i]]_vars
  BY NextKeeps DEF Kept, OutcomesStay
<1> QED BY <1>1, WithdrawalInvHolds, PTL DEF Spec, OutcomesKept

=============================================================================
