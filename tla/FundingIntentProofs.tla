------------------------ MODULE FundingIntentProofs -------------------------
(***************************************************************************)
(* Proofs about FundingIntent, for any number of tabs, requests, intents,  *)
(* transfers and sync keys: the types, that every transfer is credited     *)
(* once, that funding implements the abstract ledger, that a transfer whose*)
(* hash a wallet returned is not sent again, and what may be cancelled.    *)
(***************************************************************************)
EXTENDS FundingIntent, FiniteSetTheorems, TLAPS

-----------------------------------------------------------------------------
(***************************************************************************)
(* The inductive invariant                                                 *)
(***************************************************************************)
Verified == {"read", "submit", "store", "wait", "credit"}

Keyed == {"submit", "store", "wait", "credit"}

\* An intent's sync is the one of its current key, and a key Circle gave up
\* was not the last.
KeysAgree ==
  /\ Len(intents) <= MaxIntents
  /\ Len(txs) <= MaxTransfers
  /\ \A k \in Keys : circle[k] = "failed" => k[2] < MaxSyncs
  /\ \A i \in DOMAIN intents : /\ intents[i].key \in 1..MaxSyncs
                               /\ intents[i].sync \in {0, intents[i].key}
  /\ \A p \in Requests : requests[p].at \in Keyed => requests[p].key \in 1..MaxSyncs

\* Who holds an intent's lease, live or lapsed, works on it, and what it read
\* of the intent's keys is still so.
LeasesAgree ==
  \A i \in DOMAIN intents, p \in Requests : intents[i].lease.holder = p =>
    /\ requests[p].intent = i
    /\ requests[p].at \in Verified \cup {"verify"}
    /\ requests[p].at \in {"submit", "store"} => /\ requests[p].key = intents[i].key
                                                /\ intents[i].sync = 0
    /\ requests[p].at \in {"wait", "credit"} => requests[p].key = intents[i].sync

\* What was credited arrived, and a credited intent keeps the transfer it
\* verified and the sync transaction it was credited with.
CreditsAgree ==
  /\ total_pool = Cardinality(Credited)
  /\ late \subseteq Arrived
  /\ scanned \subseteq Arrived
  /\ \A p \in Requests :
       /\ requests[p].at \in Verified => requests[p].dest \in Arrived
       /\ requests[p].at = "credit" => circle[<<requests[p].intent, requests[p].key>>] = "success"
  /\ \A r \in rows :
       /\ r.tx \in Arrived
       /\ circle[r.key] = "success"
       /\ r.key[1] \in DOMAIN intents
       /\ intents[r.key[1]].sync = r.key[2]
       /\ intents[r.key[1]].verified = r.tx

\* A recorded destination that has not reverted belongs to an open attempt, so
\* nothing takes it away: a request finds the transfer it read first still
\* there, and an intent whose lease it holds still active.
DestinationsAgree ==
  /\ \A i \in DOMAIN intents : intents[i].dest \in DOMAIN txs \ Reverted =>
       \E n \in OpenAttempts(i) : intents[i].ops[n].tx = intents[i].dest
  /\ \A p \in Requests : requests[p].at # "idle" /\ requests[p].dest \notin Reverted =>
       intents[requests[p].intent].dest = requests[p].dest
  /\ \A i \in DOMAIN intents, p \in Requests :
       intents[i].lease.holder = p /\ requests[p].dest \notin Reverted =>
         intents[i].status \in Active

\* The inductive invariant: these and DestinationsAgree.
FundingInv == TypeOK /\ KeysAgree /\ LeasesAgree /\ CreditsAgree

-----------------------------------------------------------------------------
(***************************************************************************)
(* Tables of intents                                                       *)
(***************************************************************************)
\* What TablesOK says of the table of intents, for any table db and set D of
\* transactions.
DbOK(db, D) ==
  /\ db \in Seq(IntentType)
  /\ \A i \in DOMAIN db : {db[i].dest, db[i].verified} \subseteq {0} \cup D
  /\ \A i, j \in DOMAIN db : i # j /\ db[i].status \in Active => db[j].status \notin Active

\* A table that moves nothing crediting depends on: keys, syncs and verified
\* transfers stay, attempts are only added, leases only released.
Quiet(old, new) ==
  /\ DOMAIN new = DOMAIN old
  /\ \A i \in DOMAIN old :
       /\ new[i].key = old[i].key
       /\ new[i].sync = old[i].sync
       /\ new[i].verified = old[i].verified
       /\ DOMAIN old[i].ops \subseteq DOMAIN new[i].ops
       /\ new[i].lease.holder \in {old[i].lease.holder, "none", "gone"}

\* The table of intents as TablesOK sees it.
LEMMA TablesByDb ==
  TablesOK <=>
    /\ txs \in Seq(TransactionType)
    /\ totalFunded \in Nat
    /\ circle \in [Keys -> {"none", "pending", "success", "failed"}]
    /\ rows \subseteq [key : Keys, tx : DOMAIN txs]
    /\ late \subseteq DOMAIN txs
    /\ total_pool \in Nat
    /\ DbOK(intents, DOMAIN txs)
<1>1. ASSUME DbOK(intents, DOMAIN txs), NEW i \in DOMAIN intents, intents[i].status \in Active
      PROVE  Unrivalled(i)
  BY <1>1 DEF DbOK, Unrivalled
<1>2. ASSUME \A i \in DOMAIN intents : intents[i].status \in Active => Unrivalled(i),
             NEW i \in DOMAIN intents, NEW j \in DOMAIN intents, i # j,
             intents[i].status \in Active
      PROVE  intents[j].status \notin Active
  BY <1>2 DEF Unrivalled
<1> QED
  BY <1>1, <1>2, Zenon DEF TablesOK, DbOK

\* Replacing one intent by another of the right type keeps the table right,
\* unless the new one is active beside another.
LEMMA OneRow ==
  ASSUME NEW db, NEW D, DbOK(db, D), NEW i \in DOMAIN db, NEW r \in IntentType,
         {r.dest, r.verified} \subseteq {0} \cup D,
         r.status \in Active => \A j \in DOMAIN db \ {i} : db[j].status \notin Active
  PROVE  DbOK([db EXCEPT ![i] = r], D)
<1> DEFINE new == [db EXCEPT ![i] = r]
<1>1. db \in Seq(IntentType)
  BY DEF DbOK
<1>2. new \in Seq(IntentType) /\ DOMAIN new = DOMAIN db
  BY <1>1
<1>3. new[i] = r /\ \A j \in DOMAIN db \ {i} : new[j] = db[j]
  BY <1>1
<1>4. ASSUME NEW j \in DOMAIN new PROVE {new[j].dest, new[j].verified} \subseteq {0} \cup D
  BY <1>2, <1>3 DEF DbOK
<1>5. ASSUME NEW j \in DOMAIN new, NEW k \in DOMAIN new, j # k, new[j].status \in Active
      PROVE  new[k].status \notin Active
  BY <1>2, <1>3, <1>5 DEF DbOK
<1> HIDE DEF new
<1> QED
  BY <1>2, <1>4, <1>5 DEF DbOK, new

\* The table a request that ends leaves behind.
EndedTable(db, p) ==
  [i \in DOMAIN db |-> IF db[i].lease.holder = p THEN [db[i] EXCEPT !.lease.holder = "gone"] ELSE db[i]]

\* It is as right as the one it is made from, moves nothing else, and the
\* request holds no lease in it.
LEMMA EndedRow ==
  ASSUME NEW db, NEW D, DbOK(db, D), NEW p \in Requests
  PROVE  /\ DbOK(EndedTable(db, p), D)
         /\ Quiet(db, EndedTable(db, p))
         /\ \A i \in DOMAIN db : EndedTable(db, p)[i].lease.holder # p
<1> DEFINE new == EndedTable(db, p)
<1>1. db \in Seq(IntentType)
  BY DEF DbOK
<1>2. DOMAIN new = DOMAIN db /\ DOMAIN db = 1..Len(db) /\ Len(db) \in Nat
  BY <1>1 DEF EndedTable
<1>3. ASSUME NEW i \in DOMAIN db
      PROVE  /\ new[i] \in IntentType
             /\ new[i].status = db[i].status /\ new[i].dest = db[i].dest
             /\ new[i].key = db[i].key /\ new[i].sync = db[i].sync
             /\ new[i].verified = db[i].verified /\ new[i].ops = db[i].ops
             /\ new[i].lease.holder \in {db[i].lease.holder, "gone"}
             /\ new[i].lease.holder # p
  <2>1. db[i] \in IntentType
    BY <1>1
  <2>2. "gone" # p
    BY FundingConstants
  <2>3. new[i] = IF db[i].lease.holder = p THEN [db[i] EXCEPT !.lease.holder = "gone"] ELSE db[i]
    BY DEF EndedTable
  <2>4. CASE db[i].lease.holder = p
    BY <2>1, <2>2, <2>3, <2>4 DEF IntentType
  <2>5. CASE db[i].lease.holder # p
    BY <2>1, <2>3, <2>5
  <2> QED BY <2>4, <2>5
<1>4. new \in Seq(IntentType)
  <2>1. new \in [1..Len(db) -> IntentType]
    BY <1>2, <1>3 DEF EndedTable
  <2> QED BY <1>2, <2>1
<1> HIDE DEF new
<1>5. DbOK(new, D)
  BY <1>2, <1>3, <1>4 DEF DbOK
<1>6. Quiet(db, new)
  BY <1>2, <1>3 DEF Quiet
<1> QED
  BY <1>3, <1>5, <1>6 DEF new

\* A step that moves nothing crediting depends on, and in which requests go on
\* as they were or end without a lease, keeps the invariant.
LEMMA QuietStep ==
  ASSUME FundingInv, TypeOK', Quiet(intents, intents'),
         UNCHANGED <<circle, rows, late, total_pool, scanned>>,
         Arrived \subseteq Arrived', Len(txs') <= MaxTransfers,
         \A q \in Requests :
           \/ requests'[q] = requests[q]
           \/ requests'[q].at = "idle" /\ \A i \in DOMAIN intents : intents'[i].lease.holder # q
  PROVE  FundingInv'
<1> USE DEF FundingInv
<1>1. DOMAIN intents' = DOMAIN intents
  BY DEF Quiet
<1>2. Len(intents') = Len(intents)
  BY <1>1 DEF TypeOK, TablesOK
<1>3. KeysAgree'
  BY <1>1, <1>2 DEF KeysAgree, Quiet, Keyed
<1>4. ASSUME NEW i \in DOMAIN intents', NEW p \in Requests, intents'[i].lease.holder = p
      PROVE  /\ requests'[p].intent = i
             /\ requests'[p].at \in Verified \cup {"verify"}
             /\ requests'[p].at \in {"submit", "store"} => /\ requests'[p].key = intents'[i].key
                                                         /\ intents'[i].sync = 0
             /\ requests'[p].at \in {"wait", "credit"} => requests'[p].key = intents'[i].sync
  <2>1. p \notin {"none", "gone"}
    BY FundingConstants
  <2>2. intents[i].lease.holder = p /\ requests'[p] = requests[p]
    BY <1>1, <1>4, <2>1 DEF Quiet
  <2> QED
    BY <1>1, <2>2 DEF LeasesAgree, Quiet
<1>5. Credited' = Credited
  BY DEF Credited
<1>6. CreditsAgree'
  BY <1>1, <1>5 DEF CreditsAgree, Quiet, Verified
<1> QED
  BY <1>3, <1>4, <1>6 DEF LeasesAgree

\* TablesOK of the next state, from the table of intents.
LEMMA TablesNext ==
  ASSUME txs' \in Seq(TransactionType),
         totalFunded' \in Nat,
         circle' \in [Keys -> {"none", "pending", "success", "failed"}],
         rows' \subseteq [key : Keys, tx : DOMAIN txs'],
         late' \subseteq DOMAIN txs',
         total_pool' \in Nat,
         DbOK(intents', DOMAIN txs')
  PROVE  TablesOK'
<1>1. ASSUME NEW i \in DOMAIN intents', intents'[i].status \in Active
      PROVE  Unrivalled(i)'
  BY <1>1 DEF DbOK, Unrivalled
<1> QED
  BY <1>1, Zenon DEF TablesOK, DbOK

\* Tables that stay, but for the intents.
LEMMA TablesStay ==
  ASSUME TablesOK, UNCHANGED <<txs, totalFunded, circle, rows, late, total_pool>>,
         DbOK(intents', DOMAIN txs)
  PROVE  TablesOK'
<1>1. DbOK(intents', DOMAIN txs')
  OBVIOUS
<1> QED
  BY <1>1, TablesNext, Zenon DEF TablesOK

\* What there is stays: intents, their attempts and transactions.
Grows ==
  /\ DOMAIN txs \subseteq DOMAIN txs'
  /\ DOMAIN intents \subseteq DOMAIN intents'
  /\ \A i \in DOMAIN intents : DOMAIN intents[i].ops \subseteq DOMAIN intents'[i].ops

\* One tab moves.
LEMMA TabMoves ==
  ASSUME CallersOK, Grows, UNCHANGED requests,
         NEW b \in Tabs, NEW t \in TabType, tabs' = [tabs EXCEPT ![b] = t],
         t.at # "idle" => t.intent \in DOMAIN intents',
         t.at \notin {"idle", "claim", "replace"} => t.attempt \in DOMAIN intents'[t.intent].ops,
         t.at = "observe" => t.tx \in DOMAIN txs'
  PROVE  CallersOK'
<1>1. tabs' \in [Tabs -> TabType]
  BY DEF CallersOK
<1>2. ASSUME NEW c \in Tabs, tabs'[c].at # "idle"
      PROVE  /\ tabs'[c].intent \in DOMAIN intents'
             /\ tabs'[c].at \notin {"claim", "replace"} =>
                  tabs'[c].attempt \in DOMAIN intents'[tabs'[c].intent].ops
             /\ tabs'[c].at = "observe" => tabs'[c].tx \in DOMAIN txs'
  <2>1. CASE c = b
    BY <1>2, <2>1 DEF CallersOK
  <2>2. CASE c # b
    BY <1>2, <2>2 DEF CallersOK, Grows
  <2> QED BY <2>1, <2>2
<1>3. \A p \in Requests : requests'[p].at # "idle" =>
        requests'[p].intent \in DOMAIN intents' /\ requests'[p].dest \in DOMAIN txs'
  BY DEF CallersOK, Grows
<1>4. requests' \in [Requests -> RequestType]
  BY DEF CallersOK
<1> QED
  BY <1>1, <1>2, <1>3, <1>4 DEF CallersOK

\* One request moves, or none.
LEMMA RequestMoves ==
  ASSUME CallersOK, Grows, UNCHANGED tabs,
         NEW p \in Requests, NEW q \in RequestType, requests' = [requests EXCEPT ![p] = q],
         q.at # "idle" => q.intent \in DOMAIN intents' /\ q.dest \in DOMAIN txs'
  PROVE  CallersOK'
<1>1. requests' \in [Requests -> RequestType]
  BY DEF CallersOK
<1>2. ASSUME NEW c \in Requests, requests'[c].at # "idle"
      PROVE  requests'[c].intent \in DOMAIN intents' /\ requests'[c].dest \in DOMAIN txs'
  <2>1. CASE c = p
    BY <1>2, <2>1 DEF CallersOK
  <2>2. CASE c # p
    BY <1>2, <2>2 DEF CallersOK, Grows
  <2> QED BY <2>1, <2>2
<1>3. ASSUME NEW c \in Tabs, tabs'[c].at # "idle"
      PROVE  /\ tabs'[c].intent \in DOMAIN intents'
             /\ tabs'[c].at \notin {"claim", "replace"} =>
                  tabs'[c].attempt \in DOMAIN intents'[tabs'[c].intent].ops
             /\ tabs'[c].at = "observe" => tabs'[c].tx \in DOMAIN txs'
  BY <1>3 DEF CallersOK, Grows
<1>4. tabs' \in [Tabs -> TabType]
  BY DEF CallersOK
<1> QED
  BY <1>1, <1>2, <1>3, <1>4 DEF CallersOK

\* Neither moves.
LEMMA CallersStay ==
  ASSUME CallersOK, Grows, UNCHANGED <<tabs, requests>>
  PROVE  CallersOK'
BY DEF CallersOK, Grows

\* What an intent may become in a step that moves no money.
GoodRow(i, r) ==
  /\ r \in IntentType
  /\ r.dest \in {0} \cup DOMAIN txs
  /\ r.status \in Active => intents[i].status \in Active \/ Unrivalled(i)
  /\ r.key = intents[i].key /\ r.sync = intents[i].sync /\ r.verified = intents[i].verified
  /\ DOMAIN intents[i].ops \subseteq DOMAIN r.ops
  /\ r.lease.holder \in {intents[i].lease.holder, "none", "gone"}

\* The table stays right and quiet when one intent changes so.
LEMMA RowQuiet ==
  ASSUME TablesOK, NEW i \in DOMAIN intents, NEW r, GoodRow(i, r)
  PROVE  /\ DbOK([intents EXCEPT ![i] = r], DOMAIN txs)
         /\ Quiet(intents, [intents EXCEPT ![i] = r])
<1>1. DbOK(intents, DOMAIN txs)
  BY TablesByDb
<1>2. r \in IntentType /\ {r.dest, r.verified} \subseteq {0} \cup DOMAIN txs
  BY DEF GoodRow, TablesOK
<1>3. r.status \in Active => \A j \in DOMAIN intents \ {i} : intents[j].status \notin Active
  BY <1>1 DEF GoodRow, DbOK, Unrivalled
<1>4. DbOK([intents EXCEPT ![i] = r], DOMAIN txs)
  BY <1>1, <1>2, <1>3, OneRow
<1>5. Quiet(intents, [intents EXCEPT ![i] = r])
  BY DEF GoodRow, TablesOK, Quiet
<1> QED
  BY <1>4, <1>5

\* A tab moves and may change one intent.
LEMMA TabWrites ==
  ASSUME FundingInv, NEW b \in Tabs, NEW t \in TabType, tabs' = [tabs EXCEPT ![b] = t],
         NEW i \in DOMAIN intents, NEW r, GoodRow(i, r), intents' = [intents EXCEPT ![i] = r],
         UNCHANGED <<chain, rows, late, total_pool, requests, scanned>>,
         t.at # "idle" => /\ t.intent = i
                          /\ t.at \notin {"claim", "replace"} => t.attempt \in DOMAIN r.ops
                          /\ t.at = "observe" => t.tx \in DOMAIN txs
  PROVE  FundingInv'
<1>1. TablesOK /\ CallersOK
  BY DEF FundingInv, TypeOK
<1>2. DbOK(intents', DOMAIN txs) /\ Quiet(intents, intents')
  BY <1>1, RowQuiet
<1>3. TablesOK'
  BY <1>1, <1>2, TablesStay DEF chain
<1>4. Grows
  BY <1>2 DEF Grows, Quiet, chain
<1>5. intents'[i] = r /\ DOMAIN intents' = DOMAIN intents
  BY <1>1 DEF TablesOK
<1>6. CallersOK'
  BY <1>1, <1>4, <1>5, TabMoves DEF chain
<1>7. Arrived \subseteq Arrived' /\ Len(txs') <= MaxTransfers
  BY DEF Arrived, chain, FundingInv, KeysAgree
<1> QED
  BY <1>2, <1>3, <1>6, <1>7, QuietStep DEF TypeOK, chain

\* A tab moves and reads only.
LEMMA TabReads ==
  ASSUME FundingInv, NEW b \in Tabs, NEW t \in TabType, tabs' = [tabs EXCEPT ![b] = t],
         UNCHANGED <<chain, database, requests, scanned>>,
         t.at # "idle" => /\ t.intent \in DOMAIN intents
                          /\ t.at \notin {"claim", "replace"} =>
                               t.attempt \in DOMAIN intents[t.intent].ops
                          /\ t.at = "observe" => t.tx \in DOMAIN txs
  PROVE  FundingInv'
<1>1. TablesOK /\ CallersOK
  BY DEF FundingInv, TypeOK
<1>2. DbOK(intents', DOMAIN txs) /\ Quiet(intents, intents')
  BY <1>1, TablesByDb DEF database, Quiet
<1>3. TablesOK'
  BY <1>1, <1>2, TablesStay DEF chain, database
<1>4. Grows
  BY <1>2 DEF Grows, Quiet, chain
<1>6. CallersOK'
  BY <1>1, <1>4, TabMoves DEF chain, database
<1>7. Arrived \subseteq Arrived' /\ Len(txs') <= MaxTransfers
  BY DEF Arrived, chain, FundingInv, KeysAgree
<1> QED
  BY <1>2, <1>3, <1>6, <1>7, QuietStep DEF TypeOK, chain, database

\* One intent changes, and nothing else that counts.
LEMMA RowWrites ==
  ASSUME FundingInv, NEW i \in DOMAIN intents, NEW r, GoodRow(i, r),
         intents' = [intents EXCEPT ![i] = r],
         UNCHANGED <<chain, rows, late, total_pool, tabs, requests, scanned>>
  PROVE  FundingInv'
<1>1. TablesOK /\ CallersOK
  BY DEF FundingInv, TypeOK
<1>2. DbOK(intents', DOMAIN txs) /\ Quiet(intents, intents')
  BY <1>1, RowQuiet
<1>3. TablesOK'
  BY <1>1, <1>2, TablesStay DEF chain
<1>4. Grows
  BY <1>2 DEF Grows, Quiet, chain
<1>6. CallersOK'
  BY <1>1, <1>4, CallersStay
<1>7. Arrived \subseteq Arrived' /\ Len(txs') <= MaxTransfers
  BY DEF Arrived, chain, FundingInv, KeysAgree
<1> QED
  BY <1>2, <1>3, <1>6, <1>7, QuietStep DEF TypeOK, chain

\* Sequences of attempts.
LEMMA AttemptSet ==
  ASSUME NEW ops \in Seq(AttemptType), NEW n \in DOMAIN ops, NEW a \in AttemptType
  PROVE  [ops EXCEPT ![n] = a] \in Seq(AttemptType) /\ DOMAIN [ops EXCEPT ![n] = a] = DOMAIN ops
OBVIOUS

\* A new attempt.
LEMMA AttemptAdded ==
  ASSUME NEW ops \in Seq(AttemptType)
  PROVE  /\ Append(ops, Attempt) \in Seq(AttemptType)
         /\ DOMAIN ops \subseteq DOMAIN Append(ops, Attempt)
         /\ Len(ops) + 1 \in DOMAIN Append(ops, Attempt)
BY DEF Attempt, AttemptType

\* An intent's fields, one by one.
LEMMA RowType ==
  ASSUME TablesOK, NEW i \in DOMAIN intents
  PROVE  /\ intents[i] \in IntentType
         /\ intents[i].ops \in Seq(AttemptType)
         /\ intents[i].dest \in {0} \cup DOMAIN txs
         /\ intents[i].status \in Active \cup Final
         /\ intents[i].lease \in [holder : Requests \cup {"none", "gone"}, live : BOOLEAN]
         /\ intents[i].route \in Routes /\ intents[i].expired \in BOOLEAN
         /\ {intents[i].dest, intents[i].key, intents[i].sync, intents[i].verified, intents[i].pre} \subseteq Nat
<1>1. intents[i] \in IntentType
  BY DEF TablesOK
<1>2. intents[i].dest \in {0} \cup DOMAIN txs
  BY DEF TablesOK
<1> QED BY <1>1, <1>2 DEF IntentType

\* A request that ends leaves its lease to lapse; what it writes on the way out
\* moves no money.
LEMMA RequestEnds ==
  ASSUME FundingInv, NEW p \in Requests, NEW i \in DOMAIN intents, NEW r, GoodRow(i, r),
         Ends(p, [intents EXCEPT ![i] = r]),
         UNCHANGED <<chain, rows, late, total_pool, tabs, scanned>>
  PROVE  FundingInv'
<1> DEFINE db == [intents EXCEPT ![i] = r]
<1>1. TablesOK /\ CallersOK
  BY DEF FundingInv, TypeOK
<1>2. DbOK(db, DOMAIN txs) /\ Quiet(intents, db)
  BY <1>1, RowQuiet
<1>3. intents' = EndedTable(db, p) /\ requests' = [requests EXCEPT ![p] = IdleRequest]
  BY DEF Ends, EndedTable
<1>4. requests'[p] = IdleRequest /\ \A q \in Requests \ {p} : requests'[q] = requests[q]
  BY <1>1, <1>3 DEF CallersOK
<1> HIDE DEF db
<1>5. /\ DbOK(intents', DOMAIN txs)
      /\ Quiet(db, intents')
      /\ \A j \in DOMAIN db : intents'[j].lease.holder # p
  BY <1>2, <1>3, EndedRow
<1>6. Quiet(intents, intents')
  BY <1>2, <1>5 DEF Quiet
<1>7. \A j \in DOMAIN intents : intents'[j].lease.holder # p
  BY <1>2, <1>5 DEF Quiet
<1>8. TablesOK'
  BY <1>1, <1>5, TablesStay DEF chain
<1>9. Grows
  BY <1>6 DEF Grows, Quiet, chain
<1>10. IdleRequest \in RequestType /\ IdleRequest.at = "idle"
  BY DEF IdleRequest, RequestType
<1>11. CallersOK'
  BY <1>1, <1>3, <1>9, <1>10, RequestMoves
<1>12. Arrived \subseteq Arrived' /\ Len(txs') <= MaxTransfers
  BY DEF Arrived, chain, FundingInv, KeysAgree
<1> QED
  BY <1>4, <1>6, <1>7, <1>8, <1>10, <1>11, <1>12, QuietStep DEF TypeOK, chain

\* The same, of a request that writes nothing.
LEMMA RequestLeaves ==
  ASSUME FundingInv, NEW p \in Requests, Ends(p, intents), requests[p].at # "idle",
         UNCHANGED <<chain, rows, late, total_pool, tabs, scanned>>
  PROVE  FundingInv'
<1> DEFINE i == requests[p].intent
<1>1. i \in DOMAIN intents /\ TablesOK
  BY DEF FundingInv, TypeOK, CallersOK
<1> HIDE DEF i
<1>2. intents = [intents EXCEPT ![i] = intents[i]]
  BY <1>1 DEF TablesOK
<1>3. GoodRow(i, intents[i])
  BY <1>1, RowType DEF GoodRow
<1> QED
  BY <1>1, <1>2, <1>3, RequestEnds

-----------------------------------------------------------------------------
(***************************************************************************)
(* The tabs                                                                *)
(***************************************************************************)
\* The transaction tab b sends, when the wallet returns its hash and when not.
Sent(b, known) ==
  [intent |-> tabs[b].intent, attempt |-> tabs[b].armed,
   tab |-> IF known THEN b ELSE "none", outcome |-> "pending"]

\* It is a transaction, still pending.
LEMMA SentType ==
  ASSUME tabs \in [Tabs -> TabType], NEW b \in Tabs, NEW known \in BOOLEAN
  PROVE  Sent(b, known) \in TransactionType /\ Sent(b, known).outcome = "pending"
BY DEF Sent, TransactionType, TabType, Outcome

\* What is known of a tab at work.
LEMMA TabAt ==
  ASSUME FundingInv, NEW b \in Tabs
  PROVE  /\ tabs[b] \in TabType /\ IdleTab \in TabType /\ IdleTab.at = "idle"
         /\ tabs[b].at # "idle" => tabs[b].intent \in DOMAIN intents
         /\ tabs[b].at \notin {"idle", "claim", "replace"} =>
              tabs[b].attempt \in DOMAIN intents[tabs[b].intent].ops
         /\ tabs[b].at = "observe" => tabs[b].tx \in DOMAIN txs
         /\ tabs \in [Tabs -> TabType]
BY DEF FundingInv, TypeOK, CallersOK, IdleTab, TabType

\* Starting to continue an intent keeps the invariant.
LEMMA ContinueKeeps ==
  ASSUME FundingInv, NEW b \in Tabs, NEW i \in DOMAIN intents, ContinueFunding(b, i)
  PROVE  FundingInv'
<1>1. i \in Nat
  BY DEF FundingInv, TypeOK, TablesOK
<1>2. ASSUME NEW n \in OpenAttempts(i),
             tabs' = [tabs EXCEPT ![b] = [IdleTab EXCEPT !.at = "arm", !.intent = i, !.attempt = n]]
      PROVE  FundingInv'
  <2> DEFINE t == [IdleTab EXCEPT !.at = "arm", !.intent = i, !.attempt = n]
  <2>1. n \in DOMAIN intents[i].ops
    BY DEF OpenAttempts
  <2>2. n \in Nat
    BY <2>1, RowType DEF FundingInv, TypeOK
  <2>3. t \in TabType /\ t.intent = i /\ t.attempt = n /\ t.at = "arm"
    BY <1>1, <2>2 DEF IdleTab, TabType
  <2> HIDE DEF t
  <2>4. tabs' = [tabs EXCEPT ![b] = t]
    BY <1>2 DEF t
  <2> QED
    BY <2>1, <2>3, <2>4, TabReads DEF ContinueFunding
<1>3. ASSUME NEW at \in {"claim", "replace"},
             tabs' = [tabs EXCEPT ![b] = [IdleTab EXCEPT !.intent = i, !.at = at]]
      PROVE  FundingInv'
  <2> DEFINE t == [IdleTab EXCEPT !.intent = i, !.at = at]
  <2>3. t \in TabType /\ t.intent = i /\ t.at = at
    BY <1>1 DEF IdleTab, TabType
  <2> HIDE DEF t
  <2>4. tabs' = [tabs EXCEPT ![b] = t]
    BY <1>3 DEF t
  <2> QED
    BY <2>3, <2>4, TabReads DEF ContinueFunding
<1>4. ASSUME NEW n \in OpenAttempts(i), NEW u \in Unobserved(b, i),
             tabs' = [tabs EXCEPT ![b] = [IdleTab EXCEPT !.at = "observe", !.intent = i,
                                                        !.attempt = n, !.tx = u]]
      PROVE  FundingInv'
  <2> DEFINE t == [IdleTab EXCEPT !.at = "observe", !.intent = i, !.attempt = n, !.tx = u]
  <2>1. n \in DOMAIN intents[i].ops /\ u \in DOMAIN txs
    BY DEF OpenAttempts, Unobserved
  <2>2. n \in Nat /\ u \in Nat
    BY <2>1, RowType DEF FundingInv, TypeOK, TablesOK
  <2>3. t \in TabType /\ t.intent = i /\ t.attempt = n /\ t.at = "observe" /\ t.tx = u
    BY <1>1, <2>2 DEF IdleTab, TabType
  <2> HIDE DEF t
  <2>4. tabs' = [tabs EXCEPT ![b] = t]
    BY <1>4 DEF t
  <2> QED
    BY <2>1, <2>3, <2>4, TabReads DEF ContinueFunding
<1> QED
  BY <1>2, <1>3, <1>4 DEF ContinueFunding

\* Dropping the operation keeps the invariant when nothing else moves.
LEMMA DropsKeeps ==
  ASSUME FundingInv, NEW b \in Tabs, Drops(b), UNCHANGED <<chain, database, requests, scanned>>
  PROVE  FundingInv'
BY TabAt, TabReads DEF Drops

\* A tab that goes on to arm attempt n of its intent keeps the invariant.
LEMMA ArmsNext ==
  ASSUME FundingInv, NEW b \in Tabs, tabs[b].at # "idle",
         NEW n \in DOMAIN intents[tabs[b].intent].ops,
         tabs' = [tabs EXCEPT ![b].at = "arm", ![b].attempt = n],
         UNCHANGED <<chain, database, requests, scanned>>
  PROVE  FundingInv'
<1> DEFINE t == [tabs[b] EXCEPT !.at = "arm", !.attempt = n]
<1>1. n \in Nat
  BY TabAt, RowType DEF FundingInv, TypeOK
<1>2. t \in TabType /\ t.intent = tabs[b].intent /\ t.attempt = n /\ t.at = "arm"
  BY <1>1, TabAt DEF TabType
<1>3. tabs' = [tabs EXCEPT ![b] = t]
  BY TabAt DEF TabType
<1> HIDE DEF t
<1> QED
  BY <1>2, <1>3, TabAt, TabReads

\* Claiming an attempt keeps the invariant.
LEMMA ClaimKeeps ==
  ASSUME FundingInv, NEW b \in Tabs, ClaimAttempt(b)
  PROVE  FundingInv'
<1> DEFINE i == tabs[b].intent
<1>1. tabs[b].at = "claim" /\ i \in DOMAIN intents /\ TablesOK
  BY TabAt DEF ClaimAttempt, FundingInv, TypeOK
<1>2. ASSUME intents[i].status \notin Final, intents[i].ops = <<>>,
             intents' = [intents EXCEPT ![i].ops = <<Attempt>>, ![i].status = "awaiting_signature"],
             tabs' = [tabs EXCEPT ![b].at = "arm", ![b].attempt = 1]
      PROVE  FundingInv'
  <2> DEFINE t == [tabs[b] EXCEPT !.at = "arm", !.attempt = 1]
             r == [intents[i] EXCEPT !.ops = <<Attempt>>, !.status = "awaiting_signature"]
  <2>1. t \in TabType /\ t.intent = i /\ t.attempt = 1 /\ t.at = "arm"
    BY TabAt DEF TabType
  <2>2. tabs' = [tabs EXCEPT ![b] = t]
    BY <1>2, TabAt DEF TabType
  <2>3. <<Attempt>> \in Seq(AttemptType) /\ DOMAIN <<Attempt>> = {1}
    BY DEF Attempt, AttemptType
  <2>4. intents[i] \in IntentType /\ intents[i].status \in Active
    BY <1>1, <1>2, RowType
  <2>5. r \in IntentType /\ r.ops = <<Attempt>>
    BY <2>3, <2>4 DEF IntentType, Active, Signing
  <2>6. GoodRow(i, r)
    BY <1>1, <1>2, <2>3, <2>4, <2>5, RowType DEF GoodRow, IntentType
  <2>7. intents' = [intents EXCEPT ![i] = r]
    BY <1>1, <1>2 DEF TablesOK, IntentType
  <2> HIDE DEF t, r
  <2> QED
    BY <1>1, <2>1, <2>2, <2>3, <2>5, <2>6, <2>7, TabWrites DEF ClaimAttempt
<1>3. ASSUME NEW n \in OpenAttempts(i), tabs' = [tabs EXCEPT ![b].at = "arm", ![b].attempt = n],
             UNCHANGED intents
      PROVE  FundingInv'
  BY <1>1, <1>3, ArmsNext DEF ClaimAttempt, OpenAttempts, database
<1>4. ASSUME Drops(b), UNCHANGED intents PROVE FundingInv'
  BY <1>4, DropsKeeps DEF ClaimAttempt, database
<1> QED
  BY <1>2, <1>3, <1>4 DEF ClaimAttempt

\* Creating a replacement keeps the invariant.
LEMMA ReplacementKeeps ==
  ASSUME FundingInv, NEW b \in Tabs, CreateReplacement(b)
  PROVE  FundingInv'
<1> DEFINE i == tabs[b].intent
           n == Len(intents[i].ops)
<1>1. tabs[b].at = "replace" /\ i \in DOMAIN intents /\ TablesOK
  BY TabAt DEF CreateReplacement, FundingInv, TypeOK
<1>2. ASSUME CanReplace(i),
             intents' = [intents EXCEPT ![i].ops = Append(@, Attempt), ![i].dest = 0,
                                      ![i].status = "ready_to_sign", ![i].lease = NoLease],
             tabs' = [tabs EXCEPT ![b].at = "arm", ![b].attempt = n + 1]
      PROVE  FundingInv'
  <2> DEFINE o == Append(intents[i].ops, Attempt)
             m == n + 1
             t == [tabs[b] EXCEPT !.at = "arm", !.attempt = m]
             r == [intents[i] EXCEPT !.ops = o, !.dest = 0, !.status = "ready_to_sign",
                                     !.lease = NoLease]
  <2>1. m \in Nat /\ tabs' = [tabs EXCEPT ![b].at = "arm", ![b].attempt = m]
    BY <1>1, <1>2, RowType
  <2> HIDE DEF m
  <2>2. t \in TabType /\ t.intent = i /\ t.attempt = m /\ t.at = "arm"
    BY <2>1, TabAt DEF TabType
  <2>3. tabs' = [tabs EXCEPT ![b] = t]
    BY <2>1, TabAt DEF TabType
  <2> USE DEF m
  <2>4. o \in Seq(AttemptType) /\ DOMAIN intents[i].ops \subseteq DOMAIN o /\ m \in DOMAIN o
    BY <1>1, RowType, AttemptAdded
  <2>5. intents[i] \in IntentType /\ intents[i].status \in Active
    BY <1>1, <1>2, RowType DEF CanReplace
  <2>6. intents' = [intents EXCEPT ![i] = r]
    BY <1>1, <1>2 DEF TablesOK, IntentType
  <2> HIDE DEF o
  <2>7. r \in IntentType /\ r.ops = o /\ r.dest = 0 /\ r.lease.holder = "none"
        /\ r.key = intents[i].key /\ r.sync = intents[i].sync /\ r.verified = intents[i].verified
    BY <2>4, <2>5 DEF IntentType, Active, Signing, NoLease
  <2> HIDE DEF t, r
  <2>8. GoodRow(i, r)
    BY <2>4, <2>5, <2>7 DEF GoodRow
  <2> QED
    BY <1>1, <2>2, <2>3, <2>4, <2>6, <2>7, <2>8, TabWrites DEF CreateReplacement
<1>3. ASSUME NEW m \in OpenAttempts(i), tabs' = [tabs EXCEPT ![b].at = "arm", ![b].attempt = m],
             UNCHANGED intents
      PROVE  FundingInv'
  BY <1>1, <1>3, ArmsNext DEF CreateReplacement, OpenAttempts, database
<1>4. ASSUME Drops(b), UNCHANGED intents PROVE FundingInv'
  BY <1>4, DropsKeeps DEF CreateReplacement, database
<1> QED
  BY <1>2, <1>3, <1>4 DEF CreateReplacement

\* An attempt of an intent moves, with the intent's status and destination.
LEMMA MovedRow ==
  ASSUME TablesOK, NEW i \in DOMAIN intents, NEW n \in DOMAIN intents[i].ops,
         NEW a \in AttemptType, NEW s \in Active, NEW d \in {0} \cup DOMAIN txs,
         intents[i].status \in Active \/ Unrivalled(i)
  PROVE  \E r : GoodRow(i, r) /\ Moved(i, n, a, s, d) = [intents EXCEPT ![i] = r]
<1> DEFINE o == [intents[i].ops EXCEPT ![n] = a]
           r == [intents[i] EXCEPT !.ops = o, !.status = s, !.dest = d]
<1>1. o \in Seq(AttemptType) /\ DOMAIN o = DOMAIN intents[i].ops
  BY RowType, AttemptSet
<1>2. intents[i] \in IntentType /\ d \in Nat
  BY RowType DEF TablesOK
<1>3. Moved(i, n, a, s, d) = [intents EXCEPT ![i] = r]
  BY DEF Moved
<1> HIDE DEF o
<1>4. /\ r \in IntentType /\ r.ops = o /\ r.dest = d /\ r.status = s /\ r.lease = intents[i].lease
      /\ r.key = intents[i].key /\ r.sync = intents[i].sync /\ r.verified = intents[i].verified
  BY <1>1, <1>2 DEF IntentType
<1> HIDE DEF r
<1>5. GoodRow(i, r)
  BY <1>1, <1>4 DEF GoodRow
<1> QED
  BY <1>3, <1>5

\* Arming an attempt keeps the invariant.
LEMMA ArmKeeps ==
  ASSUME FundingInv, NEW b \in Tabs, ArmAttempt(b)
  PROVE  FundingInv'
<1> DEFINE i == tabs[b].intent
           token == <<b, tabs[b].attempt>>
<1>1. tabs[b].at = "arm" /\ i \in DOMAIN intents /\ TablesOK
  BY TabAt DEF ArmAttempt, FundingInv, TypeOK
<1>2. token \in {NoToken} \cup (Tabs \X Nat)
  BY TabAt DEF TabType
<1>3. ASSUME NEW n \in OpenAttempts(i)
      PROVE  LET t == [tabs[b] EXCEPT !.at = "wallet", !.armed = n] IN
               /\ n \in DOMAIN intents[i].ops
               /\ t \in TabType /\ t.at = "wallet" /\ t.intent = i /\ t.attempt = tabs[b].attempt
               /\ [tabs EXCEPT ![b].at = "wallet", ![b].armed = n] = [tabs EXCEPT ![b] = t]
  <2>1. n \in DOMAIN intents[i].ops
    BY DEF OpenAttempts
  <2>2. n \in Nat
    BY <1>1, <2>1, RowType
  <2> QED
    BY <2>1, <2>2, TabAt DEF TabType
<1>4. ASSUME NEW n \in OpenAttempts(i), Unrivalled(i),
             intents' = Moved(i, n, [intents[i].ops[n] EXCEPT !.token = token,
                                      !.status = "submission_uncertain"],
                             "source_submitted", intents[i].dest),
             tabs' = [tabs EXCEPT ![b].at = "wallet", ![b].armed = n] \/ Drops(b)
      PROVE  FundingInv'
  <2> DEFINE a == [intents[i].ops[n] EXCEPT !.token = token, !.status = "submission_uncertain"]
             t == [tabs[b] EXCEPT !.at = "wallet", !.armed = n]
  <2>1. n \in DOMAIN intents[i].ops
    BY <1>3
  <2>2. intents[i].ops[n] \in AttemptType
    BY <1>1, <2>1, RowType
  <2>3. a \in AttemptType
    BY <1>2, <2>2 DEF AttemptType
  <2> HIDE DEF a
  <2>4. PICK r : GoodRow(i, r) /\ intents' = [intents EXCEPT ![i] = r]
    <3>1. intents' = Moved(i, n, a, "source_submitted", intents[i].dest)
      BY <1>4 DEF a
    <3>2. "source_submitted" \in Active /\ intents[i].dest \in {0} \cup DOMAIN txs
      BY <1>1, RowType DEF Active
    <3> QED BY <1>1, <1>4, <2>1, <2>3, <3>1, <3>2, MovedRow
  <2>6. DOMAIN intents[i].ops \subseteq DOMAIN r.ops
    BY <2>4 DEF GoodRow
  <2>7. tabs[b].attempt \in DOMAIN r.ops
    BY <1>1, <2>6, TabAt
  <2>8. CASE tabs' = [tabs EXCEPT ![b].at = "wallet", ![b].armed = n]
    <3>1. t \in TabType /\ t.at = "wallet" /\ t.intent = i /\ t.attempt = tabs[b].attempt
          /\ tabs' = [tabs EXCEPT ![b] = t]
      BY <1>3, <2>8
    <3> HIDE DEF t
    <3> QED
      BY <1>1, <2>4, <2>7, <3>1, TabWrites DEF ArmAttempt
  <2>9. CASE Drops(b)
    <3>1. tabs' = [tabs EXCEPT ![b] = IdleTab]
      BY <2>9 DEF Drops
    <3> QED
      BY <1>1, <2>4, <3>1, TabAt, TabWrites DEF ArmAttempt
  <2> QED
    BY <1>4, <2>8, <2>9
<1>5. ASSUME NEW n \in OpenAttempts(i), tabs' = [tabs EXCEPT ![b].at = "wallet", ![b].armed = n],
             UNCHANGED intents
      PROVE  FundingInv'
  <2> DEFINE t == [tabs[b] EXCEPT !.at = "wallet", !.armed = n]
  <2>1. t \in TabType /\ t.at = "wallet" /\ t.intent = i /\ t.attempt = tabs[b].attempt
        /\ tabs' = [tabs EXCEPT ![b] = t]
    BY <1>3, <1>5
  <2>2. UNCHANGED <<chain, database, requests, scanned>>
    BY <1>5 DEF ArmAttempt, database
  <2>3. tabs[b].attempt \in DOMAIN intents[i].ops
    BY <1>1, TabAt
  <2> HIDE DEF t
  <2> QED
    BY <1>1, <2>1, <2>2, <2>3, TabReads
<1>6. ASSUME Drops(b), UNCHANGED intents PROVE FundingInv'
  BY <1>6, DropsKeeps DEF ArmAttempt, database
<1> QED
  BY <1>4, <1>5, <1>6, Zenon DEF ArmAttempt

\* Prompting the wallet keeps the invariant.
LEMMA PromptKeeps ==
  ASSUME FundingInv, NEW b \in Tabs, PromptWallet(b)
  PROVE  FundingInv'
<1> DEFINE i == tabs[b].intent
           Tx == TransactionType
<1> HIDE DEF Tx
<1>1. tabs[b].at = "wallet" /\ i \in DOMAIN intents /\ TablesOK /\ CallersOK
      /\ tabs[b].attempt \in DOMAIN intents[i].ops
  BY TabAt DEF PromptWallet, FundingInv, TypeOK
<1>2. UNCHANGED <<totalFunded, circle, database, requests, scanned>>
  BY DEF PromptWallet, database
<1>3. ASSUME NEW known \in BOOLEAN, Sends(b, known), NEW t \in TabType,
             tabs' = [tabs EXCEPT ![b] = t], t.at \in {"observe", "unsure"}, t.intent = i,
             t.attempt = tabs[b].attempt, t.at = "observe" => t.tx = Len(txs) + 1
      PROVE  FundingInv'
  <2> DEFINE x == Sent(b, known)
  <2>1. x \in Tx /\ x.outcome = "pending"
    BY <1>3, TabAt, SentType DEF Tx
  <2>2. txs \in Seq(Tx) /\ Len(txs) < MaxTransfers /\ txs' = Append(txs, x)
    BY <1>1, <1>3 DEF Sends, Sent, TablesOK, Tx
  <2> HIDE DEF x
  <2>3. txs' \in Seq(Tx) /\ Len(txs') = Len(txs) + 1 /\ DOMAIN txs' = DOMAIN txs \cup {Len(txs) + 1}
        /\ \A u \in DOMAIN txs : txs'[u] = txs[u]
    BY <2>1, <2>2
  <2>4. Len(txs') <= MaxTransfers
    BY <2>2, <2>3, FundingConstants
  <2>5. Arrived \subseteq Arrived'
    BY <2>3 DEF Arrived
  <2>6. DbOK(intents', DOMAIN txs') /\ Quiet(intents, intents')
    BY <1>1, <1>2, <2>3, TablesByDb DEF DbOK, Quiet, database
  <2>7. TablesOK'
    BY <1>1, <1>2, <2>3, <2>6, TablesNext DEF TablesOK, database, Tx
  <2>8. Grows
    BY <2>3, <2>6 DEF Grows, Quiet
  <2>9. CallersOK'
    BY <1>1, <1>2, <1>3, <2>3, <2>8, TabMoves DEF database
  <2> QED
    BY <1>2, <2>4, <2>5, <2>6, <2>7, <2>9, QuietStep DEF TypeOK, database
<1>4. CASE Sends(b, TRUE) /\ tabs' = [tabs EXCEPT ![b].at = "observe", ![b].tx = Len(txs) + 1]
  <2> DEFINE u == Len(txs) + 1
             t == [tabs[b] EXCEPT !.at = "observe", !.tx = u]
  <2>1. u \in Nat /\ tabs' = [tabs EXCEPT ![b].at = "observe", ![b].tx = u]
    BY <1>1, <1>4 DEF TablesOK
  <2> HIDE DEF u
  <2>2. t \in TabType /\ t.at = "observe" /\ t.intent = i /\ t.attempt = tabs[b].attempt /\ t.tx = u
        /\ tabs' = [tabs EXCEPT ![b] = t]
    BY <2>1, TabAt DEF TabType
  <2> HIDE DEF t
  <2> QED
    BY <1>3, <1>4, <2>2 DEF u
<1>5. ASSUME NEW at \in {"unsure", "rejected"}, Goes(b, at)
      PROVE  LET t == [tabs[b] EXCEPT !.at = at] IN
               /\ t \in TabType /\ t.at = at /\ t.intent = i /\ t.attempt = tabs[b].attempt
               /\ tabs' = [tabs EXCEPT ![b] = t]
  BY <1>5, TabAt DEF TabType, Goes
<1>6. CASE Sends(b, FALSE) /\ Goes(b, "unsure")
  BY <1>3, <1>5, <1>6
<1>7. ASSUME NEW at \in {"unsure", "rejected"}, Goes(b, at), UNCHANGED txs PROVE FundingInv'
  <2> DEFINE t == [tabs[b] EXCEPT !.at = at]
  <2>1. t \in TabType /\ t.at = at /\ t.intent = i /\ t.attempt = tabs[b].attempt
        /\ tabs' = [tabs EXCEPT ![b] = t]
    BY <1>5, <1>7
  <2> HIDE DEF t
  <2>2. UNCHANGED <<chain, database, requests, scanned>>
    BY <1>2, <1>7 DEF chain
  <2> QED
    BY <1>1, <2>1, <2>2, TabReads
<1> QED
  BY <1>4, <1>6, <1>7 DEF PromptWallet

\* A tab that found its write refused goes on unsure.
LEMMA UnsureNext ==
  ASSUME FundingInv, NEW b \in Tabs, tabs[b].at \in {"observe", "rejected"}, Goes(b, "unsure"),
         UNCHANGED <<chain, database, requests, scanned>>
  PROVE  FundingInv'
<1> DEFINE t == [tabs[b] EXCEPT !.at = "unsure"]
<1>1. t \in TabType /\ t.at = "unsure" /\ t.intent = tabs[b].intent /\ t.attempt = tabs[b].attempt
      /\ tabs' = [tabs EXCEPT ![b] = t]
  BY TabAt DEF TabType, Goes
<1> HIDE DEF t
<1> QED
  BY <1>1, TabAt, TabReads

\* Recording the observed destination keeps the invariant.
LEMMA ObserveKeeps ==
  ASSUME FundingInv, NEW b \in Tabs, ObserveDestination(b)
  PROVE  FundingInv'
<1> DEFINE i == tabs[b].intent
           n == tabs[b].attempt
           t == tabs[b].tx
           a == [intents[i].ops[n] EXCEPT !.tx = t, !.status = "pending"]
<1>1. tabs[b].at = "observe" /\ i \in DOMAIN intents /\ TablesOK /\ n \in DOMAIN intents[i].ops
      /\ t \in DOMAIN txs
  BY TabAt DEF ObserveDestination, FundingInv, TypeOK
<1>2. UNCHANGED <<chain, rows, late, total_pool, requests, scanned>>
  BY DEF ObserveDestination
<1>3. intents[i].ops[n] \in AttemptType /\ t \in Nat
  BY <1>1, RowType, TabAt DEF TabType
<1>4. a \in AttemptType
  BY <1>3 DEF AttemptType
<1>5. CASE CanObserve(b, i, n, t) /\ intents' = Moved(i, n, a, "delivery_pending", t) /\ Drops(b)
  <2>1. Unrivalled(i) /\ "delivery_pending" \in Active
    BY <1>5 DEF CanObserve, Active
  <2>2. tabs' = [tabs EXCEPT ![b] = IdleTab]
    BY <1>5 DEF Drops
  <2> HIDE DEF a
  <2>3. PICK r : GoodRow(i, r) /\ intents' = [intents EXCEPT ![i] = r]
    BY <1>1, <1>4, <1>5, <2>1, MovedRow
  <2> QED
    BY <1>1, <1>2, <2>2, <2>3, TabAt, TabWrites
<1>6. CASE (Goes(b, "unsure") \/ Drops(b)) /\ UNCHANGED intents
  <2>1. UNCHANGED <<chain, database, requests, scanned>>
    BY <1>2, <1>6 DEF database
  <2> QED
    BY <1>1, <1>6, <2>1, UnsureNext, DropsKeeps
<1> QED
  BY <1>5, <1>6 DEF ObserveDestination

\* Reporting an uncertain submission keeps the invariant.
LEMMA ReportKeeps ==
  ASSUME FundingInv, NEW b \in Tabs, ReportUncertain(b)
  PROVE  FundingInv'
<1> DEFINE i == tabs[b].intent
           n == tabs[b].attempt
           s == IF Owns(b, i, n) /\ Unrivalled(i) /\ intents[i].ops[n].status = "submission_uncertain"
                THEN "source_submitted" ELSE intents[i].status
           r == [intents[i] EXCEPT !.status = s]
<1>1. tabs[b].at = "unsure" /\ i \in DOMAIN intents /\ TablesOK
  BY TabAt DEF ReportUncertain, FundingInv, TypeOK
<1>2. s \in Active \cup Final /\ (s \in Active => intents[i].status \in Active \/ Unrivalled(i))
  BY <1>1, RowType DEF Active
<1>3. intents' = [intents EXCEPT ![i] = r]
  BY <1>1 DEF ReportUncertain, TablesOK, IntentType
<1>4. UNCHANGED <<chain, rows, late, total_pool, requests, scanned>>
      /\ tabs' = [tabs EXCEPT ![b] = IdleTab]
  BY DEF ReportUncertain, Drops
<1> HIDE DEF s
<1>5. intents[i] \in IntentType
  BY <1>1, RowType
<1>6. /\ r \in IntentType /\ r.ops = intents[i].ops /\ r.dest = intents[i].dest /\ r.status = s
      /\ r.lease = intents[i].lease
      /\ r.key = intents[i].key /\ r.sync = intents[i].sync /\ r.verified = intents[i].verified
  BY <1>2, <1>5 DEF IntentType
<1> HIDE DEF r
<1>7. GoodRow(i, r)
  BY <1>1, <1>2, <1>6, RowType DEF GoodRow
<1> QED
  BY <1>1, <1>3, <1>4, <1>7, TabAt, TabWrites

\* Releasing a rejected attempt keeps the invariant.
LEMMA ReleaseKeeps ==
  ASSUME FundingInv, NEW b \in Tabs, ReleaseRejected(b)
  PROVE  FundingInv'
<1> DEFINE i == tabs[b].intent
           n == tabs[b].attempt
           a == [intents[i].ops[n] EXCEPT !.status = "awaiting_signature", !.token = NoToken]
<1>1. tabs[b].at = "rejected" /\ i \in DOMAIN intents /\ TablesOK /\ n \in DOMAIN intents[i].ops
  BY TabAt DEF ReleaseRejected, FundingInv, TypeOK
<1>2. UNCHANGED <<chain, rows, late, total_pool, requests, scanned>>
  BY DEF ReleaseRejected
<1>3. intents[i].ops[n] \in AttemptType
  BY <1>1, RowType
<1>4. a \in AttemptType
  BY <1>3 DEF AttemptType
<1>5. CASE CanRelease(b, i, n) /\ intents' = Moved(i, n, a, "awaiting_signature", 0) /\ Drops(b)
  <2>1. Unrivalled(i) /\ "awaiting_signature" \in Active
    BY <1>5 DEF CanRelease, Active, Signing
  <2>2. tabs' = [tabs EXCEPT ![b] = IdleTab]
    BY <1>5 DEF Drops
  <2> HIDE DEF a
  <2>3. PICK r : GoodRow(i, r) /\ intents' = [intents EXCEPT ![i] = r]
    BY <1>1, <1>4, <1>5, <2>1, MovedRow
  <2> QED
    BY <1>1, <1>2, <2>2, <2>3, TabAt, TabWrites
<1>6. CASE Goes(b, "unsure") /\ UNCHANGED intents
  <2>1. UNCHANGED <<chain, database, requests, scanned>>
    BY <1>2, <1>6 DEF database
  <2> QED
    BY <1>1, <1>6, <2>1, UnsureNext
<1> QED
  BY <1>5, <1>6 DEF ReleaseRejected

\* Every step of a tab keeps the invariant.
LEMMA TabKeeps ==
  ASSUME FundingInv, NEW b \in Tabs, TabStep(b)
  PROVE  FundingInv'
BY ContinueKeeps, ClaimKeeps, ReplacementKeeps, ArmKeeps, PromptKeeps, ObserveKeeps, ReportKeeps,
   ReleaseKeeps DEF TabStep

-----------------------------------------------------------------------------
(***************************************************************************)
(* The chain, Circle and the intents                                       *)
(***************************************************************************)
\* Mining a transfer keeps the invariant.
LEMMA MineKeeps ==
  ASSUME FundingInv, NEW t \in DOMAIN txs, Mine(t)
  PROVE  FundingInv'
<1> DEFINE Tx == TransactionType
<1>1. TablesOK /\ CallersOK /\ txs \in Seq(Tx) /\ txs[t].outcome = "pending"
  BY DEF FundingInv, TypeOK, TablesOK, Mine
<1>2. UNCHANGED <<totalFunded, circle, database, tabs, requests, scanned>>
  BY DEF Mine, database
<1>3. PICK o \in {"success", "reverted"} : txs' = [txs EXCEPT ![t] = [txs[t] EXCEPT !.outcome = o]]
  BY <1>1 DEF Mine
<1>4. [txs[t] EXCEPT !.outcome = o] \in Tx
  <2> HIDE DEF Tx
  <2>1. txs[t] \in Tx
    BY <1>1
  <2> USE DEF Tx
  <2>2. o \in Outcome
    BY <1>3 DEF Outcome
  <2> QED BY <2>1, <2>2 DEF TransactionType
<1>5. txs' \in Seq(Tx) /\ Len(txs') = Len(txs) /\ DOMAIN txs' = DOMAIN txs
      /\ \A u \in DOMAIN txs \ {t} : txs'[u] = txs[u]
  BY <1>1, <1>3, <1>4
<1>6. Arrived \subseteq Arrived' /\ Len(txs') <= MaxTransfers
  BY <1>1, <1>5 DEF Arrived, FundingInv, KeysAgree
<1>7. DbOK(intents', DOMAIN txs') /\ Quiet(intents, intents')
  BY <1>1, <1>2, <1>5, TablesByDb DEF Quiet, database
<1>8. TablesOK'
  BY <1>1, <1>2, <1>5, <1>7, TablesNext DEF TablesOK, database
<1>9. Grows
  BY <1>5, <1>7 DEF Grows, Quiet
<1>10. CallersOK'
  BY <1>1, <1>2, <1>9, CallersStay
<1> QED
  BY <1>2, <1>6, <1>7, <1>8, <1>10, QuietStep DEF TypeOK, database

\* There are finitely many transfers.
LEMMA TransfersFinite ==
  ASSUME TablesOK
  PROVE  IsFiniteSet(DOMAIN txs) /\ IsFiniteSet(Arrived) /\ Arrived \subseteq DOMAIN txs
<1>1. DOMAIN txs = 1..Len(txs) /\ Len(txs) \in Nat
  BY DEF TablesOK
<1>2. IsFiniteSet(DOMAIN txs)
  BY <1>1, FS_Interval
<1>3. Arrived \subseteq DOMAIN txs
  BY DEF Arrived
<1> QED
  BY <1>2, <1>3, FS_Subset

\* Running a sync keeps the invariant.
LEMMA RunSyncKeeps ==
  ASSUME FundingInv, NEW k \in Keys, RunSync(k)
  PROVE  FundingInv'
<1>1. TablesOK /\ CallersOK
  BY DEF FundingInv, TypeOK
<1>2. UNCHANGED <<txs, database, tabs, requests, scanned>> /\ circle[k] = "pending"
  BY DEF RunSync, database
<1>3. PICK o \in {"success", "failed"} :
        circle' = [circle EXCEPT ![k] = o] /\ (o = "failed" => k[2] < MaxSyncs)
  BY DEF RunSync
<1>4. circle' \in [Keys -> {"none", "pending", "success", "failed"}]
  BY <1>1, <1>3 DEF TablesOK
<1>5. circle'[k] = o /\ \A j \in Keys \ {k} : circle'[j] = circle[j]
  BY <1>1, <1>3 DEF TablesOK
<1>6. totalFunded' \in Nat
  BY <1>1, TransfersFinite, FS_CardinalityType DEF TablesOK, RunSync
<1>7. DbOK(intents', DOMAIN txs')
  BY <1>1, <1>2, TablesByDb DEF database
<1>8. TablesOK'
  BY <1>1, <1>2, <1>4, <1>6, <1>7, TablesNext DEF TablesOK, database
<1>9. Grows
  BY <1>2 DEF Grows, database
<1>10. CallersOK'
  BY <1>1, <1>2, <1>9, CallersStay
<1>11. KeysAgree'
  BY <1>2, <1>3, <1>5 DEF FundingInv, KeysAgree, database
<1>12. LeasesAgree'
  BY <1>2 DEF FundingInv, LeasesAgree, database
<1>13. Credited' = Credited /\ Arrived' = Arrived
  BY <1>2 DEF Credited, Arrived, database
<1>14. ASSUME NEW p \in Requests, requests'[p].at = "credit"
       PROVE  circle'[<<requests'[p].intent, requests'[p].key>>] = "success"
  <2> DEFINE j == <<requests[p].intent, requests[p].key>>
  <2>1. circle[j] = "success"
    BY <1>2, <1>14 DEF FundingInv, CreditsAgree
  <2>2. requests[p].intent \in DOMAIN intents /\ requests[p].key \in 1..MaxSyncs
    BY <1>1, <1>2, <1>14 DEF FundingInv, KeysAgree, Keyed, CallersOK
  <2>3. j \in Keys
    BY <1>1, <2>2, FundingConstants DEF Keys, FundingInv, KeysAgree, TablesOK
  <2> QED
    BY <1>2, <1>5, <2>1, <2>3
<1>15. ASSUME NEW r \in rows' PROVE circle'[r.key] = "success"
  <2>1. circle[r.key] = "success" /\ r.key \in Keys
    BY <1>1, <1>2 DEF FundingInv, CreditsAgree, TablesOK, database
  <2> QED BY <1>2, <1>5, <2>1
<1>16. CreditsAgree'
  BY <1>2, <1>13, <1>14, <1>15 DEF FundingInv, CreditsAgree, database
<1> QED
  BY <1>8, <1>10, <1>11, <1>12, <1>16 DEF FundingInv, TypeOK

\* Expiring an intent, or a lease that lapses, keeps the invariant.
LEMMA LapseKeeps ==
  ASSUME FundingInv, NEW i \in DOMAIN intents, Expire(i) \/ LeaseLapses(i)
  PROVE  FundingInv'
<1>1. TablesOK
  BY DEF FundingInv, TypeOK
<1>2. UNCHANGED <<chain, rows, late, total_pool, tabs, requests, scanned>>
  BY DEF Expire, LeaseLapses
<1>3. intents[i] \in IntentType
  BY <1>1, RowType
<1>4. CASE Expire(i)
  <2> DEFINE r == [intents[i] EXCEPT !.expired = TRUE]
  <2>1. intents' = [intents EXCEPT ![i] = r]
    BY <1>1, <1>4 DEF Expire, TablesOK, IntentType
  <2>2. /\ r \in IntentType /\ r.ops = intents[i].ops /\ r.dest = intents[i].dest
        /\ r.status = intents[i].status /\ r.lease = intents[i].lease
        /\ r.key = intents[i].key /\ r.sync = intents[i].sync /\ r.verified = intents[i].verified
    BY <1>3 DEF IntentType
  <2> HIDE DEF r
  <2>3. GoodRow(i, r)
    BY <1>1, <2>2, RowType DEF GoodRow
  <2> QED
    BY <1>2, <2>1, <2>3, RowWrites
<1>5. CASE LeaseLapses(i)
  <2> DEFINE l == [intents[i].lease EXCEPT !.live = FALSE]
             r == [intents[i] EXCEPT !.lease = l]
  <2>1. l \in [holder : Requests \cup {"none", "gone"}, live : BOOLEAN]
        /\ l.holder = intents[i].lease.holder
    BY <1>1, RowType
  <2>2. intents' = [intents EXCEPT ![i] = r]
    BY <1>1, <1>5 DEF LeaseLapses, TablesOK, IntentType
  <2> HIDE DEF l
  <2>3. /\ r \in IntentType /\ r.ops = intents[i].ops /\ r.dest = intents[i].dest
        /\ r.status = intents[i].status /\ r.lease = l
        /\ r.key = intents[i].key /\ r.sync = intents[i].sync /\ r.verified = intents[i].verified
    BY <1>3, <2>1 DEF IntentType
  <2> HIDE DEF r
  <2>4. GoodRow(i, r)
    BY <1>1, <2>1, <2>3, RowType DEF GoodRow
  <2> QED
    BY <1>2, <2>2, <2>4, RowWrites
<1> QED
  BY <1>4, <1>5

\* Cancelling an intent keeps the invariant.
LEMMA CancelKeeps ==
  ASSUME FundingInv, NEW i \in DOMAIN intents, CancelFundingIntent(i)
  PROVE  FundingInv'
<1> DEFINE o == [n \in DOMAIN intents[i].ops |-> [intents[i].ops[n] EXCEPT !.status = "failed"]]
           r == [intents[i] EXCEPT !.status = "cancelled", !.lease = NoLease, !.ops = o]
<1>1. TablesOK
  BY DEF FundingInv, TypeOK
<1>2. UNCHANGED <<chain, rows, late, total_pool, tabs, requests, scanned>>
  BY DEF CancelFundingIntent
<1>3. intents[i] \in IntentType /\ intents[i].ops \in Seq(AttemptType)
  BY <1>1, RowType
<1>4. intents' = [intents EXCEPT ![i] = r]
  BY <1>1 DEF CancelFundingIntent, TablesOK, IntentType
<1>5. o \in Seq(AttemptType) /\ DOMAIN o = DOMAIN intents[i].ops
  <2>1. DOMAIN intents[i].ops = 1..Len(intents[i].ops) /\ Len(intents[i].ops) \in Nat
    BY <1>3
  <2>2. ASSUME NEW n \in DOMAIN intents[i].ops
        PROVE  [intents[i].ops[n] EXCEPT !.status = "failed"] \in AttemptType
    <3>1. intents[i].ops[n] \in AttemptType
      BY <1>3
    <3> QED BY <3>1 DEF AttemptType
  <2>3. o \in [1..Len(intents[i].ops) -> AttemptType]
    BY <2>1, <2>2
  <2> QED BY <2>1, <2>3
<1> HIDE DEF o
<1>6. /\ r \in IntentType /\ r.ops = o /\ r.dest = intents[i].dest
      /\ r.status = "cancelled" /\ r.lease.holder = "none"
      /\ r.key = intents[i].key /\ r.sync = intents[i].sync /\ r.verified = intents[i].verified
  BY <1>3, <1>5 DEF IntentType, Final, NoLease
<1> HIDE DEF r
<1>7. GoodRow(i, r)
  BY <1>1, <1>5, <1>6, RowType DEF GoodRow, Active, Signing
<1> QED
  BY <1>2, <1>4, <1>7, RowWrites

\* Attaching the destination hash keeps the invariant.
LEMMA AttachKeeps ==
  ASSUME FundingInv, NEW i \in DOMAIN intents, NEW n \in DOMAIN intents[i].ops,
         NEW t \in DOMAIN txs, AttachDestinationHash(i, n, t)
  PROVE  FundingInv'
<1> DEFINE a == [intents[i].ops[n] EXCEPT !.tx = t, !.status = "submitted"]
<1>1. TablesOK
  BY DEF FundingInv, TypeOK
<1>2. UNCHANGED <<chain, rows, late, total_pool, tabs, requests, scanned>> /\ Unrivalled(i)
      /\ "destination_submitted" \in Active
  BY DEF AttachDestinationHash, Active
<1>3. intents[i].ops[n] \in AttemptType /\ t \in Nat
  BY <1>1, RowType DEF TablesOK
<1>4. a \in AttemptType
  BY <1>3 DEF AttemptType
<1>5. intents' = Moved(i, n, a, "destination_submitted", t)
  BY DEF AttachDestinationHash
<1> HIDE DEF a
<1>6. PICK r : GoodRow(i, r) /\ intents' = [intents EXCEPT ![i] = r]
  BY <1>1, <1>2, <1>4, <1>5, MovedRow
<1> QED
  BY <1>2, <1>6, RowWrites

\* What becomes of an intent whose destination reverted.
LEMMA FailedRow ==
  ASSUME TablesOK, NEW i \in DOMAIN intents, NEW n \in DOMAIN intents[i].ops,
         intents[i].status \in Active \/ Unrivalled(i)
  PROVE  \E r : GoodRow(i, r) /\ DestinationFailed(i, n) = [intents EXCEPT ![i] = r]
<1> DEFINE a == [intents[i].ops[n] EXCEPT !.status = "failed", !.reverted = TRUE]
           o == [intents[i].ops EXCEPT ![n] = a]
           d == IF intents[i].dest = intents[i].ops[n].tx THEN 0 ELSE intents[i].dest
           s == IF intents[i].route = "send" THEN "ready_to_sign" ELSE "source_submitted"
           r == [intents[i] EXCEPT !.ops = o, !.dest = d, !.status = s, !.lease = NoLease]
<1>1. intents[i] \in IntentType /\ intents[i].ops \in Seq(AttemptType)
      /\ intents[i].dest \in {0} \cup DOMAIN txs
  BY RowType
<1>2. intents[i].ops[n] \in AttemptType
  BY <1>1
<1>3. a \in AttemptType
  BY <1>2 DEF AttemptType
<1>4. d \in {0} \cup DOMAIN txs /\ d \in Nat /\ s \in Active
  BY <1>1 DEF Active, Signing, IntentType
<1>5. DestinationFailed(i, n) = [intents EXCEPT ![i] = r]
  BY <1>1 DEF DestinationFailed, IntentType
<1> HIDE DEF a, d, s
<1>6. o \in Seq(AttemptType) /\ DOMAIN o = DOMAIN intents[i].ops
  BY <1>1, <1>3, AttemptSet
<1> HIDE DEF o
<1>7. /\ r \in IntentType /\ r.ops = o /\ r.dest = d /\ r.status = s /\ r.lease.holder = "none"
      /\ r.key = intents[i].key /\ r.sync = intents[i].sync /\ r.verified = intents[i].verified
  BY <1>1, <1>4, <1>6 DEF IntentType, NoLease
<1> HIDE DEF r
<1>8. GoodRow(i, r)
  BY <1>4, <1>6, <1>7 DEF GoodRow
<1> QED
  BY <1>5, <1>8

\* A recovery check that finds the destination reverted keeps the invariant.
LEMMA RecoveryKeeps ==
  ASSUME FundingInv, NEW i \in DOMAIN intents, NEW n \in DOMAIN intents[i].ops,
         CheckFundingRecovery(i, n)
  PROVE  FundingInv'
<1>1. TablesOK
  BY DEF FundingInv, TypeOK
<1>2. UNCHANGED <<chain, rows, late, total_pool, tabs, requests, scanned>> /\ Unrivalled(i)
      /\ intents' = DestinationFailed(i, n)
  BY DEF CheckFundingRecovery
<1>3. PICK r : GoodRow(i, r) /\ intents' = [intents EXCEPT ![i] = r]
  BY <1>1, <1>2, FailedRow
<1> QED
  BY <1>2, <1>3, RowWrites

\* Every step of an intent keeps the invariant.
LEMMA IntentKeeps ==
  ASSUME FundingInv, NEW i \in DOMAIN intents, IntentStep(i)
  PROVE  FundingInv'
BY LapseKeeps, CancelKeeps, AttachKeeps, RecoveryKeeps DEF IntentStep

\* The end of the program touches nothing the invariant is about.
LEMMA EndKeeps ==
  ASSUME FundingInv, EndProgram
  PROVE  FundingInv'
<1>1. UNCHANGED <<chain, database, tabs, requests, scanned>>
  BY DEF EndProgram
<1>2. TablesOK /\ CallersOK /\ DbOK(intents', DOMAIN txs)
  BY <1>1, TablesByDb DEF FundingInv, TypeOK, database
<1>3. TablesOK'
  BY <1>1, <1>2, TablesStay DEF chain, database
<1>4. Grows /\ Quiet(intents, intents')
  BY <1>1 DEF Grows, Quiet, chain, database
<1>5. CallersOK'
  BY <1>1, <1>2, <1>4, CallersStay
<1>6. Arrived \subseteq Arrived' /\ Len(txs') <= MaxTransfers
  BY <1>1 DEF Arrived, chain, FundingInv, KeysAgree
<1> QED
  BY <1>1, <1>3, <1>4, <1>5, <1>6, QuietStep DEF TypeOK, chain, database

-----------------------------------------------------------------------------
(***************************************************************************)
(* The reconcile requests                                                  *)
(***************************************************************************)
\* What the lease of intent i, become r, lets its holder q be.
Agrees(q, i, r) ==
  /\ q.intent = i
  /\ q.at \in Verified \cup {"verify"}
  /\ q.at \in {"submit", "store"} => q.key = r.key /\ r.sync = 0
  /\ q.at \in {"wait", "credit"} => q.key = r.sync

\* What a request may become: the transfer it works on arrived once it was
\* verified, its sync succeeded once it credits.
GoodRequest(q) ==
  /\ q \in RequestType
  /\ q.at # "idle" => q.intent \in DOMAIN intents /\ q.dest \in DOMAIN txs
  /\ q.at \in Keyed => q.key \in 1..MaxSyncs
  /\ q.at \in Verified => q.dest \in Arrived
  /\ q.at = "credit" => circle[<<q.intent, q.key>>] = "success"

\* What an intent may become when the request p that works on it is now q.
Reworked(p, q, i, r) ==
  /\ r \in IntentType
  /\ r.dest \in {0} \cup DOMAIN txs
  /\ r.status \in Active => intents[i].status \in Active \/ Unrivalled(i)
  /\ r.key \in 1..MaxSyncs /\ r.sync \in {0, r.key} /\ r.verified = intents[i].verified
  /\ r.sync = intents[i].sync \/ \A w \in rows : w.key[1] # i
  /\ r.ops = intents[i].ops
  /\ \/ r.lease.holder \in {p, "none", "gone"}
     \/ /\ r.lease.holder = intents[i].lease.holder
        /\ r.key = intents[i].key /\ r.sync = intents[i].sync
  /\ r.lease.holder = p => Agrees(q, i, r)

\* Where a request is, and what it knows of the intent whose lease it holds.
LEMMA RequestAt ==
  ASSUME FundingInv, NEW p \in Requests
  PROVE  /\ requests \in [Requests -> RequestType] /\ requests[p] \in RequestType
         /\ requests[p].at # "idle" =>
              requests[p].intent \in DOMAIN intents /\ requests[p].dest \in DOMAIN txs
         /\ requests[p].at \in Keyed => requests[p].key \in 1..MaxSyncs
         /\ requests[p].at \in Verified => requests[p].dest \in Arrived
         /\ requests[p].at = "credit" =>
              circle[<<requests[p].intent, requests[p].key>>] = "success"
         /\ \A i \in DOMAIN intents : intents[i].lease.holder = p => Agrees(requests[p], i, intents[i])
         /\ GoodRequest(requests[p])
<1>1. requests \in [Requests -> RequestType] /\ requests[p] \in RequestType
  BY DEF FundingInv, TypeOK, CallersOK
<1>2. GoodRequest(requests[p])
  BY <1>1 DEF FundingInv, TypeOK, CallersOK, KeysAgree, CreditsAgree, GoodRequest
<1>3. ASSUME NEW i \in DOMAIN intents, intents[i].lease.holder = p
      PROVE  Agrees(requests[p], i, intents[i])
  BY <1>3 DEF FundingInv, LeasesAgree, Agrees
<1> QED
  BY <1>1, <1>2, <1>3 DEF GoodRequest

\* A request moves and may change the intent it works on; Circle may learn of a
\* new sync.
LEMMA RequestWrites ==
  ASSUME FundingInv, NEW p \in Requests, NEW i \in DOMAIN intents, NEW r, NEW q,
         intents' = [intents EXCEPT ![i] = r], requests' = [requests EXCEPT ![p] = q],
         UNCHANGED <<txs, totalFunded, rows, late, total_pool, tabs, scanned>>,
         circle' \in [Keys -> {"none", "pending", "success", "failed"}],
         \A k \in Keys : circle'[k] = circle[k] \/ (circle[k] = "none" /\ circle'[k] = "pending"),
         Reworked(p, q, i, r), GoodRequest(q),
         \A j \in DOMAIN intents \ {i} : intents[j].lease.holder # p
  PROVE  FundingInv'
<1>1. TablesOK /\ CallersOK
  BY DEF FundingInv, TypeOK
<1>2. DbOK(intents, DOMAIN txs)
  BY <1>1, TablesByDb
<1>3. r \in IntentType /\ {r.dest, r.verified} \subseteq {0} \cup DOMAIN txs
  BY <1>1 DEF Reworked, TablesOK
<1>4. r.status \in Active => \A j \in DOMAIN intents \ {i} : intents[j].status \notin Active
  BY <1>2 DEF Reworked, DbOK, Unrivalled
<1>5. DbOK(intents', DOMAIN txs')
  BY <1>2, <1>3, <1>4, OneRow
<1>6. TablesOK'
  BY <1>1, <1>5, TablesNext DEF TablesOK
<1>7. /\ DOMAIN intents' = DOMAIN intents /\ Len(intents') = Len(intents)
      /\ intents'[i] = r /\ \A j \in DOMAIN intents \ {i} : intents'[j] = intents[j]
  BY <1>1, <1>3 DEF TablesOK
<1>8. Grows
  BY <1>7 DEF Grows, Reworked
<1>9. requests'[p] = q /\ \A o \in Requests \ {p} : requests'[o] = requests[o]
  BY <1>1 DEF CallersOK
<1>10. CallersOK'
  BY <1>1, <1>7, <1>8, RequestMoves DEF GoodRequest
<1>11. KeysAgree'
  <2>1. \A k \in Keys : circle'[k] = "failed" => k[2] < MaxSyncs
    BY DEF FundingInv, KeysAgree
  <2>2. ASSUME NEW j \in DOMAIN intents'
        PROVE  intents'[j].key \in 1..MaxSyncs /\ intents'[j].sync \in {0, intents'[j].key}
    BY <1>7 DEF FundingInv, KeysAgree, Reworked
  <2>3. ASSUME NEW o \in Requests, requests'[o].at \in Keyed
        PROVE  requests'[o].key \in 1..MaxSyncs
    BY <1>9, <2>3 DEF FundingInv, KeysAgree, GoodRequest
  <2> QED
    BY <1>7, <2>1, <2>2, <2>3 DEF FundingInv, KeysAgree
<1>12. ASSUME NEW j \in DOMAIN intents', NEW o \in Requests, intents'[j].lease.holder = o
       PROVE  Agrees(requests'[o], j, intents'[j])
  <2>1. CASE j # i
    <3>1. intents[j].lease.holder = o /\ o # p
      BY <1>7, <1>12, <2>1
    <3> QED BY <1>7, <1>9, <2>1, <3>1, RequestAt
  <2>2. CASE j = i /\ o = p
    BY <1>7, <1>9, <1>12, <2>2 DEF Reworked
  <2>3. CASE j = i /\ o # p
    <3>1. o \notin {"none", "gone"}
      BY FundingConstants
    <3>2. /\ intents[i].lease.holder = o
          /\ r.key = intents[i].key /\ r.sync = intents[i].sync
      BY <1>7, <1>12, <2>3, <3>1 DEF Reworked
    <3>3. Agrees(requests[o], i, intents[i])
      BY <3>2, RequestAt
    <3> QED BY <1>7, <1>9, <2>3, <3>2, <3>3 DEF Agrees
  <2> QED BY <2>1, <2>2, <2>3
<1>13. LeasesAgree'
  BY <1>12 DEF LeasesAgree, Agrees
<1>14. Credited' = Credited /\ Arrived' = Arrived
  BY DEF Credited, Arrived
<1>15. \A k \in Keys : circle[k] = "success" => circle'[k] = "success"
  OBVIOUS
<1>16. ASSUME NEW o \in Requests
       PROVE  /\ requests'[o].at \in Verified => requests'[o].dest \in Arrived'
              /\ requests'[o].at = "credit" =>
                   circle'[<<requests'[o].intent, requests'[o].key>>] = "success"
  <2>1. GoodRequest(requests'[o])
    BY <1>9, RequestAt
  <2>2. ASSUME requests'[o].at = "credit"
        PROVE  <<requests'[o].intent, requests'[o].key>> \in Keys
    <3>1. requests'[o].intent \in DOMAIN intents /\ requests'[o].key \in 1..MaxSyncs
      BY <2>1, <2>2 DEF GoodRequest, Keyed
    <3>2. DOMAIN intents \subseteq 1..MaxIntents
      BY <1>1, FundingConstants DEF FundingInv, KeysAgree, TablesOK
    <3> QED BY <3>1, <3>2 DEF Keys
  <2> QED
    BY <1>14, <1>15, <2>1, <2>2 DEF GoodRequest
<1>17. ASSUME NEW w \in rows'
       PROVE  /\ w.tx \in Arrived' /\ circle'[w.key] = "success" /\ w.key[1] \in DOMAIN intents'
              /\ intents'[w.key[1]].sync = w.key[2] /\ intents'[w.key[1]].verified = w.tx
  <2>1. /\ w.tx \in Arrived /\ circle[w.key] = "success" /\ w.key[1] \in DOMAIN intents
        /\ intents[w.key[1]].sync = w.key[2] /\ intents[w.key[1]].verified = w.tx
        /\ w.key \in Keys
    BY <1>1 DEF FundingInv, CreditsAgree, TablesOK
  <2>2. CASE w.key[1] = i
    BY <1>7, <1>14, <1>15, <2>1, <2>2 DEF Reworked
  <2>3. CASE w.key[1] # i
    BY <1>7, <1>14, <1>15, <2>1, <2>3
  <2> QED BY <2>2, <2>3
<1>18. CreditsAgree'
  BY <1>14, <1>16, <1>17 DEF FundingInv, CreditsAgree
<1> QED
  BY <1>6, <1>10, <1>11, <1>13, <1>18 DEF FundingInv, TypeOK

\* An intent that stays.
LEMMA SameRow ==
  ASSUME FundingInv, NEW p \in Requests, NEW i \in DOMAIN intents, NEW q,
         intents[i].lease.holder = p => Agrees(q, i, intents[i])
  PROVE  Reworked(p, q, i, intents[i])
<1>1. TablesOK
  BY DEF FundingInv, TypeOK
<1> QED
  BY <1>1, RowType DEF FundingInv, KeysAgree, Reworked

\* A request moves and reads only; Circle may learn of a new sync.
LEMMA RequestReads ==
  ASSUME FundingInv, NEW p \in Requests, NEW q, requests' = [requests EXCEPT ![p] = q],
         UNCHANGED <<txs, totalFunded, database, tabs, scanned>>,
         circle' \in [Keys -> {"none", "pending", "success", "failed"}],
         \A k \in Keys : circle'[k] = circle[k] \/ (circle[k] = "none" /\ circle'[k] = "pending"),
         GoodRequest(q), q.at # "idle",
         \A i \in DOMAIN intents : intents[i].lease.holder = p => Agrees(q, i, intents[i])
  PROVE  FundingInv'
<1> DEFINE i == q.intent
<1>1. i \in DOMAIN intents /\ TablesOK
  BY DEF GoodRequest, FundingInv, TypeOK
<1>2. intents' = [intents EXCEPT ![i] = intents[i]]
  BY <1>1 DEF TablesOK, database
<1>3. Reworked(p, q, i, intents[i])
  BY <1>1, SameRow
<1>4. \A j \in DOMAIN intents \ {i} : intents[j].lease.holder # p
  BY DEF Agrees
<1>5. UNCHANGED <<txs, totalFunded, rows, late, total_pool, tabs, scanned>>
  BY DEF database
<1> HIDE DEF i
<1> QED
  BY <1>1, <1>2, <1>3, <1>4, <1>5, RequestWrites

\* Circle is not asked.
LEMMA CircleStays ==
  ASSUME FundingInv, UNCHANGED circle
  PROVE  /\ circle' \in [Keys -> {"none", "pending", "success", "failed"}]
         /\ \A k \in Keys : circle'[k] = circle[k] \/ (circle[k] = "none" /\ circle'[k] = "pending")
BY DEF FundingInv, TypeOK, TablesOK

\* A request that goes on to its next step.
LEMMA StepsTo ==
  ASSUME FundingInv, NEW p \in Requests, NEW at, Steps(p, at), requests[p].at # "idle",
         at \in {"verify", "read", "submit", "store", "wait", "credit"}
  PROVE  \E q : /\ requests' = [requests EXCEPT ![p] = q] /\ q \in RequestType /\ q.at = at
                /\ q.intent = requests[p].intent /\ q.dest = requests[p].dest
                /\ q.key = requests[p].key
<1> DEFINE q == [requests[p] EXCEPT !.at = at]
<1>1. q \in RequestType /\ q.at = at /\ q.intent = requests[p].intent /\ q.dest = requests[p].dest
      /\ q.key = requests[p].key
  BY RequestAt DEF RequestType
<1>2. requests' = [requests EXCEPT ![p] = q]
  BY RequestAt DEF Steps, RequestType
<1> QED
  BY <1>1, <1>2

\* Starting a reconcile request keeps the invariant.
LEMMA StartKeeps ==
  ASSUME FundingInv, NEW p \in Requests, NEW i \in DOMAIN intents, StartReconcile(p, i)
  PROVE  FundingInv'
<1> DEFINE q == [at |-> "claim", intent |-> i, dest |-> intents[i].dest,
                 syncing |-> intents[i].status = "syncing_pool", key |-> 0]
<1>1. UNCHANGED <<txs, totalFunded, database, tabs, scanned>> /\ UNCHANGED circle
      /\ requests' = [requests EXCEPT ![p] = q]
  BY DEF StartReconcile, chain
<1>2. TablesOK /\ i \in Nat /\ intents[i].dest \in DOMAIN txs /\ intents[i].dest \in Nat
  <2>1. TablesOK /\ intents[i].dest # 0
    BY DEF StartReconcile, FundingInv, TypeOK
  <2>2. i \in Nat
    BY <2>1 DEF TablesOK
  <2> QED BY <2>1, <2>2, RowType
<1>3. GoodRequest(q) /\ q.at = "claim"
  BY <1>2 DEF GoodRequest, RequestType, Keyed, Verified
<1>4. \A j \in DOMAIN intents : intents[j].lease.holder # p
  BY RequestAt DEF StartReconcile, Agrees, Verified
<1> HIDE DEF q
<1> QED
  BY <1>1, <1>3, <1>4, RequestReads, CircleStays

\* Claiming the reconciliation keeps the invariant.
LEMMA ClaimsKeep ==
  ASSUME FundingInv, NEW p \in Requests, ClaimReconciliation(p)
  PROVE  FundingInv'
<1> DEFINE i == requests[p].intent
<1>1. requests[p].at = "claim" /\ i \in DOMAIN intents /\ TablesOK
      /\ UNCHANGED <<chain, rows, late, total_pool, tabs, scanned>>
  BY RequestAt DEF ClaimReconciliation, FundingInv, TypeOK
<1>2. CASE Ends(p, intents)
  BY <1>1, <1>2, RequestLeaves
<1>3. CASE intents[i].status \notin Final /\ Ends(p, [intents EXCEPT ![i].status = "cancelled"])
  <2> DEFINE r == [intents[i] EXCEPT !.status = "cancelled"]
  <2>1. intents[i] \in IntentType
    BY <1>1, RowType
  <2>2. [intents EXCEPT ![i].status = "cancelled"] = [intents EXCEPT ![i] = r]
    BY <1>1 DEF TablesOK, IntentType
  <2>3. /\ r \in IntentType /\ r.ops = intents[i].ops /\ r.dest = intents[i].dest
        /\ r.status = "cancelled" /\ r.lease = intents[i].lease
        /\ r.key = intents[i].key /\ r.sync = intents[i].sync /\ r.verified = intents[i].verified
    BY <2>1 DEF IntentType, Final
  <2> HIDE DEF r
  <2>4. GoodRow(i, r)
    BY <1>1, <2>3, RowType DEF GoodRow, Active, Signing
  <2> QED
    BY <1>1, <1>3, <2>2, <2>4, RequestEnds
<1>4. CASE /\ intents[i].status \notin Final
           /\ intents' = [intents EXCEPT ![i].status = "verifying_destination",
                                         ![i].lease = [holder |-> p, live |-> TRUE]]
           /\ Steps(p, "verify")
  <2> DEFINE l == [holder |-> p, live |-> TRUE]
             r == [intents[i] EXCEPT !.status = "verifying_destination", !.lease = l]
  <2>1. intents[i] \in IntentType /\ intents[i].status \in Active
    BY <1>1, <1>4, RowType
  <2>2. intents' = [intents EXCEPT ![i] = r]
    BY <1>1, <1>4 DEF TablesOK, IntentType
  <2>3. l \in [holder : Requests \cup {"none", "gone"}, live : BOOLEAN] /\ l.holder = p
    OBVIOUS
  <2> HIDE DEF l
  <2>4. /\ r \in IntentType /\ r.ops = intents[i].ops /\ r.dest = intents[i].dest
        /\ r.status = "verifying_destination" /\ r.lease = l
        /\ r.key = intents[i].key /\ r.sync = intents[i].sync /\ r.verified = intents[i].verified
    BY <2>1, <2>3 DEF IntentType, Active
  <2> HIDE DEF r
  <2>5. PICK q : /\ requests' = [requests EXCEPT ![p] = q] /\ q \in RequestType /\ q.at = "verify"
                 /\ q.intent = i /\ q.dest = requests[p].dest
    BY <1>1, <1>4, StepsTo
  <2>6. GoodRequest(q)
    BY <1>1, <2>5, RequestAt DEF GoodRequest, Verified, Keyed
  <2>7. Agrees(q, i, r)
    BY <2>5 DEF Agrees
  <2>8. Reworked(p, q, i, r)
    BY <1>1, <2>1, <2>3, <2>4, <2>7, RowType DEF Reworked, FundingInv, KeysAgree
  <2>9. \A j \in DOMAIN intents : intents[j].lease.holder # p
    BY <1>1, RequestAt DEF Agrees, Verified
  <2>10. UNCHANGED <<txs, totalFunded, rows, late, total_pool, tabs, scanned>> /\ UNCHANGED circle
    BY <1>1 DEF chain
  <2> QED
    BY <1>1, <2>2, <2>5, <2>6, <2>8, <2>9, <2>10, RequestWrites, CircleStays
<1> QED
  BY <1>2, <1>3, <1>4 DEF ClaimReconciliation

\* Verifying the destination keeps the invariant.
LEMMA VerifyKeeps ==
  ASSUME FundingInv, NEW p \in Requests, VerifyDestination(p)
  PROVE  FundingInv'
<1> DEFINE i == requests[p].intent
           t == requests[p].dest
<1>1. requests[p].at = "verify" /\ i \in DOMAIN intents /\ t \in DOMAIN txs /\ TablesOK
      /\ UNCHANGED <<chain, rows, late, total_pool, tabs, scanned>>
  BY RequestAt DEF VerifyDestination, FundingInv, TypeOK
<1>2. CASE Ends(p, intents)
  BY <1>1, <1>2, RequestLeaves
<1>3. ASSUME NEW n \in RevertedAttempts(i, t), Unrivalled(i), Ends(p, DestinationFailed(i, n))
      PROVE  FundingInv'
  <2>1. n \in DOMAIN intents[i].ops
    BY DEF RevertedAttempts
  <2>2. PICK r : GoodRow(i, r) /\ DestinationFailed(i, n) = [intents EXCEPT ![i] = r]
    BY <1>1, <1>3, <2>1, FailedRow
  <2> QED
    BY <1>1, <1>3, <2>2, RequestEnds
<1>4. ASSUME Steps(p, "read"), txs[t].outcome = "success",
             NEW r, intents' = [intents EXCEPT ![i] = r],
             r = intents[i] \/ (r = [intents[i] EXCEPT !.status = "syncing_pool"]
                                /\ intents[i].status = "verifying_destination")
      PROVE  FundingInv'
  <2>1. PICK q : /\ requests' = [requests EXCEPT ![p] = q] /\ q \in RequestType /\ q.at = "read"
                 /\ q.intent = i /\ q.dest = t
    BY <1>1, <1>4, StepsTo
  <2>2. GoodRequest(q)
    BY <1>1, <1>4, <2>1 DEF GoodRequest, Keyed, Arrived
  <2>3. intents[i] \in IntentType
    BY <1>1, RowType
  <2>4. /\ r \in IntentType /\ r.ops = intents[i].ops /\ r.dest = intents[i].dest
        /\ r.status \in Active => intents[i].status \in Active
        /\ r.lease = intents[i].lease
        /\ r.key = intents[i].key /\ r.sync = intents[i].sync /\ r.verified = intents[i].verified
    BY <1>4, <2>3 DEF IntentType, Active
  <2>5. Agrees(q, i, r)
    BY <2>1 DEF Agrees, Verified
  <2>6. Reworked(p, q, i, r)
    BY <1>1, <2>4, <2>5, RowType DEF Reworked, FundingInv, KeysAgree
  <2>7. \A j \in DOMAIN intents \ {i} : intents[j].lease.holder # p
    BY RequestAt DEF Agrees
  <2>8. UNCHANGED <<txs, totalFunded, rows, late, total_pool, tabs, scanned>> /\ UNCHANGED circle
    BY <1>1 DEF chain
  <2> QED
    BY <1>1, <1>4, <2>1, <2>2, <2>6, <2>7, <2>8, RequestWrites, CircleStays
<1>5. CASE Steps(p, "read") /\ txs[t].outcome = "success" /\ UNCHANGED intents
  <2>1. intents' = [intents EXCEPT ![i] = intents[i]]
    BY <1>1, <1>5 DEF TablesOK
  <2> QED BY <1>4, <1>5, <2>1
<1>6. CASE /\ txs[t].outcome = "success" /\ intents[i].status = "verifying_destination"
           /\ intents' = [intents EXCEPT ![i].status = "syncing_pool"] /\ Steps(p, "read")
  <2>1. intents' = [intents EXCEPT ![i] = [intents[i] EXCEPT !.status = "syncing_pool"]]
    BY <1>1, <1>6 DEF TablesOK, IntentType
  <2> QED BY <1>4, <1>6, <2>1
<1> QED
  BY <1>2, <1>3, <1>5, <1>6 DEF VerifyDestination

\* Every key of an intent's sync is one Circle knows.
LEMMA KeyIsKey ==
  ASSUME FundingInv, NEW i \in DOMAIN intents, NEW n \in 1..MaxSyncs
  PROVE  <<i, n>> \in Keys
BY FundingConstants DEF FundingInv, TypeOK, TablesOK, KeysAgree, Keys

\* Reading the sync keeps the invariant.
LEMMA ReadSyncKeeps ==
  ASSUME FundingInv, NEW p \in Requests, ReadSync(p)
  PROVE  FundingInv'
<1> DEFINE i == requests[p].intent
           at == IF intents[i].sync = 0 THEN "submit" ELSE "wait"
           k == IF intents[i].sync = 0 THEN intents[i].key ELSE intents[i].sync
           q == [requests[p] EXCEPT !.at = at, !.key = k]
<1>1. requests[p].at = "read" /\ i \in DOMAIN intents /\ TablesOK
  BY RequestAt DEF ReadSync, FundingInv, TypeOK
<1>2. UNCHANGED <<txs, totalFunded, database, tabs, scanned>> /\ UNCHANGED circle
  BY DEF ReadSync, chain
<1>3. k \in 1..MaxSyncs /\ k \in Nat
  BY <1>1, RowType DEF FundingInv, KeysAgree
<1>4. requests' = [requests EXCEPT ![p] = q]
  BY RequestAt DEF ReadSync, RequestType
<1>5. at \in {"submit", "wait"} /\ (at = "submit" => k = intents[i].key /\ intents[i].sync = 0)
      /\ (at = "wait" => k = intents[i].sync)
  OBVIOUS
<1> HIDE DEF at, k
<1>6. q \in RequestType /\ q.at = at /\ q.key = k /\ q.intent = i /\ q.dest = requests[p].dest
  BY <1>3, <1>5, RequestAt DEF RequestType
<1> HIDE DEF q
<1>7. GoodRequest(q)
  BY <1>1, <1>3, <1>5, <1>6, RequestAt DEF GoodRequest, Verified
<1>8. ASSUME NEW j \in DOMAIN intents, intents[j].lease.holder = p
      PROVE  Agrees(q, j, intents[j])
  <2>1. i = j
    BY <1>8, RequestAt DEF Agrees
  <2> QED BY <1>5, <1>6, <2>1 DEF Agrees, Verified
<1> QED
  BY <1>2, <1>4, <1>5, <1>6, <1>7, <1>8, RequestReads, CircleStays

\* Submitting the sync to Circle keeps the invariant.
LEMMA SubmitKeeps ==
  ASSUME FundingInv, NEW p \in Requests, SubmitSync(p)
  PROVE  FundingInv'
<1> DEFINE i == requests[p].intent
           k == <<i, requests[p].key>>
<1>1. requests[p].at = "submit" /\ i \in DOMAIN intents /\ TablesOK
  BY RequestAt DEF SubmitSync, FundingInv, TypeOK
<1>2. UNCHANGED <<txs, totalFunded, database, tabs, scanned>>
  BY DEF SubmitSync
<1>3. k \in Keys
  BY <1>1, RequestAt, KeyIsKey DEF Keyed
<1>4. circle' = [circle EXCEPT ![k] = IF circle[k] = "none" THEN "pending" ELSE circle[k]]
  BY DEF SubmitSync
<1>5. circle \in [Keys -> {"none", "pending", "success", "failed"}]
  BY <1>1 DEF TablesOK
<1> HIDE DEF k
<1>6. /\ circle' \in [Keys -> {"none", "pending", "success", "failed"}]
      /\ \A j \in Keys : circle'[j] = circle[j] \/ (circle[j] = "none" /\ circle'[j] = "pending")
  BY <1>3, <1>4, <1>5
<1>7. PICK q : /\ requests' = [requests EXCEPT ![p] = q] /\ q \in RequestType /\ q.at = "store"
               /\ q.intent = i /\ q.dest = requests[p].dest /\ q.key = requests[p].key
  BY <1>1, StepsTo DEF SubmitSync
<1>8. GoodRequest(q)
  BY <1>1, <1>7, RequestAt DEF GoodRequest, Verified, Keyed
<1>9. ASSUME NEW j \in DOMAIN intents, intents[j].lease.holder = p
      PROVE  Agrees(q, j, intents[j])
  BY <1>1, <1>7, <1>9, RequestAt DEF Agrees, Verified
<1> QED
  BY <1>2, <1>6, <1>7, <1>8, <1>9, RequestReads

\* An intent's credits are recorded under its current sync.
LEMMA CreditsOf ==
  ASSUME FundingInv, NEW w \in rows
  PROVE  /\ w.key[1] \in DOMAIN intents /\ w.key \in Keys
         /\ w.key = <<w.key[1], intents[w.key[1]].sync>>
         /\ intents[w.key[1]].sync # 0
         /\ circle[w.key] = "success"
         /\ w.tx \in Arrived /\ w.tx \in DOMAIN txs /\ w.tx # 0
         /\ intents[w.key[1]].verified = w.tx
<1>1. /\ w.key \in Keys /\ w.tx \in DOMAIN txs /\ w.tx \in Arrived
      /\ w.key[1] \in DOMAIN intents /\ circle[w.key] = "success"
      /\ intents[w.key[1]].sync = w.key[2] /\ intents[w.key[1]].verified = w.tx
  BY DEF FundingInv, TypeOK, TablesOK, CreditsAgree
<1>2. w.key = <<w.key[1], w.key[2]>> /\ w.key[2] # 0
  BY <1>1, FundingConstants DEF Keys
<1>3. w.tx # 0
  BY <1>1 DEF FundingInv, TypeOK, TablesOK
<1> QED
  BY <1>1, <1>2, <1>3

\* Storing the sync's transaction keeps the invariant.
LEMMA StoreKeeps ==
  ASSUME FundingInv, NEW p \in Requests, StoreSync(p)
  PROVE  FundingInv'
<1> DEFINE i == requests[p].intent
           k == requests[p].key
<1>1. requests[p].at = "store" /\ i \in DOMAIN intents /\ TablesOK
      /\ UNCHANGED <<chain, rows, late, total_pool, tabs, scanned>>
  BY RequestAt DEF StoreSync, FundingInv, TypeOK
<1>2. CASE Ends(p, intents)
  BY <1>1, <1>2, RequestLeaves
<1>3. CASE CanStore(p, i) /\ intents' = [intents EXCEPT ![i].sync = k] /\ Steps(p, "wait")
  <2> DEFINE r == [intents[i] EXCEPT !.sync = k]
  <2>1. intents[i] \in IntentType /\ k \in Nat /\ k \in 1..MaxSyncs
    BY <1>1, RowType, RequestAt DEF Keyed, RequestType
  <2>2. intents[i].lease.holder = p /\ k = intents[i].key /\ intents[i].sync = 0
    BY <1>1, <1>3, RequestAt DEF CanStore, Holds, Agrees
  <2>3. intents' = [intents EXCEPT ![i] = r]
    BY <1>1, <1>3 DEF TablesOK, IntentType
  <2>4. /\ r \in IntentType /\ r.ops = intents[i].ops /\ r.dest = intents[i].dest
        /\ r.status = intents[i].status /\ r.lease = intents[i].lease
        /\ r.key = intents[i].key /\ r.sync = k /\ r.verified = intents[i].verified
    BY <2>1 DEF IntentType
  <2> HIDE DEF r
  <2>5. PICK q : /\ requests' = [requests EXCEPT ![p] = q] /\ q \in RequestType /\ q.at = "wait"
                 /\ q.intent = i /\ q.dest = requests[p].dest /\ q.key = k
    BY <1>1, <1>3, StepsTo
  <2>6. GoodRequest(q)
    BY <1>1, <2>1, <2>5, RequestAt DEF GoodRequest, Verified, Keyed
  <2>7. Agrees(q, i, r)
    BY <2>4, <2>5 DEF Agrees, Verified
  <2>8. \A w \in rows : w.key[1] # i
    BY <2>2, CreditsOf
  <2>9. Reworked(p, q, i, r)
    <3>1. r.dest \in {0} \cup DOMAIN txs
      BY <1>1, <2>4, RowType
    <3>2. r.key \in 1..MaxSyncs /\ r.sync \in {0, r.key}
      BY <2>1, <2>2, <2>4
    <3>3. r.lease.holder \in {p, "none", "gone"}
      BY <2>2, <2>4
    <3> QED
      BY <2>4, <2>7, <2>8, <3>1, <3>2, <3>3 DEF Reworked
  <2>10. \A j \in DOMAIN intents \ {i} : intents[j].lease.holder # p
    BY RequestAt DEF Agrees
  <2>11. UNCHANGED <<txs, totalFunded, rows, late, total_pool, tabs, scanned>> /\ UNCHANGED circle
    BY <1>1 DEF chain
  <2> QED
    BY <1>1, <2>3, <2>5, <2>6, <2>9, <2>10, <2>11, RequestWrites, CircleStays
<1> QED
  BY <1>2, <1>3 DEF StoreSync

\* A request that ends and gives its lease up leaves the table as it wrote it.
LEMMA NothingHeld ==
  ASSUME NEW db, NEW p, Ends(p, db), db \in Seq(IntentType),
         \A j \in DOMAIN db : db[j].lease.holder # p
  PROVE  intents' = db /\ requests' = [requests EXCEPT ![p] = IdleRequest]
<1>1. intents' = [j \in DOMAIN db |-> db[j]]
  BY DEF Ends
<1>2. db = [j \in DOMAIN db |-> db[j]]
  OBVIOUS
<1> QED
  BY <1>1, <1>2 DEF Ends

\* Waiting for the sync keeps the invariant.
LEMMA AwaitKeeps ==
  ASSUME FundingInv, DestinationsAgree, NEW p \in Requests, AwaitSync(p)
  PROVE  FundingInv'
<1> DEFINE i == requests[p].intent
           k == <<i, requests[p].key>>
<1>1. requests[p].at = "wait" /\ i \in DOMAIN intents /\ TablesOK
      /\ UNCHANGED <<chain, rows, late, total_pool, tabs, scanned>>
  BY RequestAt DEF AwaitSync, FundingInv, TypeOK
<1>2. UNCHANGED <<txs, totalFunded, circle, rows, late, total_pool, tabs, scanned>>
  BY <1>1 DEF chain
<1>3. k \in Keys /\ requests[p].key \in 1..MaxSyncs
  BY <1>1, RequestAt, KeyIsKey DEF Keyed
<1>4. CASE Ends(p, intents)
  BY <1>1, <1>4, RequestLeaves
<1>5. CASE circle[k] = "success" /\ Steps(p, "credit") /\ UNCHANGED intents
  <2>1. UNCHANGED <<txs, totalFunded, database, tabs, scanned>> /\ UNCHANGED circle
    BY <1>2, <1>5 DEF database
  <2>2. PICK q : /\ requests' = [requests EXCEPT ![p] = q] /\ q \in RequestType /\ q.at = "credit"
                 /\ q.intent = i /\ q.dest = requests[p].dest /\ q.key = requests[p].key
    BY <1>1, <1>5, StepsTo
  <2>3. GoodRequest(q)
    BY <1>1, <1>5, <2>2, RequestAt DEF GoodRequest, Verified, Keyed
  <2>4. ASSUME NEW j \in DOMAIN intents, intents[j].lease.holder = p
        PROVE  Agrees(q, j, intents[j])
    BY <1>1, <2>2, <2>4, RequestAt DEF Agrees, Verified
  <2> QED
    BY <2>1, <2>2, <2>3, <2>4, RequestReads, CircleStays
<1>6. CASE /\ CanFailSync(p, i, k)
           /\ Ends(p, [intents EXCEPT ![i].status = "sync_failed", ![i].sync = 0,
                                      ![i].key = @ + 1, ![i].lease = NoLease])
  <2> DEFINE m == intents[i].key + 1
             r == [intents[i] EXCEPT !.status = "sync_failed", !.sync = 0, !.key = m,
                                     !.lease = NoLease]
             db == [intents EXCEPT ![i] = r]
  <2>1. intents[i] \in IntentType /\ intents[i].key \in Nat
    BY <1>1, RowType
  <2>2. /\ intents[i].lease.holder = p /\ intents[i].sync = requests[p].key
        /\ circle[k] = "failed" /\ intents[i].key = requests[p].key
        /\ intents[i].key \in 1..MaxSyncs
    <3>1. /\ intents[i].lease.holder = p /\ intents[i].sync = requests[p].key
          /\ circle[k] = "failed"
      BY <1>6 DEF CanFailSync, Holds
    <3>2. intents[i].sync \in {0, intents[i].key}
      BY <1>1 DEF FundingInv, KeysAgree
    <3> QED BY <1>3, <3>1, <3>2, FundingConstants
  <2>3. m \in 1..MaxSyncs
    <3>1. requests[p].key < MaxSyncs
      BY <1>3, <2>2 DEF FundingInv, KeysAgree
    <3> QED BY <2>1, <2>2, <3>1, FundingConstants
  <2>4. Ends(p, db)
    <3>1. [intents EXCEPT ![i].status = "sync_failed", ![i].sync = 0,
                          ![i].key = @ + 1, ![i].lease = NoLease] = db
      BY <1>1 DEF TablesOK, IntentType
    <3> QED BY <1>6, <3>1
  <2>5. m \in Nat
    BY <2>1
  <2> HIDE DEF m
  <2>6. /\ r \in IntentType /\ r.ops = intents[i].ops /\ r.dest = intents[i].dest
        /\ r.status = "sync_failed" /\ r.lease.holder = "none"
        /\ r.key = m /\ r.sync = 0 /\ r.verified = intents[i].verified
    BY <2>1, <2>5 DEF IntentType, Active, NoLease
  <2> HIDE DEF r
  <2>7. p # "none"
    BY FundingConstants
  <2>8. \A j \in DOMAIN intents \ {i} : intents[j].lease.holder # p
    BY RequestAt DEF Agrees
  <2>9. db \in Seq(IntentType) /\ \A j \in DOMAIN db : db[j].lease.holder # p
    <3>1. intents \in Seq(IntentType)
      BY <1>1 DEF TablesOK
    <3>2. db \in Seq(IntentType) /\ DOMAIN db = DOMAIN intents /\ db[i] = r
          /\ \A j \in DOMAIN intents \ {i} : db[j] = intents[j]
      BY <1>1, <2>6, <3>1
    <3> QED BY <2>6, <2>7, <2>8, <3>2
  <2>10. intents' = db /\ requests' = [requests EXCEPT ![p] = IdleRequest]
    BY <2>4, <2>9, NothingHeld
  <2>11. GoodRequest(IdleRequest)
    BY DEF GoodRequest, IdleRequest, RequestType, Verified, Keyed
  <2>12. \A w \in rows : w.key[1] # i
    BY <2>2, CreditsOf
  <2>13. Reworked(p, IdleRequest, i, r)
    <3>1. r.dest \in {0} \cup DOMAIN txs
      BY <1>1, <2>6, RowType
    <3>2. requests[p].dest \notin Reverted
      BY <1>1, RequestAt DEF Verified, Arrived, Reverted
    <3>3. intents[i].status \in Active
      BY <1>1, <2>2, <3>2 DEF DestinationsAgree
    <3> QED
      BY <2>3, <2>6, <2>7, <2>12, <3>1, <3>3 DEF Reworked
  <2> QED
    BY <1>1, <1>2, <2>8, <2>10, <2>11, <2>13, RequestWrites, CircleStays
<1> QED
  BY <1>4, <1>5, <1>6 DEF AwaitSync

\* What is known of the transfers credited.
LEMMA CreditedFinite ==
  ASSUME FundingInv
  PROVE  /\ Credited \subseteq DOMAIN txs /\ IsFiniteSet(Credited)
         /\ total_pool = Cardinality(Credited)
<1>1. TablesOK
  BY DEF FundingInv, TypeOK
<1>2. Credited \subseteq DOMAIN txs
  BY <1>1 DEF Credited, TablesOK
<1> QED
  BY <1>1, <1>2, TransfersFinite, FS_Subset DEF FundingInv, CreditsAgree

\* What a reconcile request credits: a transfer no other intent was credited
\* for, to an intent that was not credited yet.
LEMMA FirstCredit ==
  ASSUME FundingInv, NEW p \in Requests, requests[p].at = "credit",
         CanReconcile(p, requests[p].intent, requests[p].dest),
         ~Recorded(<<requests[p].intent, requests[p].key>>)
  PROVE  /\ \A w \in rows : w.key[1] # requests[p].intent /\ w.tx # requests[p].dest
         /\ intents[requests[p].intent].sync = requests[p].key
<1> DEFINE i == requests[p].intent
           t == requests[p].dest
<1>1. intents[i].sync = requests[p].key /\ i \in DOMAIN intents
  BY RequestAt DEF CanReconcile, Holds, Agrees
<1>2. ASSUME NEW w \in rows, w.key[1] = i PROVE FALSE
  <2>1. w.key = <<i, requests[p].key>>
    BY <1>1, <1>2, CreditsOf
  <2> QED BY <2>1 DEF Recorded
<1>3. ASSUME NEW w \in rows PROVE w.tx # t
  <2>1. w.key[1] \in DOMAIN intents \ {i} /\ intents[w.key[1]].verified = w.tx
    BY <1>2, CreditsOf
  <2> QED BY <2>1 DEF CanReconcile
<1> QED
  BY <1>1, <1>2, <1>3

\* Crediting an intent's transfer keeps the invariant.
LEMMA ReconcileKeeps ==
  ASSUME FundingInv, NEW p \in Requests, ReconcileFunding(p)
  PROVE  FundingInv'
<1> DEFINE i == requests[p].intent
           t == requests[p].dest
           key == <<i, requests[p].key>>
<1>1. requests[p].at = "credit" /\ i \in DOMAIN intents /\ t \in DOMAIN txs /\ TablesOK /\ CallersOK
      /\ t \in Arrived /\ UNCHANGED <<chain, late, tabs, scanned>>
  BY RequestAt DEF ReconcileFunding, FundingInv, TypeOK, Verified
<1>2. CASE Ends(p, intents) /\ UNCHANGED <<rows, total_pool>>
  BY <1>1, <1>2, RequestLeaves
<1>3. CASE /\ CanReconcile(p, i, t) /\ Recorded(key)
           /\ Ends(p, [intents EXCEPT ![i].verified = t]) /\ UNCHANGED <<rows, total_pool>>
  <2>1. PICK w \in rows : w.key = key
    BY <1>3 DEF Recorded
  <2>2. intents[i].verified = t
    BY <1>3, <2>1, CreditsOf DEF CanReconcile
  <2>3. [intents EXCEPT ![i].verified = t] = intents
    <3>1. intents[i] \in IntentType
      BY <1>1, RowType
    <3>2. [intents[i] EXCEPT !.verified = t] = intents[i]
      BY <2>2, <3>1 DEF IntentType
    <3>3. [intents EXCEPT ![i].verified = t] = [intents EXCEPT ![i] = intents[i]]
      BY <3>2
    <3>4. [intents EXCEPT ![i] = intents[i]] = intents
      BY <1>1 DEF TablesOK
    <3> QED BY <3>3, <3>4, Zenon
  <2> QED
    BY <1>1, <1>3, <2>3, RequestLeaves
<1>4. CASE /\ CanReconcile(p, i, t) /\ ~Recorded(key)
           /\ rows' = rows \cup {[key |-> key, tx |-> t]}
           /\ total_pool' = total_pool + NewlyCredited(t)
           /\ Ends(p, [intents EXCEPT ![i].status = "complete", ![i].verified = t,
                                      ![i].lease = NoLease])
  <2> DEFINE r == [intents[i] EXCEPT !.status = "complete", !.verified = t, !.lease = NoLease]
             db == [intents EXCEPT ![i] = r]
  <2>1. intents[i] \in IntentType /\ t \in Nat
    BY <1>1, RowType DEF TablesOK
  <2>2. key \in Keys /\ requests[p].key \in 1..MaxSyncs
    BY <1>1, RequestAt, KeyIsKey DEF Keyed
  <2>3. /\ \A w \in rows : w.key[1] # i /\ w.tx # t
        /\ intents[i].sync = requests[p].key
    BY <1>1, <1>4, FirstCredit
  <2>4. circle[key] = "success"
    BY <1>1, RequestAt
  <2>5. Ends(p, db)
    <3>1. [intents EXCEPT ![i].status = "complete", ![i].verified = t, ![i].lease = NoLease] = db
      BY <1>1 DEF TablesOK, IntentType
    <3> QED BY <1>4, <3>1
  <2>6. /\ r \in IntentType /\ r.ops = intents[i].ops /\ r.dest = intents[i].dest
        /\ r.status = "complete" /\ r.lease.holder = "none"
        /\ r.key = intents[i].key /\ r.sync = intents[i].sync /\ r.verified = t
    BY <2>1 DEF IntentType, Final, NoLease
  <2> HIDE DEF r
  <2>7. p # "none"
    BY FundingConstants
  <2>8. \A j \in DOMAIN intents \ {i} : intents[j].lease.holder # p
    BY RequestAt DEF Agrees
  <2>9. DbOK(intents, DOMAIN txs) /\ intents \in Seq(IntentType)
    BY <1>1, TablesByDb DEF DbOK
  <2>10. r.status \notin Active /\ {r.dest, r.verified} \subseteq {0} \cup DOMAIN txs
    BY <1>1, <2>6, RowType DEF Active, Signing
  <2>11. DbOK(db, DOMAIN txs) /\ db \in Seq(IntentType)
    BY <1>1, <2>6, <2>9, <2>10, OneRow DEF DbOK
  <2>12. /\ DOMAIN db = DOMAIN intents /\ Len(db) = Len(intents) /\ db[i] = r
         /\ \A j \in DOMAIN intents \ {i} : db[j] = intents[j]
    BY <1>1, <2>9
  <2> HIDE DEF db
  <2>13. \A j \in DOMAIN db : db[j].lease.holder # p
    BY <2>6, <2>7, <2>8, <2>12
  <2>14. intents' = db /\ requests' = [requests EXCEPT ![p] = IdleRequest]
    BY <2>5, <2>11, <2>13, NothingHeld
  <2>15. Credited' = Credited \cup {t} /\ Arrived' = Arrived
    <3> DEFINE x == [key |-> key, tx |-> t]
    <3>1. x.tx = t /\ rows' = rows \cup {x} /\ late' = late
      BY <1>1, <1>4
    <3> HIDE DEF x
    <3>2. {w.tx : w \in rows'} = {w.tx : w \in rows} \cup {t}
      BY <3>1
    <3> QED BY <1>1, <3>1, <3>2 DEF Credited, Arrived, chain
  <2>16. t \in Credited <=> t \in late
    BY <2>3 DEF Credited
  <2>17. total_pool' = Cardinality(Credited') /\ total_pool' \in Nat
    <3>1. IsFiniteSet(Credited) /\ total_pool = Cardinality(Credited)
      BY CreditedFinite
    <3>2. Cardinality(Credited \cup {t}) =
            IF t \in Credited THEN Cardinality(Credited) ELSE Cardinality(Credited) + 1
      BY <3>1, FS_AddElement
    <3>3. Cardinality(Credited) \in Nat
      BY <3>1, FS_CardinalityType
    <3>4. total_pool' = total_pool + (IF t \in late THEN 0 ELSE 1)
      BY <1>4 DEF NewlyCredited
    <3> QED BY <2>15, <2>16, <3>1, <3>2, <3>3, <3>4
  <2>18. TablesOK'
    <3>1. rows' \subseteq [key : Keys, tx : DOMAIN txs']
      <4>1. rows \subseteq [key : Keys, tx : DOMAIN txs] /\ txs' = txs
        BY <1>1 DEF TablesOK, chain
      <4>2. [key |-> key, tx |-> t] \in [key : Keys, tx : DOMAIN txs]
        BY <1>1, <2>2
      <4> QED BY <1>4, <4>1, <4>2
    <3>2. DbOK(intents', DOMAIN txs')
      BY <1>1, <2>11, <2>14 DEF chain
    <3> QED
      BY <1>1, <2>17, <3>1, <3>2, TablesNext DEF TablesOK, chain
  <2>19. Grows
    BY <1>1, <2>6, <2>12, <2>14 DEF Grows, chain
  <2>20. IdleRequest \in RequestType /\ IdleRequest.at = "idle"
    BY DEF IdleRequest, RequestType
  <2>21. CallersOK'
    BY <1>1, <2>14, <2>19, <2>20, RequestMoves
  <2>22. requests'[p].at = "idle" /\ \A o \in Requests \ {p} : requests'[o] = requests[o]
    BY <1>1, <2>14, <2>20 DEF CallersOK
  <2>23. KeysAgree'
    BY <1>1, <2>6, <2>12, <2>14, <2>22 DEF FundingInv, KeysAgree, Keyed, chain
  <2>24. ASSUME NEW j \in DOMAIN intents', NEW o \in Requests, intents'[j].lease.holder = o
         PROVE  Agrees(requests'[o], j, intents'[j])
    <3>1. o # p /\ o # "none"
      BY <2>13, <2>14, <2>24, FundingConstants
    <3>2. j # i
      BY <2>6, <2>12, <2>14, <2>24, <3>1
    <3> QED
      BY <2>12, <2>14, <2>22, <2>24, <3>1, <3>2, RequestAt
  <2>25. LeasesAgree'
    BY <2>24 DEF LeasesAgree, Agrees
  <2>26. ASSUME NEW w \in rows'
         PROVE  /\ w.tx \in Arrived' /\ circle'[w.key] = "success" /\ w.key[1] \in DOMAIN intents'
                /\ intents'[w.key[1]].sync = w.key[2] /\ intents'[w.key[1]].verified = w.tx
    <3>1. CASE w \in rows
      <4>1. /\ w.tx \in Arrived /\ circle[w.key] = "success" /\ w.key[1] \in DOMAIN intents \ {i}
            /\ intents[w.key[1]].sync = w.key[2] /\ intents[w.key[1]].verified = w.tx
        BY <2>3, <3>1 DEF FundingInv, CreditsAgree
      <4> QED BY <1>1, <2>12, <2>14, <2>15, <4>1 DEF chain
    <3>2. CASE w = [key |-> key, tx |-> t]
      BY <1>1, <2>3, <2>4, <2>6, <2>12, <2>14, <2>15, <3>2 DEF chain
    <3> QED BY <1>4, <3>1, <3>2
  <2>27. ASSUME NEW o \in Requests
         PROVE  /\ requests'[o].at \in Verified => requests'[o].dest \in Arrived'
                /\ requests'[o].at = "credit" =>
                     circle'[<<requests'[o].intent, requests'[o].key>>] = "success"
    BY <1>1, <2>15, <2>22, RequestAt DEF Verified, chain
  <2>28. late' \subseteq Arrived' /\ scanned' \subseteq Arrived'
    BY <1>1, <2>15 DEF FundingInv, CreditsAgree
  <2>29. CreditsAgree'
    BY <2>17, <2>26, <2>27, <2>28 DEF CreditsAgree
  <2> QED
    BY <2>18, <2>21, <2>23, <2>25, <2>29 DEF FundingInv, TypeOK
<1> QED
  BY <1>2, <1>3, <1>4 DEF ReconcileFunding

\* Every step of a reconcile request, and its loss, keeps the invariant.
LEMMA RequestKeeps ==
  ASSUME FundingInv, DestinationsAgree, NEW p \in Requests, ReconcileStep(p) \/ LoseRequest(p)
  PROVE  FundingInv'
<1>1. CASE LoseRequest(p)
  BY <1>1, RequestLeaves DEF LoseRequest
<1> QED
  BY <1>1, StartKeeps, ClaimsKeep, VerifyKeeps, ReadSyncKeeps, SubmitKeeps, StoreKeeps, AwaitKeeps,
     ReconcileKeeps DEF ReconcileStep

-----------------------------------------------------------------------------
(***************************************************************************)
(* New intents and late funding                                            *)
(***************************************************************************)
\* Creating an intent keeps the invariant.
LEMMA CreateKeeps ==
  ASSUME FundingInv, NEW route \in Routes, CreateFundingIntent(route)
  PROVE  FundingInv'
<1> DEFINE stale == {i \in DOMAIN intents : /\ intents[i].status \in Signing
                                            /\ intents[i].expired
                                            /\ intents[i].dest = 0
                                            /\ intents[i].ops = <<>>}
           old == [i \in DOMAIN intents |->
                     IF i \in stale THEN [intents[i] EXCEPT !.status = "cancelled"] ELSE intents[i]]
           n == Len(intents) + 1
<1>1. TablesOK /\ CallersOK
  BY DEF FundingInv, TypeOK
<1>2. UNCHANGED <<chain, rows, late, total_pool, tabs, requests, scanned>>
      /\ Len(intents) < MaxIntents /\ (\A i \in DOMAIN intents \ stale : intents[i].status \notin Active)
      /\ intents' = Append(old, NewIntent(route))
  BY DEF CreateFundingIntent
<1>3. intents \in Seq(IntentType) /\ DOMAIN intents = 1..Len(intents) /\ Len(intents) \in Nat
  BY <1>1 DEF TablesOK
<1> HIDE DEF stale
<1>4. ASSUME NEW i \in DOMAIN intents
      PROVE  /\ old[i] \in IntentType /\ old[i].status \notin Active
             /\ old[i].dest = intents[i].dest /\ old[i].verified = intents[i].verified
             /\ old[i].key = intents[i].key /\ old[i].sync = intents[i].sync
             /\ old[i].ops = intents[i].ops /\ old[i].lease = intents[i].lease
  <2>1. intents[i] \in IntentType
    BY <1>3
  <2>2. CASE i \in stale
    <3>1. old[i] = [intents[i] EXCEPT !.status = "cancelled"]
      BY <2>2
    <3>2. "cancelled" \in Final /\ "cancelled" \notin Active
      BY DEF Final, Active, Signing
    <3> QED BY <2>1, <3>1, <3>2 DEF IntentType
  <2>3. CASE i \notin stale
    BY <1>2, <2>1, <2>3
  <2> QED BY <2>2, <2>3
<1>5. old \in Seq(IntentType) /\ Len(old) = Len(intents) /\ DOMAIN old = DOMAIN intents
  BY <1>3, <1>4
<1> HIDE DEF old
<1>6. /\ NewIntent(route) \in IntentType
      /\ NewIntent(route).dest = 0 /\ NewIntent(route).verified = 0 /\ NewIntent(route).sync = 0
      /\ NewIntent(route).key = 1 /\ NewIntent(route).lease.holder = "none"
  <2>1. totalFunded \in Nat /\ <<>> \in Seq(AttemptType)
    BY <1>1 DEF TablesOK
  <2> QED BY <2>1 DEF NewIntent, IntentType, NoLease, Active, Signing
<1>7. /\ intents' \in Seq(IntentType) /\ Len(intents') = n /\ DOMAIN intents' = DOMAIN intents \cup {n}
      /\ n \notin DOMAIN intents /\ intents'[n] = NewIntent(route)
      /\ \A i \in DOMAIN intents : intents'[i] = old[i]
  BY <1>2, <1>3, <1>5, <1>6
<1>8. DbOK(intents', DOMAIN txs)
  <2>1. ASSUME NEW i \in DOMAIN intents'
        PROVE  {intents'[i].dest, intents'[i].verified} \subseteq {0} \cup DOMAIN txs
    <3>1. CASE i = n
      BY <1>6, <1>7, <3>1
    <3>2. CASE i \in DOMAIN intents
      <4>1. {intents[i].dest, intents[i].verified} \subseteq {0} \cup DOMAIN txs
        BY <1>1, <3>2 DEF TablesOK
      <4> QED BY <1>4, <1>7, <3>2, <4>1
    <3> QED BY <1>7, <3>1, <3>2
  <2>2. ASSUME NEW i \in DOMAIN intents', NEW j \in DOMAIN intents', i # j,
               intents'[i].status \in Active
        PROVE  intents'[j].status \notin Active
    BY <1>4, <1>7, <2>2
  <2> QED BY <1>7, <2>1, <2>2 DEF DbOK
<1>9. TablesOK'
  BY <1>1, <1>2, <1>8, TablesStay DEF chain
<1>10. Grows
  BY <1>2, <1>4, <1>7 DEF Grows, chain
<1>11. CallersOK'
  BY <1>1, <1>2, <1>10, CallersStay
<1>12. KeysAgree'
  <2>1. Len(intents') <= MaxIntents
    BY <1>2, <1>3, <1>7, FundingConstants
  <2>2. ASSUME NEW i \in DOMAIN intents'
        PROVE  intents'[i].key \in 1..MaxSyncs /\ intents'[i].sync \in {0, intents'[i].key}
    BY <1>4, <1>6, <1>7, FundingConstants DEF FundingInv, KeysAgree
  <2> QED
    BY <1>2, <2>1, <2>2 DEF FundingInv, KeysAgree, chain
<1>13. ASSUME NEW i \in DOMAIN intents', NEW p \in Requests, intents'[i].lease.holder = p
       PROVE  Agrees(requests'[p], i, intents'[i])
  <2>1. i \in DOMAIN intents
    BY <1>6, <1>7, <1>13, FundingConstants
  <2>2. intents[i].lease.holder = p /\ requests'[p] = requests[p]
    BY <1>2, <1>4, <1>7, <1>13, <2>1
  <2>3. Agrees(requests[p], i, intents[i])
    BY <2>1, <2>2, RequestAt
  <2> QED BY <1>4, <1>7, <2>1, <2>2, <2>3 DEF Agrees
<1>14. LeasesAgree'
  BY <1>13 DEF LeasesAgree, Agrees
<1>15. Credited' = Credited /\ Arrived' = Arrived
  BY <1>2 DEF Credited, Arrived, chain
<1>16. ASSUME NEW w \in rows'
       PROVE  /\ w.tx \in Arrived' /\ circle'[w.key] = "success" /\ w.key[1] \in DOMAIN intents'
              /\ intents'[w.key[1]].sync = w.key[2] /\ intents'[w.key[1]].verified = w.tx
  <2>1. /\ w.tx \in Arrived /\ circle[w.key] = "success" /\ w.key[1] \in DOMAIN intents
        /\ intents[w.key[1]].sync = w.key[2] /\ intents[w.key[1]].verified = w.tx
    BY <1>2 DEF FundingInv, CreditsAgree
  <2> QED BY <1>2, <1>4, <1>7, <1>15, <2>1 DEF chain
<1>17. CreditsAgree'
  BY <1>2, <1>15, <1>16 DEF FundingInv, CreditsAgree, chain
<1> QED
  BY <1>9, <1>11, <1>12, <1>14, <1>17 DEF FundingInv, TypeOK

\* What the late scan finds arrived and was credited by nobody.
LEMMA FoundIsNew ==
  ASSUME FundingInv, NEW seen \in SUBSET Arrived, NEW again \in {{}, scanned},
         NEW found, found = {t \in again \cup (seen \ scanned) : ~Claimed(t)} \ late
  PROVE  found \subseteq Arrived /\ found \cap Credited = {}
<1>1. found \subseteq Arrived
  BY DEF FundingInv, CreditsAgree
<1>2. ASSUME NEW t \in found, NEW w \in rows PROVE w.tx # t
  <2>1. w.key[1] \in DOMAIN intents /\ intents[w.key[1]].verified = w.tx
    BY DEF FundingInv, CreditsAgree
  <2> QED BY <2>1 DEF Claimed
<1> QED
  BY <1>1, <1>2 DEF Credited

\* Crediting late funding keeps the invariant.
LEMMA LateKeeps ==
  ASSUME FundingInv, LateFunding
  PROVE  FundingInv'
<1>1. PICK seen \in SUBSET Arrived, again \in {{}, scanned} : ReconcileLateFunding(seen, again)
  BY DEF LateFunding
<1> DEFINE found == {t \in again \cup (seen \ scanned) : ~Claimed(t)} \ late
<1>2. /\ TablesOK /\ CallersOK /\ UNCHANGED <<chain, intents, rows, tabs, requests>>
      /\ late' = late \cup found /\ total_pool' = total_pool + Cardinality(found)
      /\ scanned' \in {scanned, seen}
  BY <1>1 DEF ReconcileLateFunding, FundingInv, TypeOK
<1>3. found \subseteq Arrived /\ found \cap Credited = {}
  BY <1>1, FoundIsNew
<1> HIDE DEF found
<1>4. IsFiniteSet(found) /\ found \subseteq DOMAIN txs
  BY <1>2, <1>3, TransfersFinite, FS_Subset
<1>5. Credited' = Credited \cup found /\ Arrived' = Arrived
  BY <1>2 DEF Credited, Arrived, chain
<1>6. IsFiniteSet(Credited) /\ total_pool = Cardinality(Credited)
  BY CreditedFinite
<1>7. total_pool' = Cardinality(Credited') /\ total_pool' \in Nat
  <2>1. Cardinality(Credited \cup found) =
          Cardinality(Credited) + Cardinality(found) - Cardinality(Credited \cap found)
    BY <1>4, <1>6, FS_Union
  <2>2. Credited \cap found = {} /\ Cardinality({}) = 0
    BY <1>3, FS_EmptySet
  <2>3. Cardinality(Credited) \in Nat /\ Cardinality(found) \in Nat
    BY <1>4, <1>6, FS_CardinalityType
  <2>4. Cardinality(Credited \cup found) = Cardinality(Credited) + Cardinality(found)
    BY <2>1, <2>2, <2>3
  <2>5. Cardinality(Credited') = Cardinality(Credited \cup found)
    BY <1>5, Zenon
  <2> QED BY <1>2, <1>6, <2>3, <2>4, <2>5
<1>8. TablesOK'
  <2>1. DbOK(intents', DOMAIN txs')
    BY <1>2, TablesByDb DEF chain
  <2>2. late' \subseteq DOMAIN txs' /\ rows' \subseteq [key : Keys, tx : DOMAIN txs']
    BY <1>2, <1>4 DEF TablesOK, chain
  <2> QED
    BY <1>2, <1>7, <2>1, <2>2, TablesNext DEF TablesOK, chain
<1>9. Grows
  BY <1>2 DEF Grows, chain
<1>10. CallersOK'
  BY <1>2, <1>9, CallersStay
<1>11. KeysAgree' /\ LeasesAgree'
  BY <1>2 DEF FundingInv, KeysAgree, LeasesAgree, chain
<1>12. CreditsAgree'
  <2>1. late' \subseteq Arrived' /\ scanned' \subseteq Arrived'
    BY <1>2, <1>3, <1>5 DEF FundingInv, CreditsAgree
  <2> QED
    BY <1>2, <1>5, <1>7, <2>1 DEF FundingInv, CreditsAgree, chain
<1> QED
  BY <1>8, <1>10, <1>11, <1>12 DEF FundingInv, TypeOK

\* Every step keeps the invariant, where the destinations agree.
LEMMA StepKeeps ==
  ASSUME FundingInv, DestinationsAgree, [Next]_vars
  PROVE  FundingInv'
<1>1. CASE Next
  BY <1>1, MineKeeps, RunSyncKeeps, CreateKeeps, IntentKeeps, TabKeeps, RequestKeeps, EndKeeps, LateKeeps
  DEF Next
<1>2. CASE UNCHANGED vars
  <2>1. UNCHANGED <<chain, database, tabs, requests, scanned>>
    BY <1>2 DEF vars
  <2>2. TablesOK /\ CallersOK /\ DbOK(intents', DOMAIN txs)
    BY <2>1, TablesByDb DEF FundingInv, TypeOK, database
  <2>3. TablesOK'
    BY <2>1, <2>2, TablesStay DEF chain, database
  <2>4. Grows /\ Quiet(intents, intents')
    BY <2>1 DEF Grows, Quiet, chain, database
  <2>5. CallersOK'
    BY <2>1, <2>2, <2>4, CallersStay
  <2>6. Arrived \subseteq Arrived' /\ Len(txs') <= MaxTransfers
    BY <2>1 DEF Arrived, chain, FundingInv, KeysAgree
  <2> QED
    BY <2>1, <2>3, <2>4, <2>5, <2>6, QuietStep DEF TypeOK, chain, database
<1> QED
  BY <1>1, <1>2

-----------------------------------------------------------------------------
(***************************************************************************)
(* Destinations                                                            *)
(***************************************************************************)
Standing == DOMAIN txs \ Reverted

\* What intent i may become: a destination that stands is backed by an open
\* attempt and is not taken away, and who keeps the lease of an intent with
\* such a destination finds it active.
KeepsDest(i, r) ==
  /\ r.dest \in {0} \cup DOMAIN txs
  /\ r.dest \in Standing => \E n \in DOMAIN r.ops : r.ops[n].status # "failed" /\ r.ops[n].tx = r.dest
  /\ intents[i].dest \in Standing => r.dest = intents[i].dest
  /\ \/ r.status \in Active
     \/ r.lease.holder \notin Requests
     \/ /\ r.lease.holder = intents[i].lease.holder
        /\ r.status = intents[i].status \/ intents[i].dest \notin Standing

AllKeep(new) == DOMAIN intents \subseteq DOMAIN new /\ \A i \in DOMAIN intents : KeepsDest(i, new[i])

\* The destinations agree after a step in which every intent keeps its own and
\* requests go on with what they read, end, or read it now.
LEMMA DestStep ==
  ASSUME FundingInv, DestinationsAgree, FundingInv', AllKeep(intents'),
         \A i \in DOMAIN intents' \ DOMAIN intents :
           intents'[i].dest = 0 /\ intents'[i].lease.holder \notin Requests,
         DOMAIN txs \subseteq DOMAIN txs', Reverted \subseteq Reverted',
         \A q \in Requests :
           \/ requests'[q].at = "idle"
           \/ /\ requests[q].at # "idle" /\ requests'[q].intent = requests[q].intent
              /\ requests'[q].dest = requests[q].dest
           \/ /\ requests'[q].at = "claim" /\ requests'[q].intent \in DOMAIN intents
              /\ requests'[q].dest = intents'[requests'[q].intent].dest
  PROVE  DestinationsAgree'
<1>1. ASSUME NEW i \in DOMAIN intents', intents'[i].dest \in DOMAIN txs' \ Reverted'
      PROVE  \E n \in OpenAttempts(i)' : intents'[i].ops[n].tx = intents'[i].dest
  <2>1. 0 \notin DOMAIN txs'
    BY DEF FundingInv, TypeOK, TablesOK
  <2>2. i \in DOMAIN intents
    BY <1>1, <2>1
  <2>3. KeepsDest(i, intents'[i])
    BY <2>2 DEF AllKeep
  <2>4. intents'[i].dest \in Standing
    BY <1>1, <2>1, <2>3 DEF KeepsDest, Standing
  <2> QED
    BY <2>3, <2>4 DEF KeepsDest, OpenAttempts
<1>2. ASSUME NEW q \in Requests, requests'[q].at # "idle", requests'[q].dest \notin Reverted'
      PROVE  intents'[requests'[q].intent].dest = requests'[q].dest
  <2>1. CASE /\ requests[q].at # "idle" /\ requests'[q].intent = requests[q].intent
             /\ requests'[q].dest = requests[q].dest
    <3>1. requests[q].intent \in DOMAIN intents /\ requests[q].dest \in Standing
      BY <1>2, <2>1, RequestAt DEF Standing
    <3>2. intents[requests[q].intent].dest = requests[q].dest
      BY <2>1, <3>1 DEF DestinationsAgree, Standing
    <3> QED
      BY <2>1, <3>1, <3>2 DEF AllKeep, KeepsDest
  <2> QED
    BY <1>2, <2>1
<1>3. ASSUME NEW i \in DOMAIN intents', NEW p \in Requests, intents'[i].lease.holder = p,
             requests'[p].dest \notin Reverted'
      PROVE  intents'[i].status \in Active
  <2>1. /\ requests'[p].intent = i /\ requests'[p].at \in Verified \cup {"verify"}
    BY <1>3 DEF FundingInv, LeasesAgree
  <2>2. /\ requests[p].at # "idle" /\ requests[p].intent = i
        /\ requests'[p].dest = requests[p].dest
    BY <2>1 DEF Verified
  <2>3. i \in DOMAIN intents /\ requests[p].dest \in Standing
    BY <1>3, <2>2, RequestAt DEF Standing
  <2>4. intents[i].dest \in Standing
    BY <2>2, <2>3 DEF DestinationsAgree, Standing
  <2>5. KeepsDest(i, intents'[i])
    BY <2>3 DEF AllKeep
  <2>6. CASE intents'[i].lease.holder = intents[i].lease.holder /\ intents'[i].status = intents[i].status
    BY <1>3, <2>3, <2>6 DEF DestinationsAgree, Standing
  <2> QED
    BY <1>3, <2>4, <2>5, <2>6 DEF KeepsDest
<1> QED
  BY <1>1, <1>2, <1>3 DEF DestinationsAgree

\* An intent that keeps its destination and attempts keeps the rest too, if it
\* is active, not held, or as before.
LEMMA SameDest ==
  ASSUME FundingInv, DestinationsAgree, NEW i \in DOMAIN intents, NEW r,
         r.dest = intents[i].dest, r.ops = intents[i].ops,
         \/ r.status \in Active
         \/ r.lease.holder \notin Requests
         \/ /\ r.lease.holder = intents[i].lease.holder
            /\ r.status = intents[i].status \/ intents[i].dest \notin Standing
  PROVE  KeepsDest(i, r)
<1>1. intents[i].dest \in {0} \cup DOMAIN txs
  BY DEF FundingInv, TypeOK, TablesOK
<1>2. intents[i].dest \in Standing => \E n \in DOMAIN intents[i].ops :
         intents[i].ops[n].status # "failed" /\ intents[i].ops[n].tx = intents[i].dest
  BY DEF DestinationsAgree, OpenAttempts, Standing
<1> QED
  BY <1>1, <1>2 DEF KeepsDest

\* Intents that stay keep their destinations.
LEMMA AllSame ==
  ASSUME FundingInv, DestinationsAgree
  PROVE  AllKeep(intents)
BY SameDest DEF AllKeep

\* One intent changes, and keeps its destination.
LEMMA RowDest ==
  ASSUME FundingInv, DestinationsAgree, NEW i \in DOMAIN intents, NEW r, KeepsDest(i, r)
  PROVE  AllKeep([intents EXCEPT ![i] = r])
<1>1. [intents EXCEPT ![i] = r][i] = r /\ DOMAIN [intents EXCEPT ![i] = r] = DOMAIN intents
  BY DEF FundingInv, TypeOK, TablesOK
<1>2. \A j \in DOMAIN intents \ {i} : [intents EXCEPT ![i] = r][j] = intents[j]
  BY DEF FundingInv, TypeOK, TablesOK
<1>3. \A j \in DOMAIN intents \ {i} : KeepsDest(j, intents[j])
  BY AllSame DEF AllKeep
<1> QED
  BY <1>1, <1>2, <1>3 DEF AllKeep

\* A request that ends takes no destination away.
LEMMA EndsDest ==
  ASSUME FundingInv, NEW p, NEW db, Ends(p, db), db \in Seq(IntentType), AllKeep(db)
  PROVE  AllKeep(intents')
<1>1. DOMAIN intents' = DOMAIN db
  BY DEF Ends
<1>2. ASSUME NEW i \in DOMAIN intents PROVE KeepsDest(i, intents'[i])
  <2>1. i \in DOMAIN db /\ KeepsDest(i, db[i]) /\ db[i] \in IntentType
    BY DEF AllKeep
  <2>2. intents'[i] = IF db[i].lease.holder = p THEN [db[i] EXCEPT !.lease.holder = "gone"] ELSE db[i]
    BY <2>1 DEF Ends
  <2>3. CASE db[i].lease.holder = p
    <3>1. "gone" \notin Requests
      BY FundingConstants
    <3>2. /\ intents'[i].dest = db[i].dest /\ intents'[i].ops = db[i].ops
          /\ intents'[i].lease.holder = "gone"
      BY <2>1, <2>2, <2>3 DEF IntentType
    <3> QED BY <2>1, <3>1, <3>2 DEF KeepsDest
  <2>4. CASE db[i].lease.holder # p
    BY <2>1, <2>2, <2>4
  <2> QED BY <2>3, <2>4
<1> QED
  BY <1>1, <1>2 DEF AllKeep

\* An attempt that moves with the destination.
LEMMA MovedDest ==
  ASSUME FundingInv, DestinationsAgree, NEW i \in DOMAIN intents,
         NEW n \in DOMAIN intents[i].ops, NEW a, NEW s \in Active, NEW d \in {0} \cup DOMAIN txs,
         a.status # "failed", d \in {0, a.tx}, intents[i].dest \in {0, d}
  PROVE  AllKeep(Moved(i, n, a, s, d))
<1> DEFINE o == [intents[i].ops EXCEPT ![n] = a]
           r == [intents[i] EXCEPT !.ops = o, !.status = s, !.dest = d]
<1>1. TablesOK /\ intents[i] \in IntentType
  BY RowType DEF FundingInv, TypeOK
<1>2. Moved(i, n, a, s, d) = [intents EXCEPT ![i] = r]
  BY DEF Moved
<1>3. o[n] = a /\ n \in DOMAIN o
  BY <1>1, RowType
<1> HIDE DEF o
<1>4. r.ops = o /\ r.status = s /\ r.dest = d
  BY <1>1 DEF IntentType
<1> HIDE DEF r
<1>5. 0 \notin Standing
  BY <1>1 DEF Standing, TablesOK
<1>6. KeepsDest(i, r)
  BY <1>3, <1>4, <1>5 DEF KeepsDest
<1> QED
  BY <1>2, <1>6, RowDest

\* A reverted attempt takes only its own destination along.
LEMMA FailedDest ==
  ASSUME FundingInv, DestinationsAgree, NEW i \in DOMAIN intents,
         NEW n \in DOMAIN intents[i].ops, intents[i].ops[n].tx \in Reverted
  PROVE  AllKeep(DestinationFailed(i, n))
<1> DEFINE a == [intents[i].ops[n] EXCEPT !.status = "failed", !.reverted = TRUE]
           o == [intents[i].ops EXCEPT ![n] = a]
           d == IF intents[i].dest = intents[i].ops[n].tx THEN 0 ELSE intents[i].dest
           s == IF intents[i].route = "send" THEN "ready_to_sign" ELSE "source_submitted"
           r == [intents[i] EXCEPT !.ops = o, !.dest = d, !.status = s, !.lease = NoLease]
<1>1. TablesOK /\ intents[i] \in IntentType /\ intents[i].ops \in Seq(AttemptType)
      /\ intents[i].dest \in {0} \cup DOMAIN txs
  BY RowType DEF FundingInv, TypeOK
<1>2. DestinationFailed(i, n) = [intents EXCEPT ![i] = r]
  BY <1>1 DEF DestinationFailed, IntentType
<1>3. s \in Active
  BY DEF Active, Signing
<1> HIDE DEF a, s
<1>4. DOMAIN o = DOMAIN intents[i].ops /\ \A m \in DOMAIN o \ {n} : o[m] = intents[i].ops[m]
  BY <1>1
<1>5. 0 \notin Standing /\ d \in {0} \cup DOMAIN txs
  BY <1>1 DEF Standing, TablesOK
<1>6. ASSUME intents[i].dest \in Standing
      PROVE  /\ d = intents[i].dest
             /\ \E m \in DOMAIN o : o[m].status # "failed" /\ o[m].tx = d
  <2>1. PICK m \in DOMAIN intents[i].ops :
          intents[i].ops[m].status # "failed" /\ intents[i].ops[m].tx = intents[i].dest
    BY <1>6 DEF DestinationsAgree, OpenAttempts, Standing
  <2>2. m # n /\ intents[i].dest # intents[i].ops[n].tx
    BY <1>6, <2>1 DEF Standing
  <2> QED BY <1>4, <2>1, <2>2
<1>7. d \in Standing => intents[i].dest \in Standing
  BY <1>5
<1> HIDE DEF o, d
<1>8. r.ops = o /\ r.status = s /\ r.dest = d
  BY <1>1 DEF IntentType
<1> HIDE DEF r
<1>9. KeepsDest(i, r)
  BY <1>3, <1>5, <1>6, <1>7, <1>8 DEF KeepsDest
<1> QED
  BY <1>2, <1>9, RowDest

\* No step of a tab takes a destination away.
LEMMA TabDest ==
  ASSUME FundingInv, DestinationsAgree, NEW b \in Tabs, TabStep(b)
  PROVE  AllKeep(intents') /\ DOMAIN intents' = DOMAIN intents
<1> DEFINE i == tabs[b].intent
           n == tabs[b].attempt
<1>1. TablesOK
  BY DEF FundingInv, TypeOK
<1>2. CASE UNCHANGED intents
  BY <1>2, AllSame
<1>3. CASE ClaimAttempt(b) /\ ~UNCHANGED intents
  <2> DEFINE r == [intents[i] EXCEPT !.ops = <<Attempt>>, !.status = "awaiting_signature"]
  <2>1. i \in DOMAIN intents /\ intents[i].ops = <<>>
        /\ intents' = [intents EXCEPT ![i].ops = <<Attempt>>, ![i].status = "awaiting_signature"]
    BY <1>3, TabAt DEF ClaimAttempt
  <2>2. intents[i] \in IntentType
    BY <1>1, <2>1, RowType
  <2>3. intents' = [intents EXCEPT ![i] = r]
    BY <1>1, <2>1 DEF TablesOK, IntentType
  <2>4. r.dest = intents[i].dest /\ r.status \in Active
    BY <2>2 DEF IntentType, Active, Signing
  <2>5. intents[i].dest \notin Standing
    BY <2>1 DEF DestinationsAgree, OpenAttempts, Standing
  <2> HIDE DEF r
  <2>6. KeepsDest(i, r)
    BY <1>1, <2>1, <2>4, <2>5, RowType DEF KeepsDest
  <2>7. i \in DOMAIN intents
    BY <2>1
  <2>8. DOMAIN [intents EXCEPT ![i] = r] = DOMAIN intents
    BY <1>1 DEF TablesOK
  <2> QED BY <2>3, <2>6, <2>7, <2>8, RowDest
<1>4. CASE CreateReplacement(b) /\ ~UNCHANGED intents
  <2> DEFINE o == Append(intents[i].ops, Attempt)
             r == [intents[i] EXCEPT !.ops = o, !.dest = 0, !.status = "ready_to_sign",
                                     !.lease = NoLease]
  <2>1. i \in DOMAIN intents /\ CanReplace(i)
        /\ intents' = [intents EXCEPT ![i].ops = Append(@, Attempt), ![i].dest = 0,
                                      ![i].status = "ready_to_sign", ![i].lease = NoLease]
    BY <1>4, TabAt DEF CreateReplacement
  <2>2. intents[i] \in IntentType
    BY <1>1, <2>1, RowType
  <2>3. intents' = [intents EXCEPT ![i] = r]
    BY <1>1, <2>1 DEF TablesOK, IntentType
  <2> HIDE DEF o
  <2>4. r.dest = 0 /\ r.status \in Active /\ 0 \notin Standing
    BY <1>1, <2>2 DEF IntentType, Active, Signing, Standing, TablesOK
  <2>5. intents[i].dest \notin Standing
    BY <2>1 DEF CanReplace, DestinationsAgree, Standing
  <2> HIDE DEF r
  <2>6. KeepsDest(i, r)
    BY <2>4, <2>5 DEF KeepsDest
  <2>7. i \in DOMAIN intents
    BY <2>1
  <2>8. DOMAIN [intents EXCEPT ![i] = r] = DOMAIN intents
    BY <1>1 DEF TablesOK
  <2> QED BY <2>3, <2>6, <2>7, <2>8, RowDest
<1>5. ASSUME NEW m \in DOMAIN intents[i].ops, i \in DOMAIN intents, NEW a, NEW s \in Active,
             NEW d \in {0} \cup DOMAIN txs,
             intents' = Moved(i, m, a, s, d), a.status # "failed", d \in {0, a.tx},
             intents[i].dest \in {0, d}
      PROVE  AllKeep(intents') /\ DOMAIN intents' = DOMAIN intents
  <2>1. AllKeep(intents')
    BY <1>5, MovedDest
  <2> QED BY <1>5, <2>1 DEF Moved
<1>6. CASE ArmAttempt(b) /\ ~UNCHANGED intents
  <2>1. PICK m \in OpenAttempts(i) :
          /\ CanArm(i, m)
          /\ intents' = Moved(i, m, [intents[i].ops[m] EXCEPT !.token = <<b, n>>,
                                       !.status = "submission_uncertain"],
                              "source_submitted", intents[i].dest)
    BY <1>6 DEF ArmAttempt
  <2> DEFINE a == [intents[i].ops[m] EXCEPT !.token = <<b, n>>, !.status = "submission_uncertain"]
  <2>2. i \in DOMAIN intents /\ m \in DOMAIN intents[i].ops /\ intents[i].dest = 0
    BY <1>6, <2>1, TabAt DEF ArmAttempt, OpenAttempts, CanArm
  <2>3. intents[i].ops[m] \in AttemptType
    BY <1>1, <2>2, RowType
  <2>4. a.status # "failed"
    BY <2>3 DEF AttemptType
  <2>5. intents' = Moved(i, m, a, "source_submitted", 0) /\ "source_submitted" \in Active
    BY <2>1, <2>2 DEF Active
  <2> HIDE DEF a
  <2> QED BY <1>5, <2>2, <2>4, <2>5
<1>7. CASE ObserveDestination(b) /\ ~UNCHANGED intents
  <2> DEFINE t == tabs[b].tx
             a == [intents[i].ops[n] EXCEPT !.tx = t, !.status = "pending"]
  <2>1. /\ i \in DOMAIN intents /\ n \in DOMAIN intents[i].ops /\ t \in DOMAIN txs
        /\ intents[i].dest \in {0, t} /\ "delivery_pending" \in Active
        /\ intents' = Moved(i, n, a, "delivery_pending", t)
    BY <1>7, TabAt DEF ObserveDestination, CanObserve, Active
  <2>2. intents[i].ops[n] \in AttemptType
    BY <1>1, <2>1, RowType
  <2>3. a.status # "failed" /\ a.tx = t
    BY <2>2 DEF AttemptType
  <2> HIDE DEF a
  <2> QED BY <1>5, <2>1, <2>3
<1>8. CASE ReleaseRejected(b) /\ ~UNCHANGED intents
  <2> DEFINE a == [intents[i].ops[n] EXCEPT !.status = "awaiting_signature", !.token = NoToken]
  <2>1. /\ i \in DOMAIN intents /\ n \in DOMAIN intents[i].ops
        /\ intents[i].dest = 0 /\ "awaiting_signature" \in Active
        /\ intents' = Moved(i, n, a, "awaiting_signature", 0)
    BY <1>8, TabAt DEF ReleaseRejected, CanRelease, Active, Signing
  <2>2. intents[i].ops[n] \in AttemptType
    BY <1>1, <2>1, RowType
  <2>3. a.status # "failed"
    BY <2>2 DEF AttemptType
  <2> HIDE DEF a
  <2> QED BY <1>5, <2>1, <2>3
<1>9. CASE ReportUncertain(b)
  <2> DEFINE s == IF Owns(b, i, n) /\ Unrivalled(i) /\ intents[i].ops[n].status = "submission_uncertain"
                  THEN "source_submitted" ELSE intents[i].status
             r == [intents[i] EXCEPT !.status = s]
  <2>1. i \in DOMAIN intents
    BY <1>9, TabAt DEF ReportUncertain
  <2>2. intents[i] \in IntentType
    BY <1>1, <2>1, RowType
  <2>3. intents' = [intents EXCEPT ![i] = r]
    BY <1>1, <1>9 DEF ReportUncertain, TablesOK, IntentType
  <2>4. s \in Active \/ s = intents[i].status
    BY DEF Active
  <2> HIDE DEF s
  <2>5. r.dest = intents[i].dest /\ r.ops = intents[i].ops /\ r.lease = intents[i].lease /\ r.status = s
    BY <2>2 DEF IntentType
  <2> HIDE DEF r
  <2>6. KeepsDest(i, r)
    BY <2>1, <2>4, <2>5, SameDest
  <2>7. i \in DOMAIN intents
    BY <2>1
  <2>8. DOMAIN [intents EXCEPT ![i] = r] = DOMAIN intents
    BY <1>1 DEF TablesOK
  <2> QED BY <2>3, <2>6, <2>7, <2>8, RowDest
<1>10. ASSUME NEW j \in DOMAIN intents, ContinueFunding(b, j) PROVE UNCHANGED intents
  BY <1>10 DEF ContinueFunding, database
<1>11. PromptWallet(b) => UNCHANGED intents
  BY DEF PromptWallet, database
<1> QED
  BY <1>2, <1>3, <1>4, <1>6, <1>7, <1>8, <1>9, <1>10, <1>11 DEF TabStep

\* No step of an intent takes a destination away.
LEMMA IntentDest ==
  ASSUME FundingInv, DestinationsAgree, NEW i \in DOMAIN intents, IntentStep(i)
  PROVE  AllKeep(intents') /\ DOMAIN intents' = DOMAIN intents
<1>1. TablesOK /\ intents[i] \in IntentType
  BY RowType DEF FundingInv, TypeOK
<1>2. ASSUME NEW r, intents' = [intents EXCEPT ![i] = r], KeepsDest(i, r)
      PROVE  AllKeep(intents') /\ DOMAIN intents' = DOMAIN intents
  BY <1>1, <1>2, RowDest DEF TablesOK
<1>3. CASE Expire(i)
  <2> DEFINE r == [intents[i] EXCEPT !.expired = TRUE]
  <2>1. intents' = [intents EXCEPT ![i] = r]
    BY <1>1, <1>3 DEF Expire, TablesOK, IntentType
  <2>2. /\ r.ops = intents[i].ops /\ r.dest = intents[i].dest
        /\ r.status = intents[i].status /\ r.lease = intents[i].lease
    BY <1>1 DEF IntentType
  <2> HIDE DEF r
  <2> QED BY <1>2, <2>1, <2>2, SameDest
<1>4. CASE LeaseLapses(i)
  <2> DEFINE l == [intents[i].lease EXCEPT !.live = FALSE]
             r == [intents[i] EXCEPT !.lease = l]
  <2>1. l.holder = intents[i].lease.holder
    BY <1>1, RowType
  <2>2. intents' = [intents EXCEPT ![i] = r]
    BY <1>1, <1>4 DEF LeaseLapses, TablesOK, IntentType
  <2> HIDE DEF l
  <2>3. /\ r.ops = intents[i].ops /\ r.dest = intents[i].dest
        /\ r.status = intents[i].status /\ r.lease = l
    BY <1>1 DEF IntentType
  <2> HIDE DEF r
  <2> QED BY <1>2, <2>1, <2>2, <2>3, SameDest
<1>5. CASE CancelFundingIntent(i)
  <2> DEFINE o == [n \in DOMAIN intents[i].ops |-> [intents[i].ops[n] EXCEPT !.status = "failed"]]
             r == [intents[i] EXCEPT !.status = "cancelled", !.lease = NoLease, !.ops = o]
  <2>1. intents' = [intents EXCEPT ![i] = r]
    BY <1>1, <1>5 DEF CancelFundingIntent, TablesOK, IntentType
  <2> HIDE DEF o
  <2>2. r.dest = 0 /\ r.lease.holder = "none"
    BY <1>1, <1>5 DEF CancelFundingIntent, CanCancel, IntentType, NoLease
  <2> HIDE DEF r
  <2>3. 0 \notin Standing /\ "none" \notin Requests /\ intents[i].dest = 0
    BY <1>1, <1>5, FundingConstants DEF Standing, TablesOK, CancelFundingIntent, CanCancel
  <2>4. KeepsDest(i, r)
    BY <2>2, <2>3 DEF KeepsDest
  <2> QED BY <1>2, <2>1, <2>4
<1>6. ASSUME NEW n \in DOMAIN intents[i].ops, CheckFundingRecovery(i, n)
      PROVE  AllKeep(intents') /\ DOMAIN intents' = DOMAIN intents
  <2>1. AllKeep(intents')
    BY <1>6, FailedDest DEF CheckFundingRecovery, HasReverted
  <2> QED BY <1>6, <2>1 DEF CheckFundingRecovery, DestinationFailed
<1>7. ASSUME NEW n \in DOMAIN intents[i].ops, NEW t \in DOMAIN txs, AttachDestinationHash(i, n, t)
      PROVE  AllKeep(intents') /\ DOMAIN intents' = DOMAIN intents
  <2> DEFINE a == [intents[i].ops[n] EXCEPT !.tx = t, !.status = "submitted"]
  <2>1. intents[i].ops[n] \in AttemptType
    BY <1>1, RowType
  <2>2. a.status # "failed" /\ a.tx = t
    BY <2>1 DEF AttemptType
  <2>3. intents' = Moved(i, n, a, "destination_submitted", t) /\ "destination_submitted" \in Active
        /\ intents[i].dest \in {0, t}
    BY <1>7 DEF AttachDestinationHash, Active
  <2> HIDE DEF a
  <2>4. AllKeep(intents')
    BY <1>7, <2>2, <2>3, MovedDest
  <2> QED BY <2>3, <2>4 DEF Moved
<1> QED
  BY <1>3, <1>4, <1>5, <1>6, <1>7 DEF IntentStep

\* No step of a reconcile request takes a destination away.
LEMMA RequestDest ==
  ASSUME FundingInv, DestinationsAgree, NEW p \in Requests, ReconcileStep(p) \/ LoseRequest(p)
  PROVE  AllKeep(intents')
<1> DEFINE i == requests[p].intent
           t == requests[p].dest
<1>1. TablesOK /\ intents \in Seq(IntentType)
  BY DEF FundingInv, TypeOK, TablesOK
<1>2. CASE UNCHANGED intents
  BY <1>2, AllSame
<1>3. ASSUME NEW db, Ends(p, db), db \in Seq(IntentType), AllKeep(db) PROVE AllKeep(intents')
  BY <1>3, EndsDest
<1>4. CASE Ends(p, intents)
  BY <1>1, <1>3, <1>4, AllSame
<1>5. ASSUME requests[p].at # "idle" PROVE i \in DOMAIN intents /\ intents[i] \in IntentType
  BY <1>1, <1>5, RequestAt, RowType
<1>6. ASSUME i \in DOMAIN intents, NEW r \in IntentType, KeepsDest(i, r),
             intents' = [intents EXCEPT ![i] = r] \/ Ends(p, [intents EXCEPT ![i] = r])
      PROVE  AllKeep(intents')
  <2>1. AllKeep([intents EXCEPT ![i] = r])
    BY <1>6, RowDest
  <2>2. [intents EXCEPT ![i] = r] \in Seq(IntentType)
    BY <1>1, <1>6
  <2> QED BY <1>3, <1>6, <2>1, <2>2
<1>7. CASE ClaimReconciliation(p) /\ ~Ends(p, intents)
  <2>1. i \in DOMAIN intents /\ intents[i] \in IntentType
    BY <1>5, <1>7 DEF ClaimReconciliation
  <2>2. CASE intents[i].dest = 0 /\ Ends(p, [intents EXCEPT ![i].status = "cancelled"])
    <3> DEFINE r == [intents[i] EXCEPT !.status = "cancelled"]
    <3>1. [intents EXCEPT ![i].status = "cancelled"] = [intents EXCEPT ![i] = r]
      BY <1>1, <2>1 DEF IntentType
    <3>2. /\ r \in IntentType /\ r.ops = intents[i].ops /\ r.dest = intents[i].dest
          /\ r.lease = intents[i].lease
      BY <2>1 DEF IntentType, Final
    <3>3. intents[i].dest \notin Standing
      BY <1>1, <2>2 DEF Standing, TablesOK
    <3>4. Ends(p, [intents EXCEPT ![i] = r])
      BY <2>2, <3>1
    <3> HIDE DEF r
    <3>5. KeepsDest(i, r)
      BY <2>1, <3>2, <3>3, SameDest
    <3> QED BY <1>6, <2>1, <3>2, <3>4, <3>5
  <2>3. CASE intents' = [intents EXCEPT ![i].status = "verifying_destination",
                                        ![i].lease = [holder |-> p, live |-> TRUE]]
    <3> DEFINE l == [holder |-> p, live |-> TRUE]
               r == [intents[i] EXCEPT !.status = "verifying_destination", !.lease = l]
    <3>1. intents' = [intents EXCEPT ![i] = r]
      BY <1>1, <2>1, <2>3 DEF IntentType
    <3>2. l \in [holder : Requests \cup {"none", "gone"}, live : BOOLEAN]
      OBVIOUS
    <3> HIDE DEF l
    <3>3. /\ r \in IntentType /\ r.ops = intents[i].ops /\ r.dest = intents[i].dest
          /\ r.status \in Active
      BY <2>1, <3>2 DEF IntentType, Active
    <3> HIDE DEF r
    <3>4. KeepsDest(i, r)
      BY <2>1, <3>3, SameDest
    <3> QED BY <1>6, <2>1, <3>1, <3>3, <3>4
  <2> QED
    BY <1>7, <2>2, <2>3 DEF ClaimReconciliation
<1>8. CASE VerifyDestination(p) /\ ~Ends(p, intents) /\ ~UNCHANGED intents
  <2>1. i \in DOMAIN intents /\ intents[i] \in IntentType /\ t \in DOMAIN txs
    BY <1>5, <1>8, RequestAt DEF VerifyDestination
  <2>2. ASSUME NEW n \in RevertedAttempts(i, t), Unrivalled(i), txs[t].outcome = "reverted",
               Ends(p, DestinationFailed(i, n))
        PROVE  AllKeep(intents')
    <3>1. n \in DOMAIN intents[i].ops /\ intents[i].ops[n].tx \in Reverted
      BY <2>1, <2>2 DEF RevertedAttempts, Reverted
    <3>2. AllKeep(DestinationFailed(i, n))
      BY <2>1, <3>1, FailedDest
    <3>3. PICK r : GoodRow(i, r) /\ DestinationFailed(i, n) = [intents EXCEPT ![i] = r]
      BY <1>1, <2>1, <2>2, <3>1, FailedRow
    <3>4. DestinationFailed(i, n) \in Seq(IntentType)
      BY <1>1, <2>1, <3>3 DEF GoodRow
    <3> QED BY <1>3, <2>2, <3>2, <3>4
  <2>3. CASE intents' = [intents EXCEPT ![i].status = "syncing_pool"]
    <3> DEFINE r == [intents[i] EXCEPT !.status = "syncing_pool"]
    <3>1. intents' = [intents EXCEPT ![i] = r]
      BY <1>1, <2>1, <2>3 DEF IntentType
    <3>2. /\ r \in IntentType /\ r.ops = intents[i].ops /\ r.dest = intents[i].dest
          /\ r.status \in Active
      BY <2>1 DEF IntentType, Active
    <3> HIDE DEF r
    <3>3. KeepsDest(i, r)
      BY <2>1, <3>2, SameDest
    <3> QED BY <1>6, <2>1, <3>1, <3>2, <3>3
  <2> QED
    BY <1>8, <2>2, <2>3 DEF VerifyDestination
<1>9. CASE StoreSync(p) /\ ~Ends(p, intents)
  <2> DEFINE k == requests[p].key
             r == [intents[i] EXCEPT !.sync = k]
  <2>1. i \in DOMAIN intents /\ intents[i] \in IntentType /\ k \in Nat
        /\ intents' = [intents EXCEPT ![i].sync = k]
    BY <1>5, <1>9, RequestAt DEF StoreSync, RequestType
  <2>2. intents' = [intents EXCEPT ![i] = r]
    BY <1>1, <2>1 DEF IntentType
  <2>3. /\ r \in IntentType /\ r.ops = intents[i].ops /\ r.dest = intents[i].dest
        /\ r.status = intents[i].status /\ r.lease = intents[i].lease
    BY <2>1 DEF IntentType
  <2> HIDE DEF r
  <2>4. KeepsDest(i, r)
    BY <2>1, <2>3, SameDest
  <2> QED BY <1>6, <2>1, <2>2, <2>3, <2>4
<1>10. CASE AwaitSync(p) /\ ~Ends(p, intents) /\ ~UNCHANGED intents
  <2> DEFINE m == intents[i].key + 1
             r == [intents[i] EXCEPT !.status = "sync_failed", !.sync = 0, !.key = m,
                                     !.lease = NoLease]
  <2>1. i \in DOMAIN intents /\ intents[i] \in IntentType
        /\ Ends(p, [intents EXCEPT ![i].status = "sync_failed", ![i].sync = 0,
                                   ![i].key = @ + 1, ![i].lease = NoLease])
    BY <1>5, <1>10 DEF AwaitSync
  <2>2. [intents EXCEPT ![i].status = "sync_failed", ![i].sync = 0,
                        ![i].key = @ + 1, ![i].lease = NoLease] = [intents EXCEPT ![i] = r]
    BY <1>1, <2>1 DEF IntentType
  <2>3. m \in Nat
    BY <2>1 DEF IntentType
  <2>4. Ends(p, [intents EXCEPT ![i] = r])
    BY <2>1, <2>2
  <2> HIDE DEF m
  <2>5. /\ r \in IntentType /\ r.ops = intents[i].ops /\ r.dest = intents[i].dest
        /\ r.status \in Active
    BY <2>1, <2>3 DEF IntentType, Active, NoLease
  <2> HIDE DEF r
  <2>6. KeepsDest(i, r)
    BY <2>1, <2>5, SameDest
  <2> QED BY <1>6, <2>1, <2>4, <2>5, <2>6
<1>11. CASE ReconcileFunding(p) /\ ~Ends(p, intents)
  <2>1. i \in DOMAIN intents /\ intents[i] \in IntentType /\ t \in Nat
    BY <1>5, <1>11, RequestAt DEF ReconcileFunding, RequestType
  <2>2. CASE Ends(p, [intents EXCEPT ![i].status = "complete", ![i].verified = t, ![i].lease = NoLease])
    <3> DEFINE r == [intents[i] EXCEPT !.status = "complete", !.verified = t, !.lease = NoLease]
    <3>1. [intents EXCEPT ![i].status = "complete", ![i].verified = t, ![i].lease = NoLease]
            = [intents EXCEPT ![i] = r]
      BY <1>1, <2>1 DEF IntentType
    <3>2. Ends(p, [intents EXCEPT ![i] = r])
      BY <2>2, <3>1
    <3>3. /\ r \in IntentType /\ r.ops = intents[i].ops /\ r.dest = intents[i].dest
          /\ r.lease.holder = "none" /\ "none" \notin Requests
      BY <2>1, FundingConstants DEF IntentType, Final, NoLease
    <3> HIDE DEF r
    <3>4. KeepsDest(i, r)
      BY <2>1, <3>3, SameDest
    <3> QED BY <1>6, <2>1, <3>2, <3>3, <3>4
  <2>3. CASE Ends(p, [intents EXCEPT ![i].verified = t])
    <3> DEFINE r == [intents[i] EXCEPT !.verified = t]
    <3>1. [intents EXCEPT ![i].verified = t] = [intents EXCEPT ![i] = r]
      BY <1>1, <2>1 DEF IntentType
    <3>2. Ends(p, [intents EXCEPT ![i] = r])
      BY <2>3, <3>1
    <3>3. /\ r \in IntentType /\ r.ops = intents[i].ops /\ r.dest = intents[i].dest
          /\ r.status = intents[i].status /\ r.lease = intents[i].lease
      BY <2>1 DEF IntentType
    <3> HIDE DEF r
    <3>4. KeepsDest(i, r)
      BY <2>1, <3>3, SameDest
    <3> QED BY <1>6, <2>1, <3>2, <3>3, <3>4
  <2> QED
    BY <1>11, <2>2, <2>3 DEF ReconcileFunding
<1>12. ASSUME NEW j \in DOMAIN intents, StartReconcile(p, j) PROVE UNCHANGED intents
  BY <1>12 DEF StartReconcile, database
<1>13. ReadSync(p) \/ SubmitSync(p) => UNCHANGED intents
  BY DEF ReadSync, SubmitSync, database
<1>14. LoseRequest(p) => Ends(p, intents)
  BY DEF LoseRequest
<1> QED
  BY <1>2, <1>4, <1>7, <1>8, <1>9, <1>10, <1>11, <1>12, <1>13, <1>14 DEF ReconcileStep

\* What a reconcile request goes on with.
LEMMA RequestGoesOn ==
  ASSUME FundingInv, DestinationsAgree, NEW p \in Requests, ReconcileStep(p) \/ LoseRequest(p)
  PROVE  /\ \A q \in Requests :
              \/ requests'[q].at = "idle"
              \/ /\ requests[q].at # "idle" /\ requests'[q].intent = requests[q].intent
                 /\ requests'[q].dest = requests[q].dest
              \/ /\ requests'[q].at = "claim" /\ requests'[q].intent \in DOMAIN intents
                 /\ requests'[q].dest = intents'[requests'[q].intent].dest
         /\ DOMAIN intents' = DOMAIN intents
         /\ UNCHANGED txs
<1> DEFINE Fine(q) == \/ requests'[q].at = "idle"
                      \/ /\ requests[q].at # "idle" /\ requests'[q].intent = requests[q].intent
                         /\ requests'[q].dest = requests[q].dest
                      \/ /\ requests'[q].at = "claim" /\ requests'[q].intent \in DOMAIN intents
                         /\ requests'[q].dest = intents'[requests'[q].intent].dest
<1>1. requests \in [Requests -> RequestType]
  BY RequestAt
<1>2. ASSUME NEW r, requests' = [requests EXCEPT ![p] = r],
             \/ r.at = "idle"
             \/ requests[p].at # "idle" /\ r.intent = requests[p].intent /\ r.dest = requests[p].dest
             \/ r.at = "claim" /\ r.intent \in DOMAIN intents /\ r.dest = intents'[r.intent].dest
      PROVE  \A q \in Requests : Fine(q)
  <2>1. requests'[p] = r /\ \A q \in Requests \ {p} : requests'[q] = requests[q]
    BY <1>1, <1>2
  <2> QED BY <1>2, <2>1, RequestAt
<1>3. ASSUME NEW db, Ends(p, db) PROVE \A q \in Requests : Fine(q)
  <2>1. requests' = [requests EXCEPT ![p] = IdleRequest] /\ IdleRequest.at = "idle"
    BY <1>3 DEF Ends, IdleRequest
  <2> QED BY <1>2, <2>1
<1>4. ASSUME NEW at, Steps(p, at), requests[p].at # "idle",
             at \in {"verify", "read", "submit", "store", "wait", "credit"}
      PROVE  \A q \in Requests : Fine(q)
  <2>1. PICK r : /\ requests' = [requests EXCEPT ![p] = r]
                 /\ r.intent = requests[p].intent /\ r.dest = requests[p].dest
    BY <1>4, StepsTo
  <2> QED BY <1>2, <1>4, <2>1
<1>5. ASSUME NEW i \in DOMAIN intents, StartReconcile(p, i) PROVE \A q \in Requests : Fine(q)
  <2> DEFINE r == [at |-> "claim", intent |-> i, dest |-> intents[i].dest,
                   syncing |-> intents[i].status = "syncing_pool", key |-> 0]
  <2>1. requests' = [requests EXCEPT ![p] = r] /\ r.at = "claim" /\ r.intent = i
        /\ r.dest = intents'[r.intent].dest
    BY <1>5 DEF StartReconcile, database
  <2> HIDE DEF r
  <2> QED BY <1>2, <2>1
<1>6. ASSUME ReadSync(p) PROVE \A q \in Requests : Fine(q)
  <2> DEFINE i == requests[p].intent
             at == IF intents[i].sync = 0 THEN "submit" ELSE "wait"
             k == IF intents[i].sync = 0 THEN intents[i].key ELSE intents[i].sync
             r == [requests[p] EXCEPT !.at = at, !.key = k]
  <2>1. requests' = [requests EXCEPT ![p] = r] /\ requests[p].at = "read"
    BY <1>6, RequestAt DEF ReadSync, RequestType
  <2> HIDE DEF at, k
  <2>2. r.intent = requests[p].intent /\ r.dest = requests[p].dest
    BY RequestAt DEF RequestType
  <2> HIDE DEF r
  <2> QED BY <1>2, <2>1, <2>2
<1> HIDE DEF Fine
<1>7. \A q \in Requests : Fine(q)
  <2>1. ClaimReconciliation(p) => \A q \in Requests : Fine(q)
    BY <1>3, <1>4 DEF ClaimReconciliation
  <2>2. VerifyDestination(p) => \A q \in Requests : Fine(q)
    BY <1>3, <1>4 DEF VerifyDestination
  <2>3. SubmitSync(p) => \A q \in Requests : Fine(q)
    BY <1>4 DEF SubmitSync
  <2>4. StoreSync(p) => \A q \in Requests : Fine(q)
    BY <1>3, <1>4 DEF StoreSync
  <2>5. AwaitSync(p) => \A q \in Requests : Fine(q)
    BY <1>3, <1>4 DEF AwaitSync
  <2>6. ReconcileFunding(p) => \A q \in Requests : Fine(q)
    BY <1>3 DEF ReconcileFunding
  <2>7. LoseRequest(p) => \A q \in Requests : Fine(q)
    BY <1>3 DEF LoseRequest
  <2> QED
    BY <1>5, <1>6, <2>1, <2>2, <2>3, <2>4, <2>5, <2>6, <2>7 DEF ReconcileStep
<1>8. DOMAIN intents' = DOMAIN intents
  BY DEF ReconcileStep, StartReconcile, ClaimReconciliation, VerifyDestination, ReadSync, SubmitSync,
         StoreSync, AwaitSync, ReconcileFunding, LoseRequest, Ends, DestinationFailed, database
<1>9. UNCHANGED txs
  BY DEF ReconcileStep, StartReconcile, ClaimReconciliation, VerifyDestination, ReadSync, SubmitSync,
         StoreSync, AwaitSync, ReconcileFunding, LoseRequest, chain
<1> QED
  BY <1>7, <1>8, <1>9 DEF Fine

\* No step takes away a destination that stands.
LEMMA StepDest ==
  ASSUME FundingInv, DestinationsAgree, [Next]_vars
  PROVE  AllKeep(intents')
<1>1. CASE UNCHANGED intents
  BY <1>1, AllSame
<1>2. ASSUME NEW route \in Routes, CreateFundingIntent(route)
      PROVE  AllKeep(intents')
  <2> DEFINE stale == {i \in DOMAIN intents : /\ intents[i].status \in Signing
                                              /\ intents[i].expired
                                              /\ intents[i].dest = 0
                                              /\ intents[i].ops = <<>>}
             old == [i \in DOMAIN intents |->
                       IF i \in stale THEN [intents[i] EXCEPT !.status = "cancelled"] ELSE intents[i]]
  <2>1. intents' = Append(old, NewIntent(route))
    BY <1>2 DEF CreateFundingIntent
  <2>2. TablesOK /\ intents \in Seq(IntentType) /\ DOMAIN old = DOMAIN intents
    BY DEF FundingInv, TypeOK, TablesOK
  <2>3. ASSUME NEW i \in DOMAIN intents PROVE KeepsDest(i, old[i]) /\ old[i] \in IntentType
    <3>1. intents[i] \in IntentType
      BY <2>2
    <3>2. CASE i \in stale
      <4>1. intents[i].dest \notin Standing
        BY <2>2, <3>2 DEF Standing, TablesOK
      <4>2. /\ old[i].dest = intents[i].dest /\ old[i].ops = intents[i].ops
            /\ old[i].lease = intents[i].lease /\ old[i] \in IntentType
        <5>1. old[i] = [intents[i] EXCEPT !.status = "cancelled"] /\ "cancelled" \in Final
          BY <3>2 DEF Final
        <5> HIDE DEF old
        <5> QED BY <3>1, <5>1 DEF IntentType
      <4> HIDE DEF old
      <4> QED BY <4>1, <4>2, SameDest
    <3>3. CASE i \notin stale
      BY <3>1, <3>3, SameDest
    <3> QED BY <3>2, <3>3
  <2>4. DOMAIN intents \subseteq DOMAIN intents' /\ \A i \in DOMAIN intents : intents'[i] = old[i]
    <3>1. DOMAIN old = 1..Len(intents) /\ Len(intents) \in Nat
      BY <2>2
    <3> HIDE DEF old
    <3>2. old \in Seq(IntentType) /\ Len(old) = Len(intents)
      <4>1. old \in [1..Len(intents) -> IntentType]
        BY <2>2, <2>3, <3>1 DEF old
      <4> QED BY <3>1, <4>1
    <3>3. NewIntent(route) \in IntentType
      <4>1. totalFunded \in Nat /\ <<>> \in Seq(AttemptType)
        BY <2>2 DEF TablesOK
      <4> QED BY <4>1 DEF NewIntent, IntentType, NoLease, Active, Signing
    <3> QED BY <2>1, <2>2, <3>1, <3>2, <3>3
  <2> HIDE DEF old
  <2> QED BY <2>3, <2>4 DEF AllKeep
<1>3. (\E t \in DOMAIN txs : Mine(t)) \/ (\E k \in Keys : RunSync(k)) \/ EndProgram \/ LateFunding
        \/ UNCHANGED vars => UNCHANGED intents
  BY DEF Mine, RunSync, EndProgram, LateFunding, ReconcileLateFunding, vars, database
<1> QED
  BY <1>1, <1>2, <1>3, IntentDest, TabDest, RequestDest DEF Next

\* The intents there are after a step, and what its transactions and requests
\* were.
LEMMA StepOthers ==
  ASSUME FundingInv, DestinationsAgree, [Next]_vars
  PROVE  /\ \A i \in DOMAIN intents' \ DOMAIN intents :
              intents'[i].dest = 0 /\ intents'[i].lease.holder \notin Requests
         /\ DOMAIN txs \subseteq DOMAIN txs' /\ Reverted \subseteq Reverted'
         /\ \A q \in Requests :
              \/ requests'[q].at = "idle"
              \/ /\ requests[q].at # "idle" /\ requests'[q].intent = requests[q].intent
                 /\ requests'[q].dest = requests[q].dest
              \/ /\ requests'[q].at = "claim" /\ requests'[q].intent \in DOMAIN intents
                 /\ requests'[q].dest = intents'[requests'[q].intent].dest
<1>1. TablesOK
  BY DEF FundingInv, TypeOK
<1>2. CASE DOMAIN intents' = DOMAIN intents /\ UNCHANGED <<txs, requests>>
  BY <1>2 DEF Reverted
<1>3. ASSUME NEW t \in DOMAIN txs, Mine(t)
      PROVE  /\ DOMAIN intents' = DOMAIN intents /\ UNCHANGED requests
             /\ DOMAIN txs \subseteq DOMAIN txs' /\ Reverted \subseteq Reverted'
  <2>1. UNCHANGED <<intents, requests>> /\ txs[t].outcome = "pending" /\ DOMAIN txs' = DOMAIN txs
        /\ \A u \in DOMAIN txs \ {t} : txs'[u] = txs[u]
    BY <1>1, <1>3 DEF Mine, database, TablesOK
  <2> QED BY <2>1 DEF Reverted
<1>4. ASSUME NEW b \in Tabs, TabStep(b)
      PROVE  /\ DOMAIN intents' = DOMAIN intents /\ UNCHANGED requests
             /\ DOMAIN txs \subseteq DOMAIN txs' /\ Reverted \subseteq Reverted'
  <2>1. DOMAIN intents' = DOMAIN intents
    BY <1>4, TabDest
  <2>2. UNCHANGED requests
    BY <1>4 DEF TabStep, ContinueFunding, ClaimAttempt, CreateReplacement, ArmAttempt, PromptWallet,
                ObserveDestination, ReportUncertain, ReleaseRejected
  <2> DEFINE Tx == TransactionType
             x(known) == Sent(b, known)
  <2>5. ASSUME NEW known \in BOOLEAN PROVE x(known) \in Tx
    BY <2>5, TabAt, SentType
  <2>6. txs \in Seq(Tx)
    BY <1>1 DEF TablesOK
  <2>3. UNCHANGED txs \/ \E known \in BOOLEAN : txs' = Append(txs, x(known))
    <3>1. PromptWallet(b) => UNCHANGED txs \/ \E known \in BOOLEAN : txs' = Append(txs, x(known))
      BY DEF PromptWallet, Sends, Sent
    <3> HIDE DEF x
    <3> QED
      BY <1>4, <3>1 DEF TabStep, ContinueFunding, ClaimAttempt, CreateReplacement, ArmAttempt,
                        ObserveDestination, ReportUncertain, ReleaseRejected, chain
  <2>4. DOMAIN txs \subseteq DOMAIN txs' /\ \A u \in DOMAIN txs : txs'[u] = txs[u]
    <3> HIDE DEF x, Tx
    <3> QED BY <2>3, <2>5, <2>6
  <2> QED BY <2>1, <2>2, <2>4 DEF Reverted
<1>5. ASSUME NEW i \in DOMAIN intents, IntentStep(i)
      PROVE  DOMAIN intents' = DOMAIN intents /\ UNCHANGED <<txs, requests>>
  <2>1. DOMAIN intents' = DOMAIN intents
    BY <1>5, IntentDest
  <2> QED
    BY <1>5, <2>1 DEF IntentStep, Expire, LeaseLapses, CancelFundingIntent, CheckFundingRecovery,
                      AttachDestinationHash, chain
<1>6. ASSUME NEW route \in Routes, CreateFundingIntent(route)
      PROVE  /\ UNCHANGED <<txs, requests>>
             /\ \A i \in DOMAIN intents' \ DOMAIN intents :
                  intents'[i].dest = 0 /\ intents'[i].lease.holder \notin Requests
  <2>1. UNCHANGED <<txs, requests>>
    BY <1>6 DEF CreateFundingIntent, chain
  <2>2. \A i \in DOMAIN intents' \ DOMAIN intents : intents'[i] = NewIntent(route)
    BY <1>1, <1>6 DEF CreateFundingIntent, TablesOK
  <2>3. NewIntent(route).dest = 0 /\ NewIntent(route).lease.holder = "none" /\ "none" \notin Requests
    BY FundingConstants DEF NewIntent, NoLease
  <2> QED BY <2>1, <2>2, <2>3
<1>7. (\E k \in Keys : RunSync(k)) \/ EndProgram \/ LateFunding \/ UNCHANGED vars
        => UNCHANGED <<intents, txs, requests>>
  BY DEF RunSync, EndProgram, LateFunding, ReconcileLateFunding, vars, database, chain
<1>8. ASSUME NEW p \in Requests, ReconcileStep(p) \/ LoseRequest(p)
      PROVE  /\ DOMAIN intents' = DOMAIN intents /\ UNCHANGED txs
             /\ \A q \in Requests :
                  \/ requests'[q].at = "idle"
                  \/ /\ requests[q].at # "idle" /\ requests'[q].intent = requests[q].intent
                     /\ requests'[q].dest = requests[q].dest
                  \/ /\ requests'[q].at = "claim" /\ requests'[q].intent \in DOMAIN intents
                     /\ requests'[q].dest = intents'[requests'[q].intent].dest
  BY <1>8, RequestGoesOn
<1>9. ASSUME UNCHANGED requests
      PROVE  \A q \in Requests :
               requests'[q].at = "idle" \/ (/\ requests[q].at # "idle"
                                            /\ requests'[q].intent = requests[q].intent
                                            /\ requests'[q].dest = requests[q].dest)
  BY <1>9
<1>10. UNCHANGED txs => DOMAIN txs \subseteq DOMAIN txs' /\ Reverted \subseteq Reverted'
  BY DEF Reverted
<1>11. ASSUME NEW route \in Routes, CreateFundingIntent(route)
       PROVE  /\ \A i \in DOMAIN intents' \ DOMAIN intents :
                   intents'[i].dest = 0 /\ intents'[i].lease.holder \notin Requests
              /\ UNCHANGED requests /\ DOMAIN txs \subseteq DOMAIN txs' /\ Reverted \subseteq Reverted'
  BY <1>6, <1>10, <1>11
<1>12. ASSUME UNCHANGED requests, DOMAIN txs \subseteq DOMAIN txs', Reverted \subseteq Reverted',
              \A i \in DOMAIN intents' \ DOMAIN intents :
                intents'[i].dest = 0 /\ intents'[i].lease.holder \notin Requests
       PROVE  /\ \A i \in DOMAIN intents' \ DOMAIN intents :
                   intents'[i].dest = 0 /\ intents'[i].lease.holder \notin Requests
              /\ DOMAIN txs \subseteq DOMAIN txs' /\ Reverted \subseteq Reverted'
              /\ \A q \in Requests :
                   \/ requests'[q].at = "idle"
                   \/ /\ requests[q].at # "idle" /\ requests'[q].intent = requests[q].intent
                      /\ requests'[q].dest = requests[q].dest
                   \/ /\ requests'[q].at = "claim" /\ requests'[q].intent \in DOMAIN intents
                      /\ requests'[q].dest = intents'[requests'[q].intent].dest
  BY <1>9, <1>12
<1>13. CASE UNCHANGED vars
  BY <1>7, <1>10, <1>12, <1>13
<1>14. CASE Next
  <2>1. ASSUME NEW t \in DOMAIN txs, Mine(t)
        PROVE  UNCHANGED requests /\ DOMAIN intents' = DOMAIN intents
               /\ DOMAIN txs \subseteq DOMAIN txs' /\ Reverted \subseteq Reverted'
    BY <1>3, <2>1
  <2>2. CASE \E t \in DOMAIN txs : Mine(t)
    BY <1>12, <2>1, <2>2
  <2>3. CASE (\E k \in Keys : RunSync(k)) \/ EndProgram \/ LateFunding
    BY <1>7, <1>10, <1>12, <2>3
  <2>4. CASE \E route \in Routes : CreateFundingIntent(route)
    BY <1>11, <1>12, <2>4
  <2>5. CASE \E i \in DOMAIN intents : IntentStep(i)
    BY <1>2, <1>5, <1>10, <1>12, <2>5
  <2>6. CASE \E b \in Tabs : TabStep(b)
    BY <1>4, <1>12, <2>6
  <2>7. CASE \E p \in Requests : ReconcileStep(p) \/ LoseRequest(p)
    BY <1>8, <1>10, <2>7
  <2> QED BY <1>14, <2>2, <2>3, <2>4, <2>5, <2>6, <2>7 DEF Next
<1> QED
  BY <1>13, <1>14

-----------------------------------------------------------------------------
(***************************************************************************)
(* Theorems                                                                *)
(***************************************************************************)
\* Initially nothing exists.
LEMMA InitFunding ==
  ASSUME Init
  PROVE  FundingInv /\ DestinationsAgree
<1>1. txs = <<>> /\ intents = <<>> /\ rows = {} /\ late = {} /\ total_pool = 0 /\ totalFunded = 0
      /\ scanned = {} /\ circle = [k \in Keys |-> "none"]
  BY DEF Init
<1>2. Arrived = {} /\ Credited = {} /\ DOMAIN intents = {} /\ DOMAIN txs = {}
  BY <1>1 DEF Arrived, Credited
<1>3. \A b \in Tabs : tabs[b] = IdleTab /\ IdleTab.at = "idle" /\ IdleTab \in TabType
  BY DEF Init, IdleTab, TabType
<1>4. \A p \in Requests : requests[p] = IdleRequest /\ IdleRequest.at = "idle"
                          /\ IdleRequest \in RequestType
  BY DEF Init, IdleRequest, RequestType
<1>5. TablesOK
  BY <1>1, <1>2 DEF TablesOK
<1>6. tabs \in [Tabs -> TabType] /\ requests \in [Requests -> RequestType]
  BY <1>3, <1>4 DEF Init
<1>7. CallersOK
  BY <1>3, <1>4, <1>6 DEF CallersOK
<1>8. KeysAgree
  BY <1>1, <1>2, <1>4, FundingConstants DEF KeysAgree, Keyed
<1>9. LeasesAgree /\ DestinationsAgree
  BY <1>2, <1>4 DEF LeasesAgree, DestinationsAgree
<1>10. CreditsAgree
  BY <1>1, <1>2, <1>4, FS_EmptySet DEF CreditsAgree, Verified
<1> QED
  BY <1>5, <1>7, <1>8, <1>9, <1>10 DEF FundingInv, TypeOK

\* Types, keys, leases, credits and destinations always agree.
THEOREM FundingInvHolds == Spec => [](FundingInv /\ DestinationsAgree)
<1>1. Init => FundingInv /\ DestinationsAgree
  BY InitFunding
<1>2. ASSUME FundingInv, DestinationsAgree, [Next]_vars PROVE FundingInv' /\ DestinationsAgree'
  BY <1>2, StepKeeps, StepDest, StepOthers, DestStep
<1> QED
  BY <1>1, <1>2, PTL DEF Spec

\* Tables, chain, tabs and requests keep their types, refer only to what
\* exists, and at most one intent is active.
THEOREM FundingTypeCorrect == Spec => []TypeOK
<1>1. FundingInv => TypeOK
  BY DEF FundingInv
<1> QED
  BY <1>1, FundingInvHolds, PTL

\* Every transfer counts once in the program's pool, whether its intent or the
\* late-funding scan credited it, and only after it arrived.
THEOREM CreditedOnceHolds == Spec => []CreditedOnce
<1>1. FundingInv => CreditedOnce
  BY DEF FundingInv, CreditsAgree, CreditedOnce, Credited
<1> QED
  BY <1>1, FundingInvHolds, PTL

\* A successful transfer recorded as an intent's destination stays recorded,
\* against every late observation, replacement, expiry, cancellation and
\* reconcile request.
THEOREM DestinationKeptHolds == Spec => DestinationKept
<1>1. ASSUME FundingInv, DestinationsAgree, [Next]_vars
      PROVE  [\A i \in DOMAIN intents :
                intents[i].dest \in Arrived => intents'[i].dest = intents[i].dest]_vars
  <2>1. AllKeep(intents')
    BY <1>1, StepDest
  <2>2. Arrived \subseteq Standing
    BY DEF Arrived, Standing, Reverted
  <2> QED BY <2>1, <2>2 DEF AllKeep, KeepsDest
<1> QED
  BY <1>1, FundingInvHolds, PTL DEF Spec, DestinationKept

\* A request that credits moves the ledger by the one transfer it verified, or
\* not at all.
LEMMA CreditStep ==
  ASSUME FundingInv, NEW p \in Requests, ReconcileFunding(p)
  PROVE  /\ Arrived' = Arrived
         /\ \/ Credited' = Credited /\ total_pool' = total_pool
            \/ \E t \in Arrived \ Credited : /\ Credited' = Credited \cup {t}
                                             /\ total_pool' = total_pool + 1
<1> DEFINE i == requests[p].intent
           t == requests[p].dest
           key == <<i, requests[p].key>>
           x == [key |-> key, tx |-> t]
<1>1. requests[p].at = "credit" /\ t \in Arrived /\ UNCHANGED <<chain, late>> /\ TablesOK
  BY RequestAt DEF ReconcileFunding, Verified, FundingInv, TypeOK
<1>2. Arrived' = Arrived
  BY <1>1 DEF Arrived, chain
<1>3. CASE UNCHANGED <<rows, total_pool>>
  BY <1>1, <1>2, <1>3 DEF Credited
<1>4. CASE /\ CanReconcile(p, i, t) /\ ~Recorded(key)
           /\ rows' = rows \cup {x} /\ total_pool' = total_pool + NewlyCredited(t)
  <2>1. \A w \in rows : w.tx # t
    BY <1>1, <1>4, FirstCredit
  <2>2. x.tx = t /\ rows' = rows \cup {x} /\ late' = late
    BY <1>1, <1>4
  <2> HIDE DEF x
  <2>3. {w.tx : w \in rows'} = {w.tx : w \in rows} \cup {t}
    BY <2>2
  <2>4. Credited' = Credited \cup {t} /\ (t \in Credited <=> t \in late)
    BY <2>1, <2>2, <2>3 DEF Credited
  <2>5. total_pool' = total_pool + (IF t \in late THEN 0 ELSE 1) /\ total_pool \in Nat
    BY <1>1, <1>4 DEF NewlyCredited, TablesOK
  <2>6. CASE t \in late
    <3>1. Credited' = Credited /\ total_pool' = total_pool
      BY <2>4, <2>5, <2>6
    <3> QED BY <1>2, <3>1
  <2>7. CASE t \notin late
    BY <1>1, <1>2, <2>4, <2>5, <2>7
  <2> QED BY <2>6, <2>7
<1> QED
  BY <1>3, <1>4 DEF ReconcileFunding

\* Where nothing is mined or credited the ledger stands still.
LEMMA LedgerStands ==
  ASSUME UNCHANGED <<rows, late, total_pool>>, Arrived' = Arrived
  PROVE  UNCHANGED <<Arrived, Credited, total_pool>>
BY DEF Credited

\* The ledger counts as this module does.
LEMMA SameCardinality == \A T : Ledger!Cardinality(T) = Cardinality(T)
BY Zenon DEF Ledger!Cardinality, Cardinality, Ledger!IsFiniteSet, IsFiniteSet

\* Every step arrives, credits or leaves the ledger as it is.
LEMMA LedgerStep ==
  ASSUME FundingInv, [Next]_vars
  PROVE  [Ledger!LedgerNext]_(Ledger!ledgerVars)
<1>1. TablesOK /\ CallersOK /\ Len(txs) <= MaxTransfers
      /\ txs \in Seq(TransactionType)
  BY DEF FundingInv, TypeOK, TablesOK, KeysAgree
<1>2. DOMAIN txs \subseteq 1..MaxTransfers
  BY <1>1, FundingConstants
<1>3. UNCHANGED <<Arrived, Credited, total_pool>> => [Ledger!LedgerNext]_(Ledger!ledgerVars)
  BY DEF Ledger!ledgerVars
<1>4. UNCHANGED <<rows, late, total_pool, txs>> => [Ledger!LedgerNext]_(Ledger!ledgerVars)
  BY <1>3, LedgerStands DEF Arrived
<1>5. ASSUME NEW t \in DOMAIN txs, Mine(t) PROVE [Ledger!LedgerNext]_(Ledger!ledgerVars)
  <2>1. UNCHANGED <<rows, late, total_pool>> /\ txs[t].outcome = "pending"
    BY <1>5 DEF Mine, database
  <2>2. CASE txs' = [txs EXCEPT ![t].outcome = "success"]
    <3>1. txs' = [txs EXCEPT ![t] = [txs[t] EXCEPT !.outcome = "success"]]
      BY <2>2
    <3>2. [txs[t] EXCEPT !.outcome = "success"].outcome = "success"
      BY <1>1
    <3>3. DOMAIN txs' = DOMAIN txs /\ txs'[t].outcome = "success"
          /\ \A u \in DOMAIN txs \ {t} : txs'[u] = txs[u]
      BY <1>1, <3>1, <3>2
    <3>4. t \notin Arrived /\ Arrived' = Arrived \cup {t}
      BY <2>1, <3>3 DEF Arrived
    <3>5. Credited' = Credited
      BY <2>1 DEF Credited
    <3>6. Ledger!Arrive(t)
      BY <2>1, <3>4, <3>5 DEF Ledger!Arrive
    <3> QED BY <1>2, <3>6 DEF Ledger!LedgerNext
  <2>3. CASE txs' = [txs EXCEPT ![t].outcome = "reverted"]
    <3>1. txs' = [txs EXCEPT ![t] = [txs[t] EXCEPT !.outcome = "reverted"]]
      BY <2>3
    <3>2. [txs[t] EXCEPT !.outcome = "reverted"].outcome = "reverted"
      BY <1>1
    <3>3. DOMAIN txs' = DOMAIN txs /\ txs'[t].outcome = "reverted"
          /\ \A u \in DOMAIN txs \ {t} : txs'[u] = txs[u]
      BY <1>1, <3>1, <3>2
    <3>4. Arrived' = Arrived
      BY <2>1, <3>3 DEF Arrived
    <3> QED BY <1>3, <2>1, <3>4, LedgerStands
  <2> QED BY <1>5, <2>2, <2>3 DEF Mine
<1>6. ASSUME NEW b \in Tabs, PromptWallet(b) PROVE [Ledger!LedgerNext]_(Ledger!ledgerVars)
  <2> DEFINE Tx == TransactionType
             x(known) == Sent(b, known)
  <2>1. UNCHANGED <<rows, late, total_pool>>
    BY <1>6 DEF PromptWallet, database
  <2>2. UNCHANGED txs \/ \E known \in BOOLEAN : txs' = Append(txs, x(known))
    BY <1>6 DEF PromptWallet, Sends, Sent
  <2>3. ASSUME NEW known \in BOOLEAN, txs' = Append(txs, x(known)) PROVE Arrived' = Arrived
    <3>1. x(known) \in Tx /\ x(known).outcome = "pending"
      BY <2>3, TabAt, SentType
    <3> HIDE DEF x
    <3>2. DOMAIN txs' = DOMAIN txs \cup {Len(txs) + 1} /\ txs'[Len(txs) + 1].outcome = "pending"
          /\ \A u \in DOMAIN txs : txs'[u] = txs[u]
      BY <1>1, <2>3, <3>1
    <3> QED BY <3>2 DEF Arrived
  <2> HIDE DEF x
  <2>4. CASE UNCHANGED txs
    BY <1>4, <2>1, <2>4
  <2> QED BY <1>3, <2>1, <2>2, <2>3, <2>4, LedgerStands
<1>7. ASSUME NEW b \in Tabs, TabStep(b) PROVE [Ledger!LedgerNext]_(Ledger!ledgerVars)
  <2>1. TabStep(b) => PromptWallet(b) \/ UNCHANGED <<rows, late, total_pool, txs>>
    BY DEF TabStep, ContinueFunding, ClaimAttempt, CreateReplacement, ArmAttempt, ObserveDestination,
           ReportUncertain, ReleaseRejected, chain, database
  <2> QED BY <1>4, <1>6, <1>7, <2>1
<1>8. ASSUME NEW p \in Requests, ReconcileFunding(p) PROVE [Ledger!LedgerNext]_(Ledger!ledgerVars)
  <2>1. ASSUME NEW t \in Arrived \ Credited, Arrived' = Arrived, Credited' = Credited \cup {t},
               total_pool' = total_pool + 1
        PROVE  Ledger!LedgerNext
    <3>1. Cardinality({t}) = 1
      BY FS_Singleton
    <3>2. {t} \in SUBSET (1..MaxTransfers)
      BY <1>2 DEF Arrived
    <3>3. Ledger!Credit({t})
      <4>1. {t} \subseteq Arrived \ Credited /\ total_pool' = total_pool + Cardinality({t})
        BY <2>1, <3>1
      <4> QED BY <2>1, <4>1, SameCardinality, Zenon DEF Ledger!Credit
    <3> QED BY <3>2, <3>3 DEF Ledger!LedgerNext
  <2> QED BY <1>3, <1>8, <2>1, CreditStep
<1>9. ASSUME NEW p \in Requests, ReconcileStep(p) \/ LoseRequest(p)
      PROVE  [Ledger!LedgerNext]_(Ledger!ledgerVars)
  <2>1. ReconcileFunding(p) \/ UNCHANGED <<rows, late, total_pool, txs>>
    BY <1>9 DEF ReconcileStep, StartReconcile, ClaimReconciliation, VerifyDestination, ReadSync,
                SubmitSync, StoreSync, AwaitSync, LoseRequest, chain, database
  <2> QED BY <1>4, <1>8, <2>1
<1>10. ASSUME LateFunding PROVE Ledger!LedgerNext
  <2>1. PICK seen \in SUBSET Arrived, again \in {{}, scanned} : ReconcileLateFunding(seen, again)
    BY <1>10 DEF LateFunding
  <2> DEFINE found == {t \in again \cup (seen \ scanned) : ~Claimed(t)} \ late
  <2>2. UNCHANGED <<chain, rows>> /\ late' = late \cup found
        /\ total_pool' = total_pool + Cardinality(found)
    BY <2>1 DEF ReconcileLateFunding
  <2>3. found \subseteq Arrived /\ found \cap Credited = {}
    BY <2>1, FoundIsNew
  <2> HIDE DEF found
  <2>4. Arrived' = Arrived /\ Credited' = Credited \cup found
    BY <2>2 DEF Arrived, Credited, chain
  <2>5. Ledger!Credit(found)
    <3>1. found \subseteq Arrived \ Credited
      BY <2>3
    <3> QED BY <2>2, <2>4, <3>1, SameCardinality, Zenon DEF Ledger!Credit
  <2>6. found \in SUBSET (1..MaxTransfers)
    BY <1>2, <2>3 DEF Arrived
  <2> QED BY <2>5, <2>6 DEF Ledger!LedgerNext
<1>11. ASSUME NEW i \in DOMAIN intents, IntentStep(i) PROVE UNCHANGED <<rows, late, total_pool, txs>>
  BY <1>11 DEF IntentStep, Expire, LeaseLapses, CancelFundingIntent, CheckFundingRecovery,
               AttachDestinationHash, chain
<1>12. (\E k \in Keys : RunSync(k)) \/ EndProgram \/ (\E route \in Routes : CreateFundingIntent(route))
         \/ UNCHANGED vars => UNCHANGED <<rows, late, total_pool, txs>>
  BY DEF RunSync, EndProgram, CreateFundingIntent, vars, database, chain
<1>13. CASE UNCHANGED vars
  BY <1>4, <1>12, <1>13
<1>14. CASE Next
  BY <1>4, <1>5, <1>7, <1>9, <1>10, <1>11, <1>12, <1>14 DEF Next
<1> QED
  BY <1>13, <1>14

\* Funding implements the ledger: whatever tabs, requests, Circle and the
\* late-funding scan do, a transfer arrives once and is credited once.
THEOREM ImplementsLedgerHolds == Spec => ImplementsLedger
<1>1. Init => Ledger!LedgerInit
  BY DEF Init, Ledger!LedgerInit, Arrived, Credited
<1>2. ASSUME FundingInv, [Next]_vars PROVE [Ledger!LedgerNext]_(Ledger!ledgerVars)
  BY <1>2, LedgerStep
<1> QED
  BY <1>1, <1>2, FundingInvHolds, PTL DEF Spec, ImplementsLedger, Ledger!LedgerSpec

-----------------------------------------------------------------------------
(***************************************************************************)
(* Attempts, hashes and sync keys: what a step may do to them              *)
(***************************************************************************)
\* How attempt n of intent i may become a: as it is, armed, released by the
\* tab that armed it, its hash recorded, or failed.
AttemptTo(i, n, a) ==
  LET o == intents[i].ops[n] IN
  \/ a = o
  \/ /\ o.status = "awaiting_signature" /\ o.tx = 0
     /\ a.status = "submission_uncertain" /\ a.tx = 0
  \/ /\ o.status = "submission_uncertain" /\ a.status = "awaiting_signature" /\ a.tx = o.tx
     /\ \E b \in Tabs : tabs[b].at = "rejected" /\ tabs[b].intent = i /\ o.token = <<b, n>>
  \/ /\ o.status # "failed" /\ a.status \in {"submitted", "pending"}
     /\ a.tx \in DOMAIN txs /\ o.tx \in {0, a.tx}
  \/ a.status = "failed" /\ a.tx = o.tx

\* How the attempts of intent i may become ops: a new one only when none is open.
OpsTo(i, ops) ==
  /\ DOMAIN intents[i].ops \subseteq DOMAIN ops
  /\ \A n \in DOMAIN intents[i].ops : AttemptTo(i, n, ops[n])
  /\ \A n \in DOMAIN ops \ DOMAIN intents[i].ops :
       OpenAttempts(i) = {} /\ ops[n] = Attempt /\ n = Len(intents[i].ops) + 1

\* The key of an intent's sync advances past the one Circle gave up.
KeyTo(i, k) ==
  k = intents[i].key \/ (k = intents[i].key + 1 /\ circle[<<i, intents[i].key>>] = "failed")

\* How the table of intents may become db.
IntentsTo(db) ==
  /\ DOMAIN intents \subseteq DOMAIN db
  /\ \A i \in DOMAIN intents : OpsTo(i, db[i].ops) /\ KeyTo(i, db[i].key)
  /\ \A i \in DOMAIN db \ DOMAIN intents : db[i].ops = <<>> /\ db[i].key = 1

\* Attempts that stay may stay.
LEMMA OpsStay == ASSUME NEW i PROVE OpsTo(i, intents[i].ops) /\ KeyTo(i, intents[i].key)
BY DEF OpsTo, AttemptTo, KeyTo

\* A table that stays may stay.
LEMMA IntentsStay == IntentsTo(intents)
BY OpsStay DEF IntentsTo

\* One row changes.
LEMMA RowTo ==
  ASSUME NEW i \in DOMAIN intents, NEW r, OpsTo(i, r.ops), KeyTo(i, r.key)
  PROVE  IntentsTo([intents EXCEPT ![i] = r])
<1> DEFINE db == [intents EXCEPT ![i] = r]
<1>1. DOMAIN db = DOMAIN intents /\ db[i] = r /\ \A j \in DOMAIN intents \ {i} : db[j] = intents[j]
  OBVIOUS
<1> HIDE DEF db
<1>2. ASSUME NEW j \in DOMAIN intents PROVE OpsTo(j, db[j].ops) /\ KeyTo(j, db[j].key)
  BY <1>1, OpsStay
<1>3. IntentsTo(db)
  BY <1>1, <1>2 DEF IntentsTo
<1> QED BY <1>3 DEF db

\* One attempt changes.
LEMMA OneAttemptTo ==
  ASSUME NEW i \in DOMAIN intents, NEW n \in DOMAIN intents[i].ops, NEW a, AttemptTo(i, n, a)
  PROVE  OpsTo(i, [intents[i].ops EXCEPT ![n] = a])
<1> DEFINE o == [intents[i].ops EXCEPT ![n] = a]
<1>1. DOMAIN o = DOMAIN intents[i].ops /\ o[n] = a
      /\ \A m \in DOMAIN intents[i].ops \ {n} : o[m] = intents[i].ops[m]
  OBVIOUS
<1> HIDE DEF o
<1>2. ASSUME NEW m \in DOMAIN intents[i].ops PROVE AttemptTo(i, m, o[m])
  <2>1. CASE m = n
    BY <1>1, <2>1
  <2>2. CASE m # n
    BY <1>1, <2>2 DEF AttemptTo
  <2> QED BY <2>1, <2>2
<1>3. OpsTo(i, o)
  BY <1>1, <1>2 DEF OpsTo
<1> QED BY <1>3 DEF o

\* One attempt moves, its intent with it.
LEMMA MovedTo ==
  ASSUME TablesOK, NEW i \in DOMAIN intents, NEW n \in DOMAIN intents[i].ops, NEW a, NEW s, NEW d,
         AttemptTo(i, n, a)
  PROVE  IntentsTo(Moved(i, n, a, s, d))
<1> DEFINE o == [intents[i].ops EXCEPT ![n] = a]
           r == [intents[i] EXCEPT !.ops = o, !.status = s, !.dest = d]
<1>1. Moved(i, n, a, s, d) = [intents EXCEPT ![i] = r]
  BY DEF Moved
<1>2. intents[i] \in IntentType
  BY RowType
<1>3. OpsTo(i, o)
  BY OneAttemptTo
<1> HIDE DEF o
<1>4. r.ops = o /\ r.key = intents[i].key
  BY <1>2 DEF IntentType
<1> HIDE DEF r
<1>5. OpsTo(i, r.ops) /\ KeyTo(i, r.key)
  BY <1>3, <1>4 DEF KeyTo
<1>6. IntentsTo([intents EXCEPT ![i] = r])
  BY <1>5, RowTo
<1> QED BY <1>1, <1>6

\* A reverted attempt fails and keeps its hash.
LEMMA FailedTo ==
  ASSUME TablesOK, NEW i \in DOMAIN intents, NEW n \in DOMAIN intents[i].ops
  PROVE  IntentsTo(DestinationFailed(i, n))
<1> DEFINE a == [intents[i].ops[n] EXCEPT !.status = "failed", !.reverted = TRUE]
           o == [intents[i].ops EXCEPT ![n] = a]
           d == IF intents[i].dest = intents[i].ops[n].tx THEN 0 ELSE intents[i].dest
           s == IF intents[i].route = "send" THEN "ready_to_sign" ELSE "source_submitted"
           r == [intents[i] EXCEPT !.ops = o, !.dest = d, !.status = s, !.lease = NoLease]
<1>1. intents[i] \in IntentType /\ intents[i].ops[n] \in AttemptType
  BY RowType
<1>2. DestinationFailed(i, n) = [intents EXCEPT ![i] = r]
  BY <1>1 DEF DestinationFailed, IntentType
<1>3. AttemptTo(i, n, a)
  BY <1>1 DEF AttemptTo, AttemptType
<1> HIDE DEF a
<1>4. OpsTo(i, o)
  BY <1>3, OneAttemptTo
<1> HIDE DEF o, d, s
<1>5. r.ops = o /\ r.key = intents[i].key
  BY <1>1 DEF IntentType
<1> HIDE DEF r
<1>6. OpsTo(i, r.ops) /\ KeyTo(i, r.key)
  BY <1>4, <1>5 DEF KeyTo
<1>7. IntentsTo([intents EXCEPT ![i] = r])
  BY <1>6, RowTo
<1> QED BY <1>2, <1>7

\* A request that ends lets its lease go, nothing else.
LEMMA EndsTo ==
  ASSUME NEW p \in Requests, NEW db, db \in Seq(IntentType), IntentsTo(db), Ends(p, db)
  PROVE  IntentsTo(intents')
<1>1. intents' = [i \in DOMAIN db |->
         IF db[i].lease.holder = p THEN [db[i] EXCEPT !.lease.holder = "gone"] ELSE db[i]]
  BY DEF Ends
<1>2. DOMAIN intents' = DOMAIN db
  BY <1>1
<1>3. ASSUME NEW i \in DOMAIN db PROVE intents'[i].ops = db[i].ops /\ intents'[i].key = db[i].key
  <2>1. db[i] \in IntentType
    OBVIOUS
  <2>2. intents'[i] = db[i] \/ intents'[i] = [db[i] EXCEPT !.lease.holder = "gone"]
    BY <1>1
  <2> QED BY <2>1, <2>2 DEF IntentType
<1> QED BY <1>2, <1>3 DEF IntentsTo

\* Every step of an intent moves its attempts so.
LEMMA IntentMoves ==
  ASSUME FundingInv, NEW i \in DOMAIN intents, IntentStep(i)
  PROVE  IntentsTo(intents') /\ UNCHANGED <<txs, circle, tabs>>
<1>1. TablesOK /\ intents[i] \in IntentType
  BY RowType DEF FundingInv, TypeOK
<1>2. UNCHANGED <<txs, circle, tabs>>
  BY DEF IntentStep, Expire, LeaseLapses, CancelFundingIntent, CheckFundingRecovery,
         AttachDestinationHash, chain
<1>3. CASE Expire(i) \/ LeaseLapses(i)
  <2>1. PICK r : /\ intents' = [intents EXCEPT ![i] = r]
                 /\ r.ops = intents[i].ops /\ r.key = intents[i].key
    <3> DEFINE e == [intents[i] EXCEPT !.expired = TRUE]
               l == [intents[i].lease EXCEPT !.live = FALSE]
               f == [intents[i] EXCEPT !.lease = l]
    <3>1. CASE Expire(i)
      <4>1. intents' = [intents EXCEPT ![i] = e]
        BY <1>1, <3>1 DEF Expire, TablesOK, IntentType
      <4>2. e.ops = intents[i].ops /\ e.key = intents[i].key
        BY <1>1 DEF IntentType
      <4> HIDE DEF e
      <4> QED BY <4>1, <4>2
    <3>2. CASE LeaseLapses(i)
      <4>1. intents' = [intents EXCEPT ![i] = f]
        BY <1>1, <3>2 DEF LeaseLapses, TablesOK, IntentType
      <4> HIDE DEF l
      <4>2. f.ops = intents[i].ops /\ f.key = intents[i].key
        BY <1>1 DEF IntentType
      <4> HIDE DEF f
      <4> QED BY <4>1, <4>2
    <3> QED BY <1>3, <3>1, <3>2
  <2>2. OpsTo(i, r.ops) /\ KeyTo(i, r.key)
    BY <2>1, OpsStay
  <2> QED BY <1>2, <2>1, <2>2, RowTo
<1>4. CASE CancelFundingIntent(i)
  <2> DEFINE o == [n \in DOMAIN intents[i].ops |-> [intents[i].ops[n] EXCEPT !.status = "failed"]]
             r == [intents[i] EXCEPT !.status = "cancelled", !.lease = NoLease, !.ops = o]
  <2>1. intents' = [intents EXCEPT ![i] = r]
    BY <1>1, <1>4 DEF CancelFundingIntent, TablesOK, IntentType
  <2>2. DOMAIN o = DOMAIN intents[i].ops
    OBVIOUS
  <2>3. ASSUME NEW n \in DOMAIN intents[i].ops PROVE AttemptTo(i, n, o[n])
    <3>1. intents[i].ops[n] \in AttemptType
      BY <1>1, RowType
    <3>2. o[n] = [intents[i].ops[n] EXCEPT !.status = "failed"]
      OBVIOUS
    <3> HIDE DEF o
    <3>3. o[n].status = "failed" /\ o[n].tx = intents[i].ops[n].tx
      BY <3>1, <3>2 DEF AttemptType
    <3> QED BY <3>3 DEF AttemptTo
  <2> HIDE DEF o
  <2>4. r.ops = o /\ r.key = intents[i].key
    BY <1>1 DEF IntentType
  <2> HIDE DEF r
  <2>5. OpsTo(i, r.ops) /\ KeyTo(i, r.key)
    BY <2>2, <2>3, <2>4 DEF OpsTo, KeyTo
  <2> QED BY <1>2, <2>1, <2>5, RowTo
<1>5. ASSUME NEW n \in DOMAIN intents[i].ops, CheckFundingRecovery(i, n) PROVE IntentsTo(intents')
  BY <1>1, <1>5, FailedTo DEF CheckFundingRecovery
<1>6. ASSUME NEW n \in DOMAIN intents[i].ops, NEW t \in DOMAIN txs, AttachDestinationHash(i, n, t)
      PROVE  IntentsTo(intents')
  <2> DEFINE a == [intents[i].ops[n] EXCEPT !.tx = t, !.status = "submitted"]
  <2>1. intents[i].ops[n] \in AttemptType
    BY <1>1, RowType
  <2>2. a.status = "submitted" /\ a.tx = t /\ intents[i].ops[n].status = "submission_uncertain"
        /\ intents[i].ops[n].tx = 0 /\ intents' = Moved(i, n, a, "destination_submitted", t)
    BY <1>6, <2>1 DEF AttemptType, AttachDestinationHash
  <2> HIDE DEF a
  <2>3. AttemptTo(i, n, a)
    BY <2>2 DEF AttemptTo
  <2> QED BY <1>1, <2>2, <2>3, MovedTo
<1> QED
  BY <1>2, <1>3, <1>4, <1>5, <1>6 DEF IntentStep

\* Every step of a reconcile request moves attempts and keys so.
LEMMA RequestMovesOps ==
  ASSUME FundingInv, NEW p \in Requests, ReconcileStep(p) \/ LoseRequest(p)
  PROVE  IntentsTo(intents') /\ UNCHANGED <<txs, tabs>>
<1> DEFINE i == requests[p].intent
           t == requests[p].dest
<1>1. TablesOK /\ intents \in Seq(IntentType)
  BY DEF FundingInv, TypeOK, TablesOK
<1>2. UNCHANGED <<txs, tabs>>
  BY DEF ReconcileStep, StartReconcile, ClaimReconciliation, VerifyDestination, ReadSync, SubmitSync,
         StoreSync, AwaitSync, ReconcileFunding, LoseRequest, chain
<1> SUFFICES IntentsTo(intents')
  BY <1>2
<1>3. UNCHANGED intents => IntentsTo(intents')
  BY IntentsStay
<1>4. ASSUME NEW r \in IntentType, i \in DOMAIN intents, OpsTo(i, r.ops), KeyTo(i, r.key),
             \/ intents' = [intents EXCEPT ![i] = r]
             \/ Ends(p, [intents EXCEPT ![i] = r])
      PROVE  IntentsTo(intents')
  <2>1. IntentsTo([intents EXCEPT ![i] = r]) /\ [intents EXCEPT ![i] = r] \in Seq(IntentType)
    BY <1>1, <1>4, RowTo
  <2> QED BY <1>4, <2>1, EndsTo
<1>5. CASE Ends(p, intents)
  BY <1>1, <1>5, EndsTo, IntentsStay
<1>6. ASSUME requests[p].at # "idle"
      PROVE  /\ i \in DOMAIN intents /\ intents[i] \in IntentType /\ t \in DOMAIN txs /\ t \in Nat
             /\ OpsTo(i, intents[i].ops) /\ KeyTo(i, intents[i].key)
  BY <1>1, <1>6, RequestAt, RowType, OpsStay DEF RequestType
<1>7. CASE ClaimReconciliation(p) /\ ~Ends(p, intents)
  <2>1. i \in DOMAIN intents /\ intents[i] \in IntentType
        /\ OpsTo(i, intents[i].ops) /\ KeyTo(i, intents[i].key)
    BY <1>6, <1>7 DEF ClaimReconciliation
  <2>2. CASE Ends(p, [intents EXCEPT ![i].status = "cancelled"])
    <3> DEFINE r == [intents[i] EXCEPT !.status = "cancelled"]
    <3>1. [intents EXCEPT ![i].status = "cancelled"] = [intents EXCEPT ![i] = r]
      BY <1>1, <2>1 DEF IntentType
    <3>2. r \in IntentType /\ r.ops = intents[i].ops /\ r.key = intents[i].key
      BY <2>1 DEF IntentType, Final
    <3>3. Ends(p, [intents EXCEPT ![i] = r])
      BY <2>2, <3>1
    <3> HIDE DEF r
    <3> QED BY <1>4, <2>1, <3>2, <3>3
  <2>3. CASE intents' = [intents EXCEPT ![i].status = "verifying_destination",
                                        ![i].lease = [holder |-> p, live |-> TRUE]]
    <3> DEFINE l == [holder |-> p, live |-> TRUE]
               r == [intents[i] EXCEPT !.status = "verifying_destination", !.lease = l]
    <3>1. intents' = [intents EXCEPT ![i] = r]
      BY <1>1, <2>1, <2>3 DEF IntentType
    <3>2. l \in [holder : Requests \cup {"none", "gone"}, live : BOOLEAN]
      OBVIOUS
    <3> HIDE DEF l
    <3>3. r \in IntentType /\ r.ops = intents[i].ops /\ r.key = intents[i].key
      BY <2>1, <3>2 DEF IntentType, Active
    <3> HIDE DEF r
    <3> QED BY <1>4, <2>1, <3>1, <3>3
  <2> QED BY <1>7, <2>2, <2>3 DEF ClaimReconciliation
<1>8. CASE VerifyDestination(p) /\ ~Ends(p, intents) /\ ~UNCHANGED intents
  <2>1. i \in DOMAIN intents /\ intents[i] \in IntentType
        /\ OpsTo(i, intents[i].ops) /\ KeyTo(i, intents[i].key)
    BY <1>6, <1>8 DEF VerifyDestination
  <2>2. ASSUME NEW n \in RevertedAttempts(i, t), Unrivalled(i), Ends(p, DestinationFailed(i, n))
        PROVE  IntentsTo(intents')
    <3>1. n \in DOMAIN intents[i].ops
      BY DEF RevertedAttempts
    <3>2. IntentsTo(DestinationFailed(i, n))
      BY <1>1, <2>1, <3>1, FailedTo
    <3>3. PICK r : GoodRow(i, r) /\ DestinationFailed(i, n) = [intents EXCEPT ![i] = r]
      BY <1>1, <2>1, <2>2, <3>1, FailedRow
    <3>4. DestinationFailed(i, n) \in Seq(IntentType)
      BY <1>1, <2>1, <3>3 DEF GoodRow
    <3> QED BY <2>2, <3>2, <3>4, EndsTo
  <2>3. CASE intents' = [intents EXCEPT ![i].status = "syncing_pool"]
    <3> DEFINE r == [intents[i] EXCEPT !.status = "syncing_pool"]
    <3>1. intents' = [intents EXCEPT ![i] = r]
      BY <1>1, <2>1, <2>3 DEF IntentType
    <3>2. r \in IntentType /\ r.ops = intents[i].ops /\ r.key = intents[i].key
      BY <2>1 DEF IntentType, Active
    <3> HIDE DEF r
    <3> QED BY <1>4, <2>1, <3>1, <3>2
  <2> QED BY <1>8, <2>2, <2>3 DEF VerifyDestination
<1>9. CASE StoreSync(p) /\ ~Ends(p, intents)
  <2> DEFINE k == requests[p].key
             r == [intents[i] EXCEPT !.sync = k]
  <2>1. i \in DOMAIN intents /\ intents[i] \in IntentType /\ k \in Nat
        /\ OpsTo(i, intents[i].ops) /\ KeyTo(i, intents[i].key)
        /\ intents' = [intents EXCEPT ![i].sync = k]
    BY <1>6, <1>9, RequestAt DEF StoreSync, RequestType
  <2>2. intents' = [intents EXCEPT ![i] = r]
    BY <1>1, <2>1 DEF IntentType
  <2>3. r \in IntentType /\ r.ops = intents[i].ops /\ r.key = intents[i].key
    BY <2>1 DEF IntentType
  <2> HIDE DEF r
  <2> QED BY <1>4, <2>1, <2>2, <2>3
<1>10. CASE AwaitSync(p) /\ ~Ends(p, intents) /\ ~UNCHANGED intents
  <2> DEFINE m == intents[i].key + 1
             r == [intents[i] EXCEPT !.status = "sync_failed", !.sync = 0, !.key = m,
                                     !.lease = NoLease]
  <2>1. i \in DOMAIN intents /\ intents[i] \in IntentType /\ OpsTo(i, intents[i].ops)
        /\ CanFailSync(p, i, <<i, requests[p].key>>) /\ requests[p].at = "wait"
        /\ Ends(p, [intents EXCEPT ![i].status = "sync_failed", ![i].sync = 0,
                                   ![i].key = @ + 1, ![i].lease = NoLease])
    BY <1>6, <1>10 DEF AwaitSync
  <2>2. [intents EXCEPT ![i].status = "sync_failed", ![i].sync = 0,
                        ![i].key = @ + 1, ![i].lease = NoLease] = [intents EXCEPT ![i] = r]
    BY <1>1, <2>1 DEF IntentType
  <2>3. m \in Nat
    BY <2>1 DEF IntentType
  <2>4. Ends(p, [intents EXCEPT ![i] = r])
    BY <2>1, <2>2
  <2>5. intents[i].sync = requests[p].key /\ requests[p].key \in 1..MaxSyncs
        /\ circle[<<i, requests[p].key>>] = "failed"
    BY <2>1, RequestAt DEF CanFailSync, Keyed
  <2>6. intents[i].key = requests[p].key
    BY <2>1, <2>5 DEF FundingInv, KeysAgree
  <2>7. KeyTo(i, m)
    BY <2>5, <2>6 DEF KeyTo
  <2> HIDE DEF m
  <2>8. r \in IntentType /\ r.ops = intents[i].ops /\ r.key = m
    BY <2>1, <2>3 DEF IntentType, Active, NoLease
  <2> HIDE DEF r
  <2> QED BY <1>4, <2>1, <2>4, <2>7, <2>8
<1>11. CASE ReconcileFunding(p) /\ ~Ends(p, intents)
  <2>1. i \in DOMAIN intents /\ intents[i] \in IntentType /\ t \in Nat
        /\ OpsTo(i, intents[i].ops) /\ KeyTo(i, intents[i].key)
    BY <1>6, <1>11 DEF ReconcileFunding
  <2>2. CASE Ends(p, [intents EXCEPT ![i].status = "complete", ![i].verified = t, ![i].lease = NoLease])
    <3> DEFINE r == [intents[i] EXCEPT !.status = "complete", !.verified = t, !.lease = NoLease]
    <3>1. [intents EXCEPT ![i].status = "complete", ![i].verified = t, ![i].lease = NoLease]
            = [intents EXCEPT ![i] = r]
      BY <1>1, <2>1 DEF IntentType
    <3>2. Ends(p, [intents EXCEPT ![i] = r])
      BY <2>2, <3>1
    <3>3. r \in IntentType /\ r.ops = intents[i].ops /\ r.key = intents[i].key
      BY <2>1 DEF IntentType, Final, NoLease
    <3> HIDE DEF r
    <3> QED BY <1>4, <2>1, <3>2, <3>3
  <2>3. CASE Ends(p, [intents EXCEPT ![i].verified = t])
    <3> DEFINE r == [intents[i] EXCEPT !.verified = t]
    <3>1. [intents EXCEPT ![i].verified = t] = [intents EXCEPT ![i] = r]
      BY <1>1, <2>1 DEF IntentType
    <3>2. Ends(p, [intents EXCEPT ![i] = r])
      BY <2>3, <3>1
    <3>3. r \in IntentType /\ r.ops = intents[i].ops /\ r.key = intents[i].key
      BY <2>1 DEF IntentType
    <3> HIDE DEF r
    <3> QED BY <1>4, <2>1, <3>2, <3>3
  <2> QED BY <1>11, <2>2, <2>3 DEF ReconcileFunding
<1>12. ASSUME NEW j \in DOMAIN intents, StartReconcile(p, j) PROVE UNCHANGED intents
  BY <1>12 DEF StartReconcile, database
<1>13. ReadSync(p) \/ SubmitSync(p) => UNCHANGED intents
  BY DEF ReadSync, SubmitSync, database
<1>14. LoseRequest(p) => Ends(p, intents)
  BY DEF LoseRequest
<1> QED
  BY <1>3, <1>5, <1>7, <1>8, <1>9, <1>10, <1>11, <1>12, <1>13, <1>14 DEF ReconcileStep

\* A new intent has no attempt yet; the stale ones keep what they have.
LEMMA CreateMoves ==
  ASSUME FundingInv, NEW route \in Routes, CreateFundingIntent(route)
  PROVE  IntentsTo(intents') /\ UNCHANGED <<txs, circle, tabs, requests>>
<1> DEFINE stale == {i \in DOMAIN intents : /\ intents[i].status \in Signing
                                            /\ intents[i].expired
                                            /\ intents[i].dest = 0
                                            /\ intents[i].ops = <<>>}
           old == [i \in DOMAIN intents |->
                     IF i \in stale THEN [intents[i] EXCEPT !.status = "cancelled"] ELSE intents[i]]
           new == NewIntent(route)
<1>1. intents' = Append(old, new) /\ UNCHANGED <<txs, circle, tabs, requests>>
  BY DEF CreateFundingIntent, chain
<1>2. intents \in Seq(IntentType) /\ DOMAIN intents = 1..Len(intents) /\ Len(intents) \in Nat
  BY DEF FundingInv, TypeOK, TablesOK
<1>3. new.ops = <<>> /\ new.key = 1
  BY DEF NewIntent
<1>4. ASSUME NEW i \in DOMAIN intents PROVE old[i].ops = intents[i].ops /\ old[i].key = intents[i].key
  <2>1. intents[i] \in IntentType
    BY <1>2
  <2>2. old[i] = intents[i] \/ old[i] = [intents[i] EXCEPT !.status = "cancelled"]
    OBVIOUS
  <2> HIDE DEF old
  <2> QED BY <2>1, <2>2 DEF IntentType
<1>5. DOMAIN old = 1..Len(intents) /\ old \in Seq(IntentType)
  <2>1. ASSUME NEW i \in DOMAIN intents PROVE old[i] \in IntentType
    <3>1. intents[i] \in IntentType
      BY <1>2
    <3>2. old[i] = intents[i] \/ old[i] = [intents[i] EXCEPT !.status = "cancelled"]
      OBVIOUS
    <3> HIDE DEF old
    <3> QED BY <3>1, <3>2 DEF IntentType, Final
  <2>2. DOMAIN old = 1..Len(intents)
    BY <1>2
  <2>3. old \in [1..Len(intents) -> IntentType]
    BY <1>2, <2>1
  <2> HIDE DEF old
  <2> QED BY <1>2, <2>2, <2>3
<1> HIDE DEF old, new
<1>6. DOMAIN intents' = DOMAIN intents \cup {Len(intents) + 1} /\ intents'[Len(intents) + 1] = new
      /\ \A i \in DOMAIN intents : intents'[i] = old[i]
  BY <1>1, <1>2, <1>5
<1>7. ASSUME NEW i \in DOMAIN intents PROVE OpsTo(i, intents'[i].ops) /\ KeyTo(i, intents'[i].key)
  BY <1>4, <1>6, OpsStay
<1> QED
  BY <1>1, <1>3, <1>6, <1>7 DEF IntentsTo

\* Where a tab means to prompt the wallet, prompts it, or tells of a rejection.
Prompting == {"claim", "replace", "arm", "wallet", "rejected"}

\* Tab b, as t, prompts the wallet for the attempt it has just armed, or had
\* armed before.
Prompts(b, t) ==
  LET o == intents[t.intent].ops[t.armed]
      a == intents'[t.intent].ops[t.armed] IN
  /\ t.at = "wallet" /\ tabs[b].at = "arm" /\ tabs[b].intent = t.intent
  /\ t.armed \in DOMAIN intents[t.intent].ops
  /\ o.status = "awaiting_signature" \/ (o.status = "submission_uncertain" /\ o.token[1] = b)
  /\ a.status = "submission_uncertain" /\ a.token[1] = b

\* What tab b may become: it stops prompting, it goes on with its intent or
\* starts with one of which it keeps no hash, or it prompts the wallet.
TabTo(b, t) ==
  \/ t.at \notin Prompting
  \/ /\ t.at \in Prompting \ {"wallet"}
     /\ MaySign(b, t.intent) \/ (tabs[b].at \in Prompting /\ tabs[b].intent = t.intent)
  \/ Prompts(b, t)

\* The wallet of tab b sends, and the tab stops prompting.
Sending(b) ==
  /\ tabs[b].at = "wallet"
  /\ \E known \in BOOLEAN : txs' = Append(txs, Sent(b, known))
  /\ tabs'[b].at \notin Prompting
  /\ UNCHANGED intents

\* What a step of tab b may do.
TabGoes(b) ==
  /\ IntentsTo(intents')
  /\ UNCHANGED <<circle, requests>>
  /\ \E t : TabTo(b, t) /\ tabs' = [tabs EXCEPT ![b] = t]
  /\ UNCHANGED txs \/ Sending(b)

\* A tab that reads only.
LEMMA TabLooks ==
  ASSUME NEW b \in Tabs, NEW t, TabTo(b, t), tabs' = [tabs EXCEPT ![b] = t],
         UNCHANGED <<txs, circle, intents, requests>>
  PROVE  TabGoes(b)
BY IntentsStay DEF TabGoes

\* A tab that stops.
LEMMA TabStops ==
  ASSUME NEW b \in Tabs, Drops(b), IntentsTo(intents'), UNCHANGED <<txs, circle, requests>>
  PROVE  TabGoes(b)
<1>1. TabTo(b, IdleTab)
  BY DEF TabTo, IdleTab, Prompting
<1> QED BY <1>1 DEF TabGoes, Drops

\* A tab that goes on to tell of the wallet's answer.
LEMMA TabTells ==
  ASSUME FundingInv, NEW b \in Tabs, NEW at \in {"unsure", "rejected"}, Goes(b, at),
         at = "rejected" => tabs[b].at = "wallet",
         UNCHANGED <<txs, circle, intents, requests>>
  PROVE  TabGoes(b)
<1> DEFINE t == [tabs[b] EXCEPT !.at = at]
<1>1. tabs' = [tabs EXCEPT ![b] = t] /\ t.at = at /\ t.intent = tabs[b].intent
  BY TabAt DEF Goes, TabType
<1> HIDE DEF t
<1>2. TabTo(b, t)
  BY <1>1 DEF TabTo, Prompting
<1> QED BY <1>1, <1>2, TabLooks

\* A tab that starts with an intent.
LEMMA ContinueMoves ==
  ASSUME FundingInv, NEW b \in Tabs, NEW i \in DOMAIN intents, ContinueFunding(b, i)
  PROVE  TabGoes(b)
<1>1. UNCHANGED <<txs, circle, intents, requests>>
  BY DEF ContinueFunding, chain, database
<1>2. ASSUME NEW n, MaySign(b, i),
             tabs' = [tabs EXCEPT ![b] = [IdleTab EXCEPT !.at = "arm", !.intent = i, !.attempt = n]]
      PROVE  TabGoes(b)
  <2> DEFINE t == [IdleTab EXCEPT !.at = "arm", !.intent = i, !.attempt = n]
  <2>1. t.at = "arm" /\ t.intent = i
    BY DEF IdleTab
  <2>2. tabs' = [tabs EXCEPT ![b] = t]
    BY <1>2
  <2> HIDE DEF t
  <2>3. TabTo(b, t)
    BY <1>2, <2>1 DEF TabTo, Prompting
  <2> QED BY <1>1, <2>2, <2>3, TabLooks
<1>3. ASSUME NEW at \in {"claim", "replace"}, MaySign(b, i),
             tabs' = [tabs EXCEPT ![b] = [IdleTab EXCEPT !.intent = i, !.at = at]]
      PROVE  TabGoes(b)
  <2> DEFINE t == [IdleTab EXCEPT !.intent = i, !.at = at]
  <2>1. t.at = at /\ t.intent = i
    BY DEF IdleTab
  <2>2. tabs' = [tabs EXCEPT ![b] = t]
    BY <1>3
  <2> HIDE DEF t
  <2>3. TabTo(b, t)
    BY <1>3, <2>1 DEF TabTo, Prompting
  <2> QED BY <1>1, <2>2, <2>3, TabLooks
<1>4. ASSUME NEW n, NEW u,
             tabs' = [tabs EXCEPT ![b] = [IdleTab EXCEPT !.at = "observe", !.intent = i,
                                                        !.attempt = n, !.tx = u]]
      PROVE  TabGoes(b)
  <2> DEFINE t == [IdleTab EXCEPT !.at = "observe", !.intent = i, !.attempt = n, !.tx = u]
  <2>1. t.at = "observe"
    BY DEF IdleTab
  <2>2. tabs' = [tabs EXCEPT ![b] = t]
    BY <1>4
  <2> HIDE DEF t
  <2>3. TabTo(b, t)
    BY <2>1 DEF TabTo, Prompting
  <2> QED BY <1>1, <2>2, <2>3, TabLooks
<1> QED
  BY <1>2, <1>3, <1>4 DEF ContinueFunding

\* A tab that has its attempt goes on to arm it.
LEMMA TabArms ==
  ASSUME FundingInv, NEW b \in Tabs, tabs[b].at \in {"claim", "replace"}, NEW n,
         tabs' = [tabs EXCEPT ![b].at = "arm", ![b].attempt = n],
         IntentsTo(intents'), UNCHANGED <<txs, circle, requests>>
  PROVE  TabGoes(b)
<1> DEFINE t == [tabs[b] EXCEPT !.at = "arm", !.attempt = n]
<1>1. tabs' = [tabs EXCEPT ![b] = t] /\ t.at = "arm" /\ t.intent = tabs[b].intent
  BY TabAt DEF TabType
<1> HIDE DEF t
<1>2. TabTo(b, t)
  BY <1>1 DEF TabTo, Prompting
<1> QED BY <1>1, <1>2 DEF TabGoes

\* An intent without attempts gets its first.
LEMMA ClaimMoves ==
  ASSUME FundingInv, NEW b \in Tabs, ClaimAttempt(b)
  PROVE  TabGoes(b)
<1> DEFINE i == tabs[b].intent
           ops == <<Attempt>>
           r == [intents[i] EXCEPT !.ops = ops, !.status = "awaiting_signature"]
<1>1. TablesOK /\ i \in DOMAIN intents /\ intents[i] \in IntentType /\ tabs[b].at = "claim"
  BY TabAt, RowType DEF FundingInv, TypeOK, ClaimAttempt
<1>2. UNCHANGED <<txs, circle, requests>>
  BY DEF ClaimAttempt, chain
<1>3. ASSUME intents[i].ops = <<>>,
             intents' = [intents EXCEPT ![i].ops = <<Attempt>>, ![i].status = "awaiting_signature"],
             tabs' = [tabs EXCEPT ![b].at = "arm", ![b].attempt = 1]
      PROVE  TabGoes(b)
  <2>1. intents' = [intents EXCEPT ![i] = r]
    BY <1>1, <1>3 DEF IntentType, TablesOK
  <2>2. DOMAIN ops = {1} /\ ops[1] = Attempt /\ Len(intents[i].ops) = 0 /\ DOMAIN intents[i].ops = {}
    BY <1>3
  <2>3. OpenAttempts(i) = {}
    BY <2>2 DEF OpenAttempts
  <2> HIDE DEF ops
  <2>4. r.ops = ops /\ r.key = intents[i].key
    BY <1>1 DEF IntentType
  <2> HIDE DEF r
  <2>5. OpsTo(i, r.ops) /\ KeyTo(i, r.key)
    BY <2>2, <2>3, <2>4 DEF OpsTo, KeyTo
  <2>6. IntentsTo(intents')
    BY <1>1, <2>1, <2>5, RowTo
  <2> QED BY <1>1, <1>2, <1>3, <2>6, TabArms
<1>4. ASSUME NEW n, tabs' = [tabs EXCEPT ![b].at = "arm", ![b].attempt = n], UNCHANGED intents
      PROVE  TabGoes(b)
  <2>1. IntentsTo(intents')
    BY <1>4, IntentsStay
  <2> QED BY <1>1, <1>2, <1>4, <2>1, TabArms
<1>5. ASSUME Drops(b), UNCHANGED intents PROVE TabGoes(b)
  <2>1. IntentsTo(intents')
    BY <1>5, IntentsStay
  <2> QED BY <1>2, <1>5, <2>1, TabStops
<1> QED BY <1>3, <1>4, <1>5 DEF ClaimAttempt

\* An intent none of whose attempts is open gets another.
LEMMA ReplacementMoves ==
  ASSUME FundingInv, NEW b \in Tabs, CreateReplacement(b)
  PROVE  TabGoes(b)
<1> DEFINE i == tabs[b].intent
           n == Len(intents[i].ops)
           ops == Append(intents[i].ops, Attempt)
           r == [intents[i] EXCEPT !.ops = ops, !.dest = 0, !.status = "ready_to_sign",
                                   !.lease = NoLease]
<1>1. TablesOK /\ i \in DOMAIN intents /\ intents[i] \in IntentType /\ tabs[b].at = "replace"
  BY TabAt, RowType DEF FundingInv, TypeOK, CreateReplacement
<1>2. UNCHANGED <<txs, circle, requests>>
  BY DEF CreateReplacement, chain
<1>3. ASSUME CanReplace(i),
             intents' = [intents EXCEPT ![i].ops = Append(@, Attempt), ![i].dest = 0,
                                      ![i].status = "ready_to_sign", ![i].lease = NoLease],
             tabs' = [tabs EXCEPT ![b].at = "arm", ![b].attempt = n + 1]
      PROVE  TabGoes(b)
  <2>1. intents' = [intents EXCEPT ![i] = r]
    BY <1>1, <1>3 DEF IntentType, TablesOK
  <2>2. intents[i].ops \in Seq(AttemptType)
    BY <1>1, RowType
  <2>3. /\ DOMAIN intents[i].ops \subseteq DOMAIN ops
        /\ \A m \in DOMAIN intents[i].ops : ops[m] = intents[i].ops[m]
        /\ \A m \in DOMAIN ops \ DOMAIN intents[i].ops : m = n + 1 /\ ops[m] = Attempt
    BY <2>2
  <2>4. OpenAttempts(i) = {}
    BY <1>3 DEF CanReplace
  <2> HIDE DEF ops
  <2>5. r.ops = ops /\ r.key = intents[i].key
    BY <1>1 DEF IntentType
  <2> HIDE DEF r
  <2>6. OpsTo(i, r.ops) /\ KeyTo(i, r.key)
    BY <2>3, <2>4, <2>5 DEF OpsTo, KeyTo, AttemptTo
  <2>7. IntentsTo(intents')
    BY <1>1, <2>1, <2>6, RowTo
  <2> HIDE DEF n
  <2> QED BY <1>1, <1>2, <1>3, <2>7, TabArms
<1>4. ASSUME NEW m, tabs' = [tabs EXCEPT ![b].at = "arm", ![b].attempt = m], UNCHANGED intents
      PROVE  TabGoes(b)
  <2>1. IntentsTo(intents')
    BY <1>4, IntentsStay
  <2> QED BY <1>1, <1>2, <1>4, <2>1, TabArms
<1>5. ASSUME Drops(b), UNCHANGED intents PROVE TabGoes(b)
  <2>1. IntentsTo(intents')
    BY <1>5, IntentsStay
  <2> QED BY <1>2, <1>5, <2>1, TabStops
<1> QED BY <1>3, <1>4, <1>5 DEF CreateReplacement

\* Arming an attempt, afresh or once more.
LEMMA ArmMoves ==
  ASSUME FundingInv, NEW b \in Tabs, ArmAttempt(b)
  PROVE  TabGoes(b)
<1> DEFINE i == tabs[b].intent
           token == <<b, tabs[b].attempt>>
<1>1. TablesOK /\ i \in DOMAIN intents /\ intents[i] \in IntentType /\ tabs[b].at = "arm"
  BY TabAt, RowType DEF FundingInv, TypeOK, ArmAttempt
<1>2. UNCHANGED <<txs, circle, requests>>
  BY DEF ArmAttempt, chain
<1>3. ASSUME NEW n \in OpenAttempts(i), CanArm(i, n),
             intents' = Moved(i, n, [intents[i].ops[n] EXCEPT !.token = token,
                                       !.status = "submission_uncertain"],
                              "source_submitted", intents[i].dest),
             tabs' = [tabs EXCEPT ![b].at = "wallet", ![b].armed = n] \/ Drops(b)
      PROVE  TabGoes(b)
  <2> DEFINE a == [intents[i].ops[n] EXCEPT !.token = token, !.status = "submission_uncertain"]
             t == [tabs[b] EXCEPT !.at = "wallet", !.armed = n]
  <2>1. n \in DOMAIN intents[i].ops
    BY DEF OpenAttempts
  <2>2. intents[i].ops[n] \in AttemptType
    BY <1>1, <2>1, RowType
  <2>3. a.status = "submission_uncertain" /\ a.token = token /\ a.tx = intents[i].ops[n].tx
    BY <2>2 DEF AttemptType
  <2>4. intents' = Moved(i, n, a, "source_submitted", intents[i].dest)
    BY <1>3
  <2>5. token[1] = b
    OBVIOUS
  <2>6. tabs' = [tabs EXCEPT ![b].at = "wallet", ![b].armed = n]
          => tabs' = [tabs EXCEPT ![b] = t]
    BY TabAt DEF TabType
  <2>7. t.at = "wallet" /\ t.intent = i /\ t.armed = n
    BY TabAt DEF TabType
  <2> HIDE DEF a, token, t
  <2>8. AttemptTo(i, n, a)
    BY <1>3, <2>3 DEF AttemptTo, CanArm
  <2>9. IntentsTo(intents')
    BY <1>1, <2>1, <2>4, <2>8, MovedTo
  <2>10. intents'[i].ops[n] = a
    BY <1>1, <2>1, <2>4 DEF Moved, IntentType, TablesOK
  <2>11. TabTo(b, t)
    BY <1>1, <1>3, <2>1, <2>3, <2>5, <2>7, <2>10 DEF TabTo, Prompts, CanArm
  <2>12. CASE Drops(b)
    BY <1>2, <2>9, <2>12, TabStops
  <2>13. CASE tabs' = [tabs EXCEPT ![b] = t]
    BY <1>2, <2>9, <2>11, <2>13 DEF TabGoes
  <2> QED BY <1>3, <2>6, <2>12, <2>13
<1>4. ASSUME NEW n \in OpenAttempts(i), Rearmed(i, n, token), UNCHANGED intents,
             tabs' = [tabs EXCEPT ![b].at = "wallet", ![b].armed = n]
      PROVE  TabGoes(b)
  <2> DEFINE t == [tabs[b] EXCEPT !.at = "wallet", !.armed = n]
  <2>1. n \in DOMAIN intents[i].ops
    BY DEF OpenAttempts
  <2>2. tabs' = [tabs EXCEPT ![b] = t] /\ t.at = "wallet" /\ t.intent = i /\ t.armed = n
    BY <1>4, TabAt DEF TabType
  <2>3. token[1] = b
    OBVIOUS
  <2> HIDE DEF t, token
  <2>4. TabTo(b, t)
    BY <1>1, <1>4, <2>1, <2>2, <2>3 DEF TabTo, Prompts, Rearmed
  <2> QED BY <1>2, <1>4, <2>2, <2>4, TabLooks
<1>5. ASSUME Drops(b), UNCHANGED intents PROVE TabGoes(b)
  <2>1. IntentsTo(intents')
    BY <1>5, IntentsStay
  <2> QED BY <1>2, <1>5, <2>1, TabStops
<1> QED BY <1>3, <1>4, <1>5 DEF ArmAttempt

\* The wallet sends, is rejected or says nothing.
LEMMA PromptMoves ==
  ASSUME FundingInv, NEW b \in Tabs, PromptWallet(b)
  PROVE  TabGoes(b)
<1>1. tabs[b].at = "wallet" /\ UNCHANGED <<circle, intents, requests>>
  BY DEF PromptWallet, database
<1>2. ASSUME Sends(b, TRUE), tabs' = [tabs EXCEPT ![b].at = "observe", ![b].tx = Len(txs) + 1]
      PROVE  TabGoes(b)
  <2> DEFINE u == Len(txs) + 1
             t == [tabs[b] EXCEPT !.at = "observe", !.tx = u]
  <2> HIDE DEF u
  <2>1. tabs' = [tabs EXCEPT ![b] = t] /\ t.at = "observe"
    BY <1>2, TabAt DEF TabType, u
  <2> HIDE DEF t
  <2>2. TabTo(b, t)
    BY <2>1 DEF TabTo, Prompting
  <2>3. tabs'[b] = t
    BY <2>1, TabAt
  <2>4. txs' = Append(txs, Sent(b, TRUE))
    BY <1>2 DEF Sends, Sent
  <2>5. Sending(b)
    BY <1>1, <2>1, <2>3, <2>4 DEF Sending, Prompting
  <2>6. IntentsTo(intents')
    BY <1>1, IntentsStay
  <2> QED BY <1>1, <2>1, <2>2, <2>5, <2>6 DEF TabGoes
<1>3. ASSUME Sends(b, FALSE), Goes(b, "unsure") PROVE TabGoes(b)
  <2> DEFINE t == [tabs[b] EXCEPT !.at = "unsure"]
  <2>1. tabs' = [tabs EXCEPT ![b] = t] /\ t.at = "unsure"
    BY <1>3, TabAt DEF TabType, Goes
  <2> HIDE DEF t
  <2>2. TabTo(b, t)
    BY <2>1 DEF TabTo, Prompting
  <2>3. tabs'[b] = t
    BY <2>1, TabAt
  <2>4. txs' = Append(txs, Sent(b, FALSE))
    BY <1>3 DEF Sends, Sent
  <2>5. Sending(b)
    BY <1>1, <2>1, <2>3, <2>4 DEF Sending, Prompting
  <2>6. IntentsTo(intents')
    BY <1>1, IntentsStay
  <2> QED BY <1>1, <2>1, <2>2, <2>5, <2>6 DEF TabGoes
<1>4. ASSUME NEW at \in {"unsure", "rejected"}, Goes(b, at), UNCHANGED txs PROVE TabGoes(b)
  BY <1>1, <1>4, TabTells
<1> QED BY <1>2, <1>3, <1>4 DEF PromptWallet

\* A tab records the hash it was given, tells of an uncertain submission or
\* releases a rejected attempt.
LEMMA AnswerMoves ==
  ASSUME FundingInv, NEW b \in Tabs,
         ObserveDestination(b) \/ ReportUncertain(b) \/ ReleaseRejected(b)
  PROVE  TabGoes(b)
<1> DEFINE i == tabs[b].intent
           n == tabs[b].attempt
<1>1. TablesOK /\ i \in DOMAIN intents /\ intents[i] \in IntentType
      /\ n \in DOMAIN intents[i].ops /\ intents[i].ops[n] \in AttemptType
  <2>1. tabs[b].at \in {"observe", "unsure", "rejected"}
    BY DEF ObserveDestination, ReportUncertain, ReleaseRejected
  <2>2. TablesOK
    BY DEF FundingInv, TypeOK
  <2>3. i \in DOMAIN intents /\ n \in DOMAIN intents[i].ops
    BY <2>1, TabAt
  <2>4. intents[i] \in IntentType /\ intents[i].ops \in Seq(AttemptType)
    BY <2>2, <2>3, RowType
  <2> QED BY <2>2, <2>3, <2>4
<1>2. UNCHANGED <<txs, circle, requests>>
  BY DEF ObserveDestination, ReportUncertain, ReleaseRejected, chain
<1>3. ASSUME NEW at \in {"unsure"}, Goes(b, at), UNCHANGED intents PROVE TabGoes(b)
  BY <1>2, <1>3, TabTells
<1>4. ASSUME Drops(b), UNCHANGED intents PROVE TabGoes(b)
  <2>1. IntentsTo(intents')
    BY <1>4, IntentsStay
  <2> QED BY <1>2, <1>4, <2>1, TabStops
<1>5. CASE ObserveDestination(b) /\ ~UNCHANGED intents
  <2> DEFINE t == tabs[b].tx
             a == [intents[i].ops[n] EXCEPT !.tx = t, !.status = "pending"]
  <2>1. /\ t \in DOMAIN txs /\ CanObserve(b, i, n, t) /\ Drops(b)
        /\ intents' = Moved(i, n, a, "delivery_pending", t)
    BY <1>5, TabAt DEF ObserveDestination
  <2>2. a.status = "pending" /\ a.tx = t
    BY <1>1 DEF AttemptType
  <2> HIDE DEF a
  <2>3. AttemptTo(i, n, a)
    BY <2>1, <2>2 DEF AttemptTo, CanObserve
  <2>4. IntentsTo(intents')
    BY <1>1, <2>1, <2>3, MovedTo
  <2> QED BY <1>2, <2>1, <2>4, TabStops
<1>6. CASE ReleaseRejected(b) /\ ~UNCHANGED intents
  <2> DEFINE a == [intents[i].ops[n] EXCEPT !.status = "awaiting_signature", !.token = NoToken]
  <2>1. /\ CanRelease(b, i, n) /\ Drops(b) /\ tabs[b].at = "rejected"
        /\ intents' = Moved(i, n, a, "awaiting_signature", 0)
    BY <1>6 DEF ReleaseRejected
  <2>2. a.status = "awaiting_signature" /\ a.tx = intents[i].ops[n].tx
    BY <1>1 DEF AttemptType
  <2> HIDE DEF a
  <2>3. AttemptTo(i, n, a)
    BY <2>1, <2>2 DEF AttemptTo, CanRelease, Owns
  <2>4. IntentsTo(intents')
    BY <1>1, <2>1, <2>3, MovedTo
  <2> QED BY <1>2, <2>1, <2>4, TabStops
<1>7. CASE ReportUncertain(b)
  <2> DEFINE s == IF Owns(b, i, n) /\ Unrivalled(i) /\ intents[i].ops[n].status = "submission_uncertain"
                  THEN "source_submitted" ELSE intents[i].status
             r == [intents[i] EXCEPT !.status = s]
  <2>1. intents' = [intents EXCEPT ![i] = r]
    BY <1>1, <1>7 DEF ReportUncertain, TablesOK, IntentType
  <2> HIDE DEF s
  <2>2. r.ops = intents[i].ops /\ r.key = intents[i].key
    BY <1>1 DEF IntentType
  <2> HIDE DEF r
  <2>3. IntentsTo(intents')
    BY <1>1, <2>1, <2>2, OpsStay, RowTo
  <2> QED BY <1>2, <1>7, <2>3, TabStops DEF ReportUncertain
<1> QED
  BY <1>3, <1>4, <1>5, <1>6, <1>7 DEF ObserveDestination, ReleaseRejected

\* Every step of a tab.
LEMMA TabMovesOps ==
  ASSUME FundingInv, NEW b \in Tabs, TabStep(b)
  PROVE  TabGoes(b)
BY ContinueMoves, ClaimMoves, ReplacementMoves, ArmMoves, PromptMoves, AnswerMoves DEF TabStep

-----------------------------------------------------------------------------
(***************************************************************************)
(* One sync transaction that was not given up                              *)
(***************************************************************************)
\* Syncs are sent for keys an intent has had, those before its current one
\* were given up, and no request holds a later one.
SyncsAgree ==
  /\ \A k \in Keys : circle[k] # "none" => k[1] \in DOMAIN intents /\ k[2] <= intents[k[1]].key
  /\ \A k \in Keys : k[1] \in DOMAIN intents /\ k[2] < intents[k[1]].key => circle[k] = "failed"
  /\ \A p \in Requests :
       requests[p].at \in Keyed => requests[p].key <= intents[requests[p].intent].key

\* What a step may do to the syncs, and to what requests hold of their keys.
CircleTo ==
  /\ \A k \in Keys :
       \/ circle'[k] = circle[k]
       \/ circle[k] = "pending"
       \/ /\ circle[k] = "none"
          /\ \E p \in Requests : requests[p].at \in Keyed /\ k = <<requests[p].intent, requests[p].key>>
  /\ \A p \in Requests : requests'[p].at \in Keyed =>
       /\ requests'[p].intent = requests[p].intent
       /\ requests[p].intent \in DOMAIN intents
       /\ \/ requests[p].at \in Keyed /\ requests'[p].key = requests[p].key
          \/ requests'[p].key = intents[requests[p].intent].key

\* A step that moves neither.
LEMMA CircleRests ==
  ASSUME FundingInv, UNCHANGED <<circle, requests>>
  PROVE  CircleTo
BY RequestAt DEF CircleTo, Keyed

\* Every step of a request moves them so.
LEMMA RequestCircle ==
  ASSUME FundingInv, NEW p \in Requests, ReconcileStep(p) \/ LoseRequest(p)
  PROVE  CircleTo
<1> DEFINE i == requests[p].intent
<1>1. \A q \in Requests : requests[q].at \in Keyed => requests[q].intent \in DOMAIN intents
  BY RequestAt DEF Keyed
<1>2. requests \in [Requests -> RequestType]
  BY DEF FundingInv, TypeOK, CallersOK
<1>3. ASSUME UNCHANGED circle, NEW q, requests' = [requests EXCEPT ![p] = q],
             q.at \in Keyed => /\ requests[p].at \in Keyed
                               /\ q.intent = requests[p].intent /\ q.key = requests[p].key
      PROVE  CircleTo
  <2>1. requests'[p] = q /\ \A c \in Requests \ {p} : requests'[c] = requests[c]
    BY <1>2, <1>3
  <2>2. ASSUME NEW c \in Requests, requests'[c].at \in Keyed
        PROVE  /\ requests'[c].intent = requests[c].intent /\ requests'[c].key = requests[c].key
               /\ requests[c].at \in Keyed
    BY <1>3, <2>1, <2>2
  <2> QED BY <1>1, <1>3, <2>2 DEF CircleTo
<1>4. ASSUME NEW db, Ends(p, db), UNCHANGED circle PROVE CircleTo
  <2>1. requests' = [requests EXCEPT ![p] = IdleRequest] /\ IdleRequest.at \notin Keyed
    BY <1>4 DEF Ends, IdleRequest, Keyed
  <2> QED BY <1>3, <1>4, <2>1
<1>5. ASSUME NEW at, Steps(p, at), UNCHANGED circle, at \in Keyed => requests[p].at \in Keyed
      PROVE  CircleTo
  <2> DEFINE q == [requests[p] EXCEPT !.at = at]
  <2>1. requests' = [requests EXCEPT ![p] = q]
        /\ q.at = at /\ q.intent = requests[p].intent /\ q.key = requests[p].key
    BY <1>2, <1>5 DEF Steps, RequestType
  <2> HIDE DEF q
  <2> QED BY <1>3, <1>5, <2>1
<1>6. ASSUME NEW j \in DOMAIN intents, StartReconcile(p, j) PROVE CircleTo
  <2> DEFINE q == [at |-> "claim", intent |-> j, dest |-> intents[j].dest,
                   syncing |-> intents[j].status = "syncing_pool", key |-> 0]
  <2>1. requests' = [requests EXCEPT ![p] = q] /\ UNCHANGED circle
    BY <1>6 DEF StartReconcile, chain
  <2>2. q.at \notin Keyed
    BY DEF Keyed
  <2> HIDE DEF q
  <2> QED BY <1>3, <2>1, <2>2
<1>7. CASE ClaimReconciliation(p)
  BY <1>4, <1>5, <1>7 DEF ClaimReconciliation, Keyed, chain
<1>8. CASE VerifyDestination(p)
  BY <1>4, <1>5, <1>8 DEF VerifyDestination, Keyed, chain
<1>9. CASE ReadSync(p)
  <2> DEFINE at == IF intents[i].sync = 0 THEN "submit" ELSE "wait"
             key == IF intents[i].sync = 0 THEN intents[i].key ELSE intents[i].sync
             q == [requests[p] EXCEPT !.at = at, !.key = key]
  <2>1. i \in DOMAIN intents
    BY <1>9, RequestAt DEF ReadSync
  <2>2. key = intents[i].key
    BY <2>1 DEF FundingInv, KeysAgree
  <2>3. requests' = [requests EXCEPT ![p] = q] /\ UNCHANGED circle
    BY <1>2, <1>9 DEF ReadSync, RequestType, chain
  <2> HIDE DEF at, key
  <2>4. q.intent = i /\ q.key = key
    BY <1>2 DEF RequestType
  <2> HIDE DEF q
  <2>5. requests'[p] = q /\ \A c \in Requests \ {p} : requests'[c] = requests[c]
    BY <1>2, <2>3
  <2>6. ASSUME NEW c \in Requests, requests'[c].at \in Keyed
        PROVE  /\ requests'[c].intent = requests[c].intent
               /\ requests[c].intent \in DOMAIN intents
               /\ \/ requests[c].at \in Keyed /\ requests'[c].key = requests[c].key
                  \/ requests'[c].key = intents[requests[c].intent].key
    <3>1. CASE c = p
      BY <2>1, <2>2, <2>4, <2>5, <3>1
    <3>2. CASE c # p
      BY <1>1, <2>5, <2>6, <3>2
    <3> QED BY <3>1, <3>2
  <2> QED BY <2>3, <2>6 DEF CircleTo
<1>10. CASE SubmitSync(p)
  <2> DEFINE k == <<requests[p].intent, requests[p].key>>
             q == [requests[p] EXCEPT !.at = "store"]
  <2>1. requests[p].at \in Keyed /\ circle' = [circle EXCEPT ![k] = IF @ = "none" THEN "pending" ELSE @]
        /\ requests' = [requests EXCEPT ![p] = q]
        /\ q.intent = requests[p].intent /\ q.key = requests[p].key
    BY <1>2, <1>10 DEF SubmitSync, Steps, RequestType, Keyed
  <2>2. circle \in [Keys -> {"none", "pending", "success", "failed"}]
    BY DEF FundingInv, TypeOK, TablesOK
  <2> HIDE DEF q
  <2>3. requests'[p] = q /\ \A c \in Requests \ {p} : requests'[c] = requests[c]
    BY <1>2, <2>1
  <2>4. ASSUME NEW c \in Requests, requests'[c].at \in Keyed
        PROVE  /\ requests'[c].intent = requests[c].intent /\ requests'[c].key = requests[c].key
               /\ requests[c].at \in Keyed
    BY <2>1, <2>3, <2>4
  <2>5. ASSUME NEW c \in Keys PROVE circle'[c] = circle[c] \/ (circle[c] = "none" /\ c = k)
    BY <2>1, <2>2
  <2> QED BY <1>1, <2>1, <2>4, <2>5 DEF CircleTo
<1>11. CASE StoreSync(p)
  <2>1. requests[p].at \in Keyed
    BY <1>11 DEF StoreSync, Keyed
  <2> QED BY <1>4, <1>5, <1>11, <2>1 DEF StoreSync, chain
<1>12. CASE AwaitSync(p)
  <2>1. requests[p].at \in Keyed
    BY <1>12 DEF AwaitSync, Keyed
  <2> QED BY <1>4, <1>5, <1>12, <2>1 DEF AwaitSync, chain
<1>13. CASE ReconcileFunding(p) \/ LoseRequest(p)
  BY <1>4, <1>13 DEF ReconcileFunding, LoseRequest, chain
<1> QED
  BY <1>6, <1>7, <1>8, <1>9, <1>10, <1>11, <1>12, <1>13 DEF ReconcileStep

\* How tabs may move in a step, and transactions.
TabsMove == UNCHANGED tabs \/ \E b \in Tabs : \E t : TabTo(b, t) /\ tabs' = [tabs EXCEPT ![b] = t]

SameHashes ==
  /\ DOMAIN txs' = DOMAIN txs
  /\ \A t \in DOMAIN txs : /\ txs'[t].intent = txs[t].intent
                           /\ txs'[t].attempt = txs[t].attempt
                           /\ txs'[t].tab = txs[t].tab

\* Every step moves attempts, syncs, tabs and hashes so.
LEMMA StepMoves ==
  ASSUME FundingInv, [Next]_vars
  PROVE  IntentsTo(intents') /\ CircleTo /\ TabsMove /\ (SameHashes \/ \E b \in Tabs : Sending(b))
<1>1. UNCHANGED txs => SameHashes
  BY DEF SameHashes
<1>2. ASSUME NEW t \in DOMAIN txs, Mine(t)
      PROVE  UNCHANGED <<intents, circle, requests, tabs>> /\ SameHashes
  <2>1. PICK o \in Outcome : txs' = [txs EXCEPT ![t].outcome = o]
    BY <1>2 DEF Mine, Outcome
  <2>2. txs \in Seq(TransactionType)
    BY DEF FundingInv, TypeOK, TablesOK
  <2>3. SameHashes
    BY <2>1, <2>2 DEF SameHashes, TransactionType
  <2> QED BY <1>2, <2>3 DEF Mine, database
<1>3. ASSUME NEW k \in Keys, RunSync(k) PROVE UNCHANGED <<txs, intents, requests, tabs>> /\ CircleTo
  <2>1. circle[k] = "pending" /\ \E o : circle' = [circle EXCEPT ![k] = o]
    BY <1>3 DEF RunSync
  <2>2. circle \in [Keys -> {"none", "pending", "success", "failed"}]
    BY DEF FundingInv, TypeOK, TablesOK
  <2>3. UNCHANGED <<txs, intents, requests, tabs>>
    BY <1>3 DEF RunSync, database
  <2>4. \A c \in Keys : circle'[c] = circle[c] \/ circle[c] = "pending"
    BY <2>1, <2>2
  <2> QED BY <2>3, <2>4, RequestAt DEF CircleTo, Keyed
<1>4. CASE UNCHANGED vars \/ EndProgram \/ LateFunding
  <2>1. UNCHANGED <<txs, circle, intents, requests, tabs>>
    BY <1>4 DEF vars, EndProgram, LateFunding, ReconcileLateFunding, chain, database
  <2> QED BY <1>1, <2>1, IntentsStay, CircleRests DEF TabsMove
<1>5. ASSUME NEW route \in Routes, CreateFundingIntent(route)
      PROVE  IntentsTo(intents') /\ UNCHANGED <<txs, circle, tabs, requests>>
  BY <1>5, CreateMoves
<1>6. ASSUME NEW i \in DOMAIN intents, IntentStep(i)
      PROVE  IntentsTo(intents') /\ UNCHANGED <<txs, tabs>> /\ CircleTo
  <2>1. IntentsTo(intents') /\ UNCHANGED <<txs, circle, tabs>>
    BY <1>6, IntentMoves
  <2>2. UNCHANGED requests
    BY <1>6 DEF IntentStep, Expire, LeaseLapses, CancelFundingIntent, CheckFundingRecovery,
                AttachDestinationHash
  <2> QED BY <2>1, <2>2, CircleRests
<1>7. ASSUME NEW b \in Tabs, TabStep(b)
      PROVE  IntentsTo(intents') /\ CircleTo /\ TabsMove /\ (UNCHANGED txs \/ Sending(b))
  BY <1>7, TabMovesOps, CircleRests DEF TabGoes, TabsMove
<1>8. ASSUME NEW p \in Requests, ReconcileStep(p) \/ LoseRequest(p)
      PROVE  IntentsTo(intents') /\ UNCHANGED <<txs, tabs>> /\ CircleTo
  BY <1>8, RequestMovesOps, RequestCircle
<1>9. CASE Next
  <2>1. CASE \E t \in DOMAIN txs : Mine(t)
    BY <1>2, <2>1, IntentsStay, CircleRests DEF TabsMove
  <2>2. CASE \E k \in Keys : RunSync(k)
    BY <1>1, <1>3, <2>2, IntentsStay DEF TabsMove
  <2>3. CASE \E route \in Routes : CreateFundingIntent(route)
    BY <1>1, <1>5, <2>3, CircleRests DEF TabsMove
  <2>4. CASE \E i \in DOMAIN intents : IntentStep(i)
    BY <1>1, <1>6, <2>4 DEF TabsMove
  <2>5. CASE \E b \in Tabs : TabStep(b)
    BY <1>1, <1>7, <2>5
  <2>6. CASE \E p \in Requests : ReconcileStep(p) \/ LoseRequest(p)
    BY <1>1, <1>8, <2>6 DEF TabsMove
  <2> QED BY <1>4, <1>9, <2>1, <2>2, <2>3, <2>4, <2>5, <2>6 DEF Next
<1> QED BY <1>4, <1>9

\* The syncs go on agreeing.
LEMMA SyncsStep ==
  ASSUME FundingInv, FundingInv', SyncsAgree, IntentsTo(intents'), CircleTo
  PROVE  SyncsAgree'
<1>1. ASSUME NEW i \in DOMAIN intents
      PROVE  /\ i \in DOMAIN intents'
             /\ intents[i].key \in Nat /\ intents'[i].key \in Nat
             /\ intents[i].key <= intents'[i].key
             /\ \/ intents'[i].key = intents[i].key
                \/ intents'[i].key = intents[i].key + 1 /\ circle[<<i, intents[i].key>>] = "failed"
  <2>1. i \in DOMAIN intents' /\ KeyTo(i, intents'[i].key)
    BY DEF IntentsTo
  <2>2. intents[i].key \in Nat
    BY RowType DEF FundingInv, TypeOK
  <2> QED BY <2>1, <2>2 DEF KeyTo
<1>2. ASSUME NEW i \in DOMAIN intents, NEW n \in Nat, n <= intents[i].key
      PROVE  i \in DOMAIN intents' /\ n <= intents'[i].key
  <2> DEFINE old == intents[i].key
             new == intents'[i].key
  <2>1. i \in DOMAIN intents' /\ old \in Nat /\ new \in Nat /\ old <= new /\ n <= old
    BY <1>1, <1>2
  <2> HIDE DEF old, new
  <2>2. n <= new
    BY <2>1
  <2> QED BY <2>1, <2>2 DEF new
<1>3. ASSUME NEW k \in Keys, circle'[k] # "none"
      PROVE  k[1] \in DOMAIN intents' /\ k[2] <= intents'[k[1]].key
  <2> DEFINE i == k[1]
             n == k[2]
  <2>1. n \in Nat
    BY FundingConstants DEF Keys
  <2>2. i \in DOMAIN intents /\ n <= intents[i].key
    <3>1. CASE circle[k] # "none"
      BY <3>1 DEF SyncsAgree
    <3>2. CASE circle[k] = "none"
      <4>1. PICK p \in Requests : requests[p].at \in Keyed /\ k = <<requests[p].intent, requests[p].key>>
        BY <1>3, <3>2 DEF CircleTo
      <4>2. requests[p].key <= intents[requests[p].intent].key /\ requests[p].intent \in DOMAIN intents
        BY <4>1, RequestAt DEF SyncsAgree, Keyed
      <4>3. i = requests[p].intent /\ n = requests[p].key
        BY <4>1
      <4> QED BY <4>2, <4>3
    <3> QED BY <3>1, <3>2
  <2> HIDE DEF i, n
  <2>3. i \in DOMAIN intents' /\ n <= intents'[i].key
    BY <1>2, <2>1, <2>2
  <2> QED BY <2>3 DEF i, n
<1>4. ASSUME NEW k \in Keys, k[1] \in DOMAIN intents', k[2] < intents'[k[1]].key
      PROVE  circle'[k] = "failed"
  <2> DEFINE i == k[1]
             n == k[2]
             old == intents[i].key
             new == intents'[i].key
  <2>1. n \in Nat /\ n >= 1 /\ k = <<i, n>> /\ i \in DOMAIN intents' /\ n < new
    BY <1>4, FundingConstants DEF Keys
  <2>2. i \in DOMAIN intents
    <3>1. CASE i \notin DOMAIN intents
      <4>1. new = 1
        BY <2>1, <3>1 DEF IntentsTo
      <4> HIDE DEF new, n
      <4> QED BY <2>1, <4>1
    <3> QED BY <3>1
  <2>3. old \in Nat /\ (new = old \/ (new = old + 1 /\ circle[<<i, old>>] = "failed"))
    BY <1>1, <2>2
  <2>4. n < old => circle[k] = "failed"
    BY <2>2 DEF SyncsAgree
  <2> HIDE DEF i, n, old, new
  <2>5. ASSUME n < old PROVE circle[k] = "failed"
    BY <2>4, <2>5
  <2>6. ASSUME ~(n < old) PROVE circle[k] = "failed"
    <3>1. n \in Nat /\ old \in Nat /\ n < new /\ (new = old \/ new = old + 1)
      BY <2>1, <2>3
    <3>2. n = old /\ new # old
      BY <2>6, <3>1
    <3>3. circle[<<i, old>>] = "failed"
      BY <2>3, <3>2
    <3> QED BY <2>1, <3>2, <3>3
  <2>7. circle[k] = "failed"
    BY <2>5, <2>6
  <2> QED BY <2>7 DEF CircleTo
<1>5. ASSUME NEW p \in Requests, requests'[p].at \in Keyed
      PROVE  requests'[p].key <= intents'[requests'[p].intent].key
  <2> DEFINE i == requests[p].intent
             n == requests'[p].key
             old == intents[i].key
  <2>1. /\ requests'[p].intent = i /\ i \in DOMAIN intents
        /\ \/ requests[p].at \in Keyed /\ n = requests[p].key
           \/ n = old
    BY <1>5 DEF CircleTo
  <2>2. old \in Nat
    BY <1>1, <2>1
  <2>3. requests[p].at \in Keyed => requests[p].key <= old
    BY DEF SyncsAgree
  <2>4. requests'[p].key \in 1..MaxSyncs
    BY <1>5 DEF FundingInv, KeysAgree
  <2>5. n \in Nat
    BY <2>4, FundingConstants
  <2> HIDE DEF n, old
  <2>6. n <= old
    BY <2>1, <2>2, <2>3
  <2> HIDE DEF i
  <2>7. n <= intents'[i].key
    BY <1>2, <2>1, <2>5, <2>6 DEF old
  <2> QED BY <2>1, <2>7 DEF n
<1> QED BY <1>3, <1>4, <1>5 DEF SyncsAgree

\* Whatever requests are lost or overtake one another, and whatever Circle
\* gives up, an intent has one sync transaction that counts.
THEOREM SyncedOnceHolds == Spec => []SyncedOnce
<1>1. Init => SyncsAgree
  <2>1. "none" # "failed"
    OBVIOUS
  <2> QED BY DEF Init, SyncsAgree, IdleRequest, Keyed, Keys
<1>2. ASSUME FundingInv, FundingInv', SyncsAgree, [Next]_vars PROVE SyncsAgree'
  BY <1>2, StepMoves, SyncsStep
<1>3. ASSUME FundingInv, SyncsAgree PROVE SyncedOnce
  <2> SUFFICES ASSUME NEW i \in 1..MaxIntents
               PROVE  Cardinality({n \in 1..MaxSyncs : circle[<<i, n>>] \in {"pending", "success"}}) <= 1
    BY DEF SyncedOnce
  <2> DEFINE S == {n \in 1..MaxSyncs : circle[<<i, n>>] \in {"pending", "success"}}
             k == intents[i].key
  <2>1. ASSUME NEW n \in S PROVE i \in DOMAIN intents /\ n = k
    <3>1. <<i, n>> \in Keys /\ <<i, n>>[1] = i /\ <<i, n>>[2] = n /\ n \in 1..MaxSyncs
      BY DEF Keys
    <3>2. circle[<<i, n>>] # "none" /\ circle[<<i, n>>] # "failed"
      OBVIOUS
    <3>3. i \in DOMAIN intents /\ n <= intents[i].key
      BY <1>3, <3>1, <3>2 DEF SyncsAgree
    <3>4. ~(n < intents[i].key)
      BY <1>3, <3>1, <3>2, <3>3 DEF SyncsAgree
    <3>5. intents[i].key \in 1..MaxSyncs
      BY <1>3, <3>3 DEF FundingInv, KeysAgree
    <3> QED BY <3>1, <3>3, <3>4, <3>5, FundingConstants
  <2> HIDE DEF S, k
  <2>2. S \subseteq {k}
    BY <2>1
  <2>3. IsFiniteSet({k}) /\ Cardinality({k}) = 1
    BY FS_Singleton
  <2>4. Cardinality(S) <= 1
    BY <2>2, <2>3, FS_Subset
  <2> QED BY <2>4 DEF S
<1> QED
  BY <1>1, <1>2, <1>3, FundingInvHolds, PTL DEF Spec

-----------------------------------------------------------------------------
(***************************************************************************)
(* A hash the wallet returned is its attempt's last transaction            *)
(***************************************************************************)
\* Tab b has prompted its wallet for attempt n of intent i, and while nothing
\* came of it nobody else has.
PromptedBy(i, n, b) ==
  /\ n \in DOMAIN intents[i].ops
  /\ intents[i].ops[n].status # "awaiting_signature"
  /\ intents[i].ops[n].status = "submission_uncertain" => intents[i].ops[n].token[1] = b

\* One attempt of an intent is open, and the hashes recorded were sent.
AttemptsAgree ==
  /\ \A i \in DOMAIN intents : \A m, n \in OpenAttempts(i) : m = n
  /\ \A i \in DOMAIN intents : \A n \in DOMAIN intents[i].ops :
       intents[i].ops[n].tx \in {0} \cup DOMAIN txs

\* A hash that was returned to a tab is of an attempt that tab prompted for,
\* and while the attempt is uncertain the server has not taken the hash.
ReturnedAgree ==
  \A t \in DOMAIN txs : Known(t) =>
    /\ txs[t].intent \in DOMAIN intents
    /\ PromptedBy(txs[t].intent, txs[t].attempt, txs[t].tab)
    /\ intents[txs[t].intent].ops[txs[t].attempt].status = "submission_uncertain" =>
         t \in Unobserved(txs[t].tab, txs[t].intent)

\* A tab on its way to the wallet keeps no hash, and at the wallet it is the
\* only one there for its attempt, of which no hash was returned.
PromptsAgree ==
  \A b \in Tabs :
    /\ tabs[b].at \in Prompting => Unobserved(b, tabs[b].intent) = {}
    /\ tabs[b].at = "wallet" =>
         /\ PromptedBy(tabs[b].intent, tabs[b].armed, b)
         /\ \A t \in DOMAIN txs :
              Known(t) => ~(txs[t].intent = tabs[b].intent /\ txs[t].attempt = tabs[b].armed)
         /\ \A c \in Tabs \ {b} :
              tabs[c].at = "wallet" => ~(tabs[c].intent = tabs[b].intent /\ tabs[c].armed = tabs[b].armed)

HashesAgree == AttemptsAgree /\ ReturnedAgree /\ PromptsAgree

\* How an attempt that is still there moved.
LEMMA AttemptMoved ==
  ASSUME IntentsTo(intents'), NEW i \in DOMAIN intents, NEW n \in DOMAIN intents[i].ops
  PROVE  /\ i \in DOMAIN intents' /\ n \in DOMAIN intents'[i].ops
         /\ AttemptTo(i, n, intents'[i].ops[n])
BY DEF IntentsTo, OpsTo

\* A prompted attempt stays so, unless the tab releases it.
LEMMA PromptedStays ==
  ASSUME IntentsTo(intents'), NEW i \in DOMAIN intents, NEW n, NEW b, PromptedBy(i, n, b),
         intents[i].ops[n].status = "submission_uncertain" =>
           ~(tabs[b].at = "rejected" /\ tabs[b].intent = i)
  PROVE  PromptedBy(i, n, b)'
<1> DEFINE o == intents[i].ops[n]
           a == intents'[i].ops[n]
<1>1. n \in DOMAIN intents[i].ops /\ o.status # "awaiting_signature"
      /\ (o.status = "submission_uncertain" => o.token[1] = b)
  BY DEF PromptedBy
<1>2. n \in DOMAIN intents'[i].ops /\ AttemptTo(i, n, a)
  BY <1>1, AttemptMoved
<1>3. ASSUME o.status = "submission_uncertain", NEW c \in Tabs, tabs[c].at = "rejected",
             tabs[c].intent = i, o.token = <<c, n>>
      PROVE  FALSE
  <2>1. c = b
    BY <1>1, <1>3
  <2> QED BY <1>3, <2>1
<1>4. a = o \/ a.status \in {"submitted", "pending", "failed"}
  BY <1>1, <1>2, <1>3 DEF AttemptTo
<1> HIDE DEF o
<1>5. a.status # "awaiting_signature" /\ (a.status = "submission_uncertain" => a.token[1] = b)
  BY <1>1, <1>4
<1> QED BY <1>2, <1>5 DEF PromptedBy

\* An attempt that is uncertain and was prompted was uncertain.
LEMMA UncertainWas ==
  ASSUME IntentsTo(intents'), NEW i \in DOMAIN intents, NEW n, NEW b, PromptedBy(i, n, b),
         intents'[i].ops[n].status = "submission_uncertain"
  PROVE  intents[i].ops[n].status = "submission_uncertain"
<1>1. AttemptTo(i, n, intents'[i].ops[n])
  BY AttemptMoved DEF PromptedBy
<1> QED BY <1>1 DEF PromptedBy, AttemptTo

\* A recorded hash stays recorded, by the same attempt.
LEMMA RecordedStays ==
  ASSUME IntentsTo(intents'), NEW i \in DOMAIN intents, NEW n \in DOMAIN intents[i].ops,
         intents[i].ops[n].tx # 0
  PROVE  n \in DOMAIN intents'[i].ops /\ intents'[i].ops[n].tx = intents[i].ops[n].tx
<1>1. n \in DOMAIN intents'[i].ops /\ AttemptTo(i, n, intents'[i].ops[n])
  BY AttemptMoved
<1> QED BY <1>1 DEF AttemptTo

\* The hashes recorded were sent, and no second attempt opens beside another.
LEMMA AttemptsStep ==
  ASSUME FundingInv, FundingInv', AttemptsAgree, IntentsTo(intents'), DOMAIN txs \subseteq DOMAIN txs'
  PROVE  AttemptsAgree'
<1>1. ASSUME NEW i \in DOMAIN intents', NEW m \in OpenAttempts(i)', NEW n \in OpenAttempts(i)'
      PROVE  m = n
  <2>1. m \in DOMAIN intents'[i].ops /\ n \in DOMAIN intents'[i].ops
        /\ intents'[i].ops[m].status # "failed" /\ intents'[i].ops[n].status # "failed"
    BY DEF OpenAttempts
  <2>2. CASE i \notin DOMAIN intents
    BY <2>1, <2>2 DEF IntentsTo
  <2>3. CASE i \in DOMAIN intents
    <3>1. OpsTo(i, intents'[i].ops)
      BY <2>3 DEF IntentsTo
    <3>2. ASSUME NEW k \in DOMAIN intents[i].ops, intents'[i].ops[k].status # "failed"
          PROVE  k \in OpenAttempts(i)
      <4>1. AttemptTo(i, k, intents'[i].ops[k])
        BY <3>1 DEF OpsTo
      <4>2. intents[i].ops[k].status # "failed"
        BY <3>2, <4>1 DEF AttemptTo
      <4> QED BY <4>2 DEF OpenAttempts
    <3>3. CASE m \in DOMAIN intents[i].ops /\ n \in DOMAIN intents[i].ops
      BY <2>1, <2>3, <3>2, <3>3 DEF AttemptsAgree
    <3>4. ASSUME NEW k \in DOMAIN intents'[i].ops, k \notin DOMAIN intents[i].ops
          PROVE  OpenAttempts(i) = {} /\ k = Len(intents[i].ops) + 1
      BY <3>1, <3>4 DEF OpsTo
    <3> QED BY <2>1, <3>2, <3>3, <3>4
  <2> QED BY <2>2, <2>3
<1>2. ASSUME NEW i \in DOMAIN intents', NEW n \in DOMAIN intents'[i].ops
      PROVE  intents'[i].ops[n].tx \in {0} \cup DOMAIN txs'
  <2>1. CASE i \notin DOMAIN intents
    <3>1. intents'[i].ops = <<>>
      BY <2>1 DEF IntentsTo
    <3> QED BY <3>1
  <2>2. CASE i \in DOMAIN intents /\ n \in DOMAIN intents[i].ops
    <3>1. AttemptTo(i, n, intents'[i].ops[n])
      BY <2>2, AttemptMoved
    <3>2. intents[i].ops[n].tx \in {0} \cup DOMAIN txs
      BY <2>2 DEF AttemptsAgree
    <3> QED BY <3>1, <3>2 DEF AttemptTo
  <2>3. CASE i \in DOMAIN intents /\ n \notin DOMAIN intents[i].ops
    <3>1. intents'[i].ops[n] = Attempt
      BY <2>3 DEF IntentsTo, OpsTo
    <3> QED BY <3>1 DEF Attempt
  <2> QED BY <2>1, <2>2, <2>3
<1> QED BY <1>1, <1>2 DEF AttemptsAgree

\* A hash the server has not taken of an attempt that is still uncertain stays
\* with its tab.
LEMMA UnobservedStays ==
  ASSUME FundingInv, AttemptsAgree, IntentsTo(intents'), SameHashes, NEW i \in DOMAIN intents, NEW b,
         NEW t \in Unobserved(b, i), NEW n \in DOMAIN intents[i].ops,
         intents[i].ops[n].status = "submission_uncertain",
         intents'[i].ops[n].status = "submission_uncertain"
  PROVE  t \in Unobserved(b, i)'
<1>1. t \in DOMAIN txs' /\ txs'[t].intent = i /\ txs'[t].tab = b
  BY DEF Unobserved, SameHashes
<1>2. t # 0
  BY DEF Unobserved, FundingInv, TypeOK, TablesOK
<1>3. ASSUME NEW m \in DOMAIN intents'[i].ops PROVE intents'[i].ops[m].tx # t
  <2>1. CASE m \notin DOMAIN intents[i].ops
    <3>1. intents'[i].ops[m] = Attempt
      BY <2>1 DEF IntentsTo, OpsTo
    <3> QED BY <1>2, <3>1 DEF Attempt
  <2>2. CASE m \in DOMAIN intents[i].ops
    <3>1. intents[i].ops[m].tx # t
      BY <2>2 DEF Unobserved
    <3>2. AttemptTo(i, m, intents'[i].ops[m])
      BY <2>2, AttemptMoved
    <3>3. ASSUME intents[i].ops[m].status # "failed",
                 intents'[i].ops[m].status \in {"submitted", "pending"}
          PROVE  FALSE
      <4>1. m \in OpenAttempts(i) /\ n \in OpenAttempts(i)
        BY <2>2, <3>3 DEF OpenAttempts
      <4>2. m = n
        BY <4>1 DEF AttemptsAgree
      <4> QED BY <3>3, <4>2
    <3> QED BY <1>2, <3>1, <3>2, <3>3 DEF AttemptTo
  <2> QED BY <2>1, <2>2
<1> QED BY <1>1, <1>3 DEF Unobserved

\* A tab that keeps no hash of an intent goes on keeping none.
LEMMA NoneReturned ==
  ASSUME FundingInv, ReturnedAgree, IntentsTo(intents'), SameHashes, NEW i, NEW b \in Tabs,
         Unobserved(b, i) = {}
  PROVE  Unobserved(b, i)' = {}
<1>1. ASSUME NEW t \in Unobserved(b, i)' PROVE FALSE
  <2>1. t \in DOMAIN txs /\ txs[t].intent = i /\ txs[t].tab = b
        /\ \A n \in DOMAIN intents'[i].ops : intents'[i].ops[n].tx # t
    BY DEF Unobserved, SameHashes
  <2>2. t # 0
    BY <2>1 DEF FundingInv, TypeOK, TablesOK
  <2>3. PICK n \in DOMAIN intents[i].ops : intents[i].ops[n].tx = t
    BY <2>1 DEF Unobserved
  <2>4. i \in DOMAIN intents
    BY <2>1, FundingConstants DEF ReturnedAgree, Known
  <2>5. n \in DOMAIN intents'[i].ops /\ intents'[i].ops[n].tx = t
    BY <2>2, <2>3, <2>4, RecordedStays
  <2> QED BY <2>1, <2>5
<1> QED BY <1>1

\* Nobody else is at the wallet for the attempt a tab comes to prompt for, and
\* no hash of it was returned.
LEMMA PromptAlone ==
  ASSUME HashesAgree, NEW b \in Tabs, NEW t, Prompts(b, t)
  PROVE  /\ \A u \in DOMAIN txs : Known(u) => ~(txs[u].intent = t.intent /\ txs[u].attempt = t.armed)
         /\ \A c \in Tabs \ {b} : tabs[c].at = "wallet" =>
              ~(tabs[c].intent = t.intent /\ tabs[c].armed = t.armed)
<1> DEFINE i == t.intent
           n == t.armed
           o == intents[i].ops[n]
<1>1. /\ tabs[b].at = "arm" /\ tabs[b].intent = i
      /\ o.status = "awaiting_signature" \/ (o.status = "submission_uncertain" /\ o.token[1] = b)
  BY DEF Prompts
<1>2. Unobserved(b, i) = {}
  BY <1>1 DEF HashesAgree, PromptsAgree, Prompting
<1>3. ASSUME NEW u \in DOMAIN txs, Known(u), txs[u].intent = i, txs[u].attempt = n PROVE FALSE
  <2>1. PromptedBy(i, n, txs[u].tab)
        /\ (o.status = "submission_uncertain" => u \in Unobserved(txs[u].tab, i))
    BY <1>3 DEF HashesAgree, ReturnedAgree
  <2>2. o.status = "submission_uncertain" /\ txs[u].tab = b
    BY <1>1, <2>1 DEF PromptedBy
  <2> QED BY <1>2, <2>1, <2>2
<1>4. ASSUME NEW c \in Tabs \ {b}, tabs[c].at = "wallet", tabs[c].intent = i, tabs[c].armed = n
      PROVE  FALSE
  <2>1. PromptedBy(i, n, c)
    BY <1>4 DEF HashesAgree, PromptsAgree
  <2> QED BY <1>1, <2>1 DEF PromptedBy
<1> QED BY <1>3, <1>4

\* What is known of returned hashes survives a step that sends nothing.
LEMMA ReturnedStep ==
  ASSUME FundingInv, HashesAgree, IntentsTo(intents'), SameHashes
  PROVE  ReturnedAgree'
<1>1. ASSUME NEW t \in DOMAIN txs', Known(t)'
      PROVE  /\ txs'[t].intent \in DOMAIN intents'
             /\ PromptedBy(txs[t].intent, txs[t].attempt, txs[t].tab)'
             /\ intents'[txs'[t].intent].ops[txs'[t].attempt].status = "submission_uncertain" =>
                  t \in Unobserved(txs[t].tab, txs[t].intent)'
  <2>1. t \in DOMAIN txs /\ Known(t)
    BY <1>1 DEF SameHashes, Known
  <2>2. PICK i, n, c : i = txs[t].intent /\ n = txs[t].attempt /\ c = txs[t].tab
    OBVIOUS
  <2>3. txs'[t].intent = i /\ txs'[t].attempt = n /\ txs'[t].tab = c
    BY <2>1, <2>2 DEF SameHashes
  <2>4. c \in Tabs
    <3>1. txs[t] \in TransactionType
      BY <2>1 DEF FundingInv, TypeOK, TablesOK
    <3> QED BY <2>1, <2>2, <3>1 DEF Known, TransactionType
  <2>5. /\ i \in DOMAIN intents /\ PromptedBy(i, n, c)
        /\ intents[i].ops[n].status = "submission_uncertain" => t \in Unobserved(c, i)
    BY <2>1, <2>2 DEF HashesAgree, ReturnedAgree
  <2>6. intents[i].ops[n].status = "submission_uncertain" =>
          ~(tabs[c].at = "rejected" /\ tabs[c].intent = i)
    BY <2>4, <2>5 DEF HashesAgree, PromptsAgree, Prompting
  <2>7. PromptedBy(i, n, c)'
    BY <2>5, <2>6, PromptedStays
  <2>8. ASSUME intents'[i].ops[n].status = "submission_uncertain" PROVE t \in Unobserved(c, i)'
    <3>1. intents[i].ops[n].status = "submission_uncertain"
      BY <2>5, <2>8, UncertainWas
    <3>2. t \in Unobserved(c, i) /\ n \in DOMAIN intents[i].ops
      BY <2>5, <3>1 DEF PromptedBy
    <3> QED BY <2>5, <2>8, <3>1, <3>2, UnobservedStays DEF HashesAgree
  <2>9. i \in DOMAIN intents'
    BY <2>5 DEF IntentsTo
  <2> QED BY <2>3, <2>7, <2>8, <2>9 DEF PromptedBy, Unobserved
<1> QED BY <1>1 DEF ReturnedAgree

\* So does what is known of the tabs.
LEMMA PromptsStep ==
  ASSUME FundingInv, HashesAgree, IntentsTo(intents'), SameHashes, TabsMove
  PROVE  PromptsAgree'
<1>1. tabs \in [Tabs -> TabType]
  BY TabAt DEF FundingInv, TypeOK, CallersOK
<1>2. ASSUME NEW b \in Tabs
      PROVE  tabs'[b] = tabs[b] \/ (TabTo(b, tabs'[b]) /\ \A c \in Tabs \ {b} : tabs'[c] = tabs[c])
  <2>1. CASE UNCHANGED tabs
    BY <2>1
  <2>2. CASE \E c \in Tabs : \E t : TabTo(c, t) /\ tabs' = [tabs EXCEPT ![c] = t]
    <3>0. PICK c \in Tabs : \E t : TabTo(c, t) /\ tabs' = [tabs EXCEPT ![c] = t]
      BY <2>2
    <3>1. PICK t : TabTo(c, t) /\ tabs' = [tabs EXCEPT ![c] = t]
      BY <3>0
    <3>2. tabs'[c] = t /\ \A d \in Tabs \ {c} : tabs'[d] = tabs[d]
      BY <1>1, <3>1
    <3> QED BY <3>1, <3>2
  <2> QED BY <2>1, <2>2 DEF TabsMove
<1>3. ASSUME NEW b \in Tabs, tabs'[b] # tabs[b], tabs'[b].at = "wallet" PROVE Prompts(b, tabs'[b])
  BY <1>2, <1>3 DEF TabTo, Prompting
<1>4. ASSUME NEW b \in Tabs, tabs'[b].at \in Prompting PROVE Unobserved(b, tabs[b].intent)' = {}
  <2>1. PICK i : i = tabs'[b].intent
    OBVIOUS
  <2>2. Unobserved(b, i) = {}
    <3>1. CASE tabs[b].at \in Prompting /\ tabs[b].intent = i
      BY <3>1 DEF HashesAgree, PromptsAgree
    <3>2. CASE MaySign(b, i)
      BY <3>2 DEF MaySign
    <3>3. CASE Prompts(b, tabs'[b])
      BY <2>1, <3>1, <3>3 DEF Prompts, Prompting
    <3> QED BY <1>2, <1>4, <2>1, <3>1, <3>2, <3>3 DEF TabTo
  <2>3. Unobserved(b, i)' = {}
    BY <2>2, NoneReturned DEF HashesAgree
  <2> QED BY <2>1, <2>3 DEF Unobserved
<1>5. ASSUME NEW b \in Tabs, tabs'[b].at = "wallet"
      PROVE  PromptedBy(tabs[b].intent, tabs[b].armed, b)'
  <2>1. PICK i, n : i = tabs'[b].intent /\ n = tabs'[b].armed
    OBVIOUS
  <2>2. CASE tabs'[b] = tabs[b]
    <3>1. i \in DOMAIN intents /\ PromptedBy(i, n, b)
      BY <1>5, <2>1, <2>2, TabAt DEF HashesAgree, PromptsAgree
    <3>2. PromptedBy(i, n, b)'
      BY <1>5, <2>2, <3>1, PromptedStays
    <3> QED BY <2>1, <3>2 DEF PromptedBy
  <2>3. CASE Prompts(b, tabs'[b])
    <3>1. i \in DOMAIN intents /\ n \in DOMAIN intents[i].ops
          /\ intents'[i].ops[n].status = "submission_uncertain" /\ intents'[i].ops[n].token[1] = b
      BY <2>1, <2>3, TabAt DEF Prompts
    <3>2. n \in DOMAIN intents'[i].ops
      BY <3>1, AttemptMoved
    <3> QED BY <2>1, <3>1, <3>2 DEF PromptedBy
  <2> QED BY <1>3, <1>5, <2>2, <2>3
<1>6. ASSUME NEW b \in Tabs, tabs'[b].at = "wallet", NEW t \in DOMAIN txs', Known(t)'
      PROVE  ~(txs'[t].intent = tabs'[b].intent /\ txs'[t].attempt = tabs'[b].armed)
  <2>1. t \in DOMAIN txs /\ Known(t) /\ txs'[t].intent = txs[t].intent /\ txs'[t].attempt = txs[t].attempt
    BY <1>6 DEF SameHashes, Known
  <2>2. CASE tabs'[b] = tabs[b]
    BY <1>6, <2>1, <2>2 DEF HashesAgree, PromptsAgree
  <2>3. CASE Prompts(b, tabs'[b])
    BY <2>1, <2>3, PromptAlone
  <2> QED BY <1>3, <1>6, <2>2, <2>3
<1>7. ASSUME NEW b \in Tabs, tabs'[b].at = "wallet", NEW c \in Tabs \ {b}, tabs'[c].at = "wallet"
      PROVE  ~(tabs'[c].intent = tabs'[b].intent /\ tabs'[c].armed = tabs'[b].armed)
  <2>1. CASE tabs'[b] = tabs[b] /\ tabs'[c] = tabs[c]
    BY <1>7, <2>1 DEF HashesAgree, PromptsAgree
  <2>2. CASE tabs'[b] # tabs[b]
    <3>1. Prompts(b, tabs'[b]) /\ tabs'[c] = tabs[c]
      BY <1>2, <1>3, <1>7, <2>2
    <3> QED BY <1>7, <3>1, PromptAlone
  <2>3. CASE tabs'[c] # tabs[c]
    <3>1. Prompts(c, tabs'[c]) /\ tabs'[b] = tabs[b]
      BY <1>2, <1>3, <1>7, <2>3
    <3> QED BY <1>7, <3>1, PromptAlone
  <2> QED BY <2>1, <2>2, <2>3
<1> QED BY <1>4, <1>5, <1>6, <1>7 DEF PromptsAgree

\* A tab's wallet sends: the hashes, tabs and attempts go on agreeing, and the
\* new transaction is the first of its attempt after which nothing is known.
LEMMA SendStep ==
  ASSUME FundingInv, HashesAgree, KnownNeverRepeated, TabsMove, NEW b \in Tabs, Sending(b)
  PROVE  ReturnedAgree' /\ PromptsAgree' /\ KnownNeverRepeated' /\ DOMAIN txs \subseteq DOMAIN txs'
<1>1. txs \in Seq(TransactionType) /\ tabs \in [Tabs -> TabType] /\ b # "none"
  BY FundingConstants DEF FundingInv, TypeOK, TablesOK, CallersOK
<1>2. PICK known \in BOOLEAN : txs' = Append(txs, Sent(b, known))
  BY DEF Sending
<1>3. PICK u, i, n : u = Len(txs) + 1 /\ i = tabs[b].intent /\ n = tabs[b].armed
  OBVIOUS
<1>4. Sent(b, known).intent = i /\ Sent(b, known).attempt = n /\ Sent(b, known).tab \in {b, "none"}
  BY <1>3 DEF Sent
<1>5. Sent(b, known) \in TransactionType
  BY <1>1, SentType
<1>6. /\ DOMAIN txs' = DOMAIN txs \cup {u} /\ u \notin DOMAIN txs /\ u \in Nat /\ u # 0
      /\ \A t \in DOMAIN txs : txs'[t] = txs[t] /\ t < u
      /\ txs'[u] = Sent(b, known)
  BY <1>1, <1>2, <1>3, <1>5
<1>7. /\ tabs[b].at = "wallet" /\ tabs'[b].at \notin Prompting /\ intents' = intents
      /\ i \in DOMAIN intents
  BY <1>3, TabAt DEF Sending
<1>8. \A c \in Tabs \ {b} : tabs'[c] = tabs[c]
  <2>1. tabs' # tabs
    BY <1>7 DEF Prompting
  <2>2. PICK c \in Tabs : \E t : tabs' = [tabs EXCEPT ![c] = t]
    BY <2>1 DEF TabsMove
  <2>3. PICK t : tabs' = [tabs EXCEPT ![c] = t]
    BY <2>2
  <2>4. c = b
    <3>1. tabs'[b] # tabs[b]
      BY <1>7 DEF Prompting
    <3> QED BY <1>1, <2>3, <3>1
  <2> QED BY <1>1, <2>3, <2>4
<1>9. /\ PromptedBy(i, n, b)
      /\ \A t \in DOMAIN txs : Known(t) => ~(txs[t].intent = i /\ txs[t].attempt = n)
      /\ \A c \in Tabs \ {b} : tabs[c].at = "wallet" => ~(tabs[c].intent = i /\ tabs[c].armed = n)
  BY <1>3, <1>7 DEF HashesAgree, PromptsAgree
<1>10. ASSUME NEW c, NEW j, NEW t \in Unobserved(c, j) PROVE t \in Unobserved(c, j)'
  BY <1>6, <1>7, <1>10 DEF Unobserved
<1>11. ASSUME NEW t \in DOMAIN txs', Known(t)'
       PROVE  /\ txs'[t].intent \in DOMAIN intents'
              /\ PromptedBy(txs[t].intent, txs[t].attempt, txs[t].tab)'
              /\ intents'[txs'[t].intent].ops[txs'[t].attempt].status = "submission_uncertain" =>
                   t \in Unobserved(txs[t].tab, txs[t].intent)'
  <2>1. PICK j, m, c : j = txs'[t].intent /\ m = txs'[t].attempt /\ c = txs'[t].tab
    OBVIOUS
  <2>2. CASE t \in DOMAIN txs
    <3>1. Known(t) /\ j = txs[t].intent /\ m = txs[t].attempt /\ c = txs[t].tab
      BY <1>6, <1>11, <2>1, <2>2 DEF Known
    <3>2. /\ j \in DOMAIN intents /\ PromptedBy(j, m, c)
          /\ intents[j].ops[m].status = "submission_uncertain" => t \in Unobserved(c, j)
      BY <2>2, <3>1 DEF HashesAgree, ReturnedAgree
    <3>3. intents[j].ops[m].status = "submission_uncertain" => t \in Unobserved(c, j)'
      BY <1>10, <3>2
    <3> QED BY <1>7, <2>1, <3>2, <3>3 DEF PromptedBy, Unobserved
  <2>3. CASE t = u
    <3>1. j = i /\ m = n /\ c = b
      BY <1>4, <1>6, <1>11, <2>1, <2>3 DEF Known
    <3>2. \A k \in DOMAIN intents[i].ops : intents[i].ops[k].tx # u
      BY <1>6, <1>7 DEF HashesAgree, AttemptsAgree
    <3>3. u \in Unobserved(b, i)'
      BY <1>6, <1>7, <2>1, <2>3, <3>1, <3>2 DEF Unobserved
    <3> QED BY <1>7, <1>9, <2>1, <2>3, <3>1, <3>3 DEF PromptedBy, Unobserved
  <2> QED BY <1>6, <2>2, <2>3
<1>12. ASSUME NEW c \in Tabs, tabs'[c].at \in Prompting
       PROVE  c # b /\ tabs'[c] = tabs[c] /\ Unobserved(c, tabs[c].intent)' = {}
  <2>1. c # b /\ tabs'[c] = tabs[c]
    BY <1>7, <1>8, <1>12
  <2>2. PICK j : j = tabs[c].intent
    OBVIOUS
  <2>3. Unobserved(c, j) = {}
    BY <1>12, <2>1, <2>2 DEF HashesAgree, PromptsAgree
  <2>4. c # "none"
    BY FundingConstants
  <2>5. ASSUME NEW t \in Unobserved(c, j)' PROVE FALSE
    <3>1. t \in DOMAIN txs' /\ txs'[t].tab = c /\ txs'[t].intent = j
          /\ \A k \in DOMAIN intents[j].ops : intents[j].ops[k].tx # t
      BY <1>7, <2>5 DEF Unobserved
    <3>2. t \in DOMAIN txs
      BY <1>4, <1>6, <2>1, <2>4, <3>1
    <3>3. t \in Unobserved(c, j)
      BY <1>6, <3>1, <3>2 DEF Unobserved
    <3> QED BY <2>3, <3>3
  <2> QED BY <2>1, <2>2, <2>5 DEF Unobserved
<1>13. ASSUME NEW c \in Tabs, tabs'[c].at = "wallet"
       PROVE  /\ PromptedBy(tabs[c].intent, tabs[c].armed, c)'
              /\ \A t \in DOMAIN txs' :
                   Known(t)' => ~(txs'[t].intent = tabs'[c].intent /\ txs'[t].attempt = tabs'[c].armed)
              /\ \A d \in Tabs \ {c} : tabs'[d].at = "wallet" =>
                   ~(tabs'[d].intent = tabs'[c].intent /\ tabs'[d].armed = tabs'[c].armed)
  <2>1. c # b /\ tabs'[c] = tabs[c] /\ tabs[c].at = "wallet"
    BY <1>12, <1>13 DEF Prompting
  <2>2. PromptedBy(tabs[c].intent, tabs[c].armed, c)'
    BY <1>7, <2>1 DEF HashesAgree, PromptsAgree, PromptedBy
  <2>3. ASSUME NEW t \in DOMAIN txs', Known(t)',
               txs'[t].intent = tabs'[c].intent, txs'[t].attempt = tabs'[c].armed
        PROVE  FALSE
    <3>1. CASE t \in DOMAIN txs
      BY <1>6, <2>1, <2>3, <3>1 DEF HashesAgree, PromptsAgree, Known
    <3>2. CASE t = u
      BY <1>4, <1>6, <1>9, <2>1, <2>3, <3>2
    <3> QED BY <1>6, <3>1, <3>2
  <2>4. ASSUME NEW d \in Tabs \ {c}, tabs'[d].at = "wallet"
        PROVE  ~(tabs'[d].intent = tabs'[c].intent /\ tabs'[d].armed = tabs'[c].armed)
    <3>1. tabs'[d] = tabs[d] /\ tabs[d].at = "wallet"
      BY <1>12, <2>4 DEF Prompting
    <3> QED BY <2>1, <3>1 DEF HashesAgree, PromptsAgree
  <2> QED BY <2>2, <2>3, <2>4
<1>14. ASSUME NEW t \in DOMAIN txs', NEW v \in DOMAIN txs', txs'[t].intent = txs'[v].intent,
              txs'[t].attempt = txs'[v].attempt, t < v
       PROVE  ~Known(t)'
  <2>1. t \in DOMAIN txs /\ txs'[t] = txs[t]
    BY <1>1, <1>3, <1>6, <1>14
  <2>2. CASE v \in DOMAIN txs
    BY <1>6, <1>14, <2>1, <2>2 DEF KnownNeverRepeated, Known
  <2>3. CASE v = u
    BY <1>4, <1>6, <1>9, <1>14, <2>1, <2>3 DEF Known
  <2> QED BY <1>6, <2>2, <2>3
<1>15. ReturnedAgree'
  BY <1>11 DEF ReturnedAgree
<1>16. PromptsAgree'
  BY <1>12, <1>13 DEF PromptsAgree, Unobserved
<1>17. KnownNeverRepeated'
  BY <1>14 DEF KnownNeverRepeated
<1> QED BY <1>6, <1>15, <1>16, <1>17

\* Hashes, attempts and tabs agree, and a wallet whose answer was a hash is not
\* asked again for the attempt.
THEOREM HashesAgreeHolds == Spec => [](HashesAgree /\ KnownNeverRepeated)
<1>1. Init => HashesAgree /\ KnownNeverRepeated
  BY DEF Init, HashesAgree, AttemptsAgree, ReturnedAgree, PromptsAgree, KnownNeverRepeated, IdleTab,
         Prompting
<1>2. ASSUME FundingInv, FundingInv', HashesAgree, KnownNeverRepeated, [Next]_vars
      PROVE  HashesAgree' /\ KnownNeverRepeated'
  <2>1. IntentsTo(intents') /\ TabsMove /\ (SameHashes \/ \E b \in Tabs : Sending(b))
    BY <1>2, StepMoves
  <2>2. CASE SameHashes
    <3>1. AttemptsAgree'
      BY <1>2, <2>1, <2>2, AttemptsStep DEF HashesAgree, SameHashes
    <3>2. ReturnedAgree' /\ PromptsAgree'
      BY <1>2, <2>1, <2>2, ReturnedStep, PromptsStep
    <3>3. KnownNeverRepeated'
      BY <1>2, <2>2 DEF KnownNeverRepeated, SameHashes, Known
    <3> QED BY <3>1, <3>2, <3>3 DEF HashesAgree
  <2>3. ASSUME NEW b \in Tabs, Sending(b) PROVE HashesAgree' /\ KnownNeverRepeated'
    <3>1. ReturnedAgree' /\ PromptsAgree' /\ KnownNeverRepeated' /\ DOMAIN txs \subseteq DOMAIN txs'
      BY <1>2, <2>1, <2>3, SendStep
    <3>2. AttemptsAgree'
      BY <1>2, <2>1, <3>1, AttemptsStep DEF HashesAgree
    <3> QED BY <3>1, <3>2 DEF HashesAgree
  <2> QED BY <2>1, <2>2, <2>3
<1> QED
  BY <1>1, <1>2, FundingInvHolds, PTL DEF Spec

\* A wallet whose answer was a hash is not asked again for the attempt, by
\* that tab or any other.
THEOREM KnownNeverRepeatedHolds == Spec => []KnownNeverRepeated
BY HashesAgreeHolds, PTL

-----------------------------------------------------------------------------
(***************************************************************************)
(* A cancelled intent moved nothing                                        *)
(***************************************************************************)
\* The owner gave the intent of this row up: nothing of it is open.
GivenUp(row) ==
  /\ row.status = "cancelled"
  /\ row.dest = 0
  /\ row.lease.holder = "none"
  /\ \A n \in DOMAIN row.ops : row.ops[n].status = "failed"

\* An attempt fails by its own revert, with its hash, or with its intent.
FailedWell(row) ==
  (\E n \in DOMAIN row.ops : row.ops[n].status = "failed" /\ row.ops[n].tx = 0) => GivenUp(row)

AllFailWell(db) == \A i \in DOMAIN db : FailedWell(db[i])

AttemptsFailWell == AllFailWell(intents)

\* One intent changes.
LEMMA RowFails ==
  ASSUME AllFailWell(intents), NEW i \in DOMAIN intents, NEW r, FailedWell(r)
  PROVE  AllFailWell([intents EXCEPT ![i] = r])
BY DEF AllFailWell

\* Its attempts stay, and what was given up stays given up.
LEMMA SameFails ==
  ASSUME AllFailWell(intents), NEW i \in DOMAIN intents, NEW r, r.ops = intents[i].ops,
         GivenUp(intents[i]) => /\ r.status = intents[i].status
                                /\ r.dest = intents[i].dest
                                /\ r.lease.holder = intents[i].lease.holder
  PROVE  FailedWell(r)
<1>1. FailedWell(intents[i])
  BY DEF AllFailWell
<1>2. GivenUp(intents[i]) => GivenUp(r)
  BY DEF GivenUp
<1> QED BY <1>1, <1>2 DEF FailedWell

\* One of its attempts changes, and fails only with its hash.
LEMMA AttemptFails ==
  ASSUME AllFailWell(intents), NEW i \in DOMAIN intents, ~GivenUp(intents[i]),
         NEW n \in DOMAIN intents[i].ops, NEW a, a.status = "failed" => a.tx # 0,
         NEW r, r.ops = [intents[i].ops EXCEPT ![n] = a]
  PROVE  FailedWell(r)
<1>1. ASSUME NEW m \in DOMAIN intents[i].ops
      PROVE  ~(intents[i].ops[m].status = "failed" /\ intents[i].ops[m].tx = 0)
  BY DEF AllFailWell, FailedWell
<1>2. /\ DOMAIN r.ops = DOMAIN intents[i].ops
      /\ \A m \in DOMAIN r.ops : r.ops[m] = a \/ r.ops[m] = intents[i].ops[m]
  OBVIOUS
<1> QED BY <1>1, <1>2 DEF FailedWell

\* A request that ends had no lease of an intent that was given up.
LEMMA EndsFail ==
  ASSUME NEW p \in Requests, NEW db \in Seq(IntentType), AllFailWell(db), Ends(p, db)
  PROVE  AllFailWell(intents')
<1>1. DOMAIN intents' = DOMAIN db
  BY DEF Ends
<1>2. ASSUME NEW i \in DOMAIN db PROVE FailedWell(intents'[i])
  <2>1. db[i] \in IntentType /\ FailedWell(db[i]) /\ "none" \notin Requests
    BY FundingConstants DEF AllFailWell
  <2>2. intents'[i] = IF db[i].lease.holder = p THEN [db[i] EXCEPT !.lease.holder = "gone"] ELSE db[i]
    BY DEF Ends
  <2>3. CASE db[i].lease.holder = p
    <3>1. ~GivenUp(db[i])
      BY <2>1, <2>3 DEF GivenUp
    <3>2. intents'[i].ops = db[i].ops
      BY <2>1, <2>2, <2>3 DEF IntentType
    <3> QED BY <2>1, <3>1, <3>2 DEF FailedWell
  <2>4. CASE db[i].lease.holder # p
    BY <2>1, <2>2, <2>4
  <2> QED BY <2>3, <2>4
<1> QED BY <1>1, <1>2 DEF AllFailWell

\* An attempt that moves, and does not fail.
LEMMA MovedFails ==
  ASSUME TablesOK, AllFailWell(intents), NEW i \in DOMAIN intents,
         NEW n \in DOMAIN intents[i].ops, intents[i].ops[n].status # "failed",
         NEW a, a.status # "failed", NEW s, NEW d
  PROVE  AllFailWell(Moved(i, n, a, s, d))
<1> DEFINE o == [intents[i].ops EXCEPT ![n] = a]
           r == [intents[i] EXCEPT !.ops = o, !.status = s, !.dest = d]
<1>1. Moved(i, n, a, s, d) = [intents EXCEPT ![i] = r]
  BY DEF Moved
<1>2. intents[i] \in IntentType
  BY RowType
<1>3. ~GivenUp(intents[i])
  BY DEF GivenUp
<1> HIDE DEF o
<1>4. r.ops = o
  BY <1>2 DEF IntentType
<1> HIDE DEF r
<1>5. FailedWell(r)
  BY <1>3, <1>4, AttemptFails DEF o
<1> QED BY <1>1, <1>5, RowFails

\* A reverted attempt fails with its hash.
LEMMA RevertFails ==
  ASSUME TablesOK, AllFailWell(intents), NEW i \in DOMAIN intents, ~GivenUp(intents[i]),
         NEW n \in DOMAIN intents[i].ops, intents[i].ops[n].tx # 0
  PROVE  AllFailWell(DestinationFailed(i, n))
<1> DEFINE a == [intents[i].ops[n] EXCEPT !.status = "failed", !.reverted = TRUE]
           o == [intents[i].ops EXCEPT ![n] = a]
           d == IF intents[i].dest = intents[i].ops[n].tx THEN 0 ELSE intents[i].dest
           s == IF intents[i].route = "send" THEN "ready_to_sign" ELSE "source_submitted"
           r == [intents[i] EXCEPT !.ops = o, !.dest = d, !.status = s, !.lease = NoLease]
<1>1. intents[i] \in IntentType /\ intents[i].ops[n] \in AttemptType
  BY RowType
<1>2. DestinationFailed(i, n) = [intents EXCEPT ![i] = r]
  BY <1>1 DEF DestinationFailed, IntentType
<1>3. a.tx # 0
  BY <1>1 DEF AttemptType
<1> HIDE DEF a, s, d
<1> HIDE DEF o
<1>4. r.ops = o
  BY <1>1 DEF IntentType
<1> HIDE DEF r
<1>5. FailedWell(r)
  BY <1>3, <1>4, AttemptFails DEF o
<1> QED BY <1>2, <1>5, RowFails

\* No step of a tab fails an attempt, or moves an intent that was given up.
LEMMA TabFails ==
  ASSUME FundingInv, AllFailWell(intents), NEW b \in Tabs, TabStep(b)
  PROVE  AllFailWell(intents')
<1> DEFINE i == tabs[b].intent
           n == tabs[b].attempt
<1>1. TablesOK
  BY DEF FundingInv, TypeOK
<1>2. CASE UNCHANGED intents
  BY <1>2
<1>3. CASE ClaimAttempt(b) /\ ~UNCHANGED intents
  <2> DEFINE r == [intents[i] EXCEPT !.ops = <<Attempt>>, !.status = "awaiting_signature"]
  <2>1. i \in DOMAIN intents
        /\ intents' = [intents EXCEPT ![i].ops = <<Attempt>>, ![i].status = "awaiting_signature"]
    BY <1>3, TabAt DEF ClaimAttempt
  <2>2. intents[i] \in IntentType
    BY <1>1, <2>1, RowType
  <2>3. intents' = [intents EXCEPT ![i] = r]
    BY <1>1, <2>1 DEF TablesOK, IntentType
  <2>4. r.ops = <<Attempt>>
    BY <2>2 DEF IntentType
  <2> HIDE DEF r
  <2>5. FailedWell(r)
    <3>1. Attempt.status # "failed"
      BY DEF Attempt
    <3>2. \A m \in DOMAIN r.ops : r.ops[m] = Attempt
      BY <2>4
    <3> QED BY <3>1, <3>2 DEF FailedWell
  <2>6. i \in DOMAIN intents
    BY <2>1
  <2> QED BY <2>3, <2>5, <2>6, RowFails
<1>4. CASE CreateReplacement(b) /\ ~UNCHANGED intents
  <2> DEFINE o == Append(intents[i].ops, Attempt)
             r == [intents[i] EXCEPT !.ops = o, !.dest = 0, !.status = "ready_to_sign",
                                     !.lease = NoLease]
  <2>1. i \in DOMAIN intents /\ intents[i].status \notin Final
        /\ intents' = [intents EXCEPT ![i].ops = Append(@, Attempt), ![i].dest = 0,
                                      ![i].status = "ready_to_sign", ![i].lease = NoLease]
    BY <1>4, TabAt DEF CreateReplacement, CanReplace
  <2>2. intents[i] \in IntentType /\ intents[i].ops \in Seq(AttemptType)
    BY <1>1, <2>1, RowType
  <2>3. intents' = [intents EXCEPT ![i] = r]
    BY <1>1, <2>1 DEF TablesOK, IntentType
  <2>4. \A m \in DOMAIN o : o[m] = Attempt \/ (m \in DOMAIN intents[i].ops /\ o[m] = intents[i].ops[m])
    BY <2>2
  <2> HIDE DEF o
  <2>5. r.ops = o
    BY <2>2 DEF IntentType
  <2> HIDE DEF r
  <2>6. FailedWell(intents[i]) /\ ~GivenUp(intents[i])
    BY <2>1 DEF AllFailWell, GivenUp, Final
  <2>7. FailedWell(r)
    <3>1. Attempt.status # "failed"
      BY DEF Attempt
    <3> QED BY <2>4, <2>5, <2>6, <3>1 DEF FailedWell
  <2>8. i \in DOMAIN intents
    BY <2>1
  <2> QED BY <2>3, <2>7, <2>8, RowFails
<1>5. CASE ArmAttempt(b) /\ ~UNCHANGED intents
  <2>1. PICK m \in OpenAttempts(i) :
          intents' = Moved(i, m, [intents[i].ops[m] EXCEPT !.token = <<b, n>>,
                                    !.status = "submission_uncertain"],
                           "source_submitted", intents[i].dest)
    BY <1>5 DEF ArmAttempt
  <2> DEFINE a == [intents[i].ops[m] EXCEPT !.token = <<b, n>>, !.status = "submission_uncertain"]
  <2>2. i \in DOMAIN intents /\ m \in DOMAIN intents[i].ops /\ intents[i].ops[m].status # "failed"
    BY <1>5, <2>1, TabAt DEF ArmAttempt, OpenAttempts
  <2>3. intents[i].ops[m] \in AttemptType
    BY <1>1, <2>2, RowType
  <2>4. a.status # "failed" /\ intents' = Moved(i, m, a, "source_submitted", intents[i].dest)
    BY <2>1, <2>3 DEF AttemptType
  <2> HIDE DEF a
  <2> QED BY <1>1, <2>2, <2>4, MovedFails
<1>6. CASE ObserveDestination(b) /\ ~UNCHANGED intents
  <2> DEFINE t == tabs[b].tx
             a == [intents[i].ops[n] EXCEPT !.tx = t, !.status = "pending"]
  <2>1. /\ i \in DOMAIN intents /\ n \in DOMAIN intents[i].ops
        /\ intents[i].ops[n].status # "failed"
        /\ intents' = Moved(i, n, a, "delivery_pending", t)
    BY <1>6, TabAt DEF ObserveDestination, CanObserve
  <2>2. intents[i].ops[n] \in AttemptType
    BY <1>1, <2>1, RowType
  <2>3. a.status # "failed"
    BY <2>2 DEF AttemptType
  <2> HIDE DEF a
  <2> QED BY <1>1, <2>1, <2>3, MovedFails
<1>7. CASE ReleaseRejected(b) /\ ~UNCHANGED intents
  <2> DEFINE a == [intents[i].ops[n] EXCEPT !.status = "awaiting_signature", !.token = NoToken]
  <2>1. /\ i \in DOMAIN intents /\ n \in DOMAIN intents[i].ops
        /\ intents[i].ops[n].status # "failed"
        /\ intents' = Moved(i, n, a, "awaiting_signature", 0)
    BY <1>7, TabAt DEF ReleaseRejected, CanRelease
  <2>2. intents[i].ops[n] \in AttemptType
    BY <1>1, <2>1, RowType
  <2>3. a.status # "failed"
    BY <2>2 DEF AttemptType
  <2> HIDE DEF a
  <2> QED BY <1>1, <2>1, <2>3, MovedFails
<1>8. CASE ReportUncertain(b)
  <2> DEFINE told == Owns(b, i, n) /\ Unrivalled(i) /\ intents[i].ops[n].status = "submission_uncertain"
             s == IF told THEN "source_submitted" ELSE intents[i].status
             r == [intents[i] EXCEPT !.status = s]
  <2>1. i \in DOMAIN intents /\ n \in DOMAIN intents[i].ops
    BY <1>8, TabAt DEF ReportUncertain
  <2>2. intents[i] \in IntentType
    BY <1>1, <2>1, RowType
  <2>3. intents' = [intents EXCEPT ![i] = r]
    BY <1>1, <1>8 DEF ReportUncertain, TablesOK, IntentType
  <2>4. GivenUp(intents[i]) => s = intents[i].status
    BY <2>1 DEF GivenUp
  <2> HIDE DEF s
  <2>5. r.dest = intents[i].dest /\ r.ops = intents[i].ops /\ r.lease = intents[i].lease /\ r.status = s
    BY <2>2 DEF IntentType
  <2> HIDE DEF r
  <2>6. FailedWell(r)
    BY <2>1, <2>4, <2>5, SameFails
  <2> QED BY <2>1, <2>3, <2>6, RowFails
<1>9. ASSUME NEW j \in DOMAIN intents, ContinueFunding(b, j) PROVE UNCHANGED intents
  BY <1>9 DEF ContinueFunding, database
<1>10. PromptWallet(b) => UNCHANGED intents
  BY DEF PromptWallet, database
<1> QED
  BY <1>2, <1>3, <1>4, <1>5, <1>6, <1>7, <1>8, <1>9, <1>10 DEF TabStep

\* Of an intent's own steps, cancelling gives it up, and a revert fails one
\* attempt with its hash.
LEMMA IntentFails ==
  ASSUME FundingInv, AllFailWell(intents), NEW i \in DOMAIN intents, IntentStep(i)
  PROVE  AllFailWell(intents')
<1>1. TablesOK /\ intents[i] \in IntentType
  BY RowType DEF FundingInv, TypeOK
<1>2. CASE Expire(i)
  <2> DEFINE r == [intents[i] EXCEPT !.expired = TRUE]
  <2>1. intents' = [intents EXCEPT ![i] = r]
    BY <1>1, <1>2 DEF Expire, TablesOK, IntentType
  <2>2. /\ r.ops = intents[i].ops /\ r.dest = intents[i].dest
        /\ r.status = intents[i].status /\ r.lease = intents[i].lease
    BY <1>1 DEF IntentType
  <2> HIDE DEF r
  <2>3. FailedWell(r)
    BY <2>2, SameFails
  <2> QED BY <2>1, <2>3, RowFails
<1>3. CASE LeaseLapses(i)
  <2> DEFINE l == [intents[i].lease EXCEPT !.live = FALSE]
             r == [intents[i] EXCEPT !.lease = l]
  <2>1. l.holder = intents[i].lease.holder
    BY <1>1, RowType
  <2>2. intents' = [intents EXCEPT ![i] = r]
    BY <1>1, <1>3 DEF LeaseLapses, TablesOK, IntentType
  <2> HIDE DEF l
  <2>3. /\ r.ops = intents[i].ops /\ r.dest = intents[i].dest
        /\ r.status = intents[i].status /\ r.lease = l
    BY <1>1 DEF IntentType
  <2> HIDE DEF r
  <2>4. FailedWell(r)
    BY <2>1, <2>3, SameFails
  <2> QED BY <2>2, <2>4, RowFails
<1>4. CASE CancelFundingIntent(i)
  <2> DEFINE o == [n \in DOMAIN intents[i].ops |-> [intents[i].ops[n] EXCEPT !.status = "failed"]]
             r == [intents[i] EXCEPT !.status = "cancelled", !.lease = NoLease, !.ops = o]
  <2>1. intents' = [intents EXCEPT ![i] = r]
    BY <1>1, <1>4 DEF CancelFundingIntent, TablesOK, IntentType
  <2>2. ASSUME NEW n \in DOMAIN o PROVE o[n].status = "failed"
    <3>1. intents[i].ops[n] \in AttemptType
      BY <1>1, RowType
    <3>2. o[n] = [intents[i].ops[n] EXCEPT !.status = "failed"]
      OBVIOUS
    <3> HIDE DEF o
    <3> QED BY <3>1, <3>2 DEF AttemptType
  <2> HIDE DEF o
  <2>3. r.ops = o /\ r.status = "cancelled" /\ r.dest = 0 /\ r.lease.holder = "none"
    BY <1>1, <1>4 DEF CancelFundingIntent, CanCancel, IntentType, NoLease
  <2> HIDE DEF r
  <2>4. FailedWell(r)
    BY <2>2, <2>3 DEF FailedWell, GivenUp
  <2> QED BY <2>1, <2>4, RowFails
<1>5. ASSUME NEW n \in DOMAIN intents[i].ops, CheckFundingRecovery(i, n)
      PROVE  AllFailWell(intents')
  <2>1. intents[i].ops[n].tx \in DOMAIN txs /\ intents[i].ops[n].status # "failed"
        /\ intents' = DestinationFailed(i, n)
    BY <1>5 DEF CheckFundingRecovery, HasReverted, Reverted
  <2>2. intents[i].ops[n].tx # 0 /\ ~GivenUp(intents[i])
    BY <1>1, <2>1 DEF TablesOK, GivenUp
  <2> QED BY <1>1, <2>1, <2>2, RevertFails
<1>6. ASSUME NEW n \in DOMAIN intents[i].ops, NEW t \in DOMAIN txs, AttachDestinationHash(i, n, t)
      PROVE  AllFailWell(intents')
  <2> DEFINE a == [intents[i].ops[n] EXCEPT !.tx = t, !.status = "submitted"]
  <2>1. intents[i].ops[n] \in AttemptType
    BY <1>1, RowType
  <2>2. a.status # "failed"
    BY <2>1 DEF AttemptType
  <2>3. intents' = Moved(i, n, a, "destination_submitted", t) /\ intents[i].ops[n].status # "failed"
    BY <1>6 DEF AttachDestinationHash
  <2> HIDE DEF a
  <2> QED BY <1>1, <2>2, <2>3, MovedFails
<1> QED
  BY <1>2, <1>3, <1>4, <1>5, <1>6 DEF IntentStep

\* A reconcile request moves no intent that was given up: it holds no lease of
\* it, and finds it cancelled or without the destination it read.
LEMMA RequestFails ==
  ASSUME FundingInv, AllFailWell(intents), NEW p \in Requests, ReconcileStep(p) \/ LoseRequest(p)
  PROVE  AllFailWell(intents')
<1> DEFINE i == requests[p].intent
           t == requests[p].dest
<1>1. TablesOK /\ intents \in Seq(IntentType) /\ "none" \notin Requests
  BY FundingConstants DEF FundingInv, TypeOK, TablesOK
<1>2. CASE UNCHANGED intents
  BY <1>2
<1>3. CASE Ends(p, intents)
  BY <1>1, <1>3, EndsFail
<1>4. ASSUME requests[p].at # "idle"
      PROVE  i \in DOMAIN intents /\ intents[i] \in IntentType /\ t \in DOMAIN txs /\ t \in Nat
  BY <1>1, <1>4, RequestAt, RowType DEF RequestType
<1>5. ASSUME i \in DOMAIN intents, ~GivenUp(intents[i]), NEW r \in IntentType, r.ops = intents[i].ops,
             intents' = [intents EXCEPT ![i] = r] \/ Ends(p, [intents EXCEPT ![i] = r])
      PROVE  AllFailWell(intents')
  <2>1. FailedWell(r)
    BY <1>5, SameFails
  <2>2. AllFailWell([intents EXCEPT ![i] = r])
    BY <1>5, <2>1, RowFails
  <2>3. [intents EXCEPT ![i] = r] \in Seq(IntentType)
    BY <1>1, <1>5
  <2> QED BY <1>5, <2>2, <2>3, EndsFail
<1>6. CASE ClaimReconciliation(p) /\ ~Ends(p, intents)
  <2>1. i \in DOMAIN intents /\ intents[i] \in IntentType /\ ~GivenUp(intents[i])
    BY <1>4, <1>6 DEF ClaimReconciliation, GivenUp, Final
  <2>2. CASE Ends(p, [intents EXCEPT ![i].status = "cancelled"])
    <3> DEFINE r == [intents[i] EXCEPT !.status = "cancelled"]
    <3>1. [intents EXCEPT ![i].status = "cancelled"] = [intents EXCEPT ![i] = r]
      BY <1>1, <2>1 DEF IntentType
    <3>2. r \in IntentType /\ r.ops = intents[i].ops
      BY <2>1 DEF IntentType, Final
    <3>3. Ends(p, [intents EXCEPT ![i] = r])
      BY <2>2, <3>1
    <3> HIDE DEF r
    <3> QED BY <1>5, <2>1, <3>2, <3>3
  <2>3. CASE intents' = [intents EXCEPT ![i].status = "verifying_destination",
                                        ![i].lease = [holder |-> p, live |-> TRUE]]
    <3> DEFINE l == [holder |-> p, live |-> TRUE]
               r == [intents[i] EXCEPT !.status = "verifying_destination", !.lease = l]
    <3>1. intents' = [intents EXCEPT ![i] = r]
      BY <1>1, <2>1, <2>3 DEF IntentType
    <3>2. l \in [holder : Requests \cup {"none", "gone"}, live : BOOLEAN]
      OBVIOUS
    <3> HIDE DEF l
    <3>3. r \in IntentType /\ r.ops = intents[i].ops
      BY <2>1, <3>2 DEF IntentType, Active
    <3> HIDE DEF r
    <3> QED BY <1>5, <2>1, <3>1, <3>3
  <2> QED BY <1>6, <2>2, <2>3 DEF ClaimReconciliation
<1>7. CASE VerifyDestination(p) /\ ~Ends(p, intents) /\ ~UNCHANGED intents
  <2>1. i \in DOMAIN intents /\ intents[i] \in IntentType /\ t \in DOMAIN txs /\ t # 0
    BY <1>1, <1>4, <1>7 DEF VerifyDestination, TablesOK
  <2>2. ASSUME NEW n \in RevertedAttempts(i, t), intents[i].dest = t, Unrivalled(i),
               Ends(p, DestinationFailed(i, n))
        PROVE  AllFailWell(intents')
    <3>1. n \in DOMAIN intents[i].ops /\ intents[i].ops[n].tx # 0 /\ ~GivenUp(intents[i])
      BY <2>1, <2>2 DEF RevertedAttempts, GivenUp
    <3>2. AllFailWell(DestinationFailed(i, n))
      BY <1>1, <2>1, <3>1, RevertFails
    <3>3. PICK r : GoodRow(i, r) /\ DestinationFailed(i, n) = [intents EXCEPT ![i] = r]
      BY <1>1, <2>1, <2>2, <3>1, FailedRow
    <3>4. DestinationFailed(i, n) \in Seq(IntentType)
      BY <1>1, <2>1, <3>3 DEF GoodRow
    <3> QED BY <2>2, <3>2, <3>4, EndsFail
  <2>3. CASE /\ intents' = [intents EXCEPT ![i].status = "syncing_pool"]
             /\ intents[i].status = "verifying_destination"
    <3> DEFINE r == [intents[i] EXCEPT !.status = "syncing_pool"]
    <3>1. intents' = [intents EXCEPT ![i] = r]
      BY <1>1, <2>1, <2>3 DEF IntentType
    <3>2. r \in IntentType /\ r.ops = intents[i].ops
      BY <2>1 DEF IntentType, Active
    <3> HIDE DEF r
    <3>3. ~GivenUp(intents[i])
      BY <2>3 DEF GivenUp
    <3> QED BY <1>5, <2>1, <3>1, <3>2, <3>3
  <2> QED BY <1>7, <2>2, <2>3 DEF VerifyDestination
<1>8. ASSUME Holds(p, i) PROVE ~GivenUp(intents[i])
  BY <1>1, <1>8 DEF Holds, GivenUp
<1>9. CASE StoreSync(p) /\ ~Ends(p, intents)
  <2> DEFINE k == requests[p].key
             r == [intents[i] EXCEPT !.sync = k]
  <2>1. i \in DOMAIN intents /\ intents[i] \in IntentType /\ k \in Nat /\ Holds(p, i)
        /\ intents' = [intents EXCEPT ![i].sync = k]
    BY <1>4, <1>9, RequestAt DEF StoreSync, CanStore, RequestType
  <2>2. intents' = [intents EXCEPT ![i] = r]
    BY <1>1, <2>1 DEF IntentType
  <2>3. r \in IntentType /\ r.ops = intents[i].ops
    BY <2>1 DEF IntentType
  <2> HIDE DEF r
  <2> QED BY <1>5, <1>8, <2>1, <2>2, <2>3
<1>10. CASE AwaitSync(p) /\ ~Ends(p, intents) /\ ~UNCHANGED intents
  <2> DEFINE m == intents[i].key + 1
             r == [intents[i] EXCEPT !.status = "sync_failed", !.sync = 0, !.key = m,
                                     !.lease = NoLease]
  <2>1. i \in DOMAIN intents /\ intents[i] \in IntentType /\ Holds(p, i)
        /\ Ends(p, [intents EXCEPT ![i].status = "sync_failed", ![i].sync = 0,
                                   ![i].key = @ + 1, ![i].lease = NoLease])
    BY <1>4, <1>10 DEF AwaitSync, CanFailSync
  <2>2. [intents EXCEPT ![i].status = "sync_failed", ![i].sync = 0,
                        ![i].key = @ + 1, ![i].lease = NoLease] = [intents EXCEPT ![i] = r]
    BY <1>1, <2>1 DEF IntentType
  <2>3. m \in Nat
    BY <2>1 DEF IntentType
  <2>4. Ends(p, [intents EXCEPT ![i] = r])
    BY <2>1, <2>2
  <2> HIDE DEF m
  <2>5. r \in IntentType /\ r.ops = intents[i].ops
    BY <2>1, <2>3 DEF IntentType, Active, NoLease
  <2> HIDE DEF r
  <2> QED BY <1>5, <1>8, <2>1, <2>4, <2>5
<1>11. CASE ReconcileFunding(p) /\ ~Ends(p, intents)
  <2>1. i \in DOMAIN intents /\ intents[i] \in IntentType /\ t \in Nat /\ Holds(p, i)
    BY <1>4, <1>11 DEF ReconcileFunding, CanReconcile
  <2>2. CASE Ends(p, [intents EXCEPT ![i].status = "complete", ![i].verified = t, ![i].lease = NoLease])
    <3> DEFINE r == [intents[i] EXCEPT !.status = "complete", !.verified = t, !.lease = NoLease]
    <3>1. [intents EXCEPT ![i].status = "complete", ![i].verified = t, ![i].lease = NoLease]
            = [intents EXCEPT ![i] = r]
      BY <1>1, <2>1 DEF IntentType
    <3>2. Ends(p, [intents EXCEPT ![i] = r])
      BY <2>2, <3>1
    <3>3. r \in IntentType /\ r.ops = intents[i].ops
      BY <2>1 DEF IntentType, Final, NoLease
    <3> HIDE DEF r
    <3> QED BY <1>5, <1>8, <2>1, <3>2, <3>3
  <2>3. CASE Ends(p, [intents EXCEPT ![i].verified = t])
    <3> DEFINE r == [intents[i] EXCEPT !.verified = t]
    <3>1. [intents EXCEPT ![i].verified = t] = [intents EXCEPT ![i] = r]
      BY <1>1, <2>1 DEF IntentType
    <3>2. Ends(p, [intents EXCEPT ![i] = r])
      BY <2>3, <3>1
    <3>3. r \in IntentType /\ r.ops = intents[i].ops
      BY <2>1 DEF IntentType
    <3> HIDE DEF r
    <3> QED BY <1>5, <1>8, <2>1, <3>2, <3>3
  <2> QED BY <1>11, <2>2, <2>3 DEF ReconcileFunding
<1>12. ASSUME NEW j \in DOMAIN intents, StartReconcile(p, j) PROVE UNCHANGED intents
  BY <1>12 DEF StartReconcile, database
<1>13. ReadSync(p) \/ SubmitSync(p) => UNCHANGED intents
  BY DEF ReadSync, SubmitSync, database
<1>14. LoseRequest(p) => Ends(p, intents)
  BY DEF LoseRequest
<1> QED
  BY <1>2, <1>3, <1>6, <1>7, <1>9, <1>10, <1>11, <1>12, <1>13, <1>14 DEF ReconcileStep

\* Attempts go on failing well: a new intent has none, and those that give way
\* to it have none.
LEMMA StepFails ==
  ASSUME FundingInv, AllFailWell(intents), [Next]_vars
  PROVE  AllFailWell(intents')
<1>1. ASSUME NEW route \in Routes, CreateFundingIntent(route)
      PROVE  AllFailWell(intents')
  <2> DEFINE stale == {i \in DOMAIN intents : /\ intents[i].status \in Signing
                                              /\ intents[i].expired
                                              /\ intents[i].dest = 0
                                              /\ intents[i].ops = <<>>}
             old == [i \in DOMAIN intents |->
                       IF i \in stale THEN [intents[i] EXCEPT !.status = "cancelled"] ELSE intents[i]]
             new == NewIntent(route)
  <2>1. intents' = Append(old, new)
    BY <1>1 DEF CreateFundingIntent
  <2>2. intents \in Seq(IntentType) /\ DOMAIN intents = 1..Len(intents) /\ Len(intents) \in Nat
    BY DEF FundingInv, TypeOK, TablesOK
  <2>3. FailedWell(new)
    <3>1. new.ops = <<>>
      BY DEF NewIntent
    <3> HIDE DEF new
    <3> QED BY <3>1 DEF FailedWell
  <2>4. ASSUME NEW i \in DOMAIN intents PROVE FailedWell(old[i]) /\ old[i] \in IntentType
    <3>1. intents[i] \in IntentType /\ FailedWell(intents[i])
      BY <2>2 DEF AllFailWell
    <3>2. CASE i \in stale
      <4>1. old[i] = [intents[i] EXCEPT !.status = "cancelled"] /\ intents[i].ops = <<>>
        BY <3>2
      <4> HIDE DEF old
      <4>2. old[i].ops = <<>> /\ old[i] \in IntentType
        BY <3>1, <4>1 DEF IntentType, Final
      <4> QED BY <4>2 DEF FailedWell
    <3>3. CASE i \notin stale
      <4>1. old[i] = intents[i]
        BY <3>3
      <4> QED BY <3>1, <4>1
    <3> QED BY <3>2, <3>3
  <2>5. DOMAIN old = 1..Len(intents)
    BY <2>2
  <2>6. old \in [1..Len(intents) -> IntentType]
    BY <2>2, <2>4
  <2> HIDE DEF old, new
  <2>7. old \in Seq(IntentType) /\ Len(old) = Len(intents)
    BY <2>2, <2>5, <2>6
  <2>8. /\ DOMAIN intents' = DOMAIN intents \cup {Len(intents) + 1}
        /\ intents'[Len(intents) + 1] = new
        /\ \A i \in DOMAIN intents : intents'[i] = old[i]
    BY <2>1, <2>2, <2>5, <2>7
  <2> QED BY <2>3, <2>4, <2>8 DEF AllFailWell
<1>2. (\E t \in DOMAIN txs : Mine(t)) \/ (\E k \in Keys : RunSync(k)) \/ EndProgram \/ LateFunding
        \/ UNCHANGED vars => UNCHANGED intents
  BY DEF Mine, RunSync, EndProgram, LateFunding, ReconcileLateFunding, vars, database
<1> QED
  BY <1>1, <1>2, IntentFails, TabFails, RequestFails DEF Next

\* Whatever tabs, requests and reloads did before, an intent the owner can
\* cancel has no transaction the wallet returned: not on its way, not arrived.
THEOREM CancelMovesNothingHolds == Spec => CancelMovesNothing
<1>1. Init => AttemptsFailWell
  BY DEF Init, AttemptsFailWell, AllFailWell
<1>2. ASSUME FundingInv, AttemptsFailWell, [Next]_vars PROVE AttemptsFailWell'
  <2>1. AllFailWell(intents')
    BY <1>2, StepFails DEF AttemptsFailWell
  <2> QED BY <2>1 DEF AttemptsFailWell, AllFailWell
<1>3. ASSUME HashesAgree, AttemptsFailWell, NEW i \in DOMAIN intents, CancelFundingIntent(i),
             NEW t \in DOMAIN txs, txs[t].intent = i, Known(t)
      PROVE  FALSE
  <2> DEFINE n == txs[t].attempt
  <2>1. n \in DOMAIN intents[i].ops /\ intents[i].ops[n].status # "awaiting_signature"
    BY <1>3 DEF HashesAgree, ReturnedAgree, PromptedBy
  <2>2. intents[i].ops[n].status = "failed" /\ intents[i].ops[n].tx = 0 /\ intents[i].status # "cancelled"
    BY <1>3, <2>1 DEF CancelFundingIntent, CanCancel, Final
  <2> QED BY <1>3, <2>1, <2>2 DEF AttemptsFailWell, AllFailWell, FailedWell, GivenUp
<1>4. HashesAgree /\ AttemptsFailWell =>
        [\A i \in DOMAIN intents : CancelFundingIntent(i) =>
           \A t \in DOMAIN txs : txs[t].intent = i /\ Known(t) => t \in Reverted]_vars
  BY <1>3
<1> QED
  BY <1>1, <1>2, <1>4, FundingInvHolds, HashesAgreeHolds, PTL DEF Spec, CancelMovesNothing

=============================================================================
