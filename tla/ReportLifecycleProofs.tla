------------------------ MODULE ReportLifecycleProofs -----------------------
(***************************************************************************)
(* Proofs about ReportLifecycle, for any number of reports, requests,      *)
(* texts and revisions: the types, that a report under settlement is       *)
(* frozen, that duplicates lead to a report that is not one, and what the  *)
(* program and a disclosure may never do.                                  *)
(***************************************************************************)
EXTENDS ReportLifecycle, FiniteSetTheorems, WellFoundedInduction, TLAPS

-----------------------------------------------------------------------------
(***************************************************************************)
(* The inductive invariant                                                 *)
(***************************************************************************)
ProgramRow == [status : ProgramStatus, pool : 0..MaxPool, artifact : BOOLEAN, ended : BOOLEAN]

ReportRow ==
  [status : ReportStatus, text : Texts \cup {NoText}, hash : Texts \cup {NoText},
   severity : BOOLEAN, order : 0..Cardinality(Reports), original : Reports \cup {NoReport},
   version : 0..MaxVersions, disclosed : BOOLEAN]

IntentRow ==
  [status : IntentStatus, text : Texts \cup {NoText}, hash : Texts \cup {NoText},
   snapshot : 0..MaxVersions]

RequestRow ==
  [does : {"nothing", "update", "select"}, report : Reports \cup {NoReport},
   patch : Texts \cup {NoText}, hash : Texts \cup {NoText}, resubmit : BOOLEAN,
   version : 0..MaxVersions]

\* A confirmation artifact takes a program out of draft, and a program that
\* was published has a pool.
ProgramOK ==
  /\ program \in ProgramRow
  /\ program.artifact => program.status # "draft"
  /\ program.status \in {"active", "paused"} => program.pool > 0

\* The stage of an intent is the stage of its report, and what it recorded is
\* what the report says.
StagesOK(row, intent) ==
  /\ intent.status = "live" => row.status = "validated"
  /\ intent.status = "ready_for_payout" => row.status = "reward_approved"
  /\ intent.status = "payout_submitted" => row.status = "payment_pending"
  /\ intent.status = "paid" => row.status = "paid"
  /\ intent.status \notin Unsettled =>
       row.text = intent.text /\ row.hash = intent.hash /\ row.version = intent.snapshot

\* A report that exists has its columns, and a disclosed one is out of review.
ColumnsOK(row) ==
  /\ row.status # "none" <=> row.text # NoText
  /\ row.status # "none" <=> row.version # 0
  /\ row.status # "none" => row.hash # NoText
  /\ row.severity <=> row.status \in Settling
  /\ row.disclosed => row.status \in {"rejected", "duplicate"} \cup Settling

RevisionOK(row, seq) ==
  row.status \notin {"none", "needs_information"} =>
    seq # <<>> /\ seq[Len(seq)].hash = row.hash

RowOK(row, intent, seq) ==
  ColumnsOK(row) /\ StagesOK(row, intent) /\ RevisionOK(row, seq)

RowsOK ==
  /\ reports \in [Reports -> ReportRow]
  /\ revisions \in [Reports -> Seq(RevisionType)]
  /\ intents \in [Reports -> IntentRow]
  /\ \A r \in Reports : RowOK(reports[r], intents[r], revisions[r])

\* A report may only be a duplicate of one received before it.
Earlier(o, r) == o \in Submitted /\ reports[o].order < reports[r].order

ChainsOK ==
  \A r \in Reports : reports[r].status = "duplicate" => Earlier(reports[r].original, r)

\* The lock on a report being marked keeps it submitted.
MarksOK ==
  /\ marking \subseteq Reports \X Reports
  /\ \A m \in marking : reports[m[1]].status = "submitted" /\ Earlier(m[2], m[1])
  /\ \A m \in marking, n \in marking : m[1] = n[1] => m = n

RequestsOK ==
  /\ requests \in [Requests -> RequestRow]
  /\ \A q \in Requests :
       /\ requests[q].does # "nothing" => requests[q].report \in Submitted
       /\ requests[q].does = "update" => requests[q].hash # NoText

ReportInv == ProgramOK /\ RowsOK /\ ChainsOK /\ MarksOK /\ RequestsOK

-----------------------------------------------------------------------------
(***************************************************************************)
(* What the helpers give                                                   *)
(***************************************************************************)
\* A revision enqueued is the latest, whether it was new or a retry.
LEMMA EnqueuedIsLatest ==
  ASSUME NEW seq \in Seq(RevisionType), NEW text \in Texts, NEW hash \in Texts
  PROVE  /\ Enqueued(seq, text, hash) \in Seq(RevisionType)
         /\ Enqueued(seq, text, hash) # <<>>
         /\ Enqueued(seq, text, hash)[Len(Enqueued(seq, text, hash))].hash = hash
<1> DEFINE rev == [text |-> text, hash |-> hash]
<1>1. rev \in RevisionType /\ rev.hash = hash
  BY DEF RevisionType
<1> HIDE DEF rev
<1>2. CASE seq # <<>> /\ seq[Len(seq)].hash = hash
  BY <1>2 DEF Enqueued
<1>3. CASE ~(seq # <<>> /\ seq[Len(seq)].hash = hash)
  <2>1. Enqueued(seq, text, hash) = Append(seq, rev)
    BY <1>3 DEF Enqueued, rev
  <2>2. /\ Append(seq, rev) \in Seq(RevisionType)
        /\ Len(Append(seq, rev)) = Len(seq) + 1
        /\ Append(seq, rev)[Len(seq) + 1] = rev
        /\ Append(seq, rev) # <<>>
    BY <1>1
  <2> QED
    BY <1>1, <2>1, <2>2
<1> QED
  BY <1>2, <1>3

\* The set of reserved rewards is finite, so a balance left over means a pool.
LEMMA AvailableNeedsPool ==
  ASSUME program.pool \in Nat, Available > 0
  PROVE  program.pool > 0
<1>1. IsFiniteSet(Reserved)
  BY ReportConstants, FS_Subset DEF Reserved
<1>2. Cardinality(Reserved) \in Nat
  BY <1>1, FS_CardinalityType
<1> QED
  BY <1>2 DEF Available

\* There is room in the order for one more report.
LEMMA RoomForOrder ==
  ASSUME NEW r \in Reports, r \notin Submitted
  PROVE  /\ Cardinality(Submitted) \in Nat
         /\ Cardinality(Submitted) + 1 \in 0..Cardinality(Reports)
<1>1. Submitted \cup {r} \subseteq Reports /\ Submitted \subseteq Reports
  BY DEF Submitted
<1>2. IsFiniteSet(Submitted) /\ IsFiniteSet(Submitted \cup {r})
  BY <1>1, ReportConstants, FS_Subset
<1>3. Cardinality(Submitted \cup {r}) = Cardinality(Submitted) + 1
  BY <1>2, FS_AddElement
<1>4. Cardinality(Submitted \cup {r}) <= Cardinality(Reports)
  BY <1>1, ReportConstants, FS_Subset
<1>5. Cardinality(Submitted) \in Nat /\ Cardinality(Reports) \in Nat
  BY <1>2, ReportConstants, FS_CardinalityType
<1> QED
  BY <1>3, <1>4, <1>5

-----------------------------------------------------------------------------
(***************************************************************************)
(* Steps that change one report                                            *)
(***************************************************************************)
\* A change of one report's rows that keeps its columns, stages and revision
\* in agreement, its place in the order, and its lock, keeps the invariant.
LEMMA RowChanges ==
  ASSUME ReportInv,
         NEW r \in Submitted,
         NEW row \in ReportRow, NEW intent \in IntentRow, NEW seq \in Seq(RevisionType),
         UNCHANGED program,
         reports' = [reports EXCEPT ![r] = row],
         intents' = [intents EXCEPT ![r] = intent],
         revisions' = [revisions EXCEPT ![r] = seq],
         RowOK(row, intent, seq),
         row.status # "none",
         row.order = reports[r].order,
         row.status = "duplicate" => Earlier(row.original, r),
         marking' \subseteq marking,
         \A m \in marking' : m[1] = r => row.status = "submitted",
         requests' \in [Requests -> RequestRow],
         \A q \in Requests : requests'[q] = requests[q] \/ requests'[q] = IdleRequest
  PROVE  ReportInv'
<1>1. r \in Reports
  BY DEF Submitted
<1>2. ProgramOK'
  BY DEF ReportInv, ProgramOK
<1>3. RowsOK'
  <2>1. /\ reports' \in [Reports -> ReportRow]
        /\ revisions' \in [Reports -> Seq(RevisionType)]
        /\ intents' \in [Reports -> IntentRow]
    BY <1>1 DEF ReportInv, RowsOK
  <2>2. ASSUME NEW x \in Reports
        PROVE  RowOK(reports'[x], intents'[x], revisions'[x])
    <3>1. CASE x = r
      BY <1>1, <3>1 DEF ReportInv, RowsOK
    <3>2. CASE x # r
      BY <1>1, <3>2 DEF ReportInv, RowsOK
    <3> QED
      BY <3>1, <3>2
  <2> QED
    BY <2>1, <2>2 DEF RowsOK, RowOK, ColumnsOK, StagesOK, RevisionOK
<1>4. \A x \in Reports : /\ x # r => reports'[x] = reports[x]
                         /\ x = r => reports'[x] = row
                         /\ reports'[x].order = reports[x].order
  BY <1>1 DEF ReportInv, RowsOK
<1>5. Submitted' = Submitted
  BY <1>4, <1>1 DEF Submitted
<1>6. ASSUME NEW o, NEW x \in Reports, Earlier(o, x)
      PROVE  Earlier(o, x)'
  <2>1. o \in Reports
    BY <1>6 DEF Earlier, Submitted
  <2> QED
    BY <1>4, <1>5, <1>6, <2>1 DEF Earlier
<1>7. ChainsOK'
  <2> SUFFICES ASSUME NEW x \in Reports, reports'[x].status = "duplicate"
               PROVE  Earlier(reports[x].original, x)'
    BY DEF ChainsOK
  <2>1. Earlier(reports'[x].original, x)
    BY <1>4 DEF ReportInv, ChainsOK
  <2>2. ASSUME NEW o, Earlier(o, x)
        PROVE  o \in Submitted' /\ reports'[o].order < reports'[x].order
    BY <2>2, <1>6 DEF Earlier
  <2> QED
    BY <2>1, <2>2 DEF Earlier
<1>8. MarksOK'
  <2>1. marking' \subseteq Reports \X Reports
    BY DEF ReportInv, MarksOK
  <2>2. ASSUME NEW m \in marking'
        PROVE  reports'[m[1]].status = "submitted" /\ Earlier(m[2], m[1])'
    <3>1. m[1] \in Reports /\ reports[m[1]].status = "submitted" /\ Earlier(m[2], m[1])
      BY DEF ReportInv, MarksOK
    <3>2. \A o, x : x \in Reports /\ Earlier(o, x)
                      => o \in Submitted' /\ reports'[o].order < reports'[x].order
      BY <1>6 DEF Earlier
    <3> QED
      BY <1>4, <3>1, <3>2 DEF Earlier
  <2>3. \A m \in marking', n \in marking' : m[1] = n[1] => m = n
    BY DEF ReportInv, MarksOK
  <2> QED
    BY <2>1, <2>2, <2>3 DEF MarksOK
<1>9. RequestsOK'
  BY <1>5 DEF ReportInv, RequestsOK, IdleRequest
<1> QED
  BY <1>2, <1>3, <1>7, <1>8, <1>9 DEF ReportInv
\* Steps that leave the rows of reports alone keep what is said of them.
LEMMA RowsUntouched ==
  ASSUME ReportInv, UNCHANGED <<reports, revisions, intents>>
  PROVE  /\ RowsOK' /\ ChainsOK' /\ Submitted' = Submitted
         /\ UNCHANGED marking => MarksOK'
         /\ UNCHANGED requests => RequestsOK'
<1>1. RowsOK'
  BY DEF ReportInv, RowsOK, RowOK, ColumnsOK, StagesOK, RevisionOK
<1>2. Submitted' = Submitted
  BY DEF Submitted
<1>3. \A o, x : Earlier(o, x) => (Earlier(o, x))'
  BY <1>2 DEF Earlier
<1>4. ChainsOK'
  BY <1>2 DEF ReportInv, ChainsOK, Earlier
<1>5. UNCHANGED marking => MarksOK'
  BY <1>2 DEF ReportInv, MarksOK, Earlier
<1>6. UNCHANGED requests => RequestsOK'
  BY <1>2 DEF ReportInv, RequestsOK
<1> QED
  BY <1>1, <1>2, <1>4, <1>5, <1>6

\* The columns of a row with another status.
LEMMA StatusColumns ==
  ASSUME NEW row \in ReportRow, NEW s \in ReportStatus
  PROVE  LET new == [row EXCEPT !.status = s] IN
         /\ new \in ReportRow /\ new.status = s
         /\ new.text = row.text /\ new.hash = row.hash /\ new.version = row.version
         /\ new.severity = row.severity /\ new.order = row.order
         /\ new.original = row.original /\ new.disclosed = row.disclosed
  BY DEF ReportRow

\* The columns of an intent with another status.
LEMMA IntentColumns ==
  ASSUME NEW intent \in IntentRow, NEW s \in IntentStatus
  PROVE  LET new == [intent EXCEPT !.status = s] IN
         /\ new \in IntentRow /\ new.status = s
         /\ new.text = intent.text /\ new.hash = intent.hash /\ new.snapshot = intent.snapshot
  BY DEF IntentRow

\* A change that touches only the row of one report.
LEMMA ReportRowChanges ==
  ASSUME ReportInv,
         NEW r \in Submitted,
         NEW row \in ReportRow,
         UNCHANGED <<program, revisions, intents>>,
         reports' = [reports EXCEPT ![r] = row],
         RowOK(row, intents[r], revisions[r]),
         row.status # "none",
         row.order = reports[r].order,
         row.status = "duplicate" => Earlier(row.original, r),
         marking' \subseteq marking,
         \A m \in marking' : m[1] = r => row.status = "submitted",
         requests' \in [Requests -> RequestRow],
         \A q \in Requests : requests'[q] = requests[q] \/ requests'[q] = IdleRequest
  PROVE  ReportInv'
<1>1. r \in Reports
  BY DEF Submitted
<1>2. /\ intents[r] \in IntentRow /\ revisions[r] \in Seq(RevisionType)
      /\ intents' = [intents EXCEPT ![r] = intents[r]]
      /\ revisions' = [revisions EXCEPT ![r] = revisions[r]]
  BY <1>1 DEF ReportInv, RowsOK
<1> QED
  BY <1>2, RowChanges

\* What the invariant says of one report.
LEMMA RowFacts ==
  ASSUME ReportInv, NEW r \in Reports
  PROVE  /\ reports[r] \in ReportRow /\ intents[r] \in IntentRow
         /\ revisions[r] \in Seq(RevisionType)
         /\ reports[r].status \in ReportStatus
         /\ reports[r].status # "none" <=> r \in Submitted
         /\ ColumnsOK(reports[r]) /\ StagesOK(reports[r], intents[r])
         /\ RevisionOK(reports[r], revisions[r])
         /\ reports[r].status = "duplicate" => Earlier(reports[r].original, r)
         /\ \A m \in marking : m[1] = r => reports[r].status = "submitted"
         /\ Locked(r) => reports[r].status = "submitted"
<1>1. /\ reports[r] \in ReportRow /\ intents[r] \in IntentRow
      /\ revisions[r] \in Seq(RevisionType)
      /\ RowOK(reports[r], intents[r], revisions[r])
  BY DEF ReportInv, RowsOK
<1>2. reports[r].status \in ReportStatus
  BY <1>1 DEF ReportRow
<1>3. reports[r].status # "none" <=> r \in Submitted
  BY DEF Submitted
<1>4. reports[r].status = "duplicate" => Earlier(reports[r].original, r)
  BY DEF ReportInv, ChainsOK
<1>5. \A m \in marking : m[1] = r => reports[r].status = "submitted"
  BY DEF ReportInv, MarksOK
<1> QED
  BY <1>1, <1>2, <1>3, <1>4, <1>5 DEF RowOK, Locked

-----------------------------------------------------------------------------
(***************************************************************************)
(* The invariant is kept by each party                                     *)
(***************************************************************************)
\* The program starts as a draft without reports.
LEMMA InitReportInv ==
  ASSUME Init PROVE ReportInv
<1>1. ProgramOK
  BY ReportConstants DEF Init, ProgramOK, ProgramRow, ProgramStatus
<1>2. Cardinality(Reports) \in Nat
  BY ReportConstants, FS_CardinalityType
<1>3. RowsOK
  <2> DEFINE row == [status |-> "none", text |-> NoText, hash |-> NoText, severity |-> FALSE,
                     order |-> 0, original |-> NoReport, version |-> 0, disclosed |-> FALSE]
  <2>1. row \in ReportRow
    BY <1>2, ReportConstants DEF ReportRow, ReportStatus
  <2>2. NoIntent \in IntentRow
    BY ReportConstants DEF NoIntent, IntentRow, IntentStatus, Unsettled
  <2>3. <<>> \in Seq(RevisionType)
    OBVIOUS
  <2>4. RowOK(row, NoIntent, <<>>)
    BY DEF RowOK, ColumnsOK, StagesOK, RevisionOK, NoIntent, Settling, Unsettled
  <2>5. /\ reports = [r \in Reports |-> row] /\ revisions = [r \in Reports |-> <<>>]
        /\ intents = [r \in Reports |-> NoIntent]
    BY DEF Init
  <2> HIDE DEF row
  <2> QED
    BY <2>1, <2>2, <2>3, <2>4, <2>5 DEF RowsOK
<1>4. ChainsOK /\ MarksOK
  BY DEF Init, ChainsOK, MarksOK
<1>5. RequestsOK
  <2>1. IdleRequest \in RequestRow
    BY ReportConstants DEF IdleRequest, RequestRow
  <2> QED
    BY <2>1 DEF Init, RequestsOK, IdleRequest
<1> QED
  BY <1>1, <1>3, <1>4, <1>5 DEF ReportInv

\* The program's own steps keep the invariant.
LEMMA ProgramStepInv ==
  ASSUME ReportInv, ProgramStep
  PROVE  ReportInv'
<1>0. /\ program \in ProgramRow /\ program.status \in ProgramStatus
      /\ program.pool \in 0..MaxPool /\ program.pool \in Nat
      /\ program.artifact => program.status # "draft"
      /\ program.status \in {"active", "paused"} => program.pool > 0
  BY ReportConstants DEF ReportInv, ProgramOK, ProgramRow
<1>1. ASSUME NEW amount \in {0, 1}, FundingCompletes(amount)
      PROVE  ProgramOK'
  <2> DEFINE n == program.pool + amount
             s == IF program.status = "draft" THEN "awaiting_funding" ELSE program.status
  <2>1. program' = [program EXCEPT !.pool = n, !.artifact = TRUE, !.status = s]
    BY <1>1 DEF FundingCompletes
  <2>2. n \in 0..MaxPool /\ n > 0 /\ s \in ProgramStatus /\ s # "draft"
    BY <1>1, <1>0, ReportConstants DEF FundingCompletes, ProgramStatus
  <2> HIDE DEF n, s
  <2>3. program' \in ProgramRow /\ program'.status = s /\ program'.pool = n
    BY <1>0, <2>1, <2>2 DEF ProgramRow
  <2> QED
    BY <2>2, <2>3 DEF ProgramOK
<1>2. ASSUME LateFunding
      PROVE  ProgramOK'
  <2> DEFINE n == program.pool + 1
  <2>1. n \in 0..MaxPool /\ n > 0 /\ program' = [program EXCEPT !.pool = n]
    BY <1>0, <1>2, ReportConstants DEF LateFunding
  <2> HIDE DEF n
  <2>2. /\ program' \in ProgramRow /\ program'.pool = n /\ program'.status = program.status
        /\ program'.artifact = program.artifact
    BY <1>0, <2>1 DEF ProgramRow
  <2> QED
    BY <1>0, <2>1, <2>2 DEF ProgramOK
<1>3. ASSUME PublishProgram
      PROVE  ProgramOK'
  <2>1. program.pool > 0 /\ program' = [program EXCEPT !.status = "active"]
    BY <1>0, <1>3, AvailableNeedsPool DEF PublishProgram, CanPublish
  <2>2. "active" \in ProgramStatus
    BY DEF ProgramStatus
  <2>3. program' \in ProgramRow /\ program'.status = "active" /\ program'.pool = program.pool
    BY <1>0, <2>1, <2>2 DEF ProgramRow
  <2> QED
    BY <2>1, <2>3 DEF ProgramOK
<1>4. ASSUME NEW next \in {"awaiting_funding", "paused", "expired", "closed"},
             SetProgramStatus(next)
      PROVE  ProgramOK'
  <2>1. program' = [program EXCEPT !.status = next]
    BY <1>4 DEF SetProgramStatus
  <2>2. next \in ProgramStatus /\ next # "draft"
    BY DEF ProgramStatus
  <2>3. next \in {"active", "paused"} => program.pool > 0
    BY <1>0, <1>4 DEF SetProgramStatus, OwnerTransitions
  <2>4. program' \in ProgramRow /\ program'.status = next /\ program'.pool = program.pool
    BY <1>0, <2>1, <2>2 DEF ProgramRow
  <2> QED
    BY <2>2, <2>3, <2>4 DEF ProgramOK
<1>5. ASSUME DeadlinePasses
      PROVE  ProgramOK'
  <2>1. program' = [program EXCEPT !.ended = TRUE]
    BY <1>5 DEF DeadlinePasses
  <2>2. /\ program' \in ProgramRow /\ program'.pool = program.pool
        /\ program'.status = program.status /\ program'.artifact = program.artifact
    BY <1>0, <2>1 DEF ProgramRow
  <2> QED
    BY <1>0, <2>2 DEF ProgramOK
<1>6. ProgramOK'
  BY <1>1, <1>2, <1>3, <1>4, <1>5, Zenon DEF ProgramStep
<1>7. UNCHANGED <<reports, revisions, intents, requests, marking>>
  BY DEF ProgramStep, FundingCompletes, LateFunding, PublishProgram, DeadlinePasses,
         SetProgramStatus
<1> QED
  BY <1>6, <1>7, RowsUntouched DEF ReportInv

\* A submission adds a report no other row speaks of yet.
LEMMA SubmitReportInv ==
  ASSUME ReportInv, NEW r \in Reports, NEW text \in Texts, SubmitReport(r, text)
  PROVE  ReportInv'
<1> DEFINE n == Cardinality(Submitted) + 1
           row == [reports[r] EXCEPT !.status = "submitted", !.text = text, !.hash = text,
                                     !.order = n, !.version = 1]
           seq == Enqueued(revisions[r], text, text)
<1>0. /\ reports[r].status = "none" /\ r \notin Submitted
      /\ UNCHANGED <<program, intents, requests, marking>>
      /\ reports' = [reports EXCEPT ![r] = row]
      /\ revisions' = [revisions EXCEPT ![r] = seq]
  BY DEF SubmitReport, Submitted
<1>1. n \in 0..Cardinality(Reports)
  BY <1>0, RoomForOrder
<1>2. /\ reports[r] \in ReportRow /\ intents[r] \in IntentRow
      /\ ColumnsOK(reports[r]) /\ StagesOK(reports[r], intents[r])
  BY RowFacts
<1>3. seq \in Seq(RevisionType) /\ seq # <<>> /\ seq[Len(seq)].hash = text
  BY <1>2, EnqueuedIsLatest DEF ReportInv, RowsOK
<1>4. text # NoText /\ 1 \in 0..MaxVersions /\ "submitted" \in ReportStatus
  BY ReportConstants DEF ReportStatus, InReview
<1> HIDE DEF n, seq
<1>5. /\ row \in ReportRow /\ row.status = "submitted" /\ row.text = text /\ row.hash = text
      /\ row.version = 1 /\ row.severity = reports[r].severity
      /\ row.disclosed = reports[r].disclosed
  BY <1>1, <1>2, <1>4 DEF ReportRow
<1> HIDE DEF row
<1>6. ~reports[r].severity /\ ~reports[r].disclosed /\ intents[r].status \in Unsettled
  BY <1>0, <1>2 DEF ColumnsOK, StagesOK, Settling, Unsettled, IntentRow, IntentStatus
<1>7. RowOK(row, intents[r], seq)
  BY <1>3, <1>4, <1>5, <1>6 DEF RowOK, ColumnsOK, StagesOK, RevisionOK, Settling, Unsettled
<1>8. RowsOK'
  <2>1. /\ reports' \in [Reports -> ReportRow]
        /\ revisions' \in [Reports -> Seq(RevisionType)]
        /\ intents' \in [Reports -> IntentRow]
    BY <1>0, <1>3, <1>5 DEF ReportInv, RowsOK
  <2>2. ASSUME NEW x \in Reports
        PROVE  RowOK(reports'[x], intents'[x], revisions'[x])
    <3>1. CASE x = r
      BY <1>0, <1>7, <3>1 DEF ReportInv, RowsOK
    <3>2. CASE x # r
      BY <1>0, <3>2 DEF ReportInv, RowsOK
    <3> QED
      BY <3>1, <3>2
  <2> QED
    BY <2>1, <2>2 DEF RowsOK, RowOK, ColumnsOK, StagesOK, RevisionOK
<1>9. /\ reports'[r] = row
      /\ \A x \in Reports : x # r => reports'[x] = reports[x]
  BY <1>0 DEF ReportInv, RowsOK
<1>10. Submitted' = Submitted \cup {r}
  BY <1>5, <1>9 DEF Submitted
<1>11. \A o, x : x \in Submitted /\ Earlier(o, x)
                   => o \in Submitted' /\ reports'[o].order < reports'[x].order
  BY <1>0, <1>9, <1>10 DEF Earlier, Submitted
<1>12. ChainsOK'
  <2> SUFFICES ASSUME NEW x \in Reports, reports'[x].status = "duplicate"
               PROVE  Earlier(reports[x].original, x)'
    BY DEF ChainsOK
  <2>1. x # r /\ reports'[x] = reports[x]
    BY <1>5, <1>9
  <2>2. x \in Submitted /\ Earlier(reports'[x].original, x)
    BY <2>1 DEF ReportInv, ChainsOK, Submitted
  <2> QED
    BY <1>11, <2>2 DEF Earlier
<1>13. MarksOK'
  <2>1. ASSUME NEW m \in marking
        PROVE  reports'[m[1]].status = "submitted" /\ Earlier(m[2], m[1])'
    <3>1. m[1] \in Reports /\ reports[m[1]].status = "submitted" /\ Earlier(m[2], m[1])
      BY DEF ReportInv, MarksOK
    <3>2. m[1] # r /\ m[1] \in Submitted
      BY <1>0, <3>1 DEF Submitted
    <3>3. m[2] \in Submitted' /\ reports'[m[2]].order < reports'[m[1]].order
      BY <1>11, <3>1, <3>2
    <3> QED
      BY <1>9, <3>1, <3>2, <3>3 DEF Earlier
  <2> QED
    BY <1>0, <2>1 DEF ReportInv, MarksOK
<1>14. RequestsOK'
  BY <1>0, <1>10 DEF ReportInv, RequestsOK
<1>15. ProgramOK'
  BY <1>0 DEF ReportInv, ProgramOK
<1> QED
  BY <1>8, <1>12, <1>13, <1>14, <1>15 DEF ReportInv

\* What a request read of a report that exists.
LEMMA StartRequestInv ==
  ASSUME ReportInv, NEW q \in Requests, NEW r \in Submitted,
         NEW req \in RequestRow, req.report = r, req.does = "update" => req.hash # NoText,
         requests' = [requests EXCEPT ![q] = req],
         UNCHANGED <<program, reports, revisions, intents, marking>>
  PROVE  ReportInv'
<1>1. RowsOK' /\ ChainsOK' /\ MarksOK' /\ Submitted' = Submitted
  BY RowsUntouched
<1>2. ProgramOK'
  BY DEF ReportInv, ProgramOK
<1>3. RequestsOK'
  <2>1. requests' \in [Requests -> RequestRow]
    BY DEF ReportInv, RequestsOK
  <2>2. ASSUME NEW x \in Requests
        PROVE  /\ requests'[x].does # "nothing" => requests'[x].report \in Submitted'
               /\ requests'[x].does = "update" => requests'[x].hash # NoText
    <3>1. CASE x = q
      BY <1>1, <3>1 DEF ReportInv, RequestsOK
    <3>2. CASE x # q
      BY <1>1, <3>2 DEF ReportInv, RequestsOK
    <3> QED
      BY <3>1, <3>2
  <2> QED
    BY <2>1, <2>2 DEF RequestsOK
<1> QED
  BY <1>1, <1>2, <1>3 DEF ReportInv

\* Reading for an edit: the hash of the merge is never empty.
LEMMA StartUpdateInv ==
  ASSUME ReportInv, NEW q \in Requests, NEW r \in Reports,
         NEW patch \in Texts \cup {NoText}, NEW resubmit \in BOOLEAN,
         StartUpdate(q, r, patch, resubmit)
  PROVE  ReportInv'
<1> DEFINE hash == IF patch = NoText THEN reports[r].text ELSE patch
           req == [IdleRequest EXCEPT !.does = "update", !.report = r, !.patch = patch,
                     !.hash = hash, !.resubmit = resubmit]
<1>1. /\ r \in Submitted
      /\ requests' = [requests EXCEPT ![q] = req]
      /\ UNCHANGED <<program, reports, revisions, intents, marking>>
  BY DEF StartUpdate
<1>2. reports[r].text \in Texts \cup {NoText} /\ reports[r].text # NoText
  BY <1>1, RowFacts DEF ColumnsOK, ReportRow
<1>3. hash \in Texts /\ hash # NoText
  BY <1>2, ReportConstants
<1> HIDE DEF hash
<1>4. IdleRequest \in RequestRow
  BY ReportConstants DEF IdleRequest, RequestRow
<1>5. req \in RequestRow /\ req.report = r /\ req.hash = hash
  BY <1>3, <1>4 DEF RequestRow
<1> QED
  BY <1>1, <1>3, <1>5, StartRequestInv

\* Showing the payout wallet with its version.
LEMMA StartSelectInv ==
  ASSUME ReportInv, NEW q \in Requests, NEW r \in Reports, StartSelect(q, r)
  PROVE  ReportInv'
<1> DEFINE version == reports[r].version
           req == [IdleRequest EXCEPT !.does = "select", !.report = r, !.version = version]
<1>1. /\ r \in Submitted
      /\ requests' = [requests EXCEPT ![q] = req]
      /\ UNCHANGED <<program, reports, revisions, intents, marking>>
  BY DEF StartSelect
<1>2. version \in 0..MaxVersions
  BY RowFacts DEF ReportRow
<1> HIDE DEF version
<1>3. req \in RequestRow /\ req.report = r /\ req.does = "select"
  BY <1>2, ReportConstants DEF IdleRequest, RequestRow
<1> QED
  BY <1>1, <1>3, StartRequestInv

\* An idle request satisfies what is asked of requests.
LEMMA RequestEnds ==
  ASSUME ReportInv, NEW q \in Requests, requests' = [requests EXCEPT ![q] = IdleRequest]
  PROVE  /\ requests' \in [Requests -> RequestRow]
         /\ \A x \in Requests : requests'[x] = requests[x] \/ requests'[x] = IdleRequest
<1>1. IdleRequest \in RequestRow
  BY ReportConstants DEF IdleRequest, RequestRow
<1> QED
  BY <1>1 DEF ReportInv, RequestsOK

\* A request that writes nothing.
LEMMA RequestDropped ==
  ASSUME ReportInv, NEW q \in Requests, requests' = [requests EXCEPT ![q] = IdleRequest],
         UNCHANGED <<program, reports, revisions, intents, marking>>
  PROVE  ReportInv'
<1>1. RowsOK' /\ ChainsOK' /\ MarksOK' /\ Submitted' = Submitted
  BY RowsUntouched
<1>2. ProgramOK'
  BY DEF ReportInv, ProgramOK
<1>3. RequestsOK'
  BY <1>1, RequestEnds DEF ReportInv, RequestsOK, IdleRequest
<1> QED
  BY <1>1, <1>2, <1>3 DEF ReportInv

\* The patch is written with the hash of the merge it was read for; the row is
\* neither locked nor settled.
LEMMA WriteUpdateInv ==
  ASSUME ReportInv, NEW q \in Requests, WriteUpdate(q)
  PROVE  ReportInv'
<1> DEFINE r == requests[q].report
           text == IF requests[q].patch = NoText THEN reports[r].text ELSE requests[q].patch
           hash == requests[q].hash
           status == IF requests[q].resubmit THEN "submitted" ELSE reports[r].status
           row == [reports[r] EXCEPT !.text = text, !.hash = hash, !.status = status]
           seq == IF requests[q].resubmit THEN Enqueued(revisions[r], text, hash)
                  ELSE revisions[r]
<1>1. /\ requests[q].does = "update" /\ ~Locked(r)
      /\ requests' = [requests EXCEPT ![q] = IdleRequest]
      /\ UNCHANGED <<program, intents, marking>>
      /\ \/ /\ CanUpdate(r)
            /\ reports' = [reports EXCEPT ![r] = row]
            /\ revisions' = [revisions EXCEPT ![r] = seq]
         \/ UNCHANGED <<reports, revisions>>
  <2>1. CASE requests[q].resubmit
    BY <2>1 DEF WriteUpdate
  <2>2. CASE ~requests[q].resubmit
    BY <2>2 DEF WriteUpdate
  <2> QED
    BY <2>1, <2>2
<1>2. CASE UNCHANGED <<reports, revisions>>
  BY <1>1, <1>2, RequestDropped
<1>3. CASE /\ CanUpdate(r)
           /\ reports' = [reports EXCEPT ![r] = row]
           /\ revisions' = [revisions EXCEPT ![r] = seq]
  <2>1. /\ r \in Submitted /\ r \in Reports
        /\ requests[q].patch \in Texts \cup {NoText} /\ hash \in Texts /\ hash # NoText
    <3>1. requests[q] \in RequestRow /\ r \in Submitted /\ hash # NoText
      BY <1>1 DEF ReportInv, RequestsOK
    <3> QED
      BY <3>1 DEF RequestRow, Submitted
  <2>2. /\ reports[r].status = "needs_information"
        /\ reports[r] \in ReportRow /\ intents[r] \in IntentRow
        /\ revisions[r] \in Seq(RevisionType)
        /\ ColumnsOK(reports[r]) /\ StagesOK(reports[r], intents[r])
    BY <1>3, <2>1, RowFacts DEF CanUpdate
  <2>3. reports[r].text \in Texts \cup {NoText} /\ reports[r].text # NoText
    BY <2>2 DEF ColumnsOK, ReportRow
  <2>4. text \in Texts /\ text # NoText
    BY <2>1, <2>3, ReportConstants
  <2>5. status \in {"submitted", "needs_information"} /\ status \in ReportStatus
    BY <2>2 DEF ReportStatus, InReview
  <2>6. /\ seq \in Seq(RevisionType)
        /\ status = "submitted" => seq # <<>> /\ seq[Len(seq)].hash = hash
    <3>1. CASE requests[q].resubmit
      BY <2>1, <2>2, <2>4, <3>1, EnqueuedIsLatest
    <3>2. CASE ~requests[q].resubmit
      BY <2>2, <3>2
    <3> QED
      BY <3>1, <3>2
  <2> HIDE DEF text, hash, status, seq
  <2>7. /\ row \in ReportRow /\ row.status = status /\ row.text = text /\ row.hash = hash
        /\ row.version = reports[r].version /\ row.severity = reports[r].severity
        /\ row.disclosed = reports[r].disclosed /\ row.order = reports[r].order
    BY <2>1, <2>2, <2>4, <2>5 DEF ReportRow
  <2> HIDE DEF row
  <2>8. /\ ~reports[r].severity /\ ~reports[r].disclosed /\ reports[r].version # 0
        /\ intents[r].status \in Unsettled
    BY <2>2 DEF ColumnsOK, StagesOK, Settling, Unsettled, IntentRow, IntentStatus
  <2>9. RowOK(row, intents[r], seq)
    BY <2>1, <2>4, <2>5, <2>6, <2>7, <2>8
       DEF RowOK, ColumnsOK, StagesOK, RevisionOK, Settling, Unsettled
  <2>10. intents' = [intents EXCEPT ![r] = intents[r]] /\ marking' = marking
    BY <1>1 DEF ReportInv, RowsOK
  <2>11. \A m \in marking' : m[1] # r
    BY <1>1 DEF Locked
  <2>12. /\ requests' \in [Requests -> RequestRow]
         /\ \A x \in Requests : requests'[x] = requests[x] \/ requests'[x] = IdleRequest
    BY <1>1, RequestEnds
  <2> HIDE DEF r
  <2> QED
    BY <1>1, <1>3, <2>1, <2>2, <2>5, <2>6, <2>7, <2>9, <2>10, <2>11, <2>12, RowChanges
<1> QED
  BY <1>1, <1>2, <1>3

\* The payout wallet is replaced only while no intent has recorded one.
LEMMA WriteSelectInv ==
  ASSUME ReportInv, NEW q \in Requests, WriteSelect(q)
  PROVE  ReportInv'
<1> DEFINE r == requests[q].report
           version == reports[r].version + 1
           row == [reports[r] EXCEPT !.version = version]
<1>1. /\ requests[q].does = "select" /\ ~Locked(r)
      /\ requests' = [requests EXCEPT ![q] = IdleRequest]
      /\ UNCHANGED <<program, revisions, intents, marking>>
      /\ \/ /\ CanSelect(r, requests[q].version)
            /\ reports[r].version < MaxVersions
            /\ reports' = [reports EXCEPT ![r] = row]
         \/ UNCHANGED reports
  BY DEF WriteSelect
<1>2. CASE UNCHANGED reports
  BY <1>1, <1>2, RequestDropped
<1>3. CASE /\ CanSelect(r, requests[q].version)
           /\ reports[r].version < MaxVersions
           /\ reports' = [reports EXCEPT ![r] = row]
  <2>1. r \in Submitted /\ r \in Reports
    BY <1>1 DEF ReportInv, RequestsOK, Submitted
  <2>2. /\ reports[r] \in ReportRow /\ intents[r] \in IntentRow
        /\ intents[r].status \in Unsettled
        /\ ColumnsOK(reports[r]) /\ StagesOK(reports[r], intents[r])
        /\ RevisionOK(reports[r], revisions[r])
        /\ reports[r].status # "none"
        /\ reports[r].status # "duplicate"
    BY <1>3, <2>1, RowFacts DEF CanSelect
  <2>3. version \in 0..MaxVersions /\ version # 0
    BY <1>3, <2>2, ReportConstants DEF ReportRow
  <2> HIDE DEF version
  <2>4. /\ row \in ReportRow /\ row.status = reports[r].status /\ row.text = reports[r].text
        /\ row.hash = reports[r].hash /\ row.version = version
        /\ row.severity = reports[r].severity
        /\ row.disclosed = reports[r].disclosed /\ row.order = reports[r].order
    BY <2>2, <2>3 DEF ReportRow
  <2> HIDE DEF row
  <2>5. RowOK(row, intents[r], revisions[r])
    BY <2>2, <2>3, <2>4 DEF RowOK, ColumnsOK, StagesOK, RevisionOK, Unsettled
  <2>6. marking' = marking /\ \A m \in marking' : m[1] # r
    BY <1>1 DEF Locked
  <2>7. /\ requests' \in [Requests -> RequestRow]
        /\ \A x \in Requests : requests'[x] = requests[x] \/ requests'[x] = IdleRequest
    BY <1>1, RequestEnds
  <2>8. /\ row.status # "none" /\ row.status # "duplicate"
        /\ UNCHANGED <<program, revisions, intents>>
        /\ reports' = [reports EXCEPT ![r] = row]
    BY <1>1, <1>3, <2>2, <2>4 DEF row
  <2> HIDE DEF r
  <2> QED
    BY <2>1, <2>4, <2>5, <2>6, <2>7, <2>8, ReportRowChanges
<1> QED
  BY <1>1, <1>2, <1>3

\* The researcher's steps keep the invariant.
LEMMA ResearcherStepInv ==
  ASSUME ReportInv, ResearcherStep
  PROVE  ReportInv'
  BY SubmitReportInv, StartUpdateInv, StartSelectInv, WriteUpdateInv, WriteSelectInv
     DEF ResearcherStep

\* A decision of a reviewer on a report that is not being marked: another
\* status, and the severity that goes with it.
LEMMA ReviewDecides ==
  ASSUME ReportInv, NEW r \in Reports, ~Locked(r),
         reports[r].status \in {"submitted", "validated"},
         reports[r].status = "validated" => intents[r].status = "none",
         ~reports[r].disclosed,
         NEW s \in {"submitted", "needs_information", "validated", "rejected"},
         NEW severity \in BOOLEAN, severity <=> s = "validated",
         reports' = [reports EXCEPT ![r] =
                       [reports[r] EXCEPT !.status = s, !.severity = severity]],
         UNCHANGED <<program, revisions, intents, requests, marking>>
  PROVE  ReportInv'
<1> DEFINE row == [reports[r] EXCEPT !.status = s, !.severity = severity]
<1>1. /\ reports[r] \in ReportRow /\ intents[r] \in IntentRow /\ r \in Submitted
      /\ ColumnsOK(reports[r]) /\ StagesOK(reports[r], intents[r])
      /\ RevisionOK(reports[r], revisions[r])
  BY RowFacts
<1>2. s \in ReportStatus /\ s # "none" /\ s # "duplicate"
  BY DEF ReportStatus, InReview, Settling
<1>3. /\ row \in ReportRow /\ row.status = s /\ row.text = reports[r].text
      /\ row.hash = reports[r].hash /\ row.version = reports[r].version
      /\ row.severity = severity /\ row.disclosed = reports[r].disclosed
      /\ row.order = reports[r].order
  BY <1>1, <1>2 DEF ReportRow
<1>4. reports' = [reports EXCEPT ![r] = row]
  OBVIOUS
<1> HIDE DEF row
<1>5. intents[r].status \in Unsettled
  BY <1>1 DEF StagesOK, Unsettled, IntentRow, IntentStatus
<1>6. RowOK(row, intents[r], revisions[r])
  BY <1>1, <1>2, <1>3, <1>5 DEF RowOK, ColumnsOK, StagesOK, RevisionOK, Settling, Unsettled
<1>7. marking' = marking /\ \A m \in marking' : m[1] # r
  BY DEF Locked
<1>8. requests' = requests /\ requests \in [Requests -> RequestRow]
  BY DEF ReportInv, RequestsOK
<1>9. row.status # "none" /\ row.status # "duplicate"
  BY <1>2, <1>3
<1> QED
  BY <1>1, <1>3, <1>4, <1>6, <1>7, <1>8, <1>9, ReportRowChanges

\* The row of a report whose severity a step leaves alone.
LEMMA SeverityKept ==
  ASSUME ReportInv, NEW r \in Reports, NEW s
  PROVE  [reports[r] EXCEPT !.status = s]
           = [reports[r] EXCEPT !.status = s, !.severity = reports[r].severity]
<1>1. reports[r] \in ReportRow
  BY RowFacts
<1> QED
  BY <1>1 DEF ReportRow

\* The five decisions on a report under review or validated.
LEMMA DecisionInv ==
  ASSUME ReportInv, NEW r \in Reports,
         \/ RequestInformation(r) \/ Validate(r) \/ Reject(r) \/ SendBackForReview(r)
  PROVE  ReportInv'
<1>1. /\ reports[r] \in ReportRow /\ ColumnsOK(reports[r])
      /\ Locked(r) => reports[r].status = "submitted"
  BY RowFacts
<1>2. reports[r].status = "submitted" => ~reports[r].disclosed /\ ~reports[r].severity
  BY <1>1 DEF ColumnsOK, Settling
<1>3. CASE RequestInformation(r)
  <2>1. /\ reports[r].status = "submitted" /\ ~Locked(r)
        /\ reports' = [reports EXCEPT ![r] = [reports[r] EXCEPT !.status = "needs_information"]]
        /\ UNCHANGED <<program, revisions, intents, requests, marking>>
    BY <1>3 DEF RequestInformation, CanReview, Becomes
  <2>2. reports[r].severity = FALSE
    BY <1>1, <1>2, <2>1 DEF ReportRow
  <2>3. reports' = [reports EXCEPT ![r] =
                      [reports[r] EXCEPT !.status = "needs_information", !.severity = FALSE]]
    BY <2>1, <2>2, SeverityKept
  <2> QED
    BY <1>2, <2>1, <2>3, ReviewDecides
<1>4. CASE Validate(r)
  <2>1. /\ reports[r].status = "submitted" /\ ~Locked(r)
        /\ reports' = [reports EXCEPT ![r] =
                         [reports[r] EXCEPT !.status = "validated", !.severity = TRUE]]
        /\ UNCHANGED <<program, revisions, intents, requests, marking>>
    BY <1>4 DEF Validate, CanReview
  <2> QED
    BY <1>2, <2>1, ReviewDecides
<1>5. CASE Reject(r)
  <2>1. /\ reports[r].status = "submitted" /\ ~Locked(r)
        /\ reports' = [reports EXCEPT ![r] = [reports[r] EXCEPT !.status = "rejected"]]
        /\ UNCHANGED <<program, revisions, intents, requests, marking>>
    BY <1>5 DEF Reject, CanReview, Becomes
  <2>2. reports[r].severity = FALSE
    BY <1>1, <1>2, <2>1 DEF ReportRow
  <2>3. reports' = [reports EXCEPT ![r] =
                      [reports[r] EXCEPT !.status = "rejected", !.severity = FALSE]]
    BY <2>1, <2>2, SeverityKept
  <2> QED
    BY <1>2, <2>1, <2>3, ReviewDecides
<1>6. CASE SendBackForReview(r)
  <2>1. /\ reports[r].status = "validated" /\ intents[r].status = "none"
        /\ ~reports[r].disclosed
        /\ reports' = [reports EXCEPT ![r] =
                         [reports[r] EXCEPT !.status = "submitted", !.severity = FALSE]]
        /\ UNCHANGED <<program, revisions, intents, requests, marking>>
    BY <1>6 DEF SendBackForReview, CanSendBack
  <2> QED
    BY <1>1, <2>1, ReviewDecides
<1> QED
  BY <1>3, <1>4, <1>5, <1>6

\* A disclosure changes nothing else.
LEMMA DisclosureInv ==
  ASSUME ReportInv, NEW r \in Reports, DecideDisclosure(r)
  PROVE  ReportInv'
<1> DEFINE row == [reports[r] EXCEPT !.disclosed = TRUE]
<1>1. /\ reports[r] \in ReportRow /\ intents[r] \in IntentRow
      /\ ColumnsOK(reports[r]) /\ StagesOK(reports[r], intents[r])
      /\ RevisionOK(reports[r], revisions[r])
      /\ reports[r].status # "none" => r \in Submitted
      /\ reports[r].status = "duplicate" => Earlier(reports[r].original, r)
      /\ \A m \in marking : m[1] = r => reports[r].status = "submitted"
  BY RowFacts
<1>2. /\ reports[r].status \in {"rejected", "duplicate"} \cup Settling
      /\ reports' = [reports EXCEPT ![r] = row]
      /\ UNCHANGED <<program, revisions, intents, requests, marking>>
  BY DEF DecideDisclosure, Settling
<1>3. /\ row \in ReportRow /\ row.status = reports[r].status /\ row.text = reports[r].text
      /\ row.hash = reports[r].hash /\ row.version = reports[r].version
      /\ row.severity = reports[r].severity /\ row.original = reports[r].original
      /\ row.order = reports[r].order
  BY <1>1 DEF ReportRow
<1> HIDE DEF row
<1>4. RowOK(row, intents[r], revisions[r])
  BY <1>1, <1>2, <1>3 DEF RowOK, ColumnsOK, StagesOK, RevisionOK
<1>5. r \in Submitted /\ row.status # "none"
  BY <1>1, <1>2, <1>3 DEF Settling
<1>6. row.status = "duplicate" => Earlier(row.original, r)
  BY <1>1, <1>3
<1>7. marking' = marking /\ \A m \in marking' : m[1] = r => row.status = "submitted"
  BY <1>1, <1>2, <1>3
<1>8. requests' = requests /\ requests \in [Requests -> RequestRow]
  BY <1>2 DEF ReportInv, RequestsOK
<1> QED
  BY <1>2, <1>3, <1>4, <1>5, <1>6, <1>7, <1>8, ReportRowChanges

\* A mark in progress locks its report, and no second one starts on it.
LEMMA StartMarkInv ==
  ASSUME ReportInv, NEW r \in Reports, NEW o \in Reports, StartMarkDuplicate(r, o)
  PROVE  ReportInv'
<1>1. /\ reports[r].status = "submitted" /\ ~Locked(r) /\ Earlier(o, r)
      /\ marking' = marking \cup {<<r, o>>}
      /\ UNCHANGED <<program, reports, revisions, intents, requests>>
  BY DEF StartMarkDuplicate, CanReview, CanMark, Earlier
<1>2. RowsOK' /\ ChainsOK' /\ RequestsOK' /\ Submitted' = Submitted
  BY <1>1, RowsUntouched
<1>3. ProgramOK'
  BY <1>1 DEF ReportInv, ProgramOK
<1>4. MarksOK'
  <2>1. marking' \subseteq Reports \X Reports
    BY <1>1 DEF ReportInv, MarksOK
  <2>2. \A m \in marking' : reports[m[1]].status = "submitted" /\ Earlier(m[2], m[1])
    BY <1>1 DEF ReportInv, MarksOK
  <2>3. \A m \in marking', n \in marking' : m[1] = n[1] => m = n
    BY <1>1 DEF ReportInv, MarksOK, Locked
  <2> QED
    BY <1>1, <1>2, <2>1, <2>2, <2>3 DEF MarksOK, Earlier
<1> QED
  BY <1>2, <1>3, <1>4 DEF ReportInv

\* The marked report points to one received before it.
LEMMA FinishMarkInv ==
  ASSUME ReportInv, NEW m \in marking, FinishMarkDuplicate(m)
  PROVE  ReportInv'
<1> DEFINE r == m[1]
           o == m[2]
           row == [reports[r] EXCEPT !.status = "duplicate", !.original = o]
<1>1. /\ r \in Reports /\ o \in Reports
      /\ reports[r].status = "submitted" /\ Earlier(o, r)
      /\ \A n \in marking : n[1] = r => n = m
  BY DEF ReportInv, MarksOK
<1>2. /\ marking' = marking \ {m}
      /\ reports' = [reports EXCEPT ![r] = row]
      /\ UNCHANGED <<program, revisions, intents, requests>>
  BY DEF FinishMarkDuplicate
<1>3. marking' \subseteq marking /\ \A n \in marking' : n[1] # r
  BY <1>1, <1>2
<1> HIDE DEF r, o
<1>4. /\ reports[r] \in ReportRow /\ intents[r] \in IntentRow /\ r \in Submitted
      /\ ColumnsOK(reports[r]) /\ StagesOK(reports[r], intents[r])
      /\ RevisionOK(reports[r], revisions[r])
  BY <1>1, RowFacts
<1>5. "duplicate" \in ReportStatus
  BY DEF ReportStatus
<1>6. /\ row \in ReportRow /\ row.status = "duplicate" /\ row.text = reports[r].text
      /\ row.hash = reports[r].hash /\ row.version = reports[r].version
      /\ row.severity = reports[r].severity /\ row.original = o
      /\ row.order = reports[r].order /\ row.disclosed = reports[r].disclosed
  BY <1>1, <1>4, <1>5 DEF ReportRow
<1> HIDE DEF row
<1>7. /\ ~reports[r].severity /\ intents[r].status \in Unsettled
  BY <1>1, <1>4 DEF ColumnsOK, StagesOK, Settling, Unsettled, IntentRow, IntentStatus
<1>8. RowOK(row, intents[r], revisions[r])
  BY <1>1, <1>4, <1>6, <1>7 DEF RowOK, ColumnsOK, StagesOK, RevisionOK, Settling, Unsettled
<1>9. requests' = requests /\ requests \in [Requests -> RequestRow]
  BY <1>2 DEF ReportInv, RequestsOK
<1>10. /\ row.status # "none" /\ row.status = "duplicate" => Earlier(row.original, r)
  BY <1>1, <1>6
<1> QED
  BY <1>2, <1>3, <1>4, <1>6, <1>8, <1>9, <1>10, ReportRowChanges

\* The reviewers' and the owner's decisions keep the invariant.
LEMMA ReviewStepInv ==
  ASSUME ReportInv, ReviewStep
  PROVE  ReportInv'
  BY DecisionInv, DisclosureInv, StartMarkInv, FinishMarkInv DEF ReviewStep

\* A step of settlement moves the intent and its report together.
LEMMA SettlementMoves ==
  ASSUME ReportInv, NEW r \in Reports,
         reports[r].status \in Settling,
         NEW s \in Settling,
         NEW intent \in IntentRow,
         reports' = [reports EXCEPT ![r] = [reports[r] EXCEPT !.status = s]],
         intents' = [intents EXCEPT ![r] = intent],
         StagesOK([reports[r] EXCEPT !.status = s], intent),
         UNCHANGED <<program, revisions, requests, marking>>
  PROVE  ReportInv'
<1> DEFINE row == [reports[r] EXCEPT !.status = s]
<1>1. /\ reports[r] \in ReportRow /\ revisions[r] \in Seq(RevisionType) /\ r \in Submitted
      /\ ColumnsOK(reports[r]) /\ RevisionOK(reports[r], revisions[r])
      /\ \A m \in marking : m[1] = r => reports[r].status = "submitted"
  BY RowFacts DEF Settling
<1>2. s \in ReportStatus /\ s \notin {"none", "duplicate", "submitted", "needs_information"}
  BY DEF ReportStatus, InReview, Settling
<1>3. /\ row \in ReportRow /\ row.status = s /\ row.text = reports[r].text
      /\ row.hash = reports[r].hash /\ row.version = reports[r].version
      /\ row.severity = reports[r].severity /\ row.disclosed = reports[r].disclosed
      /\ row.order = reports[r].order
  BY <1>1, <1>2 DEF ReportRow
<1>4. reports' = [reports EXCEPT ![r] = row] /\ StagesOK(row, intent)
  OBVIOUS
<1> HIDE DEF row
<1>5. RowOK(row, intent, revisions[r])
  BY <1>1, <1>2, <1>3, <1>4 DEF RowOK, ColumnsOK, RevisionOK, Settling
<1>6. marking' \subseteq marking /\ \A m \in marking' : m[1] # r
  BY <1>1 DEF Settling
<1>7. /\ requests' \in [Requests -> RequestRow]
      /\ \A q \in Requests : requests'[q] = requests[q] \/ requests'[q] = IdleRequest
  BY DEF ReportInv, RequestsOK
<1>8. revisions' = [revisions EXCEPT ![r] = revisions[r]]
  BY DEF ReportInv, RowsOK
<1>9. row.status # "none" /\ row.status # "duplicate"
  BY <1>2, <1>3
<1>10. UNCHANGED program /\ row.order = reports[r].order
  BY <1>3
<1> QED
  <2>1. /\ r \in Submitted /\ row \in ReportRow /\ revisions[r] \in Seq(RevisionType)
        /\ row.status = "duplicate" => Earlier(row.original, r)
        /\ \A m \in marking' : m[1] = r => row.status = "submitted"
    BY <1>1, <1>3, <1>6, <1>9
  <2> QED
    BY <1>4, <1>5, <1>6, <1>7, <1>8, <1>9, <1>10, <2>1, RowChanges

\* A step of settlement that leaves the report where it is.
LEMMA IntentMoves ==
  ASSUME ReportInv, NEW r \in Reports,
         reports[r].status \in Settling,
         NEW intent \in IntentRow,
         intents' = [intents EXCEPT ![r] = intent],
         StagesOK(reports[r], intent),
         UNCHANGED <<program, reports, revisions, requests, marking>>
  PROVE  ReportInv'
<1>1. reports[r] \in ReportRow
  BY RowFacts
<1>2. [reports[r] EXCEPT !.status = reports[r].status] = reports[r]
  BY <1>1 DEF ReportRow
<1>3. reports' = [reports EXCEPT ![r] = reports[r]]
  BY DEF ReportInv, RowsOK
<1> QED
  BY <1>2, <1>3, SettlementMoves

\* An intent records what the report says, and advances with it.
LEMMA SettlementStepInv ==
  ASSUME ReportInv, SettlementStep
  PROVE  ReportInv'
<1>0. PICK r \in Reports :
        \/ CreateIntent(r) \/ CancelIntent(r) \/ ConfirmApproval(r) \/ ObservePayout(r)
        \/ FailPayout(r) \/ ConfirmPayout(r)
  BY DEF SettlementStep
<1>1. /\ reports[r] \in ReportRow /\ intents[r] \in IntentRow
      /\ StagesOK(reports[r], intents[r])
  BY RowFacts
<1>2. ASSUME NEW before \in {"live", "ready_for_payout", "payout_submitted"},
             NEW after \in {"ready_for_payout", "payout_submitted", "paid"},
             NEW s \in Settling,
             intents[r].status = before,
             after = "ready_for_payout" => s = "reward_approved",
             after = "payout_submitted" => s = "payment_pending",
             after = "paid" => s = "paid",
             intents' = [intents EXCEPT ![r] = [intents[r] EXCEPT !.status = after]],
             reports' = [reports EXCEPT ![r] = [reports[r] EXCEPT !.status = s]],
             UNCHANGED <<program, revisions, requests, marking>>
      PROVE  ReportInv'
  <2> DEFINE row == [reports[r] EXCEPT !.status = s]
             intent == [intents[r] EXCEPT !.status = after]
  <2>1. reports[r].status \in Settling /\ intents[r].status \notin Unsettled
    BY <1>1, <1>2 DEF StagesOK, Settling, Unsettled
  <2>2. /\ after \in IntentStatus /\ s \in ReportStatus
    BY DEF IntentStatus, ReportStatus
  <2>3. /\ intent \in IntentRow /\ intent.status = after /\ intent.text = intents[r].text
        /\ intent.hash = intents[r].hash /\ intent.snapshot = intents[r].snapshot
    BY <1>1, <2>2, IntentColumns
  <2>4. /\ row.status = s /\ row.text = reports[r].text /\ row.hash = reports[r].hash
        /\ row.version = reports[r].version
    BY <1>1, <2>2, StatusColumns
  <2>5. StagesOK(row, intent)
    <3> HIDE DEF row, intent
    <3> QED
      BY <1>1, <1>2, <2>1, <2>3, <2>4 DEF StagesOK, Unsettled
  <2> QED
    BY <1>2, <2>1, <2>3, <2>5, SettlementMoves
<1>3. CASE CreateIntent(r)
  <2> DEFINE intent == [status |-> "live", text |-> reports[r].text, hash |-> reports[r].hash,
                        snapshot |-> reports[r].version]
  <2>1. /\ reports[r].status = "validated" /\ intents' = [intents EXCEPT ![r] = intent]
        /\ UNCHANGED <<program, reports, revisions, requests, marking>>
    BY <1>3 DEF CreateIntent
  <2>2. intent \in IntentRow
    BY <1>1 DEF IntentRow, IntentStatus, ReportRow
  <2>3. StagesOK(reports[r], intent)
    BY <2>1 DEF StagesOK
  <2> HIDE DEF intent
  <2> QED
    BY <2>1, <2>2, <2>3, IntentMoves DEF Settling
<1>4. CASE CancelIntent(r)
  <2> DEFINE intent == [intents[r] EXCEPT !.status = "failed"]
  <2>1. /\ intents[r].status = "live" /\ intents' = [intents EXCEPT ![r] = intent]
        /\ UNCHANGED <<program, reports, revisions, requests, marking>>
    BY <1>4 DEF CancelIntent
  <2>2. "failed" \in IntentStatus
    BY DEF IntentStatus, Unsettled
  <2>3. intent \in IntentRow /\ intent.status = "failed"
    BY <1>1, <2>2, IntentColumns
  <2> HIDE DEF intent
  <2>4. StagesOK(reports[r], intent) /\ reports[r].status \in Settling
    BY <1>1, <2>1, <2>3 DEF StagesOK, Unsettled, Settling
  <2> QED
    BY <2>1, <2>3, <2>4, IntentMoves
<1>5. CASE ConfirmApproval(r)
  BY <1>2, <1>5 DEF ConfirmApproval, Becomes, Settling
<1>6. CASE ObservePayout(r)
  BY <1>2, <1>6 DEF ObservePayout, Becomes, Settling
<1>7. CASE FailPayout(r)
  BY <1>2, <1>7 DEF FailPayout, Becomes, Settling
<1>8. CASE ConfirmPayout(r)
  BY <1>2, <1>8 DEF ConfirmPayout, Becomes, Settling
<1> QED
  BY <1>0, <1>3, <1>4, <1>5, <1>6, <1>7, <1>8

\* Doing nothing keeps the invariant.
LEMMA StutterInv ==
  ASSUME ReportInv, UNCHANGED vars
  PROVE  ReportInv'
<1>1. UNCHANGED <<program, reports, revisions, intents, requests, marking>>
  BY DEF vars
<1>2. ProgramOK'
  BY <1>1 DEF ReportInv, ProgramOK
<1> QED
  BY <1>1, <1>2, RowsUntouched DEF ReportInv

-----------------------------------------------------------------------------
(***************************************************************************)
(* The theorems                                                            *)
(***************************************************************************)
\* The rows of the program, its reports, their intents, requests and marks
\* agree in every state.
THEOREM ReportInvHolds == Spec => []ReportInv
<1>1. Init => ReportInv
  BY InitReportInv
<1>2. ReportInv /\ [Next]_vars => ReportInv'
  BY ProgramStepInv, ResearcherStepInv, ReviewStepInv, SettlementStepInv, StutterInv DEF Next
<1> QED
  BY <1>1, <1>2, PTL DEF Spec

\* Every row has its type, a report that exists has a text and a payout
\* wallet, and it has a severity exactly while it counts as valid.
THEOREM ReportTypesHold == Spec => []TypeOK
<1>1. ReportInv => TypeOK
  <2> SUFFICES ASSUME ReportInv PROVE TypeOK
    OBVIOUS
  <2>1. program \in [status : ProgramStatus, pool : 0..MaxPool, artifact : BOOLEAN,
                     ended : BOOLEAN]
    BY DEF ReportInv, ProgramOK, ProgramRow
  <2>2. reports \in [Reports ->
       [status : ReportStatus, text : Texts \cup {NoText}, hash : Texts \cup {NoText},
        severity : BOOLEAN, order : 0..Cardinality(Reports), original : Reports \cup {NoReport},
        version : 0..MaxVersions, disclosed : BOOLEAN]]
    BY DEF ReportInv, RowsOK, ReportRow
  <2>3. \A r \in Reports :
       /\ r \in Submitted <=> reports[r].text # NoText
       /\ r \in Submitted <=> reports[r].version # 0
       /\ reports[r].severity <=> reports[r].status \in Settling
    BY RowFacts DEF ColumnsOK
  <2>4. revisions \in [Reports -> Seq(RevisionType)]
    BY DEF ReportInv, RowsOK
  <2>5. intents \in [Reports -> [status : IntentStatus, text : Texts \cup {NoText},
                              hash : Texts \cup {NoText}, snapshot : 0..MaxVersions]]
    BY DEF ReportInv, RowsOK, IntentRow
  <2>6. requests \in [Requests ->
       [does : {"nothing", "update", "select"}, report : Reports \cup {NoReport},
        patch : Texts \cup {NoText}, hash : Texts \cup {NoText}, resubmit : BOOLEAN,
        version : 0..MaxVersions]]
    BY DEF ReportInv, RequestsOK, RequestRow
  <2>7. \A q \in Requests : requests[q].does # "nothing" => requests[q].report \in Submitted
    BY DEF ReportInv, RequestsOK
  <2>8. marking \subseteq (Reports \X Reports)
    BY DEF ReportInv, MarksOK
  <2> QED
    BY <2>1, <2>2, <2>3, <2>4, <2>5, <2>6, <2>7, <2>8 DEF TypeOK
<1> QED
  BY <1>1, ReportInvHolds, PTL

\* From the creation of an intent to the payment nobody changes what is
\* being settled.
THEOREM SettledIsFrozenHolds == Spec => []SettledIsFrozen
<1>1. ReportInv => SettledIsFrozen
  <2> SUFFICES ASSUME ReportInv, NEW r \in Reserved
               PROVE  /\ reports[r].status \in Settling
                      /\ reports[r].text = intents[r].text /\ reports[r].hash = intents[r].hash
                      /\ reports[r].version = intents[r].snapshot
    BY DEF SettledIsFrozen
  <2>1. r \in Reports /\ intents[r].status \notin Unsettled
    BY DEF Reserved
  <2>2. intents[r] \in IntentRow /\ StagesOK(reports[r], intents[r])
    BY <2>1, RowFacts
  <2> QED
    BY <2>1, <2>2 DEF StagesOK, IntentRow, IntentStatus, Unsettled, Settling
<1> QED
  BY <1>1, ReportInvHolds, PTL

\* Originals were received before their duplicates, so that following them
\* ends at a report that is not a duplicate.
THEOREM DuplicateChainsEndHolds == Spec => []DuplicateChainsEnd
<1>1. ReportInv => DuplicateChainsEnd
  <2> SUFFICES ASSUME ReportInv,
                      NEW S \in SUBSET {r \in Reports : reports[r].status = "duplicate"},
                      S # {}, \A r \in S : reports[r].original \in S
               PROVE  FALSE
    BY DEF DuplicateChainsEnd
  <2> DEFINE Orders == {reports[r].order : r \in S}
             Less == OpToRel(<, Nat)
  <2>1. \A r \in S : /\ r \in Reports /\ reports[r].order \in Nat
                     /\ reports[reports[r].original].order < reports[r].order
    <3>1. ASSUME NEW r \in S
          PROVE  /\ reports[r] \in ReportRow /\ r \in Reports
                 /\ Earlier(reports[r].original, r)
      BY RowFacts
    <3>2. Cardinality(Reports) \in Nat
      BY ReportConstants, FS_CardinalityType
    <3> QED
      BY <3>1, <3>2 DEF Earlier, ReportRow
  <2>2. Orders \subseteq Nat /\ Orders # {}
    BY <2>1
  <2>3. IsWellFoundedOn(Less, Nat)
    BY NatLessThanWellFounded
  <2>4. \A x \in Nat, y \in Nat : y < x => <<y, x>> \in Less
    BY DEF OpToRel
  <2> HIDE DEF Orders, Less
  <2>5. PICK x \in Orders : \A y \in Orders : <<y, x>> \notin Less
    BY <2>2, <2>3, WFMin
  <2>6. PICK r \in S : x = reports[r].order
    BY DEF Orders
  <2>7. reports[reports[r].original].order \in Orders
    BY DEF Orders
  <2> QED
    BY <2>1, <2>2, <2>4, <2>5, <2>6, <2>7
<1> QED
  BY <1>1, ReportInvHolds, PTL

\* A report shown to reviewers has the revision of its hash as its latest.
THEOREM RevisionIsCurrentHolds == Spec => []RevisionIsCurrent
<1>1. ReportInv => RevisionIsCurrent
  BY RowFacts DEF RevisionIsCurrent, RevisionOK, Submitted
<1> QED
  BY <1>1, ReportInvHolds, PTL

\* No active program is without a pool, so no duplicate is ever reopened.
THEOREM NeverReopenableHolds == Spec => []NeverReopenable
<1>1. ReportInv => NeverReopenable
  BY DEF ReportInv, ProgramOK, NeverReopenable, CanReopen
<1> QED
  BY <1>1, ReportInvHolds, PTL

\* Publishing a draft would need an artifact a draft never has.
THEOREM ProgramFollowsDomainHolds == Spec => ProgramFollowsDomain
<1>1. ASSUME ReportInv, Next, program'.status # program.status
      PROVE  <<program.status, program'.status>> \in ProgramTransitions
  <2>0. /\ program \in ProgramRow
        /\ program.artifact => program.status # "draft"
    BY <1>1 DEF ReportInv, ProgramOK
  <2>1. ASSUME NEW amount \in {0, 1}, FundingCompletes(amount)
        PROVE  <<program.status, program'.status>> \in ProgramTransitions
    <3>1. program.status = "draft" /\ program'.status = "awaiting_funding"
      BY <1>1, <2>0, <2>1 DEF FundingCompletes, ProgramRow
    <3> QED
      BY <3>1 DEF ProgramTransitions
  <2>2. ~LateFunding /\ ~DeadlinePasses
    BY <1>1, <2>0 DEF LateFunding, DeadlinePasses, ProgramRow
  <2>3. ASSUME PublishProgram
        PROVE  <<program.status, program'.status>> \in ProgramTransitions
    <3>1. program'.status = "active" /\ program.status \in {"awaiting_funding", "paused"}
      BY <2>0, <2>3 DEF PublishProgram, CanPublish, ProgramRow
    <3> QED
      BY <3>1 DEF ProgramTransitions
  <2>4. ASSUME NEW next \in {"awaiting_funding", "paused", "expired", "closed"},
               SetProgramStatus(next)
        PROVE  <<program.status, program'.status>> \in ProgramTransitions
    <3>1. program'.status = next /\ <<program.status, next>> \in OwnerTransitions
      BY <2>0, <2>4 DEF SetProgramStatus, ProgramRow
    <3> QED
      BY <3>1 DEF ProgramTransitions, OwnerTransitions
  <2>5. ~(ResearcherStep \/ ReviewStep \/ SettlementStep)
    BY <1>1 DEF ResearcherStep, ReviewStep, SettlementStep, SubmitReport, StartUpdate,
          StartSelect, WriteUpdate, WriteSelect, RequestInformation, Validate, Reject,
          SendBackForReview, DecideDisclosure, StartMarkDuplicate, FinishMarkDuplicate,
          CreateIntent, CancelIntent, ConfirmApproval, ObservePayout, FailPayout, ConfirmPayout
  <2> QED
    BY <1>1, <2>1, <2>2, <2>3, <2>4, <2>5 DEF Next, ProgramStep
<1>2. ReportInv /\ [Next]_vars =>
        [program'.status # program.status =>
           <<program.status, program'.status>> \in ProgramTransitions]_vars
  BY <1>1
<1> QED
  BY <1>2, ReportInvHolds, PTL DEF Spec, ProgramFollowsDomain

\* Nothing takes a decision on disclosure back, and nothing that writes a
\* report's text finds it disclosed.
LEMMA DisclosureKept ==
  ASSUME ReportInv, Next, NEW r \in Reports, reports[r].disclosed
  PROVE  reports'[r].disclosed /\ reports'[r].text = reports[r].text
<1>0. /\ reports \in [Reports -> ReportRow] /\ reports[r] \in ReportRow
      /\ reports[r].status \notin {"none", "submitted", "needs_information"}
  BY RowFacts DEF ReportInv, RowsOK, ColumnsOK, Settling
<1>1. ASSUME NEW x \in Reports, NEW row, reports' = [reports EXCEPT ![x] = row],
             x = r => row.disclosed /\ row.text = reports[r].text
      PROVE  reports'[r].disclosed /\ reports'[r].text = reports[r].text
  BY <1>0, <1>1
<1>2. ASSUME UNCHANGED reports
      PROVE  reports'[r].disclosed /\ reports'[r].text = reports[r].text
  BY <1>2
<1>3. ASSUME NEW x \in Reports, NEW s, Becomes(x, s)
      PROVE  reports'[r].disclosed /\ reports'[r].text = reports[r].text
  BY <1>0, <1>1, <1>3 DEF Becomes, ReportRow
<1>4. CASE ProgramStep
  BY <1>2, <1>4 DEF ProgramStep, FundingCompletes, LateFunding, PublishProgram, DeadlinePasses,
     SetProgramStatus
<1>5. CASE ResearcherStep
  <2>1. ASSUME NEW x \in Reports, NEW text \in Texts, SubmitReport(x, text)
        PROVE  reports'[r].disclosed /\ reports'[r].text = reports[r].text
    BY <1>0, <1>1, <2>1 DEF SubmitReport
  <2>2. ASSUME NEW q \in Requests, NEW x \in Reports, NEW patch \in Texts \cup {NoText},
               NEW resubmit \in BOOLEAN,
               StartUpdate(q, x, patch, resubmit) \/ StartSelect(q, x)
        PROVE  reports'[r].disclosed /\ reports'[r].text = reports[r].text
    BY <1>2, <2>2 DEF StartUpdate, StartSelect
  <2>3. ASSUME NEW q \in Requests, WriteUpdate(q)
        PROVE  reports'[r].disclosed /\ reports'[r].text = reports[r].text
    <3> DEFINE x == requests[q].report
    <3>1. x \in Reports
      BY <2>3 DEF ReportInv, RequestsOK, WriteUpdate, Submitted
    <3>2. CASE CanUpdate(x)
      <4>1. x # r
        BY <1>0, <3>2 DEF CanUpdate
      <4>2. \E row : reports' = [reports EXCEPT ![x] = row]
        BY <2>3, <3>2 DEF WriteUpdate
      <4> HIDE DEF x
      <4> QED
        BY <1>1, <3>1, <4>1, <4>2
    <3>3. CASE ~CanUpdate(x)
      BY <1>2, <2>3, <3>3 DEF WriteUpdate
    <3> QED
      BY <3>2, <3>3
  <2>4. ASSUME NEW q \in Requests, WriteSelect(q)
        PROVE  reports'[r].disclosed /\ reports'[r].text = reports[r].text
    <3> DEFINE x == requests[q].report
               row == [reports[x] EXCEPT !.version = reports[x].version + 1]
    <3>1. x \in Reports
      BY <2>4 DEF ReportInv, RequestsOK, WriteSelect, Submitted
    <3>2. CASE reports' = [reports EXCEPT ![x] = row]
      <4>1. x = r => row.disclosed /\ row.text = reports[r].text
        BY <1>0 DEF ReportRow
      <4> HIDE DEF x, row
      <4> QED
        BY <1>1, <3>1, <3>2, <4>1
    <3> QED
      BY <1>2, <2>4, <3>2 DEF WriteSelect
  <2> QED
    BY <1>5, <2>1, <2>2, <2>3, <2>4 DEF ResearcherStep
<1>6. CASE ReviewStep
  <2>1. ASSUME NEW x \in Reports, RequestInformation(x) \/ Reject(x)
        PROVE  reports'[r].disclosed /\ reports'[r].text = reports[r].text
    BY <1>3, <2>1 DEF RequestInformation, Reject
  <2>2. ASSUME NEW x \in Reports, Validate(x) \/ SendBackForReview(x)
        PROVE  reports'[r].disclosed /\ reports'[r].text = reports[r].text
    <3>1. PICK s \in ReportStatus, severity \in BOOLEAN :
            reports' = [reports EXCEPT ![x] =
                          [reports[x] EXCEPT !.status = s, !.severity = severity]]
      BY <2>2 DEF Validate, SendBackForReview, ReportStatus, InReview, Settling
    <3> DEFINE row == [reports[x] EXCEPT !.status = s, !.severity = severity]
    <3>2. x = r => row.disclosed /\ row.text = reports[r].text
      BY <1>0 DEF ReportRow
    <3>3. reports' = [reports EXCEPT ![x] = row]
      BY <3>1
    <3> HIDE DEF row
    <3> QED
      BY <1>1, <3>2, <3>3
  <2>3. ASSUME NEW x \in Reports, DecideDisclosure(x)
        PROVE  reports'[r].disclosed /\ reports'[r].text = reports[r].text
    <3> DEFINE row == [reports[x] EXCEPT !.disclosed = TRUE]
    <3>1. reports' = [reports EXCEPT ![x] = row]
      BY <2>3 DEF DecideDisclosure
    <3>2. x = r => row.disclosed /\ row.text = reports[r].text
      BY <1>0 DEF ReportRow
    <3> HIDE DEF row
    <3> QED
      BY <1>1, <3>1, <3>2
  <2>4. ASSUME NEW x \in Reports, NEW o \in Reports, StartMarkDuplicate(x, o)
        PROVE  reports'[r].disclosed /\ reports'[r].text = reports[r].text
    BY <1>2, <2>4 DEF StartMarkDuplicate
  <2>5. ASSUME NEW m \in marking, FinishMarkDuplicate(m)
        PROVE  reports'[r].disclosed /\ reports'[r].text = reports[r].text
    <3> DEFINE x == m[1]
               row == [reports[x] EXCEPT !.status = "duplicate", !.original = m[2]]
    <3>1. x \in Reports /\ x # r
      BY <1>0 DEF ReportInv, MarksOK
    <3>2. reports' = [reports EXCEPT ![x] = row]
      BY <2>5 DEF FinishMarkDuplicate
    <3> HIDE DEF x, row
    <3> QED
      BY <1>1, <3>1, <3>2
  <2> QED
    BY <1>6, <2>1, <2>2, <2>3, <2>4, <2>5 DEF ReviewStep
<1>7. CASE SettlementStep
  BY <1>2, <1>3, <1>7 DEF SettlementStep, CreateIntent, CancelIntent, ConfirmApproval,
     ObservePayout, FailPayout, ConfirmPayout
<1> QED
  BY <1>4, <1>5, <1>6, <1>7 DEF Next

\* A report whose disclosure was decided keeps its text and stays out of
\* review.
THEOREM DisclosedIsFinalHolds == Spec => DisclosedIsFinal
<1>1. ASSUME ReportInv, ReportInv', Next, NEW r \in Reports, reports[r].disclosed
      PROVE  reports'[r].status \notin InReview /\ reports'[r].text = reports[r].text
  <2>1. reports'[r].disclosed /\ reports'[r].text = reports[r].text
    BY <1>1, DisclosureKept
  <2>2. ColumnsOK(reports'[r])
    BY <1>1 DEF ReportInv, RowsOK, RowOK, ColumnsOK
  <2> QED
    BY <2>1, <2>2 DEF ColumnsOK, InReview, Settling
<1>2. ReportInv /\ ReportInv' /\ [Next]_vars =>
        [\A r \in Reports : reports[r].disclosed =>
           /\ reports'[r].status \notin InReview
           /\ reports'[r].text = reports[r].text]_vars
  BY <1>1
<1> QED
  BY <1>2, ReportInvHolds, PTL DEF Spec, DisclosedIsFinal
=============================================================================
