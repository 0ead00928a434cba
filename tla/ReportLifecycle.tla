-------------------------- MODULE ReportLifecycle ---------------------------
(***************************************************************************)
(* The reports of one program, from submission through review to payment   *)
(* or disclosure, with the program's own lifecycle around them.  Several   *)
(* parties act on the same rows:                                           *)
(*                                                                         *)
(*   - the researcher, whose edits are two steps of the API: the report is *)
(*     read and the hash of the merged text computed                       *)
(*     (ReportService.update), then update_report_atomic writes the patch  *)
(*     with that hash; and who replaces the payout wallet                  *)
(*     (ReportService.updatePayoutWallet) while the server allows it;      *)
(*   - owner and reviewers, who request information, validate, reject or   *)
(*     mark duplicates; marking locks the report but not its original, so  *)
(*     it is two steps as well;                                            *)
(*   - the owner, who sends a validated report back, publishes, pauses,    *)
(*     expires and closes the program, and decides on disclosure;          *)
(*   - settlement, reduced to what it does to the report: RewardSettlement *)
(*     has its operations and the chain;                                   *)
(*   - funding, reduced to the credits it gives: FundingIntent has it.     *)
(*                                                                         *)
(* A text and its hash are the same value, a payout wallet snapshot is its *)
(* version, and rewards are one unit of the pool.                          *)
(* Reports are inserted as submitted: nothing creates a draft or sets      *)
(* triaged.                                                                *)
(***************************************************************************)
EXTENDS Naturals, Sequences, FiniteSets

CONSTANTS
  Reports,       \* reports the program may receive
  Requests,      \* requests of researchers in flight at once
  ReportOf,      \* bound: the report each of them is about
  Texts,         \* contents a report may have
  MaxRevisions,  \* bound: report_revisions of a report
  MaxVersions,   \* bound: payout_wallet_version, one snapshot each, of a report
  MaxPool,       \* bound: units credited to the program
  NoReport, NoText

ASSUME ReportConstants ==
  /\ NoReport \notin Reports
  /\ NoText \notin Texts
  /\ {MaxRevisions, MaxPool} \subseteq Nat
  /\ MaxVersions \in Nat \ {0}
  /\ IsFiniteSet(Reports)
  /\ ReportOf \in [Requests -> Reports]

VARIABLES
  program,    \* programs: status, total_pool, a confirmation artifact, the deadline
  reports,    \* reports
  revisions,  \* report_revisions, each with its AI run
  intents,    \* the newest reward_settlement_intents row of each report
  requests,   \* researcher requests: what each has read
  marking     \* mark_duplicate transactions past their checks

vars == <<program, reports, revisions, intents, requests, marking>>

-----------------------------------------------------------------------------
(* Rows and what is computed from them.                                    *)

InReview == {"submitted", "needs_information"}

Settling == {"validated", "reward_approved", "payment_pending", "paid"}

\* No intent row, or only cancelled ones.
Unsettled == {"none", "failed"}

NoIntent == [status |-> "none", text |-> NoText, hash |-> NoText, snapshot |-> 0]

IdleRequest ==
  [does |-> "nothing", report |-> NoReport, patch |-> NoText, hash |-> NoText,
   resubmit |-> FALSE, version |-> 0]

Init ==
  /\ program = [status |-> "draft", pool |-> 0, artifact |-> FALSE, ended |-> FALSE]
  /\ reports = [r \in Reports |->
       [status |-> "none", text |-> NoText, hash |-> NoText, severity |-> FALSE, order |-> 0,
        original |-> NoReport, version |-> 0, disclosed |-> FALSE]]
  /\ revisions = [r \in Reports |-> <<>>]
  /\ intents = [r \in Reports |-> NoIntent]
  /\ requests = [q \in Requests |-> IdleRequest]
  /\ marking = {}

Submitted == {r \in Reports : reports[r].status # "none"}

\* The row lock a mark_duplicate transaction holds until it commits.
Locked(r) == \E m \in marking : m[1] = r

Reserved == {r \in Reports : intents[r].status \notin Unsettled}

Available == program.pool - Cardinality(Reserved)

Becomes(r, status) == reports' = [reports EXCEPT ![r].status = status]

-----------------------------------------------------------------------------
(* The program.                                                            *)

\* reconcile_funding_intent_atomic: a complete intent leaves its artifact, and
\* adds nothing to the pool when late funding has credited its transfer.
FundingCompletes(amount) ==
  /\ program.pool + amount \in 1..MaxPool
  /\ program' = [program EXCEPT !.pool = @ + amount, !.artifact = TRUE,
                   !.status = IF @ = "draft" THEN "awaiting_funding" ELSE @]
  /\ UNCHANGED <<reports, revisions, intents, requests, marking>>

\* reconcile_late_funding_atomic: a credit without artifact or transition.
LateFunding ==
  /\ program.pool < MaxPool
  /\ program' = [program EXCEPT !.pool = @ + 1]
  /\ UNCHANGED <<reports, revisions, intents, requests, marking>>

\* A publish_program_atomic without the trigger on programs.status.
CanPublishWithoutArtifact ==
  /\ program.status \in {"draft", "awaiting_funding", "paused"}
  /\ ~program.ended
  /\ Available > 0

\* One that takes a program awaiting funding for a funded one.
CanPublishEmpty ==
  /\ program.status \in {"awaiting_funding", "paused"}
  /\ ~program.ended

CanPublish ==
  /\ program.status \in {"draft", "awaiting_funding", "paused"}
  /\ ~program.ended
  /\ Available > 0
  /\ program.artifact

PublishProgram ==
  /\ CanPublish
  /\ program' = [program EXCEPT !.status = "active"]
  /\ UNCHANGED <<reports, revisions, intents, requests, marking>>

\* The case expression of set_program_status_atomic; `active' goes through
\* publish_program_atomic.
OwnerTransitions ==
  {<<"draft", "awaiting_funding">>, <<"draft", "closed">>, <<"awaiting_funding", "closed">>}
    \cup {"active"} \X {"paused", "expired", "closed"}
    \cup {"paused"} \X {"expired", "closed"}

SetProgramStatus(next) ==
  /\ <<program.status, next>> \in OwnerTransitions
  /\ program' = [program EXCEPT !.status = next]
  /\ UNCHANGED <<reports, revisions, intents, requests, marking>>

DeadlinePasses ==
  /\ ~program.ended
  /\ program' = [program EXCEPT !.ended = TRUE]
  /\ UNCHANGED <<reports, revisions, intents, requests, marking>>

-----------------------------------------------------------------------------
(* The researcher.                                                         *)

\* An enqueue_report_ai_run_atomic that takes any earlier revision with the
\* hash for a transport retry, not the latest alone.
EnqueuedOnce(seq, text, hash) ==
  IF \E n \in DOMAIN seq : seq[n].hash = hash
  THEN seq ELSE Append(seq, [text |-> text, hash |-> hash])

\* enqueue_report_ai_run_atomic: a new revision with its AI run, unless the
\* latest one has this hash already.
Enqueued(seq, text, hash) ==
  IF seq # <<>> /\ seq[Len(seq)].hash = hash
  THEN seq ELSE Append(seq, [text |-> text, hash |-> hash])

SubmitReport(r, text) ==
  /\ reports[r].status = "none"
  /\ program.status = "active"
  /\ reports' = [reports EXCEPT ![r] =
       [@ EXCEPT !.status = "submitted", !.text = text, !.hash = text,
                 !.order = Cardinality(Submitted) + 1, !.version = 1]]
  /\ revisions' = [revisions EXCEPT ![r] = Enqueued(@, text, text)]
  /\ UNCHANGED <<program, intents, requests, marking>>

\* ReportService.update reads the report and hashes the merge.
StartUpdate(q, r, patch, resubmit) ==
  /\ requests[q].does = "nothing"
  /\ r = ReportOf[q] /\ r \in Submitted
  /\ requests' = [requests EXCEPT ![q] =
       [IdleRequest EXCEPT !.does = "update", !.report = r, !.patch = patch,
          !.hash = IF patch = NoText THEN reports[r].text ELSE patch, !.resubmit = resubmit]]
  /\ UNCHANGED <<program, reports, revisions, intents, marking>>

CanUpdate(r) ==
  /\ reports[r].status = "needs_information"
  /\ program.status = "active"

\* update_report_atomic, with the hash the request computed.
WriteUpdate(q) ==
  LET r == requests[q].report
      text == IF requests[q].patch = NoText THEN reports[r].text ELSE requests[q].patch IN
  /\ requests[q].does = "update"
  /\ ~Locked(r)
  /\ requests' = [requests EXCEPT ![q] = IdleRequest]
  /\ IF CanUpdate(r)
     THEN /\ reports' = [reports EXCEPT ![r] =
               [@ EXCEPT !.text = text, !.hash = requests[q].hash,
                         !.status = IF requests[q].resubmit THEN "submitted" ELSE reports[r].status]]
          /\ revisions' = [revisions EXCEPT ![r] =
               IF requests[q].resubmit THEN Enqueued(@, text, requests[q].hash) ELSE @]
          /\ Len(revisions'[r]) <= MaxRevisions
     ELSE UNCHANGED <<reports, revisions>>
  /\ UNCHANGED <<program, intents, marking>>

\* The wallet editor shows the selection with its version.
StartSelect(q, r) ==
  /\ requests[q].does = "nothing"
  /\ r = ReportOf[q] /\ r \in Submitted
  /\ requests' = [requests EXCEPT ![q] =
       [IdleRequest EXCEPT !.does = "select", !.report = r, !.version = reports[r].version]]
  /\ UNCHANGED <<program, reports, revisions, intents, marking>>

\* report_payout_wallet_block_reason and the version check before it.
CanSelect(r, version) ==
  /\ version = reports[r].version
  /\ reports[r].status \in {"submitted", "needs_information", "validated"}
  /\ program.status \in {"active", "paused"} /\ ~program.ended
  /\ intents[r].status \in Unsettled

WriteSelect(q) ==
  LET r == requests[q].report IN
  /\ requests[q].does = "select"
  /\ ~Locked(r)
  /\ requests' = [requests EXCEPT ![q] = IdleRequest]
  /\ IF CanSelect(r, requests[q].version)
     THEN /\ reports[r].version < MaxVersions
          /\ reports' = [reports EXCEPT ![r].version = reports[r].version + 1]
     ELSE UNCHANGED reports
  /\ UNCHANGED <<program, revisions, intents, marking>>

-----------------------------------------------------------------------------
(* Review.                                                                 *)

CanReview(r) == reports[r].status = "submitted" /\ ~Locked(r)

RequestInformation(r) ==
  /\ CanReview(r)
  /\ Becomes(r, "needs_information")
  /\ UNCHANGED <<program, revisions, intents, requests, marking>>

Validate(r) ==
  /\ CanReview(r)
  /\ reports' = [reports EXCEPT ![r] = [@ EXCEPT !.status = "validated", !.severity = TRUE]]
  /\ UNCHANGED <<program, revisions, intents, requests, marking>>

Reject(r) ==
  /\ CanReview(r)
  /\ Becomes(r, "rejected")
  /\ UNCHANGED <<program, revisions, intents, requests, marking>>

\* mark_report_duplicate_atomic before duplicate_target_ordering.
CanMarkAny(r, o) ==
  /\ r # o /\ o \in Submitted
  /\ reports[o].status # "duplicate"

CanMark(r, o) ==
  /\ r # o /\ o \in Submitted
  /\ reports[o].status # "duplicate"
  /\ reports[o].order < reports[r].order

\* The transaction has locked the report and read the original.
StartMarkDuplicate(r, o) ==
  /\ CanReview(r)
  /\ CanMark(r, o)
  /\ marking' = marking \cup {<<r, o>>}
  /\ UNCHANGED <<program, reports, revisions, intents, requests>>

FinishMarkDuplicate(m) ==
  /\ marking' = marking \ {m}
  /\ reports' = [reports EXCEPT ![m[1]] =
       [@ EXCEPT !.status = "duplicate", !.original = m[2]]]
  /\ UNCHANGED <<program, revisions, intents, requests>>

\* A send_report_back_for_review_atomic that looks only at the amounts and
\* times on the report row.
CanSendBackReserved(r) == reports[r].status = "validated" /\ ~reports[r].disclosed

\* One that does not look at report_disclosures.
CanSendBackDisclosed(r) == reports[r].status = "validated" /\ intents[r].status = "none"

CanSendBack(r) ==
  /\ reports[r].status = "validated"
  /\ intents[r].status = "none"
  /\ ~reports[r].disclosed

SendBackForReview(r) ==
  /\ CanSendBack(r)
  /\ reports' = [reports EXCEPT ![r] = [@ EXCEPT !.status = "submitted", !.severity = FALSE]]
  /\ UNCHANGED <<program, revisions, intents, requests, marking>>

\* reopen_duplicate_report_atomic: never enabled (see NeverReopenable), so
\* it is not among the steps.
CanReopen(r) ==
  /\ reports[r].status = "duplicate"
  /\ program.status = "active"
  /\ program.pool = 0

DecideDisclosure(r) ==
  /\ program.status \in {"expired", "closed"}
  /\ reports[r].status \in {"rejected", "duplicate", "validated", "reward_approved", "paid"}
  /\ reports' = [reports EXCEPT ![r].disclosed = TRUE]
  /\ UNCHANGED <<program, revisions, intents, requests, marking>>

-----------------------------------------------------------------------------
(* Settlement, as far as the report row shows it.                          *)

CreateIntent(r) ==
  /\ reports[r].status = "validated" /\ reports[r].severity
  /\ intents[r].status \in Unsettled
  /\ Available > 0
  /\ intents' = [intents EXCEPT ![r] =
       [status |-> "live", text |-> reports[r].text, hash |-> reports[r].hash,
        snapshot |-> reports[r].version]]
  /\ UNCHANGED <<program, reports, revisions, requests, marking>>

CancelIntent(r) ==
  /\ intents[r].status = "live"
  /\ intents' = [intents EXCEPT ![r].status = "failed"]
  /\ UNCHANGED <<program, reports, revisions, requests, marking>>

ConfirmApproval(r) ==
  /\ intents[r].status = "live"
  /\ reports[r].status = "validated"
  /\ intents' = [intents EXCEPT ![r].status = "ready_for_payout"]
  /\ Becomes(r, "reward_approved")
  /\ UNCHANGED <<program, revisions, requests, marking>>

ObservePayout(r) ==
  /\ intents[r].status = "ready_for_payout"
  /\ intents' = [intents EXCEPT ![r].status = "payout_submitted"]
  /\ Becomes(r, "payment_pending")
  /\ UNCHANGED <<program, revisions, requests, marking>>

FailPayout(r) ==
  /\ intents[r].status = "payout_submitted"
  /\ intents' = [intents EXCEPT ![r].status = "ready_for_payout"]
  /\ Becomes(r, "reward_approved")
  /\ UNCHANGED <<program, revisions, requests, marking>>

ConfirmPayout(r) ==
  /\ intents[r].status = "payout_submitted"
  /\ intents' = [intents EXCEPT ![r].status = "paid"]
  /\ Becomes(r, "paid")
  /\ UNCHANGED <<program, revisions, requests, marking>>

-----------------------------------------------------------------------------
ProgramStep ==
  \/ \E amount \in {0, 1} : FundingCompletes(amount)
  \/ LateFunding \/ PublishProgram \/ DeadlinePasses
  \/ \E next \in {"awaiting_funding", "paused", "expired", "closed"} : SetProgramStatus(next)

ResearcherStep ==
  \/ \E r \in Reports, text \in Texts : SubmitReport(r, text)
  \/ \E q \in Requests, r \in Reports :
       \/ \E patch \in Texts \cup {NoText}, resubmit \in BOOLEAN :
            StartUpdate(q, r, patch, resubmit)
       \/ StartSelect(q, r)
  \/ \E q \in Requests : WriteUpdate(q) \/ WriteSelect(q)

ReviewStep ==
  \/ \E r \in Reports :
       \/ RequestInformation(r) \/ Validate(r) \/ Reject(r) \/ SendBackForReview(r)
       \/ DecideDisclosure(r)
       \/ \E o \in Reports : StartMarkDuplicate(r, o)
  \/ \E m \in marking : FinishMarkDuplicate(m)

SettlementStep ==
  \E r \in Reports :
    \/ CreateIntent(r) \/ CancelIntent(r) \/ ConfirmApproval(r) \/ ObservePayout(r)
    \/ FailPayout(r) \/ ConfirmPayout(r)

Next == ProgramStep \/ ResearcherStep \/ ReviewStep \/ SettlementStep

Spec == Init /\ [][Next]_vars

-----------------------------------------------------------------------------
(* Properties.                                                             *)

ProgramStatus == {"draft", "awaiting_funding", "active", "paused", "expired", "closed"}

ReportStatus == {"none", "rejected", "duplicate"} \cup InReview \cup Settling

IntentStatus == Unsettled \cup {"live", "ready_for_payout", "payout_submitted", "paid"}

RevisionType == [text : Texts, hash : Texts]

\* Every row has its type; a report that exists has a text and a payout
\* wallet, and a severity exactly while it counts as valid.
TypeOK ==
  /\ program \in [status : ProgramStatus, pool : 0..MaxPool, artifact : BOOLEAN, ended : BOOLEAN]
  /\ reports \in [Reports ->
       [status : ReportStatus, text : Texts \cup {NoText}, hash : Texts \cup {NoText},
        severity : BOOLEAN, order : 0..Cardinality(Reports), original : Reports \cup {NoReport},
        version : 0..MaxVersions, disclosed : BOOLEAN]]
  /\ \A r \in Reports :
       /\ r \in Submitted <=> reports[r].text # NoText
       /\ r \in Submitted <=> reports[r].version # 0
       /\ reports[r].severity <=> reports[r].status \in Settling
  /\ revisions \in [Reports -> Seq(RevisionType)]
  /\ intents \in [Reports -> [status : IntentStatus, text : Texts \cup {NoText},
                              hash : Texts \cup {NoText}, snapshot : 0..MaxVersions]]
  /\ requests \in [Requests ->
       [does : {"nothing", "update", "select"}, report : Reports \cup {NoReport},
        patch : Texts \cup {NoText}, hash : Texts \cup {NoText}, resubmit : BOOLEAN,
        version : 0..MaxVersions]]
  /\ \A q \in Requests : requests[q].does # "nothing" => requests[q].report \in Submitted
  /\ marking \subseteq (Reports \X Reports)

\* What is being settled cannot change under the settlement: from the
\* creation of the intent to the payment the report stays validated or
\* beyond, with the text, the hash and the payout wallet the intent recorded,
\* whatever the researcher, a reviewer or the owner does meanwhile.
SettledIsFrozen ==
  \A r \in Reserved :
    /\ reports[r].status \in Settling
    /\ reports[r].text = intents[r].text /\ reports[r].hash = intents[r].hash
    /\ reports[r].version = intents[r].snapshot

\* Following originals from a duplicate ends at a report that is not one,
\* though two reports may be marked at once and neither locks the other.
DuplicateChainsEnd ==
  \A S \in SUBSET {r \in Reports : reports[r].status = "duplicate"} :
    S # {} => \E r \in S : reports[r].original \notin S

\* The AI revision a report under review is shown with is the one of the
\* hash on its row: submission and resubmission leave the latest revision
\* with the report's hash, in whatever order overlapping edits and
\* resubmissions of the report are written.  That the hash covers the text on
\* the row is another matter, and fails: HashCoversText.
RevisionIsCurrent ==
  \A r \in Submitted :
    reports[r].status # "needs_information" =>
      revisions[r] # <<>> /\ revisions[r][Len(revisions[r])].hash = reports[r].hash

\* Reopening a duplicate asks for an active program without a pool, and no
\* sequence of funding, publishing and pausing leads to one.
NeverReopenable == \A r \in Reports : ~CanReopen(r)

\* A report whose disclosure was decided is not reviewed or edited again.
DisclosedIsFinal ==
  [][\A r \in Reports : reports[r].disclosed =>
       /\ reports'[r].status \notin InReview
       /\ reports'[r].text = reports[r].text]_vars

\* PROGRAM_STATUS_TRANSITIONS of the domain package, without deactivated.
ProgramTransitions ==
  {"draft"} \X {"awaiting_funding", "closed"} \cup {"awaiting_funding"} \X {"active", "closed"}
    \cup {"active"} \X {"paused", "expired", "closed"}
    \cup {"paused"} \X {"active", "expired", "closed"} \cup {<<"expired", "closed">>}

\* The program only takes transitions of the domain's table: publishing, which
\* accepts a draft, finds the funding it demands only when the program is
\* waiting for it already.
ProgramFollowsDomain ==
  [][program'.status # program.status =>
       <<program.status, program'.status>> \in ProgramTransitions]_vars

\* "The hash covers the post-edit state."
HashCoversText == \A r \in Reports : reports[r].hash = reports[r].text

\* REPORT_STATUS_TRANSITIONS of the domain package, without draft and triaged.
ReportTransitions ==
  {"submitted"} \X {"needs_information", "rejected", "duplicate", "validated"}
    \cup {"needs_information", "duplicate"} \X {"submitted"}
    \cup {"validated"} \X {"submitted", "reward_approved"}
    \cup {<<"reward_approved", "payment_pending">>, <<"payment_pending", "paid">>}

\* Reports only take transitions of the domain's table once submitted.
ReportFollowsDomain ==
  [][\A r \in Submitted : reports'[r].status # reports[r].status =>
       <<reports[r].status, reports'[r].status>> \in ReportTransitions]_vars
=============================================================================
