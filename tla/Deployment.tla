----------------------------- MODULE Deployment -----------------------------
(***************************************************************************)
(* How a program gets its escrow.  The owner's page asks for a quote of    *)
(* the deployment fee, charges it to BountyEscrowAdmin through the wallet  *)
(* and reports the hash; a deploy request then creates the program's only  *)
(* deployment row, submits the contract to Circle under the row's          *)
(* idempotency key, waits for it, registers it with the controller and     *)
(* confirms the row.  What makes it hard:                                  *)
(*                                                                         *)
(*   - any request may stop, or be given up, between two of its steps, and *)
(*     is repeated by the owner from the start;                            *)
(*   - two requests of two pages run at once;                              *)
(*   - Circle answers one key always with the same operation once it has   *)
(*     accepted it, but refuses what it cannot validate (HTTP 400), and    *)
(*     then the row may move to a second key, once;                        *)
(*   - the owner edits the deadline, which is also the escrow's refund     *)
(*     lock, and reloads the page at any time;                             *)
(*   - the evidence of the fee is any charge of the right payer and amount *)
(*     at the controller, whichever program it was for.                    *)
(*                                                                         *)
(* One program; a charge is named by its index in `charges', a quote by    *)
(* its index in `quotes', a contract by the key it was submitted under.    *)
(***************************************************************************)
EXTENDS Integers, Sequences, FiniteSets

CONSTANTS
  Tabs,          \* pages of the owner
  Requests,      \* deploy requests in flight at once
  MaxQuotes,     \* bound: fee quotes
  MaxCharges,    \* bound: payProgramFee transactions, of this and of other programs
  MaxDeadlines,  \* bound: deadlines the program has had
  MaxLost        \* bound: requests that stop before their answer

ASSUME DeploymentConstants ==
  /\ {MaxQuotes, MaxCharges, MaxLost} \subseteq Nat
  /\ MaxDeadlines \in Nat \ {0}

\* MAX_CIRCLE_DEPLOYMENT_ATTEMPTS; key k is the key of attempt k.
Keys == 1..2

VARIABLES
  deadline,      \* programs.deadline, by its number
  quotes,        \* escrow_deployment_fee_quotes
  charges,       \* payProgramFee transactions, each of a program
  row,           \* the program's row in escrow_contracts
  circle,        \* Circle's deployments, by key
  registration,  \* Circle's registerProgramEscrow transaction of the deployment
  tabs,          \* what the owner's pages show and wait for
  requests,      \* deploy requests
  lost           \* requests lost so far

fees == <<quotes, charges>>
provider == <<circle, registration>>
vars == <<deadline, fees, row, provider, tabs, requests, lost>>

-----------------------------------------------------------------------------
(* Rows, pages, requests.                                                  *)

\* charge: the transaction recorded as evidence, 0 before there is one.
NewQuote == [status |-> "quoted", due |-> FALSE, charge |-> 0]

NoRow == [status |-> "none", key |-> 0, deadline |-> 0, contract |-> 0, address |-> 0]

\* The page after a reload: everything it knew is gone.
NewTab == [quote |-> 0, fee |-> "none", waits |-> 0, hash |-> 0,
           deployment |-> "none", call |-> {}]

Idle == [at |-> "idle", key |-> 0, deadline |-> 0]

Init ==
  /\ deadline = 1
  /\ quotes = <<>>
  /\ charges = <<>>
  /\ row = NoRow
  /\ circle = [k \in Keys |-> [state |-> "new", refused |-> FALSE, deadline |-> 0]]
  /\ registration = [state |-> "none", contract |-> 0]
  /\ tabs = [t \in Tabs |-> NewTab]
  /\ requests = [q \in Requests |-> Idle]
  /\ lost = 0

Final == {"confirmed", "failed"}

FeePaid == \E i \in DOMAIN quotes : quotes[i].status = "paid"

Charged == \E c \in DOMAIN charges : charges[c] = [program |-> "this", state |-> "success"]

SetTab(t, tab) == tabs' = [tabs EXCEPT ![t] = tab]

-----------------------------------------------------------------------------
(* The fee.                                                                *)

Reusable(i) == quotes[i].status = "paid" \/ (quotes[i].status = "quoted" /\ ~quotes[i].due)

\* create_deployment_fee_quote_atomic: what is due expires, what is open is reused.
GetQuote(t) ==
  /\ tabs[t].fee \in {"none", "expired"}
  /\ LET expired == [i \in DOMAIN quotes |->
                       IF Reusable(i) THEN quotes[i] ELSE [quotes[i] EXCEPT !.status = "expired"]]
         open == {i \in DOMAIN quotes : Reusable(i)}
         shown(i, status) == SetTab(t, [tabs[t] EXCEPT !.quote = i, !.fee = status, !.hash = 0])
     IN \/ /\ open = {}
           /\ Len(quotes) < MaxQuotes
           /\ quotes' = Append(expired, NewQuote)
           /\ shown(Len(quotes) + 1, "quoted")
        \/ \E i \in open : quotes' = expired /\ shown(i, quotes[i].status)
  /\ UNCHANGED <<deadline, charges, row, provider, requests, lost>>

QuoteFallsDue(i) ==
  /\ quotes[i].status = "quoted" /\ ~quotes[i].due
  /\ quotes' = [quotes EXCEPT ![i].due = TRUE]
  /\ UNCHANGED <<deadline, charges, row, provider, tabs, requests, lost>>

\* The wallet signs payProgramFee; the page waits a minute for the receipt and
\* only then keeps the hash.
SendCharge(t) ==
  /\ tabs[t].fee = "quoted" /\ tabs[t].hash = 0 /\ tabs[t].waits = 0
  /\ Len(charges) < MaxCharges
  /\ charges' = Append(charges, [program |-> "this", state |-> "sent"])
  /\ SetTab(t, [tabs[t] EXCEPT !.waits = Len(charges) + 1])
  /\ UNCHANGED <<deadline, quotes, row, provider, requests, lost>>

\* The controller takes the fee of a program once.
MineCharge(c) ==
  /\ charges[c].state = "sent"
  /\ charges' = [charges EXCEPT ![c].state = IF Charged THEN "reverted" ELSE "success"]
  /\ UNCHANGED <<deadline, quotes, row, provider, tabs, requests, lost>>

\* The controller takes the fee of another program.
ChargeOther ==
  /\ Len(charges) < MaxCharges
  /\ charges' = Append(charges, [program |-> "other", state |-> "success"])
  /\ UNCHANGED <<deadline, quotes, row, provider, tabs, requests, lost>>

ChargeAnswered(t) ==
  /\ tabs[t].waits # 0
  /\ charges[tabs[t].waits].state # "sent"
  /\ SetTab(t, [tabs[t] EXCEPT !.waits = 0,
                  !.hash = IF charges[tabs[t].waits].state = "success" THEN tabs[t].waits ELSE 0])
  /\ UNCHANGED <<deadline, fees, row, provider, requests, lost>>

ChargeTimesOut(t) ==
  /\ tabs[t].waits # 0
  /\ SetTab(t, [tabs[t] EXCEPT !.waits = 0])
  /\ UNCHANGED <<deadline, fees, row, provider, requests, lost>>

\* verifyDeploymentFeePayment: the receipt has the event and the transfer, of the
\* payer the caller names and the quoted amount.  Nobody asks for which program.
Evident(c) == charges[c].state = "success"

\* Bug variant: the hash is recorded before its receipt is looked at.
CanMarkPaidUnseen(i, c) == Reusable(i)

\* The evidence counts only while the quote is open; a paid quote asks for none.
CanMarkPaid(i, c) == Reusable(i) /\ (quotes[i].status = "quoted" => Evident(c))

\* mark_deployment_fee_paid_atomic; no two quotes are kept from one charge.
MarkPaid(i, c) ==
  /\ CanMarkPaid(i, c)
  /\ quotes' = IF quotes[i].status = "paid" THEN quotes
               ELSE [quotes EXCEPT ![i].status = "paid", ![i].charge = c]

\* The page reports the hash it keeps; the answer may not be heard.
ObserveFee(t) ==
  /\ tabs[t].hash # 0 /\ tabs[t].fee = "quoted"
  /\ MarkPaid(tabs[t].quote, tabs[t].hash)
  /\ \E heard \in BOOLEAN : SetTab(t, [tabs[t] EXCEPT !.fee = IF heard THEN "paid" ELSE @])
  /\ UNCHANGED <<deadline, charges, row, provider, requests, lost>>

\* The same endpoint called with the hash of any charge.
ReportCharge(i, c) ==
  /\ MarkPaid(i, c)
  /\ UNCHANGED <<deadline, charges, row, provider, tabs, requests, lost>>

FeeStep ==
  \/ \E t \in Tabs : \/ GetQuote(t) \/ SendCharge(t) \/ ChargeAnswered(t)
                     \/ ChargeTimesOut(t) \/ ObserveFee(t)
  \/ \E i \in DOMAIN quotes : QuoteFallsDue(i) \/ \E c \in DOMAIN charges : ReportCharge(i, c)
  \/ \E c \in DOMAIN charges : MineCharge(c)
  \/ ChargeOther

-----------------------------------------------------------------------------
(* The page and the deadline.                                              *)

\* GET current fee and deployment; a row without Circle's identifiers is not found.
Loaded(tab, i) ==
  [tab EXCEPT
     !.quote = IF i = 0 THEN @ ELSE i,
     !.fee = IF i = 0 THEN @ ELSE quotes[i].status,
     !.deployment = IF row.contract = 0 THEN @
                    ELSE IF row.status \in Final THEN "settled" ELSE "under way"]

\* The first load, a reload, or a renewed session in the same page.
LoadPage(t) ==
  /\ \E tab \in {tabs[t], NewTab} : \E i \in 0..Len(quotes) :
       /\ IF \E j \in DOMAIN quotes : Reusable(j) THEN i # 0 /\ Reusable(i) ELSE i = 0
       /\ SetTab(t, Loaded(tab, i))
  /\ UNCHANGED <<deadline, fees, row, provider, requests, lost>>

\* Bug variant: the deadline is locked only while the deployment is under way.
CanEditDeadlineAfter == row.status \notin {"accepted", "pending"}

\* The trigger keeps the deadline of a program equal to its deployment's.
CanEditDeadline == row.status \in {"none", "failed"}

EditDeadline ==
  /\ CanEditDeadline
  /\ deadline < MaxDeadlines
  /\ deadline' = deadline + 1
  /\ UNCHANGED <<fees, row, provider, tabs, requests, lost>>

-----------------------------------------------------------------------------
(* A deploy request.                                                       *)

\* The page shows the button unless it believes a deployment is under way.
Offers(t) == tabs[t].fee = "paid" /\ tabs[t].call = {} /\ tabs[t].deployment = "none"

StartDeploy(q, t) ==
  /\ requests[q].at = "idle"
  /\ Offers(t)
  /\ requests' = [requests EXCEPT ![q] = [Idle EXCEPT !.at = "create", !.deadline = deadline]]
  /\ SetTab(t, [tabs[t] EXCEPT !.call = {q}])
  /\ UNCHANGED <<deadline, fees, row, provider, lost>>

GoOn(q, stage, key) ==
  /\ requests' = [requests EXCEPT ![q].at = stage, ![q].key = key]
  /\ UNCHANGED tabs

\* The answer, an error or the final status of the row; a page reloaded since
\* does not wait for it.
Ends(q, shows) ==
  /\ requests' = [requests EXCEPT ![q] = Idle]
  /\ tabs' = [t \in Tabs |->
                IF tabs[t].call = {q}
                THEN [tabs[t] EXCEPT !.call = {},
                        !.deployment = IF shows = "nothing" THEN tabs[t].deployment ELSE shows]
                ELSE tabs[t]]

\* Bug variant: the row is only ever inserted, a repeated request finds it taken.
CanCreateOnce(q) == FeePaid /\ requests[q].deadline = deadline /\ row.status = "none"

\* The parameters of the row are the request's.
CanCreate(q) ==
  /\ FeePaid
  /\ requests[q].deadline = deadline
  /\ row.status # "none" => row.deadline = deadline

\* create_escrow_deployment_server_atomic inserts the row once; the request goes
\* on where the row stands.
CreateRecord(q) ==
  /\ requests[q].at = "create"
  /\ \/ /\ CanCreate(q)
        /\ row' = IF row.status = "none"
                  THEN [NoRow EXCEPT !.status = "accepted", !.key = 1, !.deadline = deadline]
                  ELSE row
        /\ \/ row.status \in Final /\ Ends(q, "settled")
           \/ row.status \notin Final /\ row.contract # 0 /\ GoOn(q, "wait", row.contract)
           \/ row.status \notin Final /\ row.contract = 0 /\ GoOn(q, "submit", row'.key)
     \/ ~CanCreate(q) /\ Ends(q, "nothing") /\ UNCHANGED row
  /\ UNCHANGED <<deadline, fees, provider, lost>>

\* Bug variant: any error of the first attempt earns another key.
EarnsKeyAnyway(answer, key) == answer # "accepted" /\ key < 2

\* Only a refused first attempt earns another key.
EarnsKey(answer, key) == answer = "refused" /\ key < 2

\* Circle takes a key it has not accepted yet, or refuses the request; a key it
\* has accepted names the operation it started.
Submit(q) ==
  /\ requests[q].at = "submit"
  /\ LET k == requests[q].key IN
     \E answer \in {"accepted", "refused", "unheard"} :
       /\ \/ /\ answer # "refused"
             /\ circle' = IF circle[k].state # "new" THEN circle
                          ELSE [circle EXCEPT ![k].state = "working",
                                              ![k].deadline = requests[q].deadline]
          \/ /\ answer = "refused" /\ circle[k].state = "new"
             /\ circle' = [circle EXCEPT ![k].refused = TRUE]
       /\ answer = "unheard" => lost < MaxLost
       /\ lost' = IF answer = "unheard" THEN lost + 1 ELSE lost
       /\ \/ answer = "accepted" /\ GoOn(q, "store", k)
          \/ EarnsKey(answer, k) /\ GoOn(q, "rotate", k)
          \/ answer # "accepted" /\ ~EarnsKey(answer, k) /\ Ends(q, "nothing")
  /\ UNCHANGED <<deadline, fees, row, registration>>

\* Bug variant: only the number of attempts is compared.
CanRotateStored == row.key < 2

CanRotate == row.status = "accepted" /\ row.contract = 0 /\ row.key < 2

\* rotate_escrow_deployment_idempotency_key_atomic.
Rotate(q) ==
  /\ requests[q].at = "rotate"
  /\ \/ CanRotate /\ row' = [row EXCEPT !.key = row.key + 1] /\ GoOn(q, "submit", row.key + 1)
     \/ ~CanRotate /\ Ends(q, "nothing") /\ UNCHANGED row
  /\ UNCHANGED <<deadline, fees, provider, lost>>

\* storeCircleDeploymentIdentifiers: the first identifiers stay.
Store(q) ==
  /\ requests[q].at = "store"
  /\ LET k == requests[q].key IN
     \/ /\ row.status = "accepted"
        /\ row' = [row EXCEPT !.contract = k, !.status = "pending"]
        /\ GoOn(q, "wait", k)
     \/ row.status # "accepted" /\ row.contract = k /\ GoOn(q, "wait", k) /\ UNCHANGED row
     \/ row.status # "accepted" /\ row.contract # k /\ Ends(q, "nothing") /\ UNCHANGED row
  /\ UNCHANGED <<deadline, fees, provider, lost>>

\* waitForDeployment, failDeployment and verifyDeployment.
Wait(q) ==
  /\ requests[q].at = "wait"
  /\ LET k == requests[q].key IN
     \/ /\ circle[k].state = "failed"
        /\ row' = IF row.status \in Final THEN row ELSE [row EXCEPT !.status = "failed"]
        /\ Ends(q, "settled")
     \/ /\ circle[k].state = "complete"
        /\ IF circle[k].deadline = requests[q].deadline THEN GoOn(q, "register", k) ELSE Ends(q, "nothing")
        /\ UNCHANGED row
  /\ UNCHANGED <<deadline, fees, provider, lost>>

\* One transaction per deployment: its idempotency key is the deployment's id.
Register(q) ==
  /\ requests[q].at = "register"
  /\ registration' = IF registration.state # "none" THEN registration
                     ELSE [state |-> "working", contract |-> requests[q].key]
  /\ GoOn(q, "await registration", requests[q].key)
  /\ UNCHANGED <<deadline, fees, row, circle, lost>>

Registered(q) ==
  /\ requests[q].at = "await registration"
  /\ \/ registration.state = "complete" /\ GoOn(q, "confirm", requests[q].key)
     \/ registration.state = "failed" /\ Ends(q, "nothing")
  /\ UNCHANGED <<deadline, fees, row, provider, lost>>

CanConfirm(k) ==
  /\ row.deadline = deadline
  /\ \/ row.status = "pending"
     \/ row.status = "confirmed" /\ row.address = k

\* confirm_escrow_deployment_atomic.
Confirm(q) ==
  /\ requests[q].at = "confirm"
  /\ \/ /\ CanConfirm(requests[q].key)
        /\ row' = [row EXCEPT !.status = "confirmed", !.address = requests[q].key]
        /\ Ends(q, "settled")
     \/ ~CanConfirm(requests[q].key) /\ Ends(q, "nothing") /\ UNCHANGED row
  /\ UNCHANGED <<deadline, fees, provider, lost>>

\* The process stops, a poll runs out of time, or Circle does not answer.
LoseRequest(q) ==
  /\ requests[q].at # "idle"
  /\ lost < MaxLost
  /\ lost' = lost + 1
  /\ Ends(q, "nothing")
  /\ UNCHANGED <<deadline, fees, row, provider>>

RequestStep(q) ==
  \/ CreateRecord(q) \/ Submit(q) \/ Rotate(q) \/ Store(q) \/ Wait(q)
  \/ Register(q) \/ Registered(q) \/ Confirm(q)

-----------------------------------------------------------------------------
(* Circle and Arc.                                                         *)

FinishDeployment(k) ==
  /\ circle[k].state = "working"
  /\ \E outcome \in {"complete", "failed"} : circle' = [circle EXCEPT ![k].state = outcome]
  /\ UNCHANGED <<deadline, fees, row, registration, tabs, requests, lost>>

FinishRegistration ==
  /\ registration.state = "working"
  /\ \E outcome \in {"complete", "failed"} : registration' = [registration EXCEPT !.state = outcome]
  /\ UNCHANGED <<deadline, fees, row, circle, tabs, requests, lost>>

CircleStep == (\E k \in Keys : FinishDeployment(k)) \/ FinishRegistration

Next ==
  \/ FeeStep
  \/ \E t \in Tabs : LoadPage(t)
  \/ EditDeadline
  \/ \E q \in Requests : RequestStep(q) \/ LoseRequest(q) \/ \E t \in Tabs : StartDeploy(q, t)
  \/ CircleStep

Spec == Init /\ [][Next]_vars

\* A running request reaches its answer, Circle finishes what it took, and an
\* owner whose page offers the button presses it; one whose page does not show
\* the fee as paid looks again.
FairSpec ==
  /\ Spec
  /\ \A q \in Requests : WF_vars(RequestStep(q))
  /\ WF_vars(CircleStep)
  /\ WF_vars(\E q \in Requests, t \in Tabs : StartDeploy(q, t))
  /\ \A t \in Tabs : WF_vars(tabs[t].fee # "paid" /\ LoadPage(t))

\* With a wallet, a chain and a page that report a charge while they can.
FeeFairSpec ==
  /\ FairSpec
  /\ \A c \in 1..MaxCharges : WF_vars(c \in DOMAIN charges /\ MineCharge(c))
  /\ \A t \in Tabs : WF_vars(GetQuote(t)) /\ WF_vars(ChargeAnswered(t)) /\ WF_vars(ObserveFee(t))

-----------------------------------------------------------------------------
(***************************************************************************)
(* Correctness                                                             *)
(***************************************************************************)
Charge == [program : {"this", "other"}, state : {"sent", "success", "reverted"}]

QuoteRow == [status : {"quoted", "paid", "expired"}, due : BOOLEAN, charge : 0..MaxCharges]

DeploymentRow == [status : {"none", "accepted", "pending"} \cup Final, key : 0..2,
                  deadline : 0..MaxDeadlines, contract : 0..2, address : 0..2]

Stages == {"idle", "create", "submit", "rotate", "store", "wait", "register",
           "await registration", "confirm"}

Calls == {{}} \cup {{q} : q \in Requests}

Page == [quote : 0..MaxQuotes, fee : {"none", "quoted", "paid", "expired"},
         waits : 0..MaxCharges, hash : 0..MaxCharges,
         deployment : {"none", "under way", "settled"},
         call : Calls]

\* Rows, pages and requests keep their types, and pages name what exists.
TypeOK ==
  /\ deadline \in 1..MaxDeadlines
  /\ quotes \in Seq(QuoteRow) /\ Len(quotes) <= MaxQuotes
  /\ charges \in Seq(Charge) /\ Len(charges) <= MaxCharges
  /\ row \in DeploymentRow
  /\ circle \in [Keys -> [state : {"new", "working", "complete", "failed"},
                          refused : BOOLEAN, deadline : 0..MaxDeadlines]]
  /\ registration \in [state : {"none", "working", "complete", "failed"}, contract : 0..2]
  /\ tabs \in [Tabs -> Page]
  /\ \A t \in Tabs : tabs[t].quote <= Len(quotes) /\ {tabs[t].waits, tabs[t].hash} \subseteq 0..Len(charges)
  /\ requests \in [Requests -> [at : Stages, key : 0..2, deadline : 0..MaxDeadlines]]
  /\ lost \in 0..MaxLost

Deployed == {k \in Keys : circle[k].state # "new"}

\* A second contract takes a refused first attempt: no lost answer, repeated
\* call or second page alone makes Circle deploy the program's escrow twice.
SecondNeedsRefusal == Cardinality(Deployed) > 1 => circle[1].refused

\* A quote is paid on evidence: a charge that succeeded, of this program or another.
Evidenced(i) == quotes[i].status = "paid" /\ quotes[i].charge \in DOMAIN charges /\ Evident(quotes[i].charge)

FeeEvidenced == \E i \in DOMAIN quotes : Evidenced(i)

\* A confirmed escrow is the contract Circle finished under the row's own
\* identifiers, registered with the controller and locked until the program's
\* present deadline, and there is a quote paid on the evidence of some charge the
\* controller took.  That the charge was this program's is not said: see
\* PaidWasCharged.
ConfirmedIsSound ==
  row.status = "confirmed" =>
    /\ row.address = row.contract
    /\ circle[row.contract] \in [state : {"complete"}, refused : BOOLEAN, deadline : {deadline}]
    /\ registration = [state |-> "complete", contract |-> row.contract]
    /\ FeeEvidenced

\* Once Circle's identifiers are recorded they and the key are locked, and a
\* settled deployment stays as it is.
IdentifiersKept ==
  [][/\ row.contract # 0 => row'.contract = row.contract /\ row'.key = row.key
     /\ row.status \in Final => row' = row]_vars

Settled == row.status \in Final

\* What leaves a deployment where it is: Circle refused the second key too, the
\* one registration failed, or a page was reloaded while Circle was working, no
\* page offers to go on and no request is running.
Abandoned ==
  \/ circle[2].refused
  \/ registration.state = "failed"
  \/ /\ \E t \in Tabs : tabs[t].deployment = "under way"
     /\ \A t \in Tabs : ~Offers(t)
     /\ \A q \in Requests : requests[q].at = "idle"

\* A deployment that was started is confirmed or failed in the end, however
\* often its requests stop and are repeated.
DeploymentSettles == row.status # "none" ~> Settled \/ Abandoned

\* Retrying never makes Circle deploy a second contract (docs: "khong duoc tao
\* contract thu hai").
OneContract == Cardinality(Deployed) <= 1

\* A deployment Circle has accepted is resumed from the server's record after a
\* reload (the page's own comment), unless its registration failed.
AcceptedResumes == row.status = "pending" ~> Settled \/ registration.state = "failed"

\* The fee is the program's own: a program shown as paid was charged (docs: the
\* backend checks that the transaction pays this quote).
PaidWasCharged == FeePaid => Charged

\* A fee that was charged is recorded in the end.
ChargeRecorded == Charged ~> FeePaid
=============================================================================
