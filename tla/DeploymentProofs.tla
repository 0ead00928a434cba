-------------------------- MODULE DeploymentProofs --------------------------
(***************************************************************************)
(* Proofs about Deployment, for any number of pages, requests, quotes,     *)
(* charges and deadlines: the types, that a second contract takes a        *)
(* refusal, that a confirmed escrow is sound, and that identifiers stay.   *)
(***************************************************************************)
EXTENDS Deployment, FiniteSetTheorems, TLAPS

-----------------------------------------------------------------------------
(***************************************************************************)
(* The inductive invariant                                                 *)
(***************************************************************************)
\* The row: numbered keys, a fee with evidence, and identifiers from `pending' on.
RowSound ==
  /\ row.status # "none" => row.key \in Keys /\ FeeEvidenced
  /\ row.contract # 0 <=> row.status \in {"pending"} \cup Final
  /\ row.status = "confirmed" => row.deadline = deadline

\* A paid quote has its evidence, and a page only keeps the hash of a charge that
\* succeeded.
FeesSound ==
  /\ \A i \in DOMAIN quotes : quotes[i].status = "paid" => Evidenced(i)
  /\ \A t \in Tabs : tabs[t].hash # 0 => charges[tabs[t].hash].state = "success"

\* A second key is only known after Circle refused the first.
KeysSound ==
  /\ row.key = 2 \/ row.contract = 2 \/ circle[2].state # "new" => circle[1].refused
  /\ \A q \in Requests : requests[q].key = 2 => circle[1].refused

Confirming == {"register", "await registration", "confirm"}

Identified == {"wait", "register", "await registration", "confirm"}

\* What a running request found on its way.
RequestSound(r) ==
  /\ r.at \notin {"idle", "create"} =>
       r.key \in Keys /\ row.status # "none" /\ r.deadline = row.deadline
  /\ r.at = "rotate" => circle[1].refused
  /\ r.at \in Identified => row.contract = r.key
  /\ r.at \in Confirming => circle[r.key].state = "complete" /\ circle[r.key].deadline = r.deadline
  /\ r.at \in {"await registration", "confirm"} => registration.state # "none"
  /\ r.at = "confirm" => registration.state = "complete"

RegistrationSound ==
  registration.state # "none" => row.contract # 0 /\ registration.contract = row.contract

DeploymentInv ==
  /\ TypeOK /\ RowSound /\ FeesSound /\ KeysSound /\ RegistrationSound
  /\ \A q \in Requests : RequestSound(requests[q])
  /\ ConfirmedIsSound

\* It holds at first.
LEMMA InitInv == Init => DeploymentInv
<1> SUFFICES ASSUME Init PROVE DeploymentInv
  OBVIOUS
<1> USE DeploymentConstants DEF Init, Idle, NewTab, NoRow, Keys, Final
<1>1. TypeOK
  BY DEF TypeOK, QuoteRow, DeploymentRow, Stages, Page, Calls
<1>2. RowSound /\ FeesSound /\ KeysSound /\ RegistrationSound /\ ConfirmedIsSound
  BY DEF RowSound, FeesSound, KeysSound, RegistrationSound, ConfirmedIsSound
<1>3. \A q \in Requests : RequestSound(requests[q])
  BY DEF RequestSound, Confirming
<1> QED
  BY <1>1, <1>2, <1>3 DEF DeploymentInv

-----------------------------------------------------------------------------
(***************************************************************************)
(* The fee, the page and the deadline                                      *)
(***************************************************************************)
\* What only moves quotes, charges and pages keeps the invariant when it keeps
\* the types and the evidence, and quotes and pages claim no charge that is not
\* there.
LEMMA FeeFrame ==
  ASSUME DeploymentInv, TypeOK', UNCHANGED <<deadline, row, provider, requests>>,
         FeeEvidenced => FeeEvidenced', FeesSound'
  PROVE  DeploymentInv'
<1> USE DEF DeploymentInv, provider
<1>1. RowSound' /\ KeysSound' /\ RegistrationSound' /\ ConfirmedIsSound'
  BY DEF RowSound, KeysSound, RegistrationSound, ConfirmedIsSound
<1>2. \A q \in Requests : RequestSound(requests[q])'
  BY DEF RequestSound
<1> QED
  BY <1>1, <1>2

\* Evidence is never lost: quotes stay paid on what they were paid on, and a
\* charge that succeeded stays.
LEMMA EvidenceKept ==
  ASSUME \A c \in DOMAIN charges : charges[c].state = "success" =>
           c \in DOMAIN charges' /\ charges'[c].state = "success",
         \A i \in DOMAIN quotes : quotes[i].status = "paid" =>
           i \in DOMAIN quotes' /\ quotes'[i].status = "paid" /\ quotes'[i].charge = quotes[i].charge
  PROVE  /\ \A i \in DOMAIN quotes : Evidenced(i) => i \in DOMAIN quotes' /\ Evidenced(i)'
         /\ FeeEvidenced => FeeEvidenced'
<1>1. \A i \in DOMAIN quotes : Evidenced(i) => i \in DOMAIN quotes' /\ Evidenced(i)'
  BY DEF Evidenced, Evident
<1> QED
  BY <1>1 DEF FeeEvidenced

\* The bounds are numbers.
LEMMA BoundsAreNumbers ==
  MaxQuotes \in Nat /\ MaxCharges \in Nat /\ MaxLost \in Nat /\ MaxDeadlines \in Nat
BY DeploymentConstants

\* The fields of a page, and pages with new fields.
LEMMA PageFields ==
  ASSUME NEW p \in Page
  PROVE  /\ p.quote \in 0..MaxQuotes /\ p.waits \in 0..MaxCharges /\ p.hash \in 0..MaxCharges
         /\ p.quote \in Nat /\ p.waits \in Nat /\ p.hash \in Nat
         /\ p.call \in Calls /\ p.deployment \in {"none", "under way", "settled"}
         /\ p.fee \in {"none", "quoted", "paid", "expired"}
<1>1. p.quote \in 0..MaxQuotes /\ p.waits \in 0..MaxCharges /\ p.hash \in 0..MaxCharges
  BY DEF Page
<1>2. p.call \in Calls /\ p.deployment \in {"none", "under way", "settled"}
  BY DEF Page
<1>3. p.fee \in {"none", "quoted", "paid", "expired"}
  BY DEF Page
<1>4. \A n \in Nat : 0..n \subseteq Nat
  OBVIOUS
<1>5. p.quote \in Nat /\ p.waits \in Nat /\ p.hash \in Nat
  BY <1>1, <1>4, BoundsAreNumbers
<1> QED
  BY <1>1, <1>2, <1>3, <1>5

\* A page with another fee, charge or hash is a page.
LEMMA PageFee ==
  ASSUME NEW p \in Page, NEW i \in 0..MaxQuotes, NEW h \in 0..MaxCharges, NEW w \in 0..MaxCharges,
         NEW status \in {"quoted", "paid", "expired"}
  PROVE  /\ [p EXCEPT !.quote = i, !.fee = status, !.hash = h] \in Page
         /\ [p EXCEPT !.waits = w] \in Page
         /\ [p EXCEPT !.waits = w, !.hash = h] \in Page
BY DEF Page

\* Changing one page.
LEMMA PageTyped ==
  ASSUME TypeOK, NEW t \in Tabs, NEW tab \in Page, SetTab(t, tab),
         quotes' \in Seq(QuoteRow), charges' \in Seq(Charge),
         Len(quotes) <= Len(quotes'), Len(quotes') <= MaxQuotes,
         Len(charges) <= Len(charges'), Len(charges') <= MaxCharges,
         tab.quote <= Len(quotes'), {tab.waits, tab.hash} \subseteq 0..Len(charges'),
         UNCHANGED <<deadline, row, provider, requests, lost>>
  PROVE  TypeOK'
<1> USE DEF provider
<1>1. tabs' \in [Tabs -> Page]
  BY DEF TypeOK, SetTab
<1>2. \A u \in Tabs : tabs'[u].quote <= Len(quotes') /\ {tabs'[u].waits, tabs'[u].hash} \subseteq 0..Len(charges')
  <2> SUFFICES ASSUME NEW u \in Tabs
               PROVE  tabs'[u].quote <= Len(quotes') /\ {tabs'[u].waits, tabs'[u].hash} \subseteq 0..Len(charges')
    OBVIOUS
  <2>1. CASE u = t
    BY <2>1 DEF TypeOK, SetTab
  <2>2. CASE u # t
    <3>1. tabs'[u] = tabs[u] /\ tabs[u] \in Page
      BY <2>2 DEF TypeOK, SetTab
    <3>2. tabs[u].quote <= Len(quotes) /\ tabs[u].waits \in 0..Len(charges) /\ tabs[u].hash \in 0..Len(charges)
      BY DEF TypeOK
    <3>3. {Len(quotes), Len(quotes'), Len(charges), Len(charges')} \subseteq Nat
      BY DEF TypeOK
    <3>4. tabs[u].quote \in Nat
      BY <3>1, PageFields
    <3> QED
      BY <3>1, <3>2, <3>3, <3>4
  <2> QED
    BY <2>1, <2>2
<1> QED
  BY <1>1, <1>2 DEF TypeOK

\* Asking for a quote keeps the invariant.
LEMMA GetQuoteInv == ASSUME DeploymentInv, NEW t \in Tabs, GetQuote(t) PROVE DeploymentInv'
<1> USE DeploymentConstants DEF DeploymentInv
<1> DEFINE expired == [i \in DOMAIN quotes |->
                         IF Reusable(i) THEN quotes[i] ELSE [quotes[i] EXCEPT !.status = "expired"]]
           open == {i \in DOMAIN quotes : Reusable(i)}
           shown(i, status) == [tabs[t] EXCEPT !.quote = i, !.fee = status, !.hash = 0]
           PaidAsBefore ==
             /\ \A i \in DOMAIN quotes' : quotes'[i].status = "paid" =>
                  i \in DOMAIN quotes /\ quotes[i].status = "paid"
             /\ \A i \in DOMAIN quotes : quotes[i].status = "paid" =>
                  i \in DOMAIN quotes' /\ quotes'[i].status = "paid" /\ quotes'[i].charge = quotes[i].charge
<1>1. UNCHANGED <<deadline, charges, row, provider, requests, lost>>
  BY DEF GetQuote
<1>2. expired \in Seq(QuoteRow) /\ Len(expired) = Len(quotes) /\ DOMAIN expired = DOMAIN quotes
  <2>1. ASSUME NEW i \in 1..Len(quotes) PROVE expired[i] \in QuoteRow
    <3>1. quotes[i] \in QuoteRow /\ DOMAIN quotes = 1..Len(quotes)
      BY DEF TypeOK
    <3>2. [quotes[i] EXCEPT !.status = "expired"] \in QuoteRow
      BY <3>1 DEF QuoteRow
    <3> QED
      BY <3>1, <3>2
  <2>2. DOMAIN quotes = 1..Len(quotes) /\ Len(quotes) \in Nat
    BY DEF TypeOK
  <2>3. expired \in [1..Len(quotes) -> QuoteRow]
    BY <2>1, <2>2
  <2> QED
    BY <2>2, <2>3
<1>3. tabs[t] \in Page /\ charges \in Seq(Charge) /\ tabs[t].waits \in 0..Len(charges)
  BY DEF TypeOK
<1>4. \A i \in DOMAIN quotes : /\ expired[i].status = "paid" => quotes[i].status = "paid"
                               /\ quotes[i].status = "paid" => expired[i] = quotes[i]
  BY DEF TypeOK, QuoteRow, Reusable
<1> HIDE DEF expired
<1>5. UNCHANGED <<deadline, row, provider, requests, lost>>
  BY <1>1
<1>6. /\ charges' \in Seq(Charge) /\ Len(charges') = Len(charges)
      /\ Len(charges) <= MaxCharges /\ Len(charges) \in Nat /\ Len(quotes) \in Nat
      /\ Len(quotes) <= MaxQuotes /\ 0 \in 0..MaxCharges
  BY <1>1, BoundsAreNumbers DEF TypeOK
<1>7. ASSUME NEW i \in 0..MaxQuotes, NEW status \in {"quoted", "paid", "expired"},
             SetTab(t, shown(i, status)), quotes' \in Seq(QuoteRow), i <= Len(quotes'),
             Len(quotes) <= Len(quotes'), Len(quotes') <= MaxQuotes, PaidAsBefore
      PROVE  DeploymentInv'
  <2> DEFINE tab == shown(i, status)
  <2>1. tab \in Page /\ tab.quote = i /\ tab.waits = tabs[t].waits /\ tab.hash = 0
    BY <1>3, <1>6, PageFee DEF Page
  <2>2. SetTab(t, tab)
    BY <1>7
  <2> HIDE DEF tab
  <2>3. tab.quote <= Len(quotes') /\ {tab.waits, tab.hash} \subseteq 0..Len(charges')
    BY <1>3, <1>6, <1>7, <2>1
  <2>4. TypeOK'
    BY <1>5, <1>6, <1>7, <2>1, <2>2, <2>3, PageTyped
  <2>5. /\ \A j \in DOMAIN quotes : Evidenced(j) => j \in DOMAIN quotes' /\ Evidenced(j)'
        /\ FeeEvidenced => FeeEvidenced'
    BY <1>1, <1>7, EvidenceKept
  <2>6. \A j \in DOMAIN quotes' : quotes'[j].status = "paid" => Evidenced(j)'
    BY <1>7, <2>5 DEF FeesSound
  <2>7. \A u \in Tabs : tabs'[u].hash # 0 => charges'[tabs'[u].hash].state = "success"
    BY <1>1, <2>1, <2>2 DEF FeesSound, SetTab, TypeOK
  <2>8. FeesSound'
    BY <2>6, <2>7 DEF FeesSound
  <2> QED
    BY <1>1, <2>4, <2>5, <2>8, FeeFrame
<1> HIDE DEF shown
<1>8. CASE /\ Len(quotes) < MaxQuotes
           /\ quotes' = Append(expired, NewQuote)
           /\ SetTab(t, shown(Len(quotes) + 1, "quoted"))
  <2>1. /\ quotes' \in Seq(QuoteRow) /\ Len(quotes') = Len(quotes) + 1
        /\ Len(quotes) + 1 \in 0..MaxQuotes
    BY <1>2, <1>6, <1>8, BoundsAreNumbers DEF NewQuote, QuoteRow
  <2>2. PaidAsBefore
    <3>1. /\ DOMAIN quotes' = 1..(Len(quotes) + 1) /\ DOMAIN quotes = 1..Len(quotes)
          /\ quotes'[Len(quotes) + 1].status = "quoted"
          /\ \A i \in DOMAIN quotes : quotes'[i] = expired[i]
      BY <1>2, <1>6, <1>8, <2>1 DEF NewQuote
    <3>2. \A i \in DOMAIN quotes' : i = Len(quotes) + 1 \/ i \in DOMAIN quotes
      BY <1>6, <3>1
    <3>3. \A i \in DOMAIN quotes : i \in DOMAIN quotes'
      BY <1>6, <3>1
    <3> QED
      BY <1>4, <3>1, <3>2, <3>3
  <2> QED
    <3>1. Len(quotes) + 1 <= Len(quotes') /\ Len(quotes) <= Len(quotes') /\ Len(quotes') <= MaxQuotes
      BY <1>6, <2>1, BoundsAreNumbers
    <3> QED
      BY <1>7, <1>8, <2>1, <2>2, <3>1
<1>9. ASSUME NEW i \in open, quotes' = expired, SetTab(t, shown(i, quotes[i].status))
      PROVE  DeploymentInv'
  <2>1. i \in 0..MaxQuotes /\ i <= Len(quotes') /\ Len(quotes') = Len(quotes) /\ quotes' \in Seq(QuoteRow)
    BY <1>2, <1>6, <1>9 DEF TypeOK
  <2>2. quotes[i].status \in {"quoted", "paid", "expired"}
    <3>1. quotes[i] \in QuoteRow
      BY DEF TypeOK
    <3> QED
      BY <3>1 DEF QuoteRow
  <2>3. PaidAsBefore
    <3>1. DOMAIN quotes' = DOMAIN quotes /\ \A j \in DOMAIN quotes : quotes'[j] = expired[j]
      BY <1>2, <1>9
    <3> QED
      BY <1>4, <3>1
  <2> QED
    <3>1. Len(quotes) <= Len(quotes') /\ Len(quotes') <= MaxQuotes
      BY <1>6, <2>1
    <3> QED
      BY <1>7, <1>9, <2>1, <2>2, <2>3, <3>1
<1> QED
  BY <1>8, <1>9 DEF GetQuote, expired, shown

\* A quote that falls due keeps the invariant.
LEMMA QuoteFallsDueInv ==
  ASSUME DeploymentInv, NEW i \in DOMAIN quotes, QuoteFallsDue(i) PROVE DeploymentInv'
<1> USE DEF DeploymentInv
<1>1. /\ UNCHANGED <<deadline, charges, row, provider, tabs, requests, lost>>
      /\ quotes' = [quotes EXCEPT ![i].due = TRUE]
  BY DEF QuoteFallsDue
<1>2. quotes' \in Seq(QuoteRow) /\ Len(quotes') = Len(quotes) /\ DOMAIN quotes' = DOMAIN quotes
  <2> DEFINE quote == [quotes[i] EXCEPT !.due = TRUE]
  <2>1. quotes[i] \in QuoteRow
    BY DEF TypeOK
  <2>2. quote \in QuoteRow /\ quotes' = [quotes EXCEPT ![i] = quote]
    BY <1>1, <2>1 DEF QuoteRow
  <2> HIDE DEF quote
  <2> QED
    BY <2>2 DEF TypeOK
<1>3. \A j \in DOMAIN quotes : quotes'[j].status = quotes[j].status /\ quotes'[j].charge = quotes[j].charge
  BY <1>1 DEF TypeOK, QuoteRow
<1>4. TypeOK'
  BY <1>1, <1>2 DEF TypeOK, provider
<1>5. /\ \A j \in DOMAIN quotes : Evidenced(j) => Evidenced(j)'
      /\ FeeEvidenced => FeeEvidenced'
  BY <1>1, <1>2, <1>3, EvidenceKept
<1>6. FeesSound'
  BY <1>1, <1>2, <1>3, <1>5 DEF FeesSound
<1> QED
  BY <1>1, <1>4, <1>5, <1>6, FeeFrame

\* Sending a charge keeps the invariant.
LEMMA SendChargeInv == ASSUME DeploymentInv, NEW t \in Tabs, SendCharge(t) PROVE DeploymentInv'
<1> USE DeploymentConstants DEF DeploymentInv
<1> DEFINE tab == [tabs[t] EXCEPT !.waits = Len(charges) + 1]
<1>1. /\ UNCHANGED <<deadline, quotes, row, provider, requests, lost>>
      /\ charges' = Append(charges, [program |-> "this", state |-> "sent"])
      /\ Len(charges) < MaxCharges /\ SetTab(t, tab)
  BY DEF SendCharge
<1>2. /\ charges' \in Seq(Charge) /\ Len(charges') = Len(charges) + 1
      /\ Len(charges) \in Nat /\ Len(charges) + 1 \in 0..MaxCharges
      /\ \A c \in DOMAIN charges : c \in DOMAIN charges' /\ charges'[c] = charges[c]
  BY <1>1 DEF TypeOK, Charge
<1>3. /\ tabs[t] \in Page /\ tabs[t].quote <= Len(quotes) /\ tabs[t].hash \in 0..Len(charges)
      /\ quotes \in Seq(QuoteRow) /\ Len(quotes) <= MaxQuotes /\ Len(quotes) \in Nat
  BY DEF TypeOK
<1>4. tab \in Page /\ tab.quote = tabs[t].quote /\ tab.hash = tabs[t].hash /\ tab.waits = Len(charges) + 1
  BY <1>2, <1>3, PageFee DEF Page
<1> HIDE DEF tab
<1>5. TypeOK'
  <2>1. UNCHANGED <<deadline, row, provider, requests, lost>> /\ quotes' = quotes
    BY <1>1
  <2>2. tab.quote <= Len(quotes') /\ {tab.waits, tab.hash} \subseteq 0..Len(charges')
    BY <1>2, <1>3, <1>4, <2>1
  <2>3. Len(charges) <= Len(charges') /\ Len(charges') <= MaxCharges /\ SetTab(t, tab)
    BY <1>1, <1>2
  <2> QED
    BY <1>2, <1>3, <1>4, <2>1, <2>2, <2>3, PageTyped
<1>6. /\ \A j \in DOMAIN quotes : Evidenced(j) => Evidenced(j)'
      /\ FeeEvidenced => FeeEvidenced'
  BY <1>1, <1>2, EvidenceKept
<1>7. \A u \in Tabs : tabs'[u].hash = tabs[u].hash /\ tabs[u].hash \in 0..Len(charges)
  BY <1>1, <1>3, <1>4 DEF SetTab, TypeOK
<1>8. FeesSound'
  BY <1>1, <1>2, <1>6, <1>7 DEF FeesSound
<1> QED
  BY <1>1, <1>5, <1>6, <1>8, FeeFrame

\* Mining a charge keeps the invariant.
LEMMA MineChargeInv ==
  ASSUME DeploymentInv, NEW c \in DOMAIN charges, MineCharge(c) PROVE DeploymentInv'
<1> USE DEF DeploymentInv
<1>1. /\ UNCHANGED <<deadline, quotes, row, provider, tabs, requests, lost>> /\ charges[c].state = "sent"
      /\ charges' = [charges EXCEPT ![c].state = IF Charged THEN "reverted" ELSE "success"]
  BY DEF MineCharge
<1>2. /\ charges' \in Seq(Charge) /\ Len(charges') = Len(charges)
      /\ DOMAIN charges' = DOMAIN charges
      /\ \A d \in DOMAIN charges : charges[d].state = "success" => charges'[d].state = "success"
  <2> DEFINE mined == [charges[c] EXCEPT !.state = IF Charged THEN "reverted" ELSE "success"]
  <2>1. charges \in Seq(Charge) /\ charges[c] \in Charge
    BY DEF TypeOK
  <2>2. mined \in Charge /\ charges' = [charges EXCEPT ![c] = mined]
    BY <1>1, <2>1 DEF Charge
  <2> HIDE DEF mined
  <2> QED
    BY <1>1, <2>1, <2>2
<1>3. TypeOK'
  BY <1>1, <1>2 DEF TypeOK, provider
<1>4. /\ \A j \in DOMAIN quotes : Evidenced(j) => Evidenced(j)'
      /\ FeeEvidenced => FeeEvidenced'
  BY <1>1, <1>2, EvidenceKept
<1>5. \A u \in Tabs : tabs[u].hash # 0 => tabs[u].hash \in DOMAIN charges
  BY DEF TypeOK
<1>6. FeesSound'
  BY <1>1, <1>2, <1>4, <1>5 DEF FeesSound
<1> QED
  BY <1>1, <1>3, <1>4, <1>6, FeeFrame

\* Charging another program keeps the invariant.
LEMMA ChargeOtherInv == ASSUME DeploymentInv, ChargeOther PROVE DeploymentInv'
<1> USE DEF DeploymentInv
<1>1. /\ UNCHANGED <<deadline, quotes, row, provider, tabs, requests, lost>>
      /\ charges' = Append(charges, [program |-> "other", state |-> "success"])
      /\ Len(charges) < MaxCharges
  BY DEF ChargeOther
<1>2. /\ charges' \in Seq(Charge) /\ Len(charges') = Len(charges) + 1
      /\ Len(charges) \in Nat /\ Len(charges') <= MaxCharges
      /\ \A c \in DOMAIN charges : c \in DOMAIN charges' /\ charges'[c] = charges[c]
  BY <1>1, BoundsAreNumbers DEF TypeOK, Charge
<1>3. TypeOK'
  <2>1. \A t \in Tabs : {tabs[t].waits, tabs[t].hash} \subseteq 0..Len(charges')
    BY <1>2 DEF TypeOK
  <2> QED
    BY <1>1, <1>2, <2>1 DEF TypeOK, provider
<1>4. /\ \A j \in DOMAIN quotes : Evidenced(j) => Evidenced(j)'
      /\ FeeEvidenced => FeeEvidenced'
  BY <1>1, <1>2, EvidenceKept
<1>5. \A u \in Tabs : tabs[u].hash # 0 => tabs[u].hash \in DOMAIN charges
  BY DEF TypeOK
<1>6. FeesSound'
  BY <1>1, <1>2, <1>4, <1>5 DEF FeesSound
<1> QED
  BY <1>1, <1>3, <1>4, <1>6, FeeFrame

\* A quote that is marked as paid has its evidence, and no other changes.
LEMMA MarkedHasEvidence ==
  ASSUME DeploymentInv, NEW i \in Nat, NEW c \in DOMAIN charges, MarkPaid(i, c), charges' = charges,
         i <= Len(quotes)
  PROVE  /\ quotes' \in Seq(QuoteRow) /\ Len(quotes') = Len(quotes)
         /\ FeeEvidenced => FeeEvidenced'
         /\ \A j \in DOMAIN quotes' : quotes'[j].status = "paid" => Evidenced(j)'
<1> USE DEF DeploymentInv
<1>1. /\ quotes \in Seq(QuoteRow) /\ charges \in Seq(Charge) /\ Len(quotes) \in Nat
      /\ c \in 0..MaxCharges
  BY BoundsAreNumbers DEF TypeOK
<1>2. CASE quotes[i].status = "paid" \/ i \notin DOMAIN quotes
  <2>1. quotes' = quotes
    BY <1>1, <1>2 DEF MarkPaid
  <2>2. FeeEvidenced' = FeeEvidenced /\ \A j : Evidenced(j)' = Evidenced(j)
    BY <2>1 DEF FeeEvidenced, Evidenced, Evident
  <2> QED
    BY <1>1, <2>1, <2>2 DEF FeesSound
<1>3. CASE quotes[i].status # "paid" /\ i \in DOMAIN quotes
  <2> DEFINE quote == [quotes[i] EXCEPT !.status = "paid", !.charge = c]
  <2>1. quotes[i] \in QuoteRow
    BY <1>1, <1>3
  <2>2. /\ quote \in QuoteRow /\ quote.status = "paid" /\ quote.charge = c
        /\ quotes' = [quotes EXCEPT ![i] = quote]
    BY <1>1, <1>3, <2>1 DEF MarkPaid, QuoteRow
  <2>3. Evident(c)
    BY <1>3 DEF MarkPaid, CanMarkPaid, Reusable
  <2> HIDE DEF quote
  <2>4. quotes' \in Seq(QuoteRow) /\ Len(quotes') = Len(quotes) /\ DOMAIN quotes' = DOMAIN quotes
    BY <1>1, <1>3, <2>2
  <2>5. quotes'[i] = quote /\ \A j \in DOMAIN quotes : j # i => quotes'[j] = quotes[j]
    BY <1>1, <1>3, <2>2
  <2>6. /\ \A j \in DOMAIN quotes : Evidenced(j) => Evidenced(j)'
        /\ FeeEvidenced => FeeEvidenced'
    BY <1>3, <2>4, <2>5, EvidenceKept
  <2>7. Evidenced(i)'
    BY <2>2, <2>3, <2>5 DEF Evidenced, Evident
  <2>8. \A j \in DOMAIN quotes' : quotes'[j].status = "paid" => Evidenced(j)'
    BY <2>4, <2>5, <2>6, <2>7 DEF FeesSound
  <2> QED
    BY <2>4, <2>6, <2>8
<1> QED
  BY <1>2, <1>3

\* Reporting any charge keeps the invariant.
LEMMA ReportChargeInv ==
  ASSUME DeploymentInv, NEW i \in DOMAIN quotes, NEW c \in DOMAIN charges, ReportCharge(i, c)
  PROVE  DeploymentInv'
<1> USE DEF DeploymentInv
<1>1. UNCHANGED <<deadline, charges, row, provider, tabs, requests, lost>> /\ MarkPaid(i, c)
  BY DEF ReportCharge
<1>2. i \in Nat /\ i <= Len(quotes) /\ charges' = charges
  BY <1>1 DEF TypeOK
<1>3. /\ quotes' \in Seq(QuoteRow) /\ Len(quotes') = Len(quotes)
      /\ FeeEvidenced => FeeEvidenced'
      /\ \A j \in DOMAIN quotes' : quotes'[j].status = "paid" => Evidenced(j)'
  BY <1>1, <1>2, MarkedHasEvidence
<1>4. TypeOK'
  BY <1>1, <1>3 DEF TypeOK, provider
<1>5. FeesSound'
  BY <1>1, <1>3 DEF FeesSound
<1> QED
  BY <1>1, <1>3, <1>4, <1>5, FeeFrame

\* Only one page changes, and it claims no charge that is not there.
LEMMA OnePageInv ==
  ASSUME DeploymentInv, NEW t \in Tabs, NEW tab \in Page, SetTab(t, tab),
         tab.quote <= Len(quotes), {tab.waits, tab.hash} \subseteq 0..Len(charges),
         tab.hash # 0 => charges[tab.hash].state = "success",
         UNCHANGED <<deadline, quotes, charges, row, provider, requests, lost>>
  PROVE  DeploymentInv'
<1> USE DEF DeploymentInv
<1>1. /\ quotes' = quotes /\ charges' = charges /\ UNCHANGED <<deadline, row, provider, requests, lost>>
      /\ FeeEvidenced' = FeeEvidenced /\ \A j : Evidenced(j)' = Evidenced(j)
  BY DEF FeeEvidenced, Evidenced, Evident
<1>2. /\ quotes \in Seq(QuoteRow) /\ charges \in Seq(Charge)
      /\ Len(quotes) <= MaxQuotes /\ Len(charges) <= MaxCharges
      /\ Len(quotes) \in Nat /\ Len(charges) \in Nat
  BY DEF TypeOK
<1>3. TypeOK'
  BY <1>1, <1>2, PageTyped
<1>4. FeesSound'
  BY <1>1 DEF FeesSound, SetTab, TypeOK
<1> QED
  BY <1>1, <1>3, <1>4, FeeFrame

\* Hearing of a charge keeps the invariant.
LEMMA ChargeAnsweredInv == ASSUME DeploymentInv, NEW t \in Tabs, ChargeAnswered(t) PROVE DeploymentInv'
<1> DEFINE hash == IF charges[tabs[t].waits].state = "success" THEN tabs[t].waits ELSE 0
           tab == [tabs[t] EXCEPT !.waits = 0, !.hash = hash]
<1>1. SetTab(t, tab) /\ UNCHANGED <<deadline, quotes, charges, row, provider, requests, lost>>
  BY DEF ChargeAnswered, fees
<1>2. /\ tabs[t] \in Page /\ tabs[t].quote <= Len(quotes) /\ tabs[t].waits \in 0..Len(charges)
      /\ Len(charges) \in Nat /\ Len(charges) <= MaxCharges
  BY DEF DeploymentInv, TypeOK
<1>3. hash \in 0..Len(charges) /\ hash \in 0..MaxCharges /\ 0 \in 0..MaxCharges
  BY <1>2, BoundsAreNumbers
<1>4. hash # 0 => charges[hash].state = "success"
  OBVIOUS
<1> HIDE DEF hash
<1>5. tab \in Page /\ tab.quote = tabs[t].quote /\ tab.waits = 0 /\ tab.hash = hash
  BY <1>2, <1>3, PageFee DEF Page
<1> HIDE DEF tab
<1>6. tab.quote <= Len(quotes) /\ {tab.waits, tab.hash} \subseteq 0..Len(charges)
  BY <1>2, <1>3, <1>5
<1>7. tab.hash # 0 => charges[tab.hash].state = "success"
  BY <1>4, <1>5
<1> QED
  BY <1>1, <1>5, <1>6, <1>7, OnePageInv

\* Giving up on a receipt keeps the invariant.
LEMMA ChargeTimesOutInv == ASSUME DeploymentInv, NEW t \in Tabs, ChargeTimesOut(t) PROVE DeploymentInv'
<1> DEFINE tab == [tabs[t] EXCEPT !.waits = 0]
<1>1. SetTab(t, tab) /\ UNCHANGED <<deadline, quotes, charges, row, provider, requests, lost>>
  BY DEF ChargeTimesOut, fees
<1>2. /\ tabs[t] \in Page /\ tabs[t].quote <= Len(quotes) /\ tabs[t].hash \in 0..Len(charges)
      /\ Len(charges) \in Nat /\ 0 \in 0..MaxCharges
      /\ tabs[t].hash # 0 => charges[tabs[t].hash].state = "success"
  BY BoundsAreNumbers DEF DeploymentInv, TypeOK, FeesSound
<1>3. tab \in Page /\ tab.quote = tabs[t].quote /\ tab.waits = 0 /\ tab.hash = tabs[t].hash
  BY <1>2, PageFee DEF Page
<1> HIDE DEF tab
<1>4. tab.quote <= Len(quotes) /\ {tab.waits, tab.hash} \subseteq 0..Len(charges)
  BY <1>2, <1>3
<1>5. tab.hash # 0 => charges[tab.hash].state = "success"
  BY <1>2, <1>3
<1> QED
  BY <1>1, <1>3, <1>4, <1>5, OnePageInv

\* Recording a paid fee keeps the invariant.
LEMMA ObserveFeeInv == ASSUME DeploymentInv, NEW t \in Tabs, ObserveFee(t) PROVE DeploymentInv'
<1> USE DEF DeploymentInv
<1> DEFINE i == tabs[t].quote
<1>1. PICK heard \in BOOLEAN : SetTab(t, [tabs[t] EXCEPT !.fee = IF heard THEN "paid" ELSE @])
  BY DEF ObserveFee
<1> DEFINE tab == [tabs[t] EXCEPT !.fee = IF heard THEN "paid" ELSE @]
<1>2. /\ UNCHANGED <<deadline, charges, row, provider, requests, lost>>
      /\ tabs[t].hash # 0 /\ MarkPaid(i, tabs[t].hash)
  BY DEF ObserveFee
<1>3. /\ tabs[t] \in Page /\ i <= Len(quotes) /\ i \in Nat /\ {tabs[t].waits, tabs[t].hash} \subseteq 0..Len(charges)
      /\ charges \in Seq(Charge) /\ quotes \in Seq(QuoteRow)
      /\ Len(quotes) \in Nat /\ Len(charges) \in Nat /\ Len(quotes) <= MaxQuotes /\ Len(charges) <= MaxCharges
  <2>1. /\ tabs[t] \in Page /\ i <= Len(quotes) /\ {tabs[t].waits, tabs[t].hash} \subseteq 0..Len(charges)
        /\ charges \in Seq(Charge) /\ quotes \in Seq(QuoteRow)
        /\ Len(quotes) <= MaxQuotes /\ Len(charges) <= MaxCharges
    BY DEF TypeOK
  <2>2. i \in Nat
    BY <2>1, PageFields
  <2> QED
    BY <2>1, <2>2
<1>4. tab \in Page /\ tab.quote = i /\ tab.waits = tabs[t].waits /\ tab.hash = tabs[t].hash
  BY <1>3 DEF Page
<1> HIDE DEF tab
<1>5. /\ quotes' \in Seq(QuoteRow) /\ Len(quotes') = Len(quotes)
      /\ FeeEvidenced => FeeEvidenced'
      /\ \A j \in DOMAIN quotes' : quotes'[j].status = "paid" => Evidenced(j)'
  <2>1. tabs[t].hash \in DOMAIN charges /\ charges' = charges
    BY <1>2, <1>3
  <2> HIDE DEF i
  <2> QED
    BY <1>2, <1>3, <2>1, MarkedHasEvidence
<1>6. TypeOK'
  <2>1. UNCHANGED <<deadline, row, provider, requests, lost>> /\ charges' = charges /\ SetTab(t, tab)
    BY <1>1, <1>2 DEF tab
  <2> HIDE DEF i
  <2>2. tab.quote <= Len(quotes') /\ {tab.waits, tab.hash} \subseteq 0..Len(charges')
    BY <1>3, <1>4, <1>5, <2>1
  <2>3. Len(charges) <= Len(charges') /\ Len(charges') <= MaxCharges /\ Len(quotes) <= Len(quotes')
    BY <1>3, <1>5, <2>1
  <2> QED
    BY <1>3, <1>4, <1>5, <2>1, <2>2, <2>3, PageTyped
<1>7. \A u \in Tabs : tabs'[u].hash = tabs[u].hash
  BY <1>1, <1>4 DEF SetTab, TypeOK, tab
<1>8. FeesSound'
  BY <1>2, <1>5, <1>7 DEF FeesSound
<1> QED
  BY <1>2, <1>5, <1>6, <1>8, FeeFrame

\* Loading a page keeps the invariant.
LEMMA LoadPageInv == ASSUME DeploymentInv, NEW t \in Tabs, LoadPage(t) PROVE DeploymentInv'
<1>1. /\ tabs[t] \in Page /\ tabs[t].quote <= Len(quotes) /\ {tabs[t].waits, tabs[t].hash} \subseteq 0..Len(charges)
      /\ tabs[t].hash # 0 => charges[tabs[t].hash].state = "success"
      /\ quotes \in Seq(QuoteRow) /\ Len(quotes) \in Nat /\ Len(charges) \in Nat
      /\ Len(quotes) <= MaxQuotes /\ 0 \in 0..MaxQuotes /\ 0 \in 0..MaxCharges
  BY BoundsAreNumbers DEF DeploymentInv, TypeOK, FeesSound
<1>2. PICK tab \in {tabs[t], NewTab}, i \in 0..Len(quotes) : SetTab(t, Loaded(tab, i))
  BY DEF LoadPage
<1>3. /\ tab \in Page /\ tab.quote <= Len(quotes) /\ {tab.waits, tab.hash} \subseteq 0..Len(charges)
      /\ tab.hash # 0 => charges[tab.hash].state = "success"
  <2>1. CASE tab = tabs[t]
    BY <1>1, <2>1
  <2>2. CASE tab = NewTab
    <3>1. {} \in Calls
      BY DEF Calls
    <3>2. NewTab \in Page
      BY <1>1, <3>1 DEF NewTab, Page
    <3> QED
      BY <1>1, <2>2, <3>2 DEF NewTab
  <2> QED
    BY <1>2, <2>1, <2>2
<1>4. i # 0 => quotes[i].status \in {"quoted", "paid", "expired"} /\ i \in 0..MaxQuotes
  <2>1. i # 0 => quotes[i] \in QuoteRow
    BY <1>1
  <2>2. i # 0 => quotes[i].status \in {"quoted", "paid", "expired"}
    BY <2>1 DEF QuoteRow
  <2>3. i \in 0..MaxQuotes
    BY <1>1, BoundsAreNumbers
  <2> QED
    BY <2>2, <2>3
<1> DEFINE new == Loaded(tab, i)
<1>5. /\ new \in Page /\ new.waits = tab.waits /\ new.hash = tab.hash
      /\ new.quote = IF i = 0 THEN tab.quote ELSE i
  BY <1>3, <1>4 DEF Loaded, Page
<1> HIDE DEF new
<1>6. new.quote <= Len(quotes) /\ {new.waits, new.hash} \subseteq 0..Len(charges)
      /\ (new.hash # 0 => charges[new.hash].state = "success")
  BY <1>1, <1>3, <1>5
<1>7. SetTab(t, new) /\ UNCHANGED <<deadline, quotes, charges, row, provider, requests, lost>>
  BY <1>2 DEF LoadPage, fees, new
<1> QED
  BY <1>5, <1>6, <1>7, OnePageInv

\* Moving the deadline keeps the invariant.
LEMMA EditDeadlineInv == ASSUME DeploymentInv, EditDeadline PROVE DeploymentInv'
<1> USE DEF DeploymentInv
<1>1. /\ UNCHANGED <<quotes, charges, row, circle, registration, tabs, requests, lost>>
      /\ row.status \in {"none", "failed"} /\ deadline' = deadline + 1 /\ deadline < MaxDeadlines
  BY DEF EditDeadline, CanEditDeadline, fees, provider
<1>2. TypeOK'
  BY <1>1, BoundsAreNumbers DEF TypeOK
<1>3. RowSound' /\ FeesSound' /\ KeysSound' /\ RegistrationSound' /\ ConfirmedIsSound'
  BY <1>1 DEF RowSound, FeesSound, FeeEvidenced, Evidenced, Evident, KeysSound, RegistrationSound, ConfirmedIsSound
<1>4. \A q \in Requests : RequestSound(requests[q])'
  BY <1>1 DEF RequestSound
<1> QED
  BY <1>2, <1>3, <1>4

-----------------------------------------------------------------------------
(***************************************************************************)
(* Deploy requests and Circle                                              *)
(***************************************************************************)
RequestRow == [at : Stages, key : 0..2, deadline : 0..MaxDeadlines]

CircleRow == [state : {"new", "working", "complete", "failed"}, refused : BOOLEAN,
              deadline : 0..MaxDeadlines]

RegistrationRow == [state : {"none", "working", "complete", "failed"}, contract : 0..2]

\* What a row, Circle's operations and the registration never lose.
Grows ==
  /\ row.status # "none" => row'.status # "none" /\ row'.deadline = row.deadline
  /\ row.contract # 0 => row'.contract = row.contract
  /\ circle[1].refused => circle'[1].refused
  /\ \A k \in Keys : circle[k].state = "complete" =>
       circle'[k].state = "complete" /\ circle'[k].deadline = circle[k].deadline
  /\ registration.state # "none" => registration'.state # "none"
  /\ registration.state = "complete" => registration' = registration

\* A request that went on found what it claims, or no longer claims anything.
RequestsGoOn ==
  /\ requests' \in [Requests -> RequestRow]
  /\ \A q \in Requests :
       \/ requests'[q] = requests[q]
       \/ RequestSound(requests[q])' /\ (requests'[q].key = 2 => circle'[1].refused)

\* Pages keep their charges and quotes.
PagesKept ==
  /\ tabs' \in [Tabs -> Page]
  /\ \A t \in Tabs : /\ tabs'[t].quote = tabs[t].quote
                     /\ tabs'[t].waits = tabs[t].waits
                     /\ tabs'[t].hash = tabs[t].hash

\* What is to be shown of a step of a request or of Circle.
LEMMA RequestFrame ==
  ASSUME DeploymentInv, Grows, RequestsGoOn, PagesKept, UNCHANGED <<deadline, quotes, charges>>,
         row' \in DeploymentRow, circle' \in [Keys -> CircleRow], registration' \in RegistrationRow,
         lost' \in 0..MaxLost, RowSound', RegistrationSound', ConfirmedIsSound',
         row'.key = 2 \/ row'.contract = 2 \/ circle'[2].state # "new" => circle'[1].refused
  PROVE  DeploymentInv'
<1> USE DEF DeploymentInv
<1>1. TypeOK'
  <2>1. \A t \in Tabs : /\ tabs'[t].quote <= Len(quotes')
                        /\ {tabs'[t].waits, tabs'[t].hash} \subseteq 0..Len(charges')
    BY DEF PagesKept, TypeOK
  <2> QED
    BY <2>1 DEF TypeOK, PagesKept, RequestsGoOn, RequestRow, CircleRow, RegistrationRow
<1>2. FeesSound'
  BY DEF FeesSound, Evidenced, Evident, PagesKept
<1>3. ASSUME NEW q \in Requests
      PROVE  RequestSound(requests[q])' /\ (requests'[q].key = 2 => circle'[1].refused)
  <2>1. CASE requests'[q] = requests[q]
    <3>1. RequestSound(requests[q]) /\ (requests[q].key = 2 => circle[1].refused)
      BY DEF KeysSound
    <3>2. requests'[q].at \notin {"idle", "create"} =>
            requests'[q].key \in Keys /\ row'.status # "none" /\ requests'[q].deadline = row'.deadline
      BY <2>1, <3>1 DEF RequestSound, Grows
    <3>3. requests'[q].at = "rotate" => circle'[1].refused
      BY <2>1, <3>1 DEF RequestSound, Grows
    <3>4. ASSUME requests'[q].at \in Identified PROVE row'.contract = requests'[q].key
      <4>1. row.contract = requests[q].key /\ requests[q].key \in Keys
        BY <2>1, <3>1, <3>4 DEF RequestSound, Identified
      <4> QED
        BY <2>1, <4>1 DEF Grows, Keys
    <3>5. requests'[q].at \in Confirming =>
            /\ circle'[requests'[q].key].state = "complete"
            /\ circle'[requests'[q].key].deadline = requests'[q].deadline
      BY <2>1, <3>1 DEF RequestSound, Grows, Confirming
    <3>6. /\ requests'[q].at \in {"await registration", "confirm"} => registration'.state # "none"
          /\ requests'[q].at = "confirm" => registration'.state = "complete"
      BY <2>1, <3>1 DEF RequestSound, Grows
    <3>7. RequestSound(requests[q])'
      BY <3>2, <3>3, <3>4, <3>5, <3>6 DEF RequestSound, Confirming
    <3> QED
      BY <2>1, <3>1, <3>7 DEF Grows
  <2> QED
    BY <2>1 DEF RequestsGoOn
<1>4. KeysSound'
  BY <1>3 DEF KeysSound
<1> QED
  BY <1>1, <1>2, <1>3, <1>4

\* The same, of a step that leaves the row alone.
LEMMA SameRowInv ==
  ASSUME DeploymentInv, Grows, RequestsGoOn, PagesKept, UNCHANGED <<deadline, quotes, charges, row>>,
         circle' \in [Keys -> CircleRow], registration' \in RegistrationRow, lost' \in 0..MaxLost,
         RegistrationSound', circle'[2].state # "new" => circle'[1].refused
  PROVE  DeploymentInv'
<1> USE DEF DeploymentInv
<1>1. row' \in DeploymentRow /\ (row'.key = 2 \/ row'.contract = 2 \/ circle'[2].state # "new" => circle'[1].refused)
  BY DEF TypeOK, KeysSound, Grows
<1>2. RowSound'
  BY DEF RowSound, FeeEvidenced, Evidenced, Evident
<1>3. ConfirmedIsSound'
  <2> SUFFICES ASSUME row.status = "confirmed" PROVE ConfirmedIsSound'
    BY DEF ConfirmedIsSound
  <2>1. /\ row.address = row.contract /\ row.contract \in Keys /\ FeeEvidenced' /\ registration' = registration
        /\ circle[row.contract] \in [state : {"complete"}, refused : BOOLEAN, deadline : {deadline}]
        /\ registration = [state |-> "complete", contract |-> row.contract]
    BY DEF ConfirmedIsSound, RowSound, TypeOK, DeploymentRow, Keys, Final, Grows, FeeEvidenced, Evidenced, Evident
  <2>2. circle'[row.contract] \in CircleRow /\ circle[row.contract].deadline = deadline
        /\ circle[row.contract].state = "complete"
    BY <2>1
  <2>3. circle'[row.contract].state = "complete" /\ circle'[row.contract].deadline = deadline
    BY <2>1, <2>2 DEF Grows
  <2>4. circle'[row.contract] \in [state : {"complete"}, refused : BOOLEAN, deadline : {deadline}]
    BY <2>2, <2>3 DEF CircleRow
  <2> QED
    BY <2>1, <2>4 DEF ConfirmedIsSound
<1> QED
  BY <1>1, <1>2, <1>3, RequestFrame

\* A request that goes on is the only thing that moves.
LEMMA GoOnMoves ==
  ASSUME TypeOK, NEW q \in Requests, NEW stage \in Stages, NEW key \in 0..2, GoOn(q, stage, key)
  PROVE  /\ PagesKept /\ requests' \in [Requests -> RequestRow]
         /\ \A p \in Requests : p # q => requests'[p] = requests[p]
         /\ requests'[q].at = stage /\ requests'[q].key = key
         /\ requests'[q].deadline = requests[q].deadline
         /\ requests[q] \in RequestRow
<1> DEFINE r == [at |-> stage, key |-> key, deadline |-> requests[q].deadline]
<1>1. requests \in [Requests -> RequestRow] /\ requests[q] \in RequestRow
  BY DEF TypeOK, RequestRow
<1>2. r \in RequestRow
  BY <1>1 DEF RequestRow
<1>3. \A p \in Requests : p # q => requests'[p] = requests[p]
  BY <1>1 DEF GoOn
<1>4. requests'[q] = r
  <2>1. requests' = [requests EXCEPT ![q].at = stage, ![q].key = key]
    BY DEF GoOn
  <2>2. requests'[q] = [[requests[q] EXCEPT !.at = stage] EXCEPT !.key = key]
    BY <1>1, <2>1
  <2> QED
    BY <1>1, <2>2 DEF RequestRow
<1> HIDE DEF r
<1>5. PagesKept
  BY DEF GoOn, PagesKept, TypeOK
<1> QED
  <2>1. DOMAIN requests' = Requests /\ requests' = [p \in Requests |-> requests'[p]]
    BY <1>1 DEF GoOn
  <2> QED
    BY <1>1, <1>2, <1>3, <1>4, <1>5, <2>1 DEF r

\* A request that ends.
LEMMA EndsMoves ==
  ASSUME TypeOK, NEW q \in Requests, NEW shows \in {"nothing", "settled"}, Ends(q, shows)
  PROVE  PagesKept /\ RequestsGoOn
<1>1. requests' = [requests EXCEPT ![q] = Idle] /\ requests \in [Requests -> RequestRow]
  BY DEF Ends, TypeOK, RequestRow
<1>2. Idle \in RequestRow
  <2>1. 0 \in 0..2 /\ 0 \in 0..MaxDeadlines
    BY BoundsAreNumbers
  <2>2. "idle" \in Stages
    BY DEF Stages
  <2> QED
    BY <2>1, <2>2 DEF Idle, RequestRow
<1>3. RequestsGoOn
  <2>1. ASSUME NEW p \in Requests, p = q
        PROVE  RequestSound(requests[p])' /\ (requests'[p].key = 2 => circle'[1].refused)
    <3>1. requests'[p].at = "idle" /\ requests'[p].key = 0
      BY <1>1, <2>1 DEF Idle
    <3>2. /\ requests'[p].at \notin {"rotate", "await registration", "confirm"}
          /\ requests'[p].at \notin Identified /\ requests'[p].at \notin Confirming
          /\ requests'[p].at \in {"idle", "create"}
      BY <3>1 DEF Confirming, Identified
    <3>3. RequestSound(requests[p])'
      BY <3>1, <3>2 DEF RequestSound
    <3>4. requests'[p].key # 2
      BY <3>1
    <3> QED
      BY <3>3, <3>4
  <2> QED
    BY <1>1, <1>2, <2>1 DEF RequestsGoOn
<1>4. ASSUME NEW t \in Tabs
      PROVE  /\ tabs'[t] \in Page /\ tabs'[t].quote = tabs[t].quote
             /\ tabs'[t].waits = tabs[t].waits /\ tabs'[t].hash = tabs[t].hash
  <2> DEFINE shown == IF shows = "nothing" THEN tabs[t].deployment ELSE shows
             tab == [tabs[t] EXCEPT !.call = {}, !.deployment = shown]
  <2>1. tabs[t] \in Page /\ {} \in Calls
    BY DEF TypeOK, Calls
  <2>2. shown \in {"none", "under way", "settled"}
    BY <2>1, PageFields
  <2>3. tabs'[t] = tab \/ tabs'[t] = tabs[t]
    BY DEF Ends
  <2> HIDE DEF shown
  <2>4. tab \in Page /\ tab.quote = tabs[t].quote /\ tab.waits = tabs[t].waits /\ tab.hash = tabs[t].hash
    BY <2>1, <2>2 DEF Page
  <2> QED
    BY <2>1, <2>3, <2>4
<1>5. tabs' = [t \in Tabs |-> tabs'[t]]
  BY DEF Ends
<1>6. PagesKept
  BY <1>4, <1>5 DEF PagesKept
<1> QED
  BY <1>3, <1>6

\* A request that goes on and claims what it found.
LEMMA GoOnClaims ==
  ASSUME TypeOK, NEW q \in Requests, NEW stage \in Stages, NEW key \in 0..2, GoOn(q, stage, key),
         stage \notin {"idle", "create"} =>
           key \in Keys /\ row'.status # "none" /\ requests[q].deadline = row'.deadline,
         stage = "rotate" => circle'[1].refused,
         stage \in Identified => row'.contract = key,
         stage \in Confirming =>
           circle'[key].state = "complete" /\ circle'[key].deadline = requests[q].deadline,
         stage \in {"await registration", "confirm"} => registration'.state # "none",
         stage = "confirm" => registration'.state = "complete",
         key = 2 => circle'[1].refused
  PROVE  PagesKept /\ RequestsGoOn
<1>1. /\ PagesKept /\ requests' \in [Requests -> RequestRow]
      /\ \A p \in Requests : p # q => requests'[p] = requests[p]
      /\ requests'[q].at = stage /\ requests'[q].key = key
      /\ requests'[q].deadline = requests[q].deadline
  BY GoOnMoves
<1>2. requests'[q].at = stage /\ requests'[q].key = key /\ requests'[q].deadline = requests[q].deadline
  BY <1>1
<1>3. RequestSound(requests[q])'
  BY <1>2 DEF RequestSound
<1> QED
  BY <1>1, <1>2, <1>3 DEF RequestsGoOn

\* What a state of the invariant gives a running request.
LEMMA RequestFacts ==
  ASSUME DeploymentInv, NEW q \in Requests
  PROVE  /\ requests[q] \in RequestRow /\ RequestSound(requests[q])
         /\ (requests[q].key = 2 => circle[1].refused) /\ requests[q].key \in 0..2
         /\ row \in DeploymentRow /\ circle \in [Keys -> CircleRow] /\ registration \in RegistrationRow
         /\ lost \in 0..MaxLost
<1>1. /\ requests[q] \in RequestRow /\ row \in DeploymentRow /\ circle \in [Keys -> CircleRow]
      /\ registration \in RegistrationRow /\ lost \in 0..MaxLost
  BY DEF DeploymentInv, TypeOK, RequestRow, CircleRow, RegistrationRow
<1>2. requests[q].key \in 0..2
  BY <1>1 DEF RequestRow
<1> QED
  BY <1>1, <1>2 DEF DeploymentInv, KeysSound

\* Starting a request keeps the invariant.
LEMMA StartDeployInv ==
  ASSUME DeploymentInv, NEW q \in Requests, NEW t \in Tabs, StartDeploy(q, t) PROVE DeploymentInv'
<1> DEFINE r == [Idle EXCEPT !.at = "create", !.deadline = deadline]
           tab == [tabs[t] EXCEPT !.call = {q}]
<1>1. /\ requests' = [requests EXCEPT ![q] = r] /\ tabs' = [tabs EXCEPT ![t] = tab]
      /\ UNCHANGED <<deadline, quotes, charges, row, circle, registration, lost>>
  BY DEF StartDeploy, SetTab, fees, provider
<1>2. r \in RequestRow /\ r.at = "create" /\ r.key = 0
  <2>1. deadline \in 1..MaxDeadlines
    BY DEF DeploymentInv, TypeOK
  <2>2. deadline \in 0..MaxDeadlines /\ 0 \in 0..2
    BY <2>1, BoundsAreNumbers
  <2>3. "create" \in Stages
    BY DEF Stages
  <2> QED
    BY <2>2, <2>3 DEF RequestRow, Idle
<1>3. RequestsGoOn
  <2>1. requests \in [Requests -> RequestRow]
    BY DEF DeploymentInv, TypeOK, RequestRow
  <2> HIDE DEF r
  <2>2. requests'[q].at = "create" /\ requests'[q].key = 0
    BY <1>1, <1>2, <2>1
  <2>3. RequestSound(requests[q])'
    BY <2>2 DEF RequestSound, Confirming, Identified
  <2> QED
    BY <1>1, <1>2, <2>1, <2>2, <2>3 DEF RequestsGoOn
<1>4. PagesKept
  <2>1. tabs \in [Tabs -> Page] /\ tabs[t] \in Page /\ {q} \in Calls
    BY DEF DeploymentInv, TypeOK, Calls
  <2>2. tab \in Page /\ tab.quote = tabs[t].quote /\ tab.waits = tabs[t].waits /\ tab.hash = tabs[t].hash
    BY <2>1 DEF Page
  <2> HIDE DEF tab
  <2> QED
    BY <1>1, <2>1, <2>2 DEF PagesKept
<1>5. Grows
  BY <1>1 DEF Grows
<1>6. RegistrationSound' /\ (circle'[2].state # "new" => circle'[1].refused)
  BY <1>1 DEF DeploymentInv, RegistrationSound, KeysSound
<1> QED
  BY <1>1, <1>3, <1>4, <1>5, <1>6, RequestFacts, SameRowInv

\* Creating the row keeps the invariant.
LEMMA CreateRecordInv ==
  ASSUME DeploymentInv, NEW q \in Requests, CreateRecord(q) PROVE DeploymentInv'
<1> USE DEF DeploymentInv
<1>1. /\ UNCHANGED <<deadline, quotes, charges, circle, registration, lost>> /\ FeeEvidenced' = FeeEvidenced
      /\ requests[q].at = "create"
  BY DEF CreateRecord, fees, provider, FeeEvidenced, Evidenced, Evident
<1>2. /\ requests[q].key \in 0..2 /\ row \in DeploymentRow /\ circle' \in [Keys -> CircleRow]
      /\ registration' \in RegistrationRow /\ lost' \in 0..MaxLost
  BY <1>1, RequestFacts
<1>3. CASE ~CanCreate(q) /\ Ends(q, "nothing") /\ UNCHANGED row
  <2>1. PagesKept /\ RequestsGoOn
    BY <1>3, EndsMoves
  <2>2. Grows /\ RegistrationSound' /\ (circle'[2].state # "new" => circle'[1].refused)
    BY <1>1, <1>3 DEF Grows, RegistrationSound, KeysSound
  <2> QED
    BY <1>1, <1>2, <1>3, <2>1, <2>2, SameRowInv
<1>4. CASE /\ CanCreate(q)
           /\ row' = IF row.status = "none"
                     THEN [NoRow EXCEPT !.status = "accepted", !.key = 1, !.deadline = deadline]
                     ELSE row
           /\ \/ row.status \in Final /\ Ends(q, "settled")
              \/ row.status \notin Final /\ row.contract # 0 /\ GoOn(q, "wait", row.contract)
              \/ row.status \notin Final /\ row.contract = 0 /\ GoOn(q, "submit", row'.key)
  <2>1. /\ row' \in DeploymentRow /\ row'.status # "none" /\ row'.deadline = deadline
        /\ row'.key \in Keys /\ row'.contract = row.contract
        /\ row.status # "none" => row' = row
        /\ row.status = "none" => row'.status = "accepted" /\ row'.key = 1
    <3>1. CASE row.status = "none"
      <4>1. row.contract = 0 /\ deadline \in 0..MaxDeadlines
        BY <3>1 DEF RowSound, Final, TypeOK
      <4>2. row' = [status |-> "accepted", key |-> 1, deadline |-> deadline, contract |-> 0, address |-> 0]
        BY <1>4, <3>1 DEF NoRow
      <4> QED
        BY <3>1, <4>1, <4>2 DEF DeploymentRow, Keys
    <3>2. CASE row.status # "none"
      BY <1>2, <1>4, <3>2 DEF RowSound, CanCreate
    <3> QED
      BY <3>1, <3>2
  <2>2. FeeEvidenced' /\ requests[q].deadline = row'.deadline
    BY <1>1, <1>4, <2>1 DEF CanCreate, FeesSound, FeePaid, FeeEvidenced
  <2>3. row'.key = 2 => circle'[1].refused
    BY <1>1, <2>1 DEF KeysSound
  <2>4. PagesKept /\ RequestsGoOn
    <3>1. CASE Ends(q, "settled")
      BY <3>1, EndsMoves
    <3>2. CASE row.contract # 0 /\ GoOn(q, "wait", row.contract)
      <4>1. row.contract \in Keys /\ row.contract \in 0..2
        BY <1>2, <3>2 DEF DeploymentRow, Keys
      <4>2. "wait" \in Stages /\ "wait" \notin Confirming
        BY DEF Stages, Confirming
      <4>3. row.contract = 2 => circle'[1].refused
        BY <1>1 DEF KeysSound
      <4> QED
        BY <2>1, <2>2, <3>2, <4>1, <4>2, <4>3, GoOnClaims
    <3>3. CASE GoOn(q, "submit", row'.key)
      <4>1. "submit" \in Stages /\ "submit" \notin Confirming /\ "submit" \notin Identified
        BY DEF Stages, Confirming, Identified
      <4>2. row'.key \in 0..2
        BY <2>1 DEF Keys
      <4> QED
        BY <2>1, <2>2, <2>3, <3>3, <4>1, <4>2, GoOnClaims
    <3> QED
      BY <1>4, <3>1, <3>2, <3>3
  <2>5. Grows /\ RowSound' /\ RegistrationSound' /\ ConfirmedIsSound'
    BY <1>1, <2>1, <2>2 DEF Grows, RowSound, RegistrationSound, ConfirmedIsSound, Final
  <2>6. row'.key = 2 \/ row'.contract = 2 \/ circle'[2].state # "new" => circle'[1].refused
    BY <1>1, <2>1, <2>3 DEF KeysSound
  <2> QED
    BY <1>1, <1>2, <2>1, <2>4, <2>5, <2>6, RequestFrame
<1> QED
  BY <1>3, <1>4 DEF CreateRecord

\* Submitting to Circle keeps the invariant.
LEMMA SubmitInv == ASSUME DeploymentInv, NEW q \in Requests, Submit(q) PROVE DeploymentInv'
<1> USE DEF DeploymentInv
<1> DEFINE k == requests[q].key
<1>1. /\ UNCHANGED <<deadline, quotes, charges, row, registration>> /\ requests[q].at = "submit"
  BY DEF Submit, fees
<1>2. /\ k \in Keys /\ row.status # "none" /\ requests[q].deadline = row.deadline /\ k \in 0..2
      /\ (k = 2 => circle[1].refused) /\ circle \in [Keys -> CircleRow] /\ registration' \in RegistrationRow
      /\ requests[q].deadline \in 0..MaxDeadlines
  BY <1>1, RequestFacts DEF RequestSound, RequestRow
<1>3. PICK answer \in {"accepted", "refused", "unheard"} :
       /\ \/ /\ answer # "refused"
             /\ circle' = IF circle[k].state # "new" THEN circle
                          ELSE [circle EXCEPT ![k].state = "working",
                                              ![k].deadline = requests[q].deadline]
          \/ /\ answer = "refused" /\ circle[k].state = "new"
             /\ circle' = [circle EXCEPT ![k].refused = TRUE]
       /\ answer = "unheard" => lost < MaxLost
       /\ lost' = IF answer = "unheard" THEN lost + 1 ELSE lost
       /\ \/ answer = "accepted" /\ GoOn(q, "store", k)
          \/ EarnsKey(answer, k) /\ GoOn(q, "rotate", k)
          \/ answer # "accepted" /\ ~EarnsKey(answer, k) /\ Ends(q, "nothing")
  BY DEF Submit
<1>4. lost' \in 0..MaxLost
  <2>1. lost \in 0..MaxLost
    BY RequestFacts
  <2> QED
    BY <1>3, <2>1, BoundsAreNumbers
<1> HIDE DEF k
<1>5. \A j \in Keys :
        /\ circle'[j] \in CircleRow /\ (circle[j].refused => circle'[j].refused)
        /\ circle[j].state # "new" => circle'[j].state = circle[j].state /\ circle'[j].deadline = circle[j].deadline
        /\ j # k => circle'[j] = circle[j]
        /\ answer = "refused" /\ j = k => circle'[j].refused
  <2> DEFINE taken == [[circle[k] EXCEPT !.state = "working"] EXCEPT !.deadline = requests[q].deadline]
             refused == [circle[k] EXCEPT !.refused = TRUE]
  <2>1. circle[k] \in CircleRow
    BY <1>2
  <2>2. taken \in CircleRow /\ taken.refused = circle[k].refused
    BY <1>2, <2>1 DEF CircleRow
  <2>3. /\ refused \in CircleRow /\ refused.refused /\ refused.state = circle[k].state
        /\ refused.deadline = circle[k].deadline
    BY <2>1 DEF CircleRow
  <2>4. \/ circle' = circle /\ answer # "refused"
        \/ circle[k].state = "new" /\ answer # "refused" /\ circle' = [circle EXCEPT ![k] = taken]
        \/ circle' = [circle EXCEPT ![k] = refused]
    BY <1>2, <1>3
  <2> HIDE DEF taken, refused
  <2> QED
    BY <1>2, <2>1, <2>2, <2>3, <2>4
<1>6. circle' \in [Keys -> CircleRow]
  <2>1. circle' = [j \in Keys |-> circle'[j]]
    BY <1>2, <1>3
  <2> QED
    BY <1>5, <2>1
<1>7. Grows
  BY <1>1, <1>5 DEF Grows, Keys
<1>8. answer = "refused" => circle'[k].refused
  BY <1>2, <1>5
<1>9. k = 2 => circle'[1].refused
  BY <1>2, <1>5 DEF Keys
<1>10. circle'[2].state # "new" => circle'[1].refused
  BY <1>2, <1>5, <1>9 DEF KeysSound, Keys
<1>11. PagesKept /\ RequestsGoOn
  <2>1. CASE GoOn(q, "store", k)
    <3>1. "store" \in Stages /\ "store" \notin Confirming /\ "store" \notin Identified
      BY DEF Stages, Confirming, Identified
    <3> QED
      BY <1>1, <1>2, <1>9, <2>1, <3>1, GoOnClaims
  <2>2. CASE EarnsKey(answer, k) /\ GoOn(q, "rotate", k)
    <3>1. "rotate" \in Stages /\ "rotate" \notin Confirming /\ "rotate" \notin Identified
      BY DEF Stages, Confirming, Identified
    <3>2. k = 1 /\ circle'[1].refused
      BY <1>2, <1>8, <2>2 DEF EarnsKey, Keys
    <3> QED
      BY <1>1, <1>2, <1>9, <2>2, <3>1, <3>2, GoOnClaims
  <2>3. CASE Ends(q, "nothing")
    BY <2>3, EndsMoves
  <2> QED
    BY <1>3, <2>1, <2>2, <2>3
<1>12. RegistrationSound'
  BY <1>1 DEF RegistrationSound
<1> QED
  BY <1>1, <1>2, <1>4, <1>6, <1>7, <1>10, <1>11, <1>12, SameRowInv

\* Moving to the second key keeps the invariant.
LEMMA RotateInv == ASSUME DeploymentInv, NEW q \in Requests, Rotate(q) PROVE DeploymentInv'
<1> USE DEF DeploymentInv
<1>1. /\ UNCHANGED <<deadline, quotes, charges, circle, registration, lost>> /\ FeeEvidenced' = FeeEvidenced
      /\ requests[q].at = "rotate"
  BY DEF Rotate, fees, provider, FeeEvidenced, Evidenced, Evident
<1>2. /\ row.status # "none" /\ requests[q].deadline = row.deadline /\ row \in DeploymentRow
      /\ circle' \in [Keys -> CircleRow] /\ registration' \in RegistrationRow /\ lost' \in 0..MaxLost
      /\ circle'[1].refused
  BY <1>1, RequestFacts DEF RequestSound
<1>3. CASE ~CanRotate /\ Ends(q, "nothing") /\ UNCHANGED row
  <2>1. PagesKept /\ RequestsGoOn
    BY <1>3, EndsMoves
  <2>2. Grows /\ RegistrationSound'
    BY <1>1, <1>3 DEF Grows, RegistrationSound
  <2> QED
    BY <1>1, <1>2, <1>3, <2>1, <2>2, SameRowInv
<1>4. CASE CanRotate /\ row' = [row EXCEPT !.key = row.key + 1] /\ GoOn(q, "submit", row.key + 1)
  <2>1. row.key = 1 /\ row.status = "accepted" /\ row.contract = 0
    BY <1>2, <1>4 DEF CanRotate, RowSound, Keys
  <2>2. /\ row' \in DeploymentRow /\ row'.key = 2 /\ row'.status = "accepted" /\ row'.contract = 0
        /\ row'.deadline = row.deadline
    BY <1>2, <1>4, <2>1 DEF DeploymentRow
  <2>3. PagesKept /\ RequestsGoOn
    <3>1. "submit" \in Stages /\ "submit" \notin Confirming /\ "submit" \notin Identified
      BY DEF Stages, Confirming, Identified
    <3>2. GoOn(q, "submit", 2) /\ 2 \in 0..2 /\ 2 \in Keys
      BY <1>4, <2>1 DEF Keys
    <3> QED
      BY <1>2, <2>2, <3>1, <3>2, GoOnClaims
  <2>4. Grows /\ RowSound' /\ RegistrationSound' /\ ConfirmedIsSound'
    BY <1>1, <2>1, <2>2 DEF Grows, RowSound, RegistrationSound, ConfirmedIsSound, Final, Keys
  <2> QED
    BY <1>1, <1>2, <2>2, <2>3, <2>4, RequestFrame
<1> QED
  BY <1>3, <1>4 DEF Rotate

\* Storing identifiers keeps the invariant.
LEMMA StoreInv == ASSUME DeploymentInv, NEW q \in Requests, Store(q) PROVE DeploymentInv'
<1> USE DEF DeploymentInv
<1> DEFINE k == requests[q].key
<1>1. /\ UNCHANGED <<deadline, quotes, charges, circle, registration, lost>> /\ FeeEvidenced' = FeeEvidenced
      /\ requests[q].at = "store"
  BY DEF Store, fees, provider, FeeEvidenced, Evidenced, Evident
<1>2. /\ row.status # "none" /\ requests[q].deadline = row.deadline /\ row \in DeploymentRow
      /\ circle' \in [Keys -> CircleRow] /\ registration' \in RegistrationRow /\ lost' \in 0..MaxLost
      /\ k \in Keys /\ k \in 0..2 /\ (k = 2 => circle'[1].refused)
  BY <1>1, RequestFacts DEF RequestSound
<1>3. "wait" \in Stages /\ "wait" \notin Confirming /\ "wait" # "rotate"
      /\ "wait" \notin {"await registration", "confirm"}
  BY DEF Stages, Confirming
<1>4. CASE UNCHANGED row
  <2>1. PagesKept /\ RequestsGoOn
    <3>1. CASE Ends(q, "nothing")
      BY <3>1, EndsMoves
    <3>2. CASE row.contract = k /\ GoOn(q, "wait", k)
      BY <1>2, <1>3, <1>4, <3>2, GoOnClaims
    <3>3. row.status # "accepted"
      BY <1>4, <1>2 DEF Store, RowSound, DeploymentRow, Final, Keys
    <3> QED
      BY <3>1, <3>2, <3>3 DEF Store
  <2>2. Grows /\ RegistrationSound' /\ (circle'[2].state # "new" => circle'[1].refused)
    BY <1>1, <1>4 DEF Grows, RegistrationSound, KeysSound
  <2> QED
    BY <1>1, <1>2, <1>4, <2>1, <2>2, SameRowInv
<1>5. CASE row.status = "accepted" /\ row' = [row EXCEPT !.contract = k, !.status = "pending"] /\ GoOn(q, "wait", k)
  <2>1. /\ row' \in DeploymentRow /\ row'.key = row.key /\ row'.status = "pending" /\ row'.contract = k
        /\ row'.deadline = row.deadline /\ row.contract = 0 /\ registration.state = "none"
    BY <1>2, <1>5 DEF DeploymentRow, RowSound, RegistrationSound, Final
  <2>2. PagesKept /\ RequestsGoOn
    BY <1>2, <1>3, <1>5, <2>1, GoOnClaims
  <2>3. Grows /\ RowSound' /\ RegistrationSound' /\ ConfirmedIsSound'
    BY <1>1, <1>2, <1>5, <2>1 DEF Grows, RowSound, RegistrationSound, ConfirmedIsSound, Final, Keys
  <2>4. row'.key = 2 \/ row'.contract = 2 \/ circle'[2].state # "new" => circle'[1].refused
    BY <1>1, <1>2, <2>1 DEF KeysSound
  <2> QED
    BY <1>1, <1>2, <2>1, <2>2, <2>3, <2>4, RequestFrame
<1> QED
  BY <1>4, <1>5 DEF Store

\* Waiting for Circle keeps the invariant.
LEMMA WaitInv == ASSUME DeploymentInv, NEW q \in Requests, Wait(q) PROVE DeploymentInv'
<1> USE DEF DeploymentInv
<1> DEFINE k == requests[q].key
<1>1. /\ UNCHANGED <<deadline, quotes, charges, circle, registration, lost>> /\ FeeEvidenced' = FeeEvidenced
      /\ requests[q].at = "wait"
  BY DEF Wait, fees, provider, FeeEvidenced, Evidenced, Evident
<1>2. /\ row.status # "none" /\ requests[q].deadline = row.deadline /\ row \in DeploymentRow
      /\ circle' \in [Keys -> CircleRow] /\ registration' \in RegistrationRow /\ lost' \in 0..MaxLost
      /\ k \in Keys /\ k \in 0..2 /\ (k = 2 => circle'[1].refused) /\ row.contract = k
  BY <1>1, RequestFacts DEF RequestSound, Identified
<1>3. "register" \in Stages /\ "register" # "rotate" /\ "register" \notin {"await registration", "confirm"}
  BY DEF Stages
<1>4. CASE UNCHANGED row
  <2>1. PagesKept /\ RequestsGoOn
    <3>1. CASE Ends(q, "settled") \/ Ends(q, "nothing")
      BY <3>1, EndsMoves
    <3>2. CASE /\ circle[k].state = "complete" /\ circle[k].deadline = requests[q].deadline
               /\ GoOn(q, "register", k)
      BY <1>1, <1>2, <1>3, <1>4, <3>2, GoOnClaims
    <3> QED
      BY <3>1, <3>2 DEF Wait
  <2>2. Grows /\ RegistrationSound' /\ (circle'[2].state # "new" => circle'[1].refused)
    BY <1>1, <1>4 DEF Grows, RegistrationSound, KeysSound
  <2> QED
    BY <1>1, <1>2, <1>4, <2>1, <2>2, SameRowInv
<1>5. CASE row.status \notin Final /\ row' = [row EXCEPT !.status = "failed"] /\ Ends(q, "settled")
  <2>1. /\ row' \in DeploymentRow /\ row'.key = row.key /\ row'.status = "failed"
        /\ row'.contract = row.contract /\ row'.deadline = row.deadline /\ row.contract # 0
    BY <1>2, <1>5 DEF DeploymentRow, Keys, Final
  <2>2. PagesKept /\ RequestsGoOn
    BY <1>5, EndsMoves
  <2>3. Grows /\ RowSound' /\ RegistrationSound' /\ ConfirmedIsSound'
    BY <1>1, <1>2, <1>5, <2>1 DEF Grows, RowSound, RegistrationSound, ConfirmedIsSound, Final, Keys
  <2>4. row'.key = 2 \/ row'.contract = 2 \/ circle'[2].state # "new" => circle'[1].refused
    BY <1>1, <1>2, <2>1 DEF KeysSound
  <2> QED
    BY <1>1, <1>2, <2>1, <2>2, <2>3, <2>4, RequestFrame
<1> QED
  BY <1>4, <1>5 DEF Wait

\* Registering the escrow keeps the invariant.
LEMMA RegisterInv == ASSUME DeploymentInv, NEW q \in Requests, Register(q) PROVE DeploymentInv'
<1> USE DEF DeploymentInv
<1> DEFINE k == requests[q].key
<1>1. /\ UNCHANGED <<deadline, quotes, charges, row, circle, lost>> /\ requests[q].at = "register"
      /\ registration' = IF registration.state # "none" THEN registration
                         ELSE [state |-> "working", contract |-> k]
      /\ GoOn(q, "await registration", k)
  BY DEF Register, fees
<1>2. /\ row'.status # "none" /\ requests[q].deadline = row'.deadline /\ circle' \in [Keys -> CircleRow]
      /\ lost' \in 0..MaxLost /\ k \in Keys /\ k \in 0..2 /\ (k = 2 => circle'[1].refused)
      /\ row'.contract = k /\ circle'[k].state = "complete" /\ circle'[k].deadline = requests[q].deadline
      /\ registration \in RegistrationRow
  BY <1>1, RequestFacts DEF RequestSound, Identified, Confirming
<1>3. "await registration" \in Stages /\ "await registration" \notin {"idle", "create", "rotate", "confirm"}
  BY DEF Stages
<1>4. /\ registration' \in RegistrationRow /\ registration'.state # "none"
      /\ registration.state # "none" => registration' = registration
      /\ registration.state = "none" => registration'.contract = k
  BY <1>1, <1>2 DEF RegistrationRow
<1>5. PagesKept /\ RequestsGoOn
  BY <1>1, <1>2, <1>3, <1>4, GoOnClaims
<1>6. Grows
  BY <1>1, <1>4 DEF Grows
<1>7. RegistrationSound'
  <2> HIDE DEF k
  <2>1. row' = row
    BY <1>1
  <2>2. k = 1 \/ k = 2
    BY <1>2 DEF Keys
  <2> QED
    BY <1>2, <1>4, <2>1, <2>2 DEF RegistrationSound
<1>8. circle'[2].state # "new" => circle'[1].refused
  BY <1>1 DEF KeysSound
<1> QED
  BY <1>1, <1>2, <1>4, <1>5, <1>6, <1>7, <1>8, SameRowInv

\* Waiting for the registration keeps the invariant.
LEMMA RegisteredInv == ASSUME DeploymentInv, NEW q \in Requests, Registered(q) PROVE DeploymentInv'
<1> USE DEF DeploymentInv
<1> DEFINE k == requests[q].key
<1>1. /\ UNCHANGED <<deadline, quotes, charges, row, circle, registration, lost>>
      /\ requests[q].at = "await registration"
      /\ \/ registration.state = "complete" /\ GoOn(q, "confirm", k)
         \/ Ends(q, "nothing")
  BY DEF Registered, fees, provider
<1>2. /\ row'.status # "none" /\ requests[q].deadline = row'.deadline /\ circle' \in [Keys -> CircleRow]
      /\ lost' \in 0..MaxLost /\ k \in Keys /\ k \in 0..2 /\ (k = 2 => circle'[1].refused)
      /\ row'.contract = k /\ circle'[k].state = "complete" /\ circle'[k].deadline = requests[q].deadline
      /\ registration' \in RegistrationRow /\ registration' = registration
  BY <1>1, RequestFacts DEF RequestSound, Identified, Confirming
<1>3. PagesKept /\ RequestsGoOn
  <2>1. CASE registration.state = "complete" /\ GoOn(q, "confirm", k)
    <3>1. "confirm" \in Stages /\ "confirm" \notin {"idle", "create", "rotate"}
      BY DEF Stages
    <3>2. registration'.state # "none" /\ registration'.state = "complete"
      BY <1>2, <2>1
    <3> QED
      BY <1>2, <2>1, <3>1, <3>2, GoOnClaims
  <2>2. CASE Ends(q, "nothing")
    BY <2>2, EndsMoves
  <2> QED
    BY <1>1, <2>1, <2>2
<1>4. Grows /\ RegistrationSound' /\ (circle'[2].state # "new" => circle'[1].refused)
  BY <1>1 DEF Grows, RegistrationSound, KeysSound
<1> QED
  BY <1>1, <1>2, <1>3, <1>4, SameRowInv

\* Confirming the row keeps the invariant.
LEMMA ConfirmInv == ASSUME DeploymentInv, NEW q \in Requests, Confirm(q) PROVE DeploymentInv'
<1> USE DEF DeploymentInv
<1> DEFINE k == requests[q].key
<1>1. /\ UNCHANGED <<deadline, quotes, charges, circle, registration, lost>> /\ FeeEvidenced' = FeeEvidenced
      /\ requests[q].at = "confirm" /\ deadline' = deadline /\ circle' = circle
      /\ registration' = registration
  BY DEF Confirm, fees, provider, FeeEvidenced, Evidenced, Evident
<1>2. /\ row.status # "none" /\ requests[q].deadline = row.deadline /\ row \in DeploymentRow
      /\ circle' \in [Keys -> CircleRow] /\ registration' \in RegistrationRow /\ lost' \in 0..MaxLost
      /\ k \in Keys /\ k \in 0..2 /\ row.contract = k
      /\ circle[k].state = "complete" /\ circle[k].deadline = row.deadline /\ circle[k] \in CircleRow
      /\ registration.state = "complete" /\ registration \in RegistrationRow
  BY <1>1, RequestFacts DEF RequestSound, Identified, Confirming
<1>3. CASE UNCHANGED row /\ Ends(q, "nothing")
  <2>1. PagesKept /\ RequestsGoOn
    BY <1>3, EndsMoves
  <2>2. Grows /\ RegistrationSound' /\ (circle'[2].state # "new" => circle'[1].refused)
    BY <1>1, <1>3 DEF Grows, RegistrationSound, KeysSound
  <2> QED
    BY <1>1, <1>2, <1>3, <2>1, <2>2, SameRowInv
<1>4. CASE /\ CanConfirm(k) /\ Ends(q, "settled")
           /\ row' = [row EXCEPT !.status = "confirmed", !.address = k]
  <2>1. /\ row' \in DeploymentRow /\ row'.key = row.key /\ row'.status = "confirmed"
        /\ row'.contract = k /\ row'.deadline = row.deadline /\ row'.address = k
        /\ row.deadline = deadline
    <3>1. row.deadline = deadline
      BY <1>4 DEF CanConfirm
    <3> HIDE DEF k
    <3> QED
      BY <1>2, <1>4, <3>1 DEF DeploymentRow, Final
  <2>2. PagesKept /\ RequestsGoOn
    BY <1>4, EndsMoves
  <2>3. registration = [state |-> "complete", contract |-> k]
    BY <1>2 DEF RegistrationSound, RegistrationRow
  <2>4. circle[k] \in [state : {"complete"}, refused : BOOLEAN, deadline : {deadline}]
    BY <1>2, <2>1 DEF CircleRow
  <2>5. FeeEvidenced
    BY <1>2 DEF RowSound
  <2>6. ConfirmedIsSound'
    BY <1>1, <2>1, <2>3, <2>4, <2>5 DEF ConfirmedIsSound
  <2>7. Grows /\ RowSound' /\ RegistrationSound'
    BY <1>1, <1>2, <2>1 DEF Grows, RowSound, RegistrationSound, Final, Keys
  <2>8. row'.key = 2 \/ row'.contract = 2 \/ circle'[2].state # "new" => circle'[1].refused
    BY <1>1, <1>2, <2>1 DEF KeysSound
  <2> QED
    BY <1>1, <1>2, <2>1, <2>2, <2>6, <2>7, <2>8, RequestFrame
<1> QED
  BY <1>3, <1>4 DEF Confirm

\* Losing a request keeps the invariant.
LEMMA LoseRequestInv == ASSUME DeploymentInv, NEW q \in Requests, LoseRequest(q) PROVE DeploymentInv'
<1> USE DEF DeploymentInv
<1>1. /\ UNCHANGED <<deadline, quotes, charges, row, circle, registration>> /\ Ends(q, "nothing")
      /\ lost' = lost + 1 /\ lost < MaxLost
  BY DEF LoseRequest, fees, provider
<1>2. circle' \in [Keys -> CircleRow] /\ registration' \in RegistrationRow
  BY <1>1, RequestFacts
<1>3. lost' \in 0..MaxLost
  BY <1>1, BoundsAreNumbers DEF TypeOK
<1>4. PagesKept /\ RequestsGoOn
  BY <1>1, EndsMoves
<1>5. Grows /\ RegistrationSound' /\ (circle'[2].state # "new" => circle'[1].refused)
  BY <1>1 DEF Grows, RegistrationSound, KeysSound
<1> QED
  BY <1>1, <1>2, <1>3, <1>4, <1>5, SameRowInv

\* Circle finishing its work keeps the invariant.
LEMMA CircleStepInv == ASSUME DeploymentInv, CircleStep PROVE DeploymentInv'
<1> USE DEF DeploymentInv
<1>1. /\ UNCHANGED <<deadline, quotes, charges, row, tabs, requests, lost>>
  BY DEF CircleStep, FinishDeployment, FinishRegistration, fees
<1>2. /\ circle \in [Keys -> CircleRow] /\ registration \in RegistrationRow /\ lost' \in 0..MaxLost
      /\ PagesKept /\ RequestsGoOn
  BY <1>1 DEF TypeOK, PagesKept, RequestsGoOn, CircleRow, RegistrationRow, RequestRow
<1>3. ASSUME NEW k \in Keys, FinishDeployment(k) PROVE DeploymentInv'
  <2>1. PICK outcome \in {"complete", "failed"} : circle' = [circle EXCEPT ![k].state = outcome]
    BY <1>3 DEF FinishDeployment
  <2>2. circle[k].state = "working" /\ registration' = registration
    BY <1>3 DEF FinishDeployment
  <2> DEFINE done == [circle[k] EXCEPT !.state = outcome]
  <2>3. circle' = [circle EXCEPT ![k] = done] /\ done \in CircleRow /\ done.refused = circle[k].refused
    BY <1>2, <2>1 DEF CircleRow
  <2> HIDE DEF done
  <2>4. /\ circle' \in [Keys -> CircleRow] /\ \A j \in Keys : circle'[j].refused = circle[j].refused
        /\ \A j \in Keys : j # k => circle'[j] = circle[j]
    BY <1>2, <2>3
  <2>5. Grows
    BY <1>1, <2>2, <2>4 DEF Grows, Keys
  <2>6. RegistrationSound' /\ (circle'[2].state # "new" => circle'[1].refused)
    BY <1>1, <2>2, <2>4 DEF RegistrationSound, KeysSound, Keys
  <2> QED
    BY <1>1, <1>2, <2>2, <2>4, <2>5, <2>6, SameRowInv
<1>4. ASSUME FinishRegistration PROVE DeploymentInv'
  <2>1. PICK outcome \in {"complete", "failed"} : registration' = [registration EXCEPT !.state = outcome]
    BY <1>4 DEF FinishRegistration
  <2>2. registration.state = "working" /\ circle' = circle
    BY <1>4 DEF FinishRegistration
  <2>3. /\ registration' \in RegistrationRow /\ registration'.state # "none"
        /\ registration'.contract = registration.contract
    BY <1>2, <2>1 DEF RegistrationRow
  <2>4. Grows /\ RegistrationSound' /\ (circle'[2].state # "new" => circle'[1].refused)
    BY <1>1, <2>2, <2>3 DEF Grows, RegistrationSound, KeysSound
  <2> QED
    BY <1>1, <1>2, <2>2, <2>3, <2>4, SameRowInv
<1> QED
  BY <1>3, <1>4 DEF CircleStep

-----------------------------------------------------------------------------
(***************************************************************************)
(* The theorems                                                            *)
(***************************************************************************)
\* Every step keeps the invariant.
LEMMA NextInv == DeploymentInv /\ [Next]_vars => DeploymentInv'
<1> SUFFICES ASSUME DeploymentInv, [Next]_vars PROVE DeploymentInv'
  OBVIOUS
<1>1. CASE FeeStep
  BY <1>1, GetQuoteInv, QuoteFallsDueInv, SendChargeInv, MineChargeInv, ChargeOtherInv,
     ChargeAnsweredInv, ChargeTimesOutInv, ObserveFeeInv, ReportChargeInv DEF FeeStep
<1>2. CASE \E t \in Tabs : LoadPage(t)
  BY <1>2, LoadPageInv
<1>3. CASE EditDeadline
  BY <1>3, EditDeadlineInv
<1>4. ASSUME NEW q \in Requests, RequestStep(q) \/ LoseRequest(q) \/ \E t \in Tabs : StartDeploy(q, t)
      PROVE  DeploymentInv'
  BY <1>4, CreateRecordInv, SubmitInv, RotateInv, StoreInv, WaitInv, RegisterInv, RegisteredInv,
     ConfirmInv, LoseRequestInv, StartDeployInv DEF RequestStep
<1>5. CASE CircleStep
  BY <1>5, CircleStepInv
<1>6. CASE UNCHANGED vars
  BY <1>6 DEF vars, fees, provider, DeploymentInv, TypeOK, RowSound, FeesSound, KeysSound, RegistrationSound,
              RequestSound, ConfirmedIsSound, FeeEvidenced, Evidenced, Evident
<1> QED
  BY <1>1, <1>2, <1>3, <1>4, <1>5, <1>6 DEF Next

\* The inductive invariant, for any number of pages and requests.
THEOREM DeploymentInvHolds == Spec => []DeploymentInv
  BY InitInv, NextInv, PTL DEF Spec

\* Rows, pages and requests keep their types.
THEOREM DeploymentTypeCorrect == Spec => []TypeOK
<1>1. DeploymentInv => TypeOK
  BY DEF DeploymentInv
<1> QED
  BY <1>1, DeploymentInvHolds, PTL

\* However many requests run, stop and are repeated, Circle deploys a second
\* contract for a program only after it refused the first attempt.
THEOREM SecondNeedsRefusalHolds == Spec => []SecondNeedsRefusal
<1>1. DeploymentInv => SecondNeedsRefusal
  <2> SUFFICES ASSUME DeploymentInv, ~circle[1].refused PROVE ~(Cardinality(Deployed) > 1)
    BY DEF SecondNeedsRefusal
  <2>1. circle[2].state = "new"
    BY DEF DeploymentInv, KeysSound
  <2>2. Deployed = {} \/ Deployed = {1}
    BY <2>1 DEF Deployed, Keys
  <2>3. Cardinality({}) = 0 /\ Cardinality({1}) = 1
    BY FS_EmptySet, FS_Singleton
  <2> QED
    BY <2>2, <2>3
<1> QED
  BY <1>1, DeploymentInvHolds, PTL

\* A confirmed escrow is finished, registered and locked until the program's
\* present deadline, and a quote of it is paid on evidence of some charge.
THEOREM ConfirmedIsSoundHolds == Spec => []ConfirmedIsSound
<1>1. DeploymentInv => ConfirmedIsSound
  BY DEF DeploymentInv
<1> QED
  BY <1>1, DeploymentInvHolds, PTL

\* Recorded identifiers stay, and a settled deployment stays as it is.
THEOREM IdentifiersKeptHolds == Spec => IdentifiersKept
<1> DEFINE Kept == /\ row.contract # 0 => row'.contract = row.contract /\ row'.key = row.key
                   /\ row.status \in Final => row' = row
<1>1. DeploymentInv /\ [Next]_vars => [Kept]_vars
  <2> SUFFICES ASSUME DeploymentInv, Next PROVE Kept
    OBVIOUS
  <2>1. /\ row \in DeploymentRow /\ (row.contract # 0 <=> row.status \in {"pending"} \cup Final)
        /\ row.status = "confirmed" => row.address = row.contract
    BY DEF DeploymentInv, TypeOK, RowSound, ConfirmedIsSound
  <2>2. CASE UNCHANGED row
    BY <2>2
  <2>3. ASSUME NEW q \in Requests, CreateRecord(q) \/ Rotate(q) \/ Store(q) PROVE Kept
    BY <2>1, <2>3 DEF CreateRecord, Rotate, CanRotate, Store, Final
  <2>4. ASSUME NEW q \in Requests, Wait(q) PROVE Kept
    BY <2>1, <2>4 DEF Wait, Final, DeploymentRow
  <2>5. ASSUME NEW q \in Requests, Confirm(q) PROVE Kept
    BY <2>1, <2>5 DEF Confirm, CanConfirm, Final, DeploymentRow
  <2> QED
    BY <2>2, <2>3, <2>4, <2>5 DEF Next, FeeStep, GetQuote, SendCharge, ChargeAnswered, ChargeTimesOut,
       ObserveFee, ReportCharge, QuoteFallsDue, MineCharge, ChargeOther, LoadPage, EditDeadline, RequestStep, Submit, Register,
       Registered, LoseRequest, StartDeploy, CircleStep, FinishDeployment, FinishRegistration
<1> QED
  BY <1>1, DeploymentInvHolds, PTL DEF Spec, IdentifiersKept
=============================================================================
