--------------------------- MODULE FundingIntent ----------------------------
(***************************************************************************)
(* Funding one escrow: an intent is created, one browser tab claims and    *)
(* arms its destination attempt and prompts the wallet, the transfer's     *)
(* hash reaches the server or is lost, and a reconcile request verifies    *)
(* the transfer, has Circle send syncExternalFunding and credits the pool. *)
(* What arrives outside an intent is credited by the scan that precedes a  *)
(* withdrawal.  Five parties interleave:                                   *)
(*                                                                         *)
(*   - the owner's tabs (program-lifecycle.tsx): each runs one operation   *)
(*     and re-reads the intent when it continues; one that was closed or   *)
(*     reloaded, and has lost its claim tokens, is one that never moves    *)
(*     again, the reloaded page another of Tabs;                           *)
(*   - the API's reconcile requests (EscrowService.reconcileFunding), each *)
(*     holding the row it read first, lost at any await;                   *)
(*   - the database: one atomic SQL function per repository call;          *)
(*   - Circle, which sends the sync once per idempotency key;              *)
(*   - the chain, which mines or reverts what the wallet sent.             *)
(*                                                                         *)
(* Every transfer moves one unit, an intent's gross amount.  A transaction *)
(* hash is an index in `txs', an attempt_no an index in `ops', the key of  *)
(* a sync <<intent, n>> for the n-th sync_idempotency_key.  A claim token  *)
(* is <<tab, attempt it was drawn for>>: a tab keeps it while it is open.  *)
(* Source collection is ready when the intent is created and quotes are    *)
(* fresh whenever they are needed.                                         *)
(***************************************************************************)
EXTENDS Naturals, Sequences, FiniteSets

CONSTANTS
  Tabs,          \* browser tabs the owner opens, one after another or together
  Requests,      \* reconcile requests in flight at once
  Routes,        \* routes an intent may take
  MaxIntents,    \* bound: intents ever created
  MaxAttempts,   \* bound: destination attempts per intent
  MaxTransfers,  \* bound: transactions the wallet ever sends
  MaxSyncs,      \* bound: sync idempotency keys per intent
  MaxReverts,    \* bound: transfers that revert
  MaxLost        \* bound: requests lost at an await and leases that lapse under a running one

ASSUME FundingConstants ==
  /\ Routes \subseteq {"send", "bridge", "unified_balance"}
  /\ {MaxIntents, MaxAttempts, MaxTransfers, MaxReverts, MaxLost} \subseteq Nat
  /\ MaxSyncs \in Nat \ {0}
  /\ "none" \notin Tabs
  /\ Requests \cap {"none", "gone"} = {}

VARIABLES
  txs,          \* every destination transaction, in the order of sending
  totalFunded,  \* the contract's counter
  circle,       \* the sync transaction of each key
  intents,      \* funding_intents with their operations
  rows,         \* escrow_transactions of type funding_sync
  late,         \* escrow_transactions of type funding (late reconciliation)
  total_pool,   \* programs.total_pool
  ended,        \* the program is expired or closed
  tabs, requests,
  scanned,      \* transfers before late_funding_scanned_through_block
  lost          \* requests lost and leases lapsed so far

database == <<intents, rows, late, total_pool>>
chain == <<txs, totalFunded, circle>>
vars == <<chain, database, ended, tabs, requests, scanned, lost>>

-----------------------------------------------------------------------------
(***************************************************************************)
(* Data                                                                    *)
(***************************************************************************)
Signing == {"ready_to_sign", "awaiting_signature"}

\* funding_intents_one_active_per_escrow
Active == Signing \cup {"source_submitted", "destination_submitted", "delivery_pending",
                        "verifying_destination", "syncing_pool", "sync_failed"}

Final == {"complete", "cancelled"}

NoToken == <<"none", 0>>

NoLease == [holder |-> "none", live |-> FALSE]

Attempt == [status |-> "awaiting_signature", token |-> NoToken, tx |-> 0, reverted |-> FALSE]

NewIntent(route) ==
  [route |-> route, status |-> "ready_to_sign", dest |-> 0, expired |-> FALSE,
   lease |-> NoLease, key |-> 1, sync |-> 0, verified |-> 0, pre |-> totalFunded, ops |-> <<>>]

Keys == (1..MaxIntents) \X (1..MaxSyncs)

\* Whether the wallet returned the hash of t, to the tab that keeps it.
Known(t) == txs[t].tab # "none"

Arrived == {t \in DOMAIN txs : txs[t].outcome = "success"}

\* Transfers the program's pool has been credited for.
Credited == late \cup {r.tx : r \in rows}

\* funding_operations_one_active_destination_attempt: at most one.
OpenAttempts(i) == {n \in DOMAIN intents[i].ops : intents[i].ops[n].status # "failed"}

\* Whether intent i may take an active status.
Unrivalled(i) == \A j \in DOMAIN intents \ {i} : intents[j].status \notin Active

\* Intent i with its attempt n replaced, in status s with destination d.
Moved(i, n, attempt, s, d) ==
  [intents EXCEPT ![i] = [@ EXCEPT !.ops[n] = attempt, !.status = s, !.dest = d]]

IdleTab == [at |-> "idle", intent |-> 0, attempt |-> 0, armed |-> 0, tx |-> 0]

IdleRequest == [at |-> "idle", intent |-> 0, dest |-> 0, syncing |-> FALSE, key |-> 0]

Init ==
  /\ txs = <<>>
  /\ totalFunded = 0
  /\ circle = [k \in Keys |-> "none"]
  /\ intents = <<>>
  /\ rows = {}
  /\ late = {}
  /\ total_pool = 0
  /\ ended = FALSE
  /\ tabs = [b \in Tabs |-> IdleTab]
  /\ requests = [p \in Requests |-> IdleRequest]
  /\ scanned = {}
  /\ lost = 0

-----------------------------------------------------------------------------
(***************************************************************************)
(* The chain and Circle                                                    *)
(***************************************************************************)
Reverted == {t \in DOMAIN txs : txs[t].outcome = "reverted"}

Mine(t) ==
  /\ txs[t].outcome = "pending"
  /\ \/ txs' = [txs EXCEPT ![t].outcome = "success"]
     \/ /\ Cardinality(Reverted) < MaxReverts
        /\ txs' = [txs EXCEPT ![t].outcome = "reverted"]
  /\ UNCHANGED <<totalFunded, circle, database, ended, tabs, requests, scanned, lost>>

\* syncExternalFunding counts everything that has arrived; it never reverts.
\* Circle may also give the transaction up, while another key is left.
RunSync(k) ==
  /\ circle[k] = "pending"
  /\ \/ /\ circle' = [circle EXCEPT ![k] = "success"]
        /\ totalFunded' = Cardinality(Arrived)
     \/ /\ k[2] < MaxSyncs
        /\ circle' = [circle EXCEPT ![k] = "failed"]
        /\ UNCHANGED totalFunded
  /\ UNCHANGED <<txs, database, ended, tabs, requests, scanned, lost>>

-----------------------------------------------------------------------------
(***************************************************************************)
(* Intents                                                                 *)
(***************************************************************************)
\* Expired intents without operations give way; the index allows one active
\* intent per escrow.
CreateFundingIntent(route) ==
  LET stale == {i \in DOMAIN intents : /\ intents[i].status \in Signing
                                       /\ intents[i].expired
                                       /\ intents[i].dest = 0
                                       /\ intents[i].ops = <<>>} IN
  /\ ~ended
  /\ Len(intents) < MaxIntents
  /\ \A i \in DOMAIN intents \ stale : intents[i].status \notin Active
  /\ intents' = Append([i \in DOMAIN intents |->
                          IF i \in stale THEN [intents[i] EXCEPT !.status = "cancelled"]
                                         ELSE intents[i]],
                       NewIntent(route))
  /\ UNCHANGED <<chain, rows, late, total_pool, ended, tabs, requests, scanned, lost>>

Expire(i) ==
  /\ ~intents[i].expired
  /\ intents' = [intents EXCEPT ![i].expired = TRUE]
  /\ UNCHANGED <<chain, rows, late, total_pool, ended, tabs, requests, scanned, lost>>

CanCancel(i) ==
  /\ intents[i].status \notin Final
  /\ intents[i].dest = 0
  /\ \A n \in DOMAIN intents[i].ops :
       intents[i].ops[n].tx = 0 /\ intents[i].ops[n].status \in {"awaiting_signature", "failed"}

CancelFundingIntent(i) ==
  /\ CanCancel(i)
  /\ intents' = [intents EXCEPT ![i].status = "cancelled", ![i].lease = NoLease,
                   ![i].ops = [n \in DOMAIN @ |-> [@[n] EXCEPT !.status = "failed"]]]
  /\ UNCHANGED <<chain, rows, late, total_pool, ended, tabs, requests, scanned, lost>>

EndProgram ==
  /\ ~ended
  /\ ended' = TRUE
  /\ UNCHANGED <<chain, database, tabs, requests, scanned, lost>>

-----------------------------------------------------------------------------
(***************************************************************************)
(* A tab: continueFundingOperation.  It re-reads the active intent, claims *)
(* an attempt unless the intent shows one, arms it and prompts the wallet. *)
(***************************************************************************)
Owns(b, i, n) == intents[i].ops[n].token = <<b, n>>

Goes(b, at) == tabs' = [tabs EXCEPT ![b].at = at]

Drops(b) == tabs' = [tabs EXCEPT ![b] = IdleTab]

\* The hashes the wallet returned to tab b and the server has not taken: the
\* page and the local storage keep them until it has.
Unobserved(b, i) ==
  {t \in DOMAIN txs : /\ txs[t].intent = i /\ txs[t].tab = b
                      /\ \A n \in DOMAIN intents[i].ops : intents[i].ops[n].tx # t}

MaySign(b, i) == Unobserved(b, i) = {}

\* A tab signs in the signing phases, unless it keeps a hash to observe first.
\* In source_submitted it does so again when it holds the claim token of the
\* open attempt.
ContinueFunding(b, i) ==
  /\ tabs[b].at = "idle"
  /\ \/ /\ intents[i].status \in Signing
        /\ MaySign(b, i)
        /\ \/ \E n \in OpenAttempts(i) :
                tabs' = [tabs EXCEPT ![b] = [IdleTab EXCEPT !.at = "arm", !.intent = i, !.attempt = n]]
           \/ /\ OpenAttempts(i) = {}
              /\ tabs' = [tabs EXCEPT ![b] = [IdleTab EXCEPT !.intent = i,
                            !.at = IF intents[i].ops = <<>> THEN "claim" ELSE "replace"]]
     \/ /\ intents[i].status = "source_submitted"
        /\ intents[i].dest = 0
        /\ MaySign(b, i)
        /\ \E n \in OpenAttempts(i) :
             /\ Owns(b, i, n)
             /\ tabs' = [tabs EXCEPT ![b] = [IdleTab EXCEPT !.at = "arm", !.intent = i, !.attempt = n]]
     \/ /\ intents[i].dest = 0
        /\ \E t \in Unobserved(b, i), n \in OpenAttempts(i) :
             /\ Owns(b, i, n)
             /\ tabs' = [tabs EXCEPT ![b] = [IdleTab EXCEPT !.at = "observe", !.intent = i,
                                                            !.attempt = n, !.tx = t]]
  /\ UNCHANGED <<chain, database, ended, requests, scanned, lost>>

ClaimAttempt(b) ==
  LET i == tabs[b].intent
      open == OpenAttempts(i) IN
  /\ tabs[b].at = "claim"
  /\ \/ /\ intents[i].status \notin Final
        /\ intents[i].ops = <<>>
        /\ intents' = [intents EXCEPT ![i].ops = <<Attempt>>, ![i].status = "awaiting_signature"]
        /\ tabs' = [tabs EXCEPT ![b].at = "arm", ![b].attempt = 1]
     \/ /\ intents[i].status \notin Final
        /\ \E n \in open : tabs' = [tabs EXCEPT ![b].at = "arm", ![b].attempt = n]
        /\ UNCHANGED intents
     \/ /\ intents[i].status \in Final \/ (intents[i].ops # <<>> /\ open = {})
        /\ Drops(b)
        /\ UNCHANGED intents
  /\ UNCHANGED <<chain, rows, late, total_pool, ended, requests, scanned, lost>>

CanReplace(i) ==
  /\ intents[i].status \notin Final
  /\ intents[i].route = "send"
  /\ OpenAttempts(i) = {}
  /\ intents[i].ops # <<>>
  /\ intents[i].ops[Len(intents[i].ops)].reverted

\* An open attempt that replaces an earlier one is returned as it is.
CreateReplacement(b) ==
  LET i == tabs[b].intent
      n == Len(intents[i].ops)
      linked == {m \in OpenAttempts(i) : m > 1 /\ intents[i].status \notin Final
                                           /\ intents[i].route = "send"} IN
  /\ tabs[b].at = "replace"
  /\ \/ /\ CanReplace(i) /\ n < MaxAttempts
        /\ intents' = [intents EXCEPT ![i].ops = Append(@, Attempt), ![i].dest = 0,
                                      ![i].status = "ready_to_sign", ![i].lease = NoLease]
        /\ tabs' = [tabs EXCEPT ![b].at = "arm", ![b].attempt = n + 1]
     \/ /\ \E m \in linked : tabs' = [tabs EXCEPT ![b].at = "arm", ![b].attempt = m]
        /\ UNCHANGED intents
     \/ /\ ~CanReplace(i) /\ linked = {}
        /\ Drops(b)
        /\ UNCHANGED intents
  /\ UNCHANGED <<chain, rows, late, total_pool, ended, requests, scanned, lost>>

CanArm(i, n) ==
  /\ intents[i].ops[n].status = "awaiting_signature"
  /\ intents[i].ops[n].token = NoToken
  /\ intents[i].ops[n].tx = 0
  /\ intents[i].dest = 0

\* Bug variant of Rearmed: whoever armed it.
RearmedByAny(i, n, token) == intents[i].ops[n].status = "submission_uncertain"

\* Arming an attempt armed with this very token succeeds again: the response
\* to the first call may have been lost.
Rearmed(i, n, token) ==
  /\ intents[i].ops[n].token = token
  /\ intents[i].ops[n].status = "submission_uncertain"

\* The server arms the open attempt, whichever one the tab meant.
ArmAttempt(b) ==
  LET i == tabs[b].intent
      token == <<b, tabs[b].attempt>> IN
  /\ tabs[b].at = "arm"
  /\ \/ \E n \in OpenAttempts(i) :
          /\ CanArm(i, n)
          /\ Unrivalled(i)
          /\ intents' = Moved(i, n, [intents[i].ops[n] EXCEPT !.token = token,
                                       !.status = "submission_uncertain"],
                              "source_submitted", intents[i].dest)
          /\ tabs' = [tabs EXCEPT ![b].at = "wallet", ![b].armed = n] \/ Drops(b)
     \/ /\ \E n \in OpenAttempts(i) :
             /\ Rearmed(i, n, token)
             /\ tabs' = [tabs EXCEPT ![b].at = "wallet", ![b].armed = n]
        /\ UNCHANGED intents
     \/ /\ \A n \in OpenAttempts(i) :
             ~Rearmed(i, n, token) /\ ~(CanArm(i, n) /\ Unrivalled(i))
        /\ Drops(b)
        /\ UNCHANGED intents
  /\ UNCHANGED <<chain, rows, late, total_pool, ended, requests, scanned, lost>>

Sends(b, known) ==
  /\ Len(txs) < MaxTransfers
  /\ txs' = Append(txs, [intent |-> tabs[b].intent, attempt |-> tabs[b].armed,
                        tab |-> IF known THEN b ELSE "none", outcome |-> "pending"])

\* The wallet returns the hash (unless the tab is closed first), is rejected,
\* or fails without saying whether it sent.  Only a rejected send is known not
\* to have been submitted.
PromptWallet(b) ==
  /\ tabs[b].at = "wallet"
  /\ \/ Sends(b, TRUE) /\ tabs' = [tabs EXCEPT ![b].at = "observe", ![b].tx = Len(txs) + 1]
     \/ Sends(b, FALSE) /\ Goes(b, "unsure")
     \/ Goes(b, "unsure") /\ UNCHANGED txs
     \/ /\ intents[tabs[b].intent].route = "send"
        /\ Goes(b, "rejected")
        /\ UNCHANGED txs
  /\ UNCHANGED <<totalFunded, circle, database, ended, requests, scanned, lost>>

\* observe_claimed_funding_destination, outcome `submitted'.  It looks at the
\* attempt, never at the intent's status.
CanObserve(b, i, n, t) ==
  /\ Owns(b, i, n)
  /\ intents[i].ops[n].status # "failed"
  /\ intents[i].ops[n].tx \in {0, t}
  /\ intents[i].dest \in {0, t}
  /\ Unrivalled(i)

ObserveDestination(b) ==
  LET i == tabs[b].intent
      n == tabs[b].attempt
      t == tabs[b].tx IN
  /\ tabs[b].at = "observe"
  /\ \/ /\ CanObserve(b, i, n, t)
        /\ intents' = Moved(i, n, [intents[i].ops[n] EXCEPT !.tx = t, !.status = "pending"],
                            "delivery_pending", t)
        /\ Drops(b)
     \/ /\ ~CanObserve(b, i, n, t)
        /\ \/ tabs[b].armed # 0 /\ Goes(b, "unsure")
           \/ tabs[b].armed = 0 /\ Drops(b)
        /\ UNCHANGED intents
  /\ UNCHANGED <<chain, rows, late, total_pool, ended, requests, scanned, lost>>

\* observe_claimed_funding_destination, outcome `submission_uncertain'.
ReportUncertain(b) ==
  LET i == tabs[b].intent
      n == tabs[b].attempt IN
  /\ tabs[b].at = "unsure"
  /\ intents' = [intents EXCEPT ![i].status =
                   IF /\ Owns(b, i, n) /\ Unrivalled(i)
                      /\ intents[i].ops[n].status = "submission_uncertain"
                   THEN "source_submitted" ELSE @]
  /\ Drops(b)
  /\ UNCHANGED <<chain, rows, late, total_pool, ended, requests, scanned, lost>>

CanRelease(b, i, n) ==
  /\ Owns(b, i, n)
  /\ intents[i].ops[n].status = "submission_uncertain"
  /\ intents[i].dest = 0
  /\ Unrivalled(i)

ReleaseRejected(b) ==
  LET i == tabs[b].intent
      n == tabs[b].attempt IN
  /\ tabs[b].at = "rejected"
  /\ \/ /\ CanRelease(b, i, n)
        /\ intents' = Moved(i, n, [intents[i].ops[n] EXCEPT !.status = "awaiting_signature",
                                                            !.token = NoToken],
                            "awaiting_signature", 0)
        /\ Drops(b)
     \/ /\ ~CanRelease(b, i, n)
        /\ Goes(b, "unsure")
        /\ UNCHANGED intents
  /\ UNCHANGED <<chain, rows, late, total_pool, ended, requests, scanned, lost>>

\* The owner pastes a hash the wallet shows, or a tab finds one it keeps; the
\* server does not ask which of the intent's attempts it was sent for.
AttachDestinationHash(i, n, t) ==
  /\ txs[t].intent = i
  /\ intents[i].ops[n].tx = 0
  /\ intents[i].ops[n].status = "submission_uncertain"
  /\ intents[i].dest \in {0, t}
  /\ Unrivalled(i)
  /\ intents' = Moved(i, n, [intents[i].ops[n] EXCEPT !.tx = t, !.status = "submitted"],
                      "destination_submitted", t)
  /\ UNCHANGED <<chain, rows, late, total_pool, ended, tabs, requests, scanned, lost>>

-----------------------------------------------------------------------------
(***************************************************************************)
(* A reverted destination, met by a recovery check or by a reconcile       *)
(* request: the attempt fails and the intent is open again.                *)
(***************************************************************************)
DestinationFailed(i, n) ==
  LET op == intents[i].ops[n] IN
  [intents EXCEPT ![i] = [@ EXCEPT
     !.ops[n] = [op EXCEPT !.status = "failed", !.reverted = TRUE],
     !.dest = IF intents[i].dest = op.tx THEN 0 ELSE intents[i].dest,
     !.status = IF intents[i].route = "send" THEN "ready_to_sign" ELSE "source_submitted",
     !.lease = NoLease]]

\* Bug variant of HasReverted: a revert of any attempt will do.
AnyReverted(i, n) == \E m \in DOMAIN intents[i].ops : intents[i].ops[m].tx \in Reverted

HasReverted(i, n) == intents[i].ops[n].tx \in Reverted

CheckFundingRecovery(i, n) ==
  /\ HasReverted(i, n)
  /\ intents[i].ops[n].status # "failed"
  /\ Unrivalled(i)
  /\ intents' = DestinationFailed(i, n)
  /\ UNCHANGED <<chain, rows, late, total_pool, ended, tabs, requests, scanned, lost>>

-----------------------------------------------------------------------------
(***************************************************************************)
(* reconcileFunding                                                        *)
(***************************************************************************)
Steps(p, at) == requests' = [requests EXCEPT ![p].at = at]

\* A request that ends leaves the lease it holds to lapse.
Ends(p, db) ==
  /\ requests' = [requests EXCEPT ![p] = IdleRequest]
  /\ intents' = [i \in DOMAIN db |->
                   IF db[i].lease.holder = p THEN [db[i] EXCEPT !.lease.holder = "gone"] ELSE db[i]]

Holds(p, i) == intents[i].lease.holder = p /\ intents[i].lease.live

StartReconcile(p, i) ==
  /\ requests[p].at = "idle"
  /\ intents[i].status # "complete"
  /\ intents[i].dest # 0
  /\ requests' = [requests EXCEPT ![p] = [at |-> "claim", intent |-> i, dest |-> intents[i].dest,
                    syncing |-> intents[i].status = "syncing_pool", key |-> 0]]
  /\ UNCHANGED <<chain, database, ended, tabs, scanned, lost>>

ClaimReconciliation(p) ==
  LET i == requests[p].intent
      lapsed == intents[i].expired /\ intents[i].dest = 0 IN
  /\ requests[p].at = "claim"
  /\ \/ /\ intents[i].status \in Final \/ (~lapsed /\ intents[i].lease.live)
        /\ Ends(p, intents)
     \/ /\ intents[i].status \notin Final /\ lapsed
        /\ Ends(p, [intents EXCEPT ![i].status = "cancelled"])
     \/ /\ intents[i].status \notin Final /\ ~lapsed /\ ~intents[i].lease.live
        /\ intents' = [intents EXCEPT ![i].status = "verifying_destination",
                                      ![i].lease = [holder |-> p, live |-> TRUE]]
        /\ Steps(p, "verify")
  /\ UNCHANGED <<chain, rows, late, total_pool, ended, tabs, scanned, lost>>

RevertedAttempts(i, t) == {n \in DOMAIN intents[i].ops : intents[i].ops[n].tx = t}

\* The receipt of the transaction of the row read first.  A row that was
\* syncing_pool then is not marked again, although claiming has reset it.
VerifyDestination(p) ==
  LET i == requests[p].intent
      t == requests[p].dest
      marked == intents[i].lease.holder = p /\ intents[i].status = "verifying_destination" IN
  /\ requests[p].at = "verify"
  /\ \/ /\ txs[t].outcome = "pending"
        /\ Ends(p, intents)
     \/ /\ txs[t].outcome = "reverted"
        /\ \/ \E n \in RevertedAttempts(i, t) :
                intents[i].dest = t /\ Unrivalled(i) /\ Ends(p, DestinationFailed(i, n))
           \/ (intents[i].dest # t \/ ~Unrivalled(i)) /\ Ends(p, intents)
     \/ /\ txs[t].outcome = "success"
        /\ \/ requests[p].syncing /\ Steps(p, "read") /\ UNCHANGED intents
           \/ /\ ~requests[p].syncing /\ marked
              /\ intents' = [intents EXCEPT ![i].status = "syncing_pool"]
              /\ Steps(p, "read")
           \/ ~requests[p].syncing /\ ~marked /\ Ends(p, intents)
  /\ UNCHANGED <<chain, rows, late, total_pool, ended, tabs, scanned, lost>>

ReadSync(p) ==
  LET i == requests[p].intent IN
  /\ requests[p].at = "read"
  /\ requests' = [requests EXCEPT ![p].at = IF intents[i].sync = 0 THEN "submit" ELSE "wait",
                    ![p].key = IF intents[i].sync = 0 THEN intents[i].key ELSE intents[i].sync]
  /\ UNCHANGED <<chain, database, ended, tabs, scanned, lost>>

\* Circle sends once per idempotency key.
SubmitSync(p) ==
  LET k == <<requests[p].intent, requests[p].key>> IN
  /\ requests[p].at = "submit"
  /\ circle' = [circle EXCEPT ![k] = IF @ = "none" THEN "pending" ELSE @]
  /\ Steps(p, "store")
  /\ UNCHANGED <<txs, totalFunded, database, ended, tabs, scanned, lost>>

CanStore(p, i) ==
  /\ Holds(p, i)
  /\ intents[i].status = "syncing_pool"
  /\ intents[i].sync \in {0, requests[p].key}

StoreSync(p) ==
  LET i == requests[p].intent IN
  /\ requests[p].at = "store"
  /\ \/ /\ CanStore(p, i)
        /\ intents' = [intents EXCEPT ![i].sync = requests[p].key]
        /\ Steps(p, "wait")
     \/ ~CanStore(p, i) /\ Ends(p, intents)
  /\ UNCHANGED <<chain, rows, late, total_pool, ended, tabs, scanned, lost>>

\* Bug variant of CanFailSync: a sync that is still pending counts as failed.
CanFailSyncEarly(p, i, k) == Holds(p, i) /\ intents[i].sync = k[2]

CanFailSync(p, i, k) ==
  circle[k] = "failed" /\ Holds(p, i) /\ intents[i].sync = k[2]

AwaitSync(p) ==
  LET i == requests[p].intent
      k == <<i, requests[p].key>> IN
  /\ requests[p].at = "wait"
  /\ \/ /\ circle[k] = "success"
        /\ Steps(p, "credit")
        /\ UNCHANGED intents
     \/ /\ CanFailSync(p, i, k)
        /\ Ends(p, [intents EXCEPT ![i].status = "sync_failed", ![i].sync = 0,
                                   ![i].key = @ + 1, ![i].lease = NoLease])
     \/ /\ circle[k] = "failed" /\ ~CanFailSync(p, i, k)
        /\ Ends(p, intents)
  /\ UNCHANGED <<chain, rows, late, total_pool, ended, tabs, scanned, lost>>

Recorded(key) == \E r \in rows : r.key = key

CanReconcile(p, i, t) ==
  /\ intents[i].status # "complete"
  /\ totalFunded >= intents[i].pre + 1
  /\ Holds(p, i)
  /\ intents[i].dest = t
  /\ intents[i].verified \in {0, t}
  /\ \A j \in DOMAIN intents \ {i} : intents[j].verified # t

\* Bug variant of NewlyCredited: the late-funding scan is forgotten.
NewlyCreditedAlways(t) == 1

\* A transfer the late-funding scan has credited is not credited again.
NewlyCredited(t) == IF t \in late THEN 0 ELSE 1

ReconcileFunding(p) ==
  LET i == requests[p].intent
      t == requests[p].dest
      key == <<i, requests[p].key>> IN
  /\ requests[p].at = "credit"
  /\ \/ /\ CanReconcile(p, i, t) /\ ~Recorded(key)
        /\ rows' = rows \cup {[key |-> key, tx |-> t]}
        /\ total_pool' = total_pool + NewlyCredited(t)
        /\ Ends(p, [intents EXCEPT ![i].status = "complete", ![i].verified = t,
                                   ![i].lease = NoLease])
     \/ /\ CanReconcile(p, i, t) /\ Recorded(key)
        /\ Ends(p, [intents EXCEPT ![i].verified = t])
        /\ UNCHANGED <<rows, total_pool>>
     \/ /\ ~CanReconcile(p, i, t)
        /\ Ends(p, intents)
        /\ UNCHANGED <<rows, total_pool>>
  /\ UNCHANGED <<chain, late, ended, tabs, scanned, lost>>

LoseRequest(p) ==
  /\ requests[p].at # "idle"
  /\ lost < MaxLost
  /\ lost' = lost + 1
  /\ Ends(p, intents)
  /\ UNCHANGED <<chain, rows, late, total_pool, ended, tabs, scanned>>

\* A lease outlasts its request unless the process stalls.
LeaseLapses(i) ==
  /\ intents[i].lease.live
  /\ \/ intents[i].lease.holder = "gone" /\ UNCHANGED lost
     \/ intents[i].lease.holder # "gone" /\ lost < MaxLost /\ lost' = lost + 1
  /\ intents' = [intents EXCEPT ![i].lease.live = FALSE]
  /\ UNCHANGED <<chain, rows, late, total_pool, ended, tabs, requests, scanned>>

-----------------------------------------------------------------------------
(***************************************************************************)
(* Late funding: preparing a withdrawal of an ended program scans the      *)
(* transfers to the escrow from the cursor (or again from before it), and  *)
(* later credits those no intent claims: it may have missed the latest.    *)
(* The cursor moves last, or not at all when the request is lost.          *)
(***************************************************************************)
\* Bug variant of Claimed: only an intent that is still open claims its transfer.
ClaimedWhileOpen(t) == \E i \in DOMAIN intents : intents[i].status \in Active /\ intents[i].dest = t

\* Bug variant of Claimed: an intent claims a transfer it never learnt of.
ClaimedUnseen(t) == \E i \in DOMAIN intents : txs[t].intent = i

Claimed(t) == \E i \in DOMAIN intents : intents[i].dest = t \/ intents[i].verified = t

ReconcileLateFunding(seen, again) ==
  LET found == {t \in again \cup (seen \ scanned) : ~Claimed(t)} \ late IN
  /\ ended
  /\ scanned \subseteq seen
  /\ late' = late \cup found
  /\ total_pool' = total_pool + Cardinality(found)
  /\ scanned' \in {scanned, seen}
  /\ UNCHANGED <<chain, intents, rows, ended, tabs, requests, lost>>

LateFunding ==
  \E seen \in SUBSET Arrived, again \in {{}, scanned} : ReconcileLateFunding(seen, again)

-----------------------------------------------------------------------------
ReconcileStep(p) ==
  \/ \E i \in DOMAIN intents : StartReconcile(p, i)
  \/ ClaimReconciliation(p) \/ VerifyDestination(p) \/ ReadSync(p) \/ SubmitSync(p)
  \/ StoreSync(p) \/ AwaitSync(p) \/ ReconcileFunding(p)

TabStep(b) ==
  \/ \E i \in DOMAIN intents : ContinueFunding(b, i)
  \/ ClaimAttempt(b) \/ CreateReplacement(b) \/ ArmAttempt(b) \/ PromptWallet(b)
  \/ ObserveDestination(b) \/ ReportUncertain(b) \/ ReleaseRejected(b)

IntentStep(i) ==
  \/ Expire(i) \/ CancelFundingIntent(i) \/ LeaseLapses(i)
  \/ \E n \in DOMAIN intents[i].ops :
       \/ CheckFundingRecovery(i, n)
       \/ \E t \in DOMAIN txs : AttachDestinationHash(i, n, t)

Next ==
  \/ \E t \in DOMAIN txs : Mine(t)
  \/ \E k \in Keys : RunSync(k)
  \/ \E route \in Routes : CreateFundingIntent(route)
  \/ \E i \in DOMAIN intents : IntentStep(i)
  \/ \E b \in Tabs : TabStep(b)
  \/ \E p \in Requests : ReconcileStep(p) \/ LoseRequest(p)
  \/ EndProgram \/ LateFunding

Spec == Init /\ [][Next]_vars

\* The owner comes back until the intent completes (the API asks for it after
\* every lost request), withdraws once the program has ended, and the
\* transactions that were sent are mined or given up.
FairSpec ==
  /\ Spec
  /\ \A t \in 1..MaxTransfers : WF_vars(t \in DOMAIN txs /\ Mine(t))
  /\ \A k \in Keys : WF_vars(RunSync(k))
  /\ \A p \in Requests : WF_vars(ReconcileStep(p))
  /\ \A i \in 1..MaxIntents : WF_vars(i \in DOMAIN intents /\ LeaseLapses(i))
  /\ WF_vars(EndProgram)
  /\ WF_vars(ReconcileLateFunding(Arrived, {}))

-----------------------------------------------------------------------------
(***************************************************************************)
(* Properties                                                              *)
(***************************************************************************)
Outcome == {"pending", "success", "reverted"}

TransactionType ==
  [intent : Nat, attempt : Nat, tab : Tabs \cup {"none"}, outcome : Outcome]

AttemptType ==
  [status : {"awaiting_signature", "submission_uncertain", "submitted", "pending", "failed"},
   token : {NoToken} \cup (Tabs \X Nat), tx : Nat, reverted : BOOLEAN]

IntentType ==
  [route : Routes, status : Active \cup Final, dest : Nat, expired : BOOLEAN,
   lease : [holder : Requests \cup {"none", "gone"}, live : BOOLEAN],
   key : Nat, sync : Nat, verified : Nat, pre : Nat, ops : Seq(AttemptType)]

TabType ==
  [at : {"idle", "claim", "replace", "arm", "wallet", "observe", "unsure", "rejected"},
   intent : Nat, attempt : Nat, armed : Nat, tx : Nat]

RequestType ==
  [at : {"idle", "claim", "verify", "read", "submit", "store", "wait", "credit"},
   intent : Nat, dest : Nat, syncing : BOOLEAN, key : Nat]

TablesOK ==
  /\ txs \in Seq(TransactionType)
  /\ totalFunded \in Nat
  /\ circle \in [Keys -> {"none", "pending", "success", "failed"}]
  /\ intents \in Seq(IntentType)
  /\ rows \subseteq [key : Keys, tx : DOMAIN txs]
  /\ late \subseteq DOMAIN txs
  /\ total_pool \in Nat
  /\ \A i \in DOMAIN intents :
       /\ {intents[i].dest, intents[i].verified} \subseteq {0} \cup DOMAIN txs
       /\ intents[i].status \in Active => Unrivalled(i)

CallersOK ==
  /\ tabs \in [Tabs -> TabType]
  /\ \A b \in Tabs : tabs[b].at # "idle" =>
       /\ tabs[b].intent \in DOMAIN intents
       /\ tabs[b].at \notin {"claim", "replace"} => tabs[b].attempt \in DOMAIN intents[tabs[b].intent].ops
       /\ tabs[b].at = "observe" => tabs[b].tx \in DOMAIN txs
  /\ requests \in [Requests -> RequestType]
  /\ \A p \in Requests : requests[p].at # "idle" =>
       requests[p].intent \in DOMAIN intents /\ requests[p].dest \in DOMAIN txs

\* Tables, chain, tabs and requests keep their types and refer only to what
\* exists: every recorded hash is one the wallet sent, every tab and request
\* works on an intent and an attempt there is, one intent at most is active.
TypeOK == TablesOK /\ CallersOK

\* A transfer counts once: the pool is the number of transfers it was credited
\* for, all of them on chain, though an intent's own reconciliation and the
\* late-funding scan may both come across the same one.
CreditedOnce ==
  /\ total_pool = Cardinality(Credited)
  /\ Credited \subseteq Arrived

\* Only a wallet that failed without saying whether it sent is ever prompted
\* again for the attempt: a transfer whose hash the wallet returned, to a tab
\* since closed, reloaded or raced by another, is the attempt's last.
KnownNeverRepeated ==
  \A t, u \in DOMAIN txs :
    /\ txs[t].intent = txs[u].intent
    /\ txs[t].attempt = txs[u].attempt
    /\ t < u
    => ~Known(t)

\* "This screen will never submit another Send while the attempt is
\* uncertain": an attempt has one transaction.
NeverResubmits ==
  \A t, u \in DOMAIN txs :
    txs[t].intent = txs[u].intent /\ txs[t].attempt = txs[u].attempt => t = u

\* Whatever requests are lost, overtaken or overtaking, an intent has one sync
\* transaction that was not given up.
SyncedOnce ==
  \A i \in 1..MaxIntents : Cardinality({n \in 1..MaxSyncs : circle[<<i, n>>] \in {"pending", "success"}}) <= 1

\* Once the hash of a successful transfer is recorded as an intent's
\* destination, no late answer, replacement or expiry takes it away.
DestinationKept ==
  [][\A i \in DOMAIN intents :
       intents[i].dest \in Arrived => intents'[i].dest = intents[i].dest]_vars

\* The owner can cancel only what moved nothing: no transaction of the intent
\* the wallet returned is on its way or has arrived.
CancelMovesNothing ==
  [][\A i \in DOMAIN intents : CancelFundingIntent(i) =>
       \A t \in DOMAIN txs : txs[t].intent = i /\ Known(t) => t \in Reverted]_vars

\* An intent that is complete stays complete.
CompleteIsFinal ==
  [][\A i \in DOMAIN intents :
       intents[i].status = "complete" => intents'[i].status = "complete"]_vars

\* Every transfer that arrives is credited in the end, by its intent or, when
\* no intent came to know it, before the first withdrawal.
TransfersCredited == \A t \in 1..MaxTransfers : t \in Arrived ~> t \in Credited

\* Funding implements the ledger: transfers arrive, and are credited once.
Ledger == INSTANCE FundingLedger WITH
  Transfers <- 1..MaxTransfers, arrived <- Arrived, credited <- Credited, pool <- total_pool

ImplementsLedger == Ledger!LedgerSpec
=============================================================================
