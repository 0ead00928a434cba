--------------------------- MODULE EscrowPromise ----------------------------
(***************************************************************************)
(* What a program escrow promises, without counters, clocks or flags.  A   *)
(* pot of uncommitted money is funded by anyone.  A promise takes its      *)
(* amount out of the pot when it is made, names one recipient for ever,    *)
(* and is honoured at most once and, since anyone may honour it, always in *)
(* the end.  The owner may take money back only out of the pot and only    *)
(* when no promise is open.                                                *)
(***************************************************************************)
EXTENDS Naturals

CONSTANTS ReportKeys, Recipients, Owner

VARIABLES
  pot,       \* money that backs no promise
  promise,   \* what each report was promised, and whether it was honoured
  paidTo     \* what each recipient got

vars == <<pot, promise, paidTo>>

Unmade == [state |-> "unmade"]

Open(to, amount) == [state |-> "open", to |-> to, amount |-> amount]

Honoured(to, amount) == [state |-> "honoured", to |-> to, amount |-> amount]

Init ==
  /\ pot = 0
  /\ promise = [k \in ReportKeys |-> Unmade]
  /\ paidTo = [r \in Recipients |-> 0]

Fund ==
  /\ pot' \in Nat
  /\ pot' > pot
  /\ UNCHANGED <<promise, paidTo>>

Commit(k) ==
  /\ promise[k] = Unmade
  /\ \E to \in Recipients, amount \in 1..pot :
       /\ promise' = [promise EXCEPT ![k] = Open(to, amount)]
       /\ pot' = pot - amount
  /\ UNCHANGED paidTo

Honour(k) ==
  /\ promise[k].state = "open"
  /\ LET to     == promise[k].to
         amount == promise[k].amount
     IN  /\ promise' = [promise EXCEPT ![k] = Honoured(to, amount)]
         /\ paidTo' = [paidTo EXCEPT ![to] = @ + amount]
  /\ UNCHANGED pot

Refund ==
  /\ \A k \in ReportKeys : promise[k].state # "open"
  /\ \E amount \in 1..pot :
       /\ pot' = pot - amount
       /\ paidTo' = [paidTo EXCEPT ![Owner] = @ + amount]
  /\ UNCHANGED promise

Next == Fund \/ Refund \/ \E k \in ReportKeys : Commit(k) \/ Honour(k)

Spec == Init /\ [][Next]_vars
=============================================================================
