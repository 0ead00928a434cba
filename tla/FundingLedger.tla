--------------------------- MODULE FundingLedger ----------------------------
(***************************************************************************)
(* What crediting an escrow's funding promises, without intents, tabs,     *)
(* leases or relays: transfers arrive at the escrow, each is credited to   *)
(* the program's pool at most once and only after it arrived, and the pool *)
(* is the number of transfers credited (every transfer moves one unit).    *)
(***************************************************************************)
EXTENDS Naturals, FiniteSets

CONSTANT Transfers

VARIABLES arrived, credited, pool

ledgerVars == <<arrived, credited, pool>>

LedgerInit == arrived = {} /\ credited = {} /\ pool = 0

Arrive(t) ==
  /\ t \notin arrived
  /\ arrived' = arrived \cup {t}
  /\ UNCHANGED <<credited, pool>>

Credit(T) ==
  /\ T \subseteq arrived \ credited
  /\ credited' = credited \cup T
  /\ pool' = pool + Cardinality(T)
  /\ UNCHANGED arrived

LedgerNext == (\E t \in Transfers : Arrive(t)) \/ (\E T \in SUBSET Transfers : Credit(T))

LedgerSpec == LedgerInit /\ [][LedgerNext]_ledgerVars
=============================================================================
