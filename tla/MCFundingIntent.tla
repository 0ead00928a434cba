-------------------------- MODULE MCFundingIntent ---------------------------
(* TLC instances of FundingIntent. *)
EXTENDS FundingIntent, TLC

CONSTANTS b1, b2, q1, q2

OneTab      == {b1}
TwoTabs     == {b1, b2}
OneRequest  == {q1}
TwoRequests == {q1, q2}
SendOnly    == {"send"}
AllRoutes   == {"send", "bridge", "unified_balance"}
SendOrSpend == {"send", "unified_balance"}

Symmetry == Permutations(Tabs) \cup Permutations(Requests)
=============================================================================
