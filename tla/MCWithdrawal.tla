--------------------------- MODULE MCWithdrawal ----------------------------
(* TLC instances of Withdrawal. *)
EXTENDS Withdrawal, TLC

CONSTANTS owner, admin, researcher, r1, h, p1, q1, q2, tab1, tab2

MCAccounts  == {owner, admin}
MCPrograms  == {p1}
MCWallets   == {researcher}
MCHashes    == {h}
NoReports   == {}
OneReport   == {r1}
OneRequest  == {q1}
OtherRequest == {q2}
TwoRequests == {q1, q2}
OneTab      == {tab1}
TwoTabs     == {tab1, tab2}

Symmetry == Permutations(TwoRequests) \cup Permutations(TwoTabs)
=============================================================================
