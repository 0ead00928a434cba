------------------------ MODULE MCRewardSettlement --------------------------
(* TLC instances of RewardSettlement. *)
EXTENDS RewardSettlement, TLC

CONSTANTS owner, admin, researcher, r1, r2, h, p1, q1, q2

MCAccounts == {owner, admin}
MCPrograms == {p1}
MCWallets  == {researcher}
MCHashes   == {h}
OneReport  == {r1}
TwoReports == {r1, r2}
OneRequest == {q1}
TwoRequests == {q1, q2}
Unit       == {1}
UnitOrTwo  == {1, 2}
MCHashOf   == [k \in ReportKeys |-> h]
MCWalletOf == [k \in ReportKeys |-> researcher]

Symmetry == Permutations(Requests) \cup Permutations(ReportKeys)
=============================================================================
