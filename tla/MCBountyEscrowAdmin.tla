------------------------ MODULE MCBountyEscrowAdmin -------------------------
(* TLC instance of BountyEscrowAdmin: two addresses for escrows, so that   *)
(* both may carry the same program key or the other controller.            *)
EXTENDS BountyEscrowAdmin, TLC

CONSTANTS owner, admin, other, researcher, r1, h, p1, p2, e1, e2

MCOwners    == {owner}
MCAccounts  == {owner, admin, other}
MCReports   == {r1}
MCWallets   == {researcher}
MCHashes    == {h}
MCPrograms == {p1, p2}
MCEscrows   == {e1, e2}
MCFee       == {1}

Symmetry == Permutations(MCEscrows) \cup Permutations(MCPrograms)
=============================================================================
