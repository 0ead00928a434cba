--------------------------- MODULE MCBountyEscrow ---------------------------
(* TLC instance of BountyEscrow: two reports, two wallets, one of them the *)
(* owner's, and callers with and without a role.                            *)
EXTENDS BountyEscrow, TLC

CONSTANTS owner, controller, anyone, researcher, r1, r2, h, prog

MCAccounts == {owner, controller, anyone}
MCReports  == {r1, r2}
MCWallets  == {owner, researcher}
MCHashes   == {h}
MCPrograms == {prog}
=============================================================================
