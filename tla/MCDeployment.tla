---------------------------- MODULE MCDeployment ----------------------------
(* TLC instances of Deployment. *)
EXTENDS Deployment, TLC

CONSTANTS tab1, tab2, q1, q2

OneTab      == {tab1}
TwoTabs     == {tab1, tab2}
OneRequest  == {q1}
TwoRequests == {q1, q2}
=============================================================================
