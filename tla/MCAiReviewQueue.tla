--------------------------- MODULE MCAiReviewQueue ---------------------------
(* TLC instances of AiReviewQueue. *)
EXTENDS AiReviewQueue, TLC

CONSTANTS r1, r2, p1, c1, c2, w1, w2

OneReport   == {r1}
TwoReports  == {r1, r2}
OneContent  == {c1}
TwoContents == {c1, c2}
OneWorker   == {w1}
TwoWorkers  == {w1, w2}
OneProgram  == [r \in Reports |-> p1]

Symmetry == Permutations(Workers) \cup Permutations(Contents)
=============================================================================
