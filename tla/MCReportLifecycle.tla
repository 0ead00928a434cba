------------------------- MODULE MCReportLifecycle --------------------------
(* TLC instance of ReportLifecycle: two reports, so that each may be the   *)
(* other's original, and two requests about one of them, so that its edits *)
(* and wallet changes cross.                                               *)
EXTENDS ReportLifecycle, TLC

CONSTANTS r1, r2, q1, q2, t1, t2

MCReports  == {r1, r2}
OneReport  == {r1}
OneRequest == {q1}
MCRequests == {q1, q2}
MCTexts    == {t1, t2}
OneText    == {t1}

AboutOne    == [q \in MCRequests |-> r1]
OneAboutOne == [q \in OneRequest |-> r1]

\* The reports are not interchangeable: the requests are about one of them.
Symmetry == Permutations(MCRequests) \cup Permutations(MCTexts)
=============================================================================
