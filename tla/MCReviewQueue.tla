--------------------------- MODULE MCReviewQueue ---------------------------
(* Small instances of ReviewQueue for TLC.  No symmetry set: the run checks *)
(* liveness.                                                                *)
EXTENDS ReviewQueue

CONSTANTS c1, c2, r1, r2, l1, l2
=============================================================================
