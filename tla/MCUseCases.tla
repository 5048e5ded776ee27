----------------------------- MODULE MCUseCases -----------------------------
(* Small instances of UseCases for TLC. *)
EXTENDS UseCases, TLC

CONSTANTS c1, c2, x1, x2, m1, m2, st1, st2, o1, o2, o3
=============================================================================
