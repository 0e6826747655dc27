----------------------------- MODULE MCBackfill -----------------------------
(* The instance of Backfill that TLC checks. *)
EXTENDS Backfill, TLC

\* Records behave alike.
Symmetry == Permutations(Records)
=============================================================================
