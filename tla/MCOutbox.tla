------------------------------ MODULE MCOutbox ------------------------------
(* The instances of Outbox that TLC checks. *)
EXTENDS Outbox, TLC

CONSTANTS w1, w2, p1, p2, s1, s2, ra, rb

\* Two sources with one record each; the filter keeps the first one's.
MCSourceOf == (ra :> s1) @@ (rb :> s2)

\* Sessions behave alike, and so do pulls.
Symmetry == Permutations(Writer) \cup Permutations(Puller)
=============================================================================
