--------------------------- MODULE MCReviewQueue ---------------------------
(***************************************************************************)
(* Instances of ReviewQueue for TLC.  Two workers are the least that race, *)
(* two reviews the least whose records collide in the audit table, two     *)
(* humans the least that satisfy the two-person rule.                      *)
(***************************************************************************)
EXTENDS ReviewQueue, TLC

\* Workers, reviews and humans are interchangeable; no liveness is checked here.
Symmetry == Permutations(Workers) \cup Permutations(Reviews) \cup Permutations(Reviewers)
=============================================================================
