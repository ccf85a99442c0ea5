--------------------------- MODULE MCIdempotency ---------------------------
(***************************************************************************)
(* Instances of Idempotency for TLC.  Two calls with one retry each are    *)
(* the least in which a late attempt meets its own retry and the attempt   *)
(* of another call with the same key.                                      *)
(***************************************************************************)
EXTENDS Idempotency, TLC

\* Clients, keys and bodies are interchangeable.
Symmetry == Permutations(Clients) \cup Permutations(Keys) \cup Permutations(Bodies)
=============================================================================
