----------------------------- MODULE MCGateway -----------------------------
(***************************************************************************)
(* Instance of Gateway for TLC: two tenants and a table for one bucket, so *)
(* that the second bucket triggers pruning; budgets of none and of two     *)
(* calls in a window of two ticks; policies that allow and that hold.      *)
(***************************************************************************)
EXTENDS Gateway, TLC

CONSTANTS Generous, Cautious

MCVerdict == Generous :> "ALLOW" @@ Cautious :> "REVIEW"
Symmetry == Permutations(Brands)
=============================================================================
