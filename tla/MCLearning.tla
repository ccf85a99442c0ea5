---------------------------- MODULE MCLearning ----------------------------
(***************************************************************************)
(* Instances of Learning for TLC.  Two brands show what a cursor per brand *)
(* is for; two inputs let an outcome be recorded before a run of the job   *)
(* and another one during it or after it.  The outcome overrules the first *)
(* signal and the last, the proposal pulls every weight past its drift and *)
(* the first one to its floor; rounding leaves a residual of both.         *)
(***************************************************************************)
EXTENDS Learning, TLC

Overruled == {[approved |-> TRUE, high |-> {1, 5}]}
Drifting == {<<0, 9000, 9000, 9000, 9000>>}

Symmetry == Permutations(Brands)
=============================================================================
