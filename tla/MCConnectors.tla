---------------------------- MODULE MCConnectors ----------------------------
(***************************************************************************)
(* Instance of Connectors for TLC: a refund of an order, and store credit, *)
(* which names no order and is not among the actions verify compares.      *)
(***************************************************************************)
EXTENDS Connectors
=============================================================================
