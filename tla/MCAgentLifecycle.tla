-------------------------- MODULE MCAgentLifecycle --------------------------
(***************************************************************************)
(* Instances of AgentLifecycle for TLC.  Three agents: one the switch has  *)
(* paused, one that was held before and one that nobody knows.             *)
(***************************************************************************)
EXTENDS AgentLifecycle, TLC

\* Agents are interchangeable; no liveness is checked here.
Symmetry == Permutations(Agents)
=============================================================================
