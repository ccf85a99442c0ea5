---------------------------- MODULE MCAuditChain ----------------------------
(***************************************************************************)
(* Instances of AuditChain for TLC.  Two instances are the least that race *)
(* for a seq; two rows the least with a prefix worth caching and a row     *)
(* after it; two contents the least that an edit can tell apart.           *)
(***************************************************************************)
EXTENDS AuditChain, TLC

\* Instances and contents are interchangeable; no liveness is checked here.
Symmetry == Permutations(Instances) \cup Permutations(Contents)
=============================================================================
