---------------------------- MODULE PolicyPacks ----------------------------
(***************************************************************************)
(* PolicyPackStore of policy_store.py: versioned policies per brand, of    *)
(* which at most one is in force.  A pack is known by its serial number,   *)
(* its place in packs; packs are never deleted.  The lock of the store     *)
(* makes each method one step.                                             *)
(***************************************************************************)
EXTENDS Tenants, Sequences

CONSTANTS Policies,
          MaxPacks      \* bound of the instance

ASSUME PacksAreBounded == MaxPacks \in Nat

VARIABLES packs,        \* _packs, in the order of _seq
          active        \* _active: the pack in force, 0 for none

packStore == <<packs, active>>

Pack == [brand : Brands, version : Nat, policy : Policies, state : {"active", "archived"}]

PacksInit == packs = <<>> /\ active = [b \in Brands |-> 0]

Versions(b) == {packs[i].version : i \in {j \in DOMAIN packs : packs[j].brand = b}} \cup {0}
\* _next_version_locked
NextVersion(b) == 1 + CHOOSE v \in Versions(b) : \A w \in Versions(b) : w <= v

\* create: a new pack is born "active"; it is in force only if none was.
Create(b, policy) ==
    /\ Len(packs) < MaxPacks
    /\ packs' = Append(packs, [brand |-> b, version |-> NextVersion(b),
                               policy |-> policy, state |-> "active"])
    /\ active' = IF active[b] = 0 THEN [active EXCEPT ![b] = Len(packs')] ELSE active

Activate(i) ==
    /\ packs' = [packs EXCEPT ![i].state = "active"]
    /\ active' = [active EXCEPT ![packs[i].brand] = i]

\* archive: a brand whose pack in force is archived has none.
ArchiveOnly(i) ==
    /\ packs' = [packs EXCEPT ![i].state = "archived"]
    /\ UNCHANGED active
Archive(i) ==
    /\ packs' = [packs EXCEPT ![i].state = "archived"]
    /\ active' = [b \in Brands |-> IF active[b] = i THEN 0 ELSE active[b]]

\* resolve: the pack in force, or the policy the request brought along.
Resolve(b, requested) == IF active[b] = 0 THEN requested ELSE packs[active[b]].policy
=============================================================================
