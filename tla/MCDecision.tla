----------------------------- MODULE MCDecision -----------------------------
(***************************************************************************)
(* An instance of Decision for TLC.  The figures stand on both sides of    *)
(* every limit of the demo brand (2,000 / 10,000 / 10,000), of a stricter  *)
(* one, and of every threshold of the engines.                             *)
(***************************************************************************)
EXTENDS Decision

MCAmounts == {0, 500, 2500, 10000, 12000}

Regular == [orders |-> 14, value |-> 20000, refunds |-> 0, refunded |-> 0,
            chargebacks |-> 0, age |-> 400, vip |-> TRUE]
Frequent == [Regular EXCEPT !.refunds = 2, !.refunded = 15000]
Disputed == [Regular EXCEPT !.chargebacks = 1, !.vip = FALSE]
Newcomer == [orders |-> 2, value |-> 900, refunds |-> 2, refunded |-> 900,
             chargebacks |-> 0, age |-> 3, vip |-> FALSE]
Abuser == [Newcomer EXCEPT !.refunds = 4, !.chargebacks = 2]
MCCustomers == {Regular, Frequent, Disputed, Newcomer, Abuser}

Fresh == [total |-> 12000, age |-> 5, shipped |-> FALSE, mine |-> TRUE, local |-> TRUE]
MCOrders == {Fresh,
             [Fresh EXCEPT !.age = 45, !.shipped = TRUE],
             [Fresh EXCEPT !.total = 2000],
             [Fresh EXCEPT !.mine = FALSE],
             [Fresh EXCEPT !.local = FALSE]}

Standard == [level |-> 1, denied |-> {}, cap |-> None, hourly |-> None, quarantined |-> FALSE]
MCAgents == {Standard,
             [Standard EXCEPT !.quarantined = TRUE],
             [Standard EXCEPT !.cap = 5000, !.hourly = 4, !.denied = {"discount"}]}

Demo == [auto |-> 2000, low |-> 10000, review |-> 10000, ratio |-> 100, window |-> 30,
         cancelShipped |-> FALSE, level |-> 1, refunds |-> 3, blockChargebacks |-> TRUE,
         minAge |-> 0, discount |-> 30]
Strict == [Demo EXCEPT !.auto = 400, !.review = 2500, !.ratio = 50, !.minAge = 30]
MCPolicies == {Demo, Strict}

MCConversations == {{}, {"urgent_pressure"}, {"role_hijack"},
                    {"role_hijack", "urgent_pressure"},
                    {"instruction_override", "role_hijack", "urgent_pressure"}}

Quiet == [t \in ActionType |-> 0]
MCVelocities == {Quiet, [Quiet EXCEPT !["refund"] = 3, !["discount"] = 1]}
=============================================================================
