------------------------------ MODULE Decision ------------------------------
(***************************************************************************)
(* The decision pipeline of the firewall: from the facts of one request to *)
(* the record the audit chain keeps of it.  Context, blast radius, agent   *)
(* authorization, policy and risk are functions of the request; evaluate   *)
(* combines them, and nothing it computes depends on earlier requests.     *)
(*                                                                         *)
(* Money is in whole units, ratios are in hundredths and scores in ten-    *)
(* thousandths, the precision the engines quantize their factors to.       *)
(***************************************************************************)
EXTENDS Integers, FiniteSetsExt

CONSTANTS Amounts, Customers, Orders, Agents, Policies,
          Conversations,   \* sets of manipulation patterns a customer's turns match
          Velocities,      \* trailing action counts a gateway may report
          None             \* no order, or no cap

ActionType == {"refund", "replacement", "cancel_order", "update_shipping",
               "discount", "store_credit", "price_override"}
RefundLike == {"refund", "store_credit"}
HighValueActions == {"refund", "store_credit", "price_override"}
AlwaysReviewActions == {"price_override"}
Pattern == {"instruction_override", "role_hijack", "false_authority", "audit_lobby",
            "urgent_pressure", "context_switch"}
Levels == 0..3

Customer == [orders : Nat, value : Nat, refunds : Nat, refunded : Nat,
             chargebacks : Nat, age : Nat, vip : BOOLEAN]
\* mine: it is of the customer the action names, or the action names none; local: in
\* the currency of the action.
Order == [total : Nat \ {0}, age : Nat, shipped : BOOLEAN, mine : BOOLEAN, local : BOOLEAN]
Agent == [level : Levels, denied : SUBSET ActionType, cap : (Nat \ {0}) \cup {None},
          hourly : (Nat \ {0}) \cup {None}, quarantined : BOOLEAN]
Policy == [auto : Nat, low : Nat, review : Nat, ratio : Nat, window : Nat,
           cancelShipped : BOOLEAN, level : Levels, refunds : Nat,
           blockChargebacks : BOOLEAN, minAge : Nat, discount : Nat]
\* recent_action_counts; a type that is not reported counts as 0 everywhere.
Velocity == [ActionType -> Nat]

ASSUME DecisionAssumption ==
    /\ Amounts \subseteq Nat
    /\ Customers \subseteq Customer
    /\ Orders \subseteq Order
    /\ Agents \subseteq Agent
    /\ Policies \subseteq Policy
    /\ Conversations \subseteq SUBSET Pattern
    /\ Velocities \subseteq Velocity
    /\ None \notin Nat \cup Order

Requests ==
    [type : ActionType, amount : Amounts, customer : Customers, order : Orders \cup {None},
     namesOrder : BOOLEAN, agent : Agents, policy : Policies, said : Conversations,
     velocity : Velocities]

VARIABLES request,   \* the last request decided
          record     \* the audit record of its decision

vars == <<request, record>>

Least(a, b) == IF a < b THEN a ELSE b
Most(a, b) == IF a > b THEN a ELSE b
AtMost1(score) == Least(score, 10000)
\* n / d to four places, half to even (Decimal.quantize), never above 1.
Fraction(n, d) ==
    LET q == (n * 10000) \div d
        r == (n * 10000) % d
    IN  IF n >= d THEN 10000
        ELSE IF 2 * r > d \/ (2 * r = d /\ q % 2 = 1) THEN q + 1 ELSE q
----------------------------------------------------------------------------
(* Context: what is refused before any engine runs, and the history.        *)

\* A positive amount for actions that move money; the order, if one is named, is
\* there, and of the customer the action names, if it names one.
WellBound(r) ==
    /\ r.type \in HighValueActions => r.amount > 0
    /\ r.order = None => ~r.namesOrder
    /\ r.order # None => r.order.mine

NewAccount(c) == c.age <= 7
Trust(c) ==
    LET raw == 5000
               + (IF c.orders >= 10 THEN 1500 ELSE 0) + (IF c.orders >= 25 THEN 1000 ELSE 0)
               + (IF c.age >= 365 THEN 1000 ELSE IF NewAccount(c) THEN -2000 ELSE 0)
               + (IF c.vip THEN 1000 ELSE 0)
               - Least(2500 * c.chargebacks, 5000)
    IN  Most(0, AtMost1(raw))
RefundFrequency(c) == IF c.orders > 0 THEN Fraction(c.refunds, c.orders) ELSE 0
\* Four fifths of the refund intensity, as the behavioral factor uses it.
FourFifthsIntensity(c) ==
    IF c.value = 0 THEN 0
    ELSE IF c.refunded >= c.value THEN 8000 ELSE Fraction(4 * c.refunded, 5 * c.value)
----------------------------------------------------------------------------
(* Risk: five weighted factors, a band, and the injection floor.            *)

PatternWeight == [instruction_override |-> 4000, role_hijack |-> 3000,
                  false_authority |-> 3000, audit_lobby |-> 2000,
                  urgent_pressure |-> 1000, context_switch |-> 2500]

\* Each distinct pattern counts once; pressure alone counts half.
InjectionScore(said) ==
    IF said = {"urgent_pressure"} THEN 500
    ELSE AtMost1(MapThenSumSet(LAMBDA p : PatternWeight[p], said))
InjectionVerdict(said) ==
    CASE InjectionScore(said) >= 4000 -> "injected"
      [] InjectionScore(said) > 0 /\ InjectionScore(said) < 4000 -> "suspicious"
      [] OTHER -> "clean"

ValueSize(r) ==
    IF \/ r.policy.review = 0
       \/ r.order # None /\ r.type \in HighValueActions /\ r.amount > r.order.total
    THEN 10000
    ELSE Fraction(r.amount, r.policy.review)

CustomerHistory(c) == AtMost1(10000 - Trust(c) + (IF NewAccount(c) THEN 1000 ELSE 0))

Behavioral(r) ==
    LET c == r.customer
        base == Most(RefundFrequency(c), FourFifthsIntensity(c))
        prior == IF c.refunds >= 2 THEN AtMost1(base + 1000) ELSE base
    IN  IF r.velocity["refund"] >= 3 THEN AtMost1(prior + 2000) ELSE prior

Sensitivity == [refund |-> 4000, store_credit |-> 4000, price_override |-> 5000,
                update_shipping |-> 3500, cancel_order |-> 3000, discount |-> 3000,
                replacement |-> 2000]

\* In millionths: the weights are hundredths and add up to 1.
RiskScore(r) ==
    30 * ValueSize(r) + 20 * CustomerHistory(r.customer) + 25 * InjectionScore(r.said)
    + 15 * Behavioral(r) + 10 * Sensitivity[r.type]

Bands == <<"low", "medium", "high", "critical">>
BandRank(band) == CHOOSE i \in 1..4 : Bands[i] = band
BandFor(score) ==
    CASE score < 300000 -> "low"
      [] score >= 300000 /\ score < 550000 -> "medium"
      [] score >= 550000 /\ score < 800000 -> "high"
      [] OTHER -> "critical"

NoFloor(said) == "low"
InjectionFloor(said) ==
    CASE InjectionVerdict(said) # "injected" -> "low"
      [] InjectionScore(said) >= 8000 -> "critical"
      [] OTHER -> "high"
RiskBand(r) == Bands[Most(BandRank(BandFor(RiskScore(r))), BandRank(InjectionFloor(r.said)))]
----------------------------------------------------------------------------
(* Policy: eleven checks, the names of those that fail, and their severity. *)

CriticalFailures(r) ==
    {check \in {"agent_permission", "refund_ratio", "refund_window", "cancel_policy",
                "refund_frequency", "chargeback_history", "discount_cap",
                "currency_integrity"} :
        CASE check = "agent_permission" -> r.agent.level < r.policy.level
          [] check = "refund_ratio" ->
                /\ r.type \in RefundLike
                /\ r.order # None
                /\ r.amount * 100 > r.order.total * r.policy.ratio
          [] check = "refund_window" ->
                r.type \in RefundLike /\ r.order # None /\ r.order.age > r.policy.window
          [] check = "cancel_policy" ->
                /\ r.type = "cancel_order"
                /\ r.order # None => r.order.shipped /\ ~r.policy.cancelShipped
          [] check = "refund_frequency" ->
                r.type \in RefundLike /\ r.customer.refunds >= r.policy.refunds
          [] check = "chargeback_history" ->
                /\ r.customer.chargebacks > 0
                /\ r.policy.blockChargebacks
                /\ r.type \in RefundLike \cup {"discount"}
          [] check = "discount_cap" ->
                /\ r.type = "discount"
                /\ r.order # None => r.amount * 100 > r.policy.discount * r.order.total
          [] check = "currency_integrity" -> r.order # None /\ ~r.order.local}

OverSpendingBand(r) == r.amount > r.policy.review \/ r.amount > r.policy.low

Warnings(r) ==
    \/ OverSpendingBand(r)
    \/ r.customer.age < r.policy.minAge /\ r.amount > r.policy.auto
    \/ r.type \in AlwaysReviewActions

\* Warnings looked at first: a request that fails both kinds is only held.
WarningsFirst(r) ==
    CASE Warnings(r) -> "requires_human"
      [] CriticalFailures(r) # {} -> "denied"
      [] OTHER -> "allowed"
PolicyStatus(r) ==
    CASE CriticalFailures(r) # {} -> "denied"
      [] CriticalFailures(r) = {} /\ Warnings(r) -> "requires_human"
      [] OTHER -> "allowed"
----------------------------------------------------------------------------
(* Agent authorization and blast radius.                                    *)

AgentDenied(r) ==
    \/ r.type \in r.agent.denied
    \/ r.agent.cap # None /\ r.amount > r.agent.cap
    \/ /\ r.agent.hourly # None
       /\ MapThenSumSet(LAMBDA t : r.velocity[t], ActionType) >= r.agent.hourly

RepeatsPerHour(r) ==
    IF r.velocity[r.type] > 0 THEN Least(r.velocity[r.type], 100000) ELSE 60

BlastBand(r) ==
    LET exposure == r.amount * RepeatsPerHour(r)
    IN  CASE exposure >= 10 * r.policy.review -> "critical"
          [] exposure >= r.policy.review /\ exposure < 10 * r.policy.review -> "high"
          [] exposure < r.policy.review /\ exposure > r.policy.auto -> "medium"
          [] OTHER -> "low"
----------------------------------------------------------------------------
(* The decision, and the record evaluate leaves of it.                      *)

\* decide: BLOCK over REVIEW over ALLOW.
Decide(r, status, band, verdict) ==
    CASE status = "denied" \/ band = "critical" \/ (verdict # "clean" /\ band = "high")
            -> "BLOCK"
      [] OTHER -> IF status = "requires_human" \/ band \in {"medium", "high"}
                     \/ r.amount > r.policy.low
                  THEN "REVIEW" ELSE "ALLOW"

\* A quarantined agent's actions are all sensitive: none is a read or a lookup.
ContainAnything(agent, decision) == IF agent.quarantined THEN "REVIEW" ELSE decision
Contain(agent, decision) ==
    IF agent.quarantined /\ decision = "ALLOW" THEN "REVIEW" ELSE decision

Authorization(agent, computed) ==
    CASE computed = "ALLOW" -> IF agent.quarantined THEN "denied" ELSE "granted"
      [] computed = "REVIEW" -> "pending_human"
      [] computed = "BLOCK" -> "denied"

\* The status the record carries: an agent's own denial overrides the policy's.
PolicyStatusOnly(r) == PolicyStatus(r)
Status(r) == IF AgentDenied(r) THEN "denied" ELSE PolicyStatus(r)

RecordOf(r) ==
    LET computed == IF AgentDenied(r) THEN "BLOCK"
                    ELSE Decide(r, PolicyStatus(r), RiskBand(r), InjectionVerdict(r.said))
    IN  [decision |-> Contain(r.agent, computed),
         authorization |-> Authorization(r.agent, computed),
         status |-> Status(r), band |-> RiskBand(r),
         verdict |-> InjectionVerdict(r.said), blast |-> BlastBand(r)]

Nothing == [decision |-> "none", authorization |-> "none", status |-> "none",
            band |-> "none", verdict |-> "none", blast |-> "none"]

\* Nothing has been decided; the request is any one that will be.
Init ==
    /\ request \in {r \in Requests : WellBound(r)}
    /\ record = Nothing

Evaluate(r) ==
    /\ WellBound(r)
    /\ request' = r
    /\ record' = RecordOf(r)
----------------------------------------------------------------------------
(* The same request once more, with one of its facts gone worse.            *)

WorseCustomer(c, d) ==
    /\ c.orders = d.orders /\ c.value = d.value
    /\ c.refunds <= d.refunds /\ c.refunded <= d.refunded
    /\ c.chargebacks <= d.chargebacks /\ c.age >= d.age /\ (d.vip => c.vip)
WorseOrder(o, p) ==
    /\ o # None /\ p # None
    /\ o.total >= p.total /\ o.age <= p.age /\ (o.shipped => p.shipped) /\ (p.local => o.local)
LowerCap(m, n) == n # None => m # None /\ m <= n
WorseAgent(a, b) ==
    /\ a.level >= b.level /\ a.denied \subseteq b.denied /\ (a.quarantined => b.quarantined)
    /\ LowerCap(b.cap, a.cap) /\ LowerCap(b.hourly, a.hourly)
StricterPolicy(p, q) ==
    /\ p.auto >= q.auto /\ p.low >= q.low /\ p.review >= q.review /\ p.ratio >= q.ratio
    /\ p.window >= q.window /\ (q.cancelShipped => p.cancelShipped) /\ p.level <= q.level
    /\ p.refunds >= q.refunds /\ (p.blockChargebacks => q.blockChargebacks)
    /\ p.minAge <= q.minAge /\ p.discount >= q.discount
Busier(v, w) == \A t \in ActionType : v[t] <= w[t]

Worsened(r) ==
    UNION {{[r EXCEPT !.amount = a] : a \in {a \in Amounts : a > r.amount}},
           {[r EXCEPT !.customer = c] : c \in {c \in Customers : WorseCustomer(r.customer, c)}},
           {[r EXCEPT !.order = o] : o \in {o \in Orders : WorseOrder(r.order, o)}},
           {[r EXCEPT !.agent = a] : a \in {a \in Agents : WorseAgent(r.agent, a)}},
           {[r EXCEPT !.policy = p] : p \in {p \in Policies : StricterPolicy(r.policy, p)}},
           {[r EXCEPT !.said = s] : s \in {s \in Conversations : r.said \subseteq s}},
           {[r EXCEPT !.velocity = v] : v \in {v \in Velocities : Busier(r.velocity, v)}}}

Next ==
    \/ record = Nothing /\ Evaluate(request)
    \/ record # Nothing /\ \E r \in Worsened(request) : Evaluate(r)

Spec == Init /\ [][Next]_vars
----------------------------------------------------------------------------
Record == [decision : {"ALLOW", "REVIEW", "BLOCK"},
           authorization : {"granted", "pending_human", "denied"},
           status : {"allowed", "requires_human", "denied"},
           band : {"low", "medium", "high", "critical"},
           verdict : {"clean", "suspicious", "injected"},
           blast : {"low", "medium", "high", "critical"}]

TypeOK == request \in Requests /\ record \in Record \cup {Nothing}

Decisions == <<"ALLOW", "REVIEW", "BLOCK">>
Strictness(decision) == CHOOSE i \in 1..3 : Decisions[i] = decision

(* Worse facts never buy a milder decision or a lower band: not a larger     *)
(* amount, more chargebacks or refunds, a younger account, an older or       *)
(* smaller order, one more manipulation pattern, a tighter agent or policy,  *)
(* or more activity; the rules of six engines are combined without a dip.    *)
NeverRelaxed ==
    [][record # Nothing =>
         /\ Strictness(record'.decision) >= Strictness(record.decision)
         /\ BandRank(record'.band) >= BandRank(record.band)
         /\ request.velocity = request'.velocity =>
              BandRank(record'.blast) >= BandRank(record.blast)]_vars

(* An action runs without a human only within both limits of the brand, at   *)
(* low risk, for an agent in good standing, and never after manipulation.    *)
AutonomyIsBounded ==
    record.decision = "ALLOW" =>
        /\ request.amount <= Least(request.policy.low, request.policy.review)
        /\ record.band = "low"
        /\ record.verdict # "injected"
        /\ ~request.agent.quarantined
        /\ request.type \notin AlwaysReviewActions

(* What the brand, the risk or the agent's own limits forbid is never put    *)
(* before a human, who could approve it: quarantine does not soften a BLOCK. *)
NothingForbiddenIsQueued ==
    record.decision = "REVIEW" =>
        /\ CriticalFailures(request) = {}
        /\ ~AgentDenied(request)
        /\ record.band # "critical"
        /\ record.verdict # "injected"

(* The decision can be reconstructed from the record that was chained: it is *)
(* BLOCK exactly when the recorded status, band and verdict say so, and it   *)
(* is carried out exactly when it was granted.                               *)
RecordExplainsItself ==
    record # Nothing =>
        /\ record.decision = "BLOCK" <=>
             \/ record.status = "denied"
             \/ record.band = "critical"
             \/ record.band = "high" /\ record.verdict # "clean"
        /\ record.decision = "ALLOW" <=> record.authorization = "granted"
=============================================================================
