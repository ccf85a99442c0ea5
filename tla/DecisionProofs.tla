--------------------------- MODULE DecisionProofs ---------------------------
(***************************************************************************)
(* Theorems of Decision: for any amounts, customers, orders, agents,       *)
(* policies, conversations and activity, what may run without a human,     *)
(* what may wait for one, what the record says of it, and that a fact gone *)
(* worse never relaxes a decision.                                         *)
(***************************************************************************)
EXTENDS Decision, TLAPS

\* The record is that of the request at hand, which is one of Requests.
Faithful == request \in Requests /\ (record = Nothing \/ record = RecordOf(request))

BandNames == {"low", "medium", "high", "critical"}

LEMMA RanksAreBands ==
  /\ BandRank("low") = 1 /\ BandRank("medium") = 2
  /\ BandRank("high") = 3 /\ BandRank("critical") = 4
  /\ \A i \in 1..4 : Bands[i] \in BandNames
<1>1. Bands[1] = "low" /\ Bands[2] = "medium" /\ Bands[3] = "high" /\ Bands[4] = "critical"
  BY DEF Bands
<1>2. \A i \in 1..4 : i = 1 \/ i = 2 \/ i = 3 \/ i = 4
  OBVIOUS
<1>3. ASSUME NEW n \in 1..4 PROVE BandRank(Bands[n]) = n
  <2>1. \A i \in 1..4 : Bands[i] = Bands[n] => i = n
    BY <1>1, <1>2
  <2> QED
    BY <2>1 DEF BandRank
<1>4. /\ BandRank(Bands[1]) = 1 /\ BandRank(Bands[2]) = 2
      /\ BandRank(Bands[3]) = 3 /\ BandRank(Bands[4]) = 4
  BY <1>3
<1>5. /\ BandRank("low") = 1 /\ BandRank("medium") = 2
      /\ BandRank("high") = 3 /\ BandRank("critical") = 4
  <2> HIDE DEF BandRank
  <2> QED
    BY <1>1, <1>4
<1>6. \A i \in 1..4 : Bands[i] \in BandNames
  BY <1>1, <1>2 DEF BandNames
<1> QED
  BY <1>5, <1>6

LEMMA BandForIsBand == ASSUME NEW score PROVE BandFor(score) \in BandNames
<1> DEFINE low == score < 300000
           medium == score >= 300000 /\ score < 550000
           high == score >= 550000 /\ score < 800000
<1>1. BandFor(score) = CASE low -> "low" [] medium -> "medium" [] high -> "high"
                         [] OTHER -> "critical"
  BY DEF BandFor
<1> HIDE DEF low, medium, high
<1> QED
  BY <1>1 DEF BandNames

\* The band of a request is at least that of its manipulation.
LEMMA RiskBandIs ==
  ASSUME NEW r
  PROVE  /\ RiskBand(r) \in BandNames
         /\ InjectionVerdict(r.said) = "injected" => RiskBand(r) \in {"high", "critical"}
<1> DEFINE score == BandRank(BandFor(RiskScore(r)))
           floor == BandRank(InjectionFloor(r.said))
<1>1. InjectionFloor(r.said) \in BandNames
  BY DEF InjectionFloor, BandNames
<1>2. score \in 1..4 /\ floor \in 1..4
  BY <1>1, BandForIsBand, RanksAreBands DEF BandNames
<1>3. InjectionVerdict(r.said) = "injected" => floor \in {3, 4}
  BY RanksAreBands DEF InjectionFloor
<1> HIDE DEF score, floor
<1>4. Most(score, floor) \in 1..4 /\ Most(score, floor) >= floor
  BY <1>2 DEF Most
<1>5. RiskBand(r) = Bands[Most(score, floor)]
  BY DEF RiskBand, score, floor
<1>6. floor \in {3, 4} => Most(score, floor) \in {3, 4}
  BY <1>4
<1>7. Bands[3] = "high" /\ Bands[4] = "critical"
  BY DEF Bands
<1> QED
  BY <1>3, <1>4, <1>5, <1>6, <1>7, RanksAreBands

LEMMA DecideIs ==
  ASSUME NEW r, NEW status, NEW band, NEW verdict
  PROVE  /\ Decide(r, status, band, verdict) \in {"ALLOW", "REVIEW", "BLOCK"}
         /\ Decide(r, status, band, verdict) = "BLOCK" <=>
              status = "denied" \/ band = "critical" \/ (verdict # "clean" /\ band = "high")
         /\ Decide(r, status, band, verdict) = "ALLOW" =>
              status # "requires_human" /\ band \notin {"medium", "high"} /\ ~(r.amount > r.policy.low)
  BY DEF Decide

LEMMA StatusIs ==
  ASSUME NEW r
  PROVE  /\ PolicyStatus(r) \in {"allowed", "requires_human", "denied"}
         /\ PolicyStatus(r) = "denied" <=> CriticalFailures(r) # {}
         /\ PolicyStatus(r) = "allowed" => ~Warnings(r)
  BY DEF PolicyStatus

\* What evaluate computes before an agent's quarantine softens it.
Computed(r) ==
    IF AgentDenied(r) THEN "BLOCK"
    ELSE Decide(r, PolicyStatus(r), RiskBand(r), InjectionVerdict(r.said))

LEMMA RecordIs ==
  ASSUME NEW r
  PROVE  /\ RecordOf(r).decision = Contain(r.agent, Computed(r))
         /\ RecordOf(r).authorization = Authorization(r.agent, Computed(r))
         /\ RecordOf(r).status = Status(r) /\ RecordOf(r).band = RiskBand(r)
         /\ RecordOf(r).verdict = InjectionVerdict(r.said)
         /\ RecordOf(r).blast = BlastBand(r)
         /\ Computed(r) \in {"ALLOW", "REVIEW", "BLOCK"}
         /\ RecordOf(r) # Nothing
<1>1. Computed(r) \in {"ALLOW", "REVIEW", "BLOCK"}
  BY DecideIs DEF Computed
<1>2. RecordOf(r) = [decision |-> Contain(r.agent, Computed(r)),
                     authorization |-> Authorization(r.agent, Computed(r)),
                     status |-> Status(r), band |-> RiskBand(r),
                     verdict |-> InjectionVerdict(r.said), blast |-> BlastBand(r)]
  BY DEF RecordOf, Computed
<1>3. Contain(r.agent, Computed(r)) # "none"
  BY <1>1 DEF Contain
<1> QED
  BY <1>1, <1>2, <1>3 DEF Nothing

\* A request that is not blocked breaks no rule of the brand, the risk or the agent.
LEMMA NotBlockedIs ==
  ASSUME NEW r, Computed(r) # "BLOCK"
  PROVE  /\ ~AgentDenied(r) /\ CriticalFailures(r) = {}
         /\ RiskBand(r) # "critical" /\ InjectionVerdict(r.said) # "injected"
         /\ Computed(r) = Decide(r, PolicyStatus(r), RiskBand(r), InjectionVerdict(r.said))
<1>1. ~AgentDenied(r)
  BY DEF Computed
<1>2. Computed(r) = Decide(r, PolicyStatus(r), RiskBand(r), InjectionVerdict(r.said))
  BY <1>1 DEF Computed
<1>3. /\ PolicyStatus(r) # "denied" /\ RiskBand(r) # "critical"
      /\ ~(InjectionVerdict(r.said) # "clean" /\ RiskBand(r) = "high")
  BY <1>2, DecideIs
<1>4. InjectionVerdict(r.said) # "injected"
  BY <1>3, RiskBandIs
<1> QED
  BY <1>1, <1>2, <1>3, <1>4, StatusIs
----------------------------------------------------------------------------
LEMMA EvaluateIsFaithful ==
  ASSUME NEW r \in Requests, Evaluate(r) PROVE Faithful'
  BY DEF Evaluate, Faithful

\* Making one fact of a request worse gives a request.
LEMMA WorsenedAreRequests == ASSUME NEW r \in Requests PROVE Worsened(r) \subseteq Requests
  BY DEF Worsened, Requests

LEMMA StepFaithful == Faithful /\ [Next]_vars => Faithful'
<1> SUFFICES ASSUME Faithful, [Next]_vars PROVE Faithful'
  OBVIOUS
<1>1. CASE record = Nothing /\ Evaluate(request)
  BY <1>1, EvaluateIsFaithful DEF Faithful
<1>2. ASSUME NEW r \in Worsened(request), Evaluate(r) PROVE Faithful'
  BY <1>2, EvaluateIsFaithful, WorsenedAreRequests DEF Faithful
<1>3. CASE UNCHANGED vars
  BY <1>3 DEF vars, Faithful
<1> QED
  BY <1>1, <1>2, <1>3 DEF Next

LEMMA FaithfulHolds == Spec => []Faithful
<1>1. Init => Faithful
  BY DEF Init, Faithful
<1> QED
  BY <1>1, StepFaithful, PTL DEF Spec

(* Every request of every run is one of Requests, and what is made of it is  *)
(* a record with a decision, an authorization, a status, bands and a verdict *)
(* of their kinds.                                                           *)
THEOREM DecisionTypeCorrect == Spec => []TypeOK
<1>1. ASSUME NEW r PROVE RecordOf(r) \in Record
  <2>1. /\ Computed(r) \in {"ALLOW", "REVIEW", "BLOCK"}
        /\ RecordOf(r) = [decision |-> Contain(r.agent, Computed(r)),
                          authorization |-> Authorization(r.agent, Computed(r)),
                          status |-> Status(r), band |-> RiskBand(r),
                          verdict |-> InjectionVerdict(r.said), blast |-> BlastBand(r)]
    BY RecordIs DEF RecordOf, Computed
  <2>2. Contain(r.agent, Computed(r)) \in {"ALLOW", "REVIEW", "BLOCK"}
    BY <2>1 DEF Contain
  <2>3. Authorization(r.agent, Computed(r)) \in {"granted", "pending_human", "denied"}
    BY <2>1 DEF Authorization
  <2>4. Status(r) \in {"allowed", "requires_human", "denied"}
    BY StatusIs DEF Status
  <2>5. RiskBand(r) \in {"low", "medium", "high", "critical"}
    BY RiskBandIs DEF BandNames
  <2>6. InjectionVerdict(r.said) \in {"clean", "suspicious", "injected"}
    BY DEF InjectionVerdict
  <2>7. BlastBand(r) \in {"low", "medium", "high", "critical"}
    BY DEF BlastBand
  <2> QED
    BY <2>1, <2>2, <2>3, <2>4, <2>5, <2>6, <2>7 DEF Record
<1>2. Faithful => TypeOK
  BY <1>1 DEF Faithful, TypeOK
<1> QED
  BY <1>2, FaithfulHolds, PTL

(* No action that a rule, the risk or the agent's own limits forbid waits   *)
(* for a human, whatever the figures of the brand are.                      *)
THEOREM NothingForbiddenIsQueuedHolds == Spec => []NothingForbiddenIsQueued
<1>1. ASSUME Faithful, record.decision = "REVIEW"
      PROVE  /\ CriticalFailures(request) = {} /\ ~AgentDenied(request)
             /\ record.band # "critical" /\ record.verdict # "injected"
  <2>1. record = RecordOf(request)
    BY <1>1 DEF Faithful, Nothing
  <2>2. Computed(request) # "BLOCK"
    BY <1>1, <2>1, RecordIs DEF Contain
  <2> QED
    BY <2>1, <2>2, NotBlockedIs, RecordIs
<1>2. Faithful => NothingForbiddenIsQueued
  BY <1>1 DEF NothingForbiddenIsQueued
<1> QED
  BY <1>2, FaithfulHolds, PTL

(* What runs without a human stays within both limits of the brand, at low  *)
(* risk, for an agent in good standing and a conversation that is not       *)
(* manipulation.                                                            *)
THEOREM AutonomyIsBoundedHolds == Spec => []AutonomyIsBounded
<1>1. ASSUME Faithful, record.decision = "ALLOW"
      PROVE  /\ request.amount <= Least(request.policy.low, request.policy.review)
             /\ record.band = "low" /\ record.verdict # "injected"
             /\ ~request.agent.quarantined /\ request.type \notin AlwaysReviewActions
  <2>1. record = RecordOf(request)
    BY <1>1 DEF Faithful, Nothing
  <2>2. Computed(request) = "ALLOW" /\ ~request.agent.quarantined
    BY <1>1, <2>1, RecordIs DEF Contain
  <2>3. /\ PolicyStatus(request) = "allowed" /\ RiskBand(request) = "low"
        /\ ~(request.amount > request.policy.low)
    BY <2>2, NotBlockedIs, DecideIs, StatusIs, RiskBandIs DEF BandNames
  <2>4. ~OverSpendingBand(request) /\ request.type \notin AlwaysReviewActions
    BY <2>3, StatusIs DEF Warnings
  <2>5. request.amount \in Nat /\ request.policy.low \in Nat /\ request.policy.review \in Nat
    BY <1>1, DecisionAssumption DEF Faithful, Requests, Policy
  <2>6. request.amount <= Least(request.policy.low, request.policy.review)
    BY <2>3, <2>4, <2>5 DEF OverSpendingBand, Least
  <2> QED
    BY <2>1, <2>2, <2>3, <2>4, <2>6, NotBlockedIs, RecordIs
<1>2. Faithful => AutonomyIsBounded
  BY <1>1 DEF AutonomyIsBounded
<1> QED
  BY <1>2, FaithfulHolds, PTL

(* The chained record tells why: its decision is BLOCK exactly when its     *)
(* status, band and verdict say so, and ALLOW exactly when it was granted.  *)
THEOREM RecordExplainsItselfHolds == Spec => []RecordExplainsItself
<1>1. ASSUME Faithful, record # Nothing
      PROVE  /\ record.decision = "BLOCK" <=>
                  \/ record.status = "denied"
                  \/ record.band = "critical"
                  \/ record.band = "high" /\ record.verdict # "clean"
             /\ record.decision = "ALLOW" <=> record.authorization = "granted"
  <2>1. record = RecordOf(request)
    BY <1>1 DEF Faithful
  <2>2. record.decision = "BLOCK" <=> Computed(request) = "BLOCK"
    BY <2>1, RecordIs DEF Contain
  <2>3. record.decision = "ALLOW" <=> record.authorization = "granted"
    BY <2>1, RecordIs DEF Contain, Authorization
  <2>4. Computed(request) = "BLOCK" <=>
          \/ Status(request) = "denied"
          \/ RiskBand(request) = "critical"
          \/ RiskBand(request) = "high" /\ InjectionVerdict(request.said) # "clean"
    BY DecideIs DEF Computed, Status
  <2> QED
    BY <2>1, <2>2, <2>3, <2>4, RecordIs
<1>2. Faithful => RecordExplainsItself
  BY <1>1 DEF RecordExplainsItself
<1> QED
  BY <1>2, FaithfulHolds, PTL
----------------------------------------------------------------------------
(* Arithmetic: products and rounded fractions.                              *)

\* The product of integers is monotone where the factors are natural.
LEMMA ProductGrows ==
  ASSUME NEW a \in Nat, NEW b \in Nat, NEW c \in Nat, NEW e \in Nat, a <= c, b <= e
  PROVE  a * b \in Nat /\ a * b <= c * e
<1>1. PICK x \in Nat : c = a + x
  <2>1. c - a \in Nat /\ c = a + (c - a)
    OBVIOUS
  <2> QED
    BY <2>1
<1>2. PICK y \in Nat : e = b + y
  <2>1. e - b \in Nat /\ e = b + (e - b)
    OBVIOUS
  <2> QED
    BY <2>1
<1>3. c * e = a * b + a * y + x * b + x * y
  BY <1>1, <1>2
<1>4. a * b >= 0 /\ a * y >= 0 /\ x * b >= 0 /\ x * y >= 0
  BY <1>1, <1>2
<1>5. PICK p \in Int, s \in Int, u \in Int, v \in Int :
        p = a * b /\ s = a * y /\ u = x * b /\ v = x * y
  BY <1>1, <1>2
<1> QED
  BY <1>3, <1>4, <1>5

\* A fraction below 1 is the nearest ten-thousandth, and the even one of two.
LEMMA FractionIsNearest ==
  ASSUME NEW n \in Nat, NEW d \in Nat, d > 0, n < d, NEW k, k = Fraction(n, d)
  PROVE  /\ k \in Int /\ k >= 0 /\ k <= 10000
         /\ 2 * (k * d) <= 20000 * n + d
         /\ 20000 * n <= 2 * (k * d) + d
         /\ 2 * (k * d) = 20000 * n + d \/ 20000 * n = 2 * (k * d) + d => k % 2 = 0
<1> DEFINE q == (n * 10000) \div d
           m == (n * 10000) % d
<1>1. q \in Int /\ m \in Int /\ n * 10000 = d * q + m /\ 0 <= m /\ m < d
  OBVIOUS
<1>2. k = IF 2 * m > d \/ (2 * m = d /\ q % 2 = 1) THEN q + 1 ELSE q
  BY DEF Fraction
<1> HIDE DEF q, m
<1>3. q >= 0
  <2>1. SUFFICES ASSUME q <= -1 PROVE FALSE
    BY <1>1
  <2>2. d * q <= d * (-1)
    BY <1>1, <2>1
  <2> QED
    BY <1>1, <2>2
<1>4. q < 10000
  <2>1. SUFFICES ASSUME q >= 10000 PROVE FALSE
    BY <1>1
  <2>2. d * q >= d * 10000
    BY <1>1, <2>1
  <2> QED
    BY <1>1, <2>2
<1>5. PICK p \in Int : p = d * q
  BY <1>1
<1>6. CASE k = q /\ 2 * m <= d /\ (2 * m = d => q % 2 = 0)
  <2>1. k * d = p
    BY <1>1, <1>5, <1>6
  <2> QED
    BY <1>1, <1>3, <1>4, <1>5, <1>6, <2>1
<1>7. CASE k = q + 1 /\ 2 * m >= d /\ (2 * m = d => q % 2 = 1)
  <2>1. k * d = p + d
    BY <1>1, <1>5, <1>7
  <2>2. q % 2 = 1 => (q + 1) % 2 = 0
    BY <1>1
  <2> QED
    BY <1>1, <1>3, <1>4, <1>5, <1>7, <2>1, <2>2
<1>8. q % 2 = 0 \/ q % 2 = 1
  BY <1>1
<1> QED
  BY <1>1, <1>2, <1>6, <1>7, <1>8

\* A larger part of a smaller whole is no smaller a fraction, and none is above 1.
LEMMA FractionGrows ==
  ASSUME NEW n \in Nat, NEW d \in Nat, NEW o \in Nat, NEW e \in Nat,
         d > 0, e > 0, n <= o, e <= d
  PROVE  /\ Fraction(n, d) \in Int /\ Fraction(n, d) >= 0 /\ Fraction(n, d) <= 10000
         /\ Fraction(o, e) \in Int /\ Fraction(o, e) <= 10000
         /\ Fraction(n, d) <= Fraction(o, e)
<1>1. PICK k, l : k = Fraction(n, d) /\ l = Fraction(o, e)
  OBVIOUS
<1>2. CASE n >= d
  <2>1. o >= e /\ k = 10000 /\ l = 10000
    BY <1>1, <1>2 DEF Fraction
  <2> QED
    BY <1>1, <2>1
<1>3. CASE n < d /\ o >= e
  <2>1. l = 10000
    BY <1>1, <1>3 DEF Fraction
  <2> QED
    BY <1>1, <1>3, <2>1, FractionIsNearest
<1>4. CASE n < d /\ o < e
  <2>1. /\ k \in Int /\ k >= 0 /\ k <= 10000
        /\ 2 * (k * d) <= 20000 * n + d
        /\ 2 * (k * d) = 20000 * n + d => k % 2 = 0
    BY <1>1, <1>4, FractionIsNearest
  <2>2. /\ l \in Int /\ l >= 0 /\ l <= 10000
        /\ 20000 * o <= 2 * (l * e) + e
        /\ 20000 * o = 2 * (l * e) + e => l % 2 = 0
    BY <1>1, <1>4, FractionIsNearest
  <2>3. ASSUME k > l PROVE FALSE
    <3>1. (2 * l + 1) * e <= (2 * l + 1) * d
      BY <2>2, ProductGrows
    <3>2. (2 * l + 1) * d <= (2 * k - 1) * d
      BY <2>1, <2>2, <2>3, ProductGrows
    <3>3. (2 * l + 1) * e = 2 * (l * e) + e /\ (2 * k - 1) * d = 2 * (k * d) - d
          /\ (2 * l + 1) * d = 2 * (l * d) + d
      BY <2>1, <2>2
    <3>4. PICK a \in Int, b \in Int, c \in Int : a = l * e /\ b = k * d /\ c = l * d
      BY <2>1, <2>2
    <3>5. 2 * b - d <= 20000 * n /\ 20000 * o <= 2 * a + e /\ 2 * a + e <= 2 * c + d
          /\ 2 * c + d <= 2 * b - d
      BY <2>1, <2>2, <3>1, <3>2, <3>3, <3>4
    <3>6. 2 * b - d = 20000 * n /\ 20000 * o = 2 * a + e /\ c + d = b
      BY <3>4, <3>5
    <3>7. k % 2 = 0 /\ l % 2 = 0
      BY <2>1, <2>2, <3>4, <3>6
    <3>8. k >= l + 2
      BY <2>1, <2>2, <2>3, <3>7
    <3>9. (l + 2) * d <= k * d
      BY <2>1, <2>2, <3>8, ProductGrows
    <3>10. (l + 2) * d = c + 2 * d
      BY <2>2, <3>4
    <3> QED
      BY <3>4, <3>6, <3>9, <3>10
  <2> QED
    BY <1>1, <2>1, <2>2, <2>3
<1> QED
  BY <1>2, <1>3, <1>4
----------------------------------------------------------------------------
(* Sums over patterns and over types of action, with no induction: the      *)
(* recursion of MapThenSumSet over at most seven things, unrolled.          *)

\* Seven different things, and what the members of a set of them add to a sum.
Different(u) == \A i, j \in 1..7 : u[i] = u[j] => i = j
Part(v, s, x) == IF x \in s THEN v[x] ELSE 0
Total(v, s, u) == Part(v, s, u[1]) + Part(v, s, u[2]) + Part(v, s, u[3]) + Part(v, s, u[4])
                  + Part(v, s, u[5]) + Part(v, s, u[6]) + Part(v, s, u[7])

LEMMA PartType ==
  ASSUME NEW v, NEW s, \A x \in s : v[x] \in Nat, NEW x
  PROVE  Part(v, s, x) \in Nat
  BY DEF Part

\* Without one of its members a set adds up to that much less.
LEMMA TotalWithout ==
  ASSUME NEW v, NEW u, NEW s \in SUBSET {u[i] : i \in 1..7}, Different(u),
         \A x \in s : v[x] \in Nat, NEW x \in s
  PROVE  Total(v, s, u) = v[x] + Total(v, s \ {x}, u)
<1> DEFINE z == s \ {x}
<1>1. PICK k \in 1..7 : x = u[k]
  OBVIOUS
<1>2. \A i \in 1..7 : i # k => Part(v, z, u[i]) = Part(v, s, u[i])
  BY <1>1 DEF Part, Different
<1>3. Part(v, z, u[k]) = 0 /\ Part(v, s, u[k]) = v[x]
  BY <1>1 DEF Part
<1>4. \A i \in 1..7 : Part(v, s, u[i]) \in Nat
  BY PartType
<1> HIDE DEF z
<1>5. Total(v, s, u) = v[x] + Total(v, z, u)
  <2>1. k = 1 \/ k = 2 \/ k = 3 \/ k = 4 \/ k = 5 \/ k = 6 \/ k = 7
    OBVIOUS
  <2>2. v[x] \in Nat
    OBVIOUS
  <2>3. PICK p \in [1..7 -> Nat] : \A i \in 1..7 : p[i] = Part(v, s, u[i])
    <3>1. [i \in 1..7 |-> Part(v, s, u[i])] \in [1..7 -> Nat]
      BY <1>4
    <3> QED
      BY <3>1
  <2>4. PICK q \in [1..7 -> Nat] : \A i \in 1..7 : q[i] = Part(v, z, u[i])
    <3>1. [i \in 1..7 |-> Part(v, z, u[i])] \in [1..7 -> Nat]
      BY <1>2, <1>3, <1>4
    <3> QED
      BY <3>1
  <2>5. /\ Total(v, s, u) = p[1] + p[2] + p[3] + p[4] + p[5] + p[6] + p[7]
        /\ Total(v, z, u) = q[1] + q[2] + q[3] + q[4] + q[5] + q[6] + q[7]
    BY <2>3, <2>4 DEF Total
  <2>6. \A i \in 1..7 : i # k => p[i] = q[i]
    BY <1>2, <2>3, <2>4
  <2>7. q[k] = 0 /\ p[k] = v[x]
    BY <1>3, <2>3, <2>4
  <2> HIDE DEF Total
  <2>8. v[x] + (q[1] + q[2] + q[3] + q[4] + q[5] + q[6] + q[7])
        = p[1] + p[2] + p[3] + p[4] + p[5] + p[6] + p[7]
    BY <2>1, <2>2, <2>6, <2>7
  <2> QED
    BY <2>5, <2>8
<1> QED
  BY <1>5 DEF z

\* The recursion of a sum over a set of the seven ends in the total.
LEMMA SumIsTotal ==
  ASSUME NEW v, NEW u, NEW S \in SUBSET {u[i] : i \in 1..7}, Different(u),
         \A x \in S : v[x] \in Nat
  PROVE  MapThenSumSet(LAMBDA x : v[x], S) = Total(v, S, u)
<1> DEFINE Some(s) == CHOOSE x \in s : TRUE
           ones == [x \in S |-> 1]
           Size(s) == Total(ones, s, u)
           Sums(f) == f = [s \in SUBSET S |-> IF s = {} THEN 0 ELSE v[Some(s)] + f[s \ {Some(s)}]]
<1>1. PICK it : MapThenSumSet(LAMBDA x : v[x], S) = it[S] /\ it = CHOOSE f : Sums(f)
  BY DEF MapThenSumSet, MapThenFoldSet
<1>2. \A s : s # {} => Some(s) \in s
  OBVIOUS
<1> HIDE DEF Some
<1>3. \E f : Sums(f)
  <2> DEFINE t == [s \in SUBSET S |-> Total(v, s, u)]
  <2>1. ASSUME NEW s \in SUBSET S, s # {}
        PROVE  t[s] = v[Some(s)] + t[s \ {Some(s)}]
    BY <1>2, <2>1, TotalWithout
  <2>2. t[{}] = 0
    BY DEF Total, Part
  <2>3. t = [s \in SUBSET S |-> IF s = {} THEN 0 ELSE v[Some(s)] + t[s \ {Some(s)}]]
    BY <2>1, <2>2
  <2> HIDE DEF t
  <2> QED
    BY <2>3
<1>4. Sums(it)
  BY <1>1, <1>3
<1>5. it[{}] = 0 /\ \A s \in SUBSET S : s # {} => it[s] = v[Some(s)] + it[s \ {Some(s)}]
  BY <1>4
<1> HIDE DEF Sums
<1> DEFINE Done(n) == \A s \in SUBSET S : Size(s) = n => it[s] = Total(v, s, u)
<1>6. \A s \in SUBSET S : s # {} => Size(s) = 1 + Size(s \ {Some(s)})
  BY <1>2, TotalWithout
<1>7. \A s \in SUBSET S : Size(s) \in 0..7
  <2>1. SUFFICES ASSUME NEW s \in SUBSET S PROVE Size(s) \in 0..7
    OBVIOUS
  <2>2. ASSUME NEW x PROVE Part(ones, s, x) = 0 \/ Part(ones, s, x) = 1
    BY DEF Part
  <2>3. \A i \in 1..7 : Part(ones, s, u[i]) = 0 \/ Part(ones, s, u[i]) = 1
    BY <2>2
  <2> QED
    BY <2>3 DEF Total
<1>8. Total(v, {}, u) = 0 /\ Size({}) = 0
  BY DEF Total, Part
<1> HIDE DEF Size
<1>9. Done(0)
  <2>1. ASSUME NEW s \in SUBSET S, s # {} PROVE Size(s) # 0
    <3>1. PICK n \in 0..7 : n = Size(s \ {Some(s)})
      BY <1>7
    <3>2. Size(s) = 1 + n
      BY <1>6, <2>1, <3>1
    <3> QED
      BY <3>2
  <2> QED
    BY <1>5, <1>8, <2>1
<1>10. ASSUME NEW n \in Nat, Done(n) PROVE Done(n + 1)
  <2>1. SUFFICES ASSUME NEW s \in SUBSET S, Size(s) = n + 1 PROVE it[s] = Total(v, s, u)
    OBVIOUS
  <2>2. s # {}
    BY <1>8, <2>1
  <2>3. Size(s \ {Some(s)}) = n
    BY <1>6, <1>7, <2>1, <2>2
  <2>4. it[s \ {Some(s)}] = Total(v, s \ {Some(s)}, u)
    BY <1>10, <2>3
  <2>5. it[s] = v[Some(s)] + Total(v, s \ {Some(s)}, u)
    BY <1>5, <2>2, <2>4
  <2> QED
    BY <1>2, <2>2, <2>5, TotalWithout
<1> HIDE DEF Done
<1>11. Done(1) /\ Done(2) /\ Done(3)
  BY <1>9, <1>10
<1>12. Done(4) /\ Done(5) /\ Done(6) /\ Done(7)
  BY <1>10, <1>11
<1>13. Size(S) \in {0, 1, 2, 3, 4, 5, 6, 7}
  BY <1>7
<1> QED
  BY <1>1, <1>9, <1>11, <1>12, <1>13 DEF Done

\* More members that count for as much add up to as much.
LEMMA TotalGrows ==
  ASSUME NEW u, NEW v, NEW s, NEW w, NEW z, s \subseteq z,
         \A x \in z : v[x] \in Nat /\ w[x] \in Nat /\ v[x] <= w[x]
  PROVE  /\ Total(v, s, u) \in Nat /\ Total(w, z, u) \in Nat
         /\ Total(v, s, u) <= Total(w, z, u)
<1>1. ASSUME NEW x
      PROVE  /\ Part(v, s, x) \in Nat /\ Part(w, z, x) \in Nat
             /\ Part(v, s, x) <= Part(w, z, x)
  BY DEF Part
<1>2. \A i \in 1..7 : /\ Part(v, s, u[i]) \in Nat /\ Part(w, z, u[i]) \in Nat
                      /\ Part(v, s, u[i]) <= Part(w, z, u[i])
  BY <1>1
<1> QED
  BY <1>2 DEF Total

\* The six patterns, and a name that is none of them.
PatternList == <<"instruction_override", "role_hijack", "false_authority", "audit_lobby",
                 "urgent_pressure", "context_switch", "none">>
TypeList == <<"refund", "replacement", "cancel_order", "update_shipping", "discount",
              "store_credit", "price_override">>

LEMMA ListsDiffer ==
  /\ Different(PatternList) /\ Pattern \subseteq {PatternList[i] : i \in 1..7}
  /\ Different(TypeList) /\ ActionType \subseteq {TypeList[i] : i \in 1..7}
<1>1. \A i \in 1..7 : i = 1 \/ i = 2 \/ i = 3 \/ i = 4 \/ i = 5 \/ i = 6 \/ i = 7
  OBVIOUS
<1>2. /\ PatternList[1] = "instruction_override" /\ PatternList[2] = "role_hijack"
      /\ PatternList[3] = "false_authority" /\ PatternList[4] = "audit_lobby"
      /\ PatternList[5] = "urgent_pressure" /\ PatternList[6] = "context_switch"
      /\ PatternList[7] = "none"
  BY DEF PatternList
<1>3. /\ TypeList[1] = "refund" /\ TypeList[2] = "replacement"
      /\ TypeList[3] = "cancel_order" /\ TypeList[4] = "update_shipping"
      /\ TypeList[5] = "discount" /\ TypeList[6] = "store_credit"
      /\ TypeList[7] = "price_override"
  BY DEF TypeList
<1>4. Different(PatternList)
  BY <1>1, <1>2 DEF Different
<1>5. Different(TypeList)
  BY <1>1, <1>3 DEF Different
<1>6. Pattern \subseteq {PatternList[i] : i \in 1..7}
  BY <1>2 DEF Pattern
<1>7. ActionType \subseteq {TypeList[i] : i \in 1..7}
  BY <1>3 DEF ActionType
<1> QED
  BY <1>4, <1>5, <1>6, <1>7

LEMMA PatternWeights ==
  /\ \A p \in Pattern : PatternWeight[p] \in Nat
  /\ PatternWeight["urgent_pressure"] = 1000
  BY DEF Pattern, PatternWeight

LEMMA InjectionScoreIs ==
  ASSUME NEW said \in SUBSET Pattern
  PROVE  InjectionScore(said) =
           IF said = {"urgent_pressure"} THEN 500
           ELSE AtMost1(Total(PatternWeight, said, PatternList))
<1>1. /\ said \in SUBSET {PatternList[i] : i \in 1..7}
      /\ \A p \in said : PatternWeight[p] \in Nat
  BY ListsDiffer, PatternWeights
<1>2. MapThenSumSet(LAMBDA x : PatternWeight[x], said) = Total(PatternWeight, said, PatternList)
  BY <1>1, ListsDiffer, SumIsTotal
<1> QED
  BY <1>2 DEF InjectionScore

\* One more pattern in a conversation never lowers its score.
LEMMA InjectionScoreGrows ==
  ASSUME NEW s \in SUBSET Pattern, NEW z \in SUBSET Pattern, s \subseteq z
  PROVE  /\ InjectionScore(s) \in Int /\ InjectionScore(z) \in Int
         /\ 0 <= InjectionScore(s) /\ InjectionScore(z) <= 10000
         /\ InjectionScore(s) <= InjectionScore(z)
<1>1. PICK m, n : m = Total(PatternWeight, s, PatternList) /\ n = Total(PatternWeight, z, PatternList)
  OBVIOUS
<1>2. m \in Nat /\ n \in Nat /\ m <= n
  <2>1. \A p \in z : PatternWeight[p] \in Nat /\ PatternWeight[p] <= PatternWeight[p]
    BY PatternWeights
  <2> QED
    BY <1>1, <2>1, TotalGrows
<1>3. /\ InjectionScore(s) = IF s = {"urgent_pressure"} THEN 500 ELSE AtMost1(m)
      /\ InjectionScore(z) = IF z = {"urgent_pressure"} THEN 500 ELSE AtMost1(n)
  BY <1>1, InjectionScoreIs
<1>4. s = {"urgent_pressure"} => n >= 1000
  <2>1. PatternList[5] = "urgent_pressure"
    BY DEF PatternList
  <2>2. SUFFICES ASSUME s = {"urgent_pressure"} PROVE n >= 1000
    OBVIOUS
  <2>3. Part(PatternWeight, z, PatternList[5]) = 1000
    BY <2>1, <2>2, PatternWeights DEF Part
  <2>4. \A i \in 1..7 : Part(PatternWeight, z, PatternList[i]) \in Nat
    BY PartType, PatternWeights
  <2> QED
    BY <1>1, <2>3, <2>4 DEF Total
<1>5. z = {"urgent_pressure"} /\ s # {"urgent_pressure"} => m = 0
  <2>1. SUFFICES ASSUME s = {} PROVE m = 0
    OBVIOUS
  <2> QED
    BY <1>1, <2>1 DEF Total, Part
<1> QED
  BY <1>2, <1>3, <1>4, <1>5 DEF AtMost1, Least

\* The trailing count of an hour, and that a busier one is no smaller.
LEMMA HourlyGrows ==
  ASSUME NEW v \in Velocity, NEW w \in Velocity, Busier(v, w)
  PROVE  /\ MapThenSumSet(LAMBDA t : v[t], ActionType) \in Nat
         /\ MapThenSumSet(LAMBDA t : w[t], ActionType) \in Nat
         /\ MapThenSumSet(LAMBDA t : v[t], ActionType) <= MapThenSumSet(LAMBDA t : w[t], ActionType)
<1>1. \A t \in ActionType : v[t] \in Nat /\ w[t] \in Nat /\ v[t] <= w[t]
  BY DEF Velocity, Busier
<1>2. MapThenSumSet(LAMBDA t : v[t], ActionType) = Total(v, ActionType, TypeList)
  BY <1>1, ListsDiffer, SumIsTotal
<1>3. MapThenSumSet(LAMBDA t : w[t], ActionType) = Total(w, ActionType, TypeList)
  BY <1>1, ListsDiffer, SumIsTotal
<1>4. /\ Total(v, ActionType, TypeList) \in Nat /\ Total(w, ActionType, TypeList) \in Nat
      /\ Total(v, ActionType, TypeList) <= Total(w, ActionType, TypeList)
  BY <1>1, TotalGrows
<1> QED
  BY <1>2, <1>3, <1>4
----------------------------------------------------------------------------
(* Worse facts: each factor, band and check grows with them.                *)

\* The types of the facts of a request.
LEMMA FactTypes ==
  ASSUME NEW r \in Requests
  PROVE  /\ r.type \in ActionType /\ r.amount \in Nat
         /\ r.customer \in Customer /\ (r.order \in Order \/ r.order = None)
         /\ r.agent \in Agent /\ r.policy \in Policy
         /\ r.said \in SUBSET Pattern /\ r.velocity \in Velocity
  BY DecisionAssumption DEF Requests

\* The same request, none of its facts better and any number of them worse.
Worse(r, t) ==
  /\ t.type = r.type /\ r.amount <= t.amount
  /\ WorseCustomer(r.customer, t.customer)
  /\ t.order = r.order \/ WorseOrder(r.order, t.order)
  /\ WorseAgent(r.agent, t.agent)
  /\ StricterPolicy(r.policy, t.policy)
  /\ r.said \subseteq t.said
  /\ Busier(r.velocity, t.velocity)

\* No fact is worse than itself.
LEMMA WorseIsReflexive == ASSUME NEW r \in Requests PROVE Worse(r, r)
<1>1. r.amount <= r.amount
  BY FactTypes
<1>2. WorseCustomer(r.customer, r.customer)
  BY FactTypes DEF Customer, WorseCustomer
<1>3. WorseAgent(r.agent, r.agent)
  BY FactTypes, DecisionAssumption DEF Agent, WorseAgent, LowerCap, Levels
<1>4. StricterPolicy(r.policy, r.policy)
  BY FactTypes DEF Policy, StricterPolicy, Levels
<1>5. Busier(r.velocity, r.velocity)
  BY FactTypes DEF Velocity, Busier
<1> QED
  BY <1>1, <1>2, <1>3, <1>4, <1>5 DEF Worse

LEMMA WorsenedIsWorse ==
  ASSUME NEW r \in Requests, NEW t \in Worsened(r)
  PROVE  t \in Requests /\ Worse(r, t)
<1>1. Worse(r, r)
  BY WorseIsReflexive
<1>2. CASE \E a \in Amounts : a > r.amount /\ t = [r EXCEPT !.amount = a]
  BY <1>1, <1>2, DecisionAssumption DEF Worse, Requests
<1>3. CASE \E c \in Customers : WorseCustomer(r.customer, c) /\ t = [r EXCEPT !.customer = c]
  BY <1>1, <1>3 DEF Worse, Requests
<1>4. CASE \E o \in Orders : WorseOrder(r.order, o) /\ t = [r EXCEPT !.order = o]
  BY <1>1, <1>4 DEF Worse, Requests
<1>5. CASE \E a \in Agents : WorseAgent(r.agent, a) /\ t = [r EXCEPT !.agent = a]
  BY <1>1, <1>5 DEF Worse, Requests
<1>6. CASE \E p \in Policies : StricterPolicy(r.policy, p) /\ t = [r EXCEPT !.policy = p]
  BY <1>1, <1>6 DEF Worse, Requests
<1>7. CASE \E s \in Conversations : r.said \subseteq s /\ t = [r EXCEPT !.said = s]
  BY <1>1, <1>7 DEF Worse, Requests
<1>8. CASE \E v \in Velocities : Busier(r.velocity, v) /\ t = [r EXCEPT !.velocity = v]
  BY <1>1, <1>8 DEF Worse, Requests
<1> QED
  BY <1>2, <1>3, <1>4, <1>5, <1>6, <1>7, <1>8 DEF Worsened
----------------------------------------------------------------------------
LEMMA ValueSizeGrows ==
  ASSUME NEW r \in Requests, NEW t \in Requests, Worse(r, t)
  PROVE  /\ ValueSize(r) \in Int /\ ValueSize(t) \in Int
         /\ 0 <= ValueSize(r) /\ ValueSize(r) <= ValueSize(t)
<1>1. PICK a, b, p, q : a = r.amount /\ b = t.amount /\ p = r.policy.review /\ q = t.policy.review
  OBVIOUS
<1>2. a \in Nat /\ b \in Nat /\ p \in Nat /\ q \in Nat /\ a <= b /\ q <= p
  BY <1>1, FactTypes DEF Worse, StricterPolicy, Policy
<1> DEFINE Over(x) == x.order # None /\ x.type \in HighValueActions /\ x.amount > x.order.total
<1>3. Over(r) => Over(t)
  <2>1. SUFFICES ASSUME r.order # None, t.order # None, a > r.order.total PROVE b > t.order.total
    BY <1>1 DEF Worse, WorseOrder
  <2>2. t.order.total <= r.order.total
    BY <2>1, FactTypes DEF Worse, WorseOrder, Order
  <2>3. t.order.total \in Nat /\ r.order.total \in Nat
    BY <2>1, FactTypes DEF Order
  <2> QED
    BY <1>2, <2>1, <2>2, <2>3
<1>4. /\ ValueSize(r) = IF p = 0 \/ Over(r) THEN 10000 ELSE Fraction(a, p)
      /\ ValueSize(t) = IF q = 0 \/ Over(t) THEN 10000 ELSE Fraction(b, q)
  BY <1>1 DEF ValueSize
<1> HIDE DEF Over
<1>5. p = 0 => q = 0
  BY <1>2
<1>6. CASE p = 0 \/ Over(r)
  BY <1>3, <1>4, <1>5, <1>6
<1>7. CASE ~(p = 0 \/ Over(r))
  <2>1. /\ p > 0
        /\ Fraction(a, p) \in Int /\ 0 <= Fraction(a, p) /\ Fraction(a, p) <= 10000
    BY <1>2, <1>7, FractionGrows
  <2>2. ASSUME q > 0 PROVE Fraction(b, q) \in Int /\ Fraction(a, p) <= Fraction(b, q)
    <3>1. a \in Nat /\ p \in Nat /\ b \in Nat /\ q \in Nat /\ p > 0 /\ q > 0 /\ a <= b /\ q <= p
      BY <1>2, <2>1, <2>2
    <3> HIDE <1>2, <2>1
    <3> QED
      BY <3>1, FractionGrows
  <2>3. CASE q = 0 \/ Over(t)
    BY <1>4, <1>7, <2>1, <2>3
  <2>4. CASE ~(q = 0 \/ Over(t))
    BY <1>2, <1>4, <1>7, <2>1, <2>2, <2>4
  <2> QED
    BY <2>3, <2>4
<1> QED
  BY <1>6, <1>7

LEMMA CustomerHistoryGrows ==
  ASSUME NEW c \in Customer, NEW d \in Customer, WorseCustomer(c, d)
  PROVE  /\ CustomerHistory(c) \in Int /\ CustomerHistory(d) \in Int
         /\ 0 <= CustomerHistory(c) /\ CustomerHistory(c) <= CustomerHistory(d)
<1>1. PICK k, m : k = c.chargebacks /\ m = d.chargebacks
  OBVIOUS
<1>2. k \in Nat /\ m \in Nat /\ k <= m
  BY <1>1 DEF Customer, WorseCustomer
<1>3. PICK x, y : x = Least(2500 * k, 5000) /\ y = Least(2500 * m, 5000)
  OBVIOUS
<1>4. x \in Int /\ y \in Int /\ x <= y /\ 0 <= x /\ y <= 5000
  BY <1>2, <1>3 DEF Least
<1>5. /\ Trust(c) \in Int /\ Trust(d) \in Int /\ Trust(d) <= Trust(c)
      /\ Trust(c) <= 10000 /\ 0 <= Trust(d)
  <2>1. /\ c.orders \in Nat /\ c.age \in Nat /\ d.age \in Nat /\ d.orders = c.orders
        /\ d.age <= c.age /\ (d.vip => c.vip)
    BY DEF Customer, WorseCustomer
  <2>2. PICK g, h : g = c.age /\ h = d.age
    OBVIOUS
  <2> DEFINE Aged(n) == IF n >= 365 THEN 1000 ELSE IF n <= 7 THEN -2000 ELSE 0
             Known(b) == IF b THEN 1000 ELSE 0
  <2>3. Aged(g) \in Int /\ Aged(h) \in Int /\ Aged(h) <= Aged(g)
    BY <2>1, <2>2
  <2>4. Known(c.vip) \in Int /\ Known(d.vip) \in Int /\ Known(d.vip) <= Known(c.vip)
    BY <2>1
  <2>5. /\ Trust(c) = Most(0, AtMost1(5000 + (IF c.orders >= 10 THEN 1500 ELSE 0)
                          + (IF c.orders >= 25 THEN 1000 ELSE 0) + Aged(g) + Known(c.vip) - x))
        /\ Trust(d) = Most(0, AtMost1(5000 + (IF c.orders >= 10 THEN 1500 ELSE 0)
                          + (IF c.orders >= 25 THEN 1000 ELSE 0) + Aged(h) + Known(d.vip) - y))
    BY <1>1, <1>3, <2>1, <2>2 DEF Trust, NewAccount
  <2> HIDE DEF Aged, Known
  <2> QED
    BY <1>4, <2>3, <2>4, <2>5 DEF Most, AtMost1, Least
<1>6. PICK n, o : /\ n = (IF NewAccount(c) THEN 1000 ELSE 0)
                  /\ o = (IF NewAccount(d) THEN 1000 ELSE 0)
  OBVIOUS
<1>7. n \in Int /\ o \in Int /\ 0 <= n /\ n <= o
  BY <1>6 DEF NewAccount, Customer, WorseCustomer
<1>8. /\ CustomerHistory(c) = AtMost1(10000 - Trust(c) + n)
      /\ CustomerHistory(d) = AtMost1(10000 - Trust(d) + o)
  BY <1>6 DEF CustomerHistory
<1> QED
  BY <1>5, <1>7, <1>8 DEF AtMost1, Least

LEMMA RefundFrequencyGrows ==
  ASSUME NEW c \in Customer, NEW d \in Customer, WorseCustomer(c, d)
  PROVE  /\ RefundFrequency(c) \in Int /\ RefundFrequency(d) \in Int
         /\ 0 <= RefundFrequency(c) /\ RefundFrequency(d) <= 10000
         /\ RefundFrequency(c) <= RefundFrequency(d)
<1>1. PICK n, o, d0 : n = c.refunds /\ o = d.refunds /\ d0 = c.orders
  OBVIOUS
<1>2. n \in Nat /\ o \in Nat /\ n <= o /\ d0 \in Nat /\ d.orders = d0
  BY <1>1 DEF Customer, WorseCustomer
<1>3. CASE d0 > 0
  <2>1. d0 <= d0
    BY <1>2
  <2>2. /\ Fraction(n, d0) \in Int /\ 0 <= Fraction(n, d0)
        /\ Fraction(o, d0) \in Int /\ Fraction(o, d0) <= 10000
        /\ Fraction(n, d0) <= Fraction(o, d0)
    BY <1>2, <1>3, <2>1, FractionGrows
  <2> QED
    BY <1>1, <1>2, <1>3, <2>2 DEF RefundFrequency
<1>4. CASE ~(d0 > 0)
  BY <1>1, <1>2, <1>4 DEF RefundFrequency
<1> QED
  BY <1>3, <1>4

LEMMA FourFifthsIntensityGrows ==
  ASSUME NEW c \in Customer, NEW d \in Customer, WorseCustomer(c, d)
  PROVE  /\ FourFifthsIntensity(c) \in Int /\ FourFifthsIntensity(d) \in Int
         /\ 0 <= FourFifthsIntensity(c) /\ FourFifthsIntensity(d) <= 10000
         /\ FourFifthsIntensity(c) <= FourFifthsIntensity(d)
<1>1. PICK n, o, v : n = c.refunded /\ o = d.refunded /\ v = c.value
  OBVIOUS
<1>2. n \in Nat /\ o \in Nat /\ n <= o /\ v \in Nat /\ d.value = v
  BY <1>1 DEF Customer, WorseCustomer
<1>3. PICK a, b, w : a = 4 * n /\ b = 4 * o /\ w = 5 * v
  OBVIOUS
<1>4. a \in Nat /\ b \in Nat /\ a <= b /\ w \in Nat /\ w <= w
  BY <1>2, <1>3
<1>5. /\ FourFifthsIntensity(c) = IF v = 0 THEN 0 ELSE IF n >= v THEN 8000 ELSE Fraction(a, w)
      /\ FourFifthsIntensity(d) = IF v = 0 THEN 0 ELSE IF o >= v THEN 8000 ELSE Fraction(b, w)
  BY <1>1, <1>2, <1>3 DEF FourFifthsIntensity
<1>6. CASE v = 0
  BY <1>5, <1>6
<1>7. CASE v > 0
  <2>1. w > 0
    BY <1>2, <1>3, <1>7
  <2>2. /\ Fraction(a, w) \in Int /\ 0 <= Fraction(a, w)
        /\ Fraction(b, w) \in Int /\ Fraction(b, w) <= 10000
        /\ Fraction(a, w) <= Fraction(b, w)
    BY <1>4, <2>1, FractionGrows
  \* Four fifths of less than all of the value round to no more than 8000.
  <2>3. ASSUME n < v PROVE Fraction(a, w) <= 8000
    <3>1. PICK k : k = Fraction(a, w)
      OBVIOUS
    <3>2. a < w
      BY <1>2, <1>3, <2>3
    <3>3. k \in Int /\ 2 * (k * w) <= 20000 * a + w
      BY <1>4, <2>1, <3>1, <3>2, FractionIsNearest
    <3>4. SUFFICES ASSUME k >= 8001 PROVE FALSE
      BY <3>1, <3>3
    <3>5. 8001 * w <= k * w
      BY <1>4, <3>3, <3>4, ProductGrows
    <3>6. PICK p \in Int : p = k * w
      BY <1>4, <3>3
    <3> QED
      BY <1>2, <1>3, <2>3, <3>3, <3>5, <3>6
  <2>4. PICK x, y : x = Fraction(a, w) /\ y = Fraction(b, w)
    OBVIOUS
  <2> QED
    BY <1>2, <1>5, <1>7, <2>2, <2>3, <2>4
<1> QED
  BY <1>2, <1>6, <1>7

LEMMA BehavioralGrows ==
  ASSUME NEW r \in Requests, NEW t \in Requests, Worse(r, t)
  PROVE  /\ Behavioral(r) \in Int /\ Behavioral(t) \in Int
         /\ 0 <= Behavioral(r) /\ Behavioral(r) <= Behavioral(t)
<1>1. PICK c, d : c = r.customer /\ d = t.customer
  OBVIOUS
<1>2. c \in Customer /\ d \in Customer /\ WorseCustomer(c, d)
  BY <1>1, FactTypes DEF Worse
<1>3. PICK m, n, v, w : /\ m = c.refunds /\ n = d.refunds
                        /\ v = r.velocity["refund"] /\ w = t.velocity["refund"]
  OBVIOUS
<1>4. m \in Nat /\ n \in Nat /\ m <= n
  BY <1>2, <1>3 DEF Customer, WorseCustomer
<1>5. v \in Nat /\ w \in Nat /\ v <= w
  BY <1>3, FactTypes DEF Worse, Busier, Velocity, ActionType
<1>6. PICK a, b : /\ a = Most(RefundFrequency(c), FourFifthsIntensity(c))
                  /\ b = Most(RefundFrequency(d), FourFifthsIntensity(d))
  OBVIOUS
<1>7. a \in Int /\ b \in Int /\ 0 <= a /\ a <= b /\ b <= 10000
  BY <1>2, <1>6, RefundFrequencyGrows, FourFifthsIntensityGrows DEF Most
<1>8. PICK p, q : /\ p = IF m >= 2 THEN AtMost1(a + 1000) ELSE a
                  /\ q = IF n >= 2 THEN AtMost1(b + 1000) ELSE b
  OBVIOUS
<1>9. p \in Int /\ q \in Int /\ 0 <= p /\ p <= q /\ q <= 10000
  BY <1>4, <1>7, <1>8 DEF AtMost1, Least
<1>10. /\ Behavioral(r) = IF v >= 3 THEN AtMost1(p + 2000) ELSE p
       /\ Behavioral(t) = IF w >= 3 THEN AtMost1(q + 2000) ELSE q
  BY <1>1, <1>3, <1>6, <1>8 DEF Behavioral
<1> QED
  BY <1>5, <1>9, <1>10 DEF AtMost1, Least

LEMMA SensitivityType == \A a \in ActionType : Sensitivity[a] \in Nat
  BY DEF ActionType, Sensitivity

LEMMA RiskScoreGrows ==
  ASSUME NEW r \in Requests, NEW t \in Requests, Worse(r, t)
  PROVE  RiskScore(r) \in Int /\ RiskScore(t) \in Int /\ RiskScore(r) <= RiskScore(t)
<1>1. /\ ValueSize(r) \in Int /\ ValueSize(t) \in Int /\ ValueSize(r) <= ValueSize(t)
  BY ValueSizeGrows
<1>2. /\ CustomerHistory(r.customer) \in Int /\ CustomerHistory(t.customer) \in Int
      /\ CustomerHistory(r.customer) <= CustomerHistory(t.customer)
  BY FactTypes, CustomerHistoryGrows DEF Worse
<1>3. /\ InjectionScore(r.said) \in Int /\ InjectionScore(t.said) \in Int
      /\ InjectionScore(r.said) <= InjectionScore(t.said)
  BY FactTypes, InjectionScoreGrows DEF Worse
<1>4. /\ Behavioral(r) \in Int /\ Behavioral(t) \in Int /\ Behavioral(r) <= Behavioral(t)
  BY BehavioralGrows
<1>5. Sensitivity[r.type] \in Nat /\ Sensitivity[t.type] = Sensitivity[r.type]
  BY FactTypes, SensitivityType DEF Worse
<1> QED
  BY <1>1, <1>2, <1>3, <1>4, <1>5 DEF RiskScore

LEMMA BandForRank ==
  ASSUME NEW x \in Int
  PROVE  BandRank(BandFor(x)) =
           IF x < 300000 THEN 1 ELSE IF x < 550000 THEN 2 ELSE IF x < 800000 THEN 3 ELSE 4
<1>1. BandFor(x) = IF x < 300000 THEN "low" ELSE IF x < 550000 THEN "medium"
                   ELSE IF x < 800000 THEN "high" ELSE "critical"
  BY DEF BandFor
<1> QED
  BY <1>1, RanksAreBands

\* A higher score has no lower a band.
LEMMA BandForGrows ==
  ASSUME NEW m \in Int, NEW n \in Int, m <= n
  PROVE  BandRank(BandFor(m)) <= BandRank(BandFor(n))
<1>1. PICK i, j : i = BandRank(BandFor(m)) /\ j = BandRank(BandFor(n))
  OBVIOUS
<1> QED
  BY <1>1, BandForRank

LEMMA VerdictIs ==
  ASSUME NEW said \in SUBSET Pattern
  PROVE  /\ InjectionVerdict(said) = IF InjectionScore(said) >= 4000 THEN "injected"
                                     ELSE IF InjectionScore(said) > 0 THEN "suspicious"
                                     ELSE "clean"
         /\ BandRank(InjectionFloor(said)) = IF InjectionScore(said) < 4000 THEN 1
                                             ELSE IF InjectionScore(said) < 8000 THEN 3 ELSE 4
<1>1. PICK n \in Int : n = InjectionScore(said)
  BY InjectionScoreGrows
<1>2. InjectionVerdict(said) = IF n >= 4000 THEN "injected" ELSE IF n > 0 THEN "suspicious"
                               ELSE "clean"
  BY <1>1 DEF InjectionVerdict
<1>3. InjectionFloor(said) = IF n < 4000 THEN "low" ELSE IF n < 8000 THEN "high" ELSE "critical"
  BY <1>1, <1>2 DEF InjectionFloor
<1> QED
  BY <1>1, <1>2, <1>3, RanksAreBands

\* No fact gone worse lowers the risk band, or clears a conversation.
LEMMA RiskBandGrows ==
  ASSUME NEW r \in Requests, NEW t \in Requests, Worse(r, t)
  PROVE  /\ BandRank(RiskBand(r)) \in 1..4 /\ BandRank(RiskBand(t)) \in 1..4
         /\ BandRank(RiskBand(r)) <= BandRank(RiskBand(t))
         /\ InjectionVerdict(r.said) # "clean" => InjectionVerdict(t.said) # "clean"
<1>1. PICK a \in Int, b \in Int : /\ a = InjectionScore(r.said) /\ b = InjectionScore(t.said)
                                  /\ a <= b
  BY FactTypes, InjectionScoreGrows DEF Worse
<1>2. /\ InjectionVerdict(r.said) # "clean" <=> a > 0
      /\ InjectionVerdict(t.said) # "clean" <=> b > 0
  BY <1>1, VerdictIs, FactTypes
<1>3. PICK f, g : f = BandRank(InjectionFloor(r.said)) /\ g = BandRank(InjectionFloor(t.said))
  OBVIOUS
<1>4. f \in 1..4 /\ g \in 1..4 /\ f <= g
  BY <1>1, <1>3, VerdictIs, FactTypes
<1>5. PICK m, n : m = BandRank(BandFor(RiskScore(r))) /\ n = BandRank(BandFor(RiskScore(t)))
  OBVIOUS
<1>6. m \in 1..4 /\ n \in 1..4 /\ m <= n
  BY <1>5, RiskScoreGrows, BandForGrows, BandForRank
<1>7. RiskBand(r) = Bands[Most(m, f)] /\ RiskBand(t) = Bands[Most(n, g)]
  BY <1>3, <1>5 DEF RiskBand
<1>8. \A i \in 1..4 : BandRank(Bands[i]) = i
  <2>1. Bands[1] = "low" /\ Bands[2] = "medium" /\ Bands[3] = "high" /\ Bands[4] = "critical"
    BY DEF Bands
  <2> QED
    BY <2>1, RanksAreBands
<1>9. Most(m, f) \in 1..4 /\ Most(n, g) \in 1..4 /\ Most(m, f) <= Most(n, g)
  BY <1>4, <1>6 DEF Most
<1>10. BandRank(RiskBand(r)) = Most(m, f) /\ BandRank(RiskBand(t)) = Most(n, g)
  BY <1>7, <1>8, <1>9
<1> QED
  BY <1>1, <1>2, <1>9, <1>10
----------------------------------------------------------------------------
LEMMA FailureIs ==
  ASSUME NEW r
  PROVE  /\ "agent_permission" \in CriticalFailures(r) <=> r.agent.level < r.policy.level
         /\ "refund_ratio" \in CriticalFailures(r) <=>
              /\ r.type \in RefundLike /\ r.order # None
              /\ r.amount * 100 > r.order.total * r.policy.ratio
         /\ "refund_window" \in CriticalFailures(r) <=>
              r.type \in RefundLike /\ r.order # None /\ r.order.age > r.policy.window
         /\ "cancel_policy" \in CriticalFailures(r) <=>
              /\ r.type = "cancel_order"
              /\ r.order # None => r.order.shipped /\ ~r.policy.cancelShipped
         /\ "refund_frequency" \in CriticalFailures(r) <=>
              r.type \in RefundLike /\ r.customer.refunds >= r.policy.refunds
         /\ "chargeback_history" \in CriticalFailures(r) <=>
              /\ r.customer.chargebacks > 0 /\ r.policy.blockChargebacks
              /\ r.type \in RefundLike \cup {"discount"}
         /\ "discount_cap" \in CriticalFailures(r) <=>
              /\ r.type = "discount"
              /\ r.order # None => r.amount * 100 > r.policy.discount * r.order.total
         /\ "currency_integrity" \in CriticalFailures(r) <=> r.order # None /\ ~r.order.local
  BY DEF CriticalFailures

\* What one brand's rules refuse, they refuse of a request with a fact gone worse.
LEMMA CriticalFailuresGrow ==
  ASSUME NEW r \in Requests, NEW t \in Requests, Worse(r, t)
  PROVE  CriticalFailures(r) \subseteq CriticalFailures(t)
<1>1. \A check \in CriticalFailures(r) :
        check \in {"agent_permission", "refund_ratio", "refund_window", "cancel_policy",
                   "refund_frequency", "chargeback_history", "discount_cap",
                   "currency_integrity"}
  BY DEF CriticalFailures
<1>2. /\ r.amount \in Nat /\ t.amount \in Nat /\ r.amount <= t.amount /\ t.type = r.type
  BY FactTypes DEF Worse
<1>3. r.order # None <=> t.order # None
  BY DEF Worse, WorseOrder
<1>4. ASSUME r.order # None
      PROVE  /\ r.order.total \in Nat /\ t.order.total \in Nat /\ t.order.total <= r.order.total
             /\ r.order.age \in Nat /\ t.order.age \in Nat /\ r.order.age <= t.order.age
             /\ r.order.shipped => t.order.shipped
             /\ ~r.order.local => ~t.order.local
  <2>1. r.order \in Order /\ t.order \in Order
    BY <1>3, <1>4, FactTypes
  <2>2. r.order.total <= r.order.total /\ r.order.age <= r.order.age
    BY <2>1 DEF Order
  <2> QED
    BY <2>1, <2>2 DEF Worse, WorseOrder, Order
<1>5. /\ r.policy \in Policy /\ t.policy \in Policy /\ StricterPolicy(r.policy, t.policy)
  BY FactTypes DEF Worse
<1>6. /\ r.policy.ratio \in Nat /\ t.policy.ratio \in Nat /\ t.policy.ratio <= r.policy.ratio
      /\ r.policy.discount \in Nat /\ t.policy.discount \in Nat
      /\ t.policy.discount <= r.policy.discount
  BY <1>5 DEF Policy, StricterPolicy
<1>7. "agent_permission" \in CriticalFailures(r) => "agent_permission" \in CriticalFailures(t)
  <2>1. /\ r.agent.level \in Int /\ t.agent.level \in Int /\ t.agent.level <= r.agent.level
        /\ r.policy.level \in Int /\ t.policy.level \in Int /\ r.policy.level <= t.policy.level
    BY <1>5, FactTypes DEF Worse, WorseAgent, StricterPolicy, Agent, Policy, Levels
  <2> QED
    BY <2>1, FailureIs
<1>8. "refund_ratio" \in CriticalFailures(r) => "refund_ratio" \in CriticalFailures(t)
  <2>1. SUFFICES ASSUME r.type \in RefundLike, r.order # None,
                        r.amount * 100 > r.order.total * r.policy.ratio
                 PROVE  t.amount * 100 > t.order.total * t.policy.ratio
    BY <1>2, <1>3, FailureIs
  <2>2. PICK a \in Int, b \in Int : a = t.order.total * t.policy.ratio /\ b = r.order.total * r.policy.ratio
    BY <1>4, <1>6, <2>1
  <2>3. a <= b
    BY <1>4, <1>6, <2>1, <2>2, ProductGrows
  <2> QED
    BY <1>2, <2>1, <2>2, <2>3
<1>9. "refund_window" \in CriticalFailures(r) => "refund_window" \in CriticalFailures(t)
  <2>1. r.policy.window \in Nat /\ t.policy.window \in Nat /\ t.policy.window <= r.policy.window
    BY <1>5 DEF Policy, StricterPolicy
  <2> QED
    BY <1>2, <1>3, <1>4, <2>1, FailureIs
<1>10. "cancel_policy" \in CriticalFailures(r) => "cancel_policy" \in CriticalFailures(t)
  BY <1>2, <1>3, <1>4, <1>5, FailureIs DEF StricterPolicy
<1>11. "refund_frequency" \in CriticalFailures(r) => "refund_frequency" \in CriticalFailures(t)
  <2>1. /\ r.customer.refunds \in Nat /\ t.customer.refunds \in Nat
        /\ r.customer.refunds <= t.customer.refunds
        /\ r.policy.refunds \in Nat /\ t.policy.refunds \in Nat
        /\ t.policy.refunds <= r.policy.refunds
    BY <1>5, FactTypes DEF Worse, WorseCustomer, StricterPolicy, Customer, Policy
  <2> QED
    BY <1>2, <2>1, FailureIs
<1>12. "chargeback_history" \in CriticalFailures(r) => "chargeback_history" \in CriticalFailures(t)
  <2>1. /\ r.customer.chargebacks \in Nat /\ t.customer.chargebacks \in Nat
        /\ r.customer.chargebacks <= t.customer.chargebacks
        /\ r.policy.blockChargebacks => t.policy.blockChargebacks
    BY <1>5, FactTypes DEF Worse, WorseCustomer, StricterPolicy, Customer
  <2> QED
    BY <1>2, <2>1, FailureIs
<1>13. "discount_cap" \in CriticalFailures(r) => "discount_cap" \in CriticalFailures(t)
  <2>1. SUFFICES ASSUME r.type = "discount", t.order # None,
                        r.amount * 100 > r.policy.discount * r.order.total
                 PROVE  t.amount * 100 > t.policy.discount * t.order.total
    BY <1>2, <1>3, FailureIs
  <2>2. PICK a \in Int, b \in Int : /\ a = t.policy.discount * t.order.total
                                    /\ b = r.policy.discount * r.order.total
    BY <1>3, <1>4, <1>6, <2>1
  <2>3. a <= b
    BY <1>3, <1>4, <1>6, <2>1, <2>2, ProductGrows
  <2> QED
    BY <1>2, <2>1, <2>2, <2>3
<1>14. "currency_integrity" \in CriticalFailures(r) => "currency_integrity" \in CriticalFailures(t)
  BY <1>3, <1>4, FailureIs
<1> QED
  BY <1>1, <1>7, <1>8, <1>9, <1>10, <1>11, <1>12, <1>13, <1>14

LEMMA WarningsGrow ==
  ASSUME NEW r \in Requests, NEW t \in Requests, Worse(r, t), Warnings(r)
  PROVE  Warnings(t)
<1>1. PICK p, q : p = r.policy /\ q = t.policy
  OBVIOUS
<1>2. /\ p \in Policy /\ q \in Policy /\ StricterPolicy(p, q)
      /\ r.amount \in Nat /\ t.amount \in Nat /\ r.amount <= t.amount
  BY <1>1, FactTypes DEF Worse
<1>3. /\ p.review \in Nat /\ q.review \in Nat /\ q.review <= p.review
      /\ p.low \in Nat /\ q.low \in Nat /\ q.low <= p.low
      /\ p.auto \in Nat /\ q.auto \in Nat /\ q.auto <= p.auto
      /\ p.minAge \in Nat /\ q.minAge \in Nat /\ p.minAge <= q.minAge
  BY <1>2 DEF Policy, StricterPolicy
<1>4. /\ r.customer.age \in Nat /\ t.customer.age \in Nat /\ t.customer.age <= r.customer.age
  BY FactTypes DEF Worse, WorseCustomer, Customer
<1>5. CASE OverSpendingBand(r)
  BY <1>1, <1>2, <1>3, <1>5 DEF OverSpendingBand, Warnings
<1>6. CASE r.customer.age < r.policy.minAge /\ r.amount > r.policy.auto
  BY <1>1, <1>2, <1>3, <1>4, <1>6 DEF Warnings
<1>7. CASE r.type \in AlwaysReviewActions
  BY <1>7 DEF Warnings, Worse
<1> QED
  BY <1>5, <1>6, <1>7 DEF Warnings

LEMMA AgentDeniedGrows ==
  ASSUME NEW r \in Requests, NEW t \in Requests, Worse(r, t), AgentDenied(r)
  PROVE  AgentDenied(t)
<1>1. PICK a, b : a = r.agent /\ b = t.agent
  OBVIOUS
<1>2. /\ a \in Agent /\ b \in Agent /\ WorseAgent(a, b) /\ t.type = r.type
      /\ r.amount \in Nat /\ t.amount \in Nat /\ r.amount <= t.amount
      /\ r.velocity \in Velocity /\ t.velocity \in Velocity /\ Busier(r.velocity, t.velocity)
  BY <1>1, FactTypes DEF Worse
<1>3. PICK m \in Nat, n \in Nat : /\ m = MapThenSumSet(LAMBDA x : r.velocity[x], ActionType)
                                  /\ n = MapThenSumSet(LAMBDA x : t.velocity[x], ActionType)
                                  /\ m <= n
  BY <1>2, HourlyGrows
<1>4. /\ AgentDenied(r) <=> \/ r.type \in a.denied
                            \/ a.cap # None /\ r.amount > a.cap
                            \/ a.hourly # None /\ m >= a.hourly
      /\ AgentDenied(t) <=> \/ t.type \in b.denied
                            \/ b.cap # None /\ t.amount > b.cap
                            \/ b.hourly # None /\ n >= b.hourly
  BY <1>1, <1>3 DEF AgentDenied
<1>5. CASE r.type \in a.denied
  BY <1>2, <1>4, <1>5 DEF WorseAgent
<1>6. CASE a.cap # None /\ r.amount > a.cap
  <2>1. b.cap # None /\ b.cap <= a.cap /\ a.cap \in Nat /\ b.cap \in Nat
    BY <1>2, <1>6 DEF WorseAgent, LowerCap, Agent
  <2> QED
    BY <1>2, <1>4, <1>6, <2>1
<1>7. CASE a.hourly # None /\ m >= a.hourly
  <2>1. b.hourly # None /\ b.hourly <= a.hourly /\ a.hourly \in Nat /\ b.hourly \in Nat
    BY <1>2, <1>7 DEF WorseAgent, LowerCap, Agent
  <2> QED
    BY <1>3, <1>4, <1>7, <2>1
<1> QED
  BY <1>4, <1>5, <1>6, <1>7

\* A denial stays one, and what a warning held is not allowed.
LEMMA PolicyStatusGrows ==
  ASSUME NEW r \in Requests, NEW t \in Requests, Worse(r, t)
  PROVE  /\ PolicyStatus(r) = "denied" => PolicyStatus(t) = "denied"
         /\ PolicyStatus(r) = "requires_human" => PolicyStatus(t) # "allowed"
<1>1. PolicyStatus(r) = "denied" => PolicyStatus(t) = "denied"
  BY CriticalFailuresGrow, StatusIs
<1>2. PolicyStatus(r) = "requires_human" => Warnings(r)
  BY DEF PolicyStatus
<1> QED
  BY <1>1, <1>2, WarningsGrow, StatusIs

LEMMA BlastBandRank ==
  ASSUME NEW r \in Requests, NEW e \in Nat, e = r.amount * RepeatsPerHour(r)
  PROVE  BandRank(BlastBand(r)) = IF e >= 10 * r.policy.review THEN 4
                                  ELSE IF e >= r.policy.review THEN 3
                                  ELSE IF e > r.policy.auto THEN 2 ELSE 1
<1>1. r.policy.review \in Nat /\ r.policy.auto \in Nat
  BY FactTypes DEF Policy
<1>2. BlastBand(r) = IF e >= 10 * r.policy.review THEN "critical"
                     ELSE IF e >= r.policy.review THEN "high"
                     ELSE IF e > r.policy.auto THEN "medium" ELSE "low"
  BY <1>1 DEF BlastBand
<1> QED
  BY <1>2, RanksAreBands

\* At the same rate, a worse request has no smaller a blast radius.
LEMMA BlastBandGrows ==
  ASSUME NEW r \in Requests, NEW t \in Requests, Worse(r, t), r.velocity = t.velocity
  PROVE  BandRank(BlastBand(r)) <= BandRank(BlastBand(t))
<1>1. PICK k : k = RepeatsPerHour(r)
  OBVIOUS
<1>2. k \in Nat /\ RepeatsPerHour(t) = k
  <2>1. r.velocity[r.type] \in Nat /\ t.velocity[t.type] = r.velocity[r.type]
    BY FactTypes DEF Worse, Velocity
  <2> QED
    BY <1>1, <2>1 DEF RepeatsPerHour, Least
<1>3. r.amount \in Nat /\ t.amount \in Nat /\ r.amount <= t.amount
  BY FactTypes DEF Worse
<1>4. k <= k
  BY <1>2
<1>5. PICK d, e : d = r.amount * RepeatsPerHour(r) /\ e = t.amount * RepeatsPerHour(t)
  OBVIOUS
<1>6. d \in Nat /\ e \in Nat /\ d <= e
  BY <1>1, <1>2, <1>3, <1>4, <1>5, ProductGrows
<1>7. /\ r.policy.review \in Nat /\ t.policy.review \in Nat /\ t.policy.review <= r.policy.review
      /\ r.policy.auto \in Nat /\ t.policy.auto \in Nat /\ t.policy.auto <= r.policy.auto
  BY FactTypes DEF Worse, StricterPolicy, Policy
<1>8. /\ BandRank(BlastBand(r)) = IF d >= 10 * r.policy.review THEN 4
                                  ELSE IF d >= r.policy.review THEN 3
                                  ELSE IF d > r.policy.auto THEN 2 ELSE 1
      /\ BandRank(BlastBand(t)) = IF e >= 10 * t.policy.review THEN 4
                                  ELSE IF e >= t.policy.review THEN 3
                                  ELSE IF e > t.policy.auto THEN 2 ELSE 1
  BY <1>5, <1>6, BlastBandRank
<1> QED
  BY <1>6, <1>7, <1>8
----------------------------------------------------------------------------
LEMMA StrictnessIs ==
  Strictness("ALLOW") = 1 /\ Strictness("REVIEW") = 2 /\ Strictness("BLOCK") = 3
<1>1. Decisions[1] = "ALLOW" /\ Decisions[2] = "REVIEW" /\ Decisions[3] = "BLOCK"
  BY DEF Decisions
<1>2. \A i \in 1..3 : i = 1 \/ i = 2 \/ i = 3
  OBVIOUS
<1>3. ASSUME NEW n \in 1..3 PROVE Strictness(Decisions[n]) = n
  <2>1. \A i \in 1..3 : Decisions[i] = Decisions[n] => i = n
    BY <1>1, <1>2
  <2> QED
    BY <2>1 DEF Strictness
<1>4. Strictness(Decisions[1]) = 1 /\ Strictness(Decisions[2]) = 2 /\ Strictness(Decisions[3]) = 3
  BY <1>3
<1> HIDE DEF Strictness
<1> QED
  BY <1>1, <1>4

\* What is blocked stays blocked, and what is allowed was allowed before it got worse.
LEMMA ComputedGrows ==
  ASSUME NEW r \in Requests, NEW t \in Requests, Worse(r, t)
  PROVE  /\ Computed(r) = "BLOCK" => Computed(t) = "BLOCK"
         /\ Computed(t) = "ALLOW" => Computed(r) = "ALLOW"
<1>1. PICK i, j : i = BandRank(RiskBand(r)) /\ j = BandRank(RiskBand(t))
  OBVIOUS
<1>2. i \in 1..4 /\ j \in 1..4 /\ i <= j
  BY <1>1, RiskBandGrows
<1>3. ASSUME NEW x
      PROVE  /\ RiskBand(x) = "low" <=> BandRank(RiskBand(x)) = 1
             /\ RiskBand(x) = "medium" <=> BandRank(RiskBand(x)) = 2
             /\ RiskBand(x) = "high" <=> BandRank(RiskBand(x)) = 3
             /\ RiskBand(x) = "critical" <=> BandRank(RiskBand(x)) = 4
  BY RiskBandIs, RanksAreBands DEF BandNames
<1>4. /\ RiskBand(r) = "critical" => RiskBand(t) = "critical"
      /\ RiskBand(r) = "high" => RiskBand(t) \in {"high", "critical"}
      /\ RiskBand(t) = "low" => RiskBand(r) = "low"
  BY <1>1, <1>2, <1>3
<1>5. \A x : Computed(x) = "BLOCK" <=>
          \/ AgentDenied(x)
          \/ PolicyStatus(x) = "denied"
          \/ RiskBand(x) = "critical"
          \/ InjectionVerdict(x.said) # "clean" /\ RiskBand(x) = "high"
  BY DecideIs DEF Computed
<1>6. \A x : Computed(x) = "ALLOW" <=>
          /\ Computed(x) # "BLOCK" /\ PolicyStatus(x) = "allowed"
          /\ RiskBand(x) = "low" /\ ~(x.amount > x.policy.low)
  <2>1. SUFFICES ASSUME NEW x, Computed(x) # "BLOCK"
                 PROVE  Computed(x) = "ALLOW" <=>
                          /\ PolicyStatus(x) = "allowed" /\ RiskBand(x) = "low"
                          /\ ~(x.amount > x.policy.low)
    OBVIOUS
  <2>2. /\ Computed(x) = Decide(x, PolicyStatus(x), RiskBand(x), InjectionVerdict(x.said))
        /\ PolicyStatus(x) \in {"allowed", "requires_human"}
        /\ RiskBand(x) \in {"low", "medium", "high"}
    BY <2>1, NotBlockedIs, StatusIs, RiskBandIs DEF BandNames
  <2> QED
    BY <2>1, <2>2 DEF Decide
<1>7. Computed(r) = "BLOCK" => Computed(t) = "BLOCK"
  BY <1>4, <1>5, AgentDeniedGrows, PolicyStatusGrows, RiskBandGrows
<1>8. t.amount > t.policy.low \/ ~(r.amount > r.policy.low)
  <2>1. /\ r.amount \in Nat /\ t.amount \in Nat /\ r.amount <= t.amount
        /\ r.policy.low \in Nat /\ t.policy.low \in Nat /\ t.policy.low <= r.policy.low
    BY FactTypes DEF Worse, StricterPolicy, Policy
  <2> QED
    BY <2>1
<1> QED
  BY <1>4, <1>6, <1>7, <1>8, PolicyStatusGrows, StatusIs

\* Of two requests, one worse than the other, the worse one is decided no more mildly.
LEMMA DecisionGrows ==
  ASSUME NEW r \in Requests, NEW t \in Requests, Worse(r, t)
  PROVE  Strictness(RecordOf(r).decision) <= Strictness(RecordOf(t).decision)
<1>1. /\ Computed(r) \in {"ALLOW", "REVIEW", "BLOCK"} /\ Computed(t) \in {"ALLOW", "REVIEW", "BLOCK"}
      /\ RecordOf(r).decision = Contain(r.agent, Computed(r))
      /\ RecordOf(t).decision = Contain(t.agent, Computed(t))
  BY RecordIs
<1>2. r.agent.quarantined => t.agent.quarantined
  BY DEF Worse, WorseAgent
<1>3. PICK a, b : a = RecordOf(r).decision /\ b = RecordOf(t).decision
  OBVIOUS
<1>4. /\ a = IF r.agent.quarantined /\ Computed(r) = "ALLOW" THEN "REVIEW" ELSE Computed(r)
      /\ b = IF t.agent.quarantined /\ Computed(t) = "ALLOW" THEN "REVIEW" ELSE Computed(t)
  BY <1>1, <1>3 DEF Contain
<1>5. /\ a \in {"ALLOW", "REVIEW", "BLOCK"} /\ b \in {"ALLOW", "REVIEW", "BLOCK"}
      /\ a = "BLOCK" => b = "BLOCK"
      /\ b = "ALLOW" => a = "ALLOW"
  BY <1>1, <1>2, <1>4, ComputedGrows
<1> QED
  BY <1>3, <1>5, StrictnessIs

(* Of any two requests, the one no better in any fact and worse in any      *)
(* number of them is decided no more mildly and banded no lower, and at the *)
(* same rate of actions its blast radius is no smaller.                     *)
THEOREM WorseIsNeverMilder ==
  ASSUME NEW r \in Requests, NEW t \in Requests, Worse(r, t)
  PROVE  /\ Strictness(RecordOf(r).decision) <= Strictness(RecordOf(t).decision)
         /\ BandRank(RecordOf(r).band) <= BandRank(RecordOf(t).band)
         /\ r.velocity = t.velocity =>
              BandRank(RecordOf(r).blast) <= BandRank(RecordOf(t).blast)
  BY DecisionGrows, RiskBandGrows, BlastBandGrows, RecordIs

(* A step that decides the same request again with one of its facts gone    *)
(* worse never relaxes what the record said: whatever the figures are.      *)
THEOREM NeverRelaxedHolds == Spec => NeverRelaxed
<1>1. ASSUME Faithful, record # Nothing, NEW t \in Worsened(request), Evaluate(t)
      PROVE  /\ Strictness(record'.decision) >= Strictness(record.decision)
             /\ BandRank(record'.band) >= BandRank(record.band)
             /\ request.velocity = request'.velocity =>
                  BandRank(record'.blast) >= BandRank(record.blast)
  <2>1. PICK r, f : r = request /\ f = record
    OBVIOUS
  <2>2. r \in Requests /\ f = RecordOf(r) /\ request' = t /\ record' = RecordOf(t)
    BY <1>1, <2>1 DEF Faithful, Evaluate
  <2>3. t \in Requests /\ Worse(r, t)
    BY <1>1, <2>1, <2>2, WorsenedIsWorse
  <2>4. /\ Strictness(RecordOf(r).decision) <= Strictness(RecordOf(t).decision)
        /\ BandRank(RecordOf(r).band) <= BandRank(RecordOf(t).band)
        /\ r.velocity = t.velocity =>
             BandRank(RecordOf(r).blast) <= BandRank(RecordOf(t).blast)
    BY <2>2, <2>3, WorseIsNeverMilder
  <2> QED
    BY <2>1, <2>2, <2>4
<1>2. ASSUME Faithful, [Next]_vars
      PROVE  [record # Nothing =>
               /\ Strictness(record'.decision) >= Strictness(record.decision)
               /\ BandRank(record'.band) >= BandRank(record.band)
               /\ request.velocity = request'.velocity =>
                    BandRank(record'.blast) >= BandRank(record.blast)]_vars
  BY <1>1, <1>2 DEF Next, vars
<1> QED
  BY <1>2, FaithfulHolds, PTL DEF Spec, NeverRelaxed
=============================================================================
