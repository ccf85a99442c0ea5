--------------------------- MODULE GatewayProofs ---------------------------
(***************************************************************************)
(* Theorems of Gateway: the limiter implements SlidingWindow and keeps the *)
(* budgets, packs stay in order, and only answered calls are held and      *)
(* billed, for every set of tenants and policies and any clock.            *)
(***************************************************************************)
EXTENDS Gateway, FiniteSetTheorems, FunctionTheorems, TLAPS

\* The parts of TypeOK, component by component.
ClockTyped == now \in Nat
LimiterTyped ==
    /\ hits \in [Brands -> SUBSET Hit]
    /\ passed \subseteq [caller : Brands, at : Nat, nr : Nat] /\ IsFiniteSet(passed)
    /\ turned \subseteq [caller : Brands, at : Nat]
PacksTyped == packs \in Seq(Pack) /\ active \in [Brands -> 0..Len(packs)]
TrailTyped == records \in Seq(Record) /\ reviews \subseteq DOMAIN records
MeterTyped == events \in Seq(Event) /\ billed \in [Periods -> [Brands -> Nat]]
\* There is always a highest version.
HasLatest(b) == \E v \in Versions(b) : \A w \in Versions(b) : w <= v
WellTyped ==
    /\ ClockTyped /\ LimiterTyped /\ PacksTyped /\ TrailTyped /\ MeterTyped
    /\ registry \in [Brands -> Tenant]
    /\ \A b \in Brands : HasLatest(b)

----------------------------------------------------------------------------
(* Sequences.                                                               *)

LEMMA AppendIs ==
  ASSUME NEW S, NEW s \in Seq(S), NEW e \in S
  PROVE  /\ Append(s, e) \in Seq(S)
         /\ DOMAIN Append(s, e) = DOMAIN s \cup {Len(s) + 1}
         /\ DOMAIN s = 1..Len(s) /\ Len(s) \in Nat
         /\ \A i \in DOMAIN s : Append(s, e)[i] = s[i]
         /\ Append(s, e)[Len(s) + 1] = e
         /\ Len(Append(s, e)) = Len(s) + 1
  OBVIOUS

LEMMA ConcatIs ==
  ASSUME NEW S, NEW s \in Seq(S), NEW e, NEW t \in Seq(S), \A k \in 1..Len(t) : t[k] = e
  PROVE  /\ s \o t \in Seq(S)
         /\ DOMAIN (s \o t) = 1..(Len(s) + Len(t))
         /\ DOMAIN s = 1..Len(s) /\ Len(s) \in Nat
         /\ \A i \in DOMAIN s : (s \o t)[i] = s[i]
         /\ \A i \in DOMAIN (s \o t) \ DOMAIN s : (s \o t)[i] = e
  OBVIOUS
----------------------------------------------------------------------------
(* What each operation does, once and for all.                              *)

LEMMA QuotientIsNat == ASSUME NEW n \in Nat, NEW m \in Nat \ {0} PROVE n \div m \in Nat
  OBVIOUS

LEMMA PeriodIsNat == ClockTyped => Period \in Nat
  BY GatewayBounds, QuotientIsNat DEF ClockTyped, Period

LEMMA ScopeIsFinite ==
  ASSUME WellTyped, NEW scope PROVE Cardinality(InScope(scope)) \in Nat
<1>1. records \in Seq(Record)
  BY DEF WellTyped, TrailTyped
<1>2. Len(records) \in Nat /\ DOMAIN records = 1..Len(records)
  BY <1>1
<1>3. InScope(scope) \in SUBSET (1..Len(records))
  BY <1>2 DEF InScope, Page
<1>4. IsFiniteSet(1..Len(records))
  BY <1>2, FS_Interval
<1>5. IsFiniteSet(InScope(scope))
  BY <1>3, <1>4, FS_Subset
<1> QED
  BY <1>5, FS_CardinalityType

\* The limiter stays well typed, whatever it is asked.
LEMMA LimiterStep ==
  ASSUME ClockTyped, LimiterTyped, NEW b \in Brands, NEW limit \in Nat,
         Admit(b, limit) \/ Refuse(b, limit)
  PROVE  ClockTyped' /\ LimiterTyped'
<1> USE DEF ClockTyped, LimiterTyped
<1>1. Recent(b) \subseteq Hit
  BY DEF Recent
<1>2. CASE Admit(b, limit)
  <2>1. Cardinality(passed) \in Nat
    BY FS_CardinalityType
  <2>2. Stamp \in Hit
    BY <2>1 DEF Stamp, Hit
  <2>3. Booked(b) \in [Brands -> SUBSET Hit]
    BY <1>1, <2>2 DEF Booked
  <2>4. Prune(Booked(b)) \in [Brands -> SUBSET Hit]
    BY <2>3 DEF Prune
  <2>5. hits' \in [Brands -> SUBSET Hit]
    BY <1>2, <2>3, <2>4 DEF Admit
  <2>6. /\ passed' = passed \cup {[caller |-> b, at |-> now, nr |-> Cardinality(passed)]}
        /\ UNCHANGED <<now, turned>>
    BY <1>2 DEF Admit
  <2>7. IsFiniteSet(passed')
    BY <2>6, FS_AddElement
  <2> QED
    BY <2>1, <2>5, <2>6, <2>7
<1>3. CASE Refuse(b, limit)
  BY <1>1, <1>3 DEF Refuse
<1> QED
  BY <1>2, <1>3

LEMMA LimitIsNat ==
  ASSUME registry \in [Brands -> Tenant], NEW b \in Brands
  PROVE  LimitOf(b) \in Nat
  BY TenantSettings DEF LimitOf, Tenant

\* A record of a decision, by whomever it was asked for.
LEMMA AppendRecord ==
  ASSUME TrailTyped, NEW r \in Record, records' = Append(records, r),
         reviews' \in {reviews, reviews \cup Held(r)}
  PROVE  TrailTyped'
<1>1. /\ records' \in Seq(Record) /\ DOMAIN records' = DOMAIN records \cup {Len(records) + 1}
  BY AppendIs DEF TrailTyped
<1> QED
  BY <1>1 DEF TrailTyped, Held

LEMMA DecideIsRecord ==
  ASSUME WellTyped, NEW b \in Brands \cup {None}, NEW p \in Policies, NEW n \in Nat, NEW a \in BOOLEAN
  PROVE  Decide(b, p, n, a) \in Record
  BY PeriodIsNat DEF Decide, Record, WellTyped

LEMMA ResolveIsPolicy ==
  ASSUME WellTyped, NEW b \in Brands, NEW p \in Policies
  PROVE  Resolve(b, p) \in Policies /\ active[b] \in Nat
<1>1. packs \in Seq(Pack) /\ active[b] \in 0..Len(packs)
  BY DEF WellTyped, PacksTyped
<1>2. active[b] # 0 => active[b] \in DOMAIN packs
  BY <1>1
<1>3. active[b] # 0 => packs[active[b]] \in Pack
  BY <1>1, <1>2
<1> QED
  BY <1>1, <1>3 DEF Resolve, Pack

LEMMA OneMore ==
  ASSUME NEW P, NEW B, NEW table \in [P -> [B -> Nat]], NEW n, NEW b \in B
  PROVE  [table EXCEPT ![n][b] = @ + 1] \in [P -> [B -> Nat]]
<1>1. CASE n \in P
  <2>1. [table[n] EXCEPT ![b] = @ + 1] \in [B -> Nat]
    BY <1>1
  <2> QED
    BY <1>1, <2>1
<1>2. CASE n \notin P
  BY <1>2
<1> QED
  BY <1>1, <1>2

LEMMA MeterStep ==
  ASSUME WellTyped, NEW b \in Brands, NEW d \in {"ALLOW", "REVIEW", "BLOCK"}, MeterBrand(b, d)
  PROVE  MeterTyped'
<1>1. Period \in Nat
  BY PeriodIsNat DEF WellTyped
<1>2. [brand |-> b, decision |-> d, period |-> Period] \in Event
  BY <1>1 DEF Event
<1>3. Append(events, [brand |-> b, decision |-> d, period |-> Period]) \in Seq(Event)
  BY <1>2 DEF WellTyped, MeterTyped
<1>4. events' \in Seq(Event)
  BY <1>3, GatewayBounds DEF MeterBrand, LastOf
<1>5. billed' \in [Periods -> [Brands -> Nat]]
  BY OneMore DEF MeterBrand, WellTyped, MeterTyped
<1> QED
  BY <1>4, <1>5 DEF MeterTyped

\* The next version is a number above all versions of the brand.
LEMMA NextIsAbove ==
  ASSUME WellTyped, NEW b \in Brands
  PROVE  NextVersion(b) \in Nat /\ \A v \in Versions(b) : v < NextVersion(b)
<1>1. \A v \in Versions(b) : v \in Nat
  <2>1. \A i \in DOMAIN packs : packs[i] \in Pack
    BY DEF WellTyped, PacksTyped
  <2> QED
    BY <2>1 DEF Versions, Pack
<1>2. \E v \in Versions(b) : \A w \in Versions(b) : w <= v
  BY DEF WellTyped, HasLatest
<1> QED
  BY <1>1, <1>2 DEF NextVersion

LEMMA CreateStep ==
  ASSUME WellTyped, NEW b \in Brands, NEW p \in Policies, Create(b, p)
  PROVE  /\ PacksTyped' /\ \A d \in Brands : HasLatest(d)'
         /\ DOMAIN packs' = DOMAIN packs \cup {Len(packs) + 1}
         /\ Len(packs) + 1 \notin DOMAIN packs
         /\ \A i \in DOMAIN packs : packs'[i] = packs[i]
         /\ packs'[Len(packs) + 1] = [brand |-> b, version |-> NextVersion(b), policy |-> p,
                                      state |-> "active"]
         /\ active' = IF active[b] = 0 THEN [active EXCEPT ![b] = Len(packs) + 1] ELSE active
<1> DEFINE e == [brand |-> b, version |-> NextVersion(b), policy |-> p, state |-> "active"]
<1>1. e \in Pack /\ packs \in Seq(Pack) /\ packs' = Append(packs, e)
  BY NextIsAbove DEF Create, WellTyped, PacksTyped, Pack
<1>2. /\ DOMAIN packs' = DOMAIN packs \cup {Len(packs) + 1}
      /\ \A i \in DOMAIN packs : packs'[i] = packs[i]
      /\ packs'[Len(packs) + 1] = e /\ Len(packs') = Len(packs) + 1
      /\ packs' \in Seq(Pack) /\ DOMAIN packs = 1..Len(packs) /\ Len(packs) \in Nat
  BY <1>1, AppendIs
<1>3. active' = IF active[b] = 0 THEN [active EXCEPT ![b] = Len(packs) + 1] ELSE active
  BY <1>2 DEF Create
<1>4. PacksTyped'
  BY <1>2, <1>3 DEF WellTyped, PacksTyped
<1>5. ASSUME NEW d \in Brands PROVE HasLatest(d)'
  <2>1. Versions(d)' = IF d = b THEN Versions(d) \cup {NextVersion(b)} ELSE Versions(d)
    BY <1>2 DEF Versions
  <2>2. CASE d = b
    <3>1. NextVersion(b) \in Nat /\ \A v \in Versions(d) : v < NextVersion(b) /\ v <= NextVersion(b)
      <4>1. \A i \in DOMAIN packs : packs[i] \in Pack
        BY <1>1
      <4>2. \A v \in Versions(d) : v \in Nat
        BY <4>1 DEF Versions, Pack
      <4> QED
        BY <2>2, <4>2, NextIsAbove
    <3>2. \A w \in Versions(d)' : w <= NextVersion(b)
      BY <2>1, <2>2, <3>1
    <3> QED
      BY <2>1, <2>2, <3>2 DEF HasLatest
  <2>3. CASE d # b
    BY <2>1, <2>3 DEF WellTyped, HasLatest
  <2> QED
    BY <2>2, <2>3
<1> QED
  BY <1>2, <1>3, <1>4, <1>5

\* activate and archive change no brand, version or policy.
LEMMA RelabelStep ==
  ASSUME WellTyped, NEW i \in DOMAIN packs, Activate(i) \/ Archive(i)
  PROVE  /\ PacksTyped' /\ \A d \in Brands : HasLatest(d)'
         /\ DOMAIN packs' = DOMAIN packs
         /\ \A k \in DOMAIN packs :
               /\ packs'[k].brand = packs[k].brand
               /\ packs'[k].version = packs[k].version
               /\ packs'[k].policy = packs[k].policy
               /\ k # i => packs'[k] = packs[k]
<1>1. packs \in Seq(Pack) /\ active \in [Brands -> 0..Len(packs)]
  BY DEF WellTyped, PacksTyped
<1>2. packs[i] \in Pack /\ i \in 1..Len(packs)
  BY <1>1
<1>3. \E s \in {"active", "archived"} : packs' = [packs EXCEPT ![i].state = s]
  BY DEF Activate, Archive
<1>4. PICK s \in {"active", "archived"} : packs' = [packs EXCEPT ![i].state = s]
  BY <1>3
<1>5. [packs[i] EXCEPT !.state = s] \in Pack
  BY <1>2 DEF Pack
<1>6. packs' \in Seq(Pack) /\ Len(packs') = Len(packs) /\ DOMAIN packs' = DOMAIN packs
  BY <1>1, <1>4, <1>5
<1>7. active' \in [Brands -> 0..Len(packs)]
  <2>1. 0 \in 0..Len(packs) /\ i \in 0..Len(packs)
    BY <1>1, <1>2
  <2>2. CASE Activate(i)
    BY <1>1, <2>1, <2>2 DEF Activate
  <2>3. CASE Archive(i)
    BY <1>1, <2>1, <2>3 DEF Archive
  <2> QED
    BY <2>2, <2>3
<1>8. \A k \in DOMAIN packs : packs[k] \in Pack
  BY <1>1
<1>9. \A k \in DOMAIN packs :
         /\ packs'[k].brand = packs[k].brand
         /\ packs'[k].version = packs[k].version
         /\ packs'[k].policy = packs[k].policy
         /\ k # i => packs'[k] = packs[k]
  BY <1>1, <1>4, <1>8 DEF Pack
<1>10. ASSUME NEW d \in Brands PROVE Versions(d)' = Versions(d)
  <2>1. {j \in DOMAIN packs' : packs'[j].brand = d} = {j \in DOMAIN packs : packs[j].brand = d}
    BY <1>6, <1>9
  <2>2. \A j \in DOMAIN packs : packs'[j].version = packs[j].version
    BY <1>6, <1>9
  <2> QED
    BY <2>1, <2>2 DEF Versions
<1>11. \A d \in Brands : HasLatest(d)'
  BY <1>10 DEF WellTyped, HasLatest
<1> QED
  BY <1>6, <1>7, <1>9, <1>11 DEF PacksTyped
----------------------------------------------------------------------------
(* Type correctness.                                                        *)

LEMMA InitWellTyped == Init => WellTyped
<1> SUFFICES ASSUME Init PROVE WellTyped
  OBVIOUS
<1>1. LimiterTyped /\ ClockTyped
  BY FS_EmptySet DEF Init, LimiterInit, LimiterTyped, ClockTyped
<1>2. PacksTyped /\ TrailTyped /\ MeterTyped
  BY DEF Init, PacksInit, PacksTyped, TrailTyped, MeterTyped
<1>3. registry \in [Brands -> Tenant]
  BY DEF Init, TenantsInit, Tenant
<1>4. \A b \in Brands : HasLatest(b)
  BY DEF Init, PacksInit, HasLatest, Versions
<1> QED
  BY <1>1, <1>2, <1>3, <1>4 DEF WellTyped

LEMMA SimulateStep ==
  ASSUME WellTyped, NEW i \in DOMAIN packs, NEW scope \in Brands, Simulate(i, scope)
  PROVE  /\ Shadow(i) \in Record
         /\ TrailTyped' /\ reviews' = reviews /\ DOMAIN records \subseteq DOMAIN records'
         /\ \A k \in DOMAIN records : records'[k] = records[k]
         /\ \A k \in DOMAIN records' \ DOMAIN records : records'[k] = Shadow(i)
<1> DEFINE n == Cardinality(InScope(scope))
<1>1. n \in Nat
  BY ScopeIsFinite
<1>2. packs[i] \in Pack /\ i \in Nat
  BY DEF WellTyped, PacksTyped
<1>3. Shadow(i) \in Record
  BY <1>2, PeriodIsNat DEF Shadow, Record, Pack, WellTyped
<1>4. records' = records \o Shadows(i, n) /\ reviews' = reviews
  BY DEF Simulate
<1>5. records \in Seq(Record) /\ reviews \subseteq DOMAIN records
  BY DEF WellTyped, TrailTyped
<1>6. /\ Shadows(i, n) \in Seq(Record) /\ Len(Shadows(i, n)) = n
      /\ \A k \in 1..n : Shadows(i, n)[k] = Shadow(i)
  BY <1>1, <1>3 DEF Shadows
<1>7. /\ records' \in Seq(Record) /\ DOMAIN records' = 1..(Len(records) + n)
      /\ DOMAIN records = 1..Len(records) /\ Len(records) \in Nat
      /\ \A k \in DOMAIN records : records'[k] = records[k]
      /\ \A k \in DOMAIN records' \ DOMAIN records : records'[k] = Shadow(i)
  BY <1>4, <1>5, <1>6, ConcatIs
<1>8. DOMAIN records \subseteq DOMAIN records'
  BY <1>1, <1>7
<1> QED
  BY <1>3, <1>4, <1>5, <1>6, <1>7, <1>8 DEF TrailTyped

\* A decision on the trail, by whomever it was asked for.
LEMMA TrailStep ==
  ASSUME WellTyped, NEW b \in Brands, NEW p \in Policies, NEW answered \in BOOLEAN,
         \E r : /\ r = Decide(b, Resolve(b, p), active[b], answered)
               /\ records' = Append(records, r)
               /\ reviews' \in {reviews, reviews \cup Held(r)}
  PROVE  TrailTyped'
<1>1. Decide(b, Resolve(b, p), active[b], answered) \in Record
  BY ResolveIsPolicy, DecideIsRecord
<1> QED
  BY <1>1, AppendRecord DEF WellTyped

LEMMA StepWellTyped == WellTyped /\ [Next]_vars => WellTyped'
<1> SUFFICES ASSUME WellTyped, [Next]_vars PROVE WellTyped'
  OBVIOUS
<1> DEFINE Latest == \A b \in Brands : HasLatest(b)
<1>1. UNCHANGED limiter => ClockTyped' /\ LimiterTyped'
  BY DEF limiter, WellTyped, ClockTyped, LimiterTyped
<1>2. UNCHANGED packStore => PacksTyped' /\ Latest'
  BY DEF packStore, WellTyped, PacksTyped, HasLatest, Versions
<1>3. UNCHANGED trail => TrailTyped'
  BY DEF trail, WellTyped, TrailTyped
<1>4. UNCHANGED meter => MeterTyped'
  BY DEF meter, WellTyped, MeterTyped
<1>5. UNCHANGED registry => (registry \in [Brands -> Tenant])'
  BY DEF WellTyped
<1>6. ASSUME NEW b \in Brands, Admitted(b) \/ Refuse(b, LimitOf(b))
      PROVE  ClockTyped' /\ LimiterTyped'
  BY <1>6, LimitIsNat, LimiterStep DEF WellTyped, Admitted
<1>7. ASSUME NEW b \in Brands, NEW n \in Limits, NEW s \in BOOLEAN, CreateBrand(b, n, s)
      PROVE  WellTyped'
  <2>1. registry' \in [Brands -> Tenant]
    BY <1>7, LimitsAreNat DEF CreateBrand, Register, WellTyped, Tenant
  <2> QED
    BY <1>1, <1>2, <1>3, <1>4, <1>7, <2>1 DEF CreateBrand, WellTyped
<1>8. ASSUME NEW b \in Brands, NEW p \in Policies, CreatePack(b, p) PROVE WellTyped'
  BY <1>1, <1>3, <1>4, <1>5, <1>8, CreateStep DEF CreatePack, WellTyped
<1>9. ASSUME NEW b \in Brands, NEW i \in DOMAIN packs, Simulate(i, b) PROVE WellTyped'
  BY <1>1, <1>2, <1>4, <1>5, <1>9, SimulateStep DEF Simulate, WellTyped
<1>10. ASSUME NEW b \in Brands, OverLimit(b) PROVE WellTyped'
  BY <1>2, <1>3, <1>4, <1>5, <1>6, <1>10 DEF OverLimit, WellTyped
<1>11. ASSUME NEW b \in Brands, NoVerdict(b) PROVE WellTyped'
  BY <1>2, <1>3, <1>4, <1>5, <1>6, <1>11 DEF NoVerdict, WellTyped
<1>12. ASSUME NEW b \in Brands, NEW p \in Policies, Evaluate(b, p) PROVE WellTyped'
  <2>1. TrailTyped'
    BY <1>12, TrailStep DEF Evaluate
  <2>2. MeterTyped'
    <3>1. Verdict[Resolve(b, p)] \in {"ALLOW", "REVIEW", "BLOCK"}
      BY ResolveIsPolicy, VerdictsAreDecisions
    <3> QED
      BY <1>12, <3>1, MeterStep DEF Evaluate, Decision, Decide
  <2> QED
    BY <1>2, <1>5, <1>6, <1>12, <2>1, <2>2 DEF Evaluate, WellTyped
<1>13. ASSUME NEW b \in Brands, NEW p \in Policies, EvaluateFails(b, p) PROVE WellTyped'
  <2>1. TrailTyped'
    BY <1>13, TrailStep DEF EvaluateFails
  <2> QED
    BY <1>2, <1>4, <1>5, <1>6, <1>13, <2>1 DEF EvaluateFails, WellTyped
<1>14. ASSUME NEW p \in Policies, ConnectorEvaluates(p) PROVE WellTyped'
  <2>1. Decide(None, p, 0, TRUE) \in Record
    BY DecideIsRecord
  <2>2. TrailTyped'
    BY <1>14, <2>1, AppendRecord DEF ConnectorEvaluates, WellTyped
  <2> QED
    BY <1>1, <1>2, <1>4, <1>5, <1>14, <2>2 DEF ConnectorEvaluates, WellTyped
<1>15. ASSUME NEW i \in DOMAIN packs, ActivatePack(i) \/ ArchivePack(i) PROVE WellTyped'
  BY <1>1, <1>3, <1>4, <1>5, <1>15, RelabelStep DEF ActivatePack, ArchivePack, WellTyped
<1>16. CASE Clock
  <2>1. ClockTyped' /\ LimiterTyped'
    BY <1>16 DEF Clock, Tick, WellTyped, ClockTyped, LimiterTyped
  <2> QED
    BY <1>2, <1>3, <1>4, <1>5, <1>16, <2>1 DEF Clock, WellTyped
<1>17. CASE UNCHANGED vars
  <2>1. UNCHANGED <<limiter, packStore, registry, trail, meter>>
    BY <1>17 DEF vars
  <2> QED
    BY <1>1, <1>2, <1>3, <1>4, <1>5, <2>1 DEF WellTyped
<1> QED
  BY <1>7, <1>8, <1>9, <1>10, <1>11, <1>12, <1>13, <1>14, <1>15, <1>16, <1>17
     DEF Next, Operate, Call, Unauthenticated

(* Every reachable state of the gateway is well typed.                      *)
THEOREM GatewayTypeCorrect == Spec => []TypeOK
<1>1. Spec => []WellTyped
  BY InitWellTyped, StepWellTyped, PTL DEF Spec
<1>2. WellTyped => TypeOK
  BY DEF WellTyped, ClockTyped, LimiterTyped, PacksTyped, TrailTyped, MeterTyped, TypeOK
<1> QED
  BY <1>1, <1>2, PTL
----------------------------------------------------------------------------
(* Policy packs.                                                            *)

\* A pack that has judged exists, and judged for its brand and as it is.
Judged == \A k \in DOMAIN records : records[k].pack # 0 =>
    /\ records[k].pack \in DOMAIN packs
    /\ packs[records[k].pack].brand = records[k].brand
    /\ packs[records[k].pack].policy = records[k].policy
InForce == \A b \in Brands : active[b] # 0 =>
    packs[active[b]].brand = b /\ packs[active[b]].state = "active"
Numbered == \A i, j \in DOMAIN packs :
    packs[i].brand = packs[j].brand /\ packs[i].version = packs[j].version => i = j
PacksInOrder == Judged /\ InForce /\ Numbered

\* A record is appended that no pack has judged, or the pack in force.
LEMMA JudgedStep ==
  ASSUME WellTyped, PacksInOrder, UNCHANGED packStore, NEW r, r \in Record,
         records' = Append(records, r),
         r.pack # 0 => /\ r.pack \in DOMAIN packs
                       /\ packs[r.pack].brand = r.brand /\ packs[r.pack].policy = r.policy
  PROVE  PacksInOrder'
<1>1. /\ DOMAIN records' = DOMAIN records \cup {Len(records) + 1}
      /\ \A k \in DOMAIN records : records'[k] = records[k]
      /\ records'[Len(records) + 1] = r
  BY AppendIs DEF WellTyped, TrailTyped
<1>2. Judged'
  BY <1>1 DEF PacksInOrder, Judged, packStore
<1>3. InForce' /\ Numbered'
  BY DEF PacksInOrder, InForce, Numbered, packStore
<1> QED
  BY <1>2, <1>3 DEF PacksInOrder

LEMMA StepPacksInOrder == WellTyped /\ PacksInOrder /\ [Next]_vars => PacksInOrder'
<1> SUFFICES ASSUME WellTyped, PacksInOrder, [Next]_vars PROVE PacksInOrder'
  OBVIOUS
<1>0. /\ packs \in Seq(Pack) /\ \A i \in DOMAIN packs : packs[i] \in Pack
      /\ active \in [Brands -> 0..Len(packs)]
      /\ \A b \in Brands : active[b] # 0 => active[b] \in DOMAIN packs
  BY DEF WellTyped, PacksTyped
<1>1. UNCHANGED <<packStore, records>> => PacksInOrder'
  BY DEF PacksInOrder, Judged, InForce, Numbered, packStore
<1>2. ASSUME NEW b \in Brands, NEW n \in Limits, NEW s \in BOOLEAN, CreateBrand(b, n, s)
      PROVE  PacksInOrder'
  BY <1>1, <1>2 DEF CreateBrand, trail
<1>3. ASSUME NEW b \in Brands, NEW p \in Policies, CreatePack(b, p) PROVE PacksInOrder'
  <2>1. Create(b, p) /\ UNCHANGED records
    BY <1>3 DEF CreatePack, trail
  <2> DEFINE n == Len(packs) + 1
  <2>2. /\ DOMAIN packs' = DOMAIN packs \cup {n} /\ n \notin DOMAIN packs
        /\ \A i \in DOMAIN packs : packs'[i] = packs[i]
        /\ packs'[n].brand = b /\ packs'[n].version = NextVersion(b) /\ packs'[n].state = "active"
        /\ active' = IF active[b] = 0 THEN [active EXCEPT ![b] = n] ELSE active
    <3>1. /\ DOMAIN packs' = DOMAIN packs \cup {n} /\ n \notin DOMAIN packs
          /\ \A i \in DOMAIN packs : packs'[i] = packs[i]
          /\ packs'[n] = [brand |-> b, version |-> NextVersion(b), policy |-> p, state |-> "active"]
          /\ active' = IF active[b] = 0 THEN [active EXCEPT ![b] = n] ELSE active
      BY <2>1, CreateStep
    <3> QED
      BY <3>1
  <2>3. Judged'
    BY <2>1, <2>2 DEF PacksInOrder, Judged
  <2>4. InForce'
    BY <1>0, <2>2 DEF PacksInOrder, InForce
  <2>5. \A i \in DOMAIN packs : packs[i].brand = b => packs[i].version # NextVersion(b)
    <3>1. \A v \in Versions(b) : v # NextVersion(b)
      <4>1. \A v \in Versions(b) : v \in Nat
        BY <1>0 DEF Versions, Pack
      <4> QED
        BY <4>1, NextIsAbove
    <3> QED
      BY <3>1 DEF Versions
  <2>6. Numbered'
    BY <2>2, <2>5 DEF PacksInOrder, Numbered
  <2> QED
    BY <2>3, <2>4, <2>6 DEF PacksInOrder
<1>4. ASSUME NEW b \in Brands, NEW i \in DOMAIN packs, Simulate(i, b) PROVE PacksInOrder'
  <2>1. /\ \A k \in DOMAIN records : records'[k] = records[k]
        /\ \A k \in DOMAIN records' \ DOMAIN records : records'[k].pack = 0
    <3>1. /\ \A k \in DOMAIN records : records'[k] = records[k]
          /\ \A k \in DOMAIN records' \ DOMAIN records : records'[k] = Shadow(i)
      BY <1>4, SimulateStep
    <3>2. Shadow(i).pack = 0
      BY DEF Shadow
    <3> QED
      BY <3>1, <3>2
  <2>2. UNCHANGED packStore
    BY <1>4 DEF Simulate
  <2>3. Judged'
    BY <2>1, <2>2 DEF PacksInOrder, Judged, packStore
  <2> QED
    BY <2>2, <2>3 DEF PacksInOrder, InForce, Numbered, packStore
<1>5. ASSUME NEW b \in Brands, OverLimit(b) \/ NoVerdict(b) PROVE PacksInOrder'
  BY <1>1, <1>5 DEF OverLimit, NoVerdict, trail
<1>6. ASSUME NEW b \in Brands, NEW p \in Policies, Evaluate(b, p) \/ EvaluateFails(b, p)
      PROVE  PacksInOrder'
  <2>1. PICK a \in BOOLEAN : records' = Append(records, Decide(b, Resolve(b, p), active[b], a))
    BY <1>6 DEF Evaluate, EvaluateFails
  <2> DEFINE r == Decide(b, Resolve(b, p), active[b], a)
  <2>2. r \in Record
    BY ResolveIsPolicy, DecideIsRecord
  <2>3. r.pack = active[b] /\ r.brand = b /\ r.policy = Resolve(b, p)
    BY DEF Decide
  <2>4. r.pack # 0 => /\ r.pack \in DOMAIN packs
                      /\ packs[r.pack].brand = r.brand /\ packs[r.pack].policy = r.policy
    BY <1>0, <2>3 DEF Resolve, PacksInOrder, InForce
  <2>5. UNCHANGED packStore
    BY <1>6 DEF Evaluate, EvaluateFails
  <2> HIDE DEF r
  <2> QED
    BY <2>1, <2>2, <2>4, <2>5, JudgedStep DEF r
<1>7. ASSUME NEW p \in Policies, ConnectorEvaluates(p) PROVE PacksInOrder'
  <2>1. Decide(None, p, 0, TRUE) \in Record /\ Decide(None, p, 0, TRUE).pack = 0
    BY DecideIsRecord DEF Decide
  <2>2. records' = Append(records, Decide(None, p, 0, TRUE)) /\ UNCHANGED packStore
    BY <1>7 DEF ConnectorEvaluates
  <2> QED
    BY <2>1, <2>2, JudgedStep
<1>8. ASSUME NEW i \in DOMAIN packs, ActivatePack(i) \/ ArchivePack(i) PROVE PacksInOrder'
  <2>1. UNCHANGED records /\ (Activate(i) \/ Archive(i))
    BY <1>8 DEF ActivatePack, ArchivePack, trail
  <2>2. /\ DOMAIN packs' = DOMAIN packs
        /\ \A k \in DOMAIN packs :
              /\ packs'[k].brand = packs[k].brand
              /\ packs'[k].version = packs[k].version
              /\ packs'[k].policy = packs[k].policy
              /\ k # i => packs'[k] = packs[k]
    BY <2>1, RelabelStep
  <2>3. Judged'
    BY <2>1, <2>2 DEF PacksInOrder, Judged
  <2>4. Numbered'
    BY <2>2 DEF PacksInOrder, Numbered
  <2>5. CASE Activate(i)
    <3>1. active' = [active EXCEPT ![packs[i].brand] = i] /\ packs'[i].state = "active"
      BY <1>0, <2>5 DEF Activate, Pack
    <3>2. InForce'
      BY <1>0, <2>2, <3>1 DEF PacksInOrder, InForce
    <3> QED
      BY <2>3, <2>4, <3>2 DEF PacksInOrder
  <2>6. CASE Archive(i)
    <3>1. active' = [b \in Brands |-> IF active[b] = i THEN 0 ELSE active[b]]
      BY <2>6 DEF Archive
    <3>2. InForce'
      BY <1>0, <2>2, <3>1 DEF PacksInOrder, InForce
    <3> QED
      BY <2>3, <2>4, <3>2 DEF PacksInOrder
  <2> QED
    BY <2>1, <2>5, <2>6
<1>9. CASE Clock
  BY <1>1, <1>9 DEF Clock, trail
<1>10. CASE UNCHANGED vars
  BY <1>1, <1>10 DEF vars, trail
<1> QED
  BY <1>2, <1>3, <1>4, <1>5, <1>6, <1>7, <1>8, <1>9, <1>10
     DEF Next, Operate, Call, Unauthenticated

(* In whatever order packs are created, activated and archived, a brand is   *)
(* judged by its own pack, one that is not archived, and versions are told   *)
(* apart.                                                                    *)
THEOREM PackInForceHolds == Spec => []PackInForce
<1>1. Init => WellTyped /\ PacksInOrder
  <2>1. Init => PacksInOrder
    BY DEF Init, PacksInit, PacksInOrder, Judged, InForce, Numbered
  <2> QED
    BY <2>1, InitWellTyped
<1>2. WellTyped /\ PacksInOrder /\ [Next]_vars => (WellTyped /\ PacksInOrder)'
  BY StepWellTyped, StepPacksInOrder
<1>3. PacksInOrder => PackInForce
  BY DEF PacksInOrder, Judged, InForce, Numbered, PackInForce
<1> QED
  BY <1>1, <1>2, <1>3, PTL DEF Spec
----------------------------------------------------------------------------
(* The review queue.                                                        *)

LEMMA HeldStep ==
  ASSUME WellTyped, QueueIsReal, NEW r, r \in Record, records' = Append(records, r),
         reviews' = IF r.answered THEN reviews \cup Held(r) ELSE reviews
  PROVE  QueueIsReal'
<1>1. /\ DOMAIN records' = DOMAIN records \cup {Len(records) + 1}
      /\ \A k \in DOMAIN records : records'[k] = records[k]
      /\ records'[Len(records) + 1] = r
      /\ DOMAIN records = 1..Len(records) /\ Len(records) \in Nat
  BY AppendIs DEF WellTyped, TrailTyped
<1>2. Len(records) + 1 \notin DOMAIN records
  BY <1>1
<1>3. r.answered \in BOOLEAN
  BY DEF Record
<1> QED
  BY <1>1, <1>2, <1>3 DEF QueueIsReal, Held, Decision

LEMMA StepQueueIsReal == WellTyped /\ QueueIsReal /\ [Next]_vars => QueueIsReal'
<1> SUFFICES ASSUME WellTyped, QueueIsReal, [Next]_vars PROVE QueueIsReal'
  OBVIOUS
<1>1. UNCHANGED trail => QueueIsReal'
  BY DEF trail, QueueIsReal, Decision
<1>2. ASSUME NEW b \in Brands, NEW i \in DOMAIN packs, Simulate(i, b) PROVE QueueIsReal'
  <2>1. /\ reviews' = reviews /\ DOMAIN records \subseteq DOMAIN records'
        /\ \A k \in DOMAIN records : records'[k] = records[k]
        /\ \A k \in DOMAIN records' \ DOMAIN records : records'[k] = Shadow(i)
    BY <1>2, SimulateStep
  <2>2. Shadow(i).answered = FALSE
    BY DEF Shadow
  <2> QED
    BY <2>1, <2>2 DEF QueueIsReal, Decision
<1>3. ASSUME NEW b \in Brands, NEW p \in Policies, NEW a \in BOOLEAN,
             (a /\ Evaluate(b, p)) \/ (~a /\ EvaluateFails(b, p))
      PROVE  QueueIsReal'
  <2> DEFINE r == Decide(b, Resolve(b, p), active[b], a)
  <2>1. r \in Record
    BY ResolveIsPolicy, DecideIsRecord
  <2>2. r.answered = a
    BY DEF Decide
  <2>3. records' = Append(records, r)
    BY <1>3 DEF Evaluate, EvaluateFails
  <2>4. reviews' = IF a THEN reviews \cup Held(r) ELSE reviews
    BY <1>3 DEF Evaluate, EvaluateFails
  <2> HIDE DEF r
  <2> QED
    BY <2>1, <2>2, <2>3, <2>4, HeldStep
<1>4. ASSUME NEW p \in Policies, ConnectorEvaluates(p) PROVE QueueIsReal'
  <2> DEFINE r == Decide(None, p, 0, TRUE)
  <2>1. r \in Record /\ r.answered
    BY DecideIsRecord DEF Decide
  <2>2. records' = Append(records, r) /\ reviews' = reviews \cup Held(r)
    BY <1>4 DEF ConnectorEvaluates
  <2> HIDE DEF r
  <2> QED
    BY <2>1, <2>2, HeldStep
<1>5. ASSUME NEW b \in Brands, NEW p \in Policies, Evaluate(b, p) \/ EvaluateFails(b, p)
      PROVE  QueueIsReal'
  <2>1. CASE Evaluate(b, p)
    <3>1. TRUE /\ Evaluate(b, p)
      BY <2>1
    <3> QED
      BY <1>3, <3>1
  <2>2. CASE EvaluateFails(b, p)
    <3>1. ~FALSE /\ EvaluateFails(b, p)
      BY <2>2
    <3> QED
      BY <1>3, <3>1
  <2> QED
    BY <1>5, <2>1, <2>2
<1>6. ASSUME NEW b \in Brands, OverLimit(b) \/ NoVerdict(b) \/ Unauthenticated(b)
      PROVE  UNCHANGED trail
  BY <1>6 DEF OverLimit, NoVerdict, Unauthenticated, vars
<1>7. ASSUME NEW b \in Brands, NEW n \in Limits, NEW s \in BOOLEAN, CreateBrand(b, n, s)
      PROVE  UNCHANGED trail
  BY <1>7 DEF CreateBrand
<1>8. ASSUME NEW b \in Brands, NEW p \in Policies, CreatePack(b, p) PROVE UNCHANGED trail
  BY <1>8 DEF CreatePack
<1>9. ASSUME NEW i \in DOMAIN packs, ActivatePack(i) \/ ArchivePack(i) PROVE UNCHANGED trail
  BY <1>9 DEF ActivatePack, ArchivePack
<1>10. Clock \/ UNCHANGED vars => UNCHANGED trail
  BY DEF Clock, vars
<1> QED
  BY <1>1, <1>2, <1>4, <1>5, <1>6, <1>7, <1>8, <1>9, <1>10 DEF Next, Operate, Call

(* Only answered calls are held, and replays never are.                     *)
THEOREM QueueIsRealHolds == Spec => []QueueIsReal
<1>1. Init => WellTyped /\ QueueIsReal
  BY InitWellTyped DEF Init, QueueIsReal
<1>2. WellTyped /\ QueueIsReal /\ [Next]_vars => (WellTyped /\ QueueIsReal)'
  BY StepWellTyped, StepQueueIsReal
<1> QED
  BY <1>1, <1>2, PTL DEF Spec
----------------------------------------------------------------------------
(* The limiter implements the window.                                       *)

\* The bucket of a tenant with a budget holds the admissions of the window, and
\* none before it is registered.
Faithful == \A b \in Brands : LimitOf(b) > 0 =>
    \A at, nr \in Nat : now - at < Window =>
        ([at |-> at, nr |-> nr] \in hits[b] <=> [caller |-> b, at |-> at, nr |-> nr] \in passed)
Unheard == \A b \in Brands : ~registry[b].known =>
    hits[b] = {} /\ \A p \in passed : p.caller # b
Windowed == Faithful /\ Unheard

\* It holds as many of them.
LEMMA SameCount ==
  ASSUME WellTyped, Windowed, NEW b \in Brands, LimitOf(b) > 0
  PROVE  Cardinality(Recent(b)) = Cardinality(Budget!Recently(b))
<1> DEFINE S == Budget!Recently(b)
           F == [p \in S |-> [at |-> p.at, nr |-> p.nr]]
<1>1. S = {p \in passed : p.caller = b /\ now - p.at < Window}
  BY DEF Budget!Recently
<1>2. /\ passed \subseteq [caller : Brands, at : Nat, nr : Nat] /\ IsFiniteSet(passed)
      /\ hits[b] \subseteq Hit
  BY DEF WellTyped, LimiterTyped
<1>3. IsFiniteSet(S)
  BY <1>1, <1>2, FS_Subset
<1>4. \A p \in S : /\ p = [caller |-> b, at |-> p.at, nr |-> p.nr]
                   /\ p.at \in Nat /\ p.nr \in Nat /\ now - p.at < Window
  BY <1>1, <1>2
<1>5. F \in [S -> Recent(b)]
  <2> SUFFICES ASSUME NEW p \in S PROVE [at |-> p.at, nr |-> p.nr] \in Recent(b)
    OBVIOUS
  <2>1. [at |-> p.at, nr |-> p.nr] \in hits[b]
    BY <1>1, <1>4 DEF Windowed, Faithful
  <2> QED
    BY <1>4, <2>1 DEF Recent
<1>6. \A p, q \in S : F[p] = F[q] => p = q
  <2> SUFFICES ASSUME NEW p \in S, NEW q \in S, F[p] = F[q] PROVE p = q
    OBVIOUS
  <2>1. [at |-> p.at, nr |-> p.nr] = [at |-> q.at, nr |-> q.nr]
    OBVIOUS
  <2>2. p.at = q.at /\ p.nr = q.nr
    BY <2>1
  <2> QED
    BY <1>4, <2>2
<1>7. \A h \in Recent(b) : \E p \in S : F[p] = h
  <2> SUFFICES ASSUME NEW h \in Recent(b) PROVE \E p \in S : F[p] = h
    OBVIOUS
  <2>1. /\ h \in hits[b] /\ h = [at |-> h.at, nr |-> h.nr] /\ h.at \in Nat /\ h.nr \in Nat
        /\ now - h.at < Window
    BY <1>2 DEF Recent, Hit
  <2>2. [caller |-> b, at |-> h.at, nr |-> h.nr] \in passed
    BY <2>1 DEF Windowed, Faithful
  <2>3. [caller |-> b, at |-> h.at, nr |-> h.nr] \in S
    BY <1>1, <2>1, <2>2
  <2> QED
    BY <2>1, <2>3
<1> HIDE DEF F, S
<1>8. F \in Bijection(S, Recent(b))
  BY <1>5, <1>6, <1>7, Fun_IsBij
<1>9. ExistsBijection(S, Recent(b))
  BY <1>8 DEF ExistsBijection
<1> QED
  BY <1>3, <1>9, FS_Bijection DEF S

\* Pruning a table drops no hit of the window.
LEMMA PruneSparesTheWindow ==
  ASSUME ClockTyped, NEW table, NEW b \in Brands, NEW at \in Nat, NEW nr \in Nat, now - at < Window
  PROVE  [at |-> at, nr |-> nr] \in Prune(table)[b] <=> [at |-> at, nr |-> nr] \in table[b]
<1> DEFINE h == [at |-> at, nr |-> nr]
<1>1. ~(now - h.at > Window)
  BY LimiterBounds DEF ClockTyped
<1>2. Prune(table)[b] = IF \A k \in table[b] : now - k.at > Window THEN {} ELSE table[b]
  BY DEF Prune
<1>3. h \in table[b] => ~(\A k \in table[b] : now - k.at > Window)
  BY <1>1
<1> HIDE DEF h
<1>4. h \in Prune(table)[b] <=> h \in table[b]
  BY <1>2, <1>3
<1> QED
  BY <1>4 DEF h

LEMMA AdmitIsWindowed ==
  ASSUME WellTyped, Windowed, NEW b \in Brands, registry[b].known, Admit(b, LimitOf(b)),
         UNCHANGED registry
  PROVE  Windowed'
<1> DEFINE nr == Cardinality(passed)
<1>0. /\ hits \in [Brands -> SUBSET Hit] /\ now \in Nat /\ nr \in Nat
      /\ passed \subseteq [caller : Brands, at : Nat, nr : Nat]
  BY FS_CardinalityType DEF WellTyped, LimiterTyped, ClockTyped
<1> HIDE DEF nr
<1>1. /\ passed' = passed \cup {[caller |-> b, at |-> now, nr |-> nr]} /\ now' = now
      /\ hits' \in {hits, Booked(b), Prune(Booked(b))}
      /\ LimitOf(b) > 0 => hits' \in {Booked(b), Prune(Booked(b))}
      /\ LimitOf(b) \in Nat
  BY LimitIsNat DEF Admit, nr, WellTyped
<1>2. /\ Booked(b)[b] = Recent(b) \cup {[at |-> now, nr |-> nr]}
      /\ \A d \in Brands \ {b} : Booked(b)[d] = hits[d]
  BY <1>0 DEF Booked, Stamp, nr
<1>3. \A d \in Brands : LimitOf(d)' = LimitOf(d)
  BY DEF LimitOf
<1>4. Faithful'
  <2> SUFFICES ASSUME NEW d \in Brands, LimitOf(d) > 0, NEW at \in Nat, NEW m \in Nat,
                      now - at < Window
               PROVE  [at |-> at, nr |-> m] \in hits'[d]
                         <=> [caller |-> d, at |-> at, nr |-> m] \in passed'
    BY <1>1, <1>3 DEF Faithful
  <2>1. [at |-> at, nr |-> m] \in hits[d] <=> [caller |-> d, at |-> at, nr |-> m] \in passed
    BY DEF Windowed, Faithful
  <2>2. [at |-> at, nr |-> m] \in Prune(Booked(b))[d] <=> [at |-> at, nr |-> m] \in Booked(b)[d]
    BY PruneSparesTheWindow DEF WellTyped
  <2>3. CASE d = b
    <3>1. [at |-> at, nr |-> m] \in Recent(b) <=> [at |-> at, nr |-> m] \in hits[b]
      BY DEF Recent
    <3>2. [at |-> at, nr |-> m] = [at |-> now, nr |-> nr]
            <=> [caller |-> b, at |-> at, nr |-> m] = [caller |-> b, at |-> now, nr |-> nr]
      <4>1. [at |-> at, nr |-> m] = [at |-> now, nr |-> nr] <=> at = now /\ m = nr
        OBVIOUS
      <4>2. [caller |-> b, at |-> at, nr |-> m] = [caller |-> b, at |-> now, nr |-> nr]
              <=> at = now /\ m = nr
        OBVIOUS
      <4> QED
        BY <4>1, <4>2
    <3>3. [at |-> at, nr |-> m] \in hits'[d] <=> [at |-> at, nr |-> m] \in Booked(b)[b]
      BY <1>1, <2>2, <2>3
    <3>4. [at |-> at, nr |-> m] \in Booked(b)[b]
            <=> [at |-> at, nr |-> m] \in hits[b] \/ [at |-> at, nr |-> m] = [at |-> now, nr |-> nr]
      BY <1>2, <3>1
    <3>5. [caller |-> b, at |-> at, nr |-> m] \in passed'
            <=> \/ [caller |-> b, at |-> at, nr |-> m] \in passed
                \/ [caller |-> b, at |-> at, nr |-> m] = [caller |-> b, at |-> now, nr |-> nr]
      BY <1>1
    <3> QED
      BY <2>1, <2>3, <3>2, <3>3, <3>4, <3>5
  <2>4. CASE d # b
    <3>1. [caller |-> d, at |-> at, nr |-> m] # [caller |-> b, at |-> now, nr |-> nr]
      <4>1. [caller |-> d, at |-> at, nr |-> m].caller # [caller |-> b, at |-> now, nr |-> nr].caller
        BY <2>4
      <4> QED
        BY <4>1
    <3>2. [at |-> at, nr |-> m] \in hits'[d] <=> [at |-> at, nr |-> m] \in hits[d]
      BY <1>1, <1>2, <2>2, <2>4
    <3> QED
      BY <1>1, <2>1, <3>1, <3>2
  <2> QED
    BY <2>3, <2>4
<1>5. Unheard'
  <2> SUFFICES ASSUME NEW d \in Brands, ~registry[d].known
               PROVE  hits'[d] = {} /\ \A p \in passed' : p.caller # d
    BY DEF Unheard
  <2>1. d # b /\ hits[d] = {} /\ \A p \in passed : p.caller # d
    BY DEF Windowed, Unheard
  <2>2. Booked(b)[d] = {} /\ Prune(Booked(b))[d] = {}
    BY <1>2, <2>1 DEF Prune
  <2> QED
    BY <1>1, <2>1, <2>2
<1> QED
  BY <1>4, <1>5 DEF Windowed

LEMMA RefuseIsWindowed ==
  ASSUME WellTyped, Windowed, NEW b \in Brands, Refuse(b, LimitOf(b)), UNCHANGED registry
  PROVE  Windowed'
<1>1. /\ hits \in [Brands -> SUBSET Hit] /\ hits' = [hits EXCEPT ![b] = Recent(b)]
      /\ now' = now /\ passed' = passed
  BY DEF Refuse, WellTyped, LimiterTyped
<1>2. \A d \in Brands : LimitOf(d)' = LimitOf(d)
  BY DEF LimitOf
<1>3. Recent(b) \subseteq hits[b]
  BY DEF Recent
<1>4. \A at, nr \in Nat : now - at < Window =>
        ([at |-> at, nr |-> nr] \in Recent(b) <=> [at |-> at, nr |-> nr] \in hits[b])
  BY DEF Recent
<1>5. Faithful'
  BY <1>1, <1>2, <1>4 DEF Windowed, Faithful
<1>6. Unheard'
  BY <1>1, <1>3 DEF Windowed, Unheard
<1> QED
  BY <1>5, <1>6 DEF Windowed

LEMMA CreateBrandIsWindowed ==
  ASSUME WellTyped, Windowed, NEW b \in Brands, NEW n, NEW s, CreateBrand(b, n, s)
  PROVE  /\ Windowed' /\ ~registry[b].known
         /\ \A d \in Brands \ {b} : LimitOf(d)' = LimitOf(d)
<1>1. /\ ~registry[b].known /\ UNCHANGED <<now, hits, passed>>
      /\ registry' = [registry EXCEPT ![b] = [known |-> TRUE, limit |-> n, signed |-> s]]
      /\ registry \in [Brands -> Tenant]
  BY DEF CreateBrand, Register, limiter, WellTyped
<1>2. registry'[b].known /\ \A d \in Brands \ {b} : registry'[d] = registry[d]
  BY <1>1
<1>3. \A d \in Brands \ {b} : LimitOf(d)' = LimitOf(d)
  BY <1>2 DEF LimitOf
<1>4. hits[b] = {} /\ \A p \in passed : p.caller # b
  BY <1>1 DEF Windowed, Unheard
<1>5. Faithful'
  <2> SUFFICES ASSUME NEW d \in Brands, LimitOf(d)' > 0, NEW at \in Nat, NEW nr \in Nat,
                      now - at < Window
               PROVE  [at |-> at, nr |-> nr] \in hits[d]
                         <=> [caller |-> d, at |-> at, nr |-> nr] \in passed
    BY <1>1 DEF Faithful
  <2>1. CASE d = b
    <3>1. [caller |-> b, at |-> at, nr |-> nr].caller = b
      OBVIOUS
    <3>2. [caller |-> b, at |-> at, nr |-> nr] \notin passed
      BY <1>4, <3>1
    <3> QED
      BY <1>4, <2>1, <3>2
  <2>2. CASE d # b
    BY <1>3, <2>2 DEF Windowed, Faithful
  <2> QED
    BY <2>1, <2>2
<1>6. Unheard'
  BY <1>1, <1>2 DEF Windowed, Unheard
<1> QED
  BY <1>1, <1>3, <1>5, <1>6 DEF Windowed

LEMMA TickIsWindowed ==
  ASSUME WellTyped, Windowed, Tick, UNCHANGED registry PROVE Windowed'
<1>1. now \in Nat /\ now' = now + 1 /\ UNCHANGED <<hits, passed>>
  BY DEF Tick, WellTyped, ClockTyped
<1>2. \A d \in Brands : LimitOf(d)' = LimitOf(d)
  BY DEF LimitOf
<1>3. \A at \in Nat : now' - at < Window => now - at < Window
  BY <1>1, LimiterBounds
<1>4. Faithful'
  BY <1>1, <1>2, <1>3 DEF Windowed, Faithful
<1> QED
  BY <1>1, <1>4 DEF Windowed, Unheard

\* The instance counts as we do.
LEMMA CountsAlike == \A S : Budget!Cardinality(S) = Cardinality(S)
  BY DEF Budget!Cardinality, Cardinality

LEMMA MaySignInIsKnown == ASSUME NEW b \in Brands, MaySignIn(b) PROVE registry[b].known
  BY DEF MaySignIn, Authentic

\* Nothing happens to the limiter but by Admitted, OverLimit, CreateBrand and Clock.
LEMMA LimiterSteps ==
  ASSUME [Next]_vars
  PROVE  \/ UNCHANGED <<limiter, registry>>
         \/ \E b \in Brands : Admitted(b) /\ UNCHANGED registry
         \/ \E b \in Brands : OverLimit(b)
         \/ \E b \in Brands, n \in Limits, s \in BOOLEAN : CreateBrand(b, n, s)
         \/ Clock
<1>1. ASSUME NEW b \in Brands, Operate(b)
      PROVE  UNCHANGED <<limiter, registry>> \/ \E n \in Limits, s \in BOOLEAN : CreateBrand(b, n, s)
  BY <1>1 DEF Operate, CreatePack, Simulate
<1>2. ASSUME NEW b \in Brands, Call(b)
      PROVE  UNCHANGED <<limiter, registry>> \/ OverLimit(b) \/ (Admitted(b) /\ UNCHANGED registry)
  BY <1>2 DEF Call, Unauthenticated, vars, NoVerdict, Evaluate, EvaluateFails
<1>3. ASSUME NEW p \in Policies, ConnectorEvaluates(p) PROVE UNCHANGED <<limiter, registry>>
  BY <1>3 DEF ConnectorEvaluates
<1>4. ASSUME NEW i \in DOMAIN packs, ActivatePack(i) \/ ArchivePack(i)
      PROVE  UNCHANGED <<limiter, registry>>
  BY <1>4 DEF ActivatePack, ArchivePack
<1>5. UNCHANGED vars => UNCHANGED <<limiter, registry>>
  BY DEF vars
<1> QED
  BY <1>1, <1>2, <1>3, <1>4, <1>5 DEF Next

LEMMA InitIsWindow == Init => Windowed /\ Budget!WInit
<1> SUFFICES ASSUME Init PROVE Windowed /\ Budget!WInit
  OBVIOUS
<1>1. /\ now = 0 /\ passed = {} /\ turned = {} /\ hits = [b \in Brands |-> {}]
      /\ registry \in [Brands -> Tenant]
  BY DEF Init, LimiterInit, TenantsInit, Tenant
<1>2. \A b \in Brands : LimitOf(b) \in Nat
  BY <1>1, LimitIsNat
<1> QED
  BY <1>1, <1>2 DEF Windowed, Faithful, Unheard, Budget!WInit

\* Every step of the gateway is a step of the window, or none.
LEMMA StepIsWindow ==
  ASSUME WellTyped, Windowed, [Next]_vars
  PROVE  Windowed' /\ [Budget!WNext]_(Budget!wvars)
<1>0. \A b \in Brands : LimitOf(b) \in Nat
  BY LimitIsNat DEF WellTyped
<1>1. UNCHANGED registry =>
        [b \in Brands |-> LimitOf(b)]' = [b \in Brands |-> LimitOf(b)]
  BY DEF LimitOf
<1>2. CASE UNCHANGED <<limiter, registry>>
  <2>1. Windowed'
    BY <1>2 DEF limiter, Windowed, Faithful, Unheard, LimitOf
  <2>2. UNCHANGED Budget!wvars
    BY <1>1, <1>2 DEF limiter, Budget!wvars
  <2> QED
    BY <2>1, <2>2
<1>3. ASSUME NEW b \in Brands, Admitted(b), UNCHANGED registry
      PROVE  Windowed' /\ Budget!WNext
  <2>1. Admit(b, LimitOf(b)) /\ registry[b].known
    BY <1>3, MaySignInIsKnown DEF Admitted
  <2>2. Windowed'
    BY <1>3, <2>1, AdmitIsWindowed
  <2>3. ~Budget!Spent(b)
    <3>1. CASE LimitOf(b) > 0
      <4>1. Cardinality(Recent(b)) < LimitOf(b)
        BY <2>1, <3>1 DEF Admit
      <4>2. Cardinality(Budget!Recently(b)) < LimitOf(b)
        BY <3>1, <4>1, SameCount
      <4>3. IsFiniteSet(Budget!Recently(b))
        BY FS_Subset DEF Budget!Recently, WellTyped, LimiterTyped
      <4>4. Cardinality(Budget!Recently(b)) \in Nat
        BY <4>3, FS_CardinalityType
      <4> QED
        BY <1>0, <4>2, <4>4, CountsAlike DEF Budget!Spent
    <3>2. CASE ~(LimitOf(b) > 0)
      BY <3>2 DEF Budget!Spent
    <3> QED
      BY <3>1, <3>2
  <2>4. Budget!Pass(b)
    BY <1>1, <1>3, <2>1, <2>3, CountsAlike DEF Admit, Budget!Pass, Budget!Admission
  <2> QED
    BY <2>2, <2>4 DEF Budget!WNext
<1>4. ASSUME NEW b \in Brands, OverLimit(b) PROVE Windowed' /\ Budget!WNext
  <2>1. Refuse(b, LimitOf(b)) /\ UNCHANGED registry
    BY <1>4 DEF OverLimit
  <2>2. Windowed'
    BY <2>1, RefuseIsWindowed
  <2>3. LimitOf(b) > 0 /\ Cardinality(Recent(b)) >= LimitOf(b)
    BY <2>1 DEF Refuse
  <2>4. Budget!Spent(b)
    BY <2>3, SameCount, CountsAlike DEF Budget!Spent
  <2>5. Budget!TurnAway(b)
    BY <1>1, <2>1, <2>4 DEF Refuse, Budget!TurnAway
  <2> QED
    BY <2>2, <2>5 DEF Budget!WNext
<1>5. ASSUME NEW b \in Brands, NEW n \in Limits, NEW s \in BOOLEAN, CreateBrand(b, n, s)
      PROVE  Windowed' /\ Budget!WNext
  <2>1. /\ Windowed' /\ ~registry[b].known
        /\ \A d \in Brands \ {b} : LimitOf(d)' = LimitOf(d)
    BY <1>5, CreateBrandIsWindowed
  <2>2. UNCHANGED <<now, passed, turned>> /\ registry' \in [Brands -> Tenant]
    BY <1>5, LimitsAreNat DEF CreateBrand, Register, limiter, WellTyped, Tenant
  <2>3. \A p \in passed : p.caller # b
    BY <2>1 DEF Windowed, Unheard
  <2>4. \A d \in Brands : LimitOf(d)' \in Nat
    BY <2>2, TenantSettings DEF LimitOf, Tenant
  <2>5. Budget!GiveBudget(b)
    BY <2>1, <2>2, <2>3, <2>4 DEF Budget!GiveBudget
  <2> QED
    BY <2>1, <2>5 DEF Budget!WNext
<1>6. CASE Clock
  <2>1. Tick /\ UNCHANGED registry
    BY <1>6 DEF Clock
  <2>2. Windowed'
    BY <2>1, TickIsWindowed
  <2>3. Budget!TimePasses
    BY <1>1, <2>1 DEF Tick, WellTyped, ClockTyped, Budget!TimePasses
  <2> QED
    BY <2>2, <2>3 DEF Budget!WNext
<1> QED
  BY <1>2, <1>3, <1>4, <1>5, <1>6, LimiterSteps

(* Buckets that are cut to the window and pruned when there are too many of  *)
(* them admit and refuse exactly the calls an unbounded memory would.        *)
THEOREM LimiterImplementsWindow == Spec => ImplementsWindow
<1>1. Init => WellTyped /\ Windowed /\ Budget!WInit
  BY InitWellTyped, InitIsWindow
<1>2. WellTyped /\ Windowed /\ [Next]_vars => (WellTyped /\ Windowed)'
  BY StepWellTyped, StepIsWindow
<1>3. WellTyped /\ Windowed /\ [Next]_vars => [Budget!WNext]_(Budget!wvars)
  BY StepIsWindow
<1> QED
  BY <1>1, <1>2, <1>3, PTL DEF Spec, ImplementsWindow, Budget!WSpec
----------------------------------------------------------------------------
(* Bills.                                                                   *)

\* The records of metered calls, and the events the meter has of them.
Metered == {k \in DOMAIN records : records[k].answered /\ records[k].brand # None}
Detailed(b, n) == {e \in DOMAIN events : events[e].brand = b /\ events[e].period = n}
Totals == \A b \in Brands, n \in Periods : billed[n][b] = Cardinality(Answered(b, n))
Details == Cardinality(Metered) <= MaxEvents =>
    /\ Len(events) = Cardinality(Metered)
    /\ \A b \in Brands, n \in Periods : billed[n][b] = Cardinality(Detailed(b, n))

LEMMA IndicesAreFinite ==
  ASSUME NEW S, NEW s \in Seq(S), NEW A \in SUBSET DOMAIN s
  PROVE  IsFiniteSet(A) /\ Cardinality(A) \in Nat
<1>1. Len(s) \in Nat /\ DOMAIN s = 1..Len(s)
  OBVIOUS
<1>2. IsFiniteSet(1..Len(s))
  BY <1>1, FS_Interval
<1>3. IsFiniteSet(A)
  BY <1>1, <1>2, FS_Subset
<1> QED
  BY <1>3, FS_CardinalityType

\* Records nobody is billed for.
LEMMA SilentStep ==
  ASSUME WellTyped, Totals, Details, UNCHANGED meter,
         DOMAIN records \subseteq DOMAIN records',
         \A k \in DOMAIN records : records'[k] = records[k],
         \A k \in DOMAIN records' \ DOMAIN records :
             ~(records'[k].answered /\ records'[k].brand # None)
  PROVE  Totals' /\ Details'
<1>1. Metered' = Metered
  BY DEF Metered
<1>2. \A b \in Brands, n \in Periods : Answered(b, n)' = Answered(b, n)
  BY NoneIsNoBrand DEF Answered
<1>3. \A b \in Brands, n \in Periods : Detailed(b, n)' = Detailed(b, n)
  BY DEF Detailed, meter
<1> QED
  BY <1>1, <1>2, <1>3 DEF Totals, Details, meter

\* A verdict that is answered and metered.
LEMMA BilledStep ==
  ASSUME WellTyped, Totals, Details, NEW b \in Brands, NEW d \in {"ALLOW", "REVIEW", "BLOCK"},
         NEW r \in Record, r.answered, r.brand = b, r.period = Period,
         records' = Append(records, r), MeterBrand(b, d)
  PROVE  Totals' /\ Details'
<1> DEFINE e == [brand |-> b, decision |-> d, period |-> Period]
<1>1. /\ DOMAIN records' = DOMAIN records \cup {Len(records) + 1}
      /\ \A k \in DOMAIN records : records'[k] = records[k]
      /\ records'[Len(records) + 1] = r
      /\ DOMAIN records = 1..Len(records) /\ Len(records) \in Nat
      /\ records \in Seq(Record)
  BY AppendIs DEF WellTyped, TrailTyped
<1>2. Len(records) + 1 \notin DOMAIN records
  BY <1>1
<1>3. \A c \in Brands, n \in Periods :
        billed'[n][c] = IF c = b /\ n = Period THEN billed[n][c] + 1 ELSE billed[n][c]
  BY DEF MeterBrand, WellTyped, MeterTyped
<1>4. b # None /\ Period \in Nat
  BY NoneIsNoBrand, PeriodIsNat DEF WellTyped
<1>5. ASSUME NEW c \in Brands, NEW n \in Periods
      PROVE  Cardinality(Answered(c, n)') = IF c = b /\ n = Period
                 THEN Cardinality(Answered(c, n)) + 1 ELSE Cardinality(Answered(c, n))
  <2>1. Answered(c, n)' = IF c = b /\ n = Period
            THEN Answered(c, n) \cup {Len(records) + 1} ELSE Answered(c, n)
    BY <1>1 DEF Answered
  <2>2. IsFiniteSet(Answered(c, n)) /\ Len(records) + 1 \notin Answered(c, n)
    BY <1>1, <1>2, IndicesAreFinite DEF Answered
  <2>3. Cardinality(Answered(c, n) \cup {Len(records) + 1}) = Cardinality(Answered(c, n)) + 1
    BY <2>2, FS_AddElement
  <2> QED
    BY <2>1, <2>3
<1>6. Totals'
  BY <1>3, <1>5 DEF Totals
<1>7. ASSUME Cardinality(Metered') <= MaxEvents
      PROVE  /\ Len(events') = Cardinality(Metered')
             /\ \A c \in Brands, n \in Periods : billed'[n][c] = Cardinality(Detailed(c, n)')
  <2>1. Metered' = Metered \cup {Len(records) + 1}
    BY <1>1, <1>4 DEF Metered
  <2>2. IsFiniteSet(Metered) /\ Cardinality(Metered) \in Nat /\ Len(records) + 1 \notin Metered
    BY <1>1, <1>2, IndicesAreFinite DEF Metered
  <2>3. Cardinality(Metered') = Cardinality(Metered) + 1
    BY <2>1, <2>2, FS_AddElement
  <2>4. /\ Len(events) = Cardinality(Metered) /\ Len(events) + 1 <= MaxEvents
        /\ \A c \in Brands, n \in Periods : billed[n][c] = Cardinality(Detailed(c, n))
    BY <1>7, <2>2, <2>3, GatewayBounds DEF Details
  <2>5. e \in Event /\ events \in Seq(Event)
    BY <1>4 DEF Event, WellTyped, MeterTyped
  <2>6. /\ Len(Append(events, e)) = Len(events) + 1 /\ Len(events) \in Nat
        /\ DOMAIN Append(events, e) = DOMAIN events \cup {Len(events) + 1}
        /\ \A k \in DOMAIN events : Append(events, e)[k] = events[k]
        /\ Append(events, e)[Len(events) + 1] = e
        /\ DOMAIN events = 1..Len(events)
    BY <2>5, AppendIs
  <2>7. events' = Append(events, e)
    BY <2>4, <2>6, GatewayBounds DEF MeterBrand, LastOf
  <2>8. ASSUME NEW c \in Brands, NEW n \in Periods
        PROVE  Cardinality(Detailed(c, n)') = IF c = b /\ n = Period
                   THEN Cardinality(Detailed(c, n)) + 1 ELSE Cardinality(Detailed(c, n))
    <3>1. Detailed(c, n)' = IF c = b /\ n = Period
              THEN Detailed(c, n) \cup {Len(events) + 1} ELSE Detailed(c, n)
      BY <2>6, <2>7 DEF Detailed
    <3>2. IsFiniteSet(Detailed(c, n)) /\ Len(events) + 1 \notin Detailed(c, n)
      BY <2>5, <2>6, IndicesAreFinite DEF Detailed
    <3>3. Cardinality(Detailed(c, n) \cup {Len(events) + 1}) = Cardinality(Detailed(c, n)) + 1
      BY <3>2, FS_AddElement
    <3> QED
      BY <3>1, <3>3
  <2> QED
    BY <1>3, <2>3, <2>4, <2>6, <2>7, <2>8
<1>8. Details'
  BY <1>7 DEF Details
<1> QED
  BY <1>6, <1>8

LEMMA StepBills == WellTyped /\ Totals /\ Details /\ [Next]_vars => Totals' /\ Details'
<1> SUFFICES ASSUME WellTyped, Totals, Details, [Next]_vars PROVE Totals' /\ Details'
  OBVIOUS
<1>1. UNCHANGED <<trail, meter>> => Totals' /\ Details'
  BY SilentStep DEF trail
<1>2. ASSUME NEW r \in Record, records' = Append(records, r), ~(r.answered /\ r.brand # None),
             UNCHANGED meter
      PROVE  Totals' /\ Details'
  <2>1. /\ DOMAIN records' = DOMAIN records \cup {Len(records) + 1}
        /\ \A k \in DOMAIN records : records'[k] = records[k]
        /\ records'[Len(records) + 1] = r
    BY <1>2, AppendIs DEF WellTyped, TrailTyped
  <2> QED
    BY <1>2, <2>1, SilentStep
<1>3. ASSUME NEW b \in Brands, NEW i \in DOMAIN packs, Simulate(i, b) PROVE Totals' /\ Details'
  <2>1. /\ DOMAIN records \subseteq DOMAIN records'
        /\ \A k \in DOMAIN records : records'[k] = records[k]
        /\ \A k \in DOMAIN records' \ DOMAIN records : records'[k] = Shadow(i)
    BY <1>3, SimulateStep
  <2>2. Shadow(i).answered = FALSE /\ UNCHANGED meter
    BY <1>3 DEF Shadow, Simulate
  <2> QED
    BY <2>1, <2>2, SilentStep
<1>4. ASSUME NEW b \in Brands, NEW p \in Policies, Evaluate(b, p) PROVE Totals' /\ Details'
  <2> DEFINE r == Decide(b, Resolve(b, p), active[b], TRUE)
  <2>1. r \in Record
    BY ResolveIsPolicy, DecideIsRecord
  <2>2. r.answered /\ r.brand = b /\ r.period = Period
    BY DEF Decide
  <2>3. Decision(r) \in {"ALLOW", "REVIEW", "BLOCK"}
    BY ResolveIsPolicy, VerdictsAreDecisions DEF Decision, Decide
  <2>4. records' = Append(records, r) /\ MeterBrand(b, Decision(r))
    BY <1>4 DEF Evaluate
  <2> HIDE DEF r
  <2> QED
    BY <2>1, <2>2, <2>3, <2>4, BilledStep
<1>5. ASSUME NEW b \in Brands, NEW p \in Policies, EvaluateFails(b, p) PROVE Totals' /\ Details'
  <2> DEFINE r == Decide(b, Resolve(b, p), active[b], FALSE)
  <2>1. r \in Record /\ ~r.answered
    BY ResolveIsPolicy, DecideIsRecord DEF Decide
  <2>2. records' = Append(records, r) /\ UNCHANGED meter
    BY <1>5 DEF EvaluateFails
  <2> HIDE DEF r
  <2> QED
    BY <1>2, <2>1, <2>2
<1>6. ASSUME NEW p \in Policies, ConnectorEvaluates(p) PROVE Totals' /\ Details'
  <2> DEFINE r == Decide(None, p, 0, TRUE)
  <2>1. r \in Record /\ r.brand = None
    BY DecideIsRecord DEF Decide
  <2>2. records' = Append(records, r) /\ UNCHANGED meter
    BY <1>6 DEF ConnectorEvaluates
  <2> HIDE DEF r
  <2> QED
    BY <1>2, <2>1, <2>2
<1>7. ASSUME NEW b \in Brands, OverLimit(b) \/ NoVerdict(b) \/ Unauthenticated(b)
      PROVE  UNCHANGED <<trail, meter>>
  BY <1>7 DEF OverLimit, NoVerdict, Unauthenticated, vars
<1>8. ASSUME NEW b \in Brands, NEW n \in Limits, NEW s \in BOOLEAN, CreateBrand(b, n, s)
      PROVE  UNCHANGED <<trail, meter>>
  BY <1>8 DEF CreateBrand
<1>9. ASSUME NEW b \in Brands, NEW p \in Policies, CreatePack(b, p) PROVE UNCHANGED <<trail, meter>>
  BY <1>9 DEF CreatePack
<1>10. ASSUME NEW i \in DOMAIN packs, ActivatePack(i) \/ ArchivePack(i)
       PROVE  UNCHANGED <<trail, meter>>
  BY <1>10 DEF ActivatePack, ArchivePack
<1>11. Clock \/ UNCHANGED vars => UNCHANGED <<trail, meter>>
  BY DEF Clock, vars
<1> QED
  BY <1>1, <1>3, <1>4, <1>5, <1>6, <1>7, <1>8, <1>9, <1>10, <1>11 DEF Next, Operate, Call

LEMMA InitBills == Init => Totals /\ Details
<1> SUFFICES ASSUME Init PROVE Totals /\ Details
  OBVIOUS
<1>1. records = <<>> /\ events = <<>> /\ \A b \in Brands, n \in Periods : billed[n][b] = 0
  BY DEF Init
<1>2. Metered = {} /\ \A b \in Brands, n \in Periods : Answered(b, n) = {} /\ Detailed(b, n) = {}
  BY <1>1 DEF Metered, Answered, Detailed
<1> QED
  BY <1>1, <1>2, FS_EmptySet DEF Totals, Details

(* The totals of a bill are the verdicts that were given, and its details add*)
(* up to them as long as the meter has dropped none.                         *)
THEOREM BillsAreExactHolds == Spec => []BillsAreExact
<1>1. Init => WellTyped /\ Totals /\ Details
  BY InitWellTyped, InitBills
<1>2. WellTyped /\ Totals /\ Details /\ [Next]_vars => (WellTyped /\ Totals /\ Details)'
  BY StepWellTyped, StepBills
<1>3. Totals /\ Details => BillsAreExact
  BY DEF Totals, Details, Metered, Detailed, BillsAreExact
<1> QED
  BY <1>1, <1>2, <1>3, PTL DEF Spec
----------------------------------------------------------------------------
(* The budget.                                                              *)

\* The limiter counts back from the present; an admission is never after it.
NoneAhead == \A p \in passed : p.at <= now

LEMMA UntilIsFinite ==
  ASSUME WellTyped, NEW b, NEW t
  PROVE  IsFiniteSet(Until(b, t)) /\ Cardinality(Until(b, t)) \in Nat
<1>1. IsFiniteSet(Until(b, t))
  BY FS_Subset DEF Until, WellTyped, LimiterTyped
<1> QED
  BY <1>1, FS_CardinalityType

\* An admission fits: the bucket has counted the window that ends now.
LEMMA AdmitKeepsBudget ==
  ASSUME WellTyped, Windowed, NoneAhead, BudgetIsKept, NEW b \in Brands, Admitted(b), UNCHANGED registry
  PROVE  NoneAhead' /\ BudgetIsKept'
<1> DEFINE e == [caller |-> b, at |-> now, nr |-> Cardinality(passed)]
<1>1. /\ passed' = passed \cup {e} /\ now' = now
      /\ LimitOf(b) > 0 => Cardinality(Recent(b)) < LimitOf(b)
      /\ \A c \in Brands : LimitOf(c)' = LimitOf(c) /\ LimitOf(c) \in Nat
  BY LimitIsNat DEF Admitted, Admit, LimitOf, WellTyped
<1>2. now \in Nat /\ \A p \in passed : p.at \in Nat
  BY DEF WellTyped, ClockTyped, LimiterTyped
<1>3. NoneAhead'
  BY <1>1, <1>2 DEF NoneAhead
<1>4. ASSUME NEW c \in Brands, NEW t \in 0..now, LimitOf(c) > 0
      PROVE  Cardinality(Until(c, t)') <= LimitOf(c)
  <2>1. t \in Int /\ Window \in Nat \ {0}
    BY <1>2, LimiterBounds
  <2>2. CASE c # b \/ t < now
    <3>1. Until(c, t)' = Until(c, t)
      BY <1>1, <1>2, <2>1, <2>2 DEF Until
    <3> QED
      BY <1>4, <3>1 DEF BudgetIsKept
  <2>3. CASE c = b /\ t = now
    <3>1. Until(c, t)' = Until(c, t) \cup {e}
      BY <1>1, <1>2, <2>1, <2>3 DEF Until
    <3>2. Until(c, t) = Budget!Recently(b)
      BY <1>2, <2>3 DEF Until, NoneAhead, Budget!Recently
    <3>3. Cardinality(Until(c, t)) < LimitOf(c)
      BY <1>1, <1>4, <2>3, <3>2, SameCount
    <3>4. Cardinality(Until(c, t) \cup {e}) \in {Cardinality(Until(c, t)), Cardinality(Until(c, t)) + 1}
      BY UntilIsFinite, FS_AddElement
    <3> QED
      BY <1>1, <3>1, <3>3, <3>4, UntilIsFinite
  <2> QED
    BY <1>2, <2>2, <2>3
<1> QED
  BY <1>1, <1>3, <1>4 DEF BudgetIsKept

\* The window that ends with the next tick holds no more than the one that ends now.
LEMMA TickKeepsBudget ==
  ASSUME WellTyped, NoneAhead, BudgetIsKept, Clock
  PROVE  NoneAhead' /\ BudgetIsKept'
<1>1. /\ now \in Nat /\ now' = now + 1 /\ passed' = passed /\ Window \in Nat \ {0}
      /\ \A p \in passed : p.at \in Nat
      /\ \A c \in Brands : LimitOf(c)' = LimitOf(c) /\ LimitOf(c) \in Nat
  BY LimiterBounds, LimitIsNat DEF Clock, Tick, LimitOf, WellTyped, ClockTyped, LimiterTyped
<1>2. NoneAhead'
  BY <1>1 DEF NoneAhead
<1>3. ASSUME NEW c \in Brands, NEW t \in 0..(now + 1), LimitOf(c) > 0
      PROVE  Cardinality(Until(c, t)') <= LimitOf(c)
  <2>1. Until(c, t)' = Until(c, t)
    BY <1>1 DEF Until
  <2>2. CASE t \in 0..now
    BY <1>3, <2>1, <2>2 DEF BudgetIsKept
  <2>3. CASE t = now + 1
    <3>1. Until(c, t) \subseteq Until(c, now)
      BY <1>1, <2>3 DEF Until, NoneAhead
    <3>2. Cardinality(Until(c, t)) <= Cardinality(Until(c, now))
      BY <3>1, UntilIsFinite, FS_Subset
    <3>3. Cardinality(Until(c, now)) <= LimitOf(c)
      BY <1>1, <1>3 DEF BudgetIsKept
    <3> QED
      BY <1>1, <2>1, <3>2, <3>3, UntilIsFinite
  <2> QED
    BY <1>1, <2>2, <2>3
<1> QED
  BY <1>1, <1>2, <1>3 DEF BudgetIsKept

\* A budget is given before the first call.
LEMMA CreateBrandKeepsBudget ==
  ASSUME WellTyped, Windowed, NoneAhead, BudgetIsKept,
         NEW b \in Brands, NEW n \in Limits, NEW s \in BOOLEAN, CreateBrand(b, n, s)
  PROVE  NoneAhead' /\ BudgetIsKept'
<1>1. ~registry[b].known /\ \A d \in Brands \ {b} : LimitOf(d)' = LimitOf(d)
  BY CreateBrandIsWindowed
<1>2. UNCHANGED <<now, passed, turned>> /\ registry' \in [Brands -> Tenant]
  BY LimitsAreNat DEF CreateBrand, Register, limiter, WellTyped, Tenant
<1>3. \A p \in passed : p.caller # b
  BY <1>1 DEF Windowed, Unheard
<1>4. \A d \in Brands : LimitOf(d)' \in Nat
  BY <1>2, TenantSettings DEF LimitOf, Tenant
<1>5. ASSUME NEW c \in Brands, NEW t \in 0..now, LimitOf(c)' > 0
      PROVE  Cardinality(Until(c, t)') <= LimitOf(c)'
  <2>1. Until(c, t)' = Until(c, t)
    BY <1>2 DEF Until
  <2>2. CASE c = b
    <3>1. Until(c, t) = {}
      BY <1>3, <2>2 DEF Until
    <3> QED
      BY <1>4, <2>1, <3>1, FS_EmptySet
  <2>3. CASE c # b
    BY <1>1, <1>5, <2>1, <2>3 DEF BudgetIsKept
  <2> QED
    BY <2>2, <2>3
<1> QED
  BY <1>2, <1>5 DEF NoneAhead, BudgetIsKept

LEMMA StepKeepsBudget ==
  ASSUME WellTyped, Windowed, NoneAhead, BudgetIsKept, [Next]_vars
  PROVE  NoneAhead' /\ BudgetIsKept'
<1>1. CASE UNCHANGED <<now, passed, registry>>
  BY <1>1 DEF NoneAhead, BudgetIsKept, Until, LimitOf
<1>2. UNCHANGED <<limiter, registry>> => UNCHANGED <<now, passed, registry>>
  BY DEF limiter
<1>3. ASSUME NEW b \in Brands, OverLimit(b) PROVE UNCHANGED <<now, passed, registry>>
  BY <1>3 DEF OverLimit, Refuse
<1> QED
  BY <1>1, <1>2, <1>3, AdmitKeepsBudget, TickKeepsBudget, CreateBrandKeepsBudget, LimiterSteps

(* No tenant is ever admitted more often than its budget in any window of    *)
(* time, however its bucket was cut, pruned and begun anew.                  *)
THEOREM BudgetIsKeptHolds == Spec => []BudgetIsKept
<1>1. Init => NoneAhead /\ BudgetIsKept
  <2> SUFFICES ASSUME Init PROVE NoneAhead /\ BudgetIsKept
    OBVIOUS
  <2>1. passed = {} /\ registry \in [Brands -> Tenant]
    BY DEF Init, LimiterInit, TenantsInit, Tenant
  <2>2. \A b, t : Cardinality(Until(b, t)) = 0
    BY <2>1, FS_EmptySet DEF Until
  <2> QED
    BY <2>1, <2>2, LimitIsNat DEF NoneAhead, BudgetIsKept
<1>2. WellTyped /\ Windowed /\ NoneAhead /\ BudgetIsKept /\ [Next]_vars
        => (WellTyped /\ Windowed /\ NoneAhead /\ BudgetIsKept)'
  BY StepWellTyped, StepIsWindow, StepKeepsBudget
<1> QED
  BY <1>1, <1>2, InitWellTyped, InitIsWindow, PTL DEF Spec
=============================================================================
