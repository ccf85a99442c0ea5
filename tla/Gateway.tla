------------------------------ MODULE Gateway ------------------------------
(***************************************************************************)
(* The gateway of the API in api_key mode: a tenant's call is              *)
(* authenticated, charged to its request budget, judged under the policy   *)
(* pack of its brand, recorded, queued for review if held, and metered.    *)
(* Connectors evaluate without a tenant, and the simulator replays the     *)
(* records under a candidate pack into the same audit trail.               *)
(*                                                                         *)
(* Every handler is a coroutine that awaits nothing but the body of its    *)
(* request, so one process serves a call in one step.  What the pipeline   *)
(* makes of an action is in Decision; here a policy is what it decides.    *)
(***************************************************************************)
EXTENDS RateLimiter, PolicyPacks

CONSTANTS Verdict,          \* Verdict[p]: what the pipeline decides under policy p
          Limits,           \* rate_limit_per_minute of a tenant; 0 is none of its own
          Strict,           \* credential_verification is "strict"
          PageSize,         \* limit of a simulation
          MaxEvents,        \* _MAX_DETAIL_EVENTS
          None,             \* no tenant
          Month,            \* length of a billing period
          MaxRecords,
          MaxWork           \* bounds of the instance, on records and on everything

ASSUME VerdictsAreDecisions == Verdict \in [Policies -> {"ALLOW", "REVIEW", "BLOCK"}]
ASSUME LimitsAreNat == Limits \subseteq Nat /\ Strict \in BOOLEAN
ASSUME GatewayBounds ==
    PageSize \in Nat /\ MaxEvents \in Nat /\ MaxRecords \in Nat /\ MaxWork \in Nat /\ Month \in Nat \ {0}
ASSUME NoneIsNoBrand == None \notin Brands

VARIABLES records,      \* the audit trail
          reviews,      \* records held in the review queue
          events,       \* the metered calls the meter still has in detail
          billed        \* billed[n][b]: calls metered in period n

trail == <<records, reviews>>
meter == <<events, billed>>
vars == <<limiter, packStore, registry, trail, meter>>

\* A billing period, YYYY-MM.
Period == now \div Month
Periods == 0..(MaxTime \div Month)
\* pack is history: the pack that judged; sim is the pack of a replay, if it is one.
Record == [brand : Brands \cup {None}, policy : Policies, pack : Nat,
           sim : Nat, period : Nat, answered : BOOLEAN]
Event == [brand : Brands, decision : {"ALLOW", "REVIEW", "BLOCK"}, period : Nat]

\* Ticks, admissions, packs and records together are bounded.
Room(n) == now + Cardinality(passed) + Len(packs) + Len(records) + n <= MaxWork

Init ==
    /\ TenantsInit /\ LimiterInit /\ PacksInit
    /\ records = <<>> /\ reviews = {}
    /\ events = <<>> /\ billed = [n \in Periods |-> [b \in Brands |-> 0]]
----------------------------------------------------------------------------
(* Admission: require_brand.                                                *)

\* POST /v1/brands, an operator's call
CreateBrand(b, limit, signed) ==
    /\ Register(b, limit, signed)
    /\ UNCHANGED <<limiter, packStore, trail, meter>>

MaySignIn(b) == \E c \in Credentials : Authentic(b, c)

\* 401: the budget is not touched.
Unauthenticated(b) ==
    /\ \E c \in Credentials : ~Authentic(b, c)
    /\ UNCHANGED vars

\* 429
OverLimit(b) ==
    /\ MaySignIn(b)
    /\ Refuse(b, LimitOf(b))
    /\ UNCHANGED <<packStore, registry, trail, meter>>

Admitted(b) == Room(1) /\ MaySignIn(b) /\ Admit(b, LimitOf(b))

\* An admitted call without a verdict: an operator endpoint (403), a request
\* that is invalid (422), or a retry that gets the verdict of its first call.
NoVerdict(b) ==
    /\ Admitted(b)
    /\ UNCHANGED <<packStore, registry, trail, meter>>
----------------------------------------------------------------------------
(* Evaluation: firewall.evaluate and the handler of /v1/evaluate.           *)

Decision(r) == Verdict[r.policy]
Decide(b, policy, pack, answered) ==
    [brand |-> b, policy |-> policy, pack |-> pack, sim |-> 0,
     period |-> Period, answered |-> answered]

\* The record is appended; a held action is queued.
Held(r) == IF Decision(r) = "REVIEW" THEN {Len(records) + 1} ELSE {}

\* UsageMeter.record
LastOf(log) == IF Len(log) > MaxEvents THEN Tail(log) ELSE log
MeterBrand(b, decision) ==
    /\ events' = LastOf(Append(events, [brand |-> b, decision |-> decision, period |-> Period]))
    /\ billed' = [billed EXCEPT ![Period][b] = @ + 1]

MeterAnyway(b, requested) ==
    /\ Admitted(b)
    /\ Len(records) < MaxRecords /\ Room(2)
    /\ LET r == Decide(b, Resolve(b, requested), active[b], FALSE)
       IN  /\ Decision(r) = "REVIEW"
           /\ records' = Append(records, r)
           /\ MeterBrand(b, "REVIEW")
    /\ UNCHANGED <<packStore, registry, reviews>>
Evaluate(b, requested) ==
    /\ Admitted(b)
    /\ Len(records) < MaxRecords /\ Room(2)
    /\ LET r == Decide(b, Resolve(b, requested), active[b], TRUE)
       IN  /\ records' = Append(records, r)
           /\ reviews' = reviews \cup Held(r)
           /\ MeterBrand(b, Decision(r))
    /\ UNCHANGED <<packStore, registry>>

\* The review store fails after the record was appended: the call ends in an
\* error and is not metered.
EvaluateFails(b, requested) ==
    /\ Admitted(b)
    /\ Len(records) < MaxRecords /\ Room(2)
    /\ LET r == Decide(b, Resolve(b, requested), active[b], FALSE)
       IN  /\ Decision(r) = "REVIEW"
           /\ records' = Append(records, r)
    /\ UNCHANGED <<packStore, registry, reviews, meter>>

\* ConnectorService.process and the webhooks evaluate without a tenant: no
\* budget, no pack, no meter.
ConnectorEvaluates(requested) ==
    /\ Len(records) < MaxRecords /\ Room(1)
    /\ LET r == Decide(None, requested, 0, TRUE)
       IN  /\ records' = Append(records, r)
           /\ reviews' = reviews \cup Held(r)
    /\ UNCHANGED <<limiter, packStore, registry, meter>>
----------------------------------------------------------------------------
(* Policy packs over the API, and the simulator.                            *)

CreatePack(b, policy) ==
    /\ Room(1) /\ Create(b, policy)
    /\ UNCHANGED <<limiter, registry, trail, meter>>
ActivatePack(i) == Activate(i) /\ UNCHANGED <<limiter, registry, trail, meter>>
ArchivePack(i) == Archive(i) /\ UNCHANGED <<limiter, registry, trail, meter>>

\* The newest PageSize records of the brand in scope; one without a brand is of any.
Page == {i \in DOMAIN records : i + PageSize > Len(records)}
InScope(scope) == {i \in Page : records[i].brand \in {scope, None}}

Shadow(i) == [brand |-> None, policy |-> packs[i].policy, pack |-> 0, sim |-> i,
              period |-> Period, answered |-> FALSE]
Shadows(i, n) == [k \in 1..n |-> Shadow(i)]

SimulateForReal(i, scope) ==
    /\ ~Strict
    /\ Len(records) + Cardinality(InScope(scope)) <= MaxRecords
    /\ Room(Cardinality(InScope(scope)))
    /\ records' = records \o Shadows(i, Cardinality(InScope(scope)))
    /\ reviews' = reviews \cup
                  (IF Verdict[packs[i].policy] = "REVIEW" THEN DOMAIN records' \ DOMAIN records ELSE {})
    /\ UNCHANGED <<limiter, packStore, registry, meter>>
\* simulate_pack: every record in scope is evaluated again and leaves a shadow
\* record.  In strict mode a replay has no credential and the call ends with 422.
Simulate(i, scope) ==
    /\ ~Strict
    /\ Len(records) + Cardinality(InScope(scope)) <= MaxRecords
    /\ Room(Cardinality(InScope(scope)))
    /\ records' = records \o Shadows(i, Cardinality(InScope(scope)))
    /\ UNCHANGED <<limiter, packStore, registry, reviews, meter>>

Clock == Room(1) /\ Tick /\ UNCHANGED <<packStore, registry, trail, meter>>

Call(b) ==
    \/ Unauthenticated(b) \/ OverLimit(b) \/ NoVerdict(b)
    \/ \E p \in Policies : Evaluate(b, p) \/ EvaluateFails(b, p)
Operate(b) ==
    \/ \E n \in Limits, s \in BOOLEAN : CreateBrand(b, n, s)
    \/ \E p \in Policies : CreatePack(b, p)
    \/ \E i \in DOMAIN packs : Simulate(i, b)

Next ==
    \/ \E b \in Brands : Operate(b) \/ Call(b)
    \/ \E p \in Policies : ConnectorEvaluates(p)
    \/ \E i \in DOMAIN packs : ActivatePack(i) \/ ArchivePack(i)
    \/ Clock

Spec == Init /\ [][Next]_vars
----------------------------------------------------------------------------
TypeOK ==
    /\ now \in Nat
    /\ hits \in [Brands -> SUBSET Hit]
    /\ passed \subseteq [caller : Brands, at : Nat, nr : Nat]
    /\ turned \subseteq [caller : Brands, at : Nat]
    /\ packs \in Seq(Pack)
    /\ active \in [Brands -> 0..Len(packs)]
    /\ registry \in [Brands -> Tenant]
    /\ records \in Seq(Record)
    /\ reviews \subseteq DOMAIN records
    /\ events \in Seq(Event)
    /\ billed \in [Periods -> [Brands -> Nat]]

(* The limiter implements its promise: however buckets are cut and pruned,   *)
(* and whatever forged, invalid or operator calls arrive in between, a call  *)
(* is refused exactly if its tenant has used up its budget in this window.   *)
Budget == INSTANCE SlidingWindow WITH
    Callers <- Brands, budget <- [b \in Brands |-> LimitOf(b)]
ImplementsWindow == Budget!WSpec

\* The admissions of a tenant in the window that ends at t.
Until(b, t) == {p \in passed : p.caller = b /\ p.at <= t /\ t - p.at < Window}
(* What the limiter is there for: in no window, wherever it is laid, has a   *)
(* tenant had more admissions than its budget, although the limiter only     *)
(* counts back from the present and forgets buckets (allow, _prune_locked).  *)
BudgetIsKept ==
    \A b \in Brands, t \in 0..now : LimitOf(b) > 0 => Cardinality(Until(b, t)) <= LimitOf(b)

(* Whatever order packs are created, activated and archived in: the pack in  *)
(* force is one of the brand's own that nobody has archived since, a tenant  *)
(* is never judged by the pack of another, and no two of its packs bear the  *)
(* same version (create, activate, archive, resolve).                        *)
PackInForce ==
    /\ \A b \in Brands : active[b] # 0 =>
          packs[active[b]].brand = b /\ packs[active[b]].state = "active"
    /\ \A k \in DOMAIN records : records[k].pack # 0 =>
          /\ packs[records[k].pack].brand = records[k].brand
          /\ packs[records[k].pack].policy = records[k].policy
    /\ \A i, j \in DOMAIN packs :
          packs[i].brand = packs[j].brand /\ packs[i].version = packs[j].version => i = j

Answered(b, n) == {k \in DOMAIN records : records[k].answered /\ records[k].brand = b
                                          /\ records[k].period = n}
(* A tenant is billed for the verdicts it was given and for nothing else: not*)
(* for replays, refusals, failures, connectors or simulations; and while the *)
(* meter has dropped no event the split of a bill adds up to its total.      *)
BillsAreExact ==
    \A b \in Brands, n \in Periods :
        /\ billed[n][b] = Cardinality(Answered(b, n))
        /\ Cardinality({k \in DOMAIN records : records[k].answered /\ records[k].brand # None})
              <= MaxEvents
           => billed[n][b] = Cardinality({e \in DOMAIN events :
                                 events[e].brand = b /\ events[e].period = n})

(* Only what somebody is waiting for is in the review queue: a held action   *)
(* whose call was answered, and never the replay of one (create_review).     *)
QueueIsReal ==
    reviews = {k \in DOMAIN records : records[k].answered /\ Decision(records[k]) = "REVIEW"}
=============================================================================
