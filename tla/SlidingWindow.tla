--------------------------- MODULE SlidingWindow ---------------------------
(***************************************************************************)
(* What the gateway promises about request budgets: a call that has        *)
(* authenticated itself is admitted exactly if its caller has had fewer    *)
(* admissions within the window than its budget, and nothing else counts.  *)
(* The whole past is remembered; there are no buckets and no pruning.      *)
(***************************************************************************)
EXTENDS Naturals, FiniteSets

CONSTANTS Callers, Window

VARIABLES now,          \* the clock
          budget,       \* budget[c]; 0 is unlimited
          passed,       \* every admission there has been
          turned        \* who has been turned away, and when

wvars == <<now, budget, passed, turned>>

Recently(c) == {p \in passed : p.caller = c /\ now - p.at < Window}
Spent(c) == budget[c] > 0 /\ Cardinality(Recently(c)) >= budget[c]
Admission(c) == [caller |-> c, at |-> now, nr |-> Cardinality(passed)]

WInit ==
    /\ now = 0
    /\ budget \in [Callers -> Nat]
    /\ passed = {} /\ turned = {}

\* A caller may be given a budget of its own before it has made a call.
GiveBudget(c) ==
    /\ \A p \in passed : p.caller # c
    /\ budget' \in [Callers -> Nat]
    /\ \A d \in Callers \ {c} : budget'[d] = budget[d]
    /\ UNCHANGED <<now, passed, turned>>

Pass(c) ==
    /\ ~Spent(c)
    /\ passed' = passed \cup {Admission(c)}
    /\ UNCHANGED <<now, budget, turned>>

TurnAway(c) ==
    /\ Spent(c)
    /\ turned' = turned \cup {[caller |-> c, at |-> now]}
    /\ UNCHANGED <<now, budget, passed>>

TimePasses ==
    /\ now' > now
    /\ UNCHANGED <<budget, passed, turned>>

WNext ==
    \/ TimePasses
    \/ \E c \in Callers : GiveBudget(c) \/ Pass(c) \/ TurnAway(c)

WSpec == WInit /\ [][WNext]_wvars
=============================================================================
