---------------------------- MODULE RateLimiter ----------------------------
(***************************************************************************)
(* RateLimiter of multitenant.py: a list of recent hits per bucket, cut to *)
(* the window whenever the bucket is asked, and a table that is pruned of  *)
(* stale buckets when it outgrows its bound.                               *)
(*                                                                         *)
(* allow reads a monotonic clock and runs on the event loop, so the hits of*)
(* a bucket are in the order of time and its last one is the latest; here  *)
(* a bucket is a set of hits, told apart by a serial number.  An empty one *)
(* is not in the table.                                                    *)
(***************************************************************************)
EXTENDS Tenants

CONSTANTS Window,       \* 60 seconds
          MaxKeys,      \* _MAX_KEYS
          MaxTime, MaxCalls     \* bounds of the instance

ASSUME LimiterBounds == Window \in Nat \ {0} /\ MaxKeys \in Nat /\ MaxTime \in Nat /\ MaxCalls \in Nat

VARIABLES now, hits,
          passed,       \* history: admitted calls
          turned        \* history: calls that were refused for the limit

limiter == <<now, hits, passed, turned>>

Hit == [at : Nat, nr : Nat]
Stamp == [at |-> now, nr |-> Cardinality(passed)]

LimiterInit ==
    /\ now = 0
    /\ hits = [b \in Brands |-> {}]
    /\ passed = {} /\ turned = {}

RecentShort(b) == {h \in hits[b] : now - h.at < Window - 1}
Recent(b) == {h \in hits[b] : now - h.at < Window}

\* _prune_locked: a bucket goes whose last hit has left the window.
PruneRecent(table) ==
    [b \in Brands |-> IF \A h \in table[b] : now - h.at < Window THEN {} ELSE table[b]]
Prune(table) ==
    [b \in Brands |-> IF \A h \in table[b] : now - h.at > Window THEN {} ELSE table[b]]

Booked(b) == [hits EXCEPT ![b] = Recent(b) \cup {Stamp}]
\* allow, when it says yes ...
Admit(b, limit) ==
    /\ Cardinality(passed) < MaxCalls
    /\ limit = 0 \/ Cardinality(Recent(b)) < limit
    /\ hits' = IF limit = 0 THEN hits
               ELSE IF Cardinality({k \in Brands : Booked(b)[k] # {}}) > MaxKeys
                    THEN Prune(Booked(b)) ELSE Booked(b)
    /\ passed' = passed \cup {[caller |-> b, at |-> now, nr |-> Cardinality(passed)]}
    /\ UNCHANGED <<now, turned>>

\* ... and when it says no.
Refuse(b, limit) ==
    /\ limit > 0
    /\ Cardinality(Recent(b)) >= limit
    /\ hits' = [hits EXCEPT ![b] = Recent(b)]
    /\ turned' = turned \cup {[caller |-> b, at |-> now]}
    /\ UNCHANGED <<now, passed>>

Tick ==
    /\ now < MaxTime
    /\ now' = now + 1
    /\ UNCHANGED <<hits, passed, turned>>
=============================================================================
