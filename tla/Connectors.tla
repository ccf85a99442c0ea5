----------------------------- MODULE Connectors -----------------------------
(***************************************************************************)
(* Actions on a shop's platform: an agent's call is evaluated, executed by *)
(* the platform if it is allowed, held or refused if not, and what was     *)
(* executed is compared with what was asked for (ConnectorService.process, *)
(* ExecutionVerifier.verify, the endpoint and the two webhooks).           *)
(*                                                                         *)
(* process neither awaits nor is called from a thread, so one call is at   *)
(* work at a time; but the process may die between any two of its steps.   *)
(* The chain and the reviews are durable; claimed keys and registered      *)
(* connectors are in memory.  Eviction and expiry of keys are in           *)
(* Idempotency.  The platform may do less or other than it is asked, and   *)
(* may do it without anybody hearing of it.                                *)
(***************************************************************************)
EXTENDS Naturals, Sequences, FiniteSets

CONSTANTS Calls,        \* what agents ask for; a call is its own idempotency key
          NamesOrder,   \* the calls whose action has an order_id
          Financial,    \* the calls whose action is in _FINANCIAL_ACTIONS
          None,         \* no call, no amount
          MaxDeliveries, MaxCrashes     \* bounds of the instance

ASSUME CallsAreCalls == NamesOrder \subseteq Calls /\ Financial \subseteq Calls
ASSUME NoneIsNoCall == None \notin Calls
ASSUME DeliveriesAreNat == MaxDeliveries \in Nat /\ MaxCrashes \in Nat

VARIABLES chain,        \* the audit trail, of evaluations and verifications
          reviews,      \* decisions in the review queue
          connector,    \* the executor the connector is registered with
          entries,      \* entries[c]: the idempotency entry of call c
          work,         \* the call being processed
          platform,     \* what the platform has really executed, in order
          cut,          \* history: decisions whose processing was cut short
          deliveries, crashes

vars == <<chain, reviews, connector, entries, work, platform, cut, deliveries, crashes>>

Platforms == {"shopify", "woocommerce", "webhook"}
Executor == [platform : Platforms, dry_run : BOOLEAN]
Unregistered == [platform |-> "none", dry_run |-> FALSE]

\* The amount a platform reports is the one that was asked for or another one.
Amounts == {"asked", "other"}
Idle == [call |-> None, keyed |-> FALSE, at |-> "idle", by |-> 0,
         executor |-> Unregistered, reported |-> None, answer |-> "none"]
NoEntry == [state |-> "free", answer |-> "none", by |-> 0]

Init ==
    /\ chain = <<>> /\ reviews = {} /\ platform = <<>> /\ cut = {}
    /\ connector = Unregistered
    /\ entries = [c \in Calls |-> NoEntry]
    /\ work = Idle
    /\ deliveries = 0 /\ crashes = 0

Goes(at) == work' = [work EXCEPT !.at = at]
Kept == entries
\* release
Released == IF work.keyed THEN [entries EXCEPT ![work.call] = NoEntry] ELSE entries

\* The call ends without an answer of its own; its decision, if any, is cut short.
Ends(left) ==
    /\ work' = Idle
    /\ entries' = left
    /\ cut' = cut \cup ({work.by} \ {0})
----------------------------------------------------------------------------
(* The idempotency gate.                                                    *)

\* A delivery over the endpoint has a key, one over a webhook has none.  A call
\* that is done is answered from its entry, one that is claimed gets 409.
Deliver(c, keyed) ==
    /\ work.at = "idle" /\ deliveries < MaxDeliveries
    /\ deliveries' = deliveries + 1
    /\ IF keyed /\ entries[c].state # "free"
       THEN UNCHANGED <<work, entries>>
       ELSE /\ work' = [Idle EXCEPT !.call = c, !.keyed = keyed, !.at = "evaluate",
                                    !.executor = connector]
            /\ entries' = IF keyed THEN [entries EXCEPT ![c].state = "claimed"] ELSE entries
    /\ UNCHANGED <<chain, reviews, connector, platform, cut, crashes>>

\* complete
Complete ==
    /\ work.at = "complete"
    /\ work' = Idle
    /\ entries' = IF work.keyed
                  THEN [entries EXCEPT ![work.call] =
                            [state |-> "done", answer |-> work.answer, by |-> work.by]]
                  ELSE entries
    /\ UNCHANGED <<chain, reviews, connector, platform, cut, deliveries, crashes>>
----------------------------------------------------------------------------
(* process.                                                                 *)

\* An unknown connector (KeyError) and an invalid request (ValidationError):
\* the key is given back.
Invalid ==
    /\ work.at = "evaluate"
    /\ Ends(Released)
    /\ UNCHANGED <<chain, reviews, connector, platform, deliveries, crashes>>

\* What the handler does not catch: the engines' ValueError, a failing store.
Raises ==
    /\ work.executor # Unregistered /\ work.at \in {"evaluate", "queue", "verify"}
    /\ Ends(Kept)
    /\ UNCHANGED <<chain, reviews, connector, platform, deliveries, crashes>>

DispatchUnlessBlocked(decision) == IF decision = "BLOCK" THEN "refuse" ELSE "execute"
Dispatch(decision) ==
    CASE decision = "ALLOW" -> "execute" [] decision = "REVIEW" -> "queue" [] OTHER -> "refuse"

\* The decision is chained first; the review of a held one is created after it.
Evaluate(decision) ==
    /\ work.at = "evaluate" /\ work.executor # Unregistered
    /\ chain' = Append(chain, [kind |-> "decision", call |-> work.call, decision |-> decision,
                               of |-> 0, status |-> "none"])
    /\ work' = [work EXCEPT !.at = Dispatch(decision), !.by = Len(chain')]
    /\ UNCHANGED <<reviews, connector, entries, platform, cut, deliveries, crashes>>

CreateReview ==
    /\ work.at = "queue"
    /\ reviews' = reviews \cup {work.by}
    /\ Goes("hold")
    /\ UNCHANGED <<chain, connector, entries, platform, cut, deliveries, crashes>>

\* KeyError: this executor needs an order_id the action does not have.
LacksOrder ==
    /\ work.call \notin NamesOrder
    /\ \/ work.at = "execute" /\ work.executor.platform = "shopify"
       \/ /\ work.at = "hold" /\ ~work.executor.dry_run
          /\ work.executor.platform \in {"shopify", "woocommerce"}
NoOrder ==
    /\ LacksOrder
    /\ Ends(Released)
    /\ UNCHANGED <<chain, reviews, connector, platform, deliveries, crashes>>

Effect == Append(platform, [call |-> work.call, by |-> work.by,
                            keyed |-> work.keyed, boot |-> crashes])
\* The platform executes, and reports some amount or none.
Execute(reported) ==
    /\ work.at = "execute" /\ ~work.executor.dry_run /\ ~LacksOrder
    /\ platform' = Effect
    /\ work' = [work EXCEPT !.at = "verify", !.reported = reported]
    /\ UNCHANGED <<chain, reviews, connector, entries, cut, deliveries, crashes>>

\* A dry run, or an HTTP error of the platform, which the transport returns like
\* an answer.
ExecuteNothing ==
    /\ work.at = "execute" /\ ~LacksOrder
    /\ Goes("verify")
    /\ UNCHANGED <<chain, reviews, connector, entries, platform, cut, deliveries, crashes>>

ReleaseOnTimeout ==
    /\ work.at = "execute" /\ ~work.executor.dry_run /\ ~LacksOrder
    /\ platform' \in {platform, Effect}
    /\ Ends(Released)
    /\ UNCHANGED <<chain, reviews, connector, deliveries, crashes>>
\* The connection fails or times out, before or after the platform has acted.
ExecuteFails ==
    /\ work.at = "execute" /\ ~work.executor.dry_run /\ ~LacksOrder
    /\ platform' \in {platform, Effect}
    /\ Ends(Kept)
    /\ UNCHANGED <<chain, reviews, connector, deliveries, crashes>>

\* Hold the order on the platform; refuse does nothing there.
Hold ==
    /\ work.at = "hold" /\ ~LacksOrder
    /\ work' = [work EXCEPT !.at = "complete", !.answer = "held"]
    /\ UNCHANGED <<chain, reviews, connector, entries, platform, cut, deliveries, crashes>>
HoldFails ==
    /\ work.at = "hold" /\ ~LacksOrder /\ ~work.executor.dry_run
    /\ work.executor.platform # "webhook"
    /\ Ends(Kept)
    /\ UNCHANGED <<chain, reviews, connector, platform, deliveries, crashes>>
RefuseCall ==
    /\ work.at = "refuse"
    /\ work' = [work EXCEPT !.at = "complete", !.answer = "refused"]
    /\ UNCHANGED <<chain, reviews, connector, entries, platform, cut, deliveries, crashes>>
----------------------------------------------------------------------------
(* verify.                                                                  *)

\* Only a financial action has an amount to compare, and only if it is reported.
Compared(c, reported) ==
    IF c \notin Financial THEN "unverified"
    ELSE IF reported = None THEN "unknown"
    ELSE IF reported = "asked" THEN "verified" ELSE "mismatch"

MismatchOnly(status) ==
    /\ work.at = "verify"
    /\ chain' = IF status = "mismatch"
                THEN Append(chain, [kind |-> "verification", call |-> work.call, decision |-> "BLOCK",
                                    of |-> work.by, status |-> status])
                ELSE chain
    /\ work' = [work EXCEPT !.at = "complete", !.answer =
                    IF status = "mismatch" THEN "executed_with_mismatch" ELSE "executed"]
    /\ UNCHANGED <<reviews, connector, entries, platform, cut, deliveries, crashes>>
\* The record, linked to the decision, and the answer that goes by it.
Verify(status) ==
    /\ work.at = "verify"
    /\ chain' = Append(chain, [kind |-> "verification", call |-> work.call,
                               decision |-> IF status = "mismatch" THEN "BLOCK" ELSE "ALLOW",
                               of |-> work.by, status |-> status])
    /\ work' = [work EXCEPT !.at = "complete", !.answer =
                    IF status = "mismatch" THEN "executed_with_mismatch" ELSE "executed"]
    /\ UNCHANGED <<reviews, connector, entries, platform, cut, deliveries, crashes>>
----------------------------------------------------------------------------
\* register replaces the executor; a call at work keeps the one it has read.
Register(executor) ==
    /\ work.at = "idle" /\ connector # executor
    /\ connector' = executor
    /\ UNCHANGED <<chain, reviews, entries, work, platform, cut, deliveries, crashes>>

\* The process dies: keys and connectors are forgotten.
Crash ==
    /\ crashes < MaxCrashes
    /\ crashes' = crashes + 1
    /\ Ends([c \in Calls |-> NoEntry])
    /\ connector' = Unregistered
    /\ UNCHANGED <<chain, reviews, platform, deliveries>>

Next ==
    \/ \E c \in Calls, keyed \in BOOLEAN : Deliver(c, keyed)
    \/ Complete \/ Invalid \/ Raises \/ NoOrder
    \/ \E d \in {"ALLOW", "REVIEW", "BLOCK"} : Evaluate(d)
    \/ CreateReview
    \/ \E r \in Amounts \cup {None} : Execute(r)
    \/ ExecuteNothing \/ ExecuteFails
    \/ Hold \/ HoldFails \/ RefuseCall
    \/ Verify(Compared(work.call, work.reported))
    \/ \E e \in Executor : Register(e)
    \/ Crash

Spec == Init /\ [][Next]_vars
----------------------------------------------------------------------------
Record == [kind : {"decision", "verification"}, call : Calls,
           decision : {"ALLOW", "REVIEW", "BLOCK"}, of : Nat,
           status : {"none", "unverified", "unknown", "verified", "mismatch"}]
Execution == [call : Calls, by : Nat, keyed : BOOLEAN, boot : Nat]
Answers == {"none", "held", "refused", "executed", "executed_with_mismatch"}
Entry == [state : {"free", "claimed", "done"}, answer : Answers, by : Nat]
Work == [call : Calls \cup {None}, keyed : BOOLEAN,
         at : {"idle", "evaluate", "queue", "execute", "hold", "refuse", "verify", "complete"},
         by : Nat, executor : Executor \cup {Unregistered},
         reported : Amounts \cup {None}, answer : Answers]

TypeOK ==
    /\ chain \in Seq(Record) /\ reviews \subseteq DOMAIN chain
    /\ connector \in Executor \cup {Unregistered}
    /\ entries \in [Calls -> Entry]
    /\ work \in Work
    /\ platform \in Seq(Execution)
    /\ cut \subseteq Nat /\ deliveries \in Nat /\ crashes \in Nat

Verifications(by) == {i \in DOMAIN chain : chain[i].kind = "verification" /\ chain[i].of = by}

(* Nothing happens on a platform that the firewall has not allowed: every    *)
(* execution has a decision of its own, ALLOW and of this very call, that    *)
(* was chained before it, through every crash and retry (process).           *)
ExecutedWasAllowed ==
    \A n \in DOMAIN platform :
        LET by == platform[n].by
        IN  /\ by \in DOMAIN chain
            /\ chain[by].decision = "ALLOW" /\ chain[by].kind = "decision"
            /\ chain[by].call = platform[n].call
            /\ \A m \in DOMAIN platform : platform[m].by = by => m = n

(* A call that is sent with its key again and again is executed once, even   *)
(* if its connection broke, its verification failed or the platform did not  *)
(* answer; only a restart forgets that (process_connector).                  *)
OneExecutionPerKey ==
    \A n, m \in DOMAIN platform :
        /\ platform[n].keyed /\ platform[m].keyed
        /\ platform[n].call = platform[m].call /\ platform[n].boot = platform[m].boot
        => n = m

(* What an answer says is on record, and what was executed is verified: an   *)
(* execution that was not cut short has exactly one verification, linked to  *)
(* its decision and before its answer; a stored answer agrees with decision, *)
(* verification and queue (verify, process, complete).                       *)
EffectsAreOnRecord ==
    /\ \A n \in DOMAIN platform :
          \/ platform[n].by \in cut
          \/ work.by = platform[n].by /\ work.at = "verify"
          \/ Cardinality(Verifications(platform[n].by)) = 1
    /\ \A c \in Calls : entries[c].state = "done" =>
          LET by == entries[c].by
              mismatch == \E v \in Verifications(by) : chain[v].status = "mismatch"
          IN  /\ chain[by].call = c
              /\ chain[by].decision = "ALLOW" <=> entries[c].answer \in {"executed", "executed_with_mismatch"}
              /\ chain[by].decision = "REVIEW" <=> entries[c].answer = "held" /\ by \in reviews
              /\ mismatch <=> entries[c].answer = "executed_with_mismatch"
=============================================================================
