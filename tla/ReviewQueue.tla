---------------------------- MODULE ReviewQueue ----------------------------
(***************************************************************************)
(* The human review queue over a durable store (SQLite or Postgres) shared *)
(* by several worker processes: POST /v1/evaluate as far as it queues a    *)
(* review, and POST /v1/reviews/{id}/decision, statement by statement.     *)
(*                                                                         *)
(* A request handler never awaits, so a worker serves one request at a     *)
(* time; workers interleave between any two statements they send to the    *)
(* database, and a worker may die between two of them.  One statement is   *)
(* one action.  With a single worker the model is the in-memory backend,   *)
(* whose lock makes its read and its write of an item one step.            *)
(***************************************************************************)
EXTENDS Naturals, Sequences

CONSTANTS Workers,      \* processes that serve the API
          Reviews,      \* evaluations the firewall holds for a human
          Reviewers,    \* humans who decide
          Crashes,      \* whether a worker may die between two statements
          None          \* no review and no human: what an idle worker serves

ASSUME CrashesIsBoolean == Crashes \in BOOLEAN
ASSUME NoneIsNothing == None \notin Reviews \cup Reviewers

VARIABLES table,        \* table[r]: the row of review r, or NoRow
          audit,        \* the audit_records table, in the order of seq
          pointer,      \* pointer[r]: human_decision of r's origin record
          outcomes,     \* verdicts handed to the learning loop, in order
          ballots,      \* history: every decision whose UPDATE was acknowledged
          req           \* req[w]: the request worker w serves, and how far it is

vars == <<table, audit, pointer, outcomes, ballots, req>>

Ballot == [review : Reviews, reviewer : Reviewers, approve : BOOLEAN]
\* A row of the reviews table; status "none" is the row that is not there.
Row == [status : {"none", "pending", "approved", "rejected"},
        approvals : Seq(Reviewers), required : {0, 1, 2}]
NoRow == [status |-> "none", approvals |-> <<>>, required |-> 0]
\* An audit record: a held decision, the receipt of a first approval, a verdict.
Entry == [kind : {"origin", "receipt", "human"}, review : Reviews,
          verdict : {"pending", "partial", "approved", "rejected"}]
\* at: the next statement; by, approve: the decision in the request; item: the
\* worker's copy of the row, decision applied; seen: the last seq read.
Request == [at : {"idle", "insertOrigin", "create", "update", "point", "chain",
                  "insertReceipt", "insertHuman", "outcome"},
            review : Reviews \cup {None}, by : Reviewers \cup {None}, approve : BOOLEAN,
            item : Row, seen : Nat]
Idle == [at |-> "idle", review |-> None, by |-> None, approve |-> FALSE,
         item |-> NoRow, seen |-> 0]

Entries(kind, r) == {i \in DOMAIN audit : audit[i].kind = kind /\ audit[i].review = r}

Init ==
    /\ table = [r \in Reviews |-> NoRow]
    /\ audit = <<>>
    /\ pointer = [r \in Reviews |-> "pending"]
    /\ outcomes = <<>>
    /\ ballots = {}
    /\ req = [w \in Workers |-> Idle]

GoTo(w, statement) ==
    req' = [req EXCEPT ![w] = IF statement = "idle" THEN Idle ELSE [@ EXCEPT !.at = statement]]
----------------------------------------------------------------------------
(* Appending to the hash chain: read the last row, insert the next one.     *)

ReadLast(w, request) == req' = [req EXCEPT ![w] = [request EXCEPT !.seen = Len(audit)]]

\* UNIQUE (seq): the row after the one w read is still free.
SeqIsFree(w) == req[w].seen = Len(audit)

\* Where the handler goes after its INSERT; a duplicate seq raises, and nothing
\* catches it: the request ends there with an error.
SwallowInsertError(w, next) == next
AfterInsert(w, next) == IF SeqIsFree(w) THEN next ELSE "idle"

Insert(w, kind, verdict, next) ==
    /\ audit' = IF SeqIsFree(w)
                THEN Append(audit, [kind |-> kind, review |-> req[w].review,
                                    verdict |-> verdict])
                ELSE audit
    /\ GoTo(w, AfterInsert(w, next))
    /\ UNCHANGED <<table, pointer, outcomes, ballots>>
----------------------------------------------------------------------------
(* POST /v1/evaluate, for an action the firewall holds.                     *)

\* The threshold for two-person approval is exclusive, and may be unset.
RequiredApprovals(aboveThreshold) == IF aboveThreshold THEN 2 ELSE 1

\* Read the tail of the chain, for an evaluation that has no record yet.
Evaluate(w, r) ==
    /\ req[w].at = "idle"
    /\ Entries("origin", r) = {}
    /\ \A v \in Workers : ~(req[v].at = "insertOrigin" /\ req[v].review = r)
    /\ ReadLast(w, [Idle EXCEPT !.at = "insertOrigin", !.review = r])
    /\ UNCHANGED <<table, audit, pointer, outcomes, ballots>>

InsertOrigin(w) ==
    /\ req[w].at = "insertOrigin"
    /\ Insert(w, "origin", "pending", "create")

\* review_store.create, one row for the record just appended.
CreateReview(w) ==
    /\ req[w].at = "create"
    /\ \E above \in BOOLEAN :
          table' = [table EXCEPT ![req[w].review] =
                      [status |-> "pending", approvals |-> <<>>,
                       required |-> RequiredApprovals(above)]]
    /\ GoTo(w, "idle")
    /\ UNCHANGED <<audit, pointer, outcomes, ballots>>
----------------------------------------------------------------------------
(* POST /v1/reviews/{id}/decision.                                          *)

NobodyHasDecided(row, h) == FALSE
HasDecided(row, h) == \E i \in 1..Len(row.approvals) : row.approvals[i] = h

OneFewerIsEnough(n, required) == n + 1 >= required
Enough(n, required) == n >= required

\* apply_review_decision on a pending row: one rejection resolves it, an
\* approval resolves it once there are enough.
Applied(row, b) ==
    LET approvals == Append(row.approvals, b.reviewer)
    IN  IF ~b.approve THEN [row EXCEPT !.status = "rejected"]
        ELSE [row EXCEPT !.approvals = approvals,
                         !.status = IF Enough(Len(approvals), row.required)
                                    THEN "approved" ELSE "pending"]

\* SELECT the row and decide on the copy; a review that is resolved, or that
\* this human has approved already, is refused and changes nothing.
ReadAndApply(w, b) ==
    /\ req[w].at = "idle"
    /\ table[b.review].status = "pending"
    /\ ~HasDecided(table[b.review], b.reviewer)
    /\ req' = [req EXCEPT ![w] = [at |-> "update", review |-> b.review, by |-> b.reviewer,
                                  approve |-> b.approve, seen |-> 0,
                                  item |-> Applied(table[b.review], b)]]
    /\ UNCHANGED <<table, audit, pointer, outcomes, ballots>>

\* The decision worker w is serving.
Cast(w) == [review |-> req[w].review, reviewer |-> req[w].by, approve |-> req[w].approve]

\* WHERE id = ? AND status = 'pending', evaluated when the UPDATE runs.
Unconditionally(r) == TRUE
StillPending(r) == table[r].status = "pending"

\* First approval of two: the UPDATE may match no row, and nobody looks.
UpdatePartial(w) ==
    /\ req[w].at = "update"
    /\ req[w].item.status = "pending"
    /\ table' = IF StillPending(req[w].review)
                THEN [table EXCEPT ![req[w].review] = req[w].item] ELSE table
    /\ ballots' = ballots \cup {Cast(w)}
    /\ GoTo(w, "chain")
    /\ UNCHANGED <<audit, pointer, outcomes>>

\* A verdict: the UPDATE must match the row, or another worker has won.  On SQLite
\* the loser raises without a rollback: its transaction, which changed nothing, stays
\* open until the next commit of its process and keeps others from writing; their
\* statements then raise like any that fails (Crash).
UpdateResolved(w) ==
    /\ req[w].at = "update"
    /\ req[w].item.status # "pending"
    /\ IF StillPending(req[w].review)
       THEN /\ table' = [table EXCEPT ![req[w].review] = req[w].item]
            /\ ballots' = ballots \cup {Cast(w)}
            /\ GoTo(w, "point")
       ELSE /\ GoTo(w, "idle")
            /\ UNCHANGED <<table, ballots>>
    /\ UNCHANGED <<audit, pointer, outcomes>>

\* set_human_decision on the origin record.  Its SELECT and its UPDATE are one step,
\* since nobody changes anything else of the row in between.
ForgetPointer(w) ==
    /\ req[w].at = "point"
    /\ GoTo(w, "chain")
    /\ UNCHANGED <<table, audit, pointer, outcomes, ballots>>
PointToReviewer(w) ==
    /\ req[w].at = "point"
    /\ pointer' = [pointer EXCEPT ![req[w].review] = req[w].by]
    /\ GoTo(w, "chain")
    /\ UNCHANGED <<table, audit, outcomes, ballots>>
SetPointer(w) ==
    /\ req[w].at = "point"
    /\ pointer' = [pointer EXCEPT ![req[w].review] = req[w].item.status]
    /\ GoTo(w, "chain")
    /\ UNCHANGED <<table, audit, outcomes, ballots>>

\* append reads the tail before it inserts the receipt, or the verdict.
ReadChain(w) ==
    /\ req[w].at = "chain"
    /\ ReadLast(w, [req[w] EXCEPT !.at = IF req[w].item.status = "pending"
                                         THEN "insertReceipt" ELSE "insertHuman"])
    /\ UNCHANGED <<table, audit, pointer, outcomes, ballots>>

InsertReceipt(w) ==
    /\ req[w].at = "insertReceipt"
    /\ Insert(w, "receipt", "partial", "idle")

InsertHuman(w) ==
    /\ req[w].at = "insertHuman"
    /\ Insert(w, "human", req[w].item.status, "outcome")

\* The endpoint hands the verdict to the learning loop.
RecordOutcome(w) ==
    /\ req[w].at = "outcome"
    /\ outcomes' = Append(outcomes, [review |-> req[w].review, approved |-> req[w].approve])
    /\ GoTo(w, "idle")
    /\ UNCHANGED <<table, audit, pointer, ballots>>

\* The process dies and is started again, or a statement raises (a locked database, a
\* lost connection) and the request ends there; what it had not written is lost.
Crash(w) ==
    /\ Crashes
    /\ req[w].at # "idle"
    /\ GoTo(w, "idle")
    /\ UNCHANGED <<table, audit, pointer, outcomes, ballots>>

Step(w) ==
    \/ InsertOrigin(w)
    \/ CreateReview(w)
    \/ UpdatePartial(w)
    \/ UpdateResolved(w)
    \/ SetPointer(w)
    \/ ReadChain(w)
    \/ InsertReceipt(w)
    \/ InsertHuman(w)
    \/ RecordOutcome(w)

Next ==
    \E w \in Workers :
        \/ \E r \in Reviews : Evaluate(w, r)
        \/ \E b \in Ballot : ReadAndApply(w, b)
        \/ Step(w)
        \/ Crash(w)

Spec == Init /\ [][Next]_vars
----------------------------------------------------------------------------
TypeOK ==
    /\ table \in [Reviews -> Row]
    /\ audit \in Seq(Entry)
    /\ pointer \in [Reviews -> {"pending", "approved", "rejected"}]
    /\ outcomes \in Seq([review : Reviews, approved : BOOLEAN])
    /\ ballots \subseteq Ballot
    /\ req \in [Workers -> Request]

Resolved(r) == table[r].status \in {"approved", "rejected"}

(* An approved review carries as many approvals as it needs, each by another *)
(* human and each really voted: no interleaving of workers, stale copy or    *)
(* crash lets one person stuff the ballot (apply_review_decision).           *)
TwoPersonRule ==
    \A r \in Reviews : table[r].status = "approved" =>
        LET approvals == table[r].approvals
        IN  /\ Len(approvals) >= table[r].required
            /\ \A i, j \in 1..Len(approvals) : approvals[i] = approvals[j] => i = j
            /\ \A i \in 1..Len(approvals) :
                  [review |-> r, reviewer |-> approvals[i], approve |-> TRUE] \in ballots

(* A verdict is final: once a review is resolved no statement of any worker  *)
(* changes its row again (the conditional UPDATE has exactly one winner).    *)
VerdictIsFinal == [][\A r \in Reviews : Resolved(r) => table'[r] = table[r]]_vars

(* A review has at most one verdict in the hash chain, it is the verdict of  *)
(* its row, and the origin record already points to it; it never points to a *)
(* verdict the review does not have (decide's order).                        *)
OneVerdictRecord ==
    \A r \in Reviews :
        /\ pointer[r] # "pending" => pointer[r] = table[r].status
        /\ \A i, j \in Entries("human", r) : i = j
        /\ \A i \in Entries("human", r) : audit[i].verdict = pointer[r] /\ pointer[r] # "pending"

(* The learning loop hears of a review at most once, only after its verdict  *)
(* is chained, and hears that verdict (decide_review after decide).          *)
OutcomesAreAudited ==
    \A k \in DOMAIN outcomes :
        /\ \E i \in Entries("human", outcomes[k].review) :
              outcomes[k].approved <=> audit[i].verdict = "approved"
        /\ \A l \in DOMAIN outcomes : outcomes[l].review = outcomes[k].review => l = k

(* A review in the queue has exactly one origin record, and whatever else    *)
(* the chain says of it stands after that record (evaluate's order).         *)
QueueIsAudited ==
    \A r \in Reviews :
        /\ table[r].status # "none" => Entries("origin", r) # {}
        /\ \A i, j \in Entries("origin", r) : i = j
        /\ \A i \in Entries("receipt", r) \cup Entries("human", r) :
              \E j \in Entries("origin", r) : j < i

(* The queue implements its contract: hide rows, records and workers.        *)
Contract == INSTANCE ReviewContract WITH
    needed <- [r \in Reviews |-> table[r].required],
    verdict <- [r \in Reviews |-> table[r].status]
ImplementsContract == Contract!CSpec

Serving(r) == \E w \in Workers : req[w].review = r

(* Claimed, and not true: once nobody is serving a resolved review, its      *)
(* verdict is in the hash chain.                                             *)
VerdictIsChained ==
    \A r \in Reviews : Resolved(r) /\ ~Serving(r) => Entries("human", r) # {}
=============================================================================
