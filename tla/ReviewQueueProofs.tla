------------------------- MODULE ReviewQueueProofs -------------------------
(***************************************************************************)
(* Theorems about ReviewQueue, for any sets of workers, reviews and        *)
(* humans, with and without crashes.                                       *)
(***************************************************************************)
EXTENDS ReviewQueue, TLAPS

(* The empty row is a row and the idle request a request.                   *)
LEMMA IdleType == NoRow \in Row /\ Idle \in Request
<1>1. NoRow \in Row
  BY DEF NoRow, Row
<1> QED BY <1>1 DEF Idle, Request

(* What GoTo leaves in req: still a function into requests.                 *)
LEMMA GoToType ==
    ASSUME NEW w \in Workers, NEW statement \in
             {"idle", "insertOrigin", "create", "update", "point", "chain",
              "insertReceipt", "insertHuman", "outcome"},
           req \in [Workers -> Request], GoTo(w, statement)
    PROVE  req' \in [Workers -> Request]
<1>1. [req[w] EXCEPT !.at = statement] \in Request
  BY DEF Request
<1> QED BY <1>1, IdleType DEF GoTo

(* A decision applied to a row gives a row again.                           *)
LEMMA AppliedType ==
    ASSUME NEW row \in Row, NEW b \in Ballot
    PROVE  Applied(row, b) \in Row
<1> DEFINE approvals == Append(row.approvals, b.reviewer)
<1>1. approvals \in Seq(Reviewers)
  BY DEF Row, Ballot
<1>2. CASE ~b.approve
  BY <1>2 DEF Applied, Row
<1>3. CASE b.approve
  <2>1. Applied(row, b) = [status |-> IF Enough(Len(approvals), row.required)
                                      THEN "approved" ELSE "pending",
                           approvals |-> approvals, required |-> row.required]
    BY <1>3 DEF Applied, Row
  <2> HIDE DEF approvals
  <2> QED BY <2>1, <1>1 DEF Row
<1> QED BY <1>2, <1>3 DEF Ballot

(* An INSERT keeps the audit table a table and req a request.               *)
LEMMA InsertType ==
    ASSUME TypeOK, NEW w \in Workers, req[w].review \in Reviews,
           NEW kind \in {"origin", "receipt", "human"},
           NEW STATE verdict, verdict \in {"pending", "partial", "approved", "rejected"},
           NEW next \in {"idle", "create", "outcome"},
           Insert(w, kind, verdict, next)
    PROVE  TypeOK'
<1>1. req' \in [Workers -> Request]
  <2>1. AfterInsert(w, next) \in {"idle", "create", "outcome"}
    BY DEF AfterInsert
  <2> QED BY <2>1, GoToType DEF Insert, TypeOK
<1>2. audit' \in Seq(Entry)
  <2>1. [kind |-> kind, review |-> req[w].review, verdict |-> verdict] \in Entry
    BY DEF Entry
  <2> QED BY <2>1 DEF Insert, TypeOK
<1> QED BY <1>1, <1>2 DEF Insert, TypeOK
----------------------------------------------------------------------------
(* The invariant: what a worker at a given statement knows.                 *)

Deciding == {"update", "point", "chain", "insertReceipt", "insertHuman", "outcome"}

\* A worker that serves a request serves a review, and a decision is someone's.
Serves(w) ==
    /\ req[w].at # "idle" => req[w].review \in Reviews
    /\ req[w].at \in Deciding => req[w].by \in Reviewers /\ req[w].item.status # "none"
    /\ req[w].at \in {"point", "insertHuman"} => req[w].item.status # "pending"

WellTyped == TypeOK /\ \A w \in Workers : Serves(w)

(* Both conjuncts together are inductive: neither is without the other.     *)
LEMMA WellTypedInit == Init => WellTyped
<1> SUFFICES ASSUME Init PROVE WellTyped
  OBVIOUS
<1>1. TypeOK
  BY IdleType DEF Init, TypeOK, NoRow, Ballot
<1>2. ASSUME NEW w \in Workers PROVE Serves(w)
  BY DEF Init, Serves, Idle, Deciding
<1> QED BY <1>1, <1>2 DEF WellTyped

(* What a worker knows is its own: it survives every step of the others.    *)
LEMMA ServesFrame ==
    ASSUME WellTyped, NEW w \in Workers, NEW STATE request, req' = [req EXCEPT ![w] = request],
           NEW v \in Workers, v # w
    PROVE  Serves(v)'
BY DEF WellTyped, TypeOK, Serves

(* A request that moves on to a statement it is fit for.                    *)
LEMMA ServesGoTo ==
    ASSUME WellTyped, NEW w \in Workers, NEW statement, GoTo(w, statement),
           \/ statement \in {"idle", "create"}
           \/ statement \in {"chain", "outcome"} /\ req[w].at \in Deciding
           \/ statement = "point" /\ req[w].at \in Deciding /\ req[w].item.status # "pending",
           req[w].at # "idle"
    PROVE  \A v \in Workers : Serves(v)'
<1>1. ASSUME NEW v \in Workers, v # w PROVE Serves(v)'
  BY <1>1, ServesFrame DEF GoTo
<1>2. CASE statement = "idle"
  <2>1. req'[w] = Idle
    BY <1>2 DEF GoTo, WellTyped, TypeOK
  <2>2. Serves(w)'
    BY <2>1 DEF Serves, Idle, Deciding
  <2> QED BY <2>2, <1>1
<1>3. CASE statement # "idle"
  <2>1. req'[w] = [req[w] EXCEPT !.at = statement] /\ req[w] \in Request
    BY <1>3 DEF GoTo, WellTyped, TypeOK
  <2>2. /\ req'[w].at = statement /\ req'[w].review = req[w].review
        /\ req'[w].by = req[w].by /\ req'[w].item = req[w].item
    BY <2>1 DEF Request
  <2>3. Serves(w)'
    BY <2>2, <1>3 DEF Serves, Deciding, WellTyped
  <2> QED BY <2>3, <1>1
<1> QED BY <1>2, <1>3

(* A request that starts, or goes on to insert the record it has read for.  *)
LEMMA ServesReadLast ==
    ASSUME WellTyped, NEW w \in Workers, NEW STATE request, request \in Request, ReadLast(w, request),
           request.at \in {"insertOrigin", "insertReceipt", "insertHuman"},
           request.review \in Reviews,
           request.at \in Deciding => request.by \in Reviewers /\ request.item.status # "none",
           request.at = "insertHuman" => request.item.status # "pending"
    PROVE  (\A v \in Workers : Serves(v)') /\ req' \in [Workers -> Request]
<1> DEFINE new == [request EXCEPT !.seen = Len(audit)]
<1>1. new \in Request /\ new.at = request.at /\ new.review = request.review
      /\ new.by = request.by /\ new.item = request.item
  <2>1. Len(audit) \in Nat
    BY DEF WellTyped, TypeOK
  <2> QED BY <2>1 DEF Request
<1>2. req' = [req EXCEPT ![w] = new]
  BY DEF ReadLast
<1> HIDE DEF new
<1>3. req'[w] = new /\ req' \in [Workers -> Request]
  BY <1>1, <1>2 DEF WellTyped, TypeOK
<1>4. Serves(w)'
  BY <1>1, <1>3 DEF Serves
<1> QED BY <1>2, <1>3, <1>4, ServesFrame

(* An INSERT, by a worker that has read the tail of the chain.              *)
LEMMA WellTypedInsert ==
    ASSUME WellTyped, NEW w \in Workers, req[w].at # "idle",
           NEW kind \in {"origin", "receipt", "human"},
           NEW STATE verdict, verdict \in {"pending", "partial", "approved", "rejected"},
           NEW next \in {"idle", "create", "outcome"},
           next = "outcome" => req[w].at \in Deciding,
           Insert(w, kind, verdict, next)
    PROVE  WellTyped'
<1>1. TypeOK'
  BY InsertType DEF WellTyped, Serves
<1>2. AfterInsert(w, next) \in {"idle", next}
  BY DEF AfterInsert
<1>3. \A v \in Workers : Serves(v)'
  BY <1>2, ServesGoTo DEF Insert
<1> QED BY <1>1, <1>3 DEF WellTyped

(* Every statement of every worker, and a crash, keeps the state well typed.*)
LEMMA WellTypedStep == WellTyped /\ [Next]_vars => WellTyped'
<1> SUFFICES ASSUME WellTyped, [Next]_vars PROVE WellTyped'
  OBVIOUS
<1>1. ASSUME NEW w \in Workers, NEW r \in Reviews, Evaluate(w, r) PROVE WellTyped'
  <2> DEFINE request == [Idle EXCEPT !.at = "insertOrigin", !.review = r]
  <2>1. request \in Request /\ request.at = "insertOrigin" /\ request.review = r
    BY IdleType DEF Request
  <2>2. ReadLast(w, request)
    BY <1>1 DEF Evaluate
  <2> HIDE DEF request
  <2>3. (\A v \in Workers : Serves(v)') /\ req' \in [Workers -> Request]
    BY <2>1, <2>2, ServesReadLast DEF Deciding
  <2> QED BY <1>1, <2>3 DEF Evaluate, WellTyped, TypeOK
<1>2. ASSUME NEW w \in Workers, NEW b \in Ballot, ReadAndApply(w, b) PROVE WellTyped'
  <2> DEFINE request == [at |-> "update", review |-> b.review, by |-> b.reviewer,
                         approve |-> b.approve, seen |-> 0,
                         item |-> Applied(table[b.review], b)]
  <2>1. b.review \in Reviews /\ b.reviewer \in Reviewers /\ b.approve \in BOOLEAN
    BY DEF Ballot
  <2>2. Applied(table[b.review], b) \in Row
    BY <2>1, AppliedType DEF WellTyped, TypeOK
  <2>3. request \in Request
    BY <2>1, <2>2 DEF Request
  <2>4. Applied(table[b.review], b).status # "none"
    <3>1. table[b.review] \in Row
      BY <2>1 DEF WellTyped, TypeOK
    <3> QED BY <3>1, <2>1 DEF Applied, Row
  <2>5. req' = [req EXCEPT ![w] = request]
    BY <1>2 DEF ReadAndApply
  <2>6. Serves(w)'
    BY <2>1, <2>4, <2>5 DEF Serves, WellTyped, TypeOK
  <2>7. \A v \in Workers : Serves(v)'
    BY <2>5, <2>6, ServesFrame
  <2>8. req' \in [Workers -> Request]
    BY <2>3, <2>5 DEF WellTyped, TypeOK
  <2> QED BY <1>2, <2>7, <2>8 DEF ReadAndApply, WellTyped, TypeOK
<1>3. ASSUME NEW w \in Workers, InsertOrigin(w) PROVE WellTyped'
  BY <1>3, WellTypedInsert DEF InsertOrigin
<1>4. ASSUME NEW w \in Workers, CreateReview(w) PROVE WellTyped'
  <2>1. table' \in [Reviews -> Row]
    <3>1. ASSUME NEW above \in BOOLEAN
          PROVE  [status |-> "pending", approvals |-> <<>>,
                  required |-> RequiredApprovals(above)] \in Row
      BY DEF Row, RequiredApprovals
    <3> QED BY <1>4, <3>1 DEF CreateReview, WellTyped, TypeOK
  <2>2. (\A v \in Workers : Serves(v)') /\ req' \in [Workers -> Request]
    BY <1>4, ServesGoTo, GoToType DEF CreateReview, WellTyped, TypeOK
  <2> QED BY <1>4, <2>1, <2>2 DEF CreateReview, WellTyped, TypeOK
<1>5. ASSUME NEW w \in Workers, UpdatePartial(w) PROVE WellTyped'
  <2>1. table' \in [Reviews -> Row] /\ ballots' \subseteq Ballot
    <3>1. Cast(w) \in Ballot
      BY <1>5 DEF UpdatePartial, Cast, Ballot, WellTyped, TypeOK, Request, Serves, Deciding
    <3>2. req[w].item \in Row
      BY DEF WellTyped, TypeOK, Request
    <3> QED BY <1>5, <3>1, <3>2 DEF UpdatePartial, WellTyped, TypeOK
  <2>2. (\A v \in Workers : Serves(v)') /\ req' \in [Workers -> Request]
    BY <1>5, ServesGoTo, GoToType DEF UpdatePartial, WellTyped, TypeOK, Deciding
  <2> QED BY <1>5, <2>1, <2>2 DEF UpdatePartial, WellTyped, TypeOK
<1>6. ASSUME NEW w \in Workers, UpdateResolved(w) PROVE WellTyped'
  <2>1. table' \in [Reviews -> Row] /\ ballots' \subseteq Ballot
    <3>1. Cast(w) \in Ballot
      BY <1>6 DEF UpdateResolved, Cast, Ballot, WellTyped, TypeOK, Request, Serves, Deciding
    <3>2. req[w].item \in Row
      BY DEF WellTyped, TypeOK, Request
    <3> QED BY <1>6, <3>1, <3>2 DEF UpdateResolved, WellTyped, TypeOK
  <2>2. (\A v \in Workers : Serves(v)') /\ req' \in [Workers -> Request]
    BY <1>6, ServesGoTo, GoToType DEF UpdateResolved, WellTyped, TypeOK, Deciding
  <2> QED BY <1>6, <2>1, <2>2 DEF UpdateResolved, WellTyped, TypeOK
<1>7. ASSUME NEW w \in Workers, SetPointer(w) PROVE WellTyped'
  <2>1. pointer' \in [Reviews -> {"pending", "approved", "rejected"}]
    BY <1>7 DEF SetPointer, WellTyped, TypeOK, Request, Row, Serves, Deciding
  <2>2. (\A v \in Workers : Serves(v)') /\ req' \in [Workers -> Request]
    BY <1>7, ServesGoTo, GoToType DEF SetPointer, WellTyped, TypeOK, Deciding
  <2> QED BY <1>7, <2>1, <2>2 DEF SetPointer, WellTyped, TypeOK
<1>8. ASSUME NEW w \in Workers, ReadChain(w) PROVE WellTyped'
  <2> DEFINE request == [req[w] EXCEPT !.at = IF req[w].item.status = "pending"
                                              THEN "insertReceipt" ELSE "insertHuman"]
  <2>1. /\ req[w].at = "chain" /\ ReadLast(w, request)
        /\ req[w] \in Request
    BY <1>8 DEF ReadChain, WellTyped, TypeOK
  <2>2. /\ request \in Request
        /\ request.at = IF req[w].item.status = "pending" THEN "insertReceipt" ELSE "insertHuman"
        /\ request.review = req[w].review /\ request.by = req[w].by
        /\ request.item = req[w].item
    BY <2>1 DEF Request
  <2> HIDE DEF request
  <2>3. req[w].review \in Reviews /\ req[w].by \in Reviewers /\ req[w].item.status # "none"
    BY <2>1 DEF WellTyped, Serves, Deciding
  <2>4. (\A v \in Workers : Serves(v)') /\ req' \in [Workers -> Request]
    BY <2>1, <2>2, <2>3, ServesReadLast
  <2> QED BY <1>8, <2>4 DEF ReadChain, WellTyped, TypeOK
<1>9. ASSUME NEW w \in Workers, InsertReceipt(w) PROVE WellTyped'
  BY <1>9, WellTypedInsert DEF InsertReceipt
<1>10. ASSUME NEW w \in Workers, InsertHuman(w) PROVE WellTyped'
  <2>1. req[w].item.status \in {"approved", "rejected"}
    BY <1>10 DEF InsertHuman, WellTyped, TypeOK, Request, Row, Serves, Deciding
  <2> QED BY <1>10, <2>1, WellTypedInsert DEF InsertHuman, Deciding
<1>11. ASSUME NEW w \in Workers, RecordOutcome(w) PROVE WellTyped'
  <2>1. outcomes' \in Seq([review : Reviews, approved : BOOLEAN])
    <3>1. [review |-> req[w].review, approved |-> req[w].approve]
             \in [review : Reviews, approved : BOOLEAN]
      BY <1>11 DEF RecordOutcome, WellTyped, TypeOK, Request, Serves
    <3> QED BY <1>11, <3>1 DEF RecordOutcome, WellTyped, TypeOK
  <2>2. (\A v \in Workers : Serves(v)') /\ req' \in [Workers -> Request]
    BY <1>11, ServesGoTo, GoToType DEF RecordOutcome, WellTyped, TypeOK
  <2> QED BY <1>11, <2>1, <2>2 DEF RecordOutcome, WellTyped, TypeOK
<1>12. ASSUME NEW w \in Workers, Crash(w) PROVE WellTyped'
  <2>1. (\A v \in Workers : Serves(v)') /\ req' \in [Workers -> Request]
    BY <1>12, ServesGoTo, GoToType DEF Crash, WellTyped, TypeOK
  <2> QED BY <1>12, <2>1 DEF Crash, WellTyped, TypeOK
<1>13. CASE UNCHANGED vars
  BY <1>13 DEF vars, WellTyped, TypeOK, Serves
<1> QED
  BY <1>1, <1>2, <1>3, <1>4, <1>5, <1>6, <1>7, <1>8, <1>9, <1>10, <1>11, <1>12, <1>13
  DEF Next, Step

(* Every reachable state of any instance is well typed.                     *)
THEOREM TypeCorrect == Spec => []TypeOK
<1>1. WellTyped => TypeOK
  BY DEF WellTyped
<1> QED BY <1>1, WellTypedInit, WellTypedStep, PTL DEF Spec
----------------------------------------------------------------------------
(* The two-person rule.                                                     *)

\* The approvals a row of review r counts are distinct humans who voted so, and
\* they are enough if the row says approved.
Counted(row, r, votes) ==
    /\ \A i, j \in 1..Len(row.approvals) : row.approvals[i] = row.approvals[j] => i = j
    /\ \A i \in 1..Len(row.approvals) :
          [review |-> r, reviewer |-> row.approvals[i], approve |-> TRUE] \in votes
    /\ row.status = "approved" => Len(row.approvals) >= row.required

\* That of every row, and of every copy of a row on its way to an UPDATE, as
\* soon as the decision on its way with it has been cast.
BallotsCount ==
    /\ \A r \in Reviews : Counted(table[r], r, ballots)
    /\ \A w \in Workers : req[w].at = "update" =>
          Counted(req[w].item, req[w].review, ballots \cup {Cast(w)})

(* More votes never hurt a row.                                             *)
LEMMA CountedMonotone ==
    ASSUME NEW row, NEW r, NEW votes, NEW more, votes \subseteq more, Counted(row, r, votes)
    PROVE  Counted(row, r, more)
BY DEF Counted

(* A decision applied to a row that counts, by a human it does not list.    *)
LEMMA AppliedCounts ==
    ASSUME NEW row \in Row, row.status = "pending", NEW b \in Ballot, NEW votes,
           Counted(row, b.review, votes), ~HasDecided(row, b.reviewer)
    PROVE  Counted(Applied(row, b), b.review, votes \cup {b})
<1> DEFINE approvals == Append(row.approvals, b.reviewer)
<1>1. row.approvals \in Seq(Reviewers) /\ b.reviewer \in Reviewers /\ b.approve \in BOOLEAN
  BY DEF Row, Ballot
<1>2. CASE ~b.approve
  <2>1. /\ Applied(row, b).approvals = row.approvals
        /\ Applied(row, b).status = "rejected"
    BY <1>2 DEF Applied, Row
  <2> QED BY <2>1 DEF Counted
<1>3. CASE b.approve
  <2>1. /\ Applied(row, b).approvals = approvals
        /\ Applied(row, b).required = row.required
        /\ Applied(row, b).status = IF Len(approvals) >= row.required
                                    THEN "approved" ELSE "pending"
    BY <1>3 DEF Applied, Row, Enough
  <2>2. /\ Len(approvals) = Len(row.approvals) + 1
        /\ Len(row.approvals) \in Nat
        /\ \A i \in 1..Len(row.approvals) : approvals[i] = row.approvals[i]
        /\ approvals[Len(row.approvals) + 1] = b.reviewer
    BY <1>1
  <2> HIDE DEF approvals
  <2>3. b = [review |-> b.review, reviewer |-> b.reviewer, approve |-> TRUE]
    BY <1>3 DEF Ballot
  <2>4. ASSUME NEW i \in 1..Len(approvals), NEW j \in 1..Len(approvals),
               approvals[i] = approvals[j]
        PROVE  i = j
    BY <2>2, <2>4 DEF Counted, HasDecided
  <2>5. ASSUME NEW i \in 1..Len(approvals)
        PROVE  [review |-> b.review, reviewer |-> approvals[i], approve |-> TRUE]
                  \in votes \cup {b}
    <3>1. CASE i = Len(approvals)
      BY <2>2, <2>3, <3>1
    <3>2. CASE i # Len(approvals)
      <4>1. i \in 1..Len(row.approvals) /\ approvals[i] = row.approvals[i]
        BY <2>2, <3>2
      <4> QED BY <4>1 DEF Counted
    <3> QED BY <3>1, <3>2
  <2> QED BY <2>1, <2>4, <2>5 DEF Counted
<1> QED BY <1>1, <1>2, <1>3

(* There are no rows and no ballots to begin with.                          *)
LEMMA BallotsCountInit == Init => BallotsCount
BY DEF Init, BallotsCount, Counted, NoRow, Idle

(* A step that touches no row and starts no UPDATE.                         *)
LEMMA BallotsCountFrame ==
    ASSUME WellTyped, BallotsCount, NEW w \in Workers, NEW STATE request,
           req' = [req EXCEPT ![w] = request], request.at # "update",
           UNCHANGED <<table, ballots>>
    PROVE  BallotsCount'
<1>1. ASSUME NEW v \in Workers, req'[v].at = "update"
      PROVE  Counted(req'[v].item, req'[v].review, ballots' \cup {Cast(v)'})
  <2>1. v # w /\ req'[v] = req[v] /\ Cast(v)' = Cast(v)
    BY <1>1 DEF WellTyped, TypeOK, Cast
  <2> QED BY <1>1, <2>1 DEF BallotsCount
<1> QED BY <1>1 DEF BallotsCount

(* A request that moves on to a statement other than an UPDATE.             *)
LEMMA BallotsCountGoTo ==
    ASSUME WellTyped, BallotsCount, NEW w \in Workers, NEW statement, statement # "update",
           GoTo(w, statement), UNCHANGED <<table, ballots>>
    PROVE  BallotsCount'
<1> DEFINE request == IF statement = "idle" THEN Idle ELSE [req[w] EXCEPT !.at = statement]
<1>1. request.at # "update"
  BY DEF Idle, WellTyped, TypeOK, Request
<1>2. req' = [req EXCEPT ![w] = request]
  BY DEF GoTo, WellTyped, TypeOK
<1> QED BY <1>1, <1>2, BallotsCountFrame

(* An UPDATE that is acknowledged.                                          *)
LEMMA BallotsCountUpdate ==
    ASSUME WellTyped, BallotsCount, NEW w \in Workers, req[w].at = "update",
           NEW statement \in {"chain", "point"}, GoTo(w, statement),
           ballots' = ballots \cup {Cast(w)},
           \/ table' = [table EXCEPT ![req[w].review] = req[w].item]
           \/ table' = table
    PROVE  BallotsCount'
<1>1. req[w].review \in Reviews
  BY DEF WellTyped, Serves
<1>2. Counted(req[w].item, req[w].review, ballots')
  BY DEF BallotsCount
<1>3. ASSUME NEW r \in Reviews PROVE Counted(table'[r], r, ballots')
  <2>1. Counted(table[r], r, ballots')
    BY CountedMonotone DEF BallotsCount
  <2>2. table'[r] = table[r] \/ (r = req[w].review /\ table'[r] = req[w].item)
    BY <1>1 DEF WellTyped, TypeOK
  <2> QED BY <1>2, <2>1, <2>2
<1>4. ASSUME NEW v \in Workers, req'[v].at = "update"
      PROVE  Counted(req'[v].item, req'[v].review, ballots' \cup {Cast(v)'})
  <2>1. v # w /\ req'[v] = req[v]
    BY <1>4 DEF WellTyped, TypeOK, GoTo, Request
  <2>2. Cast(v)' = Cast(v)
    BY <2>1 DEF Cast
  <2>3. Counted(req[v].item, req[v].review, ballots \cup {Cast(v)})
    BY <1>4, <2>1 DEF BallotsCount
  <2> QED BY <2>1, <2>2, <2>3, CountedMonotone
<1> QED BY <1>3, <1>4 DEF BallotsCount

(* Every approval in a row, or in a copy of one, is that of another human who*)
(* voted: ReadAndApply adds one, the UPDATEs write it, the rest touch neither.*)
LEMMA BallotsCountStep == WellTyped /\ BallotsCount /\ [Next]_vars => BallotsCount'
<1> SUFFICES ASSUME WellTyped, BallotsCount, [Next]_vars PROVE BallotsCount'
  OBVIOUS
<1>1. ASSUME NEW w \in Workers, NEW r \in Reviews, Evaluate(w, r) PROVE BallotsCount'
  <2>1. PICK request : request.at = "insertOrigin" /\ req' = [req EXCEPT ![w] = request]
    <3> DEFINE request == [[Idle EXCEPT !.at = "insertOrigin", !.review = r]
                              EXCEPT !.seen = Len(audit)]
    <3>1. request.at = "insertOrigin" /\ req' = [req EXCEPT ![w] = request]
      BY <1>1 DEF Evaluate, ReadLast, Idle
    <3> QED BY <3>1
  <2> QED BY <1>1, <2>1, BallotsCountFrame DEF Evaluate
<1>2. ASSUME NEW w \in Workers, NEW b \in Ballot, ReadAndApply(w, b) PROVE BallotsCount'
  <2>1. b.review \in Reviews /\ b = [review |-> b.review, reviewer |-> b.reviewer,
                                     approve |-> b.approve]
    BY DEF Ballot
  <2>2. Counted(Applied(table[b.review], b), b.review, ballots \cup {b})
    BY <1>2, <2>1, AppliedCounts DEF ReadAndApply, BallotsCount, WellTyped, TypeOK
  <2>3. /\ req'[w].item = Applied(table[b.review], b) /\ req'[w].review = b.review
        /\ req'[w].by = b.reviewer /\ req'[w].approve = b.approve
        /\ \A v \in Workers : v # w => req'[v] = req[v]
    BY <1>2 DEF ReadAndApply, WellTyped, TypeOK
  <2>4. Cast(w)' = b /\ \A v \in Workers : v # w => Cast(v)' = Cast(v)
    BY <2>1, <2>3 DEF Cast
  <2> QED BY <1>2, <2>2, <2>3, <2>4 DEF ReadAndApply, BallotsCount
<1>3. ASSUME NEW w \in Workers, InsertOrigin(w) PROVE BallotsCount'
  BY <1>3, BallotsCountGoTo DEF InsertOrigin, Insert, AfterInsert
<1>4. ASSUME NEW w \in Workers, CreateReview(w) PROVE BallotsCount'
  <2>1. PICK above \in BOOLEAN : table' = [table EXCEPT ![req[w].review] =
            [status |-> "pending", approvals |-> <<>>, required |-> RequiredApprovals(above)]]
    BY <1>4 DEF CreateReview
  <2>2. ASSUME NEW r \in Reviews PROVE Counted(table'[r], r, ballots')
    BY <1>4, <2>1 DEF CreateReview, Counted, BallotsCount, WellTyped, TypeOK
  <2>3. ASSUME NEW v \in Workers, req'[v].at = "update"
        PROVE  req'[v] = req[v] /\ Cast(v)' = Cast(v)
    BY <1>4, <2>3 DEF CreateReview, GoTo, Idle, WellTyped, TypeOK, Cast
  <2> QED BY <1>4, <2>2, <2>3 DEF CreateReview, BallotsCount
<1>5. ASSUME NEW w \in Workers, UpdatePartial(w) PROVE BallotsCount'
  BY <1>5, BallotsCountUpdate DEF UpdatePartial
<1>6. ASSUME NEW w \in Workers, UpdateResolved(w) PROVE BallotsCount'
  <2>1. CASE StillPending(req[w].review)
    BY <1>6, <2>1, BallotsCountUpdate DEF UpdateResolved
  <2>2. CASE ~StillPending(req[w].review)
    BY <1>6, <2>2, BallotsCountGoTo DEF UpdateResolved
  <2> QED BY <2>1, <2>2
<1>7. ASSUME NEW w \in Workers, SetPointer(w) PROVE BallotsCount'
  BY <1>7, BallotsCountGoTo DEF SetPointer
<1>8. ASSUME NEW w \in Workers, ReadChain(w) PROVE BallotsCount'
  <2>1. PICK request : request.at # "update" /\ req' = [req EXCEPT ![w] = request]
    <3> DEFINE request == [[req[w] EXCEPT !.at = IF req[w].item.status = "pending"
                                                 THEN "insertReceipt" ELSE "insertHuman"]
                              EXCEPT !.seen = Len(audit)]
    <3>1. request.at # "update" /\ req' = [req EXCEPT ![w] = request]
      BY <1>8 DEF ReadChain, ReadLast, WellTyped, TypeOK, Request
    <3> QED BY <3>1
  <2> QED BY <1>8, <2>1, BallotsCountFrame DEF ReadChain
<1>9. ASSUME NEW w \in Workers, InsertReceipt(w) PROVE BallotsCount'
  BY <1>9, BallotsCountGoTo DEF InsertReceipt, Insert, AfterInsert
<1>10. ASSUME NEW w \in Workers, InsertHuman(w) PROVE BallotsCount'
  BY <1>10, BallotsCountGoTo DEF InsertHuman, Insert, AfterInsert
<1>11. ASSUME NEW w \in Workers, RecordOutcome(w) PROVE BallotsCount'
  BY <1>11, BallotsCountGoTo DEF RecordOutcome
<1>12. ASSUME NEW w \in Workers, Crash(w) PROVE BallotsCount'
  BY <1>12, BallotsCountGoTo DEF Crash
<1>13. CASE UNCHANGED vars
  BY <1>13 DEF vars, BallotsCount, Cast
<1> QED
  BY <1>1, <1>2, <1>3, <1>4, <1>5, <1>6, <1>7, <1>8, <1>9, <1>10, <1>11, <1>12, <1>13
  DEF Next, Step

(* No interleaving, stale copy or crash approves a review without as many   *)
(* distinct humans who voted for it as it needs.                            *)
THEOREM TwoPersonRuleHolds == Spec => []TwoPersonRule
<1>1. BallotsCount => TwoPersonRule
  BY DEF BallotsCount, Counted, TwoPersonRule
<1> QED
  BY <1>1, WellTypedInit, WellTypedStep, BallotsCountInit, BallotsCountStep, PTL DEF Spec
----------------------------------------------------------------------------
(* A verdict is final.                                                      *)

Evaluating == {"insertOrigin", "create"}

\* A review is evaluated by one worker, once: its row comes after its record.
OriginFirst ==
    /\ \A r \in Reviews : Entries("origin", r) = {} => table[r].status = "none"
    /\ \A w \in Workers :
          /\ req[w].at = "insertOrigin" => Entries("origin", req[w].review) = {}
          /\ req[w].at = "create" => /\ Entries("origin", req[w].review) # {}
                                     /\ table[req[w].review].status = "none"
          /\ req[w].at \in Evaluating =>
                \A v \in Workers : req[v].at \in Evaluating /\ req[v].review = req[w].review
                                      => v = w

(* What an INSERT adds to the records of a review.                          *)
LEMMA EntriesInsert ==
    ASSUME TypeOK, NEW w \in Workers, NEW kind, NEW STATE verdict, NEW next,
           Insert(w, kind, verdict, next), NEW other, NEW r \in Reviews
    PROVE  /\ Entries(other, r) \subseteq Entries(other, r)'
           /\ kind # other \/ req[w].review # r => Entries(other, r)' = Entries(other, r)
           /\ SeqIsFree(w) /\ kind = other /\ req[w].review = r => Entries(other, r)' # {}
           /\ ~SeqIsFree(w) => Entries(other, r)' = Entries(other, r)
<1> DEFINE entry == [kind |-> kind, review |-> req[w].review, verdict |-> verdict]
<1>1. CASE SeqIsFree(w)
  <2>1. audit' = Append(audit, entry)
    BY <1>1 DEF Insert
  <2>2. /\ Len(audit) \in Nat
        /\ DOMAIN audit = 1..Len(audit) /\ DOMAIN audit' = 1..(Len(audit) + 1)
        /\ \A i \in 1..Len(audit) : audit'[i] = audit[i]
        /\ audit'[Len(audit) + 1] = entry
    BY <2>1 DEF TypeOK
  <2>3. entry.kind = kind /\ entry.review = req[w].review
    OBVIOUS
  <2> HIDE DEF entry
  <2> QED BY <1>1, <2>2, <2>3 DEF Entries
<1>2. CASE ~SeqIsFree(w)
  BY <1>2 DEF Insert, Entries
<1> QED BY <1>1, <1>2

(* A step of one worker that leaves the evaluation phase, or is not in it,  *)
(* and adds no origin record.                                               *)
LEMMA OriginFirstFrame ==
    ASSUME WellTyped, OriginFirst, NEW w \in Workers, NEW STATE request,
           req' = [req EXCEPT ![w] = request], request.at \notin Evaluating,
           \A r \in Reviews : Entries("origin", r)' = Entries("origin", r),
           \/ table' = table
           \/ /\ req[w].at = "update" /\ StillPending(req[w].review)
              /\ table' = [table EXCEPT ![req[w].review] = req[w].item]
           \/ /\ req[w].at = "create"
              /\ \E row \in Row : table' = [table EXCEPT ![req[w].review] = row]
    PROVE  OriginFirst'
<1>1. ASSUME NEW v \in Workers, req'[v].at \in Evaluating
      PROVE  v # w /\ req'[v] = req[v] /\ req[v].review \in Reviews
  BY <1>1 DEF WellTyped, TypeOK, Serves, Evaluating
<1>2. \A r \in Reviews : table'[r] = table[r] \/ r = req[w].review
  BY DEF WellTyped, TypeOK
<1>3. ASSUME NEW r \in Reviews, Entries("origin", r) = {} PROVE table'[r].status = "none"
  <2>1. table[r].status = "none"
    BY <1>3 DEF OriginFirst
  <2>2. req[w].at = "create" => r # req[w].review
    BY <1>3 DEF OriginFirst
  <2> QED BY <2>1, <2>2, <1>2 DEF StillPending
<1>4. ASSUME NEW v \in Workers, req'[v].at = "create"
      PROVE  table'[req'[v].review].status = "none"
  <2>1. /\ v # w /\ req'[v] = req[v] /\ req[v].review \in Reviews
        /\ table[req[v].review].status = "none"
    BY <1>1, <1>4 DEF OriginFirst, Evaluating
  <2>2. req[w].at = "create" => req[v].review # req[w].review
    BY <2>1, <1>4 DEF OriginFirst, Evaluating
  <2> QED BY <2>1, <2>2, <1>2 DEF StillPending
<1> QED BY <1>1, <1>3, <1>4 DEF OriginFirst, Evaluating

(* A request that moves on and writes nothing but its own progress.         *)
LEMMA OriginFirstGoTo ==
    ASSUME WellTyped, OriginFirst, NEW w \in Workers, NEW statement,
           statement \notin Evaluating, GoTo(w, statement),
           \A r \in Reviews : Entries("origin", r)' = Entries("origin", r),
           \/ table' = table
           \/ /\ req[w].at = "update" /\ StillPending(req[w].review)
              /\ table' = [table EXCEPT ![req[w].review] = req[w].item]
           \/ /\ req[w].at = "create"
              /\ \E row \in Row : table' = [table EXCEPT ![req[w].review] = row]
    PROVE  OriginFirst'
<1> DEFINE request == IF statement = "idle" THEN Idle ELSE [req[w] EXCEPT !.at = statement]
<1>1. request.at \notin Evaluating
  BY DEF Idle, WellTyped, TypeOK, Request, Evaluating
<1>2. req' = [req EXCEPT ![w] = request]
  BY DEF GoTo, WellTyped, TypeOK
<1> QED BY <1>1, <1>2, OriginFirstFrame

(* Nothing is under evaluation and the queue is empty to begin with.        *)
LEMMA OriginFirstInit == Init => OriginFirst
BY DEF Init, OriginFirst, NoRow, Idle, Evaluating

(* A review is in the queue only if its origin record is in the chain, and one*)
(* evaluation at most is on its way to create it: no step breaks either.    *)
LEMMA OriginFirstStep == WellTyped /\ OriginFirst /\ [Next]_vars => OriginFirst'
<1> SUFFICES ASSUME WellTyped, OriginFirst, [Next]_vars PROVE OriginFirst'
  OBVIOUS
<1> USE DEF Evaluating
<1>1. ASSUME NEW w \in Workers, NEW r \in Reviews, Evaluate(w, r) PROVE OriginFirst'
  <2>1. /\ req'[w].at = "insertOrigin" /\ req'[w].review = r
        /\ \A v \in Workers : v # w => req'[v] = req[v]
    BY <1>1 DEF Evaluate, ReadLast, Idle, WellTyped, TypeOK
  <2>2. \A k, s : Entries(k, s)' = Entries(k, s)
    BY <1>1 DEF Evaluate, Entries
  <2>3. Entries("origin", r) = {} /\ table' = table
    BY <1>1 DEF Evaluate
  <2>4. \A v \in Workers : req[v].at \in Evaluating => req[v].review # r
    BY <1>1, <2>3 DEF Evaluate, OriginFirst
  <2> QED BY <2>1, <2>2, <2>3, <2>4 DEF OriginFirst
<1>2. ASSUME NEW w \in Workers, NEW b \in Ballot, ReadAndApply(w, b) PROVE OriginFirst'
  <2>1. PICK request : request.at = "update" /\ req' = [req EXCEPT ![w] = request]
    BY <1>2 DEF ReadAndApply
  <2> QED BY <1>2, <2>1, OriginFirstFrame DEF ReadAndApply, Entries
<1>3. ASSUME NEW w \in Workers, InsertOrigin(w) PROVE OriginFirst'
  <2>1. req[w].at = "insertOrigin" /\ Insert(w, "origin", "pending", "create")
        /\ req[w].review \in Reviews /\ table' = table /\ TypeOK
    BY <1>3 DEF InsertOrigin, Insert, WellTyped, Serves
  <2>2. CASE SeqIsFree(w)
    <3>1. /\ req'[w].at = "create" /\ req'[w].review = req[w].review
          /\ \A v \in Workers : v # w => req'[v] = req[v]
      BY <2>1, <2>2 DEF Insert, AfterInsert, GoTo, WellTyped, TypeOK, Request
    <3>2. \A r \in Reviews : r = req[w].review => Entries("origin", r)' # {}
      BY <2>1, <2>2, EntriesInsert
    <3>3. \A r \in Reviews : /\ Entries("origin", r) # {} => Entries("origin", r)' # {}
                             /\ r # req[w].review => Entries("origin", r)' = Entries("origin", r)
      BY <2>1, EntriesInsert
    <3>4. table[req[w].review].status = "none"
      BY <2>1 DEF OriginFirst
    <3>5. ASSUME NEW v \in Workers, v # w, req[v].at \in Evaluating
          PROVE  req[v].review # req[w].review /\ req[v].review \in Reviews
      BY <2>1, <3>5 DEF OriginFirst, WellTyped, Serves
    <3> QED BY <2>1, <3>1, <3>2, <3>3, <3>4, <3>5 DEF OriginFirst
  <2>3. CASE ~SeqIsFree(w)
    <3>1. GoTo(w, "idle") /\ \A r \in Reviews : Entries("origin", r)' = Entries("origin", r)
      BY <2>1, <2>3 DEF Insert, AfterInsert, Entries
    <3> QED BY <2>1, <3>1, OriginFirstGoTo
  <2> QED BY <2>2, <2>3
<1>4. ASSUME NEW w \in Workers, CreateReview(w) PROVE OriginFirst'
  <2>1. \E row \in Row : table' = [table EXCEPT ![req[w].review] = row]
    <3>1. PICK above \in BOOLEAN : table' = [table EXCEPT ![req[w].review] =
             [status |-> "pending", approvals |-> <<>>, required |-> RequiredApprovals(above)]]
      BY <1>4 DEF CreateReview
    <3>2. [status |-> "pending", approvals |-> <<>>, required |-> RequiredApprovals(above)] \in Row
      BY DEF Row, RequiredApprovals
    <3> QED BY <3>1, <3>2
  <2> QED BY <1>4, <2>1, OriginFirstGoTo DEF CreateReview, Entries
<1>5. ASSUME NEW w \in Workers, UpdatePartial(w) PROVE OriginFirst'
  BY <1>5, OriginFirstGoTo DEF UpdatePartial, Entries
<1>6. ASSUME NEW w \in Workers, UpdateResolved(w) PROVE OriginFirst'
  <2>1. CASE StillPending(req[w].review)
    BY <1>6, <2>1, OriginFirstGoTo DEF UpdateResolved, Entries
  <2>2. CASE ~StillPending(req[w].review)
    BY <1>6, <2>2, OriginFirstGoTo DEF UpdateResolved, Entries
  <2> QED BY <2>1, <2>2
<1>7. ASSUME NEW w \in Workers, SetPointer(w) PROVE OriginFirst'
  BY <1>7, OriginFirstGoTo DEF SetPointer, Entries
<1>8. ASSUME NEW w \in Workers, ReadChain(w) PROVE OriginFirst'
  <2>1. PICK request : request.at \notin Evaluating /\ req' = [req EXCEPT ![w] = request]
    <3> DEFINE request == [[req[w] EXCEPT !.at = IF req[w].item.status = "pending"
                                                 THEN "insertReceipt" ELSE "insertHuman"]
                              EXCEPT !.seen = Len(audit)]
    <3>1. request.at \notin Evaluating /\ req' = [req EXCEPT ![w] = request]
      BY <1>8 DEF ReadChain, ReadLast, WellTyped, TypeOK, Request
    <3> QED BY <3>1
  <2> QED BY <1>8, <2>1, OriginFirstFrame DEF ReadChain, Entries
<1>9. ASSUME NEW w \in Workers, InsertReceipt(w) PROVE OriginFirst'
  <2>1. \A r \in Reviews : Entries("origin", r)' = Entries("origin", r)
    BY <1>9, EntriesInsert DEF InsertReceipt, WellTyped
  <2> QED BY <1>9, <2>1, OriginFirstGoTo DEF InsertReceipt, Insert, AfterInsert
<1>10. ASSUME NEW w \in Workers, InsertHuman(w) PROVE OriginFirst'
  <2>1. \A r \in Reviews : Entries("origin", r)' = Entries("origin", r)
    BY <1>10, EntriesInsert DEF InsertHuman, WellTyped
  <2> QED BY <1>10, <2>1, OriginFirstGoTo DEF InsertHuman, Insert, AfterInsert
<1>11. ASSUME NEW w \in Workers, RecordOutcome(w) PROVE OriginFirst'
  BY <1>11, OriginFirstGoTo DEF RecordOutcome, Entries
<1>12. ASSUME NEW w \in Workers, Crash(w) PROVE OriginFirst'
  BY <1>12, OriginFirstGoTo DEF Crash, Entries
<1>13. CASE UNCHANGED vars
  BY <1>13 DEF vars, OriginFirst, Entries
<1> QED
  BY <1>1, <1>2, <1>3, <1>4, <1>5, <1>6, <1>7, <1>8, <1>9, <1>10, <1>11, <1>12, <1>13
  DEF Next, Step

(* Only CREATE and the two UPDATEs write a row, and none a resolved one.    *)
LEMMA ResolvedIsKept ==
    ASSUME WellTyped, OriginFirst, [Next]_vars, NEW r \in Reviews, Resolved(r)
    PROVE  table'[r] = table[r]
<1>1. ASSUME NEW w \in Workers, CreateReview(w) PROVE table'[r] = table[r]
  BY <1>1 DEF CreateReview, OriginFirst, Resolved, WellTyped, TypeOK
<1>2. ASSUME NEW w \in Workers, UpdatePartial(w) \/ UpdateResolved(w)
      PROVE  table'[r] = table[r]
  BY <1>2 DEF UpdatePartial, UpdateResolved, StillPending, Resolved, WellTyped, TypeOK
<1> QED
  BY <1>1, <1>2 DEF Next, Step, vars, Evaluate, ReadAndApply, InsertOrigin, InsertReceipt,
                    InsertHuman, Insert, SetPointer, ReadChain, RecordOutcome, Crash

(* No statement of any worker changes the row of a resolved review.         *)
THEOREM VerdictIsFinalHolds == Spec => VerdictIsFinal
<1>1. WellTyped /\ OriginFirst /\ [Next]_vars
        => [\A r \in Reviews : Resolved(r) => table'[r] = table[r]]_vars
  BY ResolvedIsKept
<1> QED
  BY <1>1, WellTypedInit, WellTypedStep, OriginFirstInit, OriginFirstStep, PTL
  DEF Spec, VerdictIsFinal
----------------------------------------------------------------------------
(* How one worker's request moves.                                          *)

(* An actor moves its own request, and only the statement it is at.         *)
LEMMA GoToMoves ==
    ASSUME WellTyped, NEW w \in Workers, NEW statement, GoTo(w, statement)
    PROVE  /\ \A v \in Workers : v # w => req'[v] = req[v]
           /\ statement = "idle" => req'[w].at = "idle"
           /\ statement # "idle" =>
                /\ req'[w].at = statement /\ req'[w].review = req[w].review
                /\ req'[w].by = req[w].by /\ req'[w].item = req[w].item
                /\ req'[w].approve = req[w].approve
BY DEF GoTo, WellTyped, TypeOK, Request, Idle

(* Reading the tail of the chain, for a receipt or a verdict, moves it too.  *)
LEMMA ReadChainMoves ==
    ASSUME WellTyped, NEW w \in Workers, ReadChain(w)
    PROVE  /\ \A v \in Workers : v # w => req'[v] = req[v]
           /\ req'[w].at = IF req[w].item.status = "pending" THEN "insertReceipt"
                           ELSE "insertHuman"
           /\ req'[w].review = req[w].review /\ req'[w].by = req[w].by
           /\ req'[w].item = req[w].item /\ req'[w].approve = req[w].approve
<1>1. req[w] \in Request /\ Len(audit) \in Nat
  BY DEF WellTyped, TypeOK
<1> QED BY <1>1 DEF ReadChain, ReadLast, WellTyped, TypeOK, Request

\* A request keeps the decision it carries.
Carries(v) ==
    /\ req'[v].review = req[v].review /\ req'[v].by = req[v].by
    /\ req'[v].item = req[v].item /\ req'[v].approve = req[v].approve

(* In any step a worker stays, leaves its decision, starts one or goes on.   *)
LEMMA RequestSteps ==
    ASSUME WellTyped, [Next]_vars, NEW v \in Workers
    PROVE  \/ req'[v] = req[v]
           \/ req'[v].at \notin Deciding
           \/ \E b \in Ballot : ReadAndApply(v, b)
           \/ /\ Carries(v) /\ req[v].at \in Deciding
              /\ req'[v].at = "outcome" => req[v].at = "insertHuman"
<1> USE DEF Deciding
<1>1. ASSUME NEW w \in Workers, NEW r \in Reviews, Evaluate(w, r)
      PROVE  req'[v] = req[v] \/ req'[v].at \notin Deciding
  BY <1>1 DEF Evaluate, ReadLast, Idle, WellTyped, TypeOK
<1>2. ASSUME NEW w \in Workers, NEW b \in Ballot, ReadAndApply(w, b)
      PROVE  req'[v] = req[v] \/ ReadAndApply(v, b)
  BY <1>2 DEF ReadAndApply, WellTyped, TypeOK
<1>3. ASSUME NEW w \in Workers, NEW statement, GoTo(w, statement),
             statement \in {"idle", "create"} \/ req[w].at \in Deciding,
             statement = "outcome" => req[w].at = "insertHuman"
      PROVE  \/ req'[v] = req[v]
             \/ req'[v].at \notin Deciding
             \/ /\ Carries(v) /\ req[v].at \in Deciding
                /\ req'[v].at = "outcome" => req[v].at = "insertHuman"
  BY <1>3, GoToMoves DEF Carries
<1>4. ASSUME NEW w \in Workers, ReadChain(w)
      PROVE  \/ req'[v] = req[v]
             \/ (Carries(v) /\ req[v].at \in Deciding /\ req'[v].at # "outcome")
  BY <1>4, ReadChainMoves DEF Carries, ReadChain
<1>5. ASSUME NEW w \in Workers, InsertOrigin(w) \/ CreateReview(w) \/ Crash(w)
      PROVE  \E statement \in {"idle", "create"} : GoTo(w, statement)
  BY <1>5 DEF InsertOrigin, CreateReview, Crash, Insert, AfterInsert
<1>6. ASSUME NEW w \in Workers, UpdatePartial(w) \/ UpdateResolved(w) \/ SetPointer(w)
                                \/ InsertReceipt(w) \/ RecordOutcome(w)
      PROVE  req[w].at \in Deciding /\ \E statement \in {"idle", "chain", "point"} : GoTo(w, statement)
  BY <1>6 DEF UpdatePartial, UpdateResolved, SetPointer, InsertReceipt, RecordOutcome,
              Insert, AfterInsert
<1>7. ASSUME NEW w \in Workers, InsertHuman(w)
      PROVE  req[w].at = "insertHuman" /\ \E statement : GoTo(w, statement)
  BY <1>7 DEF InsertHuman, Insert
<1>8. CASE UNCHANGED vars
  BY <1>8 DEF vars
<1> QED
  BY <1>1, <1>2, <1>3, <1>4, <1>5, <1>6, <1>7, <1>8 DEF Next, Step
----------------------------------------------------------------------------
(* The copy of a row that a worker decides on.                              *)

\* It is a copy of a review in the queue, and its status is the decision's.
Copied(w) ==
    /\ table[req[w].review].status # "none"
    /\ req[w].item.required = table[req[w].review].required
    /\ req[w].approve <=> req[w].item.status # "rejected"
    /\ req[w].at = "outcome" => req[w].item.status # "pending"
CopyIsOfRow == \A w \in Workers : req[w].at \in Deciding => Copied(w)

(* A review never leaves the queue, and never needs fewer approvals.         *)
LEMMA RowStays ==
    ASSUME WellTyped, OriginFirst, CopyIsOfRow, [Next]_vars,
           NEW r \in Reviews, table[r].status # "none"
    PROVE  table'[r].status # "none" /\ table'[r].required = table[r].required
<1>1. ASSUME NEW w \in Workers, CreateReview(w) PROVE table'[r] = table[r]
  BY <1>1 DEF CreateReview, OriginFirst, WellTyped, TypeOK
<1>2. ASSUME NEW w \in Workers, UpdatePartial(w) \/ UpdateResolved(w)
      PROVE  table'[r].status # "none" /\ table'[r].required = table[r].required
  <2>1. req[w].at = "update" /\ (table' = table \/ table' = [table EXCEPT ![req[w].review] = req[w].item])
    BY <1>2 DEF UpdatePartial, UpdateResolved
  <2>2. /\ req[w].review \in Reviews /\ req[w].item.status # "none"
        /\ req[w].item.required = table[req[w].review].required
    BY <2>1 DEF WellTyped, Serves, CopyIsOfRow, Copied, Deciding
  <2> QED BY <2>1, <2>2 DEF WellTyped, TypeOK
<1>3. table' = table \/ \E w \in Workers : CreateReview(w) \/ UpdatePartial(w) \/ UpdateResolved(w)
  BY DEF Next, Step, vars, Evaluate, ReadAndApply, InsertOrigin, InsertReceipt, InsertHuman,
         Insert, SetPointer, ReadChain, RecordOutcome, Crash
<1> QED
  BY <1>1, <1>2, <1>3

(* Nobody decides to begin with.                                            *)
LEMMA CopyInit == Init => CopyIsOfRow
BY DEF Init, Copied, CopyIsOfRow, Idle, Deciding

(* ReadAndApply makes a copy of a pending row; a copy is never changed.      *)
LEMMA CopyStep ==
    ASSUME WellTyped, OriginFirst, CopyIsOfRow, [Next]_vars
    PROVE  CopyIsOfRow'
<1> SUFFICES ASSUME NEW v \in Workers, req'[v].at \in Deciding
    PROVE  Copied(v)'
  BY DEF CopyIsOfRow
<1>1. CASE \E b \in Ballot : ReadAndApply(v, b)
  <2>1. PICK b \in Ballot : ReadAndApply(v, b)
    BY <1>1
  <2>2. /\ b.review \in Reviews /\ b.approve \in BOOLEAN /\ table[b.review] \in Row
        /\ table[b.review].status = "pending" /\ table' = table
    BY <2>1 DEF ReadAndApply, Ballot, WellTyped, TypeOK
  <2>3. /\ req'[v].at = "update" /\ req'[v].review = b.review /\ req'[v].approve = b.approve
        /\ req'[v].item = Applied(table[b.review], b)
    BY <2>1 DEF ReadAndApply, WellTyped, TypeOK
  <2>4. /\ Applied(table[b.review], b).required = table[b.review].required
        /\ b.approve <=> Applied(table[b.review], b).status # "rejected"
    BY <2>2 DEF Applied, Row
  <2> QED BY <2>2, <2>3, <2>4 DEF Copied
<1>2. CASE \/ req'[v] = req[v]
           \/ /\ Carries(v) /\ req[v].at \in Deciding
              /\ req'[v].at = "outcome" => req[v].at = "insertHuman"
  <2>1. /\ req[v].at \in Deciding /\ Carries(v)
        /\ req'[v].at = "outcome" => req[v].item.status # "pending"
    BY <1>2 DEF Carries, CopyIsOfRow, Copied, WellTyped, Serves, Deciding
  <2>2. req[v].review \in Reviews
    BY <2>1 DEF WellTyped, Serves, Deciding
  <2> QED BY <2>1, <2>2, RowStays DEF CopyIsOfRow, Copied, Carries
<1>3. \/ req'[v] = req[v]
      \/ \E b \in Ballot : ReadAndApply(v, b)
      \/ /\ Carries(v) /\ req[v].at \in Deciding
         /\ req'[v].at = "outcome" => req[v].at = "insertHuman"
  BY RequestSteps
<1> QED
  BY <1>1, <1>2, <1>3
----------------------------------------------------------------------------
(* What stands in the chain.                                                *)

\* Worker w's INSERT appends a record of its review.
Chains(w, kind, verdict) ==
    audit' = Append(audit, [kind |-> kind, review |-> req[w].review, verdict |-> verdict])

(* The records of a review after an INSERT: the same, and the new one.      *)
LEMMA ChainsAdds ==
    ASSUME WellTyped, NEW w \in Workers, NEW kind, NEW STATE verdict, Chains(w, kind, verdict),
           NEW r \in Reviews, NEW other
    PROVE  /\ Len(audit) \in Nat /\ DOMAIN audit = 1..Len(audit)
           /\ \A i \in DOMAIN audit : i \in DOMAIN audit' /\ audit'[i] = audit[i]
           /\ audit'[Len(audit) + 1].verdict = verdict
           /\ other = kind /\ req[w].review = r =>
                Entries(other, r)' = Entries(other, r) \cup {Len(audit) + 1}
           /\ other # kind \/ req[w].review # r => Entries(other, r)' = Entries(other, r)
<1> DEFINE entry == [kind |-> kind, review |-> req[w].review, verdict |-> verdict]
<1>1. /\ Len(audit) \in Nat
      /\ DOMAIN audit = 1..Len(audit) /\ DOMAIN audit' = 1..(Len(audit) + 1)
      /\ \A i \in 1..Len(audit) : audit'[i] = audit[i]
      /\ audit'[Len(audit) + 1] = entry
  BY DEF Chains, WellTyped, TypeOK
<1>2. entry.kind = kind /\ entry.review = req[w].review /\ entry.verdict = verdict
  OBVIOUS
<1> HIDE DEF entry
<1> QED BY <1>1, <1>2 DEF Entries

(* A step leaves the chain alone or appends one record, of a known kind.     *)
LEMMA AuditSteps ==
    ASSUME WellTyped, [Next]_vars
    PROVE  \/ audit' = audit
           \/ \E w \in Workers :
                \/ req[w].at = "insertOrigin" /\ Chains(w, "origin", "pending")
                \/ req[w].at = "insertReceipt" /\ Chains(w, "receipt", "partial")
                \/ req[w].at = "insertHuman" /\ Chains(w, "human", req[w].item.status)
<1>1. ASSUME NEW w \in Workers, NEW kind, NEW STATE verdict, NEW next,
             Insert(w, kind, verdict, next)
      PROVE  audit' = audit \/ Chains(w, kind, verdict)
  BY <1>1 DEF Insert, Chains
<1>2. \/ audit' = audit
      \/ \E w \in Workers : InsertOrigin(w) \/ InsertReceipt(w) \/ InsertHuman(w)
  BY DEF Next, Step, vars, Evaluate, ReadAndApply, CreateReview, UpdatePartial, UpdateResolved,
         SetPointer, ReadChain, RecordOutcome, Crash
<1>3. ASSUME NEW w \in Workers, InsertOrigin(w)
      PROVE  audit' = audit \/ (req[w].at = "insertOrigin" /\ Chains(w, "origin", "pending"))
  BY <1>1, <1>3 DEF InsertOrigin
<1>4. ASSUME NEW w \in Workers, InsertReceipt(w)
      PROVE  audit' = audit \/ (req[w].at = "insertReceipt" /\ Chains(w, "receipt", "partial"))
  BY <1>1, <1>4 DEF InsertReceipt
<1>5. ASSUME NEW w \in Workers, InsertHuman(w)
      PROVE  audit' = audit \/ (req[w].at = "insertHuman" /\ Chains(w, "human", req[w].item.status))
  BY <1>1, <1>5 DEF InsertHuman
<1> QED
  BY <1>2, <1>3, <1>4, <1>5

(* One origin record per review, and before all the others.                 *)
LEMMA QueueIsAuditedStep ==
    ASSUME WellTyped, OriginFirst, CopyIsOfRow, QueueIsAudited, [Next]_vars
    PROVE  QueueIsAudited'
<1> SUFFICES ASSUME NEW r \in Reviews
    PROVE  /\ table'[r].status # "none" => Entries("origin", r)' # {}
           /\ \A i, j \in Entries("origin", r)' : i = j
           /\ \A i \in Entries("receipt", r)' \cup Entries("human", r)' :
                 \E j \in Entries("origin", r)' : j < i
  BY DEF QueueIsAudited
<1>0. /\ \A i, j \in Entries("origin", r) : i = j
      /\ \A i \in Entries("receipt", r) \cup Entries("human", r) :
            \E j \in Entries("origin", r) : j < i
  BY DEF QueueIsAudited
<1>1. table'[r].status # "none" => Entries("origin", r)' # {}
  BY OriginFirstStep DEF OriginFirst
<1>2. CASE audit' = audit
  <2>1. \A kind : Entries(kind, r)' = Entries(kind, r)
    BY <1>2 DEF Entries
  <2> QED BY <1>1, <2>1 DEF QueueIsAudited
<1>3. ASSUME NEW w \in Workers, req[w].at = "insertOrigin", Chains(w, "origin", "pending")
      PROVE  /\ \A i, j \in Entries("origin", r)' : i = j
             /\ \A i \in Entries("receipt", r)' \cup Entries("human", r)' :
                   \E j \in Entries("origin", r)' : j < i
  <2>1. /\ Entries("receipt", r)' = Entries("receipt", r)
        /\ Entries("human", r)' = Entries("human", r)
    BY <1>3, ChainsAdds
  <2>2. \/ Entries("origin", r)' = Entries("origin", r)
        \/ /\ Entries("origin", r)' = Entries("origin", r) \cup {Len(audit) + 1}
           /\ Entries("origin", r) = {}
    <3>1. CASE req[w].review = r
      <4>1. Entries("origin", r) = {}
        BY <1>3, <3>1 DEF OriginFirst
      <4>2. Entries("origin", r)' = Entries("origin", r) \cup {Len(audit) + 1}
        BY <1>3, <3>1, ChainsAdds
      <4> QED BY <4>1, <4>2
    <3>2. CASE req[w].review # r
      BY <1>3, <3>2, ChainsAdds
    <3> QED BY <3>1, <3>2
  <2>3. CASE Entries("origin", r)' = Entries("origin", r)
    BY <2>1, <2>3, <1>0
  <2>4. CASE /\ Entries("origin", r)' = Entries("origin", r) \cup {Len(audit) + 1}
             /\ Entries("origin", r) = {}
    <3>1. Entries("receipt", r)' \cup Entries("human", r)' = {}
      BY <2>1, <2>4, <1>0
    <3> QED BY <2>4, <3>1
  <2> QED BY <2>2, <2>3, <2>4
<1>4. ASSUME NEW w \in Workers, req[w].at \in {"insertReceipt", "insertHuman"},
             NEW kind \in {"receipt", "human"}, NEW STATE verdict, Chains(w, kind, verdict)
      PROVE  /\ \A i, j \in Entries("origin", r)' : i = j
             /\ \A i \in Entries("receipt", r)' \cup Entries("human", r)' :
                   \E j \in Entries("origin", r)' : j < i
  <2>1. Len(audit) \in Nat /\ Entries("origin", r)' = Entries("origin", r)
    BY <1>4, ChainsAdds
  <2>2. CASE req[w].review = r
    <3>1. table[r].status # "none"
      BY <1>4, <2>2 DEF CopyIsOfRow, Copied, Deciding
    <3>2. PICK j \in Entries("origin", r) : TRUE
      BY <3>1 DEF OriginFirst
    <3>3. j < Len(audit) + 1
      BY <2>1, <3>2 DEF Entries, WellTyped, TypeOK
    <3>4. ASSUME NEW other \in {"receipt", "human"}, NEW i \in Entries(other, r)'
          PROVE  i \in Entries(other, r) \/ i = Len(audit) + 1
      BY <1>4, <3>4, ChainsAdds
    <3>5. \A i \in Entries("receipt", r)' \cup Entries("human", r)' :
             i \in Entries("receipt", r) \cup Entries("human", r) \/ i = Len(audit) + 1
      BY <3>4
    <3> QED BY <2>1, <3>3, <3>5, <1>0
  <2>3. CASE req[w].review # r
    <3>1. /\ Entries("receipt", r)' = Entries("receipt", r)
          /\ Entries("human", r)' = Entries("human", r)
      BY <1>4, <2>3, ChainsAdds
    <3> QED BY <2>1, <3>1, <1>0
  <2> QED BY <2>2, <2>3
<1> QED
  BY <1>1, <1>2, <1>3, <1>4, AuditSteps

(* A review in the queue has one origin record, and whatever else the chain *)
(* says of it stands after that record (evaluate's order).                  *)
THEOREM QueueIsAuditedHolds == Spec => []QueueIsAudited
<1>1. Init => QueueIsAudited
  BY DEF Init, QueueIsAudited, Entries, NoRow
<1> QED
  BY <1>1, WellTypedInit, WellTypedStep, OriginFirstInit, OriginFirstStep, CopyInit, CopyStep,
     QueueIsAuditedStep, PTL DEF Spec
----------------------------------------------------------------------------
(* The verdict of a review: pointer, record and outcome.                    *)

\* Whose UPDATE resolved the review, and who has still to write what follows.
Wins(w) ==
    /\ req[w].at \in {"point", "chain", "insertHuman", "outcome"}
    /\ req[w].item.status # "pending"

\* What has been written of its verdict: pointer, record and outcome, in order.
WinnerKnows(w) ==
    LET r == req[w].review
    IN  /\ Resolved(r) /\ table[r].status = req[w].item.status
        /\ pointer[r] = IF req[w].at = "point" THEN "pending" ELSE table[r].status
        /\ Entries("human", r) = {} <=> req[w].at # "outcome"
        /\ \A k \in DOMAIN outcomes : outcomes[k].review # r

VerdictOnRecord(r) ==
    /\ pointer[r] # "pending" => pointer[r] = table[r].status
    /\ \A i, j \in Entries("human", r) : i = j
    /\ \A i \in Entries("human", r) : audit[i].verdict = pointer[r] /\ pointer[r] # "pending"

\* A review has one winner, who knows; nobody wrote anything out of order.
VerdictsKnown ==
    /\ \A r \in Reviews : VerdictOnRecord(r)
    /\ OutcomesAreAudited
    /\ \A w \in Workers : Wins(w) => WinnerKnows(w)
    /\ \A v, w \in Workers : Wins(v) /\ Wins(w) /\ req[v].review = req[w].review => v = w

LEMMA VerdictsInit == Init => VerdictsKnown
<1> SUFFICES ASSUME Init PROVE VerdictsKnown
  OBVIOUS
<1>1. \A r \in Reviews : VerdictOnRecord(r)
  BY DEF Init, VerdictOnRecord, Entries
<1>2. OutcomesAreAudited
  BY DEF Init, OutcomesAreAudited
<1>3. \A w \in Workers : ~Wins(w)
  BY DEF Init, Wins, Idle
<1> QED
  BY <1>1, <1>2, <1>3 DEF VerdictsKnown

(* A winner serves a review.                                                *)
LEMMA WinnerServes ==
    ASSUME WellTyped, NEW w \in Workers, Wins(w)
    PROVE  /\ req[w].review \in Reviews
           /\ req[w].item.status \in {"approved", "rejected"}
BY DEF WellTyped, Serves, Wins, Deciding, TypeOK, Request, Row

(* What was known of a review stays so while its records do, and its row is *)
(* only written while it is pending.                                        *)
LEMMA RecordStays ==
    ASSUME NEW r \in Reviews, VerdictOnRecord(r), WellTyped, pointer'[r] = pointer[r],
           Resolved(r) => table'[r] = table[r],
           Entries("human", r)' = Entries("human", r),
           \A i \in DOMAIN audit : audit'[i] = audit[i]
    PROVE  VerdictOnRecord(r)'
<1>1. pointer[r] # "pending" => table'[r] = table[r]
  BY DEF VerdictOnRecord, Resolved, WellTyped, TypeOK
<1>2. \A i \in Entries("human", r) : audit'[i] = audit[i]
  BY DEF Entries
<1> QED
  BY <1>1, <1>2 DEF VerdictOnRecord

(* An outcome is one of a review.                                           *)
LEMMA OutcomeType ==
    ASSUME WellTyped, NEW k \in DOMAIN outcomes
    PROVE  outcomes[k].review \in Reviews
<1> DEFINE Outcome == [review : Reviews, approved : BOOLEAN]
<1>1. outcomes \in Seq(Outcome)
  BY DEF WellTyped, TypeOK
<1>2. \A o \in Outcome : o.review \in Reviews
  OBVIOUS
<1> HIDE DEF Outcome
<1>3. DOMAIN outcomes = 1..Len(outcomes)
  BY <1>1
<1>4. outcomes[k] \in Outcome
  BY <1>1, <1>3
<1> QED BY <1>2, <1>4

(* Outcomes stay audited while the chain only grows.                        *)
LEMMA OutcomesStay ==
    ASSUME OutcomesAreAudited, WellTyped, outcomes' = outcomes,
           \A r \in Reviews : Entries("human", r) \subseteq Entries("human", r)',
           \A i \in DOMAIN audit : audit'[i] = audit[i]
    PROVE  OutcomesAreAudited'
<1>1. \A k \in DOMAIN outcomes : outcomes[k].review \in Reviews
  BY OutcomeType
<1>2. \A r \in Reviews : \A i \in Entries("human", r) : audit'[i] = audit[i]
  BY DEF Entries
<1> QED
  BY <1>1, <1>2 DEF OutcomesAreAudited

(* A winner knows what it knew, if no one has written of its review.         *)
LEMMA WinnerStays ==
    ASSUME NEW w \in Workers, Wins(w), WinnerKnows(w), Carries(w),
           req'[w].at = "point" <=> req[w].at = "point",
           req'[w].at = "outcome" <=> req[w].at = "outcome",
           NEW r \in Reviews, req[w].review = r,
           \A k \in DOMAIN outcomes' : k \in DOMAIN outcomes => outcomes'[k] = outcomes[k],
           \A k \in DOMAIN outcomes' : k \notin DOMAIN outcomes => outcomes'[k].review # r,
           pointer'[r] = pointer[r], table'[r] = table[r],
           Entries("human", r)' = Entries("human", r)
    PROVE  WinnerKnows(w)'
BY DEF WinnerKnows, Carries, Resolved

(* A step of one worker that writes no verdict and makes no winner.          *)
LEMMA VerdictsFrame ==
    ASSUME WellTyped, OriginFirst, VerdictsKnown, [Next]_vars, NEW w \in Workers,
           \A v \in Workers : v # w => req'[v] = req[v],
           \/ ~Wins(w)'
           \/ /\ Wins(w) /\ Carries(w)
              /\ req'[w].at = "point" <=> req[w].at = "point"
              /\ req'[w].at = "outcome" <=> req[w].at = "outcome",
           UNCHANGED <<pointer, outcomes>>,
           \A r \in Reviews : Entries("human", r)' = Entries("human", r),
           \A i \in DOMAIN audit : audit'[i] = audit[i]
    PROVE  VerdictsKnown'
<1>1. ASSUME NEW r \in Reviews PROVE VerdictOnRecord(r)'
  BY RecordStays, ResolvedIsKept DEF VerdictsKnown
<1>2. OutcomesAreAudited'
  BY OutcomesStay DEF VerdictsKnown
<1>3. ASSUME NEW v \in Workers, Wins(v)'
      PROVE  /\ Wins(v) /\ Carries(v)
             /\ req'[v].at = "point" <=> req[v].at = "point"
             /\ req'[v].at = "outcome" <=> req[v].at = "outcome"
  BY <1>3 DEF Wins, Carries
<1>4. ASSUME NEW v \in Workers, Wins(v)' PROVE WinnerKnows(v)'
  <2>1. PICK r \in Reviews : req[v].review = r
    BY <1>3, <1>4, WinnerServes
  <2>2. WinnerKnows(v)
    BY <1>3, <1>4 DEF VerdictsKnown
  <2>3. table'[r] = table[r]
    BY <2>1, <2>2, ResolvedIsKept DEF WinnerKnows
  <2> QED BY <1>3, <1>4, <2>1, <2>2, <2>3, WinnerStays
<1>5. ASSUME NEW v \in Workers, NEW u \in Workers, Wins(v)', Wins(u)', req'[v].review = req'[u].review
      PROVE  v = u
  BY <1>3, <1>5 DEF VerdictsKnown, Carries
<1> QED
  BY <1>1, <1>2, <1>4, <1>5 DEF VerdictsKnown

(* The UPDATE that resolves a review makes its worker the only winner.       *)
LEMMA VerdictsResolve ==
    ASSUME WellTyped, OriginFirst, CopyIsOfRow, VerdictsKnown, [Next]_vars,
           NEW w \in Workers, UpdateResolved(w), StillPending(req[w].review)
    PROVE  VerdictsKnown'
<1>1. PICK r \in Reviews : req[w].review = r
  BY DEF UpdateResolved, WellTyped, Serves
<1>2. /\ req'[w].at = "point" /\ Carries(w)
      /\ \A v \in Workers : v # w => req'[v] = req[v]
  BY GoToMoves DEF UpdateResolved, Carries
<1>3. /\ table[r].status = "pending" /\ table'[r] = req[w].item
      /\ req[w].item.status \in {"approved", "rejected"}
      /\ \A s \in Reviews : s # r => table'[s] = table[s]
  BY <1>1 DEF UpdateResolved, StillPending, WellTyped, TypeOK, Request, Row, Serves, Deciding
<1>4. pointer' = pointer /\ outcomes' = outcomes /\ audit' = audit
  BY DEF UpdateResolved
<1>5. \A s \in Reviews : Entries("human", s)' = Entries("human", s)
  BY <1>4 DEF Entries
<1>6. pointer[r] = "pending" /\ Entries("human", r) = {}
  BY <1>3 DEF VerdictsKnown, VerdictOnRecord, WellTyped, TypeOK
<1>7. \A k \in DOMAIN outcomes : outcomes[k].review # r
  BY <1>6 DEF VerdictsKnown, OutcomesAreAudited
<1>8. ASSUME NEW s \in Reviews PROVE VerdictOnRecord(s)'
  <2>1. CASE s = r
    BY <1>4, <1>5, <1>6, <2>1 DEF VerdictOnRecord
  <2>2. CASE s # r
    BY <1>3, <1>4, <1>5, <2>2, RecordStays DEF VerdictsKnown
  <2> QED BY <2>1, <2>2
<1>9. OutcomesAreAudited'
  BY <1>4, <1>5, OutcomesStay DEF VerdictsKnown
<1>10. WinnerKnows(w)'
  BY <1>1, <1>2, <1>3, <1>4, <1>5, <1>6, <1>7 DEF WinnerKnows, Carries, Resolved
<1>11. ASSUME NEW v \in Workers, v # w, Wins(v)'
       PROVE  Wins(v) /\ req'[v] = req[v] /\ req[v].review # r /\ WinnerKnows(v)'
  <2>1. Wins(v) /\ req'[v] = req[v] /\ WinnerKnows(v)
    BY <1>2, <1>11 DEF Wins, VerdictsKnown
  <2>2. PICK s \in Reviews : req[v].review = s
    BY <2>1, WinnerServes
  <2>3. s # r
    BY <1>3, <2>1, <2>2 DEF WinnerKnows, Resolved
  <2>4. WinnerKnows(v)'
    BY <1>3, <1>4, <1>5, <2>1, <2>2, <2>3, WinnerStays DEF Carries
  <2> QED BY <2>1, <2>2, <2>3, <2>4
<1> QED
  BY <1>1, <1>2, <1>8, <1>9, <1>10, <1>11 DEF VerdictsKnown, Carries

(* A winner points the origin record at its verdict.                        *)
LEMMA VerdictsPoint ==
    ASSUME WellTyped, OriginFirst, CopyIsOfRow, VerdictsKnown, [Next]_vars,
           NEW w \in Workers, SetPointer(w)
    PROVE  VerdictsKnown'
<1>0. Wins(w) /\ req[w].at = "point"
  BY DEF SetPointer, Wins, WellTyped, Serves
<1>1. PICK r \in Reviews : req[w].review = r
  BY <1>0, WinnerServes
<1>2. /\ req'[w].at = "chain" /\ Carries(w)
      /\ \A v \in Workers : v # w => req'[v] = req[v]
  BY GoToMoves DEF SetPointer, Carries
<1>3. /\ pointer'[r] = req[w].item.status
      /\ \A s \in Reviews : s # r => pointer'[s] = pointer[s]
  BY <1>1 DEF SetPointer, WellTyped, TypeOK
<1>4. table' = table /\ outcomes' = outcomes /\ audit' = audit
  BY DEF SetPointer
<1>5. \A s \in Reviews : Entries("human", s)' = Entries("human", s)
  BY <1>4 DEF Entries
<1>6. /\ Resolved(r) /\ table[r].status = req[w].item.status /\ Entries("human", r) = {}
      /\ \A k \in DOMAIN outcomes : outcomes[k].review # r
  BY <1>0, <1>1 DEF VerdictsKnown, WinnerKnows
<1>7. ASSUME NEW s \in Reviews PROVE VerdictOnRecord(s)'
  <2>1. CASE s = r
    BY <1>3, <1>4, <1>5, <1>6, <2>1 DEF VerdictOnRecord
  <2>2. CASE s # r
    BY <1>3, <1>4, <1>5, <2>2, RecordStays DEF VerdictsKnown
  <2> QED BY <2>1, <2>2
<1>8. OutcomesAreAudited'
  BY <1>4, <1>5, OutcomesStay DEF VerdictsKnown
<1>9. WinnerKnows(w)'
  BY <1>1, <1>2, <1>3, <1>4, <1>5, <1>6 DEF WinnerKnows, Carries, Resolved
<1>10. ASSUME NEW v \in Workers, v # w, Wins(v)'
       PROVE  Wins(v) /\ req'[v] = req[v] /\ WinnerKnows(v)'
  <2>1. Wins(v) /\ req'[v] = req[v] /\ WinnerKnows(v)
    BY <1>2, <1>10 DEF Wins, VerdictsKnown
  <2>2. PICK s \in Reviews : req[v].review = s
    BY <2>1, WinnerServes
  <2>3. s # r
    BY <1>0, <1>1, <1>10, <2>1, <2>2 DEF VerdictsKnown
  <2>4. WinnerKnows(v)'
    BY <1>3, <1>4, <1>5, <2>1, <2>2, <2>3, WinnerStays DEF Carries
  <2> QED BY <2>1, <2>4
<1> QED
  BY <1>0, <1>2, <1>7, <1>8, <1>9, <1>10 DEF VerdictsKnown, Carries

(* A winner chains its verdict: the first and only record of it.             *)
LEMMA VerdictsChain ==
    ASSUME WellTyped, OriginFirst, CopyIsOfRow, VerdictsKnown, [Next]_vars,
           NEW w \in Workers, InsertHuman(w), SeqIsFree(w)
    PROVE  VerdictsKnown'
<1> DEFINE n == Len(audit) + 1
<1>0. Wins(w) /\ req[w].at = "insertHuman"
  BY DEF InsertHuman, Wins, WellTyped, Serves
<1>1. PICK r \in Reviews : req[w].review = r
  BY <1>0, WinnerServes
<1>2. /\ req'[w].at = "outcome" /\ Carries(w)
      /\ \A v \in Workers : v # w => req'[v] = req[v]
  BY GoToMoves DEF InsertHuman, Insert, AfterInsert, Carries
<1>3. /\ Chains(w, "human", req[w].item.status)
      /\ table' = table /\ outcomes' = outcomes /\ pointer' = pointer
  BY DEF InsertHuman, Insert, Chains
<1>4. /\ Resolved(r) /\ table[r].status = req[w].item.status /\ Entries("human", r) = {}
      /\ pointer[r] = table[r].status /\ pointer[r] # "pending"
      /\ \A k \in DOMAIN outcomes : outcomes[k].review # r
  BY <1>0, <1>1 DEF VerdictsKnown, WinnerKnows, Resolved
<1>5. /\ \A i \in DOMAIN audit : audit'[i] = audit[i]
      /\ audit'[n].verdict = req[w].item.status
  BY <1>1, <1>3, ChainsAdds
<1>6. Entries("human", r)' = {n}
  BY <1>1, <1>3, <1>4, ChainsAdds
<1>7. \A s \in Reviews : s # r => Entries("human", s)' = Entries("human", s)
  BY <1>1, <1>3, ChainsAdds
<1> HIDE DEF n
<1>8. ASSUME NEW s \in Reviews PROVE VerdictOnRecord(s)'
  <2>1. CASE s = r
    BY <1>3, <1>4, <1>5, <1>6, <2>1 DEF VerdictOnRecord
  <2>2. CASE s # r
    BY <1>3, <1>5, <1>7, <2>2, RecordStays DEF VerdictsKnown
  <2> QED BY <2>1, <2>2
<1>9. OutcomesAreAudited'
  <2>1. \A s \in Reviews : Entries("human", s) \subseteq Entries("human", s)'
    BY <1>4, <1>7
  <2> QED BY <1>3, <1>5, <2>1, OutcomesStay DEF VerdictsKnown
<1>10. WinnerKnows(w)'
  BY <1>1, <1>2, <1>3, <1>4, <1>6 DEF WinnerKnows, Carries, Resolved
<1>11. ASSUME NEW v \in Workers, v # w, Wins(v)'
       PROVE  Wins(v) /\ req'[v] = req[v] /\ WinnerKnows(v)'
  <2>1. Wins(v) /\ req'[v] = req[v] /\ WinnerKnows(v)
    BY <1>2, <1>11 DEF Wins, VerdictsKnown
  <2>2. PICK s \in Reviews : req[v].review = s
    BY <2>1, WinnerServes
  <2>3. s # r
    BY <1>0, <1>1, <1>11, <2>1, <2>2 DEF VerdictsKnown
  <2>4. WinnerKnows(v)'
    BY <1>3, <1>7, <2>1, <2>2, <2>3, WinnerStays DEF Carries
  <2> QED BY <2>1, <2>4
<1> QED
  BY <1>0, <1>2, <1>8, <1>9, <1>10, <1>11 DEF VerdictsKnown, Carries

(* A winner hands its verdict to the learning loop, which had none of it.    *)
LEMMA VerdictsOutcome ==
    ASSUME WellTyped, OriginFirst, CopyIsOfRow, VerdictsKnown, [Next]_vars,
           NEW w \in Workers, RecordOutcome(w)
    PROVE  VerdictsKnown'
<1> DEFINE n == Len(outcomes) + 1
<1>0. Wins(w) /\ req[w].at = "outcome"
  BY DEF RecordOutcome, Wins, CopyIsOfRow, Copied, Deciding
<1>1. PICK r \in Reviews : req[w].review = r
  BY <1>0, WinnerServes
<1>2. /\ req'[w].at = "idle"
      /\ \A v \in Workers : v # w => req'[v] = req[v]
  BY GoToMoves DEF RecordOutcome
<1>3. table' = table /\ audit' = audit /\ pointer' = pointer
  BY DEF RecordOutcome
<1>4. \A s \in Reviews : Entries("human", s)' = Entries("human", s)
  BY <1>3 DEF Entries
<1>5. /\ pointer[r] = req[w].item.status /\ Entries("human", r) # {}
      /\ \A k \in DOMAIN outcomes : outcomes[k].review # r
  BY <1>0, <1>1 DEF VerdictsKnown, WinnerKnows
<1>6. req[w].approve <=> req[w].item.status = "approved"
  <2>1. req[w].approve <=> req[w].item.status # "rejected"
    BY <1>0 DEF CopyIsOfRow, Copied, Deciding
  <2> QED BY <1>0, <2>1, WinnerServes
<1>7. /\ DOMAIN outcomes = 1..Len(outcomes) /\ DOMAIN outcomes' = 1..n /\ Len(outcomes) \in Nat
      /\ \A k \in DOMAIN outcomes : outcomes'[k] = outcomes[k]
      /\ outcomes'[n] = [review |-> r, approved |-> req[w].approve]
  BY <1>1 DEF RecordOutcome, WellTyped, TypeOK
<1>8. \A k \in DOMAIN outcomes' : k \in DOMAIN outcomes \/ k = n
  BY <1>7
<1>9. outcomes'[n].review = r /\ outcomes'[n].approved = req[w].approve
  BY <1>7
<1>10. \A s \in Reviews : VerdictOnRecord(s)'
  BY <1>3, <1>4, RecordStays DEF VerdictsKnown
<1>11. OutcomesAreAudited'
  <2>1. ASSUME NEW k \in DOMAIN outcomes'
        PROVE  \E i \in Entries("human", outcomes[k].review)' :
                  outcomes'[k].approved <=> audit'[i].verdict = "approved"
    <3>1. CASE k \in DOMAIN outcomes
      <4>1. PICK s \in Reviews : outcomes[k].review = s
        BY <3>1, OutcomeType
      <4>2. PICK i \in Entries("human", s) : outcomes[k].approved <=> audit[i].verdict = "approved"
        BY <3>1, <4>1 DEF VerdictsKnown, OutcomesAreAudited
      <4>3. outcomes'[k] = outcomes[k]
        BY <1>7, <3>1
      <4> QED BY <1>3, <4>1, <4>2, <4>3 DEF Entries
    <3>2. CASE k = n
      <4>1. PICK i \in Entries("human", r) : audit[i].verdict = req[w].item.status
        BY <1>5 DEF VerdictsKnown, VerdictOnRecord
      <4>2. outcomes'[k].review = r /\ outcomes'[k].approved = req[w].approve
        BY <1>9, <3>2
      <4> QED BY <1>3, <1>6, <4>1, <4>2 DEF Entries
    <3> QED BY <1>8, <3>1, <3>2
  <2>2. ASSUME NEW k \in DOMAIN outcomes', NEW l \in DOMAIN outcomes',
               outcomes'[l].review = outcomes'[k].review
        PROVE  l = k
    <3>1. k \in DOMAIN outcomes /\ l \in DOMAIN outcomes => l = k
      BY <1>7, <2>2 DEF VerdictsKnown, OutcomesAreAudited
    <3>2. \A m \in DOMAIN outcomes : outcomes'[m].review # r
      BY <1>5, <1>7
    <3> QED BY <1>8, <1>9, <2>2, <3>1, <3>2
  <2> QED BY <2>1, <2>2 DEF OutcomesAreAudited
<1>12. ~Wins(w)'
  BY <1>2 DEF Wins
<1>13. ASSUME NEW v \in Workers, Wins(v)'
       PROVE  Wins(v) /\ req'[v] = req[v] /\ WinnerKnows(v)'
  <2>1. Wins(v) /\ req'[v] = req[v] /\ WinnerKnows(v) /\ v # w
    BY <1>2, <1>12, <1>13 DEF Wins, VerdictsKnown
  <2>2. PICK s \in Reviews : req[v].review = s
    BY <2>1, WinnerServes
  <2>3. s # r
    BY <1>0, <1>1, <2>1, <2>2 DEF VerdictsKnown
  <2>4. WinnerKnows(v)'
    BY <1>3, <1>4, <1>7, <1>8, <1>9, <2>1, <2>2, <2>3, WinnerStays DEF Carries
  <2> QED BY <2>1, <2>4
<1> QED
  BY <1>10, <1>11, <1>13 DEF VerdictsKnown

(* Every step keeps the verdicts of all reviews in order.                    *)
LEMMA VerdictsStep ==
    ASSUME WellTyped, OriginFirst, CopyIsOfRow, VerdictsKnown, [Next]_vars
    PROVE  VerdictsKnown'
<1>1. ASSUME audit' = audit
      PROVE  /\ \A r \in Reviews : Entries("human", r)' = Entries("human", r)
             /\ \A i \in DOMAIN audit : audit'[i] = audit[i]
  BY <1>1 DEF Entries
<1>2. ASSUME NEW w \in Workers, NEW r \in Reviews, Evaluate(w, r) PROVE VerdictsKnown'
  <2>1. req'[w].at = "insertOrigin" /\ \A v \in Workers : v # w => req'[v] = req[v]
    BY <1>2 DEF Evaluate, ReadLast, Idle, WellTyped, TypeOK
  <2>2. ~Wins(w)'
    BY <2>1 DEF Wins
  <2> QED BY <1>1, <1>2, <2>1, <2>2, VerdictsFrame DEF Evaluate
<1>3. ASSUME NEW w \in Workers, NEW b \in Ballot, ReadAndApply(w, b) PROVE VerdictsKnown'
  <2>1. req'[w].at = "update" /\ \A v \in Workers : v # w => req'[v] = req[v]
    BY <1>3 DEF ReadAndApply, WellTyped, TypeOK
  <2>2. ~Wins(w)'
    BY <2>1 DEF Wins
  <2> QED BY <1>1, <1>3, <2>1, <2>2, VerdictsFrame DEF ReadAndApply
<1>4. ASSUME NEW w \in Workers, NEW statement \in {"idle", "create"}, GoTo(w, statement),
             UNCHANGED <<pointer, outcomes>>,
             \A r \in Reviews : Entries("human", r)' = Entries("human", r),
             \A i \in DOMAIN audit : audit'[i] = audit[i]
      PROVE  VerdictsKnown'
  <2>1. req'[w].at = statement /\ \A v \in Workers : v # w => req'[v] = req[v]
    BY <1>4, GoToMoves
  <2>2. ~Wins(w)'
    BY <2>1 DEF Wins
  <2> QED BY <1>4, <2>1, <2>2, VerdictsFrame
<1>5. ASSUME NEW w \in Workers, NEW kind \in {"origin", "receipt"}, NEW STATE verdict,
             NEW next \in {"idle", "create"}, Insert(w, kind, verdict, next)
      PROVE  VerdictsKnown'
  <2>1. AfterInsert(w, next) \in {"idle", "create"} /\ GoTo(w, AfterInsert(w, next))
        /\ UNCHANGED <<pointer, outcomes>>
    BY <1>5 DEF Insert, AfterInsert
  <2>2. audit' = audit \/ Chains(w, kind, verdict)
    BY <1>5 DEF Insert, Chains
  <2>3. /\ \A r \in Reviews : Entries("human", r)' = Entries("human", r)
        /\ \A i \in DOMAIN audit : audit'[i] = audit[i]
    <3>1. CASE audit' = audit
      BY <1>1, <3>1
    <3>2. CASE Chains(w, kind, verdict)
      <4>1. \A r \in Reviews : Entries("human", r)' = Entries("human", r)
        BY <3>2, ChainsAdds
      <4>2. audit \in Seq(Entry)
        BY DEF WellTyped, TypeOK
      <4> QED BY <3>2, <4>1, <4>2 DEF Chains
    <3> QED BY <2>2, <3>1, <3>2
  <2> QED BY <1>4, <2>1, <2>3
<1>6. ASSUME NEW w \in Workers, InsertOrigin(w) \/ InsertReceipt(w) PROVE VerdictsKnown'
  BY <1>5, <1>6 DEF InsertOrigin, InsertReceipt
<1>7. ASSUME NEW w \in Workers, CreateReview(w) \/ Crash(w) PROVE VerdictsKnown'
  BY <1>1, <1>4, <1>7 DEF CreateReview, Crash
<1>8. ASSUME NEW w \in Workers, UpdatePartial(w) PROVE VerdictsKnown'
  <2>1. /\ req[w].item.status = "pending" /\ req'[w].item = req[w].item
        /\ \A v \in Workers : v # w => req'[v] = req[v]
    BY <1>8, GoToMoves DEF UpdatePartial
  <2>2. ~Wins(w)'
    BY <2>1 DEF Wins
  <2> QED BY <1>1, <1>8, <2>1, <2>2, VerdictsFrame DEF UpdatePartial
<1>9. ASSUME NEW w \in Workers, UpdateResolved(w) PROVE VerdictsKnown'
  <2>1. CASE StillPending(req[w].review)
    BY <1>9, <2>1, VerdictsResolve
  <2>2. CASE ~StillPending(req[w].review)
    BY <1>1, <1>4, <1>9, <2>2 DEF UpdateResolved
  <2> QED BY <2>1, <2>2
<1>10. ASSUME NEW w \in Workers, SetPointer(w) PROVE VerdictsKnown'
  BY <1>10, VerdictsPoint
<1>11. ASSUME NEW w \in Workers, ReadChain(w) PROVE VerdictsKnown'
  <2>1. /\ Carries(w) /\ \A v \in Workers : v # w => req'[v] = req[v]
        /\ req'[w].at \notin {"point", "outcome"} /\ req[w].at = "chain"
    BY <1>11, ReadChainMoves DEF Carries, ReadChain
  <2>2. Wins(w)' => Wins(w)
    BY <2>1 DEF Wins, Carries
  <2> QED BY <1>1, <1>11, <2>1, <2>2, VerdictsFrame DEF ReadChain
<1>12. ASSUME NEW w \in Workers, InsertHuman(w) PROVE VerdictsKnown'
  <2>1. CASE SeqIsFree(w)
    BY <1>12, <2>1, VerdictsChain
  <2>2. CASE ~SeqIsFree(w)
    BY <1>1, <1>4, <1>12, <2>2 DEF InsertHuman, Insert, AfterInsert
  <2> QED BY <2>1, <2>2
<1>13. ASSUME NEW w \in Workers, RecordOutcome(w) PROVE VerdictsKnown'
  BY <1>13, VerdictsOutcome
<1>14. CASE UNCHANGED vars
  BY <1>14 DEF vars, VerdictsKnown, VerdictOnRecord, OutcomesAreAudited, Wins, WinnerKnows,
               Resolved, Entries
<1> QED
  BY <1>2, <1>3, <1>6, <1>7, <1>8, <1>9, <1>10, <1>11, <1>12, <1>13, <1>14 DEF Next, Step

LEMMA VerdictsHold == Spec => []VerdictsKnown
BY WellTypedInit, WellTypedStep, OriginFirstInit, OriginFirstStep, CopyInit, CopyStep,
   VerdictsInit, VerdictsStep, PTL DEF Spec

(* A review has at most one verdict in the chain, that of its row, and the  *)
(* origin record already points to it (decide's order).                     *)
THEOREM OneVerdictRecordHolds == Spec => []OneVerdictRecord
<1>1. VerdictsKnown => OneVerdictRecord
  BY DEF VerdictsKnown, VerdictOnRecord, OneVerdictRecord
<1> QED BY <1>1, VerdictsHold, PTL

(* The learning loop hears of a review at most once, after its verdict is   *)
(* chained, and hears that verdict (decide_review after decide).            *)
THEOREM OutcomesAreAuditedHolds == Spec => []OutcomesAreAudited
<1>1. VerdictsKnown => OutcomesAreAudited
  BY DEF VerdictsKnown
<1> QED BY <1>1, VerdictsHold, PTL
----------------------------------------------------------------------------
(* The queue implements its contract.                                       *)

(* Humans whose approvals a row counts are a panel of those who voted for it.*)
LEMMA PanelVoted ==
    ASSUME NEW row \in Row, NEW r \in Reviews, NEW votes, Counted(row, r, votes),
           row.status = "approved"
    PROVE  Contract!HasPanel({h \in Reviewers :
               [review |-> r, reviewer |-> h, approve |-> TRUE] \in votes}, row.required)
<1> DEFINE S == {h \in Reviewers : [review |-> r, reviewer |-> h, approve |-> TRUE] \in votes}
           panel == [i \in 1..row.required |-> row.approvals[i]]
<1>1. row.approvals \in Seq(Reviewers) /\ row.required \in Nat
  BY DEF Row
<1>2. 1..row.required \subseteq 1..Len(row.approvals)
  BY <1>1 DEF Counted
<1>3. \A i \in 1..row.required : row.approvals[i] \in S
  BY <1>1, <1>2 DEF Counted
<1>4. panel \in [1..row.required -> S]
  BY <1>3
<1>5. \A i, j \in 1..row.required : panel[i] = panel[j] => i = j
  BY <1>2 DEF Counted
<1> QED
  BY <1>4, <1>5 DEF Contract!HasPanel

LEMMA ContractInit == Init => Contract!CInit
BY DEF Init, Contract!CInit, NoRow

(* CREATE opens, an acknowledged UPDATE casts, the rest is hidden.           *)
LEMMA ContractStep ==
    ASSUME WellTyped, BallotsCount, OriginFirst, CopyIsOfRow, [Next]_vars
    PROVE  [Contract!CNext]_(Contract!cvars)
<1> DEFINE needed == [r \in Reviews |-> table[r].required]
           verdict == [r \in Reviews |-> table[r].status]
<1>1. ASSUME table' = table, ballots' = ballots PROVE UNCHANGED Contract!cvars
  BY <1>1 DEF Contract!cvars
<1>2. ASSUME NEW w \in Workers, CreateReview(w) PROVE Contract!CNext
  <2>1. PICK r \in Reviews : req[w].review = r
    BY <1>2 DEF CreateReview, WellTyped, Serves
  <2>2. PICK above \in BOOLEAN : table' = [table EXCEPT ![r] =
            [status |-> "pending", approvals |-> <<>>, required |-> RequiredApprovals(above)]]
    BY <1>2, <2>1 DEF CreateReview
  <2>3. table[r].status = "none" /\ RequiredApprovals(above) \in {1, 2}
    BY <1>2, <2>1 DEF CreateReview, OriginFirst, RequiredApprovals
  <2>4. /\ needed' = [needed EXCEPT ![r] = RequiredApprovals(above)]
        /\ verdict' = [verdict EXCEPT ![r] = "pending"]
    BY <2>2 DEF WellTyped, TypeOK
  <2>5. Contract!Open(r, RequiredApprovals(above))
    BY <1>2, <2>3, <2>4 DEF Contract!Open, CreateReview
  <2> QED BY <2>3, <2>5 DEF Contract!CNext
<1>3. ASSUME NEW w \in Workers, UpdatePartial(w) \/ UpdateResolved(w), ~UNCHANGED <<table, ballots>>
      PROVE  Contract!CNext
  <2>1. PICK r \in Reviews : req[w].review = r
    BY <1>3 DEF UpdatePartial, UpdateResolved, WellTyped, Serves
  <2>2. /\ req[w].item \in Row /\ req[w].item.required = table[r].required
        /\ table[r].status # "none" /\ req[w].at = "update" /\ Cast(w) \in Ballot
        /\ req[w].approve <=> req[w].item.status # "rejected"
    BY <1>3, <2>1 DEF UpdatePartial, UpdateResolved, CopyIsOfRow, Copied, Deciding, WellTyped,
                      TypeOK, Serves, Request, Cast, Ballot
  <2>3. /\ ballots' = ballots \cup {Cast(w)}
        /\ \/ table' = table /\ req[w].item.status = "pending"
           \/ table[r].status = "pending" /\ table' = [table EXCEPT ![r] = req[w].item]
    BY <1>3, <2>1 DEF UpdatePartial, UpdateResolved, StillPending
  <2>4. needed' = needed
    BY <2>2, <2>3 DEF WellTyped, TypeOK
  <2>5. PICK b \in Ballot : b = Cast(w)
    BY <2>2
  <2>6. b.review = r /\ b.approve = req[w].approve /\ ballots' = ballots \cup {b}
    BY <2>1, <2>3, <2>5 DEF Cast
  <2>7. CASE table' = table /\ req[w].item.status = "pending"
    <3>1. Contract!Cast(b)
      BY <2>2, <2>4, <2>6, <2>7 DEF Contract!Cast
    <3> QED BY <3>1 DEF Contract!CNext, Contract!Ballot, Ballot
  <2>8. CASE table[r].status = "pending" /\ table' = [table EXCEPT ![r] = req[w].item]
    <3>1. verdict' = [verdict EXCEPT ![r] = req[w].item.status] /\ verdict[r] = "pending"
      BY <2>8 DEF WellTyped, TypeOK
    <3>2. CASE req[w].item.status = "pending"
      <4>1. verdict' = verdict
        BY <3>1, <3>2
      <4>2. Contract!Cast(b)
        BY <2>2, <2>4, <2>6, <3>1, <3>2, <4>1 DEF Contract!Cast
      <4> QED BY <4>2 DEF Contract!CNext, Contract!Ballot, Ballot
    <3>3. CASE req[w].item.status = "approved"
      <4>1. Counted(req[w].item, r, ballots')
        BY <2>1, <2>2, <2>3 DEF BallotsCount
      <4>2. Contract!HasPanel(Contract!Supporters(r)', needed[r])
        BY <2>2, <3>3, <4>1, PanelVoted DEF Contract!Supporters
      <4>3. Contract!Cast(b)
        BY <2>2, <2>4, <2>6, <3>1, <3>3, <4>2 DEF Contract!Cast
      <4> QED BY <4>3 DEF Contract!CNext, Contract!Ballot, Ballot
    <3>4. CASE req[w].item.status = "rejected"
      <4>1. Contract!Cast(b)
        BY <2>2, <2>4, <2>6, <3>1, <3>4 DEF Contract!Cast
      <4> QED BY <4>1 DEF Contract!CNext, Contract!Ballot, Ballot
    <3>5. req[w].item.status # "none"
      BY <2>2 DEF WellTyped, Serves, Deciding
    <3> QED BY <2>2, <3>2, <3>3, <3>4, <3>5 DEF Row
  <2> QED BY <2>3, <2>7, <2>8
<1>4. \/ UNCHANGED <<table, ballots>>
      \/ \E w \in Workers : CreateReview(w) \/ UpdatePartial(w) \/ UpdateResolved(w)
  BY DEF Next, Step, vars, Evaluate, ReadAndApply, InsertOrigin, InsertReceipt, InsertHuman,
         Insert, SetPointer, ReadChain, RecordOutcome, Crash
<1> QED
  BY <1>1, <1>2, <1>3, <1>4

(* Whatever the workers do, operators see a queue that opens a review once, *)
(* resolves it at most once and approves it only by a panel of humans.      *)
THEOREM QueueImplementsContract == Spec => ImplementsContract
<1>1. WellTyped /\ BallotsCount /\ OriginFirst /\ CopyIsOfRow /\ [Next]_vars
        => [Contract!CNext]_(Contract!cvars)
  BY ContractStep
<1> QED
  BY <1>1, ContractInit, WellTypedInit, WellTypedStep, BallotsCountInit, BallotsCountStep,
     OriginFirstInit, OriginFirstStep, CopyInit, CopyStep, PTL
  DEF Spec, ImplementsContract, Contract!CSpec
----------------------------------------------------------------------------
(* What the claim that a verdict is chained needs: one process, no crash.    *)

Alone == ~Crashes /\ \A v, w \in Workers : v = w

\* Nobody has appended since the process read the tail, and who has resolved a
\* review goes on until its verdict is in the chain.
TailIsRead ==
    \A w \in Workers : req[w].at \in {"insertOrigin", "insertReceipt", "insertHuman"}
                          => SeqIsFree(w)
ChainsItsVerdict ==
    \A r \in Reviews : Resolved(r) =>
        \/ Entries("human", r) # {}
        \/ \E w \in Workers : Wins(w) /\ req[w].review = r
Diligent == TailIsRead /\ ChainsItsVerdict

LEMMA DiligentInit == Init => Diligent
BY DEF Init, Diligent, TailIsRead, ChainsItsVerdict, Resolved, Idle, NoRow

LEMMA TailIsReadStep ==
    ASSUME WellTyped, Alone, TailIsRead, [Next]_vars
    PROVE  TailIsRead'
<1> USE DEF TailIsRead, SeqIsFree
<1>1. ASSUME NEW w \in Workers, NEW statement, GoTo(w, statement),
             statement \notin {"insertOrigin", "insertReceipt", "insertHuman"}
      PROVE  TailIsRead'
  BY <1>1, GoToMoves DEF Alone
<1>2. ASSUME NEW w \in Workers, NEW r \in Reviews, Evaluate(w, r) PROVE TailIsRead'
  BY <1>2 DEF Evaluate, ReadLast, Idle, Alone, WellTyped, TypeOK
<1>3. ASSUME NEW w \in Workers, NEW b \in Ballot, ReadAndApply(w, b) PROVE TailIsRead'
  BY <1>3 DEF ReadAndApply, Alone, WellTyped, TypeOK
<1>4. ASSUME NEW w \in Workers, ReadChain(w) PROVE TailIsRead'
  <2>1. req'[w].seen = Len(audit) /\ audit' = audit
    BY <1>4 DEF ReadChain, ReadLast, WellTyped, TypeOK, Request
  <2> QED BY <2>1 DEF Alone
<1>5. ASSUME NEW w \in Workers,
             \/ InsertOrigin(w) \/ CreateReview(w) \/ UpdatePartial(w) \/ UpdateResolved(w)
             \/ SetPointer(w) \/ InsertReceipt(w) \/ InsertHuman(w) \/ RecordOutcome(w)
      PROVE  TailIsRead'
  <2>1. \E statement \in {"idle", "create", "chain", "point", "outcome"} : GoTo(w, statement)
    BY <1>5 DEF InsertOrigin, CreateReview, UpdatePartial, UpdateResolved, SetPointer,
                InsertReceipt, InsertHuman, RecordOutcome, Insert, AfterInsert
  <2> QED BY <1>1, <2>1
<1>6. CASE UNCHANGED vars
  BY <1>6 DEF vars
<1> QED
  BY <1>2, <1>3, <1>4, <1>5, <1>6 DEF Next, Step, Crash, Alone

(* Records of a verdict stay.                                               *)
LEMMA HumanRecordsStay ==
    ASSUME WellTyped, [Next]_vars, NEW r \in Reviews, Entries("human", r) # {}
    PROVE  Entries("human", r)' # {}
<1>1. CASE audit' = audit
  BY <1>1 DEF Entries
<1>2. ASSUME NEW w \in Workers, NEW kind, NEW STATE verdict, Chains(w, kind, verdict)
      PROVE  Entries("human", r)' # {}
  BY <1>2, ChainsAdds
<1> QED
  BY <1>1, <1>2, AuditSteps

(* The one process goes from the UPDATE that resolves a review to its record.*)
LEMMA ChainsItsVerdictStep ==
    ASSUME WellTyped, OriginFirst, VerdictsKnown, Alone, Diligent, [Next]_vars
    PROVE  ChainsItsVerdict'
<1> SUFFICES ASSUME NEW r \in Reviews, Resolved(r)', Entries("human", r) = {}
             PROVE  \/ Entries("human", r)' # {}
                    \/ \E w \in Workers : Wins(w)' /\ req'[w].review = r
  BY HumanRecordsStay DEF ChainsItsVerdict
<1>1. CASE ~Resolved(r)
  <2>1. ASSUME NEW w \in Workers, UpdateResolved(w)
        PROVE  Wins(w)' /\ req'[w].review = r
    <3>1. /\ StillPending(req[w].review) /\ GoTo(w, "point")
          /\ table' = [table EXCEPT ![req[w].review] = req[w].item]
          /\ req[w].item.status # "pending"
      BY <1>1, <2>1 DEF UpdateResolved, Resolved
    <3>2. req[w].review = r
      BY <1>1, <3>1 DEF Resolved, WellTyped, TypeOK
    <3> QED BY <3>1, <3>2, GoToMoves DEF Wins
  <2>2. ASSUME NEW w \in Workers, UpdatePartial(w) \/ CreateReview(w) PROVE FALSE
    <3>1. ASSUME NEW row, row.status = "pending",
                 table' = table \/ table' = [table EXCEPT ![req[w].review] = row]
          PROVE  FALSE
      <4>1. table'[r] = table[r] \/ table'[r] = row
        BY <3>1 DEF WellTyped, TypeOK
      <4> QED BY <1>1, <3>1, <4>1 DEF Resolved
    <3>2. ~UpdatePartial(w)
      BY <3>1 DEF UpdatePartial
    <3>3. ASSUME CreateReview(w) PROVE FALSE
      <4>1. PICK above \in BOOLEAN :
              table' = [table EXCEPT ![req[w].review] =
                          [status |-> "pending", approvals |-> <<>>,
                           required |-> RequiredApprovals(above)]]
        BY <3>3 DEF CreateReview
      <4>2. PICK row : row = [status |-> "pending", approvals |-> <<>>,
                              required |-> RequiredApprovals(above)]
        OBVIOUS
      <4>3. row.status = "pending" /\ table' = [table EXCEPT ![req[w].review] = row]
        BY <4>1, <4>2
      <4> QED BY <3>1, <4>3
    <3> QED BY <2>2, <3>2, <3>3
  <2>3. table' = table \/ \E w \in Workers : CreateReview(w) \/ UpdatePartial(w) \/ UpdateResolved(w)
    BY DEF Next, Step, vars, Evaluate, ReadAndApply, InsertOrigin, InsertReceipt, InsertHuman,
           Insert, SetPointer, ReadChain, RecordOutcome, Crash
  <2> QED BY <1>1, <2>1, <2>2, <2>3 DEF Resolved
<1>2. CASE Resolved(r)
  <2>1. PICK w \in Workers : Wins(w) /\ req[w].review = r
    BY <1>2 DEF Diligent, ChainsItsVerdict
  <2>2. req[w].at # "outcome"
    BY <2>1 DEF VerdictsKnown, WinnerKnows
  <2>3. CASE SetPointer(w)
    BY <2>1, <2>3, GoToMoves DEF SetPointer, Wins
  <2>4. CASE ReadChain(w)
    BY <2>1, <2>4, ReadChainMoves DEF ReadChain, Wins
  <2>5. CASE InsertHuman(w)
    <3>1. SeqIsFree(w)
      BY <2>5 DEF Diligent, TailIsRead, InsertHuman
    <3>2. Chains(w, "human", req[w].item.status)
      BY <2>5, <3>1 DEF InsertHuman, Insert, Chains
    <3> QED BY <2>1, <3>2, ChainsAdds
  <2>6. CASE UNCHANGED vars
    BY <2>1, <2>6 DEF vars, Wins
  <2>7. SetPointer(w) \/ ReadChain(w) \/ InsertHuman(w) \/ UNCHANGED vars
    BY <2>1, <2>2 DEF Alone, Wins, Next, Step, Evaluate, ReadAndApply, InsertOrigin, CreateReview,
       UpdatePartial, UpdateResolved, InsertReceipt, RecordOutcome, Crash
  <2> QED BY <2>1, <2>3, <2>4, <2>5, <2>6, <2>7
<1> QED BY <1>1, <1>2

(* A single process that is not stopped keeps the promise that several break:*)
(* once nobody serves a resolved review, its verdict is in the hash chain.  *)
THEOREM VerdictIsChainedAlone == Spec => [](Alone => VerdictIsChained)
<1>1. Alone /\ Diligent => VerdictIsChained
  BY DEF Diligent, ChainsItsVerdict, VerdictIsChained, Serving
<1> DEFINE Sure == Alone => Diligent
<1>2. Init => Sure
  BY DiligentInit
<1>3. WellTyped /\ OriginFirst /\ VerdictsKnown /\ Sure /\ [Next]_vars => Sure'
  <2> SUFFICES ASSUME WellTyped, OriginFirst, VerdictsKnown, Alone, Diligent, [Next]_vars
               PROVE  Diligent'
    BY DEF Alone
  <2>1. TailIsRead' /\ ChainsItsVerdict'
    BY TailIsReadStep, ChainsItsVerdictStep DEF Diligent
  <2> QED BY <2>1 DEF Diligent
<1>4. Sure => (Alone => VerdictIsChained)
  BY <1>1
<1> HIDE DEF Sure
<1> QED
  BY <1>2, <1>3, <1>4, WellTypedInit, WellTypedStep, OriginFirstInit, OriginFirstStep,
     VerdictsHold, PTL DEF Spec
=============================================================================
