--------------------------- MODULE ReviewContract ---------------------------
(***************************************************************************)
(* What the human review queue promises, whatever the number of processes  *)
(* that serve it: a review is opened once, is resolved at most once, and   *)
(* is approved only when as many distinct humans as it needs have voted    *)
(* for it (the two-person rule), or rejected because some human objected.  *)
(*                                                                         *)
(* The state is what the operators of the firewall can observe: the        *)
(* ballots humans have cast, how many approvals each review needs and its  *)
(* verdict.  There are no workers, rows, receipts or audit records here;   *)
(* ReviewQueue has them and implements this module.                        *)
(***************************************************************************)
EXTENDS Naturals

CONSTANTS Reviews,      \* identities of reviews
          Reviewers     \* humans who may decide them

VARIABLES ballots,      \* every decision of a human that was acknowledged
          needed,       \* needed[r]: approvals review r needs, 0 before it exists
          verdict       \* verdict[r]

cvars == <<ballots, needed, verdict>>

Ballot == [review : Reviews, reviewer : Reviewers, approve : BOOLEAN]
Verdict == {"none", "pending", "approved", "rejected"}

\* The humans who voted to approve review r.
Supporters(r) ==
    {h \in Reviewers : [review |-> r, reviewer |-> h, approve |-> TRUE] \in ballots}

\* n distinct members of S: an injection of 1..n into S.
HasPanel(S, n) ==
    \E panel \in [1..n -> S] : \A i, j \in 1..n : panel[i] = panel[j] => i = j

CInit ==
    /\ ballots = {}
    /\ needed = [r \in Reviews |-> 0]
    /\ verdict = [r \in Reviews |-> "none"]

\* The firewall holds an action for one human, or for two.
Open(r, n) ==
    /\ verdict[r] = "none"
    /\ verdict' = [verdict EXCEPT ![r] = "pending"]
    /\ needed' = [needed EXCEPT ![r] = n]
    /\ UNCHANGED ballots

\* A human's decision is acknowledged.  A vote for the action may come too late
\* to count, or be forgotten by the review, but it never counts twice; the last
\* one needed approves, and one vote against rejects.
Cast(b) ==
    /\ verdict[b.review] # "none"
    /\ ballots' = ballots \cup {b}
    /\ \/ /\ b.approve
          /\ UNCHANGED verdict
       \/ /\ b.approve
          /\ verdict[b.review] = "pending"
          /\ HasPanel(Supporters(b.review)', needed[b.review])
          /\ verdict' = [verdict EXCEPT ![b.review] = "approved"]
       \/ /\ ~b.approve
          /\ verdict[b.review] = "pending"
          /\ verdict' = [verdict EXCEPT ![b.review] = "rejected"]
    /\ UNCHANGED needed

CNext ==
    \/ \E r \in Reviews, n \in {1, 2} : Open(r, n)
    \/ \E b \in Ballot : Cast(b)

CSpec == CInit /\ [][CNext]_cvars
=============================================================================
