-------------------------- MODULE ConnectorsProofs --------------------------
(***************************************************************************)
(* Theorems of Connectors: nothing is executed that was not allowed, a key *)
(* executes once, and effects are on record, for every set of calls and    *)
(* any number of deliveries and crashes.                                   *)
(***************************************************************************)
EXTENDS Connectors, FiniteSetTheorems, TLAPS

\* A call at work is a call; before it is evaluated it has no decision.
Serves ==
    /\ work.at # "idle" => work.call \in Calls
    /\ work.at \in {"idle", "evaluate"} <=> work.by = 0
    /\ work.at = "queue" => work.by \in DOMAIN chain
WellTyped == TypeOK /\ Serves

LEMMA AppendGrows ==
  ASSUME NEW S, NEW s \in Seq(S), NEW e \in S
  PROVE  Append(s, e) \in Seq(S) /\ DOMAIN s \subseteq DOMAIN Append(s, e)
  OBVIOUS

LEMMA ClaimedIsEntry == ASSUME NEW e \in Entry PROVE [e EXCEPT !.state = "claimed"] \in Entry
  BY DEF Entry

LEMMA InitWellTyped == Init => WellTyped
  BY DEF Init, WellTyped, TypeOK, Serves, Idle, Unregistered, NoEntry, Executor, Entry, Work,
         Answers, Record, Execution

LEMMA StepWellTyped == WellTyped /\ [Next]_vars => WellTyped'
<1> SUFFICES ASSUME WellTyped, [Next]_vars PROVE WellTyped'
  OBVIOUS
<1> USE CallsAreCalls, NoneIsNoCall, DeliveriesAreNat
    DEF WellTyped, TypeOK, Serves, Idle, Unregistered, NoEntry, Executor, Entry, Work,
        Answers, Record, Execution, Ends, Kept, Released
<1>1. ASSUME NEW c \in Calls, NEW keyed \in BOOLEAN, Deliver(c, keyed) PROVE WellTyped'
  <2>1. CASE keyed /\ entries[c].state # "free"
    BY <1>1, <2>1 DEF Deliver
  <2>2. CASE ~(keyed /\ entries[c].state # "free")
    <3>1. work' = [Idle EXCEPT !.call = c, !.keyed = keyed, !.at = "evaluate", !.executor = connector]
      BY <1>1, <2>2 DEF Deliver
    <3>2. work' \in Work /\ Serves'
      BY <3>1
    <3>3. entries' \in [Calls -> Entry]
      <4>1. CASE keyed
        <5>1. entries' = [entries EXCEPT ![c].state = "claimed"]
          BY <1>1, <2>2, <4>1 DEF Deliver
        <5>2. [entries[c] EXCEPT !.state = "claimed"] \in Entry
          BY ClaimedIsEntry
        <5> QED
          BY <5>1, <5>2
      <4> QED
        BY <1>1, <2>2, <4>1 DEF Deliver
    <3> QED
      BY <1>1, <3>2, <3>3 DEF Deliver
  <2> QED
    BY <2>1, <2>2
<1>2. CASE Complete
  BY <1>2 DEF Complete
<1>3. CASE Invalid
  BY <1>3 DEF Invalid
<1>4. CASE Raises
  BY <1>4 DEF Raises
<1>5. CASE NoOrder
  BY <1>5 DEF NoOrder
<1>6. ASSUME NEW d \in {"ALLOW", "REVIEW", "BLOCK"}, Evaluate(d) PROVE WellTyped'
  <2>1. Len(chain') = Len(chain) + 1 /\ Len(chain') \in Nat
    BY <1>6 DEF Evaluate
  <2>2. chain' \in Seq(Record)
    BY <1>6 DEF Evaluate
  <2>3. reviews' \subseteq DOMAIN chain' /\ Len(chain') \in DOMAIN chain'
    BY <1>6, <2>1, <2>2 DEF Evaluate
  <2>4. work' \in Work
    BY <1>6, <2>1 DEF Evaluate, Dispatch
  <2>5. Serves'
    BY <1>6, <2>1, <2>3 DEF Evaluate, Dispatch
  <2> QED
    BY <1>6, <2>2, <2>3, <2>4, <2>5 DEF Evaluate
<1>7. ASSUME NEW r \in Amounts \cup {None}, Execute(r) PROVE WellTyped'
  <2>1. platform' \in Seq(Execution)
    BY <1>7 DEF Execute, Effect
  <2>2. work' \in Work /\ Serves'
    BY <1>7 DEF Execute
  <2> QED
    BY <1>7, <2>1, <2>2 DEF Execute
<1>8. CASE ExecuteNothing
  BY <1>8 DEF ExecuteNothing, Goes
<1>9. CASE ExecuteFails
  <2>1. Effect \in Seq(Execution)
    BY <1>9 DEF ExecuteFails, Effect
  <2>2. platform' \in Seq(Execution)
    BY <1>9, <2>1 DEF ExecuteFails
  <2>3. work' \in Work /\ Serves'
    BY <1>9 DEF ExecuteFails
  <2> QED
    BY <1>9, <2>2, <2>3 DEF ExecuteFails
<1>10. CASE Hold
  BY <1>10 DEF Hold
<1>11. CASE HoldFails
  BY <1>11 DEF HoldFails
<1>12. CASE RefuseCall
  BY <1>12 DEF RefuseCall
<1>13. CASE Verify(Compared(work.call, work.reported))
  <2>1. Compared(work.call, work.reported) \in {"unverified", "unknown", "verified", "mismatch"}
    BY DEF Compared
  <2>2. chain' \in Seq(Record) /\ DOMAIN chain \subseteq DOMAIN chain'
    <3>1. PICK e \in Record : chain' = Append(chain, e)
      BY <1>13, <2>1 DEF Verify
    <3>2. chain \in Seq(Record)
      OBVIOUS
    <3> QED
      BY <3>1, <3>2, AppendGrows
  <2>3. work' \in Work /\ Serves'
    BY <1>13 DEF Verify
  <2> QED
    BY <1>13, <2>2, <2>3 DEF Verify
<1>14. ASSUME NEW e \in Executor, Register(e) PROVE WellTyped'
  BY <1>14 DEF Register
<1>15. CASE Crash
  <2>1. entries' \in [Calls -> Entry]
    BY <1>15 DEF Crash
  <2>2. work' \in Work /\ Serves'
    BY <1>15 DEF Crash
  <2>3. cut' \subseteq Nat
    BY <1>15 DEF Crash
  <2> QED
    BY <1>15, <2>1, <2>2, <2>3 DEF Crash
<1>16. CASE UNCHANGED vars
  BY <1>16 DEF vars
<1>17. CASE CreateReview
  BY <1>17 DEF CreateReview, Goes
<1> QED
  BY <1>1, <1>2, <1>3, <1>4, <1>5, <1>6, <1>7, <1>8, <1>9, <1>10, <1>11, <1>12, <1>13,
     <1>14, <1>15, <1>16, <1>17 DEF Next

(* Every reachable state of the connector service is well typed.            *)
THEOREM ConnectorsTypeCorrect == Spec => []TypeOK
<1>1. Spec => []WellTyped
  BY InitWellTyped, StepWellTyped, PTL DEF Spec
<1> QED
  BY <1>1, PTL DEF WellTyped
----------------------------------------------------------------------------
(* One execution per key.                                                   *)

\* The call has been executed with its key since the process was started.
Spent(c) == \E n \in DOMAIN platform :
    platform[n].keyed /\ platform[n].call = c /\ platform[n].boot = crashes
\* An executed key is not given back before the process dies.
KeyHeld ==
    /\ \A n \in DOMAIN platform : platform[n].boot <= crashes
    /\ \A c \in Calls : Spent(c) => entries[c].state # "free"
    /\ work.keyed /\ work.at # "idle" => entries[work.call].state # "free"
    /\ work.keyed /\ work.at \in {"evaluate", "queue", "execute", "hold"} => ~Spent(work.call)
    /\ OneExecutionPerKey

LEMMA AppendIs ==
  ASSUME NEW S, NEW s \in Seq(S), NEW e \in S
  PROVE  /\ DOMAIN Append(s, e) = DOMAIN s \cup {Len(s) + 1}
         /\ Len(s) + 1 \notin DOMAIN s
         /\ \A i \in DOMAIN s : Append(s, e)[i] = s[i]
         /\ Append(s, e)[Len(s) + 1] = e
         /\ Len(Append(s, e)) = Len(s) + 1
  OBVIOUS

LEMMA InitKeyHeld == Init => KeyHeld
  BY DEF Init, KeyHeld, Spent, Idle, OneExecutionPerKey

\* Steps that end a call and execute nothing, keep or give back its key.
LEMMA EndKeepsKeys ==
  ASSUME WellTyped, KeyHeld, work.at # "idle", platform' = platform, crashes' = crashes,
         \/ Ends(Kept)
         \/ Ends(Released) /\ work.at \in {"evaluate", "execute", "hold"}
  PROVE  KeyHeld'
  BY DEF WellTyped, TypeOK, Serves, KeyHeld, Spent, OneExecutionPerKey, Ends, Kept, Released,
         Idle, NoEntry, Work, Entry

\* The platform executes: the call at work, whose key nobody has used.
LEMMA ExecutionKeepsKeys ==
  ASSUME WellTyped, KeyHeld, work.at = "execute", platform' = Effect, crashes' = crashes,
         entries' = entries, work'.at \in {"idle", "verify"}, work'.call = work.call \/ work'.at = "idle",
         work'.keyed = work.keyed \/ work'.at = "idle"
  PROVE  KeyHeld'
<1> DEFINE e == [call |-> work.call, by |-> work.by, keyed |-> work.keyed, boot |-> crashes]
<1>1. e \in Execution /\ platform \in Seq(Execution)
  BY DEF WellTyped, TypeOK, Serves, Work, Execution
<1>2. /\ DOMAIN platform' = DOMAIN platform \cup {Len(platform) + 1}
      /\ \A i \in DOMAIN platform : platform'[i] = platform[i]
      /\ platform'[Len(platform) + 1] = e
  BY <1>1, AppendIs DEF Effect
<1>3. work.call \in Calls /\ crashes \in Nat /\ work.keyed \in BOOLEAN
  BY DEF WellTyped, TypeOK, Serves, Work
<1>4. \A n \in DOMAIN platform' : platform'[n].boot <= crashes'
  BY <1>2, <1>3 DEF KeyHeld
<1>5. \A c \in Calls : Spent(c)' => Spent(c) \/ (c = work.call /\ work.keyed)
  BY <1>2 DEF Spent
<1>6. \A c \in Calls : Spent(c)' => entries'[c].state # "free"
  BY <1>3, <1>5 DEF KeyHeld
<1>7. OneExecutionPerKey'
  BY <1>2, <1>3 DEF KeyHeld, Spent, OneExecutionPerKey
<1> QED
  BY <1>4, <1>6, <1>7, <1>3 DEF KeyHeld

LEMMA StepKeyHeld == WellTyped /\ KeyHeld /\ [Next]_vars => KeyHeld'
<1> SUFFICES ASSUME WellTyped, KeyHeld, [Next]_vars PROVE KeyHeld'
  OBVIOUS
<1> USE DEF WellTyped, Serves
<1>1. ASSUME NEW c \in Calls, NEW keyed \in BOOLEAN, Deliver(c, keyed) PROVE KeyHeld'
  <2>1. CASE keyed /\ entries[c].state # "free"
    BY <1>1, <2>1 DEF Deliver, KeyHeld, Spent, OneExecutionPerKey
  <2>2. CASE ~(keyed /\ entries[c].state # "free")
    <3>1. /\ work'.call = c /\ work'.keyed = keyed /\ platform' = platform /\ crashes' = crashes
          /\ entries' = IF keyed THEN [entries EXCEPT ![c].state = "claimed"] ELSE entries
      BY <1>1, <2>2 DEF Deliver, Idle
    <3>2. keyed => ~Spent(c)
      BY <2>2 DEF KeyHeld
    <3>3. \A d \in Calls : entries[d].state # "free" => entries'[d].state # "free"
      BY <3>1 DEF TypeOK, Entry
    <3>4. keyed => entries'[c].state # "free"
      BY <3>1 DEF TypeOK, Entry
    <3> QED
      BY <3>1, <3>2, <3>3, <3>4 DEF KeyHeld, Spent, OneExecutionPerKey
  <2> QED
    BY <2>1, <2>2
<1>2. CASE Complete
  <2>1. platform' = platform /\ crashes' = crashes /\ work' = Idle
    BY <1>2 DEF Complete
  <2>2. \A d \in Calls : entries[d].state # "free" => entries'[d].state # "free"
    BY <1>2 DEF Complete, TypeOK
  <2> QED
    BY <2>1, <2>2 DEF KeyHeld, Spent, OneExecutionPerKey, Idle
<1>3. CASE Invalid
  BY <1>3, EndKeepsKeys DEF Invalid
<1>4. CASE Raises
  BY <1>4, EndKeepsKeys DEF Raises
<1>5. CASE NoOrder
  BY <1>5, EndKeepsKeys DEF NoOrder, LacksOrder
<1>6. ASSUME NEW d \in {"ALLOW", "REVIEW", "BLOCK"}, Evaluate(d) PROVE KeyHeld'
  BY <1>6 DEF Evaluate, Dispatch, KeyHeld, Spent, OneExecutionPerKey, TypeOK, Work
<1>7. ASSUME NEW r \in Amounts \cup {None}, Execute(r) PROVE KeyHeld'
  BY <1>7, ExecutionKeepsKeys DEF Execute, TypeOK, Work
<1>8. CASE ExecuteNothing
  BY <1>8 DEF ExecuteNothing, Goes, KeyHeld, Spent, OneExecutionPerKey, TypeOK, Work
<1>9. CASE ExecuteFails
  <2>1. CASE platform' = platform
    BY <1>9, <2>1, EndKeepsKeys DEF ExecuteFails
  <2>2. CASE platform' = Effect
    BY <1>9, <2>2, ExecutionKeepsKeys DEF ExecuteFails, Ends, Kept, Idle
  <2> QED
    BY <1>9, <2>1, <2>2 DEF ExecuteFails
<1>10. CASE Hold
  BY <1>10 DEF Hold, KeyHeld, Spent, OneExecutionPerKey, TypeOK, Work
<1>11. CASE HoldFails
  BY <1>11, EndKeepsKeys DEF HoldFails
<1>12. CASE RefuseCall
  BY <1>12 DEF RefuseCall, KeyHeld, Spent, OneExecutionPerKey, TypeOK, Work
<1>13. CASE Verify(Compared(work.call, work.reported))
  BY <1>13 DEF Verify, KeyHeld, Spent, OneExecutionPerKey, TypeOK, Work
<1>14. ASSUME NEW e \in Executor, Register(e) PROVE KeyHeld'
  BY <1>14 DEF Register, KeyHeld, Spent, OneExecutionPerKey
<1>15. CASE Crash
  <2>1. platform' = platform /\ crashes' = crashes + 1 /\ work' = Idle /\ crashes \in Nat
    BY <1>15 DEF Crash, Ends, TypeOK
  <2>2. \A n \in DOMAIN platform : platform[n].boot \in Nat /\ platform[n].boot <= crashes
    <3>1. \A n \in DOMAIN platform : platform[n] \in Execution
      BY DEF TypeOK
    <3> QED
      BY <3>1 DEF KeyHeld, Execution
  <2>3. \A c \in Calls : ~Spent(c)'
    BY <2>1, <2>2 DEF Spent
  <2> QED
    BY <2>1, <2>2, <2>3 DEF KeyHeld, OneExecutionPerKey, Idle
<1>16. CASE UNCHANGED vars
  BY <1>16 DEF vars, KeyHeld, Spent, OneExecutionPerKey
<1>17. CASE CreateReview
  BY <1>17 DEF CreateReview, Goes, KeyHeld, Spent, OneExecutionPerKey, TypeOK, Work
<1> QED
  BY <1>1, <1>2, <1>3, <1>4, <1>5, <1>6, <1>7, <1>8, <1>9, <1>10, <1>11, <1>12, <1>13,
     <1>14, <1>15, <1>16, <1>17 DEF Next

(* However often a call is sent with its key, and whatever fails on the way, *)
(* the platform executes it once per life of the process.                    *)
THEOREM OneExecutionPerKeyHolds == Spec => []OneExecutionPerKey
<1>1. Init => WellTyped /\ KeyHeld
  BY InitWellTyped, InitKeyHeld
<1>2. WellTyped /\ KeyHeld /\ [Next]_vars => (WellTyped /\ KeyHeld)'
  BY StepWellTyped, StepKeyHeld
<1>3. WellTyped /\ KeyHeld => OneExecutionPerKey
  BY DEF KeyHeld
<1> QED
  BY <1>1, <1>2, <1>3, PTL DEF Spec
----------------------------------------------------------------------------
(* Decisions, executions and verifications.                                 *)

\* What an answer says of the decision it goes by.
Tells(c, answer, by) ==
    /\ by \in DOMAIN chain /\ chain[by].call = c
    /\ chain[by].decision = "ALLOW" <=> answer \in {"executed", "executed_with_mismatch"}
    /\ chain[by].decision = "REVIEW" <=> answer = "held" /\ by \in reviews
    /\ (\E v \in Verifications(by) : chain[v].status = "mismatch")
          <=> answer = "executed_with_mismatch"

\* Verifications are of decisions that stand before them.
Linked == \A i \in DOMAIN chain : chain[i].of <= Len(chain)
\* The call at work has its decision on the chain, goes where it sends it, and
\* has not been executed or verified before its turn.
InOrder ==
    /\ work.by # 0 => work.by \in DOMAIN chain /\ chain[work.by].kind = "decision"
                       /\ chain[work.by].call = work.call
    /\ work.at \in {"execute", "verify"} => chain[work.by].decision = "ALLOW"
    /\ work.at \in {"queue", "hold"} => chain[work.by].decision = "REVIEW"
    /\ work.at = "hold" => work.by \in reviews
    /\ work.at = "refuse" => chain[work.by].decision = "BLOCK"
    /\ work.at = "execute" => \A n \in DOMAIN platform : platform[n].by # work.by
    /\ work.at \in {"queue", "execute", "hold", "refuse", "verify"} => Verifications(work.by) = {}
    /\ work.at = "complete" => Tells(work.call, work.answer, work.by)
Recorded == \A n \in DOMAIN platform :
    \/ platform[n].by \in cut
    \/ work.by = platform[n].by /\ work.at = "verify"
    \/ \E v : Verifications(platform[n].by) = {v}
\* No stored answer goes by the decision of the call at work.
Stored == \A c \in Calls : entries[c].state = "done" =>
    Tells(c, entries[c].answer, entries[c].by) /\ entries[c].by # work.by
OnRecord == Linked /\ InOrder /\ ExecutedWasAllowed /\ Recorded /\ Stored

LEMMA InitOnRecord == Init => OnRecord
  BY DEF Init, OnRecord, Linked, InOrder, ExecutedWasAllowed, Recorded, Stored, Idle, NoEntry

\* Appending to the chain keeps what is on it, and adds at most one verification.
LEMMA ChainGrows ==
  ASSUME WellTyped, Linked, NEW e \in Record, chain' = Append(chain, e)
  PROVE  /\ DOMAIN chain' = DOMAIN chain \cup {Len(chain) + 1}
         /\ Len(chain') = Len(chain) + 1
         /\ \A i \in DOMAIN chain : chain'[i] = chain[i] /\ chain[i] \in Record
         /\ chain'[Len(chain) + 1] = e
         /\ DOMAIN chain = 1..Len(chain) /\ Len(chain) \in Nat
         /\ \A by : ~(e.kind = "verification" /\ e.of = by) => Verifications(by)' = Verifications(by)
         /\ \A by : e.kind = "verification" /\ e.of = by =>
                    Verifications(by)' = Verifications(by) \cup {Len(chain) + 1}
<1>1. chain \in Seq(Record)
  BY DEF WellTyped, TypeOK
<1>2. /\ DOMAIN chain' = DOMAIN chain \cup {Len(chain) + 1}
      /\ \A i \in DOMAIN chain : chain'[i] = chain[i] /\ chain[i] \in Record
      /\ chain'[Len(chain) + 1] = e
      /\ Len(chain') = Len(chain) + 1
      /\ DOMAIN chain = 1..Len(chain) /\ Len(chain) \in Nat
  BY <1>1, AppendIs
<1> QED
  BY <1>2 DEF Verifications

\* A chain that keeps its records keeps what an answer tells, if nothing is added
\* to the verifications of its decision.
LEMMA TellsStill ==
  ASSUME NEW c, NEW answer, NEW by, Tells(c, answer, by), reviews \subseteq DOMAIN chain,
         \A i \in DOMAIN chain : i \in DOMAIN chain' /\ chain'[i] = chain[i],
         Verifications(by)' = Verifications(by),
         by \in reviews' <=> by \in reviews
  PROVE  Tells(c, answer, by)'
<1>1. \A v \in Verifications(by) : v \in DOMAIN chain
  BY DEF Verifications
<1> QED
  BY <1>1 DEF Tells

LEMMA NoRecordZero == WellTyped => 0 \notin DOMAIN chain
<1> SUFFICES ASSUME WellTyped PROVE 0 \notin DOMAIN chain
  OBVIOUS
<1>1. chain \in Seq(Record)
  BY DEF WellTyped, TypeOK
<1> QED
  BY <1>1

\* Steps that end the call at work and leave chain and platform alone.
LEMMA EndKeepsRecord ==
  ASSUME WellTyped, OnRecord, NEW left, Ends(left),
         \A c \in Calls : left[c].state = "done" => left[c] = entries[c],
         UNCHANGED <<chain, reviews, platform>>
  PROVE  OnRecord'
<1>1. work' = Idle /\ entries' = left /\ cut' = cut \cup ({work.by} \ {0})
  BY DEF Ends
<1>2. Linked' /\ ExecutedWasAllowed'
  BY DEF OnRecord, Linked, ExecutedWasAllowed
<1>3. InOrder'
  BY <1>1 DEF InOrder, Idle
<1>4. Recorded'
  <2>1. \A n \in DOMAIN platform : platform[n].by # 0
    BY NoRecordZero DEF OnRecord, ExecutedWasAllowed
  <2> QED
    BY <1>1, <2>1 DEF OnRecord, Recorded, Verifications
<1>5. Stored'
  <2> SUFFICES ASSUME NEW c \in Calls, (entries[c].state = "done")'
               PROVE  (Tells(c, entries[c].answer, entries[c].by) /\ entries[c].by # work.by)'
    BY DEF Stored
  <2>1. entries'[c] = entries[c] /\ entries[c].state = "done"
    BY <1>1
  <2>2. Tells(c, entries[c].answer, entries[c].by)
    BY <2>1 DEF OnRecord, Stored
  <2>3. entries[c].by # 0
    BY <2>2, NoRecordZero DEF Tells
  <2> QED
    BY <1>1, <2>1, <2>2, <2>3 DEF Tells, Verifications, Idle
<1> QED
  BY <1>2, <1>3, <1>4, <1>5 DEF OnRecord

\* The platform executes the call at work, whose decision nothing was executed by.
LEMMA ExecutionIsAllowed ==
  ASSUME WellTyped, OnRecord, work.at = "execute", platform' = Effect, chain' = chain
  PROVE  /\ ExecutedWasAllowed'
         /\ \A n \in DOMAIN platform' : platform'[n].by = work.by \/
               (n \in DOMAIN platform /\ platform'[n] = platform[n])
<1> DEFINE e == [call |-> work.call, by |-> work.by, keyed |-> work.keyed, boot |-> crashes]
<1>1. e \in Execution /\ platform \in Seq(Execution)
  BY DEF WellTyped, TypeOK, Serves, Work, Execution
<1>2. /\ DOMAIN platform' = DOMAIN platform \cup {Len(platform) + 1}
      /\ \A i \in DOMAIN platform : platform'[i] = platform[i]
      /\ platform'[Len(platform) + 1] = e
  BY <1>1, AppendIs DEF Effect
<1>3. /\ work.by \in DOMAIN chain /\ chain[work.by].kind = "decision"
      /\ chain[work.by].call = work.call /\ chain[work.by].decision = "ALLOW"
      /\ \A n \in DOMAIN platform : platform[n].by # work.by
  BY DEF WellTyped, Serves, OnRecord, InOrder
<1>4. ExecutedWasAllowed'
  BY <1>2, <1>3 DEF OnRecord, ExecutedWasAllowed
<1> QED
  BY <1>2, <1>4

LEMMA StepOnRecord == WellTyped /\ OnRecord /\ [Next]_vars => OnRecord'
<1> SUFFICES ASSUME WellTyped, OnRecord, [Next]_vars PROVE OnRecord'
  OBVIOUS
<1> DEFINE Same == UNCHANGED <<chain, reviews, platform, cut>>
<1>0. /\ reviews \subseteq DOMAIN chain /\ entries \in [Calls -> Entry] /\ work \in Work
      /\ work.at # "idle" => work.call \in Calls
      /\ work.at \in {"idle", "evaluate"} <=> work.by = 0
  BY DEF WellTyped, TypeOK, Serves
\* Steps that touch none of chain, reviews, platform and cut.
<1>1. ASSUME Same, InOrder',
             work'.by = work.by \/ work'.by = 0, work.at = "verify" => work' = work,
             \A c \in Calls : (entries[c].state = "done")' =>
                 (Tells(c, entries[c].answer, entries[c].by) /\ entries[c].by # work.by)'
      PROVE  OnRecord'
  <2>1. Linked' /\ ExecutedWasAllowed'
    BY <1>1 DEF OnRecord, Linked, ExecutedWasAllowed
  <2>2. Recorded'
    BY <1>1 DEF OnRecord, Recorded, Verifications
  <2>3. Stored'
    BY <1>1 DEF Stored
  <2> QED
    BY <1>1, <2>1, <2>2, <2>3 DEF OnRecord
\* Among them, those that store no answer.
<1>2. ASSUME Same, InOrder', work'.by = work.by \/ work'.by = 0,
             work.at = "verify" => work' = work,
             \A c \in Calls : (entries[c].state = "done")' => entries'[c] = entries[c]
      PROVE  OnRecord'
  <2> SUFFICES ASSUME NEW c \in Calls, (entries[c].state = "done")'
               PROVE  (Tells(c, entries[c].answer, entries[c].by) /\ entries[c].by # work.by)'
    BY <1>1, <1>2
  <2>1. entries'[c] = entries[c] /\ entries[c].state = "done"
    BY <1>2
  <2>2. Tells(c, entries[c].answer, entries[c].by) /\ entries[c].by # work.by
    BY <2>1 DEF OnRecord, Stored
  <2>3. entries[c].by # 0
    BY <2>2, NoRecordZero DEF Tells
  <2> QED
    BY <1>2, <2>1, <2>2, <2>3 DEF Tells, Verifications
<1>3. ASSUME NEW c \in Calls, NEW keyed \in BOOLEAN, Deliver(c, keyed) PROVE OnRecord'
  <2>1. Same /\ (work' = work \/ (work'.at = "evaluate" /\ work'.by = 0)) /\ work.at = "idle"
    BY <1>3 DEF Deliver, Idle
  <2>2. \A d \in Calls : (entries[d].state = "done")' => entries'[d] = entries[d]
    BY <1>0, <1>3 DEF Deliver, Entry
  <2>3. InOrder'
    BY <1>0, <2>1 DEF InOrder
  <2> QED
    BY <1>2, <2>1, <2>2, <2>3
<1>4. CASE Complete
  <2>1. Same /\ work' = Idle /\ work.at = "complete"
    BY <1>4 DEF Complete
  <2>2. InOrder'
    BY <2>1 DEF InOrder, Idle
  <2>3. Tells(work.call, work.answer, work.by) /\ work.by # 0
    BY <1>0, <2>1 DEF OnRecord, InOrder
  <2> SUFFICES ASSUME NEW c \in Calls, (entries[c].state = "done")'
               PROVE  (Tells(c, entries[c].answer, entries[c].by) /\ entries[c].by # work.by)'
    BY <1>1, <2>1, <2>2 DEF Idle
  <2>4. CASE work.keyed /\ c = work.call
    <3>1. entries'[c].answer = work.answer /\ entries'[c].by = work.by
      BY <1>0, <1>4, <2>4 DEF Complete
    <3> QED
      BY <2>1, <2>3, <2>4, <3>1 DEF Tells, Verifications, Idle
  <2>5. CASE ~(work.keyed /\ c = work.call)
    <3>1. entries'[c] = entries[c]
      BY <1>0, <1>4, <2>5 DEF Complete
    <3>2. Tells(c, entries[c].answer, entries[c].by)
      BY <3>1 DEF OnRecord, Stored
    <3>3. entries[c].by # 0
      BY <3>2, NoRecordZero DEF Tells
    <3> QED
      BY <2>1, <3>1, <3>2, <3>3 DEF Tells, Verifications, Idle
  <2> QED
    BY <2>4, <2>5
<1>5. CASE Invalid \/ Raises \/ NoOrder \/ HoldFails
  <2>1. UNCHANGED <<chain, reviews, platform>> /\ (Ends(Kept) \/ Ends(Released))
    BY <1>5 DEF Invalid, Raises, NoOrder, HoldFails
  <2>2. \A c \in Calls : Released[c].state = "done" => Released[c] = entries[c]
    BY <1>0 DEF Released, NoEntry
  <2> QED
    BY <2>1, <2>2, EndKeepsRecord DEF Kept
<1>6. ASSUME NEW d \in {"ALLOW", "REVIEW", "BLOCK"}, Evaluate(d) PROVE OnRecord'
  <2> DEFINE e == [kind |-> "decision", call |-> work.call, decision |-> d, of |-> 0, status |-> "none"]
             n == Len(chain) + 1
  <2>1. /\ work.at = "evaluate" /\ chain' = Append(chain, e) /\ e \in Record
        /\ UNCHANGED <<reviews, entries, platform, cut>> /\ Linked
    BY <1>0, <1>6 DEF Evaluate, Record, OnRecord
  <2>2. /\ DOMAIN chain' = DOMAIN chain \cup {n} /\ Len(chain') = n /\ chain'[n] = e
        /\ \A i \in DOMAIN chain : chain'[i] = chain[i] /\ chain[i] \in Record
        /\ DOMAIN chain = 1..Len(chain) /\ Len(chain) \in Nat
        /\ \A by : Verifications(by)' = Verifications(by)
    BY <2>1, ChainGrows
  <2>3. work' = [work EXCEPT !.at = Dispatch(d), !.by = n]
    BY <1>6, <2>2 DEF Evaluate
  <2>4. n \notin DOMAIN chain
    BY <2>2
  <2>5. Linked'
    BY <2>1, <2>2 DEF Linked, Record
  <2>6. Verifications(n) = {}
    BY <2>1, <2>2 DEF Verifications, Linked, Record
  <2>7. InOrder'
    <3>1. /\ work'.at = Dispatch(d) /\ work'.by = n /\ work'.call = work.call
      BY <1>0, <2>3 DEF Work
    <3>2. \A m \in DOMAIN platform' : platform'[m].by # n
      BY <2>1, <2>4 DEF OnRecord, ExecutedWasAllowed
    <3>4. (Verifications(work.by) = {})'
      BY <2>2, <2>6, <3>1 DEF Verifications
    <3> QED
      BY <2>2, <3>1, <3>2, <3>4 DEF InOrder, Dispatch
  <2>8. ExecutedWasAllowed'
    BY <2>1, <2>2 DEF OnRecord, ExecutedWasAllowed
  <2>9. Recorded'
    <3> SUFFICES ASSUME NEW m \in DOMAIN platform, platform[m].by \notin cut
                 PROVE  \E v : Verifications(platform[m].by)' = {v}
      BY <2>1 DEF Recorded, Verifications
    <3>1. PICK by : by = platform[m].by
      OBVIOUS
    <3>2. \E v : Verifications(by) = {v}
      BY <2>1, <3>1 DEF OnRecord, Recorded
    <3>3. \E v : Verifications(by)' = {v}
      BY <2>2, <3>2
    <3> QED
      BY <2>1, <3>1, <3>3 DEF Verifications
  <2>10. Stored'
    <3> SUFFICES ASSUME NEW c \in Calls, (entries[c].state = "done")'
                 PROVE  (Tells(c, entries[c].answer, entries[c].by) /\ entries[c].by # work.by)'
      BY DEF Stored
    <3>1. entries' = entries /\ Tells(c, entries[c].answer, entries[c].by)
      BY <2>1 DEF OnRecord, Stored
    <3>2. PICK answer, by : answer = entries[c].answer /\ by = entries[c].by
      OBVIOUS
    <3>3. Tells(c, answer, by) /\ by \in DOMAIN chain
      BY <3>1, <3>2 DEF Tells
    <3>4. by # n
      BY <2>4, <3>3
    <3>5. Tells(c, answer, by)'
      BY <1>0, <2>1, <2>2, <3>3, TellsStill
    <3> QED
      BY <1>0, <2>3, <3>1, <3>2, <3>4, <3>5 DEF Tells, Work
  <2> QED
    BY <2>5, <2>7, <2>8, <2>9, <2>10 DEF OnRecord
<1>7. ASSUME NEW r \in Amounts \cup {None}, Execute(r) PROVE OnRecord'
  <2>1. /\ work.at = "execute" /\ platform' = Effect /\ UNCHANGED <<chain, reviews, entries, cut>>
        /\ work' = [work EXCEPT !.at = "verify", !.reported = r]
    BY <1>7 DEF Execute
  <2>2. work'.at = "verify" /\ work'.by = work.by /\ work'.call = work.call
    BY <1>0, <2>1 DEF Work
  <2>3. /\ ExecutedWasAllowed'
        /\ \A n \in DOMAIN platform' : platform'[n].by = work.by \/
              (n \in DOMAIN platform /\ platform'[n] = platform[n])
    BY <2>1, ExecutionIsAllowed
  <2>4. Recorded'
    BY <2>1, <2>2, <2>3 DEF OnRecord, Recorded, Verifications
  <2>5. InOrder'
    BY <1>0, <2>1, <2>2 DEF OnRecord, InOrder, Verifications
  <2>6. Linked' /\ Stored'
    BY <2>1, <2>2 DEF OnRecord, Linked, Stored, Tells, Verifications
  <2> QED
    BY <2>3, <2>4, <2>5, <2>6 DEF OnRecord
<1>8. CASE ExecuteNothing
  <2>1. /\ Same /\ UNCHANGED entries /\ work.at = "execute" /\ work' = [work EXCEPT !.at = "verify"]
    BY <1>8 DEF ExecuteNothing, Goes
  <2>2. work'.at = "verify" /\ work'.by = work.by /\ work'.call = work.call
    BY <1>0, <2>1 DEF Work
  <2>3. InOrder'
    BY <1>0, <2>1, <2>2 DEF OnRecord, InOrder, Verifications
  <2> QED
    BY <1>2, <2>1, <2>2, <2>3
<1>9. CASE ExecuteFails
  <2>1. /\ work.at = "execute" /\ Ends(Kept) /\ UNCHANGED <<chain, reviews>>
        /\ platform' = platform \/ platform' = Effect
    BY <1>9 DEF ExecuteFails
  <2>2. CASE platform' = platform
    BY <2>1, <2>2, EndKeepsRecord DEF Kept
  <2>3. CASE platform' = Effect
    <3>1. /\ work' = Idle /\ entries' = entries /\ cut' = cut \cup {work.by}
      BY <1>0, <2>1 DEF Ends, Kept
    <3>2. /\ ExecutedWasAllowed'
          /\ \A n \in DOMAIN platform' : platform'[n].by = work.by \/
                (n \in DOMAIN platform /\ platform'[n] = platform[n])
      BY <2>1, <2>3, ExecutionIsAllowed
    <3>3. Recorded'
      <4> SUFFICES ASSUME NEW m \in DOMAIN platform', platform'[m].by \notin cut'
                   PROVE  (\E v : Verifications(platform[m].by) = {v})'
        BY DEF Recorded
      <4>1. platform'[m] = platform[m] /\ m \in DOMAIN platform /\ platform[m].by \notin cut
        BY <3>1, <3>2
      <4>2. \E v : Verifications(platform[m].by) = {v}
        BY <2>1, <4>1 DEF OnRecord, Recorded
      <4> QED
        BY <2>1, <4>1, <4>2 DEF Verifications
    <3>4. InOrder'
      BY <3>1 DEF InOrder, Idle
    <3>5. Linked'
      BY <2>1 DEF OnRecord, Linked
    <3>6. Stored'
      <4> SUFFICES ASSUME NEW c \in Calls, (entries[c].state = "done")'
                   PROVE  (Tells(c, entries[c].answer, entries[c].by) /\ entries[c].by # work.by)'
        BY DEF Stored
      <4>1. Tells(c, entries[c].answer, entries[c].by)
        BY <3>1 DEF OnRecord, Stored
      <4>2. entries[c].by # 0
        BY <4>1, NoRecordZero DEF Tells
      <4> QED
        BY <2>1, <3>1, <4>1, <4>2 DEF Tells, Verifications, Idle
    <3> QED
      BY <3>2, <3>3, <3>4, <3>5, <3>6 DEF OnRecord
  <2> QED
    BY <2>1, <2>2, <2>3
<1>10. CASE Hold \/ RefuseCall
  <2>1. /\ Same /\ UNCHANGED entries /\ work'.at = "complete" /\ work'.by = work.by
        /\ work'.call = work.call
        /\ \/ work.at = "hold" /\ work'.answer = "held"
           \/ work.at = "refuse" /\ work'.answer = "refused"
    BY <1>0, <1>10 DEF Hold, RefuseCall, Work
  <2>2. /\ work.by \in DOMAIN chain /\ chain[work.by].call = work.call /\ Verifications(work.by) = {}
        /\ work.at = "hold" => chain[work.by].decision = "REVIEW" /\ work.by \in reviews
        /\ work.at = "refuse" => chain[work.by].decision = "BLOCK"
    BY <1>0, <2>1 DEF OnRecord, InOrder
  <2>3. InOrder'
    BY <2>1, <2>2 DEF OnRecord, InOrder, Tells, Verifications
  <2> QED
    BY <1>2, <2>1, <2>3
<1>13. CASE Verify(Compared(work.call, work.reported))
  <2> DEFINE status == Compared(work.call, work.reported)
             n == Len(chain) + 1
             e == [kind |-> "verification", call |-> work.call,
                   decision |-> IF status = "mismatch" THEN "BLOCK" ELSE "ALLOW",
                   of |-> work.by, status |-> status]
  <2>0. status \in {"unverified", "unknown", "verified", "mismatch"}
    BY DEF Compared
  <2>1. /\ work.at = "verify" /\ chain' = Append(chain, e) /\ e \in Record
        /\ UNCHANGED <<reviews, entries, platform, cut>> /\ Linked
    BY <1>0, <1>13, <2>0 DEF Verify, Record, OnRecord, Work
  <2>2. /\ DOMAIN chain' = DOMAIN chain \cup {n} /\ Len(chain') = n /\ chain'[n] = e
        /\ \A i \in DOMAIN chain : chain'[i] = chain[i] /\ chain[i] \in Record
        /\ DOMAIN chain = 1..Len(chain) /\ Len(chain) \in Nat
        /\ \A by : by # work.by => Verifications(by)' = Verifications(by)
        /\ \A by : by = work.by => Verifications(by)' = Verifications(by) \cup {n}
    BY <2>1, ChainGrows
  <2>3. /\ work'.at = "complete" /\ work'.by = work.by /\ work'.call = work.call
        /\ work'.answer = IF status = "mismatch" THEN "executed_with_mismatch" ELSE "executed"
    BY <1>0, <1>13 DEF Verify, Work
  <2>4. /\ work.by \in DOMAIN chain /\ chain[work.by].kind = "decision"
        /\ chain[work.by].call = work.call /\ chain[work.by].decision = "ALLOW"
        /\ Verifications(work.by) = {}
    BY <1>0, <2>1 DEF OnRecord, InOrder
  <2>5. PICK at : at = work.by
    OBVIOUS
  <2>6. Verifications(at)' = {n}
    BY <2>2, <2>4, <2>5
  <2>7. Linked'
    BY <2>1, <2>2, <2>4 DEF Linked, Record
  <2>8. InOrder'
    <3>1. (\E v \in Verifications(at)' : chain'[v].status = "mismatch") <=> status = "mismatch"
      BY <2>2, <2>6
    <3>2. Tells(work.call, work.answer, at)'
      BY <2>1, <2>2, <2>3, <2>4, <2>5, <3>1 DEF Tells
    <3> QED
      BY <2>2, <2>3, <2>4, <2>5, <3>2 DEF InOrder, Tells
  <2>9. ExecutedWasAllowed'
    BY <2>1, <2>2 DEF OnRecord, ExecutedWasAllowed
  <2>10. Recorded'
    <3> SUFFICES ASSUME NEW m \in DOMAIN platform, platform[m].by \notin cut
                 PROVE  \E v : Verifications(platform[m].by)' = {v}
      BY <2>1 DEF Recorded, Verifications
    <3>1. PICK by : by = platform[m].by
      OBVIOUS
    <3>2. \E v : Verifications(by)' = {v}
      <4>1. CASE by = work.by
        BY <2>5, <2>6, <4>1
      <4>2. CASE by # work.by
        <5>1. \E v : Verifications(by) = {v}
          BY <3>1, <4>2 DEF OnRecord, Recorded
        <5> QED
          BY <2>2, <4>2, <5>1
      <4> QED
        BY <4>1, <4>2
    <3> QED
      BY <2>1, <3>1, <3>2 DEF Verifications
  <2>11. Stored'
    <3> SUFFICES ASSUME NEW c \in Calls, (entries[c].state = "done")'
                 PROVE  (Tells(c, entries[c].answer, entries[c].by) /\ entries[c].by # work.by)'
      BY DEF Stored
    <3>1. /\ entries' = entries /\ Tells(c, entries[c].answer, entries[c].by)
          /\ entries[c].by # work.by
      BY <2>1 DEF OnRecord, Stored
    <3>2. PICK answer, by : answer = entries[c].answer /\ by = entries[c].by
      OBVIOUS
    <3>3. Tells(c, answer, by) /\ by # work.by
      BY <3>1, <3>2 DEF Tells
    <3>4. Tells(c, answer, by)'
      BY <1>0, <2>1, <2>2, <3>3, TellsStill
    <3> QED
      BY <2>3, <3>1, <3>2, <3>3, <3>4 DEF Tells
  <2> QED
    BY <2>7, <2>8, <2>9, <2>10, <2>11 DEF OnRecord
<1>14. ASSUME NEW e \in Executor, Register(e) PROVE OnRecord'
  <2>1. Same /\ UNCHANGED <<work, entries>>
    BY <1>14 DEF Register
  <2>2. InOrder'
    BY <2>1 DEF OnRecord, InOrder, Tells, Verifications
  <2> QED
    BY <1>2, <2>1, <2>2
<1>15. CASE Crash
  <2> DEFINE left == [c \in Calls |-> NoEntry]
  <2>1. Ends(left) /\ UNCHANGED <<chain, reviews, platform>>
    BY <1>15 DEF Crash
  <2>2. \A c \in Calls : left[c].state # "done"
    BY DEF NoEntry
  <2> QED
    BY <2>1, <2>2, EndKeepsRecord
<1>17. CASE CreateReview
  <2>1. /\ work.at = "queue" /\ work' = [work EXCEPT !.at = "hold"]
        /\ reviews' = reviews \cup {work.by}
        /\ UNCHANGED <<chain, entries, platform, cut>>
    BY <1>17 DEF CreateReview, Goes
  <2>2. work'.at = "hold" /\ work'.by = work.by /\ work'.call = work.call
    BY <1>0, <2>1 DEF Work
  <2>3. InOrder'
    BY <1>0, <2>1, <2>2 DEF OnRecord, InOrder, Verifications
  <2>4. Linked' /\ ExecutedWasAllowed'
    BY <2>1 DEF OnRecord, Linked, ExecutedWasAllowed
  <2>5. Recorded'
    BY <2>1, <2>2 DEF OnRecord, Recorded, Verifications
  <2>6. Stored'
    BY <2>1, <2>2 DEF OnRecord, Stored, Tells, Verifications
  <2> QED
    BY <2>3, <2>4, <2>5, <2>6 DEF OnRecord
<1>16. CASE UNCHANGED vars
  <2>1. Same /\ UNCHANGED <<work, entries>>
    BY <1>16 DEF vars
  <2>2. InOrder'
    BY <2>1 DEF OnRecord, InOrder, Tells, Verifications
  <2> QED
    BY <1>2, <2>1, <2>2
<1> QED
  BY <1>3, <1>4, <1>5, <1>6, <1>7, <1>8, <1>9, <1>10, <1>13, <1>14, <1>15, <1>16, <1>17 DEF Next

(* Whatever fails, is retried or is cut short, a platform executes only what *)
(* the firewall has allowed before, once per decision.                       *)
THEOREM ExecutedWasAllowedHolds == Spec => []ExecutedWasAllowed
<1>1. Init => WellTyped /\ OnRecord
  BY InitWellTyped, InitOnRecord
<1>2. WellTyped /\ OnRecord /\ [Next]_vars => (WellTyped /\ OnRecord)'
  BY StepWellTyped, StepOnRecord
<1>3. WellTyped /\ OnRecord => ExecutedWasAllowed
  BY DEF OnRecord
<1> QED
  BY <1>1, <1>2, <1>3, PTL DEF Spec

LEMMA RecordIsEnough == WellTyped /\ OnRecord => EffectsAreOnRecord
<1> SUFFICES ASSUME WellTyped, OnRecord PROVE EffectsAreOnRecord
  OBVIOUS
<1>1. ASSUME NEW n \in DOMAIN platform, platform[n].by \notin cut,
             ~(work.by = platform[n].by /\ work.at = "verify")
      PROVE  Cardinality(Verifications(platform[n].by)) = 1
  <2>1. PICK v : Verifications(platform[n].by) = {v}
    BY <1>1 DEF OnRecord, Recorded
  <2> QED
    BY <2>1, FS_Singleton
<1>2. ASSUME NEW c \in Calls, entries[c].state = "done"
      PROVE  Tells(c, entries[c].answer, entries[c].by)
  BY <1>2 DEF OnRecord, Stored
<1> QED
  BY <1>1, <1>2 DEF EffectsAreOnRecord, Tells

(* Every execution that is not cut short is verified once, and every stored  *)
(* answer agrees with decision, verification and queue.                      *)
THEOREM EffectsAreOnRecordHolds == Spec => []EffectsAreOnRecord
<1>1. Init => WellTyped /\ OnRecord
  BY InitWellTyped, InitOnRecord
<1>2. WellTyped /\ OnRecord /\ [Next]_vars => (WellTyped /\ OnRecord)'
  BY StepWellTyped, StepOnRecord
<1> QED
  BY <1>1, <1>2, RecordIsEnough, PTL DEF Spec
=============================================================================
