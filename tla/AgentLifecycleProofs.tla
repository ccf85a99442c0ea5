------------------------ MODULE AgentLifecycleProofs ------------------------
(***************************************************************************)
(* Theorems about AgentLifecycle, for any set of agents.                   *)
(*                                                                         *)
(* The histories say what operators have asked for, the other variables    *)
(* what the authority has made of it; the invariant relates the two.       *)
(***************************************************************************)
EXTENDS AgentLifecycle, TLAPS

\* Whom operators have stopped is paused.
StoppedArePaused == \A a \in stopped : state[a] = "paused"

\* Whom operators have put in quarantine, and nobody else, is in it.
ContainedAreQuarantined == \A a \in Agents : a \in contained <=> state[a] = "quarantined"

DeadAreRevoked == dead = revoked

\* The authority saves nobody at the last press whom it was not to pause then.
SavedWereSwitched == preKill \subseteq switched

\* Whoever was held at the last press is not among those it has paused.
HeldAreSpared == \A a \in held : a \notin preKill

Histories ==
    /\ StoppedArePaused
    /\ ContainedAreQuarantined
    /\ DeadAreRevoked
    /\ SavedWereSwitched
    /\ HeldAreSpared

Inv == TypeOK /\ Histories /\ StoppedIsRefused /\ QuarantineHolds

(* The two properties of the last evaluation hold where there is none.      *)
LEMMA NoEvaluationIsSafe ==
    TypeOK /\ last = NoEvaluation => StoppedIsRefused /\ QuarantineHolds
BY NoneIsNobody DEF NoEvaluation, StoppedIsRefused, QuarantineHolds, TypeOK

LEMMA InvInit == Init => Inv
<1> SUFFICES ASSUME Init PROVE Inv
  OBVIOUS
<1>1. TypeOK
  BY DEF Init, TypeOK
<1>2. Histories
  BY DEF Init, Histories, StoppedArePaused, ContainedAreQuarantined, DeadAreRevoked,
         SavedWereSwitched, HeldAreSpared
<1>3. last = NoEvaluation
  BY DEF Init
<1> QED BY <1>1, <1>2, <1>3, NoEvaluationIsSafe DEF Inv

(* What an operator asks of one agent: its state and its histories change   *)
(* together, those of the others stay.                                      *)
LEMMA OrderStep ==
    ASSUME Inv, NEW a \in Agents,
           Issue(a) \/ Revoke(a) \/ Pause(a) \/ Resume(a) \/ Quarantine(a)
    PROVE  TypeOK' /\ Histories'
<1> USE DEF Inv, Histories, Set, Touch, TypeOK, StoppedArePaused, ContainedAreQuarantined,
            DeadAreRevoked, SavedWereSwitched, HeldAreSpared
<1>1. CASE Issue(a)
  BY <1>1 DEF Issue
<1>2. CASE Revoke(a)
  BY <1>2 DEF Revoke
<1>3. CASE Pause(a)
  BY <1>3 DEF Pause
<1>4. CASE Resume(a)
  BY <1>4 DEF Resume
<1>5. CASE Quarantine(a)
  BY <1>5 DEF Quarantine
<1> QED BY <1>1, <1>2, <1>3, <1>4, <1>5

(* The switch pauses the active ones it knows: they are exactly those that  *)
(* no operator has revoked, stopped or put in quarantine.                   *)
LEMMA KillSwitchStep ==
    ASSUME Inv, KillSwitch PROVE TypeOK' /\ Histories'
<1> USE DEF Inv, Histories, TypeOK
<1>1. PreviouslyActive \subseteq known \ (dead \cup contained \cup stopped)
  BY DEF PreviouslyActive, StoppedArePaused, ContainedAreQuarantined, DeadAreRevoked
<1>2. state' \in [Agents -> {"active", "paused", "quarantined"}]
  BY DEF KillSwitch
<1>3. TypeOK'
  BY <1>1, <1>2 DEF KillSwitch
<1>4. StoppedArePaused'
  <2> SUFFICES ASSUME NEW a \in stopped' PROVE state'[a] = "paused"
    BY DEF StoppedArePaused
  <2>1. a \in Agents
    BY <1>3
  <2>2. CASE a \in stopped
    BY <2>1, <2>2, <1>1 DEF KillSwitch, StoppedArePaused
  <2>3. CASE a \in known \ (dead \cup contained)
    <3>1. a \notin revoked /\ state[a] # "quarantined"
      BY <2>1, <2>3 DEF DeadAreRevoked, ContainedAreQuarantined
    <3>2. state[a] = "paused" \/ a \in PreviouslyActive
      BY <2>1, <2>3, <3>1 DEF PreviouslyActive
    <3> QED BY <2>1, <3>2 DEF KillSwitch
  <2> QED BY <2>2, <2>3 DEF KillSwitch
<1>5. ContainedAreQuarantined'
  BY <1>1 DEF KillSwitch, ContainedAreQuarantined
<1>6. DeadAreRevoked' /\ SavedWereSwitched' /\ HeldAreSpared'
  BY <1>1 DEF KillSwitch, DeadAreRevoked, SavedWereSwitched, HeldAreSpared, PreviouslyActive
<1> QED BY <1>3, <1>4, <1>5, <1>6

(* Undoing lets go only whom the press has paused and who is paused still.  *)
LEMMA ResumeAllStep ==
    ASSUME Inv, ResumeAll PROVE TypeOK' /\ Histories'
<1> USE DEF Inv, Histories, TypeOK
<1>1. StillPaused \subseteq switched /\ \A a \in StillPaused : state[a] = "paused"
  BY DEF StillPaused, SavedWereSwitched
<1>2. state' \in [Agents -> {"active", "paused", "quarantined"}]
  BY DEF ResumeAll
<1>3. TypeOK'
  BY <1>2 DEF ResumeAll
<1>4. StoppedArePaused'
  BY <1>1 DEF ResumeAll, StoppedArePaused
<1>5. ContainedAreQuarantined'
  BY <1>1 DEF ResumeAll, ContainedAreQuarantined
<1>6. DeadAreRevoked' /\ SavedWereSwitched' /\ HeldAreSpared'
  BY DEF ResumeAll, DeadAreRevoked, SavedWereSwitched, HeldAreSpared
<1> QED BY <1>3, <1>4, <1>5, <1>6

LEMMA OtherStep ==
    ASSUME Inv, (\E a \in Agents : Expire(a)) \/ Restart
    PROVE  TypeOK' /\ Histories'
<1> USE DEF Inv, Histories, TypeOK, StoppedArePaused, ContainedAreQuarantined,
            DeadAreRevoked, SavedWereSwitched, HeldAreSpared
<1>1. ASSUME NEW a \in Agents, Expire(a) PROVE TypeOK' /\ Histories'
  BY <1>1 DEF Expire
<1>2. CASE Restart
  BY <1>2 DEF Restart
<1> QED BY <1>1, <1>2

(* Whatever is not an evaluation leaves none behind.                        *)
LEMMA NothingEvaluated ==
    ASSUME Operate \/ (\E a \in Agents : Expire(a)) \/ Restart
    PROVE  last' = NoEvaluation
BY DEF Operate, Issue, Revoke, Pause, Resume, Quarantine, KillSwitch, ResumeAll,
       Expire, Restart, Touch

LEMMA OperationStep ==
    ASSUME Inv, Operate \/ (\E a \in Agents : Expire(a)) \/ Restart
    PROVE  Inv'
<1>1. TypeOK' /\ Histories'
  BY OrderStep, KillSwitchStep, ResumeAllStep, OtherStep DEF Operate
<1>2. StoppedIsRefused' /\ QuarantineHolds'
  <2>1. last' = NoEvaluation
    BY NothingEvaluated
  <2> QED BY <1>1, <2>1, NoneIsNobody
          DEF NoEvaluation, StoppedIsRefused, QuarantineHolds, TypeOK
<1> QED BY <1>1, <1>2 DEF Inv

(* An evaluation reads all this and changes none of it: it is admitted with *)
(* a credential that verifies, and what it does in the name of an agent in  *)
(* quarantine is held.                                                      *)
LEMMA EvaluateStep ==
    ASSUME Inv, NEW a \in Agents, NEW holder \in Agents \cup {None},
           NEW mandate \in BOOLEAN, NEW sensitive \in BOOLEAN, NEW d \in Decisions,
           Evaluate(a, holder, mandate, sensitive, d)
    PROVE  Inv'
<1> USE DEF Inv
<1> DEFINE outcome == IF Admitted(holder, mandate) THEN Contained(a, sensitive, d) ELSE "refused"
<1>1. /\ last' = [agent |-> a, holder |-> holder, sensitive |-> sensitive, outcome |-> outcome]
      /\ UNCHANGED <<known, valid, revoked, state, preKill, stopped, contained, dead,
                     switched, held>>
  BY DEF Evaluate
<1>2. outcome \in Decisions \cup {"refused"}
  BY DEF Contained, Decisions
<1>3. TypeOK' /\ Histories'
  <2> HIDE DEF outcome
  <2> QED BY <1>1, <1>2 DEF TypeOK, Histories, StoppedArePaused, ContainedAreQuarantined,
                            DeadAreRevoked, SavedWereSwitched, HeldAreSpared
<1>4. StoppedIsRefused'
  <2> SUFFICES ASSUME Mode = "strict", outcome # "refused"
               PROVE  holder \in valid \ (stopped \cup dead)
    BY <1>1 DEF StoppedIsRefused
  <2>1. holder # None /\ Verifies(holder)
    BY DEF Admitted, MandateVerifies
  <2> QED BY <2>1 DEF Verifies, Histories, StoppedArePaused, DeadAreRevoked
<1>5. QuarantineHolds'
  <2> SUFFICES ASSUME a \in contained, sensitive, outcome = "ALLOW" PROVE FALSE
    BY <1>1 DEF QuarantineHolds
  <2>1. state[a] = "quarantined"
    BY DEF Histories, ContainedAreQuarantined
  <2> QED BY <2>1 DEF Contained
<1> QED BY <1>3, <1>4, <1>5

LEMMA InvStep == Inv /\ [Next]_vars => Inv'
<1> SUFFICES ASSUME Inv, [Next]_vars PROVE Inv'
  OBVIOUS
<1>1. CASE UNCHANGED vars
  BY <1>1 DEF vars, Inv, TypeOK, Histories, StoppedArePaused, ContainedAreQuarantined,
              DeadAreRevoked, SavedWereSwitched, HeldAreSpared, StoppedIsRefused,
              QuarantineHolds
<1> QED BY <1>1, OperationStep, EvaluateStep DEF Next

(* Every reachable state is well typed; nothing is verified or saved that   *)
(* was never issued.                                                        *)
THEOREM TypeCorrect == Spec => []TypeOK
<1>1. Inv => TypeOK
  BY DEF Inv
<1> QED BY <1>1, InvInit, InvStep, PTL DEF Spec

(* In strict mode only a credential of an agent that is neither stopped nor *)
(* was ever revoked is evaluated, for any number of agents and any sequence *)
(* of operator calls: no kill switch, undoing or re-issue opens a gap.      *)
THEOREM StoppedIsRefusedHolds == Spec => []StoppedIsRefused
<1>1. Inv => StoppedIsRefused
  BY DEF Inv
<1> QED BY <1>1, InvInit, InvStep, PTL DEF Spec

(* From the order that puts an agent in quarantine to the next order that   *)
(* singles it out, nothing sensitive is allowed in its name, in any mode    *)
(* and whatever happens in between.                                         *)
THEOREM QuarantineHoldsThroughout == Spec => []QuarantineHolds
<1>1. Inv => QuarantineHolds
  BY DEF Inv
<1> QED BY <1>1, InvInit, InvStep, PTL DEF Spec

(* Undoing the kill switch leaves alone whoever it found paused or in       *)
(* quarantine and nobody has touched since.                                 *)
THEOREM RestoreSparesTheHeldHolds == Spec => RestoreSparesTheHeld
<1>1. Inv /\ [Next]_vars => [ResumeAll => \A a \in held : state'[a] = state[a]]_vars
  BY DEF Inv, TypeOK, Histories, HeldAreSpared, ResumeAll, StillPaused
<1> QED BY <1>1, InvInit, InvStep, PTL DEF Spec, RestoreSparesTheHeld
=============================================================================
