--------------------------- MODULE AgentLifecycle ---------------------------
(***************************************************************************)
(* Credentials and containment of agents: CredentialAuthority (issue,      *)
(* verify, revoke, pause, resume, quarantine, the kill switch and its      *)
(* undoing) and what FirewallEngine.evaluate makes of them.                *)
(*                                                                         *)
(* The authority lives in the memory of the API process, whose handlers    *)
(* run one after the other: one action is one request.  A restart makes a  *)
(* new signing key, so it forgets every agent and voids every credential.  *)
(***************************************************************************)
EXTENDS Naturals, FiniteSets

CONSTANTS Agents,
          Mode,         \* credential_mode: "optional" (default), "strict" (production)
          None          \* nobody

ASSUME ModeIsOne == Mode \in {"optional", "strict"}
ASSUME NoneIsNobody == None \notin Agents

VARIABLES known,        \* agents a credential was ever issued for
          valid,        \* agents with a credential that has not expired
          revoked,      \* _revoked
          state,        \* _states, "active" for an agent that is not in it
          preKill,      \* _pre_kill_active
          last,         \* the last evaluation, if nothing has happened since
          \* History, kept from what the operators have asked for and never from what
          \* the authority has made of it:
          stopped,      \* paused, alone or by the switch, and not let go since
          contained,    \* put in quarantine, and not singled out by another order since
          dead,         \* revoked at any time since the start
          switched,     \* whom the last press of the kill switch was to pause
          held          \* not active at its last press, and untouched since

vars == <<known, valid, revoked, state, preKill, last, stopped, contained, dead,
          switched, held>>

Decisions == {"ALLOW", "REVIEW", "BLOCK"}
NoEvaluation == [agent |-> None, holder |-> None, sensitive |-> FALSE, outcome |-> "none"]

Init ==
    /\ known = {}
    /\ valid = {}
    /\ revoked = {}
    /\ state = [a \in Agents |-> "active"]
    /\ preKill = {}
    /\ last = NoEvaluation
    /\ stopped = {}
    /\ contained = {}
    /\ dead = {}
    /\ switched = {}
    /\ held = {}
----------------------------------------------------------------------------
(* What operators do.                                                       *)

Set(a, s) == state' = [state EXCEPT ![a] = s]

\* Whatever the kill switch has done to an agent, somebody now decides otherwise.
Touch(a) ==
    /\ held' = held \ {a}
    /\ last' = NoEvaluation

\* A new credential as a pardon.
IssueAfresh(a) ==
    /\ known' = known \cup {a}
    /\ valid' = valid \cup {a}
    /\ revoked' = revoked \ {a}
    /\ Set(a, "active")
    /\ stopped' = stopped \ {a}
    /\ contained' = contained \ {a}
    /\ Touch(a)
    /\ UNCHANGED <<preKill, dead, switched>>

\* Issuing resets the lifecycle state, and leaves a revocation in force.
Issue(a) ==
    /\ known' = known \cup {a}
    /\ valid' = valid \cup {a}
    /\ Set(a, "active")
    /\ stopped' = stopped \ {a}
    /\ contained' = contained \ {a}
    /\ Touch(a)
    /\ UNCHANGED <<revoked, preKill, dead, switched>>

Revoke(a) ==
    /\ revoked' = revoked \cup {a}
    /\ dead' = dead \cup {a}
    /\ Set(a, "active")
    /\ stopped' = stopped \ {a}
    /\ contained' = contained \ {a}
    /\ Touch(a)
    /\ UNCHANGED <<known, valid, preKill, switched>>

\* Pausing an agent that is paused already changes nothing.
Pause(a) ==
    /\ Set(a, "paused")
    /\ stopped' = stopped \cup {a}
    /\ contained' = contained \ {a}
    /\ IF state[a] = "paused" THEN UNCHANGED held /\ last' = NoEvaluation
                             ELSE Touch(a)
    /\ UNCHANGED <<known, valid, revoked, preKill, dead, switched>>

Resume(a) ==
    /\ Set(a, "active")
    /\ stopped' = stopped \ {a}
    /\ contained' = contained \ {a}
    /\ Touch(a)
    /\ UNCHANGED <<known, valid, revoked, preKill, dead, switched>>

\* An agent in quarantine is let in: its credential verifies.  What is held for a
\* human is what a request does in its name, whosever credential comes with it.
Quarantine(a) ==
    /\ Set(a, "quarantined")
    /\ stopped' = stopped \ {a}
    /\ contained' = contained \cup {a}
    /\ Touch(a)
    /\ UNCHANGED <<known, valid, revoked, preKill, dead, switched>>

EveryAgent == {a \in Agents : state[a] = "active" /\ a \notin revoked}
WhateverTheirState == known \ revoked
\* Those the switch pauses.
PreviouslyActive == {a \in known : state[a] = "active" /\ a \notin revoked}

KillSwitch ==
    /\ state' = [a \in Agents |-> IF a \in PreviouslyActive THEN "paused" ELSE state[a]]
    /\ preKill' = PreviouslyActive
    /\ switched' = known \ (dead \cup contained \cup stopped)
    /\ stopped' = stopped \cup (known \ (dead \cup contained))
    /\ held' = {a \in Agents : state[a] # "active"}
    /\ last' = NoEvaluation
    /\ UNCHANGED <<known, valid, revoked, contained, dead>>

WhoeverItPaused == preKill
\* Those resume_all lets go: what the last press has paused and is paused still.
StillPaused == {a \in preKill : state[a] = "paused"}

ResumeAll ==
    /\ state' = [a \in Agents |-> IF a \in StillPaused THEN "active" ELSE state[a]]
    /\ preKill' = {}
    /\ stopped' = stopped \ switched
    /\ switched' = {}
    /\ held' = {}
    /\ last' = NoEvaluation
    /\ UNCHANGED <<known, valid, revoked, contained, dead>>
----------------------------------------------------------------------------
(* What agents do.                                                          *)

\* verify: the signature and the expiry, the revocation, the state.
SignedAndCurrent(a) == a \in valid /\ a \notin revoked
Verifies(a) ==
    /\ a \in valid
    /\ a \notin revoked
    /\ state[a] # "paused"

\* No brand has registered a secret for its mandates, so none verifies.
MandateVerifies == FALSE

\* _resolve_identity: only the strict mode insists on what is presented, the
\* credential of holder, or of nobody, and perhaps a mandate.
Admitted(holder, mandate) ==
    Mode = "strict" =>
        /\ holder # None \/ mandate
        /\ holder # None => Verifies(holder)
        /\ mandate => MandateVerifies

\* An action that is not a read, of an agent in quarantine, goes to a human.
Contained(a, sensitive, decision) ==
    IF state[a] = "quarantined" /\ sensitive /\ decision = "ALLOW" THEN "REVIEW" ELSE decision

\* evaluate, where policy and risk come to some decision.  The state it looks up
\* is that of the agent the request names, who need not be the holder.  Bound: one
\* evaluation between two changes, since evaluations change nothing they read.
Evaluate(a, holder, mandate, sensitive, decision) ==
    /\ last = NoEvaluation
    /\ last' = [agent |-> a, holder |-> holder, sensitive |-> sensitive,
                outcome |-> IF Admitted(holder, mandate)
                            THEN Contained(a, sensitive, decision) ELSE "refused"]
    /\ UNCHANGED <<known, valid, revoked, state, preKill, stopped, contained, dead,
                   switched, held>>

\* The TTL of the last credential of an agent passes.
Expire(a) ==
    /\ a \in valid
    /\ valid' = valid \ {a}
    /\ last' = NoEvaluation
    /\ UNCHANGED <<known, revoked, state, preKill, stopped, contained, dead, switched,
                   held>>

Restart ==
    /\ known' = {} /\ valid' = {} /\ revoked' = {} /\ preKill' = {}
    /\ state' = [a \in Agents |-> "active"]
    /\ last' = NoEvaluation
    /\ stopped' = {} /\ contained' = {} /\ dead' = {} /\ switched' = {} /\ held' = {}

Operate ==
    \/ \E a \in Agents :
        \/ Issue(a)
        \/ Revoke(a)
        \/ Pause(a)
        \/ Resume(a)
        \/ Quarantine(a)
    \/ KillSwitch
    \/ ResumeAll

Next ==
    \/ Operate
    \/ \E a \in Agents, holder \in Agents \cup {None}, mandate, sensitive \in BOOLEAN,
         d \in Decisions : Evaluate(a, holder, mandate, sensitive, d)
    \/ \E a \in Agents : Expire(a)
    \/ Restart

Spec == Init /\ [][Next]_vars
----------------------------------------------------------------------------
TypeOK ==
    /\ known \subseteq Agents /\ valid \subseteq known /\ revoked \subseteq Agents
    /\ state \in [Agents -> {"active", "paused", "quarantined"}]
    /\ preKill \subseteq known
    /\ last \in [agent : Agents, holder : Agents \cup {None}, sensitive : BOOLEAN,
                 outcome : Decisions \cup {"refused"}]
                   \cup {NoEvaluation}
    /\ stopped \subseteq Agents /\ contained \subseteq Agents
    /\ dead \subseteq Agents
    /\ switched \subseteq Agents
    /\ held \subseteq Agents

(* The credential of an agent that was stopped opens nothing until somebody   *)
(* resumes, re-issues or quarantines that agent or undoes the press that has  *)
(* stopped it; that of an agent once revoked opens nothing any more, however  *)
(* often one is issued.  No sequence of the other operations lets an agent    *)
(* slip out, and no mandate stands in for the credential (strict mode).       *)
StoppedIsRefused ==
    Mode = "strict" /\ last.agent # None /\ last.outcome # "refused" =>
        last.holder \in valid \ (stopped \cup dead)

(* Nothing sensitive is allowed in the name of an agent put in quarantine     *)
(* until an operator has resumed, paused, revoked or re-issued that very      *)
(* agent: kill switch, resume_all, an expiry or whosever credential comes     *)
(* with the request do not end it, in either mode (test_followups.py:209,     *)
(* "quarantine survives kill switch cycle").                                  *)
QuarantineHolds ==
    last.agent \in contained /\ last.sensitive => last.outcome # "ALLOW"

(* Pressing the kill switch and undoing it leaves alone whoever was paused   *)
(* or in quarantine before, whatever happens to the others in between.       *)
RestoreSparesTheHeld ==
    [][ResumeAll => \A a \in held : state'[a] = state[a]]_vars
=============================================================================
