----------------------------- MODULE PlanProgress -----------------------------
(***************************************************************************)
(* What the execution of plans promises, without processes, approvals,     *)
(* transactions or crashes: a plan is a sequence of steps; a step that is  *)
(* open, with everything before it done, may have its effect once and then *)
(* ends; a mission's verdict follows from its steps and is final.  One     *)
(* that has not been started may be refused, and then never starts.        *)
(***************************************************************************)
EXTENDS Naturals

CONSTANTS PlanMissions, PlanSteps, MissionOf, PositionOf

VARIABLES
    effects,   \* times a step has had its effect
    outcome,   \* of a step: open, ok or failed
    verdict    \* of a mission: open, COMPLETED or FAILED

planVars == <<effects, outcome, verdict>>

PlanInit ==
    /\ effects = [s \in PlanSteps |-> 0]
    /\ outcome = [s \in PlanSteps |-> "open"]
    /\ verdict = [m \in PlanMissions |-> "open"]

\* It is the turn of step s.
OnTurn(s) ==
    /\ outcome[s] = "open" /\ verdict[MissionOf[s]] = "open"
    /\ \A t \in PlanSteps :
          MissionOf[t] = MissionOf[s] /\ PositionOf[t] < PositionOf[s] => outcome[t] = "ok"

Perform(s) ==
    /\ OnTurn(s) /\ effects[s] = 0
    /\ effects' = [effects EXCEPT ![s] = 1]
    /\ UNCHANGED <<outcome, verdict>>

\* A step may end well without an effect: it was simulated.
EndStep(s, how) ==
    /\ OnTurn(s)
    /\ outcome' = [outcome EXCEPT ![s] = how]
    /\ UNCHANGED <<effects, verdict>>

Conclude(m, how) ==
    /\ verdict[m] = "open"
    /\ LET mine == {s \in PlanSteps : MissionOf[s] = m}
       IN  \/ how = "COMPLETED" /\ \A s \in mine : outcome[s] = "ok"
           \/ how = "FAILED" /\ \E s \in mine : outcome[s] = "failed"
    /\ verdict' = [verdict EXCEPT ![m] = how]
    /\ UNCHANGED <<effects, outcome>>

Refuse(m) ==
    /\ verdict[m] = "open"
    /\ \A s \in PlanSteps : MissionOf[s] = m => outcome[s] = "open" /\ effects[s] = 0
    /\ verdict' = [verdict EXCEPT ![m] = "FAILED"]
    /\ UNCHANGED <<effects, outcome>>

PlanNext ==
    \/ \E s \in PlanSteps : Perform(s) \/ \E how \in {"ok", "failed"} : EndStep(s, how)
    \/ \E m \in PlanMissions : \E how \in {"COMPLETED", "FAILED"} : Conclude(m, how)
    \/ \E m \in PlanMissions : Refuse(m)

PlanSpec == PlanInit /\ [][PlanNext]_planVars
=============================================================================
