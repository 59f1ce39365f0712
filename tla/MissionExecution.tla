--------------------------- MODULE MissionExecution ---------------------------
(***************************************************************************)
(* Execution of planned missions by AI HQ.                                 *)
(*                                                                         *)
(* A mission is a row of the database with an ordered plan of tool steps.  *)
(* Worker processes call AutonomousMissionRunner.run_once, which advances  *)
(* the oldest active mission by one step through MissionExecutor.run_next; *)
(* a caller of resume_approved re-submits a step that was waiting for a    *)
(* human.  Every tool call crosses ToolGateway.execute, which asks         *)
(* SafetyService.evaluate and may consume a scoped approval rule.          *)
(*                                                                         *)
(* Every database session of the code is one transaction under READ        *)
(* COMMITTED and nothing is locked between transactions.  One action below *)
(* is one such transaction, or, for the methods that read a row, check it  *)
(* and then write it by primary key (transition, transition_step, decide), *)
(* the read half or the write half.  A process is the local state of one   *)
(* call of run_next or resume_approved: pc names the next transaction.     *)
(***************************************************************************)
EXTENDS Integers, FiniteSets, MissionStates

CONSTANTS
    Workers,        \* worker processes
    Resumers,       \* callers of resume_approved
    Deciders,       \* web requests that decide an approval
    Missions,       \* mission ids, numbered in the order of created_at
    Steps,          \* rows of mission_steps
    StepMission,    \* mission_id of a step
    StepPos,        \* position of a step in its plan
    StepFp,         \* action fingerprint (capability, target, params)
    StepScope,      \* what a scoped rule is matched on (action, target, conditions)
    Mutates,        \* steps whose request mutates external state
    Registered,     \* steps whose capability has an adapter
    Permitted,      \* steps whose agent holds the exact permission
    Risk,           \* risk of a mission
    Rules,          \* scoped approval rules
    RuleScope, RuleRisk,
    UnlimitedRules, \* rules with max_execution_count = NULL
    RuleMax,        \* max_execution_count of the others
    OperatorModes,  \* operating modes an operator may set
    MaxApprovals,   \* bound: rows of approval_requests
    MaxCrashes,     \* bound: process crashes
    None

Procs == Workers \cup Resumers

RiskLevels == {"GREEN", "BLUE", "AMBER", "RED"}
Modes == {"normal", "safe", "freeze", "unreadable"}

(* The assumptions the code justifies: positions are numbered by           *)
(* create_plan, a mission has one risk, a process plays one role.          *)
ASSUME ConstantsAssumption ==
    /\ Workers \cap Resumers = {}
    /\ Missions \subseteq Nat
    /\ StepMission \in [Steps -> Missions]
    /\ StepPos \in [Steps -> Nat]
    /\ \A s, t \in Steps : StepMission[s] = StepMission[t] /\ StepPos[s] = StepPos[t] => s = t
    /\ Mutates \subseteq Steps /\ Registered \subseteq Steps /\ Permitted \subseteq Steps
    /\ Risk \in [Missions -> RiskLevels]
    /\ RuleRisk \in [Rules -> RiskLevels]
    /\ UnlimitedRules \subseteq Rules
    /\ RuleMax \in [Rules -> Nat]
    /\ OperatorModes \subseteq Modes
    /\ MaxApprovals \in Nat
    /\ MaxCrashes \in Nat
    /\ None \notin Missions \cup Steps \cup Rules
    /\ None \notin {"QUEUED", "RUNNING", "WAITING_APPROVAL", "PAUSED", "COMPLETED", "FAILED",
                    "CANCELLED"}

ApprovalIds == 1..MaxApprovals

(* The fingerprint an approval is bound to, together with its mission.     *)
Key(s) == <<StepMission[s], StepFp[s]>>
Keys == {Key(s) : s \in Steps}

-----------------------------------------------------------------------------
StepStatus == {"PENDING", "RUNNING", "WAITING_APPROVAL", "SUCCEEDED", "FAILED"}

AllowedStepTransitions(status) ==
    CASE status = "PENDING"          -> {"RUNNING"}
      [] status = "RUNNING"          -> {"WAITING_APPROVAL", "SUCCEEDED", "FAILED"}
      [] status = "WAITING_APPROVAL" -> {"RUNNING", "FAILED"}
      [] OTHER                       -> {}

-----------------------------------------------------------------------------
VARIABLES
    mstatus,     \* missions.status, ABSENT before create_mission
    planned,     \* missions that have a plan
    sstatus,     \* mission_steps.status
    astate,      \* approval_requests.state, ABSENT before create_request
    akey,        \* mission and fingerprint of an approval request
    alive,       \* the approval request has not expired
    rstate,      \* a scoped rule: ABSENT, LIVE or EXPIRED
    rcount,      \* scoped_approval_rules.execution_count
    mode, sim,   \* the system_state row
    pc, mi, snap, st, tgt, ctx,   \* local state of a process
    dec,         \* a decision between its check and its commit
    crashes,     \* crashes so far
    execs, granted, charged       \* history, see below

rows  == <<mstatus, planned, sstatus>>
appr  == <<astate, akey, alive>>
rule  == <<rstate, rcount>>
sys   == <<mode, sim>>
local == <<pc, mi, snap, st, tgt, ctx>>
hist  == <<execs, granted, charged>>
vars  == <<rows, appr, rule, sys, local, dec, crashes, hist>>

(***************************************************************************)
(* History: execs counts the adapter calls made for a step, granted holds  *)
(* the keys that ever had an approved, unexpired request, and charged the  *)
(* pairs (step, rule) where the step was executed after its process had    *)
(* consumed the rule.                                                      *)
(*                                                                         *)
(* ctx is what one gateway call has read so far: the operating mode, the   *)
(* simulation flag, whether an approval was found, the matching rule.      *)
(***************************************************************************)
NoCtx == [mode |-> "freeze", sim |-> TRUE, approved |-> FALSE, rule |-> None]
Contexts == [mode : Modes, sim : BOOLEAN, approved : BOOLEAN, rule : Rules \cup {None}]

Labels == {"idle", "get", "waiting", "select", "claim", "plan_check",
           "mission_read", "mission_write", "step_read", "step_write",
           "find_waiting", "gateway", "approved", "rule", "pending", "create",
           "consume", "execute"}

Init ==
    /\ mstatus = [m \in Missions |-> "ABSENT"]
    /\ planned = {}
    /\ sstatus = [s \in Steps |-> "PENDING"]
    /\ astate = [a \in ApprovalIds |-> "ABSENT"]
    /\ akey = [a \in ApprovalIds |-> None]
    /\ alive = [a \in ApprovalIds |-> FALSE]
    /\ rstate = [r \in Rules |-> "ABSENT"]
    /\ rcount = [r \in Rules |-> 0]
    /\ mode = "freeze" /\ sim = TRUE
    /\ pc = [p \in Procs |-> "idle"]
    /\ mi = [p \in Procs |-> None]
    /\ snap = [p \in Procs |-> None]
    /\ st = [p \in Procs |-> None]
    /\ tgt = [p \in Procs |-> None]
    /\ ctx = [p \in Procs |-> NoCtx]
    /\ dec = [d \in Deciders |-> None]
    /\ crashes = 0
    /\ execs = [s \in Steps |-> 0]
    /\ granted = {}
    /\ charged = {}

-----------------------------------------------------------------------------
(* Local control.  Goto continues a call; Finish ends it, by returning, or *)
(* by an exception: a worker that raises exits and is restarted by its     *)
(* supervisor with no memory, a caller of resume_approved gets the error.  *)
Goto(p, label) == pc' = [pc EXCEPT ![p] = label]

Finish(p) ==
    /\ pc' = [pc EXCEPT ![p] = "idle"]
    /\ mi' = [mi EXCEPT ![p] = None]
    /\ snap' = [snap EXCEPT ![p] = None]
    /\ st' = [st EXCEPT ![p] = None]
    /\ tgt' = [tgt EXCEPT ![p] = None]
    /\ ctx' = [ctx EXCEPT ![p] = NoCtx]

(* Call transition_step(st[p], status) or transition(mi[p], status).       *)
CallTransitionStep(p, status) ==
    /\ tgt' = [tgt EXCEPT ![p] = status]
    /\ Goto(p, "step_read")
CallTransition(p, status) ==
    /\ tgt' = [tgt EXCEPT ![p] = status]
    /\ Goto(p, "mission_read")

PlanOf(m) == {s \in Steps : StepMission[s] = m}
Earlier(s, t) == StepMission[s] = StepMission[t] /\ StepPos[s] < StepPos[t]
PlanComplete(m) == \A s \in PlanOf(m) : sstatus[s] = "SUCCEEDED"
PlanUntouched(m) == \A s \in PlanOf(m) : sstatus[s] = "PENDING"

(* Mutant: the first PENDING step, whatever happened to the ones before.   *)
FirstPending(m, s) ==
    /\ s \in PlanOf(m)
    /\ sstatus[s] = "PENDING"
    /\ \A t \in Steps : Earlier(t, s) => sstatus[t] # "PENDING"

(* The first step of the plan that has not succeeded.                      *)
FirstIncomplete(m, s) ==
    /\ s \in PlanOf(m)
    /\ sstatus[s] # "SUCCEEDED"
    /\ \A t \in Steps : Earlier(t, s) => sstatus[t] = "SUCCEEDED"

-----------------------------------------------------------------------------
(* Missions are created, and then planned, in two transactions.            *)
CreateMission(m) ==
    /\ mstatus[m] = "ABSENT"
    /\ \A n \in Missions : n < m => mstatus[n] # "ABSENT"
    /\ mstatus' = [mstatus EXCEPT ![m] = "QUEUED"]
    /\ UNCHANGED <<planned, sstatus, appr, rule, sys, local, dec, crashes, hist>>

CreatePlan(m) ==
    /\ mstatus[m] # "ABSENT"
    /\ m \notin planned
    /\ PlanOf(m) # {}
    /\ planned' = planned \cup {m}
    /\ UNCHANGED <<mstatus, sstatus, appr, rule, sys, local, dec, crashes, hist>>

(* DepartmentRunner.run_once on a mission that has no plan yet, when       *)
(* Commander cannot route its title.  It takes whatever is QUEUED, and the *)
(* plan may still follow (Departments has this runner step by step).       *)
DepartmentFails(m) ==
    /\ mstatus[m] = "QUEUED"
    /\ m \notin planned
    /\ mstatus' = [mstatus EXCEPT ![m] = "FAILED"]
    /\ UNCHANGED <<planned, sstatus, appr, rule, sys, local, dec, crashes, hist>>

-----------------------------------------------------------------------------
(* Mutant: a mission that waits for a human still counts as active.        *)
RunnableWaiting(m) == m \in planned /\ mstatus[m] \in {"QUEUED", "RUNNING", "WAITING_APPROVAL"}

(* AutonomousMissionRunner.run_once: the oldest active mission with a plan.*)
Runnable(m) == m \in planned /\ mstatus[m] \in {"QUEUED", "RUNNING"}

RunOnce(w, m) ==
    /\ pc[w] = "idle"
    /\ Runnable(m)
    /\ \A n \in Missions : n < m => ~Runnable(n)
    /\ mi' = [mi EXCEPT ![w] = m]
    /\ Goto(w, "get")
    /\ UNCHANGED <<rows, appr, rule, sys, snap, st, tgt, ctx, dec, crashes, hist>>

(* run_next: the snapshot of the mission that the rest of the call uses.   *)
GetMission(p) ==
    /\ pc[p] = "get"
    /\ IF mstatus[mi[p]] \in Terminal
       THEN Finish(p)
       ELSE /\ snap' = [snap EXCEPT ![p] = mstatus[mi[p]]]
            /\ Goto(p, IF mstatus[mi[p]] = "WAITING_APPROVAL" THEN "waiting" ELSE "select")
            /\ UNCHANGED <<mi, st, tgt, ctx>>
    /\ UNCHANGED <<rows, appr, rule, sys, dec, crashes, hist>>

WaitingStep(m, s) == s \in PlanOf(m) /\ sstatus[s] = "WAITING_APPROVAL"

(* run_next on a waiting mission returns while a step is waiting.          *)
CheckWaiting(p) ==
    /\ pc[p] = "waiting"
    /\ IF \E s \in Steps : WaitingStep(mi[p], s)
       THEN Finish(p)
       ELSE /\ Goto(p, "select")
            /\ UNCHANGED <<mi, snap, st, tgt, ctx>>
    /\ UNCHANGED <<rows, appr, rule, sys, dec, crashes, hist>>

(* claim_next_pending_step, first statement: SELECT the first incomplete.  *)
SelectStep(p) ==
    /\ pc[p] = "select"
    /\ \/ \E s \in Steps :
             /\ FirstIncomplete(mi[p], s)
             /\ st' = [st EXCEPT ![p] = s]
             /\ Goto(p, "claim")
       \/ /\ PlanComplete(mi[p])
          /\ Goto(p, "plan_check")
          /\ UNCHANGED st
    /\ UNCHANGED <<rows, appr, rule, sys, mi, snap, tgt, ctx, dec, crashes, hist>>

(* Mutant: the UPDATE does not test that the step is still PENDING.        *)
ClaimStepUnconditionally(p) ==
    /\ pc[p] = "claim"
    /\ sstatus' = [sstatus EXCEPT ![st[p]] = "RUNNING"]
    /\ IF snap[p] = "QUEUED"
       THEN CallTransition(p, "RUNNING")
       ELSE Goto(p, "gateway") /\ UNCHANGED tgt
    /\ UNCHANGED <<mstatus, planned, appr, rule, sys, mi, snap, st, ctx, dec, crashes, hist>>

(* Mutant: the mission of a claimed step is not moved to RUNNING.          *)
ClaimStepOfQueuedMission(p) ==
    /\ pc[p] = "claim"
    /\ IF sstatus[st[p]] = "PENDING"
       THEN /\ sstatus' = [sstatus EXCEPT ![st[p]] = "RUNNING"]
            /\ Goto(p, "gateway")
            /\ UNCHANGED st
       ELSE /\ st' = [st EXCEPT ![p] = None]
            /\ Goto(p, "plan_check")
            /\ UNCHANGED sstatus
    /\ UNCHANGED <<mstatus, planned, appr, rule, sys, mi, snap, tgt, ctx, dec, crashes, hist>>

(* claim_next_pending_step, second statement: UPDATE ... WHERE PENDING.    *)
(* A mission that the snapshot shows QUEUED is then moved to RUNNING.      *)
ClaimStep(p) ==
    /\ pc[p] = "claim"
    /\ IF sstatus[st[p]] = "PENDING"
       THEN /\ sstatus' = [sstatus EXCEPT ![st[p]] = "RUNNING"]
            /\ IF snap[p] = "QUEUED"
               THEN CallTransition(p, "RUNNING")
               ELSE Goto(p, "gateway") /\ UNCHANGED tgt
            /\ UNCHANGED st
       ELSE /\ st' = [st EXCEPT ![p] = None]
            /\ Goto(p, "plan_check")
            /\ UNCHANGED <<sstatus, tgt>>
    /\ UNCHANGED <<mstatus, planned, appr, rule, sys, mi, snap, ctx, dec, crashes, hist>>

(* Mutant: a success completes the mission without asking for the plan.    *)
CompleteAfterAnyStep(p) ==
    /\ pc[p] = "plan_check"
    /\ IF st[p] # None
       THEN /\ CallTransition(p, "COMPLETED")
            /\ UNCHANGED <<mi, snap, st, ctx>>
       ELSE Finish(p)
    /\ UNCHANGED <<rows, appr, rule, sys, dec, crashes, hist>>

(* plan_is_complete, asked after a step succeeded (st is that step) and    *)
(* when nothing could be claimed (st = None, the snapshot decides).        *)
CheckPlan(p) ==
    /\ pc[p] = "plan_check"
    /\ IF PlanComplete(mi[p]) /\ (st[p] # None \/ snap[p] \in {"QUEUED", "RUNNING"})
       THEN /\ CallTransition(p, IF st[p] = None /\ snap[p] = "QUEUED"
                                 THEN "RUNNING" ELSE "COMPLETED")
            /\ UNCHANGED <<mi, snap, st, ctx>>
       ELSE Finish(p)
    /\ UNCHANGED <<rows, appr, rule, sys, dec, crashes, hist>>

-----------------------------------------------------------------------------
(* Mutant: transition writes without checking the transition table.        *)
TransitionReadUnchecked(p) ==
    /\ pc[p] = "mission_read"
    /\ Goto(p, "mission_write")
    /\ UNCHANGED <<rows, appr, rule, sys, mi, snap, st, tgt, ctx, dec, crashes, hist>>

(* MissionService.transition: read and check, then write by primary key.   *)
TransitionRead(p) ==
    /\ pc[p] = "mission_read"
    /\ IF tgt[p] \in AllowedTransitions(mstatus[mi[p]])
       THEN Goto(p, "mission_write") /\ UNCHANGED <<mi, snap, st, tgt, ctx>>
       ELSE Finish(p)
    /\ UNCHANGED <<rows, appr, rule, sys, dec, crashes, hist>>

(* A mission set RUNNING goes on to the gateway with its step, or, when the*)
(* plan was found complete, to COMPLETED; every other target ends the call.*)
TransitionWrite(p) ==
    /\ pc[p] = "mission_write"
    /\ mstatus' = [mstatus EXCEPT ![mi[p]] = tgt[p]]
    /\ IF tgt[p] # "RUNNING"
       THEN Finish(p)
       ELSE /\ snap' = [snap EXCEPT ![p] = "RUNNING"]
            /\ IF st[p] = None
               THEN CallTransition(p, "COMPLETED")
               ELSE Goto(p, "gateway") /\ tgt' = [tgt EXCEPT ![p] = None]
            /\ UNCHANGED <<mi, st, ctx>>
    /\ UNCHANGED <<planned, sstatus, appr, rule, sys, dec, crashes, hist>>

TransitionStepRead(p) ==
    /\ pc[p] = "step_read"
    /\ IF tgt[p] \in AllowedStepTransitions(sstatus[st[p]])
       THEN Goto(p, "step_write") /\ UNCHANGED <<mi, snap, st, tgt, ctx>>
       ELSE Finish(p)
    /\ UNCHANGED <<rows, appr, rule, sys, dec, crashes, hist>>

(* After its step, the executor moves the mission: to RUNNING when a step  *)
(* is resumed, to WAITING_APPROVAL or FAILED with the step, or, after a    *)
(* success, to COMPLETED if the plan is.                                   *)
TransitionStepWrite(p) ==
    /\ pc[p] = "step_write"
    /\ sstatus' = [sstatus EXCEPT ![st[p]] = tgt[p]]
    /\ IF tgt[p] = "SUCCEEDED"
       THEN Goto(p, "plan_check") /\ tgt' = [tgt EXCEPT ![p] = None]
       ELSE CallTransition(p, tgt[p])
    /\ UNCHANGED <<mstatus, planned, appr, rule, sys, mi, snap, st, ctx, dec, crashes, hist>>

-----------------------------------------------------------------------------
(* resume_approved: the mission must be waiting, then its waiting step is  *)
(* returned to RUNNING and the exact request is submitted again.           *)
ResumeApproved(r, m) ==
    /\ pc[r] = "idle"
    /\ mstatus[m] = "WAITING_APPROVAL"
    /\ mi' = [mi EXCEPT ![r] = m]
    /\ Goto(r, "find_waiting")
    /\ UNCHANGED <<rows, appr, rule, sys, snap, st, tgt, ctx, dec, crashes, hist>>

FindWaitingStep(r) ==
    /\ pc[r] = "find_waiting"
    /\ \/ \E s \in Steps :
             /\ WaitingStep(mi[r], s)
             /\ \A t \in Steps : WaitingStep(mi[r], t) => ~Earlier(t, s)
             /\ st' = [st EXCEPT ![r] = s]
             /\ CallTransitionStep(r, "RUNNING")
             /\ UNCHANGED <<mi, snap, ctx>>
       \/ /\ \A s \in Steps : ~WaitingStep(mi[r], s)
          /\ Finish(r)
    /\ UNCHANGED <<rows, appr, rule, sys, dec, crashes, hist>>

-----------------------------------------------------------------------------
(* Mutant: BLUE actions are allowed like reads.                            *)
EvaluateBlueAsRead(risk, mutates, scopedAllows, approved, available, m, simulation) ==
    IF ~available \/ m = "freeze" \/ risk = "RED" \/ (m = "safe" /\ mutates)
    THEN "BLOCK"
    ELSE IF risk # "BLUE" /\ mutates /\ ~approved
    THEN "REQUIRE_APPROVAL"
    ELSE IF mutates /\ simulation THEN "SIMULATE_ONLY" ELSE "ALLOW"

(* The policy table, in the order of its early returns.                    *)
EvaluateAction(risk, mutates, scopedAllows, approved, available, m, simulation) ==
    IF \/ ~available \/ m = "freeze"
       \/ risk = "RED"
       \/ m = "safe" /\ mutates
    THEN "BLOCK"
    ELSE IF \/ risk = "BLUE" /\ ~scopedAllows
            \/ risk = "AMBER" /\ ~approved
            \/ risk = "GREEN" /\ mutates /\ ~approved
    THEN "REQUIRE_APPROVAL"
    ELSE IF mutates /\ simulation THEN "SIMULATE_ONLY" ELSE "ALLOW"

(* SafetyService._system_state: a missing or unreadable row is FREEZE,     *)
(* simulated and unavailable.                                              *)
Readable(m) == m # "unreadable"

(* ToolGateway.execute up to _system_state: without an adapter the outcome *)
(* is BLOCKED, which fails the step.                                       *)
ReadSystemState(p) ==
    /\ pc[p] = "gateway"
    /\ IF st[p] \in Registered
       THEN /\ ctx' = [ctx EXCEPT ![p] =
                         [mode |-> mode, sim |-> sim \/ ~Readable(mode),
                          approved |-> FALSE, rule |-> None]]
            /\ Goto(p, "approved")
            /\ UNCHANGED tgt
       ELSE CallTransitionStep(p, "FAILED") /\ UNCHANGED ctx
    /\ UNCHANGED <<rows, appr, rule, sys, mi, snap, st, dec, crashes, hist>>

(* Mutant: a request authorises although nobody has answered it.           *)
LiveRequestInAnyState(a, s, state) == astate[a] # "ABSENT" /\ akey[a] = Key(s) /\ alive[a]

(* The lookups of is_approved and pending_for_fingerprint.                 *)
LiveRequest(a, s, state) == astate[a] = state /\ akey[a] = Key(s) /\ alive[a]

IsApproved(p) ==
    /\ pc[p] = "approved"
    /\ ctx' = [ctx EXCEPT ![p].approved =
                 \E a \in ApprovalIds : LiveRequest(a, st[p], "APPROVED")]
    /\ Goto(p, "rule")
    /\ UNCHANGED <<rows, appr, rule, sys, mi, snap, st, tgt, dec, crashes, hist>>

HasRoom(r) == r \in UnlimitedRules \/ rcount[r] < RuleMax[r]

MatchingRules(s) ==
    {r \in Rules : /\ Risk[StepMission[s]] # "RED"
                   /\ RuleScope[r] = StepScope[s]
                   /\ RuleRisk[r] = Risk[StepMission[s]]
                   /\ rstate[r] = "LIVE"
                   /\ HasRoom(r)}

(* The decision on step s given the context c: evaluate's last lines.      *)
DecisionFor(s, c) ==
    EvaluateAction(Risk[StepMission[s]], s \in Mutates, c.rule # None \/ c.approved,
                   c.approved, s \in Permitted /\ Readable(c.mode), c.mode, c.sim)

(* matching_scoped_rule returns the first match in no defined order; the   *)
(* decision follows and selects the branch of ToolGateway.execute.         *)
MatchRule(p) ==
    /\ pc[p] = "rule"
    /\ \E r \in IF MatchingRules(st[p]) = {} THEN {None} ELSE MatchingRules(st[p]) :
        LET c == [ctx[p] EXCEPT !.rule = r]
            d == DecisionFor(st[p], c)
        IN  /\ ctx' = [ctx EXCEPT ![p] = c]
            /\ \/ d = "BLOCK" /\ CallTransitionStep(p, "FAILED")
               \/ d = "REQUIRE_APPROVAL" /\ Goto(p, "pending") /\ UNCHANGED tgt
               \/ d = "SIMULATE_ONLY" /\ CallTransitionStep(p, "SUCCEEDED")
               \/ /\ d = "ALLOW"
                  /\ Goto(p, IF st[p] \in Mutates /\ r # None THEN "consume" ELSE "execute")
                  /\ UNCHANGED tgt
    /\ UNCHANGED <<rows, appr, rule, sys, mi, snap, st, dec, crashes, hist>>

FindPending(p) ==
    /\ pc[p] = "pending"
    /\ IF \E a \in ApprovalIds : LiveRequest(a, st[p], "PENDING")
       THEN CallTransitionStep(p, "WAITING_APPROVAL")
       ELSE Goto(p, "create") /\ UNCHANGED tgt
    /\ UNCHANGED <<rows, appr, rule, sys, mi, snap, st, ctx, dec, crashes, hist>>

CreateRequest(p) ==
    /\ pc[p] = "create"
    /\ \E a \in ApprovalIds :
        /\ astate[a] = "ABSENT"
        /\ \A b \in ApprovalIds : b < a => astate[b] # "ABSENT"
        /\ astate' = [astate EXCEPT ![a] = "PENDING"]
        /\ akey' = [akey EXCEPT ![a] = Key(st[p])]
        /\ alive' = [alive EXCEPT ![a] = TRUE]
    /\ CallTransitionStep(p, "WAITING_APPROVAL")
    /\ UNCHANGED <<rows, rule, sys, mi, snap, st, ctx, dec, crashes, hist>>

(* Mutant: the limit was checked when the rule was matched, not again.     *)
ConsumeRuleUnchecked(p) ==
    /\ pc[p] = "consume"
    /\ rcount' = [rcount EXCEPT ![ctx[p].rule] = @ + 1]
    /\ Goto(p, "execute")
    /\ UNCHANGED <<rows, appr, rstate, sys, mi, snap, st, tgt, ctx, dec, crashes, hist>>

(* Mutant: the counter is run down as if it held the remaining uses.       *)
ConsumeRuleCountsDown(p) ==
    /\ pc[p] = "consume"
    /\ rcount' = [rcount EXCEPT ![ctx[p].rule] = @ - 1]
    /\ Goto(p, "execute")
    /\ UNCHANGED <<rows, appr, rstate, sys, mi, snap, st, tgt, ctx, dec, crashes, hist>>

(* consume_rule is one conditional UPDATE; when it changes no row the      *)
(* outcome is BLOCKED.                                                     *)
ConsumeRule(p) ==
    /\ pc[p] = "consume"
    /\ LET r == ctx[p].rule
       IN  IF RuleRisk[r] # "RED" /\ rstate[r] = "LIVE" /\ HasRoom(r)
           THEN /\ rcount' = [rcount EXCEPT ![r] = @ + 1]
                /\ Goto(p, "execute")
                /\ UNCHANGED tgt
           ELSE /\ CallTransitionStep(p, "FAILED")
                /\ UNCHANGED rcount
    /\ UNCHANGED <<rows, appr, rstate, sys, mi, snap, st, ctx, dec, crashes, hist>>

(* Mutant: the adapter gets the request of the last step of the plan.      *)
ExecuteLastStep(p) ==
    /\ pc[p] = "execute"
    /\ LET last == CHOOSE s \in PlanOf(StepMission[st[p]]) : \A t \in Steps : ~Earlier(s, t)
       IN  execs' = [execs EXCEPT ![last] = @ + 1]
    /\ charged' = IF st[p] \in Mutates /\ ctx[p].rule # None
                  THEN charged \cup {<<st[p], ctx[p].rule>>} ELSE charged
    /\ \E outcome \in {"SUCCEEDED", "FAILED"} : CallTransitionStep(p, outcome)
    /\ UNCHANGED <<rows, appr, rule, sys, mi, snap, st, ctx, dec, crashes, granted>>

(* adapter.execute: it returns a result or raises ToolAdapterError.  Any   *)
(* other exception is this step followed by Crash.                         *)
ExecuteTool(p) ==
    /\ pc[p] = "execute"
    /\ execs' = [execs EXCEPT ![st[p]] = @ + 1]
    /\ charged' = IF st[p] \in Mutates /\ ctx[p].rule # None
                  THEN charged \cup {<<st[p], ctx[p].rule>>} ELSE charged
    /\ \E outcome \in {"SUCCEEDED", "FAILED"} : CallTransitionStep(p, outcome)
    /\ UNCHANGED <<rows, appr, rule, sys, mi, snap, st, ctx, dec, crashes, granted>>

-----------------------------------------------------------------------------
(* Environment: people, the clock and crashes.                             *)

(* The decide routes: not expired and PENDING, then a write by primary key.*)
DecideRead(d, a, decision) ==
    /\ dec[d] = None
    /\ astate[a] = "PENDING" /\ alive[a]
    /\ dec' = [dec EXCEPT ![d] = [id |-> a, decision |-> decision]]
    /\ UNCHANGED <<rows, appr, rule, sys, local, crashes, hist>>

DecideWrite(d) ==
    /\ dec[d] # None
    /\ LET a == dec[d].id
       IN  /\ astate' = [astate EXCEPT ![a] = dec[d].decision]
           /\ granted' = IF dec[d].decision = "APPROVED" /\ alive[a]
                         THEN granted \cup {akey[a]} ELSE granted
    /\ dec' = [dec EXCEPT ![d] = None]
    /\ UNCHANGED <<rows, akey, alive, rule, sys, local, crashes, execs, charged>>

ExpireApproval(a) ==
    /\ alive[a]
    /\ alive' = [alive EXCEPT ![a] = FALSE]
    /\ UNCHANGED <<rows, astate, akey, rule, sys, local, dec, crashes, hist>>

CreateScopedRule(r) ==
    /\ rstate[r] = "ABSENT"
    /\ rstate' = [rstate EXCEPT ![r] = "LIVE"]
    /\ UNCHANGED <<rows, appr, rcount, sys, local, dec, crashes, hist>>

ExpireRule(r) ==
    /\ rstate[r] = "LIVE"
    /\ rstate' = [rstate EXCEPT ![r] = "EXPIRED"]
    /\ UNCHANGED <<rows, appr, rcount, sys, local, dec, crashes, hist>>

(* An operator edits the system_state row.                                 *)
SetSystemState(m, simulation) ==
    /\ mode' = m
    /\ sim' = simulation
    /\ UNCHANGED <<rows, appr, rule, local, dec, crashes, hist>>

(* A process dies between two transactions; the open one is rolled back.   *)
Crash(p) ==
    /\ pc[p] # "idle"
    /\ crashes < MaxCrashes
    /\ crashes' = crashes + 1
    /\ Finish(p)
    /\ UNCHANGED <<rows, appr, rule, sys, dec, hist>>

-----------------------------------------------------------------------------
(* The rest of a call of run_next or resume_approved.                      *)
ProcStep(p) ==
    \/ GetMission(p) \/ CheckWaiting(p) \/ SelectStep(p) \/ ClaimStep(p) \/ CheckPlan(p)
    \/ TransitionRead(p) \/ TransitionWrite(p)
    \/ TransitionStepRead(p) \/ TransitionStepWrite(p) \/ FindWaitingStep(p)
    \/ ReadSystemState(p) \/ IsApproved(p) \/ MatchRule(p) \/ FindPending(p)
    \/ CreateRequest(p) \/ ConsumeRule(p) \/ ExecuteTool(p)

EnvStep ==
    \/ \E m \in Missions : CreateMission(m) \/ CreatePlan(m) \/ DepartmentFails(m)
    \/ \E d \in Deciders, a \in ApprovalIds, x \in {"APPROVED", "DENIED"} : DecideRead(d, a, x)
    \/ \E d \in Deciders : DecideWrite(d)
    \/ \E a \in ApprovalIds : ExpireApproval(a)
    \/ \E r \in Rules : CreateScopedRule(r) \/ ExpireRule(r)
    \/ \E m \in OperatorModes, x \in BOOLEAN : SetSystemState(m, x)

Next ==
    \/ \E w \in Workers, m \in Missions : RunOnce(w, m)
    \/ \E r \in Resumers, m \in Missions : ResumeApproved(r, m)
    \/ \E p \in Procs : ProcStep(p) \/ Crash(p)
    \/ EnvStep

Spec == Init /\ [][Next]_vars

(* A worker loops for ever and no call blocks: what it can do next, it     *)
(* eventually does.  People, the clock and crashes owe nothing.            *)
Fairness ==
    \A w \in Workers : WF_vars(ProcStep(w)) /\ WF_vars(\E m \in Missions : RunOnce(w, m))

FairSpec == Spec /\ Fairness

-----------------------------------------------------------------------------
TypeOK ==
    /\ mstatus \in [Missions -> MissionStatus \cup {"ABSENT"}]
    /\ planned \subseteq Missions
    /\ sstatus \in [Steps -> StepStatus]
    /\ astate \in [ApprovalIds -> {"ABSENT", "PENDING", "APPROVED", "DENIED"}]
    /\ akey \in [ApprovalIds -> Keys \cup {None}]
    /\ alive \in [ApprovalIds -> BOOLEAN]
    /\ rstate \in [Rules -> {"ABSENT", "LIVE", "EXPIRED"}]
    /\ rcount \in [Rules -> Nat]
    /\ mode \in Modes /\ sim \in BOOLEAN
    /\ pc \in [Procs -> Labels]
    /\ mi \in [Procs -> Missions \cup {None}]
    /\ snap \in [Procs -> MissionStatus \cup {None}]
    /\ st \in [Procs -> Steps \cup {None}]
    /\ tgt \in [Procs -> MissionStatus \cup StepStatus \cup {None}]
    /\ ctx \in [Procs -> Contexts]
    /\ dec \in [Deciders -> {None} \cup [id : ApprovalIds, decision : {"APPROVED", "DENIED"}]]
    /\ crashes \in 0..MaxCrashes
    /\ execs \in [Steps -> Nat]
    /\ granted \subseteq Keys
    /\ charged \subseteq Steps \X Rules

(* The plan is executed in order: a step leaves PENDING only when every    *)
(* earlier step of its mission has SUCCEEDED, whatever stale reads and     *)
(* crashes happened in between (docstring of claim_next_pending_step).     *)
StepOrder ==
    \A s, t \in Steps : Earlier(s, t) /\ sstatus[t] # "PENDING" => sstatus[s] = "SUCCEEDED"

(* The adapter of a step is called at most once, over all workers, resumes *)
(* and restarts.                                                           *)
ExecutedAtMostOnce == \A s \in Steps : execs[s] <= 1

(* A mission's verdict is its plan's: COMPLETED only with every step       *)
(* SUCCEEDED, FAILED only with a FAILED step, or with a plan of which      *)
(* nothing was ever started, because the department had failed the mission *)
(* before it was planned.                                                  *)
VerdictMatchesPlan ==
    \A m \in Missions :
        /\ mstatus[m] = "COMPLETED" => PlanComplete(m)
        /\ mstatus[m] = "FAILED" =>
              PlanUntouched(m) \/ \E s \in PlanOf(m) : sstatus[s] = "FAILED"

(* What has ended stays as it ended: no late write of a process that read  *)
(* an older status revives a terminal mission or step.                     *)
TerminalStable ==
    [][/\ \A m \in Missions : mstatus[m] \in Terminal => mstatus'[m] = mstatus[m]
       /\ \A s \in Steps : sstatus[s] \in {"SUCCEEDED", "FAILED"} => sstatus'[s] = sstatus[s]]_vars

(* Nothing is executed without the authority its risk requires: never RED; *)
(* AMBER and mutating GREEN steps only after a human approved that exact   *)
(* request; mutating BLUE steps after such an approval or a consumed rule. *)
Authorised ==
    \A s \in Steps : execs[s] > 0 =>
        LET risk == Risk[StepMission[s]]
        IN  /\ risk # "RED"
            /\ risk = "AMBER" \/ (risk = "GREEN" /\ s \in Mutates) => Key(s) \in granted
            /\ risk = "BLUE" /\ s \in Mutates =>
                  Key(s) \in granted \/ \E r \in Rules : <<s, r>> \in charged

(* A scoped rule never authorises more executions than its limit, with     *)
(* concurrent processes at the last use and crashes after consuming.       *)
RuleBudget ==
    \A r \in Rules : r \notin UnlimitedRules =>
        Cardinality({s \in Steps : <<s, r>> \in charged}) <= RuleMax[r]

(* When no call is working on a planned mission, its row and its steps     *)
(* tell the same story, although they are written in separate              *)
(* transactions, as long as no process has died between the two.           *)
QuiescentAgreement ==
    crashes = 0 => \A m \in planned : (\A p \in Procs : mi[p] # m) =>
        /\ \A s \in PlanOf(m) : sstatus[s] # "RUNNING"
        /\ mstatus[m] = "WAITING_APPROVAL" <=> \E s \in Steps : WaitingStep(m, s)
        /\ (\E s \in PlanOf(m) : sstatus[s] = "FAILED") => mstatus[m] = "FAILED"
        /\ mstatus[m] = "FAILED" =>
              PlanUntouched(m) \/ \E s \in PlanOf(m) : sstatus[s] = "FAILED"
        /\ mstatus[m] = "COMPLETED" <=> PlanComplete(m)

(* Every planned mission is eventually completed, failed, or handed to a   *)
(* human: none is left half-way, and none starves behind an older one.     *)
PlanSettles ==
    \A m \in Missions :
        m \in planned ~> mstatus[m] \in {"COMPLETED", "FAILED", "WAITING_APPROVAL"}

(* A human decision is made once: an approval request that was decided is  *)
(* not decided again.                                                      *)
DecisionIsFinal ==
    [][\A a \in ApprovalIds :
         astate[a] \in {"APPROVED", "DENIED"} => astate'[a] = astate[a]]_vars

-----------------------------------------------------------------------------
(* Abstraction: what an observer of the effects and of the ends sees.      *)
StepOutcome ==
    [s \in Steps |-> CASE sstatus[s] = "SUCCEEDED" -> "ok"
                      [] sstatus[s] = "FAILED" -> "failed"
                      [] OTHER -> "open"]

MissionVerdict ==
    [m \in Missions |-> IF mstatus[m] \in {"COMPLETED", "FAILED"} THEN mstatus[m] ELSE "open"]

Progress == INSTANCE PlanProgress WITH
    PlanMissions <- Missions, PlanSteps <- Steps, MissionOf <- StepMission,
    PositionOf <- StepPos, effects <- execs, outcome <- StepOutcome, verdict <- MissionVerdict

(* The executor, with its processes, stale reads, approvals and crashes,   *)
(* does nothing but progress along the plan: every step of the detailed    *)
(* specification is a step of PlanProgress or leaves it alone.             *)
ImplementsPlanProgress == Progress!PlanSpec
=============================================================================
