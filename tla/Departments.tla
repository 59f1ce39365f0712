---------------------------- MODULE Departments ----------------------------
(***************************************************************************)
(* The worker loop and the sysadmin department.  One iteration runs at     *)
(* most one of three stages: a planned mission (AutonomousMissionRunner),  *)
(* a queued code change (CodeChangeQueueRunner), and otherwise the oldest  *)
(* queued mission of whatever kind (DepartmentRunner), which Commander     *)
(* routes by its title or fails as unsupported.                            *)
(*                                                                         *)
(* The first two stages are MissionExecution and CodeChange.  Here a plan  *)
(* is how many of its steps have succeeded and whether one is open, and a  *)
(* code change a claim and an outcome.  Every transaction of the plan and  *)
(* of the department is a step, and a worker may stop between any two.     *)
(***************************************************************************)
EXTENDS MissionStates, Integers, Sequences, FiniteSets

CONSTANTS
    LoopWorkers,   \* worker processes there may be
    Scopes         \* deployments looked at, each with its bounds:
                   \* staff: the workers started; hand: missions created through
                   \* the mission API; crashes: workers that stop half way;
                   \* model, code, texts, asked, died: see Chat

ASSUME DeptAssumption ==
    \A x \in Scopes : x.staff \subseteq LoopWorkers /\ x.hand \in Nat /\ x.crashes \in Nat

VARIABLES
    scope,     \* the deployment
    board,     \* missions, oldest first (see NewMission)
    agents,    \* status of commander and sysadmin, as the mission they work on
    at,        \* per worker: stage, mission, its status as read, result so far
    seenPlanned, \* per worker, history: planned missions its last look could start
    loopCrashes

deptVars == <<scope, board, agents, at, seenPlanned, loopCrashes>>

\* kind: "op" (chat inspection), "code" (chat code change), "hand" (mission API)
\* route: Commander knows the title; text: what was asked; done: steps that have
\* succeeded; open: the step after them, if it was claimed or failed; running:
\* what the status evidence says; release: how far an approved change got;
\* dropped: history, the request that created it failed; foe: history, who failed it
NewMission(kind, route, text, steps) ==
    [kind |-> kind, route |-> route, text |-> text, steps |-> steps,
     status |-> "QUEUED", planned |-> FALSE, done |-> 0, open |-> "none", running |-> FALSE,
     release |-> "none", dropped |-> FALSE, foe |-> "nobody"]

AtRest == [pc |-> "idle", mission |-> 0, snap |-> "none", result |-> "none"]

DeptInit ==
    /\ scope \in Scopes
    /\ board = <<>>
    /\ agents = [a \in {"commander", "sysadmin"} |-> 0]
    /\ at = [w \in LoopWorkers |-> AtRest]
    /\ seenPlanned = [w \in LoopWorkers |-> {}]
    /\ loopCrashes = 0

Ids == 1 .. Len(board)
OldestIn(S) == CHOOSE m \in S : \A n \in S : m <= n
Transition(m, status) ==
    board' = IF status \in AllowedTransitions(board[m].status)
             THEN [board EXCEPT ![m].status = status] ELSE board
Move(w, pc) == at' = [at EXCEPT ![w].pc = pc]
Rest(w) ==
    /\ at' = [at EXCEPT ![w] = AtRest]
    /\ seenPlanned' = [seenPlanned EXCEPT ![w] = {}]
Advance(w, pc) == Move(w, pc) /\ UNCHANGED seenPlanned
Take(w, pc, m) == at' = [at EXCEPT ![w] = [AtRest EXCEPT !.pc = pc, !.mission = m]]

-----------------------------------------------------------------------------
\* POST /api/missions: a mission without a plan, with a title of any kind
CreateByHand(route) ==
    /\ Cardinality({m \in Ids : board[m].kind = "hand"}) < scope.hand
    /\ board' = Append(board, NewMission("hand", route, {}, {}))
    /\ UNCHANGED <<scope, agents, at, seenPlanned, loopCrashes>>

Executable == {m \in Ids : board[m].planned /\ board[m].status \in {"QUEUED", "RUNNING"}}
Changes(status) == {m \in Ids : board[m].kind = "code" /\ board[m].status = status}
Queued == {m \in Ids : board[m].status = "QUEUED"}

\* Mutant: the department looks before the planned missions have had a turn.
DepartmentFirst(w) ==
    /\ at[w].pc = "idle"
    /\ seenPlanned' = [seenPlanned EXCEPT ![w] = Executable]
    /\ Move(w, "department")
    /\ UNCHANGED <<scope, board, agents, loopCrashes>>

\* run_worker_iteration: autonomous_runner.run_once, the oldest active plan
LookForPlan(w) ==
    /\ at[w].pc = "idle"
    /\ seenPlanned' = [seenPlanned EXCEPT ![w] = Executable]
    /\ IF Executable # {} THEN Take(w, "plan", OldestIn(Executable)) ELSE Move(w, "changes")
    /\ UNCHANGED <<scope, board, agents, loopCrashes>>

-----------------------------------------------------------------------------
(* MissionExecutor.run_next                                                *)

PlanComplete(m) == board[m].done = Cardinality(board[m].steps)

\* The mission as it is read here is what the rest of the call goes by.
GetPlanned(w) ==
    /\ at[w].pc = "plan"
    /\ LET status == board[at[w].mission].status
       IN  IF status \in Terminal THEN Rest(w)
           ELSE /\ at' = [at EXCEPT ![w].pc = "claim", ![w].snap = status]
                /\ UNCHANGED seenPlanned
    /\ UNCHANGED <<scope, board, agents, loopCrashes>>

\* claim_next_pending_step; without a step to claim, a plan that is complete
\* is concluded, and any other is left as it is
ClaimPlanStep(w) ==
    /\ at[w].pc = "claim"
    /\ LET m == at[w].mission
       IN  \/ /\ board[m].open = "none" /\ ~PlanComplete(m)
              /\ board' = [board EXCEPT ![m].open = "claimed"]
              /\ Advance(w, IF at[w].snap = "QUEUED" THEN "begin" ELSE "step")
           \/ /\ PlanComplete(m)
              /\ at' = [at EXCEPT ![w].pc = IF at[w].snap = "QUEUED" THEN "begin" ELSE "conclude",
                                  ![w].result = "COMPLETED"]
              /\ UNCHANGED <<board, seenPlanned>>
           \/ board[m].open # "none" /\ Rest(w) /\ UNCHANGED board
    /\ UNCHANGED <<scope, agents, loopCrashes>>

\* A mission read as QUEUED goes to RUNNING.  If somebody was faster this is
\* refused and raises: the worker ends, and a step it has claimed stays claimed.
BeginPlan(w) ==
    /\ at[w].pc = "begin"
    /\ IF "RUNNING" \in AllowedTransitions(board[at[w].mission].status)
       THEN Advance(w, IF at[w].result = "COMPLETED" THEN "conclude" ELSE "step")
       ELSE Rest(w)
    /\ Transition(at[w].mission, "RUNNING")
    /\ UNCHANGED <<scope, agents, loopCrashes>>

\* gateway.execute and transition_step: the last step to succeed completes the
\* plan, one that fails is the end of it
RunPlanStep(w) ==
    /\ at[w].pc = "step"
    /\ LET m == at[w].mission
       IN  \/ /\ board' = [board EXCEPT ![m].done = @ + 1, ![m].open = "none"]
              /\ IF board[m].done + 1 = Cardinality(board[m].steps)
                 THEN /\ at' = [at EXCEPT ![w].pc = "conclude", ![w].result = "COMPLETED"]
                      /\ UNCHANGED seenPlanned
                 ELSE Rest(w)
           \/ /\ board' = [board EXCEPT ![m].open = "failed"]
              /\ at' = [at EXCEPT ![w].pc = "conclude", ![w].result = "FAILED"]
              /\ UNCHANGED seenPlanned
    /\ UNCHANGED <<scope, agents, loopCrashes>>

\* The verdict; the inspection saw the service running or not.  A mission that
\* has ended meanwhile stays as it is: the transition raises.
ConcludePlan(w) ==
    /\ at[w].pc = "conclude"
    /\ LET m == at[w].mission
       IN  \E running \in IF at[w].result = "COMPLETED" THEN BOOLEAN ELSE {FALSE} :
              board' = IF at[w].result \in AllowedTransitions(board[m].status)
                       THEN [board EXCEPT ![m].status = at[w].result, ![m].running = running]
                       ELSE board
    /\ Rest(w)
    /\ UNCHANGED <<scope, agents, loopCrashes>>

-----------------------------------------------------------------------------
(* CodeChangeQueueRunner.run_once                                          *)

\* claim_oldest_code_change: a queued one, or one whose lease has expired
LookForChange(w) ==
    /\ at[w].pc = "changes"
    /\ \E expired \in SUBSET Changes("RUNNING") :
          LET claimable == Changes("QUEUED") \cup expired
          IN  IF claimable # {}
              THEN /\ Take(w, "change", OldestIn(claimable))
                   /\ board' = [board EXCEPT ![OldestIn(claimable)].status = "RUNNING"]
              ELSE Move(w, "department") /\ UNCHANGED board
    /\ UNCHANGED <<scope, agents, seenPlanned, loopCrashes>>

\* process_queued_candidate returns: the candidate waits for approval, or is
\* not ready for it and ends here
ChangeEnds(w) ==
    /\ at[w].pc = "change"
    /\ \E target \in {"WAITING_APPROVAL", "COMPLETED"} :
          /\ board[at[w].mission].status \in {"RUNNING", target}
          /\ Transition(at[w].mission, target)
    /\ Rest(w)
    /\ UNCHANGED <<scope, agents, loopCrashes>>

\* It raises: a mission still RUNNING is failed, and the iteration goes on to
\* the department, for run_worker_iteration only logs the exception.
ChangeRaises(w) ==
    /\ at[w].pc = "change"
    /\ board' = IF board[at[w].mission].status = "RUNNING"
                THEN [board EXCEPT ![at[w].mission].status = "FAILED"] ELSE board
    /\ Take(w, "department", 0)
    /\ UNCHANGED <<scope, agents, seenPlanned, loopCrashes>>

-----------------------------------------------------------------------------
(* DepartmentRunner.run_once                                               *)

\* oldest_queued, then the commander at work
PickQueued(w) ==
    /\ at[w].pc = "department"
    /\ IF Queued # {}
       THEN /\ Take(w, "route", OldestIn(Queued))
            /\ agents' = [agents EXCEPT !["commander"] = OldestIn(Queued)]
            /\ UNCHANGED seenPlanned
       ELSE Rest(w) /\ UNCHANGED agents
    /\ UNCHANGED <<scope, board, loopCrashes>>

\* route_sysadmin_mission: a fixed title and nothing that sounds like a
\* mutation, or UnsupportedMission
route_sysadmin_mission(m) == board[m].route

\* An unsupported mission is failed, whoever has it by now.  A transition
\* that is refused raises: the finally clause still runs, the worker ends.
Route(w) ==
    /\ at[w].pc = "route"
    /\ LET m == at[w].mission
       IN  IF route_sysadmin_mission(m)
           THEN UNCHANGED board /\ at' = [at EXCEPT ![w].pc = "routed", ![w].result = "supported"]
           ELSE /\ board' = IF "FAILED" \in AllowedTransitions(board[m].status)
                            THEN [board EXCEPT ![m].status = "FAILED", ![m].foe = w]
                            ELSE board
                /\ at' = [at EXCEPT ![w].pc = "routed", ![w].result = "unsupported"]
    /\ UNCHANGED <<scope, agents, seenPlanned, loopCrashes>>

\* finally: the commander is idle again
CommanderIdle(w) ==
    /\ at[w].pc = "routed"
    /\ agents' = [agents EXCEPT !["commander"] = 0]
    /\ IF at[w].result = "supported" THEN Advance(w, "start") ELSE Rest(w)
    /\ UNCHANGED <<scope, board, loopCrashes>>

\* assign_owner and transition to RUNNING, which raises unless it is QUEUED
StartMission(w) ==
    /\ at[w].pc = "start"
    /\ IF "RUNNING" \in AllowedTransitions(board[at[w].mission].status)
       THEN Advance(w, "work") ELSE Rest(w)
    /\ Transition(at[w].mission, "RUNNING")
    /\ UNCHANGED <<scope, agents, loopCrashes>>

SysadminWorks(w) ==
    /\ at[w].pc = "work"
    /\ agents' = [agents EXCEPT !["sysadmin"] = at[w].mission]
    /\ Move(w, "inspect")
    /\ UNCHANGED <<scope, board, seenPlanned, loopCrashes>>

\* SysAdminService.execute: what safety decides and the helper answers
SysadminExecute(decision, helper) ==
    CASE decision = "REQUIRE_APPROVAL" -> "WAITING_APPROVAL"
      [] decision = "BLOCK" -> "FAILED"
      [] decision = "SIMULATE_ONLY" -> "COMPLETED"
      [] OTHER -> IF helper = "ok" THEN "COMPLETED" ELSE "FAILED"

FinishMission(w) ==
    /\ at[w].pc = "inspect"
    /\ \E decision \in {"ALLOW", "SIMULATE_ONLY", "BLOCK", "REQUIRE_APPROVAL"},
          helper \in {"ok", "error"} :
          Transition(at[w].mission, SysadminExecute(decision, helper))
    /\ Move(w, "done")
    /\ UNCHANGED <<scope, agents, seenPlanned, loopCrashes>>

\* finally: sysadmin is idle again
SysadminIdle(w) ==
    /\ at[w].pc = "done"
    /\ agents' = [agents EXCEPT !["sysadmin"] = 0]
    /\ Rest(w)
    /\ UNCHANGED <<scope, board, loopCrashes>>

\* The process stops and is started again: nothing is cleaned up.
LoopCrash(w) ==
    /\ at[w].pc # "idle" /\ loopCrashes < scope.crashes
    /\ loopCrashes' = loopCrashes + 1
    /\ Rest(w)
    /\ UNCHANGED <<scope, board, agents>>

LoopStep(w) ==
    \/ LookForPlan(w) \/ GetPlanned(w) \/ ClaimPlanStep(w) \/ BeginPlan(w)
    \/ RunPlanStep(w) \/ ConcludePlan(w)
    \/ LookForChange(w) \/ ChangeEnds(w) \/ ChangeRaises(w)
    \/ PickQueued(w) \/ Route(w) \/ CommanderIdle(w) \/ StartMission(w)
    \/ SysadminWorks(w) \/ FinishMission(w) \/ SysadminIdle(w)

DeptNext ==
    \/ \E route \in BOOLEAN : CreateByHand(route)
    \/ \E w \in scope.staff : LoopStep(w) \/ LoopCrash(w)

-----------------------------------------------------------------------------
DeptTypeOK ==
    /\ \A m \in Ids : board[m].status \in MissionStatus /\ board[m].planned \in BOOLEAN
    /\ agents \in [{"commander", "sysadmin"} -> {0} \cup Ids]
    /\ \A w \in LoopWorkers :
          /\ at[w].mission \in {0} \cup Ids
          /\ at[w].mission = 0 <=> at[w].pc \in {"idle", "changes", "department"}

(* The department fails a planned mission as unsupported only when its     *)
(* plan came after the worker's look for planned missions: the order of    *)
(* the stages in run_worker_iteration keeps the two runners apart.         *)
PlannedMissionsSpared ==
    [][\A w \in LoopWorkers, m \in Ids :
          board[m].foe # w /\ board'[m].foe = w => m \notin seenPlanned[w]]_deptVars
=============================================================================
