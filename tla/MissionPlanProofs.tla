-------------------------- MODULE MissionPlanProofs --------------------------
(***************************************************************************)
(* Proofs about the plan of a mission: its order, the single execution of  *)
(* its steps, its verdict, and the stability of what has ended.            *)
(*                                                                         *)
(* The argument has two layers.  The steps protect each other by ownership *)
(* (StepsInv): a call owns its step from the claim, or the resume, until   *)
(* it has written the outcome, and only the owner writes a RUNNING step.   *)
(* The mission's row then follows the one open step of its plan (RowInv).  *)
(* Under stronger hypotheses whatever is half-way is in the hands of a     *)
(* call (AgreeInv), so that a mission nobody works on is consistent.       *)
(***************************************************************************)
EXTENDS MissionExecutionProofs

(* At most one call of resume_approved is in progress.  With two, the      *)
(* theorems are false (run two_resumers).                                  *)
SingleResumer == \A r, q \in Resumers : r = q

-----------------------------------------------------------------------------
(* A call owns the step it is executing.                                   *)
Owns(p) ==
    /\ st[p] # None
    /\ \/ pc[p] \in GatewayLabels
       \/ pc[p] \in {"step_read", "step_write"} /\ tgt[p] # "RUNNING"
       \/ pc[p] \in {"mission_read", "mission_write"} /\ tgt[p] = "RUNNING"

(* A resume that is about to take a waiting step.                          *)
Reviving(p) == pc[p] \in {"step_read", "step_write"} /\ tgt[p] = "RUNNING"

(* The adapter may already have been called.                               *)
Settling(p) == pc[p] \in {"step_read", "step_write"} /\ tgt[p] \in {"SUCCEEDED", "FAILED"}

(* What a call knows of its step.                                          *)
CallSteps(p) ==
    /\ Owns(p) => sstatus[st[p]] = "RUNNING" /\ (~Settling(p) => execs[st[p]] = 0)
    /\ Reviving(p) => p \in Resumers /\ sstatus[st[p]] = "WAITING_APPROVAL"
    /\ pc[p] = "find_waiting" => p \in Resumers
    /\ pc[p] = "claim" => \A t \in Steps : Earlier(t, st[p]) => sstatus[t] = "SUCCEEDED"

SoleOwner == \A p, q \in Procs : Owns(p) /\ Owns(q) /\ st[p] = st[q] => p = q

OnceInv ==
    \A s \in Steps :
        execs[s] <= 1 /\ (sstatus[s] \in {"PENDING", "WAITING_APPROVAL"} => execs[s] = 0)

StepsInv == (\A p \in Procs : CallSteps(p)) /\ SoleOwner /\ StepOrder /\ OnceInv

USE DEF Procs, GatewayLabels, Labels, MissionStatus, StepStatus

-----------------------------------------------------------------------------
(* The shapes of a step, as far as plans and missions are concerned.       *)
DataUnchanged == UNCHANGED <<mstatus, planned, sstatus, execs>>

(* A call ends and leaves the data alone.                                  *)
Ends(p) == DataUnchanged /\ Finish(p)

(* A call moves inside the gateway, or leaves it with an outcome.          *)
InGateway(p) ==
    /\ pc[p] \in GatewayLabels
    /\ UNCHANGED <<mstatus, planned, sstatus, mi, snap, st>>
    /\ \/ pc'[p] \in GatewayLabels /\ execs' = execs
       \/ /\ pc'[p] = "step_read"
          /\ tgt'[p] \in {"WAITING_APPROVAL", "SUCCEEDED", "FAILED"}
          /\ execs' = execs
       \/ /\ pc'[p] = "step_read" /\ pc[p] = "execute"
          /\ tgt'[p] \in {"SUCCEEDED", "FAILED"}
          /\ execs' = [execs EXCEPT ![st[p]] = @ + 1]

(* The gateway's actions have that shape.                                  *)
LEMMA GatewayShape ==
    ASSUME NEW p \in Procs, CallType,
           \/ ReadSystemState(p) \/ IsApproved(p) \/ MatchRule(p) \/ FindPending(p)
           \/ CreateRequest(p) \/ ConsumeRule(p) \/ ExecuteTool(p)
    PROVE  InGateway(p)
<1>1. CASE ReadSystemState(p) \/ FindPending(p) \/ CreateRequest(p) \/ ConsumeRule(p)
  BY <1>1 DEF CallType, InGateway, ReadSystemState, FindPending, CreateRequest, ConsumeRule,
              CallTransitionStep, Goto, rows, hist
<1>2. CASE IsApproved(p)
  BY <1>2 DEF CallType, InGateway, IsApproved, Goto, rows, hist
<1>3. CASE MatchRule(p)
  BY <1>3 DEF CallType, InGateway, MatchRule, CallTransitionStep, Goto, rows, hist
<1>4. CASE ExecuteTool(p)
  BY <1>4 DEF CallType, InGateway, ExecuteTool, CallTransitionStep, Goto, rows
<1>. QED BY <1>1, <1>2, <1>3, <1>4

(* Two steps of a mission that were started and did not succeed are one.   *)
LEMMA OneOpen ==
    ASSUME StepOrder, NEW s \in Steps, NEW t \in Steps, StepMission[s] = StepMission[t],
           sstatus[s] \notin {"PENDING", "SUCCEEDED"},
           sstatus[t] \notin {"PENDING", "SUCCEEDED"}
    PROVE  s = t
<1>1. StepPos[s] \in Nat /\ StepPos[t] \in Nat
  BY ConstantsAssumption DEF ConstantsAssumption
<1>2. CASE StepPos[s] < StepPos[t] BY <1>2 DEF StepOrder, Earlier
<1>3. CASE StepPos[t] < StepPos[s] BY <1>3 DEF StepOrder, Earlier
<1>4. CASE StepPos[s] = StepPos[t] BY <1>4, ConstantsAssumption DEF ConstantsAssumption
<1>. QED BY <1>1, <1>2, <1>3, <1>4

(* A PENDING step whose predecessors have succeeded excludes an open step. *)
LEMMA NoOpen ==
    ASSUME StepOrder, NEW s \in Steps, NEW t \in Steps, StepMission[s] = StepMission[t],
           sstatus[s] = "PENDING", \A u \in Steps : Earlier(u, s) => sstatus[u] = "SUCCEEDED"
    PROVE  sstatus[t] \in {"PENDING", "SUCCEEDED"}
<1>1. StepPos[s] \in Nat /\ StepPos[t] \in Nat
  BY ConstantsAssumption DEF ConstantsAssumption
<1>2. CASE StepPos[s] < StepPos[t] BY <1>2 DEF StepOrder, Earlier
<1>3. CASE StepPos[t] < StepPos[s] BY <1>3 DEF Earlier
<1>4. CASE StepPos[s] = StepPos[t] BY <1>4, ConstantsAssumption DEF ConstantsAssumption
<1>. QED BY <1>1, <1>2, <1>3, <1>4

-----------------------------------------------------------------------------
(* A step of p that changes no status and no count disturbs StepsInv at    *)
(* most in what p knows and owns.                                          *)
LEMMA QuietSteps ==
    ASSUME NEW p \in Procs, StepsInv, Others(p), sstatus' = sstatus, execs' = execs,
           CallSteps(p)', Owns(p)' => Owns(p) /\ st'[p] = st[p]
    PROVE  StepsInv'
<1>1. \A q \in Procs : CallSteps(q)'
  BY DEF StepsInv, CallSteps, Others, Owns, Reviving, Settling, Earlier
<1>2. SoleOwner' BY DEF StepsInv, SoleOwner, Others, Owns
<1>3. StepOrder' /\ OnceInv' BY DEF StepsInv, StepOrder, OnceInv, Earlier
<1>. QED BY <1>1, <1>2, <1>3 DEF StepsInv

LEMMA ProcSteps ==
    ASSUME NEW p \in Procs, SingleResumer, TypeInv, StepsInv, ProcStep(p) \/ Crash(p)
    PROVE  StepsInv'
<1>. CallType /\ CallOK(p) /\ TypeOK BY DEF TypeInv, TypeOK, LocalOK, CallType
<1>. CallSteps(p) BY DEF StepsInv
<1>0. Others(p) BY OnlyItself
<1>1. ASSUME Ends(p) PROVE StepsInv'
  <2>1. pc'[p] = "idle" BY <1>1 DEF Ends, Finish, CallType
  <2>2. CallSteps(p)' /\ ~Owns(p)' BY <2>1 DEF CallSteps, Owns, Reviving
  <2>. QED BY <1>0, <1>1, <2>2, QuietSteps DEF Ends, DataUnchanged
<1>2. ASSUME InGateway(p) PROVE StepsInv'
  <2>0. st[p] \in Steps /\ Owns(p) /\ ~Settling(p)
    BY <1>2, ConstantsAssumption DEF ConstantsAssumption, CallOK, InGateway, Owns, Settling
  <2>1. CASE execs' = execs
    BY <1>0, <1>2, <2>0, <2>1, QuietSteps DEF InGateway, CallSteps, Owns, Reviving, Settling
  <2>2. CASE execs' # execs
    <3>1. /\ sstatus' = sstatus /\ st' = st /\ pc'[p] = "step_read"
          /\ tgt'[p] \in {"SUCCEEDED", "FAILED"}
          /\ execs' = [execs EXCEPT ![st[p]] = @ + 1]
      BY <1>2, <2>2 DEF InGateway
    <3>2. sstatus[st[p]] = "RUNNING" /\ execs[st[p]] = 0 BY <2>0 DEF CallSteps
    <3>3. CallSteps(p)' BY <2>0, <3>1, <3>2 DEF CallSteps, Owns, Reviving, Settling
    <3>4. ASSUME NEW q \in Procs, q # p PROVE CallSteps(q)'
      <4>1. CallSteps(q) BY DEF StepsInv
      <4>2. Owns(q) => st[q] # st[p] BY <2>0, <3>4 DEF StepsInv, SoleOwner
      <4>. QED BY <1>0, <3>1, <3>4, <4>1, <4>2
               DEF TypeOK, CallSteps, Others, Owns, Reviving, Settling, Earlier
    <3>5. SoleOwner' BY <1>0, <2>0, <3>1 DEF StepsInv, SoleOwner, Others, Owns
    <3>6. StepOrder' BY <3>1 DEF StepsInv, StepOrder, Earlier
    <3>7. OnceInv' BY <2>0, <3>1, <3>2 DEF TypeOK, StepsInv, OnceInv
    <3>. QED BY <3>3, <3>4, <3>5, <3>6, <3>7 DEF StepsInv
  <2>. QED BY <2>1, <2>2
<1>3. CASE GetMission(p) \/ CheckWaiting(p) \/ CheckPlan(p) \/ TransitionRead(p)
  <2>1. CASE Finish(p)
    BY <1>1, <1>3, <2>1 DEF Ends, DataUnchanged, GetMission, CheckWaiting, CheckPlan,
                            TransitionRead, rows, hist
  <2>2. CASE ~Finish(p)
    <3>1. /\ sstatus' = sstatus /\ execs' = execs /\ st' = st
          /\ \/ pc'[p] \in {"waiting", "select"}
             \/ pc[p] = "plan_check" /\ pc'[p] = "mission_read"
                /\ (st[p] # None => tgt'[p] = "COMPLETED")
             \/ pc[p] = "mission_read" /\ pc'[p] = "mission_write" /\ tgt' = tgt
      BY <1>3, <2>2 DEF CallType, GetMission, CheckWaiting, CheckPlan, TransitionRead, Goto,
                        CallTransition, rows, hist
    <3>2. CallSteps(p)' /\ (Owns(p)' => Owns(p) /\ st'[p] = st[p])
      BY <3>1 DEF CallSteps, Owns, Reviving, Settling
    <3>. QED BY <1>0, <3>1, <3>2, QuietSteps
  <2>. QED BY <2>1, <2>2
<1>4. CASE SelectStep(p)
  <2>1. /\ sstatus' = sstatus /\ execs' = execs
        /\ \/ pc'[p] = "plan_check"
           \/ pc'[p] = "claim" /\ FirstIncomplete(mi[p], st'[p])
    BY <1>4 DEF CallType, SelectStep, Goto, rows, hist
  <2>2. CallSteps(p)' /\ ~Owns(p)'
    BY <2>1 DEF CallSteps, Owns, Reviving, FirstIncomplete, Earlier
  <2>. QED BY <1>0, <2>1, <2>2, QuietSteps
<1>5. CASE ClaimStep(p)
  <2>1. CASE sstatus[st[p]] # "PENDING"
    <3>1. sstatus' = sstatus /\ execs' = execs /\ pc'[p] = "plan_check"
      BY <1>5, <2>1 DEF CallType, ClaimStep, Goto, hist
    <3>2. CallSteps(p)' /\ ~Owns(p)' BY <3>1 DEF CallSteps, Owns, Reviving
    <3>. QED BY <1>0, <3>1, <3>2, QuietSteps
  <2>2. CASE sstatus[st[p]] = "PENDING"
    <3>0. st[p] \in Steps /\ pc[p] = "claim" BY <1>5 DEF ClaimStep, CallOK
    <3>1. /\ sstatus' = [sstatus EXCEPT ![st[p]] = "RUNNING"] /\ execs' = execs /\ st' = st
          /\ \/ pc'[p] = "gateway"
             \/ pc'[p] = "mission_read" /\ tgt'[p] = "RUNNING"
      BY <1>5, <2>2 DEF CallType, ClaimStep, Goto, CallTransition, hist
    <3>2. CallSteps(p)'
      BY <2>2, <3>0, <3>1 DEF TypeOK, StepsInv, OnceInv, CallSteps, Owns, Reviving, Settling
    <3>3. ASSUME NEW q \in Procs, q # p PROVE CallSteps(q)' /\ (Owns(q) => st[q] # st[p])
      <4>1. CallSteps(q) BY DEF StepsInv
      <4>. QED BY <1>0, <2>2, <3>0, <3>1, <3>3, <4>1
               DEF TypeOK, CallSteps, Others, Owns, Reviving, Settling, Earlier
    <3>4. SoleOwner' BY <1>0, <3>1, <3>3 DEF StepsInv, SoleOwner, Others, Owns
    <3>5. StepOrder'
      BY <2>2, <3>0, <3>1 DEF TypeOK, StepsInv, StepOrder, Earlier, CallSteps
    <3>6. OnceInv' BY <2>2, <3>0, <3>1 DEF TypeOK, StepsInv, OnceInv
    <3>. QED BY <3>2, <3>3, <3>4, <3>5, <3>6 DEF StepsInv
  <2>. QED BY <2>1, <2>2
<1>6. CASE TransitionWrite(p)
  <2>1. /\ sstatus' = sstatus /\ execs' = execs
        /\ \/ pc'[p] = "idle"
           \/ pc'[p] = "mission_read" /\ tgt'[p] = "COMPLETED"
           \/ /\ pc[p] = "mission_write" /\ tgt[p] = "RUNNING" /\ st[p] # None
              /\ pc'[p] = "gateway" /\ st' = st
    BY <1>6 DEF CallType, TransitionWrite, Finish, Goto, CallTransition, hist
  <2>2. CallSteps(p)' /\ (Owns(p)' => Owns(p) /\ st'[p] = st[p])
    BY <2>1 DEF CallSteps, Owns, Reviving, Settling
  <2>. QED BY <1>0, <2>1, <2>2, QuietSteps
<1>7. CASE TransitionStepRead(p)
  <2>1. CASE Finish(p)
    BY <1>1, <1>7, <2>1 DEF Ends, DataUnchanged, TransitionStepRead, rows, hist
  <2>2. CASE ~Finish(p)
    <3>1. /\ sstatus' = sstatus /\ execs' = execs /\ st' = st /\ tgt' = tgt
          /\ pc[p] = "step_read" /\ pc'[p] = "step_write"
      BY <1>7, <2>2 DEF CallType, TransitionStepRead, Goto, rows, hist
    <3>2. CallSteps(p)' /\ (Owns(p)' => Owns(p) /\ st'[p] = st[p])
      BY <3>1 DEF CallSteps, Owns, Reviving, Settling
    <3>. QED BY <1>0, <3>1, <3>2, QuietSteps
  <2>. QED BY <2>1, <2>2
<1>8. CASE TransitionStepWrite(p)
  <2>0. /\ st[p] \in Steps /\ pc[p] = "step_write"
        /\ tgt[p] \in {"RUNNING", "WAITING_APPROVAL", "SUCCEEDED", "FAILED"}
    BY <1>8 DEF TransitionStepWrite, CallOK
  <2>1. /\ sstatus' = [sstatus EXCEPT ![st[p]] = tgt[p]] /\ execs' = execs /\ st' = st
        /\ \/ pc'[p] = "plan_check" /\ tgt[p] = "SUCCEEDED"
           \/ pc'[p] = "mission_read" /\ tgt'[p] = tgt[p] /\ tgt[p] # "SUCCEEDED"
    BY <1>8 DEF CallType, TransitionStepWrite, Goto, CallTransition, hist
  <2>2. st[p] # None /\ (Owns(p) \/ Reviving(p))
    BY <2>0, ConstantsAssumption DEF ConstantsAssumption, Owns, Reviving
  <2>3. /\ sstatus[st[p]] \in {"RUNNING", "WAITING_APPROVAL"}
        /\ tgt[p] \in {"RUNNING", "WAITING_APPROVAL"} => execs[st[p]] = 0
    BY <2>0, <2>2 DEF CallSteps, Reviving, Owns, Settling, StepsInv, OnceInv
  <2>4. ASSUME NEW q \in Procs, q # p PROVE CallSteps(q)' /\ (Owns(q) => st[q] # st[p])
    <3>1. CallSteps(q) BY DEF StepsInv
    <3>2. Owns(q) => st[q] # st[p]
      BY <2>2, <2>4, <3>1 DEF StepsInv, SoleOwner, CallSteps
    <3>3. Reviving(q) => st[q] # st[p]
      BY <2>2, <2>4, <3>1 DEF CallSteps, SingleResumer
    <3>. QED BY <1>0, <2>0, <2>1, <2>3, <2>4, <3>1, <3>2, <3>3
             DEF TypeOK, CallSteps, Others, Owns, Reviving, Settling, Earlier
  <2>5. CallSteps(p)'
    BY <2>0, <2>1, <2>3 DEF TypeOK, CallSteps, Owns, Reviving, Settling
  <2>6. SoleOwner' BY <1>0, <2>1, <2>4 DEF StepsInv, SoleOwner, Others, Owns
  <2>7. StepOrder' BY <2>0, <2>1, <2>3 DEF TypeOK, StepsInv, StepOrder, Earlier
  <2>8. OnceInv' BY <2>0, <2>1, <2>3 DEF TypeOK, StepsInv, OnceInv
  <2>. QED BY <2>4, <2>5, <2>6, <2>7, <2>8 DEF StepsInv
<1>9. CASE FindWaitingStep(p)
  <2>1. CASE Finish(p)
    BY <1>1, <1>9, <2>1 DEF Ends, DataUnchanged, FindWaitingStep, rows, hist
  <2>2. CASE ~Finish(p)
    <3>1. /\ sstatus' = sstatus /\ execs' = execs /\ pc[p] = "find_waiting"
          /\ pc'[p] = "step_read" /\ tgt'[p] = "RUNNING"
          /\ sstatus[st'[p]] = "WAITING_APPROVAL"
      BY <1>9, <2>2 DEF CallType, FindWaitingStep, WaitingStep, Goto, CallTransitionStep, rows,
                        hist
    <3>2. CallSteps(p)' /\ ~Owns(p)' BY <3>1 DEF CallSteps, Owns, Reviving, Settling
    <3>. QED BY <1>0, <3>1, <3>2, QuietSteps
  <2>. QED BY <2>1, <2>2
<1>10. CASE Crash(p)
  BY <1>1, <1>10 DEF Ends, DataUnchanged, Crash, rows, hist
<1>. QED BY <1>2, <1>3, <1>4, <1>5, <1>6, <1>7, <1>8, <1>9, <1>10, GatewayShape DEF ProcStep

LEMMA StartSteps ==
    ASSUME NEW p \in Procs, NEW m \in Missions, TypeInv, StepsInv,
           RunOnce(p, m) \/ (p \in Resumers /\ ResumeApproved(p, m))
    PROVE  StepsInv'
<1>1. /\ sstatus' = sstatus /\ execs' = execs /\ st' = st
      /\ pc'[p] = "get" \/ (pc'[p] = "find_waiting" /\ p \in Resumers)
  BY DEF TypeInv, TypeOK, RunOnce, ResumeApproved, Goto, rows, hist
<1>2. Others(p) BY DEF TypeInv, TypeOK, Others, RunOnce, ResumeApproved, Goto
<1>3. CallSteps(p)' /\ ~Owns(p)' BY <1>1 DEF CallSteps, Owns, Reviving
<1>. QED BY <1>1, <1>2, <1>3, QuietSteps

LEMMA StepSteps ==
    ASSUME SingleResumer, TypeInv, StepsInv, [Next]_vars
    PROVE  StepsInv'
<1>1. CASE UNCHANGED <<sstatus, execs, local>>
  BY <1>1 DEF StepsInv, CallSteps, SoleOwner, StepOrder, OnceInv, Owns, Reviving, Settling,
              Earlier, local
<1>2. CASE EnvStep
  BY <1>1, <1>2 DEF EnvStep, CreateMission, CreatePlan, DepartmentFails, DecideRead, DecideWrite,
                    ExpireApproval, CreateScopedRule, ExpireRule, SetSystemState, rows, hist
<1>3. CASE UNCHANGED vars BY <1>1, <1>3 DEF vars, rows, hist
<1>4. ASSUME NEW w \in Workers, NEW m \in Missions, RunOnce(w, m) PROVE StepsInv'
  BY <1>4, StartSteps
<1>5. ASSUME NEW r \in Resumers, NEW m \in Missions, ResumeApproved(r, m) PROVE StepsInv'
  BY <1>5, StartSteps
<1>6. ASSUME NEW p \in Procs, ProcStep(p) \/ Crash(p) PROVE StepsInv'
  BY <1>6, ProcSteps
<1>. QED BY <1>2, <1>3, <1>4, <1>5, <1>6 DEF Next

LEMMA InitSteps == Init => StepsInv
BY DEF Init, StepsInv, CallSteps, SoleOwner, StepOrder, OnceInv, Owns, Reviving

LEMMA AlwaysSteps == ASSUME SingleResumer PROVE Spec => [](TypeInv /\ StepsInv)
<1>1. TypeInv /\ StepsInv /\ [Next]_vars => (TypeInv /\ StepsInv)'
  BY StepType, StepSteps
<1>. QED BY InitType, InitSteps, <1>1, PTL DEF Spec

(* A plan runs in order: no step is started before every earlier step of   *)
(* its mission has SUCCEEDED, whatever the workers read before they claim. *)
THEOREM PlanInOrder == ASSUME SingleResumer PROVE Spec => []StepOrder
BY AlwaysSteps, PTL DEF StepsInv

(* The adapter of a step is called at most once over any number of         *)
(* workers, restarts and resumes, if resumes do not overlap.               *)
THEOREM OnceOnly == ASSUME SingleResumer PROVE Spec => []ExecutedAtMostOnce
<1>1. StepsInv => ExecutedAtMostOnce BY DEF StepsInv, OnceInv, ExecutedAtMostOnce
<1>. QED BY AlwaysSteps, <1>1, PTL

-----------------------------------------------------------------------------
(* Steps that have ended stay as they ended.                               *)
FinalSteps ==
    \A s \in Steps : sstatus[s] \in {"SUCCEEDED", "FAILED"} => sstatus'[s] = sstatus[s]

LEMMA StepsStable ==
    ASSUME TypeInv, StepsInv, [Next]_vars
    PROVE  FinalSteps
<1>1. CASE sstatus' = sstatus BY <1>1 DEF FinalSteps
<1>2. ASSUME NEW p \in Procs, ClaimStep(p) PROVE FinalSteps
  BY <1>2 DEF TypeInv, TypeOK, LocalOK, CallOK, ClaimStep, FinalSteps
<1>3. ASSUME NEW p \in Procs, TransitionStepWrite(p) PROVE FinalSteps
  <2>1. CallOK(p) /\ CallSteps(p) /\ pc[p] = "step_write"
    BY <1>3 DEF TypeInv, LocalOK, StepsInv, TransitionStepWrite
  <2>2. st[p] \in Steps /\ sstatus[st[p]] \in {"RUNNING", "WAITING_APPROVAL"}
    BY <2>1, ConstantsAssumption DEF ConstantsAssumption, CallOK, CallSteps, Owns, Reviving
  <2>. QED BY <1>3, <2>2 DEF TypeInv, TypeOK, TransitionStepWrite, FinalSteps
<1>4. ASSUME NEW p \in Procs, ProcStep(p) \/ Crash(p) PROVE FinalSteps
  BY <1>1, <1>2, <1>3, <1>4
  DEF ProcStep, Crash, GetMission, CheckWaiting, SelectStep, CheckPlan, TransitionRead,
      TransitionWrite, TransitionStepRead, FindWaitingStep, ReadSystemState, IsApproved,
      MatchRule, FindPending, CreateRequest, ConsumeRule, ExecuteTool, rows
<1>5. CASE EnvStep \/ UNCHANGED vars
  BY <1>1, <1>5 DEF EnvStep, CreateMission, CreatePlan, DepartmentFails, DecideRead, DecideWrite,
                    ExpireApproval, CreateScopedRule, ExpireRule, SetSystemState, vars, rows
<1>6. ASSUME NEW p \in Procs, NEW m \in Missions, RunOnce(p, m) \/ ResumeApproved(p, m)
      PROVE  FinalSteps
  BY <1>1, <1>6 DEF RunOnce, ResumeApproved, rows
<1>. QED BY <1>4, <1>5, <1>6 DEF Next

-----------------------------------------------------------------------------
(* What a call that is about to write a verdict knows of the plan.         *)
Writes(p, status) == pc[p] \in {"mission_read", "mission_write"} /\ tgt[p] = status

CallVerdict(p) ==
    /\ Writes(p, "COMPLETED") => PlanComplete(mi[p])
    /\ Writes(p, "RUNNING") /\ st[p] = None => PlanComplete(mi[p])
    /\ Writes(p, "FAILED") => sstatus[st[p]] = "FAILED"

(* A mission that the department failed before anything of it had started. *)
Refused(m) == mstatus[m] = "FAILED" /\ PlanUntouched(m)

(* Only a planned mission is started, and a refused one is in no call.     *)
Parked ==
    /\ \A s \in Steps : sstatus[s] # "PENDING" => StepMission[s] \in planned
    /\ \A m \in Missions : Refused(m) => \A p \in Procs : pc[p] # "idle" => mi[p] # m

VerdictInv == (\A p \in Procs : CallVerdict(p)) /\ VerdictMatchesPlan /\ Parked

(* A call touches its own step, and none returns to PENDING.               *)
OwnStep(p) ==
    \A s \in Steps :
        sstatus'[s] = sstatus[s] \/ (s = st[p] /\ pc[p] # "idle" /\ sstatus'[s] # "PENDING")

(* A call stays with its mission until it ends.                            *)
OwnMission(p) == pc'[p] # "idle" => pc[p] # "idle" /\ mi'[p] = mi[p]

LEMMA OwnPlace ==
    ASSUME NEW p \in Procs, TypeInv, ProcStep(p) \/ Crash(p)
    PROVE  OwnStep(p) /\ OwnMission(p) /\ planned' = planned
<1>. CallType /\ CallOK(p) /\ TypeOK BY DEF TypeInv, TypeOK, LocalOK, CallType
<1>1. CASE ClaimStep(p)
  BY <1>1 DEF CallType, TypeOK, OwnStep, OwnMission, ClaimStep, Goto, CallTransition
<1>2. CASE TransitionStepWrite(p)
  <2>1. tgt[p] # "PENDING" BY <1>2 DEF CallOK, TransitionStepWrite
  <2>. QED BY <1>2, <2>1 DEF CallType, TypeOK, OwnStep, OwnMission, TransitionStepWrite
<1>3. CASE InGateway(p) BY <1>3 DEF InGateway, OwnStep, OwnMission
<1>4. CASE GetMission(p) \/ CheckWaiting(p) \/ SelectStep(p) \/ CheckPlan(p)
  BY <1>4 DEF CallType, OwnStep, OwnMission, GetMission, CheckWaiting, SelectStep, CheckPlan,
              Finish, rows
<1>5. CASE TransitionRead(p) \/ TransitionStepRead(p) \/ FindWaitingStep(p) \/ Crash(p)
  BY <1>5 DEF CallType, OwnStep, OwnMission, TransitionRead, TransitionStepRead,
              FindWaitingStep, Crash, Finish, rows
<1>6. CASE TransitionWrite(p)
  BY <1>6 DEF CallType, OwnStep, OwnMission, TransitionWrite, Finish
<1>. QED BY <1>1, <1>2, <1>3, <1>4, <1>5, <1>6, GatewayShape DEF ProcStep

(* What was refused stays untouched: nothing that is not planned starts,   *)
(* and a call takes up only a QUEUED, RUNNING or WAITING_APPROVAL mission. *)
LEMMA StepParked ==
    ASSUME TypeInv, VerdictInv, [Next]_vars
    PROVE  Parked' /\ \A m \in Missions : Refused(m) => PlanUntouched(m)'
<1>. TypeOK /\ CallType /\ DataOK /\ Parked
  BY DEF TypeInv, TypeOK, CallType, LocalOK, VerdictInv
<1>. DEFINE Untouched == \A m \in Missions : Refused(m) => PlanUntouched(m)'
<1>1. ASSUME UNCHANGED sstatus, planned \subseteq planned',
             \A p \in Procs : OwnMission(p),
             \A m \in Missions : mstatus'[m] = "FAILED" /\ mstatus[m] # "FAILED" =>
                \A p \in Procs : pc[p] # "idle" => mi[p] # m
      PROVE  Parked' /\ Untouched
  <2>1. \A m \in Missions : PlanUntouched(m)' <=> PlanUntouched(m)
    BY <1>1 DEF PlanUntouched, PlanOf
  <2>. QED BY <1>1, <2>1 DEF Parked, Refused, OwnMission
<1>2. ASSUME NEW p \in Procs, ProcStep(p) \/ Crash(p) PROVE Parked' /\ Untouched
  <2>0. CallOK(p) /\ CallVerdict(p) BY DEF TypeInv, LocalOK, VerdictInv
  <2>1. OwnStep(p) /\ OwnMission(p) /\ planned' = planned /\ Others(p)
    BY <1>2, OwnPlace, OnlyItself
  <2>2. ASSUME NEW s \in Steps, sstatus'[s] # sstatus[s]
        PROVE  StepMission[s] \in planned /\ mi[p] = StepMission[s] /\ pc[p] # "idle"
    BY <2>0, <2>1, <2>2, ConstantsAssumption DEF ConstantsAssumption, CallOK, OwnStep
  <2>3. \A s \in Steps : sstatus'[s] # "PENDING" => StepMission[s] \in planned'
    BY <2>1, <2>2 DEF Parked
  <2>4. Untouched BY <2>2 DEF Parked, Refused, PlanUntouched, PlanOf
  <2>5. ASSUME NEW m \in Missions, Refused(m)' PROVE Refused(m)
    <3>1. PlanUntouched(m) BY <2>1, <2>5 DEF Refused, PlanUntouched, PlanOf, OwnStep
    <3>2. CASE ~TransitionWrite(p)
      BY <1>2, <2>5, <3>1, <3>2
      DEF Refused, ProcStep, Crash, GetMission, CheckWaiting, SelectStep, ClaimStep, CheckPlan,
          TransitionRead, TransitionStepRead, TransitionStepWrite, FindWaitingStep,
          ReadSystemState, IsApproved, MatchRule, FindPending, CreateRequest, ConsumeRule,
          ExecuteTool, rows
    <3>3. CASE TransitionWrite(p)
      <4>1. pc[p] = "mission_write" /\ mstatus' = [mstatus EXCEPT ![mi[p]] = tgt[p]]
        BY <3>3 DEF TransitionWrite
      <4>2. ASSUME mi[p] = m, tgt[p] = "FAILED" PROVE FALSE
        <5>1. st[p] \in PlanOf(m) /\ sstatus[st[p]] = "FAILED"
          BY <2>0, <4>1, <4>2, ConstantsAssumption
          DEF ConstantsAssumption, CallOK, CallVerdict, Writes, PlanOf
        <5>. QED BY <3>1, <5>1 DEF PlanUntouched
      <4>. QED BY <2>5, <3>1, <4>1, <4>2 DEF TypeOK, Refused
    <3>. QED BY <3>2, <3>3
  <2>6. ASSUME NEW m \in Missions, Refused(m)', NEW q \in Procs, pc'[q] # "idle"
        PROVE  mi'[q] # m
    <3>1. pc[q] # "idle" /\ mi'[q] = mi[q] BY <2>1, <2>6 DEF OwnMission, Others
    <3>. QED BY <2>5, <2>6, <3>1 DEF Parked
  <2>. QED BY <2>3, <2>4, <2>6 DEF Parked
<1>3. ASSUME NEW p \in Procs, NEW m \in Missions, RunOnce(p, m) \/ ResumeApproved(p, m)
      PROVE  Parked' /\ Untouched
  <2>1. /\ UNCHANGED <<mstatus, planned, sstatus>> /\ Others(p) /\ mi'[p] = m
        /\ mstatus[m] # "FAILED"
    BY <1>3 DEF TypeOK, Others, RunOnce, ResumeApproved, Runnable, Goto, rows
  <2>2. \A n \in Missions : (PlanUntouched(n)' <=> PlanUntouched(n))
                             /\ (Refused(n)' <=> Refused(n))
    BY <2>1 DEF Refused, PlanUntouched, PlanOf
  <2>. QED BY <2>1, <2>2 DEF Parked, Refused, Others
<1>4. ASSUME NEW m \in Missions, CreateMission(m) \/ CreatePlan(m) \/ DepartmentFails(m)
      PROVE  Parked' /\ Untouched
  <2>1. UNCHANGED <<sstatus, pc, mi>> /\ planned \subseteq planned'
    BY <1>4 DEF CreateMission, CreatePlan, DepartmentFails, local
  <2>2. ASSUME NEW n \in Missions, mstatus'[n] = "FAILED", mstatus[n] # "FAILED"
        PROVE  n \notin planned
    BY <1>4, <2>2 DEF TypeOK, CreateMission, CreatePlan, DepartmentFails
  <2>3. \A p \in Procs : pc[p] # "idle" => mi[p] \in planned
    BY DEF TypeInv, LocalOK, CallOK
  <2>. QED BY <1>1, <2>1, <2>2, <2>3 DEF OwnMission
<1>5. CASE EnvStep \/ UNCHANGED vars
  <2>1. CASE UNCHANGED <<rows, local>>
    BY <1>1, <2>1 DEF rows, local, OwnMission
  <2>. QED BY <1>4, <1>5, <2>1
           DEF EnvStep, DecideRead, DecideWrite, ExpireApproval, CreateScopedRule, ExpireRule,
               SetSystemState, vars
<1>. QED BY <1>2, <1>3, <1>5 DEF Next

(* A step that does not write a mission's row keeps the verdicts, and what *)
(* the other calls know.                                                   *)
LEMMA QuietVerdict ==
    ASSUME NEW p \in Procs, TypeInv, VerdictInv, FinalSteps, Others(p), mstatus' = mstatus,
           CallVerdict(p)', Parked', \A m \in Missions : Refused(m) => PlanUntouched(m)'
    PROVE  VerdictInv'
<1>1. VerdictMatchesPlan'
  BY DEF VerdictInv, VerdictMatchesPlan, Refused, FinalSteps, PlanComplete, PlanOf
<1>2. ASSUME NEW q \in Procs, q # p PROVE CallVerdict(q)'
  <2>1. CallVerdict(q) /\ CallOK(q) BY DEF VerdictInv, TypeInv, LocalOK
  <2>2. PlanComplete(mi[q]) => PlanComplete(mi[q])'
    BY <1>2 DEF Others, FinalSteps, PlanComplete, PlanOf
  <2>3. Writes(q, "FAILED") => st[q] \in Steps BY <2>1 DEF CallOK, Writes
  <2>. QED BY <1>2, <2>1, <2>2, <2>3 DEF CallVerdict, Writes, Others, FinalSteps
<1>. QED BY <1>1, <1>2 DEF VerdictInv

LEMMA ProcVerdict ==
    ASSUME NEW p \in Procs, TypeInv, VerdictInv, FinalSteps, ProcStep(p) \/ Crash(p),
           Parked', \A m \in Missions : Refused(m) => PlanUntouched(m)'
    PROVE  VerdictInv'
<1>. CallType /\ CallOK(p) /\ TypeOK BY DEF TypeInv, TypeOK, LocalOK, CallType
<1>. CallVerdict(p) BY DEF VerdictInv
<1>0. Others(p) BY OnlyItself
<1>1. ASSUME mstatus' = mstatus, pc'[p] \notin {"mission_read", "mission_write"}
      PROVE  VerdictInv'
  BY <1>0, <1>1, QuietVerdict DEF CallVerdict, Writes
<1>2. CASE GetMission(p) \/ CheckWaiting(p) \/ SelectStep(p) \/ FindWaitingStep(p) \/ Crash(p)
  <2>1. mstatus' = mstatus /\ pc'[p] \notin {"mission_read", "mission_write"}
    BY <1>2 DEF CallType, GetMission, CheckWaiting, SelectStep, FindWaitingStep, Crash, Finish,
                Goto, CallTransitionStep, rows
  <2>. QED BY <1>1, <2>1
<1>3. CASE InGateway(p)
  BY <1>1, <1>3 DEF InGateway
<1>4. CASE ClaimStep(p)
  <2>1. /\ mstatus' = mstatus
        /\ \/ pc'[p] \notin {"mission_read", "mission_write"}
           \/ tgt'[p] = "RUNNING" /\ st'[p] # None
    BY <1>4, ConstantsAssumption
    DEF ConstantsAssumption, CallType, CallOK, ClaimStep, Goto, CallTransition
  <2>2. CallVerdict(p)' BY <2>1 DEF CallVerdict, Writes
  <2>. QED BY <1>0, <2>1, <2>2, QuietVerdict
<1>5. CASE CheckPlan(p)
  <2>1. CASE Finish(p)
    BY <1>1, <1>5, <2>1 DEF CallType, CheckPlan, Finish, rows
  <2>2. CASE ~Finish(p)
    <3>1. /\ mstatus' = mstatus /\ sstatus' = sstatus /\ mi' = mi
          /\ PlanComplete(mi[p]) /\ tgt'[p] \in {"RUNNING", "COMPLETED"}
      BY <1>5, <2>2 DEF CallType, CheckPlan, CallTransition, Goto, rows
    <3>2. CallVerdict(p)' BY <3>1 DEF CallVerdict, Writes, PlanComplete, PlanOf
    <3>. QED BY <1>0, <3>1, <3>2, QuietVerdict
  <2>. QED BY <2>1, <2>2
<1>6. CASE TransitionRead(p)
  <2>1. CASE Finish(p)
    BY <1>1, <1>6, <2>1 DEF CallType, TransitionRead, Finish, rows
  <2>2. CASE ~Finish(p)
    <3>1. /\ pc[p] = "mission_read" /\ pc'[p] = "mission_write"
          /\ UNCHANGED <<mstatus, sstatus, mi, st, tgt>>
      BY <1>6, <2>2 DEF CallType, TransitionRead, Goto, rows
    <3>2. CallVerdict(p)' BY <3>1 DEF CallVerdict, Writes, PlanComplete, PlanOf
    <3>. QED BY <1>0, <3>1, <3>2, QuietVerdict
  <2>. QED BY <2>1, <2>2
<1>7. CASE TransitionStepRead(p)
  <2>1. mstatus' = mstatus /\ pc'[p] \notin {"mission_read", "mission_write"}
    BY <1>7 DEF CallType, TransitionStepRead, Finish, Goto, rows
  <2>. QED BY <1>1, <2>1
<1>8. CASE TransitionStepWrite(p)
  <2>0. st[p] \in Steps /\ st[p] # None
        /\ tgt[p] \in {"RUNNING", "WAITING_APPROVAL", "SUCCEEDED", "FAILED"}
    BY <1>8, ConstantsAssumption DEF ConstantsAssumption, TransitionStepWrite, CallOK
  <2>1. /\ mstatus' = mstatus /\ st' = st /\ sstatus' = [sstatus EXCEPT ![st[p]] = tgt[p]]
        /\ \/ pc'[p] = "plan_check"
           \/ tgt'[p] = tgt[p] /\ tgt[p] # "SUCCEEDED"
    BY <1>8 DEF CallType, TransitionStepWrite, Goto, CallTransition
  <2>2. CallVerdict(p)' BY <2>0, <2>1 DEF TypeOK, CallVerdict, Writes
  <2>. QED BY <1>0, <2>1, <2>2, QuietVerdict
<1>9. CASE TransitionWrite(p)
  <2>0. /\ pc[p] = "mission_write" /\ mi[p] \in Missions
        /\ tgt[p] \in {"RUNNING", "WAITING_APPROVAL", "COMPLETED", "FAILED"}
        /\ tgt[p] = "FAILED" => st[p] \in PlanOf(mi[p])
    BY <1>9, ConstantsAssumption
    DEF ConstantsAssumption, TransitionWrite, CallOK, PlanOf
  <2>1. /\ mstatus' = [mstatus EXCEPT ![mi[p]] = tgt[p]] /\ sstatus' = sstatus
        /\ \/ pc'[p] \in {"idle", "gateway"}
           \/ /\ tgt[p] = "RUNNING" /\ st[p] = None /\ mi' = mi
              /\ tgt'[p] = "COMPLETED"
    BY <1>9 DEF CallType, TransitionWrite, Finish, Goto, CallTransition
  <2>2. CallVerdict(p)'
    BY <2>0, <2>1 DEF CallVerdict, Writes, PlanComplete, PlanOf
  <2>3. ASSUME NEW q \in Procs, q # p PROVE CallVerdict(q)'
    BY <1>0, <2>1, <2>3 DEF VerdictInv, CallVerdict, Writes, Others, PlanComplete, PlanOf
  <2>4. /\ tgt[p] = "COMPLETED" => PlanComplete(mi[p])
        /\ tgt[p] = "FAILED" => sstatus[st[p]] = "FAILED"
    BY <2>0 DEF CallVerdict, Writes
  <2>5. VerdictMatchesPlan'
    BY <2>0, <2>1, <2>4
    DEF TypeOK, VerdictInv, VerdictMatchesPlan, PlanUntouched, PlanComplete, PlanOf
  <2>. QED BY <2>2, <2>3, <2>5 DEF VerdictInv
<1>. QED BY <1>2, <1>3, <1>4, <1>5, <1>6, <1>7, <1>8, <1>9, GatewayShape DEF ProcStep

LEMMA StepVerdict ==
    ASSUME TypeInv, StepsInv, VerdictInv, [Next]_vars
    PROVE  VerdictInv'
<1>0. FinalSteps /\ Parked' /\ \A m \in Missions : Refused(m) => PlanUntouched(m)'
  BY StepsStable, StepParked
<1>1. ASSUME NEW p \in Procs, ProcStep(p) \/ Crash(p) PROVE VerdictInv'
  BY <1>0, <1>1, ProcVerdict
<1>2. ASSUME NEW p \in Procs, NEW m \in Missions, RunOnce(p, m) \/ ResumeApproved(p, m)
      PROVE  VerdictInv'
  <2>1. /\ mstatus' = mstatus /\ Others(p)
        /\ pc'[p] \notin {"mission_read", "mission_write"}
    BY <1>2 DEF TypeInv, TypeOK, Others, RunOnce, ResumeApproved, Goto, rows
  <2>. QED BY <1>0, <2>1, QuietVerdict DEF CallVerdict, Writes
<1>3. CASE UNCHANGED <<mstatus, sstatus, local>>
  BY <1>0, <1>3 DEF VerdictInv, CallVerdict, VerdictMatchesPlan, Writes, PlanUntouched,
                    PlanComplete, PlanOf, local
<1>4. ASSUME NEW m \in Missions, CreateMission(m) \/ DepartmentFails(m) PROVE VerdictInv'
  <2>1. /\ UNCHANGED <<sstatus, pc, mi, st, tgt>>
        /\ \A n \in Missions : n # m => mstatus'[n] = mstatus[n]
        /\ mstatus'[m] = "QUEUED" \/ (mstatus'[m] = "FAILED" /\ m \notin planned)
    BY <1>4 DEF TypeInv, TypeOK, CreateMission, DepartmentFails, local
  <2>2. \A p \in Procs : CallVerdict(p)'
    BY <2>1 DEF VerdictInv, CallVerdict, Writes, PlanComplete, PlanOf
  <2>3. m \notin planned => PlanUntouched(m)
    BY DEF VerdictInv, Parked, PlanUntouched, PlanOf
  <2>4. VerdictMatchesPlan'
    BY <2>1, <2>3 DEF VerdictInv, VerdictMatchesPlan, PlanUntouched, PlanComplete, PlanOf
  <2>. QED BY <1>0, <2>2, <2>4 DEF VerdictInv
<1>5. CASE EnvStep \/ UNCHANGED vars
  BY <1>3, <1>4, <1>5
  DEF EnvStep, CreatePlan, DecideRead, DecideWrite, ExpireApproval, CreateScopedRule,
      ExpireRule, SetSystemState, vars, rows
<1>. QED BY <1>1, <1>2, <1>5 DEF Next

LEMMA InitVerdict == Init => VerdictInv
BY DEF Init, VerdictInv, CallVerdict, VerdictMatchesPlan, Writes, Parked, Refused

(* A mission is COMPLETED only with a plan that succeeded, and FAILED only *)
(* with a step that failed, or with a plan that was never started because  *)
(* the department had failed the mission first.                            *)
THEOREM VerdictIsThePlans == ASSUME SingleResumer PROVE Spec => []VerdictMatchesPlan
<1>1. TypeInv /\ StepsInv /\ VerdictInv /\ [Next]_vars => (TypeInv /\ StepsInv /\ VerdictInv)'
  BY StepType, StepSteps, StepVerdict
<1>2. Spec => [](TypeInv /\ StepsInv /\ VerdictInv)
  BY InitType, InitSteps, InitVerdict, <1>1, PTL DEF Spec
<1>. QED BY <1>2, PTL DEF VerdictInv

-----------------------------------------------------------------------------
(* What a call knows of the mission's row.  A step in the gateway belongs  *)
(* to a RUNNING mission, a resume acts on a WAITING_APPROVAL one, and a    *)
(* mission that was seen to have left QUEUED does not return there.        *)
CallRow(p) ==
    /\ Owns(p) /\ pc[p] \notin {"mission_read", "mission_write"} => mstatus[mi[p]] = "RUNNING"
    /\ Owns(p) /\ mstatus[mi[p]] = "WAITING_APPROVAL" => p \in Resumers
    /\ Writes(p, "WAITING_APPROVAL") =>
          sstatus[st[p]] = "WAITING_APPROVAL" /\ mstatus[mi[p]] = "RUNNING"
    /\ pc[p] = "find_waiting" \/ Reviving(p) => mstatus[mi[p]] = "WAITING_APPROVAL"
    /\ snap[p] \notin {None, "QUEUED"} => mstatus[mi[p]] \notin {"QUEUED", "ABSENT"}
    /\ pc[p] \in {"idle", "get", "find_waiting"} => snap[p] = None
    /\ pc[p] = "mission_write" /\ tgt[p] = "RUNNING" => st[p] # None

SoleWaiter ==
    \A p, q \in Procs :
        /\ Writes(p, "WAITING_APPROVAL") /\ Writes(q, "WAITING_APPROVAL")
        /\ st[p] = st[q]
        => p = q

(* What a mission's row says of its plan.                                  *)
MissionRow(m) ==
    /\ mstatus[m] \notin {"PAUSED", "CANCELLED"}
    /\ mstatus[m] = "WAITING_APPROVAL" =>
          \E s \in PlanOf(m) : sstatus[s] \in {"WAITING_APPROVAL", "RUNNING"}
    /\ PlanComplete(m) /\ PlanOf(m) # {} => mstatus[m] \in {"RUNNING", "COMPLETED"}

RowInv == (\A p \in Procs : CallRow(p)) /\ SoleWaiter /\ (\A m \in Missions : MissionRow(m))

PlanInv == TypeInv /\ StepsInv /\ VerdictInv /\ RowInv

LEMMA QuietRow ==
    ASSUME NEW p \in Procs, RowInv, Others(p), mstatus' = mstatus, sstatus' = sstatus,
           CallRow(p)',
           Writes(p, "WAITING_APPROVAL")' => Writes(p, "WAITING_APPROVAL") /\ st'[p] = st[p]
    PROVE  RowInv'
<1>1. \A q \in Procs : CallRow(q)'
  BY DEF RowInv, CallRow, Others, Owns, Writes, Reviving
<1>2. SoleWaiter' BY DEF RowInv, SoleWaiter, Others, Writes
<1>3. \A m \in Missions : MissionRow(m)' BY DEF RowInv, MissionRow, PlanComplete, PlanOf
<1>. QED BY <1>1, <1>2, <1>3 DEF RowInv

(* What a call that is about to write the mission's row stands on.         *)
LEMMA WriterKnows ==
    ASSUME NEW p \in Procs, PlanInv, pc[p] = "mission_write"
    PROVE  /\ mi[p] \in Missions
           /\ tgt[p] \in {"RUNNING", "WAITING_APPROVAL", "COMPLETED", "FAILED"}
           /\ tgt[p] = "COMPLETED" => PlanComplete(mi[p])
           /\ tgt[p] # "COMPLETED" => st[p] \in PlanOf(mi[p])
           /\ tgt[p] = "RUNNING" => Owns(p) /\ sstatus[st[p]] = "RUNNING"
           /\ tgt[p] = "FAILED" => sstatus[st[p]] = "FAILED"
           /\ tgt[p] = "WAITING_APPROVAL" =>
                 sstatus[st[p]] = "WAITING_APPROVAL" /\ mstatus[mi[p]] = "RUNNING"
<1>1. CallOK(p) /\ CallSteps(p) /\ CallVerdict(p) /\ CallRow(p)
  BY DEF PlanInv, TypeInv, LocalOK, StepsInv, VerdictInv, RowInv
<1>2. /\ mi[p] \in Missions
      /\ tgt[p] \in {"RUNNING", "WAITING_APPROVAL", "COMPLETED", "FAILED"}
  BY <1>1 DEF CallOK
<1>3. tgt[p] # "COMPLETED" => st[p] \in PlanOf(mi[p])
  BY <1>1, <1>2, ConstantsAssumption DEF ConstantsAssumption, CallOK, CallRow, PlanOf
<1>4. tgt[p] = "RUNNING" => Owns(p) /\ sstatus[st[p]] = "RUNNING"
  BY <1>1 DEF CallRow, CallSteps, Owns
<1>. QED BY <1>1, <1>2, <1>3, <1>4 DEF CallVerdict, CallRow, Writes

(* A call that is about to write a mission's row is alone with it: nobody  *)
(* else owns or resumes a step of that mission.                            *)
LEMMA WriterAlone ==
    ASSUME SingleResumer, NEW p \in Procs, NEW q \in Procs, q # p, PlanInv,
           pc[p] = "mission_write", mi[q] = mi[p]
    PROVE  ~Owns(q) /\ ~Reviving(q) /\ ~Writes(q, "WAITING_APPROVAL") /\ pc[q] # "find_waiting"
<1>. DEFINE m == mi[p]
<1>1. /\ CallOK(p) /\ CallSteps(p) /\ CallRow(p)
      /\ CallOK(q) /\ CallSteps(q) /\ CallRow(q)
      /\ StepOrder
  BY DEF PlanInv, TypeInv, LocalOK, StepsInv, VerdictInv, RowInv
<1>2. ASSUME NEW o \in PlanOf(m), sstatus[o] \in {"RUNNING", "WAITING_APPROVAL"}
      PROVE  tgt[p] \in {"RUNNING", "WAITING_APPROVAL"} /\ st[p] = o
  <2>1. tgt[p] # "COMPLETED" BY <1>2, WriterKnows DEF PlanComplete
  <2>2. st[p] \in PlanOf(m) /\ sstatus[st[p]] \in {"RUNNING", "WAITING_APPROVAL", "FAILED"}
    BY <2>1, WriterKnows
  <2>3. st[p] = o BY <1>1, <1>2, <2>2, OneOpen DEF PlanOf
  <2>. QED BY <1>2, <2>1, <2>3, WriterKnows
<1>3. ~Owns(q)
  <2>. SUFFICES ASSUME Owns(q) PROVE FALSE OBVIOUS
  <2>1. st[q] \in PlanOf(m) /\ sstatus[st[q]] = "RUNNING"
    BY <1>1 DEF CallOK, CallSteps, Owns, PlanOf
  <2>2. st[p] = st[q] /\ tgt[p] \in {"RUNNING", "WAITING_APPROVAL"} BY <1>2, <2>1
  <2>3. Owns(p) BY <2>1, <2>2, WriterKnows
  <2>. QED BY <2>2, <2>3 DEF PlanInv, StepsInv, SoleOwner
<1>4. ~Reviving(q)
  <2>. SUFFICES ASSUME Reviving(q) PROVE FALSE OBVIOUS
  <2>1. st[q] \in PlanOf(m) /\ sstatus[st[q]] = "WAITING_APPROVAL"
    BY <1>1, ConstantsAssumption DEF ConstantsAssumption, CallOK, CallSteps, Reviving, PlanOf
  <2>2. st[p] = st[q] /\ tgt[p] \in {"RUNNING", "WAITING_APPROVAL"} BY <1>2, <2>1
  <2>3. mstatus[m] = "RUNNING" BY <2>1, <2>2, WriterKnows
  <2>4. mstatus[m] = "WAITING_APPROVAL" BY <1>1 DEF CallRow
  <2>. QED BY <2>3, <2>4
<1>5. ~Writes(q, "WAITING_APPROVAL")
  <2>. SUFFICES ASSUME Writes(q, "WAITING_APPROVAL") PROVE FALSE OBVIOUS
  <2>1. st[q] \in PlanOf(m) /\ sstatus[st[q]] = "WAITING_APPROVAL"
    BY <1>1, ConstantsAssumption DEF ConstantsAssumption, CallOK, CallRow, Writes, PlanOf
  <2>2. st[p] = st[q] /\ tgt[p] \in {"RUNNING", "WAITING_APPROVAL"} BY <1>2, <2>1
  <2>3. tgt[p] = "WAITING_APPROVAL" BY <2>1, <2>2, WriterKnows
  <2>4. Writes(p, "WAITING_APPROVAL") BY <2>3 DEF Writes
  <2>. QED BY <2>2, <2>4 DEF PlanInv, RowInv, SoleWaiter
<1>6. pc[q] # "find_waiting"
  <2>. SUFFICES ASSUME pc[q] = "find_waiting" PROVE FALSE OBVIOUS
  <2>1. mstatus[m] = "WAITING_APPROVAL" /\ q \in Resumers BY <1>1 DEF CallRow, CallSteps
  <2>2. PICK o \in PlanOf(m) : sstatus[o] \in {"RUNNING", "WAITING_APPROVAL"}
    BY <2>1, WriterKnows DEF PlanInv, RowInv, MissionRow
  <2>3. tgt[p] = "RUNNING" BY <1>2, <2>1, <2>2, WriterKnows
  <2>4. Owns(p) BY <2>3, WriterKnows
  <2>5. p \in Resumers BY <1>1, <2>1, <2>4 DEF CallRow
  <2>. QED BY <2>1, <2>5 DEF SingleResumer
<1>. QED BY <1>3, <1>4, <1>5, <1>6

LEMMA ProcRow ==
    ASSUME NEW p \in Procs, SingleResumer, PlanInv, ProcStep(p) \/ Crash(p)
    PROVE  RowInv'
<1>. /\ TypeInv /\ StepsInv /\ VerdictInv /\ RowInv
     /\ CallType /\ CallOK(p) /\ TypeOK /\ DataOK
  BY DEF PlanInv, TypeInv, TypeOK, LocalOK, CallType
<1>. CallSteps(p) /\ CallVerdict(p) /\ CallRow(p) BY DEF StepsInv, VerdictInv, RowInv
<1>0. Others(p) BY OnlyItself
<1>1. ASSUME Ends(p) PROVE RowInv'
  <2>1. pc'[p] = "idle" /\ snap'[p] = None BY <1>1 DEF Ends, Finish, CallType
  <2>2. CallRow(p)' /\ ~Writes(p, "WAITING_APPROVAL")'
    BY <2>1 DEF CallRow, Owns, Reviving, Writes
  <2>. QED BY <1>0, <1>1, <2>2, QuietRow DEF Ends, DataUnchanged
<1>2. CASE InGateway(p)
  <2>1. Owns(p) /\ pc[p] \notin {"mission_read", "mission_write"}
    BY <1>2, ConstantsAssumption DEF ConstantsAssumption, CallOK, InGateway, Owns
  <2>2. mstatus[mi[p]] = "RUNNING" BY <2>1 DEF CallRow
  <2>3. CallRow(p)' /\ ~Writes(p, "WAITING_APPROVAL")'
    BY <1>2, <2>2 DEF InGateway, CallRow, Owns, Reviving, Writes
  <2>. QED BY <1>0, <1>2, <2>3, QuietRow DEF InGateway
<1>3. CASE GetMission(p) \/ CheckWaiting(p)
  <2>1. CASE Finish(p)
    BY <1>1, <1>3, <2>1 DEF Ends, DataUnchanged, GetMission, CheckWaiting, rows, hist
  <2>2. CASE ~Finish(p)
    <3>1. /\ UNCHANGED <<mstatus, sstatus, mi>> /\ pc'[p] \in {"waiting", "select"}
          /\ snap'[p] = snap[p] \/ snap'[p] = mstatus[mi[p]]
      BY <1>3, <2>2 DEF CallType, GetMission, CheckWaiting, Goto, rows
    <3>2. mstatus[mi[p]] # "ABSENT"
      BY <1>3 DEF CallOK, DataOK, GetMission, CheckWaiting
    <3>3. CallRow(p)' /\ ~Writes(p, "WAITING_APPROVAL")'
      BY <3>1, <3>2 DEF CallRow, Owns, Reviving, Writes
    <3>. QED BY <1>0, <3>1, <3>3, QuietRow
  <2>. QED BY <2>1, <2>2
<1>4. CASE SelectStep(p)
  <2>1. /\ UNCHANGED <<mstatus, sstatus, mi, snap>> /\ pc'[p] \in {"claim", "plan_check"}
    BY <1>4 DEF CallType, SelectStep, Goto, rows
  <2>2. CallRow(p)' /\ ~Writes(p, "WAITING_APPROVAL")'
    BY <2>1 DEF CallRow, Owns, Reviving, Writes
  <2>. QED BY <1>0, <2>1, <2>2, QuietRow
<1>5. CASE CheckPlan(p)
  <2>1. CASE Finish(p)
    BY <1>1, <1>5, <2>1 DEF Ends, DataUnchanged, CheckPlan, rows, hist
  <2>2. CASE ~Finish(p)
    <3>1. /\ UNCHANGED <<mstatus, sstatus, mi, snap, st>> /\ pc'[p] = "mission_read"
          /\ \/ tgt'[p] = "COMPLETED"
             \/ tgt'[p] = "RUNNING" /\ st[p] = None
      BY <1>5, <2>2 DEF CallType, CheckPlan, CallTransition, Goto, rows
    <3>2. CallRow(p)' /\ ~Writes(p, "WAITING_APPROVAL")'
      BY <3>1 DEF CallRow, Owns, Reviving, Writes
    <3>. QED BY <1>0, <3>1, <3>2, QuietRow
  <2>. QED BY <2>1, <2>2
<1>6. CASE TransitionRead(p)
  <2>1. CASE Finish(p)
    BY <1>1, <1>6, <2>1 DEF Ends, DataUnchanged, TransitionRead, rows, hist
  <2>2. CASE ~Finish(p)
    <3>1. /\ pc[p] = "mission_read" /\ pc'[p] = "mission_write"
          /\ UNCHANGED <<mstatus, sstatus, mi, snap, st, tgt>>
          /\ tgt[p] \in AllowedTransitions(mstatus[mi[p]])
      BY <1>6, <2>2 DEF CallType, TransitionRead, Goto, rows
    <3>2. mi[p] \in Missions /\ PlanOf(mi[p]) # {} BY <3>1 DEF CallOK, DataOK
    <3>3. tgt[p] = "RUNNING" => mstatus[mi[p]] \notin {"RUNNING", "COMPLETED"}
      BY <3>1 DEF AllowedTransitions
    <3>4. tgt[p] = "RUNNING" => st[p] # None
      BY <3>1, <3>2, <3>3 DEF CallVerdict, Writes, RowInv, MissionRow
    <3>5. CallRow(p)' BY <3>1, <3>4 DEF CallRow, Owns, Reviving, Writes
    <3>6. Writes(p, "WAITING_APPROVAL")' => Writes(p, "WAITING_APPROVAL") /\ st'[p] = st[p]
      BY <3>1 DEF Writes
    <3>. QED BY <1>0, <3>1, <3>5, <3>6, QuietRow
  <2>. QED BY <2>1, <2>2
<1>7. CASE TransitionStepRead(p)
  <2>1. CASE Finish(p)
    BY <1>1, <1>7, <2>1 DEF Ends, DataUnchanged, TransitionStepRead, rows, hist
  <2>2. CASE ~Finish(p)
    <3>1. /\ pc[p] = "step_read" /\ pc'[p] = "step_write"
          /\ UNCHANGED <<mstatus, sstatus, mi, snap, st, tgt>>
      BY <1>7, <2>2 DEF CallType, TransitionStepRead, Goto, rows
    <3>2. CallRow(p)' /\ ~Writes(p, "WAITING_APPROVAL")'
      BY <3>1 DEF CallRow, Owns, Reviving, Writes
    <3>. QED BY <1>0, <3>1, <3>2, QuietRow
  <2>. QED BY <2>1, <2>2
<1>8. CASE FindWaitingStep(p)
  <2>1. CASE Finish(p)
    BY <1>1, <1>8, <2>1 DEF Ends, DataUnchanged, FindWaitingStep, rows, hist
  <2>2. CASE ~Finish(p)
    <3>1. /\ pc[p] = "find_waiting" /\ pc'[p] = "step_read" /\ tgt'[p] = "RUNNING"
          /\ UNCHANGED <<mstatus, sstatus, mi, snap>>
      BY <1>8, <2>2 DEF CallType, FindWaitingStep, Goto, CallTransitionStep, rows
    <3>2. CallRow(p)' /\ ~Writes(p, "WAITING_APPROVAL")'
      BY <3>1 DEF CallRow, Owns, Reviving, Writes
    <3>. QED BY <1>0, <3>1, <3>2, QuietRow
  <2>. QED BY <2>1, <2>2
<1>9. CASE ClaimStep(p)
  <2>1. CASE sstatus[st[p]] # "PENDING"
    <3>1. UNCHANGED <<mstatus, sstatus, mi, snap>> /\ pc'[p] = "plan_check"
      BY <1>9, <2>1 DEF CallType, ClaimStep, Goto
    <3>2. CallRow(p)' /\ ~Writes(p, "WAITING_APPROVAL")'
      BY <3>1 DEF CallRow, Owns, Reviving, Writes
    <3>. QED BY <1>0, <3>1, <3>2, QuietRow
  <2>2. CASE sstatus[st[p]] = "PENDING"
    <3>0. /\ pc[p] = "claim" /\ st[p] \in Steps /\ st[p] # None /\ snap[p] # None
          /\ mi[p] \in Missions /\ mi[p] = StepMission[st[p]] /\ mstatus[mi[p]] # "ABSENT"
      BY <1>9, ConstantsAssumption DEF ConstantsAssumption, ClaimStep, CallOK, DataOK
    <3>1. /\ sstatus' = [sstatus EXCEPT ![st[p]] = "RUNNING"]
          /\ UNCHANGED <<mstatus, mi, snap, st>>
          /\ \/ pc'[p] = "gateway" /\ snap[p] # "QUEUED"
             \/ pc'[p] = "mission_read" /\ tgt'[p] = "RUNNING"
      BY <1>9, <2>2 DEF CallType, ClaimStep, Goto, CallTransition
    <3>2. \A t \in PlanOf(mi[p]) : sstatus[t] \in {"PENDING", "SUCCEEDED"}
      BY <2>2, <3>0, NoOpen DEF StepsInv, CallSteps, PlanOf
    <3>3. st[p] \in PlanOf(mi[p]) BY <3>0 DEF PlanOf
    <3>4. mstatus[mi[p]] \in {"QUEUED", "RUNNING"}
      <4>1. mstatus[mi[p]] \notin {"PAUSED", "CANCELLED", "WAITING_APPROVAL"}
        BY <3>0, <3>2 DEF RowInv, MissionRow
      <4>2. ~Refused(mi[p]) BY <3>0 DEF VerdictInv, Parked
      <4>3. mstatus[mi[p]] \notin {"COMPLETED", "FAILED"}
        BY <2>2, <3>0, <3>2, <3>3, <4>2
        DEF VerdictInv, VerdictMatchesPlan, Refused, PlanComplete
      <4>. QED BY <3>0, <4>1, <4>3 DEF TypeOK
    <3>5. snap[p] # "QUEUED" => mstatus[mi[p]] = "RUNNING" BY <3>0, <3>4 DEF CallRow
    <3>6. CallRow(p)'
      BY <3>0, <3>1, <3>4, <3>5 DEF CallRow, Owns, Reviving, Writes
    <3>7. ASSUME NEW q \in Procs, q # p PROVE CallRow(q)'
      <4>1. CallRow(q) BY DEF RowInv
      <4>2. Writes(q, "WAITING_APPROVAL") => st[q] # st[p] BY <2>2, <4>1 DEF CallRow
      <4>. QED BY <1>0, <3>0, <3>1, <3>7, <4>1, <4>2
               DEF TypeOK, CallRow, Others, Owns, Reviving, Writes
    <3>8. SoleWaiter' BY <1>0, <3>1 DEF RowInv, SoleWaiter, Others, Writes
    <3>9. ASSUME NEW m \in Missions PROVE MissionRow(m)'
      <4>1. MissionRow(m) BY DEF RowInv
      <4>. QED BY <2>2, <3>0, <3>1, <3>3, <4>1 DEF TypeOK, MissionRow, PlanComplete, PlanOf
    <3>. QED BY <3>6, <3>7, <3>8, <3>9 DEF RowInv
  <2>. QED BY <2>1, <2>2
<1>10. CASE TransitionStepWrite(p)
  <2>0. /\ pc[p] = "step_write" /\ st[p] \in Steps /\ st[p] # None
        /\ mi[p] = StepMission[st[p]]
        /\ tgt[p] \in {"RUNNING", "WAITING_APPROVAL", "SUCCEEDED", "FAILED"}
    BY <1>10, ConstantsAssumption DEF ConstantsAssumption, TransitionStepWrite, CallOK
  <2>1. /\ sstatus' = [sstatus EXCEPT ![st[p]] = tgt[p]]
        /\ UNCHANGED <<mstatus, mi, snap, st>>
        /\ \/ pc'[p] = "plan_check" /\ tgt[p] = "SUCCEEDED"
           \/ pc'[p] = "mission_read" /\ tgt'[p] = tgt[p] /\ tgt[p] # "SUCCEEDED"
    BY <1>10 DEF CallType, TransitionStepWrite, Goto, CallTransition
  <2>2. \/ /\ tgt[p] # "RUNNING" /\ sstatus[st[p]] = "RUNNING" /\ mstatus[mi[p]] = "RUNNING"
        \/ /\ tgt[p] = "RUNNING" /\ sstatus[st[p]] = "WAITING_APPROVAL"
           /\ mstatus[mi[p]] = "WAITING_APPROVAL" /\ p \in Resumers
    BY <2>0 DEF CallSteps, CallRow, Owns, Reviving
  <2>3. CallRow(p)'
    BY <2>0, <2>1, <2>2 DEF TypeOK, CallRow, Owns, Reviving, Writes
  <2>4. ASSUME NEW q \in Procs, q # p
        PROVE  CallRow(q)' /\ (Writes(q, "WAITING_APPROVAL") => st[q] # st[p])
    <3>1. CallRow(q) /\ CallOK(q) BY DEF RowInv, TypeInv, LocalOK
    <3>2. Writes(q, "WAITING_APPROVAL") => st[q] # st[p]
      BY <2>0, <2>2, <3>1 DEF CallRow, CallOK, Writes
    <3>. QED BY <1>0, <2>0, <2>1, <2>4, <3>1, <3>2
             DEF TypeOK, CallRow, Others, Owns, Reviving, Writes
  <2>5. SoleWaiter' BY <1>0, <2>1, <2>4 DEF RowInv, SoleWaiter, Others, Writes
  <2>6. ASSUME NEW m \in Missions PROVE MissionRow(m)'
    <3>1. MissionRow(m) BY DEF RowInv
    <3>2. CASE m = mi[p]
      <4>1. st[p] \in PlanOf(m) /\ sstatus'[st[p]] = tgt[p]
        BY <2>0, <2>1, <3>2 DEF PlanOf, TypeOK
      <4>. QED BY <2>0, <2>1, <2>2, <3>1, <3>2, <4>1 DEF MissionRow, PlanComplete, PlanOf
    <3>3. CASE m # mi[p]
      <4>1. st[p] \notin PlanOf(m) BY <2>0, <3>3 DEF PlanOf
      <4>2. \A s \in PlanOf(m) : sstatus'[s] = sstatus[s]
        BY <2>1, <4>1 DEF TypeOK, PlanOf
      <4>. QED BY <2>1, <3>1, <4>2 DEF MissionRow, PlanComplete, PlanOf
    <3>. QED BY <3>2, <3>3
  <2>. QED BY <2>3, <2>4, <2>5, <2>6 DEF RowInv
<1>11. CASE TransitionWrite(p)
  <2>0. pc[p] = "mission_write" /\ mi[p] \in Missions
        /\ tgt[p] \in {"RUNNING", "WAITING_APPROVAL", "COMPLETED", "FAILED"}
    BY <1>11, WriterKnows DEF TransitionWrite
  <2>1. /\ mstatus' = [mstatus EXCEPT ![mi[p]] = tgt[p]] /\ sstatus' = sstatus
        /\ \/ pc'[p] = "idle" /\ snap'[p] = None
           \/ /\ tgt[p] = "RUNNING" /\ snap'[p] = "RUNNING" /\ UNCHANGED <<mi, st>>
              /\ pc'[p] = "gateway" \/ st[p] = None
    BY <1>11 DEF CallType, TransitionWrite, Finish, Goto, CallTransition
  <2>2. CallRow(p)' /\ ~Writes(p, "WAITING_APPROVAL")'
    <3>1. tgt[p] = "RUNNING" => st[p] # None BY <2>0 DEF CallRow
    <3>2. mstatus'[mi[p]] = tgt[p] BY <2>0, <2>1 DEF TypeOK
    <3>. QED BY <2>1, <3>1, <3>2 DEF CallRow, Owns, Reviving, Writes
  <2>3. ASSUME NEW q \in Procs, q # p PROVE CallRow(q)'
    <3>1. CallRow(q) BY DEF RowInv
    <3>2. CASE mi[q] # mi[p]
      <4>1. mstatus'[mi[q]] = mstatus[mi[q]] \/ mi[q] \notin Missions
        BY <2>1, <3>2 DEF TypeOK
      <4>2. CallOK(q) BY DEF TypeInv, LocalOK
      <4>3. mi[q] \notin Missions => pc[q] = "idle" BY <4>2 DEF CallOK
      <4>. QED BY <1>0, <2>1, <2>3, <3>1, <4>1, <4>3
               DEF CallRow, Others, Owns, Reviving, Writes
    <3>3. CASE mi[q] = mi[p]
      <4>1. mstatus'[mi[q]] = tgt[p] BY <2>0, <2>1, <3>3 DEF TypeOK
      <4>2. ~Owns(q) /\ ~Reviving(q) /\ ~Writes(q, "WAITING_APPROVAL") /\ pc[q] # "find_waiting"
        BY <2>0, <2>3, <3>3, WriterAlone
      <4>. QED BY <1>0, <2>0, <2>3, <3>1, <4>1, <4>2
               DEF CallRow, Others, Owns, Reviving, Writes
    <3>. QED BY <3>2, <3>3
  <2>4. SoleWaiter' BY <1>0, <2>2 DEF RowInv, SoleWaiter, Others, Writes
  <2>5. ASSUME NEW m \in Missions PROVE MissionRow(m)'
    <3>1. MissionRow(m) BY DEF RowInv
    <3>2. CASE m # mi[p]
      BY <2>1, <3>1, <3>2 DEF TypeOK, MissionRow, PlanComplete, PlanOf
    <3>3. CASE m = mi[p]
      <4>1. mstatus'[m] = tgt[p] BY <2>0, <2>1, <3>3 DEF TypeOK
      <4>2. tgt[p] \in {"WAITING_APPROVAL", "FAILED"} =>
              st[p] \in PlanOf(m) /\ sstatus[st[p]] = tgt[p]
        BY <2>0, <3>3, WriterKnows
      <4>. QED BY <2>0, <2>1, <4>1, <4>2 DEF MissionRow, PlanComplete, PlanOf
    <3>. QED BY <3>2, <3>3
  <2>. QED BY <2>2, <2>3, <2>4, <2>5 DEF RowInv
<1>12. CASE Crash(p)
  BY <1>1, <1>12 DEF Ends, DataUnchanged, Crash, rows, hist
<1>. QED BY <1>2, <1>3, <1>4, <1>5, <1>6, <1>7, <1>8, <1>9, <1>10, <1>11, <1>12, GatewayShape
         DEF ProcStep

LEMMA StepRow ==
    ASSUME SingleResumer, PlanInv, [Next]_vars
    PROVE  RowInv'
<1>. TypeInv /\ TypeOK /\ RowInv BY DEF PlanInv, TypeInv
<1>1. ASSUME NEW p \in Procs, ProcStep(p) \/ Crash(p) PROVE RowInv'
  BY <1>1, ProcRow
<1>2. ASSUME NEW p \in Procs, NEW m \in Missions, RunOnce(p, m) \/ ResumeApproved(p, m)
      PROVE  RowInv'
  <2>1. CallRow(p) BY DEF RowInv
  <2>2. /\ UNCHANGED <<mstatus, sstatus, snap>> /\ Others(p) /\ pc[p] = "idle"
        /\ \/ pc'[p] = "get"
           \/ pc'[p] = "find_waiting" /\ mi'[p] = m /\ mstatus[m] = "WAITING_APPROVAL"
    BY <1>2 DEF TypeOK, Others, RunOnce, ResumeApproved, Goto, rows
  <2>3. CallRow(p)' /\ ~Writes(p, "WAITING_APPROVAL")'
    BY <2>1, <2>2 DEF CallRow, Owns, Reviving, Writes
  <2>. QED BY <2>2, <2>3, QuietRow
<1>3. CASE UNCHANGED <<mstatus, sstatus, local>>
  BY <1>3 DEF RowInv, CallRow, SoleWaiter, MissionRow, Owns, Reviving, Writes, PlanComplete,
              PlanOf, local
<1>4. ASSUME NEW m \in Missions, CreateMission(m) \/ DepartmentFails(m) PROVE RowInv'
  <2>1. /\ m \notin planned /\ UNCHANGED <<sstatus, pc, mi, snap, st, tgt>>
        /\ \E x \in {"QUEUED", "FAILED"} : mstatus' = [mstatus EXCEPT ![m] = x]
    BY <1>4 DEF CreateMission, DepartmentFails, local, TypeInv, LocalOK, DataOK
  <2>2. ASSUME NEW p \in Procs PROVE CallRow(p)'
    <3>1. CallRow(p) /\ CallOK(p) /\ DataOK BY DEF RowInv, TypeInv, LocalOK
    <3>2. pc[p] # "idle" => mi[p] # m BY <2>1, <3>1 DEF CallOK, DataOK
    <3>. QED BY <2>1, <3>1, <3>2 DEF TypeOK, CallRow, CallOK, Owns, Reviving, Writes
  <2>3. SoleWaiter' BY <2>1 DEF RowInv, SoleWaiter, Writes
  <2>4. ASSUME NEW n \in Missions PROVE MissionRow(n)'
    <3>1. n = m => PlanUntouched(n)
      BY <2>1 DEF PlanInv, VerdictInv, Parked, PlanUntouched, PlanOf
    <3>. QED BY <2>1, <3>1 DEF TypeOK, RowInv, MissionRow, PlanUntouched, PlanComplete, PlanOf
  <2>. QED BY <2>2, <2>3, <2>4 DEF RowInv
<1>5. CASE EnvStep \/ UNCHANGED vars
  BY <1>3, <1>4, <1>5
  DEF EnvStep, CreatePlan, DecideRead, DecideWrite, ExpireApproval, CreateScopedRule,
      ExpireRule, SetSystemState, vars, rows
<1>. QED BY <1>1, <1>2, <1>5 DEF Next

LEMMA InitRow == Init => RowInv
<1>. SUFFICES ASSUME Init PROVE RowInv OBVIOUS
<1>1. (\A p \in Procs : CallRow(p)) /\ SoleWaiter
  BY DEF Init, CallRow, SoleWaiter, Owns, Reviving, Writes
<1>2. \A m \in Missions : MissionRow(m)
  BY DEF Init, MissionRow, PlanComplete, PlanOf
<1>. QED BY <1>1, <1>2 DEF RowInv

(* A terminal mission is not written with another status.                  *)
LEMMA MissionsStable ==
    ASSUME SingleResumer, PlanInv, [Next]_vars, NEW m \in Missions, mstatus[m] \in Terminal
    PROVE  mstatus'[m] = mstatus[m]
<1>. TypeOK /\ StepOrder /\ VerdictMatchesPlan /\ MissionRow(m)
  BY DEF PlanInv, TypeInv, StepsInv, VerdictInv, RowInv
<1>1. CASE mstatus' = mstatus BY <1>1
<1>2. ASSUME NEW p \in Procs, TransitionWrite(p) PROVE mstatus'[m] = mstatus[m]
  <2>1. pc[p] = "mission_write" /\ mstatus' = [mstatus EXCEPT ![mi[p]] = tgt[p]]
    BY <1>2 DEF TransitionWrite
  <2>2. CASE mi[p] # m BY <2>1, <2>2 DEF TypeOK
  <2>3. CASE mi[p] = m
    <3>1. mstatus[m] \in {"COMPLETED", "FAILED"} BY DEF Terminal, MissionRow
    <3>2. tgt[p] # "WAITING_APPROVAL" BY <2>1, <2>3, <3>1, WriterKnows
    <3>3. CASE mstatus[m] = "COMPLETED"
      <4>1. PlanComplete(m) BY <3>3 DEF VerdictMatchesPlan
      <4>2. tgt[p] = "COMPLETED" BY <2>1, <2>3, <3>2, <4>1, WriterKnows DEF PlanComplete
      <4>. QED BY <2>1, <2>3, <3>3, <4>2 DEF TypeOK
    <3>4. CASE mstatus[m] = "FAILED"
      <4>0. ~Refused(m) BY <2>1, <2>3 DEF PlanInv, VerdictInv, Parked
      <4>1. PICK f \in PlanOf(m) : sstatus[f] = "FAILED"
        BY <3>4, <4>0 DEF VerdictMatchesPlan, Refused
      <4>2. tgt[p] # "COMPLETED" BY <2>1, <2>3, <4>1, WriterKnows DEF PlanComplete
      <4>3. tgt[p] # "RUNNING"
        <5>. SUFFICES ASSUME tgt[p] = "RUNNING" PROVE FALSE OBVIOUS
        <5>1. st[p] \in PlanOf(m) /\ sstatus[st[p]] = "RUNNING"
          BY <2>1, <2>3, WriterKnows
        <5>. QED BY <4>1, <5>1, OneOpen DEF PlanOf
      <4>4. tgt[p] = "FAILED" BY <2>1, <3>2, <4>2, <4>3, WriterKnows
      <4>. QED BY <2>1, <2>3, <3>4, <4>4 DEF TypeOK
    <3>. QED BY <3>1, <3>3, <3>4
  <2>. QED BY <2>2, <2>3
<1>3. ASSUME NEW p \in Procs, ProcStep(p) \/ Crash(p) PROVE mstatus'[m] = mstatus[m]
  BY <1>1, <1>2, <1>3
  DEF ProcStep, Crash, GetMission, CheckWaiting, SelectStep, ClaimStep, CheckPlan,
      TransitionRead, TransitionStepRead, TransitionStepWrite, FindWaitingStep,
      ReadSystemState, IsApproved, MatchRule, FindPending, CreateRequest, ConsumeRule,
      ExecuteTool, rows
<1>4. ASSUME NEW n \in Missions, CreateMission(n) \/ DepartmentFails(n)
      PROVE  mstatus'[m] = mstatus[m]
  BY <1>4 DEF CreateMission, DepartmentFails, TypeOK, Terminal
<1>5. CASE EnvStep \/ UNCHANGED vars
  BY <1>1, <1>4, <1>5
  DEF EnvStep, CreatePlan, DecideRead, DecideWrite, ExpireApproval, CreateScopedRule,
      ExpireRule, SetSystemState, vars, rows
<1>6. ASSUME NEW p \in Procs, NEW n \in Missions, RunOnce(p, n) \/ ResumeApproved(p, n)
      PROVE  mstatus'[m] = mstatus[m]
  BY <1>1, <1>6 DEF RunOnce, ResumeApproved, rows
<1>. QED BY <1>3, <1>5, <1>6 DEF Next

(* What has ended stays as it ended: no call that read an older status     *)
(* revives or overwrites a terminal mission or step, although transition   *)
(* and transition_step check and write in separate statements.             *)
THEOREM EndedStaysEnded == ASSUME SingleResumer PROVE Spec => TerminalStable
<1>1. PlanInv /\ [Next]_vars => PlanInv'
  BY StepType, StepSteps, StepVerdict, StepRow DEF PlanInv
<1>2. Spec => []PlanInv
  <2>1. Init => PlanInv BY InitType, InitSteps, InitVerdict, InitRow DEF PlanInv
  <2>. QED BY <2>1, <1>1, PTL DEF Spec
<1>3. PlanInv /\ [Next]_vars =>
        [/\ \A m \in Missions : mstatus[m] \in Terminal => mstatus'[m] = mstatus[m]
         /\ \A s \in Steps :
               sstatus[s] \in {"SUCCEEDED", "FAILED"} => sstatus'[s] = sstatus[s]]_vars
  BY StepsStable, MissionsStable DEF PlanInv, FinalSteps
<1>. QED BY <1>2, <1>3, PTL DEF Spec, TerminalStable

-----------------------------------------------------------------------------
(* The rows and the steps of a mission are written in separate             *)
(* transactions.  That they agree again once nobody works on the mission   *)
(* needs one worker (of two, the slower may claim a step for a mission it  *)
(* saw QUEUED and fail to move it) and that no process has died so far.    *)
SingleWorker == \A w, v \in Workers : w = v

(* What a call can count on, so that no transition it asks for is refused. *)
CallServed(p) ==
    /\ pc[p] \in {"get", "waiting", "select", "claim"} => p \in Workers
    /\ p \in Resumers /\ pc[p] # "idle" => mstatus[mi[p]] \notin {"QUEUED", "ABSENT"}
    /\ snap[p] = "QUEUED" /\ pc[p] \in {"waiting", "select", "claim"} =>
          mstatus[mi[p]] = "QUEUED"
    /\ Owns(p) /\ pc[p] \in {"mission_read", "mission_write"} =>
          mstatus[mi[p]] \in {"QUEUED", "WAITING_APPROVAL"}
    /\ Writes(p, "FAILED") => mstatus[mi[p]] \in {"RUNNING", "FAILED"}

(* A call that has seen its own step succeed asks for the plan.            *)
Closing(p) == st[p] # None /\ (pc[p] = "plan_check" \/ Writes(p, "COMPLETED"))

(* Whatever is half-way in a mission is in the hands of a call.            *)
InHand(m) ==
    /\ \A s \in PlanOf(m) : sstatus[s] = "RUNNING" => \E p \in Procs : Owns(p) /\ st[p] = s
    /\ \A s \in PlanOf(m) : sstatus[s] = "WAITING_APPROVAL" =>
          \/ mstatus[m] = "WAITING_APPROVAL"
          \/ \E p \in Procs : Writes(p, "WAITING_APPROVAL") /\ st[p] = s
    /\ \A s \in PlanOf(m) : sstatus[s] = "FAILED" =>
          mstatus[m] = "FAILED" \/ \E p \in Procs : Writes(p, "FAILED") /\ st[p] = s
    /\ PlanComplete(m) /\ PlanOf(m) # {} =>
          mstatus[m] = "COMPLETED" \/ \E p \in Procs : Closing(p) /\ mi[p] = m

AgreeInv == (\A p \in Procs : CallServed(p)) /\ (\A m \in Missions : InHand(m))

(* A step of p drops nothing it has in hand, unless it is settled.         *)
HoldsOn(p) ==
    /\ Owns(p) => Owns(p)' /\ st'[p] = st[p]
    /\ Writes(p, "WAITING_APPROVAL") => Writes(p, "WAITING_APPROVAL")' /\ st'[p] = st[p]
    /\ Writes(p, "FAILED") =>
          (Writes(p, "FAILED")' /\ st'[p] = st[p]) \/ mstatus[mi[p]] = "FAILED"
    /\ Closing(p) =>
          \/ Closing(p)' /\ mi'[p] = mi[p]
          \/ mstatus[mi[p]] = "COMPLETED" \/ ~PlanComplete(mi[p])

LEMMA OthersServed ==
    ASSUME NEW p \in Procs, AgreeInv, Others(p), mstatus' = mstatus, CallServed(p)'
    PROVE  \A q \in Procs : CallServed(q)'
BY DEF AgreeInv, CallServed, Others, Owns, Writes

LEMMA QuietAgree ==
    ASSUME NEW p \in Procs, TypeInv, AgreeInv, Others(p), mstatus' = mstatus,
           sstatus' = sstatus, CallServed(p)', HoldsOn(p)
    PROVE  AgreeInv'
<1>1. \A q \in Procs : CallServed(q)' BY OthersServed
<1>2. ASSUME NEW m \in Missions PROVE InHand(m)'
  <2>0. InHand(m) /\ CallOK(p) BY DEF AgreeInv, TypeInv, LocalOK
  <2>1. ASSUME NEW s \in PlanOf(m), sstatus[s] = "RUNNING"
        PROVE  \E q \in Procs : Owns(q)' /\ st'[q] = s
    <3>1. PICK q \in Procs : Owns(q) /\ st[q] = s BY <2>0, <2>1 DEF InHand
    <3>. QED BY <3>1 DEF HoldsOn, Others, Owns
  <2>2. ASSUME NEW s \in PlanOf(m), sstatus[s] = "WAITING_APPROVAL",
               mstatus[m] # "WAITING_APPROVAL"
        PROVE  \E q \in Procs : Writes(q, "WAITING_APPROVAL")' /\ st'[q] = s
    <3>1. PICK q \in Procs : Writes(q, "WAITING_APPROVAL") /\ st[q] = s
      BY <2>0, <2>2 DEF InHand
    <3>. QED BY <3>1 DEF HoldsOn, Others, Writes
  <2>3. ASSUME NEW s \in PlanOf(m), sstatus[s] = "FAILED", mstatus[m] # "FAILED"
        PROVE  \E q \in Procs : Writes(q, "FAILED")' /\ st'[q] = s
    <3>1. PICK q \in Procs : Writes(q, "FAILED") /\ st[q] = s BY <2>0, <2>3 DEF InHand
    <3>2. q = p => mi[p] = m
      BY <2>0, <2>3, <3>1, ConstantsAssumption DEF ConstantsAssumption, CallOK, PlanOf
    <3>. QED BY <2>3, <3>1, <3>2 DEF HoldsOn, Others, Writes
  <2>4. ASSUME PlanComplete(m), PlanOf(m) # {}, mstatus[m] # "COMPLETED"
        PROVE  \E q \in Procs : Closing(q)' /\ mi'[q] = m
    <3>1. PICK q \in Procs : Closing(q) /\ mi[q] = m BY <2>0, <2>4 DEF InHand
    <3>. QED BY <2>4, <3>1 DEF HoldsOn, Others, Closing, Writes
  <2>. QED BY <2>1, <2>2, <2>3, <2>4 DEF InHand, PlanComplete, PlanOf
<1>. QED BY <1>1, <1>2 DEF AgreeInv

(* What a mission has in hand stays with the calls that have it, when the  *)
(* statuses of its own steps and its own row do not change.                *)
LEMMA OtherMission ==
    ASSUME NEW p \in Procs, NEW m \in Missions, TypeInv, InHand(m), Others(p), mi[p] # m,
           mstatus'[m] = mstatus[m], \A s \in PlanOf(m) : sstatus'[s] = sstatus[s]
    PROVE  InHand(m)'
<1>0. CallOK(p) BY DEF TypeInv, LocalOK
<1>1. \A s \in PlanOf(m) : st[p] # s
  BY <1>0, ConstantsAssumption DEF ConstantsAssumption, CallOK, PlanOf
<1>2. ASSUME NEW s \in PlanOf(m), sstatus[s] = "RUNNING"
      PROVE  \E q \in Procs : Owns(q)' /\ st'[q] = s
  <2>1. PICK q \in Procs : Owns(q) /\ st[q] = s BY <1>2 DEF InHand
  <2>. QED BY <1>1, <2>1 DEF Others, Owns
<1>3. ASSUME NEW s \in PlanOf(m), sstatus[s] = "WAITING_APPROVAL",
             mstatus[m] # "WAITING_APPROVAL"
      PROVE  \E q \in Procs : Writes(q, "WAITING_APPROVAL")' /\ st'[q] = s
  <2>1. PICK q \in Procs : Writes(q, "WAITING_APPROVAL") /\ st[q] = s BY <1>3 DEF InHand
  <2>. QED BY <1>1, <2>1 DEF Others, Writes
<1>4. ASSUME NEW s \in PlanOf(m), sstatus[s] = "FAILED", mstatus[m] # "FAILED"
      PROVE  \E q \in Procs : Writes(q, "FAILED")' /\ st'[q] = s
  <2>1. PICK q \in Procs : Writes(q, "FAILED") /\ st[q] = s BY <1>4 DEF InHand
  <2>. QED BY <1>1, <2>1 DEF Others, Writes
<1>5. ASSUME PlanComplete(m), PlanOf(m) # {}, mstatus[m] # "COMPLETED"
      PROVE  \E q \in Procs : Closing(q)' /\ mi'[q] = m
  <2>1. PICK q \in Procs : Closing(q) /\ mi[q] = m BY <1>5 DEF InHand
  <2>. QED BY <2>1 DEF Others, Closing, Writes
<1>. QED BY <1>2, <1>3, <1>4, <1>5 DEF InHand, PlanComplete, PlanOf

LEMMA ProcAgree ==
    ASSUME NEW p \in Procs, SingleResumer, SingleWorker, PlanInv, AgreeInv, ProcStep(p)
    PROVE  AgreeInv'
<1>. /\ TypeInv /\ StepsInv /\ VerdictInv /\ RowInv
     /\ CallType /\ CallOK(p) /\ TypeOK /\ DataOK
  BY DEF PlanInv, TypeInv, TypeOK, LocalOK, CallType
<1>. /\ CallSteps(p) /\ CallVerdict(p) /\ CallRow(p) /\ CallServed(p)
  BY DEF StepsInv, VerdictInv, RowInv, AgreeInv
<1>0. Others(p) BY OnlyItself
<1>1. ASSUME Ends(p), HoldsOn(p) PROVE AgreeInv'
  <2>1. pc'[p] = "idle" BY <1>1 DEF Ends, Finish, CallType
  <2>2. CallServed(p)' BY <2>1 DEF CallServed, Owns, Writes
  <2>. QED BY <1>0, <1>1, <2>2, QuietAgree DEF Ends, DataUnchanged
<1>2. CASE InGateway(p)
  <2>1. Owns(p) /\ ~Closing(p) /\ \A x \in {"FAILED", "WAITING_APPROVAL"} : ~Writes(p, x)
    BY <1>2, ConstantsAssumption DEF ConstantsAssumption, CallOK, InGateway, Owns, Closing, Writes
  <2>2. HoldsOn(p) BY <1>2, <2>1 DEF InGateway, HoldsOn, Owns
  <2>3. CallServed(p)' BY <1>2 DEF InGateway, CallServed, Owns, Writes
  <2>. QED BY <1>0, <1>2, <2>2, <2>3, QuietAgree DEF InGateway
<1>3. CASE GetMission(p) \/ CheckWaiting(p)
  <2>0. HoldsOn(p)
    BY <1>3 DEF HoldsOn, Owns, Writes, Closing, GetMission, CheckWaiting
  <2>1. CASE Finish(p)
    BY <1>1, <1>3, <2>0, <2>1 DEF Ends, DataUnchanged, GetMission, CheckWaiting, rows, hist
  <2>2. CASE ~Finish(p)
    <3>1. /\ UNCHANGED <<mstatus, sstatus, mi>> /\ pc'[p] \in {"waiting", "select"}
          /\ \/ snap'[p] = mstatus[mi[p]]
             \/ snap'[p] = snap[p] /\ pc[p] = "waiting"
          /\ pc[p] \in {"get", "waiting"}
      BY <1>3, <2>2 DEF CallType, GetMission, CheckWaiting, Goto, rows
    <3>2. CallServed(p)' BY <3>1 DEF CallServed, Owns, Writes
    <3>. QED BY <1>0, <2>0, <3>1, <3>2, QuietAgree
  <2>. QED BY <2>1, <2>2
<1>4. CASE SelectStep(p)
  <2>0. HoldsOn(p) BY <1>4 DEF HoldsOn, Owns, Writes, Closing, SelectStep
  <2>1. /\ UNCHANGED <<mstatus, sstatus, mi, snap>> /\ pc'[p] \in {"claim", "plan_check"}
        /\ pc[p] = "select"
    BY <1>4 DEF CallType, SelectStep, Goto, rows
  <2>2. CallServed(p)' BY <2>1 DEF CallServed, Owns, Writes
  <2>. QED BY <1>0, <2>0, <2>1, <2>2, QuietAgree
<1>5. CASE CheckPlan(p)
  <2>0. /\ pc[p] = "plan_check" /\ ~Owns(p)
        /\ \A x \in {"FAILED", "WAITING_APPROVAL"} : ~Writes(p, x)
    BY <1>5 DEF CheckPlan, Owns, Writes
  <2>1. CASE Finish(p)
    <3>1. ~PlanComplete(mi[p]) \/ st[p] = None
      <4>1. ASSUME PlanComplete(mi[p]), st[p] # None PROVE FALSE
        <5>1. pc'[p] = "mission_read" BY <1>5, <4>1 DEF CheckPlan, CallTransition, Goto, CallType
        <5>2. pc'[p] = "idle" BY <2>1 DEF Finish, CallType
        <5>. QED BY <5>1, <5>2
      <4>. QED BY <4>1
    <3>2. HoldsOn(p) BY <2>0, <3>1 DEF HoldsOn, Closing
    <3>. QED BY <1>1, <1>5, <2>1, <3>2 DEF Ends, DataUnchanged, CheckPlan, rows, hist
  <2>2. CASE ~Finish(p)
    <3>1. /\ UNCHANGED <<mstatus, sstatus, mi, st>> /\ pc'[p] = "mission_read"
          /\ \/ tgt'[p] = "COMPLETED"
             \/ tgt'[p] = "RUNNING" /\ st[p] = None
      BY <1>5, <2>2 DEF CallType, CheckPlan, CallTransition, Goto, rows
    <3>2. CallServed(p)' BY <2>0, <3>1 DEF CallServed, Owns, Writes
    <3>3. HoldsOn(p) BY <2>0, <3>1 DEF HoldsOn, Closing, Writes
    <3>. QED BY <1>0, <3>1, <3>2, <3>3, QuietAgree
  <2>. QED BY <2>1, <2>2
<1>6. CASE TransitionRead(p)
  <2>0. /\ pc[p] = "mission_read" /\ mi[p] \in Missions
        /\ PlanOf(mi[p]) # {} /\ mi[p] \in planned /\ mstatus[mi[p]] # "ABSENT"
    BY <1>6 DEF TransitionRead, CallOK, DataOK
  <2>1. CASE Finish(p)
    <3>1. tgt[p] \notin AllowedTransitions(mstatus[mi[p]])
      <4>1. ASSUME tgt[p] \in AllowedTransitions(mstatus[mi[p]]) PROVE FALSE
        <5>1. pc'[p] = "mission_write" BY <1>6, <4>1 DEF TransitionRead, Goto, CallType
        <5>2. pc'[p] = "idle" BY <2>1 DEF Finish, CallType
        <5>. QED BY <5>1, <5>2
      <4>. QED BY <4>1
    <3>2. ~Owns(p)
      <4>1. Owns(p) => tgt[p] = "RUNNING" /\ mstatus[mi[p]] \in {"QUEUED", "WAITING_APPROVAL"}
        BY <2>0 DEF CallServed, Owns
      <4>. QED BY <3>1, <4>1 DEF AllowedTransitions
    <3>3. ~Writes(p, "WAITING_APPROVAL")
      <4>1. Writes(p, "WAITING_APPROVAL") =>
              tgt[p] = "WAITING_APPROVAL" /\ mstatus[mi[p]] = "RUNNING"
        BY DEF CallRow, Writes
      <4>. QED BY <3>1, <4>1 DEF AllowedTransitions
    <3>4. Writes(p, "FAILED") => mstatus[mi[p]] = "FAILED"
      <4>1. Writes(p, "FAILED") => tgt[p] = "FAILED" /\ mstatus[mi[p]] \in {"RUNNING", "FAILED"}
        BY DEF CallServed, Writes
      <4>. QED BY <3>1, <4>1 DEF AllowedTransitions
    <3>5. Closing(p) => mstatus[mi[p]] = "COMPLETED"
      <4>1. Closing(p) => tgt[p] = "COMPLETED" /\ PlanComplete(mi[p])
        BY <2>0 DEF CallVerdict, Writes, Closing
      <4>2. PlanComplete(mi[p]) => mstatus[mi[p]] \in {"RUNNING", "COMPLETED"}
        BY <2>0 DEF RowInv, MissionRow
      <4>. QED BY <3>1, <4>1, <4>2 DEF AllowedTransitions
    <3>6. HoldsOn(p) BY <3>2, <3>3, <3>4, <3>5 DEF HoldsOn
    <3>. QED BY <1>1, <1>6, <2>1, <3>6 DEF Ends, DataUnchanged, TransitionRead, rows, hist
  <2>2. CASE ~Finish(p)
    <3>1. pc'[p] = "mission_write" /\ UNCHANGED <<mstatus, sstatus, mi, snap, st, tgt>>
      BY <1>6, <2>2 DEF CallType, TransitionRead, Goto, rows
    <3>2. CallServed(p)' BY <2>0, <3>1 DEF CallServed, Owns, Writes
    <3>3. HoldsOn(p) BY <2>0, <3>1 DEF HoldsOn, Owns, Closing, Writes
    <3>. QED BY <1>0, <3>1, <3>2, <3>3, QuietAgree
  <2>. QED BY <2>1, <2>2
<1>7. CASE TransitionStepRead(p)
  <2>0. /\ pc[p] = "step_read" /\ ~Closing(p) /\ st[p] \in Steps /\ st[p] # None
        /\ tgt[p] \in {"RUNNING", "WAITING_APPROVAL", "SUCCEEDED", "FAILED"}
        /\ \A x \in {"FAILED", "WAITING_APPROVAL"} : ~Writes(p, x)
    BY <1>7, ConstantsAssumption
    DEF ConstantsAssumption, TransitionStepRead, CallOK, Closing, Writes
  <2>1. \/ sstatus[st[p]] = "RUNNING" /\ tgt[p] # "RUNNING"
        \/ sstatus[st[p]] = "WAITING_APPROVAL" /\ tgt[p] = "RUNNING"
    BY <2>0 DEF CallSteps, Owns, Reviving
  <2>2. tgt[p] \in AllowedStepTransitions(sstatus[st[p]])
    BY <2>0, <2>1 DEF AllowedStepTransitions
  <2>3. /\ UNCHANGED <<mstatus, sstatus, mi, snap, st, tgt>> /\ pc'[p] = "step_write"
    BY <1>7, <2>2 DEF CallType, TransitionStepRead, Goto, rows
  <2>4. CallServed(p)' BY <2>0, <2>3 DEF CallServed, Owns, Writes
  <2>5. HoldsOn(p) BY <2>0, <2>3 DEF HoldsOn, Owns
  <2>. QED BY <1>0, <2>3, <2>4, <2>5, QuietAgree
<1>8. CASE FindWaitingStep(p)
  <2>0. HoldsOn(p) /\ pc[p] = "find_waiting"
    BY <1>8 DEF HoldsOn, Owns, Writes, Closing, FindWaitingStep
  <2>1. CASE Finish(p)
    BY <1>1, <1>8, <2>0, <2>1 DEF Ends, DataUnchanged, FindWaitingStep, rows, hist
  <2>2. CASE ~Finish(p)
    <3>1. UNCHANGED <<mstatus, sstatus, mi, snap>> /\ pc'[p] = "step_read"
      BY <1>8, <2>2 DEF CallType, FindWaitingStep, Goto, CallTransitionStep, rows
    <3>2. CallServed(p)' BY <2>0, <3>1 DEF CallServed, Owns, Writes
    <3>. QED BY <1>0, <2>0, <3>1, <3>2, QuietAgree
  <2>. QED BY <2>1, <2>2
<1>9. CASE ClaimStep(p)
  <2>0. /\ pc[p] = "claim" /\ st[p] \in Steps /\ st[p] # None /\ snap[p] # None
        /\ mi[p] \in Missions /\ mi[p] = StepMission[st[p]]
        /\ ~Owns(p) /\ ~Closing(p) /\ \A x \in {"FAILED", "WAITING_APPROVAL"} : ~Writes(p, x)
    BY <1>9, ConstantsAssumption
    DEF ConstantsAssumption, ClaimStep, CallOK, Owns, Closing, Writes
  <2>1. CASE sstatus[st[p]] # "PENDING"
    <3>1. UNCHANGED <<mstatus, sstatus, mi, snap>> /\ pc'[p] = "plan_check"
      BY <1>9, <2>1 DEF CallType, ClaimStep, Goto
    <3>2. CallServed(p)' BY <2>0, <3>1 DEF CallServed, Owns, Writes
    <3>3. HoldsOn(p) BY <2>0 DEF HoldsOn
    <3>. QED BY <1>0, <3>1, <3>2, <3>3, QuietAgree
  <2>2. CASE sstatus[st[p]] = "PENDING"
    <3>1. /\ sstatus' = [sstatus EXCEPT ![st[p]] = "RUNNING"]
          /\ UNCHANGED <<mstatus, mi, snap, st>>
          /\ \/ pc'[p] = "gateway" /\ snap[p] # "QUEUED"
             \/ pc'[p] = "mission_read" /\ tgt'[p] = "RUNNING" /\ snap[p] = "QUEUED"
      BY <1>9, <2>2 DEF CallType, ClaimStep, Goto, CallTransition
    <3>2. CallServed(p)' BY <2>0, <3>1 DEF CallServed, Owns, Writes
    <3>3. \A q \in Procs : CallServed(q)' BY <1>0, <3>1, <3>2, OthersServed
    <3>4. Owns(p)' BY <2>0, <3>1 DEF Owns
    <3>5. ASSUME NEW m \in Missions PROVE InHand(m)'
      <4>0. InHand(m) BY DEF AgreeInv
      <4>1. CASE m # mi[p]
        <5>1. \A s \in PlanOf(m) : sstatus'[s] = sstatus[s]
          BY <2>0, <3>1, <4>1 DEF TypeOK, PlanOf
        <5>. QED BY <1>0, <3>1, <4>0, <4>1, <5>1, OtherMission
      <4>2. CASE m = mi[p]
        <5>1. st[p] \in PlanOf(m) BY <2>0, <4>2 DEF PlanOf
        <5>2. /\ \A s \in PlanOf(m) : s # st[p] => sstatus'[s] = sstatus[s]
              /\ sstatus'[st[p]] = "RUNNING"
          BY <2>0, <3>1 DEF TypeOK, PlanOf
        <5>3. \A s \in PlanOf(m) : sstatus[s] \in {"PENDING", "SUCCEEDED"}
          BY <2>0, <2>2, <4>2, NoOpen DEF StepsInv, CallSteps, PlanOf
        <5>4. ~PlanComplete(m)' BY <5>1, <5>2 DEF PlanComplete, PlanOf
        <5>. QED BY <3>1, <3>4, <5>1, <5>2, <5>3, <5>4 DEF InHand, PlanOf
      <4>. QED BY <4>1, <4>2
    <3>. QED BY <3>3, <3>5 DEF AgreeInv
  <2>. QED BY <2>1, <2>2
<1>10. CASE TransitionStepWrite(p)
  <2>0. /\ pc[p] = "step_write" /\ st[p] \in Steps /\ st[p] # None
        /\ mi[p] \in Missions /\ mi[p] = StepMission[st[p]]
        /\ tgt[p] \in {"RUNNING", "WAITING_APPROVAL", "SUCCEEDED", "FAILED"}
    BY <1>10, ConstantsAssumption DEF ConstantsAssumption, TransitionStepWrite, CallOK
  <2>1. /\ sstatus' = [sstatus EXCEPT ![st[p]] = tgt[p]]
        /\ UNCHANGED <<mstatus, mi, snap, st>>
        /\ \/ pc'[p] = "plan_check" /\ tgt[p] = "SUCCEEDED"
           \/ pc'[p] = "mission_read" /\ tgt'[p] = tgt[p] /\ tgt[p] # "SUCCEEDED"
    BY <1>10 DEF CallType, TransitionStepWrite, Goto, CallTransition
  <2>2. \/ /\ tgt[p] # "RUNNING" /\ sstatus[st[p]] = "RUNNING" /\ mstatus[mi[p]] = "RUNNING"
        \/ /\ tgt[p] = "RUNNING" /\ sstatus[st[p]] = "WAITING_APPROVAL"
           /\ mstatus[mi[p]] = "WAITING_APPROVAL"
    BY <2>0 DEF CallSteps, CallRow, Owns, Reviving
  <2>3. CallServed(p)' BY <2>0, <2>1, <2>2 DEF CallServed, Owns, Writes
  <2>4. \A q \in Procs : CallServed(q)' BY <1>0, <2>1, <2>3, OthersServed
  <2>5. ASSUME NEW m \in Missions PROVE InHand(m)'
    <3>0. InHand(m) BY DEF AgreeInv
    <3>1. CASE m # mi[p]
      <4>1. \A s \in PlanOf(m) : sstatus'[s] = sstatus[s]
        BY <2>0, <2>1, <3>1 DEF TypeOK, PlanOf
      <4>. QED BY <1>0, <2>1, <3>0, <3>1, <4>1, OtherMission
    <3>2. CASE m = mi[p]
      <4>1. st[p] \in PlanOf(m) BY <2>0, <3>2 DEF PlanOf
      <4>2. /\ \A s \in PlanOf(m) : s # st[p] => sstatus'[s] = sstatus[s]
            /\ sstatus'[st[p]] = tgt[p]
        BY <2>0, <2>1 DEF TypeOK, PlanOf
      <4>3. \A s \in PlanOf(m) : s # st[p] => sstatus[s] \in {"PENDING", "SUCCEEDED"}
        BY <2>0, <2>2, <4>1, OneOpen DEF StepsInv, PlanOf
      <4>4. /\ tgt[p] = "RUNNING" => Owns(p)'
            /\ tgt[p] = "WAITING_APPROVAL" => Writes(p, "WAITING_APPROVAL")'
            /\ tgt[p] = "FAILED" => Writes(p, "FAILED")'
            /\ tgt[p] = "SUCCEEDED" => Closing(p)'
        BY <2>0, <2>1 DEF Owns, Writes, Closing
      <4>5. PlanComplete(m)' => tgt[p] = "SUCCEEDED"
        BY <4>1, <4>2 DEF PlanComplete, PlanOf
      <4>6. ASSUME NEW s \in PlanOf(m), s # st[p]
            PROVE  sstatus'[s] \notin {"RUNNING", "WAITING_APPROVAL", "FAILED"}
        BY <4>2, <4>3, <4>6
      <4>. QED BY <2>1, <3>2, <4>1, <4>2, <4>4, <4>5, <4>6 DEF InHand, PlanOf
    <3>. QED BY <3>1, <3>2
  <2>. QED BY <2>4, <2>5 DEF AgreeInv
<1>11. CASE TransitionWrite(p)
  <2>. DEFINE n == mi[p]
  <2>0. /\ pc[p] = "mission_write" /\ n \in Missions
        /\ tgt[p] \in {"RUNNING", "WAITING_APPROVAL", "COMPLETED", "FAILED"}
        /\ tgt[p] # "COMPLETED" =>
              st[p] \in PlanOf(n) /\ st[p] # None /\ sstatus[st[p]] = tgt[p]
        /\ tgt[p] = "COMPLETED" => PlanComplete(n)
    BY <1>11, WriterKnows, ConstantsAssumption DEF ConstantsAssumption, TransitionWrite, PlanOf
  <2>1. /\ mstatus' = [mstatus EXCEPT ![n] = tgt[p]] /\ sstatus' = sstatus
        /\ \/ pc'[p] = "idle" /\ tgt[p] # "RUNNING"
           \/ /\ tgt[p] = "RUNNING" /\ UNCHANGED <<mi, st>>
              /\ pc'[p] = "gateway"
    BY <1>11, <2>0 DEF CallType, TransitionWrite, Finish, Goto, CallTransition
  <2>2. mstatus'[n] = tgt[p] /\ \A m \in Missions : m # n => mstatus'[m] = mstatus[m]
    BY <2>0, <2>1 DEF TypeOK
  <2>3. CallServed(p)' BY <2>0, <2>1, <2>2 DEF CallServed, Owns, Writes
  <2>4. ASSUME NEW q \in Procs, q # p PROVE CallServed(q)'
    <3>1. /\ CallServed(q) /\ CallOK(q) /\ CallSteps(q) /\ CallVerdict(q) /\ CallRow(q)
      BY DEF AgreeInv, TypeInv, LocalOK, StepsInv, VerdictInv, RowInv
    <3>2. CASE mi[q] # n
      <4>1. pc[q] # "idle" => mstatus'[mi[q]] = mstatus[mi[q]] BY <2>2, <3>1, <3>2 DEF CallOK
      <4>. QED BY <1>0, <2>4, <3>1, <4>1 DEF CallServed, Others, Owns, Writes
    <3>3. CASE mi[q] = n
      <4>1. ~Owns(q) BY <2>0, <2>4, <3>3, WriterAlone
      <4>2. Writes(q, "FAILED") => tgt[p] = "FAILED"
        <5>. SUFFICES ASSUME Writes(q, "FAILED") PROVE tgt[p] = "FAILED" OBVIOUS
        <5>1. st[q] \in PlanOf(n) /\ sstatus[st[q]] = "FAILED"
          BY <3>1, <3>3, ConstantsAssumption
          DEF ConstantsAssumption, CallOK, CallVerdict, Writes, PlanOf
        <5>2. tgt[p] # "COMPLETED" BY <2>0, <5>1 DEF PlanComplete
        <5>3. st[p] = st[q] BY <2>0, <5>1, <5>2, OneOpen DEF StepsInv, PlanOf
        <5>. QED BY <2>0, <5>1, <5>2, <5>3
      <4>3. ~(snap[q] = "QUEUED" /\ pc[q] \in {"waiting", "select", "claim"})
        <5>. SUFFICES ASSUME snap[q] = "QUEUED", pc[q] \in {"waiting", "select", "claim"}
                      PROVE  FALSE
          OBVIOUS
        <5>1. q \in Workers /\ mstatus[n] = "QUEUED" BY <3>1, <3>3 DEF CallServed
        <5>2. p \in Resumers BY <2>4, <5>1 DEF SingleWorker
        <5>. QED BY <2>0, <5>1, <5>2 DEF CallServed
      <4>4. mstatus'[mi[q]] \notin {"QUEUED", "ABSENT"} BY <2>0, <2>2, <3>3
      <4>5. mstatus'[mi[q]] = tgt[p] BY <2>2, <3>3
      <4>. QED BY <1>0, <2>4, <3>1, <4>1, <4>2, <4>3, <4>4, <4>5
               DEF CallServed, Others, Owns, Writes
    <3>. QED BY <3>2, <3>3
  <2>5. ASSUME NEW m \in Missions PROVE InHand(m)'
    <3>0. InHand(m) BY DEF AgreeInv
    <3>1. CASE m # n BY <1>0, <2>1, <2>2, <3>0, <3>1, OtherMission
    <3>2. CASE m = n
      <4>1. ASSUME NEW s \in PlanOf(m), sstatus[s] \in {"RUNNING", "WAITING_APPROVAL", "FAILED"}
            PROVE  s = st[p] /\ tgt[p] = sstatus[s]
        <5>1. tgt[p] # "COMPLETED" BY <2>0, <3>2, <4>1 DEF PlanComplete
        <5>2. s = st[p] BY <2>0, <3>2, <4>1, <5>1, OneOpen DEF StepsInv, PlanOf
        <5>. QED BY <2>0, <5>1, <5>2
      <4>2. tgt[p] = "RUNNING" => Owns(p)' BY <2>0, <2>1 DEF Owns
      <4>3. PlanComplete(m) /\ PlanOf(m) # {} => tgt[p] = "COMPLETED"
        BY <2>0, <3>2 DEF PlanComplete
      <4>. QED BY <2>1, <2>2, <3>2, <4>1, <4>2, <4>3 DEF InHand, PlanComplete, PlanOf
    <3>. QED BY <3>1, <3>2
  <2>. QED BY <2>3, <2>4, <2>5 DEF AgreeInv
<1>. QED BY <1>2, <1>3, <1>4, <1>5, <1>6, <1>7, <1>8, <1>9, <1>10, <1>11, GatewayShape
         DEF ProcStep

(* A crash is counted, and nothing else is.                                *)
LEMMA CrashCounts ==
    ASSUME TypeInv, [Next]_vars, crashes' = 0
    PROVE  crashes = 0 /\ \A p \in Procs : ~Crash(p)
<1>. crashes \in Nat BY ConstantsAssumption DEF ConstantsAssumption, TypeInv, TypeOK
<1>1. ASSUME NEW p \in Procs, Crash(p) PROVE FALSE BY <1>1 DEF Crash
<1>2. ASSUME NEW p \in Procs, ProcStep(p) PROVE crashes' = crashes
  BY <1>2
  DEF ProcStep, GetMission, CheckWaiting, SelectStep, ClaimStep, CheckPlan, TransitionRead,
      TransitionWrite, TransitionStepRead, TransitionStepWrite, FindWaitingStep,
      ReadSystemState, IsApproved, MatchRule, FindPending, CreateRequest, ConsumeRule,
      ExecuteTool
<1>3. ASSUME NEW p \in Procs, NEW m \in Missions, RunOnce(p, m) \/ ResumeApproved(p, m)
      PROVE  crashes' = crashes
  BY <1>3 DEF RunOnce, ResumeApproved
<1>4. ASSUME EnvStep \/ UNCHANGED vars PROVE crashes' = crashes
  BY <1>4 DEF EnvStep, CreateMission, CreatePlan, DepartmentFails, DecideRead, DecideWrite,
              ExpireApproval, CreateScopedRule, ExpireRule, SetSystemState, vars
<1>5. crashes' = crashes BY <1>1, <1>2, <1>3, <1>4 DEF Next
<1>. QED BY <1>1, <1>5

LEMMA StepAgree ==
    ASSUME SingleResumer, SingleWorker, PlanInv, AgreeInv, [Next]_vars, crashes' = 0
    PROVE  AgreeInv'
<1>. TypeInv /\ TypeOK BY DEF PlanInv, TypeInv
<1>1. ASSUME NEW p \in Procs, ProcStep(p) PROVE AgreeInv' BY <1>1, ProcAgree
<1>2. ASSUME NEW p \in Procs, Crash(p) PROVE FALSE BY <1>2, CrashCounts
<1>3. ASSUME NEW p \in Procs, NEW m \in Missions,
             \/ p \in Workers /\ RunOnce(p, m)
             \/ p \in Resumers /\ ResumeApproved(p, m)
      PROVE  AgreeInv'
  <2>1. CallOK(p) /\ CallRow(p) BY DEF PlanInv, TypeInv, LocalOK, RowInv
  <2>2. /\ UNCHANGED <<mstatus, sstatus, st>> /\ Others(p) /\ pc[p] = "idle" /\ mi'[p] = m
        /\ \/ pc'[p] = "get" /\ p \in Workers
           \/ pc'[p] = "find_waiting" /\ p \in Resumers /\ mstatus[m] = "WAITING_APPROVAL"
    BY <1>3 DEF TypeOK, Others, RunOnce, ResumeApproved, Goto, rows
  <2>3. CallServed(p)'
    BY <2>1, <2>2, ConstantsAssumption DEF ConstantsAssumption, CallServed, Owns, Writes
  <2>4. HoldsOn(p) BY <2>2 DEF HoldsOn, Owns, Writes, Closing
  <2>. QED BY <2>2, <2>3, <2>4, QuietAgree
<1>4. CASE UNCHANGED <<mstatus, sstatus, local>>
  <2>1. UNCHANGED <<mstatus, sstatus, pc, mi, snap, st, tgt>> BY <1>4 DEF local
  <2>2. \A p \in Procs : CallServed(p)' BY <2>1 DEF AgreeInv, CallServed, Owns, Writes
  <2>3. \A m \in Missions : InHand(m)'
    BY <2>1 DEF AgreeInv, InHand, Owns, Writes, Closing, PlanComplete, PlanOf
  <2>. QED BY <2>2, <2>3 DEF AgreeInv
<1>5. ASSUME NEW m \in Missions, CreateMission(m) \/ DepartmentFails(m) PROVE AgreeInv'
  <2>1. /\ m \notin planned /\ UNCHANGED <<sstatus, pc, mi, snap, st, tgt>>
        /\ \E x \in {"QUEUED", "FAILED"} : mstatus' = [mstatus EXCEPT ![m] = x]
    BY <1>5 DEF CreateMission, DepartmentFails, local, TypeInv, LocalOK, DataOK
  <2>2. ASSUME NEW p \in Procs PROVE CallServed(p)'
    <3>1. CallServed(p) /\ CallOK(p) /\ DataOK BY DEF AgreeInv, TypeInv, LocalOK
    <3>2. pc[p] # "idle" => mi[p] # m BY <2>1, <3>1 DEF CallOK, DataOK
    <3>3. pc[p] # "idle" => mstatus'[mi[p]] = mstatus[mi[p]]
      BY <2>1, <3>1, <3>2 DEF TypeOK, CallOK
    <3>. QED BY <2>1, <3>1, <3>3 DEF CallServed, Owns, Writes
  <2>3. ASSUME NEW n \in Missions PROVE InHand(n)'
    <3>1. InHand(n) BY DEF AgreeInv
    <3>2. mstatus'[n] = mstatus[n] \/ PlanUntouched(n)
      BY <2>1 DEF TypeOK, PlanInv, VerdictInv, Parked, PlanUntouched, PlanOf
    <3>. QED BY <2>1, <3>1, <3>2
             DEF InHand, Owns, Writes, Closing, PlanUntouched, PlanComplete, PlanOf
  <2>. QED BY <2>2, <2>3 DEF AgreeInv
<1>6. CASE EnvStep \/ UNCHANGED vars
  BY <1>4, <1>5, <1>6
  DEF EnvStep, CreatePlan, DecideRead, DecideWrite, ExpireApproval, CreateScopedRule,
      ExpireRule, SetSystemState, vars, rows
<1>. QED BY <1>1, <1>2, <1>3, <1>6 DEF Next

LEMMA InitAgree == Init => AgreeInv
<1>. SUFFICES ASSUME Init PROVE AgreeInv OBVIOUS
<1>1. \A p \in Procs : CallServed(p) BY DEF Init, CallServed, Owns, Writes
<1>2. \A m \in Missions : InHand(m) BY DEF Init, InHand, PlanComplete, PlanOf
<1>. QED BY <1>1, <1>2 DEF AgreeInv

(* With one worker and one resume at a time, and until a process dies, the *)
(* row and the steps of a mission tell the same story whenever no call     *)
(* works on it.                                                            *)
THEOREM QuietMissionsAgree ==
    ASSUME SingleResumer, SingleWorker PROVE Spec => []QuiescentAgreement
<1>. DEFINE Inv == PlanInv /\ (crashes = 0 => AgreeInv)
<1>1. Inv /\ [Next]_vars => Inv'
  BY StepType, StepSteps, StepVerdict, StepRow, StepAgree, CrashCounts DEF PlanInv
<1>2. Init => Inv
  BY InitType, InitSteps, InitVerdict, InitRow, InitAgree DEF PlanInv
<1>3. Inv => QuiescentAgreement
  <2>. SUFFICES ASSUME PlanInv, AgreeInv, NEW m \in planned, \A p \in Procs : mi[p] # m
                PROVE  /\ \A s \in PlanOf(m) : sstatus[s] # "RUNNING"
                       /\ mstatus[m] = "WAITING_APPROVAL" <=> \E s \in Steps : WaitingStep(m, s)
                       /\ (\E s \in PlanOf(m) : sstatus[s] = "FAILED") => mstatus[m] = "FAILED"
                       /\ mstatus[m] = "FAILED" =>
                             PlanUntouched(m) \/ \E s \in PlanOf(m) : sstatus[s] = "FAILED"
                       /\ mstatus[m] = "COMPLETED" <=> PlanComplete(m)
    BY DEF QuiescentAgreement
  <2>1. m \in Missions /\ PlanOf(m) # {} BY DEF PlanInv, TypeInv, TypeOK, LocalOK, DataOK
  <2>2. InHand(m) /\ MissionRow(m) /\ VerdictMatchesPlan
    BY <2>1 DEF AgreeInv, PlanInv, RowInv, VerdictInv
  <2>3. \A p \in Procs : \A s \in PlanOf(m) : st[p] # s
    BY ConstantsAssumption DEF ConstantsAssumption, PlanInv, TypeInv, LocalOK, CallOK, PlanOf
  <2>4. \A s \in PlanOf(m) : sstatus[s] # "RUNNING" BY <2>2, <2>3 DEF InHand
  <2>5. mstatus[m] = "WAITING_APPROVAL" <=> \E s \in Steps : WaitingStep(m, s)
    BY <2>2, <2>3, <2>4 DEF InHand, MissionRow, WaitingStep, PlanOf
  <2>6. /\ (\E s \in PlanOf(m) : sstatus[s] = "FAILED") => mstatus[m] = "FAILED"
        /\ mstatus[m] = "FAILED" =>
              PlanUntouched(m) \/ \E s \in PlanOf(m) : sstatus[s] = "FAILED"
    BY <2>1, <2>2, <2>3 DEF InHand, VerdictMatchesPlan
  <2>7. mstatus[m] = "COMPLETED" <=> PlanComplete(m)
    BY <2>1, <2>2 DEF InHand, VerdictMatchesPlan
  <2>. QED BY <2>4, <2>5, <2>6, <2>7
<1>. QED BY <1>1, <1>2, <1>3, PTL DEF Spec

-----------------------------------------------------------------------------
(* MissionExecution implements PlanProgress: the calls of run_next and     *)
(* resume_approved, with their stale reads, approvals and crashes, do      *)
(* nothing that an observer of the effects and of the ends could not       *)
(* explain by the plan alone.                                              *)
(*                                                                         *)
(* The proof maps the writes that matter, one by one.  Calling an adapter  *)
(* is Perform, writing the end of a step is EndStep, writing a verdict is  *)
(* Conclude, the department's failure of a mission is Refuse; every other  *)
(* transaction leaves the three mapped variables alone.  That the abstract *)
(* guards hold at those writes, long after the reads they rest on, is what *)
(* PlanInv is for.                                                         *)

USE DEF Procs, GatewayLabels

(* The writes that an observer of the plan can see.                        *)
Unseen == UNCHANGED <<execs, StepOutcome, MissionVerdict>>

LEMMA UnseenData ==
    ASSUME UNCHANGED <<mstatus, sstatus, execs>>
    PROVE  Unseen
BY DEF Unseen, StepOutcome, MissionVerdict

(* What the mapping makes of a status.                                     *)
LEMMA OutcomeOf ==
    ASSUME NEW s \in Steps
    PROVE  /\ sstatus[s] = "SUCCEEDED" => StepOutcome[s] = "ok"
           /\ sstatus[s] = "FAILED" => StepOutcome[s] = "failed"
           /\ sstatus[s] \notin {"SUCCEEDED", "FAILED"} => StepOutcome[s] = "open"
BY DEF StepOutcome

LEMMA VerdictOf ==
    ASSUME NEW m \in Missions
    PROVE  /\ mstatus[m] \in {"COMPLETED", "FAILED"} => MissionVerdict[m] = mstatus[m]
           /\ mstatus[m] \notin {"COMPLETED", "FAILED"} => MissionVerdict[m] = "open"
BY DEF MissionVerdict

(* A call outside the mission's transitions that owns its step is on turn: *)
(* the plan is done up to that step and the mission has no verdict.        *)
LEMMA OwnerOnTurn ==
    ASSUME NEW p \in Procs, PlanInv, Owns(p), pc[p] \notin {"mission_read", "mission_write"}
    PROVE  st[p] \in Steps /\ Progress!OnTurn(st[p])
<1>1. CallOK(p) /\ CallSteps(p) /\ CallRow(p) /\ StepOrder
  BY DEF PlanInv, TypeInv, LocalOK, StepsInv, RowInv
<1>2. /\ st[p] \in Steps /\ StepMission[st[p]] \in Missions
      /\ sstatus[st[p]] = "RUNNING" /\ mstatus[StepMission[st[p]]] = "RUNNING"
  BY <1>1, ConstantsAssumption DEF ConstantsAssumption, CallOK, CallSteps, CallRow, Owns
<1>3. StepOutcome[st[p]] = "open" /\ MissionVerdict[StepMission[st[p]]] = "open"
  BY <1>2, OutcomeOf, VerdictOf
<1>4. ASSUME NEW t \in Steps, StepMission[t] = StepMission[st[p]], StepPos[t] < StepPos[st[p]]
      PROVE  StepOutcome[t] = "ok"
  <2>1. sstatus[t] = "SUCCEEDED" BY <1>1, <1>2, <1>4 DEF StepOrder, Earlier
  <2>. QED BY <2>1, OutcomeOf
<1>. QED BY <1>2, <1>3, <1>4 DEF Progress!OnTurn

-----------------------------------------------------------------------------
(* The adapter call of a step is its effect.                               *)
LEMMA ExecutePerforms ==
    ASSUME NEW p \in Procs, PlanInv, ExecuteTool(p)
    PROVE  Progress!PlanNext
<1>1. pc[p] = "execute" /\ CallOK(p) /\ CallSteps(p) /\ TypeOK
  BY DEF PlanInv, TypeInv, LocalOK, StepsInv, ExecuteTool
<1>2. st[p] \in Steps /\ Owns(p) /\ ~Settling(p)
  BY <1>1, ConstantsAssumption DEF ConstantsAssumption, CallOK, Owns, Settling
<1>3. execs[st[p]] = 0 BY <1>1, <1>2 DEF CallSteps
<1>4. execs' = [execs EXCEPT ![st[p]] = 1] BY <1>3 DEF ExecuteTool
<1>5. UNCHANGED <<StepOutcome, MissionVerdict>>
  BY DEF ExecuteTool, rows, StepOutcome, MissionVerdict
<1>6. Progress!OnTurn(st[p]) BY <1>1, <1>2, OwnerOnTurn
<1>. QED BY <1>2, <1>3, <1>4, <1>5, <1>6 DEF Progress!PlanNext, Progress!Perform

(* The write of transition_step ends the step, or returns it to waiting or *)
(* running, which nobody sees.                                             *)
LEMMA StepWriteEnds ==
    ASSUME NEW p \in Procs, PlanInv, TransitionStepWrite(p)
    PROVE  Progress!PlanNext \/ Unseen
<1>1. pc[p] = "step_write" /\ CallOK(p) /\ CallSteps(p) /\ TypeOK
  BY DEF PlanInv, TypeInv, LocalOK, StepsInv, TransitionStepWrite
<1>2. /\ st[p] \in Steps /\ st[p] # None
      /\ tgt[p] \in {"RUNNING", "WAITING_APPROVAL", "SUCCEEDED", "FAILED"}
      /\ sstatus[st[p]] \in {"RUNNING", "WAITING_APPROVAL"}
  BY <1>1, ConstantsAssumption DEF ConstantsAssumption, CallOK, CallSteps, Owns, Reviving
<1>3. /\ execs' = execs /\ mstatus' = mstatus
      /\ sstatus' = [sstatus EXCEPT ![st[p]] = tgt[p]]
  BY DEF TransitionStepWrite, hist
<1>4. MissionVerdict' = MissionVerdict BY <1>3 DEF MissionVerdict
<1>5. sstatus'[st[p]] = tgt[p] /\ \A s \in Steps : s # st[p] => sstatus'[s] = sstatus[s]
  BY <1>1, <1>2, <1>3 DEF TypeOK
<1>6. CASE tgt[p] \in {"RUNNING", "WAITING_APPROVAL"}
  <2>1. StepOutcome' = StepOutcome BY <1>2, <1>5, <1>6 DEF StepOutcome
  <2>. QED BY <1>3, <1>4, <2>1 DEF Unseen
<1>7. ASSUME NEW how \in {"ok", "failed"}, tgt[p] \in {"SUCCEEDED", "FAILED"},
             how = "ok" <=> tgt[p] = "SUCCEEDED"
      PROVE  Progress!PlanNext
  <2>1. Owns(p) BY <1>1, <1>2, <1>7 DEF Owns
  <2>2. Progress!OnTurn(st[p]) BY <1>1, <2>1, OwnerOnTurn
  <2>3. StepOutcome' = [StepOutcome EXCEPT ![st[p]] = how]
    BY <1>2, <1>5, <1>7 DEF StepOutcome
  <2>4. Progress!EndStep(st[p], how) BY <1>3, <1>4, <2>2, <2>3 DEF Progress!EndStep
  <2>. QED BY <1>2, <2>4 DEF Progress!PlanNext
<1>. QED BY <1>2, <1>6, <1>7

(* The write of transition is the verdict; a second worker's late write of *)
(* the same verdict, and the statuses on the way, are not seen.            *)
LEMMA MissionWriteConcludes ==
    ASSUME SingleResumer, NEW p \in Procs, PlanInv, TransitionWrite(p), [Next]_vars
    PROVE  Progress!PlanNext \/ Unseen
<1>. DEFINE m == mi[p]
<1>1. pc[p] = "mission_write" /\ TypeOK BY DEF PlanInv, TypeInv, TransitionWrite
<1>2. m \in Missions /\ tgt[p] \in {"RUNNING", "WAITING_APPROVAL", "COMPLETED", "FAILED"}
  BY <1>1, WriterKnows
<1>3. /\ execs' = execs /\ sstatus' = sstatus
      /\ mstatus' = [mstatus EXCEPT ![m] = tgt[p]]
  BY DEF TransitionWrite, hist
<1>4. StepOutcome' = StepOutcome BY <1>3 DEF StepOutcome
<1>5. mstatus'[m] = tgt[p] /\ \A n \in Missions : n # m => mstatus'[n] = mstatus[n]
  BY <1>1, <1>2, <1>3 DEF TypeOK
<1>6. CASE mstatus[m] \in {"COMPLETED", "FAILED"}
  <2>1. mstatus'[m] = mstatus[m] BY <1>2, <1>6, MissionsStable DEF Terminal
  <2>2. MissionVerdict' = MissionVerdict BY <1>5, <2>1 DEF MissionVerdict
  <2>. QED BY <1>3, <1>4, <2>2 DEF Unseen
<1>7. CASE mstatus[m] \notin {"COMPLETED", "FAILED"} /\ tgt[p] \notin {"COMPLETED", "FAILED"}
  <2>1. MissionVerdict' = MissionVerdict BY <1>5, <1>7 DEF MissionVerdict
  <2>. QED BY <1>3, <1>4, <2>1 DEF Unseen
<1>8. CASE mstatus[m] \notin {"COMPLETED", "FAILED"} /\ tgt[p] \in {"COMPLETED", "FAILED"}
  <2>1. MissionVerdict[m] = "open" BY <1>2, <1>8, VerdictOf
  <2>2. MissionVerdict' = [MissionVerdict EXCEPT ![m] = tgt[p]]
    BY <1>2, <1>5, <1>8 DEF MissionVerdict
  <2>3. tgt[p] = "COMPLETED" => \A s \in Steps : StepMission[s] = m => StepOutcome[s] = "ok"
    BY <1>1, WriterKnows, OutcomeOf DEF PlanComplete, PlanOf
  <2>4. tgt[p] = "FAILED" => \E s \in Steps : StepMission[s] = m /\ StepOutcome[s] = "failed"
    BY <1>1, WriterKnows, OutcomeOf DEF PlanOf
  <2>5. Progress!Conclude(m, tgt[p])
    BY <1>3, <1>4, <1>8, <2>1, <2>2, <2>3, <2>4 DEF Progress!Conclude
  <2>. QED BY <1>2, <1>8, <2>5 DEF Progress!PlanNext
<1>. QED BY <1>6, <1>7, <1>8

(* A mission that the department fails has not had any effect.             *)
LEMMA DepartmentRefuses ==
    ASSUME NEW m \in Missions, PlanInv, DepartmentFails(m)
    PROVE  Progress!PlanNext
<1>. TypeOK /\ OnceInv /\ Parked BY DEF PlanInv, TypeInv, StepsInv, VerdictInv
<1>1. /\ mstatus[m] = "QUEUED" /\ m \notin planned /\ UNCHANGED <<sstatus, execs>>
      /\ mstatus' = [mstatus EXCEPT ![m] = "FAILED"]
  BY DEF DepartmentFails, hist
<1>2. ASSUME NEW s \in Steps, StepMission[s] = m
      PROVE  StepOutcome[s] = "open" /\ execs[s] = 0
  <2>1. sstatus[s] = "PENDING" BY <1>1, <1>2 DEF Parked
  <2>. QED BY <2>1, OutcomeOf DEF OnceInv
<1>3. MissionVerdict[m] = "open" BY <1>1, VerdictOf
<1>4. MissionVerdict' = [MissionVerdict EXCEPT ![m] = "FAILED"]
  BY <1>1 DEF TypeOK, MissionVerdict
<1>5. UNCHANGED <<execs, StepOutcome>> BY <1>1 DEF StepOutcome
<1>6. Progress!Refuse(m) BY <1>2, <1>3, <1>4, <1>5 DEF Progress!Refuse
<1>. QED BY <1>6 DEF Progress!PlanNext

-----------------------------------------------------------------------------
(* Every step of the executor is a step of the plan, or is not seen.       *)
LEMMA StepProgress ==
    ASSUME SingleResumer, PlanInv, [Next]_vars
    PROVE  Progress!PlanNext \/ Unseen
<1>. TypeOK BY DEF PlanInv, TypeInv
<1>1. ASSUME NEW p \in Procs, ProcStep(p) \/ Crash(p) PROVE Progress!PlanNext \/ Unseen
  <2>1. CASE ExecuteTool(p) BY <2>1, ExecutePerforms
  <2>2. CASE TransitionStepWrite(p) BY <2>2, StepWriteEnds
  <2>3. CASE TransitionWrite(p) BY <2>3, MissionWriteConcludes
  <2>4. CASE ClaimStep(p)
    <3>1. CASE sstatus' = sstatus
      BY <2>4, <3>1, UnseenData DEF ClaimStep, hist
    <3>2. CASE sstatus' # sstatus
      <4>1. st[p] \in Steps BY <2>4 DEF PlanInv, TypeInv, LocalOK, CallOK, ClaimStep
      <4>2. /\ sstatus[st[p]] = "PENDING" /\ sstatus' = [sstatus EXCEPT ![st[p]] = "RUNNING"]
            /\ mstatus' = mstatus /\ execs' = execs
        BY <2>4, <3>2 DEF ClaimStep, hist
      <4>3. StepOutcome' = StepOutcome BY <4>1, <4>2 DEF TypeOK, StepOutcome
      <4>. QED BY <4>2, <4>3 DEF Unseen, MissionVerdict
    <3>. QED BY <3>1, <3>2
  <2>5. CASE ~ExecuteTool(p) /\ ~TransitionStepWrite(p) /\ ~TransitionWrite(p) /\ ~ClaimStep(p)
    <3>1. UNCHANGED <<mstatus, sstatus, execs>>
      BY <1>1, <2>5
      DEF ProcStep, Crash, GetMission, CheckWaiting, SelectStep, CheckPlan, TransitionRead,
          TransitionStepRead, FindWaitingStep, ReadSystemState, IsApproved, MatchRule,
          FindPending, CreateRequest, ConsumeRule, rows, hist
    <3>. QED BY <3>1, UnseenData
  <2>. QED BY <2>1, <2>2, <2>3, <2>4, <2>5
<1>2. ASSUME NEW p \in Procs, NEW m \in Missions, RunOnce(p, m) \/ ResumeApproved(p, m)
      PROVE  Unseen
  BY <1>2, UnseenData DEF RunOnce, ResumeApproved, rows, hist
<1>3. ASSUME NEW m \in Missions, CreateMission(m) PROVE Unseen
  <2>1. /\ mstatus[m] = "ABSENT" /\ mstatus' = [mstatus EXCEPT ![m] = "QUEUED"]
        /\ UNCHANGED <<sstatus, execs>>
    BY <1>3 DEF CreateMission, hist
  <2>2. MissionVerdict' = MissionVerdict BY <2>1 DEF TypeOK, MissionVerdict
  <2>. QED BY <2>1, <2>2 DEF Unseen, StepOutcome
<1>4. ASSUME NEW m \in Missions, DepartmentFails(m) PROVE Progress!PlanNext
  BY <1>4, DepartmentRefuses
<1>5. CASE EnvStep \/ UNCHANGED vars
  <2>1. CASE \E m \in Missions : CreateMission(m) \/ DepartmentFails(m) BY <1>3, <1>4, <2>1
  <2>2. CASE ~\E m \in Missions : CreateMission(m) \/ DepartmentFails(m)
    <3>1. UNCHANGED <<mstatus, sstatus, execs>>
      BY <1>5, <2>2 DEF EnvStep, CreatePlan, DecideRead, DecideWrite, ExpireApproval,
                        CreateScopedRule, ExpireRule, SetSystemState, vars, rows, hist
    <3>. QED BY <3>1, UnseenData
  <2>. QED BY <2>1, <2>2
<1>. QED BY <1>1, <1>2, <1>5 DEF Next

LEMMA InitProgress == Init => Progress!PlanInit
<1>. SUFFICES ASSUME Init PROVE Progress!PlanInit OBVIOUS
<1>1. execs = [s \in Steps |-> 0] BY DEF Init
<1>2. StepOutcome = [s \in Steps |-> "open"] BY DEF Init, StepOutcome
<1>3. MissionVerdict = [m \in Missions |-> "open"] BY DEF Init, MissionVerdict
<1>. QED BY <1>1, <1>2, <1>3 DEF Progress!PlanInit

(* The executor implements PlanProgress, for any number of workers and     *)
(* crashes: effects happen once and in the plan's order, ends are final,   *)
(* and a verdict follows from the steps, or refuses a plan that then never *)
(* has an effect.                                                          *)
THEOREM ExecutorImplementsPlan == ASSUME SingleResumer PROVE Spec => ImplementsPlanProgress
<1>1. PlanInv /\ [Next]_vars => PlanInv'
  BY StepType, StepSteps, StepVerdict, StepRow DEF PlanInv
<1>2. Init => PlanInv BY InitType, InitSteps, InitVerdict, InitRow DEF PlanInv
<1>3. PlanInv /\ [Next]_vars => [Progress!PlanNext]_(Progress!planVars)
  BY StepProgress DEF Unseen, Progress!planVars
<1>. QED BY <1>1, <1>2, <1>3, InitProgress, PTL
         DEF Spec, ImplementsPlanProgress, Progress!PlanSpec
=============================================================================
