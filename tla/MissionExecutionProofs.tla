----------------------- MODULE MissionExecutionProofs -----------------------
(***************************************************************************)
(* Proofs about MissionExecution for every set of workers, missions, steps *)
(* and rules.                                                              *)
(***************************************************************************)
EXTENDS MissionExecution, FiniteSetTheorems, TLAPS

GatewayLabels == {"gateway", "approved", "rule", "pending", "create", "consume", "execute"}

(* What the local variables of a call are at each label.                   *)
CallOK(p) ==
    /\ pc[p] # "idle" => mi[p] \in Missions /\ mi[p] \in planned
    /\ pc[p] \in GatewayLabels \cup {"claim", "step_read", "step_write"} => st[p] \in Steps
    /\ st[p] # None => st[p] \in Steps /\ mi[p] = StepMission[st[p]]
    /\ pc[p] \in {"idle", "get", "waiting", "find_waiting"} => st[p] = None
    /\ pc[p] \in {"step_read", "step_write"} =>
          tgt[p] \in {"RUNNING", "WAITING_APPROVAL", "SUCCEEDED", "FAILED"}
    /\ pc[p] \in {"mission_read", "mission_write"} =>
          /\ tgt[p] \in {"RUNNING", "WAITING_APPROVAL", "COMPLETED", "FAILED"}
          /\ tgt[p] \in {"WAITING_APPROVAL", "FAILED"} => st[p] \in Steps
    /\ pc[p] = "consume" => ctx[p].rule \in Rules
    /\ pc[p] \in {"waiting", "select", "claim"} => snap[p] # None

(* What the rows say of each other: a mission with a plan exists, a        *)
(* mission that has left QUEUED has a plan unless it was failed, a request *)
(* that exists has a key and a decision in progress is about one of them.  *)
DataOK ==
    /\ \A m \in planned : mstatus[m] # "ABSENT" /\ PlanOf(m) # {}
    /\ \A m \in Missions : mstatus[m] \notin {"ABSENT", "QUEUED", "FAILED"} => m \in planned
    /\ \A a \in ApprovalIds : astate[a] # "ABSENT" => akey[a] \in Keys
    /\ \A d \in Deciders : dec[d] # None => astate[dec[d].id] # "ABSENT"

LocalOK == (\A p \in Procs : CallOK(p)) /\ DataOK

TypeInv == TypeOK /\ LocalOK

(* The part of TypeOK about the local state of the calls.                  *)
CallType ==
    /\ pc \in [Procs -> Labels]
    /\ mi \in [Procs -> Missions \cup {None}]
    /\ snap \in [Procs -> MissionStatus \cup {None}]
    /\ st \in [Procs -> Steps \cup {None}]
    /\ tgt \in [Procs -> MissionStatus \cup StepStatus \cup {None}]
    /\ ctx \in [Procs -> Contexts]

LEMMA NoCtxType == NoCtx \in Contexts
BY DEF NoCtx, Contexts, Modes

LEMMA SetApproved ==
    ASSUME NEW c \in Contexts, NEW b \in BOOLEAN
    PROVE  [c EXCEPT !.approved = b] \in Contexts
BY DEF Contexts

LEMMA SetRule ==
    ASSUME NEW c \in Contexts, NEW r \in Rules \cup {None}
    PROVE  [c EXCEPT !.rule = r] \in Contexts
BY DEF Contexts

(* Ending a call keeps the types of its local variables.                   *)
LEMMA FinishType ==
    ASSUME NEW p \in Procs, CallType, Finish(p)
    PROVE  CallType'
<1>1. pc' \in [Procs -> Labels] BY DEF CallType, Finish, Labels
<1>2. ctx' \in [Procs -> Contexts] BY NoCtxType DEF CallType, Finish
<1>. QED BY <1>1, <1>2 DEF CallType, Finish

USE DEF Procs, GatewayLabels, Labels, MissionStatus, StepStatus, Modes

LEMMA InitType == Init => TypeInv
BY ConstantsAssumption DEF ConstantsAssumption, Init, TypeInv, TypeOK, LocalOK, CallOK, DataOK, NoCtx, Contexts

LEMMA CreateType ==
    ASSUME NEW m \in Missions, TypeInv, CreateMission(m) \/ CreatePlan(m) \/ DepartmentFails(m)
    PROVE  TypeInv'
<1>1. CASE CreateMission(m)
  <2>1. TypeOK'
    BY <1>1 DEF TypeInv, TypeOK, CreateMission, appr, rule, sys, local, hist
  <2>2. LocalOK'
    BY <1>1 DEF TypeInv, TypeOK, LocalOK, CallOK, DataOK, CreateMission, PlanOf, appr, rule, sys, local, hist
  <2>. QED BY <2>1, <2>2 DEF TypeInv
<1>2. CASE CreatePlan(m)
  <2>1. TypeOK'
    BY <1>2 DEF TypeInv, TypeOK, CreatePlan, appr, rule, sys, local, hist
  <2>2. LocalOK'
    BY <1>2 DEF TypeInv, TypeOK, LocalOK, CallOK, DataOK, CreatePlan, PlanOf, appr, rule, sys, local, hist
  <2>. QED BY <2>1, <2>2 DEF TypeInv
<1>3. CASE DepartmentFails(m)
  <2>1. TypeOK'
    BY <1>3 DEF TypeInv, TypeOK, DepartmentFails, appr, rule, sys, local, hist
  <2>2. LocalOK'
    BY <1>3 DEF TypeInv, TypeOK, LocalOK, CallOK, DataOK, DepartmentFails, PlanOf, appr, rule,
           sys, local, hist
  <2>. QED BY <2>1, <2>2 DEF TypeInv
<1>. QED BY <1>1, <1>2, <1>3

LEMMA StartType ==
    ASSUME NEW p \in Procs, NEW m \in Missions, TypeInv, RunOnce(p, m) \/ ResumeApproved(p, m)
    PROVE  TypeInv'
<1>1. TypeOK'
  BY DEF TypeInv, TypeOK, RunOnce, ResumeApproved, Goto, rows, appr, rule, sys, hist
<1>2. LocalOK'
  BY DEF TypeInv, TypeOK, LocalOK, CallOK, DataOK, RunOnce, ResumeApproved, Runnable, Goto, rows, appr, rule,
         sys, hist, PlanOf
<1>. QED BY <1>1, <1>2 DEF TypeInv

LEMMA ProcType ==
    ASSUME NEW p \in Procs, TypeInv, ProcStep(p) \/ Crash(p)
    PROVE  TypeInv'
<1>. TypeOK /\ LocalOK /\ CallType
  BY DEF TypeInv, TypeOK, CallType
<1>1. CASE GetMission(p)
  <2>0. mi[p] \in Missions /\ mstatus[mi[p]] \in MissionStatus
    BY <1>1 DEF TypeOK, LocalOK, CallOK, DataOK, GetMission
  <2>1. CallType'
    <3>1. CASE Finish(p) BY <3>1, FinishType
    <3>2. CASE ~Finish(p) BY <1>1, <2>0, <3>2 DEF CallType, Goto, Terminal, GetMission
    <3>. QED BY <3>1, <3>2
  <2>2. TypeOK'
    BY <1>1, <2>0, <2>1 DEF CallType, TypeOK, GetMission, rows, appr, rule, sys, hist
  <2>3. CallOK(p)'
    <3>1. CASE Finish(p)
      BY <3>1 DEF CallType, CallOK, Finish
    <3>2. CASE ~Finish(p)
      BY <1>1, <2>0, <3>2, ConstantsAssumption
      DEF ConstantsAssumption, CallType, LocalOK, CallOK, GetMission, Goto, rows
    <3>. QED BY <3>1, <3>2
  <2>4. ASSUME NEW q \in Procs, q # p PROVE CallOK(q)'
    BY <1>1, <2>4 DEF CallType, LocalOK, CallOK, GetMission, Goto, Terminal, Finish, rows,
           appr, rule, sys, hist, PlanOf
  <2>5. DataOK'
    BY <1>1 DEF TypeOK, LocalOK, CallOK, DataOK, GetMission, Goto, Terminal, Finish, rows,
           appr, rule, sys, hist, PlanOf
  <2>6. LocalOK'
    BY <2>3, <2>4, <2>5 DEF LocalOK
  <2>. QED BY <2>2, <2>6 DEF TypeInv
<1>2. CASE CheckWaiting(p)
  <2>1. CallType'
    <3>1. CASE Finish(p) BY <3>1, FinishType
    <3>2. CASE ~Finish(p) BY <1>2, <3>2 DEF CallType, Goto, CheckWaiting
    <3>. QED BY <3>1, <3>2
  <2>2. TypeOK'
    BY <1>2, <2>1 DEF CallType, TypeOK, CheckWaiting, rows, appr, rule, sys, hist
  <2>3. LocalOK'
    BY <1>2, ConstantsAssumption DEF ConstantsAssumption, TypeOK, LocalOK, CallOK, DataOK, CheckWaiting,
           Goto, Finish, NoCtx, Contexts, rows, appr, rule, sys, hist, PlanOf
  <2>. QED BY <2>2, <2>3 DEF TypeInv
<1>3. CASE SelectStep(p)
  <2>1. CallType'
    BY <1>3 DEF CallType, Goto, SelectStep
  <2>2. TypeOK'
    BY <1>3, <2>1 DEF CallType, TypeOK, SelectStep, rows, appr, rule, sys, hist
  <2>3. LocalOK'
    BY <1>3, ConstantsAssumption DEF ConstantsAssumption, TypeOK, LocalOK, CallOK, DataOK, SelectStep, Goto,
           FirstIncomplete, rows, appr, rule, sys, hist, PlanOf
  <2>. QED BY <2>2, <2>3 DEF TypeInv
<1>4. CASE ClaimStep(p)
  <2>0. st[p] \in Steps
    BY <1>4, ConstantsAssumption DEF ConstantsAssumption, TypeOK, LocalOK, CallOK, DataOK, CallType,
           Contexts, Keys, ClaimStep
  <2>1. CallType'
    BY <1>4, <2>0 DEF CallType, Goto, CallTransition, ClaimStep
  <2>2. TypeOK'
    BY <1>4, <2>0, <2>1 DEF CallType, TypeOK, ClaimStep, appr, rule, sys, hist
  <2>3. LocalOK'
    BY <1>4, ConstantsAssumption DEF ConstantsAssumption, TypeOK, LocalOK, CallOK, DataOK, ClaimStep, Goto,
           CallTransition, appr, rule, sys, hist, PlanOf
  <2>. QED BY <2>2, <2>3 DEF TypeInv
<1>5. CASE CheckPlan(p)
  <2>1. CallType'
    <3>1. CASE Finish(p) BY <3>1, FinishType
    <3>2. CASE ~Finish(p) BY <1>5, <3>2 DEF CallType, Goto, CallTransition, CheckPlan
    <3>. QED BY <3>1, <3>2
  <2>2. TypeOK'
    BY <1>5, <2>1 DEF CallType, TypeOK, CheckPlan, rows, appr, rule, sys, hist
  <2>3. LocalOK'
    BY <1>5, ConstantsAssumption DEF ConstantsAssumption, TypeOK, LocalOK, CallOK, DataOK, CheckPlan, Goto,
           CallTransition, Finish, NoCtx, Contexts, rows, appr, rule, sys, hist, PlanOf
  <2>. QED BY <2>2, <2>3 DEF TypeInv
<1>6. CASE TransitionRead(p)
  <2>1. CallType'
    <3>1. CASE Finish(p) BY <3>1, FinishType
    <3>2. CASE ~Finish(p) BY <1>6, <3>2 DEF CallType, Goto, TransitionRead
    <3>. QED BY <3>1, <3>2
  <2>2. TypeOK'
    BY <1>6, <2>1 DEF CallType, TypeOK, TransitionRead, rows, appr, rule, sys, hist
  <2>3. CallOK(p)'
    BY <1>6, ConstantsAssumption DEF ConstantsAssumption, TypeOK, LocalOK, CallOK, TransitionRead, Goto,
           Finish, NoCtx, Contexts, rows
  <2>4. ASSUME NEW q \in Procs, q # p PROVE CallOK(q)'
    BY <1>6, <2>4 DEF CallType, LocalOK, CallOK, TransitionRead, Goto, Finish, rows
  <2>5. DataOK' BY <1>6 DEF LocalOK, DataOK, TransitionRead, rows, appr, PlanOf
  <2>6. LocalOK' BY <2>3, <2>4, <2>5 DEF LocalOK
  <2>. QED BY <2>2, <2>6 DEF TypeInv
<1>7. CASE TransitionWrite(p)
  <2>0. mi[p] \in Missions /\ tgt[p] \in MissionStatus
    BY <1>7, ConstantsAssumption DEF ConstantsAssumption, TypeOK, LocalOK, CallOK, DataOK, CallType,
           Contexts, Keys, TransitionWrite
  <2>1. CallType'
    <3>1. CASE Finish(p) BY <3>1, FinishType
    <3>2. CASE ~Finish(p) BY <1>7, <2>0, <3>2 DEF CallType, Goto, CallTransition,
           TransitionWrite
    <3>. QED BY <3>1, <3>2
  <2>2. TypeOK'
    BY <1>7, <2>0, <2>1 DEF CallType, TypeOK, TransitionWrite, appr, rule, sys, hist
  <2>3. CallOK(p)'
    BY <1>7, <2>1, ConstantsAssumption DEF ConstantsAssumption, TypeOK, LocalOK, CallOK,
           DataOK, TransitionWrite, Goto, CallTransition, Finish, appr, rule, sys, hist,
           PlanOf
  <2>4. ASSUME NEW q \in Procs, q # p PROVE CallOK(q)'
    BY <1>7, <2>4 DEF CallType, LocalOK, CallOK, TransitionWrite, Goto, CallTransition,
           Finish, appr, rule, sys, hist, PlanOf
  <2>5. DataOK'
    BY <1>7 DEF TypeOK, LocalOK, CallOK, DataOK, TransitionWrite, Goto, CallTransition,
           Finish, appr, rule, sys, hist, PlanOf
  <2>6. LocalOK'
    BY <2>3, <2>4, <2>5 DEF LocalOK
  <2>. QED BY <2>2, <2>6 DEF TypeInv
<1>8. CASE TransitionStepRead(p)
  <2>1. CallType'
    <3>1. CASE Finish(p) BY <3>1, FinishType
    <3>2. CASE ~Finish(p) BY <1>8, <3>2 DEF CallType, Goto, TransitionStepRead
    <3>. QED BY <3>1, <3>2
  <2>2. TypeOK'
    BY <1>8, <2>1 DEF CallType, TypeOK, TransitionStepRead, rows, appr, rule, sys, hist
  <2>3. LocalOK'
    BY <1>8, ConstantsAssumption DEF ConstantsAssumption, TypeOK, LocalOK, CallOK, DataOK,
           TransitionStepRead, Goto, Finish, NoCtx, Contexts, rows, appr, rule, sys, hist,
           PlanOf
  <2>. QED BY <2>2, <2>3 DEF TypeInv
<1>9. CASE TransitionStepWrite(p)
  <2>0. st[p] \in Steps /\ tgt[p] \in StepStatus
    BY <1>9, ConstantsAssumption DEF ConstantsAssumption, TypeOK, LocalOK, CallOK, DataOK, CallType,
           Contexts, Keys, TransitionStepWrite
  <2>1. CallType'
    BY <1>9, <2>0 DEF CallType, Goto, CallTransition, TransitionStepWrite
  <2>2. TypeOK'
    BY <1>9, <2>0, <2>1 DEF CallType, TypeOK, TransitionStepWrite, appr, rule, sys, hist
  <2>3. LocalOK'
    BY <1>9, ConstantsAssumption DEF ConstantsAssumption, TypeOK, LocalOK, CallOK, DataOK,
           TransitionStepWrite, Goto, CallTransition, appr, rule, sys, hist, PlanOf
  <2>. QED BY <2>2, <2>3 DEF TypeInv
<1>10. CASE FindWaitingStep(p)
  <2>1. CallType'
    <3>1. CASE Finish(p) BY <3>1, FinishType
    <3>2. CASE ~Finish(p) BY <1>10, <3>2 DEF CallType, Goto, CallTransitionStep,
           FindWaitingStep
    <3>. QED BY <3>1, <3>2
  <2>2. TypeOK'
    BY <1>10, <2>1 DEF CallType, TypeOK, FindWaitingStep, rows, appr, rule, sys, hist
  <2>3. CallOK(p)'
    BY <1>10, <2>1, ConstantsAssumption DEF ConstantsAssumption, TypeOK, LocalOK, CallOK,
           DataOK, FindWaitingStep, Goto, CallTransitionStep, Finish, WaitingStep, rows,
           appr, rule, sys, hist, PlanOf
  <2>4. ASSUME NEW q \in Procs, q # p PROVE CallOK(q)'
    BY <1>10, <2>4 DEF CallType, LocalOK, CallOK, FindWaitingStep, Goto, CallTransitionStep,
           Finish, WaitingStep, rows, appr, rule, sys, hist, PlanOf
  <2>5. DataOK'
    BY <1>10 DEF TypeOK, LocalOK, CallOK, DataOK, FindWaitingStep, Goto, CallTransitionStep,
           Finish, WaitingStep, rows, appr, rule, sys, hist, PlanOf
  <2>6. LocalOK'
    BY <2>3, <2>4, <2>5 DEF LocalOK
  <2>. QED BY <2>2, <2>6 DEF TypeInv
<1>11. CASE ReadSystemState(p)
  <2>0. [mode |-> mode, sim |-> sim \/ ~Readable(mode), approved |-> FALSE, rule |-> None] \in Contexts
    BY <1>11, ConstantsAssumption DEF ConstantsAssumption, TypeOK, LocalOK, CallOK, DataOK, CallType,
           Contexts, Keys, ReadSystemState
  <2>1. CallType'
    BY <1>11, <2>0 DEF CallType, Goto, CallTransitionStep, ReadSystemState
  <2>2. TypeOK'
    BY <1>11, <2>0, <2>1 DEF CallType, TypeOK, ReadSystemState, rows, appr, rule, sys, hist
  <2>3. LocalOK'
    BY <1>11, ConstantsAssumption DEF ConstantsAssumption, TypeOK, LocalOK, CallOK, DataOK, ReadSystemState,
           Goto, CallTransitionStep, Contexts, rows, appr, rule, sys, hist, PlanOf
  <2>. QED BY <2>2, <2>3 DEF TypeInv
<1>12. CASE IsApproved(p)
  <2>. DEFINE b == \E a \in ApprovalIds : LiveRequest(a, st[p], "APPROVED")
  <2>0. [ctx[p] EXCEPT !.approved = b] \in Contexts
    <3>1. ctx[p] \in Contexts BY DEF CallType
    <3>2. b \in BOOLEAN OBVIOUS
    <3>. HIDE DEF b
    <3>. QED BY <3>1, <3>2, SetApproved
  <2>1. CallType'
    <3>1. ctx' = [ctx EXCEPT ![p] = [ctx[p] EXCEPT !.approved = b]]
      BY <1>12 DEF IsApproved, CallType
    <3>. HIDE DEF b
    <3>. QED BY <1>12, <2>0, <3>1 DEF CallType, Goto, IsApproved
  <2>2. TypeOK'
    BY <1>12, <2>0, <2>1 DEF CallType, TypeOK, IsApproved, rows, appr, rule, sys, hist
  <2>3. LocalOK'
    BY <1>12, ConstantsAssumption DEF ConstantsAssumption, TypeOK, LocalOK, CallOK, DataOK, IsApproved,
           Goto, Contexts, rows, appr, rule, sys, hist, PlanOf
  <2>. QED BY <2>2, <2>3 DEF TypeInv
<1>13. CASE MatchRule(p)
  <2>1. PICK r \in Rules \cup {None} :
          /\ ctx' = [ctx EXCEPT ![p] = [ctx[p] EXCEPT !.rule = r]]
          /\ \/ CallTransitionStep(p, "FAILED") \/ CallTransitionStep(p, "SUCCEEDED")
             \/ Goto(p, "pending") /\ UNCHANGED tgt
             \/ Goto(p, "execute") /\ UNCHANGED tgt
             \/ r # None /\ Goto(p, "consume") /\ UNCHANGED tgt
    BY <1>13 DEF MatchRule, MatchingRules
  <2>2. PICK to \in {"step_read", "pending", "consume", "execute"} :
          /\ pc' = [pc EXCEPT ![p] = to] /\ (to = "consume" => r # None)
          /\ \/ tgt' = [tgt EXCEPT ![p] = "FAILED"] \/ tgt' = [tgt EXCEPT ![p] = "SUCCEEDED"]
             \/ to # "step_read" /\ tgt' = tgt
    BY <2>1 DEF Goto, CallTransitionStep
  <2>3. PICK c \in Contexts : c.rule = r /\ ctx' = [ctx EXCEPT ![p] = c]
    <3>1. ctx[p] \in Contexts BY DEF CallType
    <3>2. [ctx[p] EXCEPT !.rule = r] \in Contexts BY <3>1, SetRule
    <3>3. [ctx[p] EXCEPT !.rule = r].rule = r BY <3>1 DEF Contexts
    <3>. QED BY <2>1, <3>2, <3>3
  <2>4. UNCHANGED <<rows, appr, rule, sys, mi, snap, st, dec, crashes, hist>>
    BY <1>13 DEF MatchRule
  <2>5. CallType' BY <2>2, <2>3, <2>4 DEF CallType
  <2>6. TypeOK' BY <2>5, <2>4 DEF CallType, TypeOK, rows, appr, rule, sys, hist
  <2>7. CallOK(p)'
    <3>1. /\ mi[p] \in Missions /\ mi[p] \in planned /\ st[p] \in Steps
          /\ mi[p] = StepMission[st[p]]
      BY <1>13, ConstantsAssumption DEF ConstantsAssumption, LocalOK, CallOK, MatchRule
    <3>2. /\ mi' = mi /\ st' = st /\ planned' = planned /\ pc'[p] = to /\ ctx'[p].rule = r
          /\ to = "step_read" => tgt'[p] \in {"FAILED", "SUCCEEDED"}
      BY <2>2, <2>3, <2>4 DEF CallType, rows
    <3>. QED BY <2>2, <3>1, <3>2 DEF CallOK
  <2>8. ASSUME NEW q \in Procs, q # p PROVE CallOK(q)'
    BY <1>13, <2>8 DEF CallType, LocalOK, CallOK, MatchRule, Goto, CallTransitionStep, rows
  <2>9. DataOK' BY <1>13 DEF LocalOK, DataOK, MatchRule, rows, appr, PlanOf
  <2>10. LocalOK' BY <2>7, <2>8, <2>9 DEF LocalOK
  <2>. QED BY <2>6, <2>10 DEF TypeInv
<1>14. CASE FindPending(p)
  <2>1. CallType'
    BY <1>14 DEF CallType, Goto, CallTransitionStep, FindPending
  <2>2. TypeOK'
    BY <1>14, <2>1 DEF CallType, TypeOK, FindPending, rows, appr, rule, sys, hist
  <2>3. LocalOK'
    BY <1>14, ConstantsAssumption DEF ConstantsAssumption, TypeOK, LocalOK, CallOK, DataOK, FindPending,
           Goto, CallTransitionStep, rows, appr, rule, sys, hist, PlanOf
  <2>. QED BY <2>2, <2>3 DEF TypeInv
<1>15. CASE CreateRequest(p)
  <2>0. Key(st[p]) \in Keys
    BY <1>15, ConstantsAssumption DEF ConstantsAssumption, TypeOK, LocalOK, CallOK, DataOK, CallType,
           Contexts, Keys, CreateRequest
  <2>1. CallType'
    BY <1>15, <2>0 DEF CallType, Goto, CallTransitionStep, CreateRequest
  <2>2. TypeOK'
    BY <1>15, <2>0, <2>1 DEF CallType, TypeOK, CreateRequest, rows, rule, sys, hist
  <2>3. LocalOK'
    BY <1>15, ConstantsAssumption DEF ConstantsAssumption, TypeOK, LocalOK, CallOK, DataOK, CreateRequest,
           Goto, CallTransitionStep, Keys, rows, rule, sys, hist, PlanOf
  <2>. QED BY <2>2, <2>3 DEF TypeInv
<1>16. CASE ConsumeRule(p)
  <2>0. ctx[p].rule \in Rules
    BY <1>16, ConstantsAssumption DEF ConstantsAssumption, TypeOK, LocalOK, CallOK, DataOK, CallType,
           Contexts, Keys, ConsumeRule
  <2>1. CallType'
    BY <1>16, <2>0 DEF CallType, Goto, CallTransitionStep, ConsumeRule
  <2>2. TypeOK'
    BY <1>16, <2>0, <2>1 DEF CallType, TypeOK, ConsumeRule, rows, appr, sys, hist
  <2>3. LocalOK'
    BY <1>16, ConstantsAssumption DEF ConstantsAssumption, TypeOK, LocalOK, CallOK, DataOK, ConsumeRule,
           Goto, CallTransitionStep, rows, appr, sys, hist, PlanOf
  <2>. QED BY <2>2, <2>3 DEF TypeInv
<1>17. CASE ExecuteTool(p)
  <2>0. st[p] \in Steps /\ ctx[p].rule \in Rules \cup {None}
    BY <1>17, ConstantsAssumption DEF ConstantsAssumption, TypeOK, LocalOK, CallOK, DataOK, CallType,
           Contexts, Keys, ExecuteTool
  <2>1. CallType'
    BY <1>17, <2>0 DEF CallType, Goto, CallTransitionStep, ExecuteTool
  <2>2. TypeOK'
    BY <1>17, <2>0, <2>1 DEF CallType, TypeOK, ExecuteTool, rows, appr, rule, sys
  <2>3. LocalOK'
    BY <1>17, ConstantsAssumption DEF ConstantsAssumption, TypeOK, LocalOK, CallOK, DataOK, ExecuteTool,
           Goto, CallTransitionStep, rows, appr, rule, sys, PlanOf
  <2>. QED BY <2>2, <2>3 DEF TypeInv
<1>18. CASE Crash(p)
  <2>1. CallType'
    <3>1. CASE Finish(p) BY <3>1, FinishType
    <3>2. CASE ~Finish(p) BY <1>18, <3>2 DEF CallType, Crash
    <3>. QED BY <3>1, <3>2
  <2>2. TypeOK'
    BY <1>18, <2>1, ConstantsAssumption DEF ConstantsAssumption, CallType, TypeOK, Crash, rows, appr, rule, sys, hist
  <2>3. LocalOK'
    BY <1>18, ConstantsAssumption DEF ConstantsAssumption, TypeOK, LocalOK, CallOK, DataOK, Crash, Finish,
           NoCtx, Contexts, rows, appr, rule, sys, hist, PlanOf
  <2>. QED BY <2>2, <2>3 DEF TypeInv
<1>. QED
  BY <1>1, <1>2, <1>3, <1>4, <1>5, <1>6, <1>7, <1>8, <1>9, <1>10, <1>11, <1>12, <1>13,
         <1>14, <1>15, <1>16, <1>17, <1>18 DEF ProcStep

LEMMA EnvType == TypeInv /\ EnvStep => TypeInv'
<1>. SUFFICES ASSUME TypeInv, EnvStep PROVE TypeInv'
  OBVIOUS
<1>. USE ConstantsAssumption DEF ConstantsAssumption
<1>1. ASSUME NEW d \in Deciders, NEW a \in ApprovalIds, NEW x \in {"APPROVED", "DENIED"}, DecideRead(d, a, x) PROVE TypeInv'
  <2>1. TypeOK'
    BY <1>1 DEF TypeInv, TypeOK, LocalOK, CallOK, DataOK, DecideRead, rows, appr, rule, sys, local, hist
  <2>2. LocalOK'
    BY <1>1 DEF TypeInv, TypeOK, LocalOK, CallOK, DataOK, DecideRead, rows, appr, rule, sys, local, hist, PlanOf
  <2>. QED BY <2>1, <2>2 DEF TypeInv
<1>2. ASSUME NEW d \in Deciders, DecideWrite(d) PROVE TypeInv'
  <2>1. TypeOK'
    BY <1>2 DEF TypeInv, TypeOK, LocalOK, CallOK, DataOK, DecideWrite, rows, rule, sys, local
  <2>2. LocalOK'
    BY <1>2 DEF TypeInv, TypeOK, LocalOK, CallOK, DataOK, DecideWrite, rows, rule, sys, local, PlanOf
  <2>. QED BY <2>1, <2>2 DEF TypeInv
<1>3. ASSUME NEW a \in ApprovalIds, ExpireApproval(a) PROVE TypeInv'
  <2>1. TypeOK'
    BY <1>3 DEF TypeInv, TypeOK, LocalOK, CallOK, DataOK, ExpireApproval, rows, rule, sys, local, hist
  <2>2. LocalOK'
    BY <1>3 DEF TypeInv, TypeOK, LocalOK, CallOK, DataOK, ExpireApproval, rows, rule, sys, local, hist, PlanOf
  <2>. QED BY <2>1, <2>2 DEF TypeInv
<1>4. ASSUME NEW r \in Rules, CreateScopedRule(r) PROVE TypeInv'
  <2>1. TypeOK'
    BY <1>4 DEF TypeInv, TypeOK, LocalOK, CallOK, DataOK, CreateScopedRule, rows, appr, sys, local, hist
  <2>2. LocalOK'
    BY <1>4 DEF TypeInv, TypeOK, LocalOK, CallOK, DataOK, CreateScopedRule, rows, appr, sys, local, hist, PlanOf
  <2>. QED BY <2>1, <2>2 DEF TypeInv
<1>5. ASSUME NEW r \in Rules, ExpireRule(r) PROVE TypeInv'
  <2>1. TypeOK'
    BY <1>5 DEF TypeInv, TypeOK, LocalOK, CallOK, DataOK, ExpireRule, rows, appr, sys, local, hist
  <2>2. LocalOK'
    BY <1>5 DEF TypeInv, TypeOK, LocalOK, CallOK, DataOK, ExpireRule, rows, appr, sys, local, hist, PlanOf
  <2>. QED BY <2>1, <2>2 DEF TypeInv
<1>6. ASSUME NEW m \in OperatorModes, NEW x \in BOOLEAN, SetSystemState(m, x) PROVE TypeInv'
  <2>1. TypeOK'
    BY <1>6 DEF TypeInv, TypeOK, LocalOK, CallOK, DataOK, SetSystemState, rows, appr, rule, local, hist
  <2>2. LocalOK'
    BY <1>6 DEF TypeInv, TypeOK, LocalOK, CallOK, DataOK, SetSystemState, rows, appr, rule, local, hist, PlanOf
  <2>. QED BY <2>1, <2>2 DEF TypeInv
<1>. QED BY CreateType, <1>1, <1>2, <1>3, <1>4, <1>5, <1>6 DEF EnvStep

LEMMA StepType == TypeInv /\ [Next]_vars => TypeInv'
<1>. SUFFICES ASSUME TypeInv, [Next]_vars PROVE TypeInv'
  OBVIOUS
<1>1. CASE UNCHANGED vars
  BY <1>1 DEF TypeInv, TypeOK, LocalOK, CallOK, DataOK, PlanOf, vars, rows, appr, rule, sys, local, hist
<1>. QED BY <1>1, StartType, ProcType, EnvType DEF Next

(* Every variable keeps its type; in particular the statuses written by    *)
(* transition and transition_step are statuses, and the keys recorded by   *)
(* decide are keys of requests that exist.                                 *)
THEOREM TypeCorrect == Spec => []TypeOK
<1>1. Spec => []TypeInv
  BY InitType, StepType, PTL DEF Spec
<1>. QED BY <1>1, PTL DEF TypeInv

-----------------------------------------------------------------------------
(* A call touches no local state but its own.                              *)
Others(p) ==
    \A q \in Procs : q # p =>
        /\ pc'[q] = pc[q] /\ mi'[q] = mi[q] /\ snap'[q] = snap[q]
        /\ st'[q] = st[q] /\ tgt'[q] = tgt[q] /\ ctx'[q] = ctx[q]

LEMMA OnlyItself ==
    ASSUME NEW p \in Procs, CallType, ProcStep(p) \/ Crash(p)
    PROVE  Others(p)
<1>1. CASE GetMission(p) \/ CheckWaiting(p) \/ CheckPlan(p) \/ Crash(p)
  BY <1>1 DEF CallType, Others, GetMission, CheckWaiting, CheckPlan, Crash, Finish, Goto,
              CallTransition
<1>2. CASE SelectStep(p) \/ ClaimStep(p)
  BY <1>2 DEF CallType, Others, SelectStep, ClaimStep, Goto, CallTransition
<1>3. CASE TransitionRead(p) \/ TransitionWrite(p)
  BY <1>3 DEF CallType, Others, TransitionRead, TransitionWrite, Finish, Goto, CallTransition
<1>4. CASE TransitionStepRead(p) \/ TransitionStepWrite(p)
  BY <1>4 DEF CallType, Others, TransitionStepRead, TransitionStepWrite, Finish, Goto,
              CallTransition
<1>5. CASE FindWaitingStep(p) \/ FindPending(p) \/ CreateRequest(p) \/ ConsumeRule(p)
  BY <1>5 DEF CallType, Others, FindWaitingStep, FindPending, CreateRequest, ConsumeRule,
              Finish, Goto, CallTransitionStep
<1>6. CASE ReadSystemState(p) \/ ExecuteTool(p)
  BY <1>6 DEF CallType, Others, ReadSystemState, ExecuteTool, Goto, CallTransitionStep
<1>7. CASE IsApproved(p)
  BY <1>7 DEF CallType, Others, IsApproved, Goto
<1>8. CASE MatchRule(p)
  BY <1>8 DEF CallType, Others, MatchRule, Goto, CallTransitionStep
<1>. QED BY <1>1, <1>2, <1>3, <1>4, <1>5, <1>6, <1>7, <1>8 DEF ProcStep

-----------------------------------------------------------------------------
(* What a process holds when it is about to consume a rule or to execute:  *)
(* the authority its step's risk requires.  A request that authorises now  *)
(* was approved by a human.                                                *)
RequestsGranted ==
    \A a \in ApprovalIds : astate[a] = "APPROVED" /\ alive[a] => akey[a] \in granted

HoldsAuthority(p) ==
    /\ pc[p] \in {"rule", "consume", "execute"} /\ ctx[p].approved => Key(st[p]) \in granted
    /\ pc[p] \in {"consume", "execute"} => DecisionFor(st[p], ctx[p]) = "ALLOW"

AuthInv == RequestsGranted /\ (\A p \in Procs : HoldsAuthority(p)) /\ Authorised

(* A step that leaves requests and history alone and does not enter the    *)
(* labels of HoldsAuthority cannot disturb AuthInv.                        *)
LEMMA QuietAuth ==
    ASSUME AuthInv, UNCHANGED <<astate, akey, alive, execs, granted, charged>>,
           \A q \in Procs :
              \/ pc'[q] \notin {"rule", "consume", "execute"}
              \/ pc'[q] = pc[q] /\ st'[q] = st[q] /\ ctx'[q] = ctx[q]
    PROVE  AuthInv'
<1>1. RequestsGranted' BY DEF AuthInv, RequestsGranted
<1>2. \A p \in Procs : HoldsAuthority(p)'
  BY DEF AuthInv, HoldsAuthority, Key, DecisionFor
<1>3. Authorised' BY DEF AuthInv, Authorised
<1>. QED BY <1>1, <1>2, <1>3 DEF AuthInv

(* An ALLOW on a step carries the authority Authorised asks for.           *)
LEMMA AllowCarries ==
    ASSUME NEW s \in Steps, NEW c \in Contexts, DecisionFor(s, c) = "ALLOW"
    PROVE  LET risk == Risk[StepMission[s]]
           IN  /\ risk # "RED"
               /\ risk = "AMBER" \/ (risk = "GREEN" /\ s \in Mutates) => c.approved
               /\ risk = "BLUE" => c.approved \/ c.rule \in Rules
<1>1. c.approved \in BOOLEAN /\ (c.rule # None => c.rule \in Rules) BY DEF Contexts
<1>. QED BY <1>1 DEF DecisionFor, EvaluateAction

LEMMA ProcAuth ==
    ASSUME NEW p \in Procs, TypeInv, AuthInv, ProcStep(p) \/ Crash(p)
    PROVE  AuthInv'
<1>. CallType /\ LocalOK /\ TypeOK BY DEF TypeInv, TypeOK, CallType
<1>0. Others(p) BY OnlyItself
<1>1. CASE \/ GetMission(p) \/ CheckWaiting(p) \/ SelectStep(p) \/ ClaimStep(p) \/ CheckPlan(p)
  <2>1. /\ UNCHANGED <<astate, akey, alive, execs, granted, charged>>
        /\ pc'[p] \notin {"rule", "consume", "execute"}
    BY <1>1 DEF CallType, GetMission, CheckWaiting, SelectStep, ClaimStep, CheckPlan, Finish,
                Goto, CallTransition, appr, hist
  <2>. QED BY <1>0, <2>1, QuietAuth DEF Others
<1>2. CASE \/ TransitionRead(p) \/ TransitionWrite(p) \/ TransitionStepRead(p)
           \/ TransitionStepWrite(p) \/ FindWaitingStep(p) \/ Crash(p)
  <2>1. /\ UNCHANGED <<astate, akey, alive, execs, granted, charged>>
        /\ pc'[p] \notin {"rule", "consume", "execute"}
    BY <1>2 DEF CallType, TransitionRead, TransitionWrite, TransitionStepRead,
                TransitionStepWrite, FindWaitingStep, Crash, Finish, Goto, CallTransition,
                CallTransitionStep, appr, hist
  <2>. QED BY <1>0, <2>1, QuietAuth DEF Others
<1>3. CASE ReadSystemState(p) \/ FindPending(p)
  <2>1. /\ UNCHANGED <<astate, akey, alive, execs, granted, charged>>
        /\ pc'[p] \notin {"rule", "consume", "execute"}
    BY <1>3 DEF CallType, ReadSystemState, FindPending, Goto, CallTransitionStep, appr, hist
  <2>. QED BY <1>0, <2>1, QuietAuth DEF Others
<1>4. CASE IsApproved(p)
  <2>1. RequestsGranted' /\ Authorised'
    BY <1>4 DEF AuthInv, RequestsGranted, Authorised, IsApproved, appr, hist
  <2>2. HoldsAuthority(p)'
    <3>1. pc'[p] = "rule" /\ st' = st /\ granted' = granted
      BY <1>4 DEF CallType, IsApproved, Goto, hist
    <3>2. CASE \E a \in ApprovalIds : LiveRequest(a, st[p], "APPROVED")
      BY <3>1, <3>2 DEF AuthInv, RequestsGranted, LiveRequest, HoldsAuthority, Key
    <3>3. CASE ~\E a \in ApprovalIds : LiveRequest(a, st[p], "APPROVED")
      <4>. DEFINE b == \E a \in ApprovalIds : LiveRequest(a, st[p], "APPROVED")
      <4>1. ctx' = [ctx EXCEPT ![p] = [ctx[p] EXCEPT !.approved = b]]
        BY <1>4 DEF IsApproved, CallType
      <4>2. b = FALSE BY <3>3
      <4>3. ctx[p] \in Contexts BY DEF CallType
      <4>. HIDE DEF b
      <4>4. ~ctx'[p].approved BY <4>1, <4>2, <4>3 DEF CallType, Contexts
      <4>. QED BY <3>1, <4>4 DEF HoldsAuthority
    <3>. QED BY <3>2, <3>3
  <2>3. \A q \in Procs : q # p => HoldsAuthority(q)'
    BY <1>0, <1>4 DEF AuthInv, HoldsAuthority, Others, Key, DecisionFor, IsApproved, hist
  <2>. QED BY <2>1, <2>2, <2>3 DEF AuthInv
<1>5. CASE MatchRule(p)
  <2>1. RequestsGranted' /\ Authorised'
    BY <1>5 DEF AuthInv, RequestsGranted, Authorised, MatchRule, appr, hist
  <2>2. HoldsAuthority(p)'
    <3>1. PICK r : /\ ctx' = [ctx EXCEPT ![p] = [ctx[p] EXCEPT !.rule = r]]
                   /\ pc'[p] \in {"consume", "execute"} =>
                        DecisionFor(st[p], [ctx[p] EXCEPT !.rule = r]) = "ALLOW"
                   /\ pc'[p] # "rule"
      BY <1>5 DEF CallType, MatchRule, Goto, CallTransitionStep
    <3>2. ctx[p] \in Contexts BY DEF CallType
    <3>3. ctx'[p] = [ctx[p] EXCEPT !.rule = r] BY <3>1 DEF CallType
    <3>4. ctx'[p].approved = ctx[p].approved BY <3>2, <3>3 DEF Contexts
    <3>5. st' = st /\ granted' = granted /\ pc[p] = "rule" BY <1>5 DEF MatchRule, hist
    <3>. QED BY <3>1, <3>3, <3>4, <3>5 DEF AuthInv, HoldsAuthority, Key, DecisionFor
  <2>3. \A q \in Procs : q # p => HoldsAuthority(q)'
    BY <1>0, <1>5 DEF AuthInv, HoldsAuthority, Others, Key, DecisionFor, MatchRule, hist
  <2>. QED BY <2>1, <2>2, <2>3 DEF AuthInv
<1>6. CASE CreateRequest(p)
  <2>1. RequestsGranted'
    BY <1>6 DEF AuthInv, TypeOK, RequestsGranted, CreateRequest, hist
  <2>2. Authorised'
    BY <1>6 DEF AuthInv, Authorised, CreateRequest, hist
  <2>3. \A q \in Procs : HoldsAuthority(q)'
    BY <1>0, <1>6 DEF AuthInv, HoldsAuthority, Others, Key, DecisionFor, CreateRequest, hist,
                      CallType, CallTransitionStep, Goto
  <2>. QED BY <2>1, <2>2, <2>3 DEF AuthInv
<1>7. CASE ConsumeRule(p)
  <2>1. RequestsGranted' /\ Authorised'
    BY <1>7 DEF AuthInv, RequestsGranted, Authorised, ConsumeRule, appr, hist
  <2>2. \A q \in Procs : HoldsAuthority(q)'
    BY <1>0, <1>7 DEF AuthInv, HoldsAuthority, Others, Key, DecisionFor, ConsumeRule, hist,
                      CallType, CallTransitionStep, Goto
  <2>. QED BY <2>1, <2>2 DEF AuthInv
<1>8. CASE ExecuteTool(p)
  <2>0. st[p] \in Steps /\ ctx[p] \in Contexts BY <1>8 DEF ExecuteTool, LocalOK, CallOK, CallType
  <2>1. RequestsGranted'
    BY <1>8 DEF AuthInv, RequestsGranted, ExecuteTool, appr
  <2>2. \A q \in Procs : HoldsAuthority(q)'
    BY <1>0, <1>8 DEF AuthInv, HoldsAuthority, Others, Key, DecisionFor, ExecuteTool, CallType,
                      CallTransitionStep, Goto
  <2>3. /\ DecisionFor(st[p], ctx[p]) = "ALLOW"
        /\ ctx[p].approved => Key(st[p]) \in granted
    BY <1>8 DEF AuthInv, HoldsAuthority, ExecuteTool
  <2>4. st[p] \in Mutates /\ ctx[p].rule \in Rules => <<st[p], ctx[p].rule>> \in charged'
    BY <1>8, ConstantsAssumption DEF ExecuteTool, ConstantsAssumption
  <2>5. \A s \in Steps : execs'[s] > 0 => s = st[p] \/ execs[s] > 0
    BY <1>8 DEF ExecuteTool, TypeOK
  <2>6. charged \subseteq charged' /\ granted' = granted BY <1>8 DEF ExecuteTool
  <2>7. Authorised'
    <3>1. SUFFICES ASSUME NEW s \in Steps, execs'[s] > 0
                   PROVE LET risk == Risk[StepMission[s]]
                         IN  /\ risk # "RED"
                             /\ risk = "AMBER" \/ (risk = "GREEN" /\ s \in Mutates) =>
                                   Key(s) \in granted
                             /\ risk = "BLUE" /\ s \in Mutates =>
                                   Key(s) \in granted \/ \E r \in Rules : <<s, r>> \in charged'
      BY <2>6 DEF Authorised, Key
    <3>2. CASE s = st[p] BY <2>0, <2>3, <2>4, <3>2, AllowCarries
    <3>3. CASE s # st[p] BY <2>5, <2>6, <3>1, <3>3 DEF AuthInv, Authorised
    <3>. QED BY <3>2, <3>3
  <2>. QED BY <2>1, <2>2, <2>7 DEF AuthInv
<1>. QED BY <1>1, <1>2, <1>3, <1>4, <1>5, <1>6, <1>7, <1>8 DEF ProcStep

LEMMA EnvAuth == TypeInv /\ AuthInv /\ EnvStep => AuthInv'
<1>. SUFFICES ASSUME TypeInv, AuthInv, EnvStep PROVE AuthInv'
  OBVIOUS
<1>1. ASSUME NEW d \in Deciders, DecideWrite(d) PROVE AuthInv'
  <2>1. RequestsGranted'
    BY <1>1 DEF TypeInv, TypeOK, AuthInv, RequestsGranted, DecideWrite
  <2>2. granted \subseteq granted' /\ UNCHANGED <<pc, st, ctx, execs, charged>>
    BY <1>1 DEF DecideWrite, local
  <2>3. \A p \in Procs : HoldsAuthority(p)'
    BY <2>2 DEF AuthInv, HoldsAuthority, Key, DecisionFor
  <2>4. Authorised' BY <2>2 DEF AuthInv, Authorised, Key
  <2>. QED BY <2>1, <2>3, <2>4 DEF AuthInv
<1>2. ASSUME NEW a \in ApprovalIds, ExpireApproval(a) PROVE AuthInv'
  <2>1. RequestsGranted'
    BY <1>2 DEF TypeInv, TypeOK, AuthInv, RequestsGranted, ExpireApproval, hist
  <2>2. UNCHANGED <<pc, st, ctx, execs, granted, charged>>
    BY <1>2 DEF ExpireApproval, local, hist
  <2>3. (\A p \in Procs : HoldsAuthority(p)') /\ Authorised'
    BY <2>2 DEF AuthInv, HoldsAuthority, Key, DecisionFor, Authorised
  <2>. QED BY <2>1, <2>3 DEF AuthInv
<1>3. CASE UNCHANGED <<appr, local, hist>>
  BY <1>3, QuietAuth DEF appr, local, hist
<1>. QED
  BY <1>1, <1>2, <1>3 DEF EnvStep, CreateMission, CreatePlan, DepartmentFails, DecideRead,
                          CreateScopedRule, ExpireRule, SetSystemState

LEMMA StepAuth == TypeInv /\ AuthInv /\ [Next]_vars => AuthInv'
<1>. SUFFICES ASSUME TypeInv, AuthInv, [Next]_vars PROVE AuthInv'
  OBVIOUS
<1>1. CASE UNCHANGED vars
  BY <1>1, QuietAuth DEF vars, appr, local, hist
<1>2. ASSUME NEW p \in Procs, NEW m \in Missions, RunOnce(p, m) \/ ResumeApproved(p, m)
      PROVE  AuthInv'
  BY <1>2, QuietAuth DEF TypeInv, TypeOK, RunOnce, ResumeApproved, Goto, appr, hist
<1>. QED BY <1>1, <1>2, ProcAuth, EnvAuth DEF Next

(* Nothing is executed without the authority its risk requires, for every  *)
(* number of workers, resumes, rules, approvals and crashes, with two      *)
(* resumes of one step and two decisions of one request included: the      *)
(* gateway's reads may be stale when the adapter is called, but what they  *)
(* found was granted by a human or charged to a rule.                      *)
THEOREM AlwaysAuthorised == Spec => []Authorised
<1>1. Init => AuthInv
  BY DEF Init, AuthInv, RequestsGranted, HoldsAuthority, Authorised
<1>2. Spec => [](TypeInv /\ AuthInv)
  BY InitType, StepType, <1>1, StepAuth, PTL DEF Spec
<1>. QED BY <1>2, PTL DEF AuthInv

-----------------------------------------------------------------------------
(* The uses of a rule.  Between consume_rule and adapter.execute a use is  *)
(* in the hands of a call: it has been counted and not yet been spent.     *)
ChargedTo(r) == {s \in Steps : <<s, r>> \in charged}
Holders(r) == {p \in Procs : pc[p] = "execute" /\ st[p] \in Mutates /\ ctx[p].rule = r}

(* The counter of a rule covers what was spent and what is held, and stays *)
(* within the limit.  The sets are finite because they grow one by one.    *)
BudgetOf(r) ==
    /\ IsFiniteSet(ChargedTo(r)) /\ IsFiniteSet(Holders(r))
    /\ Cardinality(ChargedTo(r)) + Cardinality(Holders(r)) <= rcount[r]
    /\ r \notin UnlimitedRules => rcount[r] <= RuleMax[r]

BudgetInv == \A r \in Rules : BudgetOf(r)

(* A set that takes in one element grows by at most one.                   *)
LEMMA AddOne ==
    ASSUME NEW S, NEW x, IsFiniteSet(S)
    PROVE  /\ IsFiniteSet(S \cup {x}) /\ Cardinality(S \cup {x}) <= Cardinality(S) + 1
           /\ Cardinality(S \cup {x}) \in Nat /\ Cardinality(S) \in Nat
<1>1. IsFiniteSet(S \cup {x}) BY FS_AddElement
<1>2. Cardinality(S \cup {x}) = IF x \in S THEN Cardinality(S) ELSE Cardinality(S) + 1
  BY FS_AddElement
<1>3. Cardinality(S) \in Nat /\ Cardinality(S \cup {x}) \in Nat BY <1>1, FS_CardinalityType
<1>. QED BY <1>1, <1>2, <1>3

(* A step that charges nothing and hands no use to a call keeps BudgetInv. *)
LEMMA QuietBudget ==
    ASSUME BudgetInv, UNCHANGED <<rcount, charged>>,
           \A r \in Rules : Holders(r)' \subseteq Holders(r), rcount \in [Rules -> Nat]
    PROVE  BudgetInv'
<1>. SUFFICES ASSUME NEW r \in Rules PROVE BudgetOf(r)' BY DEF BudgetInv
<1>1. BudgetOf(r) /\ ChargedTo(r)' = ChargedTo(r) BY DEF BudgetInv, ChargedTo
<1>2. /\ IsFiniteSet(Holders(r)') /\ Cardinality(Holders(r)') <= Cardinality(Holders(r))
      /\ Cardinality(Holders(r)') \in Nat /\ Cardinality(Holders(r)) \in Nat
      /\ Cardinality(ChargedTo(r)) \in Nat
  BY <1>1, FS_Subset, FS_CardinalityType DEF BudgetOf
<1>3. Cardinality(ChargedTo(r)') + Cardinality(Holders(r)') <= rcount'[r]
  BY <1>1, <1>2 DEF BudgetOf
<1>. QED BY <1>1, <1>2, <1>3 DEF BudgetOf

LEMMA ProcBudget ==
    ASSUME NEW p \in Procs, TypeInv, BudgetInv, ProcStep(p) \/ Crash(p)
    PROVE  BudgetInv'
<1>. CallType /\ CallOK(p) /\ TypeOK BY DEF TypeInv, TypeOK, LocalOK, CallType
<1>0. Others(p) BY OnlyItself
<1>1. ASSUME UNCHANGED <<rcount, charged>>,
             pc'[p] # "execute" \/ st'[p] \notin Mutates \/ ctx'[p].rule \notin Rules
      PROVE  BudgetInv'
  <2>1. \A r \in Rules : Holders(r)' \subseteq Holders(r) BY <1>0, <1>1 DEF Holders, Others
  <2>. QED BY <1>1, <2>1, QuietBudget DEF TypeOK
<1>2. CASE GetMission(p) \/ CheckWaiting(p) \/ SelectStep(p) \/ ClaimStep(p) \/ CheckPlan(p)
  <2>1. UNCHANGED <<rcount, charged>> /\ pc'[p] # "execute"
    BY <1>2 DEF CallType, GetMission, CheckWaiting, SelectStep, ClaimStep, CheckPlan, Finish,
                Goto, CallTransition, rule, hist
  <2>. QED BY <1>1, <2>1
<1>3. CASE TransitionRead(p) \/ TransitionWrite(p) \/ TransitionStepRead(p)
           \/ TransitionStepWrite(p) \/ FindWaitingStep(p) \/ Crash(p)
  <2>1. UNCHANGED <<rcount, charged>> /\ pc'[p] # "execute"
    BY <1>3 DEF CallType, TransitionRead, TransitionWrite, TransitionStepRead,
                TransitionStepWrite, FindWaitingStep, Crash, Finish, Goto, CallTransition,
                CallTransitionStep, rule, hist
  <2>. QED BY <1>1, <2>1
<1>4. CASE ReadSystemState(p) \/ FindPending(p) \/ CreateRequest(p)
  <2>1. UNCHANGED <<rcount, charged>> /\ pc'[p] # "execute"
    BY <1>4 DEF CallType, ReadSystemState, FindPending, CreateRequest, Goto,
                CallTransitionStep, rule, hist
  <2>. QED BY <1>1, <2>1
<1>5. CASE IsApproved(p)
  <2>1. UNCHANGED <<rcount, charged>> /\ pc'[p] # "execute"
    BY <1>5 DEF CallType, IsApproved, Goto, rule, hist
  <2>. QED BY <1>1, <2>1
<1>6. CASE MatchRule(p)
  <2>1. UNCHANGED <<rcount, charged, st>> BY <1>6 DEF MatchRule, rule, hist
  <2>2. pc'[p] = "execute" => st[p] \notin Mutates \/ ctx'[p].rule = None
    <3>1. PICK r \in IF MatchingRules(st[p]) = {} THEN {None} ELSE MatchingRules(st[p]) :
            /\ ctx' = [ctx EXCEPT ![p] = [ctx[p] EXCEPT !.rule = r]]
            /\ \/ CallTransitionStep(p, "FAILED") \/ Goto(p, "pending")
               \/ CallTransitionStep(p, "SUCCEEDED")
               \/ Goto(p, IF st[p] \in Mutates /\ r # None THEN "consume" ELSE "execute")
      BY <1>6 DEF MatchRule
    <3>2. ctx'[p].rule = r BY <3>1 DEF CallType, Contexts
    <3>. QED BY <3>1, <3>2 DEF CallType, Goto, CallTransitionStep
  <2>. QED BY <1>1, <2>1, <2>2, ConstantsAssumption DEF ConstantsAssumption
<1>7. CASE ConsumeRule(p)
  <2>. DEFINE c == ctx[p].rule
  <2>0. /\ c \in Rules /\ UNCHANGED <<charged, st, ctx>>
        /\ \/ rcount' = rcount /\ pc'[p] # "execute"
           \/ HasRoom(c) /\ rcount' = [rcount EXCEPT ![c] = @ + 1]
    BY <1>7 DEF CallType, CallOK, ConsumeRule, Goto, CallTransitionStep, hist
  <2>1. CASE rcount' = rcount /\ pc'[p] # "execute" BY <1>1, <2>0, <2>1
  <2>2. CASE HasRoom(c) /\ rcount' = [rcount EXCEPT ![c] = @ + 1]
    <3>. SUFFICES ASSUME NEW r \in Rules PROVE BudgetOf(r)' BY DEF BudgetInv
    <3>1. BudgetOf(r) /\ ChargedTo(r)' = ChargedTo(r) BY <2>0 DEF BudgetInv, ChargedTo
    <3>2. CASE r # c
      <4>1. Holders(r)' \subseteq Holders(r) BY <1>0, <2>0, <3>2 DEF Holders, Others
      <4>2. rcount'[r] = rcount[r] /\ rcount[r] \in Nat BY <2>0, <2>2, <3>2 DEF TypeOK
      <4>3. /\ IsFiniteSet(Holders(r)') /\ Cardinality(Holders(r)') <= Cardinality(Holders(r))
            /\ Cardinality(Holders(r)') \in Nat /\ Cardinality(Holders(r)) \in Nat
            /\ Cardinality(ChargedTo(r)) \in Nat
        BY <3>1, <4>1, FS_Subset, FS_CardinalityType DEF BudgetOf
      <4>. QED BY <3>1, <4>2, <4>3 DEF BudgetOf
    <3>3. CASE r = c
      <4>1. Holders(r)' \subseteq Holders(r) \cup {p} BY <1>0 DEF Holders, Others
      <4>2. /\ IsFiniteSet(Holders(r) \cup {p})
            /\ Cardinality(Holders(r) \cup {p}) <= Cardinality(Holders(r)) + 1
            /\ Cardinality(Holders(r)) \in Nat /\ Cardinality(ChargedTo(r)) \in Nat
        BY <3>1, AddOne, FS_CardinalityType DEF BudgetOf
      <4>3. /\ IsFiniteSet(Holders(r)')
            /\ Cardinality(Holders(r)') <= Cardinality(Holders(r) \cup {p})
            /\ Cardinality(Holders(r)') \in Nat /\ Cardinality(Holders(r) \cup {p}) \in Nat
        BY <4>1, <4>2, FS_Subset, FS_CardinalityType
      <4>4. rcount'[r] = rcount[r] + 1 /\ rcount[r] \in Nat BY <2>2, <3>3 DEF TypeOK
      <4>5. r \notin UnlimitedRules => rcount[r] < RuleMax[r] BY <2>2, <3>3 DEF HasRoom
      <4>6. RuleMax[r] \in Nat BY ConstantsAssumption DEF ConstantsAssumption
      <4>. QED BY <3>1, <4>2, <4>3, <4>4, <4>5, <4>6 DEF BudgetOf
    <3>. QED BY <3>2, <3>3
  <2>. QED BY <2>0, <2>1, <2>2
<1>8. CASE ExecuteTool(p)
  <2>0. /\ pc[p] = "execute" /\ pc'[p] = "step_read" /\ UNCHANGED <<rcount, st, ctx>>
        /\ charged' = IF st[p] \in Mutates /\ ctx[p].rule # None
                      THEN charged \cup {<<st[p], ctx[p].rule>>} ELSE charged
    BY <1>8 DEF CallType, ExecuteTool, CallTransitionStep, Goto, rule
  <2>1. CASE charged' = charged BY <1>1, <2>0, <2>1
  <2>2. CASE charged' # charged
    <3>0. st[p] \in Mutates /\ charged' = charged \cup {<<st[p], ctx[p].rule>>} BY <2>0, <2>2
    <3>. SUFFICES ASSUME NEW r \in Rules PROVE BudgetOf(r)' BY DEF BudgetInv
    <3>1. BudgetOf(r) BY DEF BudgetInv
    <3>2. Holders(r)' = Holders(r) \ {p} BY <1>0, <2>0 DEF Holders, Others
    <3>3. CASE ctx[p].rule # r
      <4>1. ChargedTo(r)' = ChargedTo(r) BY <3>0, <3>3 DEF ChargedTo
      <4>2. Holders(r)' = Holders(r) BY <3>2, <3>3 DEF Holders
      <4>. QED BY <2>0, <3>1, <4>1, <4>2 DEF BudgetOf
    <3>4. CASE ctx[p].rule = r
      <4>1. ChargedTo(r)' \subseteq ChargedTo(r) \cup {st[p]} BY <3>0, <3>4 DEF ChargedTo
      <4>2. p \in Holders(r) BY <2>0, <3>0, <3>4 DEF Holders
      <4>3. /\ IsFiniteSet(Holders(r)')
            /\ Cardinality(Holders(r)') = Cardinality(Holders(r)) - 1
            /\ Cardinality(Holders(r)) \in Nat /\ Cardinality(ChargedTo(r)) \in Nat
        BY <3>1, <3>2, <4>2, FS_RemoveElement, FS_CardinalityType DEF BudgetOf
      <4>4. /\ IsFiniteSet(ChargedTo(r) \cup {st[p]})
            /\ Cardinality(ChargedTo(r) \cup {st[p]}) <= Cardinality(ChargedTo(r)) + 1
        BY <3>1, AddOne DEF BudgetOf
      <4>5. /\ IsFiniteSet(ChargedTo(r)')
            /\ Cardinality(ChargedTo(r)') <= Cardinality(ChargedTo(r) \cup {st[p]})
            /\ Cardinality(ChargedTo(r)') \in Nat
            /\ Cardinality(ChargedTo(r) \cup {st[p]}) \in Nat
        BY <4>1, <4>4, FS_Subset, FS_CardinalityType
      <4>6. rcount[r] \in Nat BY DEF TypeOK
      <4>. QED BY <2>0, <3>1, <4>3, <4>4, <4>5, <4>6 DEF BudgetOf
    <3>. QED BY <3>3, <3>4
  <2>. QED BY <2>1, <2>2
<1>. QED BY <1>2, <1>3, <1>4, <1>5, <1>6, <1>7, <1>8 DEF ProcStep

LEMMA StepBudget == TypeInv /\ BudgetInv /\ [Next]_vars => BudgetInv'
<1>. SUFFICES ASSUME TypeInv, BudgetInv, [Next]_vars PROVE BudgetInv'
  OBVIOUS
<1>. rcount \in [Rules -> Nat] /\ TypeOK BY DEF TypeInv, TypeOK
<1>1. CASE UNCHANGED <<rcount, charged, local>>
  <2>1. \A r \in Rules : Holders(r)' \subseteq Holders(r) BY <1>1 DEF Holders, local
  <2>. QED BY <1>1, <2>1, QuietBudget
<1>2. CASE EnvStep \/ UNCHANGED vars
  BY <1>1, <1>2 DEF EnvStep, CreateMission, CreatePlan, DepartmentFails, DecideRead, DecideWrite,
                    ExpireApproval, CreateScopedRule, ExpireRule, SetSystemState, vars, rule,
                    hist
<1>3. ASSUME NEW p \in Procs, NEW m \in Missions, RunOnce(p, m) \/ ResumeApproved(p, m)
      PROVE  BudgetInv'
  <2>1. UNCHANGED <<rcount, charged>> /\ \A r \in Rules : Holders(r)' \subseteq Holders(r)
    BY <1>3 DEF TypeOK, RunOnce, ResumeApproved, Goto, Holders, rule, hist
  <2>. QED BY <2>1, QuietBudget
<1>4. ASSUME NEW p \in Procs, ProcStep(p) \/ Crash(p) PROVE BudgetInv'
  BY <1>4, ProcBudget
<1>. QED BY <1>2, <1>3, <1>4 DEF Next

LEMMA InitBudget == Init => BudgetInv
<1>. SUFFICES ASSUME Init, NEW r \in Rules PROVE BudgetOf(r) BY DEF BudgetInv
<1>1. ChargedTo(r) = {} /\ Holders(r) = {} BY DEF Init, ChargedTo, Holders
<1>2. rcount[r] = 0 /\ RuleMax[r] \in Nat
  BY ConstantsAssumption DEF ConstantsAssumption, Init
<1>. QED BY <1>1, <1>2, FS_EmptySet DEF BudgetOf

(* A scoped rule never authorises more executions than its limit, for any  *)
(* number of processes at its last use: consume_rule tests and counts in   *)
(* one statement, and a crash in between wastes a use but never adds one.  *)
THEOREM RuleWithinBudget == Spec => []RuleBudget
<1>1. TypeInv /\ BudgetInv => RuleBudget
  <2>. SUFFICES ASSUME TypeInv, BudgetInv, NEW r \in Rules, r \notin UnlimitedRules
                PROVE  Cardinality(ChargedTo(r)) <= RuleMax[r]
    BY DEF RuleBudget, ChargedTo
  <2>1. BudgetOf(r) /\ rcount[r] \in Nat /\ RuleMax[r] \in Nat
    BY ConstantsAssumption DEF ConstantsAssumption, BudgetInv, TypeInv, TypeOK
  <2>2. Cardinality(ChargedTo(r)) \in Nat /\ Cardinality(Holders(r)) \in Nat
    BY <2>1, FS_CardinalityType DEF BudgetOf
  <2>. QED BY <2>1, <2>2 DEF BudgetOf
<1>2. Spec => [](TypeInv /\ BudgetInv)
  BY InitType, StepType, InitBudget, StepBudget, PTL DEF Spec
<1>. QED BY <1>1, <1>2, PTL
=============================================================================
