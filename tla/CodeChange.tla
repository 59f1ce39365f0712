------------------------------ MODULE CodeChange ------------------------------
(***************************************************************************)
(* Preparation of a code change, from the queue to the human.              *)
(*                                                                         *)
(* A code-change mission has no plan.  A worker claims it under a lease    *)
(* (claim_oldest_code_change) and runs process_queued_candidate: a         *)
(* developer model builds a candidate, a QA model reviews it, and a passed *)
(* review creates an approval request and suspends the mission.  The       *)
(* delivery row of the mission holds the candidate and its stage.  A       *)
(* worker that dies keeps its lease until it expires; then another one     *)
(* claims the mission and continues from the delivery row.                 *)
(*                                                                         *)
(* One action is one transaction, or one half of a transaction that reads  *)
(* rows, tests them and writes them by primary key.                        *)
(***************************************************************************)
EXTENDS Integers, FiniteSets, MissionStates

CONSTANTS
    Workers,           \* CodeChangeQueueRunner instances
    Appliers,          \* callers of apply_human_decision
    Missions,          \* code-change missions, numbered by created_at
    LeaseOutlivesWork, \* no lease expires while its holder is at work
    MaxAttempts,       \* bound: attempt_count of a mission
    MaxApprovals,      \* bound: rows of approval_requests
    MaxCrashes,        \* bound: worker crashes
    Gone,              \* the worker id of a process that died
    None

(* A lease is held by a worker, by a dead one or by nobody.                *)
ASSUME CodeChangeAssumption ==
    /\ Missions \subseteq Nat
    /\ LeaseOutlivesWork \in BOOLEAN
    /\ MaxAttempts \in Nat /\ MaxApprovals \in Nat /\ MaxCrashes \in Nat
    /\ Gone \notin Workers
    /\ None \notin Workers \cup Missions \cup Nat \cup {Gone, "PASSED", "FAILED"}
    /\ None \notin {"QA", "DEVELOPER", "WAITING_APPROVAL", "COMPLETED"}

ApprovalIds == 1..MaxApprovals
Stages == {"DEVELOPER", "QA", "WAITING_APPROVAL"}
QAResults == {"PASSED", "FAILED"}

VARIABLES
    mstatus,              \* missions.status, ABSENT before queue_candidate
    lowner, lease,        \* lease_owner; lease_expires_at: none, live or expired
    attempts,             \* attempt_count
    stage, cref, qa, aref,\* the delivery row; stage None: there is none
    astate, akey, alive,  \* approval_requests: state, (mission, change), unexpired
    pc, mi, att, seen, res, areq, tgt,  \* local state of a worker's call
    ap,                   \* a call of apply_human_decision before its commit
    crashes

mission  == <<mstatus, lowner, lease, attempts>>
delivery == <<stage, cref, qa, aref>>
appr     == <<astate, akey, alive>>
local    == <<pc, mi, att, seen, res, areq, tgt>>
vars     == <<mission, delivery, appr, local, ap, crashes>>

Labels == {"idle", "get", "renew", "delivery", "renew_dev", "develop", "submit_read",
           "submit_write", "renew_qa", "review", "qa_read", "qa_create", "qa_write",
           "result", "current", "transition_read", "transition_write", "handler", "release"}

Init ==
    /\ mstatus = [m \in Missions |-> "ABSENT"]
    /\ lowner = [m \in Missions |-> None]
    /\ lease = [m \in Missions |-> "none"]
    /\ attempts = [m \in Missions |-> 0]
    /\ stage = [m \in Missions |-> None]
    /\ cref = [m \in Missions |-> None]
    /\ qa = [m \in Missions |-> None]
    /\ aref = [m \in Missions |-> None]
    /\ astate = [a \in ApprovalIds |-> "ABSENT"]
    /\ akey = [a \in ApprovalIds |-> None]
    /\ alive = [a \in ApprovalIds |-> FALSE]
    /\ pc = [w \in Workers |-> "idle"]
    /\ mi = [w \in Workers |-> None]
    /\ att = [w \in Workers |-> None]
    /\ seen = [w \in Workers |-> None]
    /\ res = [w \in Workers |-> None]
    /\ areq = [w \in Workers |-> None]
    /\ tgt = [w \in Workers |-> None]
    /\ ap = [h \in Appliers |-> None]
    /\ crashes = 0

-----------------------------------------------------------------------------
Goto(w, label) == pc' = [pc EXCEPT ![w] = label]

(* The call ends: it returned, or its exception was caught by the loop.    *)
Finish(w) ==
    /\ pc' = [pc EXCEPT ![w] = "idle"]
    /\ mi' = [mi EXCEPT ![w] = None]
    /\ att' = [att EXCEPT ![w] = None]
    /\ seen' = [seen EXCEPT ![w] = None]
    /\ res' = [res EXCEPT ![w] = None]
    /\ areq' = [areq EXCEPT ![w] = None]
    /\ tgt' = [tgt EXCEPT ![w] = None]

QueueCandidate(m) ==
    /\ mstatus[m] = "ABSENT"
    /\ \A n \in Missions : n < m => mstatus[n] # "ABSENT"
    /\ mstatus' = [mstatus EXCEPT ![m] = "QUEUED"]
    /\ UNCHANGED <<lowner, lease, attempts, delivery, appr, local, ap, crashes>>

-----------------------------------------------------------------------------
(* Mutant: a running mission is claimable whatever its lease.              *)
ClaimableWhenRunning(m) == mstatus[m] \in {"QUEUED", "RUNNING"}

(* Mutant: only queued missions are claimed.                               *)
ClaimableWhenQueued(m) == mstatus[m] = "QUEUED"

Claimable(m) == mstatus[m] = "QUEUED" \/ (mstatus[m] = "RUNNING" /\ lease[m] = "expired")

(* claim_oldest_code_change: a conditional UPDATE of the oldest claimable  *)
(* mission.                                                                *)
Claim(w, m) ==
    /\ pc[w] = "idle"
    /\ Claimable(m)
    /\ \A n \in Missions : n < m => ~Claimable(n)
    /\ attempts[m] < MaxAttempts
    /\ mstatus' = [mstatus EXCEPT ![m] = "RUNNING"]
    /\ lowner' = [lowner EXCEPT ![m] = w]
    /\ lease' = [lease EXCEPT ![m] = "live"]
    /\ attempts' = [attempts EXCEPT ![m] = @ + 1]
    /\ mi' = [mi EXCEPT ![w] = m]
    /\ att' = [att EXCEPT ![w] = attempts[m] + 1]
    /\ Goto(w, "get")
    /\ UNCHANGED <<delivery, appr, seen, res, areq, tgt, ap, crashes>>

(* process_queued_candidate up to its try block: another status, or        *)
(* another owner, ends the call without touching the mission.              *)
GetMission(w) ==
    /\ pc[w] = "get"
    /\ IF mstatus[mi[w]] = "RUNNING" /\ lowner[mi[w]] = w
       THEN Goto(w, "renew") /\ UNCHANGED <<mi, att, seen, res, areq, tgt>>
       ELSE Finish(w)
    /\ UNCHANGED <<mission, delivery, appr, ap, crashes>>

Holds(w, m) == mstatus[m] = "RUNNING" /\ lowner[m] = w /\ lease[m] = "live"

(* renew_code_change_lease, a conditional UPDATE: before the try block a   *)
(* lost lease ends the call, inside it the handler runs.                   *)
RenewLease(w) ==
    /\ pc[w] \in {"renew", "renew_dev", "renew_qa"}
    /\ IF Holds(w, mi[w])
       THEN /\ Goto(w, IF pc[w] = "renew" THEN "delivery"
                       ELSE IF pc[w] = "renew_dev" THEN "develop" ELSE "review")
            /\ UNCHANGED <<mi, att, seen, res, areq, tgt>>
       ELSE IF pc[w] = "renew"
       THEN Finish(w)
       ELSE Goto(w, "handler") /\ UNCHANGED <<mi, att, seen, res, areq, tgt>>
    /\ UNCHANGED <<mission, delivery, appr, ap, crashes>>

(* _run_existing_mission: continue from the delivery row, before and after *)
(* run_developer.                                                          *)
GetDelivery(w) ==
    /\ pc[w] = "delivery"
    /\ Goto(w, IF stage[mi[w]] = None THEN "renew_dev"
               ELSE IF stage[mi[w]] = "QA" /\ qa[mi[w]] = None THEN "renew_qa"
               ELSE "result")
    /\ seen' = [seen EXCEPT ![w] = cref[mi[w]]]
    /\ UNCHANGED <<mission, delivery, appr, mi, att, res, areq, tgt, ap, crashes>>

(* The developer model, the sandbox and the verifier deliver a candidate   *)
(* or raise.                                                               *)
RunDeveloper(w) ==
    /\ pc[w] = "develop"
    /\ Goto(w, "submit_read") \/ Goto(w, "handler")
    /\ UNCHANGED <<mission, delivery, appr, mi, att, seen, res, areq, tgt, ap, crashes>>

(* submit_developer_proposal: its checks (a claimed mission is never       *)
(* QUEUED again), then the INSERT, which the unique key may refuse.        *)
SubmitProposalRead(w) ==
    /\ pc[w] = "submit_read"
    /\ Goto(w, IF stage[mi[w]] = None /\ mstatus[mi[w]] = "RUNNING"
               THEN "submit_write" ELSE "handler")
    /\ UNCHANGED <<mission, delivery, appr, mi, att, seen, res, areq, tgt, ap, crashes>>

(* Mutant: the mission's key is not unique, the last proposal counts.      *)
SubmitProposalReplaces(w) ==
    /\ pc[w] = "submit_write"
    /\ stage' = [stage EXCEPT ![mi[w]] = "QA"]
    /\ cref' = [cref EXCEPT ![mi[w]] = att[w]]
    /\ Goto(w, "delivery")
    /\ UNCHANGED <<mission, qa, aref, appr, mi, att, seen, res, areq, tgt, ap, crashes>>

SubmitProposalWrite(w) ==
    /\ pc[w] = "submit_write"
    /\ IF stage[mi[w]] = None
       THEN /\ stage' = [stage EXCEPT ![mi[w]] = "QA"]
            /\ cref' = [cref EXCEPT ![mi[w]] = att[w]]
            /\ Goto(w, "delivery")
       ELSE /\ Goto(w, "handler")
            /\ UNCHANGED <<stage, cref>>
    /\ UNCHANGED <<mission, qa, aref, appr, mi, att, seen, res, areq, tgt, ap, crashes>>

(* The QA model answers or raises.                                         *)
RunQA(w) ==
    /\ pc[w] = "review"
    /\ \/ /\ \E x \in QAResults : res' = [res EXCEPT ![w] = x]
          /\ Goto(w, "qa_read")
       \/ Goto(w, "handler") /\ UNCHANGED res
    /\ UNCHANGED <<mission, delivery, appr, mi, att, seen, areq, tgt, ap, crashes>>

(* record_qa_result: the checks, the approval request in a transaction of  *)
(* its own, then the delivery and the mission in one commit.               *)
RecordQARead(w) ==
    /\ pc[w] = "qa_read"
    /\ LET m == mi[w]
       IN  Goto(w, IF stage[m] # "QA" \/ cref[m] # seen[w] THEN "handler"
                   ELSE IF res[w] = "FAILED" THEN "qa_write"
                   ELSE IF mstatus[m] = "RUNNING" THEN "qa_create" ELSE "handler")
    /\ UNCHANGED <<mission, delivery, appr, mi, att, seen, res, areq, tgt, ap, crashes>>

(* Mutant: the request names the attempt that asks, not the candidate.     *)
CreateRequestForAttempt(w) ==
    /\ pc[w] = "qa_create"
    /\ \E a \in ApprovalIds :
        /\ astate[a] = "ABSENT"
        /\ \A b \in ApprovalIds : b < a => astate[b] # "ABSENT"
        /\ astate' = [astate EXCEPT ![a] = "PENDING"]
        /\ akey' = [akey EXCEPT ![a] = <<mi[w], att[w]>>]
        /\ alive' = [alive EXCEPT ![a] = TRUE]
        /\ areq' = [areq EXCEPT ![w] = a]
    /\ Goto(w, "qa_write")
    /\ UNCHANGED <<mission, delivery, mi, att, seen, res, tgt, ap, crashes>>

CreateRequest(w) ==
    /\ pc[w] = "qa_create"
    /\ \E a \in ApprovalIds :
        /\ astate[a] = "ABSENT"
        /\ \A b \in ApprovalIds : b < a => astate[b] # "ABSENT"
        /\ astate' = [astate EXCEPT ![a] = "PENDING"]
        /\ akey' = [akey EXCEPT ![a] = <<mi[w], seen[w]>>]
        /\ alive' = [alive EXCEPT ![a] = TRUE]
        /\ areq' = [areq EXCEPT ![w] = a]
    /\ Goto(w, "qa_write")
    /\ UNCHANGED <<mission, delivery, mi, att, seen, res, tgt, ap, crashes>>

(* Mutant: the mission is left to the end of the call.                     *)
RecordQAWriteDeliveryOnly(w) ==
    /\ pc[w] = "qa_write"
    /\ LET passed == res[w] = "PASSED"
       IN  /\ qa' = [qa EXCEPT ![mi[w]] = res[w]]
           /\ stage' = [stage EXCEPT ![mi[w]] = IF passed THEN "WAITING_APPROVAL" ELSE "DEVELOPER"]
           /\ aref' = IF passed THEN [aref EXCEPT ![mi[w]] = areq[w]] ELSE aref
    /\ Goto(w, "result")
    /\ UNCHANGED <<mission, cref, appr, mi, att, seen, res, areq, tgt, ap, crashes>>

(* A failed review leaves approval_reference as it is: it was read as NULL *)
(* and set to NULL, which the session does not write.                      *)
RecordQAWrite(w) ==
    /\ pc[w] = "qa_write"
    /\ LET m == mi[w]
       IN  /\ qa' = [qa EXCEPT ![m] = res[w]]
           /\ IF res[w] = "PASSED"
              THEN /\ stage' = [stage EXCEPT ![m] = "WAITING_APPROVAL"]
                   /\ aref' = [aref EXCEPT ![m] = areq[w]]
                   /\ mstatus' = [mstatus EXCEPT ![m] = "WAITING_APPROVAL"]
              ELSE /\ stage' = [stage EXCEPT ![m] = "DEVELOPER"]
                   /\ UNCHANGED <<aref, mstatus>>
    /\ Goto(w, "result")
    /\ UNCHANGED <<lowner, lease, attempts, cref, appr, mi, att, seen, res, areq, tgt, ap, crashes>>

Ready(m) == qa[m] = "PASSED" /\ aref[m] # None

(* _result_for_mission, and the target status it implies.                  *)
ResultForMission(w) ==
    /\ pc[w] = "result"
    /\ tgt' = [tgt EXCEPT ![w] = IF Ready(mi[w]) THEN "WAITING_APPROVAL" ELSE "COMPLETED"]
    /\ Goto(w, "current")
    /\ UNCHANGED <<mission, delivery, appr, mi, att, seen, res, areq, ap, crashes>>

CheckCurrent(w) ==
    /\ pc[w] = "current"
    /\ Goto(w, IF mstatus[mi[w]] = tgt[w] THEN "release"
               ELSE IF mstatus[mi[w]] = "RUNNING" THEN "transition_read" ELSE "handler")
    /\ UNCHANGED <<mission, delivery, appr, mi, att, seen, res, areq, tgt, ap, crashes>>

(* The exception handler fails a mission it finds RUNNING.                 *)
HandleFailure(w) ==
    /\ pc[w] = "handler"
    /\ IF mstatus[mi[w]] = "RUNNING"
       THEN /\ tgt' = [tgt EXCEPT ![w] = "FAILED"]
            /\ Goto(w, "transition_read")
       ELSE Goto(w, "release") /\ UNCHANGED tgt
    /\ UNCHANGED <<mission, delivery, appr, mi, att, seen, res, areq, ap, crashes>>

(* MissionService.transition.  A refusal runs the handler, or ends it.     *)
TransitionRead(w) ==
    /\ pc[w] = "transition_read"
    /\ IF tgt[w] \in AllowedTransitions(mstatus[mi[w]])
       THEN Goto(w, "transition_write") /\ UNCHANGED <<mi, att, seen, res, areq, tgt>>
       ELSE IF tgt[w] = "FAILED"
       THEN Finish(w)
       ELSE Goto(w, "handler") /\ UNCHANGED <<mi, att, seen, res, areq, tgt>>
    /\ UNCHANGED <<mission, delivery, appr, ap, crashes>>

TransitionWrite(w) ==
    /\ pc[w] = "transition_write"
    /\ mstatus' = [mstatus EXCEPT ![mi[w]] = tgt[w]]
    /\ Goto(w, "release")
    /\ UNCHANGED <<lowner, lease, attempts, delivery, appr, mi, att, seen, res, areq, tgt, ap, crashes>>

(* release_code_change_lease: only its own lease.                          *)
ReleaseLease(w) ==
    /\ pc[w] = "release"
    /\ LET mine == lowner[mi[w]] = w
       IN  /\ lowner' = IF mine THEN [lowner EXCEPT ![mi[w]] = None] ELSE lowner
           /\ lease' = IF mine THEN [lease EXCEPT ![mi[w]] = "none"] ELSE lease
    /\ Finish(w)
    /\ UNCHANGED <<mstatus, attempts, delivery, appr, ap, crashes>>

-----------------------------------------------------------------------------
(* Environment: people, the clock, crashes.                                *)
Decide(a, decision) ==
    /\ astate[a] = "PENDING" /\ alive[a]
    /\ astate' = [astate EXCEPT ![a] = decision]
    /\ UNCHANGED <<mission, delivery, akey, alive, local, ap, crashes>>

ExpireApproval(a) ==
    /\ alive[a]
    /\ alive' = [alive EXCEPT ![a] = FALSE]
    /\ UNCHANGED <<mission, delivery, astate, akey, local, ap, crashes>>

(* apply_human_decision on a denied request; an approved one is returned   *)
(* unchanged and every other case raises.                                  *)
ApplyDecisionRead(h, m) ==
    /\ ap[h] = None
    /\ stage[m] = "WAITING_APPROVAL" /\ aref[m] # None
    /\ akey[aref[m]] = <<m, cref[m]>>
    /\ alive[aref[m]] /\ astate[aref[m]] = "DENIED"
    /\ ap' = [ap EXCEPT ![h] = m]
    /\ UNCHANGED <<mission, delivery, appr, local, crashes>>

ApplyDecisionWrite(h) ==
    /\ ap[h] # None
    /\ stage' = [stage EXCEPT ![ap[h]] = "DEVELOPER"]
    /\ aref' = [aref EXCEPT ![ap[h]] = None]
    /\ mstatus' = [mstatus EXCEPT ![ap[h]] = "RUNNING"]
    /\ ap' = [ap EXCEPT ![h] = None]
    /\ UNCHANGED <<lowner, lease, attempts, cref, qa, appr, local, crashes>>

ExpireLease(m) ==
    /\ lease[m] = "live"
    /\ LeaseOutlivesWork => \A w \in Workers : ~(mi[w] = m /\ lowner[m] = w)
    /\ lease' = [lease EXCEPT ![m] = "expired"]
    /\ UNCHANGED <<mstatus, lowner, attempts, delivery, appr, local, ap, crashes>>

(* A worker dies between two transactions; its successor has a new id.     *)
Crash(w) ==
    /\ pc[w] # "idle"
    /\ crashes < MaxCrashes
    /\ crashes' = crashes + 1
    /\ lowner' = [m \in Missions |-> IF lowner[m] = w THEN Gone ELSE lowner[m]]
    /\ Finish(w)
    /\ UNCHANGED <<mstatus, lease, attempts, delivery, appr, ap>>

-----------------------------------------------------------------------------
(* The rest of a call of process_queued_candidate.                         *)
CallStep(w) ==
    \/ GetMission(w) \/ RenewLease(w) \/ GetDelivery(w) \/ RunDeveloper(w)
    \/ SubmitProposalRead(w) \/ SubmitProposalWrite(w)
    \/ RunQA(w) \/ RecordQARead(w) \/ CreateRequest(w) \/ RecordQAWrite(w)
    \/ ResultForMission(w) \/ CheckCurrent(w) \/ HandleFailure(w)
    \/ TransitionRead(w) \/ TransitionWrite(w) \/ ReleaseLease(w)

Next ==
    \/ \E w \in Workers, m \in Missions : Claim(w, m)
    \/ \E w \in Workers : CallStep(w) \/ Crash(w)
    \/ \E m \in Missions : QueueCandidate(m) \/ ExpireLease(m)
    \/ \E a \in ApprovalIds, x \in {"APPROVED", "DENIED"} : Decide(a, x)
    \/ \E a \in ApprovalIds : ExpireApproval(a)
    \/ \E h \in Appliers, m \in Missions : ApplyDecisionRead(h, m)
    \/ \E h \in Appliers : ApplyDecisionWrite(h)

Spec == Init /\ [][Next]_vars

(* Workers loop for ever, and time passes.                                 *)
Fairness ==
    /\ \A w \in Workers : WF_vars(CallStep(w)) /\ WF_vars(\E m \in Missions : Claim(w, m))
    /\ \A m \in Missions : WF_vars(ExpireLease(m))

FairSpec == Spec /\ Fairness

-----------------------------------------------------------------------------
TypeOK ==
    /\ mstatus \in [Missions -> MissionStatus \cup {"ABSENT"}]
    /\ lowner \in [Missions -> Workers \cup {None, Gone}]
    /\ lease \in [Missions -> {"none", "live", "expired"}]
    /\ attempts \in [Missions -> 0..MaxAttempts]
    /\ stage \in [Missions -> Stages \cup {None}]
    /\ cref \in [Missions -> Nat \cup {None}]
    /\ qa \in [Missions -> QAResults \cup {None}]
    /\ aref \in [Missions -> ApprovalIds \cup {None}]
    /\ astate \in [ApprovalIds -> {"ABSENT", "PENDING", "APPROVED", "DENIED"}]
    /\ akey \in [ApprovalIds -> (Missions \X Nat) \cup {None}]
    /\ alive \in [ApprovalIds -> BOOLEAN]
    /\ pc \in [Workers -> Labels]
    /\ mi \in [Workers -> Missions \cup {None}]
    /\ att \in [Workers -> Nat \cup {None}]
    /\ seen \in [Workers -> Nat \cup {None}]
    /\ res \in [Workers -> QAResults \cup {None}]
    /\ areq \in [Workers -> ApprovalIds \cup {None}]
    /\ tgt \in [Workers -> {"WAITING_APPROVAL", "COMPLETED", "FAILED", None}]
    /\ ap \in [Appliers -> Missions \cup {None}]
    /\ crashes \in 0..MaxCrashes

(* A developer proposal is immutable: workers that overlap because a lease *)
(* ran out, and workers that resume, never replace the candidate of a      *)
(* mission (submit_developer_proposal, "immutable Developer proposal").    *)
ProposalImmutable ==
    [][\A m \in Missions : cref[m] # None => cref'[m] = cref[m]]_vars

(* A delivery that waits for a human waits for a request about its own     *)
(* mission and exactly the candidate that QA passed, whoever reviewed it.  *)
ApprovalBindsCandidate ==
    \A m \in Missions : stage[m] = "WAITING_APPROVAL" =>
        /\ qa[m] = "PASSED"
        /\ aref[m] # None
        /\ akey[aref[m]] = <<m, cref[m]>>
        /\ astate[aref[m]] # "ABSENT"

(* Mission and delivery tell the same story once no worker is at it: a     *)
(* mission waits exactly when its delivery does, and a completed one has a *)
(* reviewed candidate.                                                     *)
SettledAgreement ==
    \A m \in Missions : (\A w \in Workers : mi[w] # m) =>
        /\ mstatus[m] = "WAITING_APPROVAL" <=> stage[m] = "WAITING_APPROVAL"
        /\ mstatus[m] = "COMPLETED" => stage[m] = "DEVELOPER" /\ qa[m] = "FAILED"

(* A human is asked once about a mission: as long as no worker has died,   *)
(* there are never two requests that can still be answered.                *)
AskedOnce ==
    crashes = 0 => \A a, b \in ApprovalIds :
        /\ astate[a] = "PENDING" /\ alive[a]
        /\ astate[b] = "PENDING" /\ alive[b]
        /\ akey[a][1] = akey[b][1]
        => a = b

(* Every queued code change is eventually decided, failed or handed to a   *)
(* human, although the worker that holds it may die.                       *)
ChangeSettles ==
    \A m \in Missions :
        mstatus[m] = "QUEUED" ~> mstatus[m] \in {"WAITING_APPROVAL", "COMPLETED", "FAILED"}

(* A change that a human rejected goes back to the developer               *)
(* (test_human_rejection_returns_exact_change_to_developer): a mission     *)
(* RUNNING at the stage DEVELOPER is taken up and does not stay there.     *)
ReturnedChangeMovesOn ==
    \A m \in Missions :
        mstatus[m] = "RUNNING" /\ stage[m] = "DEVELOPER"
            ~> mstatus[m] # "RUNNING" \/ stage[m] # "DEVELOPER"
=============================================================================
