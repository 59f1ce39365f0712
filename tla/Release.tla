------------------------------- MODULE Release -------------------------------
(***************************************************************************)
(* Release of an approved code change: publish, deploy, roll back.         *)
(*                                                                         *)
(* Each of the three methods of CodeChangeService checks the delivery,     *)
(* applies the human decision, acts on the outside world (a branch on the  *)
(* remote, a release on the host) and then records what it did.  A call    *)
(* may end between the effect and its record, and calls may overlap.       *)
(*                                                                         *)
(* A mission starts where CodeChange leaves it: its delivery waits for a   *)
(* human, QA has passed its candidate.                                     *)
(***************************************************************************)
EXTENDS Integers, FiniteSets

CONSTANTS
    Callers,          \* processes that call the three methods
    Missions,         \* code changes of one repository
    MaxReleases,      \* bound: releases made on the host
    MaxCommits,       \* bound: commits on branches of the remote
    MaxFaults,        \* bound: calls that die or lose the answer of an effect
    None

ASSUME ReleaseAssumption ==
    /\ MaxReleases \in Nat /\ MaxCommits \in Nat /\ MaxFaults \in Nat
    /\ None \notin Missions \cup Nat

Operations == {"publish", "deploy", "rollback"}
Releases == 1..MaxReleases

VARIABLES
    waiting,             \* delivery.stage is WAITING_APPROVAL
    approval, alive,     \* approval request of the delivery: state, unexpired
    pub,                 \* published_branch, _commit and _tree, as a commit
    dep, prior,          \* deployment_release_id, deployment_prior_release_id
    rb,                  \* rollback_release_id
    branch, commits,     \* the remote: commit of the change's branch, commits on branches
    live, by,            \* the host: active release, the change each release was made for
    rolled,              \* history: changes the host was told to roll back
    names,               \* the host names the release in its answer to a deploy
    pc, op, mi, got, was,\* local state of a call; got, was: identities of the effect
    faults

request == <<approval, alive>>
record  == <<pub, dep, prior, rb>>
remote  == <<branch, commits>>
host    == <<live, by, rolled, names>>
call    == <<pc, op, mi, got, was>>
vars    == <<waiting, request, record, remote, host, call, faults>>

Init ==
    /\ waiting = [m \in Missions |-> TRUE]
    /\ approval = [m \in Missions |-> "PENDING"]
    /\ alive = [m \in Missions |-> TRUE]
    /\ pub = [m \in Missions |-> None]
    /\ dep = [m \in Missions |-> None]
    /\ prior = [m \in Missions |-> None]
    /\ rb = [m \in Missions |-> None]
    /\ branch = [m \in Missions |-> None]
    /\ commits = 0
    /\ live = 0
    /\ by = [r \in Releases |-> None]
    /\ rolled = {}
    /\ names \in BOOLEAN
    /\ pc = [c \in Callers |-> "idle"]
    /\ op = [c \in Callers |-> None]
    /\ mi = [c \in Callers |-> None]
    /\ got = [c \in Callers |-> None]
    /\ was = [c \in Callers |-> None]
    /\ faults = 0

-----------------------------------------------------------------------------
Goto(c, label) == pc' = [pc EXCEPT ![c] = label]

(* The call returned or raised.                                            *)
Finish(c) ==
    /\ pc' = [pc EXCEPT ![c] = "idle"]
    /\ op' = [op EXCEPT ![c] = None]
    /\ mi' = [mi EXCEPT ![c] = None]
    /\ got' = [got EXCEPT ![c] = None]
    /\ was' = [was EXCEPT ![c] = None]

(* The head of the three methods: the delivery still waits.                *)
Start(c, o, m) ==
    /\ pc[c] = "idle"
    /\ waiting[m]
    /\ pc' = [pc EXCEPT ![c] = "apply"]
    /\ op' = [op EXCEPT ![c] = o]
    /\ mi' = [mi EXCEPT ![c] = m]
    /\ UNCHANGED <<waiting, request, record, remote, host, got, was, faults>>

(* Mutant: a release that is recorded already is no obstacle.              *)
DueIgnoresDeployment(o, m) ==
    \/ o = "publish" /\ pub[m] = None
    \/ o = "deploy" /\ pub[m] # None
    \/ o = "rollback" /\ pub[m] # None /\ dep[m] # None /\ prior[m] # None /\ rb[m] = None

(* The record that the operation needs is there, and its own is not.       *)
Due(o, m) ==
    \/ o = "publish" /\ pub[m] = None
    \/ o = "deploy" /\ pub[m] # None /\ dep[m] = None /\ prior[m] = None
    \/ o = "rollback" /\ pub[m] # None /\ dep[m] # None /\ prior[m] # None /\ rb[m] = None

(* Mutant: a request that nobody has answered is no obstacle.              *)
ApplyDecisionUnlessDenied(c) ==
    /\ pc[c] = "apply"
    /\ LET m == mi[c]
       IN  IF waiting[m] /\ alive[m] /\ approval[m] # "DENIED" /\ Due(op[c], m)
           THEN /\ Goto(c, "effect")
                /\ got' = IF op[c] = "rollback" THEN [got EXCEPT ![c] = prior[m]] ELSE got
                /\ UNCHANGED <<op, mi, was>>
           ELSE Finish(c)
    /\ UNCHANGED <<waiting, request, record, remote, host, faults>>

(* apply_human_decision, and the checks of the delivery it returns.  A     *)
(* rollback goes to the recorded prior release.                            *)
ApplyDecision(c) ==
    /\ pc[c] = "apply"
    /\ LET m == mi[c]
       IN  IF waiting[m] /\ alive[m] /\ approval[m] = "DENIED"
           THEN Goto(c, "deny") /\ UNCHANGED <<op, mi, got, was>>
           ELSE IF waiting[m] /\ alive[m] /\ approval[m] = "APPROVED" /\ Due(op[c], m)
           THEN /\ Goto(c, "effect")
                /\ got' = IF op[c] = "rollback" THEN [got EXCEPT ![c] = prior[m]] ELSE got
                /\ UNCHANGED <<op, mi, was>>
           ELSE Finish(c)
    /\ UNCHANGED <<waiting, request, record, remote, host, faults>>

(* The commit of a denial; the caller then raises.                         *)
DenyWrite(c) ==
    /\ pc[c] = "deny"
    /\ waiting' = [waiting EXCEPT ![mi[c]] = FALSE]
    /\ Finish(c)
    /\ UNCHANGED <<request, record, remote, host, faults>>

(* Any effect may fail before it has happened: a stale base or workspace,  *)
(* a refused request, a command that exits with an error.                  *)
EffectFails(c) ==
    /\ pc[c] = "effect"
    /\ Finish(c)
    /\ UNCHANGED <<waiting, request, record, remote, host, faults>>

(* Mutant: a branch that exists already is taken for the published one.    *)
PublishOverExisting(c) ==
    /\ pc[c] = "effect" /\ op[c] = "publish"
    /\ commits < MaxCommits
    /\ commits' = commits + 1
    /\ branch' = IF branch[mi[c]] = None THEN [branch EXCEPT ![mi[c]] = commits + 1] ELSE branch
    /\ got' = [got EXCEPT ![c] = commits + 1]
    /\ Goto(c, "record_read")
    /\ UNCHANGED <<waiting, request, record, host, op, mi, was, faults>>

(* publish: a new commit, and the branch named after mission and change,   *)
(* which the remote refuses to create twice.                               *)
Publish(c) ==
    /\ pc[c] = "effect" /\ op[c] = "publish"
    /\ IF branch[mi[c]] = None
       THEN /\ commits < MaxCommits
            /\ commits' = commits + 1
            /\ branch' = [branch EXCEPT ![mi[c]] = commits + 1]
            /\ got' = [got EXCEPT ![c] = commits + 1]
            /\ Goto(c, "record_read")
            /\ UNCHANGED <<op, mi, was>>
       ELSE Finish(c) /\ UNCHANGED remote
    /\ UNCHANGED <<waiting, request, record, host, faults>>

(* Mutant: the prior release is read after the switch.                     *)
DeployReadsPriorLate(c) ==
    /\ pc[c] = "effect" /\ op[c] = "deploy"
    /\ \E r \in Releases :
        /\ by[r] = None /\ \A q \in Releases : q < r => by[q] # None
        /\ by' = [by EXCEPT ![r] = mi[c]]
        /\ live' = r
        /\ got' = [got EXCEPT ![c] = r]
        /\ was' = [was EXCEPT ![c] = r]
    /\ Goto(c, "record_read")
    /\ UNCHANGED <<waiting, request, record, remote, rolled, names, op, mi, faults>>

(* deploy: the host builds a release and switches to it.  The deployer     *)
(* refuses an answer without a release id, and nothing is recorded; the    *)
(* host helper of this repository sends none.  A prior id is optional.     *)
Deploy(c) ==
    /\ pc[c] = "effect" /\ op[c] = "deploy"
    /\ \E r \in Releases :
        /\ by[r] = None /\ \A q \in Releases : q < r => by[q] # None
        /\ by' = [by EXCEPT ![r] = mi[c]]
        /\ live' = r
        /\ IF names
           THEN /\ got' = [got EXCEPT ![c] = r]
                /\ \E p \in {live, None} : was' = [was EXCEPT ![c] = p]
                /\ Goto(c, "record_read")
                /\ UNCHANGED <<op, mi>>
           ELSE Finish(c)
    /\ UNCHANGED <<waiting, request, record, remote, rolled, names, faults>>

(* rollback: the host switches to the release it is given.                 *)
Rollback(c) ==
    /\ pc[c] = "effect" /\ op[c] = "rollback"
    /\ live' = got[c]
    /\ rolled' = rolled \cup {mi[c]}
    /\ Goto(c, "record_read")
    /\ UNCHANGED <<waiting, request, record, remote, by, names, op, mi, got, was, faults>>

(* record_publication, record_deployment, record_rollback: the checks.     *)
(* With a record already there the call ends, whether it is the same.      *)
RecordRead(c) ==
    /\ pc[c] = "record_read"
    /\ LET m == mi[c]
       IN  IF /\ waiting[m] /\ alive[m] /\ approval[m] = "APPROVED"
              /\ Due(op[c], m)
              /\ op[c] = "rollback" => got[c] = prior[m]
           THEN Goto(c, "record_write") /\ UNCHANGED <<op, mi, got, was>>
           ELSE Finish(c)
    /\ UNCHANGED <<waiting, request, record, remote, host, faults>>

(* Their commit.  A prior release that was read as NULL and is set to NULL *)
(* is not written.                                                         *)
RecordWrite(c) ==
    /\ pc[c] = "record_write"
    /\ LET m == mi[c]
       IN  \/ /\ op[c] = "publish"
              /\ pub' = [pub EXCEPT ![m] = got[c]]
              /\ UNCHANGED <<dep, prior, rb>>
           \/ /\ op[c] = "deploy"
              /\ dep' = [dep EXCEPT ![m] = got[c]]
              /\ prior' = IF was[c] = None THEN prior ELSE [prior EXCEPT ![m] = was[c]]
              /\ UNCHANGED <<pub, rb>>
           \/ /\ op[c] = "rollback"
              /\ rb' = [rb EXCEPT ![m] = got[c]]
              /\ UNCHANGED <<pub, dep, prior>>
    /\ Finish(c)
    /\ UNCHANGED <<waiting, request, remote, host, faults>>

-----------------------------------------------------------------------------
(* Environment: people, the clock, faults.                                 *)
Decide(m, decision) ==
    /\ approval[m] = "PENDING" /\ alive[m]
    /\ approval' = [approval EXCEPT ![m] = decision]
    /\ UNCHANGED <<waiting, alive, record, remote, host, call, faults>>

ExpireApproval(m) ==
    /\ alive[m]
    /\ alive' = [alive EXCEPT ![m] = FALSE]
    /\ UNCHANGED <<waiting, approval, record, remote, host, call, faults>>

(* A call dies between two steps, or the answer of an effect is lost: a    *)
(* timeout after the remote or the host has acted raises.                  *)
Fault(c) ==
    /\ pc[c] # "idle"
    /\ faults < MaxFaults
    /\ faults' = faults + 1
    /\ Finish(c)
    /\ UNCHANGED <<waiting, request, record, remote, host>>

-----------------------------------------------------------------------------
CallStep(c) ==
    \/ ApplyDecision(c) \/ DenyWrite(c) \/ EffectFails(c)
    \/ Publish(c) \/ Deploy(c) \/ Rollback(c)
    \/ RecordRead(c) \/ RecordWrite(c)

Next ==
    \/ \E c \in Callers, o \in Operations, m \in Missions : Start(c, o, m)
    \/ \E c \in Callers : CallStep(c) \/ Fault(c)
    \/ \E m \in Missions, x \in {"APPROVED", "DENIED"} : Decide(m, x)
    \/ \E m \in Missions : ExpireApproval(m)

Spec == Init /\ [][Next]_vars

-----------------------------------------------------------------------------
TypeOK ==
    /\ waiting \in [Missions -> BOOLEAN]
    /\ approval \in [Missions -> {"PENDING", "APPROVED", "DENIED"}]
    /\ alive \in [Missions -> BOOLEAN]
    /\ pub \in [Missions -> Nat \cup {None}]
    /\ dep \in [Missions -> Nat \cup {None}]
    /\ prior \in [Missions -> Nat \cup {None}]
    /\ rb \in [Missions -> Nat \cup {None}]
    /\ branch \in [Missions -> Nat \cup {None}]
    /\ commits \in Nat
    /\ live \in Nat
    /\ by \in [Releases -> Missions \cup {None}]
    /\ rolled \subseteq Missions
    /\ names \in BOOLEAN
    /\ pc \in [Callers -> {"idle", "apply", "deny", "effect", "record_read", "record_write"}]
    /\ op \in [Callers -> Operations \cup {None}]
    /\ mi \in [Callers -> Missions \cup {None}]
    /\ got \in [Callers -> Nat \cup {None}]
    /\ was \in [Callers -> Nat \cup {None}]
    /\ faults \in 0..MaxFaults

DeployedFor(m) == {r \in Releases : by[r] = m}
AtWork(m) == \E c \in Callers : mi[c] = m

(* Nothing reaches the remote or the host for a change that a human has    *)
(* not approved, and what was denied later was never released              *)
(* (publish_, deploy_ and rollback_approved_...: fail closed).             *)
EffectsApproved ==
    \A m \in Missions :
        branch[m] # None \/ DeployedFor(m) # {} \/ m \in rolled => approval[m] = "APPROVED"

(* What is recorded as published is the branch on the remote, although     *)
(* calls overlap and die between creating the branch and recording it.     *)
PublicationIsTheBranch ==
    \A m \in Missions : pub[m] # None => pub[m] = branch[m]

(* An effect is recorded: once no call is at work on a change whose        *)
(* approval has not run out, branch and rollback have their records, and a *)
(* release has one exactly when the host has named it.                     *)
EffectsRecorded ==
    \A m \in Missions : ~AtWork(m) /\ alive[m] =>
        /\ branch[m] # None => pub[m] # None
        /\ DeployedFor(m) # {} => (dep[m] # None <=> names)
        /\ m \in rolled => rb[m] # None

(* A change is deployed once: a replay answers from the record, "without a *)
(* second mutation".                                                       *)
DeployedOnce == \A m \in Missions : Cardinality(DeployedFor(m)) <= 1

=============================================================================
