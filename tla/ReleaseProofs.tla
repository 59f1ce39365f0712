---------------------------- MODULE ReleaseProofs ----------------------------
(***************************************************************************)
(* Approval and publication identity of Release, whatever overlaps and     *)
(* dies, and its records while calls are kept apart (CalmRelease), proved  *)
(* for every number of callers, changes, releases and faults.              *)
(***************************************************************************)
EXTENDS CalmRelease, FiniteSetTheorems, TLAPS

(* What a call has established: past the decision its change is approved,  *)
(* and a publication under way carries the commit of the branch.           *)
CallOK(c) ==
    /\ pc[c] # "idle" => mi[c] \in Missions /\ op[c] \in Operations
    /\ pc[c] \in {"effect", "record_read", "record_write"} => approval[mi[c]] = "APPROVED"
    /\ pc[c] = "effect" /\ op[c] = "rollback" => got[c] \in Nat
    /\ pc[c] \in {"record_read", "record_write"} => got[c] \in Nat
    /\ pc[c] \in {"record_read", "record_write"} /\ op[c] = "publish" =>
          got[c] = branch[mi[c]]

IInv ==
    /\ TypeOK
    /\ \A c \in Callers : CallOK(c)
    /\ EffectsApproved
    /\ PublicationIsTheBranch

(* An approval is not taken back and a branch does not move.               *)
Monotone ==
    \A m \in Missions :
        /\ approval[m] = "APPROVED" => approval'[m] = "APPROVED"
        /\ branch[m] # None => branch'[m] = branch[m]

CallType ==
    /\ pc \in [Callers -> {"idle", "apply", "deny", "effect", "record_read", "record_write"}]
    /\ op \in [Callers -> Operations \cup {None}]
    /\ mi \in [Callers -> Missions \cup {None}]
    /\ got \in [Callers -> Nat \cup {None}]
    /\ was \in [Callers -> Nat \cup {None}]

Same(c) ==
    /\ pc'[c] = pc[c] /\ op'[c] = op[c] /\ mi'[c] = mi[c]
    /\ got'[c] = got[c] /\ was'[c] = was[c]

Others(c) == \A d \in Callers : d # c => Same(d)

LEMMA InitInv == Init => IInv
<1>. SUFFICES ASSUME Init PROVE IInv OBVIOUS
<1>1. TypeOK BY ReleaseAssumption DEF ReleaseAssumption, Init, TypeOK
<1>2. \A c \in Callers : CallOK(c) BY DEF Init, CallOK
<1>3. EffectsApproved
  BY ReleaseAssumption DEF ReleaseAssumption, Init, EffectsApproved, DeployedFor
<1>4. PublicationIsTheBranch BY DEF Init, PublicationIsTheBranch
<1>. QED BY <1>1, <1>2, <1>3, <1>4 DEF IInv

LEMMA Keeps ==
    ASSUME TypeOK, ReleaseAssumption, Monotone, NEW c \in Callers, CallOK(c), Same(c)
    PROVE  CallOK(c)'
<1>1. ASSUME pc[c] \in {"record_read", "record_write"}, op[c] = "publish"
      PROVE  got[c] = branch'[mi[c]]
  <2>1. mi[c] \in Missions /\ got[c] \in Nat /\ got[c] = branch[mi[c]]
    BY <1>1 DEF CallOK
  <2>2. branch[mi[c]] # None BY <2>1 DEF ReleaseAssumption
  <2>. QED BY <2>1, <2>2 DEF Monotone
<1>2. ASSUME pc[c] \in {"effect", "record_read", "record_write"}
      PROVE  approval'[mi[c]] = "APPROVED"
  BY <1>2 DEF CallOK, Monotone
<1>. QED BY <1>1, <1>2 DEF CallOK, Same

LEMMA Locals ==
    ASSUME NEW c \in Callers, CallType, NEW label \in {"apply", "deny", "effect", "record_read", "record_write"}
    PROVE  /\ Finish(c) => CallType' /\ Others(c) /\ pc'[c] = "idle"
           /\ Goto(c, label) /\ UNCHANGED <<op, mi, got, was>> =>
                 CallType' /\ Others(c) /\ pc'[c] = label /\ op'[c] = op[c]
                 /\ mi'[c] = mi[c] /\ got'[c] = got[c]
BY DEF CallType, Finish, Goto, Others, Same

(* A step of call c that leaves requests, branches and releases alone.     *)
LEMMA Quiet ==
    ASSUME IInv, TypeOK', UNCHANGED <<approval, branch, pub, by, rolled>>,
           \A c \in Callers : CallOK(c)'
    PROVE  IInv'
<1>1. EffectsApproved' BY DEF IInv, EffectsApproved, DeployedFor
<1>2. PublicationIsTheBranch' BY DEF IInv, PublicationIsTheBranch
<1>. QED BY <1>1, <1>2 DEF IInv

(* Steps that touch only the call, the stage of the delivery or nothing.   *)
LEMMA CheckSteps ==
    ASSUME IInv, NEW c \in Callers,
           \/ \E o \in Operations, m \in Missions : Start(c, o, m)
           \/ ApplyDecision(c) \/ DenyWrite(c) \/ EffectFails(c)
           \/ RecordRead(c) \/ Fault(c)
    PROVE  IInv'
<1>. TypeOK /\ CallType /\ CallOK(c) BY DEF IInv, TypeOK, CallType
<1>0. UNCHANGED <<request, record, remote, host>>
  BY DEF Start, ApplyDecision, DenyWrite, EffectFails, RecordRead, Fault
<1>1. CallType' /\ Others(c) /\ CallOK(c)'
  <2>1. CASE \E o \in Operations, m \in Missions : Start(c, o, m)
    BY <2>1 DEF Start, CallType, Others, Same, CallOK
  <2>2. CASE Finish(c)
    BY <2>2, Locals DEF CallOK
  <2>3. CASE ApplyDecision(c) /\ Goto(c, "deny") /\ UNCHANGED <<op, mi, got, was>>
    <3>1. CallType' /\ Others(c) /\ pc'[c] = "deny" /\ mi'[c] = mi[c] /\ op'[c] = op[c]
      BY <2>3, Locals
    <3>. QED BY <2>3, <3>1 DEF CallOK, ApplyDecision
  <2>4. CASE ApplyDecision(c) /\ Goto(c, "effect")
             /\ approval[mi[c]] = "APPROVED" /\ Due(op[c], mi[c])
             /\ got' = (IF op[c] = "rollback" THEN [got EXCEPT ![c] = prior[mi[c]]] ELSE got)
             /\ UNCHANGED <<op, mi, was>>
    <3>1. mi[c] \in Missions /\ op[c] \in Operations BY <2>4 DEF CallOK, ApplyDecision
    <3>2. prior[mi[c]] \in Nat \cup {None} BY <3>1 DEF TypeOK
    <3>3. op[c] = "rollback" => prior[mi[c]] \in Nat BY <2>4, <3>2 DEF Due
    <3>4. CallType' /\ Others(c) /\ pc'[c] = "effect"
          /\ (op[c] = "rollback" => got'[c] = prior[mi[c]])
      BY <2>4, <3>2 DEF Goto, CallType, Others, Same
    <3>. QED BY <1>0, <2>4, <3>1, <3>3, <3>4 DEF CallOK, request
  <2>5. CASE RecordRead(c) /\ Goto(c, "record_write") /\ UNCHANGED <<op, mi, got, was>>
    <3>1. CallType' /\ Others(c) /\ pc'[c] = "record_write" /\ mi'[c] = mi[c]
          /\ op'[c] = op[c] /\ got'[c] = got[c]
      BY <2>5, Locals
    <3>. QED BY <1>0, <2>5, <3>1 DEF CallOK, RecordRead, request, remote
  <2>. QED BY <2>1, <2>2, <2>3, <2>4, <2>5
       DEF ApplyDecision, DenyWrite, EffectFails, RecordRead, Fault
<1>2. Monotone BY <1>0 DEF Monotone, request, remote
<1>3. \A d \in Callers : CallOK(d)'
  BY <1>1, <1>2, Keeps, ReleaseAssumption DEF IInv, Others
<1>4. waiting' \in [Missions -> BOOLEAN]
  <2>1. waiting' = waiting \/ waiting' = [waiting EXCEPT ![mi[c]] = FALSE]
    BY DEF Start, ApplyDecision, DenyWrite, EffectFails, RecordRead, Fault
  <2>2. waiting \in [Missions -> BOOLEAN] BY DEF TypeOK
  <2>3. [waiting EXCEPT ![mi[c]] = FALSE] \in [Missions -> BOOLEAN] BY <2>2
  <2>. QED BY <2>1, <2>2, <2>3
<1>5. faults' \in 0..MaxFaults
  BY ReleaseAssumption
  DEF ReleaseAssumption, TypeOK, Start, ApplyDecision, DenyWrite, EffectFails, RecordRead, Fault
<1>6. TypeOK' BY <1>0, <1>1, <1>4, <1>5 DEF TypeOK, CallType, request, record, remote, host
<1>. QED BY <1>0, <1>3, <1>6, Quiet DEF request, record, remote, host

LEMMA EffectSteps ==
    ASSUME IInv, NEW c \in Callers, Publish(c) \/ Deploy(c) \/ Rollback(c)
    PROVE  IInv'
<1>. TypeOK /\ CallType /\ CallOK(c) /\ EffectsApproved /\ PublicationIsTheBranch
  BY DEF IInv, TypeOK, CallType
<1>. DEFINE m == mi[c]
<1>1. pc[c] = "effect" /\ m \in Missions /\ op[c] \in Operations /\ approval[m] = "APPROVED"
  BY DEF Publish, Deploy, Rollback, CallOK
<1>2. CASE Publish(c) /\ branch[m] # None
  <2>1. Finish(c) /\ UNCHANGED <<waiting, request, record, remote, host, faults>>
    BY <1>2 DEF Publish
  <2>2. CallType' /\ Others(c) /\ CallOK(c)' BY <2>1, Locals DEF CallOK
  <2>3. Monotone BY <2>1 DEF Monotone, request, remote
  <2>4. \A d \in Callers : CallOK(d)'
    BY <2>2, <2>3, Keeps, ReleaseAssumption DEF IInv, Others
  <2>5. TypeOK' BY <2>1, <2>2 DEF TypeOK, CallType, request, record, remote, host
  <2>. QED BY <2>1, <2>4, <2>5, Quiet DEF request, record, remote, host
<1>3. CASE Publish(c) /\ branch[m] = None
  <2>1. /\ commits' = commits + 1
        /\ branch' = [branch EXCEPT ![m] = commits + 1]
        /\ got' = [got EXCEPT ![c] = commits + 1]
        /\ pc' = [pc EXCEPT ![c] = "record_read"]
        /\ UNCHANGED <<waiting, request, record, host, op, mi, was, faults>>
        /\ op[c] = "publish"
    BY <1>3 DEF Publish, Goto
  <2>2. commits + 1 \in Nat BY DEF TypeOK
  <2>3. CallType' /\ Others(c) BY <2>1, <2>2 DEF CallType, Others, Same
  <2>4. Monotone BY <1>1, <1>3, <2>1 DEF Monotone, TypeOK, request
  <2>5. CallOK(c)' BY <1>1, <2>1, <2>2 DEF CallOK, TypeOK, request
  <2>6. \A d \in Callers : CallOK(d)'
    BY <2>3, <2>4, <2>5, Keeps, ReleaseAssumption DEF IInv, Others
  <2>7. branch' \in [Missions -> Nat \cup {None}] BY <2>1, <2>2 DEF TypeOK
  <2>8. TypeOK' BY <2>1, <2>2, <2>3, <2>7 DEF TypeOK, CallType, request, record, host
  <2>9. EffectsApproved'
    BY <1>1, <2>1 DEF EffectsApproved, DeployedFor, TypeOK, request, host
  <2>10. PublicationIsTheBranch'
    BY <1>1, <1>3, <2>1 DEF PublicationIsTheBranch, TypeOK, record
  <2>. QED BY <2>6, <2>8, <2>9, <2>10 DEF IInv
<1>4. CASE Deploy(c)
  <2>1. PICK r \in Releases :
           /\ by' = [by EXCEPT ![r] = m]
           /\ live' = r
           /\ \/ /\ got' = [got EXCEPT ![c] = r]
                 /\ \E p \in {live, None} : was' = [was EXCEPT ![c] = p]
                 /\ Goto(c, "record_read") /\ UNCHANGED <<op, mi>>
              \/ Finish(c)
    BY <1>4 DEF Deploy
  <2>2. UNCHANGED <<waiting, request, record, remote, rolled, names, faults>> /\ op[c] = "deploy"
    BY <1>4 DEF Deploy
  <2>3. r \in Nat /\ live \in Nat BY <2>1 DEF Releases, TypeOK
  <2>4. CallType' /\ Others(c) /\ CallOK(c)'
    <3>1. CASE Finish(c) BY <3>1, Locals DEF CallOK
    <3>2. CASE /\ got' = [got EXCEPT ![c] = r]
               /\ \E p \in {live, None} : was' = [was EXCEPT ![c] = p]
               /\ Goto(c, "record_read") /\ UNCHANGED <<op, mi>>
      <4>1. CallType' /\ Others(c) /\ pc'[c] = "record_read" /\ got'[c] = r
        BY <2>3, <3>2 DEF Goto, CallType, Others, Same
      <4>. QED BY <1>1, <2>2, <2>3, <3>2, <4>1 DEF CallOK, request
    <3>. QED BY <2>1, <3>1, <3>2
  <2>5. Monotone BY <2>2 DEF Monotone, request, remote
  <2>6. \A d \in Callers : CallOK(d)'
    BY <2>4, <2>5, Keeps, ReleaseAssumption DEF IInv, Others
  <2>7. by' \in [Releases -> Missions \cup {None}] BY <1>1, <2>1 DEF TypeOK
  <2>8. TypeOK' BY <2>1, <2>2, <2>3, <2>4, <2>7 DEF TypeOK, CallType, request, record, remote
  <2>9. EffectsApproved'
    <3>1. SUFFICES ASSUME NEW n \in Missions,
                          branch'[n] # None \/ DeployedFor(n)' # {} \/ n \in rolled'
                   PROVE  approval[n] = "APPROVED"
      BY <2>2 DEF EffectsApproved, request
    <3>2. CASE n = m BY <1>1, <3>2
    <3>3. CASE n # m
      <4>1. DeployedFor(n)' \subseteq DeployedFor(n)
        BY <2>1, <3>3 DEF DeployedFor, TypeOK
      <4>. QED BY <2>2, <3>1, <4>1 DEF EffectsApproved, remote
    <3>. QED BY <3>2, <3>3
  <2>10. PublicationIsTheBranch' BY <2>2 DEF PublicationIsTheBranch, record, remote
  <2>. QED BY <2>6, <2>8, <2>9, <2>10 DEF IInv
<1>5. CASE Rollback(c)
  <2>1. /\ live' = got[c] /\ rolled' = rolled \cup {m} /\ op[c] = "rollback"
        /\ Goto(c, "record_read")
        /\ UNCHANGED <<waiting, request, record, remote, by, names, op, mi, got, was, faults>>
    BY <1>5 DEF Rollback
  <2>2. got[c] \in Nat BY <1>1, <2>1 DEF CallOK
  <2>3. CallType' /\ Others(c) /\ pc'[c] = "record_read" /\ op'[c] = op[c]
        /\ mi'[c] = mi[c] /\ got'[c] = got[c]
    BY <2>1, Locals
  <2>4. CallOK(c)' BY <1>1, <2>1, <2>2, <2>3 DEF CallOK, request
  <2>5. Monotone BY <2>1 DEF Monotone, request, remote
  <2>6. \A d \in Callers : CallOK(d)'
    BY <2>3, <2>4, <2>5, Keeps, ReleaseAssumption DEF IInv, Others
  <2>7. TypeOK'
    BY <1>1, <2>1, <2>2, <2>3 DEF TypeOK, CallType, request, record, remote
  <2>8. EffectsApproved'
    BY <1>1, <2>1 DEF EffectsApproved, DeployedFor, request, remote
  <2>9. PublicationIsTheBranch' BY <2>1 DEF PublicationIsTheBranch, record, remote
  <2>. QED BY <2>6, <2>7, <2>8, <2>9 DEF IInv
<1>. QED BY <1>2, <1>3, <1>4, <1>5

LEMMA RecordSteps ==
    ASSUME IInv, NEW c \in Callers, RecordWrite(c)
    PROVE  IInv'
<1>. TypeOK /\ CallType /\ CallOK(c) /\ EffectsApproved /\ PublicationIsTheBranch
  BY DEF IInv, TypeOK, CallType
<1>1. /\ pc[c] = "record_write" /\ mi[c] \in Missions /\ got[c] \in Nat
      /\ Finish(c) /\ UNCHANGED <<waiting, request, remote, host, faults>>
  BY DEF RecordWrite, CallOK
<1>2. CallType' /\ Others(c) /\ CallOK(c)' BY <1>1, Locals DEF CallOK
<1>3. Monotone BY <1>1 DEF Monotone, request, remote
<1>4. \A d \in Callers : CallOK(d)'
  BY <1>2, <1>3, Keeps, ReleaseAssumption DEF IInv, Others
<1>5. was[c] \in Nat \cup {None} BY DEF CallType
<1>6. /\ pub' \in [Missions -> Nat \cup {None}]
      /\ dep' \in [Missions -> Nat \cup {None}]
      /\ prior' \in [Missions -> Nat \cup {None}]
      /\ rb' \in [Missions -> Nat \cup {None}]
  BY <1>1, <1>5 DEF RecordWrite, TypeOK
<1>7. TypeOK' BY <1>1, <1>2, <1>6 DEF TypeOK, CallType, request, remote, host
<1>8. EffectsApproved' BY <1>1 DEF EffectsApproved, DeployedFor, request, remote, host
<1>9. PublicationIsTheBranch'
  <2>1. CASE op[c] = "publish"
    <3>1. pub' = [pub EXCEPT ![mi[c]] = got[c]] BY <2>1 DEF RecordWrite
    <3>2. got[c] = branch[mi[c]] BY <1>1, <2>1 DEF CallOK
    <3>. QED BY <1>1, <3>1, <3>2 DEF PublicationIsTheBranch, TypeOK, remote
  <2>2. CASE op[c] # "publish"
    BY <1>1, <2>2 DEF RecordWrite, PublicationIsTheBranch, remote
  <2>. QED BY <2>1, <2>2
<1>. QED BY <1>4, <1>7, <1>8, <1>9 DEF IInv

LEMMA EnvSteps ==
    ASSUME IInv, NEW m \in Missions,
           (\E x \in {"APPROVED", "DENIED"} : Decide(m, x)) \/ ExpireApproval(m)
    PROVE  IInv'
<1>. TypeOK /\ CallType BY DEF IInv, TypeOK, CallType
<1>1. UNCHANGED <<waiting, record, remote, host, call, faults>>
  BY DEF Decide, ExpireApproval
<1>2. approval' \in [Missions -> {"PENDING", "APPROVED", "DENIED"}]
  BY DEF Decide, ExpireApproval, TypeOK
<1>3. alive' \in [Missions -> BOOLEAN]
  <2>1. alive' = alive \/ alive' = [alive EXCEPT ![m] = FALSE] BY DEF Decide, ExpireApproval
  <2>2. alive \in [Missions -> BOOLEAN] BY DEF TypeOK
  <2>3. [alive EXCEPT ![m] = FALSE] \in [Missions -> BOOLEAN] BY <2>2
  <2>. QED BY <2>1, <2>2, <2>3
<1>4. \A n \in Missions : approval[n] = "APPROVED" => approval'[n] = "APPROVED"
  BY DEF Decide, ExpireApproval, TypeOK
<1>5. Monotone BY <1>1, <1>4 DEF Monotone, remote
<1>6. \A d \in Callers : CallOK(d)'
  BY <1>1, <1>5, Keeps, ReleaseAssumption DEF IInv, Same, call
<1>7. TypeOK' BY <1>1, <1>2, <1>3 DEF TypeOK, record, remote, host, call
<1>8. EffectsApproved'
  BY <1>1, <1>4 DEF IInv, EffectsApproved, DeployedFor, remote, host
<1>9. PublicationIsTheBranch' BY <1>1 DEF IInv, PublicationIsTheBranch, record, remote
<1>. QED BY <1>6, <1>7, <1>8, <1>9 DEF IInv

LEMMA StepInv == IInv /\ [Next]_vars => IInv'
<1>. SUFFICES ASSUME IInv, [Next]_vars PROVE IInv' OBVIOUS
<1>1. CASE UNCHANGED vars
  <2>1. TypeOK' BY <1>1 DEF IInv, TypeOK, vars, request, record, remote, host, call
  <2>2. \A d \in Callers : CallOK(d)'
    BY <1>1 DEF IInv, CallOK, vars, request, remote, call
  <2>. QED BY <1>1, <2>1, <2>2, Quiet DEF vars, request, record, remote, host
<1>2. CASE Next BY <1>2, CheckSteps, EffectSteps, RecordSteps, EnvSteps DEF Next, CallStep
<1>. QED BY <1>1, <1>2

(* Every variable of the release model keeps its type.                     *)
THEOREM ReleaseTypeCorrect == Spec => []TypeOK
<1>1. IInv => TypeOK BY DEF IInv
<1>. QED BY <1>1, InitInv, StepInv, PTL DEF Spec

(* No branch, release or rollback without a human's approval: the checks   *)
(* of apply_human_decision hold until the effect, whatever overlaps.       *)
THEOREM NothingUnapproved == Spec => []EffectsApproved
<1>1. IInv => EffectsApproved BY DEF IInv
<1>. QED BY <1>1, InitInv, StepInv, PTL DEF Spec

(* The recorded publication is the branch on the remote.                   *)
THEOREM PublicationIdentity == Spec => []PublicationIsTheBranch
<1>1. IInv => PublicationIsTheBranch BY DEF IInv
<1>. QED BY <1>1, InitInv, StepInv, PTL DEF Spec
-----------------------------------------------------------------------------
(* Calls that are kept apart, and none that dies.                          *)
(*                                                                         *)
(* What the checks of apply_human_decision found is then still so at the   *)
(* effect and at its record: the operation is due, an effect has its       *)
(* record or a call that is about to write it, and the prior release of a  *)
(* deployment is an older one.  A host that does not name its releases     *)
(* leaves no trace of a deployment in the record.                          *)

AtRecord == {"record_read", "record_write"}
Recording(o, m) == \E c \in Callers : mi[c] = m /\ op[c] = o /\ pc[c] \in AtRecord

(* Release 0 is the one the host runs at first.                            *)
Made(r) == r = 0 \/ (r \in Releases /\ by[r] # None)

ChangeCalm(m) ==
    /\ ~waiting[m] => approval[m] = "DENIED"
    /\ alive[m] /\ branch[m] # None => pub[m] # None \/ Recording("publish", m)
    /\ names /\ alive[m] /\ DeployedFor(m) # {} => dep[m] # None \/ Recording("deploy", m)
    /\ alive[m] /\ m \in rolled => rb[m] # None \/ Recording("rollback", m)
    /\ names => \A r, s \in DeployedFor(m) : r = s
    /\ ~names => dep[m] = None /\ prior[m] = None
    /\ prior[m] # None => Made(prior[m]) /\ prior[m] \notin DeployedFor(m)

CallCalm(c) ==
    /\ pc[c] = "deny" => approval[mi[c]] = "DENIED"
    /\ pc[c] \in AtRecord \cup {"effect"} =>
          Due(op[c], mi[c]) /\ (op[c] = "rollback" => got[c] = prior[mi[c]])
    /\ names /\ pc[c] = "effect" /\ op[c] = "deploy" => DeployedFor(mi[c]) = {}
    /\ pc[c] \in AtRecord /\ op[c] = "deploy" => names
    /\ pc[c] \in AtRecord /\ op[c] = "deploy" /\ was[c] # None =>
          Made(was[c]) /\ was[c] \notin DeployedFor(mi[c])
    /\ pc[c] \in AtRecord /\ op[c] = "rollback" => live = got[c]

Alone == \A c, d \in Callers : pc[c] # "idle" /\ pc[d] # "idle" => c = d

Calm ==
    /\ Alone
    /\ Made(live)
    /\ \A m \in Missions : ChangeCalm(m)
    /\ \A c \in Callers : CallCalm(c)

CalmInv == calm => Calm

LEMMA InitCalm == CalmInit => CalmInv
<1>. SUFFICES ASSUME Init PROVE Calm BY DEF CalmInit, CalmInv
<1>1. \A m \in Missions : DeployedFor(m) = {}
  BY ReleaseAssumption DEF ReleaseAssumption, Init, DeployedFor
<1>2. \A m \in Missions : ChangeCalm(m) BY <1>1 DEF Init, ChangeCalm
<1>3. \A c \in Callers : CallCalm(c) BY DEF Init, CallCalm, AtRecord
<1>4. Alone /\ Made(live) BY DEF Init, Alone, Made
<1>. QED BY <1>2, <1>3, <1>4 DEF Calm

(* While call c is under way nobody else records anything.                 *)
LEMMA OnlyCaller ==
    ASSUME NEW c \in Callers, \A d \in Callers : d # c => pc[d] = "idle",
           NEW o, NEW m
    PROVE  Recording(o, m) <=> (mi[c] = m /\ op[c] = o /\ pc[c] \in AtRecord)
BY DEF Recording, AtRecord

(* The same after the step.                                                *)
LEMMA OnlyCallerNext ==
    ASSUME NEW c \in Callers, NEW o, NEW m,
           mi'[c] = m, op'[c] = o, pc'[c] \in AtRecord
    PROVE  Recording(o, m)'
BY DEF Recording

(* A call that is kept apart finds, and leaves, the others idle.           *)
LEMMA KeptApart ==
    ASSUME NEW c \in Callers, Others(c), Alone, Alone', pc[c] # "idle" \/ pc'[c] # "idle",
           NEW d \in Callers, d # c
    PROVE  pc[d] = "idle" /\ pc'[d] = "idle"
BY DEF Others, Same, Alone

(* A change whose rows, requests and effects a step leaves alone.          *)
LEMMA ChangeKeeps ==
    ASSUME NEW m \in Missions, ChangeCalm(m),
           waiting'[m] = waiting[m], approval'[m] = approval[m], alive'[m] = alive[m],
           branch'[m] = branch[m], pub'[m] = pub[m], dep'[m] = dep[m],
           prior'[m] = prior[m], rb'[m] = rb[m], by' = by, names' = names,
           m \in rolled' => m \in rolled,
           \A o \in Operations : Recording(o, m) => Recording(o, m)'
    PROVE  ChangeCalm(m)'
<1>1. DeployedFor(m)' = DeployedFor(m) BY DEF DeployedFor
<1>2. \A r : Made(r)' <=> Made(r) BY DEF Made
<1>. QED BY <1>1, <1>2 DEF ChangeCalm, Operations

(* A step of c that ends in a label where a call has nothing to keep.      *)
LEMMA CallsIdle ==
    ASSUME NEW c \in Callers, \A d \in Callers : d # c => pc'[d] = "idle", CallCalm(c)'
    PROVE  \A d \in Callers : CallCalm(d)'
<1>. SUFFICES ASSUME NEW d \in Callers, d # c PROVE CallCalm(d)' OBVIOUS
<1>. QED BY DEF CallCalm, AtRecord

(* The head of a call, its checks, and an effect that does not happen.     *)
LEMMA CalmCheck ==
    ASSUME IInv, Calm, NEW c \in Callers, Alone',
           \/ \E o \in Operations, m \in Missions : Start(c, o, m)
           \/ ApplyDecision(c) \/ DenyWrite(c) \/ EffectFails(c)
    PROVE  Calm'
<1>. TypeOK /\ CallType /\ CallOK(c) /\ CallCalm(c) /\ Alone
  BY DEF IInv, TypeOK, CallType, Calm
<1>0. /\ UNCHANGED <<request, record, remote, host>> /\ pc[c] \notin AtRecord
      /\ pc[c] # "idle" \/ pc'[c] = "apply"
  BY DEF Start, ApplyDecision, DenyWrite, EffectFails, AtRecord, CallType
<1>1. Others(c)
  <2>1. CASE \E o \in Operations, m \in Missions : Start(c, o, m)
    BY <2>1 DEF Start, CallType, Others, Same
  <2>2. CASE ApplyDecision(c)
    BY <2>2, Locals DEF ApplyDecision, Goto, CallType, Others, Same
  <2>3. CASE DenyWrite(c) \/ EffectFails(c)
    BY <2>3, Locals DEF DenyWrite, EffectFails
  <2>. QED BY <2>1, <2>2, <2>3
<1>2. \A d \in Callers : d # c => pc[d] = "idle" /\ pc'[d] = "idle"
  BY <1>0, <1>1, KeptApart
<1>3. \A o, m : ~Recording(o, m) BY <1>0, <1>2, OnlyCaller
<1>4. Made(live)' BY <1>0 DEF Calm, Made, host
<1>5. \A m \in Missions : ChangeCalm(m)'
  <2>1. CASE UNCHANGED waiting
    BY <1>0, <1>3, <2>1, ChangeKeeps DEF Calm, request, record, remote, host
  <2>2. CASE DenyWrite(c)
    <3>1. pc[c] = "deny" /\ mi[c] \in Missions BY <2>2 DEF DenyWrite, CallOK
    <3>2. approval[mi[c]] = "DENIED" BY <3>1 DEF CallCalm
    <3>3. ASSUME NEW m \in Missions, m # mi[c] PROVE ChangeCalm(m)'
      <4>1. waiting'[m] = waiting[m] BY <2>2, <3>3 DEF DenyWrite, TypeOK
      <4>. QED BY <1>0, <1>3, <4>1, ChangeKeeps DEF Calm, request, record, remote, host
    <3>4. ASSUME NEW m \in Missions, m = mi[c] PROVE ChangeCalm(m)'
      <4>1. approval'[m] = "DENIED" BY <1>0, <3>2, <3>4 DEF request
      <4>2. DeployedFor(m)' = DeployedFor(m) BY <1>0 DEF DeployedFor, host
      <4>3. \A r : Made(r)' <=> Made(r) BY <1>0 DEF Made, host
      <4>. QED BY <1>0, <1>3, <4>1, <4>2, <4>3 DEF Calm, ChangeCalm, request, record, remote, host
    <3>. QED BY <3>3, <3>4
  <2>. QED BY <2>1, <2>2 DEF Start, ApplyDecision, EffectFails
<1>6. CallCalm(c)'
  <2>1. CASE pc'[c] \in {"idle", "apply"} BY <2>1 DEF CallCalm, AtRecord
  <2>2. CASE ApplyDecision(c) /\ Goto(c, "deny") /\ approval[mi[c]] = "DENIED"
             /\ UNCHANGED <<op, mi, got, was>>
    <3>1. pc'[c] = "deny" /\ approval'[mi'[c]] = "DENIED"
      BY <1>0, <2>2 DEF Goto, CallType, request
    <3>. QED BY <3>1 DEF CallCalm, AtRecord
  <2>3. CASE ApplyDecision(c) /\ Goto(c, "effect") /\ alive[mi[c]] /\ Due(op[c], mi[c])
             /\ got' = (IF op[c] = "rollback" THEN [got EXCEPT ![c] = prior[mi[c]]] ELSE got)
             /\ UNCHANGED <<op, mi, was>>
    <3>1. pc'[c] = "effect" /\ mi[c] \in Missions
          /\ (op[c] = "rollback" => got'[c] = prior[mi[c]])
      BY <2>3 DEF Goto, CallType, CallOK, ApplyDecision
    <3>2. Due(op[c], mi[c])' BY <1>0, <2>3 DEF Due, record
    <3>3. names /\ op[c] = "deploy" => DeployedFor(mi[c]) = {}
      BY <1>3, <2>3, <3>1 DEF Calm, ChangeCalm, Due
    <3>4. names' /\ op'[c] = "deploy" => DeployedFor(mi[c])' = {}
      BY <1>0, <2>3, <3>3 DEF DeployedFor, host
    <3>. QED BY <1>0, <2>3, <3>1, <3>2, <3>4 DEF CallCalm, AtRecord, record
  <2>. QED BY <2>1, <2>2, <2>3
       DEF Start, ApplyDecision, DenyWrite, EffectFails, Finish, CallType
<1>. QED BY <1>2, <1>4, <1>5, <1>6, CallsIdle DEF Calm

(* The three effects: one happens once, and its record is under way.       *)
LEMMA CalmPublish ==
    ASSUME IInv, Calm, NEW c \in Callers, Alone', Publish(c)
    PROVE  Calm'
<1>. TypeOK /\ CallType /\ CallOK(c) /\ CallCalm(c) /\ Alone
  BY DEF IInv, TypeOK, CallType, Calm
<1>0. /\ pc[c] = "effect" /\ op[c] = "publish" /\ mi[c] \in Missions
      /\ UNCHANGED <<waiting, request, record, host>>
  BY DEF Publish, CallOK
<1>1. Others(c) BY Locals DEF Publish, Goto, CallType, Others, Same
<1>2. \A d \in Callers : d # c => pc[d] = "idle" /\ pc'[d] = "idle"
  BY <1>0, <1>1, KeptApart
<1>3. \A o, m : ~Recording(o, m) BY <1>0, <1>2, OnlyCaller DEF AtRecord
<1>4. Made(live)' BY <1>0 DEF Calm, Made, host
<1>5. CASE Finish(c) /\ UNCHANGED remote
  <2>1. \A m \in Missions : ChangeCalm(m)'
    BY <1>0, <1>3, <1>5, ChangeKeeps DEF Calm, request, record, remote, host
  <2>2. CallCalm(c)' BY <1>5, Locals DEF CallCalm, AtRecord
  <2>. QED BY <1>2, <1>4, <2>1, <2>2, CallsIdle DEF Calm
<1>6. CASE /\ branch' = [branch EXCEPT ![mi[c]] = commits + 1]
           /\ pc'[c] = "record_read" /\ UNCHANGED <<op, mi, was>>
  <2>1. \A m \in Missions : m # mi[c] => ChangeCalm(m)'
    BY <1>0, <1>3, <1>6, ChangeKeeps DEF Calm, TypeOK, request, record, host
  <2>2. ASSUME NEW m \in Missions, m = mi[c] PROVE ChangeCalm(m)'
    <3>1. Recording("publish", m)' BY <1>0, <1>6, <2>2, OnlyCallerNext DEF AtRecord
    <3>2. DeployedFor(m)' = DeployedFor(m) BY <1>0 DEF DeployedFor, host
    <3>3. \A r : Made(r)' <=> Made(r) BY <1>0 DEF Made, host
    <3>. QED BY <1>0, <1>3, <3>1, <3>2, <3>3 DEF Calm, ChangeCalm, request, record, host
  <2>3. CallCalm(c)' BY <1>0, <1>6 DEF CallCalm, AtRecord, Due, record
  <2>. QED BY <1>2, <1>4, <2>1, <2>2, <2>3, CallsIdle DEF Calm
<1>. QED BY <1>5, <1>6 DEF Publish, Goto, CallType

LEMMA CalmDeployNamed ==
    ASSUME IInv, Calm, NEW c \in Callers, Alone', Deploy(c), names
    PROVE  Calm'
<1>. TypeOK /\ CallType /\ CallOK(c) /\ CallCalm(c) /\ Alone
  BY DEF IInv, TypeOK, CallType, Calm
<1>0. /\ pc[c] = "effect" /\ op[c] = "deploy" /\ mi[c] \in Missions
      /\ UNCHANGED <<waiting, request, record, remote, rolled, names, op, mi>>
  BY DEF Deploy, CallOK
<1>1. PICK r \in Releases :
        /\ by[r] = None /\ by' = [by EXCEPT ![r] = mi[c]] /\ live' = r
        /\ \E p \in {live, None} : was' = [was EXCEPT ![c] = p]
        /\ got' = [got EXCEPT ![c] = r] /\ Goto(c, "record_read")
  BY DEF Deploy
<1>2. Others(c) /\ pc'[c] = "record_read"
  BY <1>0, <1>1 DEF Goto, CallType, Others, Same
<1>3. \A d \in Callers : d # c => pc[d] = "idle" /\ pc'[d] = "idle"
  BY <1>0, <1>2, KeptApart
<1>4. \A o, m : ~Recording(o, m) BY <1>0, <1>3, OnlyCaller DEF AtRecord
<1>5. mi[c] # None /\ r # 0 BY <1>0, ReleaseAssumption DEF ReleaseAssumption, Releases
<1>6. /\ by'[r] = mi[c] /\ \A s \in Releases : s # r => by'[s] = by[s]
  BY <1>1 DEF TypeOK
<1>7. \A s : Made(s) => Made(s)' /\ s # r BY <1>1, <1>5, <1>6 DEF Made
<1>8. Made(live)' BY <1>0, <1>1, <1>5, <1>6 DEF Made
<1>9. DeployedFor(mi[c]) = {} BY <1>0 DEF CallCalm
<1>10. ASSUME NEW m \in Missions
       PROVE  DeployedFor(m)' = IF m = mi[c] THEN {r} ELSE DeployedFor(m)
  <2>1. \A s \in Releases : s \in DeployedFor(m)' <=> by'[s] = m BY DEF DeployedFor
  <2>2. \A s \in Releases : s \in DeployedFor(m) <=> by[s] = m BY DEF DeployedFor
  <2>3. by[r] # m BY <1>1, ReleaseAssumption DEF ReleaseAssumption
  <2>4. DeployedFor(m) \subseteq Releases /\ DeployedFor(m)' \subseteq Releases
    BY DEF DeployedFor
  <2>5. CASE m = mi[c] BY <1>6, <1>9, <2>1, <2>2, <2>4, <2>5
  <2>6. CASE m # mi[c] BY <1>6, <2>1, <2>2, <2>3, <2>4, <2>6
  <2>. QED BY <2>5, <2>6
<1>11. ASSUME NEW m \in Missions PROVE ChangeCalm(m)'
  <2>1. ChangeCalm(m) BY DEF Calm
  <2>2. m = mi[c] => Recording("deploy", m)'
    BY <1>0, <1>2, OnlyCallerNext DEF AtRecord
  <2>3. prior'[m] # None => Made(prior[m])' /\ prior'[m] \notin DeployedFor(m)'
    <3>1. prior'[m] = prior[m] BY <1>0 DEF record
    <3>2. prior[m] # None => Made(prior[m]) /\ prior[m] # r BY <1>7, <2>1 DEF ChangeCalm
    <3>3. prior[m] # None => Made(prior[m])' BY <1>0, <1>7, <3>2 DEF Made, record
    <3>. QED BY <1>10, <2>1, <3>1, <3>2, <3>3 DEF ChangeCalm
  <2>4. \A s, t \in DeployedFor(m)' : s = t BY <1>10, <2>1 DEF ChangeCalm
  <2>5. alive'[m] /\ DeployedFor(m)' # {} => dep'[m] # None \/ Recording("deploy", m)'
    BY <1>0, <1>4, <1>10, <2>1, <2>2 DEF ChangeCalm, record, request
  <2>. QED BY <1>0, <1>4, <2>1, <2>3, <2>4, <2>5 DEF ChangeCalm, request, record, remote
<1>12. CallCalm(c)'
  <2>1. Due(op[c], mi[c])' BY <1>0 DEF CallCalm, Due, record
  <2>2. was'[c] = live \/ was'[c] = None BY <1>1 DEF CallType
  <2>3. was'[c] # None => Made(was[c])' /\ was'[c] # r BY <1>7, <2>2 DEF Calm, Made
  <2>4. DeployedFor(mi[c])' = {r} BY <1>0, <1>10 DEF DeployedFor
  <2>. QED BY <1>0, <1>2, <2>1, <2>3, <2>4 DEF CallCalm, AtRecord
<1>. QED BY <1>3, <1>8, <1>11, <1>12, CallsIdle DEF Calm

(* A host that does not name the release: nothing comes of it but a release.*)
LEMMA CalmDeployUnnamed ==
    ASSUME IInv, Calm, NEW c \in Callers, Alone', Deploy(c), ~names
    PROVE  Calm'
<1>. TypeOK /\ CallType /\ CallOK(c) /\ CallCalm(c) /\ Alone
  BY DEF IInv, TypeOK, CallType, Calm
<1>0. /\ pc[c] = "effect" /\ mi[c] \in Missions /\ Finish(c)
      /\ UNCHANGED <<waiting, request, record, remote, rolled, names>>
  BY DEF Deploy, CallOK
<1>1. PICK r \in Releases : by' = [by EXCEPT ![r] = mi[c]] /\ live' = r BY DEF Deploy
<1>2. Others(c) /\ pc'[c] = "idle" BY <1>0, Locals
<1>3. \A d \in Callers : d # c => pc[d] = "idle" /\ pc'[d] = "idle"
  BY <1>0, <1>2, KeptApart
<1>4. \A o, m : ~Recording(o, m) BY <1>0, <1>3, OnlyCaller DEF AtRecord
<1>5. mi[c] # None BY <1>0, ReleaseAssumption DEF ReleaseAssumption
<1>6. Made(live)' BY <1>1, <1>5 DEF Made, TypeOK
<1>7. \A m \in Missions : ChangeCalm(m)'
  BY <1>0, <1>4 DEF Calm, ChangeCalm, request, record, remote
<1>8. CallCalm(c)' BY <1>2 DEF CallCalm, AtRecord
<1>. QED BY <1>3, <1>6, <1>7, <1>8, CallsIdle DEF Calm

LEMMA CalmDeploy ==
    ASSUME IInv, Calm, NEW c \in Callers, Alone', Deploy(c)
    PROVE  Calm'
BY CalmDeployNamed, CalmDeployUnnamed

LEMMA CalmRollbackStep ==
    ASSUME IInv, Calm, NEW c \in Callers, Alone', Rollback(c)
    PROVE  Calm'
<1>. TypeOK /\ CallType /\ CallOK(c) /\ CallCalm(c) /\ Alone
  BY DEF IInv, TypeOK, CallType, Calm
<1>0. /\ pc[c] = "effect" /\ op[c] = "rollback" /\ mi[c] \in Missions
      /\ live' = got[c] /\ rolled' = rolled \cup {mi[c]}
      /\ pc'[c] = "record_read"
      /\ UNCHANGED <<waiting, request, record, remote, by, names, op, mi, got, was>>
  BY DEF Rollback, CallOK, Goto, CallType
<1>1. Others(c) BY DEF Rollback, Goto, CallType, Others, Same
<1>2. \A d \in Callers : d # c => pc[d] = "idle" /\ pc'[d] = "idle"
  BY <1>0, <1>1, KeptApart
<1>3. \A o, m : ~Recording(o, m) BY <1>0, <1>2, OnlyCaller DEF AtRecord
<1>4. got[c] = prior[mi[c]] /\ prior[mi[c]] # None
  BY <1>0 DEF CallCalm, Due
<1>5. Made(live)'
  <2>1. Made(got[c]) BY <1>0, <1>4 DEF Calm, ChangeCalm
  <2>. QED BY <1>0, <2>1 DEF Made
<1>6. \A m \in Missions : m # mi[c] => ChangeCalm(m)'
  BY <1>0, <1>3, ChangeKeeps DEF Calm, request, record, remote
<1>7. ASSUME NEW m \in Missions, m = mi[c] PROVE ChangeCalm(m)'
  <2>1. Recording("rollback", m)' BY <1>0, <1>7, OnlyCallerNext DEF AtRecord
  <2>2. DeployedFor(m)' = DeployedFor(m) BY <1>0 DEF DeployedFor
  <2>3. \A r : Made(r)' <=> Made(r) BY <1>0 DEF Made
  <2>. QED BY <1>0, <1>3, <2>1, <2>2, <2>3 DEF Calm, ChangeCalm, request, record, remote
<1>8. CallCalm(c)' BY <1>0 DEF CallCalm, AtRecord, Due, record
<1>. QED BY <1>2, <1>5, <1>6, <1>7, <1>8, CallsIdle DEF Calm

(* The record: nothing has come between, unless the approval has expired.  *)
LEMMA CalmRecordRead ==
    ASSUME IInv, Calm, NEW c \in Callers, Alone', RecordRead(c)
    PROVE  Calm'
<1>. TypeOK /\ CallType /\ CallOK(c) /\ CallCalm(c) /\ Alone
  BY DEF IInv, TypeOK, CallType, Calm
<1>0. /\ pc[c] = "record_read" /\ mi[c] \in Missions /\ op[c] \in Operations
      /\ approval[mi[c]] = "APPROVED"
      /\ UNCHANGED <<waiting, request, record, remote, host>>
  BY DEF RecordRead, CallOK
<1>1. Others(c) BY Locals DEF RecordRead
<1>2. \A d \in Callers : d # c => pc[d] = "idle" /\ pc'[d] = "idle"
  BY <1>0, <1>1, KeptApart
<1>3. Made(live)' BY <1>0 DEF Calm, Made, host
<1>4. \A o, m : Recording(o, m) => mi[c] = m /\ op[c] = o BY <1>2, OnlyCaller
<1>5. \A m \in Missions : m # mi[c] => ChangeCalm(m)'
  BY <1>0, <1>4, ChangeKeeps DEF Calm, request, record, remote, host
<1>6. CASE pc'[c] = "record_write" /\ UNCHANGED <<op, mi, got, was>>
  <2>1. \A m \in Missions, o \in Operations : Recording(o, m) => Recording(o, m)'
    BY <1>4, <1>6, OnlyCallerNext DEF AtRecord
  <2>2. \A m \in Missions : ChangeCalm(m)'
    BY <1>0, <2>1, ChangeKeeps DEF Calm, request, record, remote, host
  <2>3. CallCalm(c)'
    BY <1>0, <1>6 DEF CallCalm, AtRecord, Due, Made, DeployedFor, record, host
  <2>. QED BY <1>2, <1>3, <2>2, <2>3, CallsIdle DEF Calm
<1>7. CASE Finish(c) /\ ~(/\ waiting[mi[c]] /\ alive[mi[c]] /\ approval[mi[c]] = "APPROVED"
                          /\ Due(op[c], mi[c])
                          /\ op[c] = "rollback" => got[c] = prior[mi[c]])
  <2>1. waiting[mi[c]] BY <1>0 DEF Calm, ChangeCalm
  <2>2. ~alive[mi[c]] BY <1>0, <1>7, <2>1 DEF CallCalm, AtRecord
  <2>3. ASSUME NEW m \in Missions, m = mi[c] PROVE ChangeCalm(m)'
    <3>1. ~alive'[m] BY <1>0, <2>2, <2>3 DEF request
    <3>2. DeployedFor(m)' = DeployedFor(m) BY <1>0 DEF DeployedFor, host
    <3>3. \A r : Made(r)' <=> Made(r) BY <1>0 DEF Made, host
    <3>. QED BY <1>0, <3>1, <3>2, <3>3 DEF Calm, ChangeCalm, request, record, host
  <2>4. CallCalm(c)' BY <1>7, Locals DEF CallCalm, AtRecord
  <2>. QED BY <1>2, <1>3, <1>5, <2>3, <2>4, CallsIdle DEF Calm
<1>. QED BY <1>6, <1>7 DEF RecordRead, Goto, CallType

LEMMA CalmRecordWrite ==
    ASSUME IInv, Calm, NEW c \in Callers, Alone', RecordWrite(c)
    PROVE  Calm'
<1>. TypeOK /\ CallType /\ CallOK(c) /\ CallCalm(c) /\ Alone
  BY DEF IInv, TypeOK, CallType, Calm
<1>0. /\ pc[c] = "record_write" /\ mi[c] \in Missions /\ op[c] \in Operations
      /\ got[c] \in Nat /\ Finish(c) /\ UNCHANGED <<waiting, request, remote, host>>
  BY DEF RecordWrite, CallOK
<1>1. Others(c) /\ pc'[c] = "idle" BY <1>0, Locals
<1>2. \A d \in Callers : d # c => pc[d] = "idle" /\ pc'[d] = "idle"
  BY <1>0, <1>1, KeptApart
<1>3. Made(live)' BY <1>0 DEF Calm, Made, host
<1>4. \A o, m : Recording(o, m) => mi[c] = m /\ op[c] = o BY <1>2, OnlyCaller
<1>5. got[c] # None BY <1>0, ReleaseAssumption DEF ReleaseAssumption
<1>6. ASSUME NEW m \in Missions, m # mi[c] PROVE ChangeCalm(m)'
  <2>1. pub'[m] = pub[m] /\ dep'[m] = dep[m] /\ prior'[m] = prior[m] /\ rb'[m] = rb[m]
    BY <1>0, <1>6 DEF RecordWrite, TypeOK
  <2>. QED BY <1>0, <1>4, <1>6, <2>1, ChangeKeeps DEF Calm, request, remote, host
<1>7. ASSUME NEW m \in Missions, m = mi[c] PROVE ChangeCalm(m)'
  <2>1. ChangeCalm(m) BY DEF Calm
  <2>2. DeployedFor(m)' = DeployedFor(m) BY <1>0 DEF DeployedFor, host
  <2>3. \A r : Made(r)' <=> Made(r) BY <1>0 DEF Made, host
  <2>4. /\ op[c] = "publish" => pub'[m] = got[c]
        /\ op[c] # "publish" => pub'[m] = pub[m]
    BY <1>0, <1>7 DEF RecordWrite, TypeOK
  <2>5. /\ op[c] = "deploy" => dep'[m] = got[c]
        /\ op[c] # "deploy" => dep'[m] = dep[m]
    BY <1>0, <1>7 DEF RecordWrite, TypeOK
  <2>6. /\ op[c] = "rollback" => rb'[m] = got[c]
        /\ op[c] # "rollback" => rb'[m] = rb[m]
    BY <1>0, <1>7 DEF RecordWrite, TypeOK
  <2>7. prior'[m] = prior[m] \/ (op[c] = "deploy" /\ was[c] # None /\ prior'[m] = was[c])
    BY <1>0, <1>7 DEF RecordWrite, TypeOK
  <2>8. prior'[m] # None => Made(prior'[m]) /\ prior'[m] \notin DeployedFor(m)
    BY <1>0, <1>7, <2>1, <2>7 DEF ChangeCalm, CallCalm, AtRecord
  <2>9. /\ alive[m] /\ branch[m] # None => pub'[m] # None
        /\ names /\ alive[m] /\ DeployedFor(m) # {} => dep'[m] # None
        /\ alive[m] /\ m \in rolled => rb'[m] # None
    BY <1>4, <1>5, <2>1, <2>4, <2>5, <2>6 DEF ChangeCalm
  <2>10. prior'[m] # None => Made(prior[m])' /\ prior'[m] \notin DeployedFor(m)'
    BY <1>0, <2>2, <2>8 DEF Made, host
  <2>11. ~names => dep'[m] = None /\ prior'[m] = None
    BY <1>0, <2>1, <2>5, <2>7 DEF ChangeCalm, CallCalm, AtRecord
  <2>. QED BY <1>0, <2>1, <2>2, <2>9, <2>10, <2>11 DEF ChangeCalm, request, remote, host
<1>8. CallCalm(c)' BY <1>1 DEF CallCalm, AtRecord
<1>. QED BY <1>2, <1>3, <1>6, <1>7, <1>8, CallsIdle DEF Calm

(* People and the clock.                                                   *)
LEMMA CalmEnv ==
    ASSUME IInv, Calm, NEW m \in Missions,
           (\E x \in {"APPROVED", "DENIED"} : Decide(m, x)) \/ ExpireApproval(m)
    PROVE  Calm'
<1>. TypeOK BY DEF IInv
<1>0. UNCHANGED <<waiting, record, remote, host, call>> BY DEF Decide, ExpireApproval
<1>1. \A n \in Missions : approval[n] = "DENIED" => approval'[n] = "DENIED"
  BY DEF Decide, ExpireApproval, TypeOK
<1>2. \A n \in Missions : alive'[n] => alive[n]
  BY DEF Decide, ExpireApproval, TypeOK
<1>3. \A n : DeployedFor(n)' = DeployedFor(n) BY <1>0 DEF DeployedFor, host
<1>4. \A r : Made(r)' <=> Made(r) BY <1>0 DEF Made, host
<1>5. \A o, n : Recording(o, n)' <=> Recording(o, n) BY <1>0 DEF Recording, call
<1>6. \A n \in Missions : ChangeCalm(n)'
  BY <1>0, <1>1, <1>2, <1>3, <1>4, <1>5 DEF Calm, ChangeCalm, record, remote, host
<1>7. ASSUME NEW c \in Callers PROVE CallCalm(c)'
  <2>1. CallCalm(c) BY DEF Calm
  <2>2. pc[c] # "idle" => mi[c] \in Missions BY DEF IInv, CallOK
  <2>3. /\ pc'[c] = pc[c] /\ mi'[c] = mi[c] /\ op'[c] = op[c] /\ got'[c] = got[c]
        /\ was'[c] = was[c] /\ live' = live /\ by' = by /\ names' = names
    BY <1>0 DEF call, host
  <2>4. Due(op[c], mi[c])' <=> Due(op[c], mi[c]) BY <1>0 DEF Due, record, call
  <2>5. pc'[c] = "deny" => approval'[mi'[c]] = "DENIED"
    BY <1>1, <2>1, <2>2, <2>3 DEF CallCalm
  <2>. QED BY <1>0, <2>1, <2>3, <2>4, <2>5 DEF CallCalm, Made, DeployedFor, record
<1>8. Alone' /\ Made(live)' BY <1>0 DEF Calm, Alone, Made, call, host
<1>. QED BY <1>6, <1>7, <1>8 DEF Calm

LEMMA CalmStep ==
    ASSUME IInv, CalmInv, [CalmNext]_<<vars, calm>>
    PROVE  CalmInv'
<1>1. CASE UNCHANGED <<vars, calm>>
  <2>1. SUFFICES ASSUME Calm PROVE Calm' BY <1>1 DEF CalmInv
  <2>2. \A n : DeployedFor(n)' = DeployedFor(n) BY <1>1 DEF DeployedFor, vars, host
  <2>3. \A r : Made(r)' <=> Made(r) BY <1>1 DEF Made, vars, host
  <2>4. \A o, n : Recording(o, n)' <=> Recording(o, n) BY <1>1 DEF Recording, vars, call
  <2>5. \A n \in Missions : ChangeCalm(n)'
    BY <1>1, <2>1, <2>2, <2>3, <2>4 DEF Calm, ChangeCalm, vars, request, record, remote, host
  <2>6. \A c \in Callers : CallCalm(c)'
    BY <1>1, <2>1 DEF Calm, CallCalm, Due, Made, DeployedFor, vars, request, record, host, call
  <2>7. Alone' /\ Made(live)' BY <1>1, <2>1 DEF Calm, Alone, Made, vars, call, host
  <2>. QED BY <2>5, <2>6, <2>7 DEF Calm
<1>2. CASE CalmNext
  <2>1. SUFFICES ASSUME calm' PROVE Calm' BY DEF CalmInv
  <2>2. calm /\ faults' = 0 /\ Alone' BY <1>2, <2>1 DEF CalmNext, Alone
  <2>3. Calm BY <2>2 DEF CalmInv
  <2>4. \A c \in Callers : ~Fault(c)
    BY <2>2, ReleaseAssumption DEF Fault, IInv, TypeOK, ReleaseAssumption
  <2>5. ASSUME NEW c \in Callers, CallStep(c) PROVE Calm'
    BY <2>2, <2>3, <2>5, CalmCheck, CalmPublish, CalmDeploy, CalmRollbackStep,
       CalmRecordRead, CalmRecordWrite DEF CallStep
  <2>6. ASSUME NEW c \in Callers, NEW o \in Operations, NEW m \in Missions, Start(c, o, m)
        PROVE  Calm'
    BY <2>2, <2>3, <2>6, CalmCheck
  <2>. QED BY <1>2, <2>3, <2>4, <2>5, <2>6, CalmEnv DEF CalmNext, Next
<1>. QED BY <1>1, <1>2

LEMMA AlwaysCalm == CalmSpec => [](IInv /\ CalmInv)
<1>1. CalmInit => IInv /\ CalmInv BY InitInv, InitCalm DEF CalmInit
<1>2. IInv /\ CalmInv /\ [CalmNext]_<<vars, calm>> => (IInv /\ CalmInv)'
  <2>1. [CalmNext]_<<vars, calm>> => [Next]_vars BY DEF CalmNext
  <2>. QED BY <2>1, StepInv, CalmStep
<1>. QED BY <1>1, <1>2, PTL DEF CalmSpec

(* Calls that are kept apart and do not die record what they did:          *)
(* publish_, deploy_ and rollback_approved_ leave no branch or rollback of *)
(* a live approval without its record, and no release either if the host   *)
(* names it, which then is the only one; a host that does not leaves every *)
(* deployment unrecorded.  For any number of callers, changes, releases    *)
(* and repetitions.                                                        *)
THEOREM CalmCallsRecorded == CalmSpec => []CalmRecorded
<1>1. IInv /\ CalmInv => CalmRecorded
  <2>1. SUFFICES ASSUME IInv, Calm PROVE EffectsRecorded /\ (names => DeployedOnce)
    BY DEF CalmInv, CalmRecorded
  <2>2. EffectsRecorded BY <2>1 DEF Calm, ChangeCalm, EffectsRecorded, AtWork, Recording
  <2>3. ASSUME names, NEW m \in Missions PROVE Cardinality(DeployedFor(m)) <= 1
    <3>1. \A r, s \in DeployedFor(m) : r = s BY <2>1, <2>3 DEF Calm, ChangeCalm
    <3>2. CASE DeployedFor(m) = {} BY <3>2, FS_EmptySet
    <3>3. CASE DeployedFor(m) # {}
      <4>1. PICK r : DeployedFor(m) = {r} BY <3>1, <3>3
      <4>2. Cardinality({r}) = 1 BY FS_Singleton
      <4>3. Cardinality(DeployedFor(m)) = 1 BY <4>1, <4>2, Zenon
      <4>. QED BY <4>3
    <3>. QED BY <3>2, <3>3
  <2>. QED BY <2>2, <2>3 DEF DeployedOnce
<1>. QED BY <1>1, AlwaysCalm, PTL

(* A rollback that is recorded by a call kept apart from the others has    *)
(* taken the change out of production: record_rollback names the live      *)
(* release, and it is not one made for this change.                        *)
THEOREM CalmRollbackTakesOut == CalmSpec => CalmRollback
<1>1. IInv /\ CalmInv /\ [CalmNext]_<<vars, calm>> =>
        [calm' => \A m \in Missions :
           rb'[m] # rb[m] => live' = rb'[m] /\ live' \notin DeployedFor(m)]_<<vars, calm>>
  <2>1. SUFFICES ASSUME IInv, CalmInv, CalmNext, calm', NEW m \in Missions, rb'[m] # rb[m]
                 PROVE  live' = rb'[m] /\ live' \notin DeployedFor(m)
    OBVIOUS
  <2>2. Calm BY <2>1 DEF CalmNext, CalmInv
  <2>3. PICK c \in Callers : RecordWrite(c)
    BY <2>1 DEF CalmNext, Next, CallStep, record, Start, ApplyDecision, DenyWrite, EffectFails,
                Publish, Deploy, Rollback, RecordRead, Fault, Decide, ExpireApproval
  <2>4. op[c] = "rollback" /\ m = mi[c] /\ rb'[m] = got[c] /\ live' = live
    BY <2>1, <2>3 DEF RecordWrite, IInv, TypeOK, host
  <2>5. pc[c] = "record_write" /\ CallCalm(c) BY <2>2, <2>3 DEF RecordWrite, Calm
  <2>6. live = got[c] /\ got[c] = prior[m] /\ prior[m] # None
    BY <2>4, <2>5 DEF CallCalm, AtRecord, Due
  <2>. QED BY <2>2, <2>4, <2>6 DEF Calm, ChangeCalm
<1>. QED BY <1>1, AlwaysCalm, PTL DEF CalmSpec, CalmRollback
=============================================================================
