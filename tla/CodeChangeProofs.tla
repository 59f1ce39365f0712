--------------------------- MODULE CodeChangeProofs ---------------------------
(***************************************************************************)
(* Proofs about the preparation of code changes, for every number of       *)
(* workers, missions and requests.                                         *)
(*                                                                         *)
(* With leases that may run out at any time: a candidate, once written,    *)
(* and the subject of a request, once created, never change (Monotone).    *)
(* So what a call has read about them is still true when it writes         *)
(* (CallOK), however late it is.                                           *)
(*                                                                         *)
(* With leases that outlive the work: a mission has one worker at a time   *)
(* (SoleInv).  So everything a call has read about its mission is still    *)
(* true when it writes (AskInv, SettleInv).                                *)
(***************************************************************************)
EXTENDS CodeChange, TLAPS

(* What a worker's call knows at each point.                               *)
CallOK(w) ==
    /\ pc[w] # "idle" => mi[w] \in Missions /\ att[w] \in Nat
    /\ pc[w] \in {"qa_read", "qa_create", "qa_write"} => res[w] \in QAResults
    /\ pc[w] = "qa_create" => res[w] = "PASSED"
    /\ pc[w] \in {"qa_create", "qa_write"} => seen[w] \in Nat /\ cref[mi[w]] = seen[w]
    /\ pc[w] = "qa_write" /\ res[w] = "PASSED" =>
          /\ areq[w] \in ApprovalIds
          /\ akey[areq[w]] = <<mi[w], seen[w]>>
          /\ astate[areq[w]] # "ABSENT"
    /\ pc[w] \in {"current", "transition_read", "transition_write"} =>
          tgt[w] \in {"WAITING_APPROVAL", "COMPLETED", "FAILED"}

(* A delivery row has a candidate.                                         *)
DeliveryOK ==
    /\ \A m \in Missions : stage[m] # None <=> cref[m] # None
    /\ \A h \in Appliers : ap[h] # None => stage[ap[h]] # None

IInv == TypeOK /\ (\A w \in Workers : CallOK(w)) /\ DeliveryOK /\ ApprovalBindsCandidate

(* Candidates and the subjects of requests are written once.               *)
Monotone ==
    /\ \A m \in Missions : cref[m] # None => cref'[m] = cref[m]
    /\ \A a \in ApprovalIds :
          astate[a] # "ABSENT" => akey'[a] = akey[a] /\ astate'[a] # "ABSENT"

(* The calls of other workers are not touched.                             *)
Others(w) ==
    \A q \in Workers \ {w} :
        /\ pc'[q] = pc[q] /\ mi'[q] = mi[q] /\ att'[q] = att[q] /\ seen'[q] = seen[q]
        /\ res'[q] = res[q] /\ areq'[q] = areq[q] /\ tgt'[q] = tgt[q]

LocalType ==
    /\ pc \in [Workers -> Labels]
    /\ mi \in [Workers -> Missions \cup {None}]
    /\ att \in [Workers -> Nat \cup {None}]
    /\ seen \in [Workers -> Nat \cup {None}]
    /\ res \in [Workers -> QAResults \cup {None}]
    /\ areq \in [Workers -> ApprovalIds \cup {None}]
    /\ tgt \in [Workers -> {"WAITING_APPROVAL", "COMPLETED", "FAILED", None}]

USE DEF Stages, QAResults

-----------------------------------------------------------------------------
LEMMA InitInv == Init => IInv
<1>1. Init => TypeOK BY CodeChangeAssumption DEF Init, TypeOK, CodeChangeAssumption, Labels
<1>2. Init => (\A w \in Workers : CallOK(w)) BY DEF Init, CallOK
<1>3. Init => DeliveryOK /\ ApprovalBindsCandidate
  BY CodeChangeAssumption DEF Init, DeliveryOK, ApprovalBindsCandidate, CodeChangeAssumption
<1>. QED BY <1>1, <1>2, <1>3 DEF IInv

(* A call that ends keeps the types and touches only itself.               *)
LEMMA FinishLocal ==
    ASSUME NEW w \in Workers, LocalType, Finish(w)
    PROVE  LocalType' /\ Others(w) /\ pc'[w] = "idle"
BY DEF LocalType, Finish, Others, Labels

(* What a call knows stays true while others move.                         *)
LEMMA Keeps ==
    ASSUME NEW w \in Workers, CallOK(w), Monotone, LocalType,
           pc'[w] = pc[w], mi'[w] = mi[w], att'[w] = att[w], seen'[w] = seen[w],
           res'[w] = res[w], areq'[w] = areq[w], tgt'[w] = tgt[w]
    PROVE  CallOK(w)'
<1>1. /\ pc[w] # "idle" => mi[w] \in Missions /\ att[w] \in Nat
      /\ pc[w] \in {"qa_create", "qa_write"} => seen[w] \in Nat /\ cref'[mi[w]] = seen[w]
  BY CodeChangeAssumption DEF CallOK, Monotone, CodeChangeAssumption
<1>2. pc[w] = "qa_write" /\ res[w] = "PASSED" =>
          /\ areq[w] \in ApprovalIds
          /\ akey'[areq[w]] = <<mi[w], seen[w]>>
          /\ astate'[areq[w]] # "ABSENT"
  BY DEF CallOK, Monotone
<1>. QED BY <1>1, <1>2 DEF CallOK

LEMMA IdleOK ==
    ASSUME NEW w \in Workers, pc'[w] = "idle"
    PROVE  CallOK(w)'
BY DEF CallOK

(* So does the binding of a delivery that is not touched.                  *)
LEMMA Bound ==
    ASSUME TypeOK, DeliveryOK, ApprovalBindsCandidate, Monotone,
           NEW m \in Missions,
           stage'[m] = stage[m], qa'[m] = qa[m], aref'[m] = aref[m],
           stage[m] = "WAITING_APPROVAL"
    PROVE  /\ qa'[m] = "PASSED" /\ aref'[m] # None
           /\ akey'[aref'[m]] = <<m, cref'[m]>>
           /\ astate'[aref'[m]] # "ABSENT"
<1>1. aref[m] \in ApprovalIds BY DEF ApprovalBindsCandidate, TypeOK
<1>2. cref[m] # None BY CodeChangeAssumption DEF DeliveryOK, CodeChangeAssumption
<1>. QED BY <1>1, <1>2 DEF ApprovalBindsCandidate, Monotone

(* A step that leaves delivery and requests alone.                         *)
LEMMA Quiet ==
    ASSUME IInv, TypeOK', UNCHANGED <<delivery, appr>>,
           \A w \in Workers : CallOK(w)',
           \A h \in Appliers : ap'[h] # None => stage[ap'[h]] # None
    PROVE  IInv'
<1>1. Monotone BY DEF Monotone, delivery, appr
<1>2. DeliveryOK' BY DEF IInv, DeliveryOK, delivery
<1>3. ApprovalBindsCandidate' BY DEF IInv, ApprovalBindsCandidate, delivery, appr
<1>. QED BY <1>2, <1>3 DEF IInv

-----------------------------------------------------------------------------
(* Steps of a call that only read, and the ones that write the mission.    *)
LEMMA ReadSteps ==
    ASSUME NEW w \in Workers, IInv,
           \/ GetMission(w) \/ RenewLease(w) \/ GetDelivery(w) \/ RunDeveloper(w)
           \/ SubmitProposalRead(w) \/ RunQA(w) \/ RecordQARead(w)
           \/ ResultForMission(w) \/ CheckCurrent(w) \/ HandleFailure(w)
           \/ TransitionRead(w)
    PROVE  IInv'
<1>. TypeOK /\ CallOK(w) /\ DeliveryOK BY DEF IInv
<1>. LocalType BY DEF TypeOK, LocalType
<1>1. UNCHANGED <<mission, delivery, appr, ap, crashes>>
  BY DEF GetMission, RenewLease, GetDelivery, RunDeveloper, SubmitProposalRead, RunQA,
         RecordQARead, ResultForMission, CheckCurrent, HandleFailure, TransitionRead
<1>2. Monotone BY <1>1 DEF Monotone, delivery, appr
<1>3. LocalType' /\ Others(w) /\ CallOK(w)'
  <2>1. ASSUME Finish(w) PROVE LocalType' /\ Others(w) /\ CallOK(w)'
    BY <2>1, FinishLocal, IdleOK
  <2>2. CASE GetMission(w)
    BY <2>1, <2>2 DEF GetMission, Goto, LocalType, Others, CallOK, Labels
  <2>3. CASE RenewLease(w)
    BY <2>1, <2>3 DEF RenewLease, Goto, LocalType, Others, CallOK, Labels
  <2>4. CASE GetDelivery(w)
    <3>1. mi[w] \in Missions BY <2>4 DEF GetDelivery, CallOK
    <3>2. cref[mi[w]] \in Nat \cup {None} BY <3>1 DEF TypeOK
    <3>. QED BY <2>4, <3>1, <3>2 DEF GetDelivery, Goto, LocalType, Others, CallOK, Labels
  <2>5. CASE RunDeveloper(w) \/ SubmitProposalRead(w)
    BY <2>5 DEF RunDeveloper, SubmitProposalRead, Goto, LocalType, Others, CallOK, Labels
  <2>6. CASE RunQA(w)
    BY <2>6 DEF RunQA, Goto, LocalType, Others, CallOK, Labels
  <2>7. CASE RecordQARead(w)
    <3>1. mi[w] \in Missions BY <2>7 DEF RecordQARead, CallOK
    <3>2. /\ pc'[w] \in {"handler", "qa_write", "qa_create"}
          /\ pc'[w] # "handler" => stage[mi[w]] = "QA" /\ cref[mi[w]] = seen[w]
          /\ pc'[w] = "qa_write" => res[w] = "FAILED"
          /\ pc'[w] = "qa_create" => res[w] # "FAILED"
      BY <2>7 DEF RecordQARead, Goto, LocalType
    <3>3. stage[mi[w]] = "QA" => cref[mi[w]] \in Nat
      BY <3>1, CodeChangeAssumption DEF DeliveryOK, TypeOK, CodeChangeAssumption
    <3>4. CallOK(w)'
      BY <1>1, <2>7, <3>1, <3>2, <3>3 DEF RecordQARead, CallOK, delivery, appr
    <3>. QED BY <2>7, <3>4 DEF RecordQARead, Goto, LocalType, Others, Labels
  <2>8. CASE ResultForMission(w) \/ CheckCurrent(w) \/ HandleFailure(w)
    BY <2>8 DEF ResultForMission, CheckCurrent, HandleFailure, Goto, LocalType, Others,
                CallOK, Labels
  <2>9. CASE TransitionRead(w)
    BY <2>1, <2>9 DEF TransitionRead, Goto, LocalType, Others, CallOK, Labels
  <2>. QED BY <2>2, <2>3, <2>4, <2>5, <2>6, <2>7, <2>8, <2>9
<1>4. TypeOK'
  BY <1>1, <1>3 DEF TypeOK, LocalType, mission, delivery, appr
<1>5. \A q \in Workers : CallOK(q)'
  BY <1>2, <1>3, Keeps DEF IInv, Others
<1>6. \A h \in Appliers : ap'[h] # None => stage[ap'[h]] # None
  BY <1>1 DEF DeliveryOK
<1>. QED BY <1>1, <1>4, <1>5, <1>6, Quiet

LEMMA MissionSteps ==
    ASSUME NEW w \in Workers, IInv,
           TransitionWrite(w) \/ ReleaseLease(w) \/ Crash(w)
    PROVE  IInv'
<1>. TypeOK /\ CallOK(w) /\ DeliveryOK BY DEF IInv
<1>. LocalType BY DEF TypeOK, LocalType
<1>1. UNCHANGED <<attempts, delivery, appr, ap>>
  BY DEF TransitionWrite, ReleaseLease, Crash
<1>2. Monotone BY <1>1 DEF Monotone, delivery, appr
<1>3. LocalType' /\ Others(w) /\ CallOK(w)'
  <2>1. CASE TransitionWrite(w)
    BY <2>1 DEF TransitionWrite, Goto, LocalType, Others, CallOK, Labels
  <2>2. CASE ReleaseLease(w) \/ Crash(w)
    BY <2>2, FinishLocal, IdleOK DEF ReleaseLease, Crash
  <2>. QED BY <2>1, <2>2
<1>4. /\ mstatus' \in [Missions -> MissionStatus \cup {"ABSENT"}]
      /\ lowner' \in [Missions -> Workers \cup {None, Gone}]
      /\ lease' \in [Missions -> {"none", "live", "expired"}]
      /\ crashes' \in 0..MaxCrashes
  <2>1. CASE TransitionWrite(w)
    BY <2>1 DEF TransitionWrite, CallOK, TypeOK, MissionStatus
  <2>2. CASE ReleaseLease(w)
    BY <2>2 DEF ReleaseLease, TypeOK
  <2>3. CASE Crash(w)
    BY <2>3, CodeChangeAssumption DEF Crash, TypeOK, CodeChangeAssumption
  <2>. QED BY <2>1, <2>2, <2>3
<1>5. TypeOK' BY <1>1, <1>3, <1>4 DEF TypeOK, LocalType, delivery, appr
<1>6. \A q \in Workers : CallOK(q)'
  BY <1>2, <1>3, Keeps DEF IInv, Others
<1>7. \A h \in Appliers : ap'[h] # None => stage[ap'[h]] # None
  BY <1>1 DEF DeliveryOK
<1>. QED BY <1>1, <1>5, <1>6, <1>7, Quiet


-----------------------------------------------------------------------------
(* The steps that write a delivery or a request.                           *)
LEMMA WriteSteps ==
    ASSUME NEW w \in Workers, IInv,
           SubmitProposalWrite(w) \/ CreateRequest(w) \/ RecordQAWrite(w)
    PROVE  IInv' /\ Monotone
<1>. TypeOK /\ CallOK(w) /\ DeliveryOK /\ ApprovalBindsCandidate BY DEF IInv
<1>. LocalType BY DEF TypeOK, LocalType
<1>. mi[w] \in Missions /\ att[w] \in Nat
  BY DEF SubmitProposalWrite, CreateRequest, RecordQAWrite, CallOK
<1>1. UNCHANGED <<lowner, lease, attempts, ap, crashes>>
  BY DEF SubmitProposalWrite, CreateRequest, RecordQAWrite, mission
<1>2. CASE SubmitProposalWrite(w)
  <2>1. UNCHANGED <<mission, qa, aref, appr>> BY <1>2 DEF SubmitProposalWrite
  <2>2. LocalType' /\ Others(w) /\ CallOK(w)'
    BY <1>2 DEF SubmitProposalWrite, Goto, LocalType, Others, CallOK, Labels
  <2>3. \/ stage' = stage /\ cref' = cref
        \/ /\ stage[mi[w]] = None
           /\ stage' = [stage EXCEPT ![mi[w]] = "QA"]
           /\ cref' = [cref EXCEPT ![mi[w]] = att[w]]
    BY <1>2 DEF SubmitProposalWrite
  <2>4. Monotone BY <2>1, <2>3 DEF Monotone, DeliveryOK, TypeOK, appr
  <2>5. /\ stage' \in [Missions -> Stages \cup {None}]
        /\ cref' \in [Missions -> Nat \cup {None}]
    BY <2>3 DEF TypeOK
  <2>6. TypeOK' BY <1>1, <2>1, <2>2, <2>5 DEF TypeOK, LocalType, mission, appr
  <2>7. \A q \in Workers : CallOK(q)' BY <2>2, <2>4, Keeps DEF IInv, Others
  <2>8. DeliveryOK'
    BY <1>1, <2>3, CodeChangeAssumption DEF DeliveryOK, TypeOK, CodeChangeAssumption
  <2>9. ApprovalBindsCandidate'
    <3>1. SUFFICES ASSUME NEW m \in Missions, stage'[m] = "WAITING_APPROVAL"
                   PROVE  /\ qa'[m] = "PASSED" /\ aref'[m] # None
                          /\ akey'[aref'[m]] = <<m, cref'[m]>>
                          /\ astate'[aref'[m]] # "ABSENT"
      BY DEF ApprovalBindsCandidate
    <3>2. stage'[m] = stage[m] BY <2>3, <3>1 DEF TypeOK
    <3>. QED BY <2>1, <2>4, <3>1, <3>2, Bound
  <2>. QED BY <2>4, <2>6, <2>7, <2>8, <2>9 DEF IInv
<1>3. CASE CreateRequest(w)
  <2>1. UNCHANGED <<mission, delivery>> BY <1>3 DEF CreateRequest
  <2>2. PICK a \in ApprovalIds :
          /\ astate[a] = "ABSENT"
          /\ astate' = [astate EXCEPT ![a] = "PENDING"]
          /\ akey' = [akey EXCEPT ![a] = <<mi[w], seen[w]>>]
          /\ alive' = [alive EXCEPT ![a] = TRUE]
          /\ areq' = [areq EXCEPT ![w] = a]
    BY <1>3 DEF CreateRequest
  <2>3. seen[w] \in Nat /\ cref[mi[w]] = seen[w] BY <1>3 DEF CreateRequest, CallOK
  <2>4. /\ LocalType' /\ Others(w)
        /\ pc'[w] = "qa_write" /\ mi' = mi /\ att' = att /\ seen' = seen /\ res' = res
    BY <1>3, <2>2 DEF CreateRequest, Goto, LocalType, Others, Labels
  <2>5. Monotone BY <2>1, <2>2 DEF Monotone, delivery, TypeOK
  <2>6. CallOK(w)'
    <3>1. res[w] = "PASSED" BY <1>3 DEF CreateRequest, CallOK
    <3>2. areq'[w] = a /\ akey'[a] = <<mi[w], seen[w]>> /\ astate'[a] = "PENDING"
      BY <2>2 DEF TypeOK
    <3>. QED BY <2>1, <2>3, <2>4, <3>1, <3>2 DEF CallOK, delivery
  <2>7. TypeOK'
    <3>1. akey' \in [ApprovalIds -> (Missions \X Nat) \cup {None}]
      BY <2>2, <2>3 DEF TypeOK
    <3>2. /\ astate' \in [ApprovalIds -> {"ABSENT", "PENDING", "APPROVED", "DENIED"}]
          /\ alive' \in [ApprovalIds -> BOOLEAN]
      BY <2>2 DEF TypeOK
    <3>. QED BY <1>1, <2>1, <2>4, <3>1, <3>2 DEF TypeOK, LocalType, mission, delivery
  <2>8. \A q \in Workers : CallOK(q)' BY <2>4, <2>5, <2>6, Keeps DEF IInv, Others
  <2>9. DeliveryOK' BY <1>1, <2>1 DEF DeliveryOK, delivery
  <2>10. ApprovalBindsCandidate'
    <3>1. SUFFICES ASSUME NEW m \in Missions, stage'[m] = "WAITING_APPROVAL"
                   PROVE  /\ qa'[m] = "PASSED" /\ aref'[m] # None
                          /\ akey'[aref'[m]] = <<m, cref'[m]>>
                          /\ astate'[aref'[m]] # "ABSENT"
      BY DEF ApprovalBindsCandidate
    <3>. QED BY <2>1, <2>5, <3>1, Bound DEF delivery
  <2>. QED BY <2>5, <2>7, <2>8, <2>9, <2>10 DEF IInv
<1>4. CASE RecordQAWrite(w)
  <2>1. UNCHANGED <<cref, appr>> BY <1>4 DEF RecordQAWrite
  <2>2. LocalType' /\ Others(w) /\ CallOK(w)'
    BY <1>4 DEF RecordQAWrite, Goto, LocalType, Others, CallOK, Labels
  <2>3. Monotone BY <2>1 DEF Monotone, appr
  <2>4. res[w] \in QAResults /\ cref[mi[w]] \in Nat BY <1>4 DEF RecordQAWrite, CallOK
  <2>5. /\ qa' = [qa EXCEPT ![mi[w]] = res[w]]
        /\ \/ /\ res[w] = "PASSED"
              /\ areq[w] \in ApprovalIds
              /\ akey[areq[w]] = <<mi[w], cref[mi[w]]>>
              /\ astate[areq[w]] # "ABSENT"
              /\ stage' = [stage EXCEPT ![mi[w]] = "WAITING_APPROVAL"]
              /\ aref' = [aref EXCEPT ![mi[w]] = areq[w]]
              /\ mstatus' = [mstatus EXCEPT ![mi[w]] = "WAITING_APPROVAL"]
           \/ /\ stage' = [stage EXCEPT ![mi[w]] = "DEVELOPER"]
              /\ aref' = aref /\ mstatus' = mstatus
    BY <1>4 DEF RecordQAWrite, CallOK
  <2>6. /\ qa' \in [Missions -> QAResults \cup {None}]
        /\ stage' \in [Missions -> Stages \cup {None}]
        /\ aref' \in [Missions -> ApprovalIds \cup {None}]
        /\ mstatus' \in [Missions -> MissionStatus \cup {"ABSENT"}]
    BY <2>4, <2>5 DEF TypeOK, MissionStatus
  <2>7. TypeOK' BY <1>1, <2>1, <2>2, <2>6 DEF TypeOK, LocalType, appr
  <2>8. \A q \in Workers : CallOK(q)' BY <2>2, <2>3, Keeps DEF IInv, Others
  <2>9. DeliveryOK'
    BY <1>1, <2>1, <2>4, <2>5, CodeChangeAssumption DEF DeliveryOK, TypeOK, CodeChangeAssumption
  <2>10. ApprovalBindsCandidate'
    <3>1. SUFFICES ASSUME NEW m \in Missions, stage'[m] = "WAITING_APPROVAL"
                   PROVE  /\ qa'[m] = "PASSED" /\ aref'[m] # None
                          /\ akey'[aref'[m]] = <<m, cref'[m]>>
                          /\ astate'[aref'[m]] # "ABSENT"
      BY DEF ApprovalBindsCandidate
    <3>2. CASE m # mi[w]
      <4>1. stage'[m] = stage[m] /\ qa'[m] = qa[m] /\ aref'[m] = aref[m]
        BY <2>5, <3>2 DEF TypeOK
      <4>. QED BY <2>3, <3>1, <4>1, Bound
    <3>3. CASE m = mi[w]
      <4>1. /\ res[w] = "PASSED" /\ areq[w] \in ApprovalIds
            /\ aref'[m] = areq[w] /\ qa'[m] = "PASSED"
            /\ akey[areq[w]] = <<m, cref[m]>> /\ astate[areq[w]] # "ABSENT"
        BY <2>5, <3>1, <3>3 DEF TypeOK
      <4>2. areq[w] # None BY <4>1, CodeChangeAssumption DEF CodeChangeAssumption, ApprovalIds
      <4>. QED BY <2>1, <4>1, <4>2 DEF appr
    <3>. QED BY <3>2, <3>3
  <2>. QED BY <2>3, <2>7, <2>8, <2>9, <2>10 DEF IInv
<1>. QED BY <1>2, <1>3, <1>4

-----------------------------------------------------------------------------
(* Claims, the queue, people and the clock.                                *)
LEMMA ClaimSteps ==
    ASSUME NEW w \in Workers, NEW m \in Missions, IInv, Claim(w, m)
    PROVE  IInv'
<1>. TypeOK /\ DeliveryOK BY DEF IInv
<1>. LocalType BY DEF TypeOK, LocalType
<1>1. UNCHANGED <<delivery, appr, ap, crashes>> BY DEF Claim
<1>2. Monotone BY <1>1 DEF Monotone, delivery, appr
<1>3. attempts[m] \in Nat /\ attempts[m] + 1 \in 0..MaxAttempts
  BY CodeChangeAssumption DEF Claim, TypeOK, CodeChangeAssumption
<1>4. LocalType' /\ Others(w) /\ CallOK(w)'
  BY <1>3 DEF Claim, Goto, LocalType, Others, CallOK, Labels
<1>5. /\ mstatus' \in [Missions -> MissionStatus \cup {"ABSENT"}]
      /\ lowner' \in [Missions -> Workers \cup {None, Gone}]
      /\ lease' \in [Missions -> {"none", "live", "expired"}]
      /\ attempts' \in [Missions -> 0..MaxAttempts]
  BY <1>3 DEF Claim, TypeOK, MissionStatus
<1>6. TypeOK' BY <1>1, <1>4, <1>5 DEF TypeOK, LocalType, delivery, appr
<1>7. \A q \in Workers : CallOK(q)' BY <1>2, <1>4, Keeps DEF IInv, Others
<1>8. \A h \in Appliers : ap'[h] # None => stage[ap'[h]] # None
  BY <1>1 DEF DeliveryOK
<1>. QED BY <1>1, <1>6, <1>7, <1>8, Quiet

LEMMA EnvSteps ==
    ASSUME IInv, UNCHANGED local,
           \/ \E m \in Missions : QueueCandidate(m) \/ ExpireLease(m)
           \/ \E a \in ApprovalIds, x \in {"APPROVED", "DENIED"} : Decide(a, x)
           \/ \E a \in ApprovalIds : ExpireApproval(a)
           \/ \E h \in Appliers, m \in Missions : ApplyDecisionRead(h, m)
           \/ \E h \in Appliers : ApplyDecisionWrite(h)
    PROVE  IInv' /\ Monotone
<1>. TypeOK /\ DeliveryOK /\ ApprovalBindsCandidate BY DEF IInv
<1>. LocalType /\ LocalType' BY DEF TypeOK, LocalType, local
<1>0. ASSUME Monotone PROVE \A q \in Workers : CallOK(q)'
  BY <1>0, Keeps DEF IInv, local
<1>1. ASSUME NEW m \in Missions, QueueCandidate(m) \/ ExpireLease(m)
      PROVE  IInv' /\ Monotone
  <2>1. UNCHANGED <<lowner, attempts, delivery, appr, ap, crashes>>
    BY <1>1 DEF QueueCandidate, ExpireLease
  <2>2. Monotone BY <2>1 DEF Monotone, delivery, appr
  <2>3. /\ mstatus' \in [Missions -> MissionStatus \cup {"ABSENT"}]
        /\ lease' \in [Missions -> {"none", "live", "expired"}]
    BY <1>1 DEF QueueCandidate, ExpireLease, TypeOK, MissionStatus
  <2>4. TypeOK' BY <2>1, <2>3 DEF TypeOK, LocalType, delivery, appr
  <2>5. \A h \in Appliers : ap'[h] # None => stage[ap'[h]] # None
    BY <2>1 DEF DeliveryOK
  <2>. QED BY <1>0, <2>1, <2>2, <2>4, <2>5, Quiet
<1>2. ASSUME NEW a \in ApprovalIds,
             (\E x \in {"APPROVED", "DENIED"} : Decide(a, x)) \/ ExpireApproval(a)
      PROVE  IInv' /\ Monotone
  <2>1. UNCHANGED <<mission, delivery, akey, ap, crashes>>
    BY <1>2 DEF Decide, ExpireApproval
  <2>2. /\ astate' \in [ApprovalIds -> {"ABSENT", "PENDING", "APPROVED", "DENIED"}]
        /\ alive' \in [ApprovalIds -> BOOLEAN]
    <3>1. astate' \in [ApprovalIds -> {"ABSENT", "PENDING", "APPROVED", "DENIED"}]
      BY <1>2 DEF Decide, ExpireApproval, TypeOK
    <3>2. alive' = alive \/ alive' = [alive EXCEPT ![a] = FALSE]
      BY <1>2 DEF Decide, ExpireApproval
    <3>3. alive \in [ApprovalIds -> BOOLEAN] BY DEF TypeOK
    <3>4. [alive EXCEPT ![a] = FALSE] \in [ApprovalIds -> BOOLEAN] BY <3>3
    <3>. QED BY <3>1, <3>2, <3>3, <3>4
  <2>3. \A b \in ApprovalIds : astate[b] # "ABSENT" => astate'[b] # "ABSENT"
    BY <1>2 DEF Decide, ExpireApproval, TypeOK
  <2>4. Monotone BY <2>1, <2>3 DEF Monotone, delivery
  <2>5. TypeOK' BY <2>1, <2>2 DEF TypeOK, LocalType, mission, delivery
  <2>6. DeliveryOK' BY <2>1 DEF DeliveryOK, delivery
  <2>7. ApprovalBindsCandidate'
    <3>1. SUFFICES ASSUME NEW m \in Missions, stage'[m] = "WAITING_APPROVAL"
                   PROVE  /\ qa'[m] = "PASSED" /\ aref'[m] # None
                          /\ akey'[aref'[m]] = <<m, cref'[m]>>
                          /\ astate'[aref'[m]] # "ABSENT"
      BY DEF ApprovalBindsCandidate
    <3>. QED BY <2>1, <2>4, <3>1, Bound DEF delivery
  <2>. QED BY <1>0, <2>4, <2>5, <2>6, <2>7 DEF IInv
<1>3. ASSUME NEW h \in Appliers, NEW m \in Missions, ApplyDecisionRead(h, m)
      PROVE  IInv' /\ Monotone
  <2>1. UNCHANGED <<mission, delivery, appr, crashes>> /\ stage[m] = "WAITING_APPROVAL"
        /\ ap' = [ap EXCEPT ![h] = m]
    BY <1>3 DEF ApplyDecisionRead
  <2>2. Monotone BY <2>1 DEF Monotone, delivery, appr
  <2>3. TypeOK' BY <2>1 DEF TypeOK, LocalType, mission, delivery, appr
  <2>4. \A g \in Appliers : ap'[g] # None => stage[ap'[g]] # None
    BY <2>1, CodeChangeAssumption DEF DeliveryOK, TypeOK, CodeChangeAssumption
  <2>. QED BY <1>0, <2>1, <2>2, <2>3, <2>4, Quiet
<1>4. ASSUME NEW h \in Appliers, ApplyDecisionWrite(h)
      PROVE  IInv' /\ Monotone
  <2>1. UNCHANGED <<lowner, lease, attempts, cref, qa, appr, crashes>>
    BY <1>4 DEF ApplyDecisionWrite
  <2>2. ap[h] \in Missions BY <1>4 DEF ApplyDecisionWrite, TypeOK
  <2>3. /\ stage' = [stage EXCEPT ![ap[h]] = "DEVELOPER"]
        /\ aref' = [aref EXCEPT ![ap[h]] = None]
        /\ mstatus' = [mstatus EXCEPT ![ap[h]] = "RUNNING"]
        /\ ap' = [ap EXCEPT ![h] = None]
    BY <1>4 DEF ApplyDecisionWrite
  <2>4. Monotone BY <2>1 DEF Monotone, appr
  <2>5. TypeOK' BY <2>1, <2>2, <2>3 DEF TypeOK, LocalType, appr, MissionStatus
  <2>6. DeliveryOK'
    BY <2>1, <2>2, <2>3, CodeChangeAssumption DEF DeliveryOK, TypeOK, CodeChangeAssumption
  <2>7. ApprovalBindsCandidate'
    <3>1. SUFFICES ASSUME NEW m \in Missions, stage'[m] = "WAITING_APPROVAL"
                   PROVE  /\ qa'[m] = "PASSED" /\ aref'[m] # None
                          /\ akey'[aref'[m]] = <<m, cref'[m]>>
                          /\ astate'[aref'[m]] # "ABSENT"
      BY DEF ApprovalBindsCandidate
    <3>2. stage'[m] = stage[m] /\ aref'[m] = aref[m] BY <2>2, <2>3, <3>1 DEF TypeOK
    <3>. QED BY <2>1, <2>4, <3>1, <3>2, Bound
  <2>. QED BY <1>0, <2>4, <2>5, <2>6, <2>7 DEF IInv
<1>. QED BY <1>1, <1>2, <1>3, <1>4

(* Every step keeps the invariant and is monotone.                         *)
LEMMA StepInv == ASSUME IInv, [Next]_vars PROVE IInv' /\ Monotone
<1>1. CASE UNCHANGED vars
  <2>1. Monotone BY <1>1 DEF Monotone, vars, delivery, appr
  <2>2. IInv'
    BY <1>1 DEF IInv, TypeOK, CallOK, DeliveryOK, ApprovalBindsCandidate, vars, mission,
                delivery, appr, local
  <2>. QED BY <2>1, <2>2
<1>2. ASSUME NEW w \in Workers, NEW m \in Missions, Claim(w, m) PROVE IInv' /\ Monotone
  BY <1>2, ClaimSteps DEF Claim, Monotone, delivery, appr
<1>3. ASSUME NEW w \in Workers, CallStep(w) \/ Crash(w) PROVE IInv' /\ Monotone
  <2>1. CASE SubmitProposalWrite(w) \/ CreateRequest(w) \/ RecordQAWrite(w)
    BY <2>1, WriteSteps
  <2>2. CASE \/ GetMission(w) \/ RenewLease(w) \/ GetDelivery(w) \/ RunDeveloper(w)
             \/ SubmitProposalRead(w) \/ RunQA(w) \/ RecordQARead(w)
             \/ ResultForMission(w) \/ CheckCurrent(w) \/ HandleFailure(w)
             \/ TransitionRead(w)
    <3>1. IInv' BY <2>2, ReadSteps
    <3>2. UNCHANGED <<delivery, appr>>
      BY <2>2 DEF GetMission, RenewLease, GetDelivery, RunDeveloper, SubmitProposalRead,
                  RunQA, RecordQARead, ResultForMission, CheckCurrent, HandleFailure,
                  TransitionRead
    <3>. QED BY <3>1, <3>2 DEF Monotone, delivery, appr
  <2>3. CASE TransitionWrite(w) \/ ReleaseLease(w) \/ Crash(w)
    <3>1. IInv' BY <2>3, MissionSteps
    <3>2. UNCHANGED <<delivery, appr>> BY <2>3 DEF TransitionWrite, ReleaseLease, Crash
    <3>. QED BY <3>1, <3>2 DEF Monotone, delivery, appr
  <2>. QED BY <1>3, <2>1, <2>2, <2>3 DEF CallStep
<1>4. CASE \/ \E m \in Missions : QueueCandidate(m) \/ ExpireLease(m)
           \/ \E a \in ApprovalIds, x \in {"APPROVED", "DENIED"} : Decide(a, x)
           \/ \E a \in ApprovalIds : ExpireApproval(a)
           \/ \E h \in Appliers, m \in Missions : ApplyDecisionRead(h, m)
           \/ \E h \in Appliers : ApplyDecisionWrite(h)
  <2>1. UNCHANGED local
    BY <1>4 DEF QueueCandidate, ExpireLease, Decide, ExpireApproval, ApplyDecisionRead,
                ApplyDecisionWrite
  <2>. QED BY <1>4, <2>1, EnvSteps
<1>. QED BY <1>1, <1>2, <1>3, <1>4 DEF Next

LEMMA AlwaysInv == Spec => []IInv
<1>1. Init => IInv BY InitInv
<1>2. IInv /\ [Next]_vars => IInv' BY StepInv
<1>. QED BY <1>1, <1>2, PTL DEF Spec

-----------------------------------------------------------------------------
(* Every variable of the preparation of code changes keeps its type.       *)
THEOREM CodeChangeTypeCorrect == Spec => []TypeOK
<1>1. IInv => TypeOK BY DEF IInv
<1>. QED BY <1>1, AlwaysInv, PTL

(* A delivery waits for a request about exactly its QA-passed candidate,   *)
(* for any number of workers, crashes and leases lost at any moment.       *)
THEOREM ApprovalIsForCandidate == Spec => []ApprovalBindsCandidate
<1>1. IInv => ApprovalBindsCandidate BY DEF IInv
<1>. QED BY <1>1, AlwaysInv, PTL

(* submit_developer_proposal never replaces a candidate, for any number of *)
(* workers, crashes and leases lost at any moment.                         *)
THEOREM CandidateNeverReplaced == Spec => ProposalImmutable
<1>1. IInv /\ [Next]_vars =>
        [\A m \in Missions : cref[m] # None => cref'[m] = cref[m]]_vars
  BY StepInv DEF Monotone
<1>. QED BY <1>1, AlwaysInv, PTL DEF Spec, ProposalImmutable
-----------------------------------------------------------------------------
(* Leases that outlive the work of their holder.                           *)
(*                                                                         *)
(* As long as no lease expires under a worker that is still at it, a       *)
(* mission has one worker at a time: the owner of a live lease.  What the  *)
(* delivery row said when that worker read it still holds when it writes.  *)

(* Stages from which a delivery never comes back to QA.                    *)
Decided == {"WAITING_APPROVAL", "DEVELOPER"}

(* A delivery that left QA never returns to it.                            *)
LEMMA DecidedStays ==
    ASSUME IInv, [Next]_vars, NEW m \in Missions, stage[m] \in Decided
    PROVE  stage'[m] \in Decided
<1>. TypeOK BY DEF IInv
<1>1. CASE UNCHANGED stage BY <1>1
<1>2. ASSUME NEW w \in Workers, SubmitProposalWrite(w) PROVE stage'[m] \in Decided
  BY <1>2, CodeChangeAssumption DEF SubmitProposalWrite, Decided, TypeOK, CodeChangeAssumption
<1>3. ASSUME NEW w \in Workers, RecordQAWrite(w) PROVE stage'[m] \in Decided
  BY <1>3 DEF RecordQAWrite, Decided, TypeOK
<1>4. ASSUME NEW h \in Appliers, ApplyDecisionWrite(h) PROVE stage'[m] \in Decided
  BY <1>4 DEF ApplyDecisionWrite, Decided, TypeOK
<1>5. \/ UNCHANGED stage
      \/ \E w \in Workers : SubmitProposalWrite(w) \/ RecordQAWrite(w)
      \/ \E h \in Appliers : ApplyDecisionWrite(h)
  BY DEF Next, CallStep, vars, delivery, Claim, GetMission, RenewLease, GetDelivery,
         RunDeveloper, SubmitProposalRead, RunQA, RecordQARead, CreateRequest,
         ResultForMission, CheckCurrent, HandleFailure, TransitionRead, TransitionWrite,
         ReleaseLease, Crash, QueueCandidate, ExpireLease, Decide, ExpireApproval,
         ApplyDecisionRead
<1>. QED BY <1>1, <1>2, <1>3, <1>4, <1>5

WorkerSole(w) ==
    /\ pc[w] = "idle" => mi[w] = None
    /\ pc[w] # "idle" =>
          /\ lowner[mi[w]] = w /\ lease[mi[w]] = "live"
          /\ mstatus[mi[w]] \notin {"ABSENT", "QUEUED"}
    /\ pc[w] \in {"qa_create", "qa_write"} => stage[mi[w]] = "QA"

SoleInv ==
    /\ \A w \in Workers : WorkerSole(w)
    /\ \A h \in Appliers : ap[h] # None => stage[ap[h]] \in Decided

LEMMA InitSole == Init => SoleInv
BY DEF Init, SoleInv, WorkerSole

(* Two workers are never at the same mission.                              *)
LEMMA Apart ==
    ASSUME SoleInv, NEW w \in Workers, NEW q \in Workers, w # q, pc[w] # "idle"
    PROVE  mi[q] # mi[w] \/ pc[q] = "idle"
BY DEF SoleInv, WorkerSole

(* A worker whose mission nobody touched is still its only one.            *)
LEMMA SoleKeeps ==
    ASSUME NEW q \in Workers, WorkerSole(q), pc'[q] = pc[q], mi'[q] = mi[q],
           pc[q] # "idle" =>
              /\ lowner'[mi[q]] = lowner[mi[q]] /\ lease'[mi[q]] = lease[mi[q]]
              /\ mstatus'[mi[q]] \notin {"ABSENT", "QUEUED"}
              /\ stage[mi[q]] = "QA" => stage'[mi[q]] = "QA"
    PROVE  WorkerSole(q)'
BY DEF WorkerSole

(* Steps of a call that only read.                                         *)
LEMMA ReadFrame ==
    ASSUME NEW w \in Workers, IInv,
           \/ GetMission(w) \/ RenewLease(w) \/ GetDelivery(w) \/ RunDeveloper(w)
           \/ SubmitProposalRead(w) \/ RunQA(w) \/ RecordQARead(w)
           \/ ResultForMission(w) \/ CheckCurrent(w) \/ HandleFailure(w)
           \/ TransitionRead(w)
    PROVE  /\ UNCHANGED <<mission, delivery, appr, ap, crashes>>
           /\ Others(w)
           /\ pc[w] # "idle" /\ pc[w] # "qa_create" /\ pc[w] # "qa_write"
           /\ pc'[w] = "idle" => mi'[w] = None
           /\ pc'[w] # "idle" => mi'[w] = mi[w]
           /\ pc'[w] \in {"qa_create", "qa_write"} => stage[mi[w]] = "QA"
<1>. LocalType BY DEF IInv, TypeOK, LocalType
<1>1. UNCHANGED <<mission, delivery, appr, ap, crashes>>
  BY DEF GetMission, RenewLease, GetDelivery, RunDeveloper, SubmitProposalRead, RunQA,
         RecordQARead, ResultForMission, CheckCurrent, HandleFailure, TransitionRead
<1>2. ASSUME Finish(w)
      PROVE  /\ Others(w) /\ pc'[w] = "idle" /\ mi'[w] = None
  BY <1>2, FinishLocal DEF Finish, LocalType
<1>3. CASE GetMission(w) \/ RenewLease(w) \/ TransitionRead(w)
  BY <1>1, <1>2, <1>3 DEF GetMission, RenewLease, TransitionRead, Goto, LocalType, Others
<1>4. CASE GetDelivery(w) \/ RunDeveloper(w) \/ SubmitProposalRead(w) \/ RunQA(w)
  BY <1>1, <1>4 DEF GetDelivery, RunDeveloper, SubmitProposalRead, RunQA, Goto, LocalType,
                    Others
<1>5. CASE RecordQARead(w) \/ ResultForMission(w) \/ CheckCurrent(w) \/ HandleFailure(w)
  BY <1>1, <1>5 DEF RecordQARead, ResultForMission, CheckCurrent, HandleFailure, Goto,
                    LocalType, Others
<1>. QED BY <1>3, <1>4, <1>5

LEMMA SoleRead ==
    ASSUME NEW w \in Workers, IInv, SoleInv,
           \/ GetMission(w) \/ RenewLease(w) \/ GetDelivery(w) \/ RunDeveloper(w)
           \/ SubmitProposalRead(w) \/ RunQA(w) \/ RecordQARead(w)
           \/ ResultForMission(w) \/ CheckCurrent(w) \/ HandleFailure(w)
           \/ TransitionRead(w)
    PROVE  SoleInv'
<1>1. /\ UNCHANGED <<mission, delivery, ap>> /\ Others(w)
      /\ pc[w] # "idle"
      /\ pc'[w] = "idle" => mi'[w] = None
      /\ pc'[w] # "idle" => mi'[w] = mi[w]
      /\ pc'[w] \in {"qa_create", "qa_write"} => stage[mi[w]] = "QA"
  BY ReadFrame
<1>2. WorkerSole(w)' BY <1>1 DEF SoleInv, WorkerSole, mission, delivery
<1>3. \A q \in Workers \ {w} : WorkerSole(q)'
  BY <1>1 DEF SoleInv, WorkerSole, mission, delivery, Others
<1>4. \A h \in Appliers : ap'[h] # None => stage'[ap'[h]] \in Decided
  BY <1>1 DEF SoleInv, delivery
<1>. QED BY <1>2, <1>3, <1>4 DEF SoleInv

(* Steps of a call that write, with what they leave to the others.         *)
LEMMA SoleWrite ==
    ASSUME NEW w \in Workers, IInv, SoleInv,
           \/ SubmitProposalWrite(w) \/ CreateRequest(w) \/ RecordQAWrite(w)
           \/ TransitionWrite(w) \/ ReleaseLease(w) \/ Crash(w)
    PROVE  SoleInv'
<1>. TypeOK /\ CallOK(w) /\ WorkerSole(w) BY DEF IInv, SoleInv
<1>. LocalType BY DEF TypeOK, LocalType
<1>0. pc[w] # "idle" /\ mi[w] \in Missions
  BY DEF SubmitProposalWrite, CreateRequest, RecordQAWrite, TransitionWrite, ReleaseLease,
         Crash, CallOK
<1>1. \A q \in Workers \ {w} : pc[q] # "idle" => mi[q] # mi[w] /\ mi[q] \in Missions
  BY <1>0, Apart DEF IInv, CallOK
<1>2. UNCHANGED ap
  BY DEF SubmitProposalWrite, CreateRequest, RecordQAWrite, TransitionWrite, ReleaseLease,
         Crash
<1>3. Others(w)
  <2>1. CASE SubmitProposalWrite(w) \/ CreateRequest(w) \/ RecordQAWrite(w) \/ TransitionWrite(w)
    BY <2>1 DEF SubmitProposalWrite, CreateRequest, RecordQAWrite, TransitionWrite, Goto,
                LocalType, Others
  <2>2. CASE ReleaseLease(w) \/ Crash(w)
    BY <2>2, FinishLocal DEF ReleaseLease, Crash
  <2>. QED BY <2>1, <2>2
<1>4. WorkerSole(w)'
  <2>1. CASE SubmitProposalWrite(w)
    BY <1>0, <2>1 DEF SubmitProposalWrite, Goto, WorkerSole, LocalType, mission
  <2>2. CASE CreateRequest(w)
    BY <1>0, <2>2 DEF CreateRequest, Goto, WorkerSole, LocalType, mission, delivery
  <2>3. CASE RecordQAWrite(w)
    BY <1>0, <2>3 DEF RecordQAWrite, Goto, WorkerSole, LocalType, TypeOK
  <2>4. CASE TransitionWrite(w)
    BY <1>0, <2>4 DEF TransitionWrite, Goto, WorkerSole, LocalType, TypeOK, CallOK
  <2>5. CASE ReleaseLease(w) \/ Crash(w)
    BY <2>5 DEF ReleaseLease, Crash, Finish, WorkerSole, LocalType
  <2>. QED BY <2>1, <2>2, <2>3, <2>4, <2>5
<1>5. ASSUME NEW m \in Missions, m # mi[w]
      PROVE  mstatus'[m] = mstatus[m] /\ stage'[m] = stage[m]
  BY <1>0, <1>5 DEF SubmitProposalWrite, CreateRequest, RecordQAWrite, TransitionWrite,
         ReleaseLease, Crash, mission, delivery, TypeOK
<1>6. ASSUME NEW q \in Workers \ {w}, pc[q] # "idle"
      PROVE  lowner'[mi[q]] = lowner[mi[q]] /\ lease'[mi[q]] = lease[mi[q]]
  <2>1. mi[q] # mi[w] /\ mi[q] \in Missions /\ lowner[mi[q]] # w
    BY <1>1, <1>6 DEF SoleInv, WorkerSole
  <2>. QED BY <1>0, <2>1 DEF SubmitProposalWrite, CreateRequest, RecordQAWrite,
         TransitionWrite, ReleaseLease, Crash, mission, TypeOK
<1>7. \A q \in Workers \ {w} : WorkerSole(q)'
  <2>1. SUFFICES ASSUME NEW q \in Workers \ {w} PROVE WorkerSole(q)' OBVIOUS
  <2>2. WorkerSole(q) /\ pc'[q] = pc[q] /\ mi'[q] = mi[q] BY <1>3 DEF SoleInv, Others
  <2>3. pc[q] # "idle" =>
          /\ lowner'[mi[q]] = lowner[mi[q]] /\ lease'[mi[q]] = lease[mi[q]]
          /\ mstatus'[mi[q]] \notin {"ABSENT", "QUEUED"}
          /\ stage[mi[q]] = "QA" => stage'[mi[q]] = "QA"
    BY <1>1, <1>5, <1>6, <2>2 DEF WorkerSole
  <2>. QED BY <2>2, <2>3, SoleKeeps
<1>8. \A m \in Missions : stage[m] \in Decided => stage'[m] \in Decided
  BY DecidedStays DEF Next, CallStep
<1>9. \A h \in Appliers : ap'[h] # None => stage'[ap'[h]] \in Decided
  BY <1>2, <1>8 DEF SoleInv, TypeOK
<1>. QED BY <1>4, <1>7, <1>9 DEF SoleInv

(* A mission that can be claimed has no worker.                            *)
LEMMA ClaimableIsFree ==
    ASSUME SoleInv, NEW m \in Missions, Claimable(m), NEW q \in Workers, pc[q] # "idle"
    PROVE  mi[q] # m
BY DEF SoleInv, WorkerSole, Claimable

LEMMA SoleClaim ==
    ASSUME NEW w \in Workers, NEW m \in Missions, IInv, SoleInv, Claim(w, m)
    PROVE  SoleInv'
<1>. TypeOK BY DEF IInv
<1>. LocalType BY DEF TypeOK, LocalType
<1>1. UNCHANGED <<delivery, ap>> /\ Others(w) BY DEF Claim, Goto, Others, LocalType
<1>2. WorkerSole(w)' BY DEF Claim, Goto, WorkerSole, LocalType, TypeOK
<1>3. \A q \in Workers \ {w} : WorkerSole(q)'
  <2>1. SUFFICES ASSUME NEW q \in Workers \ {w} PROVE WorkerSole(q)' OBVIOUS
  <2>2. WorkerSole(q) /\ pc'[q] = pc[q] /\ mi'[q] = mi[q] BY <1>1 DEF SoleInv, Others
  <2>3. ASSUME pc[q] # "idle"
        PROVE  /\ lowner'[mi[q]] = lowner[mi[q]] /\ lease'[mi[q]] = lease[mi[q]]
               /\ mstatus'[mi[q]] \notin {"ABSENT", "QUEUED"}
               /\ stage[mi[q]] = "QA" => stage'[mi[q]] = "QA"
    <3>1. mi[q] # m BY <2>3, ClaimableIsFree DEF Claim
    <3>2. mi[q] \in Missions BY <2>3 DEF IInv, CallOK
    <3>. QED BY <1>1, <2>2, <2>3, <3>1, <3>2 DEF Claim, WorkerSole, TypeOK, delivery
  <2>. QED BY <2>2, <2>3, SoleKeeps
<1>4. \A h \in Appliers : ap'[h] # None => stage'[ap'[h]] \in Decided
  BY <1>1 DEF SoleInv, delivery
<1>. QED BY <1>2, <1>3, <1>4 DEF SoleInv

LEMMA SoleEnv ==
    ASSUME LeaseOutlivesWork, IInv, SoleInv, UNCHANGED local,
           \/ \E m \in Missions : QueueCandidate(m) \/ ExpireLease(m)
           \/ \E a \in ApprovalIds, x \in {"APPROVED", "DENIED"} : Decide(a, x)
           \/ \E a \in ApprovalIds : ExpireApproval(a)
           \/ \E h \in Appliers, m \in Missions : ApplyDecisionRead(h, m)
           \/ \E h \in Appliers : ApplyDecisionWrite(h)
    PROVE  SoleInv'
<1>. TypeOK BY DEF IInv
<1>0. \A q \in Workers : pc'[q] = pc[q] /\ mi'[q] = mi[q] BY DEF local
<1>1. ASSUME NEW m \in Missions, QueueCandidate(m)
      PROVE  SoleInv'
  <2>1. UNCHANGED <<lowner, lease, delivery, ap>> BY <1>1 DEF QueueCandidate
  <2>2. ASSUME NEW q \in Workers PROVE WorkerSole(q)'
    <3>1. WorkerSole(q) BY DEF SoleInv
    <3>2. ASSUME pc[q] # "idle"
          PROVE  mi[q] \in Missions /\ mi[q] # m /\ mstatus'[mi[q]] = mstatus[mi[q]]
      BY <1>1, <3>1, <3>2 DEF QueueCandidate, WorkerSole, TypeOK, IInv, CallOK
    <3>. QED BY <1>0, <2>1, <3>1, <3>2, SoleKeeps DEF WorkerSole, delivery
  <2>3. \A h \in Appliers : ap'[h] # None => stage'[ap'[h]] \in Decided
    BY <2>1 DEF SoleInv, delivery
  <2>. QED BY <2>2, <2>3 DEF SoleInv
<1>2. ASSUME NEW m \in Missions, ExpireLease(m)
      PROVE  SoleInv'
  <2>1. UNCHANGED <<lowner, mstatus, delivery, ap>> BY <1>2 DEF ExpireLease
  <2>2. ASSUME NEW q \in Workers PROVE WorkerSole(q)'
    <3>1. WorkerSole(q) BY DEF SoleInv
    <3>2. ASSUME pc[q] # "idle"
          PROVE  mi[q] \in Missions /\ mi[q] # m /\ lease'[mi[q]] = lease[mi[q]]
      BY <1>2, <3>1, <3>2 DEF ExpireLease, WorkerSole, TypeOK, IInv, CallOK
    <3>. QED BY <1>0, <2>1, <3>1, <3>2, SoleKeeps DEF WorkerSole, delivery
  <2>3. \A h \in Appliers : ap'[h] # None => stage'[ap'[h]] \in Decided
    BY <2>1 DEF SoleInv, delivery
  <2>. QED BY <2>2, <2>3 DEF SoleInv
<1>3. ASSUME UNCHANGED <<mission, delivery, ap>>
      PROVE  SoleInv'
  BY <1>0, <1>3 DEF SoleInv, WorkerSole, mission, delivery
<1>4. ASSUME NEW h \in Appliers, NEW m \in Missions, ApplyDecisionRead(h, m)
      PROVE  SoleInv'
  <2>1. UNCHANGED <<mission, delivery>> /\ ap' = [ap EXCEPT ![h] = m]
        /\ stage[m] = "WAITING_APPROVAL"
    BY <1>4 DEF ApplyDecisionRead
  <2>2. \A q \in Workers : WorkerSole(q)'
    BY <1>0, <2>1 DEF SoleInv, WorkerSole, mission, delivery
  <2>3. \A g \in Appliers : ap'[g] # None => stage'[ap'[g]] \in Decided
    BY <2>1 DEF SoleInv, delivery, TypeOK, Decided
  <2>. QED BY <2>2, <2>3 DEF SoleInv
<1>5. ASSUME NEW h \in Appliers, ApplyDecisionWrite(h)
      PROVE  SoleInv'
  <2>1. UNCHANGED <<lowner, lease>> /\ ap[h] \in Missions /\ stage[ap[h]] \in Decided
    BY <1>5 DEF ApplyDecisionWrite, SoleInv, TypeOK
  <2>2. /\ stage' = [stage EXCEPT ![ap[h]] = "DEVELOPER"]
        /\ mstatus' = [mstatus EXCEPT ![ap[h]] = "RUNNING"]
        /\ ap' = [ap EXCEPT ![h] = None]
    BY <1>5 DEF ApplyDecisionWrite
  <2>3. ASSUME NEW q \in Workers PROVE WorkerSole(q)'
    <3>1. WorkerSole(q) BY DEF SoleInv
    <3>2. ASSUME pc[q] # "idle"
          PROVE  /\ mstatus'[mi[q]] \notin {"ABSENT", "QUEUED"}
                 /\ stage[mi[q]] = "QA" => stage'[mi[q]] = "QA"
      <4>1. mi[q] \in Missions BY <3>2 DEF IInv, CallOK
      <4>. QED BY <2>1, <2>2, <3>1, <3>2, <4>1 DEF WorkerSole, TypeOK, Decided
    <3>. QED BY <1>0, <2>1, <3>1, <3>2, SoleKeeps
  <2>4. \A g \in Appliers : ap'[g] # None => stage'[ap'[g]] \in Decided
    BY <2>1, <2>2 DEF SoleInv, TypeOK, Decided
  <2>. QED BY <2>3, <2>4 DEF SoleInv
<1>6. ASSUME NEW a \in ApprovalIds, NEW x \in {"APPROVED", "DENIED"},
             Decide(a, x) \/ ExpireApproval(a)
      PROVE  SoleInv'
  BY <1>3, <1>6 DEF Decide, ExpireApproval
<1>. QED BY <1>1, <1>2, <1>4, <1>5, <1>6

LEMMA SoleStep == ASSUME LeaseOutlivesWork, IInv, SoleInv, [Next]_vars PROVE SoleInv'
<1>1. CASE UNCHANGED vars
  BY <1>1 DEF SoleInv, WorkerSole, vars, mission, delivery, local
<1>2. ASSUME NEW w \in Workers, NEW m \in Missions, Claim(w, m) PROVE SoleInv'
  BY <1>2, SoleClaim
<1>3. ASSUME NEW w \in Workers, CallStep(w) \/ Crash(w) PROVE SoleInv'
  BY <1>3, SoleRead, SoleWrite DEF CallStep
<1>4. CASE \/ \E m \in Missions : QueueCandidate(m) \/ ExpireLease(m)
           \/ \E a \in ApprovalIds, x \in {"APPROVED", "DENIED"} : Decide(a, x)
           \/ \E a \in ApprovalIds : ExpireApproval(a)
           \/ \E h \in Appliers, m \in Missions : ApplyDecisionRead(h, m)
           \/ \E h \in Appliers : ApplyDecisionWrite(h)
  <2>1. UNCHANGED local
    BY <1>4 DEF QueueCandidate, ExpireLease, Decide, ExpireApproval, ApplyDecisionRead,
                ApplyDecisionWrite
  <2>. QED BY <1>4, <2>1, SoleEnv
<1>. QED BY <1>1, <1>2, <1>3, <1>4 DEF Next

LEMMA AlwaysSole == ASSUME LeaseOutlivesWork PROVE Spec => [](IInv /\ SoleInv)
<1>1. Init => IInv /\ SoleInv BY InitInv, InitSole
<1>2. IInv /\ SoleInv /\ [Next]_vars => (IInv /\ SoleInv)' BY StepInv, SoleStep
<1>. QED BY <1>1, <1>2, PTL DEF Spec

-----------------------------------------------------------------------------
(* One request per mission.                                                *)

Asked(a, m) == astate[a] # "ABSENT" /\ akey[a][1] = m

(* The delivery of m is decided, or a worker is about to record it.        *)
Accounted(m) ==
    \/ stage[m] \in Decided
    \/ \E w \in Workers : pc[w] = "qa_write" /\ mi[w] = m

(* While no worker has died a mission has at most one request, pending or  *)
(* not, and a request that was created is recorded by the same call.       *)
AskInv == crashes = 0 =>
    /\ \A a, b \in ApprovalIds : astate[a] # "ABSENT" /\ Asked(b, akey[a][1]) => a = b
    /\ \A a \in ApprovalIds, m \in Missions : Asked(a, m) => Accounted(m)

LEMMA InitAsk == Init => AskInv
BY DEF Init, AskInv, Asked

(* Only CreateRequest creates a request.                                   *)
LEMMA NoNewRequest ==
    ASSUME IInv, [Next]_vars, \A w \in Workers : ~CreateRequest(w),
           NEW a \in ApprovalIds, NEW m, Asked(a, m)'
    PROVE  Asked(a, m)
<1>. TypeOK BY DEF IInv
<1>1. CASE UNCHANGED <<astate, akey>> BY <1>1 DEF Asked
<1>2. ASSUME NEW b \in ApprovalIds, NEW x \in {"APPROVED", "DENIED"}, Decide(b, x)
      PROVE  Asked(a, m)
  BY <1>2 DEF Decide, Asked, TypeOK
<1>3. \/ UNCHANGED <<astate, akey>>
      \/ \E b \in ApprovalIds, x \in {"APPROVED", "DENIED"} : Decide(b, x)
  BY DEF Next, CallStep, vars, appr, Claim, GetMission, RenewLease, GetDelivery,
         RunDeveloper, SubmitProposalRead, SubmitProposalWrite, RunQA, RecordQARead,
         RecordQAWrite, ResultForMission, CheckCurrent, HandleFailure, TransitionRead,
         TransitionWrite, ReleaseLease, Crash, QueueCandidate, ExpireLease, ExpireApproval,
         ApplyDecisionRead, ApplyDecisionWrite
<1>. QED BY <1>1, <1>2, <1>3

(* The other workers of a step of w.                                       *)
LEMMA StepOthers ==
    ASSUME IInv, NEW w \in Workers, CallStep(w) \/ Crash(w) \/ \E m \in Missions : Claim(w, m)
    PROVE  Others(w)
<1>. LocalType BY DEF IInv, TypeOK, LocalType
<1>1. CASE \/ GetMission(w) \/ RenewLease(w) \/ GetDelivery(w) \/ RunDeveloper(w)
           \/ SubmitProposalRead(w) \/ RunQA(w) \/ RecordQARead(w)
           \/ ResultForMission(w) \/ CheckCurrent(w) \/ HandleFailure(w)
           \/ TransitionRead(w)
  BY <1>1, ReadFrame
<1>2. CASE SubmitProposalWrite(w) \/ CreateRequest(w) \/ RecordQAWrite(w) \/ TransitionWrite(w)
  BY <1>2 DEF SubmitProposalWrite, CreateRequest, RecordQAWrite, TransitionWrite, Goto,
              LocalType, Others
<1>3. CASE ReleaseLease(w) \/ Crash(w)
  BY <1>3, FinishLocal DEF ReleaseLease, Crash
<1>4. CASE \E m \in Missions : Claim(w, m)
  BY <1>4 DEF Claim, Goto, Others, LocalType
<1>. QED BY <1>1, <1>2, <1>3, <1>4 DEF CallStep

(* A call that created a request records it, unless its worker dies.       *)
LEMMA AccountedStays ==
    ASSUME IInv, [Next]_vars, crashes' = 0, NEW m \in Missions, Accounted(m)
    PROVE  Accounted(m)'
<1>. TypeOK BY DEF IInv
<1>. LocalType BY DEF TypeOK, LocalType
<1>1. CASE stage[m] \in Decided BY <1>1, DecidedStays DEF Accounted
<1>2. ASSUME NEW q \in Workers, pc[q] = "qa_write", mi[q] = m
      PROVE  Accounted(m)'
  <2>1. CASE pc'[q] = pc[q] /\ mi'[q] = mi[q] BY <1>2, <2>1 DEF Accounted
  <2>2. CASE UNCHANGED local BY <1>2, <2>1, <2>2 DEF local
  <2>3. ASSUME NEW w \in Workers,
               CallStep(w) \/ Crash(w) \/ \E n \in Missions : Claim(w, n)
        PROVE  Accounted(m)'
    <3>1. CASE w # q BY <2>1, <2>3, <3>1, StepOthers DEF Others
    <3>2. CASE w = q
      <4>1. ~Crash(w) BY CodeChangeAssumption DEF Crash, TypeOK, CodeChangeAssumption
      <4>2. RecordQAWrite(w)
        BY <1>2, <2>3, <3>2, <4>1 DEF CallStep, GetMission, RenewLease, GetDelivery,
           RunDeveloper, SubmitProposalRead, SubmitProposalWrite, RunQA, RecordQARead,
           CreateRequest, ResultForMission, CheckCurrent, HandleFailure, TransitionRead,
           TransitionWrite, ReleaseLease, Claim
      <4>3. stage'[m] \in Decided BY <1>2, <3>2, <4>2 DEF RecordQAWrite, Decided, TypeOK
      <4>. QED BY <4>3 DEF Accounted
    <3>. QED BY <3>1, <3>2
  <2>4. \/ UNCHANGED local
        \/ \E w \in Workers : CallStep(w) \/ Crash(w) \/ \E n \in Missions : Claim(w, n)
    BY DEF Next, vars, QueueCandidate, ExpireLease, Decide, ExpireApproval,
           ApplyDecisionRead, ApplyDecisionWrite
  <2>. QED BY <2>2, <2>3, <2>4
<1>. QED BY <1>1, <1>2 DEF Accounted

LEMMA AskStep == ASSUME IInv, SoleInv, AskInv, [Next]_vars PROVE AskInv'
<1>. TypeOK BY DEF IInv
<1>. LocalType BY DEF TypeOK, LocalType
<1>0. SUFFICES ASSUME crashes' = 0
               PROVE  /\ \A a, b \in ApprovalIds : \A m :
                            Asked(a, m)' /\ Asked(b, m)' => a = b
                      /\ \A a \in ApprovalIds, m \in Missions : Asked(a, m)' => Accounted(m)'
  BY DEF AskInv, Asked
<1>1. crashes = 0
  <2>1. \A w \in Workers : ~Crash(w)
    BY <1>0, CodeChangeAssumption DEF Crash, TypeOK, CodeChangeAssumption
  <2>. QED
    BY <1>0, <2>1 DEF Next, CallStep, vars, Claim, GetMission, RenewLease, GetDelivery,
         RunDeveloper, SubmitProposalRead, SubmitProposalWrite, RunQA, RecordQARead,
         CreateRequest, RecordQAWrite, ResultForMission, CheckCurrent, HandleFailure,
         TransitionRead, TransitionWrite, ReleaseLease, QueueCandidate, ExpireLease, Decide,
         ExpireApproval, ApplyDecisionRead, ApplyDecisionWrite
<1>2. /\ \A a, b \in ApprovalIds : \A m : Asked(a, m) /\ Asked(b, m) => a = b
      /\ \A a \in ApprovalIds, m \in Missions : Asked(a, m) => Accounted(m)
  BY <1>1 DEF AskInv, Asked
<1>3. CASE \A w \in Workers : ~CreateRequest(w)
  BY <1>0, <1>2, <1>3, NoNewRequest, AccountedStays
<1>4. ASSUME NEW w \in Workers, CreateRequest(w)
      PROVE  /\ \A a, b \in ApprovalIds : \A m :
                   Asked(a, m)' /\ Asked(b, m)' => a = b
             /\ \A a \in ApprovalIds, m \in Missions : Asked(a, m)' => Accounted(m)'
  <2>1. PICK c \in ApprovalIds :
          /\ astate' = [astate EXCEPT ![c] = "PENDING"]
          /\ akey' = [akey EXCEPT ![c] = <<mi[w], seen[w]>>]
    BY <1>4 DEF CreateRequest
  <2>2. pc[w] = "qa_create" /\ pc'[w] = "qa_write" /\ mi' = mi
    BY <1>4 DEF CreateRequest, Goto, LocalType
  <2>3. mi[w] \in Missions /\ stage[mi[w]] \notin Decided
    BY <2>2 DEF SoleInv, WorkerSole, IInv, CallOK, Decided
  <2>4. \A a \in ApprovalIds : ~Asked(a, mi[w])
    <3>1. SUFFICES ASSUME NEW a \in ApprovalIds, Asked(a, mi[w]) PROVE FALSE OBVIOUS
    <3>2. Accounted(mi[w]) BY <1>2, <2>3, <3>1
    <3>3. PICK q \in Workers : pc[q] = "qa_write" /\ mi[q] = mi[w]
      BY <2>3, <3>2 DEF Accounted
    <3>. QED BY <2>2, <3>3, Apart
  <2>5. ASSUME NEW a \in ApprovalIds, NEW m, Asked(a, m)'
        PROVE  (a = c /\ m = mi[w]) \/ (a # c /\ Asked(a, m))
    BY <2>1, <2>5 DEF Asked, TypeOK
  <2>6. ASSUME NEW a \in ApprovalIds, NEW b \in ApprovalIds, NEW m,
               Asked(a, m)', Asked(b, m)'
        PROVE  a = b
    <3>1. (a = c /\ m = mi[w]) \/ (a # c /\ Asked(a, m)) BY <2>5, <2>6
    <3>2. (b = c /\ m = mi[w]) \/ (b # c /\ Asked(b, m)) BY <2>5, <2>6
    <3>. QED BY <1>2, <2>4, <3>1, <3>2
  <2>7. ASSUME NEW a \in ApprovalIds, NEW m \in Missions, Asked(a, m)'
        PROVE  Accounted(m)'
    <3>1. CASE m = mi[w] BY <2>2, <3>1 DEF Accounted
    <3>2. CASE m # mi[w]
      <4>1. Asked(a, m) BY <2>5, <2>7, <3>2
      <4>2. Accounted(m) BY <1>2, <4>1
      <4>. QED BY <1>0, <4>2, AccountedStays
    <3>. QED BY <3>1, <3>2
  <2>. QED BY <2>6, <2>7
<1>. QED BY <1>3, <1>4

(* record_qa_result asks a human once about a mission: with leases that    *)
(* outlive the work, and as long as no worker has died, there are never    *)
(* two requests that can still be answered, for any number of workers,     *)
(* missions and callers of apply_human_decision.                           *)
THEOREM AskedOncePerMission == ASSUME LeaseOutlivesWork PROVE Spec => []AskedOnce
<1>1. Init => AskInv BY InitAsk
<1>2. IInv /\ SoleInv /\ AskInv /\ [Next]_vars => AskInv' BY AskStep
<1>3. AskInv => AskedOnce BY DEF AskInv, Asked, AskedOnce
<1>. QED BY <1>1, <1>2, <1>3, AlwaysSole, PTL DEF Spec

-----------------------------------------------------------------------------
(* Mission and delivery, without calls of apply_human_decision.            *)

RowOK(m) ==
    /\ stage[m] \in {None, "QA"} => qa[m] = None /\ aref[m] = None
    /\ stage[m] = "DEVELOPER" => qa[m] = "FAILED" /\ aref[m] = None
    /\ mstatus[m] = "WAITING_APPROVAL" <=> stage[m] = "WAITING_APPROVAL"
    /\ mstatus[m] = "COMPLETED" => stage[m] = "DEVELOPER"

(* Labels at which the mission of the call is RUNNING.                     *)
AtWork == {"get", "renew", "delivery", "renew_dev", "develop", "submit_read", "submit_write",
           "renew_qa", "review", "qa_read", "qa_create", "qa_write", "transition_read",
           "transition_write"}

(* What a call has read about its mission is still so.                     *)
StepOK(w) ==
    /\ pc[w] \in AtWork => mstatus[mi[w]] = "RUNNING"
    /\ pc[w] \in {"result", "current"} =>
          /\ stage[mi[w]] \in Decided
          /\ stage[mi[w]] = "DEVELOPER" => mstatus[mi[w]] = "RUNNING"
    /\ pc[w] = "current" =>
          /\ stage[mi[w]] = "DEVELOPER" => tgt[w] = "COMPLETED"
          /\ stage[mi[w]] = "WAITING_APPROVAL" => tgt[w] = "WAITING_APPROVAL"
    /\ pc[w] \in {"transition_read", "transition_write"} =>
          \/ tgt[w] = "COMPLETED" /\ stage[mi[w]] = "DEVELOPER"
          \/ tgt[w] = "FAILED"

SettleInv == (\A m \in Missions : RowOK(m)) /\ (\A w \in Workers : StepOK(w))

LEMMA InitSettle == Init => SettleInv
BY CodeChangeAssumption DEF Init, SettleInv, RowOK, StepOK, AtWork, CodeChangeAssumption

(* A step of w that writes at most the row of its own mission.             *)
LEMMA SettleOwn ==
    ASSUME NEW w \in Workers, IInv, SoleInv, SettleInv, Others(w), pc[w] # "idle",
           \A m \in Missions \ {mi[w]} :
              /\ mstatus'[m] = mstatus[m] /\ stage'[m] = stage[m]
              /\ qa'[m] = qa[m] /\ aref'[m] = aref[m],
           mi[w] \in Missions,
           NEW k, k = mi[w],
           /\ stage'[k] \in {None, "QA"} => qa'[k] = None /\ aref'[k] = None
           /\ stage'[k] = "DEVELOPER" => qa'[k] = "FAILED" /\ aref'[k] = None
           /\ mstatus'[k] = "WAITING_APPROVAL" <=> stage'[k] = "WAITING_APPROVAL"
           /\ mstatus'[k] = "COMPLETED" => stage'[k] = "DEVELOPER",
           StepOK(w)'
    PROVE  SettleInv'
<1>1. \A m \in Missions : RowOK(m)' BY DEF SettleInv, RowOK
<1>2. ASSUME NEW q \in Workers \ {w} PROVE StepOK(q)'
  <2>1. CASE pc[q] = "idle" BY <1>2, <2>1 DEF Others, StepOK, AtWork
  <2>2. CASE pc[q] # "idle"
    <3>1. mi[q] \in Missions \ {mi[w]} BY <2>2, Apart DEF IInv, CallOK
    <3>2. StepOK(q) BY DEF SettleInv
    <3>. QED BY <3>1, <3>2 DEF Others, StepOK
  <2>. QED BY <2>1, <2>2
<1>. QED BY <1>1, <1>2 DEF SettleInv

LEMMA SettleRead ==
    ASSUME NEW w \in Workers, IInv, SoleInv, SettleInv,
           \/ GetMission(w) \/ RenewLease(w) \/ GetDelivery(w) \/ RunDeveloper(w)
           \/ SubmitProposalRead(w) \/ RunQA(w) \/ RecordQARead(w)
           \/ ResultForMission(w) \/ CheckCurrent(w) \/ HandleFailure(w)
           \/ TransitionRead(w)
    PROVE  SettleInv'
<1>. TypeOK /\ StepOK(w) /\ WorkerSole(w) /\ ApprovalBindsCandidate
  BY DEF IInv, SettleInv, SoleInv
<1>. LocalType BY DEF TypeOK, LocalType
<1>1. /\ UNCHANGED <<mission, delivery>> /\ Others(w)
      /\ pc[w] # "idle" /\ (pc'[w] # "idle" => mi'[w] = mi[w])
  BY ReadFrame
<1>2. mi[w] \in Missions BY <1>1 DEF IInv, CallOK
<1>3. RowOK(mi[w]) BY <1>2 DEF SettleInv
<1>4. StepOK(w)'
  <2>1. CASE pc'[w] = "idle" BY <2>1 DEF StepOK, AtWork
  <2>2. CASE pc'[w] # "idle"
    <3>1. mi'[w] = mi[w] BY <1>1, <2>2
    <3>2. CASE GetMission(w) \/ RenewLease(w)
      <4>1. pc'[w] \in {"renew", "delivery", "develop", "review", "handler"}
        BY <2>2, <3>2 DEF GetMission, RenewLease, Goto, LocalType, Finish
      <4>2. pc[w] \in AtWork BY <3>2 DEF GetMission, RenewLease, AtWork
      <4>. QED BY <1>1, <3>1, <4>1, <4>2 DEF StepOK, AtWork, mission
    <3>3. CASE GetDelivery(w)
      <4>1. mstatus[mi[w]] = "RUNNING" BY <3>3 DEF GetDelivery, StepOK, AtWork
      <4>2. /\ pc'[w] \in {"renew_dev", "renew_qa", "result"}
            /\ pc'[w] = "result" => stage[mi[w]] \in Decided
        BY <1>2, <1>3, <3>3 DEF GetDelivery, Goto, LocalType, RowOK, TypeOK, Decided
      <4>. QED BY <1>1, <3>1, <4>1, <4>2 DEF StepOK, mission, delivery
    <3>4. CASE RunDeveloper(w) \/ SubmitProposalRead(w) \/ RunQA(w) \/ RecordQARead(w)
      <4>1. pc'[w] \in {"submit_read", "submit_write", "qa_read", "qa_create", "qa_write",
                        "handler"}
        BY <3>4 DEF RunDeveloper, SubmitProposalRead, RunQA, RecordQARead, Goto, LocalType
      <4>2. pc[w] \in AtWork
        BY <3>4 DEF RunDeveloper, SubmitProposalRead, RunQA, RecordQARead, AtWork
      <4>. QED BY <1>1, <3>1, <4>1, <4>2 DEF StepOK, AtWork, mission
    <3>5. CASE ResultForMission(w)
      <4>1. pc'[w] = "current" /\ pc[w] = "result"
            /\ tgt'[w] = IF Ready(mi[w]) THEN "WAITING_APPROVAL" ELSE "COMPLETED"
        BY <3>5 DEF ResultForMission, Goto, LocalType
      <4>2. stage[mi[w]] = "DEVELOPER" => ~Ready(mi[w]) BY <1>3 DEF RowOK, Ready
      <4>3. stage[mi[w]] = "WAITING_APPROVAL" => Ready(mi[w])
        BY <1>2 DEF ApprovalBindsCandidate, Ready
      <4>. QED BY <1>1, <3>1, <4>1, <4>2, <4>3 DEF StepOK, AtWork, mission, delivery
    <3>6. CASE CheckCurrent(w)
      <4>1. /\ pc[w] = "current" /\ tgt' = tgt
            /\ pc'[w] \in {"release", "handler", "transition_read"}
            /\ pc'[w] = "transition_read" =>
                  mstatus[mi[w]] = "RUNNING" /\ mstatus[mi[w]] # tgt[w]
        BY <3>6 DEF CheckCurrent, Goto, LocalType
      <4>2. pc'[w] = "transition_read" => stage[mi[w]] = "DEVELOPER"
        BY <1>3, <4>1 DEF StepOK, RowOK, Decided
      <4>. QED BY <1>1, <3>1, <4>1, <4>2 DEF StepOK, AtWork, mission, delivery
    <3>7. CASE HandleFailure(w)
      <4>1. /\ pc'[w] \in {"release", "transition_read"}
            /\ pc'[w] = "transition_read" => mstatus[mi[w]] = "RUNNING" /\ tgt'[w] = "FAILED"
        BY <3>7 DEF HandleFailure, Goto, LocalType
      <4>. QED BY <1>1, <3>1, <4>1 DEF StepOK, AtWork, mission
    <3>8. CASE TransitionRead(w)
      <4>1. /\ pc[w] = "transition_read" /\ tgt' = tgt
            /\ pc'[w] \in {"transition_write", "handler"}
        BY <2>2, <3>8 DEF TransitionRead, Goto, LocalType, Finish
      <4>. QED BY <1>1, <3>1, <4>1 DEF StepOK, AtWork, mission, delivery
    <3>. QED BY <3>2, <3>3, <3>4, <3>5, <3>6, <3>7, <3>8
  <2>. QED BY <2>1, <2>2
<1>5. \A m \in Missions : /\ mstatus'[m] = mstatus[m] /\ stage'[m] = stage[m]
                          /\ qa'[m] = qa[m] /\ aref'[m] = aref[m]
  BY <1>1 DEF mission, delivery
<1>6. PICK k : k = mi[w] OBVIOUS
<1>7. /\ stage'[k] \in {None, "QA"} => qa'[k] = None /\ aref'[k] = None
      /\ stage'[k] = "DEVELOPER" => qa'[k] = "FAILED" /\ aref'[k] = None
      /\ mstatus'[k] = "WAITING_APPROVAL" <=> stage'[k] = "WAITING_APPROVAL"
      /\ mstatus'[k] = "COMPLETED" => stage'[k] = "DEVELOPER"
  BY <1>2, <1>3, <1>5, <1>6 DEF RowOK
<1>. QED BY <1>1, <1>2, <1>4, <1>5, <1>6, <1>7, SettleOwn

LEMMA SettleWrite ==
    ASSUME NEW w \in Workers, IInv, SoleInv, SettleInv,
           \/ SubmitProposalWrite(w) \/ CreateRequest(w) \/ RecordQAWrite(w)
           \/ TransitionWrite(w) \/ ReleaseLease(w) \/ Crash(w)
    PROVE  SettleInv'
<1>. TypeOK /\ StepOK(w) /\ CallOK(w) /\ WorkerSole(w) BY DEF IInv, SettleInv, SoleInv
<1>. LocalType BY DEF TypeOK, LocalType
<1>1. pc[w] # "idle" /\ mi[w] \in Missions
  BY DEF SubmitProposalWrite, CreateRequest, RecordQAWrite, TransitionWrite, ReleaseLease,
         Crash, CallOK
<1>2. RowOK(mi[w]) BY <1>1 DEF SettleInv
<1>3. Others(w) BY StepOthers DEF CallStep
<1>4. ASSUME NEW m \in Missions \ {mi[w]}
      PROVE  /\ mstatus'[m] = mstatus[m] /\ stage'[m] = stage[m]
             /\ qa'[m] = qa[m] /\ aref'[m] = aref[m]
  BY <1>1 DEF SubmitProposalWrite, CreateRequest, RecordQAWrite, TransitionWrite,
         ReleaseLease, Crash, mission, delivery, TypeOK
<1>5. PICK k : k = mi[w] OBVIOUS
<1>6. /\ stage'[k] \in {None, "QA"} => qa'[k] = None /\ aref'[k] = None
      /\ stage'[k] = "DEVELOPER" => qa'[k] = "FAILED" /\ aref'[k] = None
      /\ mstatus'[k] = "WAITING_APPROVAL" <=> stage'[k] = "WAITING_APPROVAL"
      /\ mstatus'[k] = "COMPLETED" => stage'[k] = "DEVELOPER"
  <2>1. CASE SubmitProposalWrite(w)
    <3>1. mstatus[k] = "RUNNING" BY <1>5, <2>1 DEF SubmitProposalWrite, StepOK, AtWork
    <3>. QED BY <1>1, <1>2, <1>5, <2>1, <3>1, CodeChangeAssumption
         DEF SubmitProposalWrite, RowOK, TypeOK, mission, CodeChangeAssumption
  <2>2. CASE RecordQAWrite(w)
    <3>1. mstatus[k] = "RUNNING" /\ stage[k] = "QA" /\ res[w] \in QAResults
      BY <1>5, <2>2 DEF RecordQAWrite, StepOK, AtWork, WorkerSole, CallOK
    <3>2. aref[k] = None BY <1>2, <1>5, <3>1 DEF RowOK
    <3>. QED BY <1>1, <1>5, <2>2, <3>1, <3>2, CodeChangeAssumption
         DEF RecordQAWrite, TypeOK, CodeChangeAssumption
  <2>3. CASE TransitionWrite(w)
    <3>1. mstatus[k] = "RUNNING" BY <1>5, <2>3 DEF TransitionWrite, StepOK, AtWork
    <3>2. (tgt[w] = "COMPLETED" /\ stage[k] = "DEVELOPER") \/ tgt[w] = "FAILED"
      BY <1>5, <2>3 DEF TransitionWrite, StepOK
    <3>3. mstatus'[k] = tgt[w] /\ stage' = stage /\ qa' = qa /\ aref' = aref
      BY <1>1, <1>5, <2>3 DEF TransitionWrite, TypeOK, delivery
    <3>. QED BY <1>2, <1>5, <3>1, <3>2, <3>3 DEF RowOK
  <2>4. CASE CreateRequest(w) \/ ReleaseLease(w) \/ Crash(w)
    BY <1>2, <1>5, <2>4 DEF CreateRequest, ReleaseLease, Crash, mission, delivery, RowOK
  <2>. QED BY <2>1, <2>2, <2>3, <2>4
<1>7. StepOK(w)'
  <2>1. CASE SubmitProposalWrite(w)
    <3>1. /\ pc[w] = "submit_write" /\ pc'[w] \in {"delivery", "handler"}
          /\ mi' = mi /\ mstatus' = mstatus
      BY <2>1 DEF SubmitProposalWrite, Goto, LocalType, mission
    <3>. QED BY <3>1 DEF StepOK, AtWork
  <2>2. CASE CreateRequest(w)
    <3>1. pc[w] = "qa_create" /\ pc'[w] = "qa_write" /\ mi' = mi /\ mstatus' = mstatus
      BY <2>2 DEF CreateRequest, Goto, LocalType, mission
    <3>. QED BY <3>1 DEF StepOK, AtWork
  <2>3. CASE RecordQAWrite(w)
    <3>1. /\ pc[w] = "qa_write" /\ pc'[w] = "result" /\ mi'[w] = mi[w]
          /\ \/ stage'[mi[w]] = "WAITING_APPROVAL"
             \/ stage'[mi[w]] = "DEVELOPER" /\ mstatus'[mi[w]] = mstatus[mi[w]]
      BY <1>1, <2>3 DEF RecordQAWrite, Goto, LocalType, TypeOK
    <3>2. mstatus[mi[w]] = "RUNNING" BY <3>1 DEF StepOK, AtWork
    <3>. QED BY <3>1, <3>2 DEF StepOK, AtWork, Decided
  <2>4. CASE TransitionWrite(w)
    BY <2>4 DEF TransitionWrite, Goto, LocalType, StepOK, AtWork
  <2>5. CASE ReleaseLease(w) \/ Crash(w)
    BY <2>5, FinishLocal DEF ReleaseLease, Crash, StepOK, AtWork
  <2>. QED BY <2>1, <2>2, <2>3, <2>4, <2>5
<1>. QED BY <1>1, <1>3, <1>4, <1>5, <1>6, <1>7, SettleOwn

LEMMA SettleStep ==
    ASSUME Appliers = {}, IInv, SoleInv, SettleInv, [Next]_vars
    PROVE  SettleInv'
<1>. TypeOK BY DEF IInv
<1>. LocalType BY DEF TypeOK, LocalType
<1>1. ASSUME UNCHANGED <<mstatus, delivery, local>> PROVE SettleInv'
  BY <1>1 DEF SettleInv, RowOK, StepOK, delivery, local
<1>2. ASSUME NEW w \in Workers, NEW m \in Missions, Claim(w, m) PROVE SettleInv'
  <2>1. mstatus' = [mstatus EXCEPT ![m] = "RUNNING"] /\ UNCHANGED delivery
    BY <1>2 DEF Claim
  <2>2. mstatus[m] \in {"QUEUED", "RUNNING"} BY <1>2 DEF Claim, Claimable
  <2>3. \A n \in Missions : RowOK(n)' BY <2>1, <2>2 DEF SettleInv, RowOK, TypeOK, delivery
  <2>4. pc'[w] = "get" /\ mi'[w] = m BY <1>2 DEF Claim, Goto, LocalType
  <2>5. StepOK(w)' BY <2>1, <2>4 DEF StepOK, AtWork, TypeOK
  <2>6. ASSUME NEW q \in Workers \ {w} PROVE StepOK(q)'
    <3>1. Others(w) BY <1>2, StepOthers
    <3>2. CASE pc[q] = "idle" BY <2>6, <3>1, <3>2 DEF Others, StepOK, AtWork
    <3>3. CASE pc[q] # "idle"
      <4>1. mi[q] \in Missions /\ mi[q] # m
        BY <1>2, <3>3, ClaimableIsFree DEF Claim, IInv, CallOK
      <4>2. mstatus'[mi[q]] = mstatus[mi[q]] BY <2>1, <4>1 DEF TypeOK
      <4>3. StepOK(q) BY DEF SettleInv
      <4>. QED BY <2>1, <2>6, <3>1, <4>1, <4>2, <4>3 DEF Others, StepOK, delivery
    <3>. QED BY <3>2, <3>3
  <2>. QED BY <2>3, <2>5, <2>6 DEF SettleInv
<1>3. ASSUME NEW w \in Workers, CallStep(w) \/ Crash(w) PROVE SettleInv'
  BY <1>3, SettleRead, SettleWrite DEF CallStep
<1>4. ASSUME NEW m \in Missions, QueueCandidate(m) PROVE SettleInv'
  <2>1. /\ mstatus[m] = "ABSENT" /\ mstatus' = [mstatus EXCEPT ![m] = "QUEUED"]
        /\ UNCHANGED <<delivery, local>>
    BY <1>4 DEF QueueCandidate
  <2>2. \A n \in Missions : RowOK(n)' BY <2>1 DEF SettleInv, RowOK, TypeOK, delivery
  <2>3. ASSUME NEW q \in Workers PROVE StepOK(q)'
    <3>1. StepOK(q) /\ pc'[q] = pc[q] /\ mi'[q] = mi[q] /\ tgt'[q] = tgt[q]
      BY <2>1 DEF SettleInv, local
    <3>2. CASE pc[q] = "idle" BY <3>1, <3>2 DEF StepOK, AtWork
    <3>3. CASE pc[q] # "idle"
      <4>1. mi[q] \in Missions /\ mi[q] # m BY <2>1, <3>3 DEF SoleInv, WorkerSole, IInv, CallOK
      <4>2. mstatus'[mi[q]] = mstatus[mi[q]] BY <2>1, <4>1 DEF TypeOK
      <4>. QED BY <2>1, <3>1, <4>2 DEF StepOK, delivery
    <3>. QED BY <3>2, <3>3
  <2>. QED BY <2>2, <2>3 DEF SettleInv
<1>5. ASSUME \/ UNCHANGED vars
             \/ \E m \in Missions : ExpireLease(m)
             \/ \E a \in ApprovalIds, x \in {"APPROVED", "DENIED"} : Decide(a, x)
             \/ \E a \in ApprovalIds : ExpireApproval(a)
      PROVE  SettleInv'
  BY <1>1, <1>5 DEF vars, mission, ExpireLease, Decide, ExpireApproval
<1>. QED BY <1>2, <1>3, <1>4, <1>5 DEF Next

(* Mission and delivery agree whenever no worker is at the mission: with   *)
(* leases that outlive the work and without calls of apply_human_decision, *)
(* process_queued_candidate leaves a mission waiting exactly when its      *)
(* delivery waits, and completes only one whose candidate QA failed, for   *)
(* any number of workers, missions and crashes.                            *)
THEOREM MissionAgreesWithDelivery ==
    ASSUME LeaseOutlivesWork, Appliers = {} PROVE Spec => []SettledAgreement
<1>1. Init => SettleInv BY InitSettle
<1>2. IInv /\ SoleInv /\ SettleInv /\ [Next]_vars => SettleInv' BY SettleStep
<1>3. SettleInv => SettledAgreement BY DEF SettleInv, RowOK, SettledAgreement
<1>. QED BY <1>1, <1>2, <1>3, AlwaysSole, PTL DEF Spec
=============================================================================
