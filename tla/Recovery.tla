------------------------------ MODULE Recovery ------------------------------
(***************************************************************************)
(* DripVid automatic recovery: RecoveryService (incidents and attempts),   *)
(* RecoveryObserver, DripVidRecoveryCycle and RecoveryWorkerCoordinator,   *)
(* as one worker iteration drives them: a due observation cycle, then at   *)
(* most one mission execution, whose outcome is handed back to recovery.   *)
(*                                                                         *)
(* Every database transaction is one step; a worker may stop between any   *)
(* two of them.  Times are kept as ages: Tick makes everything one unit    *)
(* older, and an age stops growing once no comparison can tell it apart.   *)
(***************************************************************************)
EXTENDS Integers, Sequences, FiniteSets

CONSTANTS Workers,       \* worker processes that may be started
          ComponentOrder,\* RECOVERY_COMPONENTS, in the order of the cycle
          Snapshots,     \* what one probe and status sweep may see
          SettingsSet,   \* [enabled, observe_only] records read by a loop
          Outcomes,      \* tool outcomes a recovery mission may have
          Threshold,     \* failure_threshold
          Observation,   \* observation_seconds
          Cooldown,      \* cooldown_seconds
          Budget,        \* attempt_budget
          Window,        \* budget_window_seconds
          MaxIncidents, MaxCrashes, \* bounds, by the number of workers running
          MaxMissions,
          None

Components == {ComponentOrder[i] : i \in 1 .. Len(ComponentOrder)}

ASSUME RecoveryLimits ==
    /\ Threshold \in Nat /\ Threshold >= 2
    /\ Observation \in Nat \ {0} /\ Cooldown \in Nat \ {0}
    /\ Budget \in Nat \ {0}
    /\ Window \in Nat /\ Window >= Cooldown
    /\ ComponentOrder \in Seq(Components) /\ "app" \in Components
    /\ Outcomes \subseteq {"EXECUTED", "FAILED", "SIMULATED", "BLOCKED", "WAITING_APPROVAL"}
    /\ IsFiniteSet(Workers) /\ None \notin Nat
    /\ \A S \in (SUBSET Workers) \ {{}} : MaxCrashes[Cardinality(S)] \in Nat

VARIABLES running,    \* the workers started in this deployment
          incidents,  \* recovery_incidents, oldest first
          attempts,   \* recovery_attempts still inside the rolling window
          missions,   \* missions with source "automatic-recovery"
          notified,   \* [incident, severity] of notifications sent
          call,       \* what each worker is doing
          lastRun,    \* age of the coordinator's _last_run, None at first
          crashes

vars == <<running, incidents, attempts, missions, notified, call, lastRun,
          crashes>>

RecoveryIncidentState ==
    {"SUSPECT", "DIAGNOSING", "RECOVERY_PENDING", "VERIFYING", "RESOLVED",
     "ESCALATED"}

FailingFor == (Threshold - 1) * Observation   \* bound of first_failure_at

Incident == [component : Components, state : RecoveryIncidentState,
             active : BOOLEAN, fails : Nat, observed : 0 .. Observation,
             opened : 0 .. FailingFor, mission : Nat,
             lastAttempt : 0 .. Cooldown \cup {None},
             real : Nat]                      \* history: attempts executed

Mission == [component : Components, incident : Nat,
            status : {"CREATED", "PLANNED"} \cup Outcomes,
            ran : 0 .. Cooldown \cup {None},   \* history: age of execution
            hot : BOOLEAN,         \* history: another had run within Cooldown
            unseen : BOOLEAN]      \* history: no incident was told of it

Older(age, bound) == IF age # None /\ age < bound THEN age + 1 ELSE age

Idle == [pc |-> "idle", snap |-> None, todo |-> <<>>, inc |-> 0,
         mission |-> 0, outcome |-> None, ret |-> "idle",
         observe_only |-> FALSE]

Init ==
    /\ running \in (SUBSET Workers) \ {{}}
    /\ incidents = <<>> /\ attempts = {} /\ missions = <<>>
    /\ notified = {}
    /\ call = [w \in Workers |-> Idle]
    /\ lastRun = [w \in Workers |-> None]
    /\ crashes = 0

-----------------------------------------------------------------------------
(* Classification of one observation *)

\* bootstrap: _service_down, _service_running, _storage_critical
ServiceDown(status) == status = "down"
ServiceRunning(status) == status = "running"
StorageCritical(snap) == snap.storage = "critical"

\* bootstrap: _component_failed
ComponentFailed(c, snap) ==
    /\ snap.status[c] # "unknown"
    /\ \/ ServiceDown(snap.status[c])
       \/ c = "app" /\ snap.ok # TRUE
       \/ c = "database" /\ snap.database = FALSE

\* bootstrap: _component_healthy
ComponentHealthy(c, snap) ==
    /\ ServiceRunning(snap.status[c])
    /\ c = "app" => snap.ok = TRUE
    /\ c = "database" => snap.database = TRUE

\* observer: _verification_healthy
VerificationHealthy(c, snap) ==
    /\ ServiceRunning(snap.status[c]) /\ snap.ok = TRUE
    /\ c = "database" => snap.database = TRUE

\* policy: decide_recovery with _storage_decision, as its action ("observe"
\* for storage below its reserve has the effect of "resolved": none)
decide_recovery(c, fails, snap) ==
    CASE StorageCritical(snap) -> "escalate"
      [] ~StorageCritical(snap) /\ snap.ok = TRUE -> "resolved"
      [] ~StorageCritical(snap) /\ snap.ok # TRUE /\ fails < Threshold -> "observe"
      [] OTHER ->
           IF ServiceDown(snap.status[c]) THEN "recover"
           ELSE IF /\ c = "database" /\ ServiceRunning(snap.status[c])
                   /\ snap.database = FALSE
                THEN "escalate" ELSE "diagnose"

-----------------------------------------------------------------------------
(* RecoveryService: one transaction each *)

Active(c) == {i \in 1 .. Len(incidents) :
                incidents[i].component = c /\ incidents[i].active}

ActiveIncident(c) == IF Active(c) = {} THEN 0
                     ELSE CHOOSE i \in Active(c) : TRUE

\* Mutant: the lookup forgets that the incident must still be active.
AnyIncidentForMission(m) ==
    LET found == {i \in 1 .. Len(incidents) : incidents[i].mission = m}
    IN IF found = {} THEN 0 ELSE CHOOSE i \in found : TRUE

IncidentForMission(m) ==
    LET found == {i \in 1 .. Len(incidents) :
                    incidents[i].active /\ incidents[i].mission = m}
    IN IF found = {} THEN 0 ELSE CHOOSE i \in found : TRUE

NewIncident(c) ==
    [component |-> c, state |-> "SUSPECT", active |-> TRUE, fails |-> 1,
     observed |-> 0, opened |-> 0, mission |-> 0, lastAttempt |-> None,
     real |-> 0]

\* Mutant: every look counts as a new failure.
NeverTooSoon(i) == FALSE

\* the interval check of observe_failure
TooSoon(i) == incidents[i].observed < Observation

\* Mutant: the failure counter runs backwards.
RefailedBackwards(inc) == [inc EXCEPT !.fails = @ - 1, !.observed = 0]

\* the row after one more failed observation (fails stops at the threshold)
Refailed(inc) ==
    [inc EXCEPT !.fails = IF @ < Threshold THEN @ + 1 ELSE @,
                !.observed = 0,
                !.state = IF @ = "SUSPECT" /\ inc.fails + 1 >= Threshold
                          THEN "DIAGNOSING" ELSE @]

ObserveFailure(c) ==
    IF ActiveIncident(c) = 0 THEN Append(incidents, NewIncident(c))
    ELSE IF TooSoon(ActiveIncident(c)) THEN incidents
    ELSE [incidents EXCEPT ![ActiveIncident(c)] = Refailed(@)]

\* a terminal row, by resolve, resolve_if_healthy (fails = 0) or escalate
Resolved(inc) == [inc EXCEPT !.state = "RESOLVED", !.active = FALSE,
                             !.fails = 0, !.observed = 0]
Escalated(inc) == [inc EXCEPT !.state = "ESCALATED", !.active = FALSE,
                              !.observed = 0]

PendingStates == {"SUSPECT", "DIAGNOSING", "RECOVERY_PENDING"}

\* Mutant: the count looks at the simulated attempts.
CountsSimulated(c) == {a \in attempts : a.component = c /\ a.simulated}

RealAttempts(c) == {a \in attempts : a.component = c /\ ~a.simulated}

\* can_recover, as its reason
CanRecover(i) ==
    LET inc == incidents[i] IN
    CASE ~inc.active \/ inc.state # "RECOVERY_PENDING" -> "state_not_pending"
      [] OTHER ->
           IF Cardinality(RealAttempts(inc.component)) >= Budget
           THEN "budget_exhausted"
           ELSE IF inc.lastAttempt # None /\ inc.lastAttempt < Cooldown
           THEN "cooldown" ELSE "allowed"

-----------------------------------------------------------------------------
(* The worker's steps *)

At(w, pc) == w \in running /\ call[w].pc = pc
Go(w, pc) == call' = [call EXCEPT ![w].pc = pc]

\* The worker process ends: an exception left the loop, or it was stopped.
\* A new process starts with no _last_run and no memory of the call.
Exit(w) == /\ call' = [call EXCEPT ![w] = Idle]
           /\ lastRun' = [lastRun EXCEPT ![w] = None]

\* The next component of the cycle
Continue(w) == call' = [call EXCEPT ![w].pc = "cycle", ![w].inc = 0, ![w].mission = 0,
                                    ![w].todo = Tail(@)]

Due(w) == lastRun[w] \in {None, Observation}   \* an age stops there

\* run_if_due: the gate, then the probe and the status sweep
RunIfDue(w) ==
    /\ At(w, "idle")
    /\ \E s \in SettingsSet :
        \/ /\ ~s.enabled \/ ~Due(w)
           /\ Go(w, "execute") /\ UNCHANGED lastRun
        \/ /\ s.enabled /\ Due(w)
           /\ lastRun' = [lastRun EXCEPT ![w] = 0]
           /\ \E snap \in Snapshots :
                call' = [call EXCEPT ![w] =
                    [Idle EXCEPT !.snap = snap,
                        !.pc = IF StorageCritical(snap) THEN "observe"
                               ELSE "cycle",
                        !.todo = IF StorageCritical(snap) THEN <<"app">>
                                 ELSE ComponentOrder,
                        !.ret = "cycle",
                        !.observe_only = s.observe_only]]
    /\ UNCHANGED <<running, incidents, attempts, missions, notified, crashes>>

\* run_once: one turn of the loop over the components, up to its first write
CycleComponent(w) ==
    /\ At(w, "cycle")
    /\ IF call[w].todo = <<>> THEN Go(w, "execute")
       ELSE LET c == Head(call[w].todo)
                i == ActiveIncident(c)
                snap == call[w].snap
                verifying == /\ i # 0 /\ incidents[i].state = "VERIFYING"
                             /\ snap.status[c] # "unknown"
            IN \/ /\ verifying
                  /\ call' = [call EXCEPT ![w].inc = i, ![w].pc =
                        IF VerificationHealthy(c, snap) THEN "resolve"
                        ELSE "escalate"]
               \/ /\ ~verifying
                  /\ IF ComponentHealthy(c, snap)
                     THEN IF i = 0 THEN Continue(w) ELSE Go(w, "heal")
                     ELSE IF ComponentFailed(c, snap) THEN Go(w, "observe")
                     ELSE Continue(w)
    /\ UNCHANGED <<running, incidents, attempts, missions, notified, lastRun,
                   crashes>>

\* resolve_if_healthy
ResolveIfHealthy(w) ==
    /\ At(w, "heal")
    /\ LET i == ActiveIncident(Head(call[w].todo)) IN
       incidents' = IF i = 0 THEN incidents
                    ELSE [incidents EXCEPT ![i] = Resolved(@)]
    /\ Continue(w)
    /\ UNCHANGED <<running, attempts, missions, notified, lastRun, crashes>>

\* observe_failure, and the threshold test on the row it returns
ObserveFailureStep(w) ==
    /\ At(w, "observe")
    /\ LET c == Head(call[w].todo) IN
       /\ ActiveIncident(c) = 0 => Len(incidents) < MaxIncidents[Cardinality(running)]
       /\ incidents' = ObserveFailure(c)
       /\ LET i == IF ActiveIncident(c) = 0 THEN Len(incidents) + 1
                   ELSE ActiveIncident(c)
          IN IF incidents'[i].fails < Threshold THEN Continue(w)
             ELSE call' = [call EXCEPT ![w].inc = i, ![w].pc =
                    IF StorageCritical(call[w].snap) THEN "policy"
                    ELSE "capture"]
    /\ UNCHANGED <<running, attempts, missions, notified, lastRun, crashes>>

\* update_diagnostics: refuses a terminal incident, which ends the worker
UpdateDiagnostics(w) ==
    /\ At(w, "capture")
    /\ IF incidents[call[w].inc].active
       THEN /\ incidents' = [incidents EXCEPT ![call[w].inc].observed = 0]
            /\ Go(w, "policy") /\ UNCHANGED lastRun
       ELSE Exit(w) /\ UNCHANGED incidents
    /\ UNCHANGED <<running, attempts, missions, notified, crashes>>

\* handle_policy_escalation: read the incident, decide
HandlePolicyEscalation(w) ==
    /\ At(w, "policy")
    /\ LET inc == incidents[call[w].inc] IN
       IF decide_recovery(inc.component, inc.fails, call[w].snap) = "escalate"
       THEN Go(w, "escalate")
       ELSE IF StorageCritical(call[w].snap) THEN Continue(w)
       ELSE Go(w, "consider")
    /\ UNCHANGED <<running, incidents, attempts, missions, notified, lastRun,
                   crashes>>

\* create_recovery_mission up to its first write
CreateRecoveryMission(w) ==
    /\ At(w, "consider")
    /\ LET inc == incidents[call[w].inc] IN
       IF /\ inc.mission = 0 /\ ~call[w].observe_only
          /\ decide_recovery(inc.component, inc.fails, call[w].snap) = "recover"
       THEN Go(w, "pending")
       ELSE Continue(w)
    /\ UNCHANGED <<running, incidents, attempts, missions, notified, lastRun,
                   crashes>>

MarkRecoveryPending(w) ==
    /\ At(w, "pending")
    /\ LET inc == incidents[call[w].inc] IN
       IF inc.active /\ inc.state \in PendingStates
       THEN /\ incidents' = [incidents EXCEPT
                    ![call[w].inc].state = "RECOVERY_PENDING",
                    ![call[w].inc].observed = 0]
            /\ Go(w, "allow") /\ UNCHANGED lastRun
       ELSE Exit(w) /\ UNCHANGED incidents
    /\ UNCHANGED <<running, attempts, missions, notified, crashes>>

Allow(w) ==
    /\ At(w, "allow")
    /\ LET reason == CanRecover(call[w].inc) IN
       IF reason = "allowed" THEN Go(w, "create")
       ELSE IF reason = "budget_exhausted" THEN Go(w, "escalate")
       ELSE Continue(w)
    /\ UNCHANGED <<running, incidents, attempts, missions, notified, lastRun,
                   crashes>>

\* create_mission, create_plan and attach_mission: three transactions
CreateMission(w) ==
    /\ At(w, "create")
    /\ Len(missions) < MaxMissions
    /\ missions' = Append(missions,
            [component |-> incidents[call[w].inc].component,
             incident |-> call[w].inc, status |-> "CREATED", ran |-> None,
             hot |-> FALSE, unseen |-> FALSE])
    /\ call' = [call EXCEPT ![w].pc = "plan", ![w].mission = Len(missions) + 1]
    /\ UNCHANGED <<running, incidents, attempts, notified, lastRun, crashes>>

CreatePlan(w) ==
    /\ At(w, "plan")
    /\ missions' = [missions EXCEPT ![call[w].mission].status = "PLANNED"]
    /\ Go(w, "attach")
    /\ UNCHANGED <<running, incidents, attempts, notified, lastRun, crashes>>

\* Mutant: the update is not conditional on a free incident.
AttachUnconditionally(inc) == inc.active

\* the WHERE clause of attach_mission
CanAttach(inc) == inc.active /\ inc.state = "RECOVERY_PENDING" /\ inc.mission = 0

AttachMission(w) ==
    /\ At(w, "attach")
    /\ IF CanAttach(incidents[call[w].inc])
       THEN /\ incidents' = [incidents EXCEPT
                    ![call[w].inc].mission = call[w].mission]
            /\ Continue(w) /\ UNCHANGED lastRun
       ELSE Exit(w) /\ UNCHANGED incidents
    /\ UNCHANGED <<running, attempts, missions, notified, crashes>>

\* resolve after a verified recovery
ResolveVerified(w) ==
    /\ At(w, "resolve")
    /\ incidents' = [incidents EXCEPT ![call[w].inc] = Resolved(@)]
    /\ Go(w, "inform")
    /\ UNCHANGED <<running, attempts, missions, notified, lastRun, crashes>>

\* Mutant: the outcome of a mission escalates without a notification.
EscalateQuietly(w) ==
    /\ At(w, "escalate")
    /\ incidents' = [incidents EXCEPT ![call[w].inc] = Escalated(@)]
    /\ IF call[w].ret = "cycle" THEN Go(w, "alarm")
       ELSE call' = [call EXCEPT ![w] = Idle]
    /\ UNCHANGED <<running, attempts, missions, notified, lastRun, crashes>>

\* escalate: no look at the row's present state
Escalate(w) ==
    /\ At(w, "escalate")
    /\ incidents' = [incidents EXCEPT ![call[w].inc] = Escalated(@)]
    /\ Go(w, "alarm")
    /\ UNCHANGED <<running, attempts, missions, notified, lastRun, crashes>>

\* _notify: INFORMATION after a resolve, CRITICAL after an escalation
Notify(w) ==
    /\ At(w, "inform") \/ At(w, "alarm")
    /\ notified' = notified \cup
            {[incident |-> call[w].inc, severity |->
              IF call[w].pc = "alarm" THEN "CRITICAL" ELSE "INFORMATION"]}
    /\ IF call[w].ret = "cycle" THEN Continue(w)
       ELSE call' = [call EXCEPT ![w] = Idle]
    /\ UNCHANGED <<running, incidents, attempts, missions, lastRun, crashes>>

-----------------------------------------------------------------------------
(* The autonomous runner and the hand-over of its result *)

\* another recovery of m's component ran less than Cooldown ago
Hot(m) == \E n \in 1 .. Len(missions) :
    /\ n # m /\ missions[n].component = missions[m].component
    /\ missions[n].ran \in 0 .. Cooldown - 1

Ran(m, outcome) ==
    [missions[m] EXCEPT !.status = outcome,
        !.ran = IF outcome \in {"EXECUTED", "FAILED"} THEN 0 ELSE None,
        !.hot = outcome \in {"EXECUTED", "FAILED"} /\ Hot(m)]

\* The worker executes a planned recovery mission to its first outcome;
\* MissionExecution models how.
ExecuteMission(w) ==
    /\ At(w, "execute")
    /\ \E m \in 1 .. Len(missions), o \in Outcomes :
        /\ missions[m].status = "PLANNED"
        /\ missions' = [missions EXCEPT ![m] =
                [Ran(m, o) EXCEPT !.unseen = IncidentForMission(m) = 0]]
        /\ call' = [call EXCEPT ![w] = [Idle EXCEPT !.pc = "handle",
                                            !.mission = m, !.outcome = o]]
    /\ UNCHANGED <<running, incidents, attempts, notified, lastRun, crashes>>

\* Another mission is taken first, or there is nothing to execute.
ExecuteOther(w) ==
    /\ At(w, "execute")
    /\ call' = [call EXCEPT ![w] = Idle]
    /\ UNCHANGED <<running, incidents, attempts, missions, notified, lastRun,
                   crashes>>

\* Mutant: an outcome that is no result is dropped.
HandleOnlyResults(w) ==
    /\ At(w, "handle")
    /\ LET i == IncidentForMission(call[w].mission) IN
       call' = [call EXCEPT ![w] =
            IF i = 0 \/ call[w].outcome \in {"BLOCKED", "WAITING_APPROVAL"}
            THEN Idle ELSE [@ EXCEPT !.inc = i, !.pc = "record"]]
    /\ UNCHANGED <<running, incidents, attempts, missions, notified, lastRun,
                   crashes>>

\* handle_execution_result up to the branch of record_mission_outcome
HandleExecutionResult(w) ==
    /\ At(w, "handle")
    /\ LET i == IncidentForMission(call[w].mission)
           o == call[w].outcome
       IN call' = [call EXCEPT ![w] =
                IF i = 0 THEN Idle
                ELSE [@ EXCEPT !.inc = i, !.pc =
                        IF o \in {"BLOCKED", "WAITING_APPROVAL"}
                        THEN "escalate" ELSE "record"]]
    /\ UNCHANGED <<running, incidents, attempts, missions, notified, lastRun,
                   crashes>>

\* Mutant: only a successful restart is a real attempt.
RecordOnlySuccess(w) ==
    /\ At(w, "record")
    /\ LET i == call[w].inc
           real == call[w].outcome = "EXECUTED"
       IN /\ attempts' = attempts \cup
                {[incident |-> i, component |-> incidents[i].component,
                  mission |-> call[w].mission, simulated |-> ~real, age |-> 0]}
          /\ incidents' = IF ~real THEN incidents
                          ELSE [incidents EXCEPT ![i].lastAttempt = 0,
                                                 ![i].real = @ + 1]
          /\ Go(w, IF call[w].outcome = "FAILED" THEN "escalate" ELSE "verifying")
    /\ UNCHANGED <<running, missions, notified, lastRun, crashes>>

RecordAttempt(w) ==
    /\ At(w, "record")
    /\ LET i == call[w].inc
           o == call[w].outcome
       IN /\ attempts' = attempts \cup
                {[incident |-> i, component |-> incidents[i].component,
                  mission |-> call[w].mission,
                  simulated |-> o = "SIMULATED", age |-> 0]}
          /\ incidents' = IF o = "SIMULATED" THEN incidents
                          ELSE [incidents EXCEPT ![i].lastAttempt = 0,
                                                 ![i].real = @ + 1]
          /\ Go(w, IF o = "FAILED" THEN "escalate" ELSE "verifying")
    /\ UNCHANGED <<running, missions, notified, lastRun, crashes>>

\* mark_verifying: only an active incident moves on
MarkVerifying(w) ==
    /\ At(w, "verifying")
    /\ IF incidents[call[w].inc].active
       THEN /\ incidents' = [incidents EXCEPT
                    ![call[w].inc].state = "VERIFYING",
                    ![call[w].inc].observed = 0]
            /\ call' = [call EXCEPT ![w] = Idle] /\ UNCHANGED lastRun
       ELSE Exit(w) /\ UNCHANGED incidents
    /\ UNCHANGED <<running, attempts, missions, notified, crashes>>

\* An operator approves a mission that waited, and it runs in the web process:
\* the recovery coordinator never sees that result.
ResumeApproved(m) ==
    /\ missions[m].status = "WAITING_APPROVAL"
    /\ \E o \in Outcomes \cap {"EXECUTED", "FAILED"} :
        missions' = [missions EXCEPT ![m] =
                        [Ran(m, o) EXCEPT !.unseen = TRUE]]
    /\ UNCHANGED <<running, incidents, attempts, notified, call, lastRun,
                   crashes>>

-----------------------------------------------------------------------------
(* Time and crashes *)

Tick ==
    /\ incidents' = [i \in DOMAIN incidents |->
            [incidents[i] EXCEPT
                !.observed = Older(@, Observation),
                !.opened = Older(@, FailingFor),
                !.lastAttempt = Older(@, Cooldown)]]
    /\ attempts' = {[a EXCEPT !.age = @ + 1] :
                        a \in {b \in attempts : b.age < Window}}
    /\ missions' = [m \in DOMAIN missions |->
            [missions[m] EXCEPT !.ran = Older(@, Cooldown)]]
    /\ lastRun' = [w \in Workers |-> Older(lastRun[w], Observation)]
    /\ UNCHANGED <<running, notified, call, crashes>>

Crash(w) ==
    /\ w \in running /\ call[w] # Idle
    /\ crashes < MaxCrashes[Cardinality(running)]
    /\ Exit(w)
    /\ crashes' = crashes + 1
    /\ UNCHANGED <<running, incidents, attempts, missions, notified>>

Step(w) ==
    \/ RunIfDue(w) \/ CycleComponent(w) \/ ResolveIfHealthy(w)
    \/ ObserveFailureStep(w) \/ UpdateDiagnostics(w)
    \/ HandlePolicyEscalation(w) \/ CreateRecoveryMission(w)
    \/ MarkRecoveryPending(w) \/ Allow(w) \/ CreateMission(w) \/ CreatePlan(w)
    \/ AttachMission(w) \/ ResolveVerified(w) \/ Escalate(w) \/ Notify(w)
    \/ ExecuteMission(w) \/ ExecuteOther(w) \/ HandleExecutionResult(w)
    \/ RecordAttempt(w) \/ MarkVerifying(w)

Next ==
    \/ Tick
    \/ \E w \in Workers : Step(w) \/ Crash(w)
    \/ \E m \in DOMAIN missions : ResumeApproved(m)

Spec == Init /\ [][Next]_vars

-----------------------------------------------------------------------------
(* Properties *)

TypeOK ==
    /\ running \in (SUBSET Workers) \ {{}}
    /\ incidents \in Seq(Incident)
    /\ missions \in Seq(Mission)
    /\ \A a \in attempts : /\ a.incident \in 1 .. Len(incidents)
                           /\ a.mission \in 1 .. Len(missions)
                           /\ a.age \in 0 .. Window
    /\ \A n \in notified : n.incident \in 1 .. Len(incidents)
    /\ \A w \in Workers : /\ call[w].inc \in 0 .. Len(incidents)
                          /\ call[w].mission \in 0 .. Len(missions)
                          /\ lastRun[w] \in 0 .. Observation \cup {None}
    /\ crashes \in 0 .. MaxCrashes[Cardinality(running)]

OneWorker == Cardinality(running) = 1

\* The rolling budget: with one worker, whatever crashes, the attempts recorded
\* as real for a component inside the window never exceed attempt_budget, though
\* can_recover reads the count several transactions before the attempt is added.
RecordedBudget ==
    OneWorker => \A c \in Components :
        Cardinality({a \in attempts : a.component = c /\ ~a.simulated}) <= Budget

\* A recovery mission is only created for a component that has been failing for
\* at least (failure_threshold - 1) observation intervals, however often the
\* workers look and whichever of them looks.
SustainedFailure ==
    \A m \in 1 .. Len(missions) :
        incidents[missions[m].incident].opened >= FailingFor

\* At most one real attempt is booked on an incident, even when two workers
\* both created a mission for it.
OneAttemptPerIncident ==
    \A i \in 1 .. Len(incidents) : incidents[i].real <= 1

\* No incident is escalated silently: unless a worker was stopped, its critical
\* notification was sent or is the next thing its worker does.
EscalationNotified ==
    crashes = 0 => \A i \in 1 .. Len(incidents) :
        incidents[i].state = "ESCALATED" =>
            \/ \E n \in notified : n.incident = i /\ n.severity = "CRITICAL"
            \/ \E w \in running : At(w, "alarm") /\ call[w].inc = i

\* Every restart the worker made for a still active incident is booked as a real
\* attempt, or is being booked: with one worker that is never stopped, only the
\* restart of an incident that ended meanwhile goes uncounted.
RestartAccounted ==
    OneWorker /\ crashes = 0 => \A m \in 1 .. Len(missions) :
        missions[m].ran # None /\ ~missions[m].unseen =>
            \/ incidents[missions[m].incident].real = 1
            \/ \E w \in running : /\ call[w].pc \in {"handle", "record"}
                                   /\ call[w].mission = m

\* With one worker a terminal incident never leaves its state, although resolve
\* and escalate do not look at the state they overwrite.
TerminalIsFinal ==
    [][OneWorker => \A i \in 1 .. Len(incidents) :
            ~incidents[i].active => incidents'[i].state = incidents[i].state]_vars

\* No incident is stranded: with one worker that is never stopped, an active
\* incident with a mission waits for that mission to run, is being told of its
\* outcome, or is verified by the next cycle.  (Stopped between the execution and
\* mark_verifying, it stays RECOVERY_PENDING with a mission that is over.)
NoStrandedIncident ==
    OneWorker /\ crashes = 0 => \A i \in 1 .. Len(incidents) :
        incidents[i].active /\ incidents[i].mission # 0 =>
            \/ missions[incidents[i].mission].status = "PLANNED"
            \/ incidents[i].state = "VERIFYING"
            \/ \E w \in running : /\ call[w].mission = incidents[i].mission
                                   /\ call[w].pc \in {"handle", "record",
                                                     "verifying", "escalate"}

\* What the design says of the cooldown: no second real recovery of a component
\* within cooldown_seconds of the last.
CooldownRespected == \A m \in 1 .. Len(missions) : ~missions[m].hot
=============================================================================
