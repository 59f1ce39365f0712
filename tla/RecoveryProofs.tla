--------------------------- MODULE RecoveryProofs ---------------------------
(***************************************************************************)
(* Proofs about Recovery, for any components, observations, limits and     *)
(* numbers of incidents and crashes; the first part also for any number of *)
(* workers.                                                                *)
(*                                                                         *)
(* What ties a recovery together is spread over three tables: the incident *)
(* names its mission, the mission its incident, and a worker holds either  *)
(* or both between two transactions.  RecInv says how they agree although  *)
(* any other worker may act in between; OneInv adds what is true only when *)
(* there is nobody else.                                                   *)
(***************************************************************************)
EXTENDS Recovery, FiniteSetTheorems, TLAPS

\* A worker between two transactions of create_recovery_mission, and the
\* other places where it has an incident in hand.
Deciding == {"capture", "policy", "consider", "pending", "allow", "create", "plan", "attach"}
Closing == {"resolve", "escalate", "inform", "alarm", "record", "verifying"}
Labels == {"idle", "cycle", "heal", "observe", "execute", "handle"} \cup Deciding \cup Closing

CallRec == [pc : Labels, snap : Snapshots \cup {None}, todo : Seq(Components), inc : Nat,
            mission : Nat, outcome : Outcomes \cup {None}, ret : {"idle", "cycle"},
            observe_only : {FALSE} \cup {s.observe_only : s \in SettingsSet}]

AttemptRec == [incident : Nat, component : Components, mission : Nat, simulated : BOOLEAN,
               age : 0 .. Window]

IncidentIds == 1 .. Len(incidents)
MissionIds == 1 .. Len(missions)

-----------------------------------------------------------------------------
(* The invariant, for any number of workers                                *)

ShapeInv ==
    /\ TypeOK
    /\ attempts \subseteq AttemptRec
    /\ call \in [Workers -> CallRec]
    /\ lastRun \in [Workers -> 0 .. Observation \cup {None}]
    /\ \A m \in MissionIds : missions[m].incident \in IncidentIds
    /\ \A w \in Workers \ running : call[w] = Idle

\* An incident: its counter of failures is backed by time that has passed,
\* and an attempt is only booked once it has a mission.
Sound(inc) ==
    /\ inc \in Incident /\ inc.fails <= Threshold /\ inc.real <= 1
    /\ \/ inc.opened >= FailingFor
       \/ inc.opened >= (inc.fails - 1) * Observation + inc.observed
    /\ inc.mission = 0 => inc.real = 0

SoundInv == \A i \in IncidentIds : Sound(incidents[i])

\* At most one incident of a component is open.
OpenInv == \A i, j \in IncidentIds :
    incidents[i].active /\ incidents[j].active /\ incidents[i].component = incidents[j].component
        => i = j

\* An incident and its mission name each other; until the mission has run
\* nothing is booked.
LinkInv == \A i \in IncidentIds : incidents[i].mission # 0 =>
    /\ incidents[i].mission \in MissionIds
    /\ missions[incidents[i].mission].incident = i
    /\ missions[incidents[i].mission].status # "CREATED"
    /\ missions[incidents[i].mission].status = "PLANNED" => incidents[i].real = 0

\* What a worker holds between two transactions.
Holds(w) ==
    LET k == call[w] IN
    /\ k.pc \in {"heal", "observe"} \cup Deciding => k.todo # <<>>
    /\ k.pc \in {"resolve", "escalate", "inform", "alarm"} /\ k.ret = "cycle" => k.todo # <<>>
    /\ k.pc \in {"handle", "record"} => k.ret = "idle"
    /\ k.pc \in Deciding \cup Closing => k.inc \in IncidentIds
    /\ k.pc \in Deciding => incidents[k.inc].opened >= FailingFor
    /\ k.pc \in {"plan", "attach", "handle", "record"} => k.mission \in MissionIds
    /\ k.pc \in {"plan", "attach"} => missions[k.mission].incident = k.inc
    /\ k.pc = "plan" => missions[k.mission].status = "CREATED"
    /\ k.pc = "attach" => missions[k.mission].status # "CREATED"
    /\ k.pc \in {"handle", "record"} =>
          /\ missions[k.mission].status \notin {"CREATED", "PLANNED"}
          /\ \A i \in IncidentIds : incidents[i].mission = k.mission => incidents[i].real = 0
    /\ k.pc = "record" => incidents[k.inc].mission = k.mission

HoldInv == \A w \in Workers : Holds(w)

\* No two workers have created, or executed, the same mission.
ApartInv == \A v, w \in Workers :
    /\ call[v].pc = "plan" /\ call[w].pc = "plan" /\ call[v].mission = call[w].mission => v = w
    /\ call[v].pc \in {"handle", "record"} /\ call[w].pc \in {"handle", "record"}
       /\ call[v].mission = call[w].mission => v = w

RecInv ==
    /\ ShapeInv /\ SoundInv /\ OpenInv /\ LinkInv /\ HoldInv /\ ApartInv
    /\ SustainedFailure /\ EscalationNotified

-----------------------------------------------------------------------------
(* What is true in addition when w is the only worker                      *)

\* The incident in hand is open, and nobody else may close it.
SoleHolds(w) ==
    LET k == call[w] IN
    /\ k.pc \in (Deciding \cup Closing) \ {"inform", "alarm"} => incidents[k.inc].active
    /\ k.pc \notin {"plan", "attach", "handle", "record", "verifying", "escalate", "alarm"} =>
          k.mission = 0
    /\ k.pc \in {"verifying", "escalate"} /\ k.mission # 0 => incidents[k.inc].mission = k.mission
    /\ k.pc = "attach" => missions[k.mission].status = "PLANNED"
    /\ k.pc = "handle" /\ ~missions[k.mission].unseen =>
          \E i \in IncidentIds : incidents[i].active /\ incidents[i].mission = k.mission
    /\ k.pc \in {"handle", "record"} /\ missions[k.mission].ran # None
       /\ ~missions[k.mission].unseen => k.outcome \in {"EXECUTED", "FAILED"}
    /\ k.pc \in {"create", "plan", "attach"} =>
          Cardinality(RealAttempts(incidents[k.inc].component)) < Budget

\* The budget leaves room for every mission that may still be booked.
BudgetInv ==
    /\ IsFiniteSet(attempts)
    /\ \A c \in Components : Cardinality(RealAttempts(c)) <= Budget
    /\ \A i \in IncidentIds :
          incidents[i].active /\ incidents[i].mission # 0 /\ incidents[i].real = 0 =>
              Cardinality(RealAttempts(incidents[i].component)) < Budget

\* Nothing runs before it is planned.
RanInv == \A m \in MissionIds :
    missions[m].status \in {"CREATED", "PLANNED"} => missions[m].ran = None

\* RestartAccounted and NoStrandedIncident, for worker w.
Booking(w, m) == call[w].pc \in {"handle", "record"} /\ call[w].mission = m

AccountInv(w) == crashes = 0 => \A m \in MissionIds :
    missions[m].ran # None /\ ~missions[m].unseen =>
        incidents[missions[m].incident].real = 1 \/ Booking(w, m)

Telling(w, m) ==
    call[w].pc \in {"handle", "record", "verifying", "escalate"} /\ call[w].mission = m

WaitInv(w) == crashes = 0 => \A i \in IncidentIds :
    incidents[i].active /\ incidents[i].mission # 0 =>
        \/ missions[incidents[i].mission].status = "PLANNED"
        \/ incidents[i].state = "VERIFYING"
        \/ Telling(w, incidents[i].mission)

SoleInv(w) == SoleHolds(w) /\ BudgetInv /\ RanInv /\ AccountInv(w) /\ WaitInv(w)

OneInv == \A w \in Workers : running = {w} => SoleInv(w)

LEMMA Limits ==
    /\ Threshold \in Nat /\ Threshold >= 2 /\ Observation \in Nat \ {0}
    /\ Cooldown \in Nat \ {0} /\ Budget \in Nat \ {0} /\ Window \in Nat
    /\ None \notin Nat
BY RecoveryLimits DEF RecoveryLimits

USE Limits

-----------------------------------------------------------------------------
(* What one transaction makes of an incident                               *)

\* Everything but attach_mission and add_attempt.
Kept(old, new) ==
    /\ new.component = old.component /\ new.opened >= old.opened
    /\ new.mission = old.mission /\ new.real = old.real
    /\ new.active => old.active

LEMMA FailingForNat == FailingFor \in Nat
BY DEF FailingFor

LEMMA FreshIncident ==
    ASSUME NEW c \in Components
    PROVE  Sound(NewIncident(c)) /\ NewIncident(c).mission = 0 /\ NewIncident(c).real = 0
           /\ NewIncident(c).component = c /\ NewIncident(c).state = "SUSPECT"
<1>1. NewIncident(c) \in Incident
  BY FailingForNat DEF NewIncident, Incident, RecoveryIncidentState
<1>. QED BY <1>1 DEF NewIncident, Sound

LEMMA Closed ==
    ASSUME NEW inc, Sound(inc)
    PROVE  /\ Sound(Resolved(inc)) /\ Kept(inc, Resolved(inc)) /\ Resolved(inc).state = "RESOLVED"
           /\ ~Resolved(inc).active
           /\ Sound(Escalated(inc)) /\ Kept(inc, Escalated(inc))
           /\ Escalated(inc).state = "ESCALATED" /\ ~Escalated(inc).active
<1>1. inc \in Incident BY DEF Sound
<1>2. inc.opened \in Nat /\ inc.fails \in Nat /\ inc.observed \in Nat /\ 0 \in 0 .. Observation
  BY <1>1, FailingForNat DEF Incident
<1>3. Resolved(inc) \in Incident
  BY <1>1, <1>2 DEF Resolved, Incident, RecoveryIncidentState
<1>4. /\ Resolved(inc).state = "RESOLVED" /\ ~Resolved(inc).active /\ Resolved(inc).fails = 0
      /\ Resolved(inc).opened = inc.opened /\ Resolved(inc).observed = 0
      /\ Resolved(inc).mission = inc.mission /\ Resolved(inc).real = inc.real
      /\ Resolved(inc).component = inc.component
  BY <1>1 DEF Resolved, Incident
<1>5. Sound(Resolved(inc)) /\ Kept(inc, Resolved(inc)) BY <1>2, <1>3, <1>4 DEF Sound, Kept
<1>6. Escalated(inc) \in Incident
  BY <1>1, <1>2 DEF Escalated, Incident, RecoveryIncidentState
<1>7. /\ Escalated(inc).state = "ESCALATED" /\ ~Escalated(inc).active
      /\ Escalated(inc).fails = inc.fails
      /\ Escalated(inc).opened = inc.opened /\ Escalated(inc).observed = 0
      /\ Escalated(inc).mission = inc.mission /\ Escalated(inc).real = inc.real
      /\ Escalated(inc).component = inc.component
  BY <1>1 DEF Escalated, Incident
<1>8. Sound(Escalated(inc)) /\ Kept(inc, Escalated(inc)) BY <1>2, <1>6, <1>7 DEF Sound, Kept
<1>. QED BY <1>4, <1>5, <1>7, <1>8

LEMMA FailedAgain ==
    ASSUME NEW inc, Sound(inc), ~(inc.observed < Observation)
    PROVE  /\ Sound(Refailed(inc)) /\ Kept(inc, Refailed(inc))
           /\ Refailed(inc).active = inc.active
           /\ Refailed(inc).state \in {inc.state, "DIAGNOSING"}
           /\ inc.state = "VERIFYING" => Refailed(inc).state = "VERIFYING"
<1>1. inc \in Incident BY DEF Sound
<1>2. /\ Refailed(inc) \in Incident /\ Refailed(inc).state \in {inc.state, "DIAGNOSING"}
      /\ inc.state = "VERIFYING" => Refailed(inc).state = "VERIFYING"
  <2>. DEFINE n == IF inc.fails < Threshold THEN inc.fails + 1 ELSE inc.fails
              s == IF inc.state = "SUSPECT" /\ inc.fails + 1 >= Threshold
                   THEN "DIAGNOSING" ELSE inc.state
  <2>1. inc.fails \in Nat /\ inc.state \in RecoveryIncidentState BY <1>1 DEF Incident
  <2>2. /\ n \in Nat /\ s \in RecoveryIncidentState /\ 0 \in 0 .. Observation
        /\ s \in {inc.state, "DIAGNOSING"} /\ (inc.state = "VERIFYING" => s = "VERIFYING")
    BY <2>1 DEF RecoveryIncidentState
  <2>3. Refailed(inc) = [inc EXCEPT !.fails = n, !.observed = 0, !.state = s]
    BY DEF Refailed
  <2>. HIDE DEF n, s
  <2>. QED BY <1>1, <2>2, <2>3 DEF Incident
<1>3. /\ Refailed(inc).opened = inc.opened /\ Refailed(inc).observed = 0
      /\ Refailed(inc).mission = inc.mission /\ Refailed(inc).real = inc.real
      /\ Refailed(inc).active = inc.active /\ Refailed(inc).component = inc.component
      /\ Refailed(inc).fails = IF inc.fails < Threshold THEN inc.fails + 1 ELSE inc.fails
  BY <1>1 DEF Refailed, Incident
<1>4. inc.opened \in Nat /\ inc.fails \in Nat /\ inc.observed = Observation
  BY <1>1, FailingForNat DEF Incident
<1>5. (inc.fails + 1 - 1) * Observation = (inc.fails - 1) * Observation + Observation
  BY <1>4
<1>6. Sound(Refailed(inc)) BY <1>2, <1>3, <1>4, <1>5, FailingForNat DEF Sound
<1>. QED BY <1>2, <1>3, <1>4, <1>6 DEF Kept

(* A failure counted up to the threshold has lasted.                       *)
LEMMA Lasted ==
    ASSUME NEW inc, Sound(inc), ~(inc.fails < Threshold)
    PROVE  inc.opened >= FailingFor
<1>1. inc \in Incident BY DEF Sound
<1>2. inc.fails = Threshold /\ inc.opened \in Nat /\ inc.observed \in Nat
  BY <1>1, FailingForNat DEF Incident, Sound
<1>. QED BY <1>2 DEF Sound, FailingFor

\* mark_recovery_pending, mark_verifying and update_diagnostics
LEMMA Marked ==
    ASSUME NEW inc, Sound(inc), NEW s \in RecoveryIncidentState
    PROVE  LET new == [inc EXCEPT !.state = s, !.observed = 0]
               old == [inc EXCEPT !.observed = 0]
           IN  /\ Sound(new) /\ Kept(inc, new) /\ new.state = s
               /\ Sound(old) /\ Kept(inc, old) /\ old.state = inc.state
               /\ new.active = inc.active /\ old.active = inc.active
<1>. DEFINE new == [inc EXCEPT !.state = s, !.observed = 0]
            old == [inc EXCEPT !.observed = 0]
<1>1. inc \in Incident BY DEF Sound
<1>2. new \in Incident /\ old \in Incident
  <2>1. 0 \in 0 .. Observation OBVIOUS
  <2>2. new \in Incident BY <1>1, <2>1 DEF Incident
  <2>3. old \in Incident BY <1>1, <2>1 DEF Incident
  <2>. QED BY <2>2, <2>3
<1>3. /\ new.opened = inc.opened /\ new.observed = 0 /\ new.fails = inc.fails
      /\ new.mission = inc.mission /\ new.real = inc.real /\ new.state = s
      /\ new.active = inc.active /\ new.component = inc.component
  BY <1>1 DEF Incident
<1>4. /\ old.opened = inc.opened /\ old.observed = 0 /\ old.fails = inc.fails
      /\ old.mission = inc.mission /\ old.real = inc.real /\ old.state = inc.state
      /\ old.active = inc.active /\ old.component = inc.component
  BY <1>1 DEF Incident
<1>. HIDE DEF new, old
<1>5. inc.opened \in Nat /\ inc.fails \in Nat /\ inc.observed \in Nat
  BY <1>1, FailingForNat DEF Incident
<1>6. Sound(new) /\ Kept(inc, new) BY <1>2, <1>3, <1>5 DEF Sound, Kept
<1>7. Sound(old) /\ Kept(inc, old) BY <1>2, <1>4, <1>5 DEF Sound, Kept
<1>. QED BY <1>3, <1>4, <1>6, <1>7 DEF new, old

LEMMA OlderAge ==
    ASSUME NEW bound \in Nat, NEW age \in 0 .. bound \cup {None}
    PROVE  /\ Older(age, bound) \in 0 .. bound \cup {None}
           /\ Older(age, bound) = None <=> age = None
           /\ age # None => Older(age, bound) \in {age, age + 1} /\ Older(age, bound) \in 0 .. bound
           /\ age # None /\ age # bound => Older(age, bound) = age + 1
<1>1. CASE age = None BY <1>1 DEF Older
<1>2. CASE age # None BY <1>2 DEF Older
<1>. QED BY <1>1, <1>2

Aged(inc) == [inc EXCEPT !.observed = Older(@, Observation), !.opened = Older(@, FailingFor),
                         !.lastAttempt = Older(@, Cooldown)]

LEMMA GrownOlder ==
    ASSUME NEW inc, Sound(inc)
    PROVE  /\ Sound(Aged(inc)) /\ Kept(inc, Aged(inc)) /\ Aged(inc).state = inc.state
           /\ Aged(inc).active = inc.active
<1>1. inc \in Incident BY DEF Sound
<1>2. /\ inc.observed \in 0 .. Observation /\ inc.opened \in 0 .. FailingFor
      /\ inc.lastAttempt \in 0 .. Cooldown \cup {None} /\ inc.fails \in Nat
      /\ inc.observed # None /\ inc.opened # None
  BY <1>1, FailingForNat DEF Incident
<1>. DEFINE o == Older(inc.observed, Observation)
            f == Older(inc.opened, FailingFor)
            a == Older(inc.lastAttempt, Cooldown)
<1>3. /\ o \in 0 .. Observation /\ o \in {inc.observed, inc.observed + 1}
      /\ f \in 0 .. FailingFor /\ f \in {inc.opened, inc.opened + 1}
      /\ inc.opened # FailingFor => f = inc.opened + 1
      /\ a \in 0 .. Cooldown \cup {None}
  BY <1>2, OlderAge, FailingForNat
<1>4. Aged(inc) = [inc EXCEPT !.observed = o, !.opened = f, !.lastAttempt = a] BY DEF Aged
<1>. HIDE DEF o, f, a
<1>5. /\ Aged(inc) \in Incident /\ Aged(inc).observed = o /\ Aged(inc).opened = f
      /\ Aged(inc).fails = inc.fails /\ Aged(inc).mission = inc.mission
      /\ Aged(inc).real = inc.real /\ Aged(inc).active = inc.active
      /\ Aged(inc).component = inc.component /\ Aged(inc).state = inc.state
  BY <1>1, <1>3, <1>4 DEF Incident
<1>6. Sound(Aged(inc))
  <2>1. \/ f >= FailingFor
        \/ f >= (inc.fails - 1) * Observation + o
    <3>1. CASE inc.opened >= FailingFor BY <1>2, <1>3, <3>1, FailingForNat
    <3>2. CASE ~(inc.opened >= FailingFor)
      <4>1. inc.opened >= (inc.fails - 1) * Observation + inc.observed BY <3>2 DEF Sound
      <4>2. f = inc.opened + 1 BY <1>2, <1>3, <3>2, FailingForNat
      <4>3. (inc.fails - 1) * Observation \in Int BY <1>2
      <4>. QED BY <1>2, <1>3, <4>1, <4>2, <4>3, FailingForNat
    <3>. QED BY <3>1, <3>2
  <2>. QED BY <1>5, <2>1 DEF Sound
<1>. QED BY <1>2, <1>3, <1>5, <1>6, FailingForNat DEF Kept

-----------------------------------------------------------------------------
(* What a step does to the tables, as far as the others are concerned      *)

\* Worker w has moved, the others are where they were.
Moves(w) ==
    /\ call' \in [Workers -> CallRec]
    /\ \A v \in Workers \ {w} : call'[v] = call[v]

\* No incident gets a mission, and none an attempt.
QuietIncidents ==
    /\ Len(incidents') \in Nat /\ Len(incidents') >= Len(incidents)
    /\ \A i \in IncidentIds : Kept(incidents[i], incidents'[i])
    /\ \A i \in 1 .. Len(incidents') : i \in IncidentIds \/ incidents'[i].mission = 0

\* A mission stays with its incident, and what has been planned or has run
\* is never so again.
MissionsGrow ==
    /\ Len(missions') \in Nat /\ Len(missions') >= Len(missions)
    /\ \A m \in MissionIds :
          /\ missions'[m].incident = missions[m].incident
          /\ missions[m].status # "CREATED" => missions'[m].status # "CREATED"
          /\ missions[m].status \notin {"CREATED", "PLANNED"} =>
                missions'[m].status \notin {"CREATED", "PLANNED"}

LEMMA Lengths ==
    ASSUME ShapeInv
    PROVE  /\ Len(incidents) \in Nat /\ Len(missions) \in Nat
           /\ incidents \in Seq(Incident) /\ missions \in Seq(Mission)
           /\ \A i \in IncidentIds : incidents[i] \in Incident
           /\ \A m \in MissionIds : missions[m] \in Mission
BY DEF ShapeInv, TypeOK, IncidentIds, MissionIds

LEMMA OpenedNat ==
    ASSUME ShapeInv
    PROVE  \A i \in IncidentIds : incidents[i].opened \in Nat
BY Lengths, FailingForNat DEF Incident

LEMMA OpenedLater ==
    ASSUME SoundInv'
    PROVE  \A i \in IncidentIds' : incidents'[i] \in Incident /\ incidents'[i].opened \in Nat
BY FailingForNat DEF SoundInv, Sound, Incident

LEMMA SameMissions ==
    ASSUME ShapeInv, UNCHANGED missions
    PROVE  MissionsGrow /\ MissionIds' = MissionIds
BY Lengths DEF MissionsGrow, MissionIds

LEMMA SameIncidents ==
    ASSUME ShapeInv, SoundInv, OpenInv, UNCHANGED incidents
    PROVE  QuietIncidents /\ SoundInv' /\ OpenInv' /\ IncidentIds' = IncidentIds
<1>1. QuietIncidents BY OpenedNat, Lengths DEF QuietIncidents, Kept, IncidentIds
<1>. QED BY <1>1 DEF SoundInv, OpenInv, IncidentIds

\* One incident is replaced.
LEMMA OneIncident ==
    ASSUME ShapeInv, SoundInv, OpenInv, NEW i \in IncidentIds, NEW new, Sound(new),
           incidents' = [incidents EXCEPT ![i] = new],
           new.component = incidents[i].component, new.active => incidents[i].active
    PROVE  /\ incidents' \in Seq(Incident) /\ Len(incidents') = Len(incidents)
           /\ IncidentIds' = IncidentIds /\ SoundInv' /\ OpenInv'
           /\ incidents'[i] = new /\ \A j \in IncidentIds \ {i} : incidents'[j] = incidents[j]
           /\ Kept(incidents[i], new) => QuietIncidents
<1>1. new \in Incident /\ incidents \in Seq(Incident) /\ Len(incidents) \in Nat
  BY Lengths DEF Sound
<1>2. /\ incidents' \in Seq(Incident) /\ Len(incidents') = Len(incidents)
      /\ IncidentIds' = IncidentIds
      /\ incidents'[i] = new /\ \A j \in IncidentIds \ {i} : incidents'[j] = incidents[j]
  BY <1>1 DEF IncidentIds
<1>3. SoundInv' BY <1>2 DEF SoundInv
<1>4. OpenInv' BY <1>2 DEF OpenInv
<1>5. ASSUME Kept(incidents[i], new) PROVE QuietIncidents
  <2>1. \A j \in IncidentIds : Kept(incidents[j], incidents'[j])
    BY <1>2, <1>5, OpenedNat DEF Kept
  <2>. QED BY <1>1, <1>2, <2>1 DEF QuietIncidents, IncidentIds
<1>. QED BY <1>2, <1>3, <1>4, <1>5

LEMMA QuietLinks ==
    ASSUME ShapeInv, LinkInv, QuietIncidents, MissionsGrow
    PROVE  LinkInv'
<1>1. SUFFICES ASSUME NEW i \in 1 .. Len(incidents'), incidents'[i].mission # 0
               PROVE  /\ incidents'[i].mission \in MissionIds'
                      /\ missions'[incidents'[i].mission].incident = i
                      /\ missions'[incidents'[i].mission].status # "CREATED"
                      /\ missions'[incidents'[i].mission].status = "PLANNED"
                            => incidents'[i].real = 0
  BY DEF LinkInv, IncidentIds
<1>2. i \in IncidentIds /\ incidents'[i].mission = incidents[i].mission
      /\ incidents'[i].real = incidents[i].real
  BY <1>1 DEF QuietIncidents, Kept
<1>3. /\ incidents[i].mission \in MissionIds /\ missions[incidents[i].mission].incident = i
      /\ missions[incidents[i].mission].status # "CREATED"
      /\ missions[incidents[i].mission].status = "PLANNED" => incidents[i].real = 0
  BY <1>1, <1>2 DEF LinkInv
<1>4. incidents[i].mission \in MissionIds' BY <1>3, Lengths DEF MissionsGrow, MissionIds
<1>. QED BY <1>2, <1>3, <1>4 DEF MissionsGrow

(* A worker that does not move goes on holding what it held.               *)
LEMMA OtherHolds ==
    ASSUME ShapeInv, NEW v \in Workers, Holds(v), call'[v] = call[v], MissionsGrow,
           Len(incidents') \in Nat, Len(incidents') >= Len(incidents),
           \A i \in IncidentIds :
              /\ incidents'[i].opened >= incidents[i].opened /\ incidents'[i] \in Incident
              /\ incidents[i].mission # 0 => incidents'[i].mission = incidents[i].mission,
           call[v].pc = "plan" => missions'[call[v].mission].status = "CREATED",
           call[v].pc \in {"handle", "record"} =>
              \A i \in 1 .. Len(incidents') :
                 incidents'[i].mission = call[v].mission => incidents'[i].real = 0
    PROVE  Holds(v)'
<1>. DEFINE k == call[v]
<1>1. /\ \A i \in IncidentIds : i \in IncidentIds' /\ i # 0
      /\ \A m \in MissionIds : m \in MissionIds' /\ m # 0
  BY Lengths DEF IncidentIds, MissionIds, MissionsGrow
<1>2. /\ k.pc \in {"heal", "observe"} \cup Deciding => k.todo # <<>>
      /\ k.pc \in {"resolve", "escalate", "inform", "alarm"} /\ k.ret = "cycle" => k.todo # <<>>
      /\ k.pc \in {"handle", "record"} => k.ret = "idle"
  BY DEF Holds
<1>3. k.pc \in Deciding \cup Closing => k.inc \in IncidentIds' BY <1>1 DEF Holds
<1>4. k.pc \in Deciding => incidents'[k.inc].opened >= FailingFor
  <2>1. k.pc \in Deciding => k.inc \in IncidentIds /\ incidents[k.inc].opened >= FailingFor
    BY DEF Holds
  <2>2. \A i \in IncidentIds : incidents[i].opened \in Nat /\ incidents'[i].opened \in Nat
    BY Lengths, FailingForNat DEF Incident
  <2>. QED BY <2>1, <2>2, FailingForNat
<1>5. k.pc \in {"plan", "attach", "handle", "record"} => k.mission \in MissionIds'
  BY <1>1 DEF Holds
<1>6. k.pc \in {"plan", "attach"} => missions'[k.mission].incident = k.inc
  BY DEF Holds, MissionsGrow
<1>7. k.pc = "attach" => missions'[k.mission].status # "CREATED" BY DEF Holds, MissionsGrow
<1>8. k.pc \in {"handle", "record"} => missions'[k.mission].status \notin {"CREATED", "PLANNED"}
  BY DEF Holds, MissionsGrow
<1>9. k.pc = "record" => incidents'[k.inc].mission = k.mission
  BY <1>1 DEF Holds, Closing
<1>. QED BY <1>2, <1>3, <1>4, <1>5, <1>6, <1>7, <1>8, <1>9 DEF Holds, IncidentIds

LEMMA QuietOthers ==
    ASSUME RecInv, NEW v \in Workers, call'[v] = call[v], MissionsGrow, QuietIncidents, SoundInv',
           call[v].pc = "plan" => missions'[call[v].mission].status = "CREATED"
    PROVE  Holds(v)'
<1>1. \A i \in IncidentIds :
        /\ incidents'[i].opened >= incidents[i].opened /\ incidents'[i] \in Incident
        /\ incidents[i].mission # 0 => incidents'[i].mission = incidents[i].mission
  <2>1. \A i \in IncidentIds : i \in IncidentIds'
    BY Lengths DEF QuietIncidents, IncidentIds, RecInv
  <2>. QED BY <2>1 DEF QuietIncidents, Kept, SoundInv, Sound
<1>2. ASSUME call[v].pc \in {"handle", "record"}, NEW i \in 1 .. Len(incidents'),
             incidents'[i].mission = call[v].mission
      PROVE  incidents'[i].real = 0
  <2>1. /\ call[v].mission # 0
        /\ \A j \in IncidentIds : incidents[j].mission = call[v].mission => incidents[j].real = 0
    BY <1>2 DEF RecInv, HoldInv, Holds, MissionIds
  <2>2. i \in IncidentIds /\ Kept(incidents[i], incidents'[i])
    BY <1>2, <2>1 DEF QuietIncidents
  <2>. QED BY <1>2, <2>1, <2>2 DEF Kept
<1>. QED BY <1>1, <1>2, OtherHolds DEF RecInv, HoldInv, QuietIncidents

LEMMA QuietApart ==
    ASSUME ApartInv, NEW w \in Workers, Moves(w), call'[w].pc # "plan",
           call'[w].pc \in {"handle", "record"} =>
              call[w].pc \in {"handle", "record"} /\ call'[w].mission = call[w].mission
    PROVE  ApartInv'
BY DEF ApartInv, Moves

(* Nobody becomes escalated, and nobody's alarm is dropped.                *)
LEMMA NobodyEscalated ==
    ASSUME RecInv, NEW w \in running, Moves(w), UNCHANGED running, notified \subseteq notified',
           crashes' = 0 => crashes = 0, call[w].pc = "alarm" => call'[w] = call[w],
           \A i \in 1 .. Len(incidents') :
              incidents'[i].state = "ESCALATED" =>
                  i \in IncidentIds /\ incidents[i].state = "ESCALATED"
    PROVE  EscalationNotified'
<1>1. SUFFICES ASSUME crashes' = 0, NEW i \in 1 .. Len(incidents'), incidents'[i].state = "ESCALATED"
               PROVE  \/ \E n \in notified' : n.incident = i /\ n.severity = "CRITICAL"
                      \/ \E v \in running : call'[v].pc = "alarm" /\ call'[v].inc = i
  BY DEF EscalationNotified, At
<1>2. \/ \E n \in notified : n.incident = i /\ n.severity = "CRITICAL"
      \/ \E v \in running : call[v].pc = "alarm" /\ call[v].inc = i
  BY <1>1 DEF RecInv, EscalationNotified, IncidentIds, At
<1>3. running \subseteq Workers BY DEF RecInv, ShapeInv, TypeOK
<1>. QED BY <1>2, <1>3 DEF Moves

(* A step that creates or runs no mission and books no attempt.            *)
LEMMA QuietStep ==
    ASSUME RecInv, NEW w \in running, Moves(w),
           QuietIncidents, incidents' \in Seq(Incident), SoundInv', OpenInv',
           UNCHANGED <<running, missions, attempts>>,
           lastRun' \in [Workers -> 0 .. Observation \cup {None}],
           crashes' \in 0 .. MaxCrashes[Cardinality(running)],
           \A n \in notified' : n.incident \in 1 .. Len(incidents'),
           call'[w].inc \in 0 .. Len(incidents'), call'[w].mission \in 0 .. Len(missions),
           Holds(w)', call'[w].pc # "plan",
           call'[w].pc \in {"handle", "record"} =>
              call[w].pc \in {"handle", "record"} /\ call'[w].mission = call[w].mission,
           EscalationNotified'
    PROVE  RecInv'
<1>. USE DEF RecInv
<1>1. running \subseteq Workers /\ Len(incidents') \in Nat /\ Len(incidents') >= Len(incidents)
      /\ Len(incidents) \in Nat
  BY Lengths DEF ShapeInv, TypeOK, QuietIncidents
<1>2. TypeOK'
  <2>1. \A v \in Workers : /\ call'[v].inc \in 0 .. Len(incidents')
                           /\ call'[v].mission \in 0 .. Len(missions)
    <3>1. SUFFICES ASSUME NEW v \in Workers
                   PROVE  /\ call'[v].inc \in 0 .. Len(incidents')
                          /\ call'[v].mission \in 0 .. Len(missions)
      OBVIOUS
    <3>2. CASE v = w BY <3>2
    <3>3. CASE v # w
      <4>1. call'[v] = call[v] BY <3>3 DEF Moves
      <4>2. call[v].inc \in 0 .. Len(incidents) /\ call[v].mission \in 0 .. Len(missions)
        BY DEF ShapeInv, TypeOK
      <4>. QED BY <1>1, <4>1, <4>2
    <3>. QED BY <3>2, <3>3
  <2>2. \A a \in attempts : a.incident \in 1 .. Len(incidents') BY <1>1 DEF ShapeInv, TypeOK
  <2>. QED BY <2>1, <2>2 DEF ShapeInv, TypeOK
<1>3. ShapeInv'
  <2>1. \A m \in MissionIds : missions[m].incident \in IncidentIds'
    BY <1>1 DEF ShapeInv, IncidentIds
  <2>2. \A v \in Workers \ running : call'[v] = Idle BY DEF Moves, ShapeInv
  <2>. QED BY <1>2, <2>1, <2>2 DEF ShapeInv, MissionIds, Moves
<1>4. MissionsGrow BY SameMissions
<1>5. LinkInv' BY <1>4, QuietLinks
<1>6. HoldInv'
  <2>1. ASSUME NEW v \in Workers, v # w PROVE Holds(v)'
    <3>1. call'[v] = call[v] BY <2>1 DEF Moves
    <3>2. call[v].pc = "plan" => missions'[call[v].mission].status = "CREATED"
      BY DEF HoldInv, Holds
    <3>. QED BY <1>4, <3>1, <3>2, QuietOthers
  <2>. QED BY <2>1 DEF HoldInv
<1>7. ApartInv' BY <1>1, QuietApart
<1>8. SustainedFailure'
  <2>1. SUFFICES ASSUME NEW m \in MissionIds
                 PROVE  incidents'[missions[m].incident].opened >= FailingFor
    BY DEF SustainedFailure, MissionIds
  <2>. DEFINE i == missions[m].incident
  <2>2. i \in IncidentIds /\ i \in IncidentIds' BY <1>1 DEF ShapeInv, IncidentIds
  <2>3. incidents[i].opened >= FailingFor BY DEF SustainedFailure, MissionIds
  <2>4. incidents'[i].opened >= incidents[i].opened BY <2>2 DEF QuietIncidents, Kept
  <2>5. incidents[i].opened \in Nat BY <2>2, OpenedNat
  <2>6. incidents'[i].opened \in Nat BY <2>2, OpenedLater
  <2>. QED BY <2>3, <2>4, <2>5, <2>6, FailingForNat, SMTT(30)
<1>. QED BY <1>3, <1>5, <1>6, <1>7, <1>8

-----------------------------------------------------------------------------
(* Where a step leaves its worker                                          *)

LEMMA Placed ==
    ASSUME ShapeInv, NEW w \in Workers, NEW k \in CallRec, call' = [call EXCEPT ![w] = k]
    PROVE  Moves(w) /\ call'[w] = k
BY DEF ShapeInv, Moves

LEMMA GoTo ==
    ASSUME ShapeInv, NEW w \in Workers, NEW pc \in Labels, Go(w, pc)
    PROVE  /\ Moves(w) /\ call'[w].pc = pc /\ call'[w].todo = call[w].todo
           /\ call'[w].inc = call[w].inc /\ call'[w].mission = call[w].mission
           /\ call'[w].ret = call[w].ret /\ call'[w].outcome = call[w].outcome
<1>1. call[w] \in CallRec BY DEF ShapeInv
<1>2. [call[w] EXCEPT !.pc = pc] \in CallRec BY <1>1 DEF CallRec
<1>3. call' = [call EXCEPT ![w] = [call[w] EXCEPT !.pc = pc]] BY DEF Go
<1>4. Moves(w) /\ call'[w] = [call[w] EXCEPT !.pc = pc] BY <1>2, <1>3, Placed
<1>. QED BY <1>1, <1>4 DEF CallRec

\* An incident is taken in hand.
Take(w, i, pc) == call' = [call EXCEPT ![w].inc = i, ![w].pc = pc]

LEMMA TakeUp ==
    ASSUME ShapeInv, NEW w \in Workers, NEW pc \in Labels, NEW i \in Nat,
           Take(w, i, pc)
    PROVE  /\ Moves(w) /\ call'[w].pc = pc /\ call'[w].todo = call[w].todo
           /\ call'[w].inc = i /\ call'[w].mission = call[w].mission
           /\ call'[w].ret = call[w].ret /\ call'[w].outcome = call[w].outcome
<1>1. call[w] \in CallRec BY DEF ShapeInv
<1>2. [call[w] EXCEPT !.inc = i, !.pc = pc] \in CallRec BY <1>1 DEF CallRec
<1>3. call' = [call EXCEPT ![w] = [call[w] EXCEPT !.inc = i, !.pc = pc]] BY DEF Take
<1>4. Moves(w) /\ call'[w] = [call[w] EXCEPT !.inc = i, !.pc = pc] BY <1>2, <1>3, Placed
<1>. QED BY <1>1, <1>4 DEF CallRec

LEMMA Parts ==
    ASSUME NEW S, NEW s \in Seq(S), s # <<>>
    PROVE  Head(s) \in S /\ Tail(s) \in Seq(S)
OBVIOUS

LEMMA ContinueFree ==
    ASSUME ShapeInv, NEW w \in Workers, call[w].todo # <<>>, Continue(w)
    PROVE  /\ Moves(w) /\ call'[w].pc = "cycle" /\ call'[w].inc = 0 /\ call'[w].mission = 0
<1>. DEFINE k == [call[w] EXCEPT !.pc = "cycle", !.inc = 0, !.mission = 0, !.todo = Tail(@)]
<1>1. call[w] \in CallRec BY DEF ShapeInv
<1>2. Tail(call[w].todo) \in Seq(Components)
  <2>1. call[w].todo \in Seq(Components) BY <1>1 DEF CallRec
  <2>. QED BY <2>1, Parts
<1>3. k \in CallRec /\ k.pc = "cycle" /\ k.inc = 0 /\ k.mission = 0
  BY <1>1, <1>2 DEF CallRec, Labels
<1>4. call' = [call EXCEPT ![w] = k] BY DEF Continue
<1>. HIDE DEF k
<1>. QED BY <1>3, <1>4, Placed

LEMMA IdleRecord == Idle \in CallRec /\ Idle.pc = "idle" /\ Idle.inc = 0 /\ Idle.mission = 0
BY DEF Idle, CallRec, Labels

LEMMA IdleFree ==
    ASSUME ShapeInv, NEW w \in Workers, call' = [call EXCEPT ![w] = Idle]
    PROVE  /\ Moves(w) /\ call'[w].pc = "idle" /\ call'[w].inc = 0 /\ call'[w].mission = 0
BY IdleRecord, Placed

(* Between two incidents, or two iterations, a worker holds nothing.        *)
LEMMA FreeHolds ==
    ASSUME NEW w, call'[w].pc \in {"idle", "cycle", "execute"}
    PROVE  Holds(w)'
BY DEF Holds, Deciding, Closing

-----------------------------------------------------------------------------
(* The steps that only move a worker                                       *)

LEMMA Around ==
    ASSUME RecInv, NEW w \in running
    PROVE  /\ w \in Workers /\ ShapeInv /\ SoundInv /\ OpenInv /\ Holds(w) /\ call[w] \in CallRec
           /\ call[w].inc \in 0 .. Len(incidents) /\ call[w].mission \in 0 .. Len(missions)
           /\ lastRun \in [Workers -> 0 .. Observation \cup {None}]
           /\ crashes \in 0 .. MaxCrashes[Cardinality(running)]
           /\ MaxCrashes[Cardinality(running)] \in Nat
           /\ Len(incidents) \in Nat /\ Len(missions) \in Nat
           /\ \A n \in notified : n.incident \in 1 .. Len(incidents)
           /\ incidents \in Seq(Incident) /\ missions \in Seq(Mission)
<1>1. w \in Workers /\ running \in (SUBSET Workers) \ {{}} BY DEF RecInv, ShapeInv, TypeOK
<1>2. MaxCrashes[Cardinality(running)] \in Nat BY <1>1, RecoveryLimits DEF RecoveryLimits
<1>3. ShapeInv BY DEF RecInv
<1>. QED BY <1>1, <1>2, <1>3, Lengths DEF RecInv, ShapeInv, TypeOK, HoldInv

LEMMA CallStep ==
    ASSUME RecInv, NEW w \in running, Moves(w),
           UNCHANGED <<running, incidents, attempts, missions, notified>>,
           lastRun' \in [Workers -> 0 .. Observation \cup {None}],
           crashes' \in 0 .. MaxCrashes[Cardinality(running)],
           crashes' = 0 => crashes = 0 /\ call[w].pc # "alarm",
           call'[w].inc \in 0 .. Len(incidents), call'[w].mission \in 0 .. Len(missions),
           Holds(w)', call'[w].pc # "plan",
           call'[w].pc \in {"handle", "record"} =>
              call[w].pc \in {"handle", "record"} /\ call'[w].mission = call[w].mission
    PROVE  RecInv'
<1>1. QuietIncidents /\ SoundInv' /\ OpenInv' BY Around, SameIncidents
<1>2. EscalationNotified'
  <2>1. CASE crashes' = 0
    <3>1. \A i \in 1 .. Len(incidents') : incidents'[i].state = "ESCALATED" =>
              i \in IncidentIds /\ incidents[i].state = "ESCALATED"
      BY DEF IncidentIds
    <3>2. call[w].pc # "alarm" /\ (crashes' = 0 => crashes = 0) /\ notified \subseteq notified'
      BY <2>1
    <3>. QED BY <3>1, <3>2, NobodyEscalated
  <2>2. CASE crashes' # 0 BY <2>2 DEF EscalationNotified
  <2>. QED BY <2>1, <2>2
<1>3. /\ incidents' \in Seq(Incident) /\ \A n \in notified' : n.incident \in 1 .. Len(incidents')
      /\ call'[w].inc \in 0 .. Len(incidents')
  BY Around
<1>4. UNCHANGED <<running, missions, attempts>> OBVIOUS
<1>. QED BY <1>1, <1>2, <1>3, <1>4, QuietStep

LEMMA FreedStep ==
    ASSUME RecInv, NEW w \in running, Moves(w),
           UNCHANGED <<running, incidents, attempts, missions, notified, crashes>>,
           lastRun' \in [Workers -> 0 .. Observation \cup {None}], call[w].pc # "alarm",
           call'[w].pc \in {"idle", "cycle", "execute"},
           call'[w].inc \in 0 .. Len(incidents), call'[w].mission \in 0 .. Len(missions)
    PROVE  RecInv'
<1>1. Holds(w)' BY FreeHolds
<1>2. crashes' \in 0 .. MaxCrashes[Cardinality(running)] BY Around
<1>. QED BY <1>1, <1>2, CallStep

LEMMA ExitFrees ==
    ASSUME RecInv, NEW w \in running, Exit(w)
    PROVE  /\ Moves(w) /\ call'[w].pc = "idle" /\ call'[w].inc = 0 /\ call'[w].mission = 0
           /\ lastRun' \in [Workers -> 0 .. Observation \cup {None}]
BY Around, IdleFree DEF Exit

LEMMA Order ==
    ComponentOrder \in Seq(Components) /\ <<"app">> \in Seq(Components) /\ <<"app">> # <<>>
<1>1. ComponentOrder \in Seq(Components) /\ "app" \in Components
  BY RecoveryLimits DEF RecoveryLimits
<1>. QED BY <1>1

LEMMA RunStep ==
    ASSUME RecInv, NEW w \in running, RunIfDue(w)
    PROVE  RecInv'
<1>0. PICK s \in SettingsSet :
       \/ /\ ~s.enabled \/ ~Due(w)
          /\ Go(w, "execute") /\ UNCHANGED lastRun
       \/ /\ s.enabled /\ Due(w)
          /\ lastRun' = [lastRun EXCEPT ![w] = 0]
          /\ \E snap \in Snapshots :
               call' = [call EXCEPT ![w] =
                   [Idle EXCEPT !.snap = snap,
                       !.pc = IF StorageCritical(snap) THEN "observe" ELSE "cycle",
                       !.todo = IF StorageCritical(snap) THEN <<"app">> ELSE ComponentOrder,
                       !.ret = "cycle", !.observe_only = s.observe_only]]
  BY DEF RunIfDue
<1>1. call[w].pc = "idle"
      /\ UNCHANGED <<running, incidents, attempts, missions, notified, crashes>>
  BY DEF RunIfDue, At
<1>2. CASE Go(w, "execute") /\ UNCHANGED lastRun
  <2>1. "execute" \in Labels BY DEF Labels
  <2>2. /\ Moves(w) /\ call'[w].pc = "execute" /\ call'[w].inc = call[w].inc
        /\ call'[w].mission = call[w].mission
    BY <1>2, <2>1, Around, GoTo
  <2>3. /\ lastRun' \in [Workers -> 0 .. Observation \cup {None}]
        /\ call'[w].inc \in 0 .. Len(incidents) /\ call'[w].mission \in 0 .. Len(missions)
    BY <1>2, <2>2, Around
  <2>. QED BY <1>1, <2>2, <2>3, FreedStep
<1>3. ASSUME NEW snap \in Snapshots, lastRun' = [lastRun EXCEPT ![w] = 0],
             call' = [call EXCEPT ![w] =
                   [Idle EXCEPT !.snap = snap,
                       !.pc = IF StorageCritical(snap) THEN "observe" ELSE "cycle",
                       !.todo = IF StorageCritical(snap) THEN <<"app">> ELSE ComponentOrder,
                       !.ret = "cycle", !.observe_only = s.observe_only]]
      PROVE  RecInv'
  <2>. DEFINE pc == IF StorageCritical(snap) THEN "observe" ELSE "cycle"
              todo == IF StorageCritical(snap) THEN <<"app">> ELSE ComponentOrder
              k == [Idle EXCEPT !.snap = snap, !.pc = pc, !.todo = todo, !.ret = "cycle",
                                !.observe_only = s.observe_only]
  <2>1. pc \in {"observe", "cycle"} /\ pc \in Labels BY DEF Labels
  <2>2. todo \in Seq(Components) /\ (pc = "observe" => todo # <<>>)
    BY Order
  <2>3. s.observe_only \in {FALSE} \cup {t.observe_only : t \in SettingsSet} OBVIOUS
  <2>4. call' = [call EXCEPT ![w] = k] BY <1>3
  <2>. HIDE DEF pc, todo
  <2>5. /\ k \in CallRec /\ k.pc = pc /\ k.todo = todo /\ k.inc = 0 /\ k.mission = 0
    BY <2>1, <2>2, <2>3 DEF Idle, CallRec
  <2>. HIDE DEF k
  <2>6. Moves(w) /\ call'[w] = k BY <2>4, <2>5, Around, Placed
  <2>7. Holds(w)' BY <2>1, <2>2, <2>5, <2>6 DEF Holds, Deciding, Closing
  <2>8. /\ lastRun' \in [Workers -> 0 .. Observation \cup {None}]
        /\ crashes' \in 0 .. MaxCrashes[Cardinality(running)]
    BY <1>1, <1>3, Around
  <2>9. /\ call'[w].inc \in 0 .. Len(incidents) /\ call'[w].mission \in 0 .. Len(missions)
        /\ call'[w].pc \notin {"plan", "handle", "record"}
    BY <2>1, <2>5, <2>6, Around
  <2>. QED BY <1>1, <2>6, <2>7, <2>8, <2>9, CallStep
<1>. QED BY <1>0, <1>2, <1>3

\* All a step that only moves its worker leaves alone.
Rest == <<running, incidents, attempts, missions, notified, lastRun, crashes>>

LEMMA ContinueStep ==
    ASSUME RecInv, NEW w \in running, call[w].todo # <<>>, call[w].pc # "alarm",
           Continue(w), UNCHANGED Rest
    PROVE  RecInv'
<1>1. Moves(w) /\ call'[w].pc = "cycle" /\ call'[w].inc = 0 /\ call'[w].mission = 0
  BY Around, ContinueFree
<1>2. /\ UNCHANGED <<running, incidents, attempts, missions, notified, crashes>>
      /\ lastRun' \in [Workers -> 0 .. Observation \cup {None}]
      /\ call'[w].inc \in 0 .. Len(incidents) /\ call'[w].mission \in 0 .. Len(missions)
  BY <1>1, Around DEF Rest
<1>. QED BY <1>1, <1>2, FreedStep

LEMMA OnwardStep ==
    ASSUME RecInv, NEW w \in running, call[w].pc # "alarm", Moves(w), UNCHANGED Rest, Holds(w)',
           call'[w].pc \notin {"plan", "handle", "record"},
           call'[w].inc \in 0 .. Len(incidents), call'[w].mission = call[w].mission
    PROVE  RecInv'
<1>1. /\ UNCHANGED <<running, incidents, attempts, missions, notified, crashes>>
      /\ lastRun' \in [Workers -> 0 .. Observation \cup {None}]
      /\ crashes' \in 0 .. MaxCrashes[Cardinality(running)]
      /\ call'[w].mission \in 0 .. Len(missions)
  BY Around DEF Rest
<1>. QED BY <1>1, CallStep

LEMMA IdleStep ==
    ASSUME RecInv, NEW w \in running, call[w].pc # "alarm",
           call' = [call EXCEPT ![w] = Idle], UNCHANGED Rest
    PROVE  RecInv'
<1>1. Moves(w) /\ call'[w].pc = "idle" /\ call'[w].inc = 0 /\ call'[w].mission = 0
  BY Around, IdleFree
<1>2. /\ UNCHANGED <<running, incidents, attempts, missions, notified, crashes>>
      /\ lastRun' \in [Workers -> 0 .. Observation \cup {None}]
      /\ call'[w].inc \in 0 .. Len(incidents) /\ call'[w].mission \in 0 .. Len(missions)
  BY <1>1, Around DEF Rest
<1>. QED BY <1>1, <1>2, FreedStep

LEMMA ExitStep ==
    ASSUME RecInv, NEW w \in running, call[w].pc # "alarm", Exit(w),
           UNCHANGED <<running, incidents, attempts, missions, notified, crashes>>
    PROVE  RecInv'
<1>1. /\ Moves(w) /\ call'[w].pc = "idle" /\ call'[w].inc = 0 /\ call'[w].mission = 0
      /\ lastRun' \in [Workers -> 0 .. Observation \cup {None}]
  BY ExitFrees
<1>2. call'[w].inc \in 0 .. Len(incidents) /\ call'[w].mission \in 0 .. Len(missions)
  BY <1>1, Around
<1>. QED BY <1>1, <1>2, FreedStep

LEMMA ActiveFound ==
    ASSUME NEW c
    PROVE  /\ ActiveIncident(c) = 0 => Active(c) = {}
           /\ ActiveIncident(c) # 0 => /\ ActiveIncident(c) \in IncidentIds
                                      /\ incidents[ActiveIncident(c)].active
                                      /\ incidents[ActiveIncident(c)].component = c
<1>1. CASE Active(c) = {} BY <1>1 DEF ActiveIncident
<1>2. CASE Active(c) # {}
  <2>1. ActiveIncident(c) \in Active(c) BY <1>2 DEF ActiveIncident
  <2>2. 0 \notin 1 .. Len(incidents) OBVIOUS
  <2>. QED BY <2>1, <2>2 DEF Active, IncidentIds
<1>. QED BY <1>1, <1>2

LEMMA MissionFound ==
    ASSUME NEW m
    PROVE  /\ IncidentForMission(m) # 0 =>
                 /\ IncidentForMission(m) \in IncidentIds
                 /\ incidents[IncidentForMission(m)].active
                 /\ incidents[IncidentForMission(m)].mission = m
           /\ IncidentForMission(m) = 0 =>
                 \A i \in IncidentIds : ~(incidents[i].active /\ incidents[i].mission = m)
<1>. DEFINE found == {i \in 1 .. Len(incidents) : incidents[i].active /\ incidents[i].mission = m}
<1>1. CASE found = {} BY <1>1 DEF IncidentForMission, IncidentIds
<1>2. CASE found # {}
  <2>1. IncidentForMission(m) \in found BY <1>2 DEF IncidentForMission
  <2>2. 0 \notin 1 .. Len(incidents) OBVIOUS
  <2>. QED BY <2>1, <2>2 DEF IncidentIds
<1>. QED BY <1>1, <1>2

LEMMA CycleStep ==
    ASSUME RecInv, NEW w \in running, CycleComponent(w)
    PROVE  RecInv'
<1>1. call[w].pc = "cycle" /\ UNCHANGED Rest BY DEF CycleComponent, At, Rest
<1>2. w \in Workers /\ ShapeInv /\ call[w].inc \in 0 .. Len(incidents) BY Around
<1>3. CASE call[w].todo = <<>>
  <2>1. "execute" \in Labels /\ Go(w, "execute") BY <1>3 DEF CycleComponent, Labels
  <2>2. Moves(w) /\ call'[w].pc = "execute" /\ call'[w].inc = call[w].inc
        /\ call'[w].mission = call[w].mission
    BY <1>2, <2>1, GoTo
  <2>3. Holds(w)' BY <2>2, FreeHolds
  <2>. QED BY <1>1, <1>2, <2>2, <2>3, OnwardStep
<1>4. CASE call[w].todo # <<>>
  <2>0. PICK i : i = ActiveIncident(Head(call[w].todo)) OBVIOUS
  <2>1. \/ i # 0 /\ \E pc \in {"resolve", "escalate"} : Take(w, i, pc)
        \/ Continue(w)
        \/ Go(w, "heal") \/ Go(w, "observe")
    BY <1>4, <2>0 DEF CycleComponent, Take
  <2>2. i # 0 => i \in IncidentIds /\ i \in Nat /\ i \in 0 .. Len(incidents)
    BY ActiveFound, Lengths, <1>2, <2>0 DEF IncidentIds
  <2>3. ASSUME i # 0, NEW pc \in {"resolve", "escalate"}, Take(w, i, pc)
        PROVE  RecInv'
    <3>1. pc \in Labels /\ i \in Nat BY <2>2, <2>3 DEF Labels, Closing
    <3>2. /\ Moves(w) /\ call'[w].pc = pc /\ call'[w].todo = call[w].todo
          /\ call'[w].inc = i /\ call'[w].mission = call[w].mission
      BY <1>2, <2>3, <3>1, TakeUp
    <3>3. IncidentIds' = IncidentIds BY <1>1 DEF IncidentIds, Rest
    <3>4. Holds(w)' BY <1>4, <2>2, <2>3, <3>2, <3>3 DEF Holds, Deciding, Closing
    <3>. QED BY <1>1, <2>2, <2>3, <3>2, <3>4, OnwardStep
  <2>4. ASSUME NEW pc \in {"heal", "observe"}, Go(w, pc) PROVE RecInv'
    <3>1. pc \in Labels BY DEF Labels
    <3>2. /\ Moves(w) /\ call'[w].pc = pc /\ call'[w].todo = call[w].todo
          /\ call'[w].inc = call[w].inc /\ call'[w].mission = call[w].mission
      BY <1>2, <2>4, <3>1, GoTo
    <3>3. Holds(w)' BY <1>4, <2>4, <3>2 DEF Holds, Deciding, Closing
    <3>. QED BY <1>1, <1>2, <2>4, <3>2, <3>3, OnwardStep
  <2>. QED BY <1>1, <1>4, <2>1, <2>3, <2>4, ContinueStep
<1>. QED BY <1>3, <1>4

(* A decision that needs no write: with the same incident to the next.     *)
LEMMA DecidedStep ==
    ASSUME RecInv, NEW w \in running, call[w].pc \in {"policy", "consider", "allow"}, UNCHANGED Rest,
           \/ Continue(w)
           \/ \E pc \in {"escalate", "consider", "pending", "create"} : Go(w, pc)
    PROVE  RecInv'
<1>1. /\ w \in Workers /\ ShapeInv /\ call[w].inc \in 0 .. Len(incidents)
      /\ call[w].todo # <<>> /\ call[w].inc \in IncidentIds
      /\ incidents[call[w].inc].opened >= FailingFor
  BY Around DEF Holds, Deciding
<1>2. ASSUME NEW pc \in {"escalate", "consider", "pending", "create"}, Go(w, pc) PROVE RecInv'
  <2>1. pc \in Labels BY DEF Labels, Deciding, Closing
  <2>2. /\ Moves(w) /\ call'[w].pc = pc /\ call'[w].todo = call[w].todo
        /\ call'[w].inc = call[w].inc /\ call'[w].mission = call[w].mission
    BY <1>1, <1>2, <2>1, GoTo
  <2>3. IncidentIds' = IncidentIds /\ incidents' = incidents BY DEF IncidentIds, Rest
  <2>4. Holds(w)' BY <1>1, <1>2, <2>2, <2>3 DEF Holds, Deciding, Closing
  <2>. QED BY <1>1, <1>2, <2>2, <2>4, OnwardStep
<1>. QED BY <1>1, <1>2, ContinueStep

LEMMA PolicyStep ==
    ASSUME RecInv, NEW w \in running,
           HandlePolicyEscalation(w) \/ CreateRecoveryMission(w) \/ Allow(w)
    PROVE  RecInv'
<1>1. call[w].pc \in {"policy", "consider", "allow"} /\ UNCHANGED Rest
  BY DEF HandlePolicyEscalation, CreateRecoveryMission, Allow, At, Rest
<1>2. \/ Continue(w)
      \/ \E pc \in {"escalate", "consider", "pending", "create"} : Go(w, pc)
  BY DEF HandlePolicyEscalation, CreateRecoveryMission, Allow
<1>. QED BY <1>1, <1>2, DecidedStep

LEMMA OtherStep ==
    ASSUME RecInv, NEW w \in running, ExecuteOther(w)
    PROVE  RecInv'
BY IdleStep DEF ExecuteOther, At, Rest

LEMMA CrashStep ==
    ASSUME RecInv, NEW w \in running, Crash(w)
    PROVE  RecInv'
<1>1. /\ Moves(w) /\ call'[w].pc = "idle" /\ call'[w].inc = 0 /\ call'[w].mission = 0
      /\ lastRun' \in [Workers -> 0 .. Observation \cup {None}]
  BY ExitFrees DEF Crash
<1>2. crashes' \in 0 .. MaxCrashes[Cardinality(running)] /\ crashes' # 0 BY Around DEF Crash
<1>3. /\ UNCHANGED <<running, incidents, attempts, missions, notified>>
      /\ call'[w].inc \in 0 .. Len(incidents) /\ call'[w].mission \in 0 .. Len(missions)
  BY <1>1, Around DEF Crash
<1>4. Holds(w)' BY <1>1, FreeHolds
<1>. QED BY <1>1, <1>2, <1>3, <1>4, CallStep

LEMMA HandleStep ==
    ASSUME RecInv, NEW w \in running, HandleExecutionResult(w)
    PROVE  RecInv'
<1>1. call[w].pc = "handle" /\ UNCHANGED Rest BY DEF HandleExecutionResult, At, Rest
<1>2. w \in Workers /\ ShapeInv /\ call[w].inc \in 0 .. Len(incidents) /\ Holds(w) BY Around
<1>3. PICK i : i = IncidentForMission(call[w].mission) OBVIOUS
<1>4. CASE i = 0
  <2>1. call' = [call EXCEPT ![w] = Idle] BY <1>3, <1>4 DEF HandleExecutionResult
  <2>. QED BY <1>1, <2>1, IdleStep
<1>5. CASE i # 0
  <2>1. PICK pc \in {"escalate", "record"} : Take(w, i, pc)
    BY <1>3, <1>5 DEF HandleExecutionResult, Take
  <2>2. /\ i \in IncidentIds /\ i \in Nat /\ i \in 0 .. Len(incidents)
        /\ incidents[i].mission = call[w].mission
    BY <1>2, <1>3, <1>5, MissionFound, Lengths DEF IncidentIds
  <2>3. pc \in Labels BY DEF Labels, Closing
  <2>4. /\ Moves(w) /\ call'[w].pc = pc /\ call'[w].todo = call[w].todo
        /\ call'[w].inc = i /\ call'[w].mission = call[w].mission /\ call'[w].ret = call[w].ret
    BY <1>2, <2>1, <2>2, <2>3, TakeUp
  <2>5. IncidentIds' = IncidentIds /\ incidents' = incidents /\ missions' = missions
        /\ MissionIds' = MissionIds
    BY <1>1 DEF IncidentIds, MissionIds, Rest
  <2>6. /\ call[w].ret = "idle" /\ call[w].mission \in MissionIds
        /\ missions[call[w].mission].status \notin {"CREATED", "PLANNED"}
        /\ \A j \in IncidentIds : incidents[j].mission = call[w].mission => incidents[j].real = 0
    BY <1>1, <1>2 DEF Holds
  <2>7. Holds(w)' BY <2>1, <2>2, <2>4, <2>5, <2>6 DEF Holds, Deciding, Closing
  <2>8. /\ UNCHANGED <<running, incidents, attempts, missions, notified, crashes>>
        /\ lastRun' \in [Workers -> 0 .. Observation \cup {None}]
        /\ crashes' \in 0 .. MaxCrashes[Cardinality(running)]
        /\ call[w].mission \in 0 .. Len(missions)
    BY <1>1, Around DEF Rest
  <2>. QED BY <1>1, <2>1, <2>2, <2>4, <2>7, <2>8, CallStep
<1>. QED BY <1>4, <1>5

-----------------------------------------------------------------------------
(* The steps that write one incident                                       *)

LEMMA IncidentStep ==
    ASSUME RecInv, NEW w \in running, Moves(w), NEW i \in IncidentIds, NEW new, Sound(new),
           Kept(incidents[i], new), incidents' = [incidents EXCEPT ![i] = new],
           UNCHANGED <<running, attempts, missions, notified, lastRun, crashes>>,
           call[w].pc # "alarm",
           new.state = "ESCALATED" =>
              incidents[i].state = "ESCALATED" \/ (call'[w].pc = "alarm" /\ call'[w].inc = i),
           Holds(w)', call'[w].pc \notin {"plan", "handle", "record"},
           call'[w].inc \in 0 .. Len(incidents), call'[w].mission \in 0 .. Len(missions)
    PROVE  RecInv'
<1>1. w \in Workers /\ ShapeInv /\ SoundInv /\ OpenInv BY Around
<1>2. new.component = incidents[i].component /\ (new.active => incidents[i].active) BY DEF Kept
<1>3. /\ incidents' \in Seq(Incident) /\ Len(incidents') = Len(incidents)
      /\ IncidentIds' = IncidentIds /\ SoundInv' /\ OpenInv' /\ QuietIncidents
      /\ incidents'[i] = new /\ \A j \in IncidentIds \ {i} : incidents'[j] = incidents[j]
  BY <1>1, <1>2, OneIncident
<1>4. EscalationNotified'
  <2>1. CASE new.state = "ESCALATED" => incidents[i].state = "ESCALATED"
    <3>1. \A j \in 1 .. Len(incidents') : incidents'[j].state = "ESCALATED" =>
              j \in IncidentIds /\ incidents[j].state = "ESCALATED"
      BY <1>3, <2>1 DEF IncidentIds
    <3>2. notified \subseteq notified' /\ (crashes' = 0 => crashes = 0) /\ UNCHANGED running
      OBVIOUS
    <3>. QED BY <3>1, <3>2, NobodyEscalated
  <2>2. CASE call'[w].pc = "alarm" /\ call'[w].inc = i
    <3>1. SUFFICES ASSUME crashes = 0, NEW j \in IncidentIds, incidents'[j].state = "ESCALATED"
                   PROVE  \/ \E n \in notified : n.incident = j /\ n.severity = "CRITICAL"
                          \/ \E v \in running : call'[v].pc = "alarm" /\ call'[v].inc = j
      BY <1>3 DEF EscalationNotified, At, IncidentIds
    <3>2. CASE j = i BY <2>2, <3>2
    <3>3. CASE j # i
      <4>1. incidents[j].state = "ESCALATED" BY <1>3, <3>1, <3>3
      <4>2. \/ \E n \in notified : n.incident = j /\ n.severity = "CRITICAL"
            \/ \E v \in running : call[v].pc = "alarm" /\ call[v].inc = j
        BY <3>1, <4>1 DEF RecInv, EscalationNotified, At, IncidentIds
      <4>3. running \subseteq Workers BY <1>1 DEF ShapeInv, TypeOK
      <4>. QED BY <4>2, <4>3 DEF Moves
    <3>. QED BY <3>2, <3>3
  <2>. QED BY <2>1, <2>2
<1>5. /\ lastRun' \in [Workers -> 0 .. Observation \cup {None}]
      /\ crashes' \in 0 .. MaxCrashes[Cardinality(running)]
      /\ \A n \in notified' : n.incident \in 1 .. Len(incidents')
      /\ call'[w].inc \in 0 .. Len(incidents')
  BY <1>3, Around
<1>6. UNCHANGED <<running, missions, attempts>> OBVIOUS
<1>. QED BY <1>3, <1>4, <1>5, <1>6, QuietStep

LEMMA HealStep ==
    ASSUME RecInv, NEW w \in running, ResolveIfHealthy(w)
    PROVE  RecInv'
<1>1. call[w].pc = "heal" /\ Continue(w)
      /\ UNCHANGED <<running, attempts, missions, notified, lastRun, crashes>>
  BY DEF ResolveIfHealthy, At
<1>2. w \in Workers /\ ShapeInv /\ SoundInv /\ call[w].todo # <<>>
  BY <1>1, Around DEF Holds
<1>3. PICK i : i = ActiveIncident(Head(call[w].todo)) OBVIOUS
<1>4. CASE i = 0
  <2>1. UNCHANGED Rest BY <1>1, <1>3, <1>4 DEF ResolveIfHealthy, Rest
  <2>. QED BY <1>1, <1>2, <2>1, ContinueStep
<1>5. CASE i # 0
  <2>1. i \in IncidentIds BY <1>3, <1>5, ActiveFound
  <2>2. PICK new : new = Resolved(incidents[i]) OBVIOUS
  <2>3. incidents' = [incidents EXCEPT ![i] = new]
    BY <1>3, <1>5, <2>2 DEF ResolveIfHealthy
  <2>4. Sound(new) /\ Kept(incidents[i], new) /\ new.state # "ESCALATED"
    BY <1>2, <2>1, <2>2, Closed DEF SoundInv
  <2>5. Moves(w) /\ call'[w].pc = "cycle" /\ call'[w].inc = 0 /\ call'[w].mission = 0
    BY <1>1, <1>2, ContinueFree
  <2>6. Holds(w)' BY <2>5, FreeHolds
  <2>7. call'[w].inc \in 0 .. Len(incidents) /\ call'[w].mission \in 0 .. Len(missions)
    BY <2>5, Around
  <2>. QED BY <1>1, <2>1, <2>3, <2>4, <2>5, <2>6, <2>7, IncidentStep
<1>. QED BY <1>4, <1>5

(* The incident in hand is written, and stays in hand.                     *)
LEMMA InHandStep ==
    ASSUME RecInv, NEW w \in running, call[w].pc # "alarm", call[w].inc \in IncidentIds,
           NEW pc \in {"policy", "allow", "inform", "alarm"}, Go(w, pc), NEW new, Sound(new),
           Kept(incidents[call[w].inc], new),
           incidents' = [incidents EXCEPT ![call[w].inc] = new],
           UNCHANGED <<running, attempts, missions, notified, lastRun, crashes>>,
           new.state = "ESCALATED" =>
              incidents[call[w].inc].state = "ESCALATED" \/ pc = "alarm",
           pc \in {"policy", "allow"} => new.opened >= FailingFor,
           pc \in {"policy", "allow"} \/ call[w].ret = "cycle" => call[w].todo # <<>>
    PROVE  RecInv'
<1>1. w \in Workers /\ ShapeInv /\ incidents \in Seq(Incident) BY Around
<1>2. pc \in Labels BY DEF Labels, Deciding, Closing
<1>3. /\ Moves(w) /\ call'[w].pc = pc /\ call'[w].todo = call[w].todo
      /\ call'[w].inc = call[w].inc /\ call'[w].mission = call[w].mission
      /\ call'[w].ret = call[w].ret
  BY <1>1, <1>2, GoTo
<1>4. /\ incidents'[call[w].inc] = new /\ IncidentIds' = IncidentIds
  BY <1>1 DEF IncidentIds, Sound
<1>5. Holds(w)' BY <1>3, <1>4 DEF Holds, Deciding, Closing
<1>6. call'[w].inc \in 0 .. Len(incidents) /\ call'[w].mission \in 0 .. Len(missions)
  BY <1>3, Around
<1>7. call'[w].pc \notin {"plan", "handle", "record"} BY <1>3
<1>. QED BY <1>3, <1>5, <1>6, <1>7, IncidentStep

LEMMA StillLasting ==
    ASSUME RecInv, NEW i \in IncidentIds, incidents[i].opened >= FailingFor,
           NEW new, Sound(new), Kept(incidents[i], new)
    PROVE  new.opened >= FailingFor
<1>1. new.opened \in Nat BY FailingForNat DEF Sound, Incident
<1>2. incidents[i].opened \in Nat BY OpenedNat DEF RecInv
<1>. QED BY <1>1, <1>2, FailingForNat DEF Kept

LEMMA CaptureStep ==
    ASSUME RecInv, NEW w \in running, UpdateDiagnostics(w)
    PROVE  RecInv'
<1>1. call[w].pc = "capture" /\ UNCHANGED <<running, attempts, missions, notified, crashes>>
  BY DEF UpdateDiagnostics, At
<1>2. /\ SoundInv /\ call[w].inc \in IncidentIds /\ call[w].todo # <<>>
      /\ incidents[call[w].inc].opened >= FailingFor /\ incidents \in Seq(Incident)
  BY <1>1, Around DEF Holds, Deciding
<1>3. CASE incidents[call[w].inc].active
  <2>1. PICK new : new = [incidents[call[w].inc] EXCEPT !.observed = 0] OBVIOUS
  <2>2. /\ incidents' = [incidents EXCEPT ![call[w].inc] = new] /\ Go(w, "policy")
        /\ UNCHANGED lastRun
    BY <1>2, <1>3, <2>1 DEF UpdateDiagnostics
  <2>3. Sound(new) /\ Kept(incidents[call[w].inc], new)
        /\ new.state = incidents[call[w].inc].state
    BY <1>2, <2>1, Marked DEF SoundInv, RecoveryIncidentState
  <2>4. new.opened >= FailingFor BY <1>2, <2>3, StillLasting
  <2>. QED BY <1>1, <1>2, <2>2, <2>3, <2>4, InHandStep
<1>4. CASE ~incidents[call[w].inc].active
  <2>1. Exit(w) /\ UNCHANGED incidents BY <1>4 DEF UpdateDiagnostics
  <2>. QED BY <1>1, <2>1, ExitStep
<1>. QED BY <1>3, <1>4

LEMMA PendingStep ==
    ASSUME RecInv, NEW w \in running, MarkRecoveryPending(w)
    PROVE  RecInv'
<1>1. call[w].pc = "pending" /\ UNCHANGED <<running, attempts, missions, notified, crashes>>
  BY DEF MarkRecoveryPending, At
<1>2. /\ SoundInv /\ call[w].inc \in IncidentIds /\ call[w].todo # <<>>
      /\ incidents[call[w].inc].opened >= FailingFor /\ incidents \in Seq(Incident)
  BY <1>1, Around DEF Holds, Deciding
<1>. DEFINE free == incidents[call[w].inc].active /\ incidents[call[w].inc].state \in PendingStates
<1>3. CASE free
  <2>1. PICK new : new = [incidents[call[w].inc] EXCEPT !.state = "RECOVERY_PENDING", !.observed = 0]
    OBVIOUS
  <2>2. /\ incidents' = [incidents EXCEPT ![call[w].inc] = new] /\ Go(w, "allow")
        /\ UNCHANGED lastRun
    BY <1>2, <1>3, <2>1 DEF MarkRecoveryPending
  <2>3. Sound(new) /\ Kept(incidents[call[w].inc], new) /\ new.state # "ESCALATED"
    BY <1>2, <2>1, Marked DEF SoundInv, RecoveryIncidentState
  <2>4. new.opened >= FailingFor BY <1>2, <2>3, StillLasting
  <2>. QED BY <1>1, <1>2, <2>2, <2>3, <2>4, InHandStep
<1>4. CASE ~free
  <2>1. Exit(w) /\ UNCHANGED incidents BY <1>4 DEF MarkRecoveryPending
  <2>. QED BY <1>1, <2>1, ExitStep
<1>. QED BY <1>3, <1>4

LEMMA VerifiedStep ==
    ASSUME RecInv, NEW w \in running, ResolveVerified(w) \/ Escalate(w)
    PROVE  RecInv'
<1>1. /\ call[w].pc \in {"resolve", "escalate"}
      /\ UNCHANGED <<running, attempts, missions, notified, lastRun, crashes>>
  BY DEF ResolveVerified, Escalate, At
<1>2. /\ SoundInv /\ call[w].inc \in IncidentIds
      /\ call[w].ret = "cycle" => call[w].todo # <<>>
  BY <1>1, Around DEF Holds, Closing
<1>3. PICK done, gone : /\ done = Resolved(incidents[call[w].inc])
                        /\ gone = Escalated(incidents[call[w].inc])
  OBVIOUS
<1>4. /\ Sound(done) /\ Kept(incidents[call[w].inc], done) /\ done.state # "ESCALATED"
      /\ Sound(gone) /\ Kept(incidents[call[w].inc], gone)
  BY <1>2, <1>3, Closed DEF SoundInv
<1>5. CASE ResolveVerified(w)
  <2>1. incidents' = [incidents EXCEPT ![call[w].inc] = done] /\ Go(w, "inform")
    BY <1>3, <1>5 DEF ResolveVerified
  <2>. QED BY <1>1, <1>2, <1>4, <2>1, InHandStep
<1>6. CASE Escalate(w)
  <2>1. incidents' = [incidents EXCEPT ![call[w].inc] = gone] /\ Go(w, "alarm")
    BY <1>3, <1>6 DEF Escalate
  <2>. QED BY <1>1, <1>2, <1>4, <2>1, InHandStep
<1>. QED BY <1>5, <1>6

LEMMA VerifyingStep ==
    ASSUME RecInv, NEW w \in running, MarkVerifying(w)
    PROVE  RecInv'
<1>1. call[w].pc = "verifying" /\ UNCHANGED <<running, attempts, missions, notified, crashes>>
  BY DEF MarkVerifying, At
<1>2. /\ w \in Workers /\ ShapeInv /\ SoundInv /\ call[w].inc \in IncidentIds
      /\ incidents \in Seq(Incident)
  BY <1>1, Around DEF Holds, Closing
<1>3. CASE incidents[call[w].inc].active
  <2>1. PICK new : new = [incidents[call[w].inc] EXCEPT !.state = "VERIFYING", !.observed = 0]
    OBVIOUS
  <2>2. /\ incidents' = [incidents EXCEPT ![call[w].inc] = new] /\ UNCHANGED lastRun
        /\ call' = [call EXCEPT ![w] = Idle]
    BY <1>2, <1>3, <2>1 DEF MarkVerifying
  <2>3. Sound(new) /\ Kept(incidents[call[w].inc], new) /\ new.state # "ESCALATED"
    BY <1>2, <2>1, Marked DEF SoundInv, RecoveryIncidentState
  <2>4. Moves(w) /\ call'[w].pc = "idle" /\ call'[w].inc = 0 /\ call'[w].mission = 0
    BY <1>2, <2>2, IdleFree
  <2>5. Holds(w)' BY <2>4, FreeHolds
  <2>6. call'[w].inc \in 0 .. Len(incidents) /\ call'[w].mission \in 0 .. Len(missions)
    BY <2>4, Around
  <2>. QED BY <1>1, <1>2, <2>2, <2>3, <2>4, <2>5, <2>6, IncidentStep
<1>4. CASE ~incidents[call[w].inc].active
  <2>1. Exit(w) /\ UNCHANGED incidents BY <1>4 DEF MarkVerifying
  <2>. QED BY <1>1, <2>1, ExitStep
<1>. QED BY <1>3, <1>4

(* observe_failure finds no open incident and opens one.                   *)
LEMMA OneMore ==
    ASSUME RecInv, NEW c, Active(c) = {}, NEW new, Sound(new), new.mission = 0, new.component = c,
           NEW n, n = Len(incidents) + 1, Len(incidents') = n, incidents'[n] = new,
           \A i \in IncidentIds : incidents'[i] = incidents[i]
    PROVE  QuietIncidents /\ SoundInv' /\ OpenInv'
<1>1. Len(incidents) \in Nat BY Lengths DEF RecInv
<1>2. \A i \in IncidentIds' : i = n \/ i \in IncidentIds BY <1>1 DEF IncidentIds
<1>3. SoundInv' BY <1>2 DEF SoundInv, RecInv
<1>4. OpenInv'
  <2>1. \A i \in IncidentIds : ~(incidents[i].active /\ incidents[i].component = c)
    BY DEF Active, IncidentIds
  <2>. QED BY <1>2, <2>1 DEF OpenInv, RecInv
<1>5. QuietIncidents
  <2>1. \A i \in IncidentIds : incidents[i].opened \in Nat BY OpenedNat DEF RecInv
  <2>2. \A i \in IncidentIds : Kept(incidents[i], incidents'[i]) BY <2>1 DEF Kept
  <2>3. \A i \in 1 .. Len(incidents') : i \in IncidentIds \/ incidents'[i].mission = 0
    BY <1>2 DEF IncidentIds
  <2>. QED BY <1>1, <2>2, <2>3 DEF QuietIncidents
<1>. QED BY <1>3, <1>4, <1>5

LEMMA Opened ==
    ASSUME RecInv, NEW c \in Components, Active(c) = {},
           incidents' = Append(incidents, NewIncident(c))
    PROVE  /\ QuietIncidents /\ SoundInv' /\ OpenInv' /\ incidents' \in Seq(Incident)
           /\ Len(incidents') = Len(incidents) + 1
           /\ incidents'[Len(incidents) + 1] = NewIncident(c)
           /\ \A i \in IncidentIds : incidents'[i] = incidents[i]
<1>1. incidents \in Seq(Incident) /\ Len(incidents) \in Nat BY Lengths DEF RecInv
<1>2. PICK new : new = NewIncident(c) OBVIOUS
<1>3. /\ Sound(new) /\ new \in Incident /\ new.mission = 0 /\ new.component = c
  BY <1>2, FreshIncident DEF Sound
<1>4. PICK n : n = Len(incidents) + 1 OBVIOUS
<1>5. /\ incidents' \in Seq(Incident) /\ Len(incidents') = n /\ incidents'[n] = new
      /\ \A i \in IncidentIds : incidents'[i] = incidents[i]
  BY <1>1, <1>2, <1>3, <1>4 DEF IncidentIds
<1>6. QuietIncidents /\ SoundInv' /\ OpenInv' BY <1>3, <1>4, <1>5, OneMore
<1>. QED BY <1>2, <1>4, <1>5, <1>6

LEMMA ObserveStep ==
    ASSUME RecInv, NEW w \in running, ObserveFailureStep(w)
    PROVE  RecInv'
<1>1. /\ call[w].pc = "observe"
      /\ UNCHANGED <<running, attempts, missions, notified, lastRun, crashes>>
  BY DEF ObserveFailureStep, At
<1>2. /\ w \in Workers /\ ShapeInv /\ SoundInv /\ call[w].todo # <<>>
      /\ Len(incidents) \in Nat
  BY <1>1, Around DEF Holds
<1>3. PICK c : c = Head(call[w].todo) OBVIOUS
<1>4. c \in Components
  <2>1. call[w].todo \in Seq(Components) BY Around DEF CallRec
  <2>. QED BY <1>2, <1>3, <2>1, Parts
<1>5. CASE ActiveIncident(c) = 0
  <2>1. incidents' = Append(incidents, NewIncident(c))
    BY <1>3, <1>5 DEF ObserveFailureStep, ObserveFailure
  <2>2. /\ QuietIncidents /\ SoundInv' /\ OpenInv' /\ incidents' \in Seq(Incident)
        /\ Len(incidents') = Len(incidents) + 1
        /\ incidents'[Len(incidents) + 1] = NewIncident(c)
        /\ \A i \in IncidentIds : incidents'[i] = incidents[i]
    BY <1>4, <1>5, <2>1, ActiveFound, Opened
  <2>3. incidents'[Len(incidents) + 1].fails < Threshold BY <2>2 DEF NewIncident
  <2>4. Continue(w) BY <1>3, <1>5, <2>3 DEF ObserveFailureStep
  <2>5. Moves(w) /\ call'[w].pc = "cycle" /\ call'[w].inc = 0 /\ call'[w].mission = 0
    BY <1>2, <2>4, ContinueFree
  <2>6. Holds(w)' BY <2>5, FreeHolds
  <2>7. EscalationNotified'
    <3>1. NewIncident(c).state # "ESCALATED" BY <1>4, FreshIncident
    <3>2. \A i \in 1 .. Len(incidents') : incidents'[i].state = "ESCALATED" =>
              i \in IncidentIds /\ incidents[i].state = "ESCALATED"
      BY <1>2, <2>2, <3>1 DEF IncidentIds
    <3>3. notified \subseteq notified' /\ (crashes' = 0 => crashes = 0) /\ UNCHANGED running
          /\ call[w].pc # "alarm"
      BY <1>1
    <3>. QED BY <2>5, <3>2, <3>3, NobodyEscalated
  <2>8. /\ lastRun' \in [Workers -> 0 .. Observation \cup {None}]
        /\ crashes' \in 0 .. MaxCrashes[Cardinality(running)]
        /\ \A n \in notified' : n.incident \in 1 .. Len(incidents')
    BY <1>1, <2>2, Around
  <2>9. call'[w].inc \in 0 .. Len(incidents') /\ call'[w].mission \in 0 .. Len(missions)
    BY <1>2, <2>2, <2>5, Around
  <2>. QED BY <1>1, <2>2, <2>5, <2>6, <2>7, <2>8, <2>9, QuietStep
<1>6. CASE ActiveIncident(c) # 0
  <2>1. PICK i : i = ActiveIncident(c) OBVIOUS
  <2>2. i \in IncidentIds /\ i \in Nat /\ i \in 0 .. Len(incidents)
    BY <1>2, <1>6, <2>1, ActiveFound DEF IncidentIds
  <2>3. \/ incidents'[i].fails < Threshold /\ Continue(w)
        \/ /\ ~(incidents'[i].fails < Threshold)
           /\ \E pc \in {"policy", "capture"} : Take(w, i, pc)
    BY <1>3, <1>6, <2>1 DEF ObserveFailureStep, Take
  <2>4. /\ Moves(w)
        /\ \/ call'[w].pc = "cycle" /\ call'[w].inc = 0 /\ call'[w].mission = 0
           \/ /\ call'[w].pc \in {"policy", "capture"} /\ call'[w].inc = i
              /\ call'[w].mission = call[w].mission /\ call'[w].todo = call[w].todo
              /\ ~(incidents'[i].fails < Threshold)
    <3>1. CASE Continue(w) BY <1>2, <3>1, ContinueFree
    <3>2. ASSUME NEW pc \in {"policy", "capture"}, Take(w, i, pc)
          PROVE  /\ Moves(w) /\ call'[w].pc = pc /\ call'[w].inc = i
                 /\ call'[w].mission = call[w].mission /\ call'[w].todo = call[w].todo
      <4>1. pc \in Labels BY DEF Labels, Deciding
      <4>. QED BY <1>2, <2>2, <3>2, <4>1, TakeUp
    <3>. QED BY <2>3, <3>1, <3>2
  <2>5. /\ call'[w].inc \in 0 .. Len(incidents) /\ call'[w].mission \in 0 .. Len(missions)
        /\ call'[w].pc \notin {"plan", "handle", "record", "alarm"}
    BY <2>2, <2>4, Around
  <2>6. PICK new : new = incidents'[i] OBVIOUS
  <2>7. /\ Sound(new) /\ Kept(incidents[i], new) /\ incidents' = [incidents EXCEPT ![i] = new]
        /\ new.state = "ESCALATED" => incidents[i].state = "ESCALATED"
    <3>1. incidents \in Seq(Incident) /\ Sound(incidents[i])
      BY <1>2, <2>2, Lengths DEF SoundInv
    <3>2. CASE TooSoon(i)
      <4>1. incidents' = incidents
        BY <1>3, <1>6, <2>1, <3>2 DEF ObserveFailureStep, ObserveFailure
      <4>2. Kept(incidents[i], incidents[i]) BY <1>2, <2>2, OpenedNat DEF Kept
      <4>. QED BY <2>2, <2>6, <3>1, <4>1, <4>2 DEF IncidentIds
    <3>3. CASE ~TooSoon(i)
      <4>1. incidents' = [incidents EXCEPT ![i] = Refailed(incidents[i])]
        BY <1>3, <1>6, <2>1, <3>3 DEF ObserveFailureStep, ObserveFailure
      <4>2. new = Refailed(incidents[i]) BY <2>2, <2>6, <3>1, <4>1 DEF IncidentIds
      <4>3. /\ Sound(new) /\ Kept(incidents[i], new)
            /\ new.state \in {incidents[i].state, "DIAGNOSING"}
        BY <3>1, <3>3, <4>2, FailedAgain DEF TooSoon
      <4>. QED BY <4>1, <4>2, <4>3
    <3>. QED BY <3>2, <3>3
  <2>8. Holds(w)'
    <3>1. CASE call'[w].pc = "cycle" BY <3>1, FreeHolds
    <3>2. CASE call'[w].pc # "cycle"
      <4>1. /\ call'[w].pc \in {"policy", "capture"} /\ call'[w].inc = i
            /\ call'[w].todo # <<>> /\ ~(new.fails < Threshold)
        BY <1>2, <2>4, <2>6, <3>2
      <4>2. incidents'[i].opened >= FailingFor BY <2>6, <2>7, <4>1, Lasted
      <4>3. i \in IncidentIds'
        BY <1>2, <2>2, <2>7, Lengths DEF IncidentIds, Sound
      <4>. QED BY <4>1, <4>2, <4>3 DEF Holds, Deciding, Closing
    <3>. QED BY <3>1, <3>2
  <2>. QED BY <1>1, <2>2, <2>4, <2>5, <2>7, <2>8, IncidentStep
<1>. QED BY <1>5, <1>6

-----------------------------------------------------------------------------
(* The steps that write a mission                                          *)

LEMMA MissionStep ==
    ASSUME RecInv, NEW w \in running, Moves(w), call[w].pc = "alarm" => call'[w] = call[w],
           UNCHANGED <<running, incidents, attempts, notified, lastRun, crashes>>,
           MissionsGrow, missions' \in Seq(Mission),
           \A m \in 1 .. Len(missions') : m \in MissionIds \/
              /\ missions'[m].incident \in IncidentIds
              /\ incidents[missions'[m].incident].opened >= FailingFor,
           \A v \in Workers \ {w} :
              call[v].pc = "plan" => missions'[call[v].mission].status = "CREATED",
           Holds(w)', call'[w].inc \in 0 .. Len(incidents),
           call'[w].mission \in 0 .. Len(missions'), ApartInv'
    PROVE  RecInv'
<1>1. /\ w \in Workers /\ ShapeInv /\ SoundInv /\ OpenInv /\ running \subseteq Workers
      /\ Len(missions) \in Nat /\ Len(missions') \in Nat /\ Len(missions') >= Len(missions)
  BY Around DEF ShapeInv, TypeOK, MissionsGrow
<1>2. QuietIncidents /\ SoundInv' /\ OpenInv' /\ IncidentIds' = IncidentIds
  BY <1>1, SameIncidents
<1>3. \A m \in 1 .. Len(missions') : /\ missions'[m].incident \in IncidentIds
                                      /\ incidents[missions'[m].incident].opened >= FailingFor
  <2>1. \A m \in MissionIds : /\ missions[m].incident \in IncidentIds
                               /\ incidents[missions[m].incident].opened >= FailingFor
    BY <1>1 DEF ShapeInv, RecInv, SustainedFailure, MissionIds
  <2>. QED BY <2>1 DEF MissionsGrow
<1>4. TypeOK'
  <2>1. \A v \in Workers : /\ call'[v].inc \in 0 .. Len(incidents')
                           /\ call'[v].mission \in 0 .. Len(missions')
    <3>1. SUFFICES ASSUME NEW v \in Workers, v # w
                   PROVE  /\ call'[v].inc \in 0 .. Len(incidents)
                          /\ call'[v].mission \in 0 .. Len(missions')
      OBVIOUS
    <3>2. call'[v] = call[v] BY <3>1 DEF Moves
    <3>3. call[v].inc \in 0 .. Len(incidents) /\ call[v].mission \in 0 .. Len(missions)
      BY <1>1 DEF ShapeInv, TypeOK
    <3>. QED BY <1>1, <3>2, <3>3
  <2>2. \A a \in attempts : a.mission \in 1 .. Len(missions') BY <1>1 DEF ShapeInv, TypeOK
  <2>. QED BY <1>1, <2>1, <2>2 DEF ShapeInv, TypeOK
<1>5. ShapeInv'
  <2>1. \A v \in Workers \ running : call'[v] = Idle BY <1>1 DEF Moves, ShapeInv
  <2>. QED BY <1>1, <1>2, <1>3, <1>4, <2>1 DEF ShapeInv, MissionIds, Moves
<1>6. LinkInv' BY <1>1, <1>2, QuietLinks DEF RecInv
<1>7. HoldInv'
  <2>1. ASSUME NEW v \in Workers, v # w PROVE Holds(v)'
    <3>1. call'[v] = call[v] BY <2>1 DEF Moves
    <3>2. call[v].pc = "plan" => missions'[call[v].mission].status = "CREATED" BY <2>1
    <3>. QED BY <1>2, <3>1, <3>2, QuietOthers
  <2>. QED BY <2>1 DEF HoldInv
<1>8. SustainedFailure' BY <1>3 DEF SustainedFailure
<1>9. EscalationNotified'
  <2>1. \A i \in 1 .. Len(incidents') : incidents'[i].state = "ESCALATED" =>
            i \in IncidentIds /\ incidents[i].state = "ESCALATED"
    BY DEF IncidentIds
  <2>2. notified \subseteq notified' /\ (crashes' = 0 => crashes = 0) OBVIOUS
  <2>. QED BY <2>1, <2>2, NobodyEscalated
<1>. QED BY <1>2, <1>5, <1>6, <1>7, <1>8, <1>9 DEF RecInv

LEMMA CreateStep ==
    ASSUME RecInv, NEW w \in running, CreateMission(w)
    PROVE  RecInv'
<1>1. /\ call[w].pc = "create"
      /\ UNCHANGED <<running, incidents, attempts, notified, lastRun, crashes>>
  BY DEF CreateMission, At
<1>2. /\ w \in Workers /\ ShapeInv /\ call[w] \in CallRec /\ call[w].inc \in 0 .. Len(incidents)
      /\ call[w].inc \in IncidentIds /\ call[w].todo # <<>>
      /\ incidents[call[w].inc].opened >= FailingFor
      /\ missions \in Seq(Mission) /\ Len(missions) \in Nat
  BY <1>1, Around DEF Holds, Deciding
<1>3. PICK n : n = Len(missions) + 1 OBVIOUS
<1>4. PICK new : new = [component |-> incidents[call[w].inc].component,
             incident |-> call[w].inc, status |-> "CREATED", ran |-> None,
             hot |-> FALSE, unseen |-> FALSE]
  OBVIOUS
<1>5. new \in Mission /\ new.incident = call[w].inc /\ new.status = "CREATED"
  <2>1. incidents[call[w].inc].component \in Components /\ call[w].inc \in Nat
    <3>1. incidents[call[w].inc] \in Incident BY <1>2, Lengths
    <3>2. incidents[call[w].inc].component \in Components BY <3>1 DEF Incident
    <3>. QED BY <1>2, <3>2 DEF IncidentIds
  <2>. QED BY <1>4, <2>1 DEF Mission
<1>6. missions' = Append(missions, new) BY <1>4 DEF CreateMission
<1>7. /\ missions' \in Seq(Mission) /\ Len(missions') = n /\ missions'[n] = new
      /\ \A m \in MissionIds : missions'[m] = missions[m]
  BY <1>2, <1>3, <1>5, <1>6 DEF MissionIds
<1>8. MissionsGrow BY <1>2, <1>3, <1>7 DEF MissionsGrow
<1>9. \A m \in 1 .. Len(missions') : m \in MissionIds \/ m = n
  BY <1>2, <1>3, <1>7 DEF MissionIds
<1>10. /\ Moves(w) /\ call'[w].pc = "plan" /\ call'[w].mission = n
       /\ call'[w].inc = call[w].inc /\ call'[w].todo = call[w].todo
  <2>1. PICK k : k = [call[w] EXCEPT !.pc = "plan", !.mission = n] OBVIOUS
  <2>2. "plan" \in Labels /\ n \in Nat BY <1>2, <1>3 DEF Labels, Deciding
  <2>3. /\ k \in CallRec /\ k.pc = "plan" /\ k.mission = n /\ k.inc = call[w].inc
        /\ k.todo = call[w].todo
    BY <1>2, <2>1, <2>2 DEF CallRec
  <2>4. call' = [call EXCEPT ![w] = k] BY <1>3, <2>1 DEF CreateMission
  <2>. QED BY <1>2, <2>3, <2>4, Placed
<1>11. n \in MissionIds' /\ IncidentIds' = IncidentIds /\ incidents' = incidents
  BY <1>1, <1>2, <1>3, <1>7 DEF IncidentIds, MissionIds
<1>12. Holds(w)' BY <1>2, <1>5, <1>7, <1>10, <1>11 DEF Holds, Deciding, Closing
<1>13. \A v \in Workers \ {w} : call[v].pc = "plan" =>
          /\ call[v].mission \in MissionIds /\ call[v].mission # n
          /\ missions'[call[v].mission].status = "CREATED"
  <2>1. \A v \in Workers : call[v].pc = "plan" =>
          call[v].mission \in MissionIds /\ missions[call[v].mission].status = "CREATED"
    BY DEF RecInv, HoldInv, Holds
  <2>2. n \notin MissionIds BY <1>2, <1>3 DEF MissionIds
  <2>. QED BY <1>7, <2>1, <2>2
<1>14. ApartInv' BY <1>2, <1>10, <1>13 DEF ApartInv, RecInv, Moves
<1>15. \A m \in 1 .. Len(missions') : m \in MissionIds \/
          /\ missions'[m].incident \in IncidentIds
          /\ incidents[missions'[m].incident].opened >= FailingFor
  BY <1>2, <1>5, <1>7, <1>9
<1>16. call'[w].inc \in 0 .. Len(incidents) /\ call'[w].mission \in 0 .. Len(missions')
  BY <1>2, <1>3, <1>7, <1>10
<1>. QED BY <1>1, <1>7, <1>8, <1>10, <1>12, <1>13, <1>14, <1>15, <1>16, MissionStep

(* One mission is replaced.                                                *)
LEMMA OneMission ==
    ASSUME ShapeInv, NEW m \in MissionIds, NEW new \in Mission,
           missions' = [missions EXCEPT ![m] = new], new.incident = missions[m].incident,
           new.status # "CREATED", new.status = "PLANNED" => missions[m].status = "CREATED"
    PROVE  /\ missions' \in Seq(Mission) /\ Len(missions') = Len(missions)
           /\ MissionIds' = MissionIds /\ MissionsGrow
           /\ missions'[m] = new /\ \A n \in MissionIds \ {m} : missions'[n] = missions[n]
           /\ \A n \in 1 .. Len(missions') : n \in MissionIds
<1>1. missions \in Seq(Mission) /\ Len(missions) \in Nat BY Lengths
<1>2. /\ missions' \in Seq(Mission) /\ Len(missions') = Len(missions)
      /\ MissionIds' = MissionIds
      /\ missions'[m] = new /\ \A n \in MissionIds \ {m} : missions'[n] = missions[n]
      /\ \A n \in 1 .. Len(missions') : n \in MissionIds
  BY <1>1 DEF MissionIds
<1>3. \A n \in MissionIds :
          /\ missions'[n].incident = missions[n].incident
          /\ missions[n].status # "CREATED" => missions'[n].status # "CREATED"
          /\ missions[n].status \notin {"CREATED", "PLANNED"} =>
                missions'[n].status \notin {"CREATED", "PLANNED"}
  BY <1>2
<1>4. MissionsGrow BY <1>1, <1>2, <1>3 DEF MissionsGrow
<1>. QED BY <1>2, <1>4

LEMMA PlanStep ==
    ASSUME RecInv, NEW w \in running, CreatePlan(w)
    PROVE  RecInv'
<1>1. /\ call[w].pc = "plan" /\ Go(w, "attach")
      /\ UNCHANGED <<running, incidents, attempts, notified, lastRun, crashes>>
  BY DEF CreatePlan, At
<1>2. /\ w \in Workers /\ ShapeInv /\ call[w].inc \in 0 .. Len(incidents)
      /\ call[w].mission \in 0 .. Len(missions)
      /\ call[w].inc \in IncidentIds /\ call[w].todo # <<>>
      /\ incidents[call[w].inc].opened >= FailingFor
      /\ call[w].mission \in MissionIds /\ missions[call[w].mission].incident = call[w].inc
      /\ missions[call[w].mission].status = "CREATED"
      /\ missions \in Seq(Mission) /\ missions[call[w].mission] \in Mission
  BY <1>1, Around, Lengths DEF Holds, Deciding
<1>3. PICK m, new : m = call[w].mission /\ new = [missions[m] EXCEPT !.status = "PLANNED"]
  OBVIOUS
<1>4. new \in Mission /\ new.incident = missions[m].incident /\ new.status = "PLANNED"
  BY <1>2, <1>3 DEF Mission
<1>5. missions' = [missions EXCEPT ![m] = new] BY <1>2, <1>3 DEF CreatePlan, MissionIds
<1>6. /\ missions' \in Seq(Mission) /\ Len(missions') = Len(missions)
      /\ MissionIds' = MissionIds /\ MissionsGrow
      /\ missions'[m] = new /\ \A n \in MissionIds \ {m} : missions'[n] = missions[n]
      /\ \A n \in 1 .. Len(missions') : n \in MissionIds
  BY <1>2, <1>3, <1>4, <1>5, OneMission, ZenonT(40)
<1>7. /\ Moves(w) /\ call'[w].pc = "attach" /\ call'[w].todo = call[w].todo
      /\ call'[w].inc = call[w].inc /\ call'[w].mission = m
  <2>1. "attach" \in Labels BY DEF Labels, Deciding
  <2>. QED BY <1>1, <1>2, <1>3, <2>1, GoTo
<1>8. IncidentIds' = IncidentIds /\ incidents' = incidents BY <1>1 DEF IncidentIds
<1>9. Holds(w)' BY <1>2, <1>3, <1>4, <1>6, <1>7, <1>8 DEF Holds, Deciding, Closing
<1>10. \A v \in Workers \ {w} :
          call[v].pc = "plan" => missions'[call[v].mission].status = "CREATED"
  <2>1. \A v \in Workers \ {w} : call[v].pc = "plan" =>
          /\ call[v].mission \in MissionIds /\ missions[call[v].mission].status = "CREATED"
          /\ call[v].mission # m
    BY <1>1, <1>2, <1>3 DEF RecInv, HoldInv, Holds, ApartInv
  <2>. QED BY <1>6, <2>1
<1>11. ApartInv' BY <1>2, <1>7 DEF ApartInv, RecInv, Moves
<1>12. call'[w].inc \in 0 .. Len(incidents) /\ call'[w].mission \in 0 .. Len(missions')
  BY <1>2, <1>3, <1>6, <1>7
<1>. QED BY <1>1, <1>6, <1>7, <1>9, <1>10, <1>11, <1>12, MissionStep

LEMMA RanMission ==
    ASSUME NEW m, missions[m] \in Mission, NEW o \in Outcomes, NEW b \in BOOLEAN
    PROVE  LET new == [Ran(m, o) EXCEPT !.unseen = b] IN
           /\ new \in Mission /\ new.incident = missions[m].incident /\ new.status = o
           /\ new.component = missions[m].component /\ new.unseen = b
           /\ new.ran = None \/ (new.ran = 0 /\ o \in {"EXECUTED", "FAILED"})
           /\ o \notin {"CREATED", "PLANNED"}
<1>. DEFINE new == [Ran(m, o) EXCEPT !.unseen = b]
<1>1. PICK ran : /\ ran = IF o \in {"EXECUTED", "FAILED"} THEN 0 ELSE None
  OBVIOUS
<1>2. PICK hot \in BOOLEAN : hot = (o \in {"EXECUTED", "FAILED"} /\ Hot(m))
  BY Zenon
<1>3. new = [missions[m] EXCEPT !.status = o, !.ran = ran, !.hot = hot, !.unseen = b]
  BY <1>1, <1>2 DEF Ran
<1>4. ran \in 0 .. Cooldown \cup {None} BY <1>1
<1>5. o \notin {"CREATED", "PLANNED"} BY RecoveryLimits DEF RecoveryLimits
<1>6. /\ new \in Mission /\ new.incident = missions[m].incident /\ new.status = o
      /\ new.component = missions[m].component /\ new.unseen = b /\ new.ran = ran
  <2>. HIDE DEF new
  <2>. QED BY <1>3, <1>4 DEF Mission
<1>. QED BY <1>1, <1>5, <1>6

HandRec(m, o) == [Idle EXCEPT !.pc = "handle", !.mission = m, !.outcome = o]

LEMMA HandRecord ==
    ASSUME NEW m \in Nat, NEW o \in Outcomes
    PROVE  LET k == HandRec(m, o) IN
           /\ k \in CallRec /\ k.pc = "handle" /\ k.mission = m /\ k.inc = 0 /\ k.ret = "idle"
           /\ k.outcome = o
<1>1. "handle" \in Labels BY DEF Labels
<1>2. Idle \in CallRec /\ Idle.inc = 0 /\ Idle.ret = "idle" BY IdleRecord DEF Idle
<1>. QED BY <1>1, <1>2 DEF CallRec, HandRec

LEMMA ExecuteStep ==
    ASSUME RecInv, NEW w \in running, ExecuteMission(w)
    PROVE  RecInv'
<1>1. /\ call[w].pc = "execute"
      /\ UNCHANGED <<running, incidents, attempts, notified, lastRun, crashes>>
  BY DEF ExecuteMission, At
<1>2. PICK m \in 1 .. Len(missions), o \in Outcomes :
        /\ missions[m].status = "PLANNED"
        /\ missions' = [missions EXCEPT ![m] =
                [Ran(m, o) EXCEPT !.unseen = IncidentForMission(m) = 0]]
        /\ call' = [call EXCEPT ![w] = [Idle EXCEPT !.pc = "handle",
                                            !.mission = m, !.outcome = o]]
  BY DEF ExecuteMission
<1>3. /\ w \in Workers /\ ShapeInv /\ m \in MissionIds /\ m \in Nat /\ m \in 0 .. Len(missions)
      /\ Len(missions) \in Nat /\ missions[m] \in Mission /\ Len(incidents) \in Nat
  BY <1>2, Around, Lengths DEF MissionIds
<1>4. PICK new : new = [Ran(m, o) EXCEPT !.unseen = IncidentForMission(m) = 0] OBVIOUS
<1>5. /\ new \in Mission /\ new.incident = missions[m].incident /\ new.status = o
      /\ o \notin {"CREATED", "PLANNED"}
  <2>1. PICK b \in BOOLEAN : b = (IncidentForMission(m) = 0) BY Zenon
  <2>2. new = [Ran(m, o) EXCEPT !.unseen = b] BY <1>4, <2>1
  <2>. QED BY <1>3, <2>2, RanMission
<1>6. /\ missions' \in Seq(Mission) /\ Len(missions') = Len(missions)
      /\ MissionIds' = MissionIds /\ MissionsGrow
      /\ missions'[m] = new /\ \A n \in MissionIds \ {m} : missions'[n] = missions[n]
      /\ \A n \in 1 .. Len(missions') : n \in MissionIds
  <2>1. missions' = [missions EXCEPT ![m] = new] BY <1>2, <1>4
  <2>. QED BY <1>3, <1>5, <2>1, OneMission
<1>7. /\ Moves(w) /\ call'[w].pc = "handle" /\ call'[w].mission = m /\ call'[w].inc = 0
      /\ call'[w].ret = "idle"
  <2>1. PICK k : k = HandRec(m, o) OBVIOUS
  <2>2. k \in CallRec /\ k.pc = "handle" /\ k.mission = m /\ k.inc = 0 /\ k.ret = "idle"
    BY <1>3, <2>1, HandRecord
  <2>3. call' = [call EXCEPT ![w] = k] BY <1>2, <2>1 DEF HandRec
  <2>. QED BY <1>3, <2>2, <2>3, Placed
<1>8. \A i \in IncidentIds : incidents[i].mission = m => incidents[i].real = 0
  BY <1>2, <1>3 DEF RecInv, LinkInv, MissionIds
<1>9. Holds(w)'
  <2>1. IncidentIds' = IncidentIds /\ incidents' = incidents BY <1>1 DEF IncidentIds
  <2>2. m \in MissionIds' /\ missions'[m].status \notin {"CREATED", "PLANNED"}
    BY <1>3, <1>5, <1>6
  <2>. QED BY <1>7, <1>8, <2>1, <2>2 DEF Holds, Deciding, Closing
<1>10. \A v \in Workers :
          /\ call[v].pc = "plan" => missions'[call[v].mission].status = "CREATED"
          /\ call[v].pc \in {"handle", "record"} => call[v].mission # m
  <2>1. \A v \in Workers :
          /\ call[v].pc = "plan" =>
               call[v].mission \in MissionIds /\ missions[call[v].mission].status = "CREATED"
          /\ call[v].pc \in {"handle", "record"} =>
               missions[call[v].mission].status \notin {"CREATED", "PLANNED"}
    BY DEF RecInv, HoldInv, Holds
  <2>. QED BY <1>2, <1>6, <2>1
<1>11. ApartInv' BY <1>3, <1>7, <1>10 DEF ApartInv, RecInv, Moves
<1>12. call'[w].inc \in 0 .. Len(incidents) /\ call'[w].mission \in 0 .. Len(missions')
  BY <1>3, <1>6, <1>7
<1>. QED BY <1>1, <1>6, <1>7, <1>9, <1>10, <1>11, <1>12, MissionStep

LEMMA ResumeStep ==
    ASSUME RecInv, NEW m \in DOMAIN missions, ResumeApproved(m)
    PROVE  RecInv'
<1>1. /\ missions[m].status = "WAITING_APPROVAL" /\ UNCHANGED call
      /\ UNCHANGED <<running, incidents, attempts, notified, lastRun, crashes>>
  BY DEF ResumeApproved
<1>2. PICK o \in Outcomes : missions' = [missions EXCEPT ![m] = [Ran(m, o) EXCEPT !.unseen = TRUE]]
  BY DEF ResumeApproved
<1>3. PICK w \in running : TRUE BY DEF RecInv, ShapeInv, TypeOK
<1>4. /\ w \in Workers /\ ShapeInv /\ Holds(w) /\ missions \in Seq(Mission)
      /\ call[w].inc \in 0 .. Len(incidents) /\ call[w].mission \in 0 .. Len(missions)
  BY <1>3, Around
<1>5. m \in MissionIds /\ missions[m] \in Mission BY <1>4 DEF MissionIds
<1>6. PICK new : new = [Ran(m, o) EXCEPT !.unseen = TRUE] OBVIOUS
<1>7. /\ new \in Mission /\ new.incident = missions[m].incident /\ new.status = o
      /\ o \notin {"CREATED", "PLANNED"}
  BY <1>5, <1>6, RanMission, ZenonT(40)
<1>8. /\ missions' \in Seq(Mission) /\ Len(missions') = Len(missions)
      /\ MissionIds' = MissionIds /\ MissionsGrow
      /\ missions'[m] = new /\ \A n \in MissionIds \ {m} : missions'[n] = missions[n]
      /\ \A n \in 1 .. Len(missions') : n \in MissionIds
  <2>1. missions' = [missions EXCEPT ![m] = new] BY <1>2, <1>6
  <2>. QED BY <1>4, <1>5, <1>7, <2>1, OneMission
<1>9. Moves(w) BY <1>1, <1>4 DEF Moves, ShapeInv
<1>10. \A v \in Workers : call[v].pc = "plan" => missions'[call[v].mission].status = "CREATED"
  <2>1. \A v \in Workers : call[v].pc = "plan" =>
          call[v].mission \in MissionIds /\ missions[call[v].mission].status = "CREATED"
    BY DEF RecInv, HoldInv, Holds
  <2>. QED BY <1>1, <1>8, <2>1
<1>11. Holds(w)'
  <2>1. QuietIncidents /\ SoundInv' BY <1>1, <1>4, SameIncidents DEF RecInv
  <2>. QED BY <1>1, <1>4, <1>8, <1>10, <2>1, QuietOthers
<1>12. ApartInv' BY <1>1 DEF ApartInv, RecInv
<1>13. /\ call'[w].inc \in 0 .. Len(incidents) /\ call'[w].mission \in 0 .. Len(missions')
       /\ call'[w] = call[w]
  BY <1>1, <1>4, <1>8
<1>. QED BY <1>1, <1>3, <1>8, <1>9, <1>10, <1>11, <1>12, <1>13, MissionStep

LEMMA NotifyStep ==
    ASSUME RecInv, NEW w \in running, Notify(w)
    PROVE  RecInv'
<1>1. /\ call[w].pc \in {"inform", "alarm"}
      /\ UNCHANGED <<running, incidents, attempts, missions, lastRun, crashes>>
  BY DEF Notify, At
<1>2. /\ w \in Workers /\ ShapeInv /\ SoundInv /\ OpenInv /\ call[w].inc \in IncidentIds
      /\ call[w].ret = "cycle" => call[w].todo # <<>>
  BY <1>1, Around DEF Holds, Closing
<1>3. PICK n : n = [incident |-> call[w].inc,
                    severity |-> IF call[w].pc = "alarm" THEN "CRITICAL" ELSE "INFORMATION"]
  OBVIOUS
<1>4. /\ notified' = notified \cup {n} /\ n.incident = call[w].inc
      /\ call[w].pc = "alarm" => n.severity = "CRITICAL"
  BY <1>3 DEF Notify
<1>5. /\ Moves(w) /\ call'[w].pc \in {"cycle", "idle"} /\ call'[w].inc = 0
      /\ call'[w].mission = 0
  <2>1. CASE call[w].ret = "cycle" BY <1>2, <2>1, ContinueFree DEF Notify
  <2>2. CASE call[w].ret # "cycle" BY <1>2, <2>2, IdleFree DEF Notify
  <2>. QED BY <2>1, <2>2
<1>6. QuietIncidents /\ SoundInv' /\ OpenInv' BY <1>1, <1>2, SameIncidents
<1>7. Holds(w)' BY <1>5, FreeHolds
<1>8. EscalationNotified'
  <2>1. SUFFICES ASSUME crashes = 0, NEW i \in IncidentIds, incidents[i].state = "ESCALATED"
                 PROVE  \/ \E x \in notified' : x.incident = i /\ x.severity = "CRITICAL"
                        \/ \E v \in running : call'[v].pc = "alarm" /\ call'[v].inc = i
    BY <1>1 DEF EscalationNotified, At, IncidentIds
  <2>2. \/ \E x \in notified : x.incident = i /\ x.severity = "CRITICAL"
        \/ \E v \in running : call[v].pc = "alarm" /\ call[v].inc = i
    BY <2>1 DEF RecInv, EscalationNotified, At, IncidentIds
  <2>3. running \subseteq Workers BY <1>2 DEF ShapeInv, TypeOK
  <2>4. ASSUME NEW v \in running, v # w PROVE call'[v] = call[v] BY <2>3, <2>4, <1>5 DEF Moves
  <2>5. CASE \E x \in notified : x.incident = i /\ x.severity = "CRITICAL" BY <1>4, <2>5
  <2>6. CASE call[w].pc = "alarm" /\ call[w].inc = i BY <1>4, <2>6
  <2>. QED BY <2>2, <2>4, <2>5, <2>6
<1>9. /\ lastRun' \in [Workers -> 0 .. Observation \cup {None}]
      /\ crashes' \in 0 .. MaxCrashes[Cardinality(running)] /\ incidents' \in Seq(Incident)
  BY <1>1, Around
<1>10. /\ \A x \in notified' : x.incident \in 1 .. Len(incidents')
  BY <1>1, <1>2, <1>4, Around DEF IncidentIds
<1>11. call'[w].inc \in 0 .. Len(incidents') /\ call'[w].mission \in 0 .. Len(missions)
  BY <1>1, <1>5, Around
<1>12. UNCHANGED <<running, missions, attempts>> BY <1>1
<1>. QED BY <1>5, <1>6, <1>7, <1>8, <1>9, <1>10, <1>11, <1>12, QuietStep

-----------------------------------------------------------------------------
(* attach_mission and add_attempt: what ties the tables together           *)

LEMMA BookStep ==
    ASSUME RecInv, NEW w \in running, Moves(w), NEW i \in IncidentIds, NEW new, Sound(new),
           incidents' = [incidents EXCEPT ![i] = new], new.component = incidents[i].component,
           new.opened = incidents[i].opened, new.active = incidents[i].active,
           new.state = incidents[i].state,
           incidents[i].mission # 0 => new.mission = incidents[i].mission,
           new.mission # 0 =>
              /\ new.mission \in MissionIds /\ missions[new.mission].incident = i
              /\ missions[new.mission].status # "CREATED"
              /\ missions[new.mission].status = "PLANNED" => new.real = 0,
           \A v \in Workers \ {w} : call[v].pc \in {"handle", "record"} =>
              call[v].mission # new.mission \/ new.real = 0,
           \A a \in attempts' : /\ a.incident \in IncidentIds /\ a.mission \in MissionIds
                                /\ a.age \in 0 .. Window,
           attempts' \subseteq AttemptRec,
           UNCHANGED <<running, missions, notified, lastRun, crashes>>, call[w].pc # "alarm",
           Holds(w)', call'[w].pc \notin {"plan", "handle", "record"},
           call'[w].inc \in 0 .. Len(incidents), call'[w].mission \in 0 .. Len(missions)
    PROVE  RecInv'
<1>1. w \in Workers /\ ShapeInv /\ SoundInv /\ OpenInv /\ running \subseteq Workers
  BY Around DEF ShapeInv, TypeOK
<1>2. /\ incidents' \in Seq(Incident) /\ Len(incidents') = Len(incidents)
      /\ IncidentIds' = IncidentIds /\ SoundInv' /\ OpenInv'
      /\ incidents'[i] = new /\ \A j \in IncidentIds \ {i} : incidents'[j] = incidents[j]
  BY <1>1, OneIncident, ZenonT(40)
<1>3. MissionIds' = MissionIds /\ MissionsGrow BY <1>1, SameMissions
<1>4. TypeOK'
  <2>1. \A v \in Workers : /\ call'[v].inc \in 0 .. Len(incidents)
                           /\ call'[v].mission \in 0 .. Len(missions)
    <3>1. \A v \in Workers \ {w} : call'[v] = call[v] BY DEF Moves
    <3>2. \A v \in Workers : /\ call[v].inc \in 0 .. Len(incidents)
                             /\ call[v].mission \in 0 .. Len(missions)
      BY <1>1 DEF ShapeInv, TypeOK
    <3>. QED BY <3>1, <3>2
  <2>. QED BY <1>1, <1>2, <2>1 DEF ShapeInv, TypeOK, IncidentIds, MissionIds
<1>5. ShapeInv'
  <2>1. \A v \in Workers \ running : call'[v] = Idle BY <1>1 DEF Moves, ShapeInv
  <2>. QED BY <1>1, <1>2, <1>3, <1>4, <2>1 DEF ShapeInv, Moves
<1>6. LinkInv' BY <1>2, <1>3 DEF LinkInv, RecInv
<1>7. \A j \in IncidentIds :
         /\ incidents'[j].opened >= incidents[j].opened /\ incidents'[j] \in Incident
         /\ incidents[j].mission # 0 => incidents'[j].mission = incidents[j].mission
  <2>1. \A j \in IncidentIds : incidents[j].opened \in Nat BY <1>1, OpenedNat
  <2>2. \A j \in IncidentIds : incidents'[j] \in Incident BY <1>2, OpenedLater
  <2>. QED BY <1>2, <2>1, <2>2
<1>8. HoldInv'
  <2>1. ASSUME NEW v \in Workers, v # w PROVE Holds(v)'
    <3>1. call'[v] = call[v] /\ Holds(v) BY <2>1 DEF Moves, RecInv, HoldInv
    <3>2. call[v].pc = "plan" => missions'[call[v].mission].status = "CREATED"
      BY <3>1 DEF Holds
    <3>3. call[v].pc \in {"handle", "record"} =>
              \A j \in 1 .. Len(incidents') :
                 incidents'[j].mission = call[v].mission => incidents'[j].real = 0
      BY <1>2, <2>1, <3>1 DEF Holds, IncidentIds
    <3>4. Len(incidents') \in Nat /\ Len(incidents') >= Len(incidents)
      BY <1>1, <1>2, Lengths
    <3>. QED BY <1>1, <1>3, <1>7, <3>1, <3>2, <3>3, <3>4, OtherHolds
  <2>. QED BY <2>1 DEF HoldInv
<1>9. ApartInv' BY <1>1, QuietApart DEF RecInv
<1>10. SustainedFailure'
  <2>1. \A m \in MissionIds : /\ missions[m].incident \in IncidentIds
                               /\ incidents[missions[m].incident].opened >= FailingFor
    BY <1>1 DEF ShapeInv, RecInv, SustainedFailure, MissionIds
  <2>2. \A j \in IncidentIds : incidents'[j].opened = incidents[j].opened BY <1>2
  <2>. QED BY <2>1, <2>2 DEF SustainedFailure, MissionIds
<1>11. EscalationNotified'
  <2>1. \A j \in 1 .. Len(incidents') : incidents'[j].state = "ESCALATED" =>
            j \in IncidentIds /\ incidents[j].state = "ESCALATED"
    BY <1>2 DEF IncidentIds
  <2>2. notified \subseteq notified' /\ (crashes' = 0 => crashes = 0) /\ UNCHANGED running
    OBVIOUS
  <2>. QED BY <2>1, <2>2, NobodyEscalated
<1>. QED BY <1>2, <1>5, <1>6, <1>8, <1>9, <1>10, <1>11 DEF RecInv

AttachedTo(inc, m) == [inc EXCEPT !.mission = m]

LEMMA AttachedRow ==
    ASSUME NEW inc, Sound(inc), inc.mission = 0, NEW m \in Nat, NEW new, new = AttachedTo(inc, m)
    PROVE  /\ Sound(new) /\ new.mission = m /\ new.real = 0 /\ new.component = inc.component
           /\ new.opened = inc.opened /\ new.active = inc.active /\ new.state = inc.state
<1>1. inc \in Incident /\ inc.real = 0 BY DEF Sound
<1>2. /\ new \in Incident /\ new.mission = m /\ new.real = inc.real
      /\ new.component = inc.component /\ new.opened = inc.opened /\ new.active = inc.active
      /\ new.state = inc.state /\ new.fails = inc.fails /\ new.observed = inc.observed
  BY <1>1 DEF Incident, AttachedTo
<1>. QED BY <1>1, <1>2 DEF Sound

LEMMA AttachStep ==
    ASSUME RecInv, NEW w \in running, AttachMission(w)
    PROVE  RecInv'
<1>1. call[w].pc = "attach" /\ UNCHANGED <<running, attempts, missions, notified, crashes>>
  BY DEF AttachMission, At
<1>2. /\ w \in Workers /\ ShapeInv /\ SoundInv /\ call[w].inc \in IncidentIds
      /\ call[w].todo # <<>> /\ call[w].mission \in MissionIds
      /\ missions[call[w].mission].incident = call[w].inc
      /\ missions[call[w].mission].status # "CREATED" /\ incidents \in Seq(Incident)
  BY <1>1, Around DEF Holds, Deciding
<1>3. CASE CanAttach(incidents[call[w].inc])
  <2>1. PICK i, m, inc : /\ i = call[w].inc /\ m = call[w].mission /\ inc = incidents[i]
    OBVIOUS
  <2>2. PICK new : new = AttachedTo(inc, m) OBVIOUS
  <2>3. incidents' = [incidents EXCEPT ![i] = new] /\ Continue(w) /\ UNCHANGED lastRun
    BY <1>2, <1>3, <2>1, <2>2 DEF AttachMission, AttachedTo
  <2>4. Sound(inc) /\ inc.mission = 0 /\ m \in Nat
    BY <1>2, <1>3, <2>1 DEF SoundInv, CanAttach, MissionIds
  <2>5. /\ Sound(new) /\ new.mission = m /\ new.real = 0 /\ new.component = inc.component
        /\ new.opened = inc.opened /\ new.active = inc.active /\ new.state = inc.state
    BY <2>2, <2>4, AttachedRow
  <2>6. Moves(w) /\ call'[w].pc = "cycle" /\ call'[w].inc = 0 /\ call'[w].mission = 0
    BY <1>2, <2>3, ContinueFree
  <2>7. Holds(w)' BY <2>6, FreeHolds
  <2>8. call'[w].inc \in 0 .. Len(incidents) /\ call'[w].mission \in 0 .. Len(missions)
    BY <2>6, Around
  <2>9. /\ \A a \in attempts' : /\ a.incident \in IncidentIds /\ a.mission \in MissionIds
                                /\ a.age \in 0 .. Window
        /\ attempts' \subseteq AttemptRec
    BY <1>1, <1>2 DEF ShapeInv, TypeOK, IncidentIds, MissionIds
  <2>10. /\ i \in IncidentIds /\ new.component = incidents[i].component
         /\ new.opened = incidents[i].opened /\ new.active = incidents[i].active
         /\ new.state = incidents[i].state
         /\ incidents[i].mission # 0 => new.mission = incidents[i].mission
         /\ new.mission \in MissionIds /\ missions[new.mission].incident = i
         /\ missions[new.mission].status # "CREATED" /\ new.real = 0
    BY <1>2, <2>1, <2>4, <2>5
  <2>11. UNCHANGED <<running, missions, notified, lastRun, crashes>> /\ call[w].pc # "alarm"
    BY <1>1, <2>3
  <2>. QED BY <2>3, <2>5, <2>6, <2>7, <2>8, <2>9, <2>10, <2>11, BookStep
<1>4. CASE ~CanAttach(incidents[call[w].inc])
  <2>1. Exit(w) /\ UNCHANGED incidents BY <1>4 DEF AttachMission
  <2>. QED BY <1>1, <2>1, ExitStep
<1>. QED BY <1>3, <1>4

Booked(inc) == [inc EXCEPT !.lastAttempt = 0, !.real = @ + 1]

LEMMA BookedRow ==
    ASSUME NEW inc, Sound(inc), inc.mission # 0, inc.real = 0, NEW new, new = Booked(inc)
    PROVE  /\ Sound(new) /\ new.mission = inc.mission /\ new.real = 1
           /\ new.component = inc.component /\ new.opened = inc.opened
           /\ new.active = inc.active /\ new.state = inc.state
<1>1. inc \in Incident BY DEF Sound
<1>2. new = [inc EXCEPT !.lastAttempt = 0, !.real = 1] BY <1>1 DEF Booked, Incident
<1>3. 0 \in 0 .. Cooldown \cup {None} /\ 1 \in Nat OBVIOUS
<1>4. /\ new \in Incident /\ new.mission = inc.mission /\ new.real = 1
      /\ new.component = inc.component /\ new.opened = inc.opened /\ new.active = inc.active
      /\ new.state = inc.state /\ new.fails = inc.fails /\ new.observed = inc.observed
  BY <1>1, <1>2, <1>3 DEF Incident
<1>. QED BY <1>4 DEF Sound

LEMMA RecordStep ==
    ASSUME RecInv, NEW w \in running, RecordAttempt(w)
    PROVE  RecInv'
<1>1. /\ call[w].pc = "record"
      /\ UNCHANGED <<running, missions, notified, lastRun, crashes>>
  BY DEF RecordAttempt, At
<1>2. /\ w \in Workers /\ ShapeInv /\ SoundInv /\ call[w].inc \in IncidentIds
      /\ call[w].ret = "idle" /\ call[w].mission \in MissionIds
      /\ incidents[call[w].inc].mission = call[w].mission
      /\ incidents[call[w].inc].real = 0
      /\ missions[call[w].mission].status \notin {"CREATED", "PLANNED"}
      /\ incidents \in Seq(Incident) /\ Len(missions) \in Nat
  BY <1>1, Around DEF Holds, Closing
<1>3. PICK i, m : i = call[w].inc /\ m = call[w].mission OBVIOUS
<1>4. /\ i \in IncidentIds /\ Sound(incidents[i]) /\ incidents[i].mission = m
      /\ incidents[i].real = 0 /\ m # 0 /\ m \in MissionIds
  BY <1>2, <1>3 DEF SoundInv, MissionIds
<1>5. PICK new : /\ new = incidents[i] \/ new = Booked(incidents[i])
                 /\ incidents' = [incidents EXCEPT ![i] = new]
  <2>1. incidents' = incidents \/ incidents' = [incidents EXCEPT ![i] = Booked(incidents[i])]
    BY <1>2, <1>3 DEF RecordAttempt, Booked
  <2>2. incidents = [incidents EXCEPT ![i] = incidents[i]] BY <1>2
  <2>. QED BY <2>1, <2>2
<1>6. /\ Sound(new) /\ new.mission = incidents[i].mission
      /\ new.component = incidents[i].component /\ new.opened = incidents[i].opened
      /\ new.active = incidents[i].active /\ new.state = incidents[i].state
  BY <1>4, <1>5, BookedRow
<1>7. PICK pc \in {"escalate", "verifying"} : Go(w, pc) BY DEF RecordAttempt
<1>8. /\ Moves(w) /\ call'[w].pc = pc /\ call'[w].inc = i /\ call'[w].mission = m
      /\ call'[w].ret = "idle"
  <2>1. pc \in Labels BY DEF Labels, Closing
  <2>. QED BY <1>2, <1>3, <1>7, <2>1, GoTo
<1>9. IncidentIds' = IncidentIds BY <1>2, <1>5 DEF IncidentIds
<1>10. Holds(w)' BY <1>4, <1>7, <1>8, <1>9 DEF Holds, Deciding, Closing
<1>11. /\ \A a \in attempts' : /\ a.incident \in IncidentIds /\ a.mission \in MissionIds
                               /\ a.age \in 0 .. Window
       /\ attempts' \subseteq AttemptRec
  <2>0. PICK b : b = [incident |-> i, component |-> incidents[i].component, mission |-> m,
                      simulated |-> call[w].outcome = "SIMULATED", age |-> 0]
    OBVIOUS
  <2>1. attempts' = attempts \cup {b} /\ b.incident = i /\ b.mission = m /\ b.age = 0
    BY <1>3, <2>0 DEF RecordAttempt
  <2>2. \A a \in attempts : /\ a.incident \in IncidentIds /\ a.mission \in MissionIds
                            /\ a.age \in 0 .. Window
    BY <1>2 DEF ShapeInv, TypeOK, IncidentIds, MissionIds
  <2>3. b \in AttemptRec
    <3>1. i \in Nat /\ m \in Nat /\ incidents[i].component \in Components
      BY <1>4 DEF Sound, Incident, IncidentIds, MissionIds
    <3>2. PICK s \in BOOLEAN : s = (call[w].outcome = "SIMULATED") BY Zenon
    <3>3. b = [incident |-> i, component |-> incidents[i].component, mission |-> m,
               simulated |-> s, age |-> 0]
      BY <2>0, <3>2
    <3>4. 0 \in 0 .. Window OBVIOUS
    <3>. QED BY <3>1, <3>3, <3>4 DEF AttemptRec
  <2>4. attempts \subseteq AttemptRec BY <1>2 DEF ShapeInv
  <2>. QED BY <1>4, <2>1, <2>2, <2>3, <2>4
<1>12. \A v \in Workers \ {w} : call[v].pc \in {"handle", "record"} => call[v].mission # m
  BY <1>1, <1>2, <1>3 DEF RecInv, ApartInv
<1>13. /\ new.mission \in MissionIds /\ missions[new.mission].incident = i
       /\ missions[new.mission].status \notin {"CREATED", "PLANNED"}
       /\ new.mission = m
  BY <1>2, <1>3, <1>4, <1>6 DEF RecInv, LinkInv
<1>14. /\ call'[w].inc \in 0 .. Len(incidents) /\ call'[w].mission \in 0 .. Len(missions)
       /\ call[w].pc # "alarm" /\ call'[w].pc \notin {"plan", "handle", "record"}
  BY <1>1, <1>3, <1>7, <1>8, Around
<1>. QED BY <1>1, <1>4, <1>5, <1>6, <1>8, <1>10, <1>11, <1>12, <1>13, <1>14, BookStep

-----------------------------------------------------------------------------
(* Time passes                                                             *)

AgedRun(mis) == [mis EXCEPT !.ran = Older(@, Cooldown)]

LEMMA AgedMission ==
    ASSUME NEW mis \in Mission, NEW new, new = AgedRun(mis)
    PROVE  /\ new \in Mission /\ new.incident = mis.incident /\ new.status = mis.status
           /\ new.unseen = mis.unseen /\ (new.ran = None <=> mis.ran = None)
<1>1. mis.ran \in 0 .. Cooldown \cup {None} BY DEF Mission
<1>2. PICK a : a = Older(mis.ran, Cooldown) OBVIOUS
<1>3. a \in 0 .. Cooldown \cup {None} /\ (a = None <=> mis.ran = None) BY <1>1, <1>2, OlderAge
<1>4. new = [mis EXCEPT !.ran = a] BY <1>2 DEF AgedRun
<1>. QED BY <1>3, <1>4 DEF Mission

(* What a tick leaves as it was.                                           *)
LEMMA Ticked ==
    ASSUME RecInv, Tick
    PROVE  /\ incidents' \in Seq(Incident) /\ missions' \in Seq(Mission)
           /\ Len(incidents') = Len(incidents) /\ Len(missions') = Len(missions)
           /\ \A i \in IncidentIds : incidents'[i] = Aged(incidents[i])
           /\ \A m \in MissionIds :
                 /\ missions'[m].incident = missions[m].incident
                 /\ missions'[m].status = missions[m].status
                 /\ missions'[m].unseen = missions[m].unseen
                 /\ missions'[m].ran = None <=> missions[m].ran = None
           /\ lastRun' \in [Workers -> 0 .. Observation \cup {None}]
<1>1. /\ ShapeInv /\ SoundInv /\ incidents \in Seq(Incident) /\ missions \in Seq(Mission)
      /\ DOMAIN incidents = 1 .. Len(incidents) /\ DOMAIN missions = 1 .. Len(missions)
      /\ Len(incidents) \in Nat /\ Len(missions) \in Nat
  BY Lengths DEF RecInv
<1>2. \A i \in IncidentIds : Aged(incidents[i]) \in Incident
  BY <1>1, GrownOlder DEF SoundInv, Sound
<1>3. incidents' = [i \in 1 .. Len(incidents) |-> Aged(incidents[i])] BY <1>1 DEF Tick, Aged
<1>4. /\ incidents' \in Seq(Incident) /\ Len(incidents') = Len(incidents)
      /\ \A i \in IncidentIds : incidents'[i] = Aged(incidents[i])
  BY <1>1, <1>2, <1>3 DEF IncidentIds
<1>5. missions' = [m \in 1 .. Len(missions) |-> AgedRun(missions[m])] BY <1>1 DEF Tick, AgedRun
<1>6. \A m \in MissionIds :
         /\ AgedRun(missions[m]) \in Mission
         /\ AgedRun(missions[m]).incident = missions[m].incident
         /\ AgedRun(missions[m]).status = missions[m].status
         /\ AgedRun(missions[m]).unseen = missions[m].unseen
         /\ AgedRun(missions[m]).ran = None <=> missions[m].ran = None
  BY <1>1, Lengths, AgedMission
<1>7. /\ missions' \in Seq(Mission) /\ Len(missions') = Len(missions)
      /\ \A m \in MissionIds : missions'[m] = AgedRun(missions[m])
  BY <1>1, <1>5, <1>6 DEF MissionIds
<1>8. lastRun' \in [Workers -> 0 .. Observation \cup {None}]
  <2>1. \A w \in Workers : Older(lastRun[w], Observation) \in 0 .. Observation \cup {None}
    BY <1>1, OlderAge DEF ShapeInv
  <2>. QED BY <2>1 DEF Tick
<1>. QED BY <1>4, <1>6, <1>7, <1>8

LEMMA AgedAttempt ==
    ASSUME NEW a \in AttemptRec, a.age < Window, NEW b, b = [a EXCEPT !.age = @ + 1]
    PROVE  /\ b \in AttemptRec /\ b.incident = a.incident /\ b.mission = a.mission
           /\ b.component = a.component /\ b.simulated = a.simulated
<1>1. a.age + 1 \in 0 .. Window BY DEF AttemptRec
<1>. QED BY <1>1 DEF AttemptRec

LEMMA TickedAttempts ==
    ASSUME ShapeInv, Tick
    PROVE  /\ attempts' \subseteq AttemptRec
           /\ \A b \in attempts' : \E a \in attempts : /\ b.incident = a.incident
                                                       /\ b.mission = a.mission
                                                       /\ b.component = a.component
                                                       /\ b.simulated = a.simulated
<1>1. SUFFICES ASSUME NEW b \in attempts'
               PROVE  b \in AttemptRec /\ \E a \in attempts : /\ b.incident = a.incident
                                                             /\ b.mission = a.mission
                                                             /\ b.component = a.component
                                                             /\ b.simulated = a.simulated
  OBVIOUS
<1>2. PICK a \in attempts : a.age < Window /\ b = [a EXCEPT !.age = @ + 1] BY DEF Tick
<1>3. a \in AttemptRec BY DEF ShapeInv
<1>. QED BY <1>2, <1>3, AgedAttempt

LEMMA TickStep ==
    ASSUME RecInv, Tick
    PROVE  RecInv'
<1>1. /\ incidents' \in Seq(Incident) /\ missions' \in Seq(Mission)
      /\ Len(incidents') = Len(incidents) /\ Len(missions') = Len(missions)
      /\ \A i \in IncidentIds : incidents'[i] = Aged(incidents[i])
      /\ \A m \in MissionIds : /\ missions'[m].incident = missions[m].incident
                              /\ missions'[m].status = missions[m].status
      /\ lastRun' \in [Workers -> 0 .. Observation \cup {None}]
  BY Ticked
<1>2. /\ ShapeInv /\ SoundInv /\ OpenInv /\ Len(incidents) \in Nat /\ Len(missions) \in Nat
      /\ UNCHANGED running /\ UNCHANGED notified /\ UNCHANGED call /\ UNCHANGED crashes
  BY Lengths DEF RecInv, Tick
<1>3. IncidentIds' = IncidentIds /\ MissionIds' = MissionIds
  BY <1>1 DEF IncidentIds, MissionIds
<1>4. \A i \in IncidentIds :
         /\ Sound(incidents'[i]) /\ Kept(incidents[i], incidents'[i])
         /\ incidents'[i].state = incidents[i].state
  BY <1>1, <1>2, GrownOlder DEF SoundInv
<1>5. SoundInv' BY <1>3, <1>4 DEF SoundInv
<1>6. OpenInv' BY <1>2, <1>3, <1>4 DEF OpenInv, Kept
<1>7. QuietIncidents BY <1>1, <1>2, <1>4 DEF QuietIncidents, IncidentIds
<1>8. MissionsGrow BY <1>1, <1>2 DEF MissionsGrow
<1>9. ShapeInv'
  <2>1. /\ attempts' \subseteq AttemptRec
        /\ \A b \in attempts' : /\ b.incident \in 1 .. Len(incidents)
                                /\ b.mission \in 1 .. Len(missions)
    BY <1>2, TickedAttempts DEF ShapeInv, TypeOK
  <2>2. \A b \in attempts' : b.age \in 0 .. Window BY <2>1 DEF AttemptRec
  <2>3. TypeOK' BY <1>1, <1>2, <2>1, <2>2 DEF ShapeInv, TypeOK
  <2>. QED BY <1>1, <1>2, <1>3, <2>1, <2>3 DEF ShapeInv
<1>10. LinkInv' BY <1>2, <1>7, <1>8, QuietLinks DEF RecInv
<1>11. HoldInv'
  <2>1. ASSUME NEW v \in Workers PROVE Holds(v)'
    <3>1. call[v].pc = "plan" => missions'[call[v].mission].status = "CREATED"
      BY <1>1 DEF RecInv, HoldInv, Holds
    <3>. QED BY <1>2, <1>5, <1>7, <1>8, <3>1, QuietOthers
  <2>. QED BY <2>1 DEF HoldInv
<1>12. ApartInv' BY <1>2 DEF ApartInv, RecInv
<1>13. SustainedFailure'
  <2>1. SUFFICES ASSUME NEW m \in MissionIds
                 PROVE  incidents'[missions'[m].incident].opened >= FailingFor
    BY <1>3 DEF SustainedFailure, MissionIds
  <2>2. PICK i : i = missions[m].incident OBVIOUS
  <2>3. i \in IncidentIds /\ i = missions'[m].incident BY <1>1, <1>2, <2>2 DEF ShapeInv
  <2>4. incidents[i].opened >= FailingFor BY <2>2 DEF RecInv, SustainedFailure, MissionIds
  <2>. QED BY <1>4, <2>3, <2>4, StillLasting
<1>14. EscalationNotified'
  <2>1. \A i \in 1 .. Len(incidents') : incidents'[i].state = "ESCALATED" =>
            i \in IncidentIds /\ incidents[i].state = "ESCALATED"
    BY <1>1, <1>4 DEF IncidentIds
  <2>2. PICK w \in running : TRUE BY <1>2 DEF ShapeInv, TypeOK
  <2>3. /\ Moves(w) /\ notified \subseteq notified' /\ (crashes' = 0 => crashes = 0)
        /\ call[w].pc = "alarm" => call'[w] = call[w]
    BY <1>2 DEF Moves, ShapeInv
  <2>. QED BY <1>2, <2>1, <2>2, <2>3, NobodyEscalated
<1>. QED BY <1>5, <1>6, <1>9, <1>10, <1>11, <1>12, <1>13, <1>14 DEF RecInv

-----------------------------------------------------------------------------
(* The theorems for any number of workers                                  *)

LEMMA Started == Init => RecInv
<1>. SUFFICES ASSUME Init PROVE RecInv OBVIOUS
<1>1. /\ incidents = <<>> /\ missions = <<>> /\ attempts = {} /\ notified = {} /\ crashes = 0
      /\ IncidentIds = {} /\ MissionIds = {}
      /\ running \in (SUBSET Workers) \ {{}}
  BY DEF Init, IncidentIds, MissionIds
<1>2. MaxCrashes[Cardinality(running)] \in Nat BY <1>1, RecoveryLimits DEF RecoveryLimits
<1>3. \A w \in Workers : /\ call[w] = Idle /\ call[w] \in CallRec /\ call[w].pc = "idle"
                         /\ call[w].inc = 0 /\ call[w].mission = 0 /\ lastRun[w] = None
  BY IdleRecord DEF Init
<1>4. TypeOK BY <1>1, <1>2, <1>3 DEF TypeOK
<1>5. ShapeInv
  <2>1. call \in [Workers -> CallRec] /\ lastRun \in [Workers -> 0 .. Observation \cup {None}]
    BY IdleRecord DEF Init
  <2>. QED BY <1>1, <1>3, <1>4, <2>1 DEF ShapeInv
<1>6. SoundInv /\ OpenInv /\ LinkInv BY <1>1 DEF SoundInv, OpenInv, LinkInv
<1>7. HoldInv BY <1>3 DEF HoldInv, Holds, Deciding, Closing
<1>8. ApartInv BY <1>3 DEF ApartInv
<1>9. SustainedFailure /\ EscalationNotified BY <1>1 DEF SustainedFailure, EscalationNotified
<1>. QED BY <1>5, <1>6, <1>7, <1>8, <1>9 DEF RecInv

LEMMA Stuttered == ASSUME RecInv, UNCHANGED vars PROVE RecInv'
<1>1. QuietIncidents /\ SoundInv' /\ OpenInv' /\ IncidentIds' = IncidentIds
  BY SameIncidents DEF RecInv, vars
<1>2. MissionIds' = MissionIds BY DEF vars, MissionIds
<1>3. ShapeInv' BY <1>1, <1>2 DEF RecInv, ShapeInv, TypeOK, vars
<1>4. LinkInv' BY <1>1, <1>2 DEF RecInv, LinkInv, vars
<1>5. HoldInv' BY <1>1, <1>2 DEF RecInv, HoldInv, Holds, vars
<1>6. ApartInv' BY DEF RecInv, ApartInv, vars
<1>7. SustainedFailure' /\ EscalationNotified'
  BY DEF RecInv, SustainedFailure, EscalationNotified, At, vars
<1>. QED BY <1>1, <1>3, <1>4, <1>5, <1>6, <1>7 DEF RecInv

LEMMA OnlyRunning == ASSUME NEW w, Step(w) \/ Crash(w) PROVE w \in running
BY DEF Step, Crash, At, RunIfDue, CycleComponent, ResolveIfHealthy, ObserveFailureStep,
       UpdateDiagnostics, HandlePolicyEscalation, CreateRecoveryMission, MarkRecoveryPending, Allow,
       CreateMission, CreatePlan, AttachMission, ResolveVerified, Escalate, Notify, ExecuteMission,
       ExecuteOther, HandleExecutionResult, RecordAttempt, MarkVerifying

(* Every step of every worker keeps the tables consistent.                 *)
LEMMA Kept_RecInv == RecInv /\ [Next]_vars => RecInv'
<1>. SUFFICES ASSUME RecInv, [Next]_vars PROVE RecInv' OBVIOUS
<1>1. CASE UNCHANGED vars BY <1>1, Stuttered
<1>2. CASE Tick BY <1>2, TickStep
<1>3. ASSUME NEW w \in Workers, Step(w) PROVE RecInv'
  <2>1. w \in running BY <1>3, OnlyRunning
  <2>2. CASE RunIfDue(w) BY <2>1, <2>2, RunStep
  <2>3. CASE CycleComponent(w) BY <2>1, <2>3, CycleStep
  <2>4. CASE ResolveIfHealthy(w) BY <2>1, <2>4, HealStep
  <2>5. CASE ObserveFailureStep(w) BY <2>1, <2>5, ObserveStep
  <2>6. CASE UpdateDiagnostics(w) BY <2>1, <2>6, CaptureStep
  <2>7. CASE HandlePolicyEscalation(w) \/ CreateRecoveryMission(w) \/ Allow(w)
    BY <2>1, <2>7, PolicyStep
  <2>8. CASE MarkRecoveryPending(w) BY <2>1, <2>8, PendingStep
  <2>9. CASE CreateMission(w) BY <2>1, <2>9, CreateStep
  <2>10. CASE CreatePlan(w) BY <2>1, <2>10, PlanStep
  <2>11. CASE AttachMission(w) BY <2>1, <2>11, AttachStep
  <2>12. CASE ResolveVerified(w) \/ Escalate(w) BY <2>1, <2>12, VerifiedStep
  <2>13. CASE Notify(w) BY <2>1, <2>13, NotifyStep
  <2>14. CASE ExecuteMission(w) BY <2>1, <2>14, ExecuteStep
  <2>15. CASE ExecuteOther(w) BY <2>1, <2>15, OtherStep
  <2>16. CASE HandleExecutionResult(w) BY <2>1, <2>16, HandleStep
  <2>17. CASE RecordAttempt(w) BY <2>1, <2>17, RecordStep
  <2>18. CASE MarkVerifying(w) BY <2>1, <2>18, VerifyingStep
  <2>. QED
    BY <1>3, <2>2, <2>3, <2>4, <2>5, <2>6, <2>7, <2>8, <2>9, <2>10, <2>11, <2>12, <2>13, <2>14,
       <2>15, <2>16, <2>17, <2>18 DEF Step
<1>4. ASSUME NEW w \in Workers, Crash(w) PROVE RecInv'
  <2>1. w \in running BY <1>4, OnlyRunning
  <2>. QED BY <1>4, <2>1, CrashStep
<1>5. ASSUME NEW m \in DOMAIN missions, ResumeApproved(m) PROVE RecInv' BY <1>5, ResumeStep
<1>. QED BY <1>1, <1>2, <1>3, <1>4, <1>5 DEF Next

LEMMA Always_RecInv == Spec => []RecInv
<1>1. Init => RecInv BY Started
<1>2. RecInv /\ [Next]_vars => RecInv' BY Kept_RecInv
<1>. QED BY <1>1, <1>2, PTL DEF Spec

(* The tables, the workers' cursors and the counters stay in range.        *)
THEOREM RecoveryTypeCorrect == Spec => []TypeOK
<1>1. RecInv => TypeOK BY DEF RecInv, ShapeInv
<1>. QED BY <1>1, Always_RecInv, PTL

(* create_recovery_mission is only reached for a component that has failed *)
(* for failure_threshold - 1 intervals, whichever workers counted.         *)
THEOREM OnlySustainedFailures == Spec => []SustainedFailure
<1>1. RecInv => SustainedFailure BY DEF RecInv
<1>. QED BY <1>1, Always_RecInv, PTL

(* An incident is booked at most one real attempt: attach_mission gives it *)
(* one mission, and one worker executes that.                              *)
THEOREM BookedOnce == Spec => []OneAttemptPerIncident
<1>1. RecInv => OneAttemptPerIncident
  BY DEF RecInv, SoundInv, Sound, OneAttemptPerIncident, IncidentIds
<1>. QED BY <1>1, Always_RecInv, PTL

(* While no worker has been stopped, whoever escalates an incident also    *)
(* sends its critical notification.                                        *)
THEOREM EscalationsAreHeard == Spec => []EscalationNotified
<1>1. RecInv => EscalationNotified BY DEF RecInv
<1>. QED BY <1>1, Always_RecInv, PTL

-----------------------------------------------------------------------------
(* One worker: the steps of w when only w takes steps                      *)

\* A terminal incident keeps its state.
Final == \A i \in IncidentIds : ~incidents[i].active => incidents'[i].state = incidents[i].state

StaysVerifying == \A i \in IncidentIds :
    incidents[i].state = "VERIFYING" /\ incidents'[i].active => incidents'[i].state = "VERIFYING"

LEMMA SoleQuiet ==
    ASSUME RecInv, NEW w \in Workers, SoleInv(w), QuietIncidents, StaysVerifying,
           UNCHANGED <<attempts, missions>>, crashes' = 0 => crashes = 0, SoleHolds(w)',
           crashes' = 0 /\ call[w].pc \in {"handle", "record"} =>
              \/ call'[w].pc \in {"handle", "record"} /\ call'[w].mission = call[w].mission
              \/ missions[call[w].mission].ran = None \/ missions[call[w].mission].unseen,
           crashes' = 0 /\ call[w].pc \in {"handle", "record", "verifying", "escalate"} =>
              \/ /\ call'[w].pc \in {"handle", "record", "verifying", "escalate"}
                 /\ call'[w].mission = call[w].mission
              \/ \A i \in IncidentIds :
                    /\ incidents'[i].active /\ incidents[i].mission # 0
                    /\ incidents[i].mission = call[w].mission
                    => incidents'[i].state = "VERIFYING"
    PROVE  SoleInv(w)'
<1>1. /\ ShapeInv /\ SoleHolds(w) /\ BudgetInv /\ RanInv /\ AccountInv(w) /\ WaitInv(w)
      /\ MissionIds' = MissionIds
  BY SameMissions DEF RecInv, SoleInv
<1>2. \A i \in IncidentIds : Kept(incidents[i], incidents'[i]) BY DEF QuietIncidents
<1>3. \A i \in IncidentIds' : incidents'[i].mission # 0 => i \in IncidentIds
  BY DEF QuietIncidents, IncidentIds
<1>4. BudgetInv'
  <2>1. \A c : RealAttempts(c)' = RealAttempts(c) BY DEF RealAttempts
  <2>2. ASSUME NEW i \in IncidentIds', incidents'[i].active, incidents'[i].mission # 0,
               incidents'[i].real = 0
        PROVE  Cardinality(RealAttempts(incidents'[i].component)) < Budget
    <3>1. /\ i \in IncidentIds /\ incidents[i].active /\ incidents[i].mission # 0
          /\ incidents[i].real = 0 /\ incidents'[i].component = incidents[i].component
      BY <1>2, <1>3, <2>2 DEF Kept
    <3>. QED BY <1>1, <3>1 DEF BudgetInv
  <2>. QED BY <1>1, <2>1, <2>2 DEF BudgetInv
<1>5. RanInv' BY <1>1 DEF RanInv
<1>6. AccountInv(w)'
  <2>1. SUFFICES ASSUME crashes' = 0, NEW m \in MissionIds, missions[m].ran # None,
                        ~missions[m].unseen
                 PROVE  incidents'[missions[m].incident].real = 1 \/ Booking(w, m)'
    BY <1>1 DEF AccountInv
  <2>2. missions[m].incident \in IncidentIds BY <1>1 DEF ShapeInv
  <2>3. incidents[missions[m].incident].real = 1 \/ Booking(w, m) BY <1>1, <2>1 DEF AccountInv
  <2>4. CASE incidents[missions[m].incident].real = 1 BY <1>2, <2>2, <2>4 DEF Kept
  <2>5. CASE Booking(w, m) BY <2>1, <2>5 DEF Booking
  <2>. QED BY <2>3, <2>4, <2>5
<1>7. WaitInv(w)'
  <2>1. SUFFICES ASSUME crashes' = 0, NEW i \in IncidentIds', incidents'[i].active,
                        incidents'[i].mission # 0
                 PROVE  \/ missions[incidents'[i].mission].status = "PLANNED"
                        \/ incidents'[i].state = "VERIFYING"
                        \/ Telling(w, incidents[i].mission)'
    <3>1. SUFFICES ASSUME crashes' = 0, NEW i \in IncidentIds', incidents'[i].active,
                          incidents'[i].mission # 0
                   PROVE  \/ missions'[incidents'[i].mission].status = "PLANNED"
                          \/ incidents'[i].state = "VERIFYING"
                          \/ Telling(w, incidents[i].mission)'
      BY DEF WaitInv
    <3>. QED BY <3>1
  <2>2. /\ i \in IncidentIds /\ incidents[i].active /\ incidents'[i].mission = incidents[i].mission
    BY <1>2, <1>3, <2>1 DEF Kept
  <2>3. \/ missions[incidents[i].mission].status = "PLANNED"
        \/ incidents[i].state = "VERIFYING"
        \/ Telling(w, incidents[i].mission)
    BY <1>1, <2>1, <2>2 DEF WaitInv
  <2>4. CASE incidents[i].state = "VERIFYING" BY <2>1, <2>2, <2>4 DEF StaysVerifying
  <2>5. CASE Telling(w, incidents[i].mission) BY <2>1, <2>2, <2>5 DEF Telling
  <2>. QED BY <2>2, <2>3, <2>4, <2>5
<1>. QED BY <1>4, <1>5, <1>6, <1>7 DEF SoleInv

(* A step that only moves w, away from no mission's outcome.               *)
LEMMA SoleCall ==
    ASSUME RecInv, NEW w \in running, SoleInv(w), UNCHANGED Rest, SoleHolds(w)',
           call[w].pc \notin {"handle", "record", "verifying", "escalate"}
    PROVE  SoleInv(w)' /\ Final
<1>1. /\ w \in Workers /\ QuietIncidents
  BY Around, SameIncidents DEF Rest
<1>2. /\ UNCHANGED <<attempts, missions>> /\ (crashes' = 0 => crashes = 0)
      /\ StaysVerifying /\ Final
  BY DEF Rest, StaysVerifying, Final
<1>. QED BY <1>1, <1>2, SoleQuiet

LEMMA LooseSole ==
    ASSUME NEW w, call'[w].pc \in {"idle", "cycle", "execute", "heal", "observe", "alarm"},
           call'[w].pc = "alarm" \/ call'[w].mission = 0
    PROVE  SoleHolds(w)'
BY DEF SoleHolds, Deciding, Closing

LEMMA SoleRun ==
    ASSUME RecInv, NEW w \in running, SoleInv(w), RunIfDue(w)
    PROVE  SoleInv(w)' /\ Final
<1>1. /\ call[w].pc = "idle" /\ w \in Workers /\ ShapeInv /\ call[w].mission = 0
      /\ UNCHANGED <<running, incidents, attempts, missions, notified, crashes>>
  BY Around DEF RunIfDue, At, SoleInv, SoleHolds
<1>2. call'[w].pc \in {"execute", "observe", "cycle"} /\ call'[w].mission = 0
  <2>1. CASE Go(w, "execute")
    <3>1. "execute" \in Labels BY DEF Labels
    <3>. QED BY <1>1, <2>1, <3>1, GoTo
  <2>2. CASE \E s \in SettingsSet, snap \in Snapshots :
                call' = [call EXCEPT ![w] =
                    [Idle EXCEPT !.snap = snap,
                        !.pc = IF StorageCritical(snap) THEN "observe" ELSE "cycle",
                        !.todo = IF StorageCritical(snap) THEN <<"app">> ELSE ComponentOrder,
                        !.ret = "cycle", !.observe_only = s.observe_only]]
    <3>1. PICK s \in SettingsSet, snap \in Snapshots :
                call' = [call EXCEPT ![w] =
                    [Idle EXCEPT !.snap = snap,
                        !.pc = IF StorageCritical(snap) THEN "observe" ELSE "cycle",
                        !.todo = IF StorageCritical(snap) THEN <<"app">> ELSE ComponentOrder,
                        !.ret = "cycle", !.observe_only = s.observe_only]]
      BY <2>2
    <3>2. PICK pc, todo :
            /\ pc = IF StorageCritical(snap) THEN "observe" ELSE "cycle"
            /\ todo = IF StorageCritical(snap) THEN <<"app">> ELSE ComponentOrder
      OBVIOUS
    <3>3. PICK k : k = [Idle EXCEPT !.snap = snap, !.pc = pc, !.todo = todo, !.ret = "cycle",
                                    !.observe_only = s.observe_only]
      OBVIOUS
    <3>4. k.pc = pc /\ k.mission = 0 BY <3>3 DEF Idle
    <3>5. call'[w] = k BY <1>1, <3>1, <3>2, <3>3 DEF ShapeInv
    <3>. QED BY <3>2, <3>4, <3>5
  <2>. QED BY <2>1, <2>2 DEF RunIfDue
<1>3. SoleHolds(w)' BY <1>2, LooseSole
<1>4. QuietIncidents BY <1>1, SameIncidents DEF RecInv
<1>5. StaysVerifying /\ Final BY <1>1 DEF StaysVerifying, Final
<1>. QED BY <1>1, <1>3, <1>4, <1>5, SoleQuiet

LEMMA SoleContinue ==
    ASSUME RecInv, NEW w \in running, SoleInv(w), Continue(w), UNCHANGED Rest,
           call[w].todo # <<>>, call[w].pc \notin {"handle", "record", "verifying", "escalate"}
    PROVE  SoleInv(w)' /\ Final
<1>1. call'[w].pc = "cycle" /\ call'[w].mission = 0 BY Around, ContinueFree
<1>2. SoleHolds(w)' BY <1>1, LooseSole
<1>. QED BY <1>2, SoleCall

LEMMA SoleCycle ==
    ASSUME RecInv, NEW w \in running, SoleInv(w), CycleComponent(w)
    PROVE  SoleInv(w)' /\ Final
<1>1. /\ call[w].pc = "cycle" /\ UNCHANGED Rest /\ w \in Workers /\ ShapeInv
      /\ call[w].mission = 0
  BY Around DEF CycleComponent, At, Rest, SoleInv, SoleHolds
<1>2. ASSUME NEW pc \in {"execute", "heal", "observe"}, Go(w, pc) PROVE SoleInv(w)' /\ Final
  <2>1. pc \in Labels BY DEF Labels
  <2>2. call'[w].pc = pc /\ call'[w].mission = 0 BY <1>1, <1>2, <2>1, GoTo
  <2>3. SoleHolds(w)' BY <2>2, LooseSole
  <2>. QED BY <1>1, <2>3, SoleCall
<1>3. PICK i : i = ActiveIncident(Head(call[w].todo)) OBVIOUS
<1>4. ASSUME i # 0, NEW pc \in {"resolve", "escalate"}, Take(w, i, pc) PROVE SoleInv(w)' /\ Final
  <2>1. i \in Nat /\ incidents[i].active
    BY <1>1, <1>3, <1>4, ActiveFound, Lengths DEF IncidentIds
  <2>2. pc \in Labels BY DEF Labels, Closing
  <2>3. call'[w].pc = pc /\ call'[w].inc = i /\ call'[w].mission = 0
    BY <1>1, <1>4, <2>1, <2>2, TakeUp
  <2>4. incidents' = incidents BY <1>1 DEF Rest
  <2>5. SoleHolds(w)' BY <1>4, <2>1, <2>3, <2>4 DEF SoleHolds, Deciding, Closing
  <2>. QED BY <1>1, <2>5, SoleCall
<1>5. \/ call[w].todo = <<>> /\ Go(w, "execute")
      \/ i # 0 /\ \E pc \in {"resolve", "escalate"} : Take(w, i, pc)
      \/ call[w].todo # <<>> /\ Continue(w)
      \/ Go(w, "heal") \/ Go(w, "observe")
  BY <1>3 DEF CycleComponent, Take
<1>. QED BY <1>1, <1>2, <1>4, <1>5, SoleContinue

LEMMA SolePolicy ==
    ASSUME RecInv, NEW w \in running, SoleInv(w),
           HandlePolicyEscalation(w) \/ CreateRecoveryMission(w) \/ Allow(w)
    PROVE  SoleInv(w)' /\ Final
<1>1. call[w].pc \in {"policy", "consider", "allow"} /\ UNCHANGED Rest
  BY DEF HandlePolicyEscalation, CreateRecoveryMission, Allow, At, Rest
<1>2. /\ w \in Workers /\ ShapeInv /\ call[w].todo # <<>> /\ incidents[call[w].inc].active
      /\ call[w].mission = 0 /\ call[w].inc \in IncidentIds
  BY <1>1, Around DEF Holds, Deciding, SoleInv, SoleHolds
<1>3. \/ Continue(w)
      \/ \E pc \in {"escalate", "consider", "pending"} : Go(w, pc)
      \/ Go(w, "create") /\ CanRecover(call[w].inc) = "allowed"
  BY DEF HandlePolicyEscalation, CreateRecoveryMission, Allow
<1>4. ASSUME NEW pc \in {"escalate", "consider", "pending", "create"}, Go(w, pc),
             pc = "create" => CanRecover(call[w].inc) = "allowed"
      PROVE  SoleInv(w)' /\ Final
  <2>1. pc \in Labels BY DEF Labels, Deciding, Closing
  <2>2. call'[w].pc = pc /\ call'[w].mission = 0 /\ call'[w].inc = call[w].inc
    BY <1>2, <1>4, <2>1, GoTo
  <2>3. incidents' = incidents /\ attempts' = attempts BY <1>1 DEF Rest
  <2>4. PICK c : c = incidents[call[w].inc].component OBVIOUS
  <2>5. pc = "create" => Cardinality(RealAttempts(c)) < Budget
    <3>1. SUFFICES ASSUME CanRecover(call[w].inc) = "allowed"
                   PROVE  Cardinality(RealAttempts(c)) < Budget
      BY <1>4
    <3>2. ~(Cardinality(RealAttempts(c)) >= Budget) BY <2>4, <3>1 DEF CanRecover
    <3>3. Cardinality(RealAttempts(c)) \in Nat
      <4>1. IsFiniteSet(attempts) BY DEF SoleInv, BudgetInv
      <4>2. RealAttempts(c) \subseteq attempts BY DEF RealAttempts
      <4>. QED BY <4>1, <4>2, FS_Subset, FS_CardinalityType
    <3>. QED BY <3>2, <3>3
  <2>6. RealAttempts(c)' = RealAttempts(c) BY <2>3 DEF RealAttempts
  <2>7. SoleHolds(w)'
    BY <1>2, <1>4, <2>2, <2>3, <2>4, <2>5, <2>6 DEF SoleHolds, Deciding, Closing
  <2>. QED BY <1>1, <2>7, SoleCall
<1>. QED BY <1>1, <1>2, <1>3, <1>4, SoleContinue

LEMMA SoleOther ==
    ASSUME RecInv, NEW w \in running, SoleInv(w), ExecuteOther(w)
    PROVE  SoleInv(w)' /\ Final
<1>1. call[w].pc = "execute" /\ UNCHANGED Rest BY DEF ExecuteOther, At, Rest
<1>2. call'[w].pc = "idle" /\ call'[w].mission = 0 BY Around, IdleFree DEF ExecuteOther
<1>3. SoleHolds(w)' BY <1>2, LooseSole
<1>. QED BY <1>1, <1>3, SoleCall

LEMMA SoleCrash ==
    ASSUME RecInv, NEW w \in running, SoleInv(w), Crash(w)
    PROVE  SoleInv(w)' /\ Final
<1>1. /\ w \in Workers /\ ShapeInv /\ crashes' # 0
      /\ UNCHANGED <<running, incidents, attempts, missions, notified>>
  BY Around DEF Crash
<1>2. call'[w].pc = "idle" /\ call'[w].mission = 0 BY ExitFrees DEF Crash
<1>3. SoleHolds(w)' BY <1>2, LooseSole
<1>4. QuietIncidents BY <1>1, SameIncidents DEF RecInv
<1>5. StaysVerifying /\ Final BY <1>1 DEF StaysVerifying, Final
<1>. QED BY <1>1, <1>3, <1>4, <1>5, SoleQuiet

LEMMA SoleHandle ==
    ASSUME RecInv, NEW w \in running, SoleInv(w), HandleExecutionResult(w)
    PROVE  SoleInv(w)' /\ Final
<1>1. /\ call[w].pc = "handle" /\ UNCHANGED Rest /\ w \in Workers /\ ShapeInv /\ SoleHolds(w)
      /\ call[w].mission \in MissionIds
  BY Around DEF HandleExecutionResult, At, Rest, SoleInv, Holds
<1>2. QuietIncidents /\ StaysVerifying /\ Final /\ UNCHANGED <<attempts, missions>>
      /\ (crashes' = 0 => crashes = 0)
  <2>1. UNCHANGED incidents BY <1>1 DEF Rest
  <2>2. QuietIncidents BY <1>1, <2>1, SameIncidents DEF RecInv
  <2>. QED BY <1>1, <2>2 DEF StaysVerifying, Final, Rest
<1>3. PICK i : i = IncidentForMission(call[w].mission) OBVIOUS
<1>4. CASE i = 0
  <2>1. call' = [call EXCEPT ![w] = Idle] BY <1>3, <1>4 DEF HandleExecutionResult
  <2>2. SoleHolds(w)'
    <3>1. call'[w].pc = "idle" /\ call'[w].mission = 0 BY <1>1, <2>1, IdleFree
    <3>. QED BY <3>1, LooseSole
  <2>3. \A j \in IncidentIds : ~(incidents[j].active /\ incidents[j].mission = call[w].mission)
    BY <1>3, <1>4, MissionFound
  <2>4. missions[call[w].mission].unseen BY <1>1, <2>3 DEF SoleHolds
  <2>5. \A j \in IncidentIds :
          ~(incidents'[j].active /\ incidents[j].mission = call[w].mission)
    BY <1>1, <2>3 DEF Rest
  <2>. QED BY <1>1, <1>2, <2>2, <2>4, <2>5, SoleQuiet
<1>5. CASE i # 0
  <2>1. PICK pc \in {"escalate", "record"} :
          /\ Take(w, i, pc)
          /\ pc = "escalate" => call[w].outcome \in {"BLOCKED", "WAITING_APPROVAL"}
    BY <1>3, <1>5 DEF HandleExecutionResult, Take
  <2>2. /\ i \in IncidentIds /\ i \in Nat /\ incidents[i].active
        /\ incidents[i].mission = call[w].mission
    BY <1>1, <1>3, <1>5, MissionFound, Lengths DEF IncidentIds
  <2>3. pc \in Labels BY DEF Labels, Closing
  <2>4. /\ call'[w].pc = pc /\ call'[w].inc = i /\ call'[w].mission = call[w].mission
        /\ call'[w].outcome = call[w].outcome
    BY <1>1, <2>1, <2>2, <2>3, TakeUp
  <2>5. incidents' = incidents /\ missions' = missions BY <1>1 DEF Rest
  <2>6. /\ missions[call[w].mission].ran # None /\ ~missions[call[w].mission].unseen
        => call[w].outcome \in {"EXECUTED", "FAILED"}
    BY <1>1 DEF SoleHolds
  <2>7. SoleHolds(w)' BY <2>1, <2>2, <2>4, <2>5, <2>6 DEF SoleHolds, Deciding, Closing
  <2>8. \/ call'[w].pc \in {"handle", "record"} /\ call'[w].mission = call[w].mission
        \/ missions[call[w].mission].ran = None \/ missions[call[w].mission].unseen
    BY <2>1, <2>4, <2>6
  <2>9. /\ call'[w].pc \in {"handle", "record", "verifying", "escalate"}
        /\ call'[w].mission = call[w].mission
    BY <2>1, <2>4
  <2>. QED BY <1>1, <1>2, <2>7, <2>8, <2>9, SoleQuiet
<1>. QED BY <1>4, <1>5

(* A mission belongs to one incident.                                      *)
LEMMA OneOwner ==
    ASSUME RecInv, NEW i \in IncidentIds, NEW j \in IncidentIds, incidents[i].mission # 0,
           incidents[j].mission = incidents[i].mission
    PROVE  i = j
BY DEF RecInv, LinkInv

(* An open incident is written.                                            *)
LEMMA SoleIncident ==
    ASSUME RecInv, NEW w \in running, SoleInv(w), NEW i \in IncidentIds, incidents[i].active,
           NEW new, Sound(new), Kept(incidents[i], new), incidents' = [incidents EXCEPT ![i] = new],
           UNCHANGED <<attempts, missions, crashes>>, SoleHolds(w)',
           call[w].pc \notin {"handle", "record"},
           call[w].pc \in {"verifying", "escalate"} =>
              i = call[w].inc /\ (new.state = "VERIFYING" \/ ~new.active),
           incidents[i].state = "VERIFYING" /\ new.active => new.state = "VERIFYING"
    PROVE  SoleInv(w)' /\ Final
<1>1. /\ w \in Workers /\ ShapeInv /\ SoundInv /\ OpenInv
      /\ new.component = incidents[i].component /\ (new.active => incidents[i].active)
  BY Around DEF Kept
<1>2. /\ QuietIncidents /\ incidents'[i] = new
      /\ \A j \in IncidentIds \ {i} : incidents'[j] = incidents[j]
  BY <1>1, OneIncident
<1>3. StaysVerifying /\ Final BY <1>2 DEF StaysVerifying, Final
<1>4. ASSUME call[w].pc \in {"verifying", "escalate"}, NEW j \in IncidentIds,
             incidents'[j].active, incidents[j].mission # 0, incidents[j].mission = call[w].mission
      PROVE  incidents'[j].state = "VERIFYING"
  <2>1. incidents[i].mission = call[w].mission BY <1>4 DEF SoleInv, SoleHolds
  <2>2. j = i BY <1>4, <2>1, OneOwner
  <2>. QED BY <1>2, <1>4, <2>2
<1>5. UNCHANGED <<attempts, missions>> /\ (crashes' = 0 => crashes = 0) OBVIOUS
<1>. QED BY <1>1, <1>2, <1>3, <1>4, <1>5, SoleQuiet

LEMMA SoleHeal ==
    ASSUME RecInv, NEW w \in running, SoleInv(w), ResolveIfHealthy(w)
    PROVE  SoleInv(w)' /\ Final
<1>1. /\ call[w].pc = "heal" /\ Continue(w) /\ UNCHANGED <<attempts, missions, crashes>>
      /\ UNCHANGED <<running, notified, lastRun>>
  BY DEF ResolveIfHealthy, At
<1>2. w \in Workers /\ ShapeInv /\ SoundInv /\ call[w].todo # <<>>
  BY <1>1, Around DEF Holds
<1>3. PICK i : i = ActiveIncident(Head(call[w].todo)) OBVIOUS
<1>4. CASE i = 0
  <2>1. UNCHANGED Rest BY <1>1, <1>3, <1>4 DEF ResolveIfHealthy, Rest
  <2>. QED BY <1>1, <1>2, <2>1, SoleContinue
<1>5. CASE i # 0
  <2>1. i \in IncidentIds /\ incidents[i].active BY <1>3, <1>5, ActiveFound
  <2>2. PICK new : new = Resolved(incidents[i]) OBVIOUS
  <2>3. incidents' = [incidents EXCEPT ![i] = new]
    BY <1>3, <1>5, <2>2 DEF ResolveIfHealthy
  <2>4. Sound(new) /\ Kept(incidents[i], new) /\ ~new.active
    BY <1>2, <2>1, <2>2, Closed DEF SoundInv
  <2>5. call'[w].pc = "cycle" /\ call'[w].mission = 0 BY <1>1, <1>2, ContinueFree
  <2>6. SoleHolds(w)' BY <2>5, LooseSole
  <2>. QED BY <1>1, <2>1, <2>3, <2>4, <2>6, SoleIncident
<1>. QED BY <1>4, <1>5

(* The incident in hand is written by update_diagnostics or                *)
(* mark_recovery_pending, and stays in hand.                               *)
LEMMA SoleInHand ==
    ASSUME RecInv, NEW w \in running, SoleInv(w), call[w].pc \in {"capture", "pending"},
           NEW pc \in {"policy", "allow"}, Go(w, pc), NEW new, Sound(new),
           Kept(incidents[call[w].inc], new), new.active,
           incidents[call[w].inc].state = "VERIFYING" => new.state = "VERIFYING",
           incidents' = [incidents EXCEPT ![call[w].inc] = new],
           UNCHANGED <<attempts, missions, crashes>>
    PROVE  SoleInv(w)' /\ Final
<1>1. /\ w \in Workers /\ ShapeInv /\ call[w].inc \in IncidentIds /\ call[w].mission = 0
      /\ incidents[call[w].inc].active /\ incidents \in Seq(Incident)
  BY Around DEF Holds, Deciding, SoleInv, SoleHolds
<1>2. pc \in Labels BY DEF Labels, Deciding
<1>3. call'[w].pc = pc /\ call'[w].inc = call[w].inc /\ call'[w].mission = 0
  BY <1>1, <1>2, GoTo
<1>4. incidents'[call[w].inc] = new BY <1>1 DEF IncidentIds
<1>5. SoleHolds(w)' BY <1>3, <1>4 DEF SoleHolds, Deciding, Closing
<1>. QED BY <1>1, <1>5, SoleIncident

LEMMA SoleMark ==
    ASSUME RecInv, NEW w \in running, SoleInv(w), UpdateDiagnostics(w) \/ MarkRecoveryPending(w)
    PROVE  SoleInv(w)' /\ Final
<1>1. /\ call[w].pc \in {"capture", "pending"} /\ UNCHANGED <<attempts, missions, crashes>>
      /\ UNCHANGED <<running, notified>>
  BY DEF UpdateDiagnostics, MarkRecoveryPending, At
<1>2. /\ w \in Workers /\ ShapeInv /\ SoundInv /\ call[w].inc \in IncidentIds
      /\ incidents[call[w].inc].active /\ incidents \in Seq(Incident)
  BY <1>1, Around DEF Holds, Deciding, SoleInv, SoleHolds
<1>3. CASE UpdateDiagnostics(w)
  <2>1. PICK new : new = [incidents[call[w].inc] EXCEPT !.observed = 0] OBVIOUS
  <2>2. incidents' = [incidents EXCEPT ![call[w].inc] = new] /\ Go(w, "policy")
    BY <1>2, <1>3, <2>1 DEF UpdateDiagnostics
  <2>3. /\ Sound(new) /\ Kept(incidents[call[w].inc], new)
        /\ new.active = incidents[call[w].inc].active
        /\ new.state = incidents[call[w].inc].state
    BY <1>2, <2>1, Marked DEF SoundInv, RecoveryIncidentState
  <2>4. new.active BY <1>2, <2>3
  <2>. QED BY <1>1, <2>2, <2>3, <2>4, SoleInHand
<1>4. CASE MarkRecoveryPending(w) /\ incidents[call[w].inc].state \in PendingStates
  <2>1. PICK new : new = [incidents[call[w].inc] EXCEPT !.state = "RECOVERY_PENDING", !.observed = 0]
    OBVIOUS
  <2>2. incidents' = [incidents EXCEPT ![call[w].inc] = new] /\ Go(w, "allow")
    BY <1>2, <1>4, <2>1 DEF MarkRecoveryPending
  <2>3. Sound(new) /\ Kept(incidents[call[w].inc], new)
    BY <1>2, <2>1, Marked DEF SoundInv, RecoveryIncidentState
  <2>4. new.active /\ incidents[call[w].inc].state # "VERIFYING"
    <3>1. incidents[call[w].inc] \in Incident BY <1>2, Lengths
    <3>2. new.active = incidents[call[w].inc].active BY <2>1, <3>1 DEF Incident
    <3>. QED BY <1>2, <1>4, <3>2 DEF PendingStates
  <2>. QED BY <1>1, <2>2, <2>3, <2>4, SoleInHand
<1>5. CASE MarkRecoveryPending(w) /\ incidents[call[w].inc].state \notin PendingStates
  <2>1. Exit(w) /\ UNCHANGED incidents BY <1>5 DEF MarkRecoveryPending
  <2>2. call'[w].pc = "idle" /\ call'[w].mission = 0 BY <2>1, ExitFrees
  <2>3. SoleHolds(w)' BY <2>2, LooseSole
  <2>4. QuietIncidents BY <1>2, <2>1, SameIncidents DEF RecInv
  <2>5. StaysVerifying /\ Final BY <2>1 DEF StaysVerifying, Final
  <2>. QED BY <1>1, <1>2, <2>3, <2>4, <2>5, SoleQuiet
<1>. QED BY <1>3, <1>4, <1>5

LEMMA SoleVerified ==
    ASSUME RecInv, NEW w \in running, SoleInv(w), ResolveVerified(w) \/ Escalate(w)
    PROVE  SoleInv(w)' /\ Final
<1>1. /\ call[w].pc \in {"resolve", "escalate"} /\ UNCHANGED <<attempts, missions, crashes>>
  BY DEF ResolveVerified, Escalate, At
<1>2. /\ w \in Workers /\ ShapeInv /\ SoundInv /\ call[w].inc \in IncidentIds
      /\ incidents[call[w].inc].active /\ (call[w].pc = "resolve" => call[w].mission = 0)
  BY <1>1, Around DEF Holds, Closing, SoleInv, SoleHolds
<1>3. PICK done, gone : /\ done = Resolved(incidents[call[w].inc])
                        /\ gone = Escalated(incidents[call[w].inc])
  OBVIOUS
<1>4. /\ Sound(done) /\ Kept(incidents[call[w].inc], done) /\ ~done.active
      /\ Sound(gone) /\ Kept(incidents[call[w].inc], gone) /\ ~gone.active
  BY <1>2, <1>3, Closed DEF SoundInv
<1>5. CASE ResolveVerified(w)
  <2>1. incidents' = [incidents EXCEPT ![call[w].inc] = done] /\ Go(w, "inform")
        /\ call[w].pc = "resolve"
    BY <1>3, <1>5 DEF ResolveVerified, At
  <2>2. "inform" \in Labels BY DEF Labels, Closing
  <2>3. call'[w].pc = "inform" /\ call'[w].mission = 0 BY <1>2, <2>1, <2>2, GoTo
  <2>4. SoleHolds(w)' BY <2>3 DEF SoleHolds, Deciding, Closing
  <2>. QED BY <1>1, <1>2, <1>4, <2>1, <2>4, SoleIncident
<1>6. CASE Escalate(w)
  <2>1. incidents' = [incidents EXCEPT ![call[w].inc] = gone] /\ Go(w, "alarm")
    BY <1>3, <1>6 DEF Escalate
  <2>2. "alarm" \in Labels BY DEF Labels, Closing
  <2>3. call'[w].pc = "alarm" BY <1>2, <2>1, <2>2, GoTo
  <2>4. SoleHolds(w)' BY <2>3, LooseSole
  <2>. QED BY <1>1, <1>2, <1>4, <2>1, <2>4, SoleIncident
<1>. QED BY <1>5, <1>6

LEMMA SoleVerifying ==
    ASSUME RecInv, NEW w \in running, SoleInv(w), MarkVerifying(w)
    PROVE  SoleInv(w)' /\ Final
<1>1. call[w].pc = "verifying" /\ UNCHANGED <<attempts, missions, crashes>>
  BY DEF MarkVerifying, At
<1>2. /\ w \in Workers /\ ShapeInv /\ SoundInv /\ call[w].inc \in IncidentIds
      /\ incidents[call[w].inc].active /\ incidents \in Seq(Incident)
  BY <1>1, Around DEF Holds, Closing, SoleInv, SoleHolds
<1>3. PICK new : new = [incidents[call[w].inc] EXCEPT !.state = "VERIFYING", !.observed = 0]
  OBVIOUS
<1>4. /\ incidents' = [incidents EXCEPT ![call[w].inc] = new]
      /\ call' = [call EXCEPT ![w] = Idle]
  BY <1>2, <1>3 DEF MarkVerifying
<1>5. Sound(new) /\ Kept(incidents[call[w].inc], new) /\ new.state = "VERIFYING"
  BY <1>2, <1>3, Marked DEF SoundInv, RecoveryIncidentState
<1>6. call'[w].pc = "idle" /\ call'[w].mission = 0 BY <1>2, <1>4, IdleFree
<1>7. SoleHolds(w)' BY <1>6, LooseSole
<1>. QED BY <1>1, <1>2, <1>4, <1>5, <1>7, SoleIncident

LEMMA SoleNotify ==
    ASSUME RecInv, NEW w \in running, SoleInv(w), Notify(w)
    PROVE  SoleInv(w)' /\ Final
<1>1. /\ call[w].pc \in {"inform", "alarm"}
      /\ UNCHANGED <<running, incidents, attempts, missions, lastRun, crashes>>
  BY DEF Notify, At
<1>2. /\ w \in Workers /\ ShapeInv /\ (call[w].ret = "cycle" => call[w].todo # <<>>)
  BY <1>1, Around DEF Holds
<1>3. call'[w].pc \in {"cycle", "idle"} /\ call'[w].mission = 0
  <2>1. CASE call[w].ret = "cycle" BY <1>2, <2>1, ContinueFree DEF Notify
  <2>2. CASE call[w].ret # "cycle" BY <1>2, <2>2, IdleFree DEF Notify
  <2>. QED BY <2>1, <2>2
<1>4. SoleHolds(w)' BY <1>3, LooseSole
<1>5. QuietIncidents BY <1>1, <1>2, SameIncidents DEF RecInv
<1>6. StaysVerifying /\ Final BY <1>1 DEF StaysVerifying, Final
<1>. QED BY <1>1, <1>2, <1>4, <1>5, <1>6, SoleQuiet

LEMMA SoleObserve ==
    ASSUME RecInv, NEW w \in running, SoleInv(w), ObserveFailureStep(w)
    PROVE  SoleInv(w)' /\ Final
<1>1. /\ call[w].pc = "observe" /\ UNCHANGED <<attempts, missions, crashes>>
  BY DEF ObserveFailureStep, At
<1>2. /\ w \in Workers /\ ShapeInv /\ SoundInv /\ call[w].todo # <<>>
      /\ Len(incidents) \in Nat /\ call[w].mission = 0 /\ incidents \in Seq(Incident)
  BY <1>1, Around DEF Holds, SoleInv, SoleHolds
<1>3. PICK c : c = Head(call[w].todo) OBVIOUS
<1>4. c \in Components
  <2>1. call[w].todo \in Seq(Components) BY Around DEF CallRec
  <2>. QED BY <1>2, <1>3, <2>1, Parts
<1>5. CASE ActiveIncident(c) = 0
  <2>1. incidents' = Append(incidents, NewIncident(c))
    BY <1>3, <1>5 DEF ObserveFailureStep, ObserveFailure
  <2>2. /\ QuietIncidents /\ incidents'[Len(incidents) + 1] = NewIncident(c)
        /\ \A i \in IncidentIds : incidents'[i] = incidents[i]
    BY <1>4, <1>5, <2>1, ActiveFound, Opened
  <2>3. incidents'[Len(incidents) + 1].fails < Threshold BY <2>2 DEF NewIncident
  <2>4. Continue(w) BY <1>3, <1>5, <2>3 DEF ObserveFailureStep
  <2>5. call'[w].pc = "cycle" /\ call'[w].mission = 0 BY <1>2, <2>4, ContinueFree
  <2>6. SoleHolds(w)' BY <2>5, LooseSole
  <2>7. StaysVerifying /\ Final BY <2>2 DEF StaysVerifying, Final
  <2>. QED BY <1>1, <1>2, <2>2, <2>6, <2>7, SoleQuiet
<1>6. CASE ActiveIncident(c) # 0
  <2>1. PICK i : i = ActiveIncident(c) OBVIOUS
  <2>2. i \in IncidentIds /\ i \in Nat /\ incidents[i].active
    BY <1>2, <1>6, <2>1, ActiveFound DEF IncidentIds
  <2>3. PICK new : new = incidents'[i] OBVIOUS
  <2>4. /\ Sound(new) /\ Kept(incidents[i], new) /\ incidents' = [incidents EXCEPT ![i] = new]
        /\ new.active /\ (incidents[i].state = "VERIFYING" => new.state = "VERIFYING")
    <3>1. Sound(incidents[i]) BY <1>2, <2>2 DEF SoundInv
    <3>2. CASE TooSoon(i)
      <4>1. incidents' = incidents
        BY <1>3, <1>6, <2>1, <3>2 DEF ObserveFailureStep, ObserveFailure
      <4>2. Kept(incidents[i], incidents[i]) BY <1>2, <2>2, OpenedNat DEF Kept
      <4>. QED BY <1>2, <2>2, <2>3, <3>1, <4>1, <4>2 DEF IncidentIds
    <3>3. CASE ~TooSoon(i)
      <4>1. incidents' = [incidents EXCEPT ![i] = Refailed(incidents[i])]
        BY <1>3, <1>6, <2>1, <3>3 DEF ObserveFailureStep, ObserveFailure
      <4>2. new = Refailed(incidents[i]) BY <1>2, <2>2, <2>3, <4>1 DEF IncidentIds
      <4>3. /\ Sound(new) /\ Kept(incidents[i], new) /\ new.active = incidents[i].active
            /\ (incidents[i].state = "VERIFYING" => new.state = "VERIFYING")
        BY <3>1, <3>3, <4>2, FailedAgain DEF TooSoon
      <4>4. new.active BY <2>2, <4>3
      <4>. QED BY <4>1, <4>2, <4>3, <4>4
    <3>. QED BY <3>2, <3>3
  <2>5. \/ Continue(w)
        \/ \E pc \in {"policy", "capture"} : Take(w, i, pc)
    BY <1>3, <1>6, <2>1 DEF ObserveFailureStep, Take
  <2>6. SoleHolds(w)'
    <3>1. CASE Continue(w)
      <4>1. call'[w].pc = "cycle" /\ call'[w].mission = 0 BY <1>2, <3>1, ContinueFree
      <4>. QED BY <4>1, LooseSole
    <3>2. ASSUME NEW pc \in {"policy", "capture"}, Take(w, i, pc) PROVE SoleHolds(w)'
      <4>1. pc \in Labels BY DEF Labels, Deciding
      <4>2. call'[w].pc = pc /\ call'[w].inc = i /\ call'[w].mission = 0
        BY <1>2, <2>2, <3>2, <4>1, TakeUp
      <4>3. incidents'[call'[w].inc].active BY <2>3, <2>4, <4>2
      <4>. QED BY <4>2, <4>3 DEF SoleHolds, Deciding, Closing
    <3>. QED BY <2>5, <3>1, <3>2
  <2>. QED BY <1>1, <2>2, <2>4, <2>6, SoleIncident
<1>. QED BY <1>5, <1>6

(* A step that writes missions only.                                       *)
LEMMA SoleMission ==
    ASSUME NEW w, SoleInv(w), UNCHANGED <<incidents, attempts>>, SoleHolds(w)', RanInv',
           AccountInv(w)', WaitInv(w)'
    PROVE  SoleInv(w)' /\ Final
<1>1. BudgetInv' BY DEF SoleInv, BudgetInv, RealAttempts, IncidentIds
<1>2. Final BY DEF Final
<1>. QED BY <1>1, <1>2 DEF SoleInv

LEMMA SoleCreate ==
    ASSUME RecInv, NEW w \in running, SoleInv(w), CreateMission(w)
    PROVE  SoleInv(w)' /\ Final
<1>1. /\ call[w].pc = "create" /\ UNCHANGED <<incidents, attempts>> /\ UNCHANGED crashes
  BY DEF CreateMission, At
<1>2. /\ w \in Workers /\ ShapeInv /\ call[w] \in CallRec /\ missions \in Seq(Mission)
      /\ Len(missions) \in Nat /\ SoleHolds(w) /\ RanInv /\ AccountInv(w) /\ WaitInv(w)
  BY Around DEF SoleInv
<1>3. PICK n, new : /\ n = Len(missions) + 1
                    /\ new = [component |-> incidents[call[w].inc].component,
                               incident |-> call[w].inc, status |-> "CREATED", ran |-> None,
                               hot |-> FALSE, unseen |-> FALSE]
  OBVIOUS
<1>4. missions' = Append(missions, new) /\ new.ran = None BY <1>3 DEF CreateMission
<1>5. /\ \A m \in MissionIds : missions'[m] = missions[m]
      /\ \A m \in MissionIds' : m \in MissionIds \/ missions'[m].ran = None
  BY <1>2, <1>3, <1>4 DEF MissionIds
<1>6. call'[w].pc = "plan" /\ call'[w].inc = call[w].inc
  <2>1. call' = [call EXCEPT ![w] = [call[w] EXCEPT !.pc = "plan", !.mission = n]]
    BY <1>3 DEF CreateMission
  <2>2. call'[w] = [call[w] EXCEPT !.pc = "plan", !.mission = n]
    BY <1>2, <2>1 DEF ShapeInv
  <2>. QED BY <1>2, <2>2 DEF CallRec
<1>7. SoleHolds(w)'
  <2>1. incidents' = incidents /\ \A c : RealAttempts(c)' = RealAttempts(c)
    BY <1>1 DEF RealAttempts
  <2>2. /\ incidents[call[w].inc].active
        /\ Cardinality(RealAttempts(incidents[call[w].inc].component)) < Budget
    BY <1>1, <1>2 DEF SoleHolds, Deciding
  <2>. QED BY <1>6, <2>1, <2>2 DEF SoleHolds, Deciding, Closing
<1>8. RanInv' BY <1>2, <1>5 DEF RanInv
<1>9. AccountInv(w)' BY <1>1, <1>2, <1>5 DEF AccountInv, Booking
<1>10. WaitInv(w)'
  <2>1. \A i \in IncidentIds : incidents[i].mission # 0 => incidents[i].mission \in MissionIds
    BY DEF RecInv, LinkInv
  <2>2. IncidentIds' = IncidentIds BY <1>1 DEF IncidentIds
  <2>3. \A m : ~Telling(w, m) BY <1>1 DEF Telling
  <2>. QED BY <1>1, <1>2, <1>5, <2>1, <2>2, <2>3 DEF WaitInv
<1>. QED BY <1>1, <1>7, <1>8, <1>9, <1>10, SoleMission

LEMMA SolePlan ==
    ASSUME RecInv, NEW w \in running, SoleInv(w), CreatePlan(w)
    PROVE  SoleInv(w)' /\ Final
<1>1. /\ call[w].pc = "plan" /\ Go(w, "attach")
      /\ UNCHANGED <<incidents, attempts>> /\ UNCHANGED crashes
  BY DEF CreatePlan, At
<1>2. /\ w \in Workers /\ ShapeInv /\ missions \in Seq(Mission) /\ call[w].mission \in MissionIds
      /\ missions[call[w].mission] \in Mission /\ missions[call[w].mission].status = "CREATED"
      /\ SoleHolds(w) /\ RanInv /\ AccountInv(w) /\ WaitInv(w)
  BY <1>1, Around, Lengths DEF SoleInv, Holds
<1>3. PICK m, new : m = call[w].mission /\ new = [missions[m] EXCEPT !.status = "PLANNED"]
  OBVIOUS
<1>4. /\ new \in Mission /\ new.status = "PLANNED" /\ new.ran = missions[m].ran
      /\ new.unseen = missions[m].unseen /\ new.incident = missions[m].incident
  BY <1>2, <1>3 DEF Mission
<1>5. missions' = [missions EXCEPT ![m] = new] BY <1>2, <1>3 DEF CreatePlan, MissionIds
<1>6. /\ MissionIds' = MissionIds /\ missions'[m] = new /\ m \in MissionIds
      /\ \A n \in MissionIds \ {m} : missions'[n] = missions[n]
  <2>1. m \in MissionIds /\ missions[m].status = "CREATED" BY <1>2, <1>3
  <2>. QED BY <1>2, <1>4, <1>5, <2>1, OneMission
<1>7. call'[w].pc = "attach" /\ call'[w].inc = call[w].inc /\ call'[w].mission = m
  <2>1. "attach" \in Labels BY DEF Labels, Deciding
  <2>. QED BY <1>1, <1>2, <1>3, <2>1, GoTo
<1>8. SoleHolds(w)'
  <2>1. incidents' = incidents /\ \A c : RealAttempts(c)' = RealAttempts(c)
    BY <1>1 DEF RealAttempts
  <2>2. /\ incidents[call[w].inc].active
        /\ Cardinality(RealAttempts(incidents[call[w].inc].component)) < Budget
    BY <1>1, <1>2 DEF SoleHolds, Deciding
  <2>. QED BY <1>4, <1>6, <1>7, <2>1, <2>2 DEF SoleHolds, Deciding, Closing
<1>9. missions[m].ran = None BY <1>2, <1>3 DEF RanInv
<1>10. RanInv' BY <1>2, <1>4, <1>6, <1>9 DEF RanInv
<1>11. AccountInv(w)' BY <1>1, <1>2, <1>4, <1>6, <1>9 DEF AccountInv, Booking
<1>12. WaitInv(w)'
  <2>1. \A i \in IncidentIds : incidents[i].mission # 0 => incidents[i].mission \in MissionIds
    BY DEF RecInv, LinkInv
  <2>2. IncidentIds' = IncidentIds BY <1>1 DEF IncidentIds
  <2>3. \A n : ~Telling(w, n) BY <1>1 DEF Telling
  <2>. QED BY <1>1, <1>2, <1>4, <1>6, <2>1, <2>2, <2>3 DEF WaitInv
<1>. QED BY <1>1, <1>8, <1>10, <1>11, <1>12, SoleMission

LEMMA SoleExecute ==
    ASSUME RecInv, NEW w \in running, SoleInv(w), ExecuteMission(w)
    PROVE  SoleInv(w)' /\ Final
<1>1. /\ call[w].pc = "execute" /\ UNCHANGED <<incidents, attempts>> /\ UNCHANGED crashes
  BY DEF ExecuteMission, At
<1>2. PICK m \in 1 .. Len(missions), o \in Outcomes :
        /\ missions[m].status = "PLANNED"
        /\ missions' = [missions EXCEPT ![m] =
                [Ran(m, o) EXCEPT !.unseen = IncidentForMission(m) = 0]]
        /\ call' = [call EXCEPT ![w] = [Idle EXCEPT !.pc = "handle",
                                            !.mission = m, !.outcome = o]]
  BY DEF ExecuteMission
<1>3. /\ w \in Workers /\ ShapeInv /\ m \in MissionIds /\ m \in Nat /\ missions[m] \in Mission
      /\ RanInv /\ AccountInv(w) /\ WaitInv(w)
  BY <1>2, Around, Lengths DEF MissionIds, SoleInv
<1>4. PICK b \in BOOLEAN : b = (IncidentForMission(m) = 0) BY Zenon
<1>5. PICK new : new = [Ran(m, o) EXCEPT !.unseen = b] OBVIOUS
<1>6. /\ new \in Mission /\ new.incident = missions[m].incident /\ new.status = o
      /\ new.unseen = b /\ o \notin {"CREATED", "PLANNED"}
      /\ new.ran = None \/ (new.ran = 0 /\ o \in {"EXECUTED", "FAILED"})
  BY <1>3, <1>5, RanMission
<1>7. /\ MissionIds' = MissionIds /\ missions'[m] = new
      /\ \A n \in MissionIds \ {m} : missions'[n] = missions[n]
  <2>1. missions' = [missions EXCEPT ![m] = new] BY <1>2, <1>4, <1>5
  <2>. QED BY <1>3, <1>6, <2>1, OneMission
<1>8. call'[w].pc = "handle" /\ call'[w].mission = m /\ call'[w].outcome = o
  <2>1. PICK k : k = HandRec(m, o) OBVIOUS
  <2>2. k \in CallRec /\ k.pc = "handle" /\ k.mission = m /\ k.outcome = o
    BY <1>3, <2>1, HandRecord
  <2>3. call' = [call EXCEPT ![w] = k] BY <1>2, <2>1 DEF HandRec
  <2>. QED BY <1>3, <2>2, <2>3, Placed
<1>9. IncidentIds' = IncidentIds /\ incidents' = incidents BY <1>1 DEF IncidentIds
<1>10. SoleHolds(w)'
  <2>1. ~b => \E i \in IncidentIds : incidents[i].active /\ incidents[i].mission = m
    BY <1>4, MissionFound
  <2>2. new.ran # None => o \in {"EXECUTED", "FAILED"} BY <1>6
  <2>. QED BY <1>6, <1>7, <1>8, <1>9, <2>1, <2>2 DEF SoleHolds, Deciding, Closing
<1>11. RanInv' BY <1>3, <1>6, <1>7 DEF RanInv
<1>12. AccountInv(w)'
  <2>1. \A n : ~Booking(w, n) BY <1>1 DEF Booking
  <2>2. Booking(w, m)' BY <1>8 DEF Booking
  <2>. QED BY <1>1, <1>3, <1>7, <2>1, <2>2 DEF AccountInv
<1>13. WaitInv(w)'
  <2>1. \A i \in IncidentIds : incidents[i].mission # 0 => incidents[i].mission \in MissionIds
    BY DEF RecInv, LinkInv
  <2>2. Telling(w, m)' /\ \A n : ~Telling(w, n) BY <1>1, <1>8 DEF Telling
  <2>. QED BY <1>1, <1>3, <1>7, <1>9, <2>1, <2>2 DEF WaitInv
<1>. QED BY <1>1, <1>10, <1>11, <1>12, <1>13, SoleMission

(* The mission of an incident was resumed in the web process.              *)
LEMMA SoleResume ==
    ASSUME RecInv, NEW w \in running, SoleInv(w), NEW m \in DOMAIN missions, ResumeApproved(m)
    PROVE  SoleInv(w)' /\ Final
<1>1. /\ missions[m].status = "WAITING_APPROVAL" /\ UNCHANGED call /\ UNCHANGED crashes
      /\ UNCHANGED <<incidents, attempts>>
  BY DEF ResumeApproved
<1>2. PICK o \in Outcomes : missions' = [missions EXCEPT ![m] = [Ran(m, o) EXCEPT !.unseen = TRUE]]
  BY DEF ResumeApproved
<1>3. /\ w \in Workers /\ ShapeInv /\ missions \in Seq(Mission) /\ Holds(w)
      /\ SoleHolds(w) /\ RanInv /\ AccountInv(w) /\ WaitInv(w)
  BY Around DEF SoleInv
<1>4. m \in MissionIds /\ missions[m] \in Mission BY <1>3 DEF MissionIds
<1>5. PICK new : new = [Ran(m, o) EXCEPT !.unseen = TRUE] OBVIOUS
<1>6. /\ new \in Mission /\ new.incident = missions[m].incident /\ new.status = o
      /\ new.unseen = TRUE /\ o \notin {"CREATED", "PLANNED"}
  BY <1>4, <1>5, RanMission, ZenonT(40)
<1>7. /\ MissionIds' = MissionIds /\ missions'[m] = new
      /\ \A n \in MissionIds \ {m} : missions'[n] = missions[n]
  <2>1. missions' = [missions EXCEPT ![m] = new] BY <1>2, <1>5
  <2>. QED BY <1>3, <1>4, <1>6, <2>1, OneMission
<1>8. IncidentIds' = IncidentIds /\ incidents' = incidents /\ call' = call
      /\ \A c : RealAttempts(c)' = RealAttempts(c)
  BY <1>1 DEF IncidentIds, RealAttempts
<1>9. SoleHolds(w)'
  <2>1. call[w].pc \in {"attach", "handle", "record"} => call[w].mission \in MissionIds
    BY <1>3 DEF Holds
  <2>2. call[w].pc = "attach" => missions'[call[w].mission].status = "PLANNED"
    BY <1>1, <1>3, <1>7, <2>1 DEF SoleHolds
  <2>3. call[w].pc \in {"handle", "record"} =>
          missions'[call[w].mission].unseen \/ missions'[call[w].mission] = missions[call[w].mission]
    BY <1>6, <1>7, <2>1
  <2>4. call[w].pc = "handle" /\ ~missions'[call[w].mission].unseen =>
          \E i \in IncidentIds : incidents[i].active /\ incidents[i].mission = call[w].mission
    BY <1>3, <2>3 DEF SoleHolds
  <2>5. call[w].pc \in {"handle", "record"} /\ missions'[call[w].mission].ran # None
        /\ ~missions'[call[w].mission].unseen => call[w].outcome \in {"EXECUTED", "FAILED"}
    BY <1>3, <2>3 DEF SoleHolds
  <2>. QED BY <1>3, <1>8, <2>2, <2>4, <2>5 DEF SoleHolds
<1>10. RanInv' BY <1>3, <1>6, <1>7 DEF RanInv
<1>11. AccountInv(w)'
  <2>1. \A n : Booking(w, n)' <=> Booking(w, n) BY <1>8 DEF Booking
  <2>. QED BY <1>1, <1>3, <1>6, <1>7, <1>8, <2>1 DEF AccountInv
<1>12. WaitInv(w)'
  <2>1. \A n : Telling(w, n)' <=> Telling(w, n) BY <1>8 DEF Telling
  <2>2. \A i \in IncidentIds : incidents[i].mission # 0 => incidents[i].mission \in MissionIds
    BY DEF RecInv, LinkInv
  <2>. QED BY <1>1, <1>3, <1>7, <1>8, <2>1, <2>2 DEF WaitInv
<1>. QED BY <1>1, <1>9, <1>10, <1>11, <1>12, SoleMission

LEMMA SoleAttach ==
    ASSUME RecInv, NEW w \in running, SoleInv(w), AttachMission(w)
    PROVE  SoleInv(w)' /\ Final
<1>1. call[w].pc = "attach" /\ UNCHANGED <<attempts, missions, crashes>>
  BY DEF AttachMission, At
<1>2. /\ w \in Workers /\ ShapeInv /\ SoundInv /\ OpenInv /\ call[w].inc \in IncidentIds
      /\ call[w].todo # <<>> /\ call[w].mission \in MissionIds
      /\ incidents \in Seq(Incident)
      /\ SoleHolds(w) /\ BudgetInv /\ RanInv /\ AccountInv(w) /\ WaitInv(w)
  BY <1>1, Around DEF Holds, Deciding, SoleInv
<1>3. CASE ~CanAttach(incidents[call[w].inc])
  <2>1. Exit(w) /\ UNCHANGED incidents BY <1>3 DEF AttachMission
  <2>2. call'[w].pc = "idle" /\ call'[w].mission = 0 BY <2>1, ExitFrees
  <2>3. SoleHolds(w)' BY <2>2, LooseSole
  <2>4. QuietIncidents BY <1>2, <2>1, SameIncidents DEF RecInv
  <2>5. StaysVerifying /\ Final BY <2>1 DEF StaysVerifying, Final
  <2>. QED BY <1>1, <1>2, <2>3, <2>4, <2>5, SoleQuiet
<1>4. CASE CanAttach(incidents[call[w].inc])
  <2>1. PICK i, m, inc : /\ i = call[w].inc /\ m = call[w].mission /\ inc = incidents[i]
    OBVIOUS
  <2>2. PICK new : new = AttachedTo(inc, m) OBVIOUS
  <2>3. incidents' = [incidents EXCEPT ![i] = new] /\ Continue(w)
    BY <1>2, <1>4, <2>1, <2>2 DEF AttachMission, AttachedTo
  <2>4. Sound(inc) /\ inc.mission = 0 /\ m \in Nat /\ i \in IncidentIds /\ inc = incidents[i]
        /\ m \in MissionIds
    BY <1>2, <1>4, <2>1 DEF SoundInv, CanAttach, MissionIds
  <2>5. /\ Sound(new) /\ new.mission = m /\ new.real = 0 /\ new.component = inc.component
        /\ new.active = inc.active /\ new.state = inc.state
    BY <2>2, <2>4, AttachedRow
  <2>6. /\ IncidentIds' = IncidentIds /\ incidents'[i] = new
        /\ \A j \in IncidentIds \ {i} : incidents'[j] = incidents[j]
    BY <1>2, <2>3, <2>4, <2>5, OneIncident
  <2>7. call'[w].pc = "cycle" /\ call'[w].mission = 0 BY <1>2, <2>3, ContinueFree
  <2>8. SoleHolds(w)' BY <2>7, LooseSole
  <2>9. /\ missions[m].status = "PLANNED" /\ Cardinality(RealAttempts(inc.component)) < Budget
        /\ MissionIds' = MissionIds
    BY <1>1, <1>2, <2>1 DEF SoleHolds, MissionIds
  <2>10. BudgetInv'
    <3>1. \A c : RealAttempts(c)' = RealAttempts(c) BY <1>1 DEF RealAttempts
    <3>2. ASSUME NEW j \in IncidentIds, incidents'[j].active, incidents'[j].mission # 0,
                 incidents'[j].real = 0
          PROVE  Cardinality(RealAttempts(incidents'[j].component)) < Budget
      <4>1. CASE j = i BY <2>5, <2>6, <2>9, <4>1
      <4>2. CASE j # i BY <1>2, <2>6, <3>2, <4>2 DEF BudgetInv
      <4>. QED BY <4>1, <4>2
    <3>. QED BY <1>1, <1>2, <2>6, <3>1, <3>2 DEF BudgetInv
  <2>11. RanInv' BY <1>1, <1>2, <2>9 DEF RanInv
  <2>12. AccountInv(w)'
    <3>1. \A n : ~Booking(w, n) BY <1>1 DEF Booking
    <3>2. \A n \in MissionIds : missions[n].incident \in IncidentIds BY <1>2 DEF ShapeInv
    <3>3. incidents[i].real # 1 BY <2>4 DEF Sound
    <3>. QED BY <1>1, <1>2, <2>6, <2>9, <3>1, <3>2, <3>3 DEF AccountInv
  <2>13. WaitInv(w)'
    <3>1. \A n : ~Telling(w, n) BY <1>1 DEF Telling
    <3>. QED BY <1>1, <1>2, <2>5, <2>6, <2>9, <3>1 DEF WaitInv
  <2>14. Final BY <2>4, <2>5, <2>6 DEF Final
  <2>. QED BY <2>8, <2>10, <2>11, <2>12, <2>13, <2>14 DEF SoleInv
<1>. QED BY <1>3, <1>4

\* RealAttempts over any table of attempts.
RealOf(T, c) == {a \in T : a.component = c /\ ~a.simulated}

LEMMA FewerReal ==
    ASSUME NEW c, IsFiniteSet(attempts)
    PROVE  IsFiniteSet(RealAttempts(c)) /\ Cardinality(RealAttempts(c)) \in Nat
<1>1. RealAttempts(c) \subseteq attempts BY DEF RealAttempts
<1>. QED BY <1>1, FS_Subset, FS_CardinalityType

LEMMA BudgetNext ==
    ASSUME IsFiniteSet(attempts'),
           \A c \in Components : Cardinality(RealOf(attempts', c)) <= Budget,
           \A j \in IncidentIds' :
               incidents'[j].active /\ incidents'[j].mission # 0 /\ incidents'[j].real = 0 =>
                   Cardinality(RealOf(attempts', incidents'[j].component)) < Budget
    PROVE  BudgetInv'
BY DEF BudgetInv, RealAttempts, RealOf

(* add_attempt takes the room that the budget left for this incident.      *)
LEMMA SoleRecord ==
    ASSUME RecInv, NEW w \in running, SoleInv(w), RecordAttempt(w)
    PROVE  SoleInv(w)' /\ Final
<1>1. call[w].pc = "record" /\ UNCHANGED missions /\ UNCHANGED crashes
  BY DEF RecordAttempt, At
<1>2. /\ w \in Workers /\ ShapeInv /\ SoundInv /\ OpenInv /\ call[w].inc \in IncidentIds
      /\ call[w].mission \in MissionIds
      /\ incidents[call[w].inc].mission = call[w].mission
      /\ incidents[call[w].inc].real = 0 /\ incidents[call[w].inc].active
      /\ incidents \in Seq(Incident)
      /\ SoleHolds(w) /\ BudgetInv /\ RanInv /\ AccountInv(w) /\ WaitInv(w)
  BY <1>1, Around DEF Holds, Closing, SoleInv, SoleHolds
<1>3. PICK i, m, o : i = call[w].inc /\ m = call[w].mission /\ o = call[w].outcome OBVIOUS
<1>4. /\ i \in IncidentIds /\ Sound(incidents[i]) /\ incidents[i].mission = m
      /\ incidents[i].real = 0 /\ incidents[i].active /\ m # 0 /\ m \in MissionIds
      /\ missions[m].incident = i
  BY <1>2, <1>3 DEF SoundInv, MissionIds, RecInv, LinkInv
<1>5. PICK new : /\ o = "SIMULATED" => new = incidents[i]
                 /\ o # "SIMULATED" => new = Booked(incidents[i])
                 /\ incidents' = [incidents EXCEPT ![i] = new]
  <2>1. CASE o = "SIMULATED"
    <3>1. incidents' = incidents BY <1>3, <2>1 DEF RecordAttempt
    <3>2. incidents' = [incidents EXCEPT ![i] = incidents[i]] BY <1>2, <3>1
    <3>. QED BY <2>1, <3>2
  <2>2. CASE o # "SIMULATED"
    <3>1. incidents' = [incidents EXCEPT ![i] = Booked(incidents[i])]
      BY <1>2, <1>3, <2>2 DEF RecordAttempt, Booked
    <3>. QED BY <2>2, <3>1
  <2>. QED BY <2>1, <2>2
<1>6. /\ Sound(new) /\ new.mission = m /\ new.component = incidents[i].component
      /\ new.active = incidents[i].active /\ new.state = incidents[i].state
      /\ o # "SIMULATED" => new.real = 1
  <2>1. CASE o = "SIMULATED" BY <1>4, <1>5, <2>1
  <2>2. CASE o # "SIMULATED"
    <3>1. PICK inc : inc = incidents[i] OBVIOUS
    <3>2. Sound(inc) /\ inc.mission # 0 /\ inc.real = 0 /\ new = Booked(inc)
      BY <1>4, <1>5, <2>2, <3>1
    <3>3. /\ Sound(new) /\ new.mission = inc.mission /\ new.real = 1
          /\ new.component = inc.component /\ new.active = inc.active /\ new.state = inc.state
      BY <3>2, BookedRow
    <3>. QED BY <1>4, <3>1, <3>3
  <2>. QED BY <2>1, <2>2
<1>7. /\ IncidentIds' = IncidentIds /\ incidents'[i] = new
      /\ \A j \in IncidentIds \ {i} : incidents'[j] = incidents[j]
  BY <1>2, <1>4, <1>5, <1>6, OneIncident, ZenonT(40)
<1>8. PICK pc \in {"escalate", "verifying"} : Go(w, pc) BY DEF RecordAttempt
<1>9. call'[w].pc = pc /\ call'[w].inc = i /\ call'[w].mission = m
  <2>1. pc \in Labels BY DEF Labels, Closing
  <2>. QED BY <1>2, <1>3, <1>8, <2>1, GoTo
<1>10. incidents'[i].active BY <1>4, <1>6, <1>7
<1>11. SoleHolds(w)' BY <1>6, <1>7, <1>8, <1>9, <1>10 DEF SoleHolds, Deciding, Closing
<1>12. PICK b : b = [incident |-> i, component |-> incidents[i].component, mission |-> m,
                     simulated |-> o = "SIMULATED", age |-> 0]
  OBVIOUS
<1>13. /\ attempts' = attempts \cup {b} /\ b.component = incidents[i].component
       /\ b.simulated <=> o = "SIMULATED"
  BY <1>3, <1>12 DEF RecordAttempt
<1>14. PICK d : d = incidents[i].component OBVIOUS
<1>15. BudgetInv'
  <2>1. IsFiniteSet(attempts) BY <1>2 DEF BudgetInv
  <2>2. IsFiniteSet(attempts') BY <1>13, <2>1, FS_AddElement
  <2>3. \A c : c # d \/ o = "SIMULATED" => RealOf(attempts', c) = RealAttempts(c)
    BY <1>13, <1>14 DEF RealAttempts, RealOf
  <2>4. CASE o = "SIMULATED"
    <3>1. incidents' = incidents BY <1>2, <1>5, <2>4
    <3>2. \A c : RealOf(attempts', c) = RealAttempts(c) BY <2>3, <2>4
    <3>. QED BY <1>2, <1>7, <2>2, <3>1, <3>2, BudgetNext DEF BudgetInv
  <2>5. CASE o # "SIMULATED"
    <3>1. RealOf(attempts', d) = RealAttempts(d) \cup {b}
      BY <1>13, <1>14, <2>5 DEF RealAttempts, RealOf
    <3>2. Cardinality(RealAttempts(d)) < Budget BY <1>2, <1>4, <1>14 DEF BudgetInv
    <3>3. IsFiniteSet(RealAttempts(d)) /\ Cardinality(RealAttempts(d)) \in Nat
      BY <2>1, FewerReal
    <3>4. Cardinality(RealOf(attempts', d)) <= Budget
      <4>1. Cardinality(RealAttempts(d) \cup {b}) \in
              {Cardinality(RealAttempts(d)), Cardinality(RealAttempts(d)) + 1}
        BY <3>3, FS_AddElement
      <4>2. Budget \in Nat BY Limits
      <4>. QED BY <3>1, <3>2, <3>3, <4>1, <4>2
    <3>5. \A c \in Components : Cardinality(RealOf(attempts', c)) <= Budget
      BY <1>2, <2>3, <3>4 DEF BudgetInv
    <3>6. ASSUME NEW j \in IncidentIds, incidents'[j].active, incidents'[j].mission # 0,
                 incidents'[j].real = 0
          PROVE  Cardinality(RealOf(attempts', incidents'[j].component)) < Budget
      <4>1. j # i BY <1>6, <1>7, <2>5, <3>6
      <4>2. incidents'[j] = incidents[j] BY <1>7, <4>1
      <4>3. incidents[j].component # d BY <1>2, <1>4, <1>14, <3>6, <4>1, <4>2 DEF OpenInv
      <4>4. Cardinality(RealAttempts(incidents[j].component)) < Budget
        BY <1>2, <3>6, <4>2 DEF BudgetInv
      <4>5. RealOf(attempts', incidents[j].component) = RealAttempts(incidents[j].component)
        BY <2>3, <4>3
      <4>. QED BY <4>2, <4>4, <4>5
    <3>. QED BY <1>7, <2>2, <3>5, <3>6, BudgetNext
  <2>. QED BY <2>4, <2>5
<1>16. MissionIds' = MissionIds BY <1>1 DEF MissionIds
<1>17. RanInv' BY <1>1, <1>2, <1>16 DEF RanInv
<1>18. AccountInv(w)'
  <2>1. SUFFICES ASSUME crashes = 0, NEW n \in MissionIds, missions[n].ran # None,
                        ~missions[n].unseen
                 PROVE  incidents'[missions[n].incident].real = 1
    BY <1>1, <1>16 DEF AccountInv
  <2>2. CASE n = m
    <3>1. o # "SIMULATED" BY <1>1, <1>2, <1>3, <2>1, <2>2 DEF SoleHolds
    <3>. QED BY <1>4, <1>6, <1>7, <2>2, <3>1
  <2>3. CASE n # m
    <3>1. ~Booking(w, n) BY <1>3, <2>3 DEF Booking
    <3>2. incidents[missions[n].incident].real = 1 BY <1>2, <2>1, <3>1 DEF AccountInv
    <3>3. missions[n].incident \in IncidentIds /\ missions[n].incident # i
      BY <1>2, <1>4, <3>2 DEF ShapeInv
    <3>. QED BY <1>7, <3>2, <3>3
  <2>. QED BY <2>2, <2>3
<1>19. WaitInv(w)'
  <2>1. \A n : Telling(w, n) => Telling(w, n)' BY <1>3, <1>8, <1>9 DEF Telling
  <2>2. \A j \in IncidentIds : /\ incidents'[j].active = incidents[j].active
                               /\ incidents'[j].mission = incidents[j].mission
                               /\ incidents'[j].state = incidents[j].state
    BY <1>4, <1>6, <1>7
  <2>3. SUFFICES ASSUME crashes = 0, NEW j \in IncidentIds, incidents'[j].active,
                        incidents'[j].mission # 0
                 PROVE  \/ missions[incidents'[j].mission].status = "PLANNED"
                        \/ incidents'[j].state = "VERIFYING"
                        \/ Telling(w, incidents[j].mission)'
    BY <1>1, <1>7 DEF WaitInv
  <2>4. PICK n : n = incidents[j].mission OBVIOUS
  <2>5. \/ missions[n].status = "PLANNED" \/ incidents[j].state = "VERIFYING" \/ Telling(w, n)
    BY <1>2, <2>2, <2>3, <2>4 DEF WaitInv
  <2>. QED BY <2>1, <2>2, <2>4, <2>5 DEF Telling
<1>20. Final BY <1>4, <1>7 DEF Final
<1>. QED BY <1>11, <1>15, <1>17, <1>18, <1>19, <1>20 DEF SoleInv

-----------------------------------------------------------------------------
(* Time makes room: attempts leave the window, and none appears.           *)

OlderAttempt(a) == [a EXCEPT !.age = @ + 1]

LEMMA OlderAttempts ==
    ASSUME ShapeInv, Tick, IsFiniteSet(attempts)
    PROVE  /\ IsFiniteSet(attempts')
           /\ \A c : Cardinality(RealOf(attempts', c)) <= Cardinality(RealAttempts(c))
<1>1. attempts' = {OlderAttempt(a) : a \in {b \in attempts : b.age < Window}}
  BY DEF Tick, OlderAttempt
<1>2. \A a \in attempts : a.age < Window =>
         /\ OlderAttempt(a).component = a.component /\ OlderAttempt(a).simulated = a.simulated
  <2>1. SUFFICES ASSUME NEW a \in attempts, a.age < Window
                 PROVE  /\ OlderAttempt(a).component = a.component
                        /\ OlderAttempt(a).simulated = a.simulated
    OBVIOUS
  <2>2. PICK b : b = [a EXCEPT !.age = @ + 1] OBVIOUS
  <2>3. a \in AttemptRec BY DEF ShapeInv
  <2>4. b.component = a.component /\ b.simulated = a.simulated BY <2>1, <2>2, <2>3, AgedAttempt
  <2>. QED BY <2>2, <2>4 DEF OlderAttempt
<1>3. IsFiniteSet(attempts')
  <2>1. PICK S : S = {b \in attempts : b.age < Window} OBVIOUS
  <2>2. IsFiniteSet(S) BY <2>1, FS_Subset
  <2>3. PICK T : T = attempts' OBVIOUS
  <2>4. PICK f : f = [a \in S |-> OlderAttempt(a)] OBVIOUS
  <2>5. f \in Surjection(S, T) BY <1>1, <2>1, <2>3, <2>4 DEF Surjection
  <2>. QED BY <2>2, <2>3, <2>5, FS_Surjection
<1>4. ASSUME NEW c PROVE Cardinality(RealOf(attempts', c)) <= Cardinality(RealAttempts(c))
  <2>1. PICK R : R = RealAttempts(c) OBVIOUS
  <2>2. PICK S : S = {b \in R : b.age < Window} OBVIOUS
  <2>3. PICK T : T = RealOf(attempts', c) OBVIOUS
  <2>4. IsFiniteSet(R) BY <2>1, FewerReal
  <2>5. IsFiniteSet(S) /\ Cardinality(S) <= Cardinality(R) BY <2>2, <2>4, FS_Subset
  <2>6. PICK f : f = [a \in S |-> OlderAttempt(a)] OBVIOUS
  <2>7. \A a \in S : OlderAttempt(a) \in T
    BY <1>1, <1>2, <2>1, <2>2, <2>3 DEF RealOf, RealAttempts
  <2>8. \A b \in T : \E a \in S : b = OlderAttempt(a)
    BY <1>1, <1>2, <2>1, <2>2, <2>3 DEF RealOf, RealAttempts
  <2>9. f \in Surjection(S, T) BY <2>6, <2>7, <2>8 DEF Surjection
  <2>10. IsFiniteSet(T) /\ Cardinality(T) <= Cardinality(S) BY <2>5, <2>9, FS_Surjection
  <2>11. Cardinality(R) \in Nat /\ Cardinality(S) \in Nat /\ Cardinality(T) \in Nat
    BY <2>4, <2>5, <2>10, FS_CardinalityType
  <2>. QED BY <2>1, <2>3, <2>5, <2>10, <2>11
<1>. QED BY <1>3, <1>4

LEMMA SoleTick ==
    ASSUME RecInv, NEW w \in running, SoleInv(w), Tick
    PROVE  SoleInv(w)' /\ Final
<1>1. /\ w \in Workers /\ ShapeInv /\ SoundInv /\ Len(incidents) \in Nat /\ Len(missions) \in Nat
      /\ SoleHolds(w) /\ BudgetInv /\ RanInv /\ AccountInv(w) /\ WaitInv(w)
      /\ UNCHANGED call /\ UNCHANGED crashes /\ Holds(w)
  BY Around, Lengths DEF SoleInv, Tick, RecInv, HoldInv
<1>2. /\ Len(incidents') = Len(incidents) /\ Len(missions') = Len(missions)
      /\ \A i \in IncidentIds : incidents'[i] = Aged(incidents[i])
      /\ \A m \in MissionIds :
            /\ missions'[m].incident = missions[m].incident
            /\ missions'[m].status = missions[m].status
            /\ missions'[m].unseen = missions[m].unseen
            /\ missions'[m].ran = None <=> missions[m].ran = None
  BY Ticked
<1>3. IncidentIds' = IncidentIds /\ MissionIds' = MissionIds
  BY <1>2 DEF IncidentIds, MissionIds
<1>4. \A i \in IncidentIds :
         /\ incidents'[i].state = incidents[i].state /\ incidents'[i].active = incidents[i].active
         /\ incidents'[i].component = incidents[i].component /\ incidents'[i].real = incidents[i].real
         /\ incidents'[i].mission = incidents[i].mission
  BY <1>1, <1>2, GrownOlder DEF SoundInv, Kept
<1>5. /\ IsFiniteSet(attempts')
      /\ \A c : Cardinality(RealOf(attempts', c)) <= Cardinality(RealAttempts(c))
      /\ \A c : /\ Cardinality(RealAttempts(c)) \in Nat
                /\ Cardinality(RealOf(attempts', c)) \in Nat
  <2>1. /\ IsFiniteSet(attempts') /\ IsFiniteSet(attempts)
        /\ \A c : Cardinality(RealOf(attempts', c)) <= Cardinality(RealAttempts(c))
    BY <1>1, OlderAttempts DEF BudgetInv
  <2>2. ASSUME NEW c PROVE Cardinality(RealOf(attempts', c)) \in Nat
    <3>1. RealOf(attempts', c) \subseteq attempts' BY DEF RealOf
    <3>. QED BY <2>1, <3>1, FS_Subset, FS_CardinalityType
  <2>. QED BY <2>1, <2>2, FewerReal
<1>6. BudgetInv'
  <2>1. \A c \in Components : Cardinality(RealOf(attempts', c)) <= Budget
    BY <1>1, <1>5 DEF BudgetInv
  <2>2. \A j \in IncidentIds' :
           incidents'[j].active /\ incidents'[j].mission # 0 /\ incidents'[j].real = 0 =>
               Cardinality(RealOf(attempts', incidents'[j].component)) < Budget
    <3>1. SUFFICES ASSUME NEW j \in IncidentIds, incidents'[j].active, incidents'[j].mission # 0,
                          incidents'[j].real = 0
                   PROVE  Cardinality(RealOf(attempts', incidents'[j].component)) < Budget
      BY <1>3
    <3>2. PICK c : c = incidents[j].component OBVIOUS
    <3>3. Cardinality(RealAttempts(c)) < Budget BY <1>1, <1>4, <3>1, <3>2 DEF BudgetInv
    <3>4. Cardinality(RealOf(attempts', c)) < Budget BY <1>5, <3>3
    <3>. QED BY <1>4, <3>2, <3>4
  <2>. QED BY <1>5, <2>1, <2>2, BudgetNext
<1>7. RanInv' BY <1>1, <1>2, <1>3 DEF RanInv
<1>8. SoleHolds(w)'
  <2>1. PICK k : k = call[w] OBVIOUS
  <2>2. /\ k.pc \in Deciding \cup Closing => k.inc \in IncidentIds
        /\ k.pc \in {"attach", "handle", "record"} => k.mission \in MissionIds
    BY <1>1, <2>1 DEF Holds, Deciding, Closing
  <2>3. k.pc \in (Deciding \cup Closing) \ {"inform", "alarm"} => incidents'[k.inc].active
    BY <1>1, <1>4, <2>1, <2>2 DEF SoleHolds
  <2>4. k.pc \in {"verifying", "escalate"} /\ k.mission # 0 => incidents'[k.inc].mission = k.mission
    BY <1>1, <1>4, <2>1, <2>2 DEF SoleHolds, Closing
  <2>5. k.pc = "attach" => missions'[k.mission].status = "PLANNED"
    BY <1>1, <1>2, <2>1, <2>2 DEF SoleHolds
  <2>6. k.pc = "handle" /\ ~missions'[k.mission].unseen =>
            \E i \in IncidentIds : incidents'[i].active /\ incidents'[i].mission = k.mission
    BY <1>1, <1>2, <1>4, <2>1, <2>2 DEF SoleHolds
  <2>7. k.pc \in {"handle", "record"} /\ missions'[k.mission].ran # None
        /\ ~missions'[k.mission].unseen => k.outcome \in {"EXECUTED", "FAILED"}
    BY <1>1, <1>2, <2>1, <2>2 DEF SoleHolds
  <2>8. k.pc \in {"create", "plan", "attach"} =>
            Cardinality(RealOf(attempts', incidents'[k.inc].component)) < Budget
    <3>1. SUFFICES ASSUME k.pc \in {"create", "plan", "attach"}
                   PROVE  Cardinality(RealOf(attempts', incidents'[k.inc].component)) < Budget
      OBVIOUS
    <3>2. PICK c : c = incidents[k.inc].component OBVIOUS
    <3>3. Cardinality(RealAttempts(c)) < Budget BY <1>1, <2>1, <3>1, <3>2 DEF SoleHolds
    <3>4. Cardinality(RealOf(attempts', c)) < Budget BY <1>5, <3>3
    <3>5. k.inc \in IncidentIds BY <2>2, <3>1 DEF Deciding
    <3>. QED BY <1>4, <3>2, <3>4, <3>5
  <2>9. k.pc \notin {"plan", "attach", "handle", "record", "verifying", "escalate", "alarm"} =>
          k.mission = 0
    BY <1>1, <2>1 DEF SoleHolds
  <2>10. k = call'[w] BY <1>1, <2>1
  <2>. QED BY <1>3, <2>3, <2>4, <2>5, <2>6, <2>7, <2>8, <2>9, <2>10 DEF SoleHolds, RealAttempts, RealOf
<1>9. AccountInv(w)'
  <2>1. SUFFICES ASSUME crashes = 0, NEW m \in MissionIds, missions'[m].ran # None,
                        ~missions'[m].unseen
                 PROVE  incidents'[missions'[m].incident].real = 1 \/ Booking(w, m)'
    BY <1>1, <1>3 DEF AccountInv
  <2>2. missions[m].incident \in IncidentIds BY <1>1 DEF ShapeInv
  <2>3. incidents[missions[m].incident].real = 1 \/ Booking(w, m)
    BY <1>1, <1>2, <2>1 DEF AccountInv
  <2>4. Booking(w, m)' <=> Booking(w, m) BY <1>1 DEF Booking
  <2>. QED BY <1>2, <1>4, <2>2, <2>3, <2>4
<1>10. WaitInv(w)'
  <2>1. SUFFICES ASSUME crashes = 0, NEW j \in IncidentIds, incidents'[j].active,
                        incidents'[j].mission # 0
                 PROVE  \/ missions'[incidents'[j].mission].status = "PLANNED"
                        \/ incidents'[j].state = "VERIFYING"
                        \/ Telling(w, incidents[j].mission)'
    BY <1>1, <1>3, <1>4 DEF WaitInv
  <2>2. PICK n : n = incidents[j].mission OBVIOUS
  <2>3. n \in MissionIds BY <1>4, <2>1, <2>2 DEF RecInv, LinkInv
  <2>4. \/ missions[n].status = "PLANNED" \/ incidents[j].state = "VERIFYING" \/ Telling(w, n)
    BY <1>1, <1>4, <2>1, <2>2 DEF WaitInv
  <2>. QED BY <1>1, <1>2, <1>4, <2>2, <2>3, <2>4 DEF Telling
<1>11. Final BY <1>4 DEF Final
<1>. QED BY <1>6, <1>7, <1>8, <1>9, <1>10, <1>11 DEF SoleInv

-----------------------------------------------------------------------------
(* The theorems for one worker                                             *)

LEMMA Alone ==
    ASSUME RecInv, OneWorker
    PROVE  \E w \in Workers : running = {w}
<1>1. running \subseteq Workers BY DEF RecInv, ShapeInv, TypeOK
<1>2. IsFiniteSet(running) BY <1>1, RecoveryLimits, FS_Subset DEF RecoveryLimits
<1>3. \E w : running = {w} BY <1>2, FS_Singleton DEF OneWorker
<1>. QED BY <1>1, <1>3

LEMMA StartsAlone == ASSUME Init, NEW w \in Workers, running = {w} PROVE SoleInv(w)
<1>1. /\ attempts = {} /\ incidents = <<>> /\ missions = <<>> /\ call[w] = Idle
      /\ IncidentIds = {} /\ MissionIds = {} /\ Idle.pc = "idle" /\ Idle.mission = 0
  BY IdleRecord DEF Init, IncidentIds, MissionIds
<1>2. SoleHolds(w) BY <1>1 DEF SoleHolds, Deciding, Closing
<1>3. BudgetInv
  <2>1. \A c : RealAttempts(c) = {} BY <1>1 DEF RealAttempts
  <2>2. IsFiniteSet({}) /\ Cardinality({}) = 0 BY FS_EmptySet
  <2>3. \A c : Cardinality(RealAttempts(c)) = 0 BY <2>1, <2>2
  <2>4. IsFiniteSet(attempts) BY <1>1, <2>2
  <2>. QED BY <1>1, <2>3, <2>4 DEF BudgetInv
<1>4. RanInv /\ AccountInv(w) /\ WaitInv(w) BY <1>1 DEF RanInv, AccountInv, WaitInv
<1>. QED BY <1>2, <1>3, <1>4 DEF SoleInv

LEMMA StuttersAlone ==
    ASSUME NEW w, SoleInv(w), UNCHANGED vars
    PROVE  SoleInv(w)' /\ Final
<1>1. /\ IncidentIds' = IncidentIds /\ MissionIds' = MissionIds
      /\ \A c : RealAttempts(c)' = RealAttempts(c)
  BY DEF vars, IncidentIds, MissionIds, RealAttempts
<1>2. SoleHolds(w)' BY <1>1 DEF SoleInv, SoleHolds, vars
<1>3. BudgetInv' BY <1>1 DEF SoleInv, BudgetInv, vars
<1>4. RanInv' BY <1>1 DEF SoleInv, RanInv, vars
<1>5. AccountInv(w)' BY <1>1 DEF SoleInv, AccountInv, Booking, vars
<1>6. WaitInv(w)' BY <1>1 DEF SoleInv, WaitInv, Telling, vars
<1>7. Final BY DEF Final, vars
<1>. QED BY <1>2, <1>3, <1>4, <1>5, <1>6, <1>7 DEF SoleInv

LEMMA SameRunning == ASSUME [Next]_vars PROVE running' = running
<1>1. CASE UNCHANGED vars BY <1>1 DEF vars
<1>2. CASE Tick BY <1>2 DEF Tick
<1>3. ASSUME NEW w \in Workers, Step(w) \/ Crash(w) PROVE running' = running
  BY <1>3 DEF Step, Crash, RunIfDue, CycleComponent, ResolveIfHealthy, ObserveFailureStep,
       UpdateDiagnostics, HandlePolicyEscalation, CreateRecoveryMission, MarkRecoveryPending, Allow,
       CreateMission, CreatePlan, AttachMission, ResolveVerified, Escalate, Notify, ExecuteMission,
       ExecuteOther, HandleExecutionResult, RecordAttempt, MarkVerifying
<1>4. ASSUME NEW m \in DOMAIN missions, ResumeApproved(m) PROVE running' = running
  BY <1>4 DEF ResumeApproved
<1>. QED BY <1>1, <1>2, <1>3, <1>4 DEF Next

(* Every step of the system keeps what w relies on, when w is alone.       *)
LEMMA SoleNext ==
    ASSUME RecInv, NEW w \in Workers, running = {w}, SoleInv(w), [Next]_vars
    PROVE  SoleInv(w)' /\ Final
<1>. w \in running OBVIOUS
<1>1. CASE UNCHANGED vars BY <1>1, StuttersAlone
<1>2. CASE Tick BY <1>2, SoleTick
<1>3. CASE Step(w)
  <2>1. CASE RunIfDue(w) BY <2>1, SoleRun
  <2>2. CASE CycleComponent(w) BY <2>2, SoleCycle
  <2>3. CASE ResolveIfHealthy(w) BY <2>3, SoleHeal
  <2>4. CASE ObserveFailureStep(w) BY <2>4, SoleObserve
  <2>5. CASE UpdateDiagnostics(w) \/ MarkRecoveryPending(w) BY <2>5, SoleMark
  <2>6. CASE HandlePolicyEscalation(w) \/ CreateRecoveryMission(w) \/ Allow(w)
    BY <2>6, SolePolicy
  <2>7. CASE CreateMission(w) BY <2>7, SoleCreate
  <2>8. CASE CreatePlan(w) BY <2>8, SolePlan
  <2>9. CASE AttachMission(w) BY <2>9, SoleAttach
  <2>10. CASE ResolveVerified(w) \/ Escalate(w) BY <2>10, SoleVerified
  <2>11. CASE Notify(w) BY <2>11, SoleNotify
  <2>12. CASE ExecuteMission(w) BY <2>12, SoleExecute
  <2>13. CASE ExecuteOther(w) BY <2>13, SoleOther
  <2>14. CASE HandleExecutionResult(w) BY <2>14, SoleHandle
  <2>15. CASE RecordAttempt(w) BY <2>15, SoleRecord
  <2>16. CASE MarkVerifying(w) BY <2>16, SoleVerifying
  <2>. QED
    BY <1>3, <2>1, <2>2, <2>3, <2>4, <2>5, <2>6, <2>7, <2>8, <2>9, <2>10, <2>11, <2>12, <2>13,
       <2>14, <2>15, <2>16 DEF Step
<1>4. CASE Crash(w) BY <1>4, SoleCrash
<1>5. ASSUME NEW v \in Workers, Step(v) \/ Crash(v) PROVE v = w BY <1>5, OnlyRunning
<1>6. ASSUME NEW m \in DOMAIN missions, ResumeApproved(m) PROVE SoleInv(w)' /\ Final
  BY <1>6, SoleResume
<1>. QED BY <1>1, <1>2, <1>3, <1>4, <1>5, <1>6 DEF Next

LEMMA Always_OneInv == Spec => [](RecInv /\ OneInv)
<1>1. Init => RecInv /\ OneInv BY Started, StartsAlone DEF OneInv
<1>2. RecInv /\ OneInv /\ [Next]_vars => (RecInv /\ OneInv)'
  <2>1. SUFFICES ASSUME RecInv, OneInv, [Next]_vars PROVE RecInv' /\ OneInv' OBVIOUS
  <2>2. RecInv' BY <2>1, Kept_RecInv
  <2>3. ASSUME NEW w \in Workers, running' = {w} PROVE SoleInv(w)'
    <3>1. running = {w} BY <2>1, <2>3, SameRunning
    <3>. QED BY <2>1, <3>1, SoleNext DEF OneInv
  <2>. QED BY <2>2, <2>3 DEF OneInv
<1>. QED BY <1>1, <1>2, PTL DEF Spec

(* One worker never books more real attempts than the budget allows: the   *)
(* room can_recover sees is still there when add_attempt takes it, because *)
(* the incident stays open in between and is the component's only one.     *)
THEOREM AttemptsWithinBudget == Spec => []RecordedBudget
<1>1. RecInv /\ OneInv => RecordedBudget
  <2>1. SUFFICES ASSUME RecInv, OneInv, OneWorker, NEW c \in Components
                 PROVE  Cardinality({a \in attempts : a.component = c /\ ~a.simulated}) <= Budget
    BY DEF RecordedBudget
  <2>2. PICK w \in Workers : running = {w} BY <2>1, Alone
  <2>3. BudgetInv BY <2>1, <2>2 DEF OneInv, SoleInv
  <2>. QED BY <2>3 DEF BudgetInv, RealAttempts
<1>. QED BY <1>1, Always_OneInv, PTL

(* Without crashes, a restart the worker made is booked as a real attempt  *)
(* or is about to be: handle_execution_result finds the incident active.   *)
THEOREM RestartsAreBooked == Spec => []RestartAccounted
<1>1. RecInv /\ OneInv => RestartAccounted
  <2>1. SUFFICES ASSUME RecInv, OneInv, OneWorker, crashes = 0, NEW m \in MissionIds,
                        missions[m].ran # None, ~missions[m].unseen
                 PROVE  \/ incidents[missions[m].incident].real = 1
                        \/ \E w \in running : /\ call[w].pc \in {"handle", "record"}
                                              /\ call[w].mission = m
    BY DEF RestartAccounted, MissionIds
  <2>2. PICK w \in Workers : running = {w} BY <2>1, Alone
  <2>3. AccountInv(w) BY <2>1, <2>2 DEF OneInv, SoleInv
  <2>. QED BY <2>1, <2>2, <2>3 DEF AccountInv, Booking
<1>. QED BY <1>1, Always_OneInv, PTL

(* Without crashes, an open incident with a mission is never left to wait  *)
(* for something that has already happened.                                *)
THEOREM NobodyStranded == Spec => []NoStrandedIncident
<1>1. RecInv /\ OneInv => NoStrandedIncident
  <2>1. SUFFICES ASSUME RecInv, OneInv, OneWorker, crashes = 0, NEW i \in IncidentIds,
                        incidents[i].active, incidents[i].mission # 0
                 PROVE  \/ missions[incidents[i].mission].status = "PLANNED"
                        \/ incidents[i].state = "VERIFYING"
                        \/ \E w \in running :
                              /\ call[w].mission = incidents[i].mission
                              /\ call[w].pc \in {"handle", "record", "verifying", "escalate"}
    BY DEF NoStrandedIncident, IncidentIds
  <2>2. PICK w \in Workers : running = {w} BY <2>1, Alone
  <2>3. WaitInv(w) BY <2>1, <2>2 DEF OneInv, SoleInv
  <2>. QED BY <2>1, <2>2, <2>3 DEF WaitInv, Telling
<1>. QED BY <1>1, Always_OneInv, PTL

(* resolve and escalate overwrite the state without reading it; with one   *)
(* worker they are still only reached for an incident that is open.        *)
THEOREM TerminalStays == Spec => TerminalIsFinal
<1>1. ASSUME RecInv, OneInv, [Next]_vars
      PROVE  [OneWorker => \A i \in 1 .. Len(incidents) :
                  ~incidents[i].active => incidents'[i].state = incidents[i].state]_vars
  <2>1. SUFFICES ASSUME OneWorker
                 PROVE  \A i \in 1 .. Len(incidents) :
                          ~incidents[i].active => incidents'[i].state = incidents[i].state
    OBVIOUS
  <2>2. PICK w \in Workers : running = {w} BY <1>1, <2>1, Alone
  <2>3. Final BY <1>1, <2>2, SoleNext DEF OneInv
  <2>. QED BY <2>3 DEF Final, IncidentIds
<1>. QED BY <1>1, Always_OneInv, PTL DEF Spec, TerminalIsFinal
=============================================================================
