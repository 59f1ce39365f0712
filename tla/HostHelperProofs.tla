-------------------------- MODULE HostHelperProofs --------------------------
(***************************************************************************)
(* Proofs about HostHelper, for any callers, calls, targets and limits:    *)
(* an answer "ok" means that the effect is there, exactly once; effects    *)
(* come in the order of the requests; readiness fails closed.              *)
(*                                                                         *)
(* Nothing in the helper remembers what it has done.  That nothing is done *)
(* twice follows from the queue: ids in the backlog are larger than the id *)
(* being served, which is the largest that had an effect (QueueInv), and a *)
(* handler runs its mutating command first and once (JobInv).              *)
(***************************************************************************)
EXTENDS HostHelper, FiniteSetTheorems, TLAPS

Errors == {"authentication_failed", "invalid_request", "invalid_parameters", "unknown_target",
           "timeout", "command_failed", "malformed_response"}
Kinds == {"read", "parse", "probe", "journal", "mutate"}
Units == {None, "controlled-deploy", "controlled-rollback"}
         \cup {ServiceUnits[x] : x \in AllowServices}
         \cup {RecoveryUnits[x] : x \in DOMAIN RecoveryUnits}
Seens == {normalize_readiness(default_readiness_runner(r)) : r \in Replies}

HCall == [who : HostClients, call : HostCalls, reply : Replies \cup {None}, ready : BOOLEAN,
          answer : Errors \cup {None, Unavailable, "ok"}]
HJob == [id : Nat, todo : Seq(Kinds), unit : Units, error : Errors \cup {None}, size : Nat,
         seen : Seens \cup {None}]
HEffect == [id : Nat, unit : Units, late : BOOLEAN]

\* The mutating command of the connection in hand has not been run.
Pending(j) == j.todo # <<>> /\ Head(j.todo) = "mutate"

\* What a handler may hand to the loop that runs its commands for call c.
Planned(j, c) ==
    /\ j \in HJob /\ j.seen = None
    /\ \A k \in 2 .. Len(j.todo) : j.todo[k] # "mutate"
    /\ j.error # None => j.todo = <<>>
    /\ Pending(j) => Mutating(c) /\ j.unit = IntendedUnit(c)
    /\ Mutating(c) /\ j.error = None => Pending(j)

-----------------------------------------------------------------------------
ShapeInv ==
    /\ helperUp \in BOOLEAN /\ socketFile \in BOOLEAN /\ (helperUp => socketFile)
    /\ kills \in 0 .. MaxKills
    /\ hcalls \in Seq(HCall) /\ backlog \in Seq(Nat) /\ job \in HJob
    /\ applied \in Seq(HEffect) /\ landing \in SUBSET HEffect
    /\ \A i \in HostIds : AdapterAccepts(hcalls[i].call)
    /\ \A n \in 1 .. Len(backlog) : backlog[n] \in HostIds
    /\ job.id \in {0} \cup HostIds
    /\ \A n \in 1 .. Len(applied) : applied[n].id \in HostIds
    /\ \A e \in landing : e.id \in HostIds

\* Connections wait in the order of the calls, behind the one being served,
\* and what had an effect came before.
QueueInv ==
    /\ \A n, m \in 1 .. Len(backlog) : n < m => backlog[n] < backlog[m]
    /\ \A n \in 1 .. Len(backlog) :
          /\ job.id < backlog[n]
          /\ \A k \in 1 .. Len(applied) : applied[k].id < backlog[n]
          /\ \A e \in landing : e.id < backlog[n]
    /\ job.id # 0 =>
          /\ \A k \in 1 .. Len(applied) : applied[k].id <= job.id
          /\ \A e \in landing : e.id <= job.id

\* The connection in hand: what is left to do, what has been done.
JobInv ==
    /\ \A k \in 2 .. Len(job.todo) : job.todo[k] # "mutate"
    /\ job.id # 0 =>
          LET c == hcalls[job.id].call
          IN  /\ Pending(job) =>
                    /\ c.cred /\ Mutating(c) /\ job.unit = IntendedUnit(c)
                    /\ \A k \in 1 .. Len(applied) : applied[k].id # job.id
                    /\ \A e \in landing : e.id # job.id
              /\ Mutating(c) /\ job.error = None /\ ~Pending(job) =>
                    \E n \in EffectsOf(job.id) : applied[n].unit = IntendedUnit(c)

\* No two effects belong to one call, whether they have landed or not, and
\* the call was authenticated.
EffectInv ==
    /\ \A n, m \in 1 .. Len(applied) : applied[n].id = applied[m].id => n = m
    /\ \A e, f \in landing : e.id = f.id => e = f
    /\ \A e \in landing, n \in 1 .. Len(applied) : e.id # applied[n].id
    /\ \A n \in 1 .. Len(applied) : hcalls[applied[n].id].call.cred
    /\ \A e \in landing : e.late /\ hcalls[e.id].call.cred

OkInv ==
    \A i \in HostIds :
        hcalls[i].answer = "ok" /\ Mutating(hcalls[i].call) =>
            \E n \in EffectsOf(i) : applied[n].unit = IntendedUnit(hcalls[i].call)

\* What the probe saw is what the endpoint replied to this very call.
ReadyInv ==
    /\ ReadyOnlyIfSaid
    /\ job.id # 0 => ~hcalls[job.id].ready
    /\ \A n \in 1 .. Len(backlog) : ~hcalls[backlog[n]].ready
    /\ job.seen # None =>
          /\ job.id # 0 /\ hcalls[job.id].reply \in Replies
          /\ job.seen = normalize_readiness(default_readiness_runner(hcalls[job.id].reply))

HostInv ==
    /\ ShapeInv /\ QueueInv /\ JobInv /\ EffectInv /\ OkInv /\ ReadyInv /\ NoStaleEffect

USE HostAssumption DEF HostAssumption

-----------------------------------------------------------------------------
(* The handlers: what each of them plans for the calls that reach it.      *)

LEMMA EmptyPlan ==
    /\ NoJob \in HJob /\ NoJob.id = 0 /\ NoJob.todo = <<>> /\ NoJob.seen = None
    /\ NoJob.error = None
<1>1. <<>> \in Seq(Kinds) /\ None \in Units BY DEF Units
<1>. QED BY <1>1 DEF NoJob, HJob

LEMMA RefusalPlan ==
    ASSUME NEW c, NEW e \in Errors
    PROVE  Planned(Failure(e), c)
<1>1. e # None BY DEF Errors
<1>2. /\ Failure(e) \in HJob /\ Failure(e).error = e /\ Failure(e).todo = <<>>
      /\ Failure(e).seen = None
  BY EmptyPlan DEF Failure, HJob
<1>. QED BY <1>1, <1>2 DEF Planned, Pending

LEMMA RunPlan ==
    ASSUME NEW todo \in Seq(Kinds), NEW unit \in Units
    PROVE  /\ Run(todo, unit) \in HJob /\ Run(todo, unit).todo = todo
           /\ Run(todo, unit).unit = unit /\ Run(todo, unit).error = None
           /\ Run(todo, unit).seen = None
BY EmptyPlan DEF Run, HJob

LEMMA ReadPlan ==
    ASSUME NEW c, ~Mutating(c),
           NEW todo \in Seq(Kinds), \A k \in 1 .. Len(todo) : todo[k] # "mutate"
    PROVE  Planned(Run(todo, None), c)
<1>1. None \in Units BY DEF Units
<1>2. todo # <<>> => Head(todo) # "mutate" BY DEF Kinds
<1>. QED BY <1>1, <1>2, RunPlan DEF Planned, Pending, Kinds

LEMMA MutatePlan ==
    ASSUME NEW c, Mutating(c), IntendedUnit(c) \in Units,
           NEW todo \in Seq(Kinds), todo # <<>>, Head(todo) = "mutate",
           \A k \in 2 .. Len(todo) : todo[k] # "mutate"
    PROVE  Planned(Run(todo, IntendedUnit(c)), c)
BY RunPlan DEF Planned, Pending, Kinds

LEMMA Restarting ==
    ASSUME NEW c, Mutating(c), IntendedUnit(c) \in Units
    PROVE  /\ Planned(Run(<<"mutate">>, IntendedUnit(c)), c)
           /\ Planned(Run(<<"mutate", "read">>, IntendedUnit(c)), c)
<1>1. <<"mutate">> \in Seq(Kinds) /\ Head(<<"mutate">>) = "mutate" /\ Len(<<"mutate">>) = 1
  BY DEF Kinds
<1>2. /\ <<"mutate", "read">> \in Seq(Kinds) /\ Head(<<"mutate", "read">>) = "mutate"
      /\ <<"mutate", "read">>[2] = "read" /\ Len(<<"mutate", "read">>) = 2
  BY DEF Kinds
<1>3. <<"mutate">> # <<>> /\ \A k \in 2 .. 1 : <<"mutate">>[k] # "mutate" OBVIOUS
<1>4. <<"mutate", "read">> # <<>> /\ \A k \in 2 .. 2 : <<"mutate", "read">>[k] # "mutate"
  BY <1>2
<1>5. Planned(Run(<<"mutate">>, IntendedUnit(c)), c) BY <1>1, <1>3, MutatePlan
<1>6. Planned(Run(<<"mutate", "read">>, IntendedUnit(c)), c) BY <1>2, <1>4, MutatePlan
<1>. QED BY <1>5, <1>6

LEMMA Executed ==
    ASSUME NEW c, AdapterAccepts(c)
    PROVE  Planned(execute(HelperRequest(c)), c)
<1>. DEFINE r == HelperRequest(c)
<1>1. CASE c.tool = "service.restart"
  <2>1. r.cap = "service.restart" /\ r.target = c.target BY <1>1 DEF HelperRequest
  <2>2. execute(r) = service_restart(r) BY <2>1 DEF execute
  <2>3. Mutating(c) /\ IntendedUnit(c) = ServiceUnits[c.target]
    BY <1>1 DEF Mutating, IntendedUnit
  <2>4. CASE c.target \in AllowServices
    <3>1. IntendedUnit(c) \in Units BY <2>3, <2>4 DEF Units
    <3>2. Planned(Run(<<"mutate", "read">>, IntendedUnit(c)), c)
      BY <2>3, <3>1, Restarting
    <3>. QED BY <2>1, <2>2, <2>3, <2>4, <3>2 DEF service_restart
  <2>5. CASE c.target \notin AllowServices
    BY <2>1, <2>2, <2>5, RefusalPlan DEF service_restart, Errors
  <2>. QED BY <2>4, <2>5
<1>2. CASE c.tool = "service.recover"
  <2>1. r.cap = "service.recover" /\ r.component = c.component BY <1>2 DEF HelperRequest
  <2>2. execute(r) = service_recover(r) BY <2>1 DEF execute
  <2>3. Mutating(c) /\ IntendedUnit(c) = RecoveryUnits[c.component]
    BY <1>2 DEF Mutating, IntendedUnit
  <2>4. CASE r.target = "dripvid" /\ r.names = {"component"} /\ c.component \in DOMAIN RecoveryUnits
    <3>1. IntendedUnit(c) \in Units BY <2>3, <2>4 DEF Units
    <3>2. Planned(Run(<<"mutate", "read">>, IntendedUnit(c)), c)
      BY <2>3, <3>1, Restarting
    <3>. QED BY <2>1, <2>2, <2>3, <2>4, <3>2 DEF service_recover
  <2>5. CASE ~(r.target = "dripvid" /\ r.names = {"component"} /\ c.component \in DOMAIN RecoveryUnits)
    BY <2>1, <2>2, <2>5, RefusalPlan DEF service_recover, Errors
  <2>. QED BY <2>4, <2>5
<1>3. CASE c.tool = "deployment.deploy"
  <2>1. execute(r) = deployment_deploy(r) BY <1>3 DEF HelperRequest, execute
  <2>2. Mutating(c) /\ IntendedUnit(c) = "controlled-deploy" BY <1>3 DEF Mutating, IntendedUnit
  <2>3. Planned(Run(<<"mutate">>, "controlled-deploy"), c)
    BY <2>2, Restarting DEF Units
  <2>. QED BY <2>1, <2>3, RefusalPlan DEF deployment_deploy, Errors
<1>4. CASE c.tool = "deployment.rollback"
  <2>1. execute(r) = deployment_rollback(r) BY <1>4 DEF HelperRequest, execute
  <2>2. Mutating(c) /\ IntendedUnit(c) = "controlled-rollback"
    BY <1>4 DEF Mutating, IntendedUnit
  <2>3. Planned(Run(<<"mutate">>, "controlled-rollback"), c)
    BY <2>2, Restarting DEF Units
  <2>. QED BY <2>1, <2>3, RefusalPlan DEF deployment_rollback, Errors
<1>5. CASE c.tool \in {"system.health.read", "service.status.read", "service.logs.read",
                       "dripvid.readiness", "host.resources", "container.status"}
  <2>1. ~Mutating(c) BY <1>5 DEF Mutating
  <2>2. /\ Planned(Run(<<"read", "read">>, None), c)
        /\ Planned(Run(<<"read", "read", "parse">>, None), c)
        /\ Planned(Run(<<"probe">>, None), c)
        /\ Planned(Run(<<"read">>, None), c)
        /\ Planned(Run(<<"parse">>, None), c)
        /\ Planned(Run(<<"journal">>, None), c)
    <3>1. /\ <<"read", "read">> \in Seq(Kinds) /\ <<"read", "read", "parse">> \in Seq(Kinds)
          /\ <<"probe">> \in Seq(Kinds) /\ <<"read">> \in Seq(Kinds)
          /\ <<"parse">> \in Seq(Kinds) /\ <<"journal">> \in Seq(Kinds)
      BY DEF Kinds
    <3>2. ASSUME NEW s \in {<<"read", "read">>, <<"read", "read", "parse">>, <<"probe">>,
                            <<"read">>, <<"parse">>, <<"journal">>}
          PROVE  \A k \in 1 .. Len(s) : s[k] # "mutate"
      OBVIOUS
    <3>. QED BY <2>1, <3>1, <3>2, ReadPlan
  <2>3. r.cap \in {"host.health", "service.status", "logs.recent", "dripvid.readiness",
                   "host.resources", "container.status"}
    BY <1>5 DEF HelperRequest
  <2>4. execute(r) \in {host_health(r), service_status(r), logs_recent(r),
                        dripvid_readiness(r), host_resources(r), container_status(r)}
    BY <2>3 DEF execute
  <2>5. "unknown_target" \in Errors /\ "invalid_parameters" \in Errors BY DEF Errors
  <2>. QED BY <2>2, <2>4, <2>5, RefusalPlan
           DEF host_health, service_status, logs_recent, dripvid_readiness, host_resources,
               container_status
<1>. QED BY <1>1, <1>2, <1>3, <1>4, <1>5
         DEF AdapterAccepts, ReadinessProbe, SysadminRoute, SystemHealthAdapter,
             ServiceStatusAdapter, ServiceLogsAdapter, ServiceRestartAdapter,
             ServiceRecoverAdapter, DeploymentDeployAdapter, DeploymentRollbackAdapter

(* A request without the credential never gets as far as a command.        *)
LEMMA Handled ==
    ASSUME NEW i \in HostIds, AdapterAccepts(hcalls[i].call)
    PROVE  /\ Planned(HandlePayload(i), hcalls[i].call)
           /\ Pending(HandlePayload(i)) => hcalls[i].call.cred
<1>1. "authentication_failed" \in Errors /\ "invalid_request" \in Errors BY DEF Errors
<1>2. \A e \in Errors : ~Pending(Failure(e)) BY DEF Pending, Failure, NoJob
<1>. QED BY <1>1, <1>2, Executed, RefusalPlan DEF HandlePayload

-----------------------------------------------------------------------------
(* What the parts of a step do to the invariant.                           *)

LEMMA InitHost == HostInit => HostInv
<1>. SUFFICES ASSUME HostInit PROVE HostInv OBVIOUS
<1>1. hcalls = <<>> /\ backlog = <<>> /\ applied = <<>> /\ landing = {} /\ job = NoJob
  BY DEF HostInit
<1>2. Len(hcalls) = 0 /\ Len(backlog) = 0 /\ Len(applied) = 0 /\ Len(job.todo) = 0
  BY <1>1, EmptyPlan
<1>3. ShapeInv
  <2>1. helperUp \in BOOLEAN /\ socketFile \in BOOLEAN /\ (helperUp => socketFile)
    BY Zenon DEF HostInit
  <2>2. kills \in 0 .. MaxKills BY DEF HostInit
  <2>3. hcalls \in Seq(HCall) /\ backlog \in Seq(Nat) /\ applied \in Seq(HEffect) BY <1>1
  <2>. QED BY <1>1, <1>2, <2>1, <2>2, <2>3, EmptyPlan DEF ShapeInv, HostIds
<1>4. QueueInv BY <1>1, <1>2, EmptyPlan DEF QueueInv
<1>5. JobInv BY <1>1, <1>2, EmptyPlan DEF JobInv
<1>6. EffectInv /\ NoStaleEffect BY <1>1, <1>2 DEF EffectInv, NoStaleEffect
<1>7. OkInv /\ ReadyInv BY <1>1, <1>2, EmptyPlan DEF OkInv, ReadyInv, ReadyOnlyIfSaid, HostIds
<1>. QED BY <1>3, <1>4, <1>5, <1>6, <1>7 DEF HostInv

\* The calls stay what they were, and no success is added.
Kept ==
    /\ hcalls' \in Seq(HCall) /\ Len(hcalls') = Len(hcalls)
    /\ \A i \in HostIds :
          /\ hcalls'[i].call = hcalls[i].call
          /\ hcalls'[i].answer = "ok" => hcalls[i].answer = "ok"

LEMMA SameEffects ==
    ASSUME HostInv, Kept, UNCHANGED <<applied, landing>>
    PROVE  EffectInv' /\ OkInv' /\ NoStaleEffect'
<1>1. EffectInv' BY DEF HostInv, EffectInv, Kept, ShapeInv, HostIds
<1>2. OkInv' BY DEF HostInv, OkInv, Kept, HostIds, EffectsOf
<1>3. NoStaleEffect' BY DEF HostInv, NoStaleEffect
<1>. QED BY <1>1, <1>2, <1>3

\* The effect of the connection in hand is the last so far, and its first.
LEMMA NewEffect ==
    ASSUME HostInv, Kept, UNCHANGED landing, job.id # 0, Pending(job),
           applied' = Append(applied, Effect)
    PROVE  /\ EffectInv' /\ OkInv' /\ NoStaleEffect'
           /\ applied' \in Seq(HEffect) /\ Len(applied') = Len(applied) + 1
           /\ \A n \in 1 .. Len(applied) : applied'[n] = applied[n]
           /\ applied'[Len(applied) + 1] = Effect
<1>1. Effect \in HEffect /\ Effect.id = job.id /\ job.id \in HostIds /\ job.id \in Nat
  BY DEF HostInv, ShapeInv, Effect, HEffect, HJob
<1>2. /\ applied \in Seq(HEffect) /\ applied' \in Seq(HEffect)
      /\ Len(applied') = Len(applied) + 1 /\ Len(applied) \in Nat
      /\ \A n \in 1 .. Len(applied) : applied'[n] = applied[n]
      /\ applied'[Len(applied) + 1] = Effect
  BY <1>1 DEF HostInv, ShapeInv
<1>3. /\ hcalls[job.id].call.cred
      /\ \A k \in 1 .. Len(applied) : applied[k].id # job.id /\ applied[k].id <= job.id
      /\ \A e \in landing : e.id # job.id
  BY DEF HostInv, JobInv, QueueInv
<1>4. EffectInv'
  <2>1. \A n, m \in 1 .. Len(applied') : applied'[n].id = applied'[m].id => n = m
    BY <1>1, <1>2, <1>3 DEF HostInv, EffectInv
  <2>2. \A e \in landing', n \in 1 .. Len(applied') : e.id # applied'[n].id
    BY <1>1, <1>2, <1>3 DEF HostInv, EffectInv
  <2>3. ASSUME NEW n \in 1 .. Len(applied') PROVE hcalls'[applied'[n].id].call.cred
    <3>1. CASE n \in 1 .. Len(applied)
      <4>1. applied'[n] = applied[n] /\ applied[n].id \in HostIds BY <1>2, <3>1 DEF HostInv, ShapeInv
      <4>2. hcalls[applied[n].id].call.cred BY <3>1 DEF HostInv, EffectInv
      <4>. QED BY <4>1, <4>2 DEF Kept
    <3>2. CASE n = Len(applied) + 1 BY <1>1, <1>2, <1>3, <3>2 DEF Kept
    <3>. QED BY <1>2, <3>1, <3>2
  <2>4. \A e \in landing' : e.late /\ hcalls'[e.id].call.cred
    BY DEF HostInv, EffectInv, ShapeInv, Kept
  <2>5. \A e, f \in landing' : e.id = f.id => e = f BY DEF HostInv, EffectInv
  <2>. QED BY <2>1, <2>2, <2>3, <2>4, <2>5 DEF EffectInv
<1>5. OkInv'
  <2>1. SUFFICES ASSUME NEW i \in HostIds, hcalls[i].answer = "ok", Mutating(hcalls[i].call)
                 PROVE  \E n \in EffectsOf(i)' : applied'[n].unit = IntendedUnit(hcalls[i].call)
    BY DEF OkInv, Kept, HostIds
  <2>2. PICK n \in EffectsOf(i) : applied[n].unit = IntendedUnit(hcalls[i].call)
    BY <2>1 DEF HostInv, OkInv
  <2>3. n \in EffectsOf(i)' /\ applied'[n] = applied[n] BY <1>2, <2>2 DEF EffectsOf
  <2>. QED BY <2>2, <2>3
<1>6. NoStaleEffect'
  <2>1. SUFFICES ASSUME NEW n \in 1 .. Len(applied'), NEW m \in 1 .. Len(applied'),
                        n < m, ~applied'[m].late
                 PROVE  applied'[n].id <= applied'[m].id
    BY DEF NoStaleEffect
  <2>2. n \in 1 .. Len(applied) BY <1>2, <2>1
  <2>3. CASE m \in 1 .. Len(applied) BY <1>2, <2>1, <2>2, <2>3 DEF HostInv, NoStaleEffect
  <2>4. CASE m = Len(applied) + 1 BY <1>1, <1>2, <1>3, <2>2, <2>4
  <2>. QED BY <1>2, <2>3, <2>4
<1>. QED BY <1>2, <1>4, <1>5, <1>6

\* A command that is cut short leaves one effect under way, its only one.
LEMMA LateEffect ==
    ASSUME HostInv, Kept, UNCHANGED applied, job.id # 0, Pending(job),
           landing' = landing \cup {[Effect EXCEPT !.late = TRUE]}
    PROVE  /\ EffectInv' /\ OkInv' /\ NoStaleEffect'
           /\ landing' \in SUBSET HEffect /\ \A e \in landing' : e.id \in HostIds
<1>. DEFINE late == [Effect EXCEPT !.late = TRUE]
<1>1. /\ late \in HEffect /\ late.id = job.id /\ late.late /\ job.id \in HostIds
      /\ landing \in SUBSET HEffect /\ \A e \in landing : e.id \in HostIds
  BY DEF HostInv, ShapeInv, Effect, HEffect, HJob
<1>2. /\ hcalls[job.id].call.cred
      /\ \A k \in 1 .. Len(applied) : applied[k].id # job.id
      /\ \A e \in landing : e.id # job.id
  BY DEF HostInv, JobInv
<1>. HIDE DEF late
<1>3. landing' = landing \cup {late} BY DEF late
<1>4. EffectInv'
  <2>1. \A e, f \in landing' : e.id = f.id => e = f BY <1>1, <1>2, <1>3 DEF HostInv, EffectInv
  <2>2. \A e \in landing', n \in 1 .. Len(applied') : e.id # applied'[n].id
    BY <1>1, <1>2, <1>3 DEF HostInv, EffectInv
  <2>3. \A e \in landing' : e.late /\ hcalls'[e.id].call.cred
    BY <1>1, <1>2, <1>3 DEF HostInv, EffectInv, Kept
  <2>4. \A n \in 1 .. Len(applied') : hcalls'[applied'[n].id].call.cred
    BY DEF HostInv, ShapeInv, EffectInv, Kept
  <2>. QED BY <2>1, <2>2, <2>3, <2>4 DEF HostInv, EffectInv
<1>5. OkInv' BY DEF HostInv, OkInv, Kept, HostIds, EffectsOf
<1>6. NoStaleEffect' BY DEF HostInv, NoStaleEffect
<1>. QED BY <1>1, <1>3, <1>4, <1>5, <1>6

\* The process ends: whoever waits is told nothing, nothing is in hand.
LEMMA EndsKeeps ==
    ASSUME HostInv, NEW stays \in BOOLEAN, Ends(stays)
    PROVE  /\ Kept /\ ReadyInv' /\ JobInv'
           /\ \A i \in HostIds : AdapterAccepts(hcalls'[i].call)
<1>1. /\ hcalls' \in Seq(HCall) /\ Len(hcalls') = Len(hcalls)
      /\ \A i \in HostIds : hcalls'[i] \in {hcalls[i], [hcalls[i] EXCEPT !.answer = Unavailable]}
  <2>1. /\ hcalls \in Seq(HCall) /\ Len(hcalls) \in Nat
        /\ \A i \in 1 .. Len(hcalls) : hcalls[i] \in HCall
    BY DEF HostInv, ShapeInv
  <2>2. hcalls' = [i \in 1 .. Len(hcalls) |->
                    IF Waiting(i) THEN [hcalls[i] EXCEPT !.answer = Unavailable]
                    ELSE hcalls[i]]
    BY DEF Ends
  <2>3. \A c \in HCall : [c EXCEPT !.answer = Unavailable] \in HCall BY DEF HCall
  <2>4. \A i \in 1 .. Len(hcalls) :
          (IF Waiting(i) THEN [hcalls[i] EXCEPT !.answer = Unavailable] ELSE hcalls[i]) \in HCall
    BY <2>1, <2>3
  <2>. QED BY <2>1, <2>2, <2>4 DEF HostIds
<1>2. \A i \in HostIds : /\ hcalls[i] \in HCall
                         /\ hcalls'[i].call = hcalls[i].call
                         /\ hcalls'[i].ready = hcalls[i].ready
                         /\ hcalls'[i].reply = hcalls[i].reply
                         /\ hcalls'[i].answer = "ok" => hcalls[i].answer = "ok"
  <2>1. \A c \in HCall : LET d == [c EXCEPT !.answer = Unavailable]
                         IN  /\ d.call = c.call /\ d.ready = c.ready /\ d.reply = c.reply
                             /\ d.answer # "ok"
    BY DEF HCall, Unavailable
  <2>2. \A i \in HostIds : hcalls[i] \in HCall BY DEF HostInv, ShapeInv, HostIds
  <2>. QED BY <1>1, <2>1, <2>2
<1>3. job' = NoJob /\ backlog' = <<>> /\ Len(backlog') = 0 /\ Len(job'.todo) = 0
  BY EmptyPlan DEF Ends
<1>4. Kept BY <1>1, <1>2 DEF Kept
<1>5. ReadyInv'
  BY <1>1, <1>2, <1>3, EmptyPlan DEF HostInv, ReadyInv, ReadyOnlyIfSaid, HostIds
<1>6. JobInv' BY <1>3, EmptyPlan DEF JobInv
<1>. QED BY <1>2, <1>4, <1>5, <1>6 DEF HostInv, ShapeInv

LEMMA EndsStep ==
    ASSUME HostInv, NEW stays \in BOOLEAN, Ends(stays), kills' \in 0 .. MaxKills,
           UNCHANGED <<applied, landing>> \/ (job.id # 0 /\ Pending(job) /\ CutShort)
    PROVE  HostInv'
<1>. DEFINE Nothing == UNCHANGED <<applied, landing>>
            Now == job.id # 0 /\ Pending(job) /\ applied' = Append(applied, Effect) /\ UNCHANGED landing
            Later == /\ job.id # 0 /\ Pending(job) /\ UNCHANGED applied
                     /\ landing' = landing \cup {[Effect EXCEPT !.late = TRUE]}
<1>0. Nothing \/ Now \/ Later BY DEF CutShort
<1>1. Kept /\ ReadyInv' /\ JobInv' /\ \A i \in HostIds : AdapterAccepts(hcalls'[i].call)
  BY EndsKeeps
<1>2. EffectInv' /\ OkInv' /\ NoStaleEffect'
  BY <1>0, <1>1, SameEffects, NewEffect, LateEffect
<1>3. /\ applied' \in Seq(HEffect) /\ landing' \in SUBSET HEffect
      /\ \A n \in 1 .. Len(applied') : applied'[n].id \in HostIds
      /\ \A e \in landing' : e.id \in HostIds
  <2>1. CASE Nothing BY <2>1 DEF HostInv, ShapeInv
  <2>2. CASE Now
    <3>1. Effect.id = job.id /\ job.id \in HostIds BY <2>2 DEF HostInv, ShapeInv, Effect
    <3>. QED BY <1>1, <2>2, <3>1, NewEffect DEF HostInv, ShapeInv
  <2>3. CASE Later BY <1>1, <2>3, LateEffect DEF HostInv, ShapeInv
  <2>. QED BY <1>0, <2>1, <2>2, <2>3
<1>4. job' = NoJob /\ backlog' = <<>> /\ helperUp' = FALSE /\ socketFile' = stays /\ HostIds' = HostIds
  BY <1>1 DEF Ends, Kept, HostIds
<1>5. ShapeInv'
  <2>1. helperUp' \in BOOLEAN /\ socketFile' \in BOOLEAN /\ ~helperUp' BY <1>4
  <2>2. backlog' \in Seq(Nat) /\ Len(backlog') = 0 BY <1>4
  <2>. QED BY <1>1, <1>3, <1>4, <2>1, <2>2, EmptyPlan DEF ShapeInv, Kept
<1>6. QueueInv' BY <1>4, EmptyPlan DEF QueueInv
<1>. QED BY <1>1, <1>2, <1>5, <1>6 DEF HostInv

-----------------------------------------------------------------------------
(* The actions                                                             *)

LEMMA CallStep ==
    ASSUME HostInv, NEW w \in HostClients, NEW c \in HostCalls, Call(w, c)
    PROVE  HostInv'
<1>. DEFINE new == [who |-> w, call |-> c, reply |-> None, ready |-> FALSE,
                    answer |-> IF helperUp THEN None ELSE Unavailable]
<1>1. /\ new \in HCall /\ new.call = c /\ new.ready = FALSE /\ new.answer # "ok"
      /\ AdapterAccepts(c)
  BY DEF Call, HCall, Unavailable
<1>2. /\ hcalls \in Seq(HCall) /\ Len(hcalls) \in Nat /\ hcalls' = Append(hcalls, new)
      /\ backlog \in Seq(Nat) /\ Len(backlog) \in Nat
      /\ UNCHANGED <<helperUp, socketFile, job, applied, landing, kills>>
  BY DEF Call, HostInv, ShapeInv
<1>. HIDE DEF new
<1>3. /\ hcalls' \in Seq(HCall) /\ Len(hcalls') = Len(hcalls) + 1
      /\ \A i \in HostIds : i \in HostIds' /\ hcalls'[i] = hcalls[i]
      /\ Len(hcalls) + 1 \in HostIds' /\ hcalls'[Len(hcalls) + 1] = new
      /\ \A i \in HostIds' : i \in HostIds \/ i = Len(hcalls) + 1
  BY <1>1, <1>2 DEF HostIds
<1>4. /\ backlog' \in Seq(Nat)
      /\ \A n \in 1 .. Len(backlog') :
            \/ n \in 1 .. Len(backlog) /\ backlog'[n] = backlog[n]
            \/ n = Len(backlog) + 1 /\ backlog'[n] = Len(hcalls) + 1
  <2>1. CASE helperUp
    <3>1. backlog' = Append(backlog, Len(hcalls) + 1) BY <2>1 DEF Call
    <3>. QED BY <1>2, <3>1
  <2>2. CASE ~helperUp BY <1>2, <2>2 DEF Call
  <2>. QED BY <2>1, <2>2
<1>5. ShapeInv'
  <2>1. \A i \in HostIds' : AdapterAccepts(hcalls'[i].call)
    BY <1>1, <1>3 DEF HostInv, ShapeInv
  <2>2. \A n \in 1 .. Len(backlog') : backlog'[n] \in HostIds'
    BY <1>3, <1>4 DEF HostInv, ShapeInv
  <2>3. \A i \in {0} \cup HostIds : i \in {0} \cup HostIds' BY <1>3
  <2>4. /\ job.id \in {0} \cup HostIds' /\ \A n \in 1 .. Len(applied) : applied[n].id \in HostIds'
        /\ \A e \in landing : e.id \in HostIds'
    BY <1>3, <2>3 DEF HostInv, ShapeInv
  <2>. QED BY <1>2, <1>3, <1>4, <2>1, <2>2, <2>4 DEF HostInv, ShapeInv
<1>6. QueueInv'
  <2>1. /\ job.id < Len(hcalls) + 1
        /\ \A n \in 1 .. Len(backlog) : backlog[n] < Len(hcalls) + 1
        /\ \A k \in 1 .. Len(applied) : applied[k].id < Len(hcalls) + 1
        /\ \A e \in landing : e.id < Len(hcalls) + 1
    <3>1. \A i \in HostIds : i < Len(hcalls) + 1 BY <1>2 DEF HostIds
    <3>2. job.id < Len(hcalls) + 1 BY <1>2, <3>1 DEF HostInv, ShapeInv
    <3>. QED BY <3>1, <3>2 DEF HostInv, ShapeInv
  <2>2. ASSUME NEW n \in 1 .. Len(backlog'), NEW m \in 1 .. Len(backlog'), n < m
        PROVE  backlog'[n] < backlog'[m]
    <3>1. Len(backlog') \in Nat BY <1>4
    <3>2. CASE m \in 1 .. Len(backlog) /\ backlog'[m] = backlog[m]
      <4>1. n \in 1 .. Len(backlog) /\ backlog'[n] = backlog[n] BY <1>2, <1>4, <2>2, <3>1, <3>2
      <4>. QED BY <2>2, <3>2, <4>1 DEF HostInv, QueueInv
    <3>3. CASE m = Len(backlog) + 1 /\ backlog'[m] = Len(hcalls) + 1
      <4>1. n \in 1 .. Len(backlog) /\ backlog'[n] = backlog[n] BY <1>2, <1>4, <2>2, <3>1, <3>3
      <4>. QED BY <2>1, <3>3, <4>1
    <3>. QED BY <1>4, <3>2, <3>3
  <2>3. \A n \in 1 .. Len(backlog') :
          /\ job.id < backlog'[n]
          /\ \A k \in 1 .. Len(applied) : applied[k].id < backlog'[n]
          /\ \A e \in landing : e.id < backlog'[n]
    BY <1>4, <2>1 DEF HostInv, QueueInv
  <2>. QED BY <1>2, <2>2, <2>3 DEF HostInv, QueueInv
<1>7. JobInv'
  <2>1. job.id # 0 => hcalls'[job.id] = hcalls[job.id] BY <1>3 DEF HostInv, ShapeInv
  <2>. QED BY <1>2, <2>1 DEF HostInv, JobInv, EffectsOf
<1>8. EffectInv' /\ NoStaleEffect'
  <2>1. /\ \A n \in 1 .. Len(applied) : hcalls'[applied[n].id] = hcalls[applied[n].id]
        /\ \A e \in landing : hcalls'[e.id] = hcalls[e.id]
    BY <1>3 DEF HostInv, ShapeInv
  <2>. QED BY <1>2, <2>1 DEF HostInv, EffectInv, NoStaleEffect
<1>9. OkInv'
  <2>1. SUFFICES ASSUME NEW i \in HostIds', hcalls'[i].answer = "ok", Mutating(hcalls'[i].call)
                 PROVE  \E n \in EffectsOf(i)' : applied'[n].unit = IntendedUnit(hcalls'[i].call)
    BY DEF OkInv
  <2>2. i \in HostIds /\ hcalls'[i] = hcalls[i] BY <1>1, <1>3, <2>1
  <2>3. \E n \in EffectsOf(i) : applied[n].unit = IntendedUnit(hcalls[i].call)
    BY <2>1, <2>2 DEF HostInv, OkInv
  <2>. QED BY <1>2, <2>2, <2>3 DEF EffectsOf
<1>10. ReadyInv'
  <2>1. ReadyOnlyIfSaid' BY <1>1, <1>3 DEF HostInv, ReadyInv, ReadyOnlyIfSaid
  <2>2. job.id # 0 => hcalls'[job.id] = hcalls[job.id] BY <1>3 DEF HostInv, ShapeInv
  <2>3. \A n \in 1 .. Len(backlog) : hcalls'[backlog[n]] = hcalls[backlog[n]]
    BY <1>3 DEF HostInv, ShapeInv
  <2>4. \A n \in 1 .. Len(backlog') : ~hcalls'[backlog'[n]].ready
    BY <1>1, <1>3, <1>4, <2>3 DEF HostInv, ReadyInv
  <2>. QED BY <1>2, <2>1, <2>2, <2>4 DEF HostInv, ReadyInv
<1>. QED BY <1>5, <1>6, <1>7, <1>8, <1>9, <1>10 DEF HostInv

LEMMA GiveUpStep ==
    ASSUME HostInv, NEW i \in HostIds, GiveUp(i)
    PROVE  HostInv'
<1>1. /\ hcalls \in Seq(HCall) /\ hcalls[i] \in HCall /\ Len(hcalls) \in Nat
      /\ hcalls' = [hcalls EXCEPT ![i] = [hcalls[i] EXCEPT !.answer = Unavailable]]
      /\ UNCHANGED <<helperUp, socketFile, backlog, job, applied, landing, kills>>
  BY DEF GiveUp, Answered, HostInv, ShapeInv, HostIds
<1>2. [hcalls[i] EXCEPT !.answer = Unavailable] \in HCall BY <1>1 DEF HCall
<1>3. /\ hcalls' \in Seq(HCall) /\ Len(hcalls') = Len(hcalls) /\ HostIds' = HostIds
      /\ \A k \in HostIds : /\ hcalls'[k].call = hcalls[k].call
                            /\ hcalls'[k].ready = hcalls[k].ready
                            /\ hcalls'[k].reply = hcalls[k].reply
                            /\ hcalls'[k].answer = "ok" => hcalls[k].answer = "ok"
  BY <1>1, <1>2 DEF HostIds, HCall, Unavailable
<1>4. Kept BY <1>3 DEF Kept
<1>5. EffectInv' /\ OkInv' /\ NoStaleEffect' BY <1>1, <1>4, SameEffects
<1>6. ShapeInv' BY <1>1, <1>3 DEF HostInv, ShapeInv
<1>7. QueueInv' BY <1>1 DEF HostInv, QueueInv
<1>8. JobInv' BY <1>1, <1>3 DEF HostInv, ShapeInv, JobInv, EffectsOf
<1>9. ReadyInv' BY <1>1, <1>3 DEF HostInv, ShapeInv, ReadyInv, ReadyOnlyIfSaid
<1>. QED BY <1>5, <1>6, <1>7, <1>8, <1>9 DEF HostInv

LEMMA AcceptStep ==
    ASSUME HostInv, NEW i \in HostIds, Accept(i)
    PROVE  HostInv'
<1>. DEFINE j == HandlePayload(i)
            c == hcalls[i].call
<1>1. Planned(j, c) /\ (Pending(j) => c.cred) BY Handled DEF HostInv, ShapeInv
<1>2. /\ job' = [j EXCEPT !.id = i] /\ backlog' = Tail(backlog) /\ backlog # <<>>
      /\ i = Head(backlog) /\ backlog \in Seq(Nat)
      /\ UNCHANGED <<helperUp, socketFile, hcalls, applied, landing, kills>>
  BY DEF Accept, HostInv, ShapeInv
<1>. HIDE DEF j
<1>3. /\ job' \in HJob /\ job'.id = i /\ job'.todo = j.todo /\ job'.unit = j.unit
      /\ job'.error = j.error /\ job'.seen = None /\ i \in Nat /\ i # 0
  <2>1. \A k \in HJob, n \in Nat :
          LET e == [k EXCEPT !.id = n]
          IN  /\ e \in HJob /\ e.id = n /\ e.todo = k.todo /\ e.unit = k.unit
              /\ e.error = k.error /\ e.seen = k.seen
    BY DEF HJob
  <2>2. j \in HJob /\ j.seen = None /\ i \in Nat /\ i # 0 BY <1>1 DEF Planned, HostIds
  <2>. QED BY <1>2, <2>1, <2>2
<1>4. Pending(job') <=> Pending(j) BY <1>3 DEF Pending
<1>5. /\ backlog' \in Seq(Nat) /\ Len(backlog) \in Nat /\ 1 \in 1 .. Len(backlog) /\ i = backlog[1]
      /\ \A n \in 1 .. Len(backlog') : n + 1 \in 1 .. Len(backlog) /\ backlog'[n] = backlog[n + 1]
  BY <1>2
<1>6. /\ \A k \in 1 .. Len(applied) : applied[k].id < i
      /\ \A e \in landing : e.id < i
  BY <1>5 DEF HostInv, QueueInv
<1>7. /\ \A k \in 1 .. Len(applied) : applied[k].id \in Nat
      /\ \A e \in landing : e.id \in Nat
  BY DEF HostInv, ShapeInv, HostIds
<1>8. Kept BY <1>2 DEF Kept, HostInv, ShapeInv
<1>9. EffectInv' /\ OkInv' /\ NoStaleEffect' BY <1>2, <1>8, SameEffects
<1>10. ShapeInv' BY <1>2, <1>3, <1>5 DEF HostInv, ShapeInv, HostIds
<1>11. QueueInv'
  <2>1. \A n \in 1 .. Len(backlog') : i < backlog'[n] BY <1>5 DEF HostInv, QueueInv
  <2>2. \A n, m \in 1 .. Len(backlog') : n < m => backlog'[n] < backlog'[m]
    BY <1>5 DEF HostInv, QueueInv
  <2>3. \A n \in 1 .. Len(backlog') : /\ \A k \in 1 .. Len(applied) : applied[k].id < backlog'[n]
                                      /\ \A e \in landing : e.id < backlog'[n]
    BY <1>5 DEF HostInv, QueueInv
  <2>. QED BY <1>2, <1>3, <1>6, <1>7, <2>1, <2>2, <2>3 DEF QueueInv
<1>12. JobInv'
  <2>1. \A k \in 2 .. Len(job'.todo) : job'.todo[k] # "mutate" BY <1>1, <1>3 DEF Planned
  <2>2. Pending(job') => /\ c.cred /\ Mutating(c) /\ job'.unit = IntendedUnit(c)
                         /\ \A k \in 1 .. Len(applied) : applied[k].id # i
                         /\ \A e \in landing : e.id # i
    BY <1>1, <1>3, <1>4, <1>6, <1>7 DEF Planned
  <2>3. Mutating(c) /\ job'.error = None => Pending(job') BY <1>1, <1>3, <1>4 DEF Planned
  <2>. QED BY <1>2, <1>3, <2>1, <2>2, <2>3 DEF JobInv
<1>13. ReadyInv'
  <2>1. ~hcalls[i].ready BY <1>5 DEF HostInv, ReadyInv
  <2>2. \A n \in 1 .. Len(backlog') : ~hcalls[backlog'[n]].ready
    BY <1>5 DEF HostInv, ReadyInv
  <2>. QED BY <1>2, <1>3, <2>1, <2>2 DEF HostInv, ReadyInv, ReadyOnlyIfSaid, HostIds
<1>. QED BY <1>9, <1>10, <1>11, <1>12, <1>13 DEF HostInv

(* A command of the connection in hand is over and no mutating one is left *)
(* for it: whether the mutating one succeeded is in the error.             *)
LEMMA GoneOn ==
    ASSUME HostInv, job.id # 0, job' \in HJob, job'.id = job.id, job'.unit = job.unit,
           job'.todo \in {<<>>, Tail(job.todo)}, job.todo # <<>>
    PROVE  ~Pending(job') /\ \A k \in 1 .. Len(job'.todo) : job'.todo[k] # "mutate"
<1>1. job.todo \in Seq(Kinds) /\ \A k \in 2 .. Len(job.todo) : job.todo[k] # "mutate"
  BY DEF HostInv, ShapeInv, HJob, JobInv
<1>2. CASE job'.todo = <<>> BY <1>2 DEF Pending
<1>3. CASE job'.todo = Tail(job.todo)
  <2>1. /\ Len(job.todo) \in Nat /\ Len(job'.todo) = Len(job.todo) - 1
        /\ \A k \in 1 .. Len(job'.todo) : job'.todo[k] = job.todo[k + 1]
    BY <1>1, <1>3
  <2>2. \A k \in 1 .. Len(job'.todo) : job'.todo[k] # "mutate"
    BY <1>1, <2>1
  <2>3. job'.todo \in Seq(Kinds) BY <1>1, <1>3
  <2>4. job'.todo # <<>> => Head(job'.todo) = job'.todo[1] /\ 1 \in 1 .. Len(job'.todo)
    BY <2>3
  <2>. QED BY <2>2, <2>4 DEF Pending
<1>. QED BY <1>2, <1>3

LEMMA ObserveStep ==
    ASSUME HostInv, Observe
    PROVE  HostInv'
<1>1. /\ job.id # 0 /\ job.id \in HostIds /\ job.todo # <<>> /\ ~Pending(job) /\ job \in HJob
      /\ UNCHANGED <<helperUp, socketFile, backlog, applied, landing, kills>>
  BY DEF Observe, HostInv, ShapeInv, Pending
<1>2. job.todo \in Seq(Kinds) /\ Tail(job.todo) \in Seq(Kinds) /\ <<>> \in Seq(Kinds)
  <2>1. job.todo \in Seq(Kinds) BY <1>1 DEF HJob
  <2>. QED BY <1>1, <2>1
<1>. DEFINE Read == /\ UNCHANGED hcalls /\ job'.seen = job.seen
                    /\ job'.error = None => job.error = None
            Probed == \E reply \in Replies :
                         /\ job' = [job EXCEPT !.todo = Tail(@),
                                      !.seen = normalize_readiness(default_readiness_runner(reply))]
                         /\ hcalls' = [hcalls EXCEPT ![job.id].reply = reply]
<1>4. \/ \E e \in Errors : job' = [job EXCEPT !.todo = <<>>, !.error = e] /\ UNCHANGED hcalls
      \/ \E n \in Nat : job' = [job EXCEPT !.todo = Tail(@), !.size = n] /\ UNCHANGED hcalls
      \/ job' = [job EXCEPT !.todo = Tail(@)] /\ UNCHANGED hcalls
      \/ Probed
  <2>1. \A n \in LogSizes : (IF n > MAX_RESPONSE_BYTES THEN MAX_RESPONSE_BYTES ELSE n) \in Nat
    OBVIOUS
  <2>. QED BY <2>1 DEF Observe, Errors
<1>5. /\ job' \in HJob /\ job'.id = job.id /\ job'.unit = job.unit
      /\ job'.todo \in {<<>>, Tail(job.todo)}
      /\ Read \/ (Probed /\ job'.error = job.error)
  <2>1. ASSUME NEW e \in Errors, job' = [job EXCEPT !.todo = <<>>, !.error = e], UNCHANGED hcalls
        PROVE  /\ job' \in HJob /\ job'.id = job.id /\ job'.unit = job.unit
               /\ job'.todo \in {<<>>, Tail(job.todo)} /\ Read
    <3>1. e # None BY DEF Errors
    <3>2. job' \in HJob BY <1>1, <1>2, <2>1 DEF HJob
    <3>. QED BY <1>1, <2>1, <3>1, <3>2 DEF HJob
  <2>2. ASSUME NEW n \in Nat, job' = [job EXCEPT !.todo = Tail(@), !.size = n], UNCHANGED hcalls
        PROVE  /\ job' \in HJob /\ job'.id = job.id /\ job'.unit = job.unit
               /\ job'.todo \in {<<>>, Tail(job.todo)} /\ Read
    <3>1. job' \in HJob BY <1>1, <1>2, <2>2 DEF HJob
    <3>. QED BY <1>1, <2>2, <3>1 DEF HJob
  <2>3. ASSUME job' = [job EXCEPT !.todo = Tail(@)], UNCHANGED hcalls
        PROVE  /\ job' \in HJob /\ job'.id = job.id /\ job'.unit = job.unit
               /\ job'.todo \in {<<>>, Tail(job.todo)} /\ Read
    <3>1. job' \in HJob BY <1>1, <1>2, <2>3 DEF HJob
    <3>. QED BY <1>1, <2>3, <3>1 DEF HJob
  <2>4. ASSUME Probed
        PROVE  /\ job' \in HJob /\ job'.id = job.id /\ job'.unit = job.unit
               /\ job'.todo \in {<<>>, Tail(job.todo)} /\ job'.error = job.error
    <3>1. PICK reply \in Replies :
            job' = [job EXCEPT !.todo = Tail(@),
                      !.seen = normalize_readiness(default_readiness_runner(reply))]
      BY <2>4
    <3>2. normalize_readiness(default_readiness_runner(reply)) \in Seens BY DEF Seens
    <3>3. job' \in HJob BY <1>1, <1>2, <3>1, <3>2 DEF HJob
    <3>. QED BY <1>1, <3>1, <3>3 DEF HJob
  <2>. QED BY <1>4, <2>1, <2>2, <2>3, <2>4
<1>6. /\ hcalls' \in Seq(HCall) /\ Len(hcalls') = Len(hcalls) /\ HostIds' = HostIds
      /\ \A k \in HostIds : /\ hcalls'[k].call = hcalls[k].call
                            /\ hcalls'[k].ready = hcalls[k].ready
                            /\ hcalls'[k].answer = hcalls[k].answer
                            /\ k # job.id => hcalls'[k].reply = hcalls[k].reply
  <2>1. hcalls \in Seq(HCall) /\ Len(hcalls) \in Nat /\ \A k \in HostIds : hcalls[k] \in HCall
    BY DEF HostInv, ShapeInv, HostIds
  <2>2. CASE UNCHANGED hcalls BY <2>1, <2>2 DEF HostIds
  <2>3. ASSUME Probed
        PROVE  /\ hcalls' \in Seq(HCall) /\ Len(hcalls') = Len(hcalls) /\ HostIds' = HostIds
               /\ \A k \in HostIds : /\ hcalls'[k].call = hcalls[k].call
                                     /\ hcalls'[k].ready = hcalls[k].ready
                                     /\ hcalls'[k].answer = hcalls[k].answer
                                     /\ k # job.id => hcalls'[k].reply = hcalls[k].reply
    <3>1. PICK reply \in Replies :
            hcalls' = [hcalls EXCEPT ![job.id] = [hcalls[job.id] EXCEPT !.reply = reply]]
      BY <2>3
    <3>2. [hcalls[job.id] EXCEPT !.reply = reply] \in HCall BY <1>1, <2>1 DEF HCall
    <3>. QED BY <1>1, <2>1, <3>1, <3>2 DEF HostIds, HCall
  <2>. QED BY <1>5, <2>2, <2>3
<1>7. ~Pending(job') /\ \A k \in 1 .. Len(job'.todo) : job'.todo[k] # "mutate"
  BY <1>1, <1>5, GoneOn
<1>8. Kept BY <1>6 DEF Kept
<1>9. EffectInv' /\ OkInv' /\ NoStaleEffect' BY <1>1, <1>8, SameEffects
<1>10. ShapeInv' BY <1>1, <1>5, <1>6 DEF HostInv, ShapeInv
<1>11. QueueInv' BY <1>1, <1>5 DEF HostInv, QueueInv
<1>12. JobInv'
  <2>1. job'.error = None => job.error = None BY <1>5
  <2>2. /\ job'.id = job.id /\ hcalls'[job.id].call = hcalls[job.id].call
    BY <1>1, <1>5, <1>6
  <2>3. \A k \in 2 .. Len(job'.todo) : job'.todo[k] # "mutate"
    <3>1. job'.todo \in Seq(Kinds) BY <1>5 DEF HJob
    <3>. QED BY <1>7, <3>1
  <2>. QED BY <1>1, <1>7, <2>1, <2>2, <2>3 DEF HostInv, JobInv, EffectsOf
<1>13. ReadyInv'
  <2>1. ~hcalls[job.id].ready BY <1>1 DEF HostInv, ReadyInv
  <2>2. ReadyOnlyIfSaid' BY <1>6, <2>1 DEF HostInv, ReadyInv, ReadyOnlyIfSaid
  <2>3. \A n \in 1 .. Len(backlog') : ~hcalls'[backlog'[n]].ready
    BY <1>1, <1>6 DEF HostInv, ShapeInv, ReadyInv
  <2>4. job'.id # 0 => ~hcalls'[job'.id].ready BY <1>1, <1>5, <1>6, <2>1
  <2>5. job'.seen # None =>
          /\ job'.id # 0 /\ hcalls'[job'.id].reply \in Replies
          /\ job'.seen = normalize_readiness(default_readiness_runner(hcalls'[job'.id].reply))
    <3>1. CASE UNCHANGED hcalls /\ job'.seen = job.seen /\ job'.id = job.id
      BY <3>1 DEF HostInv, ReadyInv
    <3>2. ASSUME Probed, job'.id = job.id
          PROVE  /\ job'.id # 0 /\ hcalls'[job'.id].reply \in Replies
                 /\ job'.seen = normalize_readiness(default_readiness_runner(hcalls'[job'.id].reply))
      <4>1. PICK reply \in Replies :
              /\ job' = [job EXCEPT !.todo = Tail(@),
                           !.seen = normalize_readiness(default_readiness_runner(reply))]
              /\ hcalls' = [hcalls EXCEPT ![job.id] = [hcalls[job.id] EXCEPT !.reply = reply]]
        BY <3>2
      <4>2. hcalls \in Seq(HCall) /\ hcalls[job.id] \in HCall /\ job.id \in 1 .. Len(hcalls)
        BY <1>1 DEF HostInv, ShapeInv, HostIds
      <4>3. hcalls'[job.id].reply = reply BY <4>1, <4>2 DEF HCall
      <4>4. job'.seen = normalize_readiness(default_readiness_runner(reply))
        BY <1>1, <4>1 DEF HJob
      <4>. QED BY <1>1, <3>2, <4>3, <4>4
    <3>. QED BY <1>5, <3>1, <3>2
  <2>. QED BY <2>2, <2>3, <2>4, <2>5 DEF ReadyInv
<1>. QED BY <1>9, <1>10, <1>11, <1>12, <1>13 DEF HostInv

LEMMA MutateStep ==
    ASSUME HostInv, Mutate(job.unit)
    PROVE  HostInv'
<1>1. /\ job.id # 0 /\ job.id \in HostIds /\ job.id \in Nat /\ job.todo # <<>> /\ Pending(job)
      /\ job \in HJob /\ kills' = kills
  BY DEF Mutate, HostInv, ShapeInv, Pending, HostIds
<1>2. CASE /\ applied' = Append(applied, Effect) /\ Ends(FALSE) /\ UNCHANGED landing
  <2>1. kills' \in 0 .. MaxKills BY <1>1 DEF HostInv, ShapeInv
  <2>2. CutShort BY <1>2 DEF CutShort
  <2>. QED BY <1>1, <1>2, <2>1, <2>2, EndsStep
<1>. DEFINE done == [job EXCEPT !.todo = Tail(@)]
            failed(e) == [job EXCEPT !.todo = <<>>, !.error = e]
            late == [Effect EXCEPT !.late = TRUE]
<1>3. CASE /\ job' = done \/ \E e \in {"command_failed", "timeout"} : job' = failed(e)
           /\ UNCHANGED <<helperUp, socketFile, backlog, hcalls>>
           /\ \/ applied' = Append(applied, Effect) /\ UNCHANGED landing
              \/ UNCHANGED <<applied, landing>> /\ job'.error # None
              \/ UNCHANGED applied /\ job'.error # None /\ landing' = landing \cup {late}
  <2>1. /\ job' \in HJob /\ job'.id = job.id /\ job'.unit = job.unit
        /\ job'.todo \in {<<>>, Tail(job.todo)} /\ job'.seen = job.seen
    <3>1. job.todo \in Seq(Kinds) /\ Tail(job.todo) \in Seq(Kinds) /\ <<>> \in Seq(Kinds)
      <4>1. job.todo \in Seq(Kinds) BY <1>1 DEF HJob
      <4>. QED BY <1>1, <4>1
    <3>2. CASE job' = done BY <1>1, <3>1, <3>2 DEF HJob
    <3>3. ASSUME NEW e \in {"command_failed", "timeout"}, job' = failed(e)
          PROVE  /\ job' \in HJob /\ job'.id = job.id /\ job'.unit = job.unit
                 /\ job'.todo \in {<<>>, Tail(job.todo)} /\ job'.seen = job.seen
      <4>1. e \in Errors BY DEF Errors
      <4>. QED BY <1>1, <3>1, <3>3, <4>1 DEF HJob
    <3>. QED BY <1>3, <3>2, <3>3
  <2>2. ~Pending(job') /\ \A k \in 1 .. Len(job'.todo) : job'.todo[k] # "mutate"
    BY <1>1, <2>1, GoneOn
  <2>3. Kept BY <1>3 DEF Kept, HostInv, ShapeInv
  <2>4. /\ late \in HEffect /\ late.id = job.id /\ late.late
        /\ Effect \in HEffect /\ Effect.id = job.id /\ Effect.unit = job.unit
    BY <1>1 DEF Effect, HEffect, HJob
  <2>5. /\ hcalls[job.id].call.cred /\ job.unit = IntendedUnit(hcalls[job.id].call)
        /\ \A k \in 1 .. Len(applied) : applied[k].id # job.id
        /\ \A e \in landing : e.id # job.id
    BY <1>1 DEF HostInv, JobInv
  <2>. HIDE DEF done, failed, late
  <2>6. \/ UNCHANGED applied
        \/ /\ applied' \in Seq(HEffect) /\ Len(applied') = Len(applied) + 1
           /\ \A n \in 1 .. Len(applied) : applied'[n] = applied[n]
           /\ applied'[Len(applied) + 1] = Effect
    BY <1>1, <1>3, <2>3, NewEffect
  <2>7. /\ applied' \in Seq(HEffect) /\ Len(applied) \in Nat
        /\ \A n \in 1 .. Len(applied') :
              \/ n \in 1 .. Len(applied) /\ applied'[n] = applied[n]
              \/ n = Len(applied) + 1 /\ applied'[n] = Effect
    <3>1. applied \in Seq(HEffect) BY DEF HostInv, ShapeInv
    <3>. QED BY <2>6, <3>1
  <2>8. landing' \subseteq landing \cup {late} /\ landing \subseteq landing' BY <1>3
  <2>9. EffectInv' /\ OkInv' /\ NoStaleEffect'
    <3>1. CASE applied' = Append(applied, Effect) /\ UNCHANGED landing
      BY <1>1, <2>3, <3>1, NewEffect
    <3>2. CASE UNCHANGED <<applied, landing>> BY <2>3, <3>2, SameEffects
    <3>3. CASE UNCHANGED applied /\ landing' = landing \cup {late}
      BY <1>1, <2>3, <3>3, LateEffect DEF late
    <3>. QED BY <1>3, <3>1, <3>2, <3>3
  <2>10. ShapeInv'
    <3>1. HostIds' = HostIds BY <1>3 DEF HostIds
    <3>2. /\ \A n \in 1 .. Len(applied') : applied'[n].id \in HostIds
          /\ \A e \in landing' : e.id \in HostIds
          /\ landing' \in SUBSET HEffect
      BY <1>1, <2>4, <2>7, <2>8 DEF HostInv, ShapeInv
    <3>. QED BY <1>1, <1>3, <2>1, <2>7, <3>1, <3>2 DEF HostInv, ShapeInv
  <2>11. QueueInv'
    <3>1. \A n \in 1 .. Len(applied') : \E k \in 1 .. Len(applied) \cup {0} :
            applied'[n].id = IF k = 0 THEN job.id ELSE applied[k].id
      BY <2>4, <2>7
    <3>2. \A e \in landing' : e \in landing \/ e.id = job.id BY <2>4, <2>8
    <3>3. \A n \in 1 .. Len(backlog) :
            /\ \A k \in 1 .. Len(applied') : applied'[k].id < backlog[n]
            /\ \A e \in landing' : e.id < backlog[n]
      BY <1>1, <3>1, <3>2 DEF HostInv, QueueInv
    <3>4. /\ \A k \in 1 .. Len(applied') : applied'[k].id <= job.id
          /\ \A e \in landing' : e.id <= job.id
      BY <1>1, <3>1, <3>2 DEF HostInv, QueueInv
    <3>. QED BY <1>1, <1>3, <2>1, <3>3, <3>4 DEF HostInv, QueueInv
  <2>12. JobInv'
    <3>1. ASSUME job'.error = None
          PROVE  \E n \in EffectsOf(job.id)' : applied'[n].unit = IntendedUnit(hcalls[job.id].call)
      <4>1. applied' = Append(applied, Effect) /\ UNCHANGED landing BY <1>3, <2>1, <3>1
      <4>2. Len(applied') = Len(applied) + 1 /\ applied'[Len(applied) + 1] = Effect
        BY <1>1, <2>3, <4>1, NewEffect
      <4>3. Len(applied) + 1 \in EffectsOf(job.id)' BY <2>1, <2>4, <2>7, <4>2 DEF EffectsOf
      <4>. QED BY <2>4, <2>5, <4>2, <4>3
    <3>2. \A k \in 2 .. Len(job'.todo) : job'.todo[k] # "mutate"
      <4>1. job'.todo \in Seq(Kinds) BY <2>1 DEF HJob
      <4>. QED BY <2>2, <4>1
    <3>. QED BY <1>3, <2>1, <2>2, <3>1, <3>2 DEF JobInv, EffectsOf
  <2>13. ReadyInv' BY <1>3, <2>1 DEF HostInv, ReadyInv, ReadyOnlyIfSaid, HostIds
  <2>. QED BY <2>9, <2>10, <2>11, <2>12, <2>13 DEF HostInv
<1>4. ASSUME NEW e \in {"command_failed", "timeout"}, job' = failed(e) PROVE job'.error # None
  <2>1. job'.error = e BY <1>1, <1>4 DEF HJob
  <2>. QED BY <2>1
<1>. QED BY <1>1, <1>2, <1>3, <1>4 DEF Mutate, CutShort

LEMMA LandStep ==
    ASSUME HostInv, NEW e \in landing, Land(e)
    PROVE  HostInv'
<1>1. /\ landing' = landing \ {e} /\ applied' = Append(applied, e) /\ e \in HEffect
      /\ e.id \in HostIds /\ e.late /\ hcalls[e.id].call.cred
      /\ UNCHANGED <<helperUp, socketFile, backlog, hcalls, job, kills>>
      /\ applied \in Seq(HEffect) /\ Len(applied) \in Nat
  BY DEF Land, HostInv, ShapeInv, EffectInv
<1>2. /\ applied' \in Seq(HEffect) /\ Len(applied') = Len(applied) + 1
      /\ \A n \in 1 .. Len(applied) : applied'[n] = applied[n]
      /\ applied'[Len(applied) + 1] = e
      /\ \A n \in 1 .. Len(applied') : n \in 1 .. Len(applied) \/ n = Len(applied) + 1
  BY <1>1
<1>3. ShapeInv'
  <2>1. \A n \in 1 .. Len(applied') : applied'[n].id \in HostIds BY <1>1, <1>2 DEF HostInv, ShapeInv
  <2>. QED BY <1>1, <1>2, <2>1 DEF HostInv, ShapeInv, HostIds
<1>4. QueueInv'
  <2>1. \A n \in 1 .. Len(backlog) : \A k \in 1 .. Len(applied') : applied'[k].id < backlog[n]
    BY <1>2 DEF HostInv, QueueInv
  <2>2. job.id # 0 => \A k \in 1 .. Len(applied') : applied'[k].id <= job.id
    BY <1>2 DEF HostInv, QueueInv
  <2>. QED BY <1>1, <2>1, <2>2 DEF HostInv, QueueInv
<1>5. \A i \in HostIds : \A n \in EffectsOf(i) :
        n \in 1 .. Len(applied') /\ applied'[n].id = i /\ applied'[n].unit = applied[n].unit
  BY <1>2 DEF EffectsOf
<1>6. JobInv'
  <2>1. /\ job.id # 0 /\ Pending(job) =>
              /\ \A k \in 1 .. Len(applied') : applied'[k].id # job.id
              /\ \A f \in landing' : f.id # job.id
    BY <1>1, <1>2 DEF HostInv, JobInv
  <2>2. ASSUME job.id # 0, Mutating(hcalls[job.id].call), job.error = None, ~Pending(job)
        PROVE  \E n \in EffectsOf(job.id)' : applied'[n].unit = IntendedUnit(hcalls[job.id].call)
    <3>1. job.id \in HostIds BY <2>2 DEF HostInv, ShapeInv
    <3>2. PICK n \in EffectsOf(job.id) : applied[n].unit = IntendedUnit(hcalls[job.id].call)
      BY <2>2 DEF HostInv, JobInv
    <3>3. n \in EffectsOf(job.id)' BY <1>1, <1>5, <3>1, <3>2 DEF EffectsOf
    <3>. QED BY <1>5, <3>1, <3>2, <3>3
  <2>3. job.id # 0 /\ Pending(job) =>
          LET c == hcalls[job.id].call IN c.cred /\ Mutating(c) /\ job.unit = IntendedUnit(c)
    BY DEF HostInv, JobInv
  <2>4. \A k \in 2 .. Len(job.todo) : job.todo[k] # "mutate" BY DEF HostInv, JobInv
  <2>. QED BY <1>1, <2>1, <2>2, <2>3, <2>4 DEF JobInv, Pending
<1>7. EffectInv'
  <2>1. \A n \in 1 .. Len(applied) : applied[n].id # e.id BY DEF HostInv, EffectInv
  <2>2. \A n, m \in 1 .. Len(applied') : applied'[n].id = applied'[m].id => n = m
    BY <1>2, <2>1 DEF HostInv, EffectInv
  <2>3. \A f \in landing', n \in 1 .. Len(applied') : f.id # applied'[n].id
    BY <1>1, <1>2 DEF HostInv, EffectInv
  <2>4. \A n \in 1 .. Len(applied') : hcalls[applied'[n].id].call.cred
    BY <1>1, <1>2 DEF HostInv, EffectInv
  <2>. QED BY <1>1, <2>2, <2>3, <2>4 DEF HostInv, EffectInv
<1>8. OkInv'
  <2>1. SUFFICES ASSUME NEW i \in HostIds, hcalls[i].answer = "ok", Mutating(hcalls[i].call)
                 PROVE  \E n \in EffectsOf(i)' : applied'[n].unit = IntendedUnit(hcalls[i].call)
    BY <1>1 DEF OkInv, HostIds
  <2>2. PICK n \in EffectsOf(i) : applied[n].unit = IntendedUnit(hcalls[i].call)
    BY <2>1 DEF HostInv, OkInv
  <2>3. n \in EffectsOf(i)' BY <1>5, <2>2 DEF EffectsOf
  <2>. QED BY <1>5, <2>2, <2>3
<1>9. NoStaleEffect' BY <1>1, <1>2 DEF HostInv, NoStaleEffect
<1>10. ReadyInv' BY <1>1 DEF HostInv, ReadyInv, ReadyOnlyIfSaid, HostIds
<1>. QED BY <1>3, <1>4, <1>6, <1>7, <1>8, <1>9, <1>10 DEF HostInv

(* A reply that is normalised to ready said "ok": true.                    *)
LEMMA ReadyMeansSaid ==
    ASSUME NEW reply \in Replies, normalize_readiness(default_readiness_runner(reply)).ok
    PROVE  reply.ok = "true"
<1>1. default_readiness_runner(reply).ok = "true" BY DEF normalize_readiness
<1>2. reply.how \in {"timeout", "refused", "broken", "oversize", "garbage", "object"}
  BY DEF Replies
<1>. QED BY <1>1, <1>2 DEF default_readiness_runner

LEMMA RespondStep ==
    ASSUME HostInv, NEW i \in HostIds, Respond(i)
    PROVE  HostInv'
<1>1. /\ job.id = i /\ job.todo = <<>> /\ i # 0 /\ job \in HJob /\ ~Pending(job)
      /\ UNCHANGED <<applied, landing, kills>>
  BY DEF Respond, HostInv, ShapeInv, HostIds, Pending
<1>2. CASE Ends(FALSE)
  <2>1. kills' \in 0 .. MaxKills BY <1>1 DEF HostInv, ShapeInv
  <2>. QED BY <1>1, <1>2, <2>1, EndsStep
<1>3. CASE /\ hcalls' = [hcalls EXCEPT ![i].answer = Told, ![i].ready = ProbeReady(Told, job.seen)]
           /\ job' = NoJob /\ UNCHANGED <<helperUp, socketFile, backlog>>
  <2>1. /\ Told \in Errors \cup {Unavailable, "ok"} /\ (Told = "ok" => job.error = None)
    <3>1. job.error \in Errors \cup {None} BY <1>1 DEF HJob
    <3>2. "ok" \notin Errors /\ Unavailable # "ok" BY DEF Errors, Unavailable
    <3>. QED BY <3>1, <3>2 DEF Told
  <2>2. ProbeReady(Told, job.seen) \in BOOLEAN BY DEF ProbeReady
  <2>3. hcalls \in Seq(HCall) /\ Len(hcalls) \in Nat /\ \A k \in HostIds : hcalls[k] \in HCall
    BY DEF HostInv, ShapeInv, HostIds
  <2>. DEFINE new == [hcalls[i] EXCEPT !.answer = Told, !.ready = ProbeReady(Told, job.seen)]
  <2>4. /\ new \in HCall /\ new.call = hcalls[i].call /\ new.reply = hcalls[i].reply
        /\ new.answer = Told /\ new.ready = ProbeReady(Told, job.seen)
    <3>1. hcalls[i] \in HCall BY <2>3
    <3>. QED BY <2>1, <2>2, <3>1 DEF HCall
  <2>5. hcalls' = [hcalls EXCEPT ![i] = new]
    BY <1>3, <2>3 DEF HCall, HostIds
  <2>. HIDE DEF new
  <2>6. /\ hcalls' \in Seq(HCall) /\ Len(hcalls') = Len(hcalls) /\ HostIds' = HostIds
        /\ hcalls'[i] = new /\ \A k \in HostIds : k # i => hcalls'[k] = hcalls[k]
    BY <2>3, <2>4, <2>5 DEF HostIds
  <2>7. \A k \in HostIds : /\ hcalls'[k].call = hcalls[k].call
                           /\ hcalls'[k].reply = hcalls[k].reply
    BY <2>4, <2>6
  <2>8. ShapeInv'
    <3>1. \A k \in HostIds : AdapterAccepts(hcalls'[k].call) BY <2>7 DEF HostInv, ShapeInv
    <3>. QED BY <1>1, <1>3, <2>6, <3>1, EmptyPlan DEF HostInv, ShapeInv
  <2>9. QueueInv'
    <3>1. \A n \in 1 .. Len(backlog) : 0 < backlog[n] BY DEF HostInv, ShapeInv, HostIds
    <3>. QED BY <1>1, <1>3, <3>1, EmptyPlan DEF HostInv, QueueInv
  <2>10. JobInv'
    <3>1. Len(NoJob.todo) = 0 BY EmptyPlan
    <3>. QED BY <1>3, <3>1, EmptyPlan DEF JobInv
  <2>11. EffectInv' BY <1>1, <2>7 DEF HostInv, ShapeInv, EffectInv
  <2>12. OkInv'
    <3>1. SUFFICES ASSUME NEW k \in HostIds, hcalls'[k].answer = "ok", Mutating(hcalls[k].call)
                   PROVE  \E n \in EffectsOf(k) : applied[n].unit = IntendedUnit(hcalls[k].call)
      BY <1>1, <2>6, <2>7 DEF OkInv, EffectsOf
    <3>2. CASE k = i
      <4>1. job.error = None BY <2>1, <2>4, <2>6, <3>1, <3>2
      <4>. QED BY <1>1, <3>1, <3>2, <4>1 DEF HostInv, JobInv
    <3>3. CASE k # i BY <2>6, <3>1, <3>3 DEF HostInv, OkInv
    <3>. QED BY <3>2, <3>3
  <2>13. NoStaleEffect' BY <1>1 DEF HostInv, NoStaleEffect
  <2>14. ReadyInv'
    <3>1. ASSUME new.ready PROVE hcalls[i].reply.ok = "true"
      <4>1. job.seen # None /\ job.seen.ok BY <2>4, <3>1 DEF ProbeReady
      <4>. QED BY <1>1, <4>1, ReadyMeansSaid DEF HostInv, ReadyInv
    <3>2. ReadyOnlyIfSaid'
      <4>1. ASSUME NEW k \in HostIds, hcalls'[k].ready PROVE hcalls[k].reply.ok = "true"
        <5>1. CASE k = i BY <2>6, <3>1, <4>1, <5>1
        <5>2. CASE k # i BY <2>6, <4>1, <5>2 DEF HostInv, ReadyInv, ReadyOnlyIfSaid
        <5>. QED BY <5>1, <5>2
      <4>. QED BY <2>6, <2>7, <4>1 DEF ReadyOnlyIfSaid
    <3>3. \A n \in 1 .. Len(backlog) : backlog[n] \in HostIds /\ backlog[n] # i
      BY <1>1 DEF HostInv, ShapeInv, QueueInv, HostIds
    <3>4. \A n \in 1 .. Len(backlog') : ~hcalls'[backlog'[n]].ready
      <4>1. ASSUME NEW n \in 1 .. Len(backlog) PROVE ~hcalls'[backlog[n]].ready
        <5>1. PICK k : k = backlog[n] OBVIOUS
        <5>2. k \in HostIds /\ k # i /\ ~hcalls[k].ready BY <3>3, <4>1, <5>1 DEF HostInv, ReadyInv
        <5>. QED BY <2>6, <5>1, <5>2
      <4>. QED BY <1>3, <4>1
    <3>. QED BY <1>3, <3>2, <3>4, EmptyPlan DEF ReadyInv
  <2>. QED BY <2>8, <2>9, <2>10, <2>11, <2>12, <2>13, <2>14 DEF HostInv
<1>. QED BY <1>2, <1>3 DEF Respond

LEMMA StepHost == HostInv /\ [HostNext]_hostVars => HostInv'
<1>. SUFFICES ASSUME HostInv, [HostNext]_hostVars PROVE HostInv' OBVIOUS
<1>1. CASE Kill
  <2>1. Ends(TRUE) /\ (UNCHANGED <<applied, landing>> \/ (job.id # 0 /\ Pending(job) /\ CutShort))
    BY <1>1 DEF Kill, Pending
  <2>2. kills < MaxKills /\ kills' = kills + 1 BY <1>1 DEF Kill
  <2>3. kills \in 0 .. MaxKills BY DEF HostInv, ShapeInv
  <2>4. kills' \in 0 .. MaxKills BY <2>2, <2>3
  <2>. QED BY <2>1, <2>4, EndsStep
<1>2. CASE Bind(TRUE)
  <2>1. UNCHANGED <<backlog, hcalls, job, applied, landing, kills>> BY <1>2 DEF Bind
  <2>2. helperUp' \in BOOLEAN /\ socketFile' \in BOOLEAN /\ (helperUp' => socketFile')
    BY <1>2, Zenon DEF Bind
  <2>. QED BY <2>1, <2>2 DEF HostInv, ShapeInv, QueueInv, JobInv, EffectInv, OkInv, ReadyInv,
                             ReadyOnlyIfSaid, NoStaleEffect, HostIds, EffectsOf, Pending
<1>3. CASE UNCHANGED hostVars
  BY <1>3 DEF hostVars, HostInv, ShapeInv, QueueInv, JobInv, EffectInv, OkInv, ReadyInv,
              ReadyOnlyIfSaid, NoStaleEffect, HostIds, EffectsOf, Pending
<1>. QED BY <1>1, <1>2, <1>3, CallStep, GiveUpStep, AcceptStep, RespondStep, ObserveStep,
            MutateStep, LandStep
         DEF HostNext, Serve

LEMMA AlwaysHost == HostSpec => []HostInv
BY InitHost, StepHost, PTL DEF HostSpec

LEMMA OnlyOnce ==
    ASSUME HostInv, NEW i \in HostIds
    PROVE  Cardinality(EffectsOf(i)) <= 1
<1>1. CASE EffectsOf(i) = {} BY <1>1, FS_EmptySet
<1>2. CASE EffectsOf(i) # {}
  <2>1. PICK n : n \in EffectsOf(i) BY <1>2
  <2>2. EffectsOf(i) = {n} BY <2>1 DEF HostInv, EffectInv, EffectsOf
  <2>3. Cardinality({n}) = 1 BY FS_Singleton
  <2>. QED BY <2>2, <2>3
<1>. QED BY <1>1, <1>2

-----------------------------------------------------------------------------
(* The variables of the helper have their types: whatever is in hand, in   *)
(* the backlog or has changed the host goes back to a call that was made.  *)
THEOREM HostTypeCorrect == HostSpec => []HostTypeOK
<1>1. HostInv => HostTypeOK
  <2>1. ASSUME HostInv PROVE \A i \in HostIds : hcalls[i].call \in HostCalls /\ hcalls[i].ready \in BOOLEAN
    <3>1. \A i \in HostIds : hcalls[i] \in HCall BY <2>1 DEF HostInv, ShapeInv, HostIds
    <3>2. \A c \in HCall : c.call \in HostCalls /\ c.ready \in BOOLEAN BY DEF HCall
    <3>. QED BY <3>1, <3>2
  <2>. QED BY <2>1 DEF HostInv, ShapeInv, HostTypeOK
<1>. QED BY <1>1, AlwaysHost, PTL

(* No request changes the host twice, none without the credential, and a   *)
(* caller that is told "ok" had the effect it asked for: for any number of *)
(* callers that give up and any number of kills and restarts.              *)
THEOREM OkMeansDone == HostSpec => []ToldOkMeansDone
<1>1. ASSUME HostInv, NEW i \in HostIds, EffectsOf(i) # {} PROVE hcalls[i].call.cred
  BY <1>1 DEF HostInv, EffectInv, EffectsOf
<1>2. HostInv => ToldOkMeansDone
  BY <1>1, OnlyOnce DEF HostInv, OkInv, ToldOkMeansDone
<1>. QED BY <1>2, AlwaysHost, PTL

(* Effects arrive in the order of the requests, those of commands that     *)
(* timed out or whose helper was killed aside.                             *)
THEOREM EffectsInOrder == HostSpec => []NoStaleEffect
<1>1. HostInv => NoStaleEffect BY DEF HostInv
<1>. QED BY <1>1, AlwaysHost, PTL

(* Recovery takes DripVid for ready only on its endpoint's word, given in  *)
(* reply to this very probe.                                               *)
THEOREM ReadyFailsClosed == HostSpec => []ReadyOnlyIfSaid
<1>1. HostInv => ReadyOnlyIfSaid BY DEF HostInv, ReadyInv
<1>. QED BY <1>1, AlwaysHost, PTL
=============================================================================
