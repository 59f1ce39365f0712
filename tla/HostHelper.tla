----------------------------- MODULE HostHelper -----------------------------
(***************************************************************************)
(* The host helper: a privileged process behind a Unix socket.  Callers    *)
(* reach it through an operational adapter, the operational transport and  *)
(* HostHelperClient; HostHelperServer authenticates, validates and runs    *)
(* HostExecutor, one connection at a time.                                 *)
(*                                                                         *)
(* The client waits 10 seconds, every command of the helper may take 8 and *)
(* connections queue: a caller gives up while its request is still going   *)
(* to be executed.  An answer for a caller that is gone ends the process   *)
(* (BrokenPipeError leaves serve_forever) and systemd starts it again.     *)
(***************************************************************************)
EXTENDS Integers, Sequences, FiniteSets

CONSTANTS
    HostClients,     \* threads that call the helper, one call at a time each
    HostCalls,       \* tool requests that reach an adapter, and whether the
                     \* caller's configuration holds the credential (cred)
    HostTargets,     \* registry: target key -> [allows, service, log]
    LogSizes,        \* sizes of a journal excerpt after redaction
    MAX_RESPONSE_BYTES, \* 64 KiB, for the excerpt and for the whole response
    MaxHostCalls,    \* bound: calls made
    MaxKills,        \* bound: times the helper is killed from outside
    None

ASSUME HostAssumption ==
    /\ MAX_RESPONSE_BYTES \in Nat /\ LogSizes \subseteq Nat
    /\ MaxHostCalls \in Nat /\ MaxKills \in Nat
    /\ None \notin {"ok", "host_helper_unavailable", "authentication_failed", "invalid_request",
                    "invalid_parameters", "unknown_target", "timeout", "command_failed",
                    "malformed_response"}

VARIABLES
    helperUp,   \* the helper process accepts connections
    socketFile, \* the path of the socket exists
    backlog,    \* connections waiting for accept
    hcalls,     \* every call: who, call, answer,
                \* reply (history: what the readiness endpoint did), ready (what recovery saw)
    job,        \* the connection in serve_once: id, todo, unit, error, size, seen
    applied,    \* effects on the host, in order: id of the call, unit, late
    landing,    \* effects of commands that timed out and are still under way
    kills

hostVars == <<helperUp, socketFile, backlog, hcalls, job, applied, landing, kills>>

Unavailable == "host_helper_unavailable"

NoJob == [id |-> 0, todo |-> <<>>, unit |-> None, error |-> None, size |-> 0,
          seen |-> None]

HostInit ==
    /\ helperUp = TRUE /\ socketFile = TRUE
    /\ backlog = <<>> /\ hcalls = <<>> /\ job = NoJob
    /\ applied = <<>> /\ landing = {} /\ kills = 0

-----------------------------------------------------------------------------
(* The caller's side: adapters and transport                               *)

\* A request names a target of the registry that allows the capability.
AllowedTarget(c) ==
    c.target \in DOMAIN HostTargets /\ c.tool \in HostTargets[c.target].allows

SystemHealthAdapter(c) == c.tool = "system.health.read" /\ c.names = {}
ServiceStatusAdapter(c) == c.tool = "service.status.read" /\ c.names = {}
ServiceLogsAdapter(c) ==
    c.tool = "service.logs.read" /\ c.names \subseteq {"lines"} /\ c.lines \in 1 .. 500
ServiceRestartAdapter(c) == c.tool = "service.restart" /\ c.names = {} /\ c.mutates

RecoveryUnits ==
    [app |-> "dripvid.service", mcp |-> "dripvid-mcp.service",
     proxy |-> "nginx.service", tunnel |-> "cloudflared.service",
     database |-> "postgresql.service"]

ServiceRecoverAdapter(c) ==
    /\ c.tool = "service.recover" /\ c.target = "dripvid"
    /\ c.names = {"component"} /\ c.component \in DOMAIN RecoveryUnits /\ c.mutates
DeploymentDeployAdapter(c) == c.tool = "deployment.deploy" /\ c.names = {} /\ c.mutates
DeploymentRollbackAdapter(c) ==
    c.tool = "deployment.rollback" /\ c.names = {"release_id"} /\ c.safe /\ c.mutates

\* The readiness probe of recovery calls the client itself, without an adapter.
ReadinessProbe(c) == c.tool = "dripvid.readiness"

\* The sysadmin department calls the client too, with one of its fixed routes.
SysadminRoute(c) == c.tool \in {"host.resources", "container.status"}

AdapterAccepts(c) ==
    \/ ReadinessProbe(c) \/ SysadminRoute(c)
    \/ /\ AllowedTarget(c)
       /\ \/ SystemHealthAdapter(c) \/ ServiceStatusAdapter(c) \/ ServiceLogsAdapter(c)
          \/ ServiceRestartAdapter(c) \/ ServiceRecoverAdapter(c)
          \/ DeploymentDeployAdapter(c) \/ DeploymentRollbackAdapter(c)

\* transport: the helper's capability, target and parameters for a request
HelperRequest(c) ==
    LET cap == CASE c.tool = "system.health.read" -> "host.health"
                 [] c.tool = "service.status.read" -> "service.status"
                 [] c.tool = "service.logs.read" -> "logs.recent"
                 [] OTHER -> c.tool
        target == CASE cap \in {"host.health", "host.resources", "dripvid.readiness"} -> None
                    [] cap = "service.status" -> HostTargets[c.target].service
                    [] cap = "logs.recent" -> HostTargets[c.target].log
                    [] OTHER -> c.target
        names == IF cap = "logs.recent" THEN {"lines"} ELSE c.names
    IN  [cap |-> cap, target |-> target, names |-> names, lines |-> c.lines,
         component |-> c.component, safe |-> c.safe]

-----------------------------------------------------------------------------
(* The helper's side: contracts                                            *)

AllowServices == {"ai-hq", "nginx", "dripvid"}
AllowContainers == {"ai-hq-web", "ai-hq-worker"}
AllowDiagnostics == {"dripvid-mcp", "cloudflared", "postgresql"}

\* contracts: _validate_target
ValidTarget(r) ==
    CASE r.cap = "service.recover" -> r.target = "dripvid"
      [] r.cap = "service.status" -> r.target \in AllowServices \cup AllowDiagnostics
      [] r.cap \in {"service.restart", "deployment.deploy", "deployment.rollback"} ->
            r.target \in AllowServices
      [] r.cap = "container.status" -> r.target \in AllowContainers
      [] OTHER -> r.target \in AllowServices \cup AllowDiagnostics

validate_request(r) ==
    IF r.cap \in {"host.health", "host.resources", "dripvid.readiness"}
    THEN r.target = None /\ r.names = {}
    ELSE /\ ValidTarget(r)
         /\ CASE r.cap = "service.recover" ->
                   r.names = {"component"} /\ r.component \in DOMAIN RecoveryUnits
              [] r.cap = "logs.recent" -> r.names \subseteq {"lines"} /\ r.lines \in 1 .. 500
              [] OTHER -> r.names = {}

-----------------------------------------------------------------------------
(* The helper's side: executor.  A handler answers at once with an error,  *)
(* or runs its commands: "read" observes, "mutate" changes the unit.       *)

Failure(error) == [NoJob EXCEPT !.error = error]
Run(todo, unit) == [NoJob EXCEPT !.todo = todo, !.unit = unit]

ServiceUnits ==
    [x \in AllowServices |->
        IF x = "ai-hq" THEN "ai-hq-host-helper.service" ELSE x \o ".service"]

host_health(r) == Run(<<"read", "read">>, None)
host_resources(r) == Run(<<"read", "read", "parse">>, None)
dripvid_readiness(r) ==
    IF r.target # None \/ r.names # {} THEN Failure("invalid_parameters")
    ELSE Run(<<"probe">>, None)
service_status(r) ==
    IF r.target \in AllowServices \cup AllowDiagnostics THEN Run(<<"read">>, None)
    ELSE Failure("unknown_target")
service_restart(r) ==
    IF r.target \in AllowServices THEN Run(<<"mutate", "read">>, ServiceUnits[r.target])
    ELSE Failure("unknown_target")

service_recover(r) ==
    IF r.target # "dripvid" THEN Failure("unknown_target")
    ELSE IF r.names # {"component"} \/ r.component \notin DOMAIN RecoveryUnits
    THEN Failure("invalid_parameters")
    ELSE Run(<<"mutate", "read">>, RecoveryUnits[r.component])
deployment_deploy(r) ==
    IF r.names # {} THEN Failure("invalid_parameters")
    ELSE IF r.target # "ai-hq" THEN Failure("unknown_target")
    ELSE Run(<<"mutate">>, "controlled-deploy")
deployment_rollback(r) ==
    IF r.target # "ai-hq" THEN Failure("unknown_target")
    ELSE IF r.names # {"release_id"} \/ ~r.safe THEN Failure("invalid_parameters")
    ELSE Run(<<"mutate">>, "controlled-rollback")
container_status(r) ==
    IF r.target \in AllowContainers THEN Run(<<"parse">>, None)
    ELSE Failure("unknown_target")
logs_recent(r) ==
    IF r.target \notin AllowServices \cup AllowDiagnostics THEN Failure("unknown_target")
    ELSE IF r.lines \notin 1 .. 200 THEN Failure("invalid_parameters")
    ELSE Run(<<"journal">>, None)

execute(r) ==
    CASE r.cap = "host.health" -> host_health(r)
      [] r.cap = "host.resources" -> host_resources(r)
      [] r.cap = "dripvid.readiness" -> dripvid_readiness(r)
      [] r.cap = "service.status" -> service_status(r)
      [] r.cap = "service.restart" -> service_restart(r)
      [] r.cap = "service.recover" -> service_recover(r)
      [] r.cap = "deployment.deploy" -> deployment_deploy(r)
      [] r.cap = "deployment.rollback" -> deployment_rollback(r)
      [] r.cap = "container.status" -> container_status(r)
      [] r.cap = "logs.recent" -> logs_recent(r)

-----------------------------------------------------------------------------
(* Readiness: from what the loopback endpoint does to what recovery sees   *)

\* The reply: how the HTTP exchange ended and, for a JSON object, its "ok",
\* which may be any JSON value.
Replies ==
    {[how |-> h, ok |-> "absent"] : h \in {"timeout", "refused", "broken", "oversize", "garbage"}}
    \cup {[how |-> "object", ok |-> v] : v \in {"true", "false", "absent", "truthy"}}

\* executor: default_readiness_runner, with _bounded_readiness_error
default_readiness_runner(reply) ==
    CASE reply.how = "object" -> [reachable |-> TRUE, ok |-> reply.ok, error |-> "absent"]
      [] reply.how = "oversize" -> [reachable |-> TRUE, ok |-> "false", error |-> "response_too_large"]
      [] reply.how = "garbage" -> [reachable |-> TRUE, ok |-> "false", error |-> "invalid_json"]
      [] reply.how = "timeout" -> [reachable |-> FALSE, ok |-> "false", error |-> "timeout"]
      [] reply.how = "refused" -> [reachable |-> FALSE, ok |-> "false", error |-> "connection_error"]
      [] OTHER -> [reachable |-> FALSE, ok |-> "false", error |-> "transport_error"]

\* Mutant: any value that Python takes for true will do.
normalize_truthy(p) ==
    [reachable |-> p.reachable, ok |-> p.ok \in {"true", "truthy"},
     error |-> IF p.error = "absent" THEN None ELSE p.error]

\* executor: _normalize_readiness (run twice, by the runner and the handler)
normalize_readiness(p) ==
    [reachable |-> p.reachable, ok |-> p.ok = "true",
     error |-> IF p.error = "absent" THEN None ELSE p.error]

\* probe: HostHelperDripVidReadinessProbe with _normalize_host_helper_payload,
\* as the "ok" that recovery reads
ProbeReady(answer, seen) == answer = "ok" /\ seen # None /\ seen.ok

-----------------------------------------------------------------------------
(* A call and its end                                                      *)

Waiting(i) == hcalls[i].answer = None
Answered(i, answer) == [hcalls EXCEPT ![i].answer = answer]

\* client.execute: connect and send; the reply to a read is awaited.
Call(w, c) ==
    /\ Len(hcalls) < MaxHostCalls
    /\ \A i \in 1 .. Len(hcalls) : hcalls[i].who = w => ~Waiting(i)
    /\ AdapterAccepts(c)
    /\ hcalls' = Append(hcalls, [who |-> w, call |-> c, reply |-> None,
                                 ready |-> FALSE,
                                 answer |-> IF helperUp THEN None ELSE Unavailable])
    /\ backlog' = IF helperUp THEN Append(backlog, Len(hcalls) + 1) ELSE backlog
    /\ UNCHANGED <<helperUp, socketFile, job, applied, landing, kills>>

\* client.execute: the timeout of the socket
GiveUp(i) ==
    /\ Waiting(i)
    /\ hcalls' = Answered(i, Unavailable)
    /\ UNCHANGED <<helperUp, socketFile, backlog, job, applied, landing, kills>>

-----------------------------------------------------------------------------
(* The server                                                              *)

\* server: _handle_payload
HandlePayload(i) ==
    LET r == HelperRequest(hcalls[i].call)
    IN  IF ~hcalls[i].call.cred THEN Failure("authentication_failed")
        ELSE IF ~validate_request(r) THEN Failure("invalid_request")
        ELSE execute(r)

\* Mutant: the connection that came last is served first.
AcceptLatest(i) ==
    /\ helperUp /\ job.id = 0 /\ backlog # <<>> /\ i = backlog[Len(backlog)]
    /\ job' = [HandlePayload(i) EXCEPT !.id = i]
    /\ backlog' = SubSeq(backlog, 1, Len(backlog) - 1)
    /\ UNCHANGED <<helperUp, socketFile, hcalls, applied, landing, kills>>

\* server: serve_once, accept and read; a caller that is gone has sent its
\* request before it left
Accept(i) ==
    /\ helperUp /\ job.id = 0 /\ backlog # <<>> /\ i = Head(backlog)
    /\ job' = [HandlePayload(i) EXCEPT !.id = i]
    /\ backlog' = Tail(backlog)
    /\ UNCHANGED <<helperUp, socketFile, hcalls, applied, landing, kills>>

Effect == [id |-> job.id, unit |-> job.unit, late |-> FALSE]

\* A mutating command is cut short: it has had its effect or never has it, or
\* it has it later, carried out by systemd or by a child.
CutShort ==
    \/ applied' \in {applied, Append(applied, Effect)} /\ UNCHANGED landing
    \/ landing' = landing \cup {[Effect EXCEPT !.late = TRUE]} /\ UNCHANGED applied

\* The process ends.  Everyone who waits reads an end of file; close()
\* removes the socket unless the process was killed.
Ends(pathStays) ==
    /\ helperUp' = FALSE /\ socketFile' = pathStays
    /\ job' = NoJob /\ backlog' = <<>>
    /\ hcalls' = [i \in 1 .. Len(hcalls) |->
                    IF Waiting(i) THEN [hcalls[i] EXCEPT !.answer = Unavailable]
                    ELSE hcalls[i]]

\* executor: _command of a reading handler; "parse" may find the output malformed
Observe ==
    /\ job.id # 0 /\ job.todo # <<>> /\ Head(job.todo) # "mutate"
    /\ LET kind == Head(job.todo)
       IN  \/ /\ kind # "probe"
              /\ \E e \in {"timeout", "command_failed"}
                          \cup (IF kind = "parse" THEN {"malformed_response"} ELSE {}) :
                    job' = [job EXCEPT !.todo = <<>>, !.error = e]
              /\ UNCHANGED hcalls
           \/ /\ kind = "journal"
              /\ \E n \in LogSizes :
                    job' = [job EXCEPT !.todo = Tail(@),
                              !.size = IF n > MAX_RESPONSE_BYTES THEN MAX_RESPONSE_BYTES ELSE n]
              /\ UNCHANGED hcalls
           \/ /\ kind \in {"read", "parse"}
              /\ job' = [job EXCEPT !.todo = Tail(@)]
              /\ UNCHANGED hcalls
           \/ /\ kind = "probe"
              /\ \E reply \in Replies :
                    /\ job' = [job EXCEPT !.todo = Tail(@),
                                 !.seen = normalize_readiness(default_readiness_runner(reply))]
                    /\ hcalls' = [hcalls EXCEPT ![job.id].reply = reply]
    /\ UNCHANGED <<helperUp, socketFile, backlog, applied, landing, kills>>

\* Mutant: a command that failed counts as done.
MutateIgnoresExit(unit) ==
    /\ job.id # 0 /\ job.todo # <<>> /\ Head(job.todo) = "mutate" /\ unit = job.unit
    /\ job' = [job EXCEPT !.todo = Tail(@)]
    /\ \/ applied' = Append(applied, Effect) /\ UNCHANGED landing
       \/ UNCHANGED <<applied, landing>>
    /\ UNCHANGED <<helperUp, socketFile, backlog, hcalls, kills>>

\* executor: _command of a mutating handler.  A command that exits with an
\* error may have had its effect or not; one that runs into its timeout is
\* killed.  Restarting the unit of the helper ends the helper.
Mutate(unit) ==
    /\ job.id # 0 /\ job.todo # <<>> /\ Head(job.todo) = "mutate" /\ unit = job.unit
    /\ \/ /\ unit = "ai-hq-host-helper.service"
          /\ applied' = Append(applied, Effect)
          /\ Ends(FALSE)
          /\ UNCHANGED landing
       \/ /\ unit # "ai-hq-host-helper.service"
          /\ job' = [job EXCEPT !.todo = Tail(@)]
          /\ applied' = Append(applied, Effect)
          /\ UNCHANGED <<helperUp, socketFile, backlog, hcalls, landing>>
       \/ /\ job' = [job EXCEPT !.todo = <<>>, !.error = "command_failed"]
          /\ applied' \in {applied, Append(applied, Effect)}
          /\ UNCHANGED <<helperUp, socketFile, backlog, hcalls, landing>>
       \/ /\ job' = [job EXCEPT !.todo = <<>>, !.error = "timeout"]
          /\ CutShort
          /\ UNCHANGED <<helperUp, socketFile, backlog, hcalls>>
    /\ UNCHANGED kills

\* The effect of a command that was cut short arrives.
Land(e) ==
    /\ e \in landing
    /\ landing' = landing \ {e}
    /\ applied' = Append(applied, e)
    /\ UNCHANGED <<helperUp, socketFile, backlog, hcalls, job, kills>>

\* What the caller gets to know.  A refusal by the server names no capability
\* (response_mismatch), a response over the limit is not read to its end.
Envelope == 1
Told ==
    CASE job.error \in {"authentication_failed", "invalid_request"} -> Unavailable
      [] job.size + Envelope > MAX_RESPONSE_BYTES -> Unavailable
      [] job.error = None -> "ok"
      [] OTHER -> job.error

\* server: serve_once, sendall
Respond(i) ==
    /\ job.id = i /\ job.todo = <<>>
    /\ IF Waiting(i)
       THEN /\ hcalls' = [hcalls EXCEPT ![i].answer = Told,
                                        ![i].ready = ProbeReady(Told, job.seen)]
            /\ job' = NoJob
            /\ UNCHANGED <<helperUp, socketFile, backlog>>
       ELSE Ends(FALSE)
    /\ UNCHANGED <<applied, landing, kills>>

\* The helper is killed, and a mutating command that runs is cut short.
Kill ==
    /\ helperUp /\ kills < MaxKills
    /\ kills' = kills + 1
    /\ Ends(TRUE)
    /\ IF job.id # 0 /\ job.todo # <<>> /\ Head(job.todo) = "mutate"
       THEN CutShort ELSE UNCHANGED <<applied, landing>>

\* Mutant: a socket that was left behind is in the way.
BindRefusesExisting(fresh) ==
    /\ ~helperUp /\ ~socketFile
    /\ helperUp' = TRUE /\ socketFile' = fresh
    /\ UNCHANGED <<backlog, hcalls, job, applied, landing, kills>>

\* systemd starts the helper again; bind replaces a socket left behind
Bind(fresh) ==
    /\ ~helperUp
    /\ helperUp' = TRUE /\ socketFile' = fresh
    /\ UNCHANGED <<backlog, hcalls, job, applied, landing, kills>>

HostIds == 1 .. Len(hcalls)

Serve ==
    \/ \E i \in HostIds : Accept(i) \/ Respond(i)
    \/ Observe \/ Mutate(job.unit)

HostNext ==
    \/ \E w \in HostClients, c \in HostCalls : Call(w, c)
    \/ \E i \in HostIds : GiveUp(i)
    \/ Serve
    \/ \E e \in landing : Land(e)
    \/ Kill \/ Bind(TRUE)

HostSpec == HostInit /\ [][HostNext]_hostVars

\* The helper goes on serving, systemd restarts it, a socket times out.
HostFairness ==
    /\ WF_hostVars(Serve) /\ WF_hostVars(Bind(TRUE))
    /\ WF_hostVars(\E i \in HostIds : GiveUp(i))

HostFairSpec == HostSpec /\ HostFairness

-----------------------------------------------------------------------------
Mutating(c) == c.tool \in {"service.restart", "service.recover", "deployment.deploy",
                           "deployment.rollback"}
EffectsOf(i) == {n \in 1 .. Len(applied) : applied[n].id = i}
IntendedUnit(c) ==
    CASE c.tool = "service.restart" -> ServiceUnits[c.target]
      [] c.tool = "service.recover" -> RecoveryUnits[c.component]
      [] c.tool = "deployment.deploy" -> "controlled-deploy"
      [] OTHER -> "controlled-rollback"

HostTypeOK ==
    /\ helperUp \in BOOLEAN /\ socketFile \in BOOLEAN
    /\ helperUp => socketFile
    /\ \A n \in 1 .. Len(backlog) : backlog[n] \in HostIds
    /\ \A i \in HostIds : hcalls[i].call \in HostCalls /\ hcalls[i].ready \in BOOLEAN
    /\ job.id \in {0} \cup HostIds
    /\ \A n \in 1 .. Len(applied) : applied[n].id \in HostIds
    /\ \A e \in landing : e.id \in HostIds
    /\ kills \in 0 .. MaxKills

(* A caller that is told "ok" had exactly the effect it asked for, once    *)
(* and on the unit it asked for, and no other request changes the host     *)
(* twice: client.execute never turns the answer of another request, or of  *)
(* none, into a success, and nothing is repeated although callers give up, *)
(* the helper dies with a request half done and systemd starts it again.   *)
ToldOkMeansDone ==
    \A i \in HostIds :
        /\ Cardinality(EffectsOf(i)) <= 1
        /\ EffectsOf(i) # {} => hcalls[i].call.cred
        /\ hcalls[i].answer = "ok" /\ Mutating(hcalls[i].call) =>
              \E n \in EffectsOf(i) : applied[n].unit = IntendedUnit(hcalls[i].call)

(* An effect never overtakes a later one: a request whose caller gave up   *)
(* long ago is still executed, but before everything that was sent after   *)
(* it (serve_forever is serial).  A command killed at its timeout, and one *)
(* that runs when the helper itself is killed, are the exceptions: what    *)
(* they started is out of the helper's hands.                              *)
NoStaleEffect ==
    \A n, m \in 1 .. Len(applied) :
        n < m /\ ~applied[m].late => applied[n].id <= applied[m].id

(* Recovery takes DripVid for ready only when its endpoint answered a JSON *)
(* object whose "ok" is true; a dead helper, a timeout, an oversized or    *)
(* malformed reply all count as not ready (the probe fails closed).        *)
ReadyOnlyIfSaid ==
    \A i \in HostIds : hcalls[i].ready => hcalls[i].reply.ok = "true"

(* Every call comes to an end, and a helper that died comes back, also     *)
(* when it was killed and left its socket behind (bind): again and again   *)
(* the helper is up and nobody waits.                                      *)
HostAnswers == []<>(helperUp /\ \A i \in HostIds : ~Waiting(i))

(* What an adapter and the transport let through, the helper executes: the *)
(* server refuses no request that carries the credential.                  *)
AdapterRequestAccepted ==
    job.id # 0 /\ hcalls[job.id].call.cred =>
        job.error \notin {"invalid_request", "invalid_parameters", "unknown_target"}
=============================================================================
