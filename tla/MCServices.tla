----------------------------- MODULE MCServices -----------------------------
(***************************************************************************)
(* Instances of the services around the mission core: the host helper, the *)
(* chat with the worker loop, and the candidate sandbox.  They share no    *)
(* variable: the first state says which one moves, so that one run looks   *)
(* at each of them in turn.                                                *)
(***************************************************************************)
EXTENDS HostHelper, Chat, Candidate

CONSTANTS k1, k2

VARIABLE part

mcVars == <<hostVars, chatVars, deptVars, candVars, part>>

-----------------------------------------------------------------------------
(* Host helper                                                             *)

Tool(tool, target, mutates) ==
    [tool |-> tool, target |-> target, mutates |-> mutates, names |-> {},
     lines |-> 100, component |-> "app", safe |-> TRUE, cred |-> TRUE]

MCHostTargets ==
    [x \in {"ai-hq", "dripvid", "dripvid-database"} |->
        CASE x = "ai-hq" ->
               [allows |-> {"system.health.read", "service.status.read", "service.logs.read",
                            "service.restart", "deployment.deploy", "deployment.rollback"},
                service |-> "ai-hq", log |-> "ai-hq"]
          [] x = "dripvid" ->
               [allows |-> {"service.recover", "service.restart"},
                service |-> "dripvid", log |-> "dripvid"]
          [] OTHER ->
               [allows |-> {"service.status.read", "service.logs.read"},
                service |-> "postgresql", log |-> "postgresql"]]

MCRecoverDatabase ==
    [Tool("service.recover", "dripvid", TRUE) EXCEPT !.names = {"component"},
                                                     !.component = "database"]
MCDeploy == Tool("deployment.deploy", "ai-hq", TRUE)
MCRollback == [Tool("deployment.rollback", "ai-hq", TRUE) EXCEPT !.names = {"release_id"}]

MCHostCalls ==
    {Tool("system.health.read", "ai-hq", FALSE),
     Tool("service.restart", "ai-hq", TRUE),
     Tool("dripvid.readiness", "dripvid", FALSE),
     Tool("service.logs.read", "dripvid-database", FALSE),
     Tool("service.status.read", "dripvid-database", FALSE),
     Tool("host.resources", "host", FALSE),
     Tool("container.status", "ai-hq-web", FALSE),
     MCDeploy, [MCDeploy EXCEPT !.cred = FALSE], MCRecoverDatabase, MCRollback}

MCReleaseCalls == {MCDeploy, MCRollback}

-----------------------------------------------------------------------------
(* Chat and worker loop                                                    *)

MCLoopWorkers == {k1, k2}

General == {"general"}
Mixed == {"dripvid", "mutation", "health"}
Edit == {"action", "object", "ai_hq"}

\* Two questions; one question and a mission made by hand, with a request
\* that dies; a worker that stops; nothing configured; two workers; only
\* missions made by hand.
Asking ==
    [staff |-> {k1}, hand |-> 0, crashes |-> 0, asked |-> 2, died |-> 0, model |-> TRUE,
     code |-> TRUE, texts |-> <<{General}, {{"small_talk"}}>>]
Asleep == [Asking EXCEPT !.staff = {}, !.asked = 0]
MCScopes ==
    {Asking, Asleep,
     [Asking EXCEPT !.asked = 1, !.died = 1, !.hand = 1, !.texts = <<{General, Mixed, Edit, {"ai_hq"}}>>],
     [Asking EXCEPT !.asked = 1, !.crashes = 1, !.texts = <<{General, {"system_health"}}>>],
     [Asking EXCEPT !.asked = 1, !.model = FALSE, !.code = FALSE, !.texts = <<{General, Edit}>>],
     [Asking EXCEPT !.asked = 1, !.staff = {k1, k2},
                    !.texts = <<{{"system_health", "service_status"}, Edit}>>],
     [Asking EXCEPT !.asked = 0, !.hand = 2, !.crashes = 1, !.staff = {k1, k2}]}

-----------------------------------------------------------------------------
(* Candidate                                                               *)

Lf(t) == [text |-> t, crlf |-> FALSE]
CrLf(t) == [text |-> t, crlf |-> TRUE]
MCMainTrees ==
    <<[p \in Tracked |-> IF p = "new.py" THEN Absent ELSE Lf("old")],
      [p \in Tracked |-> IF p = "new.py" THEN Lf("empty") ELSE Lf("merged")]>>
MCLocal == [p \in {".env", ".git/config", "node_modules"} |-> Lf("local")]

Write(p, c) == [path |-> p, op |-> "write", content |-> c]
Delete(p) == [path |-> p, op |-> "delete", content |-> Absent]
MCProposals ==
    {<<Write("app.py", Lf("fixed"))>>,
     <<Write("new.py", Lf("fixed")), Write("lib.py", CrLf("old"))>>,
     <<Write("app.py", Lf("fixed")), Delete("app.py"), Write("new.py", Lf("moved"))>>,
     <<Write(".git/config", Lf("fixed")), Delete("lib.py")>>,
     <<Write("app.py", Lf("fixed")), Write("new.py", Lf("empty"))>>, <<Write("new.py", Lf("empty"))>>,
     <<Delete("new.py"), Write("lib.py", Lf("empty"))>>,
     <<Delete(".env")>>, <<Write("lib.py", CrLf("old"))>>, <<Write("node_modules", Lf("fixed"))>>}
MCDroppings ==
    {[path |-> ".cache", content |-> Lf("cache")], [path |-> ".cache", content |-> Absent],
     [path |-> "app.py", content |-> Lf("junk")], [path |-> "lib.py", content |-> Lf("junk")]}

-----------------------------------------------------------------------------
MCInit ==
    /\ part \in {"host", "chat", "candidate"}
    /\ HostInit /\ ChatInit /\ CandidateInit
    /\ part = "chat" <=> scope # Asleep

MCNext ==
    \/ part = "host" /\ HostNext /\ UNCHANGED <<chatVars, deptVars, candVars, part>>
    \/ part = "chat" /\ ChatNext /\ UNCHANGED <<hostVars, candVars, part>>
    \/ part = "candidate" /\ CandidateNext /\ UNCHANGED <<hostVars, chatVars, deptVars, part>>

\* In a part that does not move no fair action is enabled.
MCSpec == MCInit /\ [][MCNext]_mcVars /\ HostFairness /\ ChatFairness

(* Every variable of the three services has its type in every state.       *)
ServicesTypeOK == HostTypeOK /\ ChatTypeOK /\ CandidateTypeOK
=============================================================================
