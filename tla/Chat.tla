-------------------------------- MODULE Chat --------------------------------
(***************************************************************************)
(* SysAdmin Chat: one conversation, the requests that write to it and the  *)
(* missions they create, which the worker loop of Departments runs.        *)
(*                                                                         *)
(* ChatController.submit stores the question, plans an intent and queues a *)
(* mission; ChatController.refresh, which the page polls, answers from the *)
(* finished mission.  Every transaction is a step: requests overlap, fail  *)
(* at the unique position of a message, and die with the web process.      *)
(***************************************************************************)
EXTENDS Departments

CONSTANTS
    Requests,       \* requests of the owner's session under way at a time
                    \* A scope also says whether a chat model (model) and code
                    \* changes (code) are configured, how many questions may
                    \* be asked (asked) and which (texts, one set per question; a
                    \* question is the set of the cues the planner looks for), and
                    \* how many requests may die (died).
    MaxMissions,    \* the most missions a scope allows
    MaxFailedNotes  \* bound: notes about one failed code change

\* What the planner looks for in a question; small_talk stands for the rest.
Cues == {"action", "object", "ai_hq", "dripvid", "mutation", "logs", "config", "release",
         "service", "status", "referenced", "unlisted", "health", "how", "system_health",
         "service_status", "general", "small_talk"}

ASSUME ChatAssumption ==
    /\ MaxMissions \in Nat /\ MaxFailedNotes \in Nat
    /\ \A x \in Scopes :
          /\ x.model \in BOOLEAN /\ x.code \in BOOLEAN
          /\ x.asked \in Nat /\ x.died \in Nat
          /\ x.texts \in Seq(SUBSET (SUBSET Cues)) /\ x.asked <= Len(x.texts)

VARIABLES
    msgs,    \* chat_messages of the conversation, by position
    req,     \* per request: pc, kind, text, mission, pos, msg
    polling, \* missions the page asks about again and again
    asked, died,
    tangled, \* history: two submits have overlapped
    raced    \* history: two refreshes have overlapped

chatVars == <<msgs, req, polling, asked, died, tangled, raced>>

NoMessage == [role |-> "none", kind |-> "none", mission |-> 0, question |-> {}, claim |-> "none"]
Free == [pc |-> "idle", kind |-> "none", text |-> {}, mission |-> 0, pos |-> 0, msg |-> NoMessage]

ChatInit ==
    /\ DeptInit
    /\ msgs = <<>> /\ req = [r \in Requests |-> Free] /\ polling = {}
    /\ asked = 0 /\ died = 0 /\ tangled = FALSE /\ raced = FALSE

-----------------------------------------------------------------------------
(* intents: what a question asks for                                       *)

Refused == [kind |-> "refused", steps |-> {}]
Operational(steps) == [kind |-> "operational", steps |-> steps]

looks_like_code_change(t) == {"action", "object"} \subseteq t

\* Exactly one of the two repositories must be named.
CodeChangeIntent(t) ==
    IF ("ai_hq" \in t) = ("dripvid" \in t) THEN Refused
    ELSE [kind |-> "code_change", steps |-> {}]

is_mutation_request(t) == "mutation" \in t

\* _plan_dripvid_read; {} when it leaves the question to the rest
plan_dripvid_read(t) ==
    LET vid == "dripvid" \in t
        status == "status" \in t
    IN  CASE vid /\ "logs" \in t -> {Refused}
          [] vid /\ "config" \in t -> {Operational({"dripvid.config.read"})}
          [] vid /\ "release" \in t -> {Operational({"dripvid.release.read"})}
          [] "service" \in t /\ status -> {Operational({"dripvid.service.status.read"})}
          [] vid /\ status /\ "referenced" \in t ->
                {Operational({"dripvid.service.status.read"})}
          [] vid /\ status /\ "unlisted" \in t -> {Refused}
          [] vid /\ "health" \in t -> {Operational({"dripvid.health.read"})}
          [] vid /\ "how" \in t -> {Operational({"dripvid.health.read", "dripvid.release.read"})}
          [] OTHER -> {}

\* The rest of plan_sysadmin_intent: reads of AI HQ itself, or talk
PlanHqRead(t) ==
    LET wanted == {x \in {"logs", "service_status", "system_health"} : x \in t}
        steps == (IF "system_health" \in wanted THEN {"system.health.read"} ELSE {})
                 \cup (IF "service_status" \in wanted THEN {"service.status.read"} ELSE {})
                 \cup (IF "logs" \in wanted THEN {"service.logs.read"} ELSE {})
    IN  IF wanted = {} /\ "general" \in t
        THEN Operational({"system.health.read", "service.status.read", "service.logs.read"})
        ELSE IF steps # {} THEN Operational(steps)
        ELSE [kind |-> "conversation", steps |-> {}]

plan_sysadmin_intent(t) ==
    IF looks_like_code_change(t) THEN CodeChangeIntent(t)
    ELSE IF is_mutation_request(t) THEN Refused
    ELSE IF plan_dripvid_read(t) # {} THEN CHOOSE x \in plan_dripvid_read(t) : TRUE
    ELSE PlanHqRead(t)

-----------------------------------------------------------------------------
(* ChatService.add_message                                                 *)

\* Mutant: one is added to the next position once more.
SayPastTheEnd(r, kind, m, question, claim) ==
    [req[r] EXCEPT !.pc = "add", !.mission = m, !.pos = Len(msgs) + 2,
        !.msg = [role |-> "assistant", kind |-> kind, mission |-> m,
                 question |-> question, claim |-> claim]]

\* From here on the request may read the position its message will get.
Say(r, kind, m, question, claim) ==
    [req[r] EXCEPT !.pc = "add", !.mission = m, !.pos = Len(msgs) + 1,
        !.msg = [role |-> "assistant", kind |-> kind, mission |-> m,
                 question |-> question, claim |-> claim]]

\* A request that fails after it created a mission leaves it without notice.
Dropped(r) ==
    IF req[r].kind = "submit" /\ req[r].mission # 0
    THEN [board EXCEPT ![req[r].mission].dropped = TRUE] ELSE board

\* pollMission of the page: the newest pending mission, until its reply is
\* there or a refresh fails
PageAfterNotice(r) == IF req[r].msg.kind = "notice" THEN {req[r].mission} ELSE polling
PageAfterError(r) == IF req[r].kind = "refresh" THEN polling \ {req[r].mission} ELSE polling

AddMessage(r) ==
    /\ req[r].pc = "add"
    /\ polling' = PageAfterNotice(r)
    /\ msgs' = Append(msgs, req[r].msg)
    /\ req' = [req EXCEPT ![r] = IF @.msg.role = "user"
                                 THEN [@ EXCEPT !.pc = "intent"] ELSE Free]
    /\ UNCHANGED <<asked, died, tangled, raced, deptVars>>

\* Another message came after the position was read: the unique constraint
\* fails the insert, and the request with it.
PositionTaken(r) ==
    /\ req[r].pc = "add" /\ req[r].pos <= Len(msgs)
    /\ board' = Dropped(r) /\ polling' = PageAfterError(r)
    /\ req' = [req EXCEPT ![r] = Free]
    /\ UNCHANGED <<msgs, asked, died, tangled, raced, scope, agents, at, seenPlanned, loopCrashes>>

-----------------------------------------------------------------------------
(* ChatController.submit                                                   *)

Busy(kind) == {r \in Requests : req[r].kind = kind}

Submit(r, t) ==
    /\ req[r].pc = "idle" /\ asked < scope.asked
    /\ asked' = asked + 1
    /\ req' = [req EXCEPT ![r] =
                 [Free EXCEPT !.pc = "add", !.kind = "submit", !.text = t, !.pos = Len(msgs) + 1,
                              !.msg = [NoMessage EXCEPT !.role = "user", !.kind = "question",
                                                        !.question = t]]]
    /\ tangled' = (tangled \/ Busy("submit") # {})
    /\ UNCHANGED <<msgs, polling, died, raced, deptVars>>

\* The question is stored: refuse, talk, queue a code change or create the
\* mission of an inspection
ActOnIntent(r) ==
    /\ req[r].pc = "intent"
    /\ LET intent == plan_sysadmin_intent(req[r].text)
           new == Len(board) + 1
       IN  \/ /\ \/ intent.kind \in {"refused", "conversation"}
                 \/ intent.kind = "code_change" /\ ~scope.code
              /\ req' = [req EXCEPT ![r] = Say(r, intent.kind, 0, {}, "none")]
              /\ UNCHANGED board
           \/ /\ intent.kind = "code_change" /\ scope.code
              /\ board' = Append(board, NewMission("code", FALSE, req[r].text, {}))
              /\ req' = [req EXCEPT ![r] = Say(r, "notice", new, {}, "none")]
           \/ /\ intent.kind = "operational"
              /\ board' = Append(board, NewMission("op", FALSE, req[r].text, intent.steps))
              /\ req' = [req EXCEPT ![r].pc = "plan", ![r].mission = new]
    /\ UNCHANGED <<msgs, polling, asked, died, tangled, raced, scope, agents, at, seenPlanned, loopCrashes>>

\* create_plan, whatever the mission's status is by now, and the notice
CreateChatPlan(r) ==
    /\ req[r].pc = "plan"
    /\ board' = [board EXCEPT ![req[r].mission].planned = TRUE]
    /\ req' = [req EXCEPT ![r] = Say(r, "notice", req[r].mission, {}, "none")]
    /\ UNCHANGED <<msgs, polling, asked, died, tangled, raced, scope, agents, at, seenPlanned, loopCrashes>>

-----------------------------------------------------------------------------
(* ChatController.refresh                                                  *)

LinkedTo(m) == {i \in 1 .. Len(msgs) : msgs[i].mission = m}
Notes(m, kind) == {i \in LinkedTo(m) : msgs[i].kind = kind}

\* The mission must be linked; a mission that is not over is "pending".
Refresh(r, m) ==
    /\ req[r].pc = "idle" /\ LinkedTo(m) # {}
    /\ LET over == board[m].status
           begun == [Free EXCEPT !.kind = "refresh", !.mission = m]
       IN  \/ /\ board[m].kind = "code" /\ over \in {"WAITING_APPROVAL", "COMPLETED"}
              /\ req' = [req EXCEPT ![r] = [begun EXCEPT !.pc = "candidate"]]
           \/ /\ board[m].kind = "code" /\ over \in {"FAILED", "CANCELLED"}
              /\ Cardinality(Notes(m, "change_failed")) < MaxFailedNotes
              /\ req' = [req EXCEPT ![r] =
                   [begun EXCEPT !.pc = "add", !.pos = Len(msgs) + 1,
                      !.msg = [NoMessage EXCEPT !.role = "assistant", !.mission = m,
                                                !.kind = "change_failed"]]]
           \/ /\ board[m].kind = "op" /\ over = "COMPLETED"
              /\ req' = [req EXCEPT ![r] = [begun EXCEPT !.pc = "completed"]]
           \/ /\ board[m].kind = "op" /\ over \in {"FAILED", "CANCELLED"}
              /\ req' = [req EXCEPT ![r] = [begun EXCEPT !.pc = "failed"]]
    /\ raced' = (raced \/ Busy("refresh") # {})
    /\ UNCHANGED <<msgs, polling, asked, died, tangled, deptVars>>

\* Mutant: the notice is taken for the question's place, the last one wins.
LatestQuestion(m) ==
    LET questions == {i \in 1 .. Len(msgs) : msgs[i].role = "user"}
    IN  IF questions = {} THEN {}
        ELSE msgs[CHOOSE i \in questions : \A j \in questions : j <= i].question

\* _mission_question: the last question before the first linked message
MissionQuestion(m) ==
    LET first == CHOOSE i \in LinkedTo(m) : \A j \in LinkedTo(m) : i <= j
        before == {i \in 1 .. first - 1 : msgs[i].role = "user"}
    IN  IF before = {} THEN {}
        ELSE msgs[CHOOSE i \in before : \A j \in before : j <= i].question

\* _deterministic_sysadmin_summary, over a plan whose steps all succeeded
DeterministicSummary(m) ==
    LET health == "system.health.read" \in board[m].steps
        status == "service.status.read" \in board[m].steps
    IN  CASE health /\ status /\ board[m].running -> "Healthy"
          [] health /\ status /\ ~board[m].running -> "Attention_Required"
          [] health /\ ~status -> "Partially_Verified"
          [] OTHER -> "Unable_to_Verify"

\* Mutant: the notice is not counted among the linked messages.
PresentAfterThree(m) == Cardinality(LinkedTo(m)) >= 3

\* _completed_reply_if_present, _terminal_reply_if_present
ReplyPresent(m) == Cardinality(LinkedTo(m)) >= 2

\* _completed_operational_reply: the model's words, or the summary when the
\* model fails or its reply is unusable
ReplyCompleted(r) ==
    /\ req[r].pc = "completed"
    /\ LET m == req[r].mission
       IN  IF ReplyPresent(m) THEN req' = [req EXCEPT ![r] = Free]
           ELSE \/ /\ scope.model
                   /\ \E claim \in {"model", DeterministicSummary(m)} :
                        req' = [req EXCEPT ![r] = Say(r, "answer", m, MissionQuestion(m), claim)]
                \/ /\ ~scope.model
                   /\ req' = [req EXCEPT ![r] = Say(r, "answer", m, board[m].text, "unconfigured")]
    /\ UNCHANGED <<msgs, polling, asked, died, tangled, raced, deptVars>>

\* Mutant: the notice counts as the reply.
ReplyFailedUnlessNotice(r) ==
    /\ req[r].pc = "failed"
    /\ LET m == req[r].mission
       IN  req' = [req EXCEPT ![r] = IF LinkedTo(m) # {} THEN Free
                                     ELSE Say(r, "failed", m, {}, "none")]
    /\ UNCHANGED <<msgs, polling, asked, died, tangled, raced, deptVars>>

\* _failed_operational_reply
ReplyFailed(r) ==
    /\ req[r].pc = "failed"
    /\ LET m == req[r].mission
       IN  req' = [req EXCEPT ![r] = IF ReplyPresent(m) THEN Free
                                     ELSE Say(r, "failed", m, {}, "none")]
    /\ UNCHANGED <<msgs, polling, asked, died, tangled, raced, deptVars>>

\* Mutant: a published candidate is reported as deployed.
OutcomeOptimistic(m) ==
    IF board[m].release = "published" THEN "deployed" ELSE board[m].release

\* _code_change_outcome: how far the approved candidate has come
CodeChangeOutcome(m) == board[m].release

\* _completed_code_change_reply: one candidate message, written once
ReplyCandidate(r) ==
    /\ req[r].pc = "candidate"
    /\ LET m == req[r].mission
       IN  req' = [req EXCEPT ![r] = IF Notes(m, "candidate") # {} THEN Free
                                     ELSE Say(r, "candidate", m, {}, CodeChangeOutcome(m))]
    /\ UNCHANGED <<msgs, polling, asked, died, tangled, raced, deptVars>>

-----------------------------------------------------------------------------
\* Release of an approved candidate (module Release), as the chat sees it
ReleaseSteps == <<"none", "published", "deployed", "rolled_back">>
ReleaseAdvances(m) ==
    /\ board[m].kind = "code" /\ board[m].status = "WAITING_APPROVAL"
    /\ \E i \in 1 .. 3 : /\ board[m].release = ReleaseSteps[i]
                         /\ board' = [board EXCEPT ![m].release = ReleaseSteps[i + 1]]
    /\ UNCHANGED <<scope, agents, at, seenPlanned, loopCrashes, chatVars>>

RequestDies(r) ==
    /\ req[r].pc # "idle" /\ died < scope.died
    /\ died' = died + 1
    /\ board' = Dropped(r) /\ polling' = PageAfterError(r)
    /\ req' = [req EXCEPT ![r] = Free]
    /\ UNCHANGED <<msgs, asked, tangled, raced, scope, agents, at, seenPlanned, loopCrashes>>

RequestStep(r) ==
    \/ AddMessage(r) \/ PositionTaken(r) \/ ActOnIntent(r) \/ CreateChatPlan(r)
    \/ ReplyCompleted(r) \/ ReplyFailed(r) \/ ReplyCandidate(r)

ChatNext ==
    \/ \E r \in Requests : RequestStep(r) \/ RequestDies(r)
    \/ \E r \in Requests : asked < scope.asked /\ \E t \in scope.texts[asked + 1] : Submit(r, t)
    \/ \E r \in Requests, m \in Ids : Refresh(r, m)
    \/ \E m \in Ids : ReleaseAdvances(m)
    \/ DeptNext /\ UNCHANGED chatVars

ChatSpec == ChatInit /\ [][ChatNext]_<<chatVars, deptVars>>

\* The worker loop goes on, a request runs to its end, the page polls.
ChatFairness ==
    /\ \A w \in LoopWorkers :
          WF_<<chatVars, deptVars>>(w \in scope.staff /\ LoopStep(w) /\ UNCHANGED chatVars)
    /\ \A r \in Requests : WF_<<chatVars, deptVars>>(RequestStep(r))
    /\ \A m \in 1 .. MaxMissions :
          SF_<<chatVars, deptVars>>(m \in polling /\ m \in Ids /\ \E r \in Requests : Refresh(r, m))

ChatFairSpec == ChatSpec /\ ChatFairness

-----------------------------------------------------------------------------
ChatTypeOK ==
    /\ DeptTypeOK
    /\ \A i \in 1 .. Len(msgs) : msgs[i].mission \in {0} \cup Ids
    /\ \A r \in Requests : req[r].mission \in {0} \cup Ids /\ req[r].pos <= Len(msgs) + 1
    /\ polling \subseteq Ids /\ asked <= scope.asked /\ died <= scope.died

(* A reply built from a mission's evidence answers the question that       *)
(* created the mission, unless two submits have overlapped: the question   *)
(* is found again by its place in the conversation (_mission_question).    *)
AnswersItsQuestion ==
    ~tangled => \A i \in 1 .. Len(msgs) :
        msgs[i].kind = "answer" => msgs[i].question = board[msgs[i].mission].text

(* An inspection gets one terminal reply, however often the page asks, as  *)
(* long as refreshes do not overlap (check, then add_message).             *)
OneTerminalReply ==
    ~raced => \A m \in Ids : board[m].kind = "op" =>
        Cardinality(Notes(m, "answer") \cup Notes(m, "failed")) <= 1

(* The chat claims no more than the record shows: "healthy" needs a health *)
(* and a status reading that says running, and an outcome of a candidate   *)
(* has been reached.                                                       *)
ClaimsAreGrounded ==
    \A i \in 1 .. Len(msgs) :
        LET m == msgs[i].mission
            Rank(x) == CHOOSE n \in 1 .. 4 : ReleaseSteps[n] = x
        IN  /\ msgs[i].claim = "Healthy" =>
                 /\ {"system.health.read", "service.status.read"} \subseteq board[m].steps
                 /\ board[m].running
            /\ msgs[i].kind = "candidate" => Rank(msgs[i].claim) <= Rank(board[m].release)

\* A step was claimed by a worker that has stopped or was refused the mission:
\* nobody returns it to PENDING, and its mission stays the oldest active plan.
Stranded(m) ==
    /\ m \in Executable /\ board[m].open # "none"
    /\ \A w \in LoopWorkers : at[w].mission = m => at[w].pc \in {"plan", "claim"}

(* An inspection that the page asks about is answered in the end, whatever *)
(* other requests write to the conversation, if one worker runs and does   *)
(* not stop half way.  With two, or one that stops, it is answered unless  *)
(* a claimed step, its own or one of an older plan, has been left behind.  *)
(* The page stops asking when a refresh fails or a newer mission is under  *)
(* way.                                                                    *)
InspectionAnswered ==
    []<>(\A m \in polling : board[m].kind = "op" =>
            \/ ReplyPresent(m)
            \/ /\ loopCrashes > 0 \/ Cardinality(scope.staff) > 1
               /\ \E n \in 1 .. m : Stranded(n))
=============================================================================
