# AI HQ: a TLA+ verification project

AI HQ is a control room for AI agents that operate other systems. People talk to it, it turns
what they ask for into *missions*, and worker processes carry the missions out through tools,
under a safety policy that blocks, simulates, allows, or asks a human first. This directory
holds TLA+ models of its core, the TLC configurations that check them, and theorems with
proofs checked by TLAPS. Paths below are relative to `src/src/ai_hq/` unless they start with
`src/`.

1. [The system](#1-the-system)
2. [Modules and plan](#2-modules-and-plan)
3. [MissionExecution and PlanProgress](#3-missionexecution-and-planprogress)
4. [CodeChange](#4-codechange)
5. [Release](#5-release)
6. [Candidate](#6-candidate)
7. [Recovery](#7-recovery)
8. [HostHelper](#8-hosthelper)
9. [Departments and Chat](#9-departments-and-chat)
10. [Runs](#10-runs)
11. [Fairness](#11-fairness)
12. [Proofs](#12-proofs)
13. [Findings, divergences and limits](#13-findings-divergences-and-limits)
14. [What is not modelled](#14-what-is-not-modelled)
15. [How to run it](#15-how-to-run-it)

## 1. The system

### Processes and shared state

| Process | Code | What it does |
|---|---|---|
| web application | `app.py`, `web.py`, `*/api.py` | HTTP requests: chat, missions, approvals, knowledge, notifications |
| worker | `worker.py` | one loop: recovery observation, one step of a planned mission, one code change, one department task |
| host helper | `host_helper/` | a privileged service behind a unix socket that runs a fixed set of host commands |
| command line | `cli.py` | administration |

They share a PostgreSQL database (missions, steps, approvals, rules, deliveries, incidents,
ledger, sessions) and a Redis server (health ping, login limiter). Every service method opens
a SQLAlchemy session of its own and commits it before it returns. The isolation level is the
default, READ COMMITTED; no code takes a row lock (`FOR UPDATE`). So whatever a method read
before it returned may be stale when its caller uses it, and the only protection between
processes is a conditional `UPDATE ... WHERE status = ...` where one is written. That is the
source of most of the hazards listed in `PROJECT.json`.

### Inventory

| Component | State | Operations | Hard behaviour | Correct when |
|---|---|---|---|---|
| Mission store `missions/service.py` | missions, steps, leases | create, plan, claim a step, transition a mission or a step, claim and renew a code-change lease | check and write are separate statements, except in the claims | plan runs in order, what has ended stays ended |
| Mission executor `missions/executor.py` | none (the call's locals) | `run_next`, `resume_approved` | 5 to 12 transactions per call, decided from one early snapshot; crashes between any two | each step runs once, the mission's verdict is its plan's |
| Autonomous runner `missions/worker.py` | none | `run_once` | picks the oldest active mission each time | no mission starves |
| Safety `safety/` | system-state row | `evaluate` | mode, approvals and rules read in separate transactions | nothing runs without the authority its risk requires |
| Tool gateway `tool_gateway/` | registry of adapters | `execute` | effect on the outside world between two transactions | the decision is the one carried out |
| Approvals `approvals/` | requests, scoped rules | create, decide, expire, match, consume | concurrent deciders; a rule at its last use | a decision is final, a rule stays in its budget |
| Code changes `code_changes/service.py`, `worker.py` | lease, attempts, candidate | claim, build, verify, submit | a lease that expires under its holder | one candidate per mission, no attempt lost |
| Delivery `delivery/` | stage, revisions, decisions | start, advance, QA, approve, deny | approval and delivery in two transactions | only a verified candidate reaches a human |
| Repository sandbox `delivery/repository_sandbox.py`, `candidate_verifier.py`, `code_changes/candidate_store.py` | a workspace per candidate, its snapshot and evidence | copy the checkout, apply changes, snapshot, test, verify, reopen | the checkout is pulled while it is copied; tests leave files and processes behind | what is published is what was tested and shown |
| Release `code_changes/publisher.py`, `deployer.py`, `rollbacker.py` | publication, deployment, rollback records | publish, deploy, roll back | effect first, record second | the effect happens once and is recorded |
| Recovery `recovery/` | incidents, attempts | observe, escalate, attach a mission, record an attempt | incident, mission, plan and attempt in separate transactions; stops in between | attempts within the budget, no silent escalation, no incident forgotten |
| Departments `departments/`, `worker.py` | agents at work | take the oldest QUEUED mission, route it, inspect | takes missions meant for another runner | a mission with a plan is done by the plan's runner |
| Chat `chat/` | conversations, messages | submit, refresh | requests overlap, fail at the position of a message, die half way | one reply per inspection, to its own question, claiming no more than the evidence |
| Notifications `notifications/` | grouped notifications | notify, read, resolve | look up, then insert | one open notification per group |
| Knowledge `knowledge/` | entries with a status | propose, review, supersede | status machine | no unreviewed entry is used |
| Model router `ai_router/` | usage records | route, record, `can_spend` | budget checked before use (no caller in `src/` yet) | spend stays in the budget |
| Authentication `auth/` | sessions, attempt counters | log in, validate, limit | `INCR` and `EXPIRE` are two commands | a counter always expires |
| Host helper `host_helper/`, `operations/` | a socket, the connection it serves | accept, authenticate, validate, run commands, answer | callers give up before their request is executed; the helper dies with one half done | "ok" means done, once, on the right unit; every call ends |
| Ledger, agents, HQ state | append-only log, registry | append, read | none | out of scope |

### How the parts interact

```
 chat / api ----> MissionService.create_mission, create_plan        decide routes
                          |                                              |
 worker loop --> run_once --> MissionExecutor.run_next         ApprovalService.decide
                          |        |                                     |
        resume_approved --+        v                                     v
                          ToolGateway.execute --> SafetyService.evaluate --> approval_requests
                                   |                     |                   scoped_approval_rules
                                   |                     +--> system_state
                                   +--> consume_rule --> adapter.execute (the outside world)
                                   |
                          transition_step, then transition
```

`adapter.execute` of the operational tools goes on through `operations/transport.py` and
`HostHelperClient` to the socket of the host helper. Recovery asks the helper for readiness and
status, creates missions with a plan like everybody else, and is told by the worker loop what
became of them. The chat creates missions and reads their rows; nobody tells it anything, it looks
when the page polls. A code change runs through `CodeChangeQueueRunner`, whose developer and
verifier use the sandbox, and ends, after a human said yes, in the publisher, which opens the same
workspace again.

## 2. Modules and plan

| Module | Contents | State |
|---|---|---|
| `MissionStates` | the mission statuses and their transition table, shared by the modules | done |
| `PlanProgress` | abstract specification: what the execution of plans promises | done |
| `MissionExecution` | mission store, executor, runner, safety, gateway, approvals and rules, system state, crashes; implements `PlanProgress` | done |
| `MissionExecutionProofs`, `MissionPlanProofs` | type correctness, authority, the budget of a rule; order, single execution, verdict, stability of a plan, its agreement with the mission, and the refinement of `PlanProgress` | proved |
| `CodeChange` | leases, attempts, candidates; delivery stages, QA, approval of a candidate, crashes | done |
| `CodeChangeProofs` | types, immutability of the candidate and the binding of its approval; one open request per mission, agreement of mission and delivery | proved |
| `Release` | publish, deploy, roll back: effect, then record; overlapping calls, lost answers and retry | done |
| `CalmRelease` | `Release` with a memory of whether its calls were kept apart | done |
| `ReleaseProofs` | types, approval of every effect, identity of the publication; records and rollbacks of calls kept apart | proved |
| `Candidate` | sandbox, verifier, candidate store and publisher, file by file | done |
| `CandidateProofs` | types, the branch against the tested files and against the review | proved |
| `Recovery` | incidents, budget, missions for attempts, one or two workers, stops | done |
| `RecoveryProofs` | for any number of workers: types, sustained failures, one attempt per incident, notification; for one worker: budget, accounting, stranded and terminal incidents | proved |
| `HostHelper` | adapters, transport, client, server, contracts, executor, readiness probe | done |
| `HostHelperProofs` | types, effects behind an "ok", their order, readiness | proved |
| `Departments` | the stages of the worker loop and the sysadmin department | done |
| `Chat` | the chat controller and its intent planner, composed with `Departments` | done |
| `ChatProofs` | types, grounded claims, planned missions spared, one reply per mission, the question it answers | proved |
| `MCMissionExecution`, `MCCodeChange`, `MCRelease`, `MCRecovery`, `MCServices` | instances for TLC | done |

`Chat` EXTENDS `Departments`: the missions a request creates are the ones the worker loop takes.
`MissionExecution` instantiates `PlanProgress`. `MCRelease` EXTENDS `CalmRelease`, which EXTENDS
`Release`. The other modules meet at a value each of them
chooses freely: `Recovery` and `Departments` see a planned mission as its outcome, which
`MissionExecution` explains; `CodeChange` sees the developer and the verifier as an answer or an
exception, which `Candidate` explains; `Release` sees the publisher as an effect that may be
refused, which `Candidate` explains, and the host as an answer, which `HostHelper` explains.

Every safety property of a passing run has its theorem (section 12). Left in the plan: small modules
for notification groups, the login limiter and knowledge entries.

The modules are written for both tools: parameters are CONSTANTS with one named assumption, an
operation is an action, and no operator is RECURSIVE.

## 3. MissionExecution and PlanProgress

### State

| Variable | Code |
|---|---|
| `mstatus`, `planned` | `missions.status` (`ABSENT` before `create_mission`); whether rows of `mission_steps` exist for the mission |
| `sstatus` | `mission_steps.status` |
| `astate`, `akey`, `alive` | `approval_requests`: state; mission and fingerprint; `expires_at` not passed |
| `rstate`, `rcount` | `scoped_approval_rules`: absent, live or expired; `execution_count` |
| `mode`, `sim` | the `system_state` row; `"unreadable"` is a row with a value the code cannot parse |
| `pc`, `mi`, `snap`, `st`, `tgt`, `ctx` | the locals of one call of `run_next` or `resume_approved`: next transaction, mission id, mission snapshot, step, target of the transition under way, what the gateway has read |
| `dec` | a web request between the check in `decide` and its commit |
| `crashes` | bound of the model |
| `execs`, `granted`, `charged` | history: adapter calls per step, keys that ever had an approved unexpired request, (step, rule) executions after consuming a rule |

Missions are numbered by `created_at`. A plan is data: `StepMission`, `StepPos`, and per step
its fingerprint, the scope a rule matches, whether the request mutates, whether an adapter is
registered and whether the agent holds the permission. The fingerprint is a hash of capability,
target and parameters; only its equality matters, so it is a model value and two steps with
equal requests share it.

### Actions

One action is one transaction. Three methods read a row, test it and then write it by primary
key with no lock and no condition; under READ COMMITTED another commit may fall in between, so
each is two actions.

| Action | Code |
|---|---|
| `CreateMission`, `CreatePlan` | `create_mission`, `create_plan`: two transactions, as the callers use them |
| `DepartmentFails` | `DepartmentRunner.run_once` takes a mission whose plan is not written yet and fails it as unsupported |
| `RunOnce` | `run_once`: the oldest QUEUED or RUNNING mission that has a plan |
| `GetMission`, `CheckWaiting` | the head of `run_next`: the snapshot, its early returns |
| `SelectStep`, `ClaimStep` | the two statements of `claim_next_pending_step`: `SELECT` the first incomplete step, conditional `UPDATE` |
| `CheckPlan` | `plan_is_complete` at both places of `run_next` that call it |
| `TransitionRead`, `TransitionWrite` | `transition` with the table `AllowedTransitions`; a refused transition raises and ends the call |
| `TransitionStepRead`, `TransitionStepWrite` | `transition_step` with `AllowedStepTransitions` |
| `ResumeApproved`, `FindWaitingStep` | `resume_approved` |
| `ReadSystemState`, `IsApproved`, `MatchRule` | the three reads of `evaluate`, in its order; `MatchRule` ends with the policy table (`EvaluateAction`) and the branch of `ToolGateway.execute` it selects |
| `FindPending`, `CreateRequest` | the REQUIRE_APPROVAL branch: reuse an open request or create one |
| `ConsumeRule` | `consume_rule`: one conditional `UPDATE` that tests the limit again |
| `ExecuteTool` | `adapter.execute`: returns or raises `ToolAdapterError` |
| `DecideRead`, `DecideWrite` | the decide route: expiry and PENDING check, then the write |
| `ExpireApproval`, `ExpireRule` | `expires_at` passes |
| `CreateScopedRule` | `create_scoped_rule` |
| `SetSystemState` | an operator edits the row (no code in `src/` does) |
| `Crash` | a process dies between two transactions and is restarted without memory (`restart: unless-stopped`) |

Choices worth knowing:

* `RunOnce` stands for `list_missions` and the `list_plan_steps` calls after it. Nothing is
  carried over from them but the id, and `run_next` reads the mission again, so the whole is
  placed at one moment. `DecideRead` merges the expiry check of the route with the PENDING
  check of `decide` in the same way.
* An exception and a return end a call alike: a worker that raises exits and is restarted, a
  caller of `resume_approved` gets an error. An adapter that raises something other than
  `ToolAdapterError` is `ExecuteTool` followed by `Crash`.
* A simulated action (`SIMULATE_ONLY`) succeeds and calls no adapter, so it does not count in
  `execs`.
* Statuses PAUSED and CANCELLED are in the tables, but nothing in `src/` moves a mission
  there; no action does either.
* `resume_approved` and `create_scoped_rule` have no caller outside their delegates yet. They
  are public operations with tests, and are modelled as callable at any time.
* Between `create_mission` and `create_plan` a mission is a QUEUED one without a plan, which the
  department runner takes (`departments/runner.py:28`). `DepartmentFails` is its refusal as one step;
  `create_plan` then still writes the plan, PENDING steps of a FAILED mission that nobody starts.
  That is the one way to FAILED without a FAILED step, and the properties name it (`PlanUntouched`). A
  department so slow that the plan is written and started between its look and its transition is in
  `Departments` only (section 9): there a mission may be FAILED with steps that ran.
* Ledger entries and the text of results and errors are left out.

### The abstract specification

`PlanProgress` knows no processes, transactions, approvals or crashes. Of a step it knows how often
it had an effect and whether it is open, ok or failed; of a mission whether it is open, COMPLETED or
FAILED. A step may have its effect once, when everything before it is ok and its mission is open; it
ends only on its turn; a verdict follows from the steps and is final, unless the mission is refused
before any step has begun. `MissionExecution` maps its
state onto it (`StepOutcome`, `MissionVerdict`, the counter `execs`), and the run `plan` checks
`ImplementsPlanProgress`: every transaction of every process is one step of the plan or changes
nothing a plan knows of. This says more than the invariants together, for example that the
effect of a step comes before its outcome and never after a verdict.

## 4. CodeChange

A code-change mission has no plan. A worker claims it under a lease and runs
`process_queued_candidate`: a developer model builds a candidate, a QA model reviews it, and a
passed review creates an approval request and suspends the mission.

### State

| Variable | Code |
|---|---|
| `mstatus`, `lowner`, `lease`, `attempts` | the `missions` row: status, `lease_owner`, `lease_expires_at` (none, live or expired), `attempt_count` |
| `stage`, `cref`, `qa`, `aref` | the `mission_deliveries` row: stage (`None`: no row), `change_ref`, `qa_result`, `approval_reference` |
| `astate`, `akey`, `alive` | `approval_requests`: state; mission and change it is about; `expires_at` not passed |
| `pc`, `mi`, `att`, `seen`, `res`, `areq`, `tgt` | the locals of one call: next transaction, mission, the attempt, the `change_ref` read, the review, the request created, the target status |
| `ap` | a call of `apply_human_decision` between its checks and its commit |
| `crashes` | bound of the model |

A `change_ref` is the hash of what one attempt built. Only its equality matters, so it is the
number of the attempt that built it. Two attempts that build the same change are thus told apart,
which only makes the properties harder to satisfy.

### Actions

| Action | Code |
|---|---|
| `QueueCandidate` | `queue_candidate` |
| `Claim` | `claim_oldest_code_change`: its conditional `UPDATE` of the oldest claimable mission |
| `GetMission`, `RenewLease` | the head of `process_queued_candidate`; `renew_code_change_lease` at its three places |
| `GetDelivery` | `_run_existing_mission`: continue from the delivery row, before and after `run_developer` |
| `RunDeveloper`, `RunQA` | the two models, the sandbox and the verifier: an answer or an exception |
| `SubmitProposalRead`, `SubmitProposalWrite` | `submit_developer_proposal`: checks; `INSERT`, which the unique key on `mission_id` may refuse |
| `RecordQARead`, `CreateRequest`, `RecordQAWrite` | `record_qa_result`: checks; `create_request`, which commits in a session of its own; delivery and mission in one commit |
| `ResultForMission`, `CheckCurrent` | the end of the try block |
| `HandleFailure` | its exception handler |
| `TransitionRead`, `TransitionWrite` | `MissionService.transition` |
| `ReleaseLease` | `release_code_change_lease` |
| `Decide`, `ExpireApproval` | a human answers; 24 hours pass |
| `ApplyDecisionRead`, `ApplyDecisionWrite` | `apply_human_decision` on a denied request (an approved one changes nothing, every other case raises) |
| `ExpireLease` | `lease_expires_at` passes |
| `Crash` | a worker dies between two transactions |

Choices worth knowing:

* `Claim` merges the `SELECT` of candidates with the conditional `UPDATE`, which repeats the whole
  condition: what was selected and is no longer claimable is skipped.
* The runner's id contains a fresh UUID, so a crashed worker comes back as another one: its
  lease is then held by `Gone`, an id that no live worker has. An exception does not end the
  process (`run_worker_iteration` catches it), so the id stays.
* A failed review sets `approval_reference` to NULL on a row it read with NULL. The session
  sees no change and writes none, so neither does `RecordQAWrite`; with overlapping workers
  that makes a difference.
* `LeaseOutlivesWork` says that no lease expires while its holder works under it. The lease is
  900 seconds and is renewed before each model call, but nothing enforces it, so it is a
  parameter: what needs it is checked and proved with it, the rest without.
* One decider: the race of two is the subject of `MissionExecution`.
* `apply_human_decision` is called by the publish, deploy and rollback methods, which have no
  caller in `src/` outside tests yet; it is modelled as callable at any time.
* The result payload (`record_result`) and the candidate store are left out: nothing here
  reads them to decide.

## 5. Release

`CodeChangeService` has a method each to publish, deploy and roll back a change that a human has
approved. All three have one shape: check mission and delivery, apply the human decision, act on
the outside world, record what was done. A mission starts here where `CodeChange` leaves it: its
delivery is in the stage WAITING_APPROVAL, refers to its request, and QA has passed.

### State

| Variable | Code |
|---|---|
| `waiting` | `mission_deliveries.stage` is WAITING_APPROVAL |
| `approval`, `alive` | the request that the delivery refers to: state; `expires_at` not passed |
| `pub` | `published_branch`, `published_commit`, `published_tree`, written together, as the number of the commit |
| `dep`, `prior`, `rb` | `deployment_release_id`, `deployment_prior_release_id`, `rollback_release_id` |
| `branch`, `commits` | the remote: commit of the change's branch, commits on branches so far |
| `live`, `by`, `names` | the host: active release (0 is the one before all changes), the change a release was made for, whether its answers name the release |
| `rolled` | history: changes whose rollback the host has carried out |
| `pc`, `op`, `mi`, `got`, `was` | the locals of one call: next step, method, mission, identities that the effect returned |
| `faults` | bound of the model |

### Actions

| Action | Code |
|---|---|
| `Start` | the checks of mission and delivery at the head of the methods |
| `ApplyDecision`, `DenyWrite` | `apply_human_decision` and the checks of the delivery it returns (`Due`): what the method needs is recorded, its own record is not there. A denial commits and then raises |
| `EffectFails` | everything that can fail before the effect: `load_verified`, a moved base branch, an HTTP error, a command that exits with an error |
| `Publish` | `GitHubCandidatePublisher.publish`: blobs, tree, commit, then `POST git/refs`, refused when the branch exists |
| `Deploy` | `OperationalCandidateDeployer.deploy` and the host behind it |
| `Rollback` | `OperationalCandidateRollbacker.rollback` to the recorded prior release |
| `RecordRead`, `RecordWrite` | `record_publication`, `record_deployment`, `record_rollback`: the same checks again; the commit |
| `Decide`, `ExpireApproval` | a human answers; 24 hours pass |
| `Fault` | the process dies, or a timeout raises although the remote or the host has acted |

Choices worth knowing:

* The three methods repeat the same code, and so do the three `record_...` methods. Each is one
  action with the method as a parameter; `PROJECT.json` names the lines of one of the three, which
  for `RecordRead` and `RecordWrite` is `record_deployment` (the others: `delivery/service.py` 208
  to 280 and 360 to 441).
* A commit that no branch refers to is not counted: nothing can see it.
* A host names the release in its answer to a deployment, or it does not (`names`, chosen at the
  start and kept). The contract of `CandidateDeployer` and the tests have one that does; the host
  helper of this repository answers `{"deployed": True}` (`host_helper/executor.py:572`), and the
  deployer then raises although the host has acted (`code_changes/deployer.py:107`). The prior
  release is optional in the answer, so either may come.
* A prior release that was read as NULL and is set to NULL is not written by the session; with
  overlapping calls the prior release of another call then stays.
* Both methods that replay a recorded effect return before the effect, so a replay is a call that
  ends in `ApplyDecision`.
* The methods have no caller in `src/` outside tests yet, and no publisher, deployer or rollbacker
  is configured by default. They are modelled as callable at any time, by several processes.

## 6. Candidate

One candidate between the checkout it starts from and the branch it becomes.
`IsolatedRepositorySandbox.prepare` copies the checkout, `apply_changes` writes the developer's
changes, `snapshot` compares manifests, `run_tests` runs the commands of the profile, and
`CandidateVerifier` ties the evidence together. After QA and approval (`CodeChange`)
`CandidateStore.load_verified` reopens the workspace and `GitHubCandidatePublisher` builds a tree
and a commit from its files.

| Variable | Code |
|---|---|
| `main` | commit of the base branch on the remote |
| `mirror` | the source checkout: HEAD and files, which a pull changes one by one |
| `ws`, `manifest0`, `snap` | files of the workspace; `base_manifest`; `CandidateSnapshot` (`changed_files`, `content_digest`) |
| `base` | `base_commit`; 0 is `NO_GIT_BASE_COMMIT` |
| `review` | files that have a section in the review diff |
| `pc`, `todo`, `ran`, `tree` | where the candidate is; paths still to copy or read; commands run; tree under construction |
| `branch` | the generated branch, as parent and tree |
| `tested`, `meddled`, `strays` | history: files when the tests began; a write while the publisher read; bound |

| Action | Code |
|---|---|
| `ResolveBase`, `CheckHead`, `CheckClean` | `_resolve_base_commit` and the two checks of the checkout: three git commands |
| `CopyFile`, `EndCopy` | `copytree`, file by file; untracked files, links, `_manifest` |
| `ApplyChanges` | path and content checks, the writes, `_build_review_diff` and its limit |
| `Snapshot`, `StartTests`, `RunCommand`, `Verify` | `snapshot`, `_require_current_snapshot`, the commands, `verify` |
| `LoadVerified`, `CheckBase`, `ReadChangedFile`, `CreateBranch`, `PublishFails` | `load_verified`; `publish` from the check of the base branch to `POST git/refs` |
| `Merge`, `PullFile`, `PullHead`, `Stray` | the world: main advances, somebody pulls the checkout, a process the tests started writes to the workspace |

Choices worth knowing:

* A content is a text and the way its lines end. `_build_review_diff` compares lines (`Lines`): reading
  as text translates line endings, and a file that is absent has no lines, like one that is empty. So
  a file whose line endings alone change, and an empty file that is created or deleted, have no section
  in the diff, while the manifest sees them. Such a change alone is refused by `verify`
  (`delivery/candidate_verifier.py:75`); next to a visible one it is published without a section.
  `PublishedIsReviewed` therefore speaks of lines. Such a file is in `changed_files`, so the publisher
  reads it, and a write to it at that moment is published without any section. The property names this
  case (`meddled`, and only a file the candidate changed).
* Paths of `.git` are outside the manifest, ignored paths inside it. A candidate whose tests leave a
  cache behind has another digest, so `load_verified` refuses it as stale. The AI HQ profile runs
  `ruff` and `pytest` (`delivery/repository_profiles.py:166`), which do leave caches: this fails
  closed, and such a candidate cannot be published as it is.
* Tests may write to the workspace after the snapshot; nothing looks until the candidate is
  opened again. `tested` is what the tests started from.
* The environment, the isolation of the commands and their output are left out.

## 7. Recovery

`RecoveryWorkerCoordinator.run_if_due` observes DripVid through the helper, opens, escalates or
resolves incidents, and creates missions that restart a component. The worker loop then executes one
mission and hands a result that belongs to recovery back.

| Variable | Code |
|---|---|
| `running` | the workers of this deployment; chosen at the start, so one run has deployments of one and of two |
| `incidents` | `recovery_incidents`: component, state, `active_key` set, `consecutive_failures`, mission, and the ages of `last_observed_at`, `first_failure_at`, `last_recovery_attempt_at` |
| `attempts` | `recovery_attempts` inside the rolling window, with their age |
| `missions` | missions of source `automatic-recovery`; `ran`, `hot`, `unseen` are history |
| `notified` | notifications sent |
| `call`, `lastRun` | a worker's locals; the coordinator's `_last_run` |

| Action | Code |
|---|---|
| `RunIfDue` | `run_if_due`: settings, interval, the probe and the status sweep |
| `CycleComponent`, `ResolveIfHealthy`, `ObserveFailureStep`, `UpdateDiagnostics` | one turn of the loop of `DripVidRecoveryCycle.run_once` and the service methods it calls |
| `HandlePolicyEscalation`, `CreateRecoveryMission`, `MarkRecoveryPending`, `Allow` | the observer: policy, `mark_recovery_pending`, `can_recover` |
| `CreateMission`, `CreatePlan`, `AttachMission` | the three transactions that create an attempt; the last is a conditional `UPDATE` |
| `ResolveVerified`, `Escalate`, `Notify` | the end of an incident and its notification, two transactions |
| `ExecuteMission`, `ExecuteOther` | one step of the autonomous runner, as its outcome |
| `HandleExecutionResult`, `RecordAttempt`, `MarkVerifying` | `handle_execution_result`, `record_mission_outcome` |
| `ResumeApproved` | a mission that waited is approved and runs elsewhere; recovery is not told |
| `Tick`, `Crash` | time; a worker that stops between two transactions |

Choices worth knowing:

* Times are ages, and an age stops growing where no comparison can tell it from a larger one.
* A method of `RecoveryService` is one step. What two workers could do to each other inside one
  (two `INSERT`s of an active incident, refused by the unique `active_key`) is left out; what they do
  between methods is not.
* An exception in the cycle leaves the loop and ends the process (`Exit`), which comes back without
  `_last_run`.
* `claim_recovery` and the direct probe have no caller in the worker; the status row and the drill are
  for display. They are left out.
* The five components differ only in `app` and `database`; the instances use these two.
* `RecoveryLimits` is what the constructor of `RecoveryService` enforces (a threshold of at least 2, a
  budget of at least 1, a window no shorter than the cooldown), the five outcomes of the runner, and
  the typing of the rest.

## 8. HostHelper

The helper is a privileged process behind a unix socket. Its caller waits 10 seconds for an answer,
each command may take 8, connections queue, and one request may run several commands: callers do
give up while their request is still to be executed.

| Variable | Code |
|---|---|
| `helperUp`, `socketFile`, `backlog` | the process accepts; the socket's path exists; connections not accepted yet |
| `hcalls` | every call: caller, request, answer; what the readiness endpoint did and what recovery saw |
| `job` | the connection in `serve_once`: commands still to run, unit, error, size of the answer |
| `applied`, `landing` | effects on the host in order; effects of commands cut short, by their timeout or the death of the helper, that are still under way |

| Definition | Code |
|---|---|
| `...Adapter`, `AdapterAccepts`, `HelperRequest` | `operations/adapters.py`, `operations/transport.py` |
| `ValidTarget`, `validate_request` | `host_helper/contracts.py` |
| `host_health` ... `logs_recent`, `execute` | the handlers of `host_helper/executor.py`, each as the commands it runs |
| `default_readiness_runner`, `normalize_readiness`, `ProbeReady` | from the reply of the endpoint to what recovery reads |
| `Call`, `GiveUp` | `HostHelperClient.execute` |
| `Accept`, `Observe`, `Mutate`, `Respond` | `serve_once` |
| `Land`, `Kill`, `Bind` | a late effect; the process is killed; systemd restarts it (`src/deploy/ai-hq-host-helper.service:16`) and `bind` replaces the socket left behind |

Choices worth knowing:

* An answer to a caller that is gone raises `BrokenPipeError`, which nothing catches: the helper
  ends and is restarted. So does a restart of the unit `ai-hq`, which is the helper's own.
* A command that exits with an error may have had its effect or not; one that is cut short may also
  have it later (`CutShort`): killed at its timeout, or running when the helper dies, it may have
  handed its job to systemd or to a child.
* A log excerpt is cut to 64 KiB and then put into an envelope; the response then exceeds the
  limit the client reads. The model has this case: the caller is told that the helper is
  unavailable.
* An adapter allows 500 lines of log and so does the contract, the executor 200; the instances
  ask for 100.

## 9. Departments and Chat

`Departments` is the worker loop below recovery: a planned mission, else a code change, else the
oldest QUEUED mission of any kind, which Commander routes by its title. A plan is here how many of
its steps have succeeded and whether one is open, a code change a claim and an outcome. `Chat` adds
one conversation, requests that write to it, and the missions they create.

| Variable | Code |
|---|---|
| `board` | missions, oldest first: kind, status, whether a plan exists and how far it is, what its evidence says, how far its release has come |
| `agents` | `agents.status` of commander and sysadmin, as the mission they work on |
| `at` | a worker: stage, mission, the status it read, result |
| `msgs` | `chat_messages` by `position` |
| `polling` | the mission the page asks about (`pollingMissionId` of `static/hq.js`), none or one |
| `req` | a request of the owner's session: next transaction and locals |
| `scope` | the deployment of this behaviour: workers, what is configured, what may be asked, what may fail |
| `seenPlanned`, `tangled`, `raced` | history: planned missions a worker's last look could start; two submits, two refreshes have overlapped |

| Action | Code |
|---|---|
| `LookForPlan`, `GetPlanned`, `ClaimPlanStep`, `BeginPlan`, `RunPlanStep`, `ConcludePlan` | `AutonomousMissionRunner.run_once` and `run_next`: read the mission, claim a step, QUEUED to RUNNING, execute, conclude |
| `LookForChange`, `ChangeEnds`, `ChangeRaises` | `CodeChangeQueueRunner.run_once`: the claim, of a queued change or one whose lease has expired; the candidate waits or is done; an exception, after which the iteration goes on to the department |
| `PickQueued`, `Route`, `CommanderIdle`, `StartMission`, `SysadminWorks`, `FinishMission`, `SysadminIdle` | `DepartmentRunner.run_once`, one transaction each |
| `CreateByHand` | `POST /api/missions` |
| `Submit`, `ActOnIntent`, `CreateChatPlan` | `ChatController.submit` with `plan_sysadmin_intent` |
| `Refresh`, `ReplyCompleted`, `ReplyFailed`, `ReplyCandidate` | `ChatController.refresh` and its three replies |
| `AddMessage`, `PositionTaken` | `ChatService.add_message`: `SELECT max(position)`, then an `INSERT` that the unique key may refuse, which fails the request |
| `RequestDies`, `LoopCrash` | the web process or the worker stops |

Choices worth knowing:

* A question is the set of `Cues` the planner looks for; which words make a cue is left out.
* `run_next` decides by the status it read first. Two workers that read QUEUED can end like this: one
  finishes the first step, the other claims the second, is refused RUNNING to RUNNING
  (`missions/executor.py:87`) and leaves the step claimed for ever; a worker that stops can too.
  `Stranded` is this case.
* `transition` and `transition_step` are one step each here; `MissionExecution` splits check and write.
* `DeptAssumption` and `ChatAssumption` only type the scopes: workers are workers, what may be asked
  is a sequence of sets of questions, a bound is a number.
* A request that fails after `create_mission` leaves a mission no message refers to: it is executed
  and nobody is told (`dropped`).
* The page polls the mission of the newest question until it has an answer (`polling`). A second
  inspection takes the first one's place, and a refresh that fails, for instance because another
  message took its position, ends the polling; opening the page again does not resume it. The reply
  is only written by a refresh, so such a mission is over and stays unanswered.
* A refresh of a failed code change adds a note each time (`chat/controller.py:386`);
  `MaxFailedNotes` bounds them.
* A worker that stops leaves an agent WORKING for ever; nothing reads that to decide.
* The department can take a chat mission between `create_mission` and `create_plan`, finds no route
  and fails it; the plan is then created for a failed mission, and the chat reports the failure. The
  department may also take it before the plan exists and fail it after another worker has started
  the plan.

## 10. Runs

Passing runs stop exploring only at the bounds named here. Each of their properties has a mutant in
`PROJECT.json`: an operator of its module marked *Mutant* that changes one mapped definition the way
a slip in that code would, and under which TLC finds the property violated.

| Run | Instance | Checks | Shows |
|---|---|---|---|
| `plan` | 2 workers, 1 resumer, 1 decider, 1 GREEN mission with 2 mutating steps of the same fingerprint, 1 crash | `StepOrder`, `ExecutedAtMostOnce`, `VerdictMatchesPlan`, `Authorised`, `TerminalStable`, `ImplementsPlanProgress` | overlapping calls and a crash anywhere do not reorder, repeat or revive anything: the executor implements the abstract plan |
| `rules` | 1 worker, 1 resumer, 2 BLUE missions of 2 steps and of 1, a rule with one use, 1 approval, 1 crash | `TypeOK`, `Authorised`, `RuleBudget`, `QuiescentAgreement` | two calls that matched the last use of a rule execute once between them; until a process dies, mission row and steps agree between calls |
| `settle` | 1 worker, GREEN then BLUE mission, an unlimited rule, all operating modes, no crash, fair | `PlanSettles` | every planned mission completes, fails or reaches a human |
| `change_overlap` | 2 workers, 1 caller of `apply_human_decision`, 1 mission, leases expire at any moment, 1 crash | `ApprovalBindsCandidate`, `ProposalImmutable` | two workers on one change never mix their candidates |
| `change_crash` | 2 workers, 2 missions, leases outlive the work, 1 crash, fair | `AskedOnce`, `SettledAgreement`, `ChangeSettles` | a change survives the death of its worker at any point; the claim keeps workers apart |
| `release` | 2 callers, 2 changes, either host, 3 releases, 3 commits, 1 fault | `EffectsApproved`, `PublicationIsTheBranch`, `CalmRecorded`, `CalmRollback` | overlapping and dying calls release nothing unapproved; while they are kept apart the records are those of what happened |
| `recovery` | 1 or 2 workers, app and database, 4 observations, 4 outcomes, 1 stop of a lone worker | `TypeOK`, `RecordedBudget`, `SustainedFailure`, `OneAttemptPerIncident`, `EscalationNotified`, `RestartAccounted`, `NoStrandedIncident`, `TerminalIsFinal` | recovery acts only on a sustained failure, within its budget, and accounts for what it did |
| `services` | the host helper, the chat with the worker loop, and the candidate, fair | `ServicesTypeOK`; `ToldOkMeansDone`, `NoStaleEffect`, `ReadyOnlyIfSaid`, `HostAnswers`; `AnswersItsQuestion`, `OneTerminalReply`, `ClaimsAreGrounded`, `InspectionAnswered`, `PlannedMissionsSpared`; `PublishedIsTested`, `PublishedIsReviewed` | each service keeps its promise under timeouts, restarts, overlapping requests and files that change underneath |
| `two_resumers` | 2 resumers | `ExecutedAtMostOnce` violated | finding 1 |
| `recovery_cooldown` | 1 worker, app, a cooldown of 3, a budget of 2 | `CooldownRespected` violated | finding 2 |
| `host_rollback` | deploy and rollback requests | `AdapterRequestAccepted` violated | finding 3 |
| `release_replay` | 1 caller, 1 change, 2 releases, no fault | `CalmDeployedOnce` violated | finding 4 |

`MCServices` puts three models into one run. They share no variable; the first state says which one
moves (`part`), and the other two stay in their initial state, so the states explored are the sum
and not the product of the three. The chat has six `scope`s: two questions; one question, a mission
made by hand and a request that dies; a worker that stops; no chat model and no code changes
configured; two workers; missions made by hand only.

`CalmRelease` adds to `Release` a variable `calm`: no two calls have overlapped so far and none has
died. The two properties that need that say so, in the same state space as the two that do not.

What the properties say:

* `StepOrder`: a step leaves PENDING only when every earlier step of its mission SUCCEEDED.
* `ExecutedAtMostOnce`: the adapter of a step is called at most once, over all processes.
* `VerdictMatchesPlan`: COMPLETED only with all steps SUCCEEDED, FAILED only with a FAILED one or with
  none started (`DepartmentFails`).
* `TerminalStable`: no step of the system changes a terminal mission or step.
* `Authorised`: whatever was executed had the authority its risk requires: never RED; AMBER
  and mutating GREEN only after a human approved that exact request of that mission; mutating
  BLUE after such an approval or after a rule was consumed for it.
* `RuleBudget`: a limited rule covers at most `max_execution_count` executions.
* `QuiescentAgreement`: until a process dies, when no call works on a planned mission its row and its
  steps tell the same story.
* `PlanSettles`: a planned mission leads to COMPLETED, FAILED or WAITING_APPROVAL.
* `ImplementsPlanProgress`: every step is a step of `PlanProgress` or none.
* `ApprovalBindsCandidate`: a delivery that waits for a human refers to a request about its
  mission and exactly its candidate, which QA passed.
* `ProposalImmutable`: the candidate of a mission, once there, is never replaced.
* `AskedOnce`: until a worker dies, never two requests about one mission that a human can still
  answer.
* `SettledAgreement`: when no worker is at a mission, it waits exactly when its delivery does,
  and a COMPLETED one has a candidate that QA refused.
* `ChangeSettles`: a queued change leads to WAITING_APPROVAL, COMPLETED or FAILED.
* `EffectsApproved`: a change with a branch, a release or a rollback is one a human approved.
* `PublicationIsTheBranch`: the recorded commit is the one the branch points to.
* `CalmRecorded`: while `calm`, when no call is at work on a change whose approval is alive, its
  branch and rollback have their records and its release has one exactly when the host named it
  (`EffectsRecorded`); a host that does makes at most one release for a change (`DeployedOnce`).
* `CalmDeployedOnce`: the same bound for every host, which is violated.
* `CalmRollback`: while `calm`, when a rollback is recorded, the active release is the recorded one
  and was not made for that change.
* `RecordedBudget`: one worker, whatever stops it, never has more real attempts of a component on
  record in the window than `attempt_budget`, though `can_recover` counts them several transactions
  before the attempt is added.
* `SustainedFailure`: a recovery mission exists only for a component that has been failing for
  `failure_threshold` - 1 intervals, however often and by whom it is looked at.
* `OneAttemptPerIncident`: at most one real attempt is booked on an incident, even when two workers
  created a mission for it.
* `EscalationNotified`: unless a worker was stopped, an escalated incident has its critical
  notification or gets it next.
* `RestartAccounted`: one worker that is not stopped books every restart it made for an active
  incident.
* `NoStrandedIncident`: with such a worker, an active incident with a mission waits for that mission,
  is being told of its outcome, or is verified next.
* `TerminalIsFinal`: with one worker, a resolved or escalated incident keeps its state, although
  `resolve` and `escalate` do not look at what they overwrite.
* `ToldOkMeansDone`: no request changes the host twice or without the credential, and a caller that
  is told "ok" had its effect on the unit it asked for.
* `NoStaleEffect`: an effect never comes after that of a request sent later, except from a command
  that was cut short, by its timeout or by the death of the helper.
* `ReadyOnlyIfSaid`: recovery takes DripVid for ready only when the endpoint answered a JSON object
  whose "ok" is true.
* `HostAnswers`: again and again the helper is up and nobody waits for it.
* `AnswersItsQuestion`: unless two submits have overlapped, a reply answers the question that created
  its mission.
* `OneTerminalReply`: unless two refreshes have overlapped, an inspection gets one final reply.
* `ClaimsAreGrounded`: "Healthy" needs a health reading and a status reading that says running; an
  outcome the chat reports of a change has been reached.
* `InspectionAnswered`: with one worker that does not stop, an inspection the page asks about is
  answered in the end; with two, or after a stop, it is, unless a step of its plan or of an older one
  was left claimed (`Stranded`).
* `PlannedMissionsSpared`: the department never fails a mission whose plan was there when the worker
  last looked for plans.
* `PublishedIsTested`: the branch has the files the tests started from, unless a file was written
  while the publisher read.
* `PublishedIsReviewed`: every file whose lines the branch changes had a section in the review diff, or
  is one the candidate changed that was written to while the publisher read.

`SettledAgreement` and `AskedOnce` need `LeaseOutlivesWork`. When a lease runs out under its
holder, the next `renew_code_change_lease` of that worker fails, its handler finds the mission
RUNNING for the new holder and marks it FAILED, while the new holder goes on to ask the human;
and two reviews of one candidate may each create a request. `AskedOnce` also stops at the first
crash: a worker that dies between `create_request` and its own commit leaves a request that
no delivery refers to, and the retry creates a second one. `ApprovalBindsCandidate` says that
even then the delivery is tied to a right one.

### Bounds and why they are enough

* *Two workers, one resumer.* The races are between a reader and one writer; a third process
  adds no new pair. The proofs drop this bound for the properties of `plan`.
* *Two steps or two missions.* Order and starvation need a pair. `plan` gives both steps one
  fingerprint, so that an approval is shared.
* *Risks.* The instances have GREEN and BLUE missions; AMBER is treated like mutating GREEN, RED is
  blocked, and the theorem `AlwaysAuthorised` covers all four.
* *`MaxApprovals`.* Rows of `approval_requests`: 2 in `plan`, 1 in `rules`, where the rule or the
  approval lets a step go on, 3 in `settle`, so that every step can wait. A request may expire and
  be asked for again; once the bound is reached `CreateRequest` is disabled and the call stands
  still. For safety this only ends a behaviour; in `settle` three steps run without resumes, so each
  asks at most once and the bound is never met.
* *`MaxCrashes` = 1.* One crash reaches every pair of adjacent transactions; a second one
  would only repeat the pattern on the other step.
* *`OperatorModes`.* `settle` lets an operator set any mode at any time; the other runs only
  leave FREEZE, the initial mode, so that the races are reached. The mode can only turn an
  execution into a BLOCK or a simulation.
* *`MaxAttempts` = 3 in `change_overlap`, 2 elsewhere.* A claim needs a queued mission or an
  expired lease; in `change_crash` only the crash lets one expire, so two attempts are enough
  and the bound is never met.
* *`MaxReleases`, `MaxCommits`.* Two changes deployed once each and one deployed again (3 releases),
  two published and one commit to spare (3 commits). A `Publish`
  beyond its bound can still fail, so no call is stuck by it.
* *`MaxFaults` = 1.* One fault reaches every pair of adjacent steps of a call.
* *`recovery`.* Threshold 2, interval 1, cooldown 1, budget 1 and window 2 are the smallest values
  at which the comparisons differ; two missions reach the budget and the second mission for one
  incident. A lone worker sees up to 2 incidents and 1 stop; two workers share 1 incident and are not
  stopped (`MaxIncidents`, `MaxCrashes` by the number of workers), since the races between them are
  about one row. At a bound `ObserveFailureStep` or `CreateMission` is disabled for that worker.
* *`services`, host.* 2 callers, 2 calls of 11 kinds, 1 kill: a call that is overtaken, an answer for
  a caller that is gone, a helper that dies with one request half done and one queued. A response
  limit of 2 with excerpts of 1 and 3 lies on both sides of the limit, with and without envelope.
* *`services`, chat.* 2 requests at a time, at most 2 questions or 2 missions, 1 request that dies or
  1 worker that stops: every pair of overlapping requests, and a request overlapping the worker. The
  second question is talk: two inspections side by side take the run past five minutes.
* *`services`, candidate.* 3 tracked files, 2 commits of main, 2 test commands, 2 writes of a stray
  process: one file may be copied before and one after a pull, a write may be undone by a second
  one. The ten proposals cover a write, a new file, a deletion, a path changed twice, `.git`,
  an ignored file, a link, line endings and an empty file, each alone and with other changes, and a
  file that is emptied.
* *Symmetry* over workers or callers is used in safety runs only (`plan`, `change_overlap`,
  `release`, `recovery`).
* The runs `change_...`, `release`, `recovery...`, `services` and `host_rollback` switch the
  deadlock check off: when every mission has settled the workers rest, when every request has been
  answered and every delivery denied nobody calls, and at a bound of calls or questions nothing is
  left to do. `ChangeSettles`, `HostAnswers` and `InspectionAnswered` show that they do not rest
  before. In the other runs deadlock is checked. An operator can always edit the system state, so
  deadlock is never reached and says little here; `PlanSettles` is what shows that the system does
  not get stuck.

## 11. Fairness

`FairSpec` of `MissionExecution` asks, for each worker, weak fairness of `ProcStep` (the next
transaction of the call in progress) and of `RunOnce` (starting a call when a mission is runnable).
`run_worker` loops for ever, no transaction waits for a lock another call holds, and adapters have
time limits, so both follow from the process being alive. The process setting `operating_mode`, which
keeps the loop from executing at all, is assumed to allow it. `FairSpec` of `CodeChange` asks the
same of `CallStep` and `Claim`, and that a lease whose holder is gone expires (time passes).

`HostFairness` asks that the helper goes on with what it serves (commands have a timeout of 8
seconds), that systemd starts it again (`Restart=on-failure`), and that a caller's socket times out
(10 seconds). `ChatFairness` asks the same of the worker loop as above, that a request runs to its
end, and that the page asks about the mission it polls (`static/hq.js`, `pollMission`: every 1.2
seconds while the answer is "pending"). That is strong fairness, since the two request slots of the
model may be taken by other requests in between. The page owes nothing about other missions: it
polls the newest only, and stops for good when a refresh fails.

People, expiry, operators, callers of `resume_approved`, of publish, deploy and roll back, pulls and
crashes owe nothing. `Release`, `Recovery` and `Candidate` have safety properties only.

## 12. Proofs

TLAPS proves, for every set of workers, resumers, deciders, missions, steps and rules and every
number of approvals and crashes, from `ConstantsAssumption` alone:

| Theorem | Statement |
|---|---|
| `TypeCorrect` | `Spec => []TypeOK` |
| `AlwaysAuthorised` | `Spec => []Authorised` |
| `RuleWithinBudget` | `Spec => []RuleBudget` |

and under `SingleResumer` (at most one call of `resume_approved` at a time, any number of
workers; the run `two_resumers` shows that without it the second is false):

| Theorem | Statement |
|---|---|
| `PlanInOrder` | `Spec => []StepOrder` |
| `OnceOnly` | `Spec => []ExecutedAtMostOnce` |
| `VerdictIsThePlans` | `Spec => []VerdictMatchesPlan` |
| `EndedStaysEnded` | `Spec => TerminalStable` |
| `ExecutorImplementsPlan` | `Spec => ImplementsPlanProgress` |
| `QuietMissionsAgree` | `Spec => []QuiescentAgreement`, also assuming `SingleWorker` |

`ConstantsAssumption` is the typing of the constants, distinct positions in a plan (as
`create_plan` numbers them), and that a process is a worker or a resumer, not both.

**Types and authority** (`MissionExecutionProofs`). `TypeOK` is not inductive: that a call at
`"claim"` has a step, or that one at `"mission_write"` has a mission status as its target, is
control-dependent. `CallOK(p)` says so for every label; `TypeInv` is inductive.
`AuthInv` adds two facts: every approved live request was granted by a human
(`RequestsGranted`), and a call past the policy decision carries the authority it decided on
(`HoldsAuthority`): an approval seen earlier counts even if it has expired since, because
`granted` only grows.

**Rules** (`MissionExecutionProofs`). `RuleBudget` compares the executions charged to a rule with its
limit, but the counter is raised before the adapter is called. `BudgetInv` closes the gap: charged
executions and calls that have consumed the rule and not yet executed (`Holders`) together are at most
the counter. A crash loses a holder and keeps the counter, which errs on the safe side.

**Plans** (`MissionPlanProofs`). Two layers:

1. *Steps.* A call **owns** its step from the claim (or the resume) until it has written the
   outcome. `StepsInv` says that an owned step is RUNNING and has not been executed before the
   adapter call, that no two calls own one step (`SoleOwner`), that a call about to claim has
   seen all earlier steps SUCCEEDED, and that a PENDING or waiting step was never executed. The
   conditional `UPDATE` gives ownership from PENDING; from WAITING_APPROVAL nothing does, which
   is where `SingleResumer` is needed. A crash only removes an owner. `StepOrder` implies that
   a plan has at most one *open* step, started and not succeeded (`OneOpen`).
2. *The mission row.* `VerdictInv` says that a call about to write COMPLETED or FAILED has the
   plan on its side, which stays true because SUCCEEDED and FAILED steps are final.
   A mission that was refused before it had a plan is FAILED with every step PENDING, and stays so
   because no call is ever about it: only a planned mission is started (`Refused`, `Parked`).
   `RowInv` ties the row to the open step: while a call owns a step or is between writing the
   step and writing the row, what the row can be is known. The crux is `WriterAlone`:
   when a call is about to write a status that could overwrite a terminal one, no other call
   can reach the end of the mission first. That is what makes `TerminalStable` true although
   `transition` checks and writes in two statements.

**Refinement** (`MissionPlanProofs`). The mapping hides everything but the executions, the ends of
steps and the verdicts. Calling an adapter is `Perform`, writing the end of a step is `EndStep`,
writing a verdict is `Conclude`, `DepartmentFails` is `Refuse`, and every other transaction, crashes
included, is a stutter. The abstract guards (all earlier steps succeeded, not executed yet, verdict
of the plan) have to hold when the write happens, several transactions after the reads: that is what
`PlanInv` provides.

**Agreement** (`MissionPlanProofs`). `QuiescentAgreement` is about moments when nobody acts. `AgreeInv`
says, at every moment, that whatever is half-way is in the hands of a call: a RUNNING step is owned, a
waiting or failed step whose mission does not show it has a call about to write the row, a complete
plan has one about to conclude. A crash breaks this, since nobody takes over the step it leaves RUNNING:
the property and the invariant have the premise `crashes = 0`, the bound has none. So does a
second worker: it may have seen the mission QUEUED, claim the next step after the first worker is
done with one, and be refused the transition RUNNING to RUNNING, which leaves its step RUNNING. The
run `rules` that checks the property has one worker and one resumer for the same reason.

**Code changes** (`CodeChangeProofs`). From `CodeChangeAssumption` alone, which only types the
constants and keeps `None` and `Gone` apart from them, so with any number of workers on one
mission and leases that expire at any moment:

| Theorem | Statement |
|---|---|
| `CodeChangeTypeCorrect` | `Spec => []TypeOK` |
| `ApprovalIsForCandidate` | `Spec => []ApprovalBindsCandidate` |
| `CandidateNeverReplaced` | `Spec => ProposalImmutable` |

`ApprovalBindsCandidate` is not inductive: a worker carries what it read (`seen`) and the
request it created (`areq`) across transactions of others. `CallOK(w)` says that from the read
on, `seen` is the candidate in the row, and from the creation on the request is about it. That
survives the steps of everybody else because every step is `Monotone`: a candidate that is there
and the subject of a request that is there never change. `DeliveryOK` adds that a row has a
candidate and that only rows are returned to the developer.

Under `LeaseOutlivesWork` (section 4), for any number of workers, missions and crashes:

| Theorem | Statement |
|---|---|
| `AskedOncePerMission` | `Spec => []AskedOnce` |
| `MissionAgreesWithDelivery` | `Spec => []SettledAgreement`, also assuming `Appliers = {}` |

`SoleInv` says that whoever is at a mission owns its live lease, so one worker is, and that the row it
read as in QA still is when the request is created and when it is recorded. `AskInv`: a request
that was created has its decision recorded, or a worker about to record it, so the next QA
finds the delivery decided and asks nobody. A crash between the two loses exactly that worker, and a
second worker asks again: `AskedOnce` has `crashes = 0` as its premise, and the rest of the invariant
does not. `SettleInv` follows one call from its claim: at work its mission is RUNNING, and what it is
about to write is what the delivery says. Crashes are allowed, since the mission stays RUNNING and
its lease expires. `Appliers = {}` is needed: `apply_human_decision` takes no lease, and a denial
applied after the worker has submitted QA's verdict and before it reads the stage for its
mission returns the delivery to DEVELOPER, so that the worker completes the mission of a candidate QA
passed.

**Release** (`ReleaseProofs`). From `ReleaseAssumption` alone, with any number of callers,
changes and faults, and for either host:

| Theorem | Statement |
|---|---|
| `ReleaseTypeCorrect` | `Spec => []TypeOK` |
| `NothingUnapproved` | `Spec => []EffectsApproved` |
| `PublicationIdentity` | `Spec => []PublicationIsTheBranch` |

Both safety properties speak of a call that acts long after it has looked. `CallOK(c)` says what a
call knows at each label: from `"effect"` on a human has approved its change, and from
`"record_read"` on a publish call holds the commit its branch points to. Steps of others keep it
because every step is `Monotone`: an approval is not taken back and a branch does not move. The
refusal of a second branch by the remote is what gives the second fact; the expiry check and the
record do not help. `EffectsApproved` survives an expiry between decision and effect since it asks
for the decision of a human, as `Authorised` does.

For calls kept apart that do not die (`calm`, in the properties), and either host:

| Theorem | Statement |
|---|---|
| `CalmCallsRecorded` | `CalmSpec => []CalmRecorded` |
| `CalmRollbackTakesOut` | `CalmSpec => CalmRollback` |

`CalmInv` says, for as long as `calm` holds, that what a call found by its checks is still so at the
effect and at the record. `CallCalm`: the operation is due, and a deploy call at its effect is the
first for its change if the host names releases. `ChangeCalm`: every effect of an approval that has
not expired has its record or a call that is about to write it, but for the releases of a host that
does not name them, which have none; a change has one release if the host names them; its prior
release exists and is not its own. The last part is why a rollback takes the change's own release
out: what was live before the deployment was made earlier, and a deployment makes a new release.

**Candidate** (`CandidateProofs`). From `CandidateAssumption` (git's own files and untracked ones are
not tracked, every commit has every tracked file), for any files, edits, pulls and stray writes:

| Theorem | Statement |
|---|---|
| `CandidateTypeCorrect` | `CandidateSpec => []CandidateTypeOK` |
| `BranchIsTested` | `CandidateSpec => []PublishedIsTested` |
| `BranchIsReviewed` | `CandidateSpec => []PublishedIsReviewed` |

The branch is tied to the tests by a chain of comparisons, each made at another time, and `CandInv`
has a part for each link. `BaseInv`: while main is still the base commit, nothing has been merged, so
a pull has changed nothing and checkout, copy and base manifest are the base's tree; this is why
the publisher's check of the base branch makes the race between copy and pull harmless.
`EvidenceInv`: what is not in the review has the lines of the manifest, what is not in
`changed_files` its bytes, and the tested files are those of the snapshot. `TreeInv`: the
tree under construction is the base's with what has been read.

**Host helper** (`HostHelperProofs`). From `HostAssumption` (sizes and bounds are numbers, `None` is not
an answer), for any calls, timeouts, kills and late effects:

| Theorem | Statement |
|---|---|
| `HostTypeCorrect` | `HostSpec => []HostTypeOK` |
| `OkMeansDone` | `HostSpec => []ToldOkMeansDone` |
| `EffectsInOrder` | `HostSpec => []NoStaleEffect` |
| `ReadyFailsClosed` | `HostSpec => []ReadyOnlyIfSaid` |

`HostInv` follows a request through the queue. `QueueInv`: connections wait in the order of the
calls, behind the one served, and whatever had an effect came before; killing the helper empties the
queue, so a restart cannot reorder it. `JobInv`: a request has at most one mutating command, the
first of its list; before it nothing has happened, after it and without an error the effect is
there. `EffectInv`: landed effects and those still under way belong to different calls, also when
the helper dies in the middle of a command. `ReadyInv`: what the probe carries is what the endpoint
said to this call. Every handler of the executor is shown to plan such a list for the calls that
reach it.

**Recovery** (`RecoveryProofs`). From `RecoveryLimits`, for every number of incidents, missions, crashes
and every order of observations. For any number of workers:

| Theorem | Statement |
|---|---|
| `RecoveryTypeCorrect` | `Spec => []TypeOK` |
| `OnlySustainedFailures` | `Spec => []SustainedFailure` |
| `BookedOnce` | `Spec => []OneAttemptPerIncident` |
| `EscalationsAreHeard` | `Spec => []EscalationNotified` |

and for deployments of one worker, the premise `OneWorker` being part of the properties:

| Theorem | Statement |
|---|---|
| `AttemptsWithinBudget` | `Spec => []RecordedBudget` |
| `RestartsAreBooked` | `Spec => []RestartAccounted` |
| `NobodyStranded` | `Spec => []NoStrandedIncident` |
| `TerminalStays` | `Spec => TerminalIsFinal` |

`RecInv` says how the three tables agree while any worker holds a row of one of them between two
transactions. `SoundInv` backs the counter of failures by time that has passed: `fails - 1`
intervals and the age of the last observation fit into the age of the first failure, which makes a
threshold of counts a threshold of time. `LinkInv`: incident and mission name each other, and
nothing is booked before the mission has run. `HoldInv`, `ApartInv`: what a worker has in hand, and
that no two have created or executed the same mission, which gives `BookedOnce` although two may
have created missions for one incident. `OneInv` adds what only holds when nobody else acts: the
incident in hand stays open from the first decision to the last write (`SoleHolds`), so nobody can
close it in between; there is room in the budget for every mission that may still be booked
(`BudgetInv`, kept by time because attempts only leave the window); and, until a crash, every run is
booked or being booked (`AccountInv`) and every open incident with a mission has something ahead
(`WaitInv`). With two workers the second part is false, see the limits below.

**Departments and Chat** (`ChatProofs`). From `DeptAssumption` and `ChatAssumption`, for any workers,
requests, missions, questions and stops:

| Theorem | Statement |
|---|---|
| `ChatTypeCorrect` | `ChatSpec => []ChatTypeOK` |
| `ChatClaimsGrounded` | `ChatSpec => []ClaimsAreGrounded` |
| `DepartmentSparesPlanned` | `ChatSpec => PlannedMissionsSpared` |
| `RepliesOnce` | `ChatSpec => []OneTerminalReply` |
| `AnswersOwnQuestion` | `ChatSpec => []AnswersItsQuestion` |

The chat reads the missions, other processes change them, and only then does it write; so the proof
separates what others may do from what a request does. `Evolves` is all that ever happens to a
mission: its subject stays, a completed one keeps status and evidence, a release goes forward.
`BaseInv` is inductive against that: `DeptTyped` says what a worker holds at each stage, and that
once it has reached the department its last look found no planned mission it could start;
`ChatTyped` that every message, written or still in the hands of a request, claims what its mission
shows; and `Linked` which messages refer to a mission and that one submit creates it. `StepCases`
then leaves three kinds of step: a message is added, a request goes on without one, or only missions
and workers move.

*One reply.* `Unraced`: while refreshes have not overlapped, a mission has at most one answer or
failure note, and a refresh about to add one has found none. The code finds an answer by counting the
linked messages, so the notice that the mission was created has to be among them: `Linked` says that
it is, and a refresh is only about a mission that has one.

*The right question.* `_mission_question` searches the conversation for the first message linked to
the mission and the last question before it. A search is a recursion, and the prover has no induction
over data; `Untangled` therefore states its result by witnesses: `IsFirst(i, m)`,
`IsLastQuestion(p, i)` and `Asks(i, t)`, which determine it and which appending a message preserves.
While submits have not overlapped, the last question when the notice is written is the one that
created the mission.

**Only model-checked.** Liveness under fairness is outside what the prover handles: `PlanSettles`,
`ChangeSettles`, `HostAnswers`, `InspectionAnswered`. `ServicesTypeOK` is the conjunction of three type
invariants, each proved in its own module, over a specification that only exists for TLC. The properties
that are only violated have no theorem. The inductive invariants `RecInv`, `OneInv`, `CandInv`,
`HostInv`, `SoleInv`, `AskInv`, `SettleInv`, `CalmInv` and those of `ChatProofs` were model-checked
before they were proved, on the instances of the runs or larger ones.

## 13. Findings, divergences and limits

### Findings

Each is a run that TLC ends with a violation.

1. *Two resumes execute one step twice* (run `two_resumers`, `missions/executor.py:166`).
   `resume_approved` returns the waiting step to RUNNING through `transition_step`, which tests
   the status it read and writes by primary key. Two concurrent resumes both read
   WAITING_APPROVAL, both write RUNNING and both submit the approved request. The stage-2
   design says that concurrent workers cannot execute the same mutating step twice
   (`src/docs/superpowers/specs/2026-09-04-controlled-tool-operations-stage2-design.md:488`).
   A conditional `UPDATE`, as in the claim, would close it. No code in `src/` calls
   `resume_approved` concurrently yet.
2. *The cooldown ends with the incident* (run `recovery_cooldown`, `recovery/service.py:317`).
   `can_recover` measures it from `last_recovery_attempt_at` of the incident at hand. A recovered
   incident is resolved; when the component fails again a new one is opened, whose field is empty,
   and a second restart may follow within the cooldown. The design asks for a minimum 10-minute
   cooldown after a real recovery attempt, per component
   (`src/docs/superpowers/specs/2026-09-05-dripvid-2.90-automatic-recovery-design.md:201`, and
   `:460`). The attempts table, which the budget counts, has what is needed.
3. *No rollback reaches the host* (run `host_rollback`, `host_helper/contracts.py:123`). The
   transport sends the release id as a parameter (`operations/transport.py:92`), the handler
   requires it, and `validate_request` between them refuses every parameter of
   `deployment.rollback`. The phase-D plan routes rollbacks through this transport
   (`src/docs/superpowers/plans/2026-09-09-code-change-approval-bound-rollback-phase-d.md:5`). Both
   ends are tested, each alone.
4. *With the repository's own host a deployment is never recorded* (run `release_replay`,
   `code_changes/deployer.py:107`). The helper answers `{"deployed": True}` without a release id
   (`host_helper/executor.py:572`); the deployer requires one and raises after the host has acted. No
   record is written, and the next call deploys again, with one caller and no fault. The phase-C
   plan says "replay returns the persisted deployment without a second mutation"
   (`src/docs/superpowers/plans/2026-09-09-code-change-approval-bound-release-phase-c.md:72`). A
   helper that names its releases, as the tests' transport does, closes it.

### Other divergences

Met while modelling; the properties named are in the modules and no run checks them. Changing the
constants of a configuration as said reproduces each.

* *A mission does not survive a restart* (`missions/worker.py:46`): `MissionExecution_settle.cfg`
  with `MaxCrashes` = 1 violates `PlanSettles`. A worker that dies after the claim leaves the step
  RUNNING; nothing returns it to PENDING, and `run_once` keeps choosing the mission, so it and every
  younger planned mission stand still. The phase-1 design lists "Missions survive service/worker
  restart" (`src/docs/superpowers/specs/2026-09-03-ai-hq-phase-1-design.md:902`). Re-running the
  step blindly would be wrong too (`ExecutedAtMostOnce`): the adapter may have acted.
* *A decision can be overwritten* (`approvals/service.py:94`): `MissionExecution_two_resumers.cfg` with
  one resumer and `Deciders` = {d1, d2} violates `DecisionIsFinal` (a decided request is not decided
  again). `decide` tests PENDING and writes by primary key; of two requests that both read PENDING
  the later commit wins, and a denial can become an approval. The test
  `test_decide_api_denies_and_cannot_be_redecided` (`src/tests/test_approval_station.py:166`)
  expects a second decision to be refused.
* *A denied change is never taken up* (`delivery/service.py:530`): `CodeChange_crash.cfg` with one
  worker, `Appliers` = {h1}, `Missions` = {1} and no crash violates `ReturnedChangeMovesOn` (a change
  back at the developer is taken up). `apply_human_decision` puts a denied delivery back to DEVELOPER
  and its mission to RUNNING. The lease was released when the human was asked, and
  `claim_oldest_code_change` takes a RUNNING mission only with an expired lease; a second proposal
  would be refused as well (`delivery/service.py:93`). The test
  `test_human_rejection_returns_exact_change_to_developer`
  (`src/tests/test_delivery_orchestration.py:333`) checks the two fields and not that the
  developer gets it.
* *A tunnel that is down next to a ready service is not recovered.* The design makes the component
  eligible when Cloudflared is inactive or failed (line 134), but `decide_recovery` answers
  "resolved" whenever readiness is ok, before it looks at the component. The model has the policy
  as it is; the instances have no tunnel.

### Limits of Release

`CalmRecorded` and `CalmRollback` are about calls that are kept apart and do not die, and what the
first says of deployments depends on whether the host names its releases. Each of these conditions is
needed. Nothing in `src/` calls the three methods yet, so these are limits to lift before something
does.

* *`EffectsRecorded` in place of `CalmRecorded`* is violated by a fault. If a call ends between
  `POST git/refs` and `record_publication`, every retry is refused because the branch exists,
  nothing looks at what the branch is, and the publication is never recorded
  (`code_changes/publisher.py:263`). The phase-B plan asks to make publication idempotent
  (`src/docs/superpowers/plans/2026-09-07-code-change-publishing-phase-b.md:97`). Since the branch
  name is a function of mission and change, reading the ref would close it.
* *`DeployedOnce` in place of `CalmRecorded`* is violated by a fault, since only the record keeps a
  second call from deploying and it comes after the effect (`code_changes/service.py:547`), and by
  two callers that both find no record; the later commit replaces the earlier one
  (`delivery/service.py:347`). The phase-C plan says a replay returns the persisted deployment
  without a second mutation
  (`src/docs/superpowers/plans/2026-09-09-code-change-approval-bound-release-phase-c.md:72`), and
  that a mismatched second deployment must fail closed (line 39).
* A host that does not name its releases leaves every deployment unrecorded (finding 4), so that it can
  neither be replayed nor rolled back.
* The prior release of a deployment is the one that was active, whatever becomes of it later:
  deploy A, deploy B, roll back A, roll back B reinstates A's release. `CalmRollback`
  therefore only says that B is gone.

### Limits of Candidate

`PublishedIsTested` excludes a file that is written while the publisher reads (`meddled`):
`load_verified` compares the digest of the whole workspace, and the publisher then reads each
changed file again (`code_changes/publisher.py:205`). Without that premise TLC publishes what a
process left behind by the tests wrote in between. Hashing what is uploaded would close it.
`PublishedIsReviewed` has the same exception, for files the candidate changed. The proof found it: for
a file whose line endings alone the candidate changed there is no section in the diff. The
instance now has a stray write to such a file.

The diff shows lines, so the reviewer does not see an empty file that is created or deleted, nor a
change of line endings, when it comes with a change that is shown
(`delivery/repository_sandbox.py:302`). `PublishedIsReviewed` is about lines for that reason; stated
of files it is violated by a proposal of the instance that adds an empty file. Listing
`changed_files` next to the diff would close it.

### Limits of HostHelper

`ToldOkMeansDone` is about what an "ok" means and not about when one is given. A log excerpt cut to the
64 KiB limit gets an envelope and then exceeds what the client reads
(`host_helper/executor.py:690`), so the caller is told that the helper is unavailable. The
model has this case; no property excludes it and no document promises the excerpt.
`NoStaleEffect` has two exceptions, a command killed at its timeout and one that runs when the helper
dies: either may still be carried out, after requests that were sent later.

### Limits of Chat

`OneTerminalReply` and `AnswersItsQuestion` are about refreshes and submits that do not overlap
(`raced`, `tangled`). Two refreshes that do both find no reply and may both write one
(`chat/controller.py:788`), and two submits may swap their questions. `InspectionAnswered` allows
two workers, or one that stops, to leave a claimed step behind: the mission then stays RUNNING, it
and every younger planned mission stand still, and the page shows "pending" for ever. The deployment
starts one worker.

### Limits of Recovery

`RecordedBudget`, `RestartAccounted`, `NoStrandedIncident` and `TerminalIsFinal` are about one
worker, which is what the deployment starts. Two workers may each create a mission for one incident;
the second `attach_mission` is refused, but its mission is planned, runs, and is booked nowhere, so
`OneAttemptPerIncident` counts bookings and not restarts. The design says "Two workers must never
recover the same component concurrently" and "concurrent workers cannot duplicate a recovery
mutation" (`src/docs/superpowers/specs/2026-09-05-dripvid-2.90-automatic-recovery-design.md:333` and
`:503`); two workers do not keep that. A mission that waited for approval and is resumed later is
not booked either (`unseen`), and a worker stopped between the execution and `mark_verifying` leaves
its incident RECOVERY_PENDING with a mission that is over, until the component is seen healthy.

## 14. What is not modelled

* *Notifications* (grouping), *knowledge* entries, *login limiter*: small components with one or two
  hazards each, listed in `PROJECT.json`; planned.
* *Model router and usage budget*: `can_spend` has no caller in `src/`.
* *Context builder, repository profiles, source policy, chat models, DripVid MCP*: they read files or
  call a service and keep no state; what they return is a choice in the models.
* *Recovery status and drill*: a row for display that the cycle writes and never reads, and a command
  that rolls its rows back.
* *Authentication, web application, CLI, health, ledger, HQ state, migrations, templates*: wiring,
  I/O and append-only records. They keep no state that another component's decisions depend on.
* The hand-off of a delivery candidate in `missions/worker.py` is dead code: no adapter
  returns one.
* A FREEZE that an operator sets after `evaluate` and before the adapter call does not stop
  that call. The model has this behaviour; no property calls it wrong, since the design only
  promises that nothing new starts.
* Two workers that both hold a QUEUED snapshot can leave a claimed step without a process (the
  second one's QUEUED to RUNNING is refused). `MissionExecution` and `Departments` have it. Order
  and verdict hold in spite of it; progress does not, so `settle` has the one worker the deployment
  starts, and `InspectionAnswered` names the case.

## 15. How to run it

```
tlc -workers 2 -config MissionExecution_plan.cfg MCMissionExecution
tlc -workers 2 -config CodeChange_overlap.cfg MCCodeChange
tlc -workers 2 -config Release_calls.cfg MCRelease
tlc -workers 2 -config Release_replay.cfg MCRelease
tlc -workers 2 -config Recovery_cycle.cfg MCRecovery
tlc -workers 2 -config Services_parts.cfg MCServices
tlapm MissionExecutionProofs.tla
tlapm MissionPlanProofs.tla
tlapm CodeChangeProofs.tla
tlapm ReleaseProofs.tla
tlapm CandidateProofs.tla
tlapm HostHelperProofs.tla
tlapm RecoveryProofs.tla
tlapm ChatProofs.tla
```

The runs `MissionExecution_...` use `MCMissionExecution`, `CodeChange_...` `MCCodeChange`, and so on.
The largest, `plan`, `rules` and `release`, explore between 1.6 and 2.8 million states, `services`
0.5 million with three temporal properties; each takes half a minute to two and a half minutes. The
proofs take between half a minute and three minutes each, `RecoveryProofs` about six.
