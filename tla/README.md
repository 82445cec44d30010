# Eidolon in TLA+

Eidolon is a local-first assistant: a FastAPI backend over one SQLite file
(`src/backend/app`), Codex run as a child process, a Go bridge to WhatsApp
(`src/bridges/whatsapp`) and a React frontend (`src/frontend`).  What is hard in it
is not any one computation.  Request threads, per-session worker threads,
APScheduler jobs, a Telegram poller and the reader threads of child processes all
work on the same rows with sessions of their own; pysqlite holds no transaction
over a SELECT, so whatever a thread read may have changed by its commit; and the
process may die between any two commits and is then started again on the same file.
The modules here are about those interleavings.

A model step is, throughout, one statement that reads or one commit, together with
everything the thread does up to the next one.  A crash is an action that keeps the
rows and resets the threads.

## 1. Inventory

For each component: the state it keeps, its operations, how it meets the others,
what is hard about it and what makes it correct.  Status: **M** modelled, **P**
modelled in part, **-** not modelled.

| Component | State | Operations and interaction | Hard | Correct when | |
|---|---|---|---|---|---|
| Agent turns (`act_session_service`, `act_turn_dispatcher`, `agent_turn_delivery`, `product_manager_session_service`) | `agent_sessions`, `agent_turns`: status, Codex turn id, cancel request, delivery state; per-session worker threads; `_active` turns | enqueue, cancel, archive from requests and chat providers; the dispatcher's workers claim a turn, run it in Codex and deliver the result; `start`, `recover`, `stop` | cancel and stop racing the start of a Codex turn; death between effect and commit; a lost worker | a turn starts at most once, in order; cancellation and shutdown reach Codex; the result leaves once | **P** |
| Codex client (`codex_app_server`) | connection generation, request ids, pending and orphaned responses, lifecycle and write locks; one child process, one reader thread | request, start, restart, stop, refresh; reader routes responses and notifications | ids repeat in each generation; the child dies or hangs at any time; locks held over a handshake | answers reach their own requests; one process; every call returns | **P** |
| Skill locks and runs (`skill_operation_guard`, `skill_runner`, `service_runtime_service`) | `skill_operation_locks` row per skill, `skill_runs` | runs, install, update, repair, delete, enable take the lock; scheduler start recovers | stale locks, several threads clearing one, death while held | operations do not overlap; no lock or run row blocks for ever | **P** |
| Live replies (`act_chat_message_service`) | prompt messages with a wait status, the waits of tool calls | `send` with a wait; a chat message claims a prompt; cancellation, the turn's end and recovery close waits | deadline against reply against cancellation | a reply that was taken reaches the agent; waits end | **M** |
| Invocation approvals (`invocation_approval_service`, executor, Telegram callbacks) | `invocation_approvals`: decision, execution, message ids | submit, approve, deny from page and Telegram; re-authorise, invoke, record; recover | two deciders, death after the effect, late message edits | invoked at most once and only if approved and still authorised | **M** |
| Scheduler (`scheduler_service`, `platform_service`, `runtime_state_service`) | `skill_schedules`, `schedule_runtime_states`, `schedule_occurrences`; APScheduler jobs | firings, catch-up at start, Run Now, edits, enable/disable; invokes services under the skill lock | firing against edit, against catch-up; death after a claim | each intended time at most once, none from a disabled period, the latest missed one caught up | **P** |
| Assistant agenda (`assistant_service`, `assistant_activation_service`, `assistant_turn_dispatcher`, `assistant_recurrence`, planning, questions, sources, changes) | agenda items with a schedule version and a boundary, their occurrences, the permanent chat's turns | a 30 s timer, Run Now and the user queue turns; edits move the boundary; validation at the start of a turn; completion, retry after 30 s / 15 min; recovery | completion against Run Now; retry of an interrupted occurrence; instants that pass while things are queued | one turn of a task at a time; a success is final; nothing from before a boundary; the latest due occurrence is settled | **P** |
| Web applications (`web_app_runtime_service`) | `web_app_instances`, sessions, containers and local processes | open, stop, disable, enable and activate under the skill's lock; gateway and idle maintenance without it; recovery at startup | start racing stop and idle maintenance; a late answer of the gateway; container without row | at most one application of a skill runs; nothing runs unattended or over a switch of version | **P** |
| Skill packages (`proposed_skill_service`, `skill_version_service`, `skill_package_files`, `manifest_validator`, `capability_scanner`) | skill rows, version directories, active version | propose, install, activate, roll back, delete; files and rows change together | failure between file move and commit | row and directory agree; the active version exists | - |
| Build workflow (`agent_workflow_service`, `agent_proposal_service`, `workflows/task_dag`, `single_codex`, `chat_orchestrator`) | generation requests, build runs, failure counts, task summaries, artifacts; finalization lock and process registry in memory | plan, approve, run a DAG of Codex turns or one turn, pause, resume, retry, cancel, finalize | no claim on a run: several handlers may work on it; cancellation against finalization; entry points that skip the approval | nothing is built unapproved; a cancelled run never becomes installable; every request ends | **P** |
| Functions (`function_registry_service`, `function_catalog_service`, `skill_graph_service`, `mcp_function_service`) | capabilities per run, catalog cache, call graph | resolve, authorise and invoke a function, nested runs | recursion and depth limits, stale catalog | a run calls only what its manifest names | - |
| Permissions and grants (`permission_service`, `integration_standing_grant_service`, `integrations/policy`, `authorization`) | permission requests, approvals bound to a version, grants | request, approve, revoke, check at each invocation | authority that changes between check and use | nothing runs with an authority that was withdrawn | - (its use is, in approvals) |
| Integrations (`integration_service`, `integrations/*`, providers) | connections, OAuth tokens, audit rows | connect, refresh, invoke an operation | refresh races; audit left running | a token is used for its own account | - |
| Chat providers (`telegram_service`, `telegram_provider`, `wecom_service`, `whatsapp_service`, `muse_service`, bridge `bridge.go`, `internal/cache`) | bot connection with update offset and pairing, topics of sessions, retired topics; inbox rows, message cache | poll or receive, deduplicate, enqueue turns, send; pair; project sessions into topics | duplicate and lost updates; a bot replaced while its poll is under way; two threads projecting a session | an update is handed on and taken once; a replaced bot is not listened to; a session has one topic | **P** (Telegram's topics; its decisions are in approvals) |
| Quercus, Atlas, Notion, report and feed services | snapshots, sync cursors, documents | scheduled sync and processing with checkpoints | partial failure, resume | a resumed sync neither loses nor repeats | - |
| Act runtime (`act_app_server_service`, workspace, browser, downloads) | one App Server and browser per session | start, stop, reap, restart recovery | stop while a turn runs | a session has one server | - (stop of the server is, in turns) |
| Browser authentication, agent memory, title sync, Codex settings, routing and usage | small tables each | mostly one commit per call | - | - | - |
| Docker images, build dependencies, skill catalogs, contracts, presentation | files, images | I/O and formatting | - | - | - |
| Routers, schemas, models, frontend | - | adapters to the services above | the frontend polls | - | - |

Interactions modelled across components: delivery and recovery inside the turns;
the scheduler's recovery of locks and run rows (SkillLocks); cancellation and the
end of a turn closing live waits (LiveReplies); re-authorisation by the executor and
button callbacks of Telegram (InvocationApprovals); requests and the gateway under
and beside the skill's lock (WebAppInstances); the permanent chat's other turns
(AssistantAgenda); the topics of sessions that the browser makes and archives and the
delivery of their results (TelegramTopics).

## 2. Modules

| Module | Of | Checked by | Proofs |
|---|---|---|---|
| `AgentTurns` | sessions, dispatcher, delivery; its delivery implements `OnceEffect` | `MCAgentTurns` | `AgentTurns_proofs` |
| `CodexRpc` | App Server client | `MCCodexRpc` | `CodexRpc_proofs` |
| `SkillLocks` | operation guard, run rows, their recovery | `MCSkillLocks` | `WebAppInstances_proofs` |
| `LiveReplies` | prompts that wait for a reply | `MCLiveReplies` | `InvocationApprovals_proofs` |
| `OnceEffect` | abstract: claimed once, performed at most once, settled | by refinement | |
| `InvocationApprovals` | approvals; implements `OnceEffect` | `MCInvocationApprovals` | `InvocationApprovals_proofs` |
| `ScheduleOccurrences` | schedules and occurrences; implements `OnceEffect` | `MCScheduleOccurrences` | `ScheduleOccurrences_proofs` |
| `BuildRuns` | one build run and the requests that work on it | `MCBuildRuns` | `BuildRuns_proofs` |
| `WebAppInstances` | instances and containers of one web application | `MCWebAppInstances` | `WebAppInstances_proofs` |
| `AssistantAgenda` | one recurring task and the chat | `MCAssistantAgenda` | `AssistantAgenda_proofs` |
| `TelegramTopics` | the conversational Telegram bot of one agent | `MCTelegramTopics` | `TelegramTopics_proofs` |

`OnceEffect` is the contract that the durable ledgers of the backend share: an action
with an effect outside the database is claimed by one commit, the effect is requested
at most once and only under the claim, and a restart settles what it finds claimed
instead of trying again.  What is settled without a claim (`Refuse`) has no effect any
more.  Three modules implement it, with different claims (a
conditional UPDATE of an approval, a unique key of an occurrence, a conditional UPDATE
of a turn's delivery) and one refinement mapping each (`Phase`, in `ScheduleOccurrences`
over the occurrences).

Two proof modules are about two components: `WebAppInstances_proofs` also extends
`SkillLocks`, whose lock the requests on an application hold, and
`InvocationApprovals_proofs` also extends `LiveReplies`, the other wait of a turn on its
user.  The components stay apart: no proof about one uses the other, and for that
reason the names of `SkillLocks` (`LockSpec`, `LockInit`, `place`, `row`, ...) and of
`LiveReplies` (`ReplySpec`, `ReplyInit`, `place`, `answer`, ...) differ from those of
their neighbours.

### AgentTurns

State: for each session its row's status and the worker thread; for each turn
`status`, `codexId`, `cancelReq`, `delivery` as columns, and the dispatcher's
`_active` entry; for each caller (a request thread) the operation it has begun.  A
caller's `EnqueueCheck`/`EnqueueInsert`, `CancelRead`/`CancelCommit`/
`CancelInterrupt` and `ArchiveCheck` ... `ArchiveStopServer` are the statements of
`enqueue_turn`, `cancel_turn` and `archive`.  A worker goes `StartWorker`, `Poll`,
`Claim`, `Begin`, `StartCodex`, `RecordCodexId`, `Register`, `CheckCancel`, the wait,
`Settle`, `CommitOutcome`, `Release`, `DeliverClaim`, `DeliverSend`, `DeliverMark`,
as `process_next`, `_execute`, its `on_started` and `deliver_agent_turn_result` do.
`DeliverUnclaimed` is what the delivery settles without a claim (an output that cannot
be retained, a background success that says nothing, an error before the claim's
commit); `DeliverFails` a delivery whose own commit fails, after which the row stays as
it is until the next start.  `due` is the list of results that `recover` has made and
hands out one by one.
`Stop` sets the stop event and `StopSweep` interrupts what is active; `Recover` is
`recover()`.  A commit may fail (`MaxFaults`, SQLite's busy timeout), which ends the
worker; the process may die (`MaxCrashes`).  `Agent` tells Act, which refuses a
second turn, from the assistant, which queues them.

### CodexRpc

State: the lifecycle lock, the current generation, the ids, `_pending`, the orphaned
responses; per request its `_PendingResponse`; per generation the child, its pipes
and the reader thread.  A call takes the lock (`Acquire`), ensures a process
(`EnsureHealthy`, `Halt`, `Reap`, `Spawn`), shakes hands, registers, writes and
waits; `Wake`, `TimeOut` and `Pop` are `_request_running`'s end.  The child answers
or exits when it likes; the reader routes or ends.  `writer` is the thread that keeps
`_write_lock` in a write to a full pipe (`WriteBlocks`): it has no timeout, and goes on
when the child reads (`WriteGoesOn`) or exits (`WriteBroken`).  Until then every other
write waits, and so does `stop`, which takes that lock inside the lifecycle lock
(`Reap`).

### SkillLocks

State: the lock row and its age, each thread's active run row.  `acquire` is
`CheckRun`, `ReadLock`, `CheckStale`, `DeleteStale`, `LookFor`, `Insert`, one action
per statement.  `Age` makes a lock older than two hours, `RecoverLocks` is the part of the
scheduler's startup that fails interrupted scheduled runs and removes their locks.  A
commit may fail (`MaxLost`): before the run row (`CommitFails`), at the run's end
(`EndFails`: the row stays active, and so does the lock) or at the lock's deletion
(`ReleaseFails`).  `unended` are the runs whose end could not be stored; `Age` and the
next start are what ends them.

### LiveReplies

State: each prompt's row and the tool call that waits; what each message claims.
`Select`/`Claim` are the read and the conditional UPDATE of `accept_act_reply`;
`Poll`, `FinishCancelled`, `FinishExpired` the wait's loop; `CancelTurn`, `EndTurn`,
`ReleaseTurn`, `Recover` the others that close waits.

### InvocationApprovals

State: the row's decision, execution and delivery, the Telegram message as the user
sees it, the authority the contract rests on, and each thread.  `Approve`, `DenyRead`
and `DenyCommit` are the two decisions (one an UPDATE with a condition, one a read
and a commit); `Authorise`, `Perform`, `Record`/`RecordFails` the dispatch;
`Tell`/`Edit`/`Retouch` the message; `Recover` and `Resumable` the restart.
`ChildStarts` is `ensure_local_schema` in an MCP child, which starts while the backend is
up: it sets every executing approval to `outcome_unknown`, and the thread that dispatches
one (`overtaken`) goes on and writes its own outcome over that.  `Invalidate` makes
pending approvals stale when an account changes.  For the ledger an approval counts as
claimed for as long as a thread has its dispatch in hand, whatever the row says meanwhile
(`Phase`): what the child writes settles nothing then.

### ScheduleOccurrences

State: one schedule: whether it is enabled, its definition, the runtime state
(fingerprint and activation), the occurrence rows, the APScheduler job.  `kind` is
chosen at the start: a skill's schedule has its definition and its state in two rows
read one after the other, a backend service's has one.  Time is counted in intended
instants; every other step lies strictly between two of them, which is how wall clock
timestamps fall.  `Fire` is APScheduler with `coalesce` and `max_instances = 1`;
`ReadSchedule`, `EnsureResets`/`EnsureSkill`/`EnsurePlatform`, `Claim`, `Begin`,
`Invoke`/`Blocked`, `Finish` are a firing; `Recover`, `LoadJobs`, `QueueCatchUp`/
`NoCatchUp` are `start()`; `Enable`, `Disable`, `Update`, `Rename`, `RunNow` the
requests.

### BuildRuns

State: the columns of one run that the code decides on (`status`, `gen`, `skill`,
`approval`, failure counts, the done tasks of the summary, the artifacts), the
finalization lock, the registry of cancelled runs, and each request handler with the
entry point on whose behalf it works (`mode`), its task and its own copy of the done
tasks.  `CreateRun`, `RetryTask`, `ResumeWaiting`, `ResumePaused` and `RetryFailed` are
the requests, `ContinueBuild` what most of them end in; `DagWritten`, `BeginTask`,
`Built`, `Inspected`, `Passes`/`FailsTest`, `Repaired`, `StartFinal` the task DAG;
`BeginSingle`, `BuiltSingle` the other workflow; `BeginFinish`, `Finish` and
`BeginCancel`, `Cancel` the two users of the lock.  A step lasts from one call that
leaves the process to the next, so a handler's look at the status and its next commit
lie in one step only where no such call is between them.  `seen` is there because an
assignment of the value a session has loaded is not written: a cancellation that
arrived meanwhile survives it.

### WebAppInstances

State: the skill's `enabled` and `active` pointer and operation lock; for each
instance its row, whether its container ids are stored, whether it has a session, the
container itself and the version whose package it runs; for each thread its place.
`OpenRead` ... `OpenSession` are `open_session` (probe, lock, second look, stops, start,
readiness, session), `BeginLocked` ... `Stopped`/`Disabled` the stop, disable and
activate requests, `IdleList`/`IdleDone` the maintenance thread, `Resolve`/`Answered`
the gateway, `StopCall`/`StopCommit` `stop_instance` for all of them, `Recover`
`recover_stale_instances`.  Assumed: a start is over before its instance counts as
idle (`Starting`: the idle limit is longer than the readiness timeout), and the lock of
a living thread does not expire (that is in `SkillLocks`).  Docker commands have no
timeout: a thread in one may never come back (`RunHangs`, `RemovalHangs`, place `lost`),
and keeps the operation lock it holds.  The maintenance loop has no exception handler:
`MaintenanceEnds` is its end until the next start.

### AssistantAgenda

State: one task's row (status, schedule version, boundary), its occurrences with the
turn that claims each, the turns with what each was queued for, what is owed to
`on_turn_completed`, and the chat's other turn.  `Tick` and `RunNow` are `_activate`;
`Configure`, `SetStatus`, `Reschedule` the edits; `StartTurn`, `Validate`, `Succeed`,
`Fail` the dispatcher with the assistant's validation; `FinishRead`/`FinishWrite` the
read and the commit of a completion; `Reconcile` the settling of what has ended, in a
tick and at a recovery.  `CancelRead` and `CancelWrite` are `cancel_turn` of a turn it
finds queued: the worker may have taken it, or ended it, by the commit.  A turn so
cancelled under its worker is `stray` until the worker looks again, or `late` when it
has passed its last look and will yet write a success; `request` is what the request
still owes, which is a completion of its own (`CancelFinishRead`, `CancelFinishWrite`).
Time is counted in instants as in `ScheduleOccurrences`.  Assumed: a retry's delay is
longer than a completion takes from its read to its commit, two Run Nows do not fall on
the same instant, and a turn is cancelled by one request.

### TelegramTopics

State: the connection row (bot, code, status, offset), the topics of sessions and the
retired topics as tables, the sessions' status and the topic of each session's turn;
on Telegram's side the topics, the updates and how far they are confirmed; the
poller's copy of the row and its batch; each thread's place; the two dictionaries of
locks.  `BeginPoll`, `Receive`/`ReceiveNone`, `AcceptMessage`/`IgnoreMessage`,
`CheckOffset`, `SetOffset`, `Sync` are the poll; `Resolve`, `Take`, `Claim`/`ClaimLost`,
`CloseTopic` the handling of a message; `ReadCode`, `Confirm` and the request
`StartPairing` the pairing; `Look`, `Lock`, `CreateTopic`, `Bind` the projection of a
session, by poller and request alike; `Reply`, `Retire`, `Archive` what is sent to a
topic that is gone; `EndTurn`, `Deliver` the result of a turn.  `Row` is the point of
the module: SQLAlchemy's `db.get` returns the object the poll loaded at its beginning
until a commit of that session expires it.  Update ids are per bot and so are topic
numbers, so a number alone does not name a topic.  The ghosts `got`, `again`,
`offered`, `late` and `torn` only record.  One user and one chat, who sends `MaxUpdates`
updates over all bots (`Sent`).  `Fails` is a statement or commit that fails in any
thread.  In the poller it may leave the session in a failed transaction, and then
`set_offset`, which is outside the `try`, raises too and the poll ends with the offset
unsaved (`GiveUp`), whatever the handler had committed; where the session was rolled
back the poll goes on.  `Archive` and `Bind` have the same outcomes of their own: the
tombstone of a number that has one already, a topic that another claim has bound.

Its properties count upsets, for what they bound is how much a death, a failed statement
or call, or a new pairing may cost.  `RepeatsNeedUpsets` counts per text (it becomes a
turn once, and once more for each of these) and, while the first pairing lasts, over all
texts (`again`): the offset is stored after every update, so a death or a failure repeats
one of a batch.
Over later pairings there is no such bound on the total: see the last item on Telegram
below.  `OneTopicPerSession` speaks of the open topics of the
present pairing that were not retired (`TopicsOf`); the exception is in the same item.
`EveryUpdateOffered` excepts a retired number that has a session again (`Stale`): each
look at such a topic, once it is gone, may fail the poll anew.

## 3. Runs

All runs use the modules' own definitions; the `MC` modules only give constants
values.  Deadlock is not checked anywhere, for every system here may come to rest:
the bounds run out or nobody asks for anything.

| Run | Instance | Shows |
|---|---|---|
| `turns_act` | 1 session, 1 turn, 2 callers, 1 crash, 1 fault; fairness | `StartedOnce`, `CancelReachesCodex`, `StopReachesCodex`, `FinishedStays`, `LedgerSpec`, and that a queued turn finishes (`QueuedFinishes`, unless a lost worker has left a turn running) and its result is settled (`ExecutedResultsLeave`) |
| `turns_assistant` | 2 turns, 1 caller, 1 crash, 1 fault | `InOrder` |
| `rpc_calls` | 2 threads, 2 calls, 3 generations, 1 exit; fairness | `AnswerMatches`, `OneServer`, and that every call returns if no writer is kept in a full pipe (`CallsReturn`) |
| `locks_ops` | 2 threads, long operations, 2 agings, 2 crashes, 1 failed commit; fairness | `NoOverlapWhileFresh`, `ScheduledRunIsLive`, `LockComesFree` |
| `replies_waits` | 2 prompts, 2 messages, 1 crash; fairness | `ReplyReachesAgent`, `WaitsEnd` |
| `approvals_calls` | 1 approval, 2 request threads and the poller, 1 crash, 1 fault; fairness | `ShownIsTrue`, `WithdrawnNeverRuns`, `ClaimsSettle`, `LedgerSpec` |
| `schedule_claims` | both kinds, 2 definitions, 2 instants, 1 Run Now, 2 edits, 1 crash; fairness | `NoBackfill`, `LatestIsClaimed`, `ClaimedEnds`, `LedgerSpec` |
| `schedule_instance` | a backend service, no edits, no crash | violated: `OneInstance` |
| `builds_requests` | both workflows, 2 handlers, 2 tasks of which one is tested, 1 allowed failure, 3 requests, 1 crash; fairness | `CancelledNotInstallable`, `BuiltWasApproved`, `CancelBeatsFinish`, `RequestsEnd` |
| `webapps_requests` | 2 versions, 2 instances, 2 request threads, 3 requests, 1 crash, 1 fault (a removal that fails, a Docker command that never returns, an error that ends the maintenance); fairness | `OneRuns`, `NothingLeaks`, `QuietSwitch`, `IdleEnds` |
| `agenda_turns` | schedules of the instants {1, 2} and {2}, 3 turns, 2 events (edits, Run Nows, other turns, cancellations, deaths); fairness | `OneInFlight`, `SuccessIsFinalUnlessLost`, `NothingBackfilled`, `LatestSettles` |
| `telegram_updates` | 2 bots, 2 updates, 2 topics a bot, 1 session of the browser, 1 upset; fairness | `RepeatsNeedUpsets`, `OldPairingEnds`, `OneTopicPerSession`, `EveryUpdateOffered` |

Bounds.  The actors of each hazard number two (two deciders, two claimants, two
clearers, a poller and a request), so two threads show every race of a pair; a third
thread changed no result where it was tried.  One crash shows every point of death and
the recovery from it; a second one (`locks_ops`) shows recovery from what a recovery
left.  Turn order needs two turns.  Two instants let one be missed and the next be the
latest.  The generations of the App Server are three, so that an answer of a stopped one
can meet the ids of two later ones.  Two tasks give a build a border between batches and
a last task; three requests are the run, what interrupts it and what takes it up again.
Two instances are the one that runs and the one that replaces it.  In `agenda_turns`
three turns are an attempt, its retry and a Run Now, and two events are a pair of a
cancellation, an edit and a death (107,558 states); the first schedule has two instants,
so that the second may pass while the occurrence of the first is queued.
`AssistantAgenda_three.cfg` allows three of them together (659,702 states, safety only).
In `telegram_updates` two updates make a batch with one behind the other; an upset is a
new pairing, a death or a call or statement that fails, and `TelegramTopics_two.cfg`
allows two of them together (12.7 million states, safety only).  `EveryUpdateOffered`
excepts the offset that is written over a new pairing (`torn`, below under Telegram).

Fairness.  Threads, once started, take their steps: each waits with a timeout of its own
(the Codex turn's deadline, the request timeout, the wait's deadline, the run's timeout,
the readiness check, pip's and the tests' limits), so weak fairness is on the thread's
next step and never on the other party's answer.  Two waits have no timeout, and nothing
is assumed of them: a write into the App Server's full pipe (`CallsReturn` is about
behaviours in which it is free again and again) and a Docker command (`WebAppInstances`
may lose a thread in one).  The backend is started again after a crash, which the
supervisor or the user does.  `AssistantAgenda` has weak fairness for the timer's tick
(every 30 s) and for the dispatcher, completions, begun cancellations, delays and
recovery together.  `WebAppInstances` has strong fairness for the listing of each
instance by the maintenance thread: while that thread lives, it comes round whenever
nobody uses the instance, and requests may keep it from doing so for a while.  It does
not live for certain, so `IdleEnds` excepts a lost one.  `TelegramTopics` has weak
fairness for the poller's steps and for each started thread; users need do nothing.
Nothing is assumed of the child process (`CodexRpc`), of users, or of the provider.

### What the violation shows, and the instances beside the runs

* `schedule_instance`: Run Now checks for a running occurrence before it claims,
  firings and catch-ups do not check, so a backend service runs twice at once.

Ten more configurations each state what a document says of the program, or what one
would expect of it, and end in a counterexample; `tlc -config <X>.cfg MC<module>`
shows it:

| Configuration | Property | What the code does |
|---|---|---|
| `AgentTurns_cancel` | `CancelTakesEffect` | `cancel_turn` reads the turn queued, the worker claims it, and the cancellation commits `cancelled` without an interrupt; Codex goes on (`docs/runtime/act.md:48`) |
| `CodexRpc_timeout` | `TimeoutMeansUnanswered` | request ids begin at 1 in each generation and the pending table is keyed by id alone; a waiter of the old process that wakes late removes the new one's entry (`codex_app_server.py:277`) |
| `SkillLocks_overlap` | `NoOverlap` | `_clear_stale_lock` deletes by primary key after two reads; of two threads that saw the same stale lock the slower deletes the fresh lock of the faster (`docs/backend/api_and_services.md:192`, `skill_operation_guard.py:107`) |
| `SkillLocks_crash` | `ActiveRunIsLive` | only interrupted runs of schedules are failed at startup; a run started otherwise stays active and refuses every later operation on its skill (`scheduler_service.py:826`) |
| `WebAppInstances_version` | `ServedIsActive` | an open takes the package directory before it waits for the lock, and the row's version after it: an activation in between is served under the new version with the old package (`docs/runtime/web_applications.md:80`, `web_app_runtime_service.py:634`) |
| `AssistantAgenda_lost` | `SuccessIsFinal` | a cancellation finds the turn queued and commits when its worker has looked for the last time: the occurrence fails and is tried again, and the cancelled turn succeeds as well; likewise a completion that has read the occurrence commits over the claim Run Now has made since (`docs/runtime/assistant.md:57`, `assistant_activation_service.py:184`) |
| `InvocationApprovals_child` | `OnlyInterruptedUnknown` | `ensure_local_schema` takes every executing approval for one that a dead process left, and every MCP child runs it at its start while a thread of the backend may be executing one: row and message say that the outcome is not known, until the dispatch writes over them (`docs/security/invocation_approvals.md:13`, `db.py:470`, `mcp_server.py:56`) |
| `WebAppInstances_maintenance` | `IdleTimeoutStops` | the loop that ends idle instances catches nothing, unlike the two beside it: after one error, or one Docker command that does not return, none is stopped until the backend is started again (`docs/runtime/web_applications.md:77`, `main.py:125`) |
| `BuildRuns_stays` | `StaysCancelled` | a planning that ends in a question or a rejection writes the status without a look at it, over a cancellation (`docs/frontend/ui.md:181`) |
| `TelegramTopics_fresh` | `RefreshesFirst` | the first update of a poll is handled on the row as it was when the poll began, up to 30 s before (`docs/integrations/telegram.md:27`, `telegram_service.py:1050`) |

Divergences seen while modelling that no configuration states:

* Two requests may both find an Act session free (`act_session_service.py:134`) and
  queue two turns, where the code means to refuse the second.
* A turn enqueued while `archive` waits for `thread/archive` stays on an archived
  session (`act_session_service.py:228`).
* A turn cancelled in the queue keeps its pending result until the next start
  (`act_session_service.py:200`), and so does a result whose delivery could not commit
  (`agent_turn_delivery.py:75`).
* Turns queued behind one whose worker was lost wait for the next start
  (`act_turn_dispatcher.py:143`).
* A request that found the old App Server in order may be written to the new one
  ahead of `initialize` (`codex_app_server.py:249`); a subscription that is full drops
  its oldest event, which may be `turn/completed` (`codex_app_server.py:68`).
* A child that neither reads its stdin nor exits keeps a writer, and with it every call
  and `stop`, for ever (`codex_app_server.py:280`).
* A skill run whose end cannot be stored stays active, with its lock, and refuses later
  runs until the next start, or for good when no schedule started it
  (`skill_runner.py:536`).
* An operation longer than two hours loses its lock, and its release then deletes the
  lock of the one that took over (`skill_operation_guard.py:15`).
* Recovery leaves the wait of a turn open whose end was stored before the process
  died (`act_turn_dispatcher.py:115`); a remote send that fails after the prompt was
  answered from the web marks the reply failed (`act_chat_message_service.py:107`).
* An approval decided on the page while its message is on its way leaves the message
  with its buttons (`invocation_approval_service.py:361`).
* An intended time between `startup_at` and the registration of the jobs is claimed
  by neither (`scheduler_service.py:101`).
* An edit that commits between the two reads of a firing is followed by the old
  fingerprint and a new boundary, which costs the next instant
  (`scheduler_service.py:917`).
* Builds: a paused single-Codex run whose resumed builder fails stays `running`
  (`docs/workflows/project_build_workflow.md:88`), as does any run whose process dies, for
  nothing recovers runs at startup; two resumes at once both work on the run; a
  cancellation the process did not survive is forgotten; a retry after a planning that
  failed waits for an approval nobody has been asked for.
* Web applications: a gateway request that fails late marks an instance unhealthy that
  was stopped meanwhile; a session may be opened on an instance stopped meanwhile; a
  container whose ids were not stored before a death is never removed; an open may
  start an instance of a skill disabled meanwhile; a launch longer than the idle limit
  may leave a running container under a stopped row; an open, stop or disable whose
  Docker command does not return keeps the skill's lock, until it is two hours old.
* Agenda: a cancellation of a turn found queued may commit over one that runs, and that
  run is not interrupted (`act_session_service.py:200`); with `autoflush=False` a failure that a reconcile has just finished is not
  seen by Run Now's query in the same transaction.
* Telegram: `set_offset` compares the bot and then commits, so the old bot's offset may
  be written into a row that was replaced in between (`telegram_service.py:121`); a new
  pairing during `get_me` of the previous code's confirmation is marked connected at
  once; a topic created for a session over a new pairing is bound to the new one; a
  death between `create_forum_topic` and the commit leaves a stray topic; a user who
  writes into such a topic before its mapping is committed has it deleted; a message
  handled before a death is handled again after it; a turn is taken on a session
  archived meanwhile; a topic retired over a new pairing is recorded under the new one.
* Telegram, when a statement fails: a text whose turn is committed comes again if the offset
  cannot be stored, also after a handler's failed flush, which nobody rolls back
  (`telegram_provider.py:1552`, `telegram_service.py:1027`); a flush that fails otherwise than on a unique key
  leaves a stray topic (`telegram_service.py:898`); a retired number that another claim
  binds late cannot be retired again, and its poll fails at each look
  (`telegram_service.py:1014`).
* Telegram, seen while proving: a new pairing made while the confirmation of the old
  code asks `get_me` is connected without its own code (`telegram_service.py:519`), so
  Telegram sends the whole unconfirmed batch again and each of its texts becomes a turn
  once more; and a retirement begun in the pairing before
  removes the mapping of the topic of the new pairing that has the same number, while
  that topic is open (`telegram_service.py:1028`), so that its session gets a second one.

## 4. Proofs

TLAPS proves, for all values of the constants that the named assumptions admit:

| Theorem | Says |
|---|---|
| `AgentTurns_proofs!TypeCorrect` | `Spec => []TypeOK` |
| `AtMostOneStart`, `AtMostOneDelivery`, `OnlyFinishedDelivered` | `StartedOnce`, `DeliveredOnce`, `SentAfterEnd` |
| `ImplementsLedger` | `Spec => LedgerSpec`: the delivery of results is a ledger of effects |
| `CancellationReachesCodex`, `ShutdownReachesCodex` | `CancelReachesCodex`, `StopReachesCodex` |
| `FinishedTurnsStay`, `TurnsStartInOrder` | the action properties `FinishedStays`, `InOrder` |
| `InvocationApprovals_proofs!TypeCorrect` | `Spec => []TypeOK` |
| `AtMostOncePerformed`, `OnlyApprovedPerformed`, `MessagesAreTrue` | `PerformedOnce`, `PerformedWasApproved`, `ShownIsTrue` |
| `ImplementsLedger` | `Spec => LedgerSpec`: every step is a step of `OnceEffect` or a stutter |
| `WithdrawnIsRefused` | `WithdrawnNeverRuns` |
| `RepliesTypeCorrect`, `AcceptedRepliesArrive` | `ReplySpec => []ReplyTypeOK`, `ReplySpec => []ReplyReachesAgent` |
| `ScheduleOccurrences_proofs!TypeCorrect` | `Spec => []TypeOK` |
| `ImplementsLedger` | `Spec => LedgerSpec`: one claim and at most one invocation for each intended time and each Run Now |
| `NothingBackfilled`, `NothingMissed` | `NoBackfill`, `LatestIsClaimed` |
| `CodexRpc_proofs!TypeCorrect` | `Spec => []TypeOK` |
| `SingleServer`, `AnswersMatch` | `OneServer`, `AnswerMatches` |
| `BuildRuns_proofs!TypeCorrect` | `Spec => []TypeOK` |
| `CancelledStaysOut`, `OnlyApprovedIsBuilt`, `CancellationWins` | `CancelledNotInstallable`, `BuiltWasApproved`, `CancelBeatsFinish` |
| `WebAppInstances_proofs!TypeCorrect` | `Spec => []TypeOK` |
| `AtMostOneRuns`, `NoLeak`, `SwitchIsQuiet` | `OneRuns`, `NothingLeaks`, `QuietSwitch` |
| `LocksTypeCorrect` | `LockSpec => []LockTypeOK` |
| `FreshLocksExclude`, `ScheduledRunsLive` | `NoOverlapWhileFresh`, `ScheduledRunIsLive` of `SkillLocks` |
| `AssistantAgenda_proofs!TypeCorrect` | `Spec => []TypeOK` |
| `OneTurnInFlight`, `NoBackfill`, `SuccessIsKept` | `OneInFlight`, `NothingBackfilled`, `SuccessIsFinalUnlessLost` |
| `TelegramTopics_proofs!TypeCorrect` | `Spec => []TypeOK` |
| `EndedPairingIsDeaf`, `RepeatsAreExplained`, `SessionsHaveOneTopic` | `OldPairingEnds`, `RepeatsNeedUpsets`, `OneTopicPerSession` |

So every safety and action property that a run checks is proved.  `SentAfterEnd` and
`PerformedWasApproved` are stated by no run, being proved; `PerformedOnce` and
`DeliveredOnce` are part of `LedgerSpec`.  The assumptions are those the modules name on
their constants: bounds are natural numbers, sets the proofs count over are finite, each
turn has a session, and the like.

Turns.  None of the invariants is inductive alone.  `StartedOnce` needs that a turn
whose worker has not reached `turn/start` has never been started, hence that a worker
holds a turn that is running and that at most one holds it (`WorkerInv`, `RunInv`,
`StartInv`); the claim keeps it because it takes only queued turns.  The two
properties about Codex are each a Dekker pattern: the canceller stores the request and
then looks for the registration, the worker registers and then looks for the request,
and `CancelInv` and its like say which of the two looked last.  `DeliveredOnce` rests
on the claim of the delivery column; `InOrder` on `OrderInv`: what is behind a queued
turn has not been taken.  For the refinement `ClaimedInv` adds that a worker about to
send or to store a receipt holds a delivery that is `sending`: the send is `Perform`, the
receipt and the failed check `Settle` one turn, `Recover` settles all it finds.  A
delivery settled without a claim is `Refuse`, for its column is then still `pending`; one
whose commit fails is a stutter, and the worker has let go of it.

Approvals.  `HoldInv` says that a thread that dispatches holds a claimed row nobody
else dispatches and whose effect count tells how far it has come; `RowInv` ties
decision, execution and count.  The row of a claimed approval may already say
`outcome_unknown` while its thread has yet to invoke (`ChildStarts`), so the claim of the
ledger is read from the thread that holds it and, when no thread does, from the row.  With
the two, each action is matched with its abstract step: the winning `Approve` is `Claim`,
`Perform` is `Perform`, `Record` is a `Settle` of one row, `Recover` a `Settle` of all that
execute, `ChildStarts` one of those nobody holds, a denial and `Invalidate` are `Refuse`.
`MessagesAreTrue` needs that what a thread is about to show was once the row's state
(`ShownInv`) and that an outcome, once stored, is final, which is so of all but the
`outcome_unknown` of an overtaken dispatch; the message is excepted for that one value.  `WithdrawnNeverRuns` is not an
invariant but a promise from some moment on; `Withdrawn(a)` (the authority is gone,
nothing was performed, and nobody is past the check under the claim) holds from then on,
because `execute_approved` verifies after it has claimed.

Live replies.  `ReplyInv` ties what a wait returned to the row: a prompt has taken a reply
only if it is answered, or failed to be sent, and a wait that timed out or was
cancelled has closed its row first, so that no reply can be taken for it afterwards.

Schedules.  The refinement has the same shape: `HoldInv` says that a thread that has
claimed an occurrence is the only one to hold it and how far it has come, and a claim
succeeds only where no row is.  `NothingBackfilled` needs to know why a thread may
claim what it is about to claim: `PeriodInv` ties the runtime state's activation to
the period for which the present definition has been enabled, and `ClaimInv` carries
that from the read of the schedule to the claim, over any edit in between, because
the fingerprint the thread took along must still be the one of the state.  `DownInv`
says that nothing of either survives a crash but the rows.  `NothingMissed` is about
instants rather than threads: `DueInv` says that an instant whose run is still open is
awaited by somebody: it lies before the start and is left to the catch-up, or the job
is about to fire, or the thread it fired in is on its way with the present definition.

App Server client.  `OneServer` is a matter of the lock: `LockInv` says that whoever
is about to start, end or leave is alone in it, and `ServerInv` that a process the
client has forgotten has exited or is being ended by the thread in the lock.
`AnswerMatches` is not, for readers and waiters run without it: `AnswerInv` says that
every request or answer on its way has an id its generation has already given out, so
none can meet a request of a later generation, and that up to the last id given out
the pending table holds only entries of the current one.  (The entry a late waiter
removes, see `CodexRpc_timeout.cfg`, costs an answer but never mixes two.)  A consequence the
proof makes visible: an id newly given out never has an orphan, so
`_request_running`'s look into `_orphan_responses` finds nothing as long as ids start
at 1 together with an empty table.

Skill locks.  `FreshInv` says that before any lock has turned stale no thread is on
its way to delete one, that the skill is locked while somebody holds it, and that the
holder is alone; with the primary key (`KeyIsFree`) each step keeps it, a crash only
because recovery does not run beside operations (`DownInv`).  That the active run of a
schedule is that of a living thread holds but for the runs whose end this process has
failed to store (`unended`), which the next start takes.  The restriction to
`agings = 0` is the true one: `SkillLocks_overlap.cfg` shows what happens after the
first.

Builds.  `StepInv` says where a handler's plan and task come from; `ApprovalInv` that
every trace an approved build leaves (a pause, an interface artifact, a handler past
planning) means the approval was given, which is why the entry points that skip the
look at it are harmless; `FinishInv` that between the look at the status and the commit
of the success the finalization lock keeps a cancellation out.

Web applications.  `LockInv` says that a request in its locked part holds the lock,
`HandInv` that the maintenance thread, which does not, never has a start in hand, and
`RunInv` that what runs has an active row and that a start has nothing beside it.
`QuietSwitch` follows from the stops before the switch having left nothing to do.

Agenda.  `FlightInv` is `OneInFlight` for any two turns; `ClaimInv` ties turns and
occurrences to one another; `BoundaryInv` says that the instants since the last change
of the schedule passed under it, from which a turn about to run cannot be of an
earlier one; `OwnerInv` that an occurrence belongs to the turn at work on it and then to
the one that succeeded, unless its claim was overwritten or it succeeded over its own
cancellation (`lost`).  `RequestInv` says that a turn whose cancellation owes its
completion has ended, and that its occurrence is in `lost` if it has succeeded all the same.

Telegram.  `OldPairingEnds` counts the texts an ended pairing's bot was still heard
for: `LateInv` says that the poll is on its way to a further one (`Heard`) only if the
count leaves room for it, which a new pairing makes and which no poll begun after it
needs.  `RepeatInv` gives every text of a bot its budget of turns: either it has some
left (`Due`), or it has used it and the text is behind the stored offset or the one in
hand (`Passed`, `Spent`); only a death, a failure that ends the poll before the offset is
stored, or a new pairing takes it back, and raises the budget.  `FirstInv` is the sharper count of the first pairing, where the only text that
can come again is the one just after the stored offset.  `OneTopicPerSession` needs a
count, too: `PlanInv` and `CodeInv` say that what is made now is made for the row's bot or
for a pairing that has ended, `AloneInv` that whoever makes a topic for a session holds
its lock and has found it without one, `BoundInv` that a session has one mapping.  So of
the open topics of a session at most one is bound or about to be, and the others are
strays, each of which goes back to a death, a failed statement or a failed call between
the creation and the mapping (`StrayInv`, counted by `LostBy`).

Only model-checked: liveness (`QueuedFinishes`, `ExecutedResultsLeave`, `CallsReturn`,
`LockComesFree`, `WaitsEnd`, `ClaimsSettle`, `ClaimedEnds`, `RequestsEnd`, `IdleEnds`,
`LatestSettles`, `EveryUpdateOffered`), which rests on fairness and ENABLED and is out
of the prover's reach.

## 5. Plan

Done: the eleven modules of section 2 and the proofs of section 4.

Next, in this order:

1. `SkillVersions`: files and rows of install, activation, roll back under the lock of
   `SkillLocks`; abstract: an atomic switch of the active version.  `WebAppInstances` has
   the switch itself and what it does to running instances.
2. `InboundMessages`: WeCom's and WhatsApp's inbox rows and deduplication; the bridge's
   cache.
3. Repair and update runs beside `BuildRuns`, whose success is written without the
   finalization lock.
4. `QuercusSync`: checkpoints of a sync and of the processing after it.
5. The Assistant's one-time tasks, questions and daily plan beside `AssistantAgenda`.

Proofs to come: those of the modules above, as they are written; and the safety part of
the liveness properties, that is, which thread, row or timer has what is still to
happen in hand whenever it has not happened yet.

## 6. Not modelled, and why

Wording, schemas, presentation and pure adapters to providers' APIs keep no state
between calls.  The frontend shows what the API returns.  What a skill or Codex does
inside its sandbox is arbitrary.  Contents of messages, contracts and manifests are
abstracted to what the properties tell apart.  Within the modelled parts: turns leave
out live messages to a running turn, thread recovery text and title synchronisation;
the client leaves out notification streams; the scheduler leaves out manual runs of
skills, two users editing one schedule at once, and the horizon of eight days in its
search; locks treat one skill, for the rows of different skills do not meet; build runs
leave out repair and update runs, the validation of the DAG and the contents of
artifacts; web applications the deletion of their records, the lifetime of sessions, the
orderly shutdown and the capability routes; the agenda one-time tasks and questions,
daily plans, agenda changes and the refresh of the thread; Telegram the General area,
titles, live replies and documents, proposals, the expiry of a pairing code, the removal
of a connection, a webhook in conflict and the Assistant's direct chat.

Skill packages and versions keep their own files in step with rows; that is the first
item of the plan.  Permissions and grants are checks of rows whose withdrawal is
`Withdraw` in `InvocationApprovals`.  Functions nest runs whose locks are in `SkillLocks`.
Quercus, Atlas and the feeds, WeCom, WhatsApp and Muse, memory and titles, and the Act
runtime's processes are left for lack of a model, not because they have nothing to check;
images, build dependencies, routers and schemas do I/O or declare.
