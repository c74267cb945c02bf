# Localoud AI: a TLA+ model of the hub

Localoud AI is a desktop application (Tauri, Rust) that takes a plan written elsewhere
(a *Manifest*), executes its steps with local, Codex and API workers in isolated Git
worktrees, has the integrated result reviewed by a separate session, and keeps every
step of this in one SQLite database so that a crash never sends a prompt twice. Around it
stand an MCP endpoint for other clients on the same machine, and an agent application that
lets a model outside ask for reads, edits and commands, each of which its owner approves.
This directory models the parts of it where several actors change the same state, checks
them with TLC and proves the central facts with TLAPS.

## 1. Inventory

| Part | State it keeps | Operations | What is hard | Module |
| --- | --- | --- | --- | --- |
| Manifest workflow (`autonomous.rs`, `manifest.rs`) with its plan graph (`ready_batch`, `ancestors`, rework closure) | the `AutonomousSnapshot` in setting `autonomous:{id}`, `LIVE`, `workflow_lock`, manifest receipts | import, run, workers, automated review, review import, resume, stop, poll | six kinds of actors rewrite one snapshot, some of them under no common lock; crashes; sends whose outcome is unknown | ManifestWorkflow |
| Codex sessions and journal (`hub-runtime/lib.rs`, `hub-events`, `hub-db`, `main.rs`, `workspace_ui.rs`) | an actor per thread (`active`, `reconciled`), `turns`, `events`, `provider_threads`, connections | create, resume, read, start, steer, interrupt, archive, restore, delete; publish; reconnect | provider notifications race the replies of requests; intents before dispatch; late events | ThreadSession |
| API sessions (`api_sessions.rs`) | rows, transcript, running task handles | start, finish, interrupt, resume, read, delete | the reply races the interrupt, whose task may have its answer already | ApiSession |
| API agent loop and approvals (`api_worker.rs`, `tool_approvals`) | the transcript of a turn, `tool_approvals`, waiters | rounds, tools, request, decide, consume, abandon | a decision races the end of its turn; an approval is used once | ApiAgent |
| API providers (`provider-api`) | the events of one response | request, parse, cut, send back | fragments of several calls alternate and may end anywhere | ProviderStreams |
| Provider profiles (`models.rs`, `providers.rs`) | rows with revisions, registry, connections, canary results | edit, probe, validate, run | every command awaits a provider between its look at the row and its change | ProviderProfiles |
| Automatic routing (`auto_routing.rs`, `hub-router/automatic.rs`) | settings, pending routes | preview, override, create a task | commands work on clones of a route while they await a model | AutoRouting |
| DAG scheduler and workers (`hub-scheduler`, `hub-runtime/workers.rs`, `plan.rs`, `hub-worktree`) | task rows, worktree rows, thread bindings, `outcome:{task}`, the in-memory DAG | execute, run, recover | concurrency limit, failure of one task, a stop between any two writes, diffs of dependencies | PlanWorkers |
| Context broker (`hub-context`, `commit_retrieval`) | capsule, retrieval ledger | build, retrieve | concurrent retrievals against one budget | ContextBroker |
| Local edits (`local_worker.rs`) | files of a worktree | prepare, apply, roll back | a file changed meanwhile, a write that fails half-way | LocalEdits |
| Codex provider (`provider-codex`) | pending requests, questions, connection | request, read loop, answer, tool call, plan, shutdown | answers, timeouts and disconnection race; one input mutex | CodexRpc |
| MCP server of the repository (`localoud-mcp`) | ids of requests, command slots, process groups | run, cancel, time out, disconnect | an id used again, processes that outlive their request | CommandServer |
| Desktop MCP endpoint (`read_mcp.rs`, `mcp_files.rs`) | configuration, HTTP server, write lock, files | set, restart, read, create, edit | permissions withdrawn while a call waits; equal hashes; timeouts that stop nothing | DesktopMcp |
| Plugin agent (`plugins/localoud-mcp/agent`) and gateway (`services/mcp-gateway`) | `approvals.json`, `scope.json`, `agent.lock`; receipts of the Owner object; a WebSocket | invoke, approve, deny, run, publish, expire, attach, revoke | broken connections, restarts, clocks of two machines, ids used twice | ApprovalAgent, OwnerGateway, RelayLink |
| Agent application (`apps/mcp-agent`) | draft and saved projects, `projects.json`, the running agent, the approval window | add, update, remove, save, recheck, start, stop, quit; open and close the window | commands queue while windows open; folders disappear | AgentApp |
| Store (`hub-db`) | all of the above | transactions | compare-and-swap of profiles, one-shot records | in the modules of its users |
| Local model provider, planner, memory, redaction, front end | little or none | conversions and calls | formats rather than control | - |

Interaction: the UI invokes Tauri commands; `import`, `review import`, `resume` and
archive/delete take `workflow_lock`, while `stop` and the poll do not. `launch` inserts
the id into `LIVE` and spawns the runner, which spawns one task per step of a batch. All
of them go to the database through one mutex, held for one operation at a time. Codex is
one child process shared by everything, with its own idea of which turns are active. The
agent is a process of its own; it meets the gateway over one WebSocket at a time and the
desktop application not at all.

PROJECT.json lists the hazards of this code line by line, and the properties that would
catch each of them going wrong.

## 2. The project

| Modules | Composition | Runs | Proofs |
| --- | --- | --- | --- |
| ManifestWorkflow | MCWorkflow | `workflow_races`, `workflow_chain`, `workflow_liveness`, `workflow_stop_erased` | ManifestWorkflowProofs |
| ThreadSession | MCSession | `session_turns`, `session_manage` | ThreadSessionProofs |
| ApiSession | MCApi | `api_session` | ApiSessionProofs |
| OwnerGateway and ApprovalAgent over RelayLink | RemoteOperation implements ApprovedOperation; MCRemote | `remote_operation` | RemoteOperationProofs |
| DesktopMcp | MCDesktop | `desktop_mcp` | DesktopMcpProofs |
| CommandServer, CodexRpc | MCTables | `request_tables` | TablesProofs |
| ProviderProfiles, AutoRouting, ApiAgent, ProviderStreams, PlanWorkers, ContextBroker, LocalEdits, AgentApp | Models, MCModels | `models`, `worker_unprobed` | ProviderStreamsProofs, ModelsProofs |

A run answers one question of one composition. `Models` and `MCTables` put parts that share
no state into one state machine whose constant variable `part` says which of them runs: the
states are the sum and not the product of the parts, and a property says for each part what
has to hold of it.

What a next step would add: a tree of sessions (a workflow with its children and their
threads) that is archived as one; the duplicate of a message in ApiSession after an
interrupt.

Deadlock is checked in no run: each of these systems may stop, because it waits for its
user or because a bound is used up. "Nobody waits for ever" is stated as liveness
(`RunnerEnds`, `Settles`, `ReceiptArrives`, `EveryRequestEnds`) where the code's own
scheduling is enough for it; where it is not, the premise or the way out is part of the
property (`EveryRequestEnds`: section 8; `ReceiptArrives`: section 6).

## 3. ManifestWorkflow

State and code:

| Variable | Code |
| --- | --- |
| `w` | setting `autonomous:{id}`, the serialized `AutonomousSnapshot` |
| `receipts` | settings `manifest_receipt:*` of review manifests |
| `threadDone`, `openReviewers` | rows of `provider_threads` of the workers and Codex reviewers |
| `live`, `lock` | the set `LIVE` and the mutex `workflow_lock` |
| `cmd`, `held` | where each command is, and the snapshot in its local variable `w` |
| `run`, `verdict` | where each spawned runner is, and its local `next` in `automated_review` |
| `job`, `jobErr` | the worker future of each step, and whether one returned `Err` |
| `poll`, `stopper` | where `autonomous_snapshot` and `autonomous_stop` are |
| `remote`, `reviewTurn` | turns that are active in the Codex server |
| `sent`, `launches`, `crashes` | history and bounds |

An action is the code between two awaits (or two acquisitions of the store mutex when
another actor could come between): `SaveVerdict` is the `update` that follows a `read` in
`automated_review`, and `ReadForVerdict` is that read. The functions on the whole snapshot
(`prepare_review`, `prepare_resume`, `Settle`) are operators with the names of the code.

What is abstracted: task ids are the iteration that reset the step; the hash of an
artifact is the function from steps to the attempts integrated in it; texts, capsules,
usage, metrics, dispatch phases and error messages are left out. A reviewer `"api"` also
stands for a local reviewer, since neither has a Codex turn to stop. When the guard drops
the runner, tokio aborts its workers; the model drops them at once. A connection that is
gone or a call that times out is the second alternative of `ChildrenUnconfirmed`. The
effect of `turn/start` is atomic with sending it; that its answer may be lost is
`JobError` and `Crash` after `JobSend`. `finish_review_run`, the reviewer's row and the
following `read` are one action. One poll and one stop are in flight at a time. A task is
imported once: its receipt refuses a second import. `codex_review_turn` gives up on its timeout,
a lost event stream or an error without interrupting anything, and `automated_review` completes
the reviewer's row all the same: after an inconclusive review `FinishReviewer` may leave the
turn of the reviewer running in Codex, where it is read-only and no row knows of it any more,
so a resume does not wait for it (`ResumeOnlyWhenQuiet` is about the workers). `parse_plan` adds dependencies between
steps with conflicting paths, so `ready_batch` needs no conflict check of its own.

### Runs

| Run | Question | Instance and why it is enough |
| --- | --- | --- |
| `workflow_races` | who may act on the workflow at once, and what may be forgotten or replayed | one Codex step with a Codex reviewer, two commands, two runners, one poll, one stop, one review import, one crash, two launches: the races need two writers, and a second launch to overwrite the first |
| `workflow_chain` | what an artifact and a verdict stand for | two dependent steps on different providers, automatic rework, imported review, resume, no crash: stale inputs need a step and its ancestor, reset separately |
| `workflow_liveness` | does everything end | one step, a crash, a stop, a resume under fairness |
| `workflow_stop_erased` | `update` cannot erase a stop | **violated** |

`MaxLaunches = 2` lets one run be followed by a resume or a review import; with the
automatic rework this gives three iterations. `MaxCrashes = 1` puts a crash between any
two steps; two crashes add no new kind of state, since a crash resets everything that is
not persisted.

Fairness (`FairSpec`): tokio polls a task that can make progress (`CallerStep`,
`RunnerStep`, `JobStep`, `StopStep`), `guard_with` has a deadline of thirty minutes and a
tick of 250 ms (`DropRun`), every call to a provider is bounded by a timeout, and the UI
polls the selected workflow every 1.5 s while its status is running (`PollStep`). Users,
crashes and the ends of turns are not fair.

`InputsAreCurrent` has two parts: each patch in an artifact was made on the very patches of
its ancestors that are in it too, and the ancestors of a step that is worked on stay
completed.

### What the violation shows, and what else was seen

* `StopNotErased`: `automated_review` reads the snapshot and later replaces the whole of
  it. A stop stored in between is overwritten, so the workflow completes, or even starts
  a rework, although the stop was acknowledged. The comment on `update` says otherwise.

Two more states are reachable that the code has no comment or test about, so they have no
run. The poll decides on a status and a `LIVE` it read at different times, and its update
does not look again: a workflow that finished in between becomes `reconciliation_required`.
And a Codex child without a saved turn and without an active one makes `interrupt_child`
fail for ever, hence every resume.

### Proofs (ManifestWorkflowProofs)

For every plan (`PlanAssumption`), set of commands and runners (`ActorAssumption`) and
bound, TLAPS checks `TypeCorrect` and `RunnerUnique`. The inductive invariant is
`IInv == TypeOK /\ Ownership`. `OneRunner` alone is not inductive: a command past its
check of `LIVE` may be about to launch. `Ownership` says that such a command holds
`workflow_lock` (`LockInv`), that while it does no runner is live and a saved launch has
none yet (`LaunchInv`), that an active runner is in `LIVE` and unique (`LiveInv`), and
that a runner waiting for a Codex reviewer has an open reviewer row (`ReviewerInv`, needed
for the type of `openReviewers`). The proof has one lemma per group of actors - commands,
runner, workers, viewers, environment - and one step per action.

What the workflow is about - attempts, bases, artifacts, verdicts - is proved on top of it:
`AttemptsCorrect` (`AttemptsKept`), `InputsCorrect` (`InputsAreCurrent`), `ReviewCorrect`
(`CompletedIsReviewed`), `QuietCorrect` (`ResumeOnlyWhenQuiet`) and `NothingReplayed`
(`NoReplay`), for plans of any size and any number of reworks. The invariant is
`DataInv == SnapshotInv /\ StageInv /\ QuietInv /\ BatchInv /\ WorkInv`:

* `SnapshotInv`: a snapshot is `Sound`: its attempts are those that were sent and its next
  ones are new (`AttemptsOf`), what is completed was made on what is completed now
  (`BasesOf`), an artifact is that of the current attempts (`ArtifactOf`), an active turn is
  one a child row knows (`TurnsOf`). The stored snapshot is sound, and so is each that a
  command or a runner holds in a local variable and will write back: this is what makes the
  whole-snapshot write of `automated_review` harmless for everything but a stop;
* `StageInv` and `QuietInv`: a run completes the workflow with its verdict only, and a resume
  is saved when no turn is active;
* `BatchInv`: the workers of a batch do not build on each other. Without it a worker could
  integrate while one of its ancestors is worked on, and `BasesOf` would not be inductive;
* `WorkInv`: what a worker established about its attempt before it came to where it is.

`ancestors` and `Affected` are recursive functions, and induction over a plan is out of the
prover's reach in its usual form. The lemmas `TableExists`, `Ancestors`, `Rework` and
`Downstream` get what is needed from a least counterexample (`LeastElement`, from the
well-foundedness of the numbers): the recursion has a solution, ancestors are transitive and
earlier, and a reset reaches everything downstream. `IInv` and `DataInv` are proved one after
the other, since the steps of the second use the first at both ends of a step.

Only model-checked: liveness (`RunnerEnds`, `Settles`).

## 4. ThreadSession

A Codex thread is used by commands of the UI that run at the same time, through whatever
connection to the Codex app-server is current when they begin. The module has one thread,
several commands, several connections in sequence, and the environment.

| Variable | Code |
| --- | --- |
| `thread` | the row of `provider_threads`: exists, status, archived |
| `turns` | rows of `turns`: status, and whether `provider_turn_id` is known (`linked`) |
| `journal` | `events`: the latest `turn_started` of the thread, the `turn_completed` of each turn |
| `conn`, `server` | the `Connection` of `AppState` and the state of each app-server process |
| `wire` | notifications that the reader of a connection has not read yet |
| `remote` | what Codex knows of the thread: active turn, archived |
| `actor` | `ThreadState` and the owner of its mutex, one per connection (`Sessions::actor`) |
| `workflow` | `workflow_lock` with `running_plans`, which `manage_session` holds together |
| `pc`, `via`, `mine`, `reply` | where a command is, its `Sessions`, its intent, its last answer |
| `issued` | history: the number of intents |

An action is the code of a command between two awaits: `start` runs up to the read of the
thread or to its intent, `record_turn_intent` and `StartSend` are separate because others
reach the store in between, `StartReply` is what follows the await of `turn/start`.
`Publish` is the whole of `EventBus::publish` under the store mutex.

What is abstracted: the effect of a request is atomic with sending it, and its answer may
be lost (timeout or disconnection, `Answer`); the server handles the requests of a thread
in order. Notifications keep their order per connection; after `shutdown` the reader still
delivers what the process had written. `"failed"` is a turn that ended like `"completed"`.
Context capsules, segments, usage, messages and `codex_archive_synced` are left out, and
no legacy plan runs (`running_plans` is empty). `Connect` is atomic: the mutex of the
connection is held while a new process is started. A turn ends with its process.

### Runs

| Run | Question | Instance and why it is enough |
| --- | --- | --- |
| `session_turns` | is there ever a second turn, and do the rows tell the truth | two commands of the kinds resume, read, start, reconnect; two turns, so that the end of the first can be read after the start of the second; two connections, so that an old one delivers late |
| `session_manage` | archive, restore and delete against resume, start, steer, interrupt and a change of the binary; is a reconciled actor right | two commands, one turn, two connections: each race is between one manager and one command, and an actor is wrong about one turn |

Callers are interchangeable (`CallerSymmetry`; no liveness is checked). `SessionView`
identifies states that differ only in the connection of an idle caller and in the actor of
a connection nobody can reach any more; both are overwritten before they are read again.
There is no fairness and no liveness in this module: an answer is bounded by the timeout of
its request, but nothing makes a user ask again.

`ArchivedWhenQuiet` is about commands whose connection is still in use. TLC showed that it
cannot be stronger: a command whose connection was replaced after its last answer still
archives the row while a command of the new connection is past its own check.

### What else was seen

* `delete_thread` takes no actor, so a resume or read that is in flight saves the row again
  when it returns (`save_thread` inserts): a deleted thread comes back.
* A row of `turns` that a crash or a dead process left in `dispatching` or `inProgress` is
  closed by nothing, and blocks archive and delete. This is the hazard at
  `hub-db/src/lib.rs:1189`; no comment or test claims the contrary, so it has no run.

### Proofs (ThreadSessionProofs)

For every set of callers, offered commands and bounds TLAPS checks `TypeCorrect`,
`NoSecondTurn` (`OneActiveTurn`), `ReconciledCorrect` (`ReconciledIsTrue`), `RowsCorrect`
(`RowsFollowJournal`), `StartIsRecorded` (`DispatchIsRecorded`), `ArchivedCorrect`
(`ArchivedWhenQuiet`) and `LatestCorrect` (`LatestTurnDecides`). The inductive
invariant `IInv` has four parts, each preserved by a chain of lemmas:

* types (`TypeOK`); an intent must have a number, hence `IntentsUnique` is needed already
  here;
* ownership: at most the latest connection is up and later ones have fresh actors
  (`LatestIsUp`), a command inside an actor owns its mutex (`ActorLocked`);
* knowledge: a reconciled actor of the live connection that knows of no turn is right
  (`Informed`), and while a turn is active nobody on the live connection is about to start
  one or to learn that there is none (`InFlight`). `OneActiveTurn` is not inductive without
  it: the danger is a command that has already checked;
* rows: intents are unique, the row of a start under way is `dispatching` and not linked
  (`IntentPending`; it is what keeps `delete_thread` away), and only linked rows say that
  a turn ended.

The lemma `InsideStep` reduces the twenty-one steps of a command inside the actor to
"keeps the mutex at a point" and "drops it", so that ownership and knowledge are proved for
these two shapes once. TLC checked `IInv` on the instances of both passing runs.

`ArchivedWhenQuiet` follows from knowledge: a command of the live connection at
`archiveWait` relies on there being no active turn (`InFlight`). `LatestTurnDecides` needs
an invariant of its own, `OrderInv`, which is about the notifications that are still on the
wire. A late completion must not end the row of a newer turn, so: the start of a turn is read
before anything else about it, on whichever connection (`StartsComeFirst`), nobody has heard
of a turn before its `turn/start` (`UnsentIsUnheard`), what an old connection has still to
deliver is not about the active turn (`ActiveIsLatest`), and a deleted row is idle
(`DeletedIsIdle`), because `save_thread` inserts it again.

## 5. ApiSession

An API session has no server that remembers its turns: a turn is a tokio task that asks the
provider and then stores the result itself. `start`, `finish` and `interrupt` meet in the
map `running` (an async mutex) and in the store (a mutex of its own, released between the
blocks of one command). The module has one session, several commands, the tasks of its
turns, deletion and restarts.

| Variable | Code |
| --- | --- |
| `thread`, `turns`, `outcome` | rows of `provider_threads`, `turns`, `provider_turn_outcomes` |
| `active` | the setting `api_active_turn:{id}` |
| `messages` | rows of `provider_messages`: turn and role |
| `journal` | `events`: the latest `turn_started`, the `turn_completed` of each turn |
| `running`, `owner` | the entry of the session in `ApiSessions::running`, and who holds its mutex |
| `task`, `aborted` | how far the task of a turn is, and whether its handle was aborted |
| `result`, `history` | what `run_with_history` returned, and how long a transcript it was given |
| `pc`, `mine` | where a command is, and the turn it starts |
| `issued`, `crashes` | history and bounds |

An action is the code between two acquisitions of the store mutex, or between two awaits.
`start` holds the mutex of `running` throughout (`owner`), the others take it for one look
or one removal. An abort takes effect at an await only (`Aborted`): a task that has its
answer goes through `FinishSave`, `FinishPublish` and, if the mutex is free,
`FinishRemove`, in one poll, whatever was aborted meanwhile - but other tasks run between
these on other threads.

A result is `completed`, `refused`, `failed` or `unrecorded`: the last is a failure whose detail
the store refuses (`record_provider_turn_outcome` takes 4000 bytes, of which two thousand
characters may be more), and `finish` ignores that error. Of a turn that failed the transcript
of its earlier rounds may be stored (`Transcripts`). `OutcomeAgrees` therefore excepts one case:
an interrupt has recorded its outcome, and then the task that it came too late for fails with a
detail that is refused; the row says `failed` and the outcome `interrupted`.

What is abstracted: the rounds of tools inside a turn are one answer; usage, segments and targets of turns are left out, except that
a message needs its segment, which goes with the row of its turn; operations of the store
do not fail; the transcript is read in the same step that records the intent, which
commutes with everything others can do in between; the events of a turn other than its
start and its end are left out. `read_task` is a resume, and the end of a resume (`read`)
changes nothing. An awaiting approval does not occur: these turns run without commands. The
rounds and the tools inside a turn are those of ApiAgent (section 9).

### Runs

| Run | Question | Instance and why it is enough |
| --- | --- | --- |
| `api_session` | do the records of a turn agree, what does an uninterrupted session guarantee | two commands, two turns, one restart: an interrupt or a late `finish` can meet the next turn, and a resume can meet both |

Callers are interchangeable (`CallerSymmetry`); `ApiView` leaves out `result` and `history`
of tasks that are over. There is
no fairness: a provider that never answers is a task that stays in `agent`, and nothing but
a user ends it.

Several properties are stated for sessions whose turns were never interrupted
(`Uninterrupted`). That is not for convenience: TLC violates each of them without it, since
an aborted task may still store its result. Deletion, resume, restarts and a second
command remain.

### What else was seen

`finish` removes the session from `running`, whichever turn is there. The task of an
interrupted turn that had its answer already unregisters the next one, which can then
neither be interrupted nor does it keep a third from being started. This is the hazard at
`api_sessions.rs:686`: it needs three turns, and the properties are stated for sessions
without an interrupt.

### Proofs (ApiSessionProofs)

For every set of callers, every number of turns and of restarts TLAPS checks `TypeCorrect`,
`TrackedCorrect` (`TrackedIsLive`), `OutcomesCorrect` (`OutcomeAgrees`), `OneTurnCorrect`
(`OneTurnUninterrupted`), `DeleteCorrect` (`DeleteWaits`), `AnswersCorrect` (`AnswersKept`)
and `ClosedCorrect` (`ClosedStaysClosed`): all that `api_session` checks, and two facts that
it does not, for they say little more than the code at one place. The inductive
invariant `IInv` adds to these properties

* `StartsAlone`: a start holds the mutex and finds no turn in `running` until it ends;
* `RowsHaveThread` and `FreshTurns`: turns have no trace before they are started, and no
  row without the row of the thread;
* `FinishOrder`: setting, outcome and completion are written in this order, so whoever
  closes a turn that the setting names does so before its completion is in the journal.
  `OutcomeAgrees` rests on it: `resolve_turn_intent` prefers what the journal says;
* `InterruptedOnly`: a turn whose outcome was not taken has none, or that of an interrupt;
* `UndisturbedTurns`: without an interrupt the row of a turn stays `inProgress` and the
  transcript keeps its length until the task stores its answer. The row is what keeps
  `delete_thread` away, since the status of the thread may be overwritten by a resume.

Each part is preserved by one lemma with a step per action. TLC checked `IInv` on the
instance of `api_session`.

## 6. RemoteOperation

A model outside asks for a mutating operation (`file_create`, `file_edit`, `command_run`).
The gateway's Owner object stores a receipt and sends the request over the WebSocket of the
owner's agent; the agent stores it, puts it to the owner, performs it and sends updates.

| Variable | Code |
| --- | --- |
| `gwOpen`, `agOpen`, `down`, `up` (RelayLink) | `readyState` at each end, and the frames on their way |
| `job`, `waits`, `revoked` (OwnerGateway) | storage `job:{id}`, the promises of callers of `/invoke`, `device.revoked` |
| `gwNow`, `gwOld` | the deadlines that the gateway's clock has passed, and passed by `JOB_TTL` |
| `store`, `saved` (ApprovalAgent) | `approvals.json`, `scope.json` |
| `phase`, `scope`, `exec` | the run of `startAgent`, its targets, the execution of an approved request |
| `agNow`, `behind` | the agent's own clock, which may be behind the gateway's |
| `late`, `orphan` | requests in the input of the agent's Rust server that the agent has given up (`McpClient`), and those that the server of an agent that died still has, each with its configuration |
| `acceptedIn`, `effects`, `issued`, `drops`, `stops` | history and bounds |

A request that was written to the Rust server outlives whoever waits for it. After a timeout the
cancellation comes behind it in the same input, and the server of an agent that died reads its
input to the end; so either may still perform it (`PerformLate`), after the agent stored
`failed` or `indeterminate` and even while the next agent runs with another configuration. An
agent that closes in order waits for its server or kills it (`Unlock`).

Handlers of a durable object are not interleaved while they await storage, and the agent's
gate reads and replaces its file under a lock, so each handler is one action; `/invoke`,
which awaits the agent, and the execution of a request, which is outside the lock, are
several. A dispatch is identified by its deadline: a request that is dispatched again has
another one, and its digest differs. A frame to an end that is closed is lost, and so is
what was in flight.

`remote_operation` has one operation that may be dispatched twice (the second after the
gateway forgot the first), one broken connection, two stops of the agent, two
configurations, of which only one grants the tool. One operation is enough: operations share
only the limits `MAX_JOBS`, which both ends check on their own stores. `KeepsPromise` is a
refinement: `ApprovedOperation` states what the tools promise (decided once, performed at
most once and after an approval, a receipt that follows the decision), and the gateway and
the agent implement it through `Stage` and `ReceiptOf`. An operation that the agent calls
failed or indeterminate is `uncertain` in the promise: it was performed, or not, or will be.

Fairness: the agent reconnects for as long as it runs (`Attach`), frames on an open socket
are read (`Receive`), and each end notices that the other has closed. Nothing is assumed of
the owner, of the execution, of clocks, or of requests. `ReceiptArrives` needs no more: it
names the ways out that the code leaves open (expiry, a forgotten receipt, revocation, an
agent that stops). `ScopeBound` and `ReceiptOfThisRequest` hold of every step: what is
performed is performed by a server of the configuration it was put to (`ServerScope`; with the
configuration of the agent that runs instead, TLC finds the server of one that died), and a receipt is about its own
dispatch even when the gateway forgot an earlier one of the same id.

Seen on the way: `operation_get` may call a receipt expired although the agent has executed
the operation, because expiry at the gateway looks at its own clock only. The receipt stays
"open" for the promise, since it claims neither a completion nor a refusal.

### Proofs (RemoteOperationProofs)

For all operations, configurations and bounds: `RemoteTypes`, `RemoteReceipts`,
`RemoteNoLatePerformance` (not run: its counterexamples are those of `KeepsPromise`),
`RemoteScopeBound`, and `RemoteKeepsPromise`, the refinement. `IInv` adds to the types

* `ExecInv`: an execution belongs to a running operation, not performed yet, of the
  configuration that runs, and what was performed is never pending or refused;
* `LateInv`: what a server still has although nobody waits for it was not performed yet, is
  running, failed or indeterminate in the store, never executed again by an agent, and of that
  server's configuration. `ExecInv` alone is not enough for "at most once": the effect may come
  when no execution is left;
* `ScopeInv`: what is pending was put to the configuration that runs or, while none runs, to
  the one on disk - this is what `runtime.mjs` establishes before it serves;
* `FramesTrue` and `ReceiptsTrue`: a frame and a receipt claim what the store says. Frames
  are older than the store, so this rests on `StoreGrows`: a decision is final and an id
  keeps its deadline.

`AgentDecides` and `ReceiptFollows` map each step to a step of `ApprovedOperation` or a
stutter. Only
model-checked: `ReceiptArrives`.

## 7. DesktopMcp

| Variable | Code |
| --- | --- |
| `config`, `endpoint`, `server` | setting `read_mcp_settings`, `ReadMcp.status`, the mutex of the server |
| `setter` | where each `set_mcp_settings` (and the start of the application) is |
| `writeLock`, `call`, `disk` | `ReadMcp.write_lock`, the call of each client, its temporary file |
| `file` | text and number of hard links of the file |
| `commits`, `outside`, `changes`, `begun`, `crashes` | history and bounds |

A mutation takes the write lock in a blocking thread, looks at the permission and the hash
again, writes a temporary file, looks at the hash once more and publishes it by a link or a
rename; its timeout and its client can be gone long before. Other programs write the file at
any time, but in the window between the last look and the rename they are outside of what
the code can promise, and the properties do not speak of them. `desktop_mcp` has two
clients, two contents, two changes of the settings beside the start of the application, one
outside write and one crash: a race needs two mutations, or a mutation and a setter.
Clients, setters and contents are interchangeable. Besides `DesktopType` it checks
`CommitsAreExact` (a mutation is committed under a permission that stands then, and has seen
every earlier one), `ErrorIsFinal` (a mutation answered with an error is not committed
afterwards) and `EndpointFollowsConfig` (once no change is under way, the endpoint runs only
if the stored configuration says so).

Seen on the way: `file_create` publishes by a hard link and removes the temporary name
afterwards; a crash or a failure between the two leaves two links, and `file_edit` refuses
such a file for ever.

Proved (DesktopMcpProofs), for any clients, setters, contents and bounds: all four
properties of the run (`DesktopTypes`, `DesktopCommits`, `DesktopErrors`, `DesktopEndpoint`). `MutationsInv` says what a mutation has established at each point
(who holds the lock is at a locked point, with the permission and the number of commits that
it saw); `RestartsInv` says that one restart is under way at most, that it stopped the
endpoint before it reads the configuration, and that a change that switches the endpoint off
is still to be applied while anything of the endpoint is there.

## 8. CommandServer and CodexRpc (MCTables)

Two tables of requests whose other end is a process: the ids, slots and process groups of
host commands in the repository's MCP server, and the pending requests, the input mutex,
the questions, the tool calls and the planning turn over the Codex connection. Variables
have the names of the fields (`pendingIds`, `slots`, `group`; `pending`, `alive`, `stdin`,
`question`, `events`), and `request`, `call`, `answer`, `toolCall`, `planner` say where each
future or task is.

`request_tables`: two command requests over two ids with one slot, three receptions so that
an id is used again; and a connection with one planning turn, a question, a tool call, an
approval, two answers, one unread line and a broadcast channel of one event, so that the
planner is overrun. The process may die, and the hub may shut it down, at any point.
`CommandBooks` says that the ids, the slots and the process groups agree with the commands
that are alive, `AnsweredOnce` that a question gets one answer, while its turn waits, and
`PlanIsComplete` that a planning turn returns its whole answer or an error.

Fairness: tokio polls futures that can go on, timers fire, and tokio's mutexes are fair
(`SF` on taking the input mutex). The server owes nothing: it may never reply, it may read
its input no more (`ServerStalls`), and the user may never answer. The number of requests is
bounded here, so "every request ends" is that in the end none waits. `EveryRequestEnds` says
this in three parts, for the code bounds them differently:

* a command ends, whatever its processes and its client do: it has a timeout
  (`CommandsQuiet`);
* a request that was written to Codex ends, answered or not: its thirty seconds run from
  then on (`RepliesQuiet`);
* a request that is still to be written, and a tool call whose result is, end **provided that
  Codex goes on reading its input, or dies or is shut down** (`[]<>Flows => <>[]CallsQuiet`).
  A write has no timeout and holds the input mutex, in `request`, `answer_question`, the task
  of a tool call and the reader itself, which writes its rejections. What is left to show is
  that these do not wait for each other: no task holds the input mutex while it waits for what
  only the reader can deliver.

Fairness of the writes (`Written`, `AnswerWritten`, `ToolWrites`, `Reject`) is that of a tokio
task whose pipe can take the line: each is enabled only while `Flows` holds. A server that
reads after a while is a write that takes longer; one that never reads again is `stalled`
until its process ends.

A planning turn that ends otherwise than `completed`, or whose output is no JSON, is an error:
`PlannerReceives` may fail on any end.

Seen on the way: an app-server that lives and reads its input no more makes every later
request of the hub wait for ever once the pipe is full, and with it the reader as soon as it
has to reject an approval, so that notifications are no longer heard either; only a shutdown or
the end of the process lets them go. No comment or test says otherwise (the message of a
timeout, "reconcile before retrying", is about replies), so there is no run for it; it is the
hazard at `provider-codex/src/lib.rs:384`.

### Proofs (TablesProofs)

For any numbers of requests, ids, slots, calls, questions and answers and any length of the
broadcast channel: `TablesTyped` (`TypeOK`), `BooksCorrect` (`CommandBooks`), `PlanCorrect`
(`PlanIsComplete`) and `AnswerCorrect` (`AnsweredOnce`), under `CommandAssumption` and
`CodexAssumption`.

* `CommandInv`: an id is occupied exactly while the one future with it lives
  (`IdsOfFutures`); free slots and futures that hold a permit add up to all slots, which also
  bounds them for the types; nothing of a process group is alive that no future watches.
* `PlanInv`: `PlanIsComplete` is about the last step of a message that goes from the server
  through the lines of the process and the broadcast channel to the planner. It is inductive
  once it says, at each of these places, that the message runs ahead of the end of its turn,
  for as long as the planner follows and has not been overrun; and that no turn is there
  before the planner listens.
* `AnswerInv`: the one question of a turn is on its way, or is asked, or is over; an answer
  that has taken the question out of the table is the only one, since it keeps the mutex of
  the table until it is written.

Only model-checked: `EveryRequestEnds`.

## 9. Models

| Part | Variables and code | Instance in `models` |
| --- | --- | --- |
| ProviderProfiles | `saved` (rows with all their revisions), `registry` and `link` (`ProviderRegistry`), `editor`, `probe`, `worker` (commands), `passes` (canary settings) | two edits, a probe, a worker, two profiles with two revisions, a restart |
| AutoRouting | `settings`, `pending` (`auto_routes`), `command`, `late` (ten minutes), `shown`, `ran` | two commands, two routes, two projects, one target, one override, one change of the settings |
| ApiAgent | `row`, `kept` (`provider_messages`), `talk`, `agent`, `approval`, `waiters`, `channel`, `user` | one session or one worker, two turns of two rounds, four replies, two approvals, two decisions, a stop |
| ProviderStreams | `request`, `sent`, `events`, `connection`, `inferred`, `resent` | three protocols with three answers whose blocks alternate, cut anywhere |
| PlanWorkers | `deps`, `dag`, `stored`, `job`, `tree`, `holds`, `applied`, `made`, `bound`, `turn`, `outcome` | a join, a chain and an overlap of three tasks, two at a time, three executions |
| ContextBroker | `capsule`, `lookup`, `spent` | a budget of four, two retrievals at a time, four in all |
| LocalEdits | `file`, `foreign`, `point`, `edits`, `checked`, `now`, `written`, `unread`, `rollbackFailed` | two files, two writes of other programs |
| AgentApp | `projects`, `savedProjects`, `projectsFile`, `available`, `tail`, `asker`; `appAgent`, `serving`, `scope`, `locked`; `generation`, `window`, `opening`, `owner`, `wins` | one folder, two commands at a time and three in all, two windows, a folder that moves, an end of the application |

Only ProviderProfiles, ApiAgent, PlanWorkers and AgentApp have stops: pending routes and
streams are in memory, and the budget is committed in one transaction. A stop in the middle of a
local edit leaves what was written, for which the code keeps no journal; it is not modelled.
The invariants of `Models` say for each part what has to hold: `ChoicesAreExact` (profiles, routes, the agent application),
`AgentsAreExact` (the agent loop), `AnswersAreExact` (the streams),
`WorkersAreExact` (plans, budgets, edits). Ids of the same role are interchangeable; no
liveness is checked here, since a provider and a user owe no answer and `authorize` waits
without a timeout.

Abstractions: an answer is a sequence of blocks with their fragments numbered; a target that
an assignment gives is left open; a task's work is its name, so a worktree is the set of
tasks whose diffs it holds; contents of edited files are "as shown", "as edited" and
"something else"; what an agent may do in a folder is "read" or "write". `MaxPending = 2`
stands for 32 routes, `MaxRounds = 2` for 32 rounds. With one target an override changes only
the revision of a route: what the properties compare is the whole record.

### What the violation shows

`RunsWithProbed` (`worker_unprobed`): the tool canary of a profile revision is compared when
the run of a manifest begins; the step takes the profile and the connection that the registry
has when it runs, and does not look again. `docs/API_PROVIDERS.md` promises it for "that
exact profile revision and model".

### What else was seen

These are behaviours of the code that the models have and that no property forbids:

* ProviderProfiles: two edits may enter the registry in the other order and leave the older
  revision there until the next edit or start; `set_local_model_settings` keeps the old
  connection until a restart.
* AutoRouting: the first preview after a migration of the settings is always refused, because
  the text changed under it; settings that change and change back during a preview can give a
  route of the settings in between.
* ApiAgent: a denied approval leaves the row `awaiting_approval`; unanswered calls of a
  refused response, and of messages that a stop cut, are stored and replayed
  (`CallsAreAnswered` excepts both).
* ProviderStreams: `parse_openai_response` drops the reasoning items of the responses protocol
  (`Dropped`), so they are neither whole nor sent back; a stream that is cut in the middle of an
  event is recorded as `invalid_response` and not `stream_interrupted`; a call that the provider's limit cut before
  its first fragment is executed with `{}`.
* PlanWorkers: a task whose dependencies contain each other's work fails with a conflict; a
  failed task stays failed; a worktree that a stop left without a thread is left to the user;
  a turn that completed while the hub was down is run again; the end of an execution stores the
  statuses one after the other, so a stop leaves some tasks `pending` that are blocked
  (`EndsPlan` stores any part of them).
* LocalEdits: a file whose verification and second read both fail keeps the edit although
  `rollback_failed` is false (`EditsAreWhole` excepts it); a write of another program between
  the check and the rename is lost.
* AgentApp: `closeApprovals` is called when a command is invoked and not when its queued stop
  happens, so a window that is opened while the stop waits stays; if closing the agent
  throws, or the clean-up of a start that failed, its lock is not released and each later start
  fails until the application starts again.

### Proofs (ModelsProofs, ProviderStreamsProofs)

`WorkersCorrect` (`WorkersAreExact`), `ChoicesCorrect` (`ChoicesAreExact`),
`AgentsCorrect` (`AgentsAreExact`), `AnswersCorrect` (`AnswersAreExact`) and `ModelsTyped`
(`TypeOK`) hold for every set of profiles,
models, routes, projects, threads, users, replies, answers, plans, tasks, files and folders,
and every bound. The argument of `ModelsProofs` is that a part that does not run stutters, so
the conjunction of the invariants of the parts is inductive. They are

* `PlanInv`: for each task, `WorkerOf` (a worker is one of a running task, makes its thread
  in a kept worktree, and only before it has one), `OverOf` (a task with its outcome is over
  for the scheduler, the rows and the worker) and `BaseOf` (from its thread on, its worktree
  holds what it depends on). `DependenciesComeFirst` is not inductive without the diffs that
  are applied and not yet used. That plans have no cycles is not needed;
* `BrokerInv`: the sum of capsule and committed retrievals is in the budget, and nothing is
  looked up before there is a capsule;
* `EditInv`: at each point, which files may hold the edit: those written, the one at work, and
  those that could not be read;
* `ProfilesInv`: what the registry, a running worker and an edit between the store and the
  registry hold was saved with that content; rows only grow;
* `RoutesInv`: the previews of one id are of one project, their revisions follow each other,
  the pending route is the last of them, a route that is being made has an id of its own
  (`OwnIds`), and a command holds what it established of its clone (`Holds`). Uniqueness of a
  preview by id and revision, which `RunsWhatWasShown` is about, follows from the order;
* `ControlInv`: a command that has begun is at the head of the queue (`InTurn`), with what it
  has established (`Reached`); `ServesWhatIsShown` is preserved because whoever changes the
  draft stopped the agent in the same turn;
* `WindowsInv`: an opening that is still of the current generation is the one the windows
  know, so at most one can come to show a window;
* `ApprovalInv`: a thread that asks has, at each point between the row of its approval and the
  run of its command, an approval of its own thread, turn and command (`AsksOf`); it is shown
  before anyone decides (`ShownAreAsked`) and spent before anything runs with it
  (`SpentOnce`). `ChangesAreAllowed` alone is not inductive, since the command runs after the
  approval was consumed in another step; `WaitersAreHeard` rests on the registration of the
  waiter coming before the publication;
* `TalkInv`: the transcript goes on from the stored messages with those of the turn
  (`TalkOf`), and every call is settled except those of the round that runs and, while the
  messages of a turn that ended are being stored, the last stored one. The second exception
  is what a stop at that moment turns into a `cut` turn;
* `TypeInv`: the types that the invariants above do not give. A plan has at most
  `Concurrency` workers; an event names a block of the answer, for nothing is sent before the
  request (`StreamsTypes`); each command of the application that has not ended stands in the
  chain once, and agents and waiting commands together are no more than the commands called
  (`TurnTypes`).

The answers of the providers have a module of their own, ProviderStreamsProofs. The
invariant is `StreamInv == StreamsTypes /\ Fragments /\ EventOrder /\ AnswerRead`:

* `Fragments`: of each block, the connection carried the fragments 1 to `PartsSent`, each
  once and in their order, whatever came between them. It is why `PartsWhole` holds: what a
  builder selects by the index of a block is what was sent of it;
* `EventOrder`: nothing of a block is cut once the responses protocol has finished, an answer
  ends after it finished, an event that was cut is the last, and the answer is one that its
  protocol can express (`Spoken`, from `Speaks`): the one text and the one refusal of the chat
  protocol;
* `AnswerRead`: an answer is read from a closed connection that carried its end and no error
  (`Delivered`), an answer that ended is refused for a call that was cut only (`CutCall`), and
  what went back is `Whole` and leaves out refusals and what a parser dropped (`SentBack`). `ResponsesAreWhole` and
  `AnswersAreResent` say nothing while nothing was read: what makes the step of `Reads` go
  through is the other two parts.

The parsers are functions of the events, not steps, so most of the proof is about them.
`Taken` selects from a sequence by places, as a recursive function: `TakenTable` shows that the
recursion has a solution and `TakenPlaces` that the selection stands in its order at exactly
those places, both from a least counterexample (`LeastNumber`). Numbers that grow and reach
every one up to a bound are these numbers (`OrderedIsIdentity`), hence a block has all its
fragments at their places. `TakenWhole` and `JoinedWhole` say what selection and `\o` do to
whole entries. Each parser is then a `Parser` of its kinds of blocks (`ChatParser`,
`ResponsesParser`, `MessagesParser`, `ThinkingParser`): entries of those kinds, whole, the calls
in order, and none missing that a fragment was sent of.

## 10. What the prover does not reach

Every invariant and action property that a passing run checks is a theorem. Liveness under
fairness (`RunnerEnds`, `Settles`, `ReceiptArrives`, `EveryRequestEnds`) is only
model-checked, on the instances above. What the recursive functions of a plan and of the
parsers compute is proved where it is needed, by a least counterexample (sections 3 and 9).

The assumptions of the theorems are the named `ASSUME`s of the modules, and TLC evaluates
each of them in a run. They say that bounds are numbers (`LookupAssumption`,
`RevisionAssumption`, `ShownAssumption`, `AppBoundsAssumption`, `TurnAssumption`), that names
for "none" are none of the things they stand beside (`TargetAssumption`, `ActorAssumption`),
that replies and answers are sequences of the kinds of blocks there are (`ReplyAssumption`,
`AnswerAssumption`), that a provider speaks one of the three protocols that `provider-api`
parses (`ProtocolAssumption`) and that the dependencies of a plan lead to earlier steps
(`PlanAssumption`).

## 11. Not modelled, and why

Each component of PROJECT.json names the operations that its module leaves out. Parts that
only convert data (wire formats of providers, redaction, prompts, routing tables, rendering)
keep no state that two actors share. Git, the operating system, Codex, the providers and the
platform of the gateway are modelled as the code uses them and marked external in the map.
The stores' schema migrations, memory candidates and usage accounting change rows that no
modelled decision reads. Archive and delete of a whole tree of sessions
(`workspace_ui.rs:133`) would compose a workflow with the threads of its children; the
modules have the two sides, not their product.
