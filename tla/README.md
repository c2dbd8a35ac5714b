# Prometh: TLA+ models, checks and proofs

Prometh is a terminal agent: a model is asked for a response, its tool calls are
executed, and the results go back to the model until it stops. Around that loop
the repository keeps sessions, a daemon, a Python kernel, a compute subsystem and
a discovery engine. This directory holds TLA+ models of its core, the TLC
configurations that check them on small instances and TLAPS proofs of the results
that hold for every instance. Paths below are relative to the repository root.

## Inventory

| Component | Source | State | Operations |
|---|---|---|---|
| Agent | `packages/agent/src/agent.ts` | transcript, streaming message, pending tool calls, error; steering and follow-up queues with a drain mode each; active run with its abort signal | prompt, continue, steer, followUp, clear*, removeQueuedMessages, abort, reset, mode setters, event reducer and listeners, failure path |
| Agent loop | `packages/agent/src/agent-loop.ts` | context of the request, new messages, pending messages, tool batch | poll, inject, stream a response, prepare, execute and answer tool calls, hooks after a turn |
| Compute runtime | `packages/coding-agent/src/core/compute/runtime.ts` | job records, counters, limits, state file | submit, result, poll, cancel, dispose, tracking, save, restore |
| Compute backends | `core/compute/backends/local.ts`, `kaggle.ts` | jobs and their processes or kernels | submit, status, result, cancel, dispose |
| Discovery engine | `core/discovery/engine.ts` | campaigns, experiences, usage, budgets, files | create, propose, execute, attach, replicate, restore |
| Session lease | `core/session-lease.ts` | lease directory with an owner | acquire, release, reclaim a stale lease |
| Session runtime | `core/agent-session-runtime.ts` | present session and its lease | replace the session, dispose |
| Client requests and recovery journals | `modes/daemon/daemon-client.ts`, `command-recovery-journal.ts`, `worker-recovery-journal.ts`, `core/orphan-process-journal.ts` | pending requests, append-only files and what they index | request, resend, time out, begin, recordResult, acknowledge, load, compact |
| Daemon ownership | `modes/daemon/daemon-supervisor-ownership.ts`, `daemon-socket.ts`, `package-manager-cli.ts` | socket lease, registry of owners, startup fence, shutdown admission | take over, serve, release, admit a shutdown, start a successor |
| Update restart | `modes/daemon/daemon-supervisor.ts`, `daemon-mode.ts` | restart phase, drain latches, eviction fence, a transaction in each worker, manifest | prepare, cancel, commit, evict idle workers |
| Daemon, supervisor | `modes/daemon/*` | sessions, clients, workers | routing, worker launch and recovery |
| Synchronisation helpers | `utils/semaphore.ts`, `core/kernel/boot-gate.ts`, `core/tools/file-mutation-queue.ts`, `modes/daemon/mutation-drain-latch.ts` | permits, chains of promises, counters | acquire and release, run in order, close and drain |
| Session store | `core/session-manager.ts`, `session-action-store.ts` | session tree and file, actions | append, branch, claim, settle |
| Chrome bridge | `core/chrome-bridge/chrome-bridge-client.ts` | socket, pending requests, write queue | connect, request, time out, reconnect |
| Goals, autonomous mode, cron | `core/goals.ts`, `autonomous.ts`, `cron-jobs.ts` | goal state, budgets, schedules | small state machines driven by events and timers |
| Kernel, providers, UI, packaging | `core/kernel/*`, `packages/ai`, `packages/tui`, ... | processes, HTTP, the screen | outside the models |

How they interact. A host (interactive mode, the daemon, a subagent) owns an
`Agent` and calls it at any time; the loop awaits the agent's listeners for every
event it emits and races every other wait with the run's abort signal. Tools and
the Python kernel call back into the host: `startHostRequestFromComm`
(`core/kernel/index.ts:1297`) starts one task for each request, so requests to the
compute runtime and the discovery engine overlap. The session aborts a signal and
disposes the runtime when it ends (`agent-session.ts:1467`), and builds a new
runtime over the same state file when it continues. The discovery engine submits
its experiments to the compute runtime. With a daemon, clients talk to a supervisor,
which journals mutating commands and forwards them to one worker process per
session; a worker holds the lease of the session file it writes. An update replaces
the supervisor and its workers while clients wait.

What is hard. Everything runs on one JavaScript thread, but every `await` is a
point where other calls run: a value that was checked before it may be stale
after it. Runs end in five ways (normal end, error response, abort at any wait, a
listener or callback that throws, failure while failing). Tool tasks outlive the
run that started them. Processes outlive requests. The host can stop between any
two writes, and be killed between any two system calls while other processes take
over what it left. `PROJECT.json` lists these hazards at their lines, with the properties
that would catch them.

What makes each component correct. Agent: the model sees the transcript; every
call is answered, in order; every run ends once, and the agent becomes idle only
then; queued messages enter the transcript once, whole and in order; abort always
settles. Compute runtime: budgets bound what is started; statuses and counters are
truthful; every job settles; shutdown leaves no process. Discovery: every job is
counted once and what runs is awaited, though calls overlap. Daemon: a command runs
at most once and its client learns the truth; one owner at a time; a worker that closes
its sessions for a restart has every input it admitted in the manifest, and the
preparation ends. Session lease: one writer for each session file.

## Plan

Done: `Agent`, `ComputeRuntime`, `DiscoveryEngine` (over the interface of the compute
runtime), `CommandRecovery` (client, supervisor, journal and worker composed, with
`CommandService` as its abstract specification), `SessionLease`, `DaemonHandover`,
`UpdateRestart` (supervisor and workers composed). Next, in this order:

1. the action store behind the input checkpoint (`session-action-store.ts`) and its
   composition with `UpdateRestart`;
2. worker launch and recovery with the worker journal;
3. `ChromeBridgeClient`: requests that time out before the handshake;
4. semaphore, boot gate and file mutation queue against one abstract queue;
5. credentials, goals, autonomous mode, cron.

Every invariant a run checks is proved by now. Theorems next: `EndsAreTrue` and
`SlotsAreTracked` with Kaggle in the form that holds there, `FileIsCurrent` when writes may
fail, and an abstract queue that the agent's two queues implement.

## Agent

`Agent.tla` models the `Agent` class and its loop together: the loop's context and
the agent's transcript are separate copies of the same conversation, and most of
what can go wrong is between them.

*Granularity.* An action is the code from one `await` to the next. `pc` names the
segment that runs next, `wait` what it is suspended on: an event whose listeners
are running (an event name), or an operation raced with the abort signal
(`"provider"`, `"tools"`, `"poll"`, `"beforeToolCall"`, `"shouldStopAfterTurn"`,
`"getContinuationMessages"`). Host calls and the tasks of a parallel batch
interleave at every wait. Consecutive waits on the provider side of a request
(transformContext, convertToLlm, API key, the stream call, each stream event) are
the one wait `"provider"`, since each is raced with the signal and touches no state
of the agent.

*State.* The first group of variables is `AgentState`, the second the two
`PendingMessageQueue`s, the third the `ActiveRun`, then the locals of `runLoop`,
`streamAssistantResponse` and `executeToolCalls`. `tools` has one task per call
(`announced`, `prepared`, `executing`, `refused`, `ending`, `done`, `broken`) and the
run it belongs to. History variables record what the host did (`sent`, `gone`), which
runs ended, failed or emitted after their end, and whether `reset()` was called
during the run (`disturbed`).

*Data.* A message is its role and an identity; a response also has a number of calls
and a stop reason. Content, usage and arguments are left out. An aborted response
keeps no calls: its stop reason ends the run before they are looked at.
`tool_execution_update` events are left out: they change no state of the agent, and
a listener that throws on one turns into an error result, which `ToolEnds` covers.

*Faults.* `ThrowOn` says which listeners may throw and whether the provider and the
host callbacks may reject. `Abort` may come at any time during a run. A listener's
rejection fails the run (`ListenersThrow`), but for an `AbortError` in an aborted run at
an event of the response itself: the `catch` of `streamAssistantResponse` is around
those emits, too, and goes on with an aborted message (`ListenersAbort`). If the
response was complete by then, both are in the transcript and only the second is in
`newMessages`; the history variable `superseded` records it, and whether the
`message_end` of the first had been emitted. `AgentEndReportsRun` makes this its one
exception, and says which message is missing.

### Runs

| Run | Instance | Shows |
|---|---|---|
| `agent_tools` | 2 runs, 2 responses, 2 calls each, both batch modes, steering, faults of everything but listeners of `agent_end` and `tool_execution_end` | `RequestSeesTranscript`, `CallsAnswered`, `AgentEndReportsRun`, `AgentEndIsFinal`, `ToolStartIsJustified`, `TypeOK` |
| `agent_queues` | three batches, one of them a pair, both queues, continue, removal, both drain modes | `BatchesStayTogether`, `QueuesAreFIFO`, `NothingLostWithoutFailure` |
| `agent_faults` | 2 runs, 1 response, 2 calls, both batch modes; listeners of `message_end`, `agent_end` and both tool events may throw; abort, reset, clear | `PendingMatchesTasks`, `IdleMeansEnded`, `AbortSettles` |

With the faults that `agent_tools` leaves out, `AgentEndIsFinal` fails: a listener of
`agent_end` that throws makes the run emit a second `agent_end`, and one of
`tool_execution_end` that throws lets a tool of the failed run report later. An abort
loses a steering message that was drained and not yet injected, which is why
`NothingLostWithoutFailure` excludes aborted runs. `PROJECT.json` has these among the
hazards.

*Bounds.* Two runs are needed for a task of one run to meet the next; two responses
for results to reach a request; two calls for order and for siblings; three batches,
one of two messages, for a batch to be overtaken or split. Each bound is a constant
in a guard (`MaxRuns`, `MaxTurns`, `MaxCalls`, `MaxResets`). Deadlock checking is off
where an instance runs out of runs or responses by its bounds: the model then waits
for a provider that has no answer left.

*Fairness.* Segments run and the promises they await resolve (`LoopStep`,
`TaskStep`): JavaScript's job queue guarantees the first; the second assumes that
listeners return. Nothing is assumed of the model, of tools, of hooks or of the
host: `AbortSettles` holds although they may never answer, because each wait for
them is raced with the signal.

## Compute runtime

`ComputeRuntime.tla` models the runtime with both backends. A host request is a
chain of segments run by a caller (`caller[c].step`); `Submit`, `BackendSubmit`,
`RecordJob` are the three segments of `submit`, `Poll`, `PollSnapshot`, `Apply` those
of `poll`, and so on. All awaits of these chains resume in microtasks, except the
25 ms timer loop of the local backend's `result`. Timers and exits of processes are
therefore possible only when no chain is under way (`Quiet`); this is what makes
`poll` safe against a job that ends between its two awaits. New requests may arrive
at any await: several messages of the kernel can be handled in one tick.

`job` is the backend's side: the status, whether the process or push loop lives,
whether it was killed. `record`, `jobs` and the counters are the runtime's side,
`disk` the state file, `tracker` the detached `_trackCompletion` of each job.
`Persist` is part of every step that calls `_persist`, as a write that replaces the
file or, with `WritesFail`, leaves the old one. `Crash` may come at any point;
`Restart` constructs a new runtime and runs `_restore` as a whole, including what its
`_applyResult` writes to the file on the way (`Restore`). `pending` and `running` are one status:
`_start` and `_push` leave `pending` before `submit` returns. A local job lasts one unit
of time; Kaggle reports 0. `maxJobs` is given a value (the code also allows
none); `maxWallTimeMs` is left out because nothing in the code reads it, although
`docs/compute-discovery.md:60` says the runtime enforces it. Processes that outlive a crashed host, worktrees, `estimatedDurationMs` and
`gpuJobs` are left out.

| Run | Instance | Shows |
|---|---|---|
| `compute_local` | 2 callers, 2 local jobs, 1 restart | `TerminalMeansEnded`, `NoGhosts`, `DisposeKills`, `FileIsCurrent`, `TypeOK`; `EveryJobSettles` |
| `compute_kaggle` | both backends, 2 callers, `maxJobs` 1 (two jobs get past it), failing writes, 1 restart | `CountersMatch`; `JobBudget`: overlapping callers overshoot `maxJobs` by at most their number less one |

What the properties do not claim, because the code does not keep it: `maxConcurrency`
is checked before the awaits and can be exceeded; a Kaggle `result` that is refused
records a running job as failed; a restoration that is itself cut short can drop a job
from the file. `PROJECT.json` lists the lines.

*Bounds.* Two callers are enough for any check-then-act race of two requests, two jobs
for one to be restored before the other, one restart for restoration. Callers are interchangeable, so they are a symmetry set in the runs
without liveness. Deadlock checking is off: a host may make no more requests.

*Fairness.* Segments run (the microtask queue). The event loop delivers a request
only when the microtask queue has drained, so `Quiet` recurs; timers and exits are then
served again and again (strong fairness of `Tracking` and of the end of a local job,
which its timeout kills at the latest). Nothing is assumed of Kaggle.

## Discovery engine

`DiscoveryEngine.tla` models one campaign. An operation gives way to others only where
it awaits the compute runtime, so a call is at `"submit"` or at `"result"`, and
everything between is one step: `ExecuteExperience`, `Submitted`, `Result` are the
three segments of `executeExperience`, `Replicate`, `ReplicaSubmitted`, `ReplicaResult`
those of `replicate`. The compute runtime is used as the engine sees it: `submit` and
`result` answer or throw (`SubmitRefused`, `ResultRefused`). The wall time budget is the
free choice `late`. Of the four archives only the elites are kept; novelty, surprise
and composite scores are left out. `Restart` is a stop of the host and the restoration
from the campaign file; experiences that nobody awaits after it, or after a result that
was refused, are in `orphans`: the engine has no operation of its own that ends them.
Writes of the file never fail in the model; in the code a write that throws ends the
call that made it.

Scores are `0..MaxScore`, which stand for 0 to 1. One that is measured lies there; one
that a caller gives (`Given`) may lie below or above. The engine keeps it clamped
(`Clamp01`) and compares it as it was given, so that a score above 1 enters the elites
behind one that has 1 and is kept as an equal 1. `ElitesAscend` is therefore strict
below the top score only (`Below`).

| Run | Instance | Shows |
|---|---|---|
| `discovery` | 2 experiences, 2 calls at a time, replications of 1 and 2 seeds, one attached result, given scores out of range, one stop of the host; 2.3 million states | `OverrunIsBounded`, `JobsCountedOnce`, `ElitesAscend`, `FileIsCurrent`, `RunningIsAwaited` |

*Bounds.* Two calls are what a check-then-act race needs; two experiences and three
scores, with one more on either side that is clamped, order the elites; a budget of two
jobs is overrun by two overlapping replications; one stop separates what was saved from what was not. Experiences and
calls are symmetry sets. There is no deadlock: a caller can always touch the campaign.

## Client commands and the recovery journal

`CommandRecovery.tla` composes `DaemonClient` with request recovery, the supervisor's
`handleLine`, the `CommandRecoveryJournal` and the worker that executes. `CommandService.tla`
says what that composition promises: a command runs at most once, and the one answer its
client gets is true of it. `ServiceSpec` is the refinement: the client's pending requests
map to `"open"`, the executions to `ran`.

*State.* `req` is `pendingRequests` and how each settled; `toSup` and `toCli` the two
directions of the socket; `entries` and `recordCount` the journal in memory; `disk`,
`stored` and `unended` its file. Since `load()` is a fold over lines that treats keys
independently, the file is what `load()` makes of it so far, plus the last line when it
has no newline: the next append continues that line (`FileAppend`), and a stop may cut
an append anywhere (`FileCut`).

*Faults.* Connections are lost at any time; the supervisor stops before, after or inside
an append and is replaced; requests time out and are resent; a worker may drop what was
dispatched; an update restart refuses commands. Two simplifications: lines are handled in
the order the client wrote them, also across connections, and the awaits of `handleLine`
before the journal decides resume in microtasks. A resend that a supervisor without the
needed compatibility would reject counts as abandoned.

| Run | Instance | Shows |
|---|---|---|
| `command_recovery` | 2 commands, 3 connections, 2 stops, the last may truncate an append; 712 thousand states | `AtMostOnce`, `ServiceSpec`, `EveryRequestSettles` |
| `command_replay` (violated) | 1 command, 2 stops, the first may truncate | `AtMostOnce` fails |

The violated run is a finding. A truncated append swallows the record appended after it;
if that is the receipt of a command, it is not durable, and after another stop the
command, when resent, runs a second time, against the class comment "A received record is
durable before a mutating command is dispatched". With a newline in front of the first
append after a load, or a truncation of the file by `load()`, it would not.

*Bounds.* Two commands exercise both the order of resends and the compaction
(`CompactAfter` 3); three connections allow a resend of a resend; the second stop
separates a receipt from its result.

*Fairness.* The supervisor handles lines, requests to a worker end (they have
timeouts), the client reads, notices a lost connection, and gives up when it has not
reconnected in time. That it reconnects, or that a supervisor is started again, is not
assumed, and neither is anything of connections, workers and the client's own timeouts.

## Ownership of the daemon

`DaemonHandover.tla` models which process may be the supervisor: the lease of the socket
path, the startup fence a restart leaves for its predecessor, the registry of owners under
its guard, the shutdown admission, and the coordinator that restarts the daemon after an
update. `pc` and `coord` follow the awaits of `DaemonSupervisor.start`,
`cleanupSupervisorResources` and of the coordinator in `package-manager-cli.ts`. Any process
may be killed at any step. What is synchronous under the registry guard is one step, but
the scan and the publication of the owner are two (`ScanClear`, `Publish`), because a kill
may come between. Locks of live processes are refreshed in time and never stale; the
admission's refresh may fail (`Expire`). Fences name a process instead of a token.

| Run | Instance | Shows |
|---|---|---|
| `daemon_handover` | 3 supervisors (2 of one socket path, 1 sharing only the descriptor directory), 2 coordinators, 2 expiries, kills everywhere; 285 thousand states up to `HandoverView` | `OneOwner`, `OwnerKeepsRecord`, `NoStartUnderAdmission`, `RestartReplaces` |

*Bounds.* Two contenders and a third that conflicts by descriptors only; two
coordinators, so that an expired admission is given to another one while the first goes
on. States are compared by `HandoverView`, which leaves out what no later step and no
property looks at: how far a dead process had come, the dead holder of a lock, a fence
that was read and is no longer being cleared. Deadlock checking is off: processes end.

## Session lease

`SessionLease.tla` models `acquireSessionLease` and `release` by their system calls (`Lock`,
`Rename`, `Look`, `Reclaim`, `Remove`, `Unlock`), run by processes that are killed at any
of them, and `AgentSessionRuntime` above: `Begin` takes the lease of the next session,
`TearDown` ends the present one, `Apply` installs the next and gives the old lease back,
`ReplaceFails` returns what was taken. The calls are synchronous, so a process in one does
nothing else. A pid may be reused, and the start id that tells two processes of one pid
apart may be unreadable (`Identified`). A guard left by a dead process times others out
until it is stale; the guard of a live process does not go stale.

| Run | Instance | Shows |
|---|---|---|
| `session_lease` | 3 processes, the third with the pid of the first, one without a readable start id, 2 sessions, one replacement at a time; 852 thousand states | `HolderKeepsDirectory`, `OneWriter`, `AcquisitionDecides` |
| `session_switch` (violated) | the same with two replacements under way in a runtime | `OneWriter` fails |

The violated run is a finding. A replacement whose target is the present session relies on
the lease the runtime has; another replacement that is applied meanwhile releases it, and
the first still applies its session. Nothing in the runtime or in its callers serialises
replacements. `HolderKeepsDirectory` holds with any number of them: the lease itself is
sound, what fails is who relies on it.

*Bounds.* A third process meets the leftovers of a reclaim by the second; three leases per
process let a runtime go to another session and back.

## Update restart

`UpdateRestart.tla` composes the supervisor's `prepareUpdateRestart` with the transactions of
its workers. The supervisor drains commands in flight, asks every worker to prepare,
persists the manifest, commits and stops the workers (`prep` follows it); a worker drains,
pauses its queues, captures and stays fenced (`txn`). The idle eviction sweep shares the
supervisor's latch; commands it held up resume in microtasks (`resuming`), which come before
everything else. `conn` and `link` are the two ends of a connection: each end notices its
loss on its own, and a reconnection revokes the claim of the previous one.

*Data.* What a session would lose is `version`, the number of inputs it has admitted; a
captured checkpoint is the version at that moment. Turns of the agent that run are not
frozen: the code lets them go on, too, and checkpoints inputs only.

*Faults.* Every request may time out or fail, also after the worker did what was asked;
workers miss their deadlines; connections break at either end. Crashes of a worker and the
death of the supervisor appear as loss of the connection. Whether an idle worker may be
evicted is a free choice.

*Stops.* The two rounds of `stopWorker` after the commits are one here. A stop closes the
connection (`StopCloses`), and the worker ends (`StopWorker`) or the stop rejects
(`StopFails`): its descriptor cannot be written, before anything is sent, or the worker
outlives the wait and cannot be signalled. The supervisor ignores rejected stops, and so
does `Prepared`. A worker whose commit and stop both failed has no deadline left and stays
fenced for as long as the connection that fenced it stands: `FenceHasAnEnd` says this and no
more of it. A worker that outlives a stop whose connection was closed drops its checkpoint and
goes on, although the manifest will be restored; nothing is claimed of its later inputs.

| Run | Instance | Shows |
|---|---|---|
| `update_restart` | 2 workers, a prompt and an abort to one of them, one preparation, one sweep, a second connection, one input of the worker's own queue; stops that fail; 1.07 million states | `FencesAreQuiet`, `CommittedIsSaved`, `ManifestIsFinal`, `FenceHasAnEnd`, `PreparationEnds` |

*Bounds.* The second worker is there for a preparation that succeeds in part; commands and
the lost connection concern one worker, since workers share nothing but the supervisor.

*Fairness.* Weak fairness of the preparation's own steps, which include the timeouts of its
drains, requests and stops. Nothing is assumed of workers, commands and connections, so
`PreparationEnds` rests on the timeouts alone.

## Proofs

All theorems are about every value of the constants that satisfies the assumption the module
states (`...Assumption`); a theorem with a hypothesis beyond that says so below.

`AgentProofs.tla`, about the invariants that `AgentInvariants.tla` states:

- `TypeCorrect`: `Spec => []TypeOK`.
- `IdleIsSettled`: `Spec => []IdleMeansEnded`. Whatever throws, an idle agent has emitted
  `agent_end` for every run, and `isStreaming` is true exactly during a run.
- `AgentEndFinal`: if listeners of `agent_end` and `tool_execution_end` do not throw
  (`EndListenersReturn`), then `Spec => []AgentEndIsFinal`. Neither half of the assumption can
  be dropped (see the section on the agent).
- `PendingIsTasks` (`PendingMatchesTasks`), `RequestsAreFaithful` (`RequestSeesTranscript`),
  `RequestsAreAnswered` (`CallsAnswered`), `ReportsAreFaithful` (`AgentEndReportsRun`) and the
  action property `ToolStartsAreJustified` (`ToolStartIsJustified`), without hypotheses.
- `NothingIsLost` (`NothingLostWithoutFailure`), without hypotheses.
- `QueuesKeepOrder` (`QueuesAreFIFO`) and `BatchesStay` (`BatchesStayTogether`), assuming that
  no message is handed over twice (`DisjointBatches`). Messages are
  objects which the host makes anew for each call; for one that is queued twice "the order in
  which it was queued" has no meaning.

The inductive invariant `IInv` adds to the types which waits go with which label
(`WaitMatchesLabel`), the shape of the response being answered (`BatchShape`: the call at hand
is one of its calls, or one past them) and how the run relates to its history (`RunShape`: idle
exactly at label `idle`, all earlier runs ended, the active one ended at `finish` and
`failFinish`). It is needed because `IdleMeansEnded` alone says nothing about the labels from
which `FinishRun` is reached. `FInv` adds for `AgentEndFinal` that tasks that still run belong
to the active run's batch (`TasksInBatch`) and that a run that has ended is over
(`EndedIsOver`).

Three more invariants stand on `IInv`. `TalkInv` is about the conversation. The context of the
loop and the transcript are pushed to separately, so it says label by label how far one is ahead
of the other (`CopiesAgree`) and that `newMessages` is the tail of the transcript (`NewIsTail`);
then where the response at hand stands (`ReplyInContext`) and how many results stand behind it
(`ResultsInOrder`). `AllAnswered`, that every earlier response is followed by all of its
results, is what `CallsAnswered` needs of the whole transcript. These hold while no response was
superseded; `SupersededRun` says what becomes of such a run: it is aborted, makes no further
request, and its `newMessages` is the tail of the transcript without the last message but one
(`ReportMoves`, `StepReport`). `ReportsAreFaithful` follows from the two. `TurnTasks` ties the
tasks to the turn and the run. For `NothingIsLost` it is enough that each step keeps every message in
some place (`NothingMissing`), given which of the loop's lists may be filled at which label
(`ListsByLabel`) and that the message being injected is in the transcript before it leaves its
list (`InjectedIsSaid`). The two theorems about order follow from `OrderInv`, about one
sequence, `Line`: the transcript followed by all that is on its way to it, from whichever list.
Along the line each message comes once, batches are contiguous but for what the host removed,
and the batches of a queue are in the order of `sent`; what is still in a queue comes later than
what is in the line. Moving a message from a list to the transcript then leaves the line as it
is, and each operation of a queue either appends to it or removes from it.

`ComputeRuntimeProofs.tla`, for every number of callers, jobs and restarts and whether or not
writes of the state file fail:

- `TypeCorrect`: `Spec => []TypeOK`.
- `JobBudgetHolds`: `Spec => []JobBudget`. The overshoot of `maxJobs` by overlapping submissions
  is bounded by the number of callers less one, and a restart cannot add to it.
- `ShutdownKills`: `Spec => []DisposeKills`.

Its `IInv` adds what a request has in hand between two awaits (`CallerShape`: an id a backend
gave out, a status it read, and that a status read as ended stays ended), that runtime and file
hold only such ids (`JobsShape`), that a living local process runs its job or was killed
(`ProcessShape`), and that the counter counts the records and the *file* is within the budget,
too (`BudgetShape`): without that, `JobBudget` is not inductive, because a restart takes its
counter from the file. The lemmas `SaveKeeps`, `ApplyKeeps` and `MarkKeeps` say once what
`_persist` and `_applyResult` preserve, `BecomeTyped` and `BecomeShaped` what a caller's next
step does.

`ComputeLedgerProofs.tla` stands on it:

- `CountersAddUp`: `Spec => []CountersMatch`, without hypotheses: failed writes, restarts and
  both backends included.
- `FileStaysCurrent`: `Spec => []FileIsCurrent`, assuming that writes succeed (`~WritesFail`).
  The code logs a failed write and goes on with the file as it was.
- `EndsAreTrue` (`TerminalMeansEnded`) and `SlotsAreTracked` (`NoGhosts`), with the local
  backend alone (`LocalOnly`). With Kaggle neither holds: its `result` is refused while the job
  runs, which ends the tracking and records the job as failed, and polls take over.

A result may be on its way to a record from the tracker and from several requests at once.
`ResultInv` says that each of them carries the outcome the job has, and the record, if it has an
outcome, the same one. For that a job must keep its status while a request has it in hand
(`JobKeeps`): a local job that has ended keeps it for good, and a push loop of Kaggle ends in a
macrotask, when no request is under way. `LedgerInv` says that a record is accounted exactly
when it has a result, `CountInv` that the counters are the cardinalities of the accounted
records. After a restart they are computed from the entries of the file; that these correspond
one to one to the restored records is the lemma `EntriesAreJobs`.

`CommandRecoveryProofs.tla`, for every number of commands, connections and stops and every
compaction threshold:

- `TypeCorrect`.
- `RunsAtMostOnce` (`AtMostOnce`) and `ImplementsService` (`Spec => ServiceSpec`: every step of
  the composition is one of `CommandService` or a stutter), assuming that no stop follows one
  that truncates an append (`TornLast`). The run `command_replay` is the counterexample without
  it.

The heart of `IInv` is `JournalInv`: a command that the journal (or, while no supervisor runs,
the file it will be loaded from) does not know never reached a worker, or is settled and has no
line on its way. That entries are deleted only then is a fact about lines: the acknowledgement
of a result comes behind every copy of its request (`LinesInv`). That a refused command never
runs is another: an answer arrives only on the connection of the last copy (`FlightInv`,
`ReplyInv`). `FileInv` is where the hypothesis enters: until the last stop the file is whole and
says what the journal says.

`UpdateRestartProofs.tla`, for every set of workers and commands and every bound, without
hypotheses: `TypeCorrect`, `FencesStayQuiet` (`FencesAreQuiet`), `PublishedIsSaved`
(`CommittedIsSaved`), `ManifestStands` (`ManifestIsFinal`) and `FencesEnd` (`FenceHasAnEnd`).
`LatchInv` is what makes the fences quiet: the latch counts the commands in flight and the
preparation (`CountOK`), the fences of an eviction and of a preparation exclude each other
(`FenceOK`), and who waits at a fence waits once and has not begun (`WaitOK`). `CheckpointInv`
follows a checkpoint through a channel whose answers may be late: what a worker answered with in
this preparation it still holds, or it has no transaction, and nothing on its way would open
another one (`Held`); that is so of the answer in the channel, of the one the supervisor noted
and of the manifest, because a worker is asked once per preparation and what is left of earlier
ones carries older numbers. `FencesEnd` needs that a transaction belongs to the present
connection of its worker (`Owned`, `OwnerOK`): it is all that ends the fence of a worker whose
stop failed.

`SessionLeaseProofs.tla` proves, for every number of processes, sessions, replacements and
leases and for every assignment of pids:

- `TypeCorrect`; `LeaseIsKept`: `Spec => []HolderKeepsDirectory`; `AcquisitionEnds`: `Spec =>
  []AcquisitionDecides`.
- `SingleWriter`: `Spec => []OneWriter`, assuming that a runtime makes one replacement at a time
  (`OneReplacement`). `session_switch` shows that the assumption is needed.

`IInv` adds that a process past `Lock` has the guard (`GuardIsOurs`), that a dead process has
nothing in memory (`DeadIsQuiet`), that directories are of started processes and tokens are not
from the future (`Known`, `ReleasedIsOld`), that what is about to be moved away is a dead
process's (`StaleIsDead`), and that the second try meets no directory (`TriesSuffice`).
`SingleWriter` needs two more facts: the leases of a runtime are its process's own and still
held, and it runs the session of its lease (`OwnLeases`, `RunsUnderLease`); the second is what
two overlapping replacements break.

`DaemonHandoverProofs.tla` proves, for every set of supervisors, coordinators, socket paths and
descriptor directories: `TypeCorrect`, `OwnershipIsExclusive` (`OneOwner`), `OwnershipIsKept`
(`OwnerKeepsRecord`), `AdmissionHoldsOffOwners` (`NoStartUnderAdmission`) and
`RestartIsOneForOne` (`RestartReplaces`). `IInv` adds to them who holds the guard at which step
(`GuardIsHeld`), that what a scan found still stands until the publication (`ScanStands`), that
a coordinator past its choice has a predecessor (`TargetChosen`), that locks, fences and targets
name processes that were started (`NamedHaveStarted`: a later process cannot be mistaken for
them), that a fence taken for dead stays dead (`SeenAreGone`), and that a restart's fence keeps
others off (`RestartStands`).

`DiscoveryEngineProofs.tla` proves, for every budget, set of experiences, set of seeds and
number of overlapping calls: `EachJobCountsOnce` (`JobsCountedOnce`), `FileStaysCurrent`
(`FileIsCurrent`), `NothingRunsForgotten` (`RunningIsAwaited`), `OverrunStaysBounded`
(`OverrunIsBounded`) and `ElitesStayInOrder` (`ElitesAscend`). `IInv` adds the shape of the
state, that calls are about recorded experiences (`CallsAreAboutExperiences`) and that the
*file*, too, counts each job at most once (`FileCountsOnce`), because a restart takes the
counters from it. The bound of the overrun is inductive once a call is known to have no more
jobs left than one may be admitted for (`LeftIsBounded`): a call that enters found room for all
of its jobs, the others have at most theirs, and each later step moves a job from the admitted
to the submitted. The order of the elites rests on what a filter leaves (`OthersKept`) and on a
best score being above unscored ones, too (`BestIsBest`); the clamp keeps the order of
scores and can make them equal only at the top.

*Sequences and induction.* The induction theorems of the library take an operator as a
parameter, which the provers cannot instantiate. Two modules prove induction as a fact about a
*set* of naturals instead (`NatSetInduction`, from the well-foundedness of finite sets under
strict inclusion), and with it what `FlattenSeq` does (`FlattenBy`). That is why `Agent` and
`DiscoveryEngine` define removal from a queue and from the elites (`Without`, `Others`) with
`FlattenSeq`: `SelectSeq` takes an operator. For the same reason `OverrunIsBounded` counts a set
of admitted jobs where a fold could add numbers.

Only model-checked:

- liveness (`AbortSettles`, `EveryJobSettles`, `EveryRequestSettles`, `PreparationEnds`), which
  needs fairness and `ENABLED`;
- `AgentEndIsFinal`, `AtMostOnce`, `ServiceSpec`, `OneWriter`, `FileIsCurrent` of
  `ComputeRuntime`, `TerminalMeansEnded` and `NoGhosts` hold, and are proved, under the
  hypotheses named above only; the runs that check them satisfy these. All other invariants and
  action properties of the runs are proved without hypotheses, but for `DisjointBatches`.

## Not modelled

The models stand for about 4000 lines of the program's 207 thousand. They are the lines
where its processes, calls and files meet; most of the rest has no protocol to check:

- generated tables (`models.generated.ts` alone has 20733 lines), model providers and their
  HTTP, text of any kind (prompts, compaction, formatting), the terminal UI
  (`interactive-mode.ts`, `agents-view-mode.ts`, `packages/tui`), packaging, telemetry, export;
- the vendored browser extension under `extensions/`;
- the bodies of the daemon's and the session's request handlers (`daemon-mode.ts`,
  `daemon-supervisor.ts`, `agent-session.ts`): a hundred commands that read or set one part
  of the state of a session each. What they share (admission, journal, fences, leases)
  is modelled; prompts, retries, subagents, transcripts and snapshots are not;
- components of the plan that have no module yet: the action store, worker launch and
  recovery, the Chrome bridge, the small queues, credentials, goals, autonomous mode, cron.

`PROJECT.json` gives each component its status and reason.
