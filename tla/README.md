# A verification of the server core of n8n

These TLA+ modules model how an n8n server (`packages/cli`, `packages/core` and
`packages/@n8n/task-runner`) runs executions of workflows: how it limits them,
starts, stops, parks, resumes and loses them, in one process or as jobs of a queue
with workers; what it makes of them when a process dies and the next one starts; how
several main processes choose a leader; how the triggers of workflows are kept in
line with what users save; how a partial execution is prepared; and how the code of
a Code node is handed to a task runner. TLC checks the modules on small instances;
TLAPS proves theorems about each of them but the preparation of a partial execution,
for every number of executions, workers, mains, requests and runners, every limit
and every number of restarts.

Paths below are relative to the root of the repository; `cli/` stands for
`packages/cli/src/`.

## 1. The system

### How the parts interact

```
 webhook, trigger, wait timer, boot-up                    stop request (API)
              |                                                |
              v                                                v
      WorkflowRunner.run --(1)--> ConcurrencyControl    ExecutionService.stop
              |                   ConcurrencyQueue             |
             (2) ActiveExecutions.add <------------------------+
              |      |  one entry per execution: its workflow, promise, status
              v      |
     WorkflowExecute (nodes) --- Code node ---> LocalTaskRequester
              |      |                               | calls
     workflowExecuteAfter hooks                  TaskBroker
              |                                      | websockets
              v                                  TaskRunner processes
        database rows <--- WaitTracker (polls rows that are due)
              ^
              |  at boot-up: rows, event log, recoveryInProgress file
     MessageEventBus.initialize, ExecutionRecoveryService
```

1. `run` awaits `throttle`, which may leave it in the queue for any time.
2. The entry's promise, when it settles, releases the slot (`.finally`).

With several mains, or in queue mode:

```
  main --(key with a time to live, pub/sub)-- Redis --(Bull's jobs)-- workers
    |  leader: wait tracker, pruning, triggers and pollers,             |
    |          queue recovery                                           |
    +------------------------- database rows ---------------------------+

  user -- update, delete --> ActiveWorkflowManager <-- start, retry timer, failing trigger
                                     |
                      ActiveWorkflows: triggers, crons
```

Everything in one process runs on one event loop, so a handler is atomic from
one `await` to the next. What makes the code hard is what happens at an
`await`: every part keeps its own idea of an execution (the row in the
database, the entry in `ActiveExecutions`, the position in the queue, the timer
of `WaitTracker`, the messages in the event log), and each part is changed by
execution *id*, although an id can be run several times.

### Inventory

| Component | State it keeps | Operations | What is hard | What makes it correct |
|---|---|---|---|---|
| Concurrency queue (`cli/concurrency/concurrency-queue.ts`) | a counter, a list of pending promises | `enqueue`, `dequeue`, `remove` | the counter never looks at the executions; removal from the middle | counter exact; no idle slot while somebody waits; FIFO; limit kept |
| Concurrency control (`cli/concurrency/concurrency-control.service.ts`) | on or off; one queue per kind | `throttle`, `release`, `remove`, `removeAll`, `disable` | release by mode, not by execution; disabled while promises still settle | one release per slot taken |
| Active executions (`cli/active-executions.ts`) | one entry per execution id | `add`, `attach...`, `stopExecution`, `finalizeExecution`, `shutdown` | the entry is replaced on resume and read after `await`s | every entry has an owner; each slot is released once |
| Workflow runner (`cli/workflow-runner.ts`) | none of its own | `run`, `processError`, timeout | four database writes and two registrations with `await`s between | a row ends with a final status |
| Wait tracker (`cli/wait-tracker.ts`) | a timer per execution that is due | poll, `startExecution`, `stopExecution`, step-down | poll, timer, stop and resume race | an execution is resumed once |
| Stopping (`cli/executions/execution.service.ts`) | none | `stop` | row checked, then three places searched, then row written | a stopped execution does not run |
| Start and shutdown (`cli/commands/start.ts`, `cli/shutdown/`) | how far it has come | `init`, `run`, `runEnqueuedExecutions`, `stopProcess` | crash at any point; the order of the parts | everything left behind is run or ended once |
| Crash recovery (`cli/executions/execution-recovery.service.ts`) | none | `recoverFromLogs` | row, log and marker file disagree; the recovery may die too | no row left running with nothing behind it; waiting executions survive |
| Event bus and log (`cli/eventbus/`) | log files, confirmations, destinations, `recoveryInProgress` file | `initialize`, `send`, `confirm`, re-send, rotation | messages logged, sent and confirmed in separate steps | no message lost; the unfinished are found |
| Task broker (`cli/task-runners/task-broker/`) | runners, offers, requests, tasks, unanswered acceptances | request, offer, accept, reject, defer, end, time out, deregister | answers later than their timeout; requests listed while being accepted | a request is in one place and answered once |
| Task requester (`cli/task-runners/task-managers/`) | requests and acceptances | `startTask`, `taskReady`, done, error | has no timeout of its own | gets exactly one answer |
| Task runner (`packages/@n8n/task-runner/src/task-runner.ts`) | open offers, tasks and their state | offer, accept, settings, cancel, timeout, stop | two clocks; cancel and timeout while a task starts or ends | never beyond capacity; slots come back |
| Runner process (`cli/task-runners/task-runner-process.ts`, restart-loop detector, disconnect analyzer) | the process, recent exits | start, kill, restart | kills "the current" process; time windows | restarts, and stops restarting when it loops |
| Leader election (`cli/scaling/multi-main-setup.ee.ts`) | a Redis key with a time to live | check, take, renew, release | two commands to take it; commands sent twice; a leader that does not know it lost the key | leader and key agree; one main leads in the end |
| Queue mode (`cli/scaling/scaling.service.ts`, `job-processor.ts`) | Bull jobs, running jobs | enqueue, process, stop, recover | row, job, entry and worker disagree | an execution runs once per delivery; a stop holds; row and entry settle |
| Pub/sub (`cli/scaling/pubsub/`, not modelled) | debounced commands | publish, handle | commands dropped by the debounce | commands take effect |
| Pruning (`cli/services/pruning/`) | two timers | soft and hard delete, start, stop | leadership changes in between | only the leader prunes |
| Workflow activation (`cli/active-workflow-manager.ts`, `packages/core/.../active-workflows.ts`) | triggers, pollers, crons, retry queue | update, delete, activate, retry, a trigger's error | all by workflow id, nothing keeps two calls apart; a trigger fails half-way | what runs is what was saved, and can be closed |
| Webhooks (`cli/webhooks/`, not modelled) | registrations of test and live webhooks | register, call, time out, cancel | first call and timeout race | a test webhook fires once |
| Partial execution (`packages/core/src/execution-engine/partial-execution-utils/`) | pure | `DirectedGraph`, `findStartNodes`, `findSubgraph`, `handleCycles`, ... | cycles, dirty nodes, disabled nodes | reference definitions on graphs |
| Engine (`packages/core/src/execution-engine/workflow-execute.ts`, not modelled) | node stack, waiting inputs | `processRunExecutionData`, retries | several inputs, retries, pairing | each node runs when its inputs are there |
| The rest: push, cache, licence, users, HTTP, expressions, nodes, editor | | | little state that outlives a call | |

The hazards this code is exposed to are listed one by one, each at its line, in
`PROJECT.json`, with the properties that cover them.

## 2. The modules

| Module | What it is |
|---|---|
| `ConcurrencyQueue` | the queue class and the executions behind its promises |
| `AdmissionContract` | what it promises: who may start, stated by who really runs |
| `ConcurrencyQueue_proofs` | the theorems about the queue |
| `ExecutionLifecycle` | one main process in regular mode, the queue included |
| `ExecutionLifecycle_proofs` | the theorems about what its executions do to the queue, and about slots, entries, starts and stops |
| `QueueLemmas` | facts on numbers, lists and counting that several proofs use |
| `CrashRecovery` | boot-up after a crash: rows, event log, wait tracker |
| `CrashRecovery_proofs` | the theorems about the rows it leaves |
| `TaskBroker` | broker, requester, runners, their websockets and processes |
| `TaskBroker_proofs` | the theorems about requests, capacity and tasks |
| `MultiMain` | several mains, the leader key, wait tracker and pruning of each |
| `MultiMain_proofs` | the theorems about leadership and what is resumed under it |
| `ScalingQueue` | queue mode: a main, jobs, workers, stops and queue recovery |
| `ScalingQueue_proofs` | the theorems about starts and stops in queue mode |
| `WorkflowActivation` | a workflow's row and what of it listens, polls and is retried |
| `WorkflowActivation_proofs` | the theorems about what may be left listening or forgotten |
| `PartialExecution` | the seven steps of a partial execution and their graph algorithms |
| `MC...` | instances for TLC |

```
 AdmissionContract <--refined by-- ConcurrencyQueue <--refined by-- ExecutionLifecycle
                                         ^                         ^
                            ConcurrencyQueue_proofs   ExecutionLifecycle_proofs
```

`CrashRecovery` and `ExecutionLifecycle` describe the same executions from two
sides. `ExecutionLifecycle` has the queue, stopping and timeouts in detail and a
boot-up that is reduced to what `crashRecoveryMode = simple` does to executions
that never wait. `CrashRecovery` has the boot-up, the log and both modes in
detail, and takes the concurrency limit to be off, which is the default.
`ScalingQueue` is what takes the place of `runMainProcess` in queue mode, and
`MultiMain` has the wait tracker again, with the leadership that starts and stops it.

Mutated forms of definitions (`\* Mutant: ...`) stand before the definition they
change. No specification uses them; they show that each property would notice
a plausible bug in the definition.

### ConcurrencyQueue

`enqueue`, `dequeue` and `remove` are synchronous, so each is one action. `phase`
is where each caller of `throttle` is: behind its await (`queued`), let through
(`running`), settled (`finished`) or never let through again (`removed`). Each
action is guarded by what its caller knows: `dequeue` is called when a running
execution's promise settles, `remove` for an execution in the list.

`AdmissionContract` has no counter and no list. A newcomer starts exactly when
fewer than `Limit` run; a finished execution hands its slot over to somebody who
waits, and so does one that gives up waiting although it held none, which is what
the code does (see *Disagreements*).

### ExecutionLifecycle

Each call of `WorkflowRunner.run` is a *run* `<<e, k>>`. `run[r].pc` is where that
call is; the other fields are those of the object `add` makes. `active[e]` is the
number of the run whose object is the entry of `e`. This is what makes the
model able to tell an entry from the run that uses it: the code reaches the
entry by execution id after every `await`, and may meet another run's.

| Code | Action |
|---|---|
| `run` up to `throttle`; `runEnqueuedExecutions`; `WaitTracker.startExecution` | `StartNew`, `RunEnqueued`, `Resume` |
| `ActiveExecutions.add` | `Add` |
| permission and credential checks | `CheckPasses`, `CheckFails` |
| `runMainProcess` to the start of the workflow | `Begin` |
| a node calls `putExecutionToWait` | `PutToWait` |
| the `nodeExecuteAfter` hook, with `saveExecutionProgress` | `SaveProgress` |
| the `workflowExecuteAfter` hook | `Save` |
| what a cancelled run was doing comes to its end | `NodeReturns` |
| `finalizeExecution` and `processError` | `Finalize` |
| the execution timeout | `TimeOut` |
| `WaitTracker.getWaitingExecutions` | `PollQuery`, `PollApply` |
| `ExecutionService.stop` | `StopCheck`, `StopAct`, `StopWrite` |
| `stopProcess`, end, crash, next start | `Shutdown`, `Exit`, `Crash`, `Restart` |

Operators stand for what these share: `ThrottleRun`, `ReleaseSlot`, `LeaveQueue`
for concurrency control, `SettlePromise` for a promise with its `.finally`,
`StopActive` for `stopExecution`.

`WithResponse` are executions whose caller waits for a response (shutdown stops
those); `Outcome` is how a workflow ends that is left alone; `TimesOut` and `SavesProgress` are
the executions whose workflows have a timeout and save their progress.

A cancelled run is `canceling`, then `canceled`, while what it was doing goes on: `cut`
says what that was. A node heeds the abort signal, or it does not, and then its end may
be logged after that of the execution and the save of its progress writes `running` over
`canceled`; or the final hook was under way. `late` remembers the executions this
happened to. `log` are the executions which the event log has started and not ended, as
its reader counts them; `Restart` marks them as crashed whatever their row says. A
signal ends neither the boot loop nor the triggers under way, so `RunEnqueued` and
`StartNew` go on while the process shuts down, with concurrency control off.

### TaskBroker

One action is one message, timer or call, in the broker's process or in a
runner's. `call[t]` follows an `acceptOffer` call by its task id, from the message
to the runner (`accepting`) to the entry in the map of tasks (`task`). `toRunner`
and `toBroker` are the websockets; `up` is the process of a runner: `stopping`
after a signal, `cut` when the broker closed the connection of a runner that
lives, `gone` when it ended and the broker does not know yet. A `Launcher` is the
process that only waits for work: it defers the task and starts a runner, which
is another element of `Runner`.

`Fleets` are the kinds of runners a run has: external ones, a launcher among them,
or the one process of the broker's own, killed when a task times out and started
again. Ids are numbers; nanoid gives new ones, so a number is given again only when
nothing mentions it any more, and always the lowest (`FreshTasks`, `FreshOffers`, by
`Ascending`, the numbers of a set in order).

### CrashRecovery

`stage` follows the start of a process: `starting` (the wait tracker is already at
work), then `marking` or `recovering`, then `up`. `log[e]` is what the reader of the
log makes of execution `e` (no messages, the beginning alone, or messages of
nodes) and in how old a file; `flag` is the file that marks a recovery in progress.
`Recover`, `Amend` and `RunHooks` are `recoverFromLogs` with its `await`s: the row is
read, written back, and saved again by the hooks. A process may die in any stage
and between any two of these steps. `run` has two runs per execution, since an
execution may be run a second time while it runs; the second is a real run, not
an artefact: it is reachable when `Amend` writes back a row that is due.

### MultiMain

A main sends its commands for the key over one connection and awaits each, so a
step is Redis executing the first command of `pipe[m]` together with the
continuation of the handler: `FindOwn`, `FindOther` and `FindVacant` are the three
branches of `checkLeader`, `ClaimWon`, `ClaimLost` and `Confirm` are `tryBecomeLeader`, `Renew`
the renewal. `Tick` is the passing of an interval, for the checks and for the life
of the key. When a connection is cut, what was sent and not answered is sent again
after `Relink`, also if Redis has executed it; `cut` remembers which mains that happened
to, `cuts` how often. `StepDown` and `TakeOver` are the listeners
of the two events, in their order: the wait tracker (`StartTracking`, `StopTracking`, `Poll`,
`SetTimers`) and pruning. `Halt`, `Resign`, `HangUp`, `Leave` and `Exit` are the shutdown.

`Fire` is `startExecution` up to its first `await`: the entry of the timer is gone and
the row says still that the execution waits. `resuming[m][e]` counts the calls that have
come so far; `Resume` is the update that makes the row running, `GiveUp` the answer that
the execution has succeeded. A poll in between sets a second timer (`Misplaced`).

`tracking` and `pruning` tell an interval from one whose handle was overwritten,
since the code starts a second one at a take-over without a step-down.

### ScalingQueue

`call[e]` is how far `WorkflowRunner.run` and `enqueueExecution` have come, `run[w][e]`
what worker `w` makes of the job in `processJob`; `job[e]` is Bull's side of it: its
state, the worker that holds it, how often it stalled. A worker can have the job of
which the lock is held by another one. `End` and `SaveCanceled` are the final hook,
`EndFails` and `SaveCanceledFails` its failure, which is logged and lets the job
complete; `ProcessFails` is what does make a job fail. `SaveProgress` is the save after
a node, `NodeReturns` the same by a node that did not heed the abort. A `deaf` call is
that of a main which began to listen when the job had ended. `StopCheck`,
`StopJobCheck`, `StopJobEnd` and `StopWrite` are the steps of a stop, `Abort` is the
message at the worker, `ScanRows`, `ScanJobs` and `MarkAsCrashed` are queue recovery.

### WorkflowActivation

Everything is kept by workflow id, so there is one workflow. `calls` are the calls in
progress: the activation at the start, retries, updates and deletions by users, and
the removal that a failing trigger starts and nobody awaits. A step is what a call
does from one `await` to the next, on the row and on the memory: `entry`
(`ActiveWorkflows.activeWorkflows`), `listening` (the triggers that do, whoever knows
them), `crons`, `queued` (the timer the queue of retries knows) and `timers` (those that
will fire). `version` is what nodes were saved. `why` records what explains a difference
between row and memory. A shape says how many triggers listen, how many rules the Schedule
Triggers have and how many poll times the pollers; rules and poll times register their crons one by
one, and one that throws leaves those before it.

### PartialExecution

A sequential program: `phase` is the step that comes next, and the initial states are
all workflows of `Names` and a selection of `Links`, with every subset of `MayDisable`
disabled, of `MayPin` pinned, and every run data, none included. The graph is the
sequence of its connections in the order of their insertion, as the `Map` of
`DirectedGraph` keeps it, because searches go by it. The algorithms are recursive
operators that follow the code's recursion (Tarjan's components, the search of
`findSubgraph`, `findStartNodes`); the properties compare what they return with
definitions by closure and reachability: the components with mutual reachability
(`Cycle`), the start nodes with `Earliest`. `circling` keeps which disabled nodes lead
back to themselves over disabled nodes, since the graph without them does not show it.

## 3. The runs

Ten runs pass, two show disagreements. Every property of a passing run has a
mutant that breaks it in that run.

| Run | Instance | Question |
|---|---|---|
| `queue` | 5 executions, limit 2 | Is the counter exact, is nobody left waiting beside a free slot, is the order kept, does everybody get in, and is the contract implemented? |
| `lifecycle` | 2 executions, limit 1, one with a timeout and saved progress, checks that fail, three troubles among stops, shutdowns and crashes | Is each slot released once and each entry removed, is nothing started twice, does queue, process and row come to an end, and does a stop hold? |
| `lifecycle_wait_stop` | 2 executions of up to three runs that save their progress, limit 1, waiting, resuming, a stop | Is all that happens to the queue what the queue's module allows? Does a stop hold for what waits? |
| `recovery` | 2 executions, 3 restarts, both modes, one wait, stops | Which rows are left running, when is a waiting one lost, does every other row end? |
| `broker` | 2 requests; 2 external runners, a launcher beside a runner, one runner of two slots, or the broker's own process and its successor; one late answer | Is a request locked, listed and in one task; are offers and tasks those of registered runners; does no code run for nobody? |
| `broker_answers` | 2 requests for one external runner, or the broker's own process that is killed | Is everybody answered, does every task end and every slot come back? |
| `multi_main` | 2 mains, an execution that waits; a cut, a crash, a shutdown | Do leader, key and its life agree, when is the execution resumed twice, and does one main lead and resume in the end? |
| `scaling` | 1 execution that saves its progress, 2 workers, 3 troubles | Is it run once per delivery, does a stop hold, do row and entry settle? |
| `activation` | 5 shapes of workflows, 2 updates or deletions, 2 failures of nodes, 2 calls at a time | Does what listens, polls and is retried agree with the row, can all of it be closed, does an active workflow run in the end? |
| `partial` | 5 nodes, any of 11 connections, two that may be disabled, one of them pinned, any run data | When do the code's assertions fail, is no way lost, which cycles are found, are the first nodes taken that have to run, is the stack fresh and complete? |
| `resume_ended` | 2 executions, limit 1, waiting | (violated) is an execution that succeeded not started again? |
| `recovery_waiting` | 1 execution, 1 restart | (violated) does a waiting execution survive a restart? |

### Why these bounds

- *queue*: two run, so three can wait; removing the first, a middle and the last of a
  list are different cases of `splice` and of the release that follows.
- *lifecycle*: with one slot and two executions one runs and one waits, may be stopped
  there, and an execution let through because of it meets the one that still runs. Two
  restarts: what the first found enqueued may be left enqueued again. `MaxTroubles`
  bounds stops and restarts together; three of them let a stop fall before, between or
  after two restarts, or both executions be stopped before or after one. Only one
  execution has a timeout and saves its progress: each of these concerns one execution,
  and the other has the same steps without them.
- *lifecycle_wait_stop*: a second run of an execution is what a resume needs, a third
  what the hazard of a double resume needs; two executions are enough for one to wait in
  the queue while the other is resumed.
- *broker*: two requests and two runners give every way to give one request to both
  runners or both requests to one. `MaxTask` and `MaxOffer` are numbers of ids in use at
  a time: three tasks, where each of two requests has one and a stale one is still on
  its way. `broker_answers` has two, for one runner, and was also checked with three.
  `MaxLate` bounds how often an answer comes after its timeout or an offer is stale on
  one side only; once is enough for an old answer to meet a new call.
- *recovery*: three restarts let messages grow as old as the log keeps them, and let a
  recovery be cut short and then repeated. The properties were also checked with two
  waits in all, so that an execution which was resumed before the recovery waits again
  during it, and with one execution, six restarts and six waits.
- *multi_main*: a key of two intervals can expire while its holder is cut off. Two mains
  are enough for a stale leader and a new one; a third adds no new relation to the key.
  `Unstable` is the one main that may lose its connection: with one cut it does not
  matter which. `MaxPipe` is what piles up while there is no connection: one command of
  a check. `MaxResumes` is how many calls of `startExecution` one main has under way for
  an execution: a second timer that is set in the window fires when the first call is
  through, and starts are counted to two.
- *scaling*: nothing in the code relates two executions but that the queue is not empty,
  which is a choice in `ScanJobs`. Two workers: the one that lost the job and the one
  that has it. Three troubles: a stop, a stalled job, and a crash.
- *activation*: two calls at a time, of which one may be a user's, a retry or a removal.
  The shapes are the least that let one node, poll time or rule fail after another has
  started.
- *partial*: the eleven connections have two cycles through a loop node, a third through
  the destination, a merge and a bypass; two outputs and two inputs. The two nodes that
  may be disabled can lead to each other, so they can be in a row or in a cycle.

`lifecycle_wait_stop` and `broker` use symmetry, for properties that are no liveness.
`lifecycle_wait_stop` leaves `began`, the history of starts, and `log` out of its view
(`NoHistory`): no guard reads them in a run without boot-ups, and the properties only
ask whether a step changes `began`.

`CHECK_DEADLOCK FALSE` is in every configuration since the modelled work ends: all
executions done, all requests answered, no restart or update left within bounds.

### Fairness

- *Queue*: a running execution ends (`Dequeue`). Starting and cancelling is up to users.
  A workflow that never ends would keep its slot; the default timeout is off, so this is
  an assumption on workflows.
- *Lifecycle*: what the event loop has to do it does (`GoOn`, `RunEnqueued`, the poll,
  its timers); nodes return, also cancelled ones, and workflows end; a process that is
  down is started again. No stop, no timeout, no save of progress and no crash is
  required. Without the last there is nothing to say about executions that a crash
  leaves behind.
- *Broker*: messages arrive, timers fire, offers expire by their own clocks, intervals
  come round, a stopping runner ends, a websocket whose other end is gone closes, and
  code of a task ends or is aborted. `Connect` has no fairness: nothing makes an
  external runner start. `RunnerEnds` has it only for a runner that stops, and
  `Deregister` only for one that is gone.
- *Recovery*: as for the lifecycle; the steps of a start follow each other.
- *Multi-main*: intervals come round, Redis executes, a client reconnects, handlers go
  on, from `Fire` to `Resume` or `GiveUp` too. No cut, crash or shutdown is required.
- *Scaling*: main and workers go on, Bull finds the jobs whose lock is not renewed, a
  worker that ends does so, recovery is repeated. No trouble is required.
- *Activation*: calls go on and timers fire; nodes need not fail.

All of it is weak fairness: no step needs to be chosen among others that keep
disabling it.

### What the properties say

Several properties are conjunctions of named parts, each stated with its own comment
in the module.

`ImplementsQueue` ties the lifecycle to the queue: as long as no shutdown is modelled
(`MaxRestarts = 0`) every step, whatever stops, timeouts, resumes and ends it makes,
does one of the queue's operations for a run in the right phase, or none. So the
queue's theorems hold of it.

`SlotsReturned` (accounting, no leak, every entry has an owner) is about a slot that is
released by a promise that is found by execution id. `StartsBounded` and `NothingStuck`
are about what crashes, shutdowns and stops leave behind. The limit in `StartsBounded`
ends with the signal: a shutdown disables concurrency control, and the rest of the boot
loop passes at once. `NothingStuck` (`ShutdownEnds` and `RowsSettle`) excepts one row,
`LeftRunning`: the one that a saved progress set to running after the execution was
cancelled.

`StopHolds`, in the lifecycle, says when a stop is final. The documented property, a
stopped execution does not run, is false (section 5); what is true is that it is not
started again, and that its row stays canceled unless something was written or logged
after the cancellation (`late`), if it was within reach of the stop. `OutOfReach` lists
when it is not: its row has been read by a poll or at boot-up and it has not been
started yet; it was resumed and waits in the queue with its row due, with its timer set
again, or twice; it is between the queue and the start of its workflow; it is being put
to wait, also if that was cancelled already; it executes while its entry is gone, is
another run's or says that it waits, or while another run of it is queued. TLC or the
attempt to prove the property found each of them. The `StopHolds` of `ScalingQueue` does
the same for a job: no entry, nothing attached, just being picked up, not registered
with the worker, or lost by it; or a node that did not heed the abort saved its
progress.

`NothingLeft`, in `ScalingQueue`, says that row and entry settle, and `Abandoned` when
they do not: a main that waits for a job which had ended before (`deaf`) or has
restarted, a job taken away by a stop from a worker that then failed, a final save that
failed (`unsaved`), a progress that was saved late; and an execution of which the job
was taken from a worker that lives, since two then write its row.

`RequestsMatched` and `TaskHasRequester` together say that a request is always in exactly
one place, although it stays in the list while it is being accepted and may be listed
twice. `TasksAgree` says that the two timers of a task, the answer and the
cancellation never leave user code running for nobody. `RequestAnswered` has to allow for
`known = {}`: without runners a request waits (the code has no timeout for it).

`OrphansExplained` and `WaitingLostOnlyIfBroken` give the conditions under which recovery
leaves a row running or loses a waiting execution: the latter only if a recovery was
cut short, or met an execution that the wait tracker had resumed before it (which the
history variable `broken` records).

`LeadershipSound` bounds how long leader and key may differ: two leaders last until the
stale one reads the key; a key without an end has a holder that is about to give it one
or died in between; and a main holds the key without acting on it only after its
connection was lost. `LeaderServes` says that, with these exceptions, one main leads for
good and what waits is resumed unless the leader has an entry with a cleared timer for
it. `ResumedOnce` says when an execution is resumed twice: some main was cut off, or a
timer was set out of place (`loose`), after a step-down or in the window between `Fire`
and `Resume`; so changes of leadership, shutdowns and crashes alone do not do it.

`ActiveAsSaved` and `NothingStray` are conditional on `why`, as few kinds of events as
possible for each part: an overlap of calls, a trigger that fails while a call goes on
(`late`), a workflow that was started in part, crons included (`halfway`), a trigger that was not
closed (`close`), and a retry that is forbidden. All were found by TLC.

`WaysKept`, `StartsAreFirst` and `StackSound` compare what the graph algorithms return
with reachability in the graph they are given. Three of their parts are weaker than what
the code says of itself (section 5), and say how much weaker. `AssertionsHold`: the
code's own assertions fail if and only if disabled nodes circle before the destination.
`ComponentsFound` and `CyclesEntered`: every cycle is found, and has one start at an
entry, if no two cycles share a node (`Untangled`); if some do, what is found is never
too much and no cycle is left without its start. `StartsAreFirst`: the start nodes are
the earliest along the ways data takes, pinned data included, and one is missed only
behind a pinned node without items in its run data.

`SlotsReturned` holds where nothing waits: a stop that meets an execution while it is
being put to wait takes its entry and leaves its slot taken for good
(`WaitingEntryIsSettled` in section 5). The limit, a part of `StartsBounded`, holds
until a signal and where nobody stops an execution that waits in the queue.

## 4. What is proved

`ConcurrencyQueue_proofs`, for every finite set `Execution` (`ExecutionAssumption`)
and every `Limit` above zero (`LimitAssumption`: the service makes a queue only then):

| Theorem | Says |
|---|---|
| `TypeCorrect` | the types, and that the counter never exceeds the limit |
| `CounterIsExact` | `capacity = Limit - running - waiting` |
| `NoIdleSlot` | nobody waits while fewer than `Limit` run |
| `OvershootIsBounded` | at most one too many per cancellation |
| `SlotsAreExact` | these three, as the run checks them |
| `LimitUntilCancellation` | the documented limit, as long as no waiting execution is cancelled |
| `ReleasedInOrder` | FIFO, as an action property |
| `Refinement` | the queue implements `AdmissionContract` |

The inductive invariant `IInv` is the conjunction of the five invariants of the
module. `Accounting` is not inductive alone: that `dequeue` releases somebody who
really waits needs `QueueIsPending` (the list holds exactly the executions whose
phase is `queued`, once each), which also gives, with `Accounting`, that
`capacity < 0` means that somebody waits. `WorkConserving` then follows across a
release because the slot that becomes free is handed over in the same step.
`BoundedOvershoot` rests on `WorkConserving` and `Accounting` for `enqueue` and counts
one removal per release for `remove`. The proof has one lemma per action and, below,
lemmas on `splice` (`RemoveAtProperties`), `shift` (`ShiftProperties`) and on how a step
changes the number of running executions (`RunningCounts`). The refinement has one
lemma per action too: `Enqueue` is `Start` or `Wait`, by `Accounting`; `Dequeue` is `Finish`;
`RemoveQueued` is `GiveUp`.

`CrashRecovery_proofs`, for every set `Execution` and all values of the bounds
(`RecoveryBounds` says no more than that they are numbers):

| Theorem | Says |
|---|---|
| `TypeCorrect` | the types, the ages of messages within what the log keeps, and the bounds |
| `NoOrphanSimple` | mode simple: once the process is up, a row that says running has a run behind it |
| `OrphansAreSilent` | mode extensive: one that has none is an execution of which the log has the beginning and no node |
| `OrphansAreExplained` | both |
| `WaitingLostExplained` | mode extensive: an execution that waits is only lost after a recovery that was cut short or met a resumed execution |

Neither `NoOrphan` nor `OnlySilentOrphans` says anything while a process starts, so
neither is inductive. `RunningIsCovered` says for each stage who answers for a row that
says running: a run of this process (also one that the wait tracker resumed early),
the start that has not read the rows yet, its list, the amendment under way, or the
log that has no more than the beginning. `ReadLog` establishes it from the rows alone,
whatever crashes left before, which is why nothing about earlier processes is
needed. `RecoveryIsExtensive` adds that what the recovery has written does not say
running, and `BootsLeft` is about the bound. There is one lemma for the steps of
a run, one for the steps of an execution, one for the steps of the process, and
`OthersLive` for what a step of one run does to the runs of the others.

`WaitingLostExplained` has an invariant of its own, `WaitingKept`, as long as the mode is
extensive and no recovery broke. A waiting row says crashed only between the two
writes of `amend`, the hooks' being the second (`AmendedInTime`); that the row which `amend`
writes back is not older than a resume needs that no timer is set for a row which
does not wait (`TimersFit`), and that nothing else starts an execution before its turn
(`EnqueuedIdle`). The flag file says that a recovery was cut short (`FlagFits`).

`ScalingQueue_proofs`, for every set `Execution`, every finite set `Worker`
(`WorkersAssumption`), any set of executions that save their progress
(`ProgressAssumption`) and all values of the bounds (`ScalingBounds`):

| Theorem | Says |
|---|---|
| `TypeCorrect` | the types, and that an active job has a worker that was given it |
| `RunsOnceAlways` | one start, and one more per stall; two at once only if a job was taken from a worker that lives |
| `StopsHold` | what was stopped stays stopped, but for the cases the module names, a progress saved late among them |

`RunsOnce` counts starts against stalls, which no step keeps by itself: the inductive
invariant counts the pickups (`StartsCounted`: starts made, and starts that workers
who picked the job up have still to make, are at most its pickups), and knows who can
be busy with a job (`OneIsBusy`: the worker that holds it, or the one that held it when
it left the queue). For `StopHolds` it follows a stop to the job: once `stopJob` is over
the job has left the queue (`StopsReach`), or the worker that is busy with it will
be told (`BusyAreTold`). What fails to arrive (`slipped`) or is taken from a worker that
lives (`stolen`) is left out by history variables, as in the properties.

`ExecutionLifecycle_proofs`, for every finite set `Execution` (`ExecutionAssumption`), every
`Limit` above zero (`LimitAssumption`) and all values of the other
bounds (`BoundsAssumption`):

| Theorem | Says |
|---|---|
| `TypeCorrect` | the types, and that the counter never exceeds the limit |
| `SlotsAccounted` | while control is enabled, `capacity = Limit` less the runs that hold a unit less those that wait |
| `EachProcessQueues` | from its start to the signal that ends it, every step of a process is a step of `ConcurrencyQueue` or leaves the queue alone |
| `QueueImplemented` | without restarts (`MaxRestarts = 0`), the process implements `ConcurrencyQueue` |
| `SlotsAndEntriesReturned` | `SlotsReturned`, for executions that never wait: however one ends, its slot and its entry are given back once |
| `StartsAreBounded` | `StartsBounded`, for executions that never wait: one start per workflow over all restarts, and the limit, until a signal or until somebody stops one |
| `StopsHold` | `StopHolds`, for all executions: what a stop found within its reach is not started again, and stays canceled unless something was written or logged late |

`SlotAccounting` needs to know that a unit is only taken by a run that was not there, only
handed to one that waits, and only given back by a run that has one. `QueueInv` says the
second and third: the list holds runs that wait, once each (`QueueIsQueued`), and nobody
awaits the end of a run before it is registered (`NotRegistered`). `Fresh` says the first,
and that is about the database and what was read from it: an execution without a row
is in no list, and one that boot-up found enqueued has no run. A promise that is settled by
execution id may be another run's (`SettlePromise`), which is why the invariant follows
promises and not entries. Every step is then one of four things for the queue (`Takes`, `Gives`,
`Drops`, `LeavesQueue`), with one lemma that says that it keeps `QueueInv` and one that says
which step of `ConcurrencyQueue` it is; and each action of the process has a lemma that
says which of the four it is. `QueueImplemented` has its condition because a restart empties the
queue of the process, which no step of `ConcurrencyQueue` does; `EachProcessQueues` says
what is true then.

`SlotsAndEntriesReturned` and `StartsAreBounded` are for executions that never wait
(`~CanWait`, as in the run `lifecycle`), with any number of stops, time-outs, shutdowns
and crashes. The condition is not for the proof's convenience. With executions that
wait, `SlotsReturned` does not hold of the code (`WaitingEntryIsSettled` in section 5).
It makes things simpler, too: an execution has one run in a process, so that all that
belongs to it (its run, entry, row, place in the list of boot-up, stop) fits in one
predicate, `Sound(e)`. Every step changes these of one execution, but that it may let
the head of the queue through (`Elsewhere`), and there is one lemma per action. That a
workflow starts once rests on what its row says: new, or found so by boot-up, means not
begun. The limit rests on `Balanced`: until somebody is removed from the queue it has no
more waiting than the counter is below zero, so with `SlotAccounting` those who execute
or are about to (`Committed`) are at most `Limit`. Once a shutdown has disabled control
there is no limit, until the next process starts with an empty memory.

`StopsHold` is for all executions, those that wait and are resumed any number of times
too. A stop within its reach leaves an execution idle (`Idle`): each of its runs has
nothing left to do or waits in a queue that is off (`Rests`), and no timer of the wait
tracker, no poll and no list of boot-up has it; its row is not due once the stop has
written it, and the log does not have it unfinished (`Silent`), or the next process
would mark it crashed. That a stopped execution is not in the log needs to know who is
(`LogInv`): one that executes, that crashed with an earlier process, or whose node
logged its end late. `Reached` says that a stop brings it there, and needs that a run in
phase `queued` is in the queue (`WaitsInQueue`, the converse of `QueueIsQueued`), so
that the stop which removes one run has removed all. No step takes it back from there
(`StaysIdle`): a stopped execution's row is new or due to nobody who reads it later, and
what else is written to it or logged makes it late (`RowRests`). The attempt to prove it
showed the last cases of `OutOfReach`: with three runs, a second stop may meet an
execution that is in the queue twice, or that goes on under an entry which says it
waits, or whose cancelled run is still in the hook that puts it to wait.

`TaskBroker_proofs`, for every set `Request`, every set `Runner`, all `Fleets`
(`FleetAssumption`) and all values of the bounds (`NumbersAssumption`):

| Theorem | Says |
|---|---|
| `TypeCorrect` | the types of the broker's records, of the runners' and of the messages between them |
| `RequestsAreMatched` | `RequestsMatched`: a request that waits is listed, and locked exactly while one `acceptOffer` call is at work for it |
| `TasksHaveRequesters` | `TaskHasRequester`: one task for each requester that waits for a result, and no other |
| `RunnersAreBounded` | `RunnersBounded`: offers and tasks are those of registered runners, and within a runner's capacity |
| `TasksDoAgree` | `TasksAgree`: settings never meet a task that runs, and no code runs for nobody |

The inductive invariant has four parts. `MatchInv` is about requests and calls alone: in
which lists a request is in each state (`RequestFits`), and that no two calls are for the same
request (`CallFits`). It gives the first two properties whatever the runners do, so a
late answer of a runner can do no harm there. `RunnersBounded` is nearly inductive: it needs
that an answer which arrives is that of the runner the call was made to. This is `Mine`, a part of
`LinkInv`, which relates broker and runner for each runner and task (`Link`): an accepted offer
reaches the runner before anything else about that task, settings come after the
answer to it and at most once, the end comes when the runner has forgotten the task,
and what runs or is about to is wanted (`Wanted`). Every step concerns one task at one runner
but for those that end a process or a registration; `Quiet` says what is left alone. All of it
rests on ids of tasks that are not used again while something mentions them
(`FreshFacts`).

`MultiMain_proofs`, for every set `Main`, every set `Execution`, all values of `Ttl` and of the
bounds (`MultiMainBounds`, `MainAssumption`):

| Theorem | Says |
|---|---|
| `TypeCorrect` | the types, and that a key without a holder has no life |
| `LeadershipIsSound` | `LeadershipSound`: leader, holder and life of the key agree up to what cuts, crashes and shutdowns explain |
| `ExecutionsResumedOnce` | `ResumedOnce`, for `Ttl > 1` |

`LeadershipSound` speaks of a main that has the answers to all it asked. The invariant
`LockInv` says in addition which commands may be under way in which stage (`PipeSound`),
that a leader which cannot tell has a GET under way (`LeaderKnows`), and that a holder
which was never cut off has sent the command that gives the key its time to live
(`HolderKnows`). It holds for each main by itself, whatever the others do to the key.
For `ResumedOnce` there must be one leader, which is so while no connection was lost:
the leader holds the key, with its whole time to live between two checks
(`TracksAsLeader`). And as long as no timer was set out of place an execution is on its
way through one call at most and has no timer meanwhile (`OneResume`). With `Ttl = 1`
that is false, and TLC finds two mains that resume the same execution: the key expires
at the check that was to renew it. The code has 10 seconds for the key and 3 for the
interval, so the condition is what the code configures.

`WorkflowActivation_proofs`, for every set of shapes of a workflow and all values of the bounds
(`ActivationBounds`):

| Theorem | Says |
|---|---|
| `TypeCorrect` | the types, and that an entry has one response per trigger |
| `NothingIsStray` | `NothingStray`: one retry at a time, which a removal finds; what an entry holds listens, and what listens has an owner who can close it |
| `ActiveRunsAsSaved` | `ActiveAsSaved`: at rest, an active workflow runs with the nodes saved last or will be tried again, and of any other nothing is left, crons included; each but for the named mishaps |

The properties leave out what certain events explain, which the history variable `why`
records, and the invariant does so part by part. `OneRetry` is lost only if a trigger
fails while a call goes on, `Open` (what an entry holds listens) only if a trigger is
not closed, and `Own` (what a call starts is its own until it is registered) never. The
rest holds as long as nothing was left astray (`Calm`). Then a call that activates the
workflow is alone from its first step to its last (`AloneAfter`), and each call may rely
on what it found at its step before: `Phase(c)` says what that is, per step of the code,
the number of crons registered so far included. `InStep` says what the memory is between
calls: that of the last call, or none. `NothingStray` follows from these. That an active
workflow is not forgotten does not: `Attended` adds that, until it runs or will be tried
again, some call has still to see to it. Ids of triggers, crons and timers are numbers
that nothing mentions at the time; that there always is one (`UnusedIsNew`) needs that
what mentions them is finite, which is part of `Typed`.

Model-checked only is `PartialExecution`, whose recursive operators are out of the
prover's reach, and all liveness, the prover having no support for `ENABLED`: that what
waits gets on, is answered, ends or settles, in each module. Induction over numbers is
used in the proofs in its form for sets (`Induction` and `LeastNumber` in
`QueueLemmas`); what would need it in the form of the library, with an operator as a
parameter, stays out.

## 5. Disagreements between the code and what it says of itself

With a run each:

1. `resume_ended`: `WaitTracker.startExecution` forgets its timer before it awaits `run`,
   which may wait in the queue; the next poll finds the row still due and resumes
   it again, and the second run starts after the first succeeded
   (`cli/wait-tracker.ts:116`).
2. `recovery_waiting`: the log has no end for an execution that waits, so in simple
   mode any restart, a clean one too, marks it as crashed and nobody resumes it
   (`packages/@n8n/config/src/configs/event-bus.config.ts:28`). In extensive mode it is
   lost only if a recovery is cut short (`WaitingLostOnlyIfBroken`).

Stated in the modules, without a run in the list. Each is seen by checking the
definition with the constants given:

| Definition | What happens | Text it is taken from | Seen with |
|---|---|---|---|
| `MaxConcurrent` | `ConcurrencyQueue.remove` releases the next execution although no running one ended; `OvershootIsBounded` says by how much the limit is exceeded | `cli/config/schema.ts:33` | 4 executions, limit 1 |
| `ShutdownEmptiesQueue` | concurrency control is disabled before `removeAll`, which therefore returns at once | `cli/concurrency/concurrency-control.service.ts:138` | 2 executions, `MaxRestarts = 1` |
| `WaitingDoesNotBlockShutdown` | an execution that is put to wait after the loop of `shutdown` looked keeps its entry and blocks the shutdown until the process is forced to exit | `cli/active-executions.ts:233` | `CanWait`, `MaxRestarts = 1` |
| `OnlyUnfinishedStopped` | the row is checked, later overwritten with `canceled` without another look | `cli/executions/execution.service.ts:443` | 1 execution, `MaxStops = 1` |
| `StoppedDoesNotRun` | between queue and `ActiveExecutions` a stop finds the execution nowhere and only writes the row | `cli/executions/__tests__/execution.service.test.ts:155` | 1 execution, `MaxStops = 1` |
| `WaitingEntryIsSettled` | a stop that comes when a node has put the execution to wait and its run has not ended deletes an entry with a pending promise | `cli/active-executions.ts:159` | 1 execution, `CanWait`, `MaxStops = 1` |
| `CrashedIsMarked` | an execution with its beginning alone in the log is left running by extensive recovery | `packages/@n8n/config/src/configs/event-bus.config.ts:28` | 1 execution, `MaxBoots = 1` |
| `LiveNotCrashed` | the wait tracker resumes an execution before the event bus is initialized, which then takes its row for one left behind | `cli/eventbus/message-event-bus/message-event-bus.ts:145` | 1 execution, `MaxWaits = 1`, `MaxBoots = 1` |
| `FollowerDoesNotPrune` | `stopPruning` asks whether the main is leader, after it was marked as follower, and stops nothing | `cli/scaling/multi-main-setup.ee.ts:14` | 2 mains, `MaxCuts = 1` |
| `LeaderResumes` | `stopTracking` clears timers and keeps their entries, so a main that leads again does not set them | `cli/scaling/multi-main-setup.ee.ts:20` | as `multi_main` |
| `AlwaysLed` | a claim that is sent again makes the holder of the key a follower that renews it; a crash before the EXPIRE leaves the key for ever | `cli/scaling/multi-main-setup.ee.ts` | as `multi_main` |
| `DanglingMarked` | queue recovery gives up when the queue is empty, and a row is marked only while another job is there | `cli/scaling/scaling.service.ts:460` | as `scaling` |
| `SuccessKept` | rows and jobs are read one after the other: a row that has just ended is marked as crashed | `cli/scaling/scaling.service.ts:460` | as `scaling` |
| `SomethingRuns` | a trigger with pinned data that has not run yet is no start node, and nothing after it has data | `find-start-nodes.ts` | `MayPin` with the trigger |

And some are exceptions that a passing property makes, so that its run shows where the rest holds:

| Property, exception | What happens | Text |
|---|---|---|
| `AssertionsHold`, `circling` | two disabled nodes that lead to each other: the connection to the second is made anew when the first is removed, and leads to a node that is gone | the assertions of `directed-graph.ts` |
| `ComponentsFound`, `CyclesEntered`, unless `Untangled` | low ids are not revised when that of a node on the way falls, so a cycle of three that shares a node with one of two can be missed | `directed-graph.ts:294-299`, `handle-cycles.ts:6-13` |
| `StartsAreFirst`, `Unseen` | whether data arrives is asked of the run data alone, so the search ends at a pinned node that has none | `find-start-nodes.ts:132-148` |
| `StartsBounded`, `Enabled` | the boot loop outlives the signal, and the limit does not | `cli/config/schema.ts:33` |
| `StopHolds` and `NothingStuck`, `late` | a node does not heed the abort: the save of its progress sets the row to running, and nobody corrects it before the next start; or its end is logged last, and the next start marks the execution as crashed | |
| `NothingLeft`, `unsaved` | the final save fails twice: the job completes, and the row says running without a job | `cli/scaling/scaling.service.ts:460` |
| `NothingLeft`, `deaf` | a job that ends and is removed before `job.finished()` is waited for without end | |
| `ResumedOnce`, `loose` | a poll in the window of `startExecution` resumes the execution again | `cli/wait-tracker.ts:116` |
| `ActiveAsSaved`, `halfway` | a poll time or rule that throws leaves the crons of those before it, for a workflow that is saved as inactive | |

`ShutdownEnds`, a part of `NothingStuck`, holds in `lifecycle`, where nothing waits; with
`CanWait` it is the third line of this table.

## 6. What is abstracted, and what is not modelled

*Queue and lifecycle.* Production executions only: modes without a limit, the second
queue for evaluations, resuming a parent execution and resuming by webhook are left
out. The last is a race of its own, since `remove` goes by the mode of the stored row,
which for a manual execution that a webhook resumes is not the mode it was queued
under. `Resume` reads the row and throttles in one step. The order of shutdown
handlers is not modelled. Executions that wait at boot-up are in `CrashRecovery`.

*Broker.* Data, RPC and node-type requests pass through by task id. A runner's
asynchronous connection removal is the time between the end of its process and
`Deregister`; two removals of one connection are not modelled. Running the code of a
task is one step of any length. A rejected or timed-out acceptance does not make
the broker match again, so a request may wait beside a launcher's offer, which
does not expire, until somebody else comes: this is listed as a hazard, since with
ordinary runners a new offer follows. A deferred request leaves a stale entry in the
list when it is answered; harmless, as it stays marked. The restart-loop detector
and the disconnect analyzer need time and are not modelled; the timer that should
end the wait of `SlidingWindowSignal` (`sliding-window-signal.ts:51`) is set without a
delay there.

*Recovery.* The run data that is reconstructed, the deletion of executions that are
not to be saved, and executions that succeeded without data are abstracted away. The
worker thread that writes the log is taken to keep up. A poll's read and its timers
are one step, and a resumed execution is registered before the next poll. Seen in
the model, without a text of the repository that speaks of it: in extensive mode an
execution can run twice at a time, and a row that says success can be set back by
`amend`, when a resumed execution ends between its read and its write.

*Multi-main.* The mains' clocks tick together: the checks of a round are sent in one
step and answered in any order, and a slow main is one whose connection is cut. Of the
listeners, wait tracker and pruning are modelled; queue recovery and the triggers start
and stop the same way. What pruning deletes is left out. ioredis is taken at its
documented word about what it sends again. Of the row of an execution there is whether
it waits or was resumed; how it ends is in `ExecutionLifecycle` and `ScalingQueue`.

*Scaling.* One main; Bull's queue, its locks and its check for stalled jobs are
external. Executions that wait, webhook responses, metrics and manual executions
that are offloaded or not are left out. In the code a recovery that is under way when
the leader steps down schedules the next one (`scaling.service.ts:437`); that needs
both this module and `MultiMain` and is not modelled.

*Activation.* One main and one workflow; rows of webhooks, activation by commands
between mains, error messages for users, and the length of the back-off. All of a
workflow's triggers close in one step unless one fails. A poller that fails later
than at its start only makes an error execution and is left out.

*Partial execution.* Connections of type Main. Which trigger is chosen is given, and it and the
destination are enabled. Run
data are whether a node has run, and which of its outputs had items; several runs of
a node are not told apart.

*Not modelled*: debouncing of commands and their forwarding (`cli/scaling/pubsub/`),
sending and confirming of event-bus messages to destinations, webhooks, the engine's
node stack, expressions, nodes, the editor, and the parts without state that
outlives a call. The engine's node stack is the largest: its control depends on the
data of every node, and nothing in it runs concurrently but cancellation.

## 7. What could come next

The model covers the parts where steps of several actors meet. What is left with
behaviour of that kind: the event bus with its destinations (log, send, confirm,
re-send over restarts), test webhooks in a cache that several mains share, and the
composition of `MultiMain` with `ScalingQueue` and `WorkflowActivation`, whose calls become
commands between mains.

Of the proofs: the type of `PartialExecution`, if its recursive operators are
written as functions, and what its algorithms return, as far as it needs no induction over
graphs.

## 8. Checking it

```
tlc -workers 2 -config MCLifecycle.cfg MCExecutionLifecycle.tla
tlapm ConcurrencyQueue_proofs.tla
tlapm ExecutionLifecycle_proofs.tla
tlapm CrashRecovery_proofs.tla
tlapm ScalingQueue_proofs.tla
tlapm TaskBroker_proofs.tla
tlapm MultiMain_proofs.tla
tlapm WorkflowActivation_proofs.tla
```

Each run takes between a few seconds and a minute and a half, each proof module between
half a minute and five minutes.
