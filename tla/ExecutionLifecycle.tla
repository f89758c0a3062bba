--------------------------- MODULE ExecutionLifecycle ---------------------------
(***************************************************************************)
(* The life of an execution in one main process in regular mode: the       *)
(* database row, the concurrency queue, ActiveExecutions, WorkflowRunner,  *)
(* WaitTracker, ExecutionService.stop, shutdown, crash and boot-up.        *)
(*                                                                         *)
(* Each call of WorkflowRunner.run is a "run" <<e, k>>: the k-th attempt   *)
(* at execution e in this process. An execution has several when it waits  *)
(* and is resumed. ActiveExecutions holds one entry per execution; the     *)
(* entry is the object its latest run registered, so `active[e]' is that   *)
(* run's number, and the fields of the object (status, workflowExecution,  *)
(* postExecutePromise, responsePromise) are in the run's record.           *)
(*                                                                         *)
(* One action is one turn of the event loop: what a handler does from one  *)
(* `await' of the database to the next, with the row change at the start   *)
(* of the turn that follows it. Promise callbacks (the `.finally' of       *)
(* ActiveExecutions.add, the `.then' of runMainProcess) run in the turn    *)
(* that settles their promise.                                             *)
(***************************************************************************)
EXTENDS Integers, FiniteSets, SequencesExt

CONSTANTS
    Execution,   \* The ids of the executions.
    Limit,       \* executions.concurrency.productionLimit, above zero.
    WithResponse,\* The executions whose caller waits for a response.
    Outcome,     \* How workflows that are left alone end.
    MaxRuns,     \* Bound: runs per execution and process.
    MaxStops,    \* Bound: requests to stop an execution, per execution.
    MaxRestarts, \* Bound: process restarts.
    MaxTroubles, \* Bound: both together.
    CanWait,     \* Whether workflows have a node that puts them to wait.
    TimesOut,    \* The executions whose workflow has an execution timeout.
    SavesProgress \* The executions whose workflow saves its progress after each node.

ASSUME ExecutionAssumption == IsFiniteSet(Execution)
ASSUME LimitAssumption == Limit \in Nat \ {0}
ASSUME BoundsAssumption ==
    /\ MaxRuns \in Nat \ {0} /\ MaxStops \in Nat /\ MaxRestarts \in Nat
    /\ MaxTroubles \in Nat
    /\ WithResponse \subseteq Execution
    /\ Outcome \subseteq {"success", "error"} /\ Outcome # {}
    /\ CanWait \in BOOLEAN /\ TimesOut \subseteq Execution /\ SavesProgress \subseteq Execution

VARIABLES
    db,        \* The rows: status, and whether waitTill is set.
    log,       \* The executions that are started and not ended in the event log.
    run,       \* The runs of this process.
    active,    \* ActiveExecutions.activeExecutions: the run registered, or 0.
    capacity,  \* ConcurrencyQueue.capacity
    queue,     \* ConcurrencyQueue.queue, of runs.
    timers,    \* WaitTracker.waitingExecutions whose timer will fire.
    polled,    \* What a poll of WaitTracker read and has not handled yet.
    stop,      \* ExecutionService.stop requests: their progress, per execution.
    stops,     \* How many were made, for the bound.
    stage,     \* "up", "stopping" after a signal, "down".
    boot,      \* The executions runEnqueuedExecutions has still to run.
    restarts,  \* How often the process was started again, for the bound.
    began,     \* History: how often each execution's workflow was started.
    held,      \* History: executions that a stop found within its reach.
    late       \* History: executions that wrote or logged more after a cancellation.

\* What dies with the process.
memory == <<run, active, capacity, queue, timers, polled, stop, boot>>
history == <<stops, restarts, began, held, late>>
vars == <<db, log, memory, stage, history>>

RunNo == 1 .. MaxRuns
Runs == Execution \X RunNo

\* The status of a row ("none": not created yet).
DbStatus == {"none", "new", "running", "waiting", "success", "error", "canceled", "crashed"}
Terminal == {"success", "error", "canceled", "crashed"}

(* Where a run is:                                                         *)
(*   queued     awaits its promise in the concurrency queue                *)
(*   removed    was taken out of the queue: its promise never settles      *)
(*   admitted   let through, the row is about to be updated                *)
(*   added      registered in ActiveExecutions, permissions being checked  *)
(*   checked    passed, the row is about to be set to running              *)
(*   executing  its nodes execute                                          *)
(*   stray      its nodes execute, but nothing is attached to its result   *)
(*   parking    a node put the execution to wait, the row not yet saved    *)
(*   saved      the final row is saved, the result not yet reported        *)
(*   refused    the same, of one that did not pass the check               *)
(*   canceling  it was cancelled, the row not yet saved                    *)
(*   canceled   it was cancelled, the row saved, the result not reported   *)
(*   closing    it was cancelled, the result reported, the row not saved   *)
(*   over       nothing left to do                                         *)
(* and `cut' is what a run was doing when it was cancelled, until it heeds *)
(* the cancellation.                                                       *)
Step == {"none", "queued", "removed", "admitted", "added", "checked", "executing",
         "stray", "parking", "saved", "refused", "canceling", "canceled", "closing", "over"}

NoRun == [pc |-> "none", status |-> "running", attached |-> 0, promise |-> "none",
          response |-> FALSE, caller |-> FALSE, cut |-> "none"]

\* The runs that hold a slot of the concurrency limit: let through, and their
\* postExecutePromise has not settled.
Holding == {r \in Runs :
              \/ run[r].pc = "admitted"
              \/ run[r].promise = "pending"}

\* The runs whose workflow is executing nodes.
Executing == {r \in Runs : run[r].pc \in {"executing", "stray", "parking"}}

\* The stops and restarts so far, for the bound.
Quiet == SumFunction(stops) + restarts < MaxTroubles

Enabled == stage = "up"     \* ConcurrencyControlService.isEnabled

-----------------------------------------------------------------------------
(* Starting point of a process.                                            *)

NoRuns    == [r \in Runs |-> NoRun]
NoEntries == [e \in Execution |-> 0]
NoStops   == [e \in Execution |-> "none"]

Init ==
    /\ db = [e \in Execution |-> [status |-> "none", due |-> FALSE]]
    /\ log = {}
    /\ run = NoRuns /\ active = NoEntries /\ capacity = Limit /\ queue = <<>>
    /\ timers = {} /\ polled = {} /\ stop = NoStops /\ boot = {}
    /\ stage = "up"
    /\ stops = [e \in Execution |-> 0]
    /\ restarts = 0
    /\ began = [e \in Execution |-> 0]
    /\ held = {} /\ late = {}

-----------------------------------------------------------------------------
(* The concurrency queue and the promise of a run.                         *)

Shift(q) == IF q = <<>> THEN q ELSE Tail(q)

\* resolveNext: the promise at the head of the queue resolves.
Admit(R, q) == IF q = <<>> THEN R ELSE [R EXCEPT ![Head(q)].pc = "admitted"]

\* ConcurrencyControlService.throttle, for the run record function R. A run
\* that has to wait is logged as throttled, which ends what was logged of it.
ThrottleRun(R, r, logged) ==
    IF ~Enabled
    THEN run' = [R EXCEPT ![r].pc = "admitted"] /\ log' = logged /\ UNCHANGED <<capacity, queue>>
    ELSE /\ capacity' = capacity - 1
         /\ IF capacity' < 0
            THEN /\ run' = [R EXCEPT ![r].pc = "queued"] /\ queue' = Append(queue, r)
                 /\ log' = logged \ {r[1]}
            ELSE run' = [R EXCEPT ![r].pc = "admitted"] /\ queue' = queue /\ log' = logged

\* The run an execution would make next; MaxRuns bounds them.
IsNext(r) == /\ run[r].pc = "none"
             /\ \A j \in 1 .. r[2] - 1 : run[<<r[1], j>>].pc # "none"

\* Mutant: the release gives two units back.
ReleaseSlotTwice(R) ==
    IF Enabled
    THEN /\ capacity' = capacity + 2
         /\ queue' = Shift(queue)
         /\ run' = Admit(R, queue)
    ELSE run' = R /\ UNCHANGED <<capacity, queue>>

\* ConcurrencyControlService.release when a promise settles.
ReleaseSlot(R) ==
    IF Enabled
    THEN /\ capacity' = capacity + 1
         /\ queue' = Shift(queue)
         /\ run' = Admit(R, queue)
    ELSE run' = R /\ UNCHANGED <<capacity, queue>>

\* Mutant: the entry is dropped, the slot is not given back.
SettlePromiseKeepsSlot(R, r) ==
    IF R[r].promise # "pending"
    THEN run' = R /\ UNCHANGED <<active, capacity, queue>>
    ELSE /\ run' = [R EXCEPT ![r].promise = "settled"]
         /\ UNCHANGED <<capacity, queue>>
         /\ active' = IF R[r].status = "waiting" THEN active ELSE [active EXCEPT ![r[1]] = 0]

\* Mutant: an execution that waits keeps its slot.
SettlePromiseHoldsWaiting(R, r) ==
    IF R[r].promise # "pending"
    THEN run' = R /\ UNCHANGED <<active, capacity, queue>>
    ELSE IF R[r].status = "waiting"
         THEN run' = [R EXCEPT ![r].promise = "settled"] /\ UNCHANGED <<active, capacity, queue>>
         ELSE ReleaseSlot([R EXCEPT ![r].promise = "settled"]) /\ active' = [active EXCEPT ![r[1]] = 0]

\* Settling the postExecutePromise of run r (once: a settled promise ignores
\* further calls) and its `.finally': release, and forget the execution's
\* entry, whichever run registered it, unless r was put to wait.
SettlePromise(R, r) ==
    IF R[r].promise # "pending"
    THEN run' = R /\ UNCHANGED <<active, capacity, queue>>
    ELSE /\ ReleaseSlot([R EXCEPT ![r].promise = "settled"])
         /\ active' = IF R[r].status = "waiting" THEN active ELSE [active EXCEPT ![r[1]] = 0]

\* PCancelable.cancel() of the workflow execution of run r, if it is pending:
\* the abort signal is raised and the final hook begins. A node that is at work,
\* or the final hook of the run itself, goes on until it returns.
Canceled(R, r) ==
    IF R[r].pc \in {"executing", "parking", "saved"}
    THEN [R EXCEPT ![r].pc = "canceling",
                   ![r].cut = IF R[r].pc = "saved" THEN "none" ELSE R[r].pc]
    ELSE R

\* The first thing the final hook of a cancelled run does is to log its end.
CancelingLogged ==
    log' = {e \in log : \A k \in RunNo :
               run'[<<e, k>>].pc = "canceling" => run[<<e, k>>].pc = "canceling"}

\* Mutant: the promise is rejected, the workflow goes on.
CancelAttachedNot(R, r) == R

\* The workflow attached to the entry r is cancelled; none may be attached.
CancelAttached(R, r) ==
    IF R[r].attached = 0 THEN R ELSE Canceled(R, <<r[1], R[r].attached>>)

\* ActiveExecutions.stopExecution: nothing without an entry; an entry that
\* waits is only deleted; any other is cancelled and its promise rejected.
StopActive(e) ==
    LET r == <<e, active[e]>> IN
    IF active[e] = 0
    THEN UNCHANGED <<run, active, capacity, queue>>
    ELSE IF run[r].status = "waiting"
         THEN active' = [active EXCEPT ![e] = 0] /\ UNCHANGED <<run, capacity, queue>>
         ELSE SettlePromise(CancelAttached(run, r), r)

-----------------------------------------------------------------------------
(* WorkflowRunner.run and what it calls.                                   *)

\* A webhook or a trigger starts a new execution: the row is created, then
\* the run passes or waits in the queue. The server is closed after a signal,
\* and requests and triggers that are under way then still start executions.
StartNew(e) ==
    /\ stage # "down"
    /\ db[e].status = "none"
    /\ db' = [db EXCEPT ![e].status = "new"]
    /\ ThrottleRun([run EXCEPT ![<<e, 1>>].caller = e \in WithResponse], <<e, 1>>, log)
    /\ UNCHANGED <<active, timers, polled, stop, boot, stage, history>>

\* Start.runEnqueuedExecutions: one turn of its loop, which logs that the
\* execution is started during boot-up and runs it. The list was read when the
\* process started; the order of the ids plays no part. A signal does not end
\* the loop, and finds concurrency control disabled before it is through.
RunEnqueued(e) ==
    /\ stage # "down" /\ e \in boot
    /\ boot' = boot \ {e}
    /\ ThrottleRun(run, <<e, 1>>, log \ {e})
    /\ UNCHANGED <<db, active, timers, polled, stop, stage, history>>

\* ActiveExecutions.add after the throttle: the row becomes running, without a
\* waitTill, and the run's object takes the place of the execution's entry,
\* inheriting its response promise.
Add(r) ==
    /\ stage # "down" /\ run[r].pc = "admitted"
    /\ db' = [db EXCEPT ![r[1]] = [status |-> "running", due |-> FALSE]]
    /\ run' = [run EXCEPT ![r] = [NoRun EXCEPT
                 !.pc = "added",
                 !.promise = "pending",
                 !.caller = run[r].caller,
                 !.response = active[r[1]] # 0 /\ run[<<r[1], active[r[1]]>>].response]]
    /\ active' = [active EXCEPT ![r[1]] = r[2]]
    /\ UNCHANGED <<log, capacity, queue, timers, polled, stop, boot, stage, history>>

\* The credentials check passes. The response promise of a caller that waits
\* is attached to the entry; without an entry that throws and the run is over.
CheckPasses(r) ==
    LET e == r[1] IN
    /\ stage # "down" /\ run[r].pc = "added"
    /\ run' = IF ~run[r].caller THEN [run EXCEPT ![r].pc = "checked"]
              ELSE IF active[e] = 0 THEN [run EXCEPT ![r].pc = "over"]
              ELSE [run EXCEPT ![r].pc = "checked", ![<<e, active[e]>>].response = TRUE]
    /\ UNCHANGED <<db, log, active, capacity, queue, timers, polled, stop, boot, stage, history>>

\* It does not: a failed execution is saved and the promise of the entry is
\* settled in the same way as at the end of an execution.
CheckFails(r) ==
    /\ stage # "down" /\ run[r].pc = "added"
    /\ db' = [db EXCEPT ![r[1]].status = "error"]
    /\ log' = log \ {r[1]}
    /\ run' = [run EXCEPT ![r].pc = "refused"]
    /\ UNCHANGED <<active, capacity, queue, timers, polled, stop, boot, stage, history>>

\* The end of runMainProcess: the row is set to running again, the workflow
\* starts, is logged and is attached to the execution's entry. Without an entry the
\* attachment throws, after the workflow was started.
Begin(r) ==
    LET e == r[1] IN
    /\ stage # "down" /\ run[r].pc = "checked"
    /\ db' = [db EXCEPT ![e].status = "running"]
    /\ run' = IF active[e] = 0
              THEN [run EXCEPT ![r].pc = "stray"]
              ELSE [run EXCEPT ![r].pc = "executing", ![<<e, active[e]>>].attached = r[2]]
    /\ log' = log \cup {e}
    /\ began' = [began EXCEPT ![e] = @ + 1]
    /\ UNCHANGED <<active, capacity, queue, timers, polled, stop, boot, stage, stops, restarts, held, late>>

\* A node puts the execution to wait: the status of the entry says so at once.
PutToWait(r) ==
    LET e == r[1] IN
    /\ CanWait
    /\ stage # "down" /\ run[r].pc = "executing" /\ active[e] # 0
    /\ run' = [run EXCEPT ![r].pc = "parking", ![<<e, active[e]>>].status = "waiting"]
    /\ UNCHANGED <<db, log, active, capacity, queue, timers, polled, stop, boot, stage, history>>

\* The row after the final hook of a run that waits or has an outcome: `waitTill'
\* is only written for an execution that waits.
SavedRow(row, was) ==
    IF was = "parking" THEN {[status |-> "waiting", due |-> TRUE]}
    ELSE {[row EXCEPT !.status = outcome] : outcome \in Outcome}

\* An execution that waits has no end in the log.
SavedLog(e, was) == IF was = "parking" THEN log ELSE log \ {e}

\* saveExecutionProgress, after each node: the row says running again, unless
\* the execution has succeeded.
ProgressRow(row) == IF row.status = "success" THEN row ELSE [row EXCEPT !.status = "running"]

\* A node of a run returns and others follow, or the final hook.
SaveProgress(r) ==
    /\ r[1] \in SavesProgress
    /\ stage # "down" /\ r \in Executing
    /\ db' = [db EXCEPT ![r[1]] = ProgressRow(@)]
    /\ UNCHANGED <<log, run, active, capacity, queue, timers, polled, stop, boot, stage, history>>

\* The workflowExecuteAfter hook saves the row and logs the end.
Save(r) ==
    LET was == run[r].pc
        e   == r[1] IN
    /\ stage # "down"
    /\ \/ /\ was \in {"executing", "stray", "parking"}
          /\ \E row \in SavedRow(db[e], was) : db' = [db EXCEPT ![e] = row]
          /\ log' = SavedLog(e, was)
       \/ /\ was \in {"canceling", "closing"}
          /\ db' = [db EXCEPT ![e].status = "canceled"]
          /\ log' = log
    /\ run' = [run EXCEPT ![r].pc = CASE was \in {"stray", "closing"} -> "over"
                                     [] was = "canceling" -> "canceled"
                                     [] OTHER -> "saved"]
    /\ UNCHANGED <<active, capacity, queue, timers, polled, stop, boot, stage, history>>

\* What a cancelled run was doing comes to its end. A node heeds the abort
\* signal, and then nothing is logged or saved of it. Or it does not: its end is
\* logged, if it comes after the cancellation, and the progress is saved. Or the
\* run was in its final hook, whose save comes now.
NodeReturns(r) ==
    LET e == r[1] IN
    /\ stage # "down" /\ run[r].pc \in {"canceling", "canceled"} /\ run[r].cut # "none"
    /\ run' = [run EXCEPT ![r].cut = "none"]
    /\ \/ UNCHANGED <<db, log, late>>
       \/ /\ log' \in {log, log \cup {e}}
          /\ db' = IF e \in SavesProgress THEN [db EXCEPT ![e] = ProgressRow(@)] ELSE db
          /\ late' = late \cup {e}
       \/ /\ \E row \in SavedRow(db[e], run[r].cut) : db' = [db EXCEPT ![e] = row]
          /\ log' = SavedLog(e, run[r].cut)
          /\ late' = late \cup {e}
    /\ UNCHANGED <<active, capacity, queue, timers, polled, stop, boot, stage, stops, restarts, began, held>>

\* The result is reported to ActiveExecutions, by execution id: the entry's
\* promise is settled, whichever run it belongs to. Without an entry,
\* `getStatus' throws and processError ignores that. Nothing awaits the save of
\* a run that was cancelled.
Finalize(r) ==
    LET e == r[1]
        R == [run EXCEPT ![r].pc = IF @ = "canceling" THEN "closing" ELSE "over"] IN
    /\ stage # "down" /\ run[r].pc \in {"saved", "refused", "canceling", "canceled"}
    /\ run[r].cut = "none"
    /\ IF active[e] = 0
       THEN run' = R /\ UNCHANGED <<active, capacity, queue>>
       ELSE SettlePromise(R, <<e, active[e]>>)
    /\ UNCHANGED <<db, log, timers, polled, stop, boot, stage, history>>

\* The execution timeout stops whatever entry the execution has, as a user would,
\* without touching the row. It is set when a workflow has been attached, and
\* cleared when the result is reported.
TimeOut(r) ==
    /\ r[1] \in TimesOut
    /\ stage # "down"
    /\ run[r].pc \in {"executing", "parking", "saved", "canceling", "canceled"}
    /\ active[r[1]] # 0
    /\ StopActive(r[1])
    /\ CancelingLogged
    /\ UNCHANGED <<db, timers, polled, stop, boot, stage, history>>

-----------------------------------------------------------------------------
(* WaitTracker.                                                            *)

\* The poll reads the rows that are due: waitTill is set and soon, and the
\* status is not crashed. Other statuses are not looked at.
Due == {e \in Execution : db[e].due /\ db[e].status # "crashed"}

PollQuery ==
    /\ stage = "up" /\ polled = {} /\ Due \ timers # {}
    /\ polled' = Due \ timers
    /\ held' = {e \in held : e \in polled' => stop[e] # "during"}
    /\ UNCHANGED <<db, log, run, active, capacity, queue, timers, stop, boot, stage, stops, restarts, began, late>>

\* It then sets a timer for each that has none.
PollApply ==
    /\ stage # "down" /\ polled # {}
    /\ timers' = timers \cup polled
    /\ polled' = {}
    /\ UNCHANGED <<db, log, run, active, capacity, queue, stop, boot, stage, history>>

\* WaitTracker.startExecution when the timer fires: unless it has succeeded,
\* the execution as read from the database is run again. A node only waits in
\* the database for more than a minute, so the run that put it to wait has
\* reported by then.
Resume(e) ==
    /\ stage # "down" /\ e \in timers
    /\ \A k \in RunNo : run[<<e, k>>].pc # "saved"
    /\ timers' = timers \ {e}
    /\ \E k \in RunNo :
          /\ IsNext(<<e, k>>)
          /\ IF db[e].status = "success"
             THEN UNCHANGED <<log, run, capacity, queue>>
             ELSE ThrottleRun(run, <<e, k>>, log)
    /\ UNCHANGED <<db, active, polled, stop, boot, stage, history>>

-----------------------------------------------------------------------------
(* ExecutionService.stop.                                                  *)

Stoppable == {"new", "waiting", "running"}

\* The row is read and its status is checked.
StopCheck(e) ==
    /\ stage # "down" /\ stop[e] = "none" /\ stops[e] < MaxStops /\ Quiet
    /\ db[e].status \in Stoppable
    /\ stop' = [stop EXCEPT ![e] = "checked"]
    /\ stops' = [stops EXCEPT ![e] = @ + 1]
    /\ UNCHANGED <<db, log, run, active, capacity, queue, timers, polled, boot, stage, restarts, began, held, late>>

\* ConcurrencyControlService.has: not if control is disabled.
InQueue(e) == Enabled /\ \E i \in DOMAIN queue : queue[i][1] = e

\* Mutant: the run leaves the queue, its unit of capacity does not come back.
LeaveQueueKeepsUnit(e) ==
    \E i \in DOMAIN queue :
        LET rest == RemoveAt(queue, i) IN
        /\ queue[i][1] = e /\ \A j \in 1 .. i - 1 : queue[j][1] # e
        /\ capacity' = capacity
        /\ queue' = Shift(rest)
        /\ run' = Admit([run EXCEPT ![queue[i]].pc = "removed"], rest)

\* ConcurrencyQueue.remove, of the first run of the execution.
LeaveQueue(e) ==
    \E i \in DOMAIN queue :
        LET rest == RemoveAt(queue, i) IN
        /\ queue[i][1] = e /\ \A j \in 1 .. i - 1 : queue[j][1] # e
        /\ capacity' = capacity + 1
        /\ queue' = Shift(rest)
        /\ run' = Admit([run EXCEPT ![queue[i]].pc = "removed"], rest)

\* What a stop does not reach: a run that is through the queue and not yet
\* attached, one that is being put to wait, one that goes on without its entry
\* or with one that says that it waits, and what was read from the database
\* before. An execution that was resumed and leaves the queue keeps its waitTill,
\* its timer and its other places in the queue.
OutOfReach(e) ==
    \/ e \in boot \cup polled
    \/ /\ InQueue(e)
       /\ \/ db[e].due \/ e \in timers
          \/ \E i, j \in DOMAIN queue : i # j /\ queue[i][1] = e /\ queue[j][1] = e
    \/ \E k \in RunNo : LET r == <<e, k>> IN
          \/ run[r].pc \in {"admitted", "added", "checked", "stray", "parking"}
          \/ run[r].cut = "parking"
          \/ /\ run[r].pc = "executing"
             /\ \/ InQueue(e) \/ active[e] = 0
                \/ run[<<e, active[e]>>].attached # k
                \/ run[<<e, active[e]>>].status = "waiting"

\* stopInRegularMode up to its database update.
StopAct(e) ==
    /\ stage # "down" /\ stop[e] = "checked"
    /\ IF InQueue(e)
       THEN /\ LeaveQueue(e)
            /\ stop' = [stop EXCEPT ![e] = "before"]
            /\ UNCHANGED <<active, timers>>
       ELSE /\ StopActive(e)
            /\ timers' = timers \ {e}
            /\ stop' = [stop EXCEPT ![e] = "during"]
    /\ CancelingLogged
    /\ held' = IF OutOfReach(e) THEN held ELSE held \cup {e}
    /\ UNCHANGED <<db, polled, boot, stage, stops, restarts, began, late>>

\* Mutant: stopDuringRun leaves waitTill as it is, too.
StopWriteKeepsDue(e) ==
    /\ stage # "down" /\ stop[e] \in {"before", "during"}
    /\ db' = [db EXCEPT ![e].status = "canceled"]
    /\ stop' = [stop EXCEPT ![e] = "none"]
    /\ UNCHANGED <<log, run, active, capacity, queue, timers, polled, boot, stage, history>>

\* stopBeforeRun updates the status alone, stopDuringRun clears waitTill too.
StopWrite(e) ==
    /\ stage # "down" /\ stop[e] \in {"before", "during"}
    /\ db' = [db EXCEPT ![e] = [status |-> "canceled",
                                due |-> stop[e] = "before" /\ @.due]]
    /\ stop' = [stop EXCEPT ![e] = "none"]
    /\ UNCHANGED <<log, run, active, capacity, queue, timers, polled, boot, stage, history>>

-----------------------------------------------------------------------------
(* The end of a process, and the next one.                                 *)

\* The signal: the timers are cleared, concurrency control is disabled, the
\* executions with a response promise are stopped and the waiting ones
\* dropped. removeAll, which comes last, finds control disabled and returns:
\* the queue stays as it is and nothing is cancelled in the database.
Shutdown ==
    LET entry(e) == <<e, active[e]>>
        Present  == {e \in Execution : active[e] # 0}
        Waiting  == {e \in Present : run[entry(e)].status = "waiting"}
        Stopped  == {e \in Present \ Waiting : run[entry(e)].response}
        Settled  == [r \in Runs |-> IF r[1] \in Stopped /\ r = entry(r[1])
                                    THEN [run[r] EXCEPT !.promise = "settled"] ELSE run[r]]
    IN
    /\ stage = "up" /\ restarts < MaxRestarts /\ Quiet
    /\ stage' = "stopping"
    /\ timers' = {}
    /\ active' = [e \in Execution |-> IF e \in Waiting \cup Stopped THEN 0 ELSE active[e]]
    /\ run' = [r \in Runs |->
                 IF r[1] \in Stopped /\ run[entry(r[1])].attached = r[2]
                 THEN Canceled(Settled, r)[r] ELSE Settled[r]]
    /\ CancelingLogged
    /\ UNCHANGED <<db, capacity, queue, polled, stop, boot, history>>

\* What the process knew is gone, and a stop that it has not written.
MemoryLost ==
    /\ held' = {e \in held : stop[e] = "none"}
    /\ run' = NoRuns /\ active' = NoEntries /\ capacity' = Limit /\ queue' = <<>>
    /\ timers' = {} /\ polled' = {} /\ stop' = NoStops /\ boot' = {}

\* shutdown() ends when no execution is active, and the process exits.
Exit ==
    /\ stage = "stopping" /\ \A e \in Execution : active[e] = 0
    /\ stage' = "down"
    /\ MemoryLost
    /\ UNCHANGED <<db, log, stops, restarts, began, late>>

\* The process dies, or is forced to exit by the graceful shutdown timeout.
Crash ==
    /\ stage # "down" /\ restarts < MaxRestarts /\ Quiet
    /\ stage' = "down"
    /\ MemoryLost
    /\ UNCHANGED <<db, log, stops, restarts, began, late>>

\* Mutant: executions that were running are found and run again at boot-up.
RestartRerunsRunning ==
    /\ stage = "down" /\ ~CanWait
    /\ stage' = "up"
    /\ restarts' = restarts + 1
    /\ db' = [e \in Execution |->
                IF db[e].status = "running" \/ e \in log
                THEN [db[e] EXCEPT !.status = "new"] ELSE db[e]]
    /\ boot' = {e \in Execution : db'[e].status = "new"}
    /\ UNCHANGED <<run, active, capacity, queue, timers, polled, stop, stops, began, held, late, log>>

\* The next process, with crashRecoveryMode simple: the event bus marks as
\* crashed the executions whose row says running and, whatever their row says,
\* those the log has started and not ended; then runEnqueuedExecutions reads the
\* ones that are new. What the event log and the wait tracker do at boot-up to
\* executions that wait is in CrashRecovery.
Restart ==
    /\ stage = "down" /\ ~CanWait
    /\ stage' = "up"
    /\ restarts' = restarts + 1
    /\ db' = [e \in Execution |->
                IF db[e].status = "running" \/ e \in log
                THEN [db[e] EXCEPT !.status = "crashed"] ELSE db[e]]
    /\ boot' = {e \in Execution : db'[e].status = "new"}
    /\ UNCHANGED <<run, active, capacity, queue, timers, polled, stop, stops, began, held, late, log>>

-----------------------------------------------------------------------------

RunStep(r) ==
    \/ Add(r) \/ CheckPasses(r) \/ CheckFails(r) \/ Begin(r)
    \/ PutToWait(r) \/ SaveProgress(r) \/ Save(r) \/ NodeReturns(r)
    \/ Finalize(r) \/ TimeOut(r)

Next ==
    \/ \E e \in Execution : StartNew(e) \/ RunEnqueued(e) \/ Resume(e)
    \/ \E r \in Runs : RunStep(r)
    \/ \E e \in Execution : StopCheck(e) \/ StopAct(e) \/ StopWrite(e)
    \/ PollQuery \/ PollApply
    \/ Shutdown \/ Exit \/ Crash \/ Restart

Spec == Init /\ [][Next]_vars

\* What a run goes through by itself, from its place in the queue to its end.
GoOn(r) ==
    \/ Add(r) \/ CheckPasses(r) \/ CheckFails(r) \/ Begin(r)
    \/ Save(r) \/ NodeReturns(r) \/ Finalize(r)

\* The event loop keeps turning: a continuation that can run does, a poll is
\* made and its timers fire, and the process that went down is started again.
\* Nodes return, and workflows end. Nobody has to start, stop or time out an
\* execution.
Fairness ==
    /\ \A r \in Runs : WF_vars(GoOn(r))
    /\ \A e \in Execution :
          /\ WF_vars(RunEnqueued(e))
          /\ WF_vars(Resume(e))
          /\ WF_vars(StopAct(e) \/ StopWrite(e))
    /\ WF_vars(PollQuery \/ PollApply)
    /\ WF_vars(Exit \/ Restart)

FairSpec == Spec /\ Fairness

-----------------------------------------------------------------------------

TypeOK ==
    /\ db \in [Execution -> [status : DbStatus, due : BOOLEAN]]
    /\ run \in [Runs -> [pc : Step, status : {"running", "waiting"},
                         attached : 0 .. MaxRuns, promise : {"none", "pending", "settled"},
                         response : BOOLEAN, caller : BOOLEAN,
                         cut : {"none", "executing", "parking"}]]
    /\ log \subseteq Execution /\ late \subseteq Execution
    /\ active \in [Execution -> 0 .. MaxRuns]
    /\ capacity \in Int /\ capacity <= Limit
    /\ queue \in Seq(Runs)
    /\ timers \subseteq Execution /\ polled \subseteq Execution /\ boot \subseteq Execution
    /\ stop \in [Execution -> {"none", "checked", "before", "during"}]
    /\ stage \in {"up", "stopping", "down"}

\* While concurrency control is enabled, the counter is the limit less the
\* runs that were let through and have not given their slot back, less the
\* queue: stopping, timing out, failing, finishing and resuming an execution,
\* in any order, release each slot at most once and never one not taken.
SlotAccounting ==
    Enabled => capacity = Limit - Cardinality(Holding) - Len(queue)

\* Where a run is for the concurrency queue.
QueuePhase(r) ==
    CASE run[r].pc = "none"                -> "absent"
      [] run[r].pc \in {"queued", "removed"} -> run[r].pc
      [] r \in Holding                     -> "running"
      [] OTHER                             -> "finished"

Queue == INSTANCE ConcurrencyQueue WITH
    Execution <- Runs,
    phase <- [r \in Runs |-> QueuePhase(r)]

\* Until a shutdown, all that throttle, the promises' `.finally', stopping,
\* timing out and resuming do to the queue are its three operations, each for
\* a run in the phase it is meant for: a slot is released by a run that holds
\* one, once, and only a run that waits is removed.
ImplementsQueue == Queue!Spec

\* A run that has nothing left to do holds no slot, as long as nothing waits: a
\* stop may take the slot of an execution that is being put to wait with it (see
\* WaitingEntryIsSettled).
NoSlotLeak == \A r \in Runs : run[r].pc = "over" => run[r].promise # "pending"

\* ActiveExecutions only holds executions that somebody will take out again:
\* the run that registered the entry is still at work, or the execution waits.
EntryHasOwner ==
    \A e \in Execution :
        active[e] # 0 => LET r == <<e, active[e]>> IN
                         \/ run[r].pc \notin {"over", "removed"}
                         \/ run[r].status = "waiting"

\* Slots and entries are given back by those who took them, once, however an
\* execution ends.
SlotsReturned == SlotAccounting /\ NoSlotLeak /\ EntryHasOwner

\* A workflow is started at most once if it never waits, over any number of
\* stops, crashes and boot-ups: what the database calls new was not begun.
StartedOnce == \A e \in Execution : began[e] <= 1

\* Until a signal, at most Limit workflows execute at a time, over crashes and
\* boot-ups, as long as nobody stops one that waits in the queue (see MaxConcurrent
\* of ConcurrencyQueue). A process that shuts down has disabled its concurrency
\* control, and the rest of its boot loop and late triggers pass at once.
LimitHolds ==
    (Enabled /\ \A e \in Execution : stops[e] = 0) => Cardinality(Executing) <= Limit

\* No start is one too many, over shutdowns, crashes and boot-ups.
StartsBounded == StartedOnce /\ LimitHolds

\* A row that a saved progress set to running after the execution was cancelled,
\* which no run will change any more: the next process marks it crashed.
LeftRunning(e) == e \in SavesProgress \cap late /\ db[e].status = "running"

\* Every other row reaches a final status: no execution is new or running
\* forever, across stops, crashes and boot-ups.
RowsSettle ==
    \A e \in Execution :
        db[e].status # "none" ~> (db[e].status \in Terminal \/ LeftRunning(e))

\* A shutdown ends: nothing stays in ActiveExecutions that no run will remove.
ShutdownEnds == stage = "stopping" ~> stage = "down"

\* Nothing is left behind for ever: no process waiting for its runs and no row,
\* so no run in the queue, whose row says new.
NothingStuck == ShutdownEnds /\ RowsSettle

\* What a user has stopped stays stopped, in this process and the next: its
\* workflow is not started again, and the row stays canceled unless something was
\* written or logged after the cancellation, by a node that did not heed it or a
\* final hook that was under way. Not meant is what the stop found out of its
\* reach (stopInRegularMode, stopExecution, ConcurrencyQueue.remove,
\* WaitTracker.stopExecution, and MessageEventBus.initialize of the next process).
StopHolds ==
    [][\A e \in held :
        /\ began'[e] = began[e]
        /\ db[e].status = "canceled" /\ e \notin late' => db'[e].status = "canceled"]_vars

-----------------------------------------------------------------------------
(* What the code says of itself and does not keep.                         *)

\* concurrency-control.service.ts:137, of removeAll, which shutdown calls:
\* "Empty the production queue, releasing all capacity back. Also cancel any
\* enqueued executions that have response promises".
ShutdownEmptiesQueue == stage = "stopping" => queue = <<>>

\* active-executions.ts:233, of the loop in shutdown: "Remove waiting and new
\* executions to not block shutdown".
WaitingDoesNotBlockShutdown ==
    \A e \in Execution :
        (stage = "stopping" /\ active[e] # 0 /\ run[<<e, active[e]>>].status = "waiting")
            => run[<<e, active[e]>>].pc # "over"

\* wait-tracker.ts:116 refuses to resume: "The execution did succeed and can so
\* not be started again."
SucceededNotRestarted ==
    [][\A e \in Execution : db[e].status = "success" => db'[e].status # "running"]_vars

\* execution.service.ts:443 refuses to stop: "Only running or waiting executions
\* can be stopped".
OnlyUnfinishedStopped ==
    [][\A e \in Execution : db[e].status \in {"success", "error"} => db'[e].status # "canceled"]_vars

\* execution.service.test.ts:155 says of ExecutionService.stop: "should stop a
\* concurrency-controlled `new` execution in regular mode". A stopped execution
\* does not run.
StoppedDoesNotRun ==
    [][\A e \in Execution : db[e].status = "canceled" => db'[e].status # "running"]_vars

\* active-executions.ts:159, of the branch of stopExecution for an entry whose
\* status is waiting: "A waiting execution will not have a valid
\* workflowExecution or postExecutePromise".
WaitingEntryIsSettled ==
    [][\A e \in Execution :
          (stop[e] = "checked" /\ stop'[e] = "during" /\ active[e] # 0
           /\ run[<<e, active[e]>>].status = "waiting")
             => run[<<e, active[e]>>].promise # "pending"]_vars

=============================================================================
