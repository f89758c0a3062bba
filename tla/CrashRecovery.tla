----------------------------- MODULE CrashRecovery -----------------------------
(***************************************************************************)
(* What a main process in regular mode makes, when it starts, of the       *)
(* executions an earlier process left behind: MessageEventBus.initialize   *)
(* with ExecutionRecoveryService, between WaitTracker.init, which comes    *)
(* earlier, and Start.runEnqueuedExecutions, which comes later. They work  *)
(* from three sources that crashes leave out of step: the rows of the      *)
(* database, the event log on disk and the file that says that a recovery  *)
(* is going on.                                                            *)
(*                                                                         *)
(* The concurrency limit is off, as it is by default, so that              *)
(* WorkflowRunner.run goes straight to ActiveExecutions.add. The event     *)
(* log is what its reader makes of it: per execution, whether it finds it  *)
(* unfinished and which messages it has of it, and in how old a file. The  *)
(* worker thread that writes it is taken to keep up.                       *)
(***************************************************************************)
EXTENDS Integers, FiniteSets

CONSTANTS
    Execution,  \* The ids of the executions.
    MaxBoots,   \* Bound: how often the process is started again.
    MaxWaits,   \* Bound: how often nodes put executions to wait.
    CanStop     \* Whether waiting executions are stopped.

ASSUME RecoveryBounds == MaxBoots \in Nat /\ MaxWaits \in Nat /\ CanStop \in BOOLEAN

VARIABLES
    mode,    \* eventBus.crashRecoveryMode, the same at every start.
    db,      \* The rows: status, and whether waitTill is set.
    log,     \* What the event log says of each execution, if unfinished.
    flag,    \* Whether the file <log>.recoveryInProgress exists.
    stage,   \* How far the process has come with its start, or "down".
    run,     \* The calls of WorkflowRunner.run in this process.
    timers,  \* WaitTracker.waitingExecutions
    todo,    \* The executions the present part of the start has still to handle.
    amend,   \* recoverFromLogs for one of them: its step, and the row it read.
    boots,   \* How often the process was started again, for the bound.
    waits,   \* How often executions were put to wait, for the bound.
    broken   \* History: whether a process died during a recovery, or a recovery
             \* read or wrote the row of an execution that ran.

vars == <<mode, db, log, flag, stage, run, timers, todo, amend, boots, waits, broken>>

Status   == {"none", "new", "running", "waiting", "success", "error", "canceled", "crashed"}
Terminal == {"success", "error", "canceled", "crashed"}

\* An execution may be run a second time while it still runs.
Runs == Execution \X {1, 2}

\* starting    WaitTracker is at work, the event bus is not initialized
\* marking     all that is in `todo' will be marked as crashed at once
\* recovering  recoverFromLogs is called for all that is in `todo'
\* up          the server is ready; `todo' holds the enqueued executions
Stage == {"down", "starting", "marking", "recovering", "up"}

NoMessages == [msgs |-> "none", age |-> 0]
NoRun      == [at |-> "idle", again |-> FALSE]
NoAmend    == [id |-> "none", step |-> "none", row |-> [status |-> "none", due |-> FALSE]]

Up(r) == run[r].at # "idle"

\* Something runs the execution.
Live(e) == \E k \in {1, 2} : Up(<<e, k>>)

Init ==
    /\ mode \in {"simple", "extensive"}
    /\ db = [e \in Execution |-> [status |-> "none", due |-> FALSE]]
    /\ log = [e \in Execution |-> NoMessages]
    /\ flag = FALSE /\ stage = "up"
    /\ run = [r \in Runs |-> NoRun]
    /\ timers = {} /\ todo = {} /\ amend = NoAmend
    /\ boots = 0 /\ waits = 0 /\ broken = FALSE

-----------------------------------------------------------------------------
(* Running executions.                                                     *)

\* A message of execution e goes to the current log file, once the relay of
\* events to the bus listens, which it does after the bus is initialized.
Write(e, msgs) ==
    log' = IF stage = "up" THEN [log EXCEPT ![e] = [msgs |-> msgs, age |-> 0]] ELSE log

\* A webhook or a trigger starts an execution: its row is created.
Create(e) ==
    /\ stage = "up" /\ db[e].status = "none"
    /\ db' = [db EXCEPT ![e].status = "new"]
    /\ run' = [run EXCEPT ![<<e, 1>>] = [at |-> "called", again |-> FALSE]]
    /\ UNCHANGED <<mode, log, flag, stage, timers, todo, amend, boots, waits, broken>>

\* ActiveExecutions.add: the row says running and has no waitTill.
Register(r) ==
    /\ run[r].at = "called"
    /\ db' = [db EXCEPT ![r[1]] = [status |-> "running", due |-> FALSE]]
    /\ run' = [run EXCEPT ![r].at = "added"]
    /\ UNCHANGED <<mode, log, flag, stage, timers, todo, amend, boots, waits, broken>>

\* The workflow starts. n8n.workflow.started is only logged for a run that is
\* not given the id of an execution to go on with.
Begin(r) ==
    /\ run[r].at = "added"
    /\ db' = [db EXCEPT ![r[1]].status = "running"]
    /\ run' = [run EXCEPT ![r].at = "executing"]
    /\ IF run[r].again THEN UNCHANGED log ELSE Write(r[1], "started")
    /\ UNCHANGED <<mode, flag, stage, timers, todo, amend, boots, waits, broken>>

\* Its first node starts: n8n.node.started.
NodeStarts(r) ==
    /\ run[r].at = "executing" /\ stage = "up"
    /\ log[r[1]] # [msgs |-> "nodes", age |-> 0]
    /\ Write(r[1], "nodes")
    /\ UNCHANGED <<mode, db, flag, stage, run, timers, todo, amend, boots, waits, broken>>

\* A node puts the execution to wait and the row is saved. That is no end for
\* the log: n8n.workflow.success or failed is not logged.
PutToWait(r) ==
    /\ run[r].at = "executing" /\ waits < MaxWaits
    /\ db' = [db EXCEPT ![r[1]] = [status |-> "waiting", due |-> TRUE]]
    /\ run' = [run EXCEPT ![r] = NoRun]
    /\ waits' = waits + 1
    /\ Write(r[1], "nodes")
    /\ UNCHANGED <<mode, flag, stage, timers, todo, amend, boots, broken>>

\* The workflow ends, which is logged, and the row is saved.
End(r) ==
    /\ run[r].at = "executing"
    /\ \E status \in {"success", "error"} : db' = [db EXCEPT ![r[1]].status = status]
    /\ run' = [run EXCEPT ![r] = NoRun]
    /\ Write(r[1], "none")
    /\ UNCHANGED <<mode, flag, stage, timers, todo, amend, boots, waits, broken>>

-----------------------------------------------------------------------------
(* Waiting executions.                                                     *)

\* WaitTracker polls when it is started, early, and every minute. A resumed
\* execution is registered long before the next poll.
Due == {e \in Execution : db[e].due /\ db[e].status # "crashed"}

Poll ==
    /\ stage # "down" /\ Due \ timers # {}
    /\ \A r \in Runs : run[r].at # "called"
    /\ timers' = timers \cup Due
    /\ UNCHANGED <<mode, db, log, flag, stage, run, todo, amend, boots, waits, broken>>

\* A timer fires: unless the execution has succeeded, it is run again.
Resume(e) ==
    /\ stage # "down" /\ e \in timers
    /\ \E k \in {1, 2} : ~Up(<<e, k>>)
    /\ timers' = timers \ {e}
    /\ LET k == IF Up(<<e, 1>>) THEN 2 ELSE 1 IN
       run' = IF db[e].status = "success" THEN run
              ELSE [run EXCEPT ![<<e, k>>] = [at |-> "called", again |-> TRUE]]
    /\ UNCHANGED <<mode, db, log, flag, stage, todo, amend, boots, waits, broken>>

\* An execution that waits is stopped: nothing runs, so nothing is logged.
StopWaiting(e) ==
    /\ CanStop /\ stage = "up" /\ db[e].status = "waiting"
    /\ ~Live(e)
    /\ timers' = timers \ {e}
    /\ db' = [db EXCEPT ![e] = [status |-> "canceled", due |-> FALSE]]
    /\ UNCHANGED <<mode, log, flag, stage, run, todo, amend, boots, waits, broken>>

-----------------------------------------------------------------------------
(* The end of a process, and the start of the next.                        *)

\* The process crashes, is killed, or exits. Its memory is gone.
Die ==
    /\ stage # "down" /\ boots < MaxBoots
    /\ stage' = "down"
    /\ run' = [r \in Runs |-> NoRun] /\ timers' = {} /\ todo' = {} /\ amend' = NoAmend
    /\ broken' = (broken \/ stage = "recovering")
    /\ UNCHANGED <<mode, db, log, flag, boots, waits>>

\* Start.init, up to and including WaitTracker.init.
Boot ==
    /\ stage = "down"
    /\ stage' = "starting"
    /\ boots' = boots + 1
    /\ UNCHANGED <<mode, db, log, flag, run, timers, todo, amend, waits, broken>>

\* The executions of which the log has a beginning and no end. The two latest
\* files are read.
Unfinished == {e \in Execution : log[e].msgs # "none" /\ log[e].age < 2}

\* Mutant: files of any age are read.
RotatedForEver == [e \in Execution |->
                     IF log[e].msgs = "none" THEN NoMessages ELSE [log[e] EXCEPT !.age = @ + 1]]

\* Logging then starts in a fresh file, and the others grow older.
Rotated == [e \in Execution |->
              IF e \notin Unfinished THEN NoMessages ELSE [log[e] EXCEPT !.age = @ + 1]]

StillRunning == {e \in Execution : db[e].status = "running"}

Enqueued == {e \in Execution : db[e].status = "new"}

\* MessageEventBus.initialize finds the executions that did not finish, in the
\* log and among the rows. With none, the start goes on with the enqueued ones.
ReadLog ==
    LET unfinished == Unfinished \cup StillRunning IN
    /\ stage = "starting"
    /\ log' = Rotated
    /\ IF unfinished = {}
       THEN stage' = "up" /\ todo' = Enqueued /\ flag' = flag
       ELSE /\ todo' = unfinished
            /\ stage' = IF flag \/ mode = "simple" THEN "marking" ELSE "recovering"
            /\ flag' = (flag \/ mode = "extensive")
    /\ UNCHANGED <<mode, db, run, timers, amend, boots, waits, broken>>

\* Mutant: the enqueued executions are not run after it.
MarkAsCrashedForgets ==
    /\ stage = "marking"
    /\ db' = [e \in Execution |-> IF e \in todo THEN [db[e] EXCEPT !.status = "crashed"] ELSE db[e]]
    /\ stage' = "up" /\ flag' = FALSE
    /\ todo' = {}
    /\ UNCHANGED <<mode, log, run, timers, amend, boots, waits, broken>>

\* All of them are marked as crashed, in one update.
MarkAsCrashed ==
    /\ stage = "marking"
    /\ db' = [e \in Execution |-> IF e \in todo THEN [db[e] EXCEPT !.status = "crashed"] ELSE db[e]]
    /\ stage' = "up" /\ flag' = FALSE
    /\ todo' = {e \in Execution : db'[e].status = "new"}
    /\ UNCHANGED <<mode, log, run, timers, amend, boots, waits, broken>>

\* Mutant: an execution without messages is left alone as well.
RecoverSkipsSilent(e) ==
    /\ stage = "recovering" /\ amend = NoAmend /\ e \in todo
    /\ todo' = todo \ {e}
    /\ amend' = IF log[e].msgs # "nodes" \/ db[e].status = "success" THEN NoAmend
                ELSE [id |-> e, step |-> "read", row |-> db[e]]
    /\ broken' = (broken \/ Live(e))
    /\ UNCHANGED <<mode, db, log, flag, stage, run, timers, boots, waits>>

\* recoverFromLogs(e) begins. Without messages the row will be marked as
\* crashed, whatever it says; with messages, but none of a node, nothing is
\* done; with messages of nodes, the row is read, and left alone if it says
\* success.
Recover(e) ==
    /\ stage = "recovering" /\ amend = NoAmend /\ e \in todo
    /\ todo' = todo \ {e}
    /\ amend' = IF \/ log[e].msgs = "started"
                   \/ log[e].msgs = "nodes" /\ db[e].status = "success"
                THEN NoAmend
                ELSE [id |-> e, step |-> "read", row |-> db[e]]
    /\ broken' = (broken \/ Live(e))
    /\ UNCHANGED <<mode, db, log, flag, stage, run, timers, boots, waits>>

\* Without messages, markAsCrashed changes the status alone, and the row is
\* read after it; else the row as read is written back with its new status.
Amend ==
    LET e      == amend.id
        status == IF amend.row.status = "error" THEN "error" ELSE "crashed"
        row    == IF log[e].msgs = "none" THEN [db[e] EXCEPT !.status = "crashed"]
                                          ELSE [amend.row EXCEPT !.status = status]
    IN
    /\ stage = "recovering" /\ amend.step = "read"
    /\ db' = [db EXCEPT ![e] = row]
    /\ amend' = [amend EXCEPT !.step = "written", !.row = row]
    /\ broken' = (broken \/ Live(e))
    /\ UNCHANGED <<mode, log, flag, stage, run, timers, todo, boots, waits>>

\* Mutant: the hooks save the status they are given.
RunHooksPlain ==
    /\ stage = "recovering" /\ amend.step = "written"
    /\ db' = [db EXCEPT ![amend.id].status = amend.row.status]
    /\ amend' = NoAmend
    /\ UNCHANGED <<mode, log, flag, stage, run, timers, todo, boots, waits, broken>>

\* The workflowExecuteAfter hooks of the amended execution: the final status is
\* determined anew, and is waiting whenever waitTill is set; the row is saved.
RunHooks ==
    LET row == amend.row IN
    /\ stage = "recovering" /\ amend.step = "written"
    /\ db' = [db EXCEPT ![amend.id] = [status |-> IF row.due THEN "waiting" ELSE row.status,
                                       due    |-> row.due \/ @.due]]
    /\ amend' = NoAmend
    /\ UNCHANGED <<mode, log, flag, stage, run, timers, todo, boots, waits, broken>>

\* The recovery is over, and the enqueued executions are read.
RecoveryDone ==
    /\ stage = "recovering" /\ amend = NoAmend /\ todo = {}
    /\ stage' = "up" /\ flag' = FALSE
    /\ todo' = Enqueued
    /\ UNCHANGED <<mode, db, log, run, timers, amend, boots, waits, broken>>

\* Start.runEnqueuedExecutions, one of them. The log is told that the
\* execution was started at boot-up and forgets what it had of it.
RunEnqueued(e) ==
    /\ stage = "up" /\ e \in todo
    /\ todo' = todo \ {e}
    /\ run' = [run EXCEPT ![<<e, 1>>] = [at |-> "called", again |-> TRUE]]
    /\ Write(e, "none")
    /\ UNCHANGED <<mode, db, flag, stage, timers, amend, boots, waits, broken>>

-----------------------------------------------------------------------------

RunStep(r) == Register(r) \/ Begin(r) \/ NodeStarts(r) \/ PutToWait(r) \/ End(r)

BootStep ==
    \/ Boot \/ ReadLog \/ MarkAsCrashed
    \/ Amend \/ RunHooks \/ RecoveryDone
    \/ \E e \in Execution : Recover(e) \/ RunEnqueued(e)

Next ==
    \/ \E r \in Runs : RunStep(r)
    \/ \E e \in Execution : Create(e) \/ Resume(e) \/ StopWaiting(e)
    \/ Poll \/ Die \/ BootStep

Spec == Init /\ [][Next]_vars

\* A process that went down is started again and comes up, workflows end, and
\* those that wait are resumed. Nobody has to start or stop an execution.
Fairness ==
    /\ WF_vars(BootStep) /\ WF_vars(Poll)
    /\ \A e \in Execution : WF_vars(Resume(e)) /\ WF_vars(RunEnqueued(e))
    /\ \A r \in Runs : WF_vars(Register(r)) /\ WF_vars(Begin(r)) /\ WF_vars(End(r))

FairSpec == Spec /\ Fairness

-----------------------------------------------------------------------------

Row == [status : Status, due : BOOLEAN]

TypeOK ==
    /\ mode \in {"simple", "extensive"}
    /\ db \in [Execution -> Row]
    /\ log \in [Execution -> [msgs : {"none", "started", "nodes"}, age : 0 .. 2]]
    /\ flag \in BOOLEAN /\ broken \in BOOLEAN /\ stage \in Stage
    /\ run \in [Runs -> [at : {"idle", "called", "added", "executing"}, again : BOOLEAN]]
    /\ timers \subseteq Execution /\ todo \subseteq Execution
    /\ \/ amend = NoAmend
       \/ amend \in [id : Execution, step : {"read", "written"}, row : Row]
    /\ boots \in 0 .. MaxBoots /\ waits \in 0 .. MaxWaits

\* An execution whose row says running and that nothing runs.
Orphan(e) == stage = "up" /\ db[e].status = "running" /\ ~Live(e)

\* With crashRecoveryMode simple, every row that says running has a run behind
\* it once the process is up.
NoOrphan == (mode = "simple") => \A e \in Execution : ~Orphan(e)

\* With extensive, the only rows that are left running with nothing behind them
\* are those of executions that had begun and of whose nodes none had started
\* when the process died.
OnlySilentOrphans == \A e \in Execution : Orphan(e) => log[e].msgs = "started"

\* The rows that say running with nothing behind them, in either mode.
OrphansExplained == NoOrphan /\ OnlySilentOrphans

\* With extensive, a start of the process only loses an execution that waits,
\* by leaving it crashed with its waitTill, if an earlier recovery was cut short
\* or had to do with an execution that was resumed before it.
WaitingLostOnlyIfBroken ==
    \A e \in Execution :
        (mode = "extensive" /\ stage = "up" /\ db[e].status = "crashed" /\ db[e].due) => broken

\* Every execution reaches a final status and does not stay new or running,
\* over any crashes, those during a recovery included; with extensive, unless
\* nothing but its beginning is in the log.
RowsSettle ==
    \A e \in Execution :
        db[e].status # "none" ~>
            \/ db[e].status \in Terminal
            \/ mode = "extensive" /\ Orphan(e) /\ log[e].msgs = "started"

-----------------------------------------------------------------------------
(* What the code says of itself and does not keep.                         *)

\* config/src/configs/event-bus.config.ts:28, of crashRecoveryMode: "Whether to
\* recover execution details after a crash or only mark status executions as
\* crashed." An execution that was running when the process died is recovered
\* or marked once the next one is up.
CrashedIsMarked == \A e \in Execution : ~Orphan(e)

\* By the same words, an execution that waits did not crash and is not marked.
WaitingNotCrashed ==
    [][\A e \in Execution :
          (stage = "marking" /\ db[e].status = "waiting") => db'[e].status # "crashed"]_vars

\* message-event-bus.ts:145, of the rows that say running: "if we are in queue
\* mode, running jobs may still be running on a worker despite the main process
\* crashing, so we can't just mark them as crashed". In regular mode they are
\* marked, as nothing can be running yet.
LiveNotCrashed ==
    [][\A r \in Runs :
          (run[r].at = "executing" /\ db[r[1]].status = "running")
             => db'[r[1]].status # "crashed"]_vars

=============================================================================
