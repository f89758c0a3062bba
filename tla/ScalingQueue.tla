----------------------------- MODULE ScalingQueue -----------------------------
(***************************************************************************)
(* Executions in queue mode: a main process makes a job of each and waits  *)
(* for its end (WorkflowRunner.enqueueExecution), workers process the jobs *)
(* (ScalingService.setupWorker, JobProcessor.processJob), a user stops     *)
(* executions (ExecutionService.stopInScalingMode, ScalingService.stopJob) *)
(* and the main looks, from time to time, for rows without a job           *)
(* (ScalingService.recoverFromQueue).                                      *)
(*                                                                         *)
(* The queue is Bull's, in Redis: a job that a worker holds is active; if  *)
(* the worker does not renew its lock, because it is dead or blocked, the  *)
(* job counts as stalled and is given to a worker once more, and fails     *)
(* when that happens too often. A job that failed or ended is removed.     *)
(*                                                                         *)
(* A main whose executions have their result delivered elsewhere is a main *)
(* that was started again: a stop on it finds no entry. Executions that    *)
(* wait and webhook responses are left out.                                *)
(***************************************************************************)
EXTENDS Integers, FiniteSets

CONSTANTS
    Execution,    \* The executions, each started at most once by a main.
    Worker,       \* The worker processes.
    SavesProgress,\* Executions of workflows with saveExecutionProgress.
    MaxStalled,   \* queue.bull.settings.maxStalledCount
    MaxTroubles   \* Bound: how often a user stops something, the job of a living
                  \* worker stalls, a worker ends or crashes, Redis or the
                  \* database fails a call, or the main is started again.

ASSUME ScalingBounds == MaxStalled \in Nat /\ MaxTroubles \in Nat
ASSUME ProgressAssumption == SavesProgress \subseteq Execution
ASSUME WorkersAssumption == IsFiniteSet(Worker) /\ "none" \notin Worker

VARIABLES
    row,     \* The status of each execution in the database.
    call,    \* How far WorkflowRunner.run has come with it.
    entry,   \* The executions in ActiveExecutions of the main.
    job,     \* The job of each execution, in Bull.
    stop,    \* How far ExecutionService.stop has come.
    cancel,  \* How far ScalingService.stopJob has come.
    aborts,  \* Messages abort-job on their way, each to one worker.
    worker,  \* The state of each worker process.
    run,     \* What each worker makes of each job.
    saving,  \* Cancelled runs whose final save, which nobody awaits, is under way.
    recovery,\* Queue recovery: its step, and the ids it has read.
    troubles,\* How many of them there were.
    started, \* History: how often the workflow of each execution was started.
    stolen,  \* History: executions whose job stalled with a worker that lives.
    slipped, \* History: stops that did not reach the job.
    late,    \* History: executions with a node that saved its progress after the abort.
    unsaved  \* History: executions with a run whose end was not saved.

bull    == <<job, aborts>>
main    == <<call, entry, cancel, stop>>
workers == <<worker, run, saving>>
history == <<started, stolen, slipped, late, unsaved>>
vars    == <<row, bull, main, workers, recovery, troubles, history>>

Status     == {"none", "new", "running", "success", "error", "canceled", "crashed"}
Unfinished == {"new", "running"}

\* created  the row and the entry exist, the job does not
\* added    the job exists, nobody waits for it yet
\* waiting  for job.finished(), as the entry's workflowExecution
\* deaf     likewise, but the job has ended before, which Bull does not tell
\* failing  it was rejected: processError
\* refused  there is nothing to wait for: processError
\* writing  processError has looked at the row and will save an error
\* lost     the process of the main ended, in the middle of this or of a stop
Call == {"none", "created", "added", "waiting", "deaf", "failing", "refused", "writing", "over", "lost"}

\* picked     processJob is called
\* read       it has read the row
\* preparing  the row says running, the workflow does not run yet
\* running    it runs, and is in runningJobs
\* canceling  its run was cancelled, it is no longer in runningJobs, a node is under way
\* ended      the run has ended
Run == {"none", "picked", "read", "preparing", "running", "canceling", "ended"}

NoJob  == [state |-> "none", holder |-> "none", stalls |-> 0]
NoScan == [at |-> "idle", ids |-> {}]

\* A worker in one of these states of run is busy with the job.
Busy == {"picked", "read", "preparing", "running"}

Queued(e)   == job[e].state \in {"waiting", "active"}
Holds(w, e) == job[e].state = "active" /\ job[e].holder = w

\* The jobs when that of e is in a state in which no worker holds it.
Released(e, state) == [job EXCEPT ![e] = [state |-> state, holder |-> "none", stalls |-> @.stalls]]

Trouble == troubles < MaxTroubles /\ troubles' = troubles + 1

Init ==
    /\ row = [e \in Execution |-> "none"]
    /\ call = [e \in Execution |-> "none"] /\ entry = {}
    /\ stop = [e \in Execution |-> "idle"]
    /\ cancel = [e \in Execution |-> "idle"]
    /\ job = [e \in Execution |-> NoJob] /\ aborts = {}
    /\ worker = [w \in Worker |-> "up"]
    /\ run = [w \in Worker |-> [e \in Execution |-> "none"]] /\ saving = {}
    /\ recovery = NoScan
    /\ troubles = 0
    /\ started = [e \in Execution |-> 0] /\ stolen = {} /\ slipped = {}
    /\ late = {} /\ unsaved = {}

-----------------------------------------------------------------------------
(* The main: WorkflowRunner.                                               *)

\* ActiveExecutions.add: in queue mode the row is new and nothing throttles.
Create(e) ==
    /\ call[e] = "none"
    /\ call' = [call EXCEPT ![e] = "created"]
    /\ row' = [row EXCEPT ![e] = "new"]
    /\ entry' = entry \cup {e}
    /\ UNCHANGED <<bull, cancel, stop, workers, recovery, troubles, history>>

\* The permissions do not suffice: the row is saved as failed.
CheckFails(e) ==
    /\ call[e] = "created" /\ Trouble
    /\ call' = [call EXCEPT ![e] = "over"]
    /\ row' = [row EXCEPT ![e] = "error"]
    /\ entry' = entry \ {e}
    /\ UNCHANGED <<bull, cancel, stop, workers, recovery, history>>

\* ScalingService.addJob.
AddJob(e) ==
    /\ call[e] = "created"
    /\ call' = [call EXCEPT ![e] = "added"]
    /\ job' = Released(e, "waiting")
    /\ UNCHANGED <<row, aborts, entry, cancel, stop, workers, recovery, troubles, history>>

\* The job cannot be added. (The hook that runs after addJob does not fail here.)
AddJobFails(e) ==
    /\ call[e] = "created" /\ Trouble
    /\ call' = [call EXCEPT ![e] = "refused"]
    /\ UNCHANGED <<row, bull, entry, cancel, stop, workers, recovery, history>>

\* The hook has run: job.finished() is awaited, in vain if the job has ended by then,
\* since it is removed when it ends (removeOnComplete, removeOnFail). If the entry was
\* deleted in the meantime, attachWorkflowExecution throws, and the wait goes on all
\* the same.
Attach(e) ==
    /\ call[e] = "added"
    /\ call' = [call EXCEPT ![e] = IF Queued(e) THEN "waiting" ELSE "deaf"]
    /\ UNCHANGED <<row, bull, entry, cancel, stop, workers, recovery, troubles, history>>

\* The job has ended, or failed because it was cancelled, which processError
\* ignores: the row is read and the entry goes.
Resolve(e) ==
    /\ call[e] = "waiting" /\ job[e].state \in {"completed", "cancelled"}
    /\ call' = [call EXCEPT ![e] = "over"]
    /\ entry' = entry \ {e}
    /\ UNCHANGED <<row, bull, cancel, stop, workers, recovery, troubles, history>>

\* Mutant: a failed job is only reported.
RejectQuietly(e) ==
    /\ call[e] = "waiting" /\ job[e].state = "failed"
    /\ call' = [call EXCEPT ![e] = "over"]
    /\ entry' = entry \ {e}
    /\ UNCHANGED <<row, bull, cancel, stop, workers, recovery, troubles, history>>

\* It failed for another reason.
Reject(e) ==
    /\ call[e] = "waiting" /\ job[e].state = "failed"
    /\ call' = [call EXCEPT ![e] = "failing"]
    /\ UNCHANGED <<row, bull, entry, cancel, stop, workers, recovery, troubles, history>>

\* processError: if the row says success after all, nothing is to be saved.
ProcessError(e) ==
    /\ call[e] \in {"failing", "refused"}
    /\ call' = [call EXCEPT ![e] = IF row[e] = "success" THEN "over" ELSE "writing"]
    /\ entry' = entry \ {e}
    /\ UNCHANGED <<row, bull, cancel, stop, workers, recovery, troubles, history>>

\* Its hook saves the error.
SaveError(e) ==
    /\ call[e] = "writing"
    /\ call' = [call EXCEPT ![e] = "over"]
    /\ row' = [row EXCEPT ![e] = "error"]
    /\ UNCHANGED <<bull, entry, cancel, stop, workers, recovery, troubles, history>>

\* The process ends, and starts again: of the executions it knows none.
Restart ==
    /\ Trouble
    /\ call' = [e \in Execution |-> 
         IF call[e] \in {"none", "over"} /\ stop[e] = "idle" THEN call[e] ELSE "lost"]
    /\ entry' = {} /\ recovery' = NoScan
    /\ stop' = [e \in Execution |-> "idle"] /\ cancel' = [e \in Execution |-> "idle"]
    /\ slipped' = slipped \cup {e \in Execution : cancel[e] # "idle"}
    /\ UNCHANGED <<row, bull, workers, started, stolen, late, unsaved>>

-----------------------------------------------------------------------------
(* The queue and the workers.                                              *)

\* Bull gives a job to a worker, one that waits for its jobs to end included:
\* stopWorker does not keep it from getting more. (Not the job it still runs.)
Pick(w, e) ==
    /\ worker[w] # "down" /\ run[w][e] = "none" /\ job[e].state = "waiting"
    /\ job' = [job EXCEPT ![e] = [state |-> "active", holder |-> w, stalls |-> @.stalls]]
    /\ run' = [run EXCEPT ![w][e] = "picked"]
    /\ UNCHANGED <<row, aborts, main, worker, saving, recovery, troubles, history>>

\* The jobs when the call of processJob for e on w is over.
Settled(w, e, state) == IF Holds(w, e) THEN Released(e, state) ELSE job

\* processJob reads the row; a crashed execution is not processed.
ReadRow(w, e) ==
    /\ run[w][e] = "picked"
    /\ IF row[e] = "crashed"
       THEN run' = [run EXCEPT ![w][e] = "none"] /\ job' = Settled(w, e, "completed")
       ELSE run' = [run EXCEPT ![w][e] = "read"] /\ UNCHANGED job
    /\ UNCHANGED <<row, aborts, main, worker, saving, recovery, troubles, history>>

\* The database or Redis fails processJob before the workflow runs, or when it tells
\* of its end: it throws, and the job has failed.
ProcessFails(w, e) ==
    /\ run[w][e] \in {"picked", "read", "preparing", "ended"} /\ Trouble
    /\ run' = [run EXCEPT ![w][e] = "none"]
    /\ job' = Settled(w, e, "failed")
    /\ UNCHANGED <<row, aborts, main, worker, saving, recovery, history>>

\* ExecutionRepository.setRunning
SetRunning(w, e) ==
    /\ run[w][e] = "read"
    /\ row' = [row EXCEPT ![e] = "running"]
    /\ run' = [run EXCEPT ![w][e] = "preparing"]
    /\ UNCHANGED <<bull, main, worker, saving, recovery, troubles, history>>

\* processRunExecutionData, and the entry in runningJobs.
Start(w, e) ==
    /\ run[w][e] = "preparing"
    /\ run' = [run EXCEPT ![w][e] = "running"]
    /\ started' = [started EXCEPT ![e] = @ + 1]
    /\ UNCHANGED <<row, bull, main, worker, saving, recovery, troubles, stolen, slipped, late, unsaved>>

\* saveExecutionProgress after a node: the whole row is written, with status running,
\* over any but success.
Progress(e) == e \in SavesProgress /\ row[e] # "success" /\ row' = [row EXCEPT ![e] = "running"]

SaveProgress(w, e) ==
    /\ run[w][e] = "running"
    /\ Progress(e)
    /\ UNCHANGED <<bull, main, workers, recovery, troubles, history>>

\* The workflow ends, and hookFunctionsSaveWorker saves the row.
End(w, e) ==
    /\ run[w][e] = "running"
    /\ \E status \in {"success", "error"} : row' = [row EXCEPT ![e] = status]
    /\ run' = [run EXCEPT ![w][e] = "ended"]
    /\ UNCHANGED <<bull, main, worker, saving, recovery, troubles, history>>

\* A final hook fails. The error is caught and the hooks run once more, with it; if
\* they fail again, that is only logged, and the run ends as any other.
EndFails(w, e) ==
    /\ run[w][e] = "running" /\ Trouble
    /\ run' = [run EXCEPT ![w][e] = "ended"]
    /\ \/ row' = [row EXCEPT ![e] = "error"] /\ UNCHANGED unsaved
       \/ unsaved' = unsaved \cup {e} /\ UNCHANGED row
    /\ UNCHANGED <<bull, main, worker, saving, recovery, started, stolen, slipped, late>>

\* The node of a cancelled run ends. If it does not heed the abort and completes, its
\* progress is saved, and after that nothing: no hook runs for a cancelled run's end.
NodeReturns(w, e) ==
    /\ run[w][e] = "canceling"
    /\ run' = [run EXCEPT ![w][e] = "ended"]
    /\ \/ Progress(e) /\ late' = late \cup {e}
       \/ UNCHANGED <<row, late>>
    /\ UNCHANGED <<bull, main, worker, saving, recovery, troubles, started, stolen, slipped, unsaved>>

\* hookFunctionsSaveWorker saves the row of a cancelled run, which may have ended.
SaveCanceled(w, e) ==
    /\ <<w, e>> \in saving
    /\ saving' = saving \ {<<w, e>>}
    /\ row' = [row EXCEPT ![e] = "canceled"]
    /\ UNCHANGED <<bull, main, worker, run, recovery, troubles, history>>

\* It cannot, which is only reported.
SaveCanceledFails(w, e) ==
    /\ <<w, e>> \in saving /\ Trouble
    /\ saving' = saving \ {<<w, e>>} /\ unsaved' = unsaved \cup {e}
    /\ UNCHANGED <<row, bull, main, worker, run, recovery, started, stolen, slipped, late>>

\* Mutant: a job that ended remains in the queue.
CompleteAgain(w, e) ==
    /\ run[w][e] = "ended"
    /\ run' = [run EXCEPT ![w][e] = "none"]
    /\ job' = Settled(w, e, "waiting")
    /\ UNCHANGED <<row, aborts, main, worker, saving, recovery, troubles, history>>

\* The job is moved to completed, if the worker still holds it.
Complete(w, e) ==
    /\ run[w][e] = "ended"
    /\ run' = [run EXCEPT ![w][e] = "none"]
    /\ job' = Settled(w, e, "completed")
    /\ UNCHANGED <<row, aborts, main, worker, saving, recovery, troubles, history>>

\* Mutant: a stalled job keeps its worker.
StallHeld(e) ==
    /\ job[e].state = "active" /\ Trouble /\ stolen' = stolen \cup {e}
    /\ job' = [job EXCEPT ![e] = [@ EXCEPT !.state = "waiting", !.stalls = @ + 1]]
    /\ UNCHANGED <<row, aborts, main, workers, recovery, started, slipped, late, unsaved>>

\* The lock of a job was not renewed.
Stall(e) ==
    /\ job[e].state = "active"
    /\ IF worker[job[e].holder] = "down" THEN UNCHANGED <<troubles, stolen>>
       ELSE Trouble /\ stolen' = stolen \cup {e}
    /\ job' = [job EXCEPT ![e] =
         [state |-> IF @.stalls < MaxStalled THEN "waiting" ELSE "failed",
          holder |-> "none", stalls |-> @.stalls + 1]]
    /\ UNCHANGED <<row, aborts, main, workers, recovery, started, slipped, late, unsaved>>

\* SIGTERM: stopWorker waits until runningJobs is empty.
StopWorker(w) ==
    /\ worker[w] = "up" /\ Trouble
    /\ worker' = [worker EXCEPT ![w] = "stopping"]
    /\ UNCHANGED <<row, bull, main, run, saving, recovery, history>>

\* The process ends, with what it has not registered or not yet saved.
Down(w) ==
    /\ worker' = [worker EXCEPT ![w] = "down"]
    /\ run' = [run EXCEPT ![w] = [e \in Execution |-> "none"]]
    /\ saving' = {s \in saving : s[1] # w}
    /\ unsaved' = unsaved \cup {e \in Execution : <<w, e>> \in saving}
    /\ aborts' = {a \in aborts : a[1] # w}

\* Nothing is registered any more, or the time for the shutdown is over.
EndWorker(w) ==
    /\ worker[w] = "stopping"
    /\ Down(w)
    /\ UNCHANGED <<row, job, main, recovery, troubles, started, stolen, slipped, late>>

CrashWorker(w) ==
    /\ worker[w] # "down" /\ Trouble
    /\ Down(w)
    /\ UNCHANGED <<row, job, main, recovery, started, stolen, slipped, late>>

-----------------------------------------------------------------------------
(* A user stops an execution.                                              *)

\* ExecutionService.stop up to its last await: the row can be stopped, and if
\* there is an entry, it is deleted and what is attached to it is cancelled.
StopCheck(e) ==
    /\ stop[e] = "idle" /\ row[e] \in Unfinished /\ Trouble
    /\ stop' = [stop EXCEPT ![e] = "writing"]
    /\ entry' = entry \ {e}
    /\ IF e \in entry /\ call[e] \in {"waiting", "deaf", "failing"} /\ cancel[e] = "idle"
       THEN cancel' = [cancel EXCEPT ![e] = "checking"] /\ UNCHANGED slipped
       ELSE slipped' = slipped \cup {e} /\ UNCHANGED cancel
    /\ UNCHANGED <<row, bull, call, workers, recovery, started, stolen, late, unsaved>>

\* stopDuringRun
StopWrite(e) ==
    /\ stop[e] = "writing"
    /\ stop' = [stop EXCEPT ![e] = "idle"]
    /\ row' = [row EXCEPT ![e] = "canceled"]
    /\ UNCHANGED <<bull, call, entry, cancel, workers, recovery, troubles, history>>

\* Mutant: the job is taken from the worker, which is not told.
StopJobCheckQuietly(e) ==
    /\ cancel[e] = "checking"
    /\ cancel' = [cancel EXCEPT ![e] = IF job[e].state = "active" THEN "discarding" ELSE "removing"]
    /\ UNCHANGED <<row, bull, call, entry, stop, workers, recovery, troubles, history>>

\* ScalingService.stopJob: workers are told to abort an active job.
StopJobCheck(e) ==
    /\ cancel[e] = "checking"
    /\ IF job[e].state = "active"
       THEN /\ cancel' = [cancel EXCEPT ![e] = "discarding"]
            /\ aborts' = aborts \cup {<<w, e>> : w \in {v \in Worker : worker[v] # "down"}}
       ELSE cancel' = [cancel EXCEPT ![e] = "removing"] /\ UNCHANGED aborts
    /\ UNCHANGED <<row, job, call, entry, stop, workers, recovery, troubles, history>>

\* The job has stalled, and a worker got it after the message to abort it.
Untold(e) ==
    /\ job[e].stalls > 0
    /\ \E w \in Worker : run[w][e] \in Busy /\ <<w, e>> \notin aborts

\* An active job is moved to failed, whoever holds it; one that waits is
\* removed. A job that was picked up or has stalled in between stays.
StopJobEnd(e) ==
    /\ cancel[e] \in {"discarding", "removing"}
    /\ cancel' = [cancel EXCEPT ![e] = "idle"]
    /\ \/ cancel[e] = "discarding" /\ job[e].state = "active"
          /\ job' = Released(e, "cancelled")
          /\ slipped' = slipped \cup (IF Untold(e) THEN {e} ELSE {})
       \/ cancel[e] = "removing" /\ job[e].state = "waiting"
          /\ job' = Released(e, "removed") /\ UNCHANGED slipped
       \/ job[e].state # (IF cancel[e] = "discarding" THEN "active" ELSE "waiting")
          /\ slipped' = slipped \cup {e} /\ UNCHANGED job
    /\ UNCHANGED <<row, aborts, call, entry, stop, workers, recovery, troubles, started, stolen, late, unsaved>>

\* JobProcessor.stopJob, which only knows the jobs in runningJobs: the run is cancelled,
\* its abort signal set and its final hooks started.
Abort(w, e) ==
    /\ <<w, e>> \in aborts
    /\ aborts' = aborts \ {<<w, e>>}
    /\ IF run[w][e] = "running"
       THEN run' = [run EXCEPT ![w][e] = "canceling"] /\ saving' = saving \cup {<<w, e>>}
       ELSE UNCHANGED <<run, saving>>
    /\ slipped' = slipped \cup (IF run[w][e] \in {"picked", "read", "preparing"} THEN {e} ELSE {})
    /\ UNCHANGED <<row, job, main, worker, recovery, troubles, started, stolen, late, unsaved>>

-----------------------------------------------------------------------------
(* Queue recovery. All rows are taken to fit into a batch.                 *)

\* getInProgressExecutionIds
ScanRows ==
    /\ recovery.at = "idle"
    /\ \E e \in Execution : row[e] \in Unfinished
    /\ recovery' = [at |-> "jobs", ids |-> {e \in Execution : row[e] \in Unfinished}]
    /\ UNCHANGED <<row, bull, main, workers, troubles, history>>

\* findJobsByStatus. An empty queue is taken for one that has nothing to tell;
\* there may be jobs of other executions in it.
ScanJobs ==
    /\ recovery.at = "jobs"
    /\ \E others \in BOOLEAN :
         LET queued   == {e \in Execution : Queued(e)}
             dangling == recovery.ids \ queued
         IN  recovery' = IF dangling # {} /\ (others \/ queued # {})
                         THEN [at |-> "marking", ids |-> dangling] ELSE NoScan
    /\ UNCHANGED <<row, bull, main, workers, troubles, history>>

\* markAsCrashed, whatever the rows say by now.
MarkAsCrashed ==
    /\ recovery.at = "marking"
    /\ recovery' = NoScan
    /\ row' = [e \in Execution |-> IF e \in recovery.ids THEN "crashed" ELSE row[e]]
    /\ UNCHANGED <<bull, main, workers, troubles, history>>

-----------------------------------------------------------------------------
Runner(e)  == AddJob(e) \/ Attach(e) \/ Resolve(e) \/ Reject(e) \/ ProcessError(e) \/ SaveError(e)
Stopper(e) == StopWrite(e) \/ StopJobCheck(e) \/ StopJobEnd(e)
Process(w, e) ==
    \/ Pick(w, e) \/ ReadRow(w, e) \/ SetRunning(w, e) \/ Start(w, e)
    \/ End(w, e) \/ NodeReturns(w, e) \/ SaveCanceled(w, e) \/ Complete(w, e) \/ Abort(w, e)
Work(w, e) ==
    Process(w, e) \/ SaveProgress(w, e) \/ EndFails(w, e) \/ SaveCanceledFails(w, e) \/ ProcessFails(w, e)
Recover    == ScanRows \/ ScanJobs \/ MarkAsCrashed

Next ==
    \/ \E e \in Execution :
         \/ Create(e) \/ CheckFails(e) \/ AddJobFails(e) \/ Runner(e)
         \/ StopCheck(e) \/ Stopper(e) \/ Stall(e)
         \/ \E w \in Worker : Work(w, e)
    \/ \E w \in Worker : StopWorker(w) \/ EndWorker(w) \/ CrashWorker(w)
    \/ Recover \/ Restart

Spec == Init /\ [][Next]_vars

\* Calls return, workers work, the job of a dead worker stalls in the end, and
\* recovery has its timer. Nobody has to stop or lose anything.
Fairness ==
    /\ \A e \in Execution : WF_vars(Runner(e)) /\ WF_vars(Stopper(e)) /\ WF_vars(Stall(e))
    /\ \A w \in Worker : /\ \A e \in Execution : WF_vars(Process(w, e))
                          /\ WF_vars(EndWorker(w))
    /\ WF_vars(Recover)

FairSpec == Spec /\ Fairness

-----------------------------------------------------------------------------
(* Properties.                                                             *)

JobState == {"none", "waiting", "active", "completed", "failed", "cancelled", "removed"}
Job      == [state : JobState, holder : Worker \cup {"none"}, stalls : 0 .. MaxStalled + 1]

\* The state is well formed, and an active job has a worker that was given it.
TypeOK ==
    /\ row \in [Execution -> Status] /\ call \in [Execution -> Call]
    /\ job \in [Execution -> Job]
    /\ \A e \in Execution : (job[e].state = "active") <=> (job[e].holder # "none")
    /\ entry \subseteq {e \in Execution : call[e] \in {"created", "added", "waiting", "deaf", "failing", "refused"}}
    /\ stop \in [Execution -> {"idle", "writing"}]
    /\ cancel \in [Execution -> {"idle", "checking", "discarding", "removing"}]
    /\ aborts \subseteq Worker \X Execution
    /\ worker \in [Worker -> {"up", "stopping", "down"}]
    /\ run \in [Worker -> [Execution -> Run]] /\ saving \subseteq Worker \X Execution
    /\ recovery \in [at : {"idle", "jobs", "marking"}, ids : SUBSET Execution]
    /\ troubles \in 0 .. MaxTroubles
    /\ started \in [Execution -> Nat] /\ stolen \subseteq Execution /\ slipped \subseteq Execution
    /\ late \subseteq SavesProgress /\ unsaved \subseteq Execution

\* A workflow is started once, and once more for each time its job stalled; two
\* workers run it at once only if the job of one that lives was taken from it.
RunsOnce ==
    \A e \in Execution :
        /\ started[e] <= 1 + job[e].stalls
        /\ \A w, v \in Worker :
             run[w][e] \in {"preparing", "running"} /\ run[v][e] \in {"preparing", "running"} =>
                 w = v \/ e \in stolen

\* What a user has stopped goes on only if the stop did not reach its job: there
\* was no entry, or nothing attached to it yet, the job was just being picked
\* up, the worker had it and had not registered it, or had lost it while it was
\* blocked; or a node did not heed the abort and saved its progress
\* (stopInScalingMode, stopJob, JobProcessor.stopJob, saveExecutionProgress).
StopHolds ==
    [][\A e \in Execution :
        row[e] = "canceled" /\ row'[e] \in {"running", "success", "error"} =>
            e \in slipped \cup stolen \cup late' \/ cancel[e] # "idle" \/ \E w \in Worker : <<w, e>> \in aborts]_vars

\* Nobody will save the execution any more: the main that ran it has ended and
\* its job is gone, or was gone before the main listened; a stop has taken the job
\* from a worker that then failed; or the end of a run was not saved, or a node saved
\* its progress after it.
Abandoned(e) ==
    \/ call[e] = "deaf"
    \/ call[e] = "lost" /\ ~Queued(e)
    \/ job[e].state \in {"cancelled", "removed"}
    \/ e \in unsaved \cup late

WorkersLeft == \E w \in Worker : worker[w] = "up"

\* Every execution gets a final status and keeps one, whatever fails, as long as
\* there are workers, it was not abandoned and no two workers ran it
\* (WorkflowRunner.processError, Bull's stalled jobs, recoverFromQueue).
RowsSettle ==
    \A e \in Execution :
        <>[](row[e] \notin Unfinished \/ Abandoned(e) \/ e \in stolen \/ ~WorkersLeft)

\* And its entry leaves the main (finalizeExecution, stopExecution), unless it waits
\* for a job that had ended before.
EntriesLeave == \A e \in Execution : <>[](e \notin entry \/ call[e] = "deaf" \/ ~WorkersLeft)

\* Whatever fails, neither row nor entry is left behind.
NothingLeft == RowsSettle /\ EntriesLeave

\* What the comment on recoverFromQueue says: an execution that is in progress
\* by its row and absent from the queue is marked.
DanglingMarked ==
    \A e \in Execution : <>[](row[e] \notin Unfinished \/ Queued(e))

\* And no other one is.
SuccessKept ==
    [][\A e \in Execution : row[e] = "success" => row'[e] # "crashed"]_vars
=============================================================================
