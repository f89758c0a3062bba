------------------------ MODULE ScalingQueue_proofs ------------------------
(***************************************************************************)
(* Queue mode, for every set of executions, every finite set of workers,   *)
(* and any number of failures, stalls and stops: types, no second start    *)
(* without a stall, and that a stop holds.                                 *)
(*                                                                         *)
(* Both rest on who may be busy with a job. Until it was taken from a      *)
(* worker that lives, that is the worker that holds it, or held it when it *)
(* left the queue (OneIsBusy), so the starts can be counted against the    *)
(* times the job was picked up (StartsCounted). A stop takes the job from  *)
(* the queue (StopsReach) or has told the worker that is busy with it      *)
(* (BusyAreTold), so nobody is left to write another status.               *)
(***************************************************************************)
EXTENDS ScalingQueue, FiniteSetTheorems, TLAPS

\* What the main has done with an execution and what has become of its job: there
\* is none before it is added, an error is saved only of one that failed or was
\* never added, and nothing is cancelled before.
CallsMatch ==
    \A e \in Execution :
        /\ call[e] \in {"none", "created", "refused"} => job[e] = NoJob
        /\ call[e] \in {"failing", "writing"} => job[e].state \in {"none", "failed"}
        /\ cancel[e] # "idle" => call[e] \notin {"none", "created"}

\* A job in the queue may stall once more; one that was active and waits has
\* stalled.
StallsLeft ==
    \A e \in Execution :
        /\ Queued(e) => job[e].stalls <= MaxStalled
        /\ cancel[e] = "discarding" => job[e].state # "waiting" \/ job[e].stalls > 0

\* A worker that is down does nothing.
DownIsIdle ==
    \A w \in Worker : worker[w] = "down" => \A e \in Execution : run[w][e] = "none"

\* Unless the job was taken from a worker that lives, one worker is busy with it:
\* the one that holds it, or held it when it left the queue.
OneIsBusy ==
    \A e \in Execution \ stolen :
        /\ \A w \in Worker : run[w][e] \in Busy =>
             Holds(w, e) \/ job[e].state \in {"completed", "failed", "cancelled"}
        /\ \A w, v \in Worker : run[w][e] \in Busy /\ run[v][e] \in Busy => w = v

\* The workers that will start the workflow of e, and how often its job was
\* picked up at most.
Pending(e) == {w \in Worker : run[w][e] \in {"picked", "read", "preparing"}}
Picks(e)   == job[e].stalls + (IF job[e].state \in {"none", "waiting"} THEN 0 ELSE 1)

StartsCounted == \A e \in Execution : started[e] + Cardinality(Pending(e)) <= Picks(e)

\* A stop of execution e was begun: it is written, or will be.
Stopped(e) ==
    \/ row[e] = "canceled" \/ stop[e] = "writing"
    \/ \E w \in Worker : <<w, e>> \in aborts \cup saving

\* Unless the stop did not reach the job, the job has left the queue once stopJob
\* is over.
Gone(e) == job[e].state \in {"cancelled", "removed"}

StopsReach ==
    \A e \in Execution \ (slipped \cup stolen) : cancel[e] = "idle" /\ Stopped(e) => Gone(e)

\* And a worker that is still busy with it will be told.
BusyAreTold ==
    \A e \in Execution \ (slipped \cup stolen) :
        job[e].state = "cancelled" \/ (cancel[e] = "discarding" /\ job[e].stalls = 0)
            => \A w \in Worker : run[w][e] \in Busy => <<w, e>> \in aborts

IInv ==
    /\ TypeOK /\ CallsMatch /\ StallsLeft /\ DownIsIdle
    /\ OneIsBusy /\ StartsCounted /\ StopsReach /\ BusyAreTold

-----------------------------------------------------------------------------
(* Types.                                                                  *)

\* The initial state is well typed.
LEMMA InitType == Init => TypeOK
BY ScalingBounds, ProgressAssumption, WorkersAssumption
DEF Init, TypeOK, Status, Call, Job, JobState, NoJob, Run, NoScan

\* Every way in which a step changes a job keeps its type.
LEMMA ReleasedType ==
    ASSUME TypeOK, NEW e \in Execution, NEW s \in JobState \ {"active"}
    PROVE  /\ Released(e, s) \in [Execution -> Job]
           /\ \A x \in Execution : (Released(e, s)[x].state = "active") <=> (Released(e, s)[x].holder # "none")
BY WorkersAssumption DEF TypeOK, Released, Job, JobState

\* The steps of the main with an execution keep the types.
LEMMA MainType ==
    ASSUME TypeOK, CallsMatch, NEW e \in Execution,
           Create(e) \/ CheckFails(e) \/ AddJobFails(e) \/ Runner(e)
    PROVE  TypeOK'
<1> USE DEF bull, main, workers, history
<1>1. CASE Create(e)
  BY <1>1 DEF Create, TypeOK, Status, Call
<1>2. CASE CheckFails(e)
  BY <1>2, ScalingBounds DEF CheckFails, Trouble, TypeOK, Status, Call
<1>3. CASE AddJobFails(e)
  BY <1>3, ScalingBounds DEF AddJobFails, Trouble, TypeOK, Call
<1>4. CASE AddJob(e)
  BY <1>4, ReleasedType DEF AddJob, TypeOK, Call, JobState
<1>5. CASE Attach(e)
  BY <1>5 DEF Attach, TypeOK, Call
<1>6. CASE Resolve(e)
  BY <1>6 DEF Resolve, TypeOK, Call
<1>7. CASE Reject(e)
  BY <1>7 DEF Reject, TypeOK, Call
<1>8. CASE ProcessError(e)
  BY <1>8 DEF ProcessError, TypeOK, Call
<1>9. CASE SaveError(e)
  BY <1>9 DEF SaveError, TypeOK, Call, Status
<1> QED BY <1>1, <1>2, <1>3, <1>4, <1>5, <1>6, <1>7, <1>8, <1>9 DEF Runner

\* So does a new start of the main.
LEMMA RestartType == ASSUME TypeOK, Restart PROVE TypeOK'
BY ScalingBounds DEF Restart, Trouble, TypeOK, Call, NoScan, bull, workers

\* The steps of a worker with a job keep the types.
LEMMA WorkType ==
    ASSUME TypeOK, NEW w \in Worker, NEW e \in Execution,
           Work(w, e)
    PROVE  TypeOK'
<1> USE DEF bull, main, workers, history
<1>1. CASE Pick(w, e)
  BY <1>1, WorkersAssumption DEF Pick, TypeOK, Run, Job, JobState
<1>a. run \in [Worker -> [Execution -> Run]]
  BY DEF TypeOK
<1>0. /\ Settled(w, e, "completed") \in [Execution -> Job] /\ Settled(w, e, "failed") \in [Execution -> Job]
      /\ \A s \in {"completed", "failed"}, x \in Execution :
           (Settled(w, e, s)[x].state = "active") <=> (Settled(w, e, s)[x].holder # "none")
  BY ReleasedType DEF Settled, TypeOK, JobState
<1>2. CASE ReadRow(w, e)
  <2>1. run' \in [Worker -> [Execution -> Run]]
    <3>1. run' = [run EXCEPT ![w][e] = "none"] \/ run' = [run EXCEPT ![w][e] = "read"]
      BY <1>2 DEF ReadRow
    <3> QED BY <1>a, <3>1 DEF Run
  <2>2. job' = job \/ job' = Settled(w, e, "completed")
    BY <1>2 DEF ReadRow
  <2>3. job' \in [Execution -> Job] /\ \A x \in Execution : (job'[x].state = "active") <=> (job'[x].holder # "none")
    BY <1>0, <2>2 DEF TypeOK
  <2> QED BY <1>2, <2>1, <2>3 DEF ReadRow, TypeOK
<1>3. CASE SetRunning(w, e)
  BY <1>3 DEF SetRunning, TypeOK, Run, Status
<1>4. CASE Start(w, e)
  BY <1>4 DEF Start, TypeOK, Run
<1>5. CASE End(w, e)
  BY <1>5 DEF End, TypeOK, Run, Status
<1>6. CASE Complete(w, e)
  BY <1>0, <1>6 DEF Complete, TypeOK, Run
<1>7. CASE Abort(w, e)
  <2>1. run' \in [Worker -> [Execution -> Run]] /\ saving' \subseteq Worker \X Execution
    <3>1. run' = run \/ run' = [run EXCEPT ![w][e] = "canceling"]
      BY <1>7 DEF Abort
    <3>2. saving' = saving \/ saving' = saving \cup {<<w, e>>}
      BY <1>7 DEF Abort
    <3>3. run' \in [Worker -> [Execution -> Run]]
      BY <1>a, <3>1 DEF Run
    <3> QED BY <3>2, <3>3 DEF TypeOK
  <2> QED BY <1>7, <2>1 DEF Abort, TypeOK
<1>8. CASE SaveProgress(w, e)
  BY <1>8 DEF SaveProgress, Progress, TypeOK, Status
<1>9. CASE EndFails(w, e)
  BY <1>9, ScalingBounds DEF EndFails, Trouble, TypeOK, Run, Status
<1>10. CASE NodeReturns(w, e)
  BY <1>10 DEF NodeReturns, Progress, TypeOK, Run, Status
<1>11. CASE SaveCanceled(w, e)
  BY <1>11 DEF SaveCanceled, TypeOK, Status
<1>12. CASE SaveCanceledFails(w, e)
  BY <1>12, ScalingBounds DEF SaveCanceledFails, Trouble, TypeOK
<1>13. CASE ProcessFails(w, e)
  BY <1>0, <1>13, ScalingBounds DEF ProcessFails, Trouble, TypeOK, Run
<1> QED
  BY <1>1, <1>2, <1>3, <1>4, <1>5, <1>6, <1>7, <1>8, <1>9, <1>10, <1>11, <1>12, <1>13 DEF Work, Process

\* A job that stalls keeps its type: it may stall once more.
LEMMA StallType ==
    ASSUME TypeOK, StallsLeft, NEW e \in Execution, Stall(e)
    PROVE  TypeOK'
<1>1. job' \in [Execution -> Job]
  BY ScalingBounds DEF Stall, TypeOK, StallsLeft, Queued, Job, JobState
<1>2. \A x \in Execution : (job'[x].state = "active") <=> (job'[x].holder # "none")
  BY DEF Stall, TypeOK
<1>3. troubles' \in 0 .. MaxTroubles /\ stolen' \subseteq Execution
  BY ScalingBounds DEF Stall, Trouble, TypeOK
<1> QED BY <1>1, <1>2, <1>3 DEF Stall, TypeOK, main, workers

\* So do the steps that concern a worker as a whole.
LEMMA WorkerType ==
    ASSUME TypeOK, NEW w \in Worker, StopWorker(w) \/ EndWorker(w) \/ CrashWorker(w)
    PROVE  TypeOK'
<1> USE DEF bull, main, workers, history
<1>1. CASE StopWorker(w)
  BY <1>1, ScalingBounds DEF StopWorker, Trouble, TypeOK
<1>2. CASE EndWorker(w)
  BY <1>2 DEF EndWorker, Down, TypeOK, Run
<1>3. CASE CrashWorker(w)
  BY <1>3, ScalingBounds DEF CrashWorker, Down, Trouble, TypeOK, Run
<1> QED BY <1>1, <1>2, <1>3

\* The steps of a stop.
LEMMA StopType ==
    ASSUME TypeOK, NEW e \in Execution, StopCheck(e) \/ Stopper(e)
    PROVE  TypeOK'
<1> USE DEF bull, main, workers, history
<1>1. CASE StopCheck(e)
  BY <1>1, ScalingBounds DEF StopCheck, Trouble, TypeOK
<1>2. CASE StopWrite(e)
  BY <1>2 DEF StopWrite, TypeOK, Status
<1>3. CASE StopJobCheck(e)
  BY <1>3 DEF StopJobCheck, TypeOK
<1>4. CASE StopJobEnd(e)
  BY <1>4, ReleasedType DEF StopJobEnd, TypeOK, JobState
<1> QED BY <1>1, <1>2, <1>3, <1>4 DEF Stopper

\* The steps of queue recovery.
LEMMA RecoverType == ASSUME TypeOK, Recover PROVE TypeOK'
<1> USE DEF bull, main, workers, history
<1>1. CASE ScanRows
  BY <1>1 DEF ScanRows, TypeOK
<1>2. CASE ScanJobs
  BY <1>2 DEF ScanJobs, TypeOK, NoScan
<1>3. CASE MarkAsCrashed
  BY <1>3 DEF MarkAsCrashed, TypeOK, NoScan, Status
<1> QED BY <1>1, <1>2, <1>3 DEF Recover

-----------------------------------------------------------------------------
(* Calls and jobs.                                                         *)

\* A job in the queue is given to a worker, leaves, or comes back, and the other
\* jobs stay what they are.
LEMMA QueuedJobSteps ==
    ASSUME TypeOK, CallsMatch, NEW e \in Execution, job[e].state \in {"waiting", "active"},
           job' \in [Execution -> Job], \A x \in Execution \ {e} : job'[x] = job[x],
           job'[e].state # "none", UNCHANGED <<call, cancel>>
    PROVE  CallsMatch'
BY DEF CallsMatch, NoJob

\* CallsMatch is inductive.
LEMMA CallsMatchStep == ASSUME TypeOK, TypeOK', CallsMatch, Next PROVE CallsMatch'
<1> USE DEF bull, main, workers, history
<1>1. ASSUME NEW e \in Execution, Create(e) \/ CheckFails(e) \/ AddJobFails(e) \/ Runner(e)
      PROVE  CallsMatch'
  <2>1. CASE Create(e)
    BY <2>1 DEF Create, CallsMatch, TypeOK
  <2>2. CASE CheckFails(e)
    BY <2>2 DEF CheckFails, CallsMatch, TypeOK
  <2>3. CASE AddJobFails(e)
    BY <2>3 DEF AddJobFails, CallsMatch, TypeOK
  <2>4. CASE AddJob(e)
    BY <2>4 DEF AddJob, Released, CallsMatch, TypeOK
  <2>5. CASE Attach(e) \/ Resolve(e) \/ Reject(e)
    BY <2>5 DEF Attach, Resolve, Reject, CallsMatch, TypeOK
  <2>6. CASE ProcessError(e) \/ SaveError(e)
    BY <2>6 DEF ProcessError, SaveError, CallsMatch, TypeOK, NoJob
  <2> QED BY <1>1, <2>1, <2>2, <2>3, <2>4, <2>5, <2>6 DEF Runner
<1>2. CASE Restart
  BY <1>2 DEF Restart, CallsMatch, TypeOK
<1>3. ASSUME NEW w \in Worker, NEW e \in Execution, Work(w, e)
      PROVE  CallsMatch'
  <2>1. CASE Pick(w, e)
    BY <2>1, QueuedJobSteps DEF Pick, TypeOK
  <2>2. ASSUME NEW state \in {"completed", "failed"}, job' = Settled(w, e, state), UNCHANGED <<call, cancel>>
        PROVE  CallsMatch'
    <3>1. CASE Holds(w, e)
      <4>1. job'[e].state # "none" /\ \A x \in Execution \ {e} : job'[x] = job[x]
        BY <2>2, <3>1 DEF Settled, Released, TypeOK
      <4> QED BY <2>2, <3>1, <4>1, QueuedJobSteps DEF Holds, TypeOK
    <3>2. CASE ~Holds(w, e)
      BY <2>2, <3>2 DEF Settled, CallsMatch
    <3> QED BY <3>1, <3>2
  <2>3. CASE UNCHANGED <<call, cancel, job>>
    BY <2>3 DEF CallsMatch
  <2> QED
    BY <1>3, <2>1, <2>2, <2>3 DEF Work, Process, ReadRow, SetRunning, Start, SaveProgress, End, EndFails,
       NodeReturns, SaveCanceled, SaveCanceledFails, ProcessFails, Complete, Abort
<1>4. ASSUME NEW e \in Execution, Stall(e) PROVE CallsMatch'
  BY <1>4, QueuedJobSteps DEF Stall, TypeOK
<1>5. ASSUME NEW w \in Worker, StopWorker(w) \/ EndWorker(w) \/ CrashWorker(w)
      PROVE  CallsMatch'
  BY <1>5 DEF StopWorker, EndWorker, CrashWorker, Down, CallsMatch
<1>6. ASSUME NEW e \in Execution, StopCheck(e) \/ Stopper(e) PROVE CallsMatch'
  <2>1. CASE StopCheck(e) \/ StopWrite(e) \/ StopJobCheck(e)
    BY <2>1 DEF StopCheck, StopWrite, StopJobCheck, CallsMatch, TypeOK
  <2>2. CASE StopJobEnd(e)
    BY <2>2 DEF StopJobEnd, Released, CallsMatch, TypeOK, NoJob
  <2> QED BY <1>6, <2>1, <2>2 DEF Stopper
<1>7. CASE Recover
  BY <1>7 DEF Recover, ScanRows, ScanJobs, MarkAsCrashed, CallsMatch
<1> QED BY <1>1, <1>2, <1>3, <1>4, <1>5, <1>6, <1>7 DEF Next

\* StallsLeft is inductive: an active job stalls before it waits again.
LEMMA StallsLeftStep ==
    ASSUME TypeOK, TypeOK', CallsMatch, StallsLeft, Next PROVE StallsLeft'
<1> USE DEF bull, main, workers, history, Queued
<1>1. ASSUME NEW e \in Execution, Create(e) \/ CheckFails(e) \/ AddJobFails(e) \/ Runner(e)
      PROVE  StallsLeft'
  <2>1. CASE AddJob(e)
    BY <2>1, ScalingBounds DEF AddJob, Released, CallsMatch, NoJob, StallsLeft, TypeOK
  <2>2. CASE ~AddJob(e)
    BY <1>1, <2>2 DEF Runner, Create, CheckFails, AddJobFails, Attach, Resolve, Reject,
         ProcessError, SaveError, StallsLeft
  <2> QED BY <2>1, <2>2
<1>2. CASE Restart
  BY <1>2 DEF Restart, StallsLeft, TypeOK
<1>3. ASSUME NEW w \in Worker, NEW e \in Execution, Work(w, e)
      PROVE  StallsLeft'
  <2>1. CASE Pick(w, e)
    BY <2>1 DEF Pick, StallsLeft, TypeOK
  <2>2. ASSUME NEW state \in {"completed", "failed"}, job' = Settled(w, e, state), UNCHANGED cancel
        PROVE  StallsLeft'
    BY <2>2 DEF Settled, Released, StallsLeft, TypeOK
  <2>3. CASE UNCHANGED <<cancel, job>>
    BY <2>3 DEF StallsLeft
  <2> QED
    BY <1>3, <2>1, <2>2, <2>3 DEF Work, Process, ReadRow, SetRunning, Start, SaveProgress, End, EndFails,
       NodeReturns, SaveCanceled, SaveCanceledFails, ProcessFails, Complete, Abort
<1>4. ASSUME NEW e \in Execution, Stall(e) PROVE StallsLeft'
  <2>1. job[e].stalls \in 0 .. MaxStalled + 1
    BY DEF TypeOK, Job
  <2>2. \A x \in Execution \ {e} : job'[x] = job[x]
    BY <1>4 DEF Stall, TypeOK
  <2>3. /\ job'[e].stalls = job[e].stalls + 1
        /\ job'[e].state = IF job[e].stalls < MaxStalled THEN "waiting" ELSE "failed"
    BY <1>4 DEF Stall, TypeOK
  <2> QED BY <1>4, <2>1, <2>2, <2>3, ScalingBounds DEF Stall, StallsLeft
<1>5. ASSUME NEW w \in Worker, StopWorker(w) \/ EndWorker(w) \/ CrashWorker(w)
      PROVE  StallsLeft'
  BY <1>5 DEF StopWorker, EndWorker, CrashWorker, Down, StallsLeft
<1>6. ASSUME NEW e \in Execution, StopCheck(e) \/ Stopper(e) PROVE StallsLeft'
  <2>1. CASE StopCheck(e) \/ StopWrite(e) \/ StopJobCheck(e)
    BY <2>1 DEF StopCheck, StopWrite, StopJobCheck, StallsLeft, TypeOK
  <2>2. CASE StopJobEnd(e)
    BY <2>2 DEF StopJobEnd, Released, StallsLeft, TypeOK
  <2> QED BY <1>6, <2>1, <2>2 DEF Stopper
<1>7. CASE Recover
  BY <1>7 DEF Recover, ScanRows, ScanJobs, MarkAsCrashed, StallsLeft
<1> QED BY <1>1, <1>2, <1>3, <1>4, <1>5, <1>6, <1>7 DEF Next

\* DownIsIdle is inductive: a process that ends takes its runs with it, and none
\* that is down gets a job.
LEMMA DownIsIdleStep == ASSUME TypeOK, DownIsIdle, Next PROVE DownIsIdle'
<1> USE DEF bull, main, workers, history
<1>1. ASSUME NEW e \in Execution,
             \/ Create(e) \/ CheckFails(e) \/ AddJobFails(e) \/ Runner(e)
             \/ StopCheck(e) \/ Stopper(e) \/ Stall(e)
      PROVE  DownIsIdle'
  BY <1>1 DEF Create, CheckFails, AddJobFails, Runner, AddJob, Attach, Resolve, Reject, ProcessError,
       SaveError, StopCheck, Stopper, StopWrite, StopJobCheck, StopJobEnd, Stall, DownIsIdle
<1>2. CASE Restart \/ Recover
  BY <1>2 DEF Restart, Recover, ScanRows, ScanJobs, MarkAsCrashed, DownIsIdle
<1>3. ASSUME NEW w \in Worker, NEW e \in Execution, Work(w, e)
      PROVE  DownIsIdle'
  <2>1. UNCHANGED worker
    BY <1>3 DEF Work, Process, Pick, ReadRow, SetRunning, Start, SaveProgress, Progress, End, EndFails,
         NodeReturns, SaveCanceled, SaveCanceledFails, ProcessFails, Complete, Abort, Settled
  <2>2. \A v \in Worker, x \in Execution : v # w \/ x # e => run'[v][x] = run[v][x]
    BY <1>3 DEF Work, Process, Pick, ReadRow, SetRunning, Start, SaveProgress, Progress, End, EndFails,
         NodeReturns, SaveCanceled, SaveCanceledFails, ProcessFails, Complete, Abort, Settled, TypeOK
  <2>3. worker[w] = "down" => run'[w][e] = "none"
    BY <1>3 DEF Work, Process, Pick, ReadRow, SetRunning, Start, SaveProgress, Progress, End, EndFails,
         NodeReturns, SaveCanceled, SaveCanceledFails, ProcessFails, Complete, Abort, Settled, TypeOK,
         DownIsIdle
  <2> QED BY <2>1, <2>2, <2>3 DEF DownIsIdle
<1>4. ASSUME NEW w \in Worker, StopWorker(w) \/ EndWorker(w) \/ CrashWorker(w)
      PROVE  DownIsIdle'
  BY <1>4 DEF StopWorker, EndWorker, CrashWorker, Down, DownIsIdle, TypeOK
<1> QED BY <1>1, <1>2, <1>3, <1>4 DEF Next

-----------------------------------------------------------------------------
(* Who runs a job.                                                         *)

\* When the job stalls with a worker that is down, nobody is busy with it.
LEMMA NobodyIsBusy ==
    ASSUME TypeOK, DownIsIdle, OneIsBusy, NEW e \in Execution \ stolen,
           job[e].state \in {"none", "waiting"} \/
             (job[e].state = "active" /\ worker[job[e].holder] = "down")
    PROVE  \A w \in Worker : run[w][e] \notin Busy
<1> SUFFICES ASSUME NEW w \in Worker, run[w][e] \in Busy PROVE FALSE
  OBVIOUS
<1>1. Holds(w, e) \/ job[e].state \in {"completed", "failed", "cancelled"}
  BY DEF OneIsBusy
<1>2. job[e].state = "active" /\ job[e].holder = w
  BY <1>1 DEF Holds
<1> QED BY <1>2 DEF DownIsIdle, Busy

\* OneIsBusy is inductive: a job is given to a worker when nobody is busy with it,
\* and one who is busy goes on to be while it holds it.
LEMMA OneIsBusyStep ==
    ASSUME TypeOK, TypeOK', CallsMatch, DownIsIdle, OneIsBusy, Next PROVE OneIsBusy'
<1> USE DEF bull, main, workers, history
<1>1. ASSUME NEW e \in Execution, Create(e) \/ CheckFails(e) \/ AddJobFails(e) \/ Runner(e)
      PROVE  OneIsBusy'
  <2>1. CASE AddJob(e)
    <3>1. \A x \in Execution \ {e} : job'[x] = job[x]
      BY <2>1 DEF AddJob, Released, TypeOK
    <3>2. e \notin stolen => \A w \in Worker : run[w][e] \notin Busy
      BY <2>1, NobodyIsBusy DEF AddJob, CallsMatch, NoJob
    <3> QED BY <2>1, <3>1, <3>2 DEF AddJob, OneIsBusy, Holds
  <2>2. CASE ~AddJob(e)
    BY <1>1, <2>2 DEF Runner, Create, CheckFails, AddJobFails, Attach, Resolve, Reject,
         ProcessError, SaveError, OneIsBusy, Holds
  <2> QED BY <2>1, <2>2
<1>2. CASE Restart \/ Recover
  BY <1>2 DEF Restart, Recover, ScanRows, ScanJobs, MarkAsCrashed, OneIsBusy, Holds
<1>3. ASSUME NEW w \in Worker, NEW e \in Execution, Work(w, e)
      PROVE  OneIsBusy'
  <2>1. UNCHANGED stolen
    BY <1>3 DEF Work, Process, Pick, ReadRow, SetRunning, Start, SaveProgress, Progress, End, EndFails,
         NodeReturns, SaveCanceled, SaveCanceledFails, ProcessFails, Complete, Abort, Settled
  <2>2. \A v \in Worker, x \in Execution : v # w \/ x # e => run'[v][x] = run[v][x]
    BY <1>3 DEF Work, Process, Pick, ReadRow, SetRunning, Start, SaveProgress, Progress, End, EndFails,
         NodeReturns, SaveCanceled, SaveCanceledFails, ProcessFails, Complete, Abort, Settled, TypeOK
  <2>3. \A x \in Execution \ {e} : job'[x] = job[x]
    BY <1>3 DEF Work, Process, Pick, ReadRow, SetRunning, Start, SaveProgress, Progress, End, EndFails,
         NodeReturns, SaveCanceled, SaveCanceledFails, ProcessFails, Complete, Abort, Settled, Released,
         TypeOK
  <2>4. CASE Pick(w, e)
    <3>1. e \notin stolen => \A v \in Worker : run[v][e] \notin Busy
      BY <2>4, NobodyIsBusy DEF Pick
    <3>2. job'[e].state = "active" /\ job'[e].holder = w
      BY <2>4 DEF Pick, TypeOK
    <3> QED BY <2>1, <2>2, <2>3, <3>1, <3>2 DEF OneIsBusy, Holds
  <2>5. CASE ~Pick(w, e)
    <3>1. run'[w][e] \in Busy => run[w][e] \in Busy
      BY <1>3, <2>5 DEF Work, Process, ReadRow, SetRunning, Start, SaveProgress, Progress, End, EndFails,
         NodeReturns, SaveCanceled, SaveCanceledFails, ProcessFails, Complete, Abort, Settled, TypeOK, Busy
    <3>2. job'[e] = job[e] \/ job'[e].state \in {"completed", "failed"}
      BY <1>3, <2>5 DEF Work, Process, ReadRow, SetRunning, Start, SaveProgress, Progress, End, EndFails,
         NodeReturns, SaveCanceled, SaveCanceledFails, ProcessFails, Complete, Abort, Settled, Released,
           TypeOK
    <3> QED BY <2>1, <2>2, <2>3, <3>1, <3>2 DEF OneIsBusy, Holds
  <2> QED BY <2>4, <2>5
<1>4. ASSUME NEW e \in Execution, Stall(e) PROVE OneIsBusy'
  <2>1. UNCHANGED run /\ \A x \in Execution \ {e} : job'[x] = job[x]
    BY <1>4 DEF Stall, TypeOK
  <2>2. stolen' \in {stolen, stolen \cup {e}}
    BY <1>4 DEF Stall
  <2>3. e \notin stolen' => \A w \in Worker : run[w][e] \notin Busy
    BY <1>4, NobodyIsBusy DEF Stall
  <2> QED BY <2>1, <2>2, <2>3 DEF OneIsBusy, Holds
<1>5. ASSUME NEW w \in Worker, StopWorker(w) \/ EndWorker(w) \/ CrashWorker(w)
      PROVE  OneIsBusy'
  <2>1. UNCHANGED <<job, stolen>>
    BY <1>5 DEF StopWorker, EndWorker, CrashWorker
  <2>2. CASE StopWorker(w)
    BY <2>1, <2>2 DEF StopWorker, OneIsBusy, Holds
  <2>3. CASE Down(w)
    <3>1. \A v \in Worker, x \in Execution :
             run'[v][x] = IF v = w THEN "none" ELSE run[v][x]
      BY <2>3 DEF Down, TypeOK
    <3> QED BY <2>1, <3>1 DEF OneIsBusy, Holds, Busy
  <2> QED BY <1>5, <2>2, <2>3 DEF EndWorker, CrashWorker
<1>6. ASSUME NEW e \in Execution, StopCheck(e) \/ Stopper(e) PROVE OneIsBusy'
  <2>1. CASE StopCheck(e) \/ StopWrite(e) \/ StopJobCheck(e)
    BY <2>1 DEF StopCheck, StopWrite, StopJobCheck, OneIsBusy, Holds
  <2>2. CASE StopJobEnd(e)
    <3>1. UNCHANGED <<run, stolen>> /\ \A x \in Execution \ {e} : job'[x] = job[x]
      BY <2>2 DEF StopJobEnd, Released, TypeOK
    <3>2. \/ job'[e] = job[e]
          \/ job'[e].state = "cancelled"
          \/ job[e].state = "waiting"
      BY <2>2 DEF StopJobEnd, Released, TypeOK
    <3>3. e \notin stolen /\ job[e].state = "waiting" => \A w \in Worker : run[w][e] \notin Busy
      BY NobodyIsBusy
    <3> QED BY <3>1, <3>2, <3>3 DEF OneIsBusy, Holds
  <2> QED BY <1>6, <2>1, <2>2 DEF Stopper
<1> QED BY <1>1, <1>2, <1>3, <1>4, <1>5, <1>6 DEF Next

-----------------------------------------------------------------------------
(* How often a workflow is started.                                        *)

\* The number of workers that will start a workflow is a number.
LEMMA PendingIsFinite ==
    ASSUME NEW e \in Execution
    PROVE  IsFiniteSet(Pending(e)) /\ Cardinality(Pending(e)) \in Nat
<1>1. Pending(e) \in SUBSET Worker
  BY DEF Pending
<1>2. IsFiniteSet(Pending(e))
  BY <1>1, WorkersAssumption, FS_Subset
<1> QED BY <1>2, FS_CardinalityType

\* A step that gives no job of e away, starts nothing and takes nothing back
\* from the picks leaves the count as it is.
LEMMA CountKept ==
    ASSUME TypeOK, TypeOK', NEW e \in Execution, started[e] + Cardinality(Pending(e)) <= Picks(e),
           started'[e] = started[e], Pending(e)' \subseteq Pending(e), Picks(e) <= Picks(e)'
    PROVE  started'[e] + Cardinality(Pending(e)') <= Picks(e)'
<1>1. IsFiniteSet(Pending(e)) /\ Cardinality(Pending(e)) \in Nat
  BY PendingIsFinite
<1>2. Cardinality(Pending(e)') <= Cardinality(Pending(e)) /\ Cardinality(Pending(e)') \in Nat
  BY <1>1, FS_Subset, FS_CardinalityType
<1>3. started[e] \in Nat /\ Picks(e) \in Int /\ Picks(e)' \in Int
  BY ScalingBounds DEF TypeOK, Picks, Job
<1> QED BY <1>1, <1>2, <1>3

\* StartsCounted is inductive: a worker starts the workflow once for each time
\* the job was given to it, and the job is given away once more for each time
\* it stalled.
LEMMA StartsCountedStep ==
    ASSUME TypeOK, TypeOK', CallsMatch, StartsCounted, Next PROVE StartsCounted'
<1> USE DEF bull, main, workers, history
<1> SUFFICES ASSUME NEW e \in Execution
             PROVE  started'[e] + Cardinality(Pending(e)') <= Picks(e)'
  BY DEF StartsCounted
<1>0. started[e] + Cardinality(Pending(e)) <= Picks(e)
  BY DEF StartsCounted
<1>a. job[e] \in Job /\ job'[e] \in Job /\ started[e] \in Nat
  BY DEF TypeOK
<1>1. ASSUME NEW x \in Execution, Create(x) \/ CheckFails(x) \/ AddJobFails(x) \/ Runner(x)
      PROVE  started'[e] + Cardinality(Pending(e)') <= Picks(e)'
  <2>1. UNCHANGED <<started, run>>
    BY <1>1 DEF Create, CheckFails, AddJobFails, Runner, AddJob, Attach, Resolve, Reject,
         ProcessError, SaveError
  <2>2. job'[e] = job[e] \/ (job[e] = NoJob /\ job'[e].state = "waiting" /\ job'[e].stalls = job[e].stalls)
    BY <1>1 DEF Create, CheckFails, AddJobFails, Runner, AddJob, Attach, Resolve, Reject,
         ProcessError, SaveError, Released, CallsMatch, TypeOK
  <2>3. Picks(e)' = Picks(e)
    BY <2>2 DEF Picks, NoJob
  <2>4. Pending(e)' \subseteq Pending(e)
    BY <2>1 DEF Pending
  <2> QED BY <1>0, <1>a, <2>1, <2>3, <2>4, ScalingBounds, CountKept DEF Picks, Job
<1>2. CASE Restart \/ Recover
  <2>1. UNCHANGED <<started, run, job>>
    BY <1>2 DEF Restart, Recover, ScanRows, ScanJobs, MarkAsCrashed
  <2> QED BY <1>0, <2>1 DEF Picks, Pending
<1>3. ASSUME NEW w \in Worker, NEW x \in Execution, Work(w, x)
      PROVE  started'[e] + Cardinality(Pending(e)') <= Picks(e)'
  <2>1. \A v \in Worker, y \in Execution : v # w \/ y # x => run'[v][y] = run[v][y]
    BY <1>3 DEF Work, Process, Pick, ReadRow, SetRunning, Start, SaveProgress, Progress, End, EndFails,
         NodeReturns, SaveCanceled, SaveCanceledFails, ProcessFails, Complete, Abort, Settled, TypeOK
  <2>2. CASE x # e
    <3>1. job'[e] = job[e] /\ started'[e] = started[e]
      BY <1>3, <2>2 DEF Work, Process, Pick, ReadRow, SetRunning, Start, SaveProgress, Progress, End, EndFails,
         NodeReturns, SaveCanceled, SaveCanceledFails, ProcessFails, Complete, Abort, Settled,
           Released, TypeOK
    <3>2. Pending(e)' = Pending(e)
      BY <2>1, <2>2 DEF Pending
    <3> QED BY <1>0, <3>1, <3>2 DEF Picks
  <2>3. CASE x = e /\ Pick(w, e)
    <3>1. UNCHANGED started /\ job[e].state = "waiting" /\ job'[e].state = "active"
          /\ job'[e].stalls = job[e].stalls
      BY <2>3 DEF Pick, TypeOK
    <3>2. Pending(e)' = Pending(e) \cup {w} /\ w \notin Pending(e)
      BY <2>1, <2>3 DEF Pick, Pending, TypeOK
    <3>3. Cardinality(Pending(e)') = Cardinality(Pending(e)) + 1 /\ Cardinality(Pending(e)) \in Nat
      BY <3>2, PendingIsFinite, FS_AddElement
    <3> QED BY <1>0, <1>a, <3>1, <3>3, ScalingBounds DEF Picks, Job
  <2>4. CASE x = e /\ Start(w, e)
    <3>1. UNCHANGED job /\ started'[e] = started[e] + 1
      BY <2>4 DEF Start, TypeOK
    <3>2. Pending(e)' = Pending(e) \ {w} /\ w \in Pending(e)
      BY <2>1, <2>4 DEF Start, Pending, TypeOK
    <3>3. Cardinality(Pending(e)') = Cardinality(Pending(e)) - 1 /\ Cardinality(Pending(e)) \in Nat
      BY <3>2, PendingIsFinite, FS_RemoveElement
    <3>4. Picks(e)' = Picks(e)
      BY <3>1 DEF Picks
    <3> QED BY <1>0, <1>a, <3>1, <3>3, <3>4, ScalingBounds DEF Picks, Job
  <2>5. CASE x = e /\ ~Pick(w, e) /\ ~Start(w, e)
    <3>1. started'[e] = started[e] /\ Picks(e) <= Picks(e)'
      BY <1>3, <1>a, <2>5, ScalingBounds DEF Work, Process, ReadRow, SetRunning, SaveProgress, Progress, End, EndFails,
         NodeReturns, SaveCanceled, SaveCanceledFails, ProcessFails, Complete, Abort, Settled,
           Released, Holds, TypeOK, Picks, Job
    <3>2. run'[w][e] \in {"picked", "read", "preparing"} => run[w][e] \in {"picked", "read", "preparing"}
      BY <1>3, <2>5 DEF Work, Process, ReadRow, SetRunning, SaveProgress, Progress, End, EndFails,
         NodeReturns, SaveCanceled, SaveCanceledFails, ProcessFails, Complete, Abort, Settled, TypeOK
    <3>3. Pending(e)' \subseteq Pending(e)
      BY <2>1, <3>2 DEF Pending
    <3> QED BY <1>0, <3>1, <3>3, CountKept
  <2> QED BY <2>2, <2>3, <2>4, <2>5
<1>4. ASSUME NEW x \in Execution, Stall(x)
      PROVE  started'[e] + Cardinality(Pending(e)') <= Picks(e)'
  <2>1. UNCHANGED <<started, run>>
    BY <1>4 DEF Stall
  <2>2. Picks(e) <= Picks(e)'
    <3>1. CASE x = e
      <4>1. job'[e].stalls = job[e].stalls + 1 /\ job[e].state = "active" /\ job'[e].state # "none"
        BY <1>4, <3>1 DEF Stall, TypeOK
      <4> QED BY <1>a, <4>1, ScalingBounds DEF Picks, Job
    <3>2. CASE x # e
      BY <1>4, <1>a, <3>2, ScalingBounds DEF Stall, TypeOK, Picks, Job
    <3> QED BY <3>1, <3>2
  <2>3. Pending(e)' \subseteq Pending(e)
    BY <2>1 DEF Pending
  <2> QED BY <1>0, <2>1, <2>2, <2>3, CountKept
<1>5. ASSUME NEW w \in Worker, StopWorker(w) \/ EndWorker(w) \/ CrashWorker(w)
      PROVE  started'[e] + Cardinality(Pending(e)') <= Picks(e)'
  <2>1. UNCHANGED <<job, started>>
    BY <1>5 DEF StopWorker, EndWorker, CrashWorker
  <2>2. Picks(e)' = Picks(e) /\ Picks(e) \in Int
    BY <1>a, <2>1, ScalingBounds DEF Picks, Job
  <2>3. Pending(e)' \subseteq Pending(e)
    <3>1. CASE StopWorker(w)
      BY <3>1 DEF StopWorker, Pending
    <3>2. CASE Down(w)
      BY <3>2 DEF Down, Pending, TypeOK
    <3> QED BY <1>5, <3>1, <3>2 DEF EndWorker, CrashWorker
  <2> QED BY <1>0, <2>1, <2>2, <2>3, CountKept
<1>6. ASSUME NEW x \in Execution, StopCheck(x) \/ Stopper(x)
      PROVE  started'[e] + Cardinality(Pending(e)') <= Picks(e)'
  <2>1. UNCHANGED <<started, run>>
    BY <1>6 DEF StopCheck, Stopper, StopWrite, StopJobCheck, StopJobEnd
  <2>2. job'[e].stalls = job[e].stalls /\ (job'[e].state = job[e].state \/ job'[e].state \in {"cancelled", "removed"})
    BY <1>6 DEF StopCheck, Stopper, StopWrite, StopJobCheck, StopJobEnd, Released, TypeOK
  <2>3. Picks(e) <= Picks(e)' /\ Pending(e)' \subseteq Pending(e)
    BY <1>a, <2>1, <2>2, ScalingBounds DEF Picks, Pending, Job
  <2> QED BY <1>0, <2>1, <2>3, CountKept
<1> QED BY <1>1, <1>2, <1>3, <1>4, <1>5, <1>6 DEF Next

-----------------------------------------------------------------------------
(* Stops.                                                                  *)

\* What happened to a stop is not forgotten.
LEMMA HistoryGrows == ASSUME Next PROVE slipped \subseteq slipped' /\ stolen \subseteq stolen'
<1> USE DEF bull, main, workers, history
<1>1. ASSUME NEW e \in Execution, Create(e) \/ CheckFails(e) \/ AddJobFails(e) \/ Runner(e)
      PROVE  slipped \subseteq slipped' /\ stolen \subseteq stolen'
  BY <1>1 DEF Create, CheckFails, AddJobFails, Runner, AddJob, Attach, Resolve, Reject, ProcessError,
       SaveError
<1>2. ASSUME NEW w \in Worker, NEW e \in Execution, Work(w, e)
      PROVE  slipped \subseteq slipped' /\ stolen \subseteq stolen'
  BY <1>2 DEF Work, Process, Pick, ReadRow, SetRunning, Start, SaveProgress, Progress, End, EndFails,
         NodeReturns, SaveCanceled, SaveCanceledFails, ProcessFails, Complete, Abort, Settled
<1>3. ASSUME NEW e \in Execution, Stall(e) \/ StopCheck(e) \/ Stopper(e)
      PROVE  slipped \subseteq slipped' /\ stolen \subseteq stolen'
  BY <1>3 DEF Stall, StopCheck, Stopper, StopWrite, StopJobCheck, StopJobEnd
<1>4. ASSUME NEW w \in Worker, StopWorker(w) \/ EndWorker(w) \/ CrashWorker(w)
      PROVE  slipped \subseteq slipped' /\ stolen \subseteq stolen'
  BY <1>4 DEF StopWorker, EndWorker, CrashWorker
<1>5. CASE Restart \/ Recover
  BY <1>5 DEF Restart, Recover, ScanRows, ScanJobs, MarkAsCrashed
<1> QED BY <1>1, <1>2, <1>3, <1>4, <1>5 DEF Next

\* A job that was cancelled or removed does not come back.
LEMMA GoneForGood ==
    ASSUME TypeOK, CallsMatch, Next, NEW e \in Execution, Gone(e) PROVE Gone(e)'
<1> USE DEF bull, main, workers, history
<1>1. ASSUME NEW x \in Execution,
             \/ Create(x) \/ CheckFails(x) \/ AddJobFails(x) \/ Runner(x)
      PROVE  Gone(e)'
  BY <1>1 DEF Create, CheckFails, AddJobFails, Runner, AddJob, Attach, Resolve, Reject, ProcessError,
       SaveError, Released, CallsMatch, NoJob, TypeOK, Gone
<1>2. ASSUME NEW w \in Worker, NEW x \in Execution, Work(w, x)
      PROVE  Gone(e)'
  BY <1>2 DEF Work, Process, Pick, ReadRow, SetRunning, Start, SaveProgress, Progress, End, EndFails,
         NodeReturns, SaveCanceled, SaveCanceledFails, ProcessFails, Complete, Abort, Settled, Holds,
       Released, TypeOK, Gone
<1>3. ASSUME NEW x \in Execution, Stall(x) \/ StopCheck(x) \/ Stopper(x)
      PROVE  Gone(e)'
  BY <1>3 DEF Stall, StopCheck, Stopper, StopWrite, StopJobCheck, StopJobEnd, Released, TypeOK, Gone
<1>4. ASSUME NEW w \in Worker, StopWorker(w) \/ EndWorker(w) \/ CrashWorker(w)
      PROVE  Gone(e)'
  BY <1>4 DEF StopWorker, EndWorker, CrashWorker, Gone
<1>5. CASE Restart \/ Recover
  BY <1>5 DEF Restart, Recover, ScanRows, ScanJobs, MarkAsCrashed, Gone
<1> QED BY <1>1, <1>2, <1>3, <1>4, <1>5 DEF Next

\* Where a stop comes from: it was there before, or stopJob is not over, or it
\* has taken the job away, or did not reach it.
LEMMA StopSteps ==
    ASSUME TypeOK, Next, NEW e \in Execution, Stopped(e)', cancel'[e] = "idle", e \notin slipped'
    PROVE  (cancel[e] = "idle" /\ Stopped(e)) \/ Gone(e)'
<1> USE DEF bull, main, workers, history
<1>1. ASSUME NEW x \in Execution,
             Create(x) \/ CheckFails(x) \/ AddJobFails(x) \/ Runner(x) \/ Stall(x)
      PROVE  cancel[e] = "idle" /\ Stopped(e)
  BY <1>1 DEF Create, CheckFails, AddJobFails, Runner, AddJob, Attach, Resolve, Reject, ProcessError,
       SaveError, Stall, TypeOK, Stopped
<1>2. ASSUME NEW w \in Worker, NEW x \in Execution, Work(w, x)
      PROVE  cancel[e] = "idle" /\ Stopped(e)
  <2>1. UNCHANGED <<cancel, stop>> /\ aborts' \subseteq aborts
    BY <1>2 DEF Work, Process, Pick, ReadRow, SetRunning, Start, SaveProgress, Progress, End, EndFails,
         NodeReturns, SaveCanceled, SaveCanceledFails, ProcessFails, Complete, Abort, Settled
  <2>2. row'[e] = "canceled" => row[e] = "canceled" \/ \E v \in Worker : <<v, e>> \in saving
    <3>1. CASE SaveCanceled(w, x)
      BY <3>1 DEF SaveCanceled, TypeOK
    <3>2. CASE ~SaveCanceled(w, x)
      BY <1>2, <3>2 DEF Work, Process, Pick, ReadRow, SetRunning, Start, SaveProgress, Progress, End,
         EndFails, NodeReturns, SaveCanceledFails, ProcessFails, Complete, Abort, TypeOK
    <3> QED BY <3>1, <3>2
  <2>3. saving' \subseteq saving \cup aborts
    BY <1>2 DEF Work, Process, Pick, ReadRow, SetRunning, Start, SaveProgress, End, EndFails, NodeReturns,
       SaveCanceled, SaveCanceledFails, ProcessFails, Complete, Abort
  <2> QED BY <2>1, <2>2, <2>3 DEF Stopped
<1>3. ASSUME NEW w \in Worker, StopWorker(w) \/ EndWorker(w) \/ CrashWorker(w)
      PROVE  cancel[e] = "idle" /\ Stopped(e)
  <2>1. CASE StopWorker(w)
    BY <2>1 DEF StopWorker, Stopped
  <2>2. CASE Down(w) /\ UNCHANGED <<cancel, stop, row>>
    <3>1. aborts' \subseteq aborts /\ saving' \subseteq saving
      BY <2>2 DEF Down
    <3> QED BY <2>2, <3>1 DEF Stopped
  <2> QED BY <1>3, <2>1, <2>2 DEF EndWorker, CrashWorker
<1>4. ASSUME NEW x \in Execution, StopCheck(x) \/ Stopper(x)
      PROVE  (cancel[e] = "idle" /\ Stopped(e)) \/ Gone(e)'
  <2>1. CASE StopCheck(x)
    BY <2>1 DEF StopCheck, TypeOK, Stopped
  <2>2. CASE StopWrite(x)
    BY <2>2 DEF StopWrite, TypeOK, Stopped
  <2>3. CASE StopJobCheck(x)
    <3>1. x # e /\ cancel'[e] = cancel[e] /\ UNCHANGED <<row, stop, saving>>
      BY <2>3 DEF StopJobCheck, TypeOK
    <3>2. \A v \in Worker : <<v, e>> \in aborts' => <<v, e>> \in aborts
      BY <2>3, <3>1 DEF StopJobCheck
    <3> QED BY <3>1, <3>2 DEF Stopped
  <2>4. CASE StopJobEnd(x)
    <3>1. CASE x = e
      BY <2>4, <3>1 DEF StopJobEnd, Released, TypeOK, Gone
    <3>2. CASE x # e
      BY <2>4, <3>2 DEF StopJobEnd, TypeOK, Stopped
    <3> QED BY <3>1, <3>2
  <2> QED BY <1>4, <2>1, <2>2, <2>3, <2>4 DEF Stopper
<1>5. CASE Restart
  BY <1>5 DEF Restart, TypeOK, Stopped
<1>6. CASE Recover
  BY <1>6 DEF Recover, ScanRows, ScanJobs, MarkAsCrashed, TypeOK, Stopped
<1> QED BY <1>1, <1>2, <1>3, <1>4, <1>5, <1>6 DEF Next

\* StopsReach is inductive.
LEMMA StopsReachStep == ASSUME TypeOK, CallsMatch, StopsReach, Next PROVE StopsReach'
<1> SUFFICES ASSUME NEW e \in Execution \ (slipped' \cup stolen'), cancel'[e] = "idle", Stopped(e)'
             PROVE  Gone(e)'
  BY DEF StopsReach
<1>1. e \notin slipped \cup stolen
  BY HistoryGrows
<1>2. CASE cancel[e] = "idle" /\ Stopped(e)
  BY <1>1, <1>2, GoneForGood DEF StopsReach
<1>3. CASE ~(cancel[e] = "idle" /\ Stopped(e))
  BY <1>3, StopSteps
<1> QED BY <1>2, <1>3

\* BusyAreTold is inductive: stopJob tells all workers that run, and one that gets
\* the job later got it after it stalled, or the stop did not reach it.
LEMMA BusyAreToldStep ==
    ASSUME TypeOK, CallsMatch, StallsLeft, StallsLeft', DownIsIdle, BusyAreTold, Next
    PROVE  BusyAreTold'
<1> USE DEF bull, main, workers, history
<1> DEFINE Claimed(e) == job[e].state = "cancelled" \/ (cancel[e] = "discarding" /\ job[e].stalls = 0)
<1> SUFFICES ASSUME NEW e \in Execution \ (slipped' \cup stolen'), Claimed(e)',
                    NEW w \in Worker, run'[w][e] \in Busy
             PROVE  <<w, e>> \in aborts'
  BY DEF BusyAreTold
<1>0. e \notin slipped \cup stolen /\ (Claimed(e) /\ run[w][e] \in Busy => <<w, e>> \in aborts)
  BY HistoryGrows DEF BusyAreTold
<1> USE DEF Claimed
<1>1. ASSUME NEW x \in Execution, Create(x) \/ CheckFails(x) \/ AddJobFails(x) \/ Runner(x)
      PROVE  <<w, e>> \in aborts'
  <2>1. UNCHANGED <<aborts, cancel, run>>
    BY <1>1 DEF Create, CheckFails, AddJobFails, Runner, AddJob, Attach, Resolve, Reject, ProcessError,
         SaveError
  <2>2. job'[e] = job[e] \/ (job'[e].state = "waiting" /\ cancel[e] = "idle")
    BY <1>1 DEF Create, CheckFails, AddJobFails, Runner, AddJob, Attach, Resolve, Reject, ProcessError,
         SaveError, Released, TypeOK, CallsMatch
  <2> QED BY <1>0, <2>1, <2>2
<1>2. ASSUME NEW v \in Worker, NEW x \in Execution, Work(v, x)
      PROVE  <<w, e>> \in aborts'
  <2>1. CASE Pick(v, x)
    <3>1. UNCHANGED <<aborts, cancel>> /\ (x # e => job'[e] = job[e] /\ run'[w][e] = run[w][e])
      BY <2>1 DEF Pick, TypeOK
    <3>2. x = e => ~Claimed(e)'
      BY <2>1 DEF Pick, StallsLeft, TypeOK
    <3> QED BY <1>0, <3>1, <3>2
  <2>2. CASE ~Pick(v, x)
    <3>1. Claimed(e)
      BY <1>2, <2>2 DEF Work, Process, ReadRow, SetRunning, Start, SaveProgress, Progress, End, EndFails,
         NodeReturns, SaveCanceled, SaveCanceledFails, ProcessFails, Complete, Abort, Settled, Released, TypeOK
    <3>2. run[w][e] \in Busy
      BY <1>2, <2>2 DEF Work, Process, ReadRow, SetRunning, Start, SaveProgress, Progress, End, EndFails,
         NodeReturns, SaveCanceled, SaveCanceledFails, ProcessFails, Complete, Abort, Settled, TypeOK, Busy
    <3>3. <<w, e>> \in aborts
      BY <1>0, <3>1, <3>2
    <3>4. CASE Abort(v, x)
      BY <3>2, <3>3, <3>4 DEF Abort, TypeOK, Busy
    <3>5. CASE ~Abort(v, x)
      BY <1>2, <2>2, <3>3, <3>5 DEF Work, Process, ReadRow, SetRunning, Start, SaveProgress, End, EndFails,
         NodeReturns, SaveCanceled, SaveCanceledFails, ProcessFails, Complete
    <3> QED BY <3>4, <3>5
  <2> QED BY <2>1, <2>2
<1>3. ASSUME NEW x \in Execution, Stall(x) PROVE <<w, e>> \in aborts'
  <2>1. UNCHANGED <<aborts, cancel, run>>
    BY <1>3 DEF Stall
  <2>2. CASE x = e
    <3>1. job[e].stalls \in Nat /\ job'[e].stalls = job[e].stalls + 1 /\ job'[e].state # "cancelled"
      BY <1>3, <2>2, ScalingBounds DEF Stall, TypeOK, Job
    <3> QED BY <3>1
  <2>3. CASE x # e
    BY <1>0, <1>3, <2>1, <2>3 DEF Stall, TypeOK
  <2> QED BY <2>2, <2>3
<1>4. ASSUME NEW v \in Worker, StopWorker(v) \/ EndWorker(v) \/ CrashWorker(v)
      PROVE  <<w, e>> \in aborts'
  <2>1. UNCHANGED <<job, cancel>>
    BY <1>4 DEF StopWorker, EndWorker, CrashWorker
  <2>2. CASE StopWorker(v)
    BY <1>0, <2>1, <2>2 DEF StopWorker
  <2>3. CASE Down(v)
    <3>1. w # v /\ run'[w][e] = run[w][e]
      BY <2>3 DEF Down, TypeOK, Busy
    <3> QED BY <1>0, <2>1, <2>3, <3>1 DEF Down
  <2> QED BY <1>4, <2>2, <2>3 DEF EndWorker, CrashWorker
<1>5. ASSUME NEW x \in Execution, StopCheck(x) \/ Stopper(x) PROVE <<w, e>> \in aborts'
  <2>1. UNCHANGED run /\ aborts \subseteq aborts'
    BY <1>5 DEF StopCheck, Stopper, StopWrite, StopJobCheck, StopJobEnd
  <2>2. CASE StopCheck(x) \/ StopWrite(x)
    BY <1>0, <2>1, <2>2 DEF StopCheck, StopWrite, TypeOK
  <2>3. CASE StopJobCheck(x)
    <3>1. CASE x = e /\ job[e].state = "active"
      <4>1. worker[w] # "down"
        BY <2>1 DEF DownIsIdle, Busy
      <4> QED BY <2>3, <3>1, <4>1 DEF StopJobCheck
    <3>2. CASE ~(x = e /\ job[e].state = "active")
      BY <1>0, <2>1, <2>3, <3>2 DEF StopJobCheck, TypeOK
    <3> QED BY <3>1, <3>2
  <2>4. CASE StopJobEnd(x)
    <3>1. CASE x = e
      <4>1. cancel'[e] = "idle" /\ UNCHANGED aborts
        BY <2>4, <3>1 DEF StopJobEnd, TypeOK
      <4>2. /\ cancel[e] = "discarding" /\ job[e].state = "active" /\ job'[e].state = "cancelled"
            /\ ~Untold(e)
        BY <2>4, <3>1, <4>1 DEF StopJobEnd, Released, TypeOK
      <4>3. CASE job[e].stalls = 0
        BY <1>0, <2>1, <4>2, <4>3
      <4>4. CASE job[e].stalls # 0
        <5>1. job[e].stalls > 0
          BY <4>4, ScalingBounds DEF TypeOK, Job
        <5> QED BY <2>1, <4>2, <5>1 DEF Untold
      <4> QED BY <4>3, <4>4
    <3>2. CASE x # e
      BY <1>0, <2>1, <2>4, <3>2 DEF StopJobEnd, Released, TypeOK
    <3> QED BY <3>1, <3>2
  <2> QED BY <1>5, <2>2, <2>3, <2>4 DEF Stopper
<1>6. CASE Restart \/ Recover
  BY <1>0, <1>6 DEF Restart, Recover, ScanRows, ScanJobs, MarkAsCrashed, TypeOK
<1> QED BY <1>1, <1>2, <1>3, <1>4, <1>5, <1>6 DEF Next

-----------------------------------------------------------------------------
(* The invariant and the theorems.                                         *)

LEMMA IInvInit == Init => IInv
<1> SUFFICES ASSUME Init PROVE IInv
  OBVIOUS
<1>1. TypeOK
  BY InitType
<1>2. CallsMatch /\ StallsLeft /\ DownIsIdle
  BY ScalingBounds DEF Init, CallsMatch, StallsLeft, DownIsIdle, Queued, NoJob
<1>3. OneIsBusy /\ StopsReach /\ BusyAreTold
  BY DEF Init, OneIsBusy, StopsReach, Stopped, BusyAreTold, Busy, NoJob
<1>4. StartsCounted
  <2> SUFFICES ASSUME NEW e \in Execution
               PROVE  started[e] + Cardinality(Pending(e)) <= Picks(e)
    BY DEF StartsCounted
  <2>1. Pending(e) = {}
    BY DEF Init, Pending
  <2>2. started[e] = 0 /\ Picks(e) = 0
    BY DEF Init, Picks, NoJob
  <2> QED BY <2>1, <2>2, FS_EmptySet
<1> QED BY <1>1, <1>2, <1>3, <1>4 DEF IInv

LEMMA TypeStep == ASSUME IInv, Next PROVE TypeOK'
BY MainType, RestartType, WorkType, StallType, WorkerType, StopType, RecoverType DEF IInv, Next

LEMMA IInvStep == IInv /\ [Next]_vars => IInv'
<1> SUFFICES ASSUME IInv, [Next]_vars PROVE IInv'
  OBVIOUS
<1>1. CASE Next
  <2>1. TypeOK'
    BY <1>1, TypeStep
  <2>2. CallsMatch' /\ StallsLeft' /\ DownIsIdle'
    BY <1>1, <2>1, CallsMatchStep, StallsLeftStep, DownIsIdleStep DEF IInv
  <2>3. OneIsBusy' /\ StartsCounted' /\ StopsReach'
    BY <1>1, <2>1, OneIsBusyStep, StartsCountedStep, StopsReachStep DEF IInv
  <2>4. BusyAreTold'
    BY <1>1, <2>2, BusyAreToldStep DEF IInv
  <2> QED BY <2>1, <2>2, <2>3, <2>4 DEF IInv
<1>2. CASE UNCHANGED vars
  <2> USE <1>2 DEF vars, bull, main, workers, history
  <2>1. TypeOK'
    BY DEF IInv, TypeOK
  <2>2. CallsMatch' /\ StallsLeft' /\ DownIsIdle'
    BY DEF IInv, CallsMatch, StallsLeft, Queued, DownIsIdle
  <2>3. OneIsBusy' /\ StartsCounted'
    BY DEF IInv, OneIsBusy, Holds, StartsCounted, Picks, Pending
  <2>4. StopsReach' /\ BusyAreTold'
    BY DEF IInv, StopsReach, Stopped, Gone, BusyAreTold
  <2> QED BY <2>1, <2>2, <2>3, <2>4 DEF IInv
<1> QED BY <1>1, <1>2

LEMMA Invariance == Spec => []IInv
BY IInvInit, IInvStep, PTL DEF Spec

\* The state is well formed, and an active job has a worker that was given it.
THEOREM TypeCorrect == Spec => []TypeOK
BY Invariance, PTL DEF IInv

\* The count bounds the starts, and one busy worker leaves no second one.
LEMMA IInvRunsOnce == IInv => RunsOnce
<1> SUFFICES ASSUME IInv, NEW e \in Execution
             PROVE  /\ started[e] <= 1 + job[e].stalls
                    /\ \A w, v \in Worker :
                         run[w][e] \in {"preparing", "running"} /\ run[v][e] \in {"preparing", "running"} =>
                             w = v \/ e \in stolen
  BY DEF RunsOnce
<1>1. started[e] \in Nat /\ job[e].stalls \in Nat /\ Cardinality(Pending(e)) \in Nat
  BY PendingIsFinite, ScalingBounds DEF IInv, TypeOK, Job
<1>2. started[e] <= 1 + job[e].stalls
  BY <1>1 DEF IInv, StartsCounted, Picks
<1>3. ASSUME NEW w \in Worker, NEW v \in Worker,
             run[w][e] \in {"preparing", "running"}, run[v][e] \in {"preparing", "running"}
      PROVE  w = v \/ e \in stolen
  BY <1>3 DEF IInv, OneIsBusy, Busy
<1> QED BY <1>2, <1>3

\* The workflow of an execution is started once, and once more for each time its
\* job stalled; two workers run it at once only if the job of one that lives was
\* taken from it (processJob, and Bull's stalled jobs), however many executions
\* and workers there are and however often anything fails.
THEOREM RunsOnceAlways == Spec => []RunsOnce
BY Invariance, IInvRunsOnce, PTL

\* Only a step on the execution itself writes that it runs or has ended.
LEMMA StopHoldsStep ==
    ASSUME IInv, Next, NEW e \in Execution, row[e] = "canceled",
           row'[e] \in {"running", "success", "error"}
    PROVE  \/ e \in slipped \cup stolen \cup late' \/ cancel[e] # "idle"
           \/ \E w \in Worker : <<w, e>> \in aborts
<1> USE DEF bull, main, workers, history
<1> SUFFICES ASSUME e \notin slipped \cup stolen \cup late', cancel[e] = "idle",
                    \A w \in Worker : <<w, e>> \notin aborts
             PROVE  FALSE
  OBVIOUS
<1>1. Gone(e)
  BY DEF IInv, StopsReach, Stopped
<1>2. \A w \in Worker : run[w][e] \notin Busy
  BY <1>1 DEF IInv, OneIsBusy, BusyAreTold, Holds, Gone
<1>3. call[e] \notin {"created", "writing"}
  BY <1>1 DEF IInv, CallsMatch, NoJob, Gone
<1>4. ASSUME NEW x \in Execution, Create(x) \/ CheckFails(x) \/ AddJobFails(x) \/ Runner(x)
      PROVE  FALSE
  BY <1>3, <1>4 DEF IInv, TypeOK, Create, CheckFails, AddJobFails, Runner, AddJob, Attach, Resolve,
       Reject, ProcessError, SaveError
<1>5. ASSUME NEW w \in Worker, NEW x \in Execution, Work(w, x)
      PROVE  FALSE
  <2>1. CASE End(w, x) \/ EndFails(w, x)
    BY <1>2, <2>1 DEF IInv, TypeOK, End, EndFails, Busy
  <2>2. CASE SetRunning(w, x) \/ SaveProgress(w, x)
    BY <1>2, <2>2 DEF IInv, TypeOK, SetRunning, SaveProgress, Progress, Busy
  <2>3. CASE NodeReturns(w, x)
    BY <2>3 DEF IInv, TypeOK, NodeReturns, Progress
  <2>4. CASE SaveCanceled(w, x)
    BY <2>4 DEF IInv, TypeOK, SaveCanceled
  <2>5. CASE UNCHANGED row
    BY <2>5
  <2> QED
    BY <1>5, <2>1, <2>2, <2>3, <2>4, <2>5 DEF Work, Process, Pick, ReadRow, Start, SaveCanceledFails,
       ProcessFails, Complete, Abort
<1>6. ASSUME NEW x \in Execution, Stall(x) \/ StopCheck(x) \/ Stopper(x) PROVE FALSE
  BY <1>6 DEF IInv, TypeOK, Stall, StopCheck, Stopper, StopWrite, StopJobCheck, StopJobEnd
<1>7. ASSUME NEW w \in Worker, StopWorker(w) \/ EndWorker(w) \/ CrashWorker(w) PROVE FALSE
  BY <1>7 DEF StopWorker, EndWorker, CrashWorker
<1>8. CASE Restart \/ Recover
  BY <1>8 DEF IInv, TypeOK, Restart, Recover, ScanRows, ScanJobs, MarkAsCrashed
<1> QED BY <1>4, <1>5, <1>6, <1>7, <1>8 DEF Next

\* What a user has stopped goes on only if the stop did not reach its job, is still
\* on its way to it, or a node that did not heed it has saved its progress
\* (stopInScalingMode, ScalingService.stopJob, JobProcessor.stopJob and
\* saveExecutionProgress).
THEOREM StopsHold == Spec => StopHolds
<1>1. ASSUME IInv, [Next]_vars
      PROVE  [\A e \in Execution :
                row[e] = "canceled" /\ row'[e] \in {"running", "success", "error"} =>
                    e \in slipped \cup stolen \cup late' \/ cancel[e] # "idle" \/ \E w \in Worker : <<w, e>> \in aborts]_vars
  BY <1>1, StopHoldsStep
<1> QED BY <1>1, Invariance, PTL DEF Spec, StopHolds
=============================================================================
