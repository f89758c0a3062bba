------------------------ MODULE CrashRecovery_proofs ------------------------
(***************************************************************************)
(* Proofs about CrashRecovery, for every set of executions and any number  *)
(* of starts and waits: which rows a start of the process may leave saying *)
(* running with nothing behind them.                                       *)
(*                                                                         *)
(* What holds once the process is up rests on what holds in the stages     *)
(* before it, and on nothing that an earlier process left: Covered says of *)
(* a row that says running who answers for it in each stage.               *)
(*                                                                         *)
(* No execution that waits is lost because of a second invariant,          *)
(* WaitingKept, for mode extensive and recoveries that do not break: no    *)
(* timer is set for a row that does not wait, nothing runs an enqueued     *)
(* execution before its turn, and a row that waits says crashed only until *)
(* the hooks have run.                                                     *)
(***************************************************************************)
EXTENDS CrashRecovery, TLAPS

\* Somebody answers for the row of execution e: a run; the start, which has not
\* read the rows yet, or has e on its list; the recovery that is amending it;
\* or, in mode extensive, the log has no more than its beginning.
Covered(e) ==
    \/ Live(e)
    \/ stage \in {"down", "starting"}
    \/ stage = "marking" /\ e \in todo
    \/ stage = "recovering" /\ e \in todo
    \/ stage = "recovering" /\ amend.step = "read" /\ amend.id = e
    \/ stage = "recovering" /\ log[e].msgs = "started"
    \/ stage = "up" /\ mode = "extensive" /\ log[e].msgs = "started"

RunningIsCovered == \A e \in Execution : db[e].status = "running" => Covered(e)

\* recoverFromLogs is only called in mode extensive, and what it has written
\* does not say running.
RecoveryIsExtensive ==
    /\ stage = "recovering" => mode = "extensive"
    /\ amend.step = "written" => amend.row.status \in {"crashed", "error"}

\* A process that went down is started again within the bound.
BootsLeft == stage = "down" => boots < MaxBoots

IInv == TypeOK /\ BootsLeft /\ RecoveryIsExtensive /\ RunningIsCovered

-----------------------------------------------------------------------------
(* Types.                                                                  *)

\* What the log is after a rotation.
LEMMA RotatedType ==
    ASSUME TypeOK
    PROVE  Rotated \in [Execution -> [msgs : {"none", "started", "nodes"}, age : 0 .. 2]]
<1>1. ASSUME NEW e \in Execution
      PROVE  (IF e \notin Unfinished THEN NoMessages ELSE [log[e] EXCEPT !.age = @ + 1])
                \in [msgs : {"none", "started", "nodes"}, age : 0 .. 2]
  <2>1. log[e] \in [msgs : {"none", "started", "nodes"}, age : 0 .. 2]
    BY DEF TypeOK
  <2>2. CASE e \in Unfinished
    BY <2>1, <2>2 DEF Unfinished
  <2>3. CASE e \notin Unfinished
    BY <2>3 DEF NoMessages
  <2> QED BY <2>2, <2>3
<1> QED BY <1>1 DEF Rotated

\* A message keeps the type of the log.
LEMMA WriteType ==
    ASSUME TypeOK, NEW e \in Execution, NEW msgs \in {"none", "started", "nodes"},
           Write(e, msgs)
    PROVE  log' \in [Execution -> [msgs : {"none", "started", "nodes"}, age : 0 .. 2]]
BY DEF TypeOK, Write

\* The initial state is well typed.
LEMMA InitType == Init => TypeOK
<1> SUFFICES ASSUME Init PROVE TypeOK
  OBVIOUS
<1>1. db \in [Execution -> Row]
  BY DEF Init, Row, Status
<1>2. log \in [Execution -> [msgs : {"none", "started", "nodes"}, age : 0 .. 2]]
  BY DEF Init, NoMessages
<1>3. run \in [Runs -> [at : {"idle", "called", "added", "executing"}, again : BOOLEAN]]
  BY DEF Init, NoRun
<1>4. flag \in BOOLEAN /\ broken \in BOOLEAN /\ stage \in Stage
  BY DEF Init, Stage
<1>5. boots \in 0 .. MaxBoots /\ waits \in 0 .. MaxWaits
  BY RecoveryBounds DEF Init
<1> QED BY <1>1, <1>2, <1>3, <1>4, <1>5 DEF Init, TypeOK

\* The steps of a run keep the types.
LEMMA RunType ==
    ASSUME TypeOK, NEW r \in Runs, RunStep(r)
    PROVE  TypeOK'
<1>1. r[1] \in Execution /\ r = <<r[1], r[2]>>
  BY DEF Runs
<1>2. db[r[1]] \in Row /\ run[r] \in [at : {"idle", "called", "added", "executing"}, again : BOOLEAN]
  BY <1>1 DEF TypeOK
<1>3. CASE Register(r)
  BY <1>1, <1>3 DEF Register, TypeOK, Row, Status
<1>4. CASE Begin(r)
  <2>1. db' \in [Execution -> Row]
    BY <1>1, <1>2, <1>4 DEF Begin, TypeOK, Row, Status
  <2>2. log' \in [Execution -> [msgs : {"none", "started", "nodes"}, age : 0 .. 2]]
    BY <1>1, <1>4, WriteType DEF Begin, TypeOK
  <2>3. run' \in [Runs -> [at : {"idle", "called", "added", "executing"}, again : BOOLEAN]]
    BY <1>2, <1>4 DEF Begin, TypeOK
  <2> QED BY <1>4, <2>1, <2>2, <2>3 DEF Begin, TypeOK
<1>5. CASE NodeStarts(r)
  <2>1. log' \in [Execution -> [msgs : {"none", "started", "nodes"}, age : 0 .. 2]]
    BY <1>1, <1>5, WriteType DEF NodeStarts
  <2> QED BY <1>5, <2>1 DEF NodeStarts, TypeOK
<1>6. CASE PutToWait(r)
  <2>1. log' \in [Execution -> [msgs : {"none", "started", "nodes"}, age : 0 .. 2]]
    BY <1>1, <1>6, WriteType DEF PutToWait
  <2>2. db' \in [Execution -> Row] /\ waits' \in 0 .. MaxWaits
    BY <1>1, <1>6, RecoveryBounds DEF PutToWait, TypeOK, Row, Status
  <2>3. run' \in [Runs -> [at : {"idle", "called", "added", "executing"}, again : BOOLEAN]]
    BY <1>6 DEF PutToWait, TypeOK, NoRun
  <2> QED BY <1>6, <2>1, <2>2, <2>3 DEF PutToWait, TypeOK
<1>7. CASE End(r)
  <2>1. log' \in [Execution -> [msgs : {"none", "started", "nodes"}, age : 0 .. 2]]
    BY <1>1, <1>7, WriteType DEF End
  <2>2. db' \in [Execution -> Row]
    BY <1>1, <1>2, <1>7 DEF End, TypeOK, Row, Status
  <2>3. run' \in [Runs -> [at : {"idle", "called", "added", "executing"}, again : BOOLEAN]]
    BY <1>7 DEF End, TypeOK, NoRun
  <2> QED BY <1>7, <2>1, <2>2, <2>3 DEF End, TypeOK
<1> QED BY <1>3, <1>4, <1>5, <1>6, <1>7 DEF RunStep

\* The steps of waiting executions, and new executions, keep the types.
LEMMA ExecutionType ==
    ASSUME TypeOK, NEW e \in Execution,
           Create(e) \/ Resume(e) \/ StopWaiting(e) \/ RunEnqueued(e) \/ Recover(e)
    PROVE  TypeOK'
<1>1. <<e, 1>> \in Runs /\ <<e, 2>> \in Runs
  BY DEF Runs
<1>2. CASE Create(e)
  <2>1. db' \in [Execution -> Row]
    <3>1. db \in [Execution -> Row]
      BY DEF TypeOK
    <3>2. [db[e] EXCEPT !.status = "new"] \in Row
      BY <3>1 DEF Row, Status
    <3>3. db' = [db EXCEPT ![e] = [db[e] EXCEPT !.status = "new"]]
      BY <1>2 DEF Create
    <3> QED BY <3>1, <3>2, <3>3
  <2>2. run' \in [Runs -> [at : {"idle", "called", "added", "executing"}, again : BOOLEAN]]
    BY <1>2 DEF Create, TypeOK
  <2> QED BY <1>2, <2>1, <2>2 DEF Create, TypeOK
<1>3. CASE Resume(e)
  <2>1. run' \in [Runs -> [at : {"idle", "called", "added", "executing"}, again : BOOLEAN]]
    BY <1>1, <1>3 DEF Resume, TypeOK
  <2> QED BY <1>3, <2>1 DEF Resume, TypeOK
<1>4. CASE StopWaiting(e)
  BY <1>4 DEF StopWaiting, TypeOK, Row, Status
<1>5. CASE RunEnqueued(e)
  <2>1. log' \in [Execution -> [msgs : {"none", "started", "nodes"}, age : 0 .. 2]]
    BY <1>5, WriteType DEF RunEnqueued
  <2>2. run' \in [Runs -> [at : {"idle", "called", "added", "executing"}, again : BOOLEAN]]
    BY <1>5 DEF RunEnqueued, TypeOK
  <2> QED BY <1>5, <2>1, <2>2 DEF RunEnqueued, TypeOK
<1>6. CASE Recover(e)
  <2>1. amend' = NoAmend \/ amend' \in [id : Execution, step : {"read", "written"}, row : Row]
    BY <1>6 DEF Recover, TypeOK
  <2>2. broken' \in BOOLEAN
    BY <1>6 DEF Recover, TypeOK, Live
  <2> QED BY <1>6, <2>1, <2>2 DEF Recover, TypeOK
<1> QED BY <1>2, <1>3, <1>4, <1>5, <1>6

\* The other steps of the process keep the types.
LEMMA ProcessType ==
    ASSUME TypeOK, BootsLeft,
           Poll \/ Die \/ Boot \/ ReadLog \/ MarkAsCrashed \/ Amend \/ RunHooks \/ RecoveryDone
    PROVE  TypeOK'
<1>1. CASE Poll
  BY <1>1 DEF Poll, Due, TypeOK
<1>2. CASE Die
  <2>1. run' \in [Runs -> [at : {"idle", "called", "added", "executing"}, again : BOOLEAN]]
    BY <1>2 DEF Die, NoRun
  <2>2. broken' \in BOOLEAN /\ stage' \in Stage
    BY <1>2 DEF Die, Stage, TypeOK
  <2> QED BY <1>2, <2>1, <2>2 DEF Die, TypeOK
<1>3. CASE Boot
  <2>1. stage' \in Stage
    BY <1>3 DEF Boot, Stage
  <2>2. boots' \in 0 .. MaxBoots
    BY <1>3, RecoveryBounds DEF Boot, TypeOK, BootsLeft
  <2> QED BY <1>3, <2>1, <2>2 DEF Boot, TypeOK
<1>4. CASE ReadLog
  <2>1. log' \in [Execution -> [msgs : {"none", "started", "nodes"}, age : 0 .. 2]]
    BY <1>4, RotatedType DEF ReadLog
  <2>2. todo' \subseteq Execution /\ stage' \in Stage
    BY <1>4 DEF ReadLog, Unfinished, StillRunning, Enqueued, Stage
  <2>3. flag' \in BOOLEAN
    BY <1>4 DEF ReadLog, TypeOK
  <2> QED BY <1>4, <2>1, <2>2, <2>3 DEF ReadLog, TypeOK
<1>5. CASE MarkAsCrashed
  <2>1. db' \in [Execution -> Row]
    BY <1>5 DEF MarkAsCrashed, TypeOK, Row, Status
  <2>2. todo' \subseteq Execution /\ stage' \in Stage /\ flag' \in BOOLEAN
    BY <1>5 DEF MarkAsCrashed, Stage
  <2> QED BY <1>5, <2>1, <2>2 DEF MarkAsCrashed, TypeOK
<1>6. CASE Amend
  <2>1. amend \in [id : Execution, step : {"read", "written"}, row : Row]
    BY <1>6 DEF Amend, TypeOK, NoAmend
  <2>2. db[amend.id] \in Row /\ amend.row \in Row
    BY <2>1 DEF TypeOK
  <2>3. /\ db' \in [Execution -> Row]
        /\ amend' \in [id : Execution, step : {"read", "written"}, row : Row]
    BY <1>6, <2>1, <2>2 DEF Amend, TypeOK, Row, Status
  <2>4. broken' \in BOOLEAN
    BY <1>6 DEF Amend, TypeOK, Live
  <2> QED BY <1>6, <2>3, <2>4 DEF Amend, TypeOK
<1>7. CASE RunHooks
  <2>1. amend \in [id : Execution, step : {"read", "written"}, row : Row]
    BY <1>7 DEF RunHooks, TypeOK, NoAmend
  <2>2. db[amend.id] \in Row /\ amend.row \in Row
    BY <2>1 DEF TypeOK
  <2>3. (amend.row.due \/ db[amend.id].due) \in BOOLEAN
    BY <2>2 DEF Row
  <2>4. db' \in [Execution -> Row]
    BY <1>7, <2>1, <2>2, <2>3 DEF RunHooks, TypeOK, Row, Status
  <2> QED BY <1>7, <2>4 DEF RunHooks, TypeOK
<1>8. CASE RecoveryDone
  BY <1>8 DEF RecoveryDone, Enqueued, TypeOK, Stage
<1> QED BY <1>1, <1>2, <1>3, <1>4, <1>5, <1>6, <1>7, <1>8

\* Every step keeps the types.
LEMMA TypeStep == IInv /\ Next => TypeOK'
<1> SUFFICES ASSUME IInv, Next PROVE TypeOK'
  OBVIOUS
<1>1. TypeOK /\ BootsLeft
  BY DEF IInv
<1>2. CASE \E r \in Runs : RunStep(r)
  BY <1>1, <1>2, RunType
<1>3. CASE \E e \in Execution : Create(e) \/ Resume(e) \/ StopWaiting(e)
  BY <1>1, <1>3, ExecutionType
<1>4. CASE Poll \/ Die
  BY <1>1, <1>4, ProcessType
<1>5. CASE BootStep
  BY <1>1, <1>5, ProcessType, ExecutionType DEF BootStep
<1> QED BY <1>2, <1>3, <1>4, <1>5 DEF Next

-----------------------------------------------------------------------------
(* What answers for the rows.                                              *)

\* Only Die, Boot, ReadLog, MarkAsCrashed and RecoveryDone change the stage.
LEMMA StageStep ==
    IInv /\ Next => BootsLeft' /\ RecoveryIsExtensive'
<1> SUFFICES ASSUME IInv, Next PROVE BootsLeft' /\ RecoveryIsExtensive'
  OBVIOUS
<1>1. TypeOK /\ BootsLeft /\ RecoveryIsExtensive
  BY DEF IInv
<1>2. ASSUME NEW r \in Runs, RunStep(r)
      PROVE  BootsLeft' /\ RecoveryIsExtensive'
  BY <1>1, <1>2
  DEF RunStep, Register, Begin, NodeStarts, PutToWait, End, BootsLeft, RecoveryIsExtensive
<1>3. ASSUME NEW e \in Execution, Create(e) \/ Resume(e) \/ StopWaiting(e) \/ RunEnqueued(e)
      PROVE  BootsLeft' /\ RecoveryIsExtensive'
  BY <1>1, <1>3
  DEF Create, Resume, StopWaiting, RunEnqueued, BootsLeft, RecoveryIsExtensive
<1>4. ASSUME NEW e \in Execution, Recover(e)
      PROVE  BootsLeft' /\ RecoveryIsExtensive'
  BY <1>1, <1>4 DEF Recover, NoAmend, BootsLeft, RecoveryIsExtensive
<1>5. CASE Poll \/ Die \/ Boot
  BY <1>1, <1>5 DEF Poll, Die, Boot, NoAmend, BootsLeft, RecoveryIsExtensive
<1>6. CASE ReadLog
  BY <1>1, <1>6 DEF ReadLog, TypeOK, BootsLeft, RecoveryIsExtensive
<1>7. CASE MarkAsCrashed \/ RecoveryDone
  BY <1>1, <1>7 DEF MarkAsCrashed, RecoveryDone, NoAmend, BootsLeft, RecoveryIsExtensive
<1>8. CASE Amend
  <2>1. amend \in [id : Execution, step : {"read", "written"}, row : Row]
    BY <1>1, <1>8 DEF Amend, TypeOK, NoAmend
  <2>2. amend'.row.status \in {"crashed", "error"}
    BY <1>1, <1>8, <2>1 DEF Amend, TypeOK, Row
  <2> QED BY <1>1, <1>8, <2>2 DEF Amend, BootsLeft, RecoveryIsExtensive
<1>9. CASE RunHooks
  BY <1>1, <1>9 DEF RunHooks, NoAmend, BootsLeft, RecoveryIsExtensive
<1> QED BY <1>2, <1>3, <1>4, <1>5, <1>6, <1>7, <1>8, <1>9 DEF Next, BootStep

\* A run that moves on leaves everybody else's runs as they are.
LEMMA OthersLive ==
    ASSUME NEW r \in Runs, NEW to, TypeOK, run' = [run EXCEPT ![r] = to]
    PROVE  /\ \A e \in Execution : e # r[1] => (Live(e)' <=> Live(e))
           /\ to.at # "idle" => Live(r[1])'
           /\ to.at # "idle" => \A e \in Execution : Live(e) => Live(e)'
<1>1. PICK x \in Execution, k \in {1, 2} : r = <<x, k>>
  BY DEF Runs
<1>2. \A e \in Execution, j \in {1, 2} : <<e, j>> \in Runs /\ (<<e, j>> = r <=> e = x /\ j = k)
  BY <1>1 DEF Runs
<1>3. run'[r] = to /\ \A q \in Runs : q # r => run'[q] = run[q]
  BY DEF TypeOK
<1> QED BY <1>1, <1>2, <1>3 DEF Live, Up

\* Runs that start, register and begin answer for their own row, and the row of
\* one that is put to wait or ends does not say running any more.
LEMMA RunCovered ==
    ASSUME IInv, NEW r \in Runs, RunStep(r)
    PROVE  RunningIsCovered'
<1>1. TypeOK /\ RunningIsCovered
  BY DEF IInv
<1>2. r[1] \in Execution
  BY DEF Runs
<1> SUFFICES ASSUME NEW e \in Execution, db'[e].status = "running"
             PROVE  Covered(e)'
  BY DEF RunningIsCovered
<1>3. CASE Register(r)
  <2> DEFINE to == [run[r] EXCEPT !.at = "added"]
  <2>0. run' = [run EXCEPT ![r] = to] /\ to.at # "idle"
    BY <1>1, <1>3 DEF Register, TypeOK
  <2>1. e # r[1] => db'[e] = db[e]
    BY <1>1, <1>3 DEF Register, TypeOK
  <2>2. e = r[1] => Live(e)'
    BY <1>1, <2>0, OthersLive
  <2>3. Live(e) => Live(e)'
    BY <1>1, <2>0, OthersLive
  <2> QED BY <1>1, <1>3, <2>1, <2>2, <2>3 DEF Register, RunningIsCovered, Covered
<1>4. CASE Begin(r)
  <2> DEFINE to == [run[r] EXCEPT !.at = "executing"]
  <2>1. run' = [run EXCEPT ![r] = to] /\ to.at # "idle"
    BY <1>1, <1>4 DEF Begin, TypeOK
  <2>2. e # r[1] => db'[e] = db[e] /\ log'[e] = log[e]
    BY <1>1, <1>2, <1>4 DEF Begin, Write, TypeOK
  <2>3. e = r[1] => Live(e)'
    BY <1>1, <2>1, OthersLive
  <2>4. Live(e) => Live(e)'
    BY <1>1, <2>1, OthersLive
  <2> QED BY <1>1, <1>4, <2>2, <2>3, <2>4 DEF Begin, RunningIsCovered, Covered
<1>5. CASE NodeStarts(r)
  <2>1. run[r].at # "idle"
    BY <1>5 DEF NodeStarts
  <2>2. Live(r[1]) /\ (Live(e)' <=> Live(e))
    BY <1>5, <2>1 DEF NodeStarts, Live, Up, Runs
  <2>3. e # r[1] => log'[e] = log[e]
    BY <1>1, <1>2, <1>5 DEF NodeStarts, Write, TypeOK
  <2> QED BY <1>1, <1>5, <2>2, <2>3 DEF NodeStarts, RunningIsCovered, Covered
<1>6. CASE PutToWait(r) \/ End(r)
  <2>1. e # r[1]
    <3>1. CASE PutToWait(r)
      BY <1>1, <1>2, <3>1 DEF PutToWait, TypeOK
    <3>2. CASE End(r)
      <4>1. db[r[1]] \in Row
        BY <1>1, <1>2 DEF TypeOK
      <4>2. db'[r[1]].status \in {"success", "error"}
        BY <1>1, <1>2, <3>2, <4>1 DEF End, TypeOK, Row
      <4> QED BY <4>2
    <3> QED BY <1>6, <3>1, <3>2
  <2>2. db'[e] = db[e] /\ log'[e] = log[e]
    BY <1>1, <1>2, <1>6, <2>1 DEF PutToWait, End, Write, TypeOK
  <2>3. Live(e)' <=> Live(e)
    BY <1>1, <1>6, <2>1, OthersLive DEF PutToWait, End
  <2> QED BY <1>1, <1>6, <2>2, <2>3 DEF PutToWait, End, RunningIsCovered, Covered
<1> QED BY <1>3, <1>4, <1>5, <1>6 DEF RunStep

\* New, resumed, stopped and enqueued executions.
LEMMA ExecutionCovered ==
    ASSUME IInv, NEW x \in Execution,
           Create(x) \/ Resume(x) \/ StopWaiting(x) \/ RunEnqueued(x) \/ Recover(x)
    PROVE  RunningIsCovered'
<1>1. TypeOK /\ RunningIsCovered
  BY DEF IInv
<1>2. <<x, 1>> \in Runs /\ <<x, 2>> \in Runs
  BY DEF Runs
<1> SUFFICES ASSUME NEW e \in Execution, db'[e].status = "running"
             PROVE  Covered(e)'
  BY DEF RunningIsCovered
<1>3. CASE Create(x)
  <2>1. db[e].status = "running"
    BY <1>1, <1>3 DEF Create, TypeOK, Row
  <2> DEFINE to == [at |-> "called", again |-> FALSE]
  <2>0. run' = [run EXCEPT ![<<x, 1>>] = to] /\ to.at # "idle"
    BY <1>3 DEF Create
  <2>2. Live(e) => Live(e)'
    BY <1>1, <1>2, <2>0, OthersLive
  <2> QED BY <1>1, <1>3, <2>1, <2>2 DEF Create, RunningIsCovered, Covered
<1>4. CASE Resume(x)
  <2>1. Live(e) => Live(e)'
    <3>1. CASE run' = run
      BY <3>1 DEF Live, Up
    <3>2. ASSUME NEW r \in Runs, run' = [run EXCEPT ![r] = [at |-> "called", again |-> TRUE]]
          PROVE  Live(e) => Live(e)'
      <4> DEFINE to == [at |-> "called", again |-> TRUE]
      <4>1. run' = [run EXCEPT ![r] = to] /\ to.at # "idle"
        BY <3>2
      <4> QED BY <1>1, <4>1, OthersLive
    <3> QED BY <1>2, <1>4, <3>1, <3>2 DEF Resume
  <2> QED BY <1>1, <1>4, <2>1 DEF Resume, RunningIsCovered, Covered
<1>5. CASE StopWaiting(x)
  <2>1. db[e].status = "running" /\ (Live(e)' <=> Live(e))
    BY <1>1, <1>5 DEF StopWaiting, TypeOK, Live, Up
  <2> QED BY <1>1, <1>5, <2>1 DEF StopWaiting, RunningIsCovered, Covered
<1>6. CASE RunEnqueued(x)
  <2> DEFINE to == [at |-> "called", again |-> TRUE]
  <2>0. run' = [run EXCEPT ![<<x, 1>>] = to] /\ to.at # "idle"
    BY <1>6 DEF RunEnqueued
  <2>1. (x = e => Live(e)') /\ (Live(e) => Live(e)')
    BY <1>1, <1>2, <2>0, OthersLive
  <2>2. x # e => log'[e] = log[e]
    BY <1>1, <1>6 DEF RunEnqueued, Write, TypeOK
  <2> QED BY <1>1, <1>6, <2>1, <2>2 DEF RunEnqueued, RunningIsCovered, Covered
<1>7. CASE Recover(x)
  <2>1. Live(e)' <=> Live(e)
    BY <1>7 DEF Recover, Live, Up
  <2>2. CASE e = x
    BY <1>1, <1>7, <2>1, <2>2 DEF Recover, RunningIsCovered, Covered
  <2>3. CASE e # x
    BY <1>1, <1>7, <2>1, <2>3 DEF Recover, RunningIsCovered, Covered, NoAmend
  <2> QED BY <2>2, <2>3
<1> QED BY <1>3, <1>4, <1>5, <1>6, <1>7

\* The end and the start of a process: the rows are read when they answer for
\* themselves, marked or amended, and answered for when that is done.
LEMMA ProcessCovered ==
    ASSUME IInv,
           Poll \/ Die \/ Boot \/ ReadLog \/ MarkAsCrashed \/ Amend \/ RunHooks \/ RecoveryDone
    PROVE  RunningIsCovered'
<1>1. TypeOK /\ RecoveryIsExtensive /\ RunningIsCovered
  BY DEF IInv
<1> SUFFICES ASSUME NEW e \in Execution, db'[e].status = "running"
             PROVE  Covered(e)'
  BY DEF RunningIsCovered
<1>2. run' = run => (Live(e)' <=> Live(e))
  BY DEF Live, Up
<1>3. CASE Poll
  BY <1>1, <1>2, <1>3 DEF Poll, RunningIsCovered, Covered
<1>4. CASE Die \/ Boot
  BY <1>4 DEF Die, Boot, Covered
<1>5. CASE ReadLog
  <2>1. e \in StillRunning
    BY <1>5 DEF ReadLog, StillRunning
  <2>2. e \in todo' /\ stage' \in {"marking", "recovering"}
    BY <1>5, <2>1 DEF ReadLog
  <2> QED BY <2>2 DEF Covered
<1>6. CASE MarkAsCrashed
  <2>1. e \notin todo /\ db[e].status = "running"
    BY <1>1, <1>6 DEF MarkAsCrashed, TypeOK, Row
  <2> QED BY <1>1, <1>2, <1>6, <2>1 DEF MarkAsCrashed, RunningIsCovered, Covered
<1>7. CASE Amend
  <2>1. amend \in [id : Execution, step : {"read", "written"}, row : Row]
    BY <1>1, <1>7 DEF Amend, TypeOK, NoAmend
  <2>2. e # amend.id
    BY <1>1, <1>7, <2>1 DEF Amend, TypeOK, Row
  <2>3. db'[e] = db[e]
    BY <1>1, <1>7, <2>1, <2>2 DEF Amend, TypeOK
  <2> QED BY <1>1, <1>2, <1>7, <2>2, <2>3 DEF Amend, RunningIsCovered, Covered
<1>8. CASE RunHooks
  <2>1. amend \in [id : Execution, step : {"read", "written"}, row : Row]
    BY <1>1, <1>8 DEF RunHooks, TypeOK, NoAmend
  <2>2. e # amend.id
    BY <1>1, <1>8, <2>1 DEF RunHooks, RecoveryIsExtensive, TypeOK
  <2>3. db'[e] = db[e]
    BY <1>1, <1>8, <2>1, <2>2 DEF RunHooks, TypeOK
  <2> QED BY <1>1, <1>2, <1>8, <2>2, <2>3 DEF RunHooks, RunningIsCovered, Covered
<1>9. CASE RecoveryDone
  BY <1>1, <1>2, <1>9 DEF RecoveryDone, RunningIsCovered, Covered, RecoveryIsExtensive, NoAmend
<1> QED BY <1>3, <1>4, <1>5, <1>6, <1>7, <1>8, <1>9

-----------------------------------------------------------------------------
(* Waiting executions in mode extensive.                                   *)

\* No timer is set for a row that does not wait, nor for an execution that is
\* about to be registered, and one that was never run does not wait.
TimersFit(e) ==
    /\ e \in timers => db[e].due
    /\ \A k \in {1, 2} : run[<<e, k>>].at = "called" => e \notin timers
    /\ db[e].status \in {"none", "new"} => ~db[e].due

\* Nothing runs an enqueued execution before its turn.
EnqueuedIdle(e) ==
    /\ stage # "up" /\ db[e].status = "new" => ~Live(e)
    /\ stage = "up" /\ e \in todo => db[e].status = "new" /\ ~Live(e)

\* A row that is amended and did not wait does not wait since, and an execution
\* that waits is marked as crashed for no longer than until the hooks have run.
AmendedInTime(e) ==
    /\ amend.step # "none" /\ amend.id = e /\ ~amend.row.due => ~db[e].due /\ ~Live(e)
    /\ db[e].status = "crashed" /\ db[e].due =>
          amend.step = "written" /\ amend.id = e /\ amend.row.due

\* The file that says that a recovery goes on is there while one does.
FlagFits ==
    /\ amend.step # "none" => stage = "recovering"
    /\ flag => stage = "recovering"
    /\ stage # "marking"

WaitingKept ==
    mode = "extensive" /\ ~broken =>
        FlagFits /\ \A e \in Execution : TimersFit(e) /\ EnqueuedIdle(e) /\ AmendedInTime(e)

\* What is kept of execution e.
Kept(e) == TimersFit(e) /\ EnqueuedIdle(e) /\ AmendedInTime(e)

\* Whom the step of a run concerns.
LEMMA RunConcerns ==
    ASSUME TypeOK, NEW r \in Runs, NEW e \in Execution
    PROVE  /\ run[r].at # "idle" => Live(r[1])
           /\ r[1] \in Execution /\ r[2] \in {1, 2} /\ r = <<r[1], r[2]>>
           /\ \A k \in {1, 2} : <<e, k>> \in Runs
           /\ \A to : run' = [run EXCEPT ![r] = to] =>
                /\ run'[r] = to
                /\ \A k \in {1, 2} : <<e, k>> # r => run'[<<e, k>>] = run[<<e, k>>]
                /\ e # r[1] => (Live(e)' <=> Live(e)) /\ \A k \in {1, 2} : <<e, k>> # r
<1>1. PICK x \in Execution, k \in {1, 2} : r = <<x, k>>
  BY DEF Runs
<1>2. \A j \in {1, 2} : <<e, j>> \in Runs /\ (<<e, j>> = r <=> e = x /\ j = k)
  BY <1>1 DEF Runs
<1>3. run[r].at # "idle" => Live(r[1])
  BY <1>1 DEF Live, Up
<1>4. ASSUME NEW to, run' = [run EXCEPT ![r] = to]
      PROVE  /\ run'[r] = to
             /\ \A j \in {1, 2} : <<e, j>> # r => run'[<<e, j>>] = run[<<e, j>>]
             /\ e # r[1] => (Live(e)' <=> Live(e)) /\ \A j \in {1, 2} : <<e, j>> # r
  <2>1. run'[r] = to /\ \A q \in Runs : q # r => run'[q] = run[q]
    BY <1>4 DEF TypeOK
  <2>2. e # r[1] => \A j \in {1, 2} : <<e, j>> # r
    BY <1>1, <1>2
  <2>3. e # r[1] => (Live(e)' <=> Live(e))
    BY <1>2, <2>1, <2>2 DEF Live, Up
  <2> QED BY <1>2, <2>1, <2>2, <2>3
<1> QED BY <1>1, <1>2, <1>3, <1>4

\* A step that leaves the rows of an execution and what runs it keeps that.
LEMMA Untouched ==
    ASSUME NEW e \in Execution, Kept(e), db'[e] = db[e], Live(e)' <=> Live(e),
           \A k \in {1, 2} : run'[<<e, k>>].at = "called" => run[<<e, k>>].at = "called",
           e \in timers' => e \in timers, UNCHANGED <<stage, todo, amend>>
    PROVE  Kept(e)'
  BY DEF Kept, TimersFit, EnqueuedIdle, AmendedInTime

\* A step of a run keeps what is said of the row it is about, and of any other.
LEMMA RunKeeps ==
    ASSUME IInv, NEW r \in Runs, RunStep(r), NEW e \in Execution, Kept(e), Kept(r[1])
    PROVE  Kept(e)'
<1>1. TypeOK
  BY DEF IInv
<1>2. r[1] \in Execution /\ r[2] \in {1, 2} /\ r = <<r[1], r[2]>>
  BY <1>1, RunConcerns
<1>3. UNCHANGED <<stage, todo, amend, timers>> /\ run[r].at # "idle" /\ Live(r[1])
  <2>1. UNCHANGED <<stage, todo, amend, timers>> /\ run[r].at # "idle"
    BY DEF RunStep, Register, Begin, NodeStarts, PutToWait, End
  <2> QED BY <1>1, <2>1, RunConcerns
<1>4. /\ e # r[1] => db'[e] = db[e] /\ (Live(e)' <=> Live(e))
      /\ \A k \in {1, 2} : run'[<<e, k>>].at = "called" => run[<<e, k>>].at = "called"
  <2>1. CASE NodeStarts(r)
    BY <2>1 DEF NodeStarts, Live, Up
  <2>2. ASSUME NEW to, to.at # "called", run' = [run EXCEPT ![r] = to], e # r[1] => db'[e] = db[e]
        PROVE  /\ e # r[1] => db'[e] = db[e] /\ (Live(e)' <=> Live(e))
               /\ \A k \in {1, 2} : run'[<<e, k>>].at = "called" => run[<<e, k>>].at = "called"
    <3>1. /\ run'[r] = to
          /\ \A k \in {1, 2} : <<e, k>> # r => run'[<<e, k>>] = run[<<e, k>>]
          /\ e # r[1] => (Live(e)' <=> Live(e))
      BY <1>1, <2>2, RunConcerns
    <3> QED BY <2>2, <3>1
  <2>3. e # r[1] => \A row : [db EXCEPT ![r[1]] = row][e] = db[e]
    BY <1>1 DEF TypeOK
  <2>4. CASE Register(r)
    <3> DEFINE to == [run[r] EXCEPT !.at = "added"]
    <3>1. to.at # "called" /\ run' = [run EXCEPT ![r] = to] /\ (e # r[1] => db'[e] = db[e])
      BY <1>1, <2>3, <2>4 DEF Register, TypeOK
    <3> QED BY <2>2, <3>1
  <2>5. CASE Begin(r)
    <3> DEFINE to == [run[r] EXCEPT !.at = "executing"]
    <3>1. to.at # "called" /\ run' = [run EXCEPT ![r] = to] /\ (e # r[1] => db'[e] = db[e])
      BY <1>1, <2>5 DEF Begin, TypeOK
    <3> QED BY <2>2, <3>1
  <2>6. CASE PutToWait(r) \/ End(r)
    <3>1. NoRun.at # "called" /\ run' = [run EXCEPT ![r] = NoRun] /\ (e # r[1] => db'[e] = db[e])
      BY <1>1, <2>6 DEF PutToWait, End, TypeOK, NoRun
    <3> QED BY <2>2, <3>1
  <2> QED BY <2>1, <2>4, <2>5, <2>6 DEF RunStep
<1>5. CASE e # r[1]
  BY <1>3, <1>4, <1>5, Untouched
<1>6. CASE e = r[1]
  <2>1. /\ stage = "up" => e \notin todo
        /\ amend.step # "none" /\ amend.id = e => amend.row.due
    BY <1>3, <1>6 DEF Kept, EnqueuedIdle, AmendedInTime
  <2>2. db[e] \in Row
    BY <1>1 DEF TypeOK
  <2>3. \/ NodeStarts(r) /\ db' = db /\ run' = run
        \/ e \notin timers /\ db'[e].status = "running" /\ ~db'[e].due
        \/ db'[e].status \in {"running", "success", "error"} /\ db'[e].due = db[e].due
        \/ db'[e].status = "waiting" /\ db'[e].due
    <3>1. CASE Register(r)
      BY <1>1, <1>2, <1>6, <3>1 DEF Register, TypeOK, Kept, TimersFit
    <3>2. CASE Begin(r)
      BY <1>1, <1>6, <2>2, <3>2 DEF Begin, TypeOK, Row
    <3>3. CASE NodeStarts(r)
      BY <3>3 DEF NodeStarts
    <3>4. CASE PutToWait(r)
      BY <1>1, <1>6, <3>4 DEF PutToWait, TypeOK
    <3>5. CASE End(r)
      BY <1>1, <1>6, <2>2, <3>5 DEF End, TypeOK, Row
    <3> QED BY <3>1, <3>2, <3>3, <3>4, <3>5 DEF RunStep
  <2>4. CASE NodeStarts(r) /\ db' = db /\ run' = run
    <3>1. Live(e)' <=> Live(e)
      BY <2>4 DEF Live, Up
    <3> QED BY <1>3, <1>4, <2>4, <3>1, Untouched
  <2>5. CASE ~(NodeStarts(r) /\ db' = db /\ run' = run)
    BY <1>3, <1>4, <2>1, <2>3, <2>5 DEF Kept, TimersFit, EnqueuedIdle, AmendedInTime
  <2> QED BY <2>4, <2>5
<1> QED BY <1>5, <1>6

\* New, resumed, stopped and enqueued executions: each of these only touches an
\* execution whose row says that it may.
LEMMA ExecutionKeeps ==
    ASSUME IInv, FlagFits, \A e \in Execution : Kept(e), ~broken', NEW x \in Execution,
           Create(x) \/ Resume(x) \/ StopWaiting(x) \/ RunEnqueued(x) \/ Recover(x)
    PROVE  FlagFits' /\ \A e \in Execution : Kept(e)'
<1>1. TypeOK /\ Kept(x) /\ db[x] \in Row
  BY DEF IInv, TypeOK
<1>2. <<x, 1>> \in Runs /\ <<x, 2>> \in Runs
  BY DEF Runs
<1>3. ASSUME NEW k \in {1, 2}, NEW to, to.at # "idle", NEW e \in Execution,
             run' = [run EXCEPT ![<<x, k>>] = to], e # x
      PROVE  /\ Live(e)' <=> Live(e)
             /\ \A j \in {1, 2} : run'[<<e, j>>] = run[<<e, j>>]
  <2>1. <<x, k>> \in Runs /\ <<x, k>>[1] = x
    BY DEF Runs
  <2>2. /\ \A j \in {1, 2} : <<e, j>> # <<x, k>> => run'[<<e, j>>] = run[<<e, j>>]
        /\ (Live(e)' <=> Live(e)) /\ \A j \in {1, 2} : <<e, j>> # <<x, k>>
    BY <1>1, <1>3, <2>1, RunConcerns
  <2> QED BY <2>2
<1>4. FlagFits'
  BY DEF FlagFits, Create, Resume, StopWaiting, RunEnqueued, Recover, NoAmend
<1> SUFFICES ASSUME NEW e \in Execution PROVE Kept(e)'
  BY <1>4
<1>5. Kept(e) /\ (run' = run => (Live(e)' <=> Live(e)))
  BY DEF Live, Up
<1>6. CASE Create(x)
  <2>1. e # x => db'[e] = db[e]
    BY <1>1, <1>6 DEF Create, TypeOK
  <2>2. CASE e # x
    <3>1. (Live(e)' <=> Live(e)) /\ \A j \in {1, 2} : run'[<<e, j>>] = run[<<e, j>>]
      <4> DEFINE to == [at |-> "called", again |-> FALSE]
      <4>1. run' = [run EXCEPT ![<<x, 1>>] = to] /\ to.at # "idle"
        BY <1>6 DEF Create
      <4> QED BY <1>3, <2>2, <4>1
    <3> QED BY <1>5, <1>6, <2>1, <2>2, <3>1, Untouched DEF Create
  <2>3. CASE e = x
    <3>1. db'[x].status = "new" /\ db'[x].due = db[x].due
      BY <1>1, <1>6 DEF Create, TypeOK, Row
    <3>2. amend.step = "none" /\ ~db[x].due /\ x \notin timers /\ x \notin todo
      BY <1>1, <1>6 DEF Create, FlagFits, Kept, TimersFit, EnqueuedIdle
    <3> QED BY <1>6, <2>3, <3>1, <3>2
        DEF Create, Kept, TimersFit, EnqueuedIdle, AmendedInTime
  <2> QED BY <2>2, <2>3
<1>7. CASE Resume(x)
  <2>1. UNCHANGED <<db, stage, todo, amend>> /\ timers' = timers \ {x}
    BY <1>7 DEF Resume
  <2>2. CASE e # x
    <3>1. (Live(e)' <=> Live(e)) /\ \A j \in {1, 2} : run'[<<e, j>>] = run[<<e, j>>]
      <4> DEFINE to == [at |-> "called", again |-> TRUE]
                 k  == IF Up(<<x, 1>>) THEN 2 ELSE 1
      <4>1. \/ run' = run
            \/ run' = [run EXCEPT ![<<x, k>>] = to]
        BY <1>7 DEF Resume
      <4>2. to.at # "idle" /\ k \in {1, 2}
        OBVIOUS
      <4> QED BY <1>3, <1>5, <2>2, <4>1, <4>2
    <3> QED BY <1>5, <2>1, <2>2, <3>1, Untouched
  <2>3. CASE e = x
    <3>1. db[x].due /\ db[x].status \notin {"none", "new"} /\ (stage = "up" => x \notin todo)
      BY <1>1, <1>7 DEF Resume, Kept, TimersFit, EnqueuedIdle
    <3> QED BY <1>5, <2>1, <2>3, <3>1 DEF Kept, TimersFit, EnqueuedIdle, AmendedInTime
  <2> QED BY <2>2, <2>3
<1>8. CASE StopWaiting(x)
  <2>1. e # x => db'[e] = db[e]
    BY <1>1, <1>8 DEF StopWaiting, TypeOK
  <2>2. CASE e # x
    BY <1>5, <1>8, <2>1, <2>2, Untouched DEF StopWaiting
  <2>3. CASE e = x
    <3>1. db'[x].status = "canceled" /\ ~db'[x].due
      BY <1>1, <1>8 DEF StopWaiting, TypeOK
    <3>2. amend.step = "none" /\ x \notin todo
      BY <1>1, <1>8 DEF StopWaiting, FlagFits, Kept, EnqueuedIdle
    <3> QED BY <1>5, <1>8, <2>3, <3>1, <3>2
        DEF StopWaiting, Kept, TimersFit, EnqueuedIdle, AmendedInTime
  <2> QED BY <2>2, <2>3
<1>9. CASE RunEnqueued(x)
  <2>1. UNCHANGED <<db, stage, timers, amend>> /\ todo' = todo \ {x} /\ stage = "up" /\ x \in todo
    BY <1>9 DEF RunEnqueued
  <2>2. CASE e # x
    <3>1. (Live(e)' <=> Live(e)) /\ \A j \in {1, 2} : run'[<<e, j>>] = run[<<e, j>>]
      <4> DEFINE to == [at |-> "called", again |-> TRUE]
      <4>1. run' = [run EXCEPT ![<<x, 1>>] = to] /\ to.at # "idle"
        BY <1>9 DEF RunEnqueued
      <4> QED BY <1>3, <2>2, <4>1
    <3> QED BY <1>5, <2>1, <2>2, <3>1 DEF Kept, TimersFit, EnqueuedIdle, AmendedInTime
  <2>3. CASE e = x
    <3>1. ~db[x].due /\ x \notin timers /\ amend.step = "none"
      BY <1>1, <2>1 DEF FlagFits, Kept, TimersFit, EnqueuedIdle
    <3> QED BY <1>5, <2>1, <2>3, <3>1 DEF Kept, TimersFit, EnqueuedIdle, AmendedInTime
  <2> QED BY <2>2, <2>3
<1>10. CASE Recover(x)
  <2>1. /\ UNCHANGED <<db, stage, timers, run>> /\ stage = "recovering"
        /\ amend = NoAmend /\ ~Live(x)
        /\ amend' = NoAmend \/ amend' = [id |-> x, step |-> "read", row |-> db[x]]
    BY <1>10 DEF Recover
  <2>2. amend.step = "none" /\ NoAmend.step = "none"
    BY <2>1 DEF NoAmend
  <2> QED BY <1>5, <2>1, <2>2 DEF Kept, TimersFit, EnqueuedIdle, AmendedInTime
<1> QED BY <1>6, <1>7, <1>8, <1>9, <1>10

\* The end and the start of a process. A process that dies outside a recovery
\* leaves no row half amended, and the file is gone; one that starts only reads.
LEMMA ProcessKeeps ==
    ASSUME IInv, mode = "extensive", FlagFits, \A e \in Execution : Kept(e), ~broken',
           Poll \/ Die \/ Boot \/ ReadLog \/ MarkAsCrashed \/ Amend \/ RunHooks \/ RecoveryDone
    PROVE  FlagFits' /\ \A e \in Execution : Kept(e)'
<1>1. TypeOK /\ RecoveryIsExtensive
  BY DEF IInv
<1>2. FlagFits'
  <2>1. CASE Poll \/ Boot \/ Amend \/ RunHooks
    BY <2>1 DEF FlagFits, Poll, Boot, Amend, RunHooks, NoAmend
  <2>2. CASE Die
    BY <2>2 DEF FlagFits, Die, NoAmend
  <2>3. CASE ReadLog
    BY <2>3 DEF FlagFits, ReadLog
  <2>4. CASE MarkAsCrashed \/ RecoveryDone
    BY <2>4 DEF FlagFits, MarkAsCrashed, RecoveryDone, NoAmend
  <2> QED BY <2>1, <2>2, <2>3, <2>4
<1> SUFFICES ASSUME NEW e \in Execution PROVE Kept(e)'
  BY <1>2
<1>3. Kept(e) /\ (run' = run => (Live(e)' <=> Live(e)))
  BY DEF Live, Up
<1>4. CASE Poll
  <2>1. /\ e \in timers' => e \in timers \/ db[e].due
        /\ \A k \in {1, 2} : run[<<e, k>>].at # "called"
        /\ UNCHANGED <<db, stage, run, todo, amend>>
    BY <1>4 DEF Poll, Due, Runs
  <2> QED BY <1>3, <2>1 DEF Kept, TimersFit, EnqueuedIdle, AmendedInTime
<1>5. CASE Die
  <2>1. ~Live(e)' /\ \A k \in {1, 2} : run'[<<e, k>>].at # "called"
    BY <1>5 DEF Die, Runs, NoRun, Live, Up
  <2>2. amend.step = "none" /\ amend'.step = "none"
    BY <1>5 DEF Die, FlagFits, NoAmend
  <2> QED BY <1>3, <1>5, <2>1, <2>2 DEF Die, Kept, TimersFit, EnqueuedIdle, AmendedInTime
<1>6. CASE Boot
  BY <1>3, <1>6 DEF Boot, Kept, TimersFit, EnqueuedIdle, AmendedInTime
<1>7. CASE ReadLog \/ RecoveryDone
  <2>1. /\ UNCHANGED <<db, timers, run, amend>> /\ stage \in {"starting", "recovering"}
        /\ stage' = "up" => todo' = Enqueued
    BY <1>7 DEF ReadLog, RecoveryDone
  <2> QED BY <1>3, <2>1 DEF Enqueued, Kept, TimersFit, EnqueuedIdle, AmendedInTime
<1>8. CASE MarkAsCrashed
  BY <1>8 DEF MarkAsCrashed, FlagFits
<1>9. CASE Amend
  <2>0. ~Live(amend.id)
    BY <1>9 DEF Amend
  <2>1. /\ amend \in [id : Execution, step : {"read", "written"}, row : Row]
        /\ UNCHANGED <<stage, timers, run, todo>> /\ stage = "recovering"
    BY <1>1, <1>9 DEF Amend, TypeOK, NoAmend
  <2>2. db[amend.id] \in Row /\ amend.row \in Row
    BY <1>1, <2>1 DEF TypeOK
  <2>3. PICK row \in Row :
            /\ db' = [db EXCEPT ![amend.id] = row]
            /\ amend' = [amend EXCEPT !.step = "written", !.row = row]
            /\ row.status \in {"crashed", "error"}
            /\ row.due = db[amend.id].due \/ row.due = amend.row.due
    <3> DEFINE silent == [db[amend.id] EXCEPT !.status = "crashed"]
               status == IF amend.row.status = "error" THEN "error" ELSE "crashed"
               told   == [amend.row EXCEPT !.status = status]
               row    == IF log[amend.id].msgs = "none" THEN silent ELSE told
    <3>1. silent \in Row /\ silent.status = "crashed" /\ silent.due = db[amend.id].due
      BY <2>2 DEF Row, Status
    <3>2. told \in Row /\ told.status \in {"crashed", "error"} /\ told.due = amend.row.due
      BY <2>2 DEF Row, Status
    <3>3. /\ db' = [db EXCEPT ![amend.id] = row]
          /\ amend' = [amend EXCEPT !.step = "written", !.row = row]
      BY <1>9 DEF Amend
    <3> HIDE DEF silent, told
    <3>4. /\ row \in Row /\ row.status \in {"crashed", "error"}
          /\ row.due = db[amend.id].due \/ row.due = amend.row.due
      BY <3>1, <3>2
    <3> QED BY <3>3, <3>4
  <2>4. /\ amend'.id = amend.id /\ amend'.step = "written" /\ amend'.row = row
        /\ db'[amend.id] = row
        /\ e # amend.id => db'[e] = db[e]
    BY <1>1, <2>1, <2>3 DEF TypeOK
  <2>5. amend.step = "read"
    BY <1>9 DEF Amend
  <2>6. Kept(amend.id)
    BY <2>1
  <2>7. CASE e # amend.id
    BY <1>3, <2>1, <2>4, <2>5, <2>7 DEF Kept, TimersFit, EnqueuedIdle, AmendedInTime
  <2>8. CASE e = amend.id
    <3>1. ~amend.row.due => ~db[e].due
      BY <2>5, <2>6, <2>8 DEF Kept, AmendedInTime
    <3>2. (e \in timers => row.due) /\ ~Live(e)
      BY <1>3, <2>3, <2>8, <2>0, <3>1 DEF Kept, TimersFit
    <3> QED BY <1>3, <2>1, <2>3, <2>4, <2>8, <3>2
        DEF Kept, TimersFit, EnqueuedIdle, AmendedInTime
  <2> QED BY <2>7, <2>8
<1>10. CASE RunHooks
  <2>1. /\ amend \in [id : Execution, step : {"read", "written"}, row : Row]
        /\ UNCHANGED <<stage, timers, run, todo>> /\ stage = "recovering"
        /\ amend.step = "written" /\ amend'.step = "none"
        /\ amend.row.status \in {"crashed", "error"}
    BY <1>1, <1>10 DEF RunHooks, TypeOK, NoAmend, RecoveryIsExtensive
  <2>2. /\ db'[amend.id].status = IF amend.row.due THEN "waiting" ELSE amend.row.status
        /\ db'[amend.id].due = (amend.row.due \/ db[amend.id].due)
        /\ e # amend.id => db'[e] = db[e]
    BY <1>1, <1>10, <2>1 DEF RunHooks, TypeOK
  <2>3. CASE e # amend.id
    BY <1>3, <2>1, <2>2, <2>3 DEF Kept, TimersFit, EnqueuedIdle, AmendedInTime
  <2>4. CASE e = amend.id
    BY <1>3, <2>1, <2>2, <2>4 DEF Kept, TimersFit, EnqueuedIdle, AmendedInTime
  <2> QED BY <2>3, <2>4
<1> QED BY <1>4, <1>5, <1>6, <1>7, <1>8, <1>9, <1>10

\* Every step keeps what loses no execution that waits; a recovery that broke
\* stays broken, and the mode is the same at every start.
LEMMA WaitingStep == IInv /\ WaitingKept /\ [Next]_vars => WaitingKept'
<1> SUFFICES ASSUME IInv, WaitingKept, [Next]_vars, mode' = "extensive", ~broken'
             PROVE  FlagFits' /\ \A e \in Execution : Kept(e)'
  BY DEF WaitingKept, Kept
<1>1. CASE UNCHANGED vars
  <2>1. FlagFits /\ \A e \in Execution : Kept(e)
    BY <1>1 DEF vars, WaitingKept, Kept
  <2> QED BY <1>1, <2>1
      DEF vars, FlagFits, Kept, TimersFit, EnqueuedIdle, AmendedInTime, Live, Up
<1>2. CASE Next
  <2>0. mode' = "extensive" /\ ~broken'
    OBVIOUS
  <2>1. mode = "extensive" /\ ~broken
    <3>1. ASSUME NEW r \in Runs, RunStep(r) PROVE mode' = mode /\ broken' = broken
      BY <3>1 DEF RunStep, Register, Begin, NodeStarts, PutToWait, End
    <3>2. ASSUME NEW x \in Execution,
                 Create(x) \/ Resume(x) \/ StopWaiting(x) \/ RunEnqueued(x) \/ Recover(x)
          PROVE  mode' = mode /\ (broken => broken')
      <4>1. CASE Recover(x)
        BY <4>1 DEF Recover
      <4>2. CASE ~Recover(x)
        BY <3>2, <4>2 DEF Create, Resume, StopWaiting, RunEnqueued
      <4> QED BY <4>1, <4>2
    <3>3. CASE Poll \/ Die \/ Boot \/ ReadLog \/ MarkAsCrashed \/ Amend \/ RunHooks \/ RecoveryDone
      <4>1. CASE Die
        BY <4>1 DEF Die
      <4>2. CASE Amend
        BY <4>2 DEF Amend
      <4>3. CASE ~Die /\ ~Amend
        BY <3>3, <4>3 DEF Poll, Boot, ReadLog, MarkAsCrashed, RunHooks, RecoveryDone
      <4>4. mode' = mode /\ (broken => broken')
        BY <4>1, <4>2, <4>3
      <4> QED BY <2>0, <4>4
    <3> QED BY <1>2, <3>1, <3>2, <3>3 DEF Next, BootStep
  <2>2. FlagFits /\ \A e \in Execution : Kept(e)
    BY <2>1 DEF WaitingKept, Kept
  <2>3. ASSUME NEW r \in Runs, RunStep(r)
        PROVE  FlagFits' /\ \A e \in Execution : Kept(e)'
    <3>1. r[1] \in Execution
      BY DEF Runs
    <3>2. FlagFits'
      BY <2>2, <2>3 DEF FlagFits, RunStep, Register, Begin, NodeStarts, PutToWait, End
    <3> QED BY <2>2, <2>3, <3>1, <3>2, RunKeeps
  <2>4. ASSUME NEW x \in Execution,
               Create(x) \/ Resume(x) \/ StopWaiting(x) \/ RunEnqueued(x) \/ Recover(x)
        PROVE  FlagFits' /\ \A e \in Execution : Kept(e)'
    BY <2>2, <2>4, ExecutionKeeps
  <2>5. CASE Poll \/ Die \/ Boot \/ ReadLog \/ MarkAsCrashed \/ Amend \/ RunHooks \/ RecoveryDone
    BY <2>1, <2>2, <2>5, ProcessKeeps
  <2> QED BY <1>2, <2>3, <2>4, <2>5 DEF Next, BootStep
<1> QED BY <1>1, <1>2

-----------------------------------------------------------------------------
(* Results.                                                                *)

\* Nothing runs in the first state.
LEMMA InitIInv == Init => IInv
<1> SUFFICES ASSUME Init PROVE IInv
  OBVIOUS
<1>1. BootsLeft /\ RecoveryIsExtensive
  BY DEF Init, BootsLeft, RecoveryIsExtensive, NoAmend
<1>2. RunningIsCovered
  BY DEF Init, RunningIsCovered
<1> QED BY <1>1, <1>2, InitType DEF IInv

\* Every step keeps the invariant.
LEMMA StepIInv == IInv /\ [Next]_vars => IInv'
<1> SUFFICES ASSUME IInv, [Next]_vars PROVE IInv'
  OBVIOUS
<1>1. CASE Next
  <2>1. RunningIsCovered'
    BY <1>1, RunCovered, ExecutionCovered, ProcessCovered DEF Next, BootStep
  <2> QED BY <1>1, <2>1, TypeStep, StageStep DEF IInv
<1>2. CASE UNCHANGED vars
  <2>1. \A e \in Execution : Covered(e)' <=> Covered(e)
    BY <1>2 DEF vars, Covered, Live, Up
  <2>2. TypeOK' /\ BootsLeft' /\ RecoveryIsExtensive'
    BY <1>2 DEF vars, IInv, TypeOK, BootsLeft, RecoveryIsExtensive
  <2>3. RunningIsCovered'
    BY <1>2, <2>1 DEF vars, IInv, RunningIsCovered
  <2> QED BY <2>2, <2>3 DEF IInv
<1> QED BY <1>1, <1>2

\* In every reachable state each row that says running is answered for.
THEOREM Invariance == Spec => []IInv
<1> QED BY InitIInv, StepIInv, PTL DEF Spec

\* The variables keep their types: the reader's idea of the age of a message
\* stays within the two files it keeps (message-event-bus-log-writer.ts).
THEOREM TypeCorrect == Spec => []TypeOK
<1>1. IInv => TypeOK
  BY DEF IInv
<1> QED BY <1>1, Invariance, PTL

\* With crashRecoveryMode simple, once the process is up every row that says
\* running has a run behind it, whenever the processes before it died.
THEOREM NoOrphanSimple == Spec => []NoOrphan
<1>1. IInv => NoOrphan
  BY DEF IInv, RunningIsCovered, Covered, NoOrphan, Orphan
<1> QED BY <1>1, Invariance, PTL

\* With extensive, what the recovery leaves running with nothing behind it has
\* its beginning in the log and no node: the one case in which recoverFromLogs
\* returns without a word (execution-recovery.service.ts:67).
THEOREM OrphansAreSilent == Spec => []OnlySilentOrphans
<1>1. IInv => OnlySilentOrphans
  BY DEF IInv, RunningIsCovered, Covered, OnlySilentOrphans, Orphan
<1> QED BY <1>1, Invariance, PTL

\* Both: in either mode the recovery leaves no other row without a run.
THEOREM OrphansAreExplained == Spec => []OrphansExplained
<1>1. IInv => OrphansExplained
  BY DEF IInv, RunningIsCovered, Covered, OrphansExplained, NoOrphan, OnlySilentOrphans, Orphan
<1> QED BY <1>1, Invariance, PTL

\* Nothing waits in the first state.
LEMMA InitWaiting == Init => WaitingKept
<1> SUFFICES ASSUME Init PROVE WaitingKept
  OBVIOUS
<1>1. \A e \in Execution, k \in {1, 2} : <<e, k>> \in Runs /\ run[<<e, k>>].at = "idle"
  BY DEF Init, Runs, NoRun
<1>2. FlagFits
  BY DEF Init, FlagFits, NoAmend
<1>3. ASSUME NEW e \in Execution PROVE Kept(e)
  BY <1>1 DEF Init, Kept, TimersFit, EnqueuedIdle, AmendedInTime, NoAmend
<1> QED BY <1>2, <1>3 DEF WaitingKept, Kept

\* With extensive, an execution that waits is only left crashed with its
\* waitTill by a start of the process if an earlier recovery was cut short or
\* had to do with an execution that was resumed before it: however often the
\* process dies, wherever outside a recovery, recoverFromLogs and its hooks
\* (execution-recovery.service.ts:31-52,171-201) hand a waiting row back as one.
THEOREM WaitingLostExplained == Spec => []WaitingLostOnlyIfBroken
<1>1. WaitingKept => WaitingLostOnlyIfBroken
  <2> SUFFICES ASSUME WaitingKept, NEW e \in Execution,
                      mode = "extensive", stage = "up",
                      db[e].status = "crashed", db[e].due, ~broken
               PROVE  FALSE
    BY DEF WaitingLostOnlyIfBroken
  <2>1. FlagFits /\ AmendedInTime(e)
    BY DEF WaitingKept
  <2> QED BY <2>1 DEF FlagFits, AmendedInTime
<1> QED BY <1>1, Invariance, InitWaiting, WaitingStep, PTL DEF Spec

=============================================================================
