--------------------------- MODULE ConcurrencyQueue ---------------------------
(***************************************************************************)
(* The queue that limits how many production executions run at once in one *)
(* process (packages/cli/src/concurrency/concurrency-queue.ts), together   *)
(* with the executions that go through it.                                 *)
(*                                                                         *)
(* The class is a counter and a list of pending promises, and each method  *)
(* is synchronous, so each is one action:                                  *)
(*   enqueue  takes a unit of capacity and blocks when none was left;      *)
(*   dequeue  gives a unit back when a running execution settles, and      *)
(*            resolves the promise at the head of the list;                *)
(*   remove   takes a cancelled execution out of the list, gives back the  *)
(*            unit it held and also resolves the promise at the head.      *)
(* What an execution is doing is "phase", which stands for the code behind *)
(* `await concurrencyControl.throttle(...)': an execution whose promise is *)
(* resolved runs, and one that was removed stays behind its await forever. *)
(* An execution id is used once here; ExecutionLifecycle has the ids that  *)
(* are enqueued again on a resume.                                         *)
(***************************************************************************)
EXTENDS Integers, FiniteSets, SequencesExt

CONSTANTS
    Execution,  \* The executions that ask for a slot.
    Limit       \* `executions.concurrency.productionLimit', when it is set.

\* ConcurrencyControlService only creates a queue for limits above zero.
ASSUME LimitAssumption == Limit \in Nat \ {0}
ASSUME ExecutionAssumption == IsFiniteSet(Execution)

VARIABLES
    capacity,   \* The counter: free slots, negative when executions wait.
    queue,      \* The executions whose promises are pending, oldest first.
    phase       \* Where each execution is.

vars == <<capacity, queue, phase>>

Phase == {"absent", "queued", "running", "finished", "removed"}

Waiting == {e \in Execution : phase[e] = "queued"}
Running == {e \in Execution : phase[e] = "running"}
Removed == {e \in Execution : phase[e] = "removed"}
Gone    == {e \in Execution : phase[e] \in {"finished", "removed"}}

-----------------------------------------------------------------------------

Init ==
    /\ capacity = Limit
    /\ queue = <<>>
    /\ phase = [e \in Execution |-> "absent"]

\* resolveNext: the execution whose promise is resolved, if any waits, and what
\* `this.queue.shift()' leaves.
Released(q) == IF q = <<>> THEN {} ELSE {Head(q)}
Shift(q) == IF q = <<>> THEN q ELSE Tail(q)

\* Let executions R proceed past their await, and put execution e in phase p.
Moved(e, p, R) ==
    [x \in Execution |->
        IF x \in R THEN "running" ELSE IF x = e THEN p ELSE phase[x]]

\* Mutant: the test is off by one, so the last free slot is never used.
EnqueueOffByOne(e) ==
    /\ phase[e] = "absent"
    /\ capacity' = capacity - 1
    /\ IF capacity' <= 0
          THEN queue' = Append(queue, e) /\ phase' = Moved(e, "queued", {})
          ELSE queue' = queue            /\ phase' = Moved(e, "running", {})

\* Mutant: the newest execution goes to the front.
EnqueueFront(e) ==
    /\ phase[e] = "absent"
    /\ capacity' = capacity - 1
    /\ IF capacity' < 0
          THEN queue' = <<e>> \o queue /\ phase' = Moved(e, "queued", {})
          ELSE queue' = queue          /\ phase' = Moved(e, "running", {})

\* The counter always goes down; whoever takes it below zero waits.
Enqueue(e) ==
    /\ phase[e] = "absent"
    /\ capacity' = capacity - 1
    /\ IF capacity' < 0
          THEN queue' = Append(queue, e) /\ phase' = Moved(e, "queued", {})
          ELSE queue' = queue            /\ phase' = Moved(e, "running", {})

\* Mutant: the counter goes up but nobody is woken.
DequeueNoWake(e) ==
    /\ phase[e] = "running"
    /\ capacity' = capacity + 1
    /\ queue' = queue
    /\ phase' = Moved(e, "finished", {})

\* Mutant: the unit is given back twice.
DequeueTwice(e) ==
    /\ phase[e] = "running"
    /\ capacity' = capacity + 2
    /\ queue' = Shift(queue)
    /\ phase' = Moved(e, "finished", Released(queue))

\* A running execution settles: its unit goes back and the oldest one that
\* waits takes it.
Dequeue(e) ==
    /\ phase[e] = "running"
    /\ capacity' = capacity + 1
    /\ queue' = Shift(queue)
    /\ phase' = Moved(e, "finished", Released(queue))

\* Mutant: the removed execution's unit of capacity is not given back.
RemoveKeepsUnit(e) ==
    \E i \in DOMAIN queue :
        LET rest == RemoveAt(queue, i) IN
        /\ queue[i] = e
        /\ capacity' = capacity
        /\ queue' = Shift(rest)
        /\ phase' = Moved(e, "removed", Released(rest))

\* Cancelling an execution that waits. The rest of the list moves up by one
\* place and its head is released, although no running execution has ended.
RemoveQueued(e) ==
    \E i \in DOMAIN queue :
        LET rest == RemoveAt(queue, i) IN
        /\ queue[i] = e
        /\ capacity' = capacity + 1
        /\ queue' = Shift(rest)
        /\ phase' = Moved(e, "removed", Released(rest))

Next == \E e \in Execution : Enqueue(e) \/ Dequeue(e) \/ RemoveQueued(e)

\* A running execution settles its post-execution promise sooner or later;
\* nothing obliges a user to start or to cancel one.
Fairness == \A e \in Execution : WF_vars(Dequeue(e))

Spec == Init /\ [][Next]_vars

FairSpec == Spec /\ Fairness

-----------------------------------------------------------------------------

TypeOK ==
    /\ capacity \in Int /\ capacity <= Limit
    /\ queue \in Seq(Execution)
    /\ phase \in [Execution -> Phase]

\* The counter says exactly how many slots are taken and how many executions
\* wait: nothing is lost or given back twice by enqueue, dequeue and remove.
Accounting == capacity = Limit - Cardinality(Running) - Len(queue)

\* An execution only waits while every slot is taken (`capacity < 0' is the
\* only test enqueue makes; dequeue and remove must keep it meaningful).
WorkConserving == queue # <<>> => Cardinality(Running) >= Limit

\* Each cancellation of a waiting execution may start one execution beyond
\* the limit, and nothing else does: the excess is at most their number.
BoundedOvershoot == Cardinality(Running) <= Limit + Cardinality(Removed)

\* Whatever order executions come, end and are cancelled in, slots are counted
\* right, used, and exceeded by no more than that.
SlotsExact == Accounting /\ WorkConserving /\ BoundedOvershoot

\* The list and the phases agree: an execution is behind its await exactly
\* when its promise is in the list, once.
QueueIsPending ==
    /\ \A e \in Execution : phase[e] = "queued" <=> \E i \in DOMAIN queue : queue[i] = e
    /\ \A i, j \in DOMAIN queue : queue[i] = queue[j] => i = j

\* When an execution that waits starts to run, no older one is left waiting.
OldestFirst ==
    \A i, j \in DOMAIN queue :
        (i < j /\ phase'[queue[j]] = "running") => phase'[queue[i]] # "queued"

\* The list is never reordered, and newcomers join behind everybody: whoever
\* waited already was behind the same executions before.
OrderKept ==
    \A i, j \in DOMAIN queue' :
        (i < j /\ phase[queue'[j]] = "queued") =>
            \E k, l \in DOMAIN queue : k < l /\ queue[k] = queue'[i] /\ queue[l] = queue'[j]

\* Executions are released in the order in which they were throttled, whichever
\* of them are cancelled meanwhile (push, shift and splice on one array).
FifoRelease == [][OldestFirst /\ OrderKept]_vars

\* Nobody waits forever as long as running executions end.
EventuallyAdmitted ==
    \A e \in Execution : phase[e] = "queued" ~> phase[e] \in {"running", "removed"}

\* The counter implements the contract that is stated in terms of the
\* executions themselves.
Contract == INSTANCE AdmissionContract WITH
    waiting <- Waiting,
    running <- Running,
    gone <- Gone

ImplementsContract == Contract!Spec

\* config/schema.ts:33 says of the limit: "Max production executions allowed
\* to run concurrently". Not so once a waiting execution is cancelled.
MaxConcurrent == Cardinality(Running) <= Limit

=============================================================================
