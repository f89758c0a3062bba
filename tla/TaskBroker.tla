------------------------------ MODULE TaskBroker ------------------------------
(***************************************************************************)
(* Code nodes run in task runners. TaskBroker matches the requests of the  *)
(* main process (LocalTaskRequester) with the offers of the runners        *)
(* (packages/@n8n/task-runner), which are connected by a websocket each.   *)
(*                                                                         *)
(* One action is one turn of an event loop, of the broker's process or of  *)
(* a runner's: the handler of one message, one timer or one call, with the *)
(* promise callbacks it sets off. Calls between broker and requester are   *)
(* synchronous; a websocket is one FIFO channel each way.                  *)
(*                                                                         *)
(* An acceptOffer call is known by its task id: call[t] follows it from    *)
(* the offer's acceptance ("accepting": it awaits the runner's answer, two *)
(* seconds at most) to the entry it makes in the broker's map of tasks     *)
(* ("task"). Ids of tasks and offers are used again once nothing mentions  *)
(* them, in place of the random ids of the code.                           *)
(***************************************************************************)
EXTENDS Integers, FiniteSets, SequencesExt

CONSTANTS
    Request,        \* Calls of TaskRequester.startTask.
    Runner,         \* Runner processes; each connects once.
    Fleets,         \* The deployments: which runners may run, which of them are
                    \* launchers, the maxConcurrency of each, and whether they are
                    \* external.
    MaxParties,     \* Bound: requests made and runners started, together.
    MaxTask,        \* Bound: task ids in use at a time.
    MaxOffer,       \* Bound: offer ids in use at a time, per runner.
    MaxLate         \* Bound: how often an answer comes too late.

ASSUME FleetAssumption ==
    \A f \in Fleets : /\ f.runners \subseteq Runner /\ f.launchers \subseteq f.runners
                      /\ f.external \in BOOLEAN /\ f.maxConcurrency \in Nat \ {0}
ASSUME NumbersAssumption ==
    /\ MaxLate \in Nat /\ MaxParties \in Nat
    /\ MaxTask \in Nat \ {0} /\ MaxOffer \in Nat \ {0}

VARIABLES
    fleet,      \* The deployment; it does not change.
    known,      \* TaskBroker.knownRunners
    offers,     \* TaskBroker.pendingTaskOffers, those that have not expired.
    requests,   \* TaskBroker.pendingTaskRequests
    inProgress, \* The requests whose acceptInProgress is set.
    call,       \* The acceptOffer calls and the tasks they made.
    asked,      \* What the requester knows of each request.
    up,         \* The runner processes.
    open,       \* TaskRunner.openOffers, of each runner.
    held,       \* TaskRunner.runningTasks: the status of each task.
    toRunner,   \* Messages on their way to each runner.
    toBroker,   \* Messages on their way from each runner.
    late        \* How often something came too late, for the bound.

brokerVars == <<known, offers, requests, inProgress, call>>
runnerVars == <<up, open, held>>
state == <<brokerVars, asked, runnerVars, toRunner, toBroker, late>>
vars == <<state, fleet>>

Task  == 1 .. MaxTask
Offer == 1 .. MaxOffer

NoCall == [state |-> "free"]
Calls  == {NoCall} \cup [state : {"accepting", "task"}, request : Request, runner : Runner]

TaskStatus == {"none", "waitingForSettings", "running", "aborting:cancelled", "aborting:timeout"}

\* The entries of the broker's map of tasks, and the calls before that.
Tasks     == {t \in Task : call[t].state = "task"}
Accepting == {t \in Task : call[t].state = "accepting"}

\* The processes that run and are connected or are about to be found cut off.
Live == {r \in Runner : up[r] \in {"up", "stopping"}}

Held(r) == {t \in Task : held[r][t] # "none"}

\* Whether another request may be made or runner started, for the bound.
Room ==
    Cardinality({q \in Request : asked[q] # "idle"})
        + Cardinality({r \in Runner : up[r] # "off"}) < MaxParties

\* Messages about task t, or about offer o.
About(type, t)        == [type |-> type, task |-> t]
OfferMessage(o)       == [type |-> "taskoffer", offer |-> o]
AcceptMessage(o, t)   == [type |-> "taskofferaccept", offer |-> o, task |-> t]

OfferMessages  == {OfferMessage(o) : o \in Offer}
AcceptMessages == {AcceptMessage(o, t) : o \in Offer, t \in Task}
ToRunner == AcceptMessages \cup {About(m, t) : m \in {"tasksettings", "taskcancel"}, t \in Task}
ToBroker == OfferMessages \cup
    {About(m, t) : m \in {"taskaccepted", "taskrejected", "taskdeferred", "taskdone", "taskerror"},
                   t \in Task}

\* The numbers in P, in order.
Ascending(P) ==
    [k \in 1 .. Cardinality(P) |-> CHOOSE i \in P : Cardinality({j \in P : j <= i}) = k]

\* The ids that nothing mentions, in order.
MentionedTasks(r) ==
    Held(r) \cup {m.task : m \in ToSet(toRunner[r])}
            \cup {m.task : m \in ToSet(toBroker[r]) \ OfferMessages}
FreshTasks ==
    Ascending({t \in Task : call[t] = NoCall /\ \A r \in Runner : t \notin MentionedTasks(r)})

\* The offers of runner r that its broker may still use or be told of.
InUse(r) ==
    {p.offer : p \in {q \in ToSet(offers) : q.runner = r}}
        \cup {m.offer : m \in ToSet(toBroker[r]) \cap OfferMessages}
        \cup {m.offer : m \in ToSet(toRunner[r]) \cap AcceptMessages}
FreshOffers(r) == Ascending(Offer \ (open[r] \cup InUse(r)))

-----------------------------------------------------------------------------

Init ==
    /\ fleet \in Fleets
    /\ known = {} /\ offers = <<>> /\ requests = <<>> /\ inProgress = {}
    /\ call = [t \in Task |-> NoCall]
    /\ asked = [q \in Request |-> "idle"]
    /\ up = [r \in Runner |-> "off"]
    /\ open = [r \in Runner |-> {}]
    /\ held = [r \in Runner |-> [t \in Task |-> "none"]]
    /\ toRunner = [r \in Runner |-> <<>>]
    /\ toBroker = [r \in Runner |-> <<>>]
    /\ late = 0

-----------------------------------------------------------------------------
(* TaskBroker: matching.                                                   *)

\* Mutant: every listed request is matched, in progress or not.
PlacesInProgress(reqs, busy) ==
    Ascending({i \in DOMAIN reqs : \A j \in 1 .. i - 1 : reqs[j] # reqs[i]})

\* The places of the requests that may be matched: not in progress, and the
\* first of each request, which is one object however often it is listed.
Places(reqs, busy) ==
    Ascending({i \in DOMAIN reqs : reqs[i] \notin busy /\ \A j \in 1 .. i - 1 : reqs[j] # reqs[i]})

\* settleTasks and the acceptOffer calls it makes, each up to its first await:
\* the k-th request in turn takes the k-th offer, and the runner is told.
Settle(reqs, offs) ==
    LET places  == Places(reqs, inProgress)
        n       == IF Len(places) < Len(offs) THEN Len(places) ELSE Len(offs)
        ids     == FreshTasks
        who(k)  == reqs[places[k]]
        told(r) == Ascending({k \in 1 .. n : offs[k].runner = r})
    IN
    /\ n <= Len(ids)
    /\ requests' = reqs
    /\ offers' = SubSeq(offs, n + 1, Len(offs))
    /\ inProgress' = inProgress \cup {who(k) : k \in 1 .. n}
    /\ call' = [t \in Task |->
                  IF \E k \in 1 .. n : ids[k] = t
                  THEN LET k == CHOOSE k \in 1 .. n : ids[k] = t
                       IN [state |-> "accepting", request |-> who(k), runner |-> offs[k].runner]
                  ELSE call[t]]
    /\ toRunner' = [r \in Runner |->
                      toRunner[r] \o
                      [i \in DOMAIN told(r) |->
                          AcceptMessage(offs[told(r)[i]].offer, ids[told(r)[i]])]]

\* TaskRequester.startTask up to its first await, with taskRequested.
TaskRequested(q) ==
    /\ asked[q] = "idle" /\ Room
    /\ asked' = [asked EXCEPT ![q] = "requested"]
    /\ Settle(Append(requests, q), offers)
    /\ UNCHANGED <<known, runnerVars, toBroker, late>>

\* taskOffered.
TaskOffered(r, o) ==
    /\ Settle(requests, Append(offers, [runner |-> r, offer |-> o]))
    /\ asked' = asked

\* An offer's time is up: the next settleTasks removes it before it looks.
OfferExpires(i) ==
    /\ i \in DOMAIN offers /\ offers[i].runner \notin fleet.launchers
    /\ offers' = RemoveAt(offers, i)
    /\ UNCHANGED <<known, requests, inProgress, call, asked, runnerVars, toRunner, toBroker, late>>

-----------------------------------------------------------------------------
(* TaskBroker: the answers of the runners.                                 *)

\* Mutant: the request remains marked.
GiveUpMarked(t) ==
    /\ inProgress' = inProgress
    /\ call' = [call EXCEPT ![t] = NoCall]

\* Mutant: the state is reset, the rest of the call is not.
GiveUpHalfway(t) ==
    /\ inProgress' = inProgress \ {call[t].request}
    /\ call' = [call EXCEPT ![t].state = "free"]

\* The acceptOffer call t gives up; its request may be matched again.
GiveUp(t) ==
    /\ inProgress' = inProgress \ {call[t].request}
    /\ call' = [call EXCEPT ![t] = NoCall]

\* Mutant: whichever request is first leaves the list.
UnlistHead(q) == Tail(requests)

\* The list of requests without q, or without the first mention of it.
Unlist(q) == RemoveFirst(requests, q)

\* TaskRequester.taskReady, and startTask up to the answer: the settings are
\* sent on to the runner. A request that waits for no task is rejected, and the
\* task cancelled.
TaskReady(r, t) ==
    LET q == call[t].request IN
    IF asked[q] = "requested"
    THEN /\ asked' = [asked EXCEPT ![q] = "running"]
         /\ call' = [call EXCEPT ![t].state = "task"]
         /\ toRunner' = [toRunner EXCEPT ![r] = Append(@, About("tasksettings", t))]
    ELSE /\ asked' = asked
         /\ call' = [call EXCEPT ![t] = NoCall]
         /\ toRunner' = [toRunner EXCEPT ![r] = Append(@, About("taskcancel", t))]

\* handleRunnerAccept, unless the call gave up. acceptOffer goes on: the task
\* is entered, the request leaves the list and the requester is told that it is
\* ready. If the request is not listed the call ends before that.
RunnerAccept(r, t) ==
    LET q == call[t].request IN
    IF call[t].state # "accepting"
    THEN UNCHANGED <<requests, inProgress, call, asked, toRunner>>
    ELSE /\ inProgress' = inProgress
         /\ requests' = Unlist(q)
         /\ IF q \in ToSet(requests)
            THEN TaskReady(r, t)
            ELSE call' = [call EXCEPT ![t].state = "task"] /\ UNCHANGED <<asked, toRunner>>

\* handleRunnerReject.
RunnerReject(t) ==
    /\ IF call[t].state = "accepting" THEN GiveUp(t) ELSE UNCHANGED <<inProgress, call>>
    /\ UNCHANGED <<requests, asked, toRunner>>

\* handleRunnerDeferred: the request is listed once more, at the end.
RunnerDeferred(t) ==
    /\ IF call[t].state = "accepting"
       THEN GiveUp(t) /\ requests' = Append(requests, call[t].request)
       ELSE UNCHANGED <<inProgress, call, requests>>
    /\ UNCHANGED <<asked, toRunner>>

\* taskDoneHandler and taskErrorHandler: the requester has its answer.
TaskEnded(t, how) ==
    /\ IF call[t].state = "task"
       THEN /\ asked' = [asked EXCEPT ![call[t].request] = how]
            /\ call' = [call EXCEPT ![t] = NoCall]
       ELSE UNCHANGED <<asked, call>>
    /\ UNCHANGED <<requests, inProgress, toRunner>>

\* onRunnerMessage: the next message of a runner that is registered.
BrokerReceives(r) ==
    /\ r \in known /\ toBroker[r] # <<>>
    /\ LET m == Head(toBroker[r]) IN
       \/ m.type = "taskoffer" /\ TaskOffered(r, m.offer)
       \/ m.type = "taskaccepted" /\ RunnerAccept(r, m.task) /\ offers' = offers
       \/ m.type = "taskrejected" /\ RunnerReject(m.task) /\ offers' = offers
       \/ m.type = "taskdeferred" /\ RunnerDeferred(m.task) /\ offers' = offers
       \/ m.type = "taskdone" /\ TaskEnded(m.task, "done") /\ offers' = offers
       \/ m.type = "taskerror" /\ TaskEnded(m.task, "failed") /\ offers' = offers
    /\ toBroker' = [toBroker EXCEPT ![r] = Tail(@)]
    /\ UNCHANGED <<known, runnerVars, late>>

-----------------------------------------------------------------------------
(* TaskBroker: its timers.                                                 *)

\* Two seconds without an answer. An answer of a runner that is connected
\* may still be on its way: it is late, which happens MaxLate times.
AcceptTimesOut(t) ==
    LET alive == call[t].runner \in known /\ up[call[t].runner] # "gone" IN
    /\ call[t].state = "accepting"
    /\ alive => late < MaxLate
    /\ late' = IF alive THEN late + 1 ELSE late
    /\ GiveUp(t)
    /\ UNCHANGED <<known, offers, requests, asked, runnerVars, toRunner, toBroker>>

\* The processes rs end.
Die(rs) ==
    /\ up' = [r \in Runner |-> IF r \in rs THEN "gone" ELSE up[r]]
    /\ open' = [r \in Runner |-> IF r \in rs THEN {} ELSE open[r]]
    /\ held' = [r \in Runner |-> IF r \in rs THEN [t \in Task |-> "none"] ELSE held[r]]

\* Mutant: an external runner is not told.
CancelOrRestartQuietly(r, t) == Die(IF fleet.external THEN {} ELSE Live) /\ toRunner' = toRunner

\* An external runner is told to cancel the task; the broker's own runner
\* process, whichever it is by now, is killed (and another one is started).
CancelOrRestart(r, t) ==
    IF fleet.external
    THEN /\ toRunner' = IF r \in known
                        THEN [toRunner EXCEPT ![r] = Append(@, About("taskcancel", t))]
                        ELSE toRunner
         /\ UNCHANGED runnerVars
    ELSE Die(Live) /\ toRunner' = toRunner

\* handleTaskTimeout: and the requester is told.
TaskTimesOut(t) ==
    /\ t \in Tasks
    /\ CancelOrRestart(call[t].runner, t)
    /\ asked' = [asked EXCEPT ![call[t].request] = "failed"]
    /\ call' = [call EXCEPT ![t] = NoCall]
    /\ UNCHANGED <<known, offers, requests, inProgress, toBroker, late>>

-----------------------------------------------------------------------------
(* Connections.                                                            *)

\* The websocket opens, the runner says who it is and is registered. A
\* launcher sends its offer, which does not expire. The broker's own process is
\* started when the one before it has ended.
Connect(r) ==
    /\ r \in fleet.runners /\ up[r] = "off" /\ Room
    /\ fleet.external \/ Live = {}
    /\ up' = [up EXCEPT ![r] = "up"]
    /\ known' = known \cup {r}
    /\ IF r \in fleet.launchers
       THEN /\ open' = [open EXCEPT ![r] = {1}]
            /\ toBroker' = [toBroker EXCEPT ![r] = <<OfferMessage(1)>>]
       ELSE UNCHANGED <<open, toBroker>>
    /\ UNCHANGED <<offers, requests, inProgress, call, asked, held, toRunner, late>>

\* The pending offers of the other runners.
OffersWithout(r) ==
    LET others == Ascending({i \in DOMAIN offers : offers[i].runner # r})
    IN  [k \in DOMAIN others |-> offers[others[k]]]

\* failTask, of each of the tasks.
FailTasks(lost) ==
    /\ asked' = [q \in Request |->
                   IF \E t \in lost : call[t].request = q THEN "failed" ELSE asked[q]]
    /\ call' = [t \in Task |-> IF t \in lost THEN NoCall ELSE call[t]]

\* removeConnection and deregisterRunner: the websocket closed because the
\* process ended, or a heartbeat failed and it is closed now. The runner's
\* offers go and its tasks fail; a call that awaits its answer is not told.
\* What was on its way is not read. A process that failed its heartbeat is
\* killed if it is the broker's own; an external one is cut off: it makes no
\* more offers, but the tasks it has run on.
Deregister(r) ==
    /\ r \in known
    /\ known' = known \ {r}
    /\ offers' = OffersWithout(r)
    /\ FailTasks({t \in Tasks : call[t].runner = r})
    /\ IF fleet.external /\ r \in Live
       THEN /\ up' = [up EXCEPT ![r] = "cut"]
            /\ open' = [open EXCEPT ![r] = {}]
            /\ held' = held
       ELSE Die({r})
    /\ toRunner' = [toRunner EXCEPT ![r] = <<>>]
    /\ toBroker' = [toBroker EXCEPT ![r] = <<>>]
    /\ UNCHANGED <<requests, inProgress, late>>

\* The process ends by itself: it crashed, or it was stopping and has no tasks
\* or no time left.
RunnerEnds(r) ==
    /\ up[r] \in {"up", "stopping", "cut"}
    /\ Die({r})
    /\ UNCHANGED <<brokerVars, asked, toRunner, toBroker, late>>

\* TaskRunner.stop, on a signal or the idle timeout: no more offers; those that
\* are open may still be accepted. (The broker's own process is stopped when
\* all of n8n stops.)
RunnerStops(r) ==
    /\ fleet.external /\ up[r] = "up" /\ r \notin fleet.launchers
    /\ up' = [up EXCEPT ![r] = "stopping"]
    /\ UNCHANGED <<brokerVars, asked, open, held, toRunner, toBroker, late>>

-----------------------------------------------------------------------------
(* TaskRunner.                                                             *)

\* sendOffers, after the messages in `before': the offers that are stale by
\* the runner's clock are dropped, and new ones fill what neither offers nor
\* tasks take. The runner's clock allows more time than the broker's; an offer
\* that is dropped while the broker may use it counts as late. Nothing leaves
\* a runner that is cut off.
SendOffers(r, tasks, before) ==
    \E stale \in SUBSET open[r] :
        LET kept  == open[r] \ stale
            early == Cardinality(stale \cap InUse(r))
            n     == IF up[r] # "up" THEN 0
                     ELSE fleet.maxConcurrency - (Cardinality(kept) + Cardinality(tasks))
            ids   == FreshOffers(r)
            new   == IF n > 0 THEN SubSeq(ids, 1, n) ELSE <<>>
        IN
        /\ n <= Len(ids)
        /\ late + early <= MaxLate /\ late' = late + early
        /\ open' = [open EXCEPT ![r] = kept \cup ToSet(new)]
        /\ toBroker' = IF up[r] = "cut" THEN toBroker
                       ELSE [toBroker EXCEPT ![r] =
                               @ \o before \o [i \in DOMAIN new |-> OfferMessage(new[i])]]

\* Mutant: the task is not forgotten.
FinishTaskKept(r, t, before) == held' = held /\ SendOffers(r, Held(r), before)

\* finishTask: after the answer in `before', if any, the task is forgotten and
\* offers are sent.
FinishTask(r, t, before) ==
    /\ held' = [held EXCEPT ![r][t] = "none"]
    /\ SendOffers(r, Held(r) \ {t}, before)

\* The interval: nothing happens unless an offer is stale or capacity is left.
OfferInterval(r) ==
    /\ up[r] = "up" /\ r \notin fleet.launchers
    /\ SendOffers(r, Held(r), <<>>)
    /\ open' # open
    /\ UNCHANGED <<brokerVars, asked, up, held, toRunner>>

\* Mutant: the runner does not look whether it knows the offer.
OfferAcceptedUnknown(r, o, t) ==
    /\ open' = [open EXCEPT ![r] = @ \ {o}]
    /\ held' = [held EXCEPT ![r][t] = "waitingForSettings"]
    /\ toBroker' = [toBroker EXCEPT ![r] = Append(@, About("taskaccepted", t))]

\* offerAccepted: rejected if there is no capacity or the offer is unknown.
OfferAccepted(r, o, t) ==
    /\ open' = [open EXCEPT ![r] = @ \ {o}]
    /\ IF Cardinality(Held(r)) < fleet.maxConcurrency /\ o \in open[r]
       THEN /\ held' = [held EXCEPT ![r][t] = "waitingForSettings"]
            /\ toBroker' = [toBroker EXCEPT ![r] = Append(@, About("taskaccepted", t))]
       ELSE /\ toBroker' = [toBroker EXCEPT ![r] = Append(@, About("taskrejected", t))]
            /\ held' = held

\* receivedSettings: the task runs. (Any other status is an assertion error.)
ReceivedSettings(r, t) ==
    /\ held' = IF held[r][t] = "waitingForSettings" THEN [held EXCEPT ![r][t] = "running"] ELSE held
    /\ UNCHANGED <<open, toBroker>>

\* taskCancelled: a task without settings is finished, one that runs is
\* aborted, the others are ignored.
TaskCancelled(r, t) ==
    \/ held[r][t] = "waitingForSettings" /\ FinishTask(r, t, <<>>)
    \/ /\ held[r][t] # "waitingForSettings"
       /\ held' = IF held[r][t] = "running" THEN [held EXCEPT ![r][t] = "aborting:cancelled"] ELSE held
       /\ UNCHANGED <<open, toBroker, late>>

\* A runner's next message.
RunnerReceives(r) ==
    /\ r \in Live \ fleet.launchers /\ toRunner[r] # <<>>
    /\ LET m == Head(toRunner[r]) IN
       \/ m.type = "taskofferaccept" /\ OfferAccepted(r, m.offer, m.task) /\ late' = late
       \/ m.type = "tasksettings" /\ ReceivedSettings(r, m.task) /\ late' = late
       \/ m.type = "taskcancel" /\ TaskCancelled(r, m.task)
    /\ toRunner' = [toRunner EXCEPT ![r] = Tail(@)]
    /\ UNCHANGED <<brokerVars, asked, up>>

\* A launcher whose offer is accepted defers the task and ends, to start a
\* runner.
LauncherDefers(r) ==
    /\ up[r] = "up" /\ r \in fleet.launchers /\ toRunner[r] # <<>>
    /\ toBroker' = [toBroker EXCEPT ![r] =
                      Append(@, About("taskdeferred", Head(toRunner[r]).task))]
    /\ toRunner' = [toRunner EXCEPT ![r] = Tail(@)]
    /\ up' = [up EXCEPT ![r] = "gone"]
    /\ open' = [open EXCEPT ![r] = {}]
    /\ UNCHANGED <<brokerVars, asked, held, late>>

\* taskTimedOut. The timer fires once and is cleared when the task finishes.
RunnerTaskTimesOut(r, t) ==
    /\ \/ /\ held[r][t] = "waitingForSettings"
          /\ FinishTask(r, t, <<About("taskerror", t)>>)
       \/ /\ held[r][t] = "running"
          /\ held' = [held EXCEPT ![r][t] = "aborting:timeout"]
          /\ UNCHANGED <<open, toBroker, late>>
    /\ UNCHANGED <<brokerVars, asked, up, toRunner>>

\* taskExecutionSucceeded and taskExecutionFailed: the code of the task has
\* ended, by itself or because it was aborted. A cancelled one says nothing.
RunnerTaskEnds(r, t) ==
    /\ \/ /\ held[r][t] \in {"running", "aborting:timeout"}
          /\ \E how \in {"taskdone", "taskerror"} : FinishTask(r, t, <<About(how, t)>>)
       \/ held[r][t] = "aborting:cancelled" /\ FinishTask(r, t, <<>>)
    /\ UNCHANGED <<brokerVars, asked, up, toRunner>>

-----------------------------------------------------------------------------

Step ==
    \/ \E q \in Request : TaskRequested(q)
    \/ \E i \in DOMAIN offers : OfferExpires(i)
    \/ \E t \in Task : AcceptTimesOut(t) \/ TaskTimesOut(t)
    \/ \E r \in Runner :
          \/ BrokerReceives(r) \/ Connect(r) \/ Deregister(r)
          \/ RunnerEnds(r) \/ RunnerStops(r)
          \/ OfferInterval(r) \/ RunnerReceives(r) \/ LauncherDefers(r)
    \/ \E r \in Runner, t \in Task : RunnerTaskTimesOut(r, t) \/ RunnerTaskEnds(r, t)

Next == Step /\ UNCHANGED fleet

Spec == Init /\ [][Next]_vars

\* Messages arrive, timers fire, offers expire, intervals come round, a runner
\* that stops ends, a websocket whose other end is gone closes, and the code of
\* a task ends. Nothing makes a runner start, and no request has to be made.
Fairness ==
    /\ WF_state(\E i \in DOMAIN offers : OfferExpires(i))
    /\ \A t \in Task : WF_state(AcceptTimesOut(t)) /\ WF_state(TaskTimesOut(t))
    /\ \A r \in Runner :
          /\ WF_state(BrokerReceives(r))
          /\ WF_state(up[r] = "stopping" /\ RunnerEnds(r))
          /\ WF_state(up[r] = "gone" /\ Deregister(r))
          /\ WF_state(OfferInterval(r))
          /\ WF_state(RunnerReceives(r))
          /\ WF_state(LauncherDefers(r))
          /\ \A t \in Task : WF_state(RunnerTaskTimesOut(r, t)) /\ WF_state(RunnerTaskEnds(r, t))

FairSpec == Spec /\ Fairness

-----------------------------------------------------------------------------

TypeOK ==
    /\ fleet \in Fleets
    /\ known \subseteq Runner
    /\ offers \in Seq([runner : Runner, offer : Offer])
    /\ requests \in Seq(Request) /\ inProgress \subseteq Request
    /\ call \in [Task -> Calls]
    /\ asked \in [Request -> {"idle", "requested", "running", "done", "failed"}]
    /\ up \in [Runner -> {"off", "up", "stopping", "cut", "gone"}]
    /\ open \in [Runner -> SUBSET Offer]
    /\ held \in [Runner -> [Task -> TaskStatus]]
    /\ toRunner \in [Runner -> Seq(ToRunner)] /\ toBroker \in [Runner -> Seq(ToBroker)]
    /\ late \in 0 .. MaxLate

\* acceptInProgress works as a lock: a request that still waits is marked
\* exactly while one acceptOffer call is at work for it, and two never are,
\* although calls end late, by a timeout, and after other calls began.
RequestIsLocked ==
    \A q \in Request :
        LET calls == {t \in Accepting : call[t].request = q} IN
        /\ asked[q] = "requested" => (q \in inProgress <=> calls # {})
        /\ Cardinality(calls) <= 1
        /\ calls # {} => asked[q] = "requested"

\* A request is in the broker's list until the requester is told that it is
\* ready, however often its acceptance is rejected, deferred or times out: so
\* the error "Failed to find task request ... This shouldn't happen" does not.
NoRequestLost == \A q \in Request : asked[q] = "requested" => q \in ToSet(requests)

\* A request goes through matching as one, until it is answered.
RequestsMatched == RequestIsLocked /\ NoRequestLost

\* The requester waits for the answer of exactly one task while the broker has
\* that task, and the broker has no other: an answer is sent once, and startTask,
\* which has no timeout of its own, is always waiting for one.
TaskHasRequester ==
    \A q \in Request :
        Cardinality({t \in Tasks : call[t].request = q}) = (IF asked[q] = "running" THEN 1 ELSE 0)

\* What the broker offers to requests and has running belongs to runners that
\* are registered.
OnlyKnownRunners ==
    /\ \A i \in DOMAIN offers : offers[i].runner \in known
    /\ \A t \in Tasks : call[t].runner \in known

\* A runner never promises more than its capacity, in offers and tasks.
WithinCapacity ==
    \A r \in Runner \ fleet.launchers : Cardinality(open[r]) + Cardinality(Held(r)) <= fleet.maxConcurrency

\* Neither side counts on runners, offers or slots that are not there.
RunnersBounded == OnlyKnownRunners /\ WithinCapacity

\* Settings never reach a task that is running or aborting: the assertions of
\* receivedSettings ("These states should never happen") hold.
SettingsExpected ==
    \A r \in Runner : \A i \in DOMAIN toRunner[r] :
        LET m == toRunner[r][i] IN
        m.type = "tasksettings" => held[r][m.task] \in {"none", "waitingForSettings"}

\* A task that runs user code in a runner that is not cut off is one that the
\* broker waits for, or whose cancellation is on its way: no code runs for
\* nobody, whichever timeout, answer and failure came first.
RunsForSomebody ==
    \A r \in Live, t \in Task :
        held[r][t] = "running" =>
            \/ call[t].state = "task" /\ call[t].runner = r
            \/ About("taskcancel", t) \in ToSet(toRunner[r])

\* What a runner does with a task is what the broker takes it to do.
TasksAgree == SettingsExpected /\ RunsForSomebody

\* A request is answered or there comes a time without a registered runner.
RequestAnswered ==
    \A q \in Request :
        asked[q] = "requested" ~> (asked[q] \in {"running", "done", "failed"} \/ known = {})

\* Once the requester was told that its task is ready, it gets an answer.
TaskAnswered == \A q \in Request : asked[q] = "running" ~> asked[q] \in {"done", "failed"}

\* A task that a runner holds, wanted or not, gives its slot back.
SlotFreed == \A r \in Runner, t \in Task : held[r][t] # "none" ~> held[r][t] = "none"

\* Every task has an end, on the side of who asked for it and of who runs it.
TasksEnd == TaskAnswered /\ SlotFreed

=============================================================================
