--------------------------- MODULE WorkflowActivation ---------------------------
(***************************************************************************)
(* How one main process keeps the triggers and pollers of a workflow in    *)
(* line with its row: WorkflowService.update and delete, the activation at *)
(* the start of the process, ActiveWorkflowManager's retries of what could *)
(* not be activated or whose trigger failed, and ActiveWorkflows. All of   *)
(* it is kept by workflow id, so there is one workflow here.               *)
(*                                                                         *)
(* A call of one of them is a record in `calls'; a step is what it does    *)
(* from one await to the next. Nothing keeps two calls for the same        *)
(* workflow apart. Rows of webhooks, messages of activation errors and     *)
(* history are left out, as are several mains.                             *)
(***************************************************************************)
EXTENDS Integers, Sequences, FiniteSets

CONSTANTS
    Shapes,   \* Workflows: how many of their triggers listen until they are closed,
              \* how many rules their Schedule Triggers have, and how many poll times
              \* their pollers, each of which has one at least.
    MaxUses,  \* Bound: updates and deletions by users.
    MaxFaults, \* Bound: nodes that fail to start, to close or while they listen.
    MaxCalls   \* Bound: calls in progress at a time.

ASSUME ActivationBounds ==
    /\ Shapes \subseteq {s \in [triggers : Nat, rules : Nat, polls : Nat] : s.triggers + s.rules + s.polls > 0}
    /\ Shapes # {} /\ MaxUses \in Nat /\ MaxFaults \in Nat /\ MaxCalls \in Nat \ {0}

VARIABLES
    shape,     \* The workflow's nodes, one of Shapes.
    row,       \* Its row: active or not, or deleted, and which nodes were saved.
    entry,     \* ActiveWorkflows.activeWorkflows, with the triggerResponses.
    listening, \* The trigger nodes that listen: started and not closed.
    crons,     \* ScheduledTaskManager.cronJobs, in the order they were registered:
               \* of each, the version of the nodes.
    queued,    \* ActiveWorkflowManager.queuedActivations: the timer it knows.
    timers,    \* The timers of retries that will fire.
    calls,     \* What is in progress.
    uses, faults, \* How many there were, for the bounds.
    why        \* History: what went wrong that the state shows no more.

memory == <<entry, listening, crons, queued, timers>>
vars   == <<shape, row, memory, calls, uses, faults, why>>

NoEntry == [on |-> FALSE, responses |-> {}]
NoQueue == 0

\* read       activateWorkflow is about to read the row
\* removing   ActiveWorkflowManager.remove, before it looks at the memory
\* closing    ActiveWorkflows.remove waits for the triggers to close
\* saving     the row is about to be written or deleted
\* saved      it is written
\* finding    add is about to read it
\* starting   the trigger nodes are started, one after the other
\* polling    the pollers are tried, one after the other
\* ending     it is activated
\* failing    it is not
At == {"read", "removing", "closing", "saving", "saved", "finding", "starting",
       "polling", "ending", "failing"}
Adding == {"finding", "starting", "polling", "ending", "failing"}

Kind == {"boot", "retry", "drop", "update", "delete"}

\* nodes are the triggers that listen and that the call has started, or closes;
\* tasks the number of crons that it has registered.
NoCall == [id |-> 0, kind |-> "boot", at |-> "read", version |-> 0, want |-> TRUE, nodes |-> {}, tasks |-> 0]

Becomes(c, d) == (calls \ {c}) \cup {d}
Among(c, at)  == Becomes(c, [c EXCEPT !.at = at])
Unused(ids)  == CHOOSE n \in 1..(Cardinality(ids) + 1) : n \notin ids
Ids(xs)      == {x.id : x \in xs}
NewCall      == Unused(Ids(calls))
NewTimer     == Unused(Ids(timers) \cup {queued})
NewListener  == Unused(Ids(listening) \cup entry.responses \cup UNION {c.nodes : c \in calls})
Room         == Cardinality(calls) < MaxCalls
Fault        == faults < MaxFaults /\ faults' = faults + 1
Tasks        == shape.rules + shape.polls

\* Two calls, one of which activates the workflow.
Overlap(cs) == \E c, d \in cs : c # d /\ c.at \in Adding

Goes(cs) == calls' = cs /\ why' = why \cup (IF Overlap(cs) THEN {"overlap"} ELSE {})

Init ==
    /\ shape \in Shapes
    /\ row \in [state : {"active", "inactive"}, version : {0}]
    /\ entry = NoEntry /\ listening = {} /\ crons = << >> /\ queued = NoQueue /\ timers = {}
    /\ calls = IF row.state = "active" THEN {NoCall} ELSE {}
    /\ uses = 0 /\ faults = 0 /\ why = {}

-----------------------------------------------------------------------------
(* The queue of retries.                                                   *)

\* removeQueuedWorkflowActivation: the timer it knows is cleared.
Unqueue == queued' = NoQueue /\ timers' = {t \in timers : t.id # queued}

\* addQueuedWorkflowActivation, which clears the timer it knows first.
Enqueue(version) ==
    /\ queued' = NewTimer
    /\ timers' = {t \in timers : t.id # queued} \cup {[id |-> NewTimer, version |-> version]}

\* A timer fires: the workflow as it was read then is added.
Retry(t) ==
    /\ Room
    /\ timers' = timers \ {t}
    /\ Goes(calls \cup {[NoCall EXCEPT !.id = NewCall, !.kind = "retry", !.at = "starting",
                                       !.version = t.version]})
    /\ UNCHANGED <<shape, row, entry, listening, crons, queued, uses, faults>>

-----------------------------------------------------------------------------
(* Users, and the start of the process.                                    *)

\* WorkflowService.update: an active workflow is removed first.
Update ==
    /\ uses < MaxUses /\ Room /\ row.state # "deleted"
    /\ \E want \in BOOLEAN :
         Goes(calls \cup {[NoCall EXCEPT !.id = NewCall, !.kind = "update", !.want = want, !.version = uses + 1,
                !.at = IF row.state = "active" THEN "removing" ELSE "saving"]})
    /\ uses' = uses + 1
    /\ UNCHANGED <<shape, row, memory, faults>>

\* WorkflowService.delete
Delete ==
    /\ uses < MaxUses /\ Room /\ row.state # "deleted"
    /\ Goes(calls \cup {[NoCall EXCEPT !.id = NewCall, !.kind = "delete",
              !.at = IF row.state = "active" THEN "removing" ELSE "saving"]})
    /\ uses' = uses + 1
    /\ UNCHANGED <<shape, row, memory, faults>>

\* The rows that are active have been listed; this one is read and added.
ReadAtStart(c) ==
    /\ c.at = "read"
    /\ Goes(IF row.state = "active" THEN Becomes(c, [c EXCEPT !.version = row.version, !.at = "starting"])
            ELSE calls \ {c})
    /\ UNCHANGED <<shape, row, memory, uses, faults>>

\* The row is written, with what the user changed, or deleted.
Save(c) ==
    /\ c.at = "saving"
    /\ row' = IF row.state = "deleted" THEN row
              ELSE IF c.kind = "delete" THEN [row EXCEPT !.state = "deleted"]
              ELSE [state |-> IF c.want THEN "active" ELSE "inactive", version |-> c.version]
    /\ Goes(IF c.kind = "delete" THEN calls \ {c} ELSE Among(c, "saved"))
    /\ UNCHANGED <<shape, memory, uses, faults>>

\* It is read again: if it is active by now, the workflow is added.
Reread(c) ==
    /\ c.at = "saved"
    /\ Goes(IF row.state = "active" THEN Among(c, "finding") ELSE calls \ {c})
    /\ UNCHANGED <<shape, row, memory, uses, faults>>

-----------------------------------------------------------------------------
(* ActiveWorkflowManager.remove and ActiveWorkflows.remove.                *)

\* Mutant: what is queued is tried again.
RemoveKeepsQueue(c) ==
    /\ c.at = "removing"
    /\ UNCHANGED <<queued, timers>>
    /\ crons' = IF entry.on THEN << >> ELSE crons
    /\ entry' = IF entry.on /\ entry.responses = {} THEN NoEntry ELSE entry
    /\ Goes(IF entry.responses = {} THEN Among(c, "saving")
            ELSE Becomes(c, [c EXCEPT !.nodes = entry.responses, !.at = "closing"]))
    /\ UNCHANGED <<shape, row, listening, uses, faults>>

\* The crons go, the triggers of the entry are closed one after the other.
Remove(c) ==
    /\ c.at = "removing"
    /\ Unqueue
    /\ crons' = IF entry.on THEN << >> ELSE crons
    /\ entry' = IF entry.on /\ entry.responses = {} THEN NoEntry ELSE entry
    /\ Goes(IF entry.responses = {} THEN Among(c, "saving")
            ELSE Becomes(c, [c EXCEPT !.nodes = entry.responses, !.at = "closing"]))
    /\ UNCHANGED <<shape, row, listening, uses, faults>>

AfterClosing(c) ==
    IF c.kind = "drop" THEN calls \ {c} ELSE Becomes(c, [c EXCEPT !.nodes = {}, !.at = "saving"])

\* Mutant: the entry is emptied, the triggers stay.
ClosedQuietly(c) ==
    /\ c.at = "closing"
    /\ entry' = NoEntry
    /\ Goes(AfterClosing(c))
    /\ UNCHANGED <<shape, row, listening, crons, queued, timers, uses, faults>>

\* Mutant: the entry is left with its responses, but marked as gone.
ClosedHalfway(c) ==
    /\ c.at = "closing"
    /\ listening' = {l \in listening : l.id \notin c.nodes}
    /\ entry' = [entry EXCEPT !.on = FALSE]
    /\ Goes(AfterClosing(c))
    /\ UNCHANGED <<shape, row, crons, queued, timers, uses, faults>>

\* All are closed: the entry is deleted, whosoever it is by now.
Closed(c) ==
    /\ c.at = "closing"
    /\ listening' = {l \in listening : l.id \notin c.nodes}
    /\ entry' = NoEntry
    /\ Goes(AfterClosing(c))
    /\ UNCHANGED <<shape, row, crons, queued, timers, uses, faults>>

\* One does not close: the call ends with an error, or goes on if it is one that
\* is only reported (closeTrigger).
CloseFails(c) ==
    /\ c.at = "closing" /\ Fault
    /\ \E ls \in SUBSET c.nodes : listening' = {l \in listening : l.id \notin ls}
    /\ \/ calls' = calls \ {c} /\ UNCHANGED entry
       \/ calls' = AfterClosing(c) /\ entry' = NoEntry
    /\ why' = why \cup {"close"}
    /\ UNCHANGED <<shape, row, crons, queued, timers, uses>>

-----------------------------------------------------------------------------
(* ActiveWorkflowManager.add and ActiveWorkflows.add.                      *)

\* add reads the row, and does not ask again whether it is active.
Find(c) ==
    /\ c.at = "finding"
    /\ Goes(IF row.state = "deleted" THEN Among(c, "failing")
            ELSE Becomes(c, [c EXCEPT !.version = row.version, !.at = "starting"]))
    /\ UNCHANGED <<shape, row, memory, uses, faults>>

\* A trigger node starts to listen.
RunTrigger(c) ==
    /\ c.at = "starting" /\ Cardinality(c.nodes) < shape.triggers
    /\ listening' = listening \cup {[id |-> NewListener, version |-> c.version]}
    /\ Goes(Becomes(c, [c EXCEPT !.nodes = @ \cup {NewListener}]))
    /\ UNCHANGED <<shape, row, entry, crons, queued, timers, uses, faults>>

\* registerCron, n times.
Cron(c, n) == crons' = crons \o [i \in 1..n |-> c.version]

\* A Schedule Trigger registers its rules. There is nothing to close of it.
RunSchedule(c) ==
    /\ c.at = "starting"
    /\ \E n \in 1..(shape.rules - c.tasks) :
         Cron(c, n) /\ Goes(Becomes(c, [c EXCEPT !.tasks = @ + n]))
    /\ UNCHANGED <<shape, row, entry, listening, queued, timers, uses, faults>>

\* The call fails: what it has started or registered until then stays.
Fails(c, tasks) ==
    /\ calls' = Among(c, "failing")
    /\ why' = why \cup (IF c.nodes = {} /\ tasks = 0 THEN {} ELSE {"halfway"})
                  \cup (IF Overlap(calls') THEN {"overlap"} ELSE {})

\* A trigger does not start, or a rule of a Schedule Trigger is not valid, after n that
\* were registered: the responses of those before it are dropped.
TriggerFails(c) ==
    /\ c.at = "starting" /\ Fault
    /\ \E n \in 0..(shape.rules - c.tasks) :
         /\ n < shape.rules - c.tasks \/ (n = 0 /\ Cardinality(c.nodes) < shape.triggers)
         /\ Cron(c, n) /\ Fails(c, c.tasks + n)
    /\ UNCHANGED <<shape, row, entry, listening, queued, timers, uses>>

\* All have started: the entry is set, whatever was there.
Register(c) ==
    /\ c.at = "starting" /\ Cardinality(c.nodes) = shape.triggers /\ c.tasks = shape.rules
    /\ entry' = [on |-> TRUE, responses |-> c.nodes]
    /\ Goes(Among(c, IF shape.polls > 0 THEN "polling" ELSE "ending"))
    /\ UNCHANGED <<shape, row, listening, crons, queued, timers, uses, faults>>

\* The first poll of a poller succeeds, its poll times are registered.
Poll(c) ==
    /\ c.at = "polling"
    /\ \E n \in 1..(Tasks - c.tasks) :
         /\ Cron(c, n)
         /\ Goes(Becomes(c, [c EXCEPT !.tasks = @ + n,
                                     !.at = IF c.tasks + n = Tasks THEN "ending" ELSE "polling"]))
    /\ UNCHANGED <<shape, row, entry, listening, queued, timers, uses, faults>>

\* It fails, or a poll time is too short, after n that were registered: the entry is
\* deleted, unless there are triggers.
PollFails(c) ==
    /\ c.at = "polling" /\ Fault
    /\ \E n \in 0..(Tasks - c.tasks - 1) : Cron(c, n) /\ Fails(c, c.tasks + n)
    /\ entry' = IF c.nodes = {} /\ shape.rules = 0 THEN NoEntry ELSE entry
    /\ UNCHANGED <<shape, row, listening, queued, timers, uses>>

\* It is activated: nothing is left to be retried.
Activated(c) ==
    /\ c.at = "ending"
    /\ Unqueue
    /\ Goes(calls \ {c})
    /\ UNCHANGED <<shape, row, entry, listening, crons, uses, faults>>

\* It is not. The user who wanted it is told, and the row set to inactive.
GiveUp(c) ==
    /\ c.at = "failing" /\ c.kind = "update"
    /\ row' = IF row.state = "deleted" THEN row ELSE [row EXCEPT !.state = "inactive"]
    /\ Goes(calls \ {c})
    /\ UNCHANGED <<shape, memory, uses, faults>>

\* At the start of the process it is queued, unless it may never work.
RetryLater(c) ==
    /\ c.at = "failing" /\ c.kind = "boot"
    /\ \/ Enqueue(c.version) /\ Goes(calls \ {c})
       \/ UNCHANGED <<queued, timers>> /\ calls' = calls \ {c} /\ why' = why \cup {"forbidden"}
    /\ UNCHANGED <<shape, row, entry, listening, crons, uses, faults>>

\* Mutant: it is tried again once.
RetryAgainNot(c) ==
    /\ c.at = "failing" /\ c.kind = "retry"
    /\ Unqueue
    /\ Goes(calls \ {c})
    /\ UNCHANGED <<shape, row, entry, listening, crons, uses, faults>>

\* A retry sets the next timer, in the entry of the queue that there is. If
\* there is none, that throws and there are no more retries.
RetryAgain(c) ==
    /\ c.at = "failing" /\ c.kind = "retry"
    /\ IF queued = NoQueue THEN UNCHANGED <<queued, timers>>
       ELSE /\ queued' = NewTimer
            /\ timers' = timers \cup {[id |-> NewTimer, version |-> c.version]}
    /\ Goes(calls \ {c})
    /\ UNCHANGED <<shape, row, entry, listening, crons, uses, faults>>

\* emitError of a trigger node: the workflow is removed from memory, which goes
\* on on its own, and queued.
EmitError(l) ==
    /\ Fault /\ Room
    /\ crons' = IF entry.on THEN << >> ELSE crons
    /\ entry' = IF entry.on /\ entry.responses = {} THEN NoEntry ELSE entry
    /\ Enqueue(l.version)
    /\ calls' = IF entry.responses = {} THEN calls
                ELSE calls \cup {[NoCall EXCEPT !.id = NewCall, !.kind = "drop", !.at = "closing",
                                                !.nodes = entry.responses]}
    /\ why' = why \cup (IF calls = {} THEN {} ELSE {"late"})
    /\ UNCHANGED <<shape, row, listening, uses>>

-----------------------------------------------------------------------------
Continue(c) ==
    \/ ReadAtStart(c) \/ Save(c) \/ Reread(c) \/ Remove(c) \/ Closed(c) \/ Find(c)
    \/ RunTrigger(c) \/ RunSchedule(c) \/ Register(c) \/ Poll(c) \/ Activated(c)
    \/ GiveUp(c) \/ RetryLater(c) \/ RetryAgain(c)

Next ==
    \/ Update \/ Delete
    \/ \E t \in timers : Retry(t)
    \/ \E l \in listening : EmitError(l)
    \/ \E c \in calls : Continue(c) \/ CloseFails(c) \/ TriggerFails(c) \/ PollFails(c)

Spec == Init /\ [][Next]_vars

Fairness ==
    /\ WF_vars(\E c \in calls : Continue(c))
    /\ WF_vars(\E t \in timers : Retry(t))

FairSpec == Spec /\ Fairness

-----------------------------------------------------------------------------
(* Properties.                                                             *)

TypeOK ==
    /\ shape \in Shapes
    /\ row.state \in {"active", "inactive", "deleted"}
    /\ entry.on \in BOOLEAN /\ (entry.responses # {} => entry.on)
    /\ \A c \in calls : c.kind \in Kind /\ c.at \in At

\* What explains a difference between row and memory: a call that activated the
\* workflow met another call; a trigger failed while a call was in progress; of
\* several nodes, rules or poll times some were started when one failed; a trigger was
\* not closed; it was not to be tried again.
Explained == why # {}
Unless(reasons, P) == why \cap reasons # {} \/ P

\* The workflow runs as it was saved.
Runs ==
    /\ entry.on /\ Ids(listening) = entry.responses
    /\ Cardinality(entry.responses) = shape.triggers
    /\ Len(crons) = Tasks
    /\ \A l \in listening : l.version = row.version
    /\ \A i \in DOMAIN crons : crons[i] = row.version

\* What leaves triggers or crons that nobody will close.
Stray == {"overlap", "late", "halfway", "close"}

\* When nothing is in progress, an active workflow runs, with the nodes that were
\* saved last, or will be tried again; of one that is inactive or deleted nothing
\* listens, polls or will be tried again (update, delete, add, remove, emitError).
ActiveAsSaved ==
    calls = {} =>
        IF row.state = "active" THEN Explained \/ Runs \/ timers # {}
        ELSE Unless(Stray, listening = {} /\ ~entry.on /\ crons = << >> /\ timers = {})

\* There is one retry at a time, and the queue knows its timer, so that a removal
\* clears it, unless a trigger failed while a call was in progress. What an entry
\* holds listens, and what listens is held by an entry or a call, so that it can be
\* closed.
NothingStray ==
    /\ Unless({"late"},
              /\ \A t \in timers : t.id = queued
              /\ Cardinality(timers) + Cardinality({c \in calls : c.kind \in {"retry", "boot"}}) <= 1)
    /\ Unless({"close"}, entry.responses \subseteq Ids(listening))
    /\ Unless(Stray, Ids(listening) \subseteq entry.responses \cup UNION {c.nodes : c \in calls})

\* An active workflow runs in the end, however often its nodes fail.
Activates == <>[](row.state = "active" => Runs) \/ <>Explained
=============================================================================
