------------------------------- MODULE MultiMain -------------------------------
(***************************************************************************)
(* Several main processes in queue mode choose a leader: MultiMainSetup    *)
(* and what depends on the leadership in each of them, the polling of      *)
(* WaitTracker and the timers of PruningService.                           *)
(*                                                                         *)
(* The lock is a key in Redis that names its holder and has a time to      *)
(* live. A main sends its commands for it over one connection, `pipe', and *)
(* goes on with the rest of the handler when the answer comes: a step of   *)
(* this module is Redis executing the first command of a pipe and that     *)
(* continuation. When the connection is lost, the client keeps the         *)
(* commands, those sent and not answered included, and sends all of them   *)
(* again when it is back, as ioredis does with maxRetriesPerRequest null.  *)
(*                                                                         *)
(* Time passes in units of the interval between checks. The hostId has a   *)
(* random part, so a process that is started again is another main.        *)
(***************************************************************************)
EXTENDS Integers, Sequences, SequencesExt

CONSTANTS
    Main,       \* The main processes.
    Execution,  \* Executions that wait and are due.
    Unstable,   \* Bound: the mains whose connection to Redis may be lost.
    Ttl,        \* How many checks the key outlives without being renewed.
    MaxPipe,    \* Bound: commands a main without a connection piles up.
    MaxResumes, \* Bound: resumes of one execution that are under way in a main.
    MaxCuts,    \* Bound: how often a connection is lost.
    MaxCrashes, \* Bound: how many mains crash.
    MaxStops    \* Bound: how many mains are told to stop.

ASSUME MultiMainBounds ==
    /\ Unstable \subseteq Main
    /\ Ttl \in Nat \ {0} /\ MaxPipe \in Nat \ {0} /\ MaxResumes \in Nat \ {0}
    /\ MaxCuts \in Nat /\ MaxCrashes \in Nat /\ MaxStops \in Nat

VARIABLES
    key,      \* The leader key in Redis.
    stage,    \* How far each process has come with its start and its shutdown.
    role,     \* instanceSettings.instanceRole
    pipe,     \* Commands that Redis has not answered yet.
    linked,   \* The mains with a connection to Redis.
    tracking, \* WaitTracker.mainTimer, the handle and timers no handle points at.
    pruning,  \* The timers of PruningService, likewise.
    polled,   \* Executions that polls of the wait tracker found and have not handled.
    timer,    \* WaitTracker.waitingExecutions
    resuming, \* How many calls of startExecution have not updated the row yet.
    row,      \* Executions in the database: waiting, or resumed, however far they came since.
    starts,   \* How often each was resumed, counted up to 2.
    crashes, stops, cuts, \* How many mains crashed, were stopped and cut off, for the bounds.
    cut,      \* History: the mains that lost their connection at some time.
    unsure,   \* History: the mains that, since they last read the key, lost their
              \* connection, or the key because another main deleted it.
    loose     \* History: a timer was set that is out of place.

lock     == <<key, unsure>>
services == <<tracking, pruning, polled, timer, resuming>>
waiting  == <<row, starts, loose>>
faults   == <<linked, crashes, stops, cuts, cut>>
vars     == <<lock, stage, role, pipe, services, waiting, faults>>

None    == "none"
ASSUME MainAssumption == None \notin Main

Forever == Ttl + 1
NoKey   == [holder |-> None, ttl |-> 0]

\* starting   waits for the answer to its first attempt to become leader
\* booting    checks for leadership, nobody listens to what comes of it yet
\* up         all services run
\* stopping   the shutdown handlers have run
\* halting    the wait tracker is stopped
\* resigning  checks no more, gives the key back
\* lame       without a connection, waits for its executions to end
Stage == {"off", "starting", "booting", "up", "stopping", "halting", "resigning", "lame", "gone"}

Checking  == {"booting", "up", "stopping", "halting"}
Listening == {"up", "stopping", "halting", "resigning"}
Alive     == Stage \ {"off", "gone"}

Command == {"get", "claim", "confirm", "renew", "del"}

\* An interval, and whether one runs whose handle was overwritten.
Idle       == [held |-> FALSE, leaked |-> FALSE]
Started(t) == [held |-> TRUE, leaked |-> t.leaked \/ t.held]
Cleared(t) == [t EXCEPT !.held = FALSE]
Ticks(t)   == t.held \/ t.leaked

Init ==
    /\ key = NoKey /\ unsure = {}
    /\ stage = [m \in Main |-> "off"]
    /\ role = [m \in Main |-> "unset"]
    /\ pipe = [m \in Main |-> <<>>]
    /\ linked = Main /\ crashes = 0 /\ stops = 0 /\ cuts = 0
    /\ cut = {}
    /\ tracking = [m \in Main |-> Idle] /\ pruning = [m \in Main |-> Idle]
    /\ polled = [m \in Main |-> {}]
    /\ timer = [m \in Main |-> [e \in Execution |-> "none"]]
    /\ resuming = [m \in Main |-> [e \in Execution |-> 0]]
    /\ row = [e \in Execution |-> "waiting"]
    /\ starts = [e \in Execution |-> 0] /\ loose = FALSE

-----------------------------------------------------------------------------
(* Redis. EXPIRE and DEL do not ask whose key it is.                       *)

\* Mutant: the time to live is set by a command that creates the key.
EffectCreates(k, m, c) ==
    CASE c = "claim" /\ k.holder = None -> [holder |-> m, ttl |-> Forever]
      [] c \in {"confirm", "renew"}     -> [k EXCEPT !.ttl = Ttl]
      [] c = "del"                      -> NoKey
      [] OTHER                          -> k

Effect(k, m, c) ==
    CASE c = "claim" /\ k.holder = None                 -> [holder |-> m, ttl |-> Forever]
      [] c \in {"confirm", "renew"} /\ k.holder # None  -> [k EXCEPT !.ttl = Ttl]
      [] c = "del"                                      -> NoKey
      [] OTHER                                          -> k

Execute(k, m, cmds) ==
    LET after[i \in 0..Len(cmds)] == IF i = 0 THEN k ELSE Effect(after[i - 1], m, cmds[i])
    IN  after[Len(cmds)]

\* The main whose key the commands of main m delete, if it is another.
Robbed(m, cmds) == IF Contains(cmds, "del") THEN {key.holder} \ {None, m} ELSE {}

\* Redis executes commands of main m.
Redis(m, cmds) ==
    /\ key' = Execute(key, m, cmds)
    /\ unsure' = (unsure \ (IF cmds = <<"get">> THEN {m} ELSE {})) \cup Robbed(m, cmds)

\* The first command of main m is answered, and `more' is sent.
Answer(m, cmd, more) ==
    /\ m \in linked /\ pipe[m] # <<>> /\ Head(pipe[m]) = cmd
    /\ Redis(m, <<cmd>>)
    /\ pipe' = [pipe EXCEPT ![m] = Tail(@) \o more]

-----------------------------------------------------------------------------
(* What leadership starts and stops in a main.                             *)

Due == {e \in Execution : row[e] = "waiting"}

\* WaitTracker.startTracking, which polls at once.
StartTracking(m) ==
    /\ tracking' = [tracking EXCEPT ![m] = Started(@)]
    /\ polled' = [polled EXCEPT ![m] = @ \cup Due]

\* Mutant: only the interval is cleared.
StopPolling(m) ==
    /\ tracking' = [tracking EXCEPT ![m] = Cleared(@)]
    /\ UNCHANGED timer

\* WaitTracker.stopTracking: the timers are cleared, their entries stay.
StopTracking(m) ==
    /\ tracking' = [tracking EXCEPT ![m] = Cleared(@)]
    /\ timer' = [timer EXCEPT ![m] = [e \in Execution |-> IF @[e] = "armed" THEN "cleared" ELSE @[e]]]

\* The listeners of leader-stepdown. stopPruning asks isLeader, which is no
\* longer the case, and does nothing.
StepDown(m) ==
    /\ IF stage[m] \in Listening THEN StopTracking(m) ELSE UNCHANGED <<tracking, timer>>
    /\ UNCHANGED <<pruning, polled, resuming>>

\* Mutant: the wait tracker only listens to leader-stepdown.
TakeOverUnheard(m) ==
    /\ pruning' = [pruning EXCEPT ![m] =
         IF stage[m] = "up" /\ role[m] = "leader" THEN Started(@) ELSE @]
    /\ UNCHANGED <<tracking, polled, timer, resuming>>

\* The listeners of leader-takeover.
TakeOver(m) ==
    /\ IF stage[m] \in Listening THEN StartTracking(m) ELSE UNCHANGED <<tracking, polled>>
    /\ pruning' = [pruning EXCEPT ![m] =
         IF stage[m] = "up" /\ role[m] = "leader" THEN Started(@) ELSE @]
    /\ UNCHANGED <<timer, resuming>>

-----------------------------------------------------------------------------
(* MultiMainSetup.                                                         *)

\* Orchestration is initialized: tryBecomeLeader.
Boot(m) ==
    /\ stage[m] = "off"
    /\ stage' = [stage EXCEPT ![m] = "starting"]
    /\ pipe' = [pipe EXCEPT ![m] = <<"claim">>]
    /\ UNCHANGED <<lock, role, services, waiting, faults>>

\* The first attempt is over: the interval is set.
AfterClaim(m) == stage' = [stage EXCEPT ![m] = IF @ = "starting" THEN "booting" ELSE @]

\* checkLeader finds its own id, and renews the key.
FindOwn(m) ==
    /\ key.holder = m
    /\ Answer(m, "get", <<"renew">>)
    /\ UNCHANGED <<stage, role, services, waiting, faults>>

\* Mutant: a leader that finds another one stays what it is.
FindOtherStays(m) ==
    /\ key.holder \notin {m, None}
    /\ Answer(m, "get", <<>>)
    /\ UNCHANGED <<stage, role, services, waiting, faults>>

\* checkLeader finds another main, and steps down if it was leader.
FindOther(m) ==
    /\ key.holder \notin {m, None}
    /\ Answer(m, "get", <<>>)
    /\ role' = [role EXCEPT ![m] = "follower"]
    /\ IF role[m] = "leader" THEN StepDown(m) ELSE UNCHANGED services
    /\ UNCHANGED <<stage, waiting, faults>>

\* checkLeader finds no leader: it steps down in any case, then tries to
\* become leader.
FindVacant(m) ==
    /\ key.holder = None
    /\ Answer(m, "get", <<"claim">>)
    /\ role' = [role EXCEPT ![m] = "follower"]
    /\ StepDown(m)
    /\ UNCHANGED <<stage, waiting, faults>>

\* tryBecomeLeader: SETNX succeeds, EXPIRE is sent.
ClaimWon(m) ==
    /\ key.holder = None
    /\ Answer(m, "claim", <<"confirm">>)
    /\ role' = [role EXCEPT ![m] = "leader"]
    /\ UNCHANGED <<stage, services, waiting, faults>>

\* tryBecomeLeader: SETNX fails, whoever holds the key.
ClaimLost(m) ==
    /\ key.holder # None
    /\ Answer(m, "claim", <<>>)
    /\ role' = [role EXCEPT ![m] = "follower"]
    /\ AfterClaim(m)
    /\ UNCHANGED <<services, waiting, faults>>

\* tryBecomeLeader: the key has its time to live, leader-takeover is emitted.
Confirm(m) ==
    /\ Answer(m, "confirm", <<>>)
    /\ TakeOver(m)
    /\ AfterClaim(m)
    /\ UNCHANGED <<role, waiting, faults>>

Renew(m) ==
    /\ Answer(m, "renew", <<>>)
    /\ UNCHANGED <<stage, role, services, waiting, faults>>

\* An interval passes: the key loses that much of its life, and every main
\* checks. Mains with a connection have their answers by then.
Tick ==
    /\ \A m \in linked : pipe[m] = <<>>
    /\ \E m \in Main : stage[m] \in Checking
    /\ key' = IF key.ttl = 1 THEN NoKey
              ELSE [key EXCEPT !.ttl = IF @ \in 1..Ttl THEN @ - 1 ELSE @]
    /\ pipe' = [m \in Main |->
         IF stage[m] \in Checking /\ Len(pipe[m]) < MaxPipe THEN Append(pipe[m], "get")
         ELSE pipe[m]]
    /\ UNCHANGED <<unsure, stage, role, services, waiting, faults>>

-----------------------------------------------------------------------------
(* The process.                                                            *)

\* WaitTracker.init, which listens from now on, and PruningService.init.
InitServices(m) ==
    /\ stage[m] = "booting"
    /\ stage' = [stage EXCEPT ![m] = "up"]
    /\ IF role[m] = "leader"
       THEN StartTracking(m) /\ pruning' = [pruning EXCEPT ![m] = Started(@)]
       ELSE UNCHANGED <<tracking, polled, pruning>>
    /\ UNCHANGED <<lock, role, pipe, timer, resuming, waiting, faults>>

\* SIGTERM: the shutdown handlers run, that of PruningService among them.
Stop(m) ==
    /\ stage[m] = "up" /\ stops < MaxStops
    /\ stops' = stops + 1
    /\ stage' = [stage EXCEPT ![m] = "stopping"]
    /\ pruning' = [pruning EXCEPT ![m] = IF role[m] = "leader" THEN Cleared(@) ELSE @]
    /\ UNCHANGED <<lock, role, pipe, tracking, polled, timer, resuming, waiting, linked, crashes, cuts, cut>>

\* stopProcess: stopTracking, then triggers and pollers are removed.
Halt(m) ==
    /\ stage[m] = "stopping"
    /\ stage' = [stage EXCEPT ![m] = "halting"]
    /\ StopTracking(m)
    /\ UNCHANGED <<lock, role, pipe, pruning, polled, resuming, waiting, faults>>

\* MultiMainSetup.shutdown for a leader: the key is deleted, whoever holds it.
Resign(m) ==
    /\ stage[m] = "halting" /\ role[m] = "leader"
    /\ stage' = [stage EXCEPT ![m] = "resigning"]
    /\ pipe' = [pipe EXCEPT ![m] = Append(@, "del")]
    /\ UNCHANGED <<lock, role, services, waiting, faults>>

\* Main m drops its connection. Of what it has sent, Redis may still execute
\* some, without an answer.
HangUp(m, sent) ==
    /\ \E n \in 0..Len(sent) :
         /\ m \in linked \/ n = 0
         /\ Redis(m, SubSeq(sent, 1, n))
    /\ pipe' = [pipe EXCEPT ![m] = <<>>]

\* The key was deleted: Publisher.shutdown disconnects.
Resigned(m) ==
    /\ stage[m] = "resigning" /\ m \in linked /\ pipe[m] # <<>> /\ Head(pipe[m]) = "del"
    /\ \E n \in 1..Len(pipe[m]) : Redis(m, SubSeq(pipe[m], 1, n))
    /\ pipe' = [pipe EXCEPT ![m] = <<>>]
    /\ stage' = [stage EXCEPT ![m] = "lame"]
    /\ UNCHANGED <<role, services, waiting, faults>>

\* A follower has no key to delete.
Leave(m) ==
    /\ stage[m] = "halting" /\ role[m] # "leader"
    /\ HangUp(m, pipe[m])
    /\ stage' = [stage EXCEPT ![m] = "lame"]
    /\ UNCHANGED <<role, services, waiting, faults>>

\* A process that ends takes its timers with it.
Gone(m) ==
    /\ stage' = [stage EXCEPT ![m] = "gone"]
    /\ tracking' = [tracking EXCEPT ![m] = Idle]
    /\ pruning' = [pruning EXCEPT ![m] = Idle]
    /\ polled' = [polled EXCEPT ![m] = {}]
    /\ timer' = [timer EXCEPT ![m] = [e \in Execution |-> "none"]]
    /\ resuming' = [resuming EXCEPT ![m] = [e \in Execution |-> 0]]

Exit(m) ==
    /\ stage[m] = "lame"
    /\ Gone(m)
    /\ UNCHANGED <<lock, role, pipe, waiting, faults>>

Crash(m) ==
    /\ stage[m] \in Alive /\ crashes < MaxCrashes
    /\ crashes' = crashes + 1
    /\ HangUp(m, pipe[m])
    /\ Gone(m)
    /\ UNCHANGED <<role, waiting, linked, stops, cuts, cut>>

-----------------------------------------------------------------------------
(* The connection to Redis.                                                *)

\* It is lost: some of the commands that were sent are executed, the answers
\* are not heard, and all of them will be sent again.
Cut(m) ==
    /\ m \in linked \cap Unstable /\ stage[m] \in Alive \ {"lame"}
    /\ cuts < MaxCuts
    /\ linked' = linked \ {m}
    /\ cuts' = cuts + 1 /\ cut' = cut \cup {m}
    /\ \E n \in 0..Len(pipe[m]) :
         LET sent == SubSeq(pipe[m], 1, n)
         IN  key' = Execute(key, m, sent) /\ unsure' = unsure \cup {m} \cup Robbed(m, sent)
    /\ UNCHANGED <<stage, role, pipe, services, waiting, crashes, stops>>

Relink(m) ==
    /\ m \notin linked
    /\ linked' = linked \cup {m}
    /\ UNCHANGED <<lock, stage, role, pipe, services, waiting, crashes, stops, cuts, cut>>

-----------------------------------------------------------------------------
(* Waiting executions.                                                     *)

\* The interval of the wait tracker: it reads the rows that are due.
Poll(m) ==
    /\ Ticks(tracking[m]) /\ Due \ polled[m] # {}
    /\ polled' = [polled EXCEPT ![m] = @ \cup Due]
    /\ UNCHANGED <<lock, stage, role, pipe, tracking, pruning, timer, resuming, waiting, faults>>

\* A timer that main m sets for execution e is out of place: m has stopped tracking,
\* or the execution was resumed after the poll read its row, or is being resumed, by
\* this main or another, and its row still says that it waits.
Misplaced(m, e) ==
    \/ row[e] # "waiting" \/ \E n \in Main : resuming[n][e] # 0
    \/ ~Ticks(tracking[m]) \/ stage[m] \notin {"up", "stopping"}

\* The answer of the database: timers are set for those that have no entry.
SetTimers(m) ==
    /\ polled[m] # {}
    /\ polled' = [polled EXCEPT ![m] = {}]
    /\ timer' = [timer EXCEPT ![m] =
         [e \in Execution |-> IF e \in polled[m] /\ @[e] = "none" THEN "armed" ELSE @[e]]]
    /\ loose' = (loose \/ \E e \in polled[m] : timer[m][e] = "none" /\ Misplaced(m, e))
    /\ UNCHANGED <<lock, stage, role, pipe, tracking, pruning, resuming, row, starts, faults>>

\* A timer fires: startExecution drops the entry and reads the execution. One that was
\* resumed may have succeeded since, and is left alone.
Fire(m, e) ==
    /\ timer[m][e] = "armed" /\ resuming[m][e] < MaxResumes
    /\ timer' = [timer EXCEPT ![m][e] = "none"]
    /\ \/ resuming' = [resuming EXCEPT ![m][e] = @ + 1]
       \/ row[e] # "waiting" /\ UNCHANGED resuming
    /\ UNCHANGED <<lock, stage, role, pipe, tracking, pruning, polled, waiting, faults>>

\* Starts are counted up to 2.
More(n) == IF n < 2 THEN n + 1 ELSE n

\* After more awaits WorkflowRunner.run has ActiveExecutions.add make the row running,
\* whatever it says by then, and the execution is a job.
Resume(m, e) ==
    /\ resuming[m][e] # 0
    /\ resuming' = [resuming EXCEPT ![m][e] = @ - 1]
    /\ row' = [row EXCEPT ![e] = "resumed"]
    /\ starts' = [starts EXCEPT ![e] = More(@)]
    /\ UNCHANGED <<lock, stage, role, pipe, tracking, pruning, polled, timer, loose, faults>>

\* Or the execution that is read has succeeded in the meantime.
GiveUp(m, e) ==
    /\ resuming[m][e] # 0 /\ row[e] # "waiting"
    /\ resuming' = [resuming EXCEPT ![m][e] = @ - 1]
    /\ UNCHANGED <<lock, stage, role, pipe, tracking, pruning, polled, timer, waiting, faults>>

-----------------------------------------------------------------------------
Protocol(m) ==
    \/ FindOwn(m) \/ FindOther(m) \/ FindVacant(m)
    \/ ClaimWon(m) \/ ClaimLost(m) \/ Confirm(m) \/ Renew(m) \/ Resigned(m)

Process(m) == InitServices(m) \/ Halt(m) \/ Resign(m) \/ Leave(m) \/ Exit(m)

Tracker(m) ==
    \/ Poll(m) \/ SetTimers(m)
    \/ \E e \in Execution : Fire(m, e) \/ Resume(m, e) \/ GiveUp(m, e)

Next ==
    \/ Tick
    \/ \E m \in Main : \/ Boot(m) \/ Stop(m) \/ Crash(m) \/ Cut(m) \/ Relink(m)
                       \/ Protocol(m) \/ Process(m) \/ Tracker(m)

Spec == Init /\ [][Next]_vars

\* Intervals and timers fire, the database and Redis answer, a lost connection is restored or
\* the process ends (retryStrategy), and the steps of a start or a shutdown
\* follow each other. Nobody has to start, stop or lose anything.
Fairness ==
    /\ WF_vars(Tick)
    /\ \A m \in Main : /\ WF_vars(Protocol(m)) /\ WF_vars(Relink(m)) /\ WF_vars(Process(m))
                        /\ WF_vars(Poll(m)) /\ WF_vars(SetTimers(m))
                        /\ \A e \in Execution :
                              /\ WF_vars(Fire(m, e))
                              /\ WF_vars(Resume(m, e) \/ GiveUp(m, e))

FairSpec == Spec /\ Fairness

-----------------------------------------------------------------------------
(* Properties.                                                             *)

Interval == [held : BOOLEAN, leaked : BOOLEAN]

\* The state is well formed, and the key has no life without a holder.
TypeOK ==
    /\ key \in [holder : Main \cup {None}, ttl : 0..Forever]
    /\ (key.holder = None) <=> (key.ttl = 0)
    /\ stage \in [Main -> Stage]
    /\ role \in [Main -> {"unset", "leader", "follower"}]
    /\ pipe \in [Main -> Seq(Command)]
    /\ \A m \in Main : Len(pipe[m]) <= MaxPipe + (IF stage[m] = "resigning" THEN 1 ELSE 0)
    /\ linked \subseteq Main
    /\ tracking \in [Main -> Interval] /\ pruning \in [Main -> Interval]
    /\ polled \in [Main -> SUBSET Execution]
    /\ timer \in [Main -> [Execution -> {"none", "armed", "cleared"}]]
    /\ resuming \in [Main -> [Execution -> Nat]]
    /\ row \in [Execution -> {"waiting", "resumed"}]
    /\ starts \in [Execution -> 0..2] /\ cut \subseteq Main
    /\ crashes \in 0..MaxCrashes /\ stops \in 0..MaxStops /\ cuts \in 0..MaxCuts
    /\ unsure \subseteq Main /\ loose \in BOOLEAN

\* A main that checks for leadership and has heard the answers to all it asked.
Informed(m) == stage[m] \in Checking /\ m \in linked /\ pipe[m] = <<>>

\* A main that has its answers and takes itself for the leader holds the key,
\* unless it was cut off, or robbed of the key by a stale leader, and has not
\* read it since: two leaders last no longer than that (checkLeader,
\* tryBecomeLeader).
LeaderHoldsKey ==
    \A m \in Main : Informed(m) /\ role[m] = "leader" => key.holder = m \/ m \in unsure

\* A main that has its answers and holds the key acts as the leader, unless its
\* connection was lost at some time: then commands sent twice, or two checks
\* answered at once, can make it a follower that renews the key for ever.
HolderLeads ==
    \A m \in Main : Informed(m) /\ key.holder = m => role[m] = "leader" \/ m \in cut

\* A key that will not expire has a holder that is about to give it a time to
\* live, or one that is gone, or one whose connection was lost in between
\* (setIfNotExists and setExpiration are two commands).
KeyExpires ==
    key.ttl = Forever =>
        \/ Contains(pipe[key.holder], "confirm") \/ Contains(pipe[key.holder], "renew")
        \/ stage[key.holder] \in {"lame", "gone"}
        \/ key.holder \in cut

\* Leader, holder and life of the key agree, up to what lost connections,
\* crashes and shutdowns explain.
LeadershipSound == LeaderHoldsKey /\ HolderLeads /\ KeyExpires

\* The states in which nobody becomes leader any more: no main runs, the key
\* remains for ever with a main that is gone, or its holder takes itself for a
\* follower and renews it.
NobodyRuns == \A m \in Main : stage[m] \in {"off", "lame", "gone"}
Orphaned   == key.ttl = Forever /\ stage[key.holder] \in {"lame", "gone"}
Deaf       == key.holder \in cut /\ role[key.holder] = "follower"

Leads(m) == stage[m] \in Checking /\ role[m] = "leader" /\ key.holder = m
OneLeader ==
    \E m \in Main : /\ Leads(m)
                    /\ \A n \in Main \ {m} : stage[n] \in Checking => role[n] # "leader"

\* An execution is resumed twice only if some main was cut off, or a timer was set
\* out of place: by a main that no longer tracks (stopTracking), or for an execution
\* that was resumed, or was being resumed, when the poll's answer came
\* (getWaitingExecutions, startExecution). Nothing else that the mains do lets two
\* timers fire for it: neither that leadership changes, nor that a main stops or
\* crashes.
ResumedOnce == \A e \in Execution : starts[e] > 1 => cut # {} \/ loose

\* The leader has nothing left to resume, or its entry keeps it from it: the timer
\* was cleared.
Served(e) == row[e] # "waiting" \/ \E m \in Main : Leads(m) /\ timer[m][e] = "cleared"

\* Whatever was lost, crashed and stopped: in the end there is exactly one leader
\* for good and it has resumed what waits, or one of the states above explains why
\* not.
LeaderServes ==
    <>[](\/ NobodyRuns \/ Orphaned \/ Deaf
         \/ OneLeader /\ \A e \in Execution : Served(e))

\* What the comment on leader-stepdown says: a follower does not prune.
FollowerDoesNotPrune ==
    \A m \in Main : stage[m] = "up" /\ Informed(m) /\ role[m] = "follower" => ~Ticks(pruning[m])

\* What the comment on leader-takeover says: the leader resumes what waits.
LeaderResumes ==
    \A m \in Main, e \in Execution :
        <>[](Leads(m) /\ stage[m] = "up") => <>(row[e] # "waiting")

\* What the comment on the class says: one of the mains that run is leader.
AlwaysLed == []<>(OneLeader \/ NobodyRuns)
=============================================================================
