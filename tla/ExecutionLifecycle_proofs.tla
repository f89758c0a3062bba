--------------------- MODULE ExecutionLifecycle_proofs ---------------------
(***************************************************************************)
(* Proofs about ExecutionLifecycle: whatever the executions of a main      *)
(* process do, its counter of slots is exact, what they do to the queue is *)
(* what ConcurrencyQueue says, and a stop holds; and, when none waits,     *)
(* slots and entries are given back and a workflow starts once.            *)
(*                                                                         *)
(* The argument goes by what a step does to the queue rather than by       *)
(* the step.  There are four ways: a run Takes a unit (throttle), Gives    *)
(* one back (the promise of a run settles), is dropped from the list       *)
(* (ConcurrencyQueue.remove), or the step LeavesQueue alone.  QueueInv,    *)
(* what is to be known of the list, the counter and the runs, is kept by   *)
(* each of the four, and each is a step of ConcurrencyQueue or a           *)
(* stutter.  What is left is one lemma per action of the process that      *)
(* says which of them it is; Fresh, which says that a run about to begin   *)
(* is not there yet, is needed for that.  A process that is on its way     *)
(* down admits nobody and forgets it all in the end.                       *)
(***************************************************************************)
EXTENDS ExecutionLifecycle, QueueLemmas

RunRecord == [pc : Step, status : {"running", "waiting"},
              attached : 0 .. MaxRuns, promise : {"none", "pending", "settled"},
              response : BOOLEAN, caller : BOOLEAN,
              cut : {"none", "executing", "parking"}]

\* Before its registration in ActiveExecutions nobody awaits the end of a run.
Early == {"none", "queued", "removed", "admitted"}

NotRegistered == \A r \in Runs : run[r].pc \in Early => run[r].promise # "pending"

\* The list holds runs that wait, once each.
QueueIsQueued ==
    /\ \A i \in DOMAIN queue : run[queue[i]].pc = "queued"
    /\ \A i, j \in DOMAIN queue : queue[i] = queue[j] => i = j

\* What is to be started for the first time in this process has no run in it:
\* an execution that has no row yet, or that boot-up found enqueued.
Fresh ==
    /\ \A e \in Execution : db[e].status = "none" =>
          e \notin boot \cup timers \cup polled /\ ~db[e].due
    /\ \A e \in Execution : db[e].status = "none" \/ e \in boot =>
          \A k \in RunNo : run[<<e, k>>].pc = "none"
    /\ CanWait => boot = {}
    /\ ~CanWait => timers = {} /\ polled = {} /\ \A e \in Execution : ~db[e].due

\* A process that is down knows nothing.
Forgotten ==
    /\ run = NoRuns /\ active = NoEntries /\ capacity = Limit /\ queue = <<>>
    /\ timers = {} /\ polled = {} /\ stop = NoStops /\ boot = {}

\* What concerns the queue.
QueueInv ==
    /\ run \in [Runs -> RunRecord] /\ capacity \in Int /\ queue \in Seq(Runs)
    /\ NotRegistered /\ QueueIsQueued /\ SlotAccounting

\* None waits, nor was it cut short on its way to it.
NeverParked == \A r \in Runs : run[r].pc # "parking" /\ run[r].cut # "parking"

IInv ==
    /\ TypeOK /\ QueueInv /\ Fresh
    /\ stage = "down" => Forgotten
    /\ ~CanWait => NeverParked

-----------------------------------------------------------------------------
(* What a step may do to the queue.                                        *)

\* Run r takes a unit, and waits if none was left.
Takes(r) ==
    /\ run[r].pc = "none"
    /\ \A x \in Runs : /\ run'[x].promise = run[x].promise
                       /\ x # r => run'[x].pc = run[x].pc
    /\ \/ /\ Enabled /\ capacity' = capacity - 1 /\ capacity' < 0
          /\ queue' = Append(queue, r) /\ run'[r].pc = "queued"
       \/ /\ Enabled /\ capacity' = capacity - 1 /\ ~(capacity' < 0)
          /\ queue' = queue /\ run'[r].pc = "admitted"
       \/ /\ ~Enabled /\ capacity' = capacity
          /\ queue' = queue /\ run'[r].pc = "admitted"

\* A run that executes nothing and never will: it left the queue, was cancelled, or
\* has its result.
Ended == {"removed", "saved", "refused", "canceling", "canceled", "closing", "over"}

\* A run stays where it is, or was registered before and goes on.
Ahead(R, x) ==
    \/ R[x].pc = run[x].pc
    \/ /\ R[x].pc \notin Early /\ run[x].pc \notin Early
       /\ R[x].pc = "parking" => CanWait
       /\ run[x].pc \in Ended => R[x].pc \in Ended

GoesOn(R, x) == Ahead(R, x) /\ R[x].promise = run[x].promise

\* A run is registered.
Registers(x) ==
    run[x].pc = "admitted" /\ run'[x].pc = "added" /\ run'[x].promise = "pending"

LeavesQueue ==
    /\ capacity' = capacity /\ queue' = queue
    /\ \A x \in Runs : GoesOn(run', x) \/ Registers(x)

\* The promise of run r settles, and the head of the list is let through.
Gives(r) ==
    /\ run[r].promise = "pending" /\ run'[r].promise = "settled"
    /\ \A x \in Runs \ {r} : run'[x].promise = run[x].promise
    /\ IF Enabled
       THEN /\ capacity' = capacity + 1 /\ queue' = Shift(queue)
            /\ \A x \in Runs :
                  IF queue # <<>> /\ x = queue[1]
                  THEN run'[x].pc = "admitted"
                  ELSE Ahead(run', x)
       ELSE /\ capacity' = capacity /\ queue' = queue
            /\ \A x \in Runs : Ahead(run', x)

\* The run at place i is taken out, and the head of what is left let through.
Drops(i) ==
    LET rest == RemoveAt(queue, i) IN
    /\ Enabled /\ capacity' = capacity + 1 /\ queue' = Shift(rest)
    /\ run'[queue[i]].pc = "removed"
    /\ \A x \in Runs \ {queue[i]} :
          IF rest # <<>> /\ x = rest[1] THEN run'[x].pc = "admitted" ELSE run'[x].pc = run[x].pc
    /\ \A x \in Runs : run'[x].promise = run[x].promise

QueueStep ==
    \/ LeavesQueue
    \/ \E r \in Runs : Takes(r) \/ Gives(r)
    \/ \E i \in DOMAIN queue : Drops(i)

-----------------------------------------------------------------------------
(* Facts.                                                                  *)

LEMMA RunsFacts ==
    /\ IsFiniteSet(Runs) /\ 1 \in RunNo /\ Limit \in Nat \ {0}
    /\ \A r \in Runs : r = <<r[1], r[2]>> /\ r[1] \in Execution /\ r[2] \in RunNo
    /\ \A e \in Execution, k \in RunNo : <<e, k>> \in Runs
<1>1. IsFiniteSet(Runs)
  <2>1. IsFiniteSet(RunNo)
    BY BoundsAssumption, FS_Interval DEF RunNo
  <2> QED BY <2>1, ExecutionAssumption, FS_Product DEF Runs
<1> QED BY <1>1, BoundsAssumption, LimitAssumption DEF Runs, RunNo

\* What a shift leaves of a list that is not empty.
LEMMA ShiftFacts ==
    ASSUME NEW S, NEW s \in Seq(S)
    PROVE  /\ Len(s) \in Nat /\ DOMAIN s = 1 .. Len(s) /\ s = <<>> <=> Len(s) = 0
           /\ \A i \in DOMAIN s : s[i] \in S
           /\ Shift(s) \in Seq(S)
           /\ s = <<>> => Shift(s) = <<>>
           /\ s # <<>> => /\ 1 \in DOMAIN s /\ Head(s) = s[1] /\ s[1] \in S
                          /\ Len(Shift(s)) = Len(s) - 1
                          /\ \A j \in 1 .. Len(s) - 1 : Shift(s)[j] = s[j + 1]
<1>1. Len(s) \in Nat /\ DOMAIN s = 1 .. Len(s) /\ (s = <<>> <=> Len(s) = 0)
  BY LenProperties, EmptySeq
<1>2. \A i \in DOMAIN s : s[i] \in S
  BY <1>1, ElementOfSeq
<1>3. s = <<>> => Shift(s) = <<>> /\ Shift(s) \in Seq(S)
  BY DEF Shift
<1>4. ASSUME s # <<>>
      PROVE  /\ 1 \in DOMAIN s /\ Head(s) = s[1] /\ s[1] \in S
             /\ Shift(s) \in Seq(S) /\ Len(Shift(s)) = Len(s) - 1
             /\ \A j \in 1 .. Len(s) - 1 : Shift(s)[j] = s[j + 1]
  <2>1. Head(s) = s[1]
    OBVIOUS
  <2>2. /\ Tail(s) \in Seq(S) /\ Len(Tail(s)) = Len(s) - 1
        /\ \A j \in 1 .. Len(Tail(s)) : Tail(s)[j] = s[j + 1]
    BY <1>4, HeadTailProperties
  <2>3. 1 \in DOMAIN s
    BY <1>1, <1>4
  <2> QED BY <1>2, <1>4, <2>1, <2>2, <2>3 DEF Shift
<1> QED BY <1>1, <1>2, <1>3, <1>4

\* The phases, without the order of the cases.
LEMMA PhaseOf ==
    ASSUME run \in [Runs -> RunRecord], NotRegistered, NEW r \in Runs
    PROVE  /\ QueuePhase(r) = IF run[r].pc = "none" THEN "absent"
                              ELSE IF run[r].pc \in {"queued", "removed"} THEN run[r].pc
                              ELSE IF run[r].pc = "admitted" \/ run[r].promise = "pending" THEN "running"
                              ELSE "finished"
           /\ r \in Holding <=> run[r].pc = "admitted" \/ run[r].promise = "pending"
BY DEF NotRegistered, QueuePhase, Holding, Early, Ahead

\* And after a step.
LEMMA NextPhaseOf ==
    ASSUME run' \in [Runs -> RunRecord], NotRegistered', NEW r \in Runs
    PROVE  QueuePhase(r)' = IF run'[r].pc = "none" THEN "absent"
                            ELSE IF run'[r].pc \in {"queued", "removed"} THEN run'[r].pc
                            ELSE IF run'[r].pc = "admitted" \/ run'[r].promise = "pending" THEN "running"
                            ELSE "finished"
BY DEF NotRegistered, QueuePhase, Holding, Early, Ahead

LEMMA HoldingCounts ==
    /\ Cardinality(Holding) \in Nat
    /\ \A r \in Runs \ Holding : Cardinality(Holding \cup {r}) = Cardinality(Holding) + 1
    /\ \A r \in Holding : Cardinality(Holding \ {r}) = Cardinality(Holding) - 1
    /\ \A r \in Holding, h \in Runs \ Holding :
          Cardinality((Holding \ {r}) \cup {h}) = Cardinality(Holding)
<1>1. Holding \subseteq Runs
  BY DEF Holding
<1> QED BY <1>1, RunsFacts, SubsetCounts

-----------------------------------------------------------------------------
(* The steps keep what concerns the queue.                                 *)

LEMMA TakesInv ==
    ASSUME QueueInv, run' \in [Runs -> RunRecord], NEW r \in Runs, Takes(r), stage' = stage
    PROVE  QueueInv'
<1> USE DEF QueueInv
<1>1. NotRegistered'
  BY DEF NotRegistered, Takes, Early, Ahead
<1>2. /\ Len(queue) \in Nat /\ DOMAIN queue = 1 .. Len(queue)
      /\ \A i \in DOMAIN queue : queue[i] \in Runs /\ queue[i] # r
  BY ShiftFacts DEF QueueIsQueued, Takes
<1>3. CASE Enabled /\ capacity' < 0
  <2>1. run'[r].pc = "queued" /\ capacity' = capacity - 1 /\ queue' = Append(queue, r)
    BY <1>3 DEF Takes
  <2>2. /\ queue' \in Seq(Runs) /\ Len(queue') = Len(queue) + 1
        /\ \A i \in 1 .. Len(queue) : queue'[i] = queue[i]
        /\ queue'[Len(queue) + 1] = r
    BY <2>1, AppendProperties
  <2>3. DOMAIN queue' = 1 .. Len(queue) + 1
    BY <2>2, LenProperties
  <2>4. QueueIsQueued'
    BY <1>2, <2>1, <2>2, <2>3 DEF QueueIsQueued, Takes
  <2>5. Holding' = Holding
    BY <2>1 DEF Holding, Takes
  <2>6. SlotAccounting'
    BY <1>2, <1>3, <2>1, <2>2, <2>5, HoldingCounts, RunsFacts DEF SlotAccounting, Enabled
  <2> QED BY <1>1, <2>1, <2>2, <2>4, <2>6
<1>4. CASE ~(Enabled /\ capacity' < 0)
  <2>1. /\ run'[r].pc = "admitted" /\ queue' = queue
        /\ capacity' = IF Enabled THEN capacity - 1 ELSE capacity
    BY <1>4 DEF Takes
  <2>2. QueueIsQueued'
    BY <1>2, <2>1 DEF QueueIsQueued, Takes
  <2>3. r \notin Holding /\ Holding' = Holding \cup {r}
    BY <2>1 DEF Holding, Takes, NotRegistered, Early, Ahead
  <2>4. Cardinality(Holding') = Cardinality(Holding) + 1
    BY <2>3, HoldingCounts
  <2>5. SlotAccounting'
    BY <1>2, <2>1, <2>4, HoldingCounts, RunsFacts DEF SlotAccounting, Enabled
  <2> QED BY <1>1, <2>1, <2>2, <2>5
<1> QED BY <1>3, <1>4

LEMMA LeavesQueueInv ==
    ASSUME QueueInv, run' \in [Runs -> RunRecord], LeavesQueue, stage' = stage
    PROVE  QueueInv'
<1> USE DEF QueueInv
<1>1. NotRegistered'
  BY DEF NotRegistered, LeavesQueue, GoesOn, Registers, Early, Ahead
<1>2. \A i \in DOMAIN queue : queue[i] \in Runs
  BY ShiftFacts
<1>3. QueueIsQueued'
  BY <1>2 DEF QueueIsQueued, LeavesQueue, GoesOn, Registers, Early, Ahead
<1>4. Holding' = Holding
  BY DEF Holding, LeavesQueue, GoesOn, Registers, Early, Ahead
<1> QED BY <1>1, <1>3, <1>4 DEF SlotAccounting, LeavesQueue, Enabled
\* Who waits is not among those that hold a slot.
LEMMA QueueFacts ==
    ASSUME QueueInv
    PROVE  /\ Len(queue) \in Nat /\ DOMAIN queue = 1 .. Len(queue)
           /\ \A i \in DOMAIN queue :
                 /\ queue[i] \in Runs /\ run[queue[i]].pc = "queued"
                 /\ run[queue[i]].promise # "pending" /\ queue[i] \notin Holding
           /\ \A i, j \in DOMAIN queue : queue[i] = queue[j] => i = j
<1>1. /\ Len(queue) \in Nat /\ DOMAIN queue = 1 .. Len(queue)
      /\ \A i \in DOMAIN queue : queue[i] \in Runs
  BY ShiftFacts DEF QueueInv
<1> QED BY <1>1 DEF QueueInv, QueueIsQueued, NotRegistered, Early, Ahead, Holding

LEMMA GivesInv ==
    ASSUME QueueInv, run' \in [Runs -> RunRecord], NEW r \in Runs, Gives(r), stage' = stage
    PROVE  QueueInv'
<1>0. run \in [Runs -> RunRecord] /\ capacity \in Int /\ queue \in Seq(Runs)
  BY DEF QueueInv
<1>1. r \in Holding /\ run[r].pc \notin Early
  BY DEF Holding, Gives, QueueInv, NotRegistered
<1>2. CASE Enabled /\ queue # <<>>
  <2>1. /\ queue' \in Seq(Runs) /\ Len(queue') = Len(queue) - 1 /\ 1 \in DOMAIN queue
        /\ DOMAIN queue' = 1 .. Len(queue) - 1
        /\ \A j \in 1 .. Len(queue) - 1 : queue'[j] = queue[j + 1]
    BY <1>0, <1>2, ShiftFacts DEF Gives
  <2> DEFINE h == queue[1]
  <2>2. h \in Runs /\ h \notin Holding /\ h # r /\ run[h].pc = "queued" /\ run[h].promise # "pending"
    BY <2>1, <1>1, QueueFacts
  <2>3. /\ run'[h].pc = "admitted" /\ run'[h].promise # "pending"
        /\ \A x \in Runs \ {h} : Ahead(run', x)
    BY <1>2, <2>2 DEF Gives
  <2> HIDE DEF h
  <2>4. NotRegistered'
    BY <1>0, <1>1, <2>2, <2>3 DEF NotRegistered, Gives, Early, Ahead, QueueInv
  <2>5. QueueIsQueued'
    <3>1. \A j \in DOMAIN queue' : j + 1 \in DOMAIN queue /\ queue'[j] = queue[j + 1] /\ queue'[j] # h
      BY <2>1, QueueFacts DEF h
    <3>2. \A j \in DOMAIN queue' : queue'[j] \in Runs \ {h} /\ run[queue'[j]].pc = "queued"
      BY <3>1, QueueFacts
    <3>3. \A j \in DOMAIN queue' : run'[queue'[j]].pc = "queued"
      BY <3>2, <2>3 DEF Early, Ahead
    <3>4. \A i, j \in DOMAIN queue' : queue'[i] = queue'[j] => i = j
      <4> SUFFICES ASSUME NEW i \in DOMAIN queue', NEW j \in DOMAIN queue', queue'[i] = queue'[j]
                   PROVE  i = j
        OBVIOUS
      <4>1. i \in Nat /\ j \in Nat /\ i + 1 = j + 1
        BY <2>1, <3>1, QueueFacts
      <4> QED BY <4>1
    <3> QED BY <3>3, <3>4 DEF QueueIsQueued
  <2>6. Holding' = (Holding \ {r}) \cup {h}
    BY <1>0, <1>1, <2>2, <2>3 DEF Holding, Gives, Early, Ahead
  <2>7. Cardinality(Holding') = Cardinality(Holding)
    BY <1>1, <2>2, <2>6, HoldingCounts
  <2>8. SlotAccounting' /\ capacity' \in Int
    BY <1>0, <1>2, <2>1, <2>7, QueueFacts, HoldingCounts, RunsFacts
    DEF SlotAccounting, QueueInv, Enabled, Gives
  <2> QED BY <2>1, <2>4, <2>5, <2>8 DEF QueueInv
<1>3. CASE ~(Enabled /\ queue # <<>>)
  <2>1. /\ queue' = queue /\ capacity' = IF Enabled THEN capacity + 1 ELSE capacity
        /\ \A x \in Runs : Ahead(run', x)
    BY <1>3 DEF Gives, Shift
  <2>2. NotRegistered'
    BY <1>0, <1>1, <2>1 DEF NotRegistered, Gives, Early, Ahead, QueueInv
  <2>3. QueueIsQueued'
    BY <2>1, QueueFacts DEF QueueIsQueued, Early, Ahead
  <2>4. Holding' = Holding \ {r}
    BY <1>0, <1>1, <2>1 DEF Holding, Gives, Early, Ahead
  <2>5. Cardinality(Holding') = Cardinality(Holding) - 1
    BY <1>1, <2>4, HoldingCounts
  <2>6. SlotAccounting' /\ capacity' \in Int
    <3>1. capacity' \in Int /\ Cardinality(Holding) \in Nat /\ Len(queue) \in Nat /\ Limit \in Nat
      BY <1>0, <2>1, QueueFacts, HoldingCounts, RunsFacts
    <3>2. Enabled' <=> Enabled
      BY DEF Enabled
    <3>3. Enabled => capacity = Limit - Cardinality(Holding) - Len(queue)
      BY DEF SlotAccounting, QueueInv
    <3> QED BY <1>0, <2>1, <2>5, <3>1, <3>2, <3>3 DEF SlotAccounting
  <2> QED BY <1>0, <2>1, <2>2, <2>3, <2>6 DEF QueueInv
<1> QED BY <1>2, <1>3

\* The list without its place i: who is left waits, once, and is not the run
\* that was there.
LEMMA RestFacts ==
    ASSUME QueueInv, NEW i \in DOMAIN queue, NEW rest, rest = RemoveAt(queue, i)
    PROVE  /\ rest \in Seq(Runs) /\ Len(rest) = Len(queue) - 1 /\ DOMAIN rest = 1 .. Len(rest)
           /\ \A j \in DOMAIN rest : rest[j] \in Runs /\ rest[j] # queue[i] /\ rest[j] \notin Holding
                                     /\ run[rest[j]].pc = "queued"
           /\ \A j, k \in DOMAIN rest : rest[j] = rest[k] => j = k
<1>1. /\ rest \in Seq(Runs) /\ Len(rest) = Len(queue) - 1
      /\ \A j \in 1 .. Len(queue) - 1 : rest[j] = IF j < i THEN queue[j] ELSE queue[j + 1]
  BY QueueFacts, RemoveAtProperties DEF QueueInv
<1>2. DOMAIN rest = 1 .. Len(rest)
  BY <1>1, LenProperties
<1> DEFINE old(j) == IF j < i THEN j ELSE j + 1
<1>3. \A j \in DOMAIN rest : old(j) \in DOMAIN queue /\ old(j) # i /\ rest[j] = queue[old(j)]
  BY <1>1, <1>2, QueueFacts
<1>4. \A j, k \in DOMAIN rest : old(j) = old(k) => j = k
  BY <1>1, <1>2, QueueFacts
<1> HIDE DEF old
<1> QED BY <1>1, <1>2, <1>3, <1>4, QueueFacts

LEMMA DropsInv ==
    ASSUME QueueInv, run' \in [Runs -> RunRecord], NEW i \in DOMAIN queue, Drops(i), stage' = stage
    PROVE  QueueInv'
<1>0. run \in [Runs -> RunRecord] /\ capacity \in Int /\ queue \in Seq(Runs)
  BY DEF QueueInv
<1> DEFINE rest == RemoveAt(queue, i)
           r == queue[i]
<1>1. /\ rest \in Seq(Runs) /\ Len(rest) = Len(queue) - 1 /\ DOMAIN rest = 1 .. Len(rest)
      /\ \A j \in DOMAIN rest : rest[j] \in Runs /\ rest[j] # r /\ rest[j] \notin Holding
                                /\ run[rest[j]].pc = "queued"
      /\ \A j, k \in DOMAIN rest : rest[j] = rest[k] => j = k
  BY RestFacts
<1>2. r \in Runs /\ r \notin Holding /\ run[r].pc = "queued" /\ Len(queue) \in Nat
  BY QueueFacts
<1>3. /\ Enabled /\ capacity' = capacity + 1 /\ queue' = Shift(rest)
      /\ run'[r].pc = "removed"
      /\ \A x \in Runs \ {r} :
            IF rest # <<>> /\ x = rest[1] THEN run'[x].pc = "admitted" ELSE run'[x].pc = run[x].pc
      /\ \A x \in Runs : run'[x].promise = run[x].promise
  BY DEF Drops
<1> HIDE DEF rest, r
<1>4. CASE rest # <<>>
  <2>b. /\ queue' \in Seq(Runs) /\ Len(queue') = Len(rest) - 1 /\ 1 \in DOMAIN rest
        /\ \A j \in 1 .. Len(rest) - 1 : queue'[j] = rest[j + 1]
    BY <1>1, <1>3, <1>4, ShiftFacts
  <2>1. /\ queue' \in Seq(Runs) /\ Len(queue') = Len(rest) - 1 /\ 1 \in DOMAIN rest
        /\ DOMAIN queue' = 1 .. Len(rest) - 1
        /\ \A j \in 1 .. Len(rest) - 1 : queue'[j] = rest[j + 1]
    BY <2>b, LenProperties
  <2> DEFINE h == rest[1]
  <2>2. h \in Runs /\ h \notin Holding /\ h # r /\ run[h].pc = "queued"
    BY <2>1, <1>1
  <2>3. /\ run'[h].pc = "admitted"
        /\ \A x \in Runs \ {r, h} : run'[x].pc = run[x].pc
    BY <1>3, <1>4, <2>2
  <2>a. \A j \in DOMAIN queue' : j \in Nat /\ j + 1 \in DOMAIN rest /\ queue'[j] = rest[j + 1] /\ queue'[j] # h
    BY <1>1, <1>2, <2>1 DEF h
  <2> HIDE DEF h
  <2>4. NotRegistered'
    BY <1>0, <1>2, <1>3, <2>2, <2>3 DEF NotRegistered, Early, Ahead, QueueInv
  <2>5. QueueIsQueued'
    <3>2. \A j \in DOMAIN queue' : queue'[j] \in Runs \ {r, h} /\ run[queue'[j]].pc = "queued"
      BY <2>a, <1>1
    <3>3. \A j \in DOMAIN queue' : run'[queue'[j]].pc = "queued"
      BY <3>2, <2>3
    <3>4. \A k, j \in DOMAIN queue' : queue'[k] = queue'[j] => k = j
      <4> SUFFICES ASSUME NEW k \in DOMAIN queue', NEW j \in DOMAIN queue', queue'[k] = queue'[j]
                   PROVE  k = j
        OBVIOUS
      <4>1. k \in Nat /\ j \in Nat /\ k + 1 = j + 1
        BY <2>a, <1>1
      <4> QED BY <4>1
    <3> QED BY <3>3, <3>4 DEF QueueIsQueued
  <2>6. Holding' = Holding \cup {h}
    BY <1>0, <1>2, <1>3, <2>2, <2>3 DEF Holding
  <2>7. Cardinality(Holding') = Cardinality(Holding) + 1
    BY <2>2, <2>6, HoldingCounts
  <2>8. SlotAccounting' /\ capacity' \in Int
    <3>1. Cardinality(Holding) \in Nat /\ Limit \in Nat /\ Len(queue') = Len(queue) - 2
      BY <1>1, <1>2, <2>1, HoldingCounts, RunsFacts
    <3>2. capacity = Limit - Cardinality(Holding) - Len(queue)
      BY <1>3 DEF SlotAccounting, QueueInv
    <3>3. capacity' = capacity + 1
      BY <1>3
    <3>4. capacity' = Limit - Cardinality(Holding') - Len(queue') /\ capacity' \in Int
      <4>1. Len(queue) \in Nat /\ capacity \in Int
        BY <1>0, <1>2
      <4> QED BY <2>7, <3>1, <3>2, <3>3, <4>1
    <3> QED BY <3>4 DEF SlotAccounting
  <2> QED BY <2>1, <2>4, <2>5, <2>8 DEF QueueInv
<1>5. CASE rest = <<>>
  <2>1. queue' = <<>> /\ queue' \in Seq(Runs) /\ Len(queue) = 1 /\ Len(queue') = 0 /\ DOMAIN queue' = {}
    <3>1. queue' = <<>>
      BY <1>3, <1>5 DEF Shift
    <3>2. Len(<<>>) = 0 /\ <<>> \in Seq(Runs) /\ DOMAIN <<>> = {}
      BY EmptySeq
    <3>3. Len(queue) - 1 = 0
      BY <1>1, <1>5, <3>2
    <3> QED BY <1>2, <3>1, <3>2, <3>3
  <2>2. \A x \in Runs \ {r} : run'[x].pc = run[x].pc
    BY <1>3, <1>5
  <2>3. NotRegistered'
    BY <1>0, <1>2, <1>3, <2>2 DEF NotRegistered, Early, Ahead, QueueInv
  <2>4. QueueIsQueued'
    BY <2>1 DEF QueueIsQueued
  <2>5. Holding' = Holding
    BY <1>0, <1>2, <1>3, <2>2 DEF Holding
  <2>6. SlotAccounting' /\ capacity' \in Int
    BY <1>0, <1>3, <2>1, <2>5, HoldingCounts, RunsFacts DEF SlotAccounting, QueueInv, Enabled
  <2> QED BY <2>1, <2>3, <2>4, <2>6 DEF QueueInv
<1> QED BY <1>4, <1>5

\* Any step that leaves the process up, or on its way down.
LEMMA QueueStepInv ==
    ASSUME QueueInv, run' \in [Runs -> RunRecord], QueueStep, stage' = stage
    PROVE  QueueInv'
BY TakesInv, GivesInv, DropsInv, LeavesQueueInv DEF QueueStep

-----------------------------------------------------------------------------
(* And are steps of the queue.                                             *)

\* Who waits, in the terms of the queue.
LEMMA PhasesOfQueue ==
    ASSUME QueueInv
    PROVE  /\ \A i \in DOMAIN queue : queue[i] \in Runs /\ QueuePhase(queue[i]) = "queued"
           /\ \A r \in Runs : run[r].promise = "pending" => QueuePhase(r) = "running"
           /\ \A r \in Runs : run[r].pc = "none" => QueuePhase(r) = "absent"
BY QueueFacts, PhaseOf DEF QueueInv, NotRegistered, Early, Ahead

LEMMA TakesIsEnqueue ==
    ASSUME QueueInv, QueueInv', Enabled, NEW r \in Runs, Takes(r)
    PROVE  Queue!Enqueue(r)
<1>1. \A x \in Runs \ {r} : QueuePhase(x)' = QueuePhase(x)
  BY PhaseOf, NextPhaseOf DEF Takes, QueueInv
<1>2. QueuePhase(r) = "absent" /\ QueuePhase(r)' = IF capacity' < 0 THEN "queued" ELSE "running"
  BY PhaseOf, NextPhaseOf DEF Takes, QueueInv
<1> QED BY <1>1, <1>2 DEF Takes, Queue!Enqueue, Queue!Moved

LEMMA LeavesQueueIsStutter ==
    ASSUME QueueInv, QueueInv', LeavesQueue
    PROVE  UNCHANGED Queue!vars
<1>1. \A x \in Runs : QueuePhase(x)' = QueuePhase(x)
  BY PhaseOf, NextPhaseOf DEF LeavesQueue, GoesOn, Registers, Early, Ahead, QueueInv
<1> QED BY <1>1 DEF LeavesQueue, Queue!vars

LEMMA GivesIsDequeue ==
    ASSUME QueueInv, QueueInv', Enabled, NEW r \in Runs, Gives(r)
    PROVE  Queue!Dequeue(r)
<1>1. QueuePhase(r) = "running" /\ run[r].pc \notin Early
  BY PhasesOfQueue DEF Gives, QueueInv, NotRegistered
<1>2. queue # <<>> => queue[1] \in Runs /\ run[queue[1]].pc = "queued" /\ Head(queue) = queue[1]
  BY QueueFacts, ShiftFacts DEF QueueInv
<1>3. \A x \in Runs :
        QueuePhase(x)' = IF queue # <<>> /\ x = queue[1] THEN "running"
                         ELSE IF x = r THEN "finished" ELSE QueuePhase(x)
  <2> SUFFICES ASSUME NEW x \in Runs
               PROVE  QueuePhase(x)' = IF queue # <<>> /\ x = queue[1] THEN "running"
                                       ELSE IF x = r THEN "finished" ELSE QueuePhase(x)
    OBVIOUS
  <2>1. CASE queue # <<>> /\ x = queue[1]
    BY <2>1, NextPhaseOf DEF Gives, QueueInv
  <2>2. CASE ~(queue # <<>> /\ x = queue[1]) /\ x = r
    BY <1>1, <2>2, NextPhaseOf DEF Gives, QueueInv, Early, Ahead
  <2>3. CASE ~(queue # <<>> /\ x = queue[1]) /\ x # r
    <3>1. /\ run'[x].promise = run[x].promise
          /\ Ahead(run', x)
      BY <2>3 DEF Gives
    <3> QED BY <2>3, <3>1, PhaseOf, NextPhaseOf DEF QueueInv, Early, Ahead
  <2> QED BY <2>1, <2>2, <2>3
<1>4. capacity' = capacity + 1 /\ queue' = Queue!Shift(queue)
  BY DEF Gives, Shift, Queue!Shift
<1>5. Queue!Released(queue) = IF queue = <<>> THEN {} ELSE {queue[1]}
  BY <1>2 DEF Queue!Released
<1>6. [x \in Runs |-> QueuePhase(x)]' = Queue!Moved(r, "finished", Queue!Released(queue))
  BY <1>1, <1>3, <1>5 DEF Queue!Moved
<1> QED BY <1>1, <1>4, <1>6 DEF Queue!Dequeue

LEMMA DropsIsRemove ==
    ASSUME QueueInv, QueueInv', NEW i \in DOMAIN queue, Drops(i)
    PROVE  Queue!RemoveQueued(queue[i])
<1>1. PICK rest : rest = RemoveAt(queue, i)
  OBVIOUS
<1>2. PICK r \in Runs : r = queue[i]
  BY QueueFacts
<1>3. rest \in Seq(Runs) /\ \A j \in DOMAIN rest : rest[j] \in Runs /\ rest[j] # r
  BY <1>1, <1>2, RestFacts
<1>4. rest # <<>> => Head(rest) = rest[1] /\ rest[1] \in Runs /\ rest[1] # r
  BY <1>3, ShiftFacts
<1>5. /\ capacity' = capacity + 1 /\ queue' = Queue!Shift(rest)
      /\ run'[r].pc = "removed"
      /\ \A x \in Runs \ {r} :
            IF rest # <<>> /\ x = rest[1] THEN run'[x].pc = "admitted" ELSE run'[x].pc = run[x].pc
      /\ \A x \in Runs : run'[x].promise = run[x].promise
  BY <1>1, <1>2 DEF Drops, Shift, Queue!Shift
<1>6. \A x \in Runs :
        QueuePhase(x)' = IF rest # <<>> /\ x = rest[1] THEN "running"
                         ELSE IF x = r THEN "removed" ELSE QueuePhase(x)
  <2> SUFFICES ASSUME NEW x \in Runs
               PROVE  QueuePhase(x)' = IF rest # <<>> /\ x = rest[1] THEN "running"
                                       ELSE IF x = r THEN "removed" ELSE QueuePhase(x)
    OBVIOUS
  <2>1. CASE rest # <<>> /\ x = rest[1]
    BY <1>4, <1>5, <2>1, NextPhaseOf DEF QueueInv
  <2>2. CASE ~(rest # <<>> /\ x = rest[1]) /\ x = r
    BY <1>5, <2>2, NextPhaseOf DEF QueueInv
  <2>3. CASE ~(rest # <<>> /\ x = rest[1]) /\ x # r
    BY <1>5, <2>3, PhaseOf, NextPhaseOf DEF QueueInv
  <2> QED BY <2>1, <2>2, <2>3
<1>7. Queue!Released(rest) = IF rest = <<>> THEN {} ELSE {rest[1]}
  BY <1>4 DEF Queue!Released
<1>8. [x \in Runs |-> QueuePhase(x)]' = Queue!Moved(r, "removed", Queue!Released(rest))
  BY <1>4, <1>6, <1>7 DEF Queue!Moved
<1>9. Queue!RemoveAt(queue, i) = rest
  BY <1>1 DEF RemoveAt, Queue!RemoveAt
<1>10. /\ queue[i] = r
       /\ capacity' = capacity + 1 /\ queue' = Queue!Shift(Queue!RemoveAt(queue, i))
       /\ [x \in Runs |-> QueuePhase(x)]' = Queue!Moved(r, "removed", Queue!Released(Queue!RemoveAt(queue, i)))
  BY <1>2, <1>5, <1>8, <1>9
<1> QED BY <1>2, <1>10 DEF Queue!RemoveQueued

LEMMA QueueStepRefines ==
    ASSUME QueueInv, QueueInv', Enabled, QueueStep
    PROVE  [Queue!Next]_(Queue!vars)
<1>1. CASE LeavesQueue
  BY <1>1, LeavesQueueIsStutter
<1>2. ASSUME NEW r \in Runs, Takes(r) \/ Gives(r) PROVE Queue!Next
  BY <1>2, TakesIsEnqueue, GivesIsDequeue DEF Queue!Next
<1>3. ASSUME NEW i \in DOMAIN queue, Drops(i) PROVE Queue!Next
  BY <1>3, DropsIsRemove, QueueFacts DEF Queue!Next
<1> QED BY <1>1, <1>2, <1>3 DEF QueueStep

-----------------------------------------------------------------------------
(* What the actions do to the queue, and to the rest.                      *)

\* Well-typed but for the queue and the runs.
RestOK ==
    /\ db \in [Execution -> [status : DbStatus, due : BOOLEAN]]
    /\ active \in [Execution -> 0 .. MaxRuns]
    /\ timers \subseteq Execution /\ polled \subseteq Execution /\ boot \subseteq Execution
    /\ stop \in [Execution -> {"none", "checked", "before", "during"}]
    /\ stage \in {"up", "stopping", "down"}

\* Only what a run is doing when it is cancelled is cut short.
CutStep == \A x \in Runs : run'[x].cut \in {"none", run[x].cut, run[x].pc}

\* What is shown of each action that leaves the stage as it is.
StepOK == run' \in [Runs -> RunRecord] /\ QueueStep /\ RestOK' /\ Fresh' /\ CutStep

\* And of those that are about a run that is there already.
NoneBegins == \A x \in Runs : run[x].pc = "none" => run'[x].pc = "none"

\* And of those that begin a run of execution e.
OnlyBegins(e) == \A x \in Runs : x[1] # e => run'[x].pc = run[x].pc

\* And of those of run r alone.
OthersStay(r) == \A x \in Runs : x # r => run'[x].pc = run[x].pc

\* What is told from the event log.
LogOK == log \subseteq Execution /\ late \subseteq Execution

LEMMA TypeParts == TypeOK <=> /\ run \in [Runs -> RunRecord] /\ RestOK /\ LogOK
                              /\ capacity \in Int /\ capacity <= Limit /\ queue \in Seq(Runs)
BY DEF TypeOK, RestOK, LogOK, RunRecord

\* Only a run that takes a unit begins to be.
LEMMA NoneStays ==
    ASSUME QueueInv, NEW r \in Runs, run[r].pc = "none",
           \/ LeavesQueue
           \/ \E q \in Runs : Gives(q)
           \/ \E i \in DOMAIN queue : Drops(i)
           \/ \E q \in Runs : Takes(q) /\ q # r
    PROVE  run'[r].pc = "none"
<1>1. CASE LeavesQueue
  BY <1>1 DEF LeavesQueue, GoesOn, Registers, Early, Ahead
<1>2. ASSUME NEW q \in Runs, Gives(q) PROVE run'[r].pc = "none"
  <2>1. queue # <<>> => queue[1] # r
    BY QueueFacts, ShiftFacts DEF QueueInv
  <2> QED BY <1>2, <2>1 DEF Gives, Early, Ahead
<1>3. ASSUME NEW i \in DOMAIN queue, Drops(i) PROVE run'[r].pc = "none"
  <2>1. PICK rest : rest = RemoveAt(queue, i)
    OBVIOUS
  <2>2. rest # <<>> => rest[1] # r
    BY <2>1, RestFacts, ShiftFacts
  <2>3. queue[i] # r
    BY QueueFacts
  <2> QED BY <1>3, <2>1, <2>2, <2>3 DEF Drops
<1>4. ASSUME NEW q \in Runs, Takes(q), q # r PROVE run'[r].pc = "none"
  BY <1>4 DEF Takes
<1> QED BY <1>1, <1>2, <1>3, <1>4

\* A run moves on.
Moves(S, R, r, p) == S = [R EXCEPT ![r].pc = p]

LEMMA RunMoves ==
    ASSUME NEW R \in [Runs -> RunRecord], NEW r \in Runs, NEW p \in Step,
           NEW S, Moves(S, R, r, p)
    PROVE  /\ S \in [Runs -> RunRecord]
           /\ \A x \in Runs : /\ S[x].pc = IF x = r THEN p ELSE R[x].pc
                              /\ S[x].promise = R[x].promise /\ S[x].cut = R[x].cut
                              /\ S[x].status = R[x].status /\ S[x].attached = R[x].attached
<1>1. R[r] \in RunRecord
  OBVIOUS
<1>2. PICK y \in RunRecord : y = [R[r] EXCEPT !.pc = p]
  BY <1>1 DEF RunRecord
<1>3. /\ y.pc = p /\ y.promise = R[r].promise /\ y.cut = R[r].cut
      /\ y.status = R[r].status /\ y.attached = R[r].attached
  BY <1>1, <1>2 DEF RunRecord
<1>4. S = [R EXCEPT ![r] = y]
  BY <1>2 DEF Moves
<1>5. S \in [Runs -> RunRecord]
  BY <1>4
<1>6. \A x \in Runs : S[x] = IF x = r THEN y ELSE R[x]
  BY <1>4
<1> QED BY <1>3, <1>5, <1>6

LEMMA MovedRun ==
    ASSUME NEW R \in [Runs -> RunRecord], NEW r \in Runs, NEW p \in Step
    PROVE  [R EXCEPT ![r].pc = p] \in [Runs -> RunRecord]
<1>1. PICK S : S = [R EXCEPT ![r].pc = p]
  OBVIOUS
<1>2. Moves(S, R, r, p)
  BY <1>1 DEF Moves
<1> QED BY <1>1, <1>2, RunMoves

\* A run is cancelled, or was over before that.
LEMMA CanceledRun ==
    ASSUME NEW R \in [Runs -> RunRecord], NEW a \in Runs
    PROVE  /\ Canceled(R, a) \in [Runs -> RunRecord]
           /\ \A x \in Runs :
                 /\ Canceled(R, a)[x].pc =
                       IF x = a /\ R[a].pc \in {"executing", "parking", "saved"}
                       THEN "canceling" ELSE R[x].pc
                 /\ Canceled(R, a)[x].promise = R[x].promise
                 /\ Canceled(R, a)[x].cut \in {"none", R[x].cut, R[x].pc}
                 /\ Canceled(R, a)[x].status = R[x].status
                 /\ Canceled(R, a)[x].attached = R[x].attached
<1>1. CASE R[a].pc \notin {"executing", "parking", "saved"}
  BY <1>1 DEF Canceled
<1>2. CASE R[a].pc \in {"executing", "parking", "saved"}
  <2>1. PICK c \in {"none", "executing", "parking"} :
          c = IF R[a].pc = "saved" THEN "none" ELSE R[a].pc
    BY <1>2
  <2>2. Canceled(R, a) = [R EXCEPT ![a].pc = "canceling", ![a].cut = c]
    BY <1>2, <2>1 DEF Canceled
  <2>3. PICK y \in RunRecord : y = [R[a] EXCEPT !.pc = "canceling", !.cut = c]
    <3>1. R[a] \in RunRecord /\ "canceling" \in Step
      BY DEF Step
    <3> QED BY <2>1, <3>1 DEF RunRecord
  <2>4. /\ y.pc = "canceling" /\ y.promise = R[a].promise /\ y.cut \in {"none", R[a].pc}
        /\ y.status = R[a].status /\ y.attached = R[a].attached
    BY <2>1, <2>3 DEF RunRecord
  <2>5. Canceled(R, a) = [R EXCEPT ![a] = y]
    BY <2>2, <2>3
  <2>6. Canceled(R, a) \in [Runs -> RunRecord]
        /\ \A x \in Runs : Canceled(R, a)[x] = IF x = a THEN y ELSE R[x]
    BY <2>5
  <2> QED BY <1>2, <2>4, <2>6
<1> QED BY <1>1, <1>2

\* throttle.
LEMMA ThrottleTakes ==
    ASSUME run \in [Runs -> RunRecord], NEW r \in Runs, run[r].pc = "none", NEW logged,
           NEW R \in [Runs -> RunRecord], ThrottleRun(R, r, logged),
           \A x \in Runs : R[x].pc = run[x].pc /\ R[x].promise = run[x].promise
    PROVE  run' \in [Runs -> RunRecord] /\ Takes(r) /\ \A x \in Runs : run'[x].cut = R[x].cut
<1>1. PICK p \in {"queued", "admitted"} :
        /\ Moves(run', R, r, p)
        /\ \/ /\ Enabled /\ capacity' = capacity - 1 /\ capacity' < 0
              /\ queue' = Append(queue, r) /\ p = "queued"
           \/ /\ Enabled /\ capacity' = capacity - 1 /\ ~(capacity' < 0)
              /\ queue' = queue /\ p = "admitted"
           \/ /\ ~Enabled /\ capacity' = capacity
              /\ queue' = queue /\ p = "admitted"
  BY DEF ThrottleRun, Moves
<1>2. /\ run' \in [Runs -> RunRecord]
      /\ \A x \in Runs : /\ run'[x].pc = IF x = r THEN p ELSE R[x].pc
                         /\ run'[x].promise = R[x].promise /\ run'[x].cut = R[x].cut
  BY <1>1, RunMoves DEF Step
<1>3. /\ run'[r].pc = p
      /\ \A x \in Runs :
            run'[x].promise = run[x].promise /\ (x # r => run'[x].pc = run[x].pc)
  BY <1>2
<1> QED BY <1>1, <1>2, <1>3 DEF Takes

\* The `.finally' of a promise.
LEMMA SettleGives ==
    ASSUME QueueInv, RestOK, NEW R \in [Runs -> RunRecord], \A x \in Runs : GoesOn(R, x),
           NEW q \in Runs, SettlePromise(R, q)
    PROVE  /\ run' \in [Runs -> RunRecord] /\ (LeavesQueue \/ Gives(q))
           /\ active' \in [Execution -> 0 .. MaxRuns]
           /\ \A x \in Runs : run'[x].cut = R[x].cut
<1>1. CASE R[q].promise # "pending"
  BY <1>1 DEF SettlePromise, LeavesQueue, RestOK
<1>2. CASE R[q].promise = "pending"
  <2> DEFINE S == [R EXCEPT ![q].promise = "settled"]
  <2>1. /\ S \in [Runs -> RunRecord] /\ S[q].promise = "settled"
        /\ \A x \in Runs : /\ S[x].pc = R[x].pc /\ S[x].cut = R[x].cut
                           /\ x # q => S[x].promise = R[x].promise
    BY DEF RunRecord
  <2>2. ReleaseSlot(S)
    BY <1>2 DEF SettlePromise
  <2>3. active' \in [Execution -> 0 .. MaxRuns]
    BY <1>2, RunsFacts, BoundsAssumption DEF SettlePromise, RestOK
  <2>4. run[q].promise = "pending"
    BY <1>2 DEF GoesOn, Ahead
  <2> HIDE DEF S
  <2>5. CASE Enabled /\ queue # <<>>
    <3>1. queue[1] \in Runs /\ Head(queue) = queue[1]
      BY <2>5, ShiftFacts DEF QueueInv
    <3>2. /\ capacity' = capacity + 1 /\ queue' = Shift(queue)
          /\ Moves(run', S, queue[1], "admitted")
      BY <2>2, <2>5, <3>1 DEF ReleaseSlot, Admit, Moves
    <3>3. /\ run' \in [Runs -> RunRecord]
          /\ \A x \in Runs : /\ run'[x].pc = IF x = queue[1] THEN "admitted" ELSE S[x].pc
                             /\ run'[x].promise = S[x].promise /\ run'[x].cut = S[x].cut
      BY <2>1, <3>1, <3>2, RunMoves DEF Step
    <3>4. \A x \in Runs : /\ x # q => run'[x].promise = run[x].promise
                          /\ x # queue[1] => run'[x].pc = R[x].pc
      BY <2>1, <3>3 DEF GoesOn
    <3>5. run'[q].promise = "settled" /\ run'[queue[1]].pc = "admitted"
      BY <2>1, <3>1, <3>3
    <3>6. ASSUME NEW x \in Runs, x # queue[1] PROVE Ahead(run', x)
      <4>1. Ahead(R, x) /\ run'[x].pc = R[x].pc
        BY <3>4, <3>6 DEF GoesOn
      <4> QED BY <4>1 DEF Ahead
    <3>7. \A x \in Runs : IF queue # <<>> /\ x = queue[1] THEN run'[x].pc = "admitted" ELSE Ahead(run', x)
      <4> SUFFICES ASSUME NEW x \in Runs
                   PROVE  IF queue # <<>> /\ x = queue[1] THEN run'[x].pc = "admitted" ELSE Ahead(run', x)
        OBVIOUS
      <4>1. CASE x = queue[1]
        BY <2>5, <3>5, <4>1
      <4>2. CASE x # queue[1]
        BY <3>6, <4>2
      <4> QED BY <4>1, <4>2
    <3>8. \A x \in Runs \ {q} : run'[x].promise = run[x].promise
      BY <3>4
    <3> QED BY <2>1, <2>3, <2>4, <2>5, <3>2, <3>3, <3>5, <3>7, <3>8 DEF Gives
  <2>6. CASE ~(Enabled /\ queue # <<>>)
    <3>1. run' = S /\ IF Enabled THEN capacity' = capacity + 1 /\ queue' = Shift(queue)
                                 ELSE capacity' = capacity /\ queue' = queue
      BY <2>2, <2>6 DEF ReleaseSlot, Admit
    <3> QED BY <2>1, <2>3, <2>4, <2>6, <3>1 DEF Gives, GoesOn, Ahead
  <2> QED BY <2>5, <2>6
<1> QED BY <1>1, <1>2

\* stopExecution.
LEMMA StopActiveGives ==
    ASSUME QueueInv, RestOK, NEW e \in Execution, StopActive(e)
    PROVE  /\ run' \in [Runs -> RunRecord] /\ (LeavesQueue \/ \E q \in Runs : Gives(q))
           /\ active' \in [Execution -> 0 .. MaxRuns] /\ CutStep
<1>1. CASE active[e] = 0
  BY <1>1 DEF StopActive, LeavesQueue, GoesOn, Ahead, RestOK, QueueInv, CutStep
<1>2. CASE active[e] # 0
  <2>0. active[e] \in RunNo
    BY <1>2, BoundsAssumption DEF RestOK, RunNo
  <2>1. PICK r \in Runs : r = <<e, active[e]>>
    BY <2>0 DEF Runs
  <2>2. CASE run[r].status = "waiting"
    <3>1. active' = [active EXCEPT ![e] = 0] /\ UNCHANGED <<run, capacity, queue>>
      BY <1>2, <2>1, <2>2 DEF StopActive
    <3> QED BY <3>1, BoundsAssumption DEF LeavesQueue, GoesOn, Ahead, RestOK, QueueInv, CutStep
  <2>3. CASE run[r].status # "waiting"
    <3>1. SettlePromise(CancelAttached(run, r), r)
      BY <1>2, <2>1, <2>3 DEF StopActive
    <3>2. CancelAttached(run, r) \in [Runs -> RunRecord]
          /\ \A x \in Runs : /\ GoesOn(CancelAttached(run, r), x)
                             /\ CancelAttached(run, r)[x].cut \in {"none", run[x].cut, run[x].pc}
      <4>1. CASE run[r].attached = 0
        BY <4>1 DEF CancelAttached, GoesOn, Ahead, QueueInv
      <4>2. CASE run[r].attached # 0
        <5>0. run[r].attached \in RunNo
          BY <4>2, BoundsAssumption DEF QueueInv, RunRecord, RunNo
        <5>1. PICK a \in Runs : a = <<r[1], run[r].attached>>
          BY <5>0, RunsFacts DEF Runs
        <5>2. CancelAttached(run, r) = Canceled(run, a)
          BY <4>2, <5>1 DEF CancelAttached
        <5> QED BY <5>2, CanceledRun DEF GoesOn, Early, Ended, Ahead, QueueInv
      <4> QED BY <4>1, <4>2
    <3> QED BY <3>1, <3>2, SettleGives DEF CutStep
  <2> QED BY <2>2, <2>3
<1> QED BY <1>1, <1>2

\* A new execution, one found enqueued, one that waited: each takes a unit for a
\* run that was not there.
LEMMA StartNewStep ==
    ASSUME RestOK, QueueInv, Fresh, NEW e \in Execution, StartNew(e)
    PROVE  StepOK /\ OnlyBegins(e)
<1>1. PICK r \in Runs : r = <<e, 1>>
  BY RunsFacts
<1>2. run[r].pc = "none"
  BY <1>1, RunsFacts DEF Fresh, StartNew
<1> DEFINE R == [run EXCEPT ![r].caller = e \in WithResponse]
<1>a. PICK b \in BOOLEAN : b = (e \in WithResponse)
  <2>1. CASE e \in WithResponse
    <3>1. TRUE = (e \in WithResponse)
      BY <2>1
    <3> QED BY <3>1
  <2>2. CASE e \notin WithResponse
    <3>1. FALSE = (e \in WithResponse)
      BY <2>2
    <3> QED BY <3>1
  <2> QED BY <2>1, <2>2
<1>b. R = [run EXCEPT ![r].caller = b]
  BY <1>a
<1>3. /\ R \in [Runs -> RunRecord]
      /\ \A x \in Runs : /\ R[x].pc = run[x].pc /\ R[x].promise = run[x].promise
                         /\ R[x].cut = run[x].cut
  <2> HIDE DEF R
  <2> QED BY <1>b DEF QueueInv, RunRecord
<1>4. ThrottleRun(R, r, log)
  BY <1>1 DEF StartNew
<1> HIDE DEF R
<1>5. run' \in [Runs -> RunRecord] /\ Takes(r) /\ CutStep
  BY <1>2, <1>3, <1>4, ThrottleTakes DEF QueueInv, CutStep
<1>6. RestOK'
  BY DEF RestOK, StartNew, DbStatus
<1>7. \A x \in Runs : x # r /\ run[x].pc = "none" => run'[x].pc = "none"
  BY <1>5, NoneStays
<1>8. Fresh'
  BY <1>1, <1>7, RunsFacts DEF Fresh, StartNew, RestOK
<1>9. OnlyBegins(e)
  BY <1>1, <1>5 DEF Takes, OnlyBegins
<1> QED BY <1>5, <1>6, <1>8, <1>9 DEF StepOK, QueueStep

LEMMA RunEnqueuedStep ==
    ASSUME RestOK, QueueInv, Fresh, NEW e \in Execution, RunEnqueued(e)
    PROVE  StepOK /\ OnlyBegins(e)
<1>1. PICK r \in Runs : r = <<e, 1>>
  BY RunsFacts
<1>2. run[r].pc = "none"
  BY <1>1, RunsFacts DEF Fresh, RunEnqueued
<1>3. run' \in [Runs -> RunRecord] /\ Takes(r) /\ CutStep
  BY <1>1, <1>2, ThrottleTakes DEF QueueInv, RunEnqueued, CutStep
<1>4. RestOK'
  BY DEF RestOK, RunEnqueued
<1>5. \A x \in Runs : x # r /\ run[x].pc = "none" => run'[x].pc = "none"
  BY <1>3, NoneStays
<1>6. Fresh'
  BY <1>1, <1>5, RunsFacts DEF Fresh, RunEnqueued, RestOK
<1>7. OnlyBegins(e)
  BY <1>1, <1>3 DEF Takes, OnlyBegins
<1> QED BY <1>3, <1>4, <1>6, <1>7 DEF StepOK, QueueStep

LEMMA ResumeStep ==
    ASSUME RestOK, QueueInv, Fresh, NEW e \in Execution, Resume(e)
    PROVE  StepOK /\ OnlyBegins(e)
<1>1. PICK k \in RunNo :
        /\ IsNext(<<e, k>>)
        /\ IF db[e].status = "success"
           THEN UNCHANGED <<run, capacity, queue>>
           ELSE ThrottleRun(run, <<e, k>>, log)
  BY DEF Resume
<1>2. PICK r \in Runs : r = <<e, k>>
  BY RunsFacts
<1>3. run[r].pc = "none"
  BY <1>1, <1>2 DEF IsNext
<1>4. RestOK'
  BY DEF RestOK, Resume
<1>5. e \in timers /\ CanWait /\ boot = {} /\ db[e].status # "none"
  BY DEF Resume, Fresh
<1>6. CASE db[e].status = "success"
  <2>1. LeavesQueue
    BY <1>1, <1>6 DEF LeavesQueue, GoesOn, Ahead
  <2>2. Fresh'
    BY <1>1, <1>5, <1>6 DEF Fresh, Resume
  <2> QED BY <1>1, <1>4, <1>6, <2>1, <2>2 DEF StepOK, QueueStep, QueueInv, OnlyBegins, CutStep
<1>7. CASE db[e].status # "success"
  <2>1. run' \in [Runs -> RunRecord] /\ Takes(r) /\ CutStep
    BY <1>1, <1>2, <1>3, <1>7, ThrottleTakes DEF QueueInv, CutStep
  <2>2. \A x \in Runs : x # r /\ run[x].pc = "none" => run'[x].pc = "none"
    BY <2>1, NoneStays
  <2>3. Fresh'
    BY <1>2, <1>5, <2>2, RunsFacts DEF Fresh, Resume, RestOK
  <2>4. OnlyBegins(e)
    BY <1>2, <2>1 DEF Takes, OnlyBegins
  <2> QED BY <1>4, <2>1, <2>3, <2>4 DEF StepOK, QueueStep
<1> QED BY <1>6, <1>7

\* The steps of a run that do not settle a promise.
LEMMA AddStep ==
    ASSUME RestOK, QueueInv, Fresh, NEW r \in Runs, Add(r)
    PROVE  StepOK /\ NoneBegins /\ OthersStay(r)
<1>1. r = <<r[1], r[2]>> /\ r[1] \in Execution /\ r[2] \in RunNo
  BY RunsFacts
<1> DEFINE response == active[r[1]] # 0 /\ run[<<r[1], active[r[1]]>>].response
           added == [NoRun EXCEPT !.pc = "added", !.promise = "pending",
                                  !.caller = run[r].caller, !.response = response]
<1>2. response \in BOOLEAN
  <2>1. CASE active[r[1]] = 0
    BY <2>1
  <2>2. CASE active[r[1]] # 0
    <3>1. active[r[1]] \in RunNo
      BY <1>1, <2>2, BoundsAssumption DEF RestOK, RunNo
    <3>2. <<r[1], active[r[1]]>> \in Runs
      BY <1>1, <3>1, RunsFacts
    <3> QED BY <3>2 DEF QueueInv, RunRecord
  <2> QED BY <2>1, <2>2
<1>3. run' = [run EXCEPT ![r] = added] /\ run[r].pc = "admitted" /\ run[r].caller \in BOOLEAN
  BY DEF Add, QueueInv, RunRecord
<1> HIDE DEF response
<1>4. added \in RunRecord /\ added.pc = "added" /\ added.promise = "pending" /\ added.cut = "none"
  <2>1. NoRun \in RunRecord /\ NoRun.cut = "none"
    BY BoundsAssumption DEF NoRun, RunRecord, Step
  <2> QED BY <1>2, <1>3, <2>1 DEF RunRecord, Step
<1> HIDE DEF added
<1>5. run' \in [Runs -> RunRecord] /\ CutStep
  BY <1>3, <1>4 DEF QueueInv, CutStep
<1>6. LeavesQueue
  BY <1>3, <1>4 DEF LeavesQueue, GoesOn, Ahead, Registers, Add, QueueInv
<1>7. RestOK'
  BY <1>1, BoundsAssumption DEF RestOK, Add, DbStatus, RunNo
<1>8. Fresh'
  BY <1>1, <1>3 DEF Fresh, Add, RestOK
<1>9. OthersStay(r)
  BY <1>3 DEF OthersStay, QueueInv
<1> QED BY <1>5, <1>6, <1>7, <1>8, <1>9, NoneStays DEF NoneBegins, StepOK, QueueStep

LEMMA CheckPassesStep ==
    ASSUME RestOK, QueueInv, Fresh, NEW r \in Runs, CheckPasses(r)
    PROVE  StepOK /\ NoneBegins /\ OthersStay(r)
<1>1. PICK p \in {"checked", "over"} :
        /\ run' \in [Runs -> RunRecord]
        /\ \A x \in Runs : /\ run'[x].pc = IF x = r THEN p ELSE run[x].pc
                           /\ run'[x].promise = run[x].promise /\ run'[x].cut = run[x].cut
  <2>1. CASE ~run[r].caller
    <3>1. Moves(run', run, r, "checked")
      BY <2>1 DEF Moves, CheckPasses
    <3> QED BY <3>1, RunMoves DEF QueueInv, Step
  <2>2. CASE run[r].caller /\ active[r[1]] = 0
    <3>1. Moves(run', run, r, "over")
      BY <2>2 DEF Moves, CheckPasses
    <3> QED BY <3>1, RunMoves DEF QueueInv, Step
  <2>3. CASE run[r].caller /\ active[r[1]] # 0
    <3>1. PICK q \in Runs : q = <<r[1], active[r[1]]>>
      <4>1. active[r[1]] \in RunNo
        BY <2>3, RunsFacts, BoundsAssumption DEF RestOK, RunNo
      <4> QED BY <4>1, RunsFacts
    <3>a. PICK R \in [Runs -> RunRecord] : R = [run EXCEPT ![r].pc = "checked"]
      BY MovedRun DEF QueueInv, Step
    <3>2. run' = [R EXCEPT ![q].response = TRUE]
      BY <2>3, <3>1, <3>a DEF CheckPasses
    <3>3. \A x \in Runs : /\ R[x].pc = IF x = r THEN "checked" ELSE run[x].pc
                          /\ R[x].promise = run[x].promise /\ R[x].cut = run[x].cut
      BY <3>a DEF QueueInv, RunRecord, Step
    <3>4. /\ run' \in [Runs -> RunRecord]
          /\ \A x \in Runs : /\ run'[x].pc = R[x].pc /\ run'[x].promise = R[x].promise
                             /\ run'[x].cut = R[x].cut
      BY <3>2 DEF RunRecord
    <3> QED BY <3>3, <3>4
  <2> QED BY <2>1, <2>2, <2>3
<1>2. run[r].pc = "added"
  BY DEF CheckPasses
<1>3. LeavesQueue
  <2>1. capacity' = capacity /\ queue' = queue
    BY DEF CheckPasses
  <2>2. ASSUME NEW x \in Runs PROVE GoesOn(run', x)
    BY <1>1, <1>2 DEF GoesOn, Early, Ended, Ahead
  <2> QED BY <2>1, <2>2 DEF LeavesQueue
<1>4. RestOK' /\ Fresh'
  <2>1. UNCHANGED <<db, active, timers, polled, stop, boot, stage>>
    BY DEF CheckPasses
  <2>2. \A x \in Runs : run[x].pc = "none" => run'[x].pc = "none"
    BY <1>1, <1>2
  <2>3. RestOK'
    BY <2>1 DEF RestOK
  <2> QED BY <2>1, <2>2, <2>3, RunsFacts DEF Fresh
<1> QED BY <1>1, <1>3, <1>4, NoneStays DEF NoneBegins, OthersStay, StepOK, QueueStep, CutStep

LEMMA CheckFailsStep ==
    ASSUME RestOK, QueueInv, Fresh, NEW r \in Runs, CheckFails(r)
    PROVE  StepOK /\ NoneBegins /\ OthersStay(r)
<1>1. /\ run[r].pc = "added" /\ run' \in [Runs -> RunRecord]
      /\ \A x \in Runs : /\ run'[x].pc = IF x = r THEN "refused" ELSE run[x].pc
                         /\ run'[x].promise = run[x].promise /\ run'[x].cut = run[x].cut
  <2>1. Moves(run', run, r, "refused") /\ run[r].pc = "added"
    BY DEF CheckFails, Moves
  <2> QED BY <2>1, RunMoves DEF QueueInv, Step
<1>2. LeavesQueue
  BY <1>1 DEF LeavesQueue, GoesOn, CheckFails, Early, Ended, Ahead
<1>3. RestOK'
  BY RunsFacts DEF RestOK, CheckFails, DbStatus
<1>4. Fresh'
  BY <1>1, RunsFacts DEF RestOK, Fresh, CheckFails
<1> QED BY <1>1, <1>2, <1>3, <1>4, NoneStays DEF NoneBegins, OthersStay, StepOK, QueueStep, CutStep

LEMMA BeginStep ==
    ASSUME RestOK, QueueInv, Fresh, NEW r \in Runs, Begin(r)
    PROVE  /\ StepOK /\ NoneBegins /\ OthersStay(r)
           /\ run'[r].pc \in {"executing", "stray"}
<1>1. PICK p \in {"stray", "executing"} :
        /\ run' \in [Runs -> RunRecord]
        /\ \A x \in Runs : /\ run'[x].pc = IF x = r THEN p ELSE run[x].pc
                           /\ run'[x].promise = run[x].promise /\ run'[x].cut = run[x].cut
  <2>1. CASE active[r[1]] = 0
    <3>1. Moves(run', run, r, "stray")
      BY <2>1 DEF Moves, Begin
    <3> QED BY <3>1, RunMoves DEF QueueInv, Step
  <2>2. CASE active[r[1]] # 0
    <3>1. PICK q \in Runs : q = <<r[1], active[r[1]]>>
      <4>1. active[r[1]] \in RunNo
        BY <2>2, RunsFacts, BoundsAssumption DEF RestOK, RunNo
      <4> QED BY <4>1, RunsFacts
    <3>a. PICK R \in [Runs -> RunRecord] : R = [run EXCEPT ![r].pc = "executing"]
      BY MovedRun DEF QueueInv, Step
    <3>2. run' = [R EXCEPT ![q].attached = r[2]]
      BY <2>2, <3>1, <3>a DEF Begin
    <3>3. r[2] \in 0 .. MaxRuns
      BY RunsFacts, BoundsAssumption DEF RunNo
    <3>4. \A x \in Runs : /\ R[x].pc = IF x = r THEN "executing" ELSE run[x].pc
                          /\ R[x].promise = run[x].promise /\ R[x].cut = run[x].cut
      BY <3>a DEF QueueInv, RunRecord, Step
    <3>5. /\ run' \in [Runs -> RunRecord]
          /\ \A x \in Runs : /\ run'[x].pc = R[x].pc /\ run'[x].promise = R[x].promise
                             /\ run'[x].cut = R[x].cut
      BY <3>2, <3>3 DEF RunRecord
    <3> QED BY <3>4, <3>5
  <2> QED BY <2>1, <2>2
<1>2. run[r].pc = "checked"
  BY DEF Begin
<1>3. LeavesQueue
  BY <1>1, <1>2 DEF LeavesQueue, GoesOn, Begin, Early, Ended, Ahead
<1>4. RestOK'
  BY RunsFacts DEF RestOK, Begin, DbStatus
<1>5. Fresh'
  <2>1. \A x \in Runs : run[x].pc = "none" => run'[x].pc = "none"
    BY <1>1, <1>2
  <2>2. r[1] \notin boot /\ db[r[1]].status # "none"
    BY <1>2, RunsFacts DEF Fresh
  <2>3. db' = [db EXCEPT ![r[1]].status = "running"]
    BY DEF Begin
  <2>4. \A e \in Execution :
          /\ db'[e].status = "none" <=> db[e].status = "none"
          /\ db'[e].due = db[e].due
    BY <2>2, <2>3, RunsFacts DEF RestOK, DbStatus
  <2> QED BY <2>1, <2>4, RunsFacts DEF Fresh, Begin
<1> QED BY <1>1, <1>3, <1>4, <1>5, NoneStays DEF NoneBegins, OthersStay, StepOK, QueueStep, CutStep

LEMMA PutToWaitStep ==
    ASSUME RestOK, QueueInv, Fresh, NEW r \in Runs, PutToWait(r)
    PROVE  StepOK /\ NoneBegins
<1>1. PICK q \in Runs : q = <<r[1], active[r[1]]>>
  <2>1. active[r[1]] \in RunNo
    BY RunsFacts, BoundsAssumption DEF RestOK, RunNo, PutToWait
  <2> QED BY <2>1, RunsFacts
<1>b. PICK R \in [Runs -> RunRecord] : R = [run EXCEPT ![r].pc = "parking"]
  BY DEF QueueInv, RunRecord, Step
<1>2. run' = [R EXCEPT ![q].status = "waiting"] /\ run[r].pc = "executing" /\ CanWait
  BY <1>1, <1>b DEF PutToWait
<1>a. \A x \in Runs : /\ R[x].pc = IF x = r THEN "parking" ELSE run[x].pc
                      /\ R[x].promise = run[x].promise /\ R[x].cut = run[x].cut
  BY <1>b DEF QueueInv, RunRecord, Step
<1>3. /\ run' \in [Runs -> RunRecord]
      /\ \A x \in Runs : /\ run'[x].pc = IF x = r THEN "parking" ELSE run[x].pc
                         /\ run'[x].promise = run[x].promise /\ run'[x].cut = run[x].cut
  <2>1. /\ run' \in [Runs -> RunRecord]
        /\ \A x \in Runs : /\ run'[x].pc = R[x].pc /\ run'[x].promise = R[x].promise
                           /\ run'[x].cut = R[x].cut
    BY <1>2 DEF RunRecord
  <2> QED BY <1>a, <2>1
<1>4. LeavesQueue
  BY <1>2, <1>3 DEF LeavesQueue, GoesOn, PutToWait, Early, Ended, Ahead
<1>5. RestOK'
  BY DEF RestOK, PutToWait
<1>6. Fresh'
  <2>1. \A x \in Runs : run[x].pc = "none" => run'[x].pc = "none"
    BY <1>2, <1>3
  <2> QED BY <2>1, RunsFacts DEF Fresh, PutToWait
<1> QED BY <1>3, <1>4, <1>5, <1>6, NoneStays DEF NoneBegins, StepOK, QueueStep, CutStep

\* What is written of a run that ends or waits, and of a run that goes on.
LEMMA SavedRowIs ==
    ASSUME NEW row \in [status : DbStatus, due : BOOLEAN], NEW was,
           NEW new \in SavedRow(row, was)
    PROVE  \E s \in {"success", "error", "waiting"}, d \in BOOLEAN :
              /\ new = [status |-> s, due |-> d] /\ s \in DbStatus \ {"none"}
              /\ d = row.due \/ was = "parking"
<1>1. CASE was = "parking"
  BY <1>1 DEF SavedRow, DbStatus
<1>2. CASE was # "parking"
  <2>1. PICK s \in Outcome : new = [row EXCEPT !.status = s]
    BY <1>2 DEF SavedRow
  <2>2. [row EXCEPT !.status = s] = [status |-> s, due |-> row.due]
    OBVIOUS
  <2> QED BY <2>1, <2>2, BoundsAssumption DEF DbStatus
<1> QED BY <1>1, <1>2

LEMMA ProgressRowIs ==
    ASSUME NEW row \in [status : DbStatus, due : BOOLEAN]
    PROVE  /\ ProgressRow(row) \in [status : DbStatus, due : BOOLEAN]
           /\ ProgressRow(row).due = row.due
           /\ ProgressRow(row).status \in {row.status, "running"}
           /\ row.status = "running" => ProgressRow(row) = row
<1>1. CASE row.status = "success"
  BY <1>1 DEF ProgressRow
<1>2. CASE row.status # "success"
  <2>1. ProgressRow(row) = [status |-> "running", due |-> row.due]
    BY <1>2 DEF ProgressRow
  <2> QED BY <2>1 DEF DbStatus
<1> QED BY <1>1, <1>2

LEMMA SaveProgressStep ==
    ASSUME RestOK, QueueInv, Fresh, NEW r \in Runs, SaveProgress(r)
    PROVE  StepOK /\ NoneBegins
<1>1. UNCHANGED <<run, active, capacity, queue, timers, polled, stop, boot, stage>>
  BY DEF SaveProgress, history
<1>2. /\ db' = [db EXCEPT ![r[1]] = ProgressRow(db[r[1]])] /\ r[1] \in Execution
      /\ run[r].pc \in {"executing", "stray", "parking"}
  BY RunsFacts DEF SaveProgress, Executing
<1>3. LeavesQueue
  BY <1>1 DEF LeavesQueue, GoesOn, Ahead, QueueInv
<1>4. RestOK'
  BY <1>1, <1>2, ProgressRowIs DEF RestOK
<1>5. Fresh'
  <2>1. db[r[1]].status # "none" /\ r[1] \notin boot
    BY <1>2, RunsFacts DEF Fresh
  <2>2. \A e \in Execution :
          /\ db'[e].status = "none" <=> db[e].status = "none"
          /\ db'[e].due = db[e].due
    BY <1>2, <2>1, ProgressRowIs DEF RestOK
  <2> QED BY <1>1, <2>2 DEF Fresh
<1> QED BY <1>1, <1>3, <1>4, <1>5, NoneStays DEF NoneBegins, StepOK, QueueStep, QueueInv, CutStep

LEMMA SaveStep ==
    ASSUME RestOK, QueueInv, Fresh, NEW r \in Runs, Save(r), ~CanWait => NeverParked
    PROVE  StepOK /\ NoneBegins /\ OthersStay(r)
<1>1. PICK p \in {"over", "saved", "canceled"} :
        /\ run' \in [Runs -> RunRecord]
        /\ \A x \in Runs : /\ run'[x].pc = IF x = r THEN p ELSE run[x].pc
                           /\ run'[x].promise = run[x].promise /\ run'[x].cut = run[x].cut
  <2>1. CASE run[r].pc \in {"stray", "closing"}
    <3>1. Moves(run', run, r, "over")
      BY <2>1 DEF Moves, Save, QueueInv
    <3> QED BY <3>1, RunMoves DEF QueueInv, Step
  <2>2. CASE run[r].pc = "canceling"
    <3>1. Moves(run', run, r, "canceled")
      BY <2>2 DEF Moves, Save, QueueInv
    <3> QED BY <3>1, RunMoves DEF QueueInv, Step
  <2>3. CASE run[r].pc \notin {"stray", "closing", "canceling"}
    <3>1. Moves(run', run, r, "saved")
      BY <2>3 DEF Moves, Save, QueueInv
    <3> QED BY <3>1, RunMoves DEF QueueInv, Step
  <2> QED BY <2>1, <2>2, <2>3
<1>2. /\ run[r].pc \in {"executing", "stray", "parking", "canceling", "closing"}
      /\ r[1] \in Execution
  BY RunsFacts DEF Save
<1>3. LeavesQueue
  BY <1>1, <1>2 DEF LeavesQueue, GoesOn, Save, Early, Ended, Ahead
<1>4. PICK s \in DbStatus \ {"none"}, d \in BOOLEAN :
        /\ db' = [db EXCEPT ![r[1]] = [status |-> s, due |-> d]]
        /\ d = db[r[1]].due \/ run[r].pc = "parking"
  <2>0. db[r[1]] \in [status : DbStatus, due : BOOLEAN]
    BY <1>2 DEF RestOK
  <2>1. CASE run[r].pc \in {"executing", "stray", "parking"}
    <3>1. PICK row \in SavedRow(db[r[1]], run[r].pc) : db' = [db EXCEPT ![r[1]] = row]
      BY <2>1 DEF Save
    <3>2. \E s \in {"success", "error", "waiting"}, d \in BOOLEAN :
            /\ row = [status |-> s, due |-> d] /\ s \in DbStatus \ {"none"}
            /\ d = db[r[1]].due \/ run[r].pc = "parking"
      BY <2>0, SavedRowIs
    <3> QED BY <3>1, <3>2
  <2>2. CASE run[r].pc \notin {"executing", "stray", "parking"}
    <3>1. db' = [db EXCEPT ![r[1]].status = "canceled"]
      BY <2>2 DEF Save
    <3>2. db' = [db EXCEPT ![r[1]] = [status |-> "canceled", due |-> db[r[1]].due]]
      <4>1. PICK b \in [status : DbStatus, due : BOOLEAN] : b = db[r[1]]
        BY <2>0
      <4>2. [b EXCEPT !.status = "canceled"] = [status |-> "canceled", due |-> b.due]
        OBVIOUS
      <4> QED BY <3>1, <4>1, <4>2
    <3>3. db[r[1]].due \in BOOLEAN
      BY <2>0
    <3> QED BY <3>2, <3>3 DEF DbStatus
  <2> QED BY <2>1, <2>2
<1>5. RestOK'
  <2>1. [status |-> s, due |-> d] \in [status : DbStatus, due : BOOLEAN]
    OBVIOUS
  <2> QED BY <1>2, <1>4, <2>1 DEF RestOK, Save
<1>6. Fresh'
  <2>1. \A x \in Runs : run[x].pc = "none" => run'[x].pc = "none"
    BY <1>1, <1>2
  <2>2. r[1] \notin boot /\ db[r[1]].status # "none"
    BY <1>2, RunsFacts DEF Fresh
  <2>3. PICK row \in [status : DbStatus, due : BOOLEAN] :
          /\ row.status # "none" /\ row.due = d /\ db' = [db EXCEPT ![r[1]] = row]
    BY <1>4
  <2>4. run[r].pc = "parking" => CanWait
    BY DEF NeverParked
  <2>5. \A e \in Execution :
          /\ db'[e].status = "none" <=> db[e].status = "none"
          /\ ~CanWait \/ db[e].status = "none" => db'[e].due = db[e].due
    BY <1>2, <1>4, <2>2, <2>3, <2>4 DEF RestOK
  <2> QED BY <2>1, <2>5, RunsFacts DEF Fresh, Save
<1> QED BY <1>1, <1>3, <1>5, <1>6, NoneStays DEF NoneBegins, OthersStay, StepOK, QueueStep, CutStep

LEMMA NodeReturnsRuns ==
    ASSUME run \in [Runs -> RunRecord], NEW r \in Runs, NodeReturns(r)
    PROVE  /\ run' \in [Runs -> RunRecord]
           /\ \A x \in Runs : /\ run'[x].pc = run[x].pc /\ run'[x].promise = run[x].promise
                              /\ run'[x].status = run[x].status
                              /\ run'[x].attached = run[x].attached
                              /\ run'[x].cut = IF x = r THEN "none" ELSE run[x].cut
<1>1. run' = [run EXCEPT ![r].cut = "none"]
  BY DEF NodeReturns
<1> QED BY <1>1 DEF RunRecord

LEMMA NodeReturnsStep ==
    ASSUME RestOK, QueueInv, Fresh, NEW r \in Runs, NodeReturns(r),
           ~CanWait => NeverParked
    PROVE  StepOK /\ NoneBegins
<1>1. /\ UNCHANGED <<active, capacity, queue, timers, polled, stop, boot, stage>>
      /\ run[r].pc \in {"canceling", "canceled"} /\ r[1] \in Execution
  BY RunsFacts DEF NodeReturns
<1>2. /\ run' \in [Runs -> RunRecord] /\ CutStep
      /\ \A x \in Runs : run'[x].pc = run[x].pc /\ run'[x].promise = run[x].promise
  BY NodeReturnsRuns DEF QueueInv, CutStep
<1>3. LeavesQueue
  BY <1>1, <1>2 DEF LeavesQueue, GoesOn, Ahead
<1>4. PICK row \in [status : DbStatus, due : BOOLEAN] :
        /\ db' = db \/ db' = [db EXCEPT ![r[1]] = row]
        /\ row.status # "none"
        /\ CanWait \/ row.due = db[r[1]].due
  <2>1. db[r[1]] \in [status : DbStatus, due : BOOLEAN] /\ db[r[1]].status # "none"
    BY <1>1, RunsFacts DEF RestOK, Fresh
  <2>2. \/ db' = db
        \/ db' = [db EXCEPT ![r[1]] = ProgressRow(db[r[1]])]
        \/ \E row \in SavedRow(db[r[1]], run[r].cut) : db' = [db EXCEPT ![r[1]] = row]
    BY DEF NodeReturns
  <2>3. /\ ProgressRow(db[r[1]]) \in [status : DbStatus, due : BOOLEAN]
        /\ ProgressRow(db[r[1]]).status # "none"
        /\ ProgressRow(db[r[1]]).due = db[r[1]].due
    BY <2>1, ProgressRowIs
  <2>4. ASSUME NEW row \in SavedRow(db[r[1]], run[r].cut)
        PROVE  /\ row \in [status : DbStatus, due : BOOLEAN] /\ row.status # "none"
               /\ CanWait \/ row.due = db[r[1]].due
    <3>1. PICK s \in {"success", "error", "waiting"}, d \in BOOLEAN :
            /\ row = [status |-> s, due |-> d] /\ s \in DbStatus \ {"none"}
            /\ d = db[r[1]].due \/ run[r].cut = "parking"
      BY <2>1, SavedRowIs
    <3>2. run[r].cut = "parking" => CanWait
      BY DEF NeverParked
    <3> QED BY <3>1, <3>2
  <2> QED BY <2>1, <2>2, <2>3, <2>4
<1>5. RestOK'
  BY <1>1, <1>4 DEF RestOK
<1>6. Fresh'
  <2>1. db[r[1]].status # "none" /\ r[1] \notin boot
    BY <1>1, RunsFacts DEF Fresh
  <2>2. \A e \in Execution :
          /\ db'[e].status = "none" <=> db[e].status = "none"
          /\ ~CanWait \/ db[e].status = "none" => db'[e].due = db[e].due
    BY <1>1, <1>4, <2>1 DEF RestOK
  <2>3. \A x \in Runs : run'[x].pc = "none" <=> run[x].pc = "none"
    BY <1>2
  <2> QED BY <1>1, <2>2, <2>3, RunsFacts DEF Fresh
<1> QED BY <1>2, <1>3, <1>5, <1>6, NoneStays DEF NoneBegins, StepOK, QueueStep

\* The steps that settle a promise.
LEMMA FinalizeStep ==
    ASSUME RestOK, QueueInv, Fresh, NEW r \in Runs, Finalize(r)
    PROVE  StepOK /\ NoneBegins
<1>0. PICK p \in {"closing", "over"} : p = IF run[r].pc = "canceling" THEN "closing" ELSE "over"
  OBVIOUS
<1>1. PICK R \in [Runs -> RunRecord] :
        /\ R = [run EXCEPT ![r].pc = p]
        /\ R = [run EXCEPT ![r].pc = IF @ = "canceling" THEN "closing" ELSE "over"]
  <2>1. PICK R \in [Runs -> RunRecord] : R = [run EXCEPT ![r].pc = p]
    BY <1>0, MovedRun DEF QueueInv, Step
  <2>2. R = [run EXCEPT ![r].pc = IF @ = "canceling" THEN "closing" ELSE "over"]
    BY <1>0, <2>1
  <2> QED BY <2>1, <2>2
<1>2. /\ run[r].pc \in {"saved", "refused", "canceling", "canceled"}
      /\ \A x \in Runs : GoesOn(R, x) /\ R[x].cut = run[x].cut
  BY <1>1 DEF Finalize, GoesOn, Early, Ended, Ahead, QueueInv, RunRecord
<1>3. /\ run' \in [Runs -> RunRecord] /\ (LeavesQueue \/ \E q \in Runs : Gives(q))
      /\ active' \in [Execution -> 0 .. MaxRuns] /\ CutStep
  <2>1. CASE active[r[1]] = 0
    <3>1. run' = R /\ UNCHANGED <<active, capacity, queue>>
      BY <1>1, <2>1 DEF Finalize
    <3> QED BY <1>2, <3>1 DEF LeavesQueue, GoesOn, Ahead, RestOK, CutStep
  <2>2. CASE active[r[1]] # 0
    <3>1. PICK q \in Runs : q = <<r[1], active[r[1]]>>
      <4>1. active[r[1]] \in RunNo
        BY <2>2, RunsFacts, BoundsAssumption DEF RestOK, RunNo
      <4> QED BY <4>1, RunsFacts
    <3>2. SettlePromise(R, q)
      BY <1>1, <2>2, <3>1 DEF Finalize
    <3> QED BY <1>2, <3>2, SettleGives DEF CutStep
  <2> QED BY <2>1, <2>2
<1>4. RestOK'
  BY <1>3 DEF RestOK, Finalize
<1>5. \A x \in Runs : run[x].pc = "none" => run'[x].pc = "none"
  BY <1>3, NoneStays
<1>6. Fresh'
  BY <1>5, RunsFacts DEF Fresh, Finalize
<1> QED BY <1>3, <1>4, <1>6, NoneStays DEF NoneBegins, StepOK, QueueStep

LEMMA TimeOutStep ==
    ASSUME RestOK, QueueInv, Fresh, NEW r \in Runs, TimeOut(r)
    PROVE  StepOK /\ NoneBegins
<1>1. /\ run' \in [Runs -> RunRecord] /\ (LeavesQueue \/ \E q \in Runs : Gives(q))
      /\ active' \in [Execution -> 0 .. MaxRuns] /\ CutStep
  BY RunsFacts, StopActiveGives DEF TimeOut
<1>2. RestOK'
  BY <1>1 DEF RestOK, TimeOut
<1>3. \A x \in Runs : run[x].pc = "none" => run'[x].pc = "none"
  BY <1>1, NoneStays
<1>4. Fresh'
  BY <1>3, RunsFacts DEF Fresh, TimeOut
<1> QED BY <1>1, <1>2, <1>4, NoneStays DEF NoneBegins, StepOK, QueueStep

\* ConcurrencyQueue.remove.
LEMMA LeaveQueueDrops ==
    ASSUME QueueInv, NEW e \in Execution, LeaveQueue(e), Enabled
    PROVE  /\ run' \in [Runs -> RunRecord] /\ \E i \in DOMAIN queue : Drops(i)
           /\ CutStep
<1>1. PICK i \in DOMAIN queue :
        /\ capacity' = capacity + 1 /\ queue' = Shift(RemoveAt(queue, i))
        /\ run' = Admit([run EXCEPT ![queue[i]].pc = "removed"], RemoveAt(queue, i))
  BY DEF LeaveQueue
<1>2. PICK rest : rest = RemoveAt(queue, i)
  OBVIOUS
<1>3. PICK r \in Runs : r = queue[i]
  BY QueueFacts
<1>4. PICK R \in [Runs -> RunRecord] : R = [run EXCEPT ![r].pc = "removed"]
  BY MovedRun DEF QueueInv, Step
<1>5. \A x \in Runs :
        /\ R[x].promise = run[x].promise /\ R[x].cut = run[x].cut
        /\ R[x].pc = IF x = r THEN "removed" ELSE run[x].pc
  BY <1>4 DEF QueueInv, RunRecord
<1>6. rest # <<>> => rest[1] \in Runs /\ rest[1] # r /\ Head(rest) = rest[1]
  BY <1>2, <1>3, RestFacts, ShiftFacts
<1>7. run' = Admit(R, rest)
  BY <1>1, <1>2, <1>3, <1>4
<1>8. CASE rest = <<>>
  <2>1. run' = R
    BY <1>7, <1>8 DEF Admit
  <2> QED BY <1>1, <1>2, <1>3, <1>5, <1>8, <2>1 DEF Drops, CutStep
<1>9. CASE rest # <<>>
  <2>1. PICK h \in Runs : h = rest[1]
    BY <1>6, <1>9
  <2>2. run' = [R EXCEPT ![h].pc = "admitted"]
    BY <1>6, <1>7, <1>9, <2>1 DEF Admit
  <2>3. /\ run' \in [Runs -> RunRecord]
        /\ \A x \in Runs :
              /\ run'[x].promise = R[x].promise /\ run'[x].cut = R[x].cut
              /\ run'[x].pc = IF x = h THEN "admitted" ELSE R[x].pc
    BY <2>2 DEF RunRecord, Step
  <2>4. h # r
    BY <1>6, <1>9, <2>1
  <2>5. run'[r].pc = "removed"
    BY <1>5, <2>3, <2>4
  <2>6. \A x \in Runs \ {r} :
          IF rest # <<>> /\ x = rest[1] THEN run'[x].pc = "admitted" ELSE run'[x].pc = run[x].pc
    BY <1>5, <1>9, <2>1, <2>3
  <2>7. \A x \in Runs : run'[x].promise = run[x].promise
    BY <1>5, <2>3
  <2>8. CutStep
    BY <1>5, <2>3 DEF CutStep
  <2> QED BY <1>1, <1>2, <1>3, <2>3, <2>5, <2>6, <2>7, <2>8 DEF Drops
<1> QED BY <1>8, <1>9

LEMMA StopActStep ==
    ASSUME RestOK, QueueInv, Fresh, NEW e \in Execution, StopAct(e)
    PROVE  StepOK /\ NoneBegins
<1>1. /\ run' \in [Runs -> RunRecord]
      /\ \/ LeavesQueue
         \/ \E q \in Runs : Gives(q)
         \/ \E i \in DOMAIN queue : Drops(i)
      /\ active' \in [Execution -> 0 .. MaxRuns] /\ timers' \subseteq timers /\ CutStep
      /\ stop' \in [Execution -> {"none", "checked", "before", "during"}]
  <2>1. CASE InQueue(e)
    <3>1. /\ LeaveQueue(e) /\ UNCHANGED <<active, timers>> /\ Enabled
          /\ stop' = [stop EXCEPT ![e] = "before"]
      BY <2>1 DEF StopAct, InQueue
    <3> QED BY <3>1, LeaveQueueDrops DEF RestOK
  <2>2. CASE ~InQueue(e)
    <3>1. StopActive(e) /\ timers' = timers \ {e} /\ stop' = [stop EXCEPT ![e] = "during"]
      BY <2>2 DEF StopAct
    <3> QED BY <3>1, StopActiveGives DEF RestOK
  <2> QED BY <2>1, <2>2
<1>2. RestOK'
  BY <1>1 DEF RestOK, StopAct
<1>3. \A x \in Runs : run[x].pc = "none" => run'[x].pc = "none"
  BY <1>1, NoneStays
<1>4. Fresh'
  BY <1>1, <1>3, RunsFacts DEF Fresh, StopAct
<1> QED BY <1>1, <1>2, <1>4, NoneStays DEF NoneBegins, StepOK, QueueStep

\* The steps that leave the runs alone.
LEMMA OtherStep ==
    ASSUME RestOK, QueueInv, Fresh,
           \/ PollQuery
           \/ PollApply
           \/ \E e \in Execution : StopCheck(e) \/ StopWrite(e)
    PROVE  StepOK /\ NoneBegins
<1>1. run' \in [Runs -> RunRecord] /\ LeavesQueue /\ CutStep
  <2>1. UNCHANGED <<run, capacity, queue>>
    BY DEF PollQuery, PollApply, StopCheck, StopWrite
  <2> QED BY <2>1 DEF LeavesQueue, GoesOn, Ahead, QueueInv, CutStep
<1>2. NoneBegins
  BY <1>1, NoneStays DEF NoneBegins
<1>3. CASE PollQuery
  BY <1>1, <1>2, <1>3 DEF PollQuery, Due, RestOK, Fresh, StepOK, QueueStep
<1>4. CASE PollApply
  BY <1>1, <1>2, <1>4 DEF PollApply, RestOK, Fresh, StepOK, QueueStep
<1>5. ASSUME NEW e \in Execution, StopCheck(e) PROVE StepOK
  BY <1>1, <1>5 DEF StopCheck, RestOK, Fresh, StepOK, QueueStep
<1>6. ASSUME NEW e \in Execution, StopWrite(e) PROVE StepOK
  <2>1. PICK d \in BOOLEAN :
          /\ db' = [db EXCEPT ![e] = [status |-> "canceled", due |-> d]]
          /\ d => db[e].due
    BY <1>6 DEF StopWrite, RestOK
  <2>2. RestOK'
    BY <1>6, <2>1 DEF StopWrite, RestOK, DbStatus
  <2>3. Fresh'
    BY <1>6, <2>1 DEF StopWrite, Fresh, RestOK
  <2> QED BY <1>1, <2>2, <2>3 DEF StepOK, QueueStep
<1> QED BY <1>2, <1>3, <1>4, <1>5, <1>6

\* Only a workflow that can wait is put to wait.
LEMMA NoParking ==
    ASSUME QueueInv, QueueStep, CutStep, ~CanWait, NeverParked
    PROVE  NeverParked'
<1> SUFFICES ASSUME NEW r \in Runs PROVE run'[r].pc # "parking"
  BY DEF NeverParked, CutStep
<1> USE DEF NeverParked
<1>1. CASE LeavesQueue
  BY <1>1 DEF LeavesQueue, GoesOn, Ahead, Registers
<1>2. ASSUME NEW q \in Runs, Takes(q) PROVE run'[r].pc # "parking"
  BY <1>2 DEF Takes
<1>3. ASSUME NEW q \in Runs, Gives(q) PROVE run'[r].pc # "parking"
  BY <1>3 DEF Gives, Ahead
<1>4. ASSUME NEW i \in DOMAIN queue, Drops(i) PROVE run'[r].pc # "parking"
  BY <1>4 DEF Drops
<1> QED BY <1>1, <1>2, <1>3, <1>4 DEF QueueStep

-----------------------------------------------------------------------------
(* The end of a process, and the next one.                                 *)

\* What a cancellation makes of the record of a run that is at work.
CutShort(y) ==
    [y EXCEPT !.pc = "canceling", !.cut = IF y.pc = "saved" THEN "none" ELSE y.pc]

LEMMA CutShortIs ==
    ASSUME NEW y \in RunRecord, y.pc \in {"executing", "parking", "saved"}
    PROVE  /\ CutShort(y) \in RunRecord
           /\ CutShort(y).pc = "canceling" /\ CutShort(y).promise = y.promise
           /\ CutShort(y).cut \in {"none", y.pc}
           /\ CutShort(y).status = y.status /\ CutShort(y).attached = y.attached
           /\ CutShort(y).response = y.response
<1>1. PICK c \in {"none", "executing", "parking"} : c = IF y.pc = "saved" THEN "none" ELSE y.pc
  OBVIOUS
<1>2. CutShort(y) = [y EXCEPT !.pc = "canceling", !.cut = c]
  BY <1>1 DEF CutShort
<1> QED BY <1>1, <1>2 DEF RunRecord, Step

\* The signal cancels, and settles promises, and that is all it does to runs.
LEMMA ShutdownRuns ==
    ASSUME run \in [Runs -> RunRecord], Shutdown
    PROVE  /\ run' \in [Runs -> RunRecord]
           /\ \A x \in Runs :
                 /\ \/ run'[x].pc = run[x].pc
                    \/ run[x].pc \in {"executing", "parking", "saved"} /\ run'[x].pc = "canceling"
                 /\ run'[x].promise \in {run[x].promise, "settled"}
                 /\ run'[x].status = run[x].status /\ run'[x].attached = run[x].attached
                 /\ run'[x].response = run[x].response
           /\ CutStep
<1>2. \A x \in Runs :
        \E y, z \in RunRecord :
            /\ y \in {run[x], [run[x] EXCEPT !.promise = "settled"]}
            /\ \/ z = y
               \/ /\ y.pc \in {"executing", "parking", "saved"}
                  /\ z = CutShort(y)
            /\ run'[x] = z
  <2> DEFINE entry(e) == <<e, active[e]>>
             Present  == {e \in Execution : active[e] # 0}
             Waiting  == {e \in Present : run[entry(e)].status = "waiting"}
             Stopped  == {e \in Present \ Waiting : run[entry(e)].response}
             Settled  == [r \in Runs |-> IF r[1] \in Stopped /\ r = entry(r[1])
                                        THEN [run[r] EXCEPT !.promise = "settled"] ELSE run[r]]
  <2>1. run' = [r \in Runs |->
                  IF r[1] \in Stopped /\ run[entry(r[1])].attached = r[2]
                  THEN Canceled(Settled, r)[r] ELSE Settled[r]]
    BY DEF Shutdown
  <2>2. \A x \in Runs : Settled[x] \in {run[x], [run[x] EXCEPT !.promise = "settled"]}
    OBVIOUS
  <2>3. \A x \in Runs : run[x] \in RunRecord /\ [run[x] EXCEPT !.promise = "settled"] \in RunRecord
    BY DEF RunRecord
  <2>4. \A x \in Runs : Settled[x] \in RunRecord
    BY <2>2, <2>3
  <2>5. Settled = [x \in Runs |-> Settled[x]]
    OBVIOUS
  <2> HIDE DEF Settled, Stopped, entry
  <2>6. \A x \in Runs :
          \/ Canceled(Settled, x)[x] = Settled[x]
          \/ /\ Settled[x].pc \in {"executing", "parking", "saved"}
             /\ Canceled(Settled, x)[x] = CutShort(Settled[x])
    BY <2>5 DEF Canceled, CutShort
  <2>7. \A x \in Runs : run'[x] \in {Settled[x], Canceled(Settled, x)[x]}
    BY <2>1
  <2>8. \A x \in Runs : Settled[x].pc \in {"executing", "parking", "saved"}
                         => CutShort(Settled[x]) \in RunRecord
    BY <2>4, CutShortIs
  <2> QED BY <2>2, <2>4, <2>6, <2>7, <2>8
<1>3. run' \in [Runs -> RunRecord]
  <2>1. \A x \in Runs : run'[x] \in RunRecord
    BY <1>2
  <2>2. run' = [x \in Runs |-> run'[x]]
    BY DEF Shutdown
  <2> QED BY <2>1, <2>2
<1>4. \A x \in Runs :
        /\ \/ run'[x].pc = run[x].pc
           \/ run[x].pc \in {"executing", "parking", "saved"} /\ run'[x].pc = "canceling"
        /\ run'[x].promise \in {run[x].promise, "settled"}
        /\ run'[x].status = run[x].status /\ run'[x].attached = run[x].attached
        /\ run'[x].response = run[x].response
        /\ run'[x].cut \in {"none", run[x].cut, run[x].pc}
  <2> SUFFICES ASSUME NEW x \in Runs
               PROVE  /\ \/ run'[x].pc = run[x].pc
                         \/ run[x].pc \in {"executing", "parking", "saved"} /\ run'[x].pc = "canceling"
                      /\ run'[x].promise \in {run[x].promise, "settled"}
                      /\ run'[x].status = run[x].status /\ run'[x].attached = run[x].attached
                      /\ run'[x].response = run[x].response
                      /\ run'[x].cut \in {"none", run[x].cut, run[x].pc}
    OBVIOUS
  <2>1. PICK w \in RunRecord : w = run[x]
    OBVIOUS
  <2>2. PICK y \in RunRecord, z \in RunRecord :
            /\ y \in {w, [w EXCEPT !.promise = "settled"]}
            /\ \/ z = y
               \/ /\ y.pc \in {"executing", "parking", "saved"}
                  /\ z = CutShort(y)
            /\ run'[x] = z
    BY <1>2, <2>1
  <2>3. /\ y.pc = w.pc /\ y.promise \in {w.promise, "settled"} /\ y.cut = w.cut
        /\ y.status = w.status /\ y.attached = w.attached /\ y.response = w.response
    BY <2>2 DEF RunRecord
  <2>4. /\ z.pc = y.pc \/ (y.pc \in {"executing", "parking", "saved"} /\ z.pc = "canceling")
        /\ z.promise = y.promise /\ z.cut \in {"none", y.cut, y.pc}
        /\ z.status = y.status /\ z.attached = y.attached /\ z.response = y.response
    BY <2>2, CutShortIs
  <2> QED BY <2>1, <2>2, <2>3, <2>4
<1> QED BY <1>3, <1>4 DEF CutStep

LEMMA ShutdownStep ==
    ASSUME IInv, Shutdown
    PROVE  IInv'
<1>1. RestOK /\ QueueInv /\ Fresh /\ TypeOK /\ stage' = "stopping"
  BY TypeParts DEF IInv, Shutdown
<1>3. run' \in [Runs -> RunRecord] /\ CutStep
  BY <1>1, ShutdownRuns DEF QueueInv
<1>4. \A x \in Runs :
        /\ \/ run'[x].pc = run[x].pc
           \/ run[x].pc \in {"executing", "parking", "saved"} /\ run'[x].pc = "canceling"
        /\ run'[x].promise \in {run[x].promise, "settled"}
  BY <1>1, ShutdownRuns DEF QueueInv
<1>5. UNCHANGED <<db, capacity, queue, polled, stop, boot>> /\ timers' = {}
  BY DEF Shutdown
<1>6. NotRegistered'
  BY <1>1, <1>4 DEF QueueInv, NotRegistered, Early
<1>7. QueueIsQueued'
  BY <1>1, <1>4, <1>5, QueueFacts DEF QueueIsQueued
<1>8. QueueInv'
  BY <1>1, <1>3, <1>5, <1>6, <1>7 DEF QueueInv, SlotAccounting, Enabled
<1>9. RestOK'
  <2>1. active' \in [Execution -> 0 .. MaxRuns]
    <3>1. \A e \in Execution : active[e] \in 0 .. MaxRuns /\ 0 \in 0 .. MaxRuns
      BY <1>1, BoundsAssumption DEF RestOK
    <3> QED BY <3>1 DEF Shutdown
  <2> QED BY <1>1, <1>5, <2>1 DEF RestOK
<1>10. Fresh'
  BY <1>1, <1>4, <1>5, RunsFacts DEF Fresh
<1>11. ~CanWait => NeverParked'
  BY <1>3, <1>4 DEF IInv, NeverParked, CutStep
<1>12. TypeOK'
  <2>1. log' \subseteq log /\ late' = late
    BY DEF Shutdown, CancelingLogged, history
  <2> QED BY <1>1, <1>3, <1>5, <1>9, <2>1 DEF TypeOK, RestOK, RunRecord
<1> QED BY <1>1, <1>8, <1>10, <1>11, <1>12 DEF IInv

\* What follows from that.
NothingRuns ==
    /\ run \in [Runs -> RunRecord] /\ active \in [Execution -> 0 .. MaxRuns]
    /\ capacity \in Int /\ capacity <= Limit /\ queue \in Seq(Runs)
    /\ stop \in [Execution -> {"none", "checked", "before", "during"}]
    /\ NotRegistered /\ QueueIsQueued /\ SlotAccounting
    /\ (\A r \in Runs : run[r].pc = "none") /\ NeverParked

LEMMA FreshMemory == Forgotten => NothingRuns
<1> SUFFICES ASSUME Forgotten PROVE NothingRuns
  OBVIOUS
<1>1. /\ NoRun \in RunRecord /\ NoRun.pc = "none" /\ NoRun.promise = "none"
      /\ NoRun.cut = "none"
  BY BoundsAssumption DEF NoRun, RunRecord, Step
<1>2. /\ run \in [Runs -> RunRecord]
      /\ \A r \in Runs : run[r].pc = "none" /\ run[r].promise = "none" /\ run[r].cut = "none"
  BY <1>1 DEF Forgotten, NoRuns
<1>3. queue = <<>> /\ queue \in Seq(Runs) /\ Len(queue) = 0 /\ DOMAIN queue = {}
  BY EmptySeq DEF Forgotten
<1>4. Holding = {} /\ Cardinality({}) = 0
  BY <1>2, FS_EmptySet DEF Holding
<1>5. NotRegistered /\ QueueIsQueued
  BY <1>2, <1>3 DEF NotRegistered, QueueIsQueued
<1>6. capacity = Limit /\ Limit \in Nat
  BY LimitAssumption DEF Forgotten
<1>7. SlotAccounting
  BY <1>3, <1>4, <1>6 DEF SlotAccounting
<1>8. /\ active \in [Execution -> 0 .. MaxRuns]
      /\ stop \in [Execution -> {"none", "checked", "before", "during"}]
  BY BoundsAssumption DEF Forgotten, NoEntries, NoStops
<1> QED BY <1>2, <1>3, <1>5, <1>6, <1>7, <1>8 DEF NothingRuns, NeverParked

LEMMA InitIInv == Init => IInv
<1> SUFFICES ASSUME Init PROVE IInv
  OBVIOUS
<1>1. Forgotten /\ stage = "up"
  BY DEF Init, Forgotten
<1>2. \A e \in Execution, k \in RunNo : run[<<e, k>>].pc = "none"
  BY <1>1, FreshMemory, RunsFacts DEF NothingRuns
<1>3. TypeOK
  BY <1>1, FreshMemory DEF NothingRuns, Init, TypeOK, DbStatus, RunRecord, Forgotten
<1>4. Fresh
  BY <1>1, <1>2 DEF Init, Fresh, Forgotten
<1>5. QueueInv
  BY <1>1, FreshMemory DEF NothingRuns, QueueInv
<1> QED BY <1>1, <1>3, <1>4, <1>5, FreshMemory DEF NothingRuns, IInv

\* exit and crash.
LEMMA DownStep ==
    ASSUME IInv, Exit \/ Crash
    PROVE  IInv'
<1>1. Forgotten' /\ stage' = "down" /\ UNCHANGED <<db, log, late>>
  BY DEF Exit, Crash, MemoryLost, Forgotten
<1>2. RestOK /\ Fresh /\ LogOK
  BY TypeParts DEF IInv
<1>3. NothingRuns'
  BY <1>1, FreshMemory, PTL
<1>4. TypeOK'
  BY <1>1, <1>2, <1>3 DEF TypeOK, RestOK, LogOK, RunRecord, Forgotten, NothingRuns
<1>5. Fresh'
  BY <1>1, <1>2, <1>3, RunsFacts DEF Fresh, Forgotten, NothingRuns
<1> QED BY <1>1, <1>3, <1>4, <1>5 DEF IInv, QueueInv, NothingRuns

LEMMA RestartStep ==
    ASSUME IInv, Restart
    PROVE  IInv'
<1>1. /\ RestOK /\ LogOK /\ Fresh /\ Forgotten /\ QueueInv /\ ~CanWait /\ stage' = "up"
      /\ UNCHANGED <<run, active, capacity, queue, timers, polled, stop, log, late>>
  BY TypeParts DEF IInv, Restart
<1>2. /\ db' \in [Execution -> [status : DbStatus, due : BOOLEAN]]
      /\ \A e \in Execution : /\ db'[e].status = "none" => db[e].status = "none"
                             /\ db'[e].due = db[e].due
  <2> SUFFICES ASSUME NEW e \in Execution
               PROVE  /\ db'[e] \in [status : DbStatus, due : BOOLEAN]
                      /\ db'[e].status = "none" => db[e].status = "none"
                      /\ db'[e].due = db[e].due
    <3>1. db' = [e \in Execution |-> db'[e]]
      BY DEF Restart
    <3> QED BY <3>1
  <2>1. PICK row \in [status : DbStatus, due : BOOLEAN] : row = db[e]
    BY <1>1 DEF RestOK
  <2>2. CASE row.status = "running" \/ e \in log
    <3>1. db'[e] = [status |-> "crashed", due |-> row.due]
      BY <2>1, <2>2 DEF Restart
    <3> QED BY <2>1, <3>1 DEF DbStatus
  <2>3. CASE ~(row.status = "running" \/ e \in log)
    BY <2>1, <2>3 DEF Restart
  <2> QED BY <2>2, <2>3
<1>3. boot' \subseteq Execution /\ \A e \in boot' : db'[e].status = "new"
  BY DEF Restart
<1>4. (\A r \in Runs : run[r].pc = "none") /\ NeverParked'
  BY <1>1, FreshMemory DEF NothingRuns, NeverParked
<1>5. SlotAccounting' /\ capacity <= Limit
  <2>1. Cardinality(Holding) = 0 /\ Len(queue) = 0 /\ capacity = Limit
    <3>1. Holding = {}
      BY <1>1, <1>4 DEF Holding, Forgotten, NoRuns, NoRun
    <3>2. queue = <<>> /\ Len(<<>>) = 0
      BY <1>1, EmptySeq DEF Forgotten
    <3> QED BY <1>1, <3>1, <3>2, FS_EmptySet DEF Forgotten
  <2>2. Holding' = Holding
    BY <1>1 DEF Holding
  <2> QED BY <1>1, <2>1, <2>2, LimitAssumption DEF SlotAccounting
<1>6. QueueInv'
  BY <1>1, <1>5 DEF QueueInv, NotRegistered, QueueIsQueued
<1>7. TypeOK'
  BY <1>1, <1>2, <1>3, <1>5 DEF TypeOK, RestOK, LogOK, QueueInv, RunRecord
<1>8. Fresh'
  BY <1>1, <1>2, <1>3, <1>4, RunsFacts DEF Fresh, Forgotten
<1> QED BY <1>1, <1>4, <1>6, <1>7, <1>8 DEF IInv

-----------------------------------------------------------------------------
(* The invariant is inductive.                                             *)

\* What each step of a process that is up, or on its way down, does.
LEMMA ActionStep ==
    ASSUME IInv, Next, ~Shutdown, ~Exit, ~Crash, ~Restart
    PROVE  /\ StepOK /\ stage' = stage /\ stage # "down"
           /\ \/ NoneBegins
              \/ \E e \in Execution : /\ StartNew(e) \/ RunEnqueued(e) \/ Resume(e)
                                      /\ OnlyBegins(e)
<1> USE DEF IInv
<1>1. RestOK
  BY TypeParts
<1>2. ASSUME NEW e \in Execution, StartNew(e) \/ RunEnqueued(e) \/ Resume(e)
      PROVE  StepOK /\ OnlyBegins(e) /\ stage' = stage /\ stage # "down"
  BY <1>1, <1>2, StartNewStep, RunEnqueuedStep, ResumeStep DEF StartNew, RunEnqueued, Resume
<1>3. ASSUME NEW r \in Runs, RunStep(r)
      PROVE  StepOK /\ NoneBegins /\ stage' = stage /\ stage # "down"
  <2>1. StepOK /\ NoneBegins
    BY <1>1, <1>3, AddStep, CheckPassesStep, CheckFailsStep, BeginStep, PutToWaitStep,
       SaveProgressStep, SaveStep, NodeReturnsStep, FinalizeStep, TimeOutStep
    DEF RunStep
  <2>2. stage' = stage /\ stage # "down"
    BY <1>3 DEF RunStep, Add, CheckPasses, CheckFails, Begin, PutToWait, SaveProgress, Save,
       NodeReturns, Finalize, TimeOut
  <2> QED BY <2>1, <2>2
<1>4. ASSUME NEW e \in Execution, StopCheck(e) \/ StopAct(e) \/ StopWrite(e)
      PROVE  StepOK /\ NoneBegins /\ stage' = stage /\ stage # "down"
  BY <1>1, <1>4, OtherStep, StopActStep DEF StopCheck, StopAct, StopWrite
<1>5. CASE PollQuery \/ PollApply
  BY <1>1, <1>5, OtherStep DEF PollQuery, PollApply
<1> QED BY <1>2, <1>3, <1>4, <1>5 DEF Next

\* The log, and who wrote to it too late.
LEMMA LogTyped ==
    ASSUME LogOK, Next
    PROVE  LogOK'
<1> USE DEF LogOK
<1>1. ASSUME NEW e \in Execution, StartNew(e) \/ RunEnqueued(e) \/ Resume(e) PROVE LogOK'
  BY <1>1 DEF StartNew, RunEnqueued, Resume, ThrottleRun, history
<1>2. ASSUME NEW r \in Runs, RunStep(r) PROVE LogOK'
  <2>1. r[1] \in Execution
    BY RunsFacts
  <2>2. CASE Add(r) \/ CheckPasses(r) \/ PutToWait(r) \/ SaveProgress(r) \/ Finalize(r)
    BY <2>2 DEF Add, CheckPasses, PutToWait, SaveProgress, Finalize, history
  <2>3. CASE CheckFails(r) \/ Begin(r) \/ TimeOut(r)
    BY <2>1, <2>3 DEF CheckFails, Begin, TimeOut, CancelingLogged, history
  <2>4. CASE Save(r) \/ NodeReturns(r)
    BY <2>1, <2>4 DEF Save, NodeReturns, SavedLog, history
  <2> QED BY <1>2, <2>2, <2>3, <2>4 DEF RunStep
<1>3. ASSUME NEW e \in Execution, StopCheck(e) \/ StopAct(e) \/ StopWrite(e) PROVE LogOK'
  BY <1>3 DEF StopCheck, StopAct, StopWrite, CancelingLogged, history
<1>4. CASE PollQuery \/ PollApply
  BY <1>4 DEF PollQuery, PollApply, history
<1>5. CASE Shutdown \/ Exit \/ Crash \/ Restart
  BY <1>5 DEF Shutdown, Exit, Crash, Restart, CancelingLogged, history
<1> QED BY <1>1, <1>2, <1>3, <1>4, <1>5 DEF Next

LEMMA StepIInv == IInv /\ [Next]_vars => IInv'
<1> SUFFICES ASSUME IInv, [Next]_vars PROVE IInv'
  OBVIOUS
<1>1. CASE UNCHANGED vars
  BY <1>1 DEF vars, memory, history, IInv, TypeOK, QueueInv, NotRegistered, QueueIsQueued,
     SlotAccounting, Holding, Enabled, Fresh, Forgotten, NeverParked
<1>2. CASE Shutdown \/ Exit \/ Crash \/ Restart
  BY <1>2, ShutdownStep, DownStep, RestartStep
<1>3. CASE Next /\ ~Shutdown /\ ~Exit /\ ~Crash /\ ~Restart
  <2>1. StepOK /\ stage' = stage /\ stage # "down"
    BY <1>3, ActionStep
  <2>2. QueueInv'
    BY <2>1, QueueStepInv DEF IInv, StepOK
  <2>3. TypeOK'
    <3>1. capacity' <= Limit
      <4>1. CASE Enabled
        <5>1. Enabled'
          BY <2>1, <4>1 DEF Enabled
        <5>2. capacity' = Limit - Cardinality(Holding') - Len(queue')
          BY <2>2, <5>1 DEF QueueInv, SlotAccounting
        <5>3. Cardinality(Holding') \in Nat /\ Len(queue') \in Nat /\ Limit \in Nat
          <6>1. Holding' \subseteq Runs
            BY DEF Holding
          <6>2. Cardinality(Holding') \in Nat
            BY <6>1, RunsFacts, SubsetCounts
          <6> QED BY <2>2, <6>2, RunsFacts, LenProperties DEF QueueInv
        <5> QED BY <2>2, <5>2, <5>3
      <4>2. CASE ~Enabled
        <5>1. capacity' = capacity
          BY <2>1, <4>2 DEF StepOK, QueueStep, LeavesQueue, Takes, Gives, Drops
        <5> QED BY <5>1 DEF IInv, TypeOK
      <4> QED BY <4>1, <4>2
    <3>2. LogOK'
      BY <1>3, LogTyped, TypeParts DEF IInv
    <3> QED BY <2>1, <2>2, <3>1, <3>2 DEF StepOK, QueueInv, RestOK, LogOK, TypeOK, RunRecord
  <2>4. ~CanWait => NeverParked'
    BY <2>1, NoParking DEF IInv, StepOK
  <2> QED BY <2>1, <2>2, <2>3, <2>4 DEF IInv, StepOK
<1> QED BY <1>1, <1>2, <1>3

LEMMA Invariance == Spec => []IInv
BY InitIInv, StepIInv, PTL DEF Spec

-----------------------------------------------------------------------------
(* Results.                                                                *)

\* The state is well formed, and the counter never exceeds the limit.
THEOREM TypeCorrect == Spec => []TypeOK
BY Invariance, PTL DEF IInv

\* Whatever stops, times out, fails, finishes, waits and resumes, in any order,
\* of any number of executions: each slot is released once, by a run that has
\* one, and none is lost.
THEOREM SlotsAccounted == Spec => []SlotAccounting
<1>1. IInv => SlotAccounting
  BY DEF IInv, QueueInv
<1> QED BY <1>1, Invariance, PTL

\* From the start of a process to the signal that ends it, what its executions do
\* to the queue is what ConcurrencyQueue describes, in every process.
THEOREM EachProcessQueues ==
    Spec => [][Enabled /\ Enabled' => [Queue!Next]_(Queue!vars)]_vars
<1>1. IInv /\ [Next]_vars => [Enabled /\ Enabled' => [Queue!Next]_(Queue!vars)]_vars
  <2> SUFFICES ASSUME IInv, Next, Enabled, Enabled' PROVE [Queue!Next]_(Queue!vars)
    OBVIOUS
  <2>1. ~Shutdown /\ ~Exit /\ ~Crash /\ ~Restart
    BY DEF Enabled, Shutdown, Exit, Crash, Restart
  <2>2. QueueStep /\ run' \in [Runs -> RunRecord] /\ stage' = stage
    BY <2>1, ActionStep DEF StepOK
  <2>3. QueueInv /\ QueueInv'
    BY <2>2, QueueStepInv DEF IInv
  <2> QED BY <2>2, <2>3, QueueStepRefines
<1> QED BY <1>1, Invariance, PTL DEF Spec

\* So a process that is not shut down implements ConcurrencyQueue.
NotShutDown == restarts \in Nat /\ (MaxRestarts = 0 => stage = "up")

LEMMA NotShutDownAlways == Spec => []NotShutDown
<1>1. Init => NotShutDown
  BY DEF Init, NotShutDown
<1>2. NotShutDown /\ [Next]_vars => NotShutDown'
  <2> SUFFICES ASSUME NotShutDown, [Next]_vars PROVE NotShutDown'
    OBVIOUS
  <2> USE DEF NotShutDown
  <2>1. CASE UNCHANGED vars
    BY <2>1 DEF vars, history
  <2>2. CASE Shutdown \/ Exit \/ Crash \/ Restart
    BY <2>2, BoundsAssumption DEF Shutdown, Exit, Crash, Restart, history
  <2>3. ASSUME NEW e \in Execution, StartNew(e) \/ RunEnqueued(e) \/ Resume(e) PROVE NotShutDown'
    BY <2>3 DEF StartNew, RunEnqueued, Resume, history
  <2>4. ASSUME NEW r \in Runs, RunStep(r) PROVE NotShutDown'
    BY <2>4 DEF RunStep, Add, CheckPasses, CheckFails, Begin, PutToWait, SaveProgress, Save,
       NodeReturns, Finalize, TimeOut, history
  <2>5. ASSUME NEW e \in Execution, StopCheck(e) \/ StopAct(e) \/ StopWrite(e) PROVE NotShutDown'
    BY <2>5 DEF StopCheck, StopAct, StopWrite, history
  <2>6. CASE PollQuery \/ PollApply
    BY <2>6 DEF PollQuery, PollApply, history
  <2> QED BY <2>1, <2>2, <2>3, <2>4, <2>5, <2>6 DEF Next
<1> QED BY <1>1, <1>2, PTL DEF Spec

\* A main in regular mode does to the queue what ConcurrencyQueue says, so what is
\* proved of that holds here: nobody waits while fewer than Limit run, first in first
\* out, and at most one too many per execution that is cancelled while it waits.
THEOREM QueueImplemented ==
    ASSUME MaxRestarts = 0
    PROVE  Spec => ImplementsQueue
<1>1. Init => Queue!Init
  <2> SUFFICES ASSUME Init PROVE Queue!Init
    OBVIOUS
  <2>1. \A r \in Runs : run[r].pc = "none" /\ run[r].promise = "none"
    BY DEF Init, NoRuns, NoRun
  <2>2. \A r \in Runs : QueuePhase(r) = "absent"
    BY <2>1 DEF QueuePhase, Holding
  <2> QED BY <2>2 DEF Init, Queue!Init
<1>2. NotShutDown => Enabled
  BY DEF NotShutDown, Enabled
<1>3. UNCHANGED vars => UNCHANGED Queue!vars
  BY DEF vars, memory, Queue!vars, QueuePhase, Holding
<1> QED BY <1>1, <1>2, <1>3, EachProcessQueues, NotShutDownAlways, PTL
        DEF Spec, ImplementsQueue, Queue!Spec

-----------------------------------------------------------------------------
(***************************************************************************)
(* A stop holds: an execution that a stop found within its reach stays     *)
(* canceled, in this process and the next, whether it waits or not.        *)
(*                                                                         *)
(* After the stop the execution is idle: each of its runs has left the     *)
(* queue, is being cancelled, or has nothing left to do; and neither the   *)
(* list of boot-up, nor a timer or a poll of WaitTracker, nor a later stop *)
(* brings it back (Reached).  The row may still be due until the stop      *)
(* clears its waitTill, and a poll that reads it then takes it out of      *)
(* reach.  That a run which waits is found in the queue by the stop needs  *)
(* WaitsInQueue.  That the next process does not find it unfinished in the *)
(* log needs LogInv: what the log has started and not ended executes, was  *)
(* marked crashed, or was written to by a node after its cancellation.     *)
(***************************************************************************)
WaitsInQueue ==
    \A r \in Runs : run[r].pc = "queued" => \E i \in DOMAIN queue : queue[i] = r

\* Run x has nothing to do any more, or waits in a queue that is off.
Rests(x) ==
    /\ run[x].pc \in Ended \cup {"none"} \/ (run[x].pc = "queued" /\ ~Enabled)
    /\ run[x].cut # "parking"

\* No run of execution e has anything to do, and nothing is about to make one.
Idle(e) ==
    /\ \A k \in RunNo : Rests(<<e, k>>)
    /\ e \notin boot \cup timers \cup polled

\* What it says of itself after a cancellation, unless it wrote or logged more.
Silent(e) == e \notin late => (CanWait \/ e \notin log)

\* A stop has reached execution e; from its write on the row says so.
Reached(e) ==
    /\ stop[e] # "none" => db[e].status # "none"
    /\ e \in held =>
          /\ Idle(e) /\ (db[e].due => stop[e] = "during") /\ Silent(e)
          /\ IF stop[e] = "none"
             THEN IF e \in late THEN db[e].status \notin {"none", "new"} ELSE db[e].status = "canceled"
             ELSE stop[e] \in {"before", "during"} \/ (stop[e] = "checked" /\ e \in late)

\* Of what the log has unfinished, a node executes, or it crashed before.
Working(e) == \E k \in RunNo : run[<<e, k>>].pc \in {"executing", "stray"}

Gone(e) ==
    /\ db[e].status = "crashed" /\ stop[e] = "none" /\ e \notin boot
    /\ \A k \in RunNo : run[<<e, k>>].pc = "none"

LogInv == ~CanWait /\ stage # "down" => \A e \in log \ late : Working(e) \/ Gone(e)

StopsInv ==
    /\ IInv /\ WaitsInQueue /\ LogInv
    /\ held \subseteq Execution /\ \A e \in Execution : Reached(e)

\* The row of an idle execution only becomes canceled, and is not put to wait; what
\* else is written to it, or to the log, makes it late.
RowRests(e) ==
    /\ \/ db'[e].status \in {db[e].status, "canceled"}
       \/ e \in late' /\ db'[e].status \notin {"none", "new"}
    /\ db'[e].due => db[e].due
    /\ e \in log' => e \in log \cup late'

\* An idle execution stays so, unless it is new.
StaysIdle(e) ==
    /\ e \in late => e \in late'
    /\ db[e].status # "none" => db'[e].status # "none"
    /\ Idle(e) /\ db[e].status # "none" => Idle(e)' /\ RowRests(e)

\* The row stays canceled, unless somebody was late.
StaysCanceled(e) ==
    e \in held /\ db[e].status = "canceled" /\ e \notin late' => db'[e].status = "canceled"

\* What a step is shown to do for StopHolds.
ReachedStep ==
    /\ held' \subseteq Execution /\ \A e \in Execution : Reached(e)'
    /\ \A e \in Execution : StaysCanceled(e)

-----------------------------------------------------------------------------
(* A run that waits is in the queue.                                       *)

LEMMA WaitsStays ==
    ASSUME QueueInv, QueueStep, WaitsInQueue
    PROVE  WaitsInQueue'
<1>1. CASE LeavesQueue
  <2> SUFFICES ASSUME NEW x \in Runs, run'[x].pc = "queued"
               PROVE  \E i \in DOMAIN queue' : queue'[i] = x
    BY DEF WaitsInQueue
  <2>1. run[x].pc = "queued" /\ queue' = queue
    BY <1>1 DEF LeavesQueue, GoesOn, Ahead, Registers, Early
  <2> QED BY <2>1 DEF WaitsInQueue
<1>2. ASSUME NEW r \in Runs, Takes(r) PROVE WaitsInQueue'
  <2> SUFFICES ASSUME NEW x \in Runs, run'[x].pc = "queued"
               PROVE  \E i \in DOMAIN queue' : queue'[i] = x
    BY DEF WaitsInQueue
  <2>1. CASE x = r
    <3>1. queue' = Append(queue, r)
      BY <1>2, <2>1 DEF Takes
    <3>2. Len(queue) + 1 \in DOMAIN queue' /\ queue'[Len(queue) + 1] = r
      BY <3>1, AppendProperties, QueueFacts DEF QueueInv
    <3> QED BY <2>1, <3>2
  <2>2. CASE x # r
    <3>1. run[x].pc = "queued"
      BY <1>2, <2>2 DEF Takes
    <3>2. PICK i \in DOMAIN queue : queue[i] = x
      BY <3>1 DEF WaitsInQueue
    <3>3. CASE queue' = queue
      BY <3>2, <3>3
    <3>4. CASE queue' = Append(queue, r)
      <4>1. i \in DOMAIN queue' /\ queue'[i] = queue[i]
        BY <3>4, AppendProperties, QueueFacts DEF QueueInv
      <4> QED BY <3>2, <4>1
    <3> QED BY <1>2, <3>3, <3>4 DEF Takes
  <2> QED BY <2>1, <2>2
<1>3. ASSUME NEW r \in Runs, Gives(r) PROVE WaitsInQueue'
  <2> SUFFICES ASSUME NEW x \in Runs, run'[x].pc = "queued"
               PROVE  \E i \in DOMAIN queue' : queue'[i] = x
    BY DEF WaitsInQueue
  <2>1. CASE ~Enabled
    <3>1. run[x].pc = "queued" /\ queue' = queue
      BY <1>3, <2>1 DEF Gives, Ahead, Early
    <3> QED BY <3>1 DEF WaitsInQueue
  <2>2. CASE Enabled
    <3>1. run[x].pc = "queued" /\ queue' = Shift(queue) /\ (queue # <<>> => x # queue[1])
      BY <1>3, <2>2 DEF Gives, Ahead, Early
    <3>2. PICK i \in DOMAIN queue : queue[i] = x
      BY <3>1 DEF WaitsInQueue
    <3>3. queue # <<>> /\ i \in 1 .. Len(queue) /\ i # 1 /\ Len(queue) \in Nat
      BY <3>1, <3>2, ShiftFacts, QueueFacts DEF QueueInv
    <3>4. PICK k \in 1 .. Len(queue) - 1 : k + 1 = i
      BY <3>3
    <3>5. queue'[k] = queue[k + 1] /\ k \in DOMAIN queue'
      <4>1. /\ queue \in Seq(Runs) /\ Shift(queue) \in Seq(Runs) /\ Len(Shift(queue)) = Len(queue) - 1
            /\ \A j \in 1 .. Len(queue) - 1 : Shift(queue)[j] = queue[j + 1]
        BY <3>3, ShiftFacts DEF QueueInv
      <4>2. DOMAIN Shift(queue) = 1 .. Len(Shift(queue))
        BY <4>1, LenProperties
      <4> QED BY <3>1, <4>1, <4>2
    <3> QED BY <3>2, <3>4, <3>5
  <2> QED BY <2>1, <2>2
<1>4. ASSUME NEW i \in DOMAIN queue, Drops(i) PROVE WaitsInQueue'
  <2> SUFFICES ASSUME NEW x \in Runs, run'[x].pc = "queued"
               PROVE  \E k \in DOMAIN queue' : queue'[k] = x
    BY DEF WaitsInQueue
  <2>1. PICK rest : rest = RemoveAt(queue, i)
    OBVIOUS
  <2>2. /\ run[x].pc = "queued" /\ x # queue[i] /\ queue' = Shift(rest)
        /\ rest # <<>> => x # rest[1]
    BY <1>4, <2>1 DEF Drops
  <2>3. PICK k \in DOMAIN queue : queue[k] = x
    BY <2>2 DEF WaitsInQueue
  <2>4. rest \in Seq(Runs) /\ Len(rest) = Len(queue) - 1
    BY <2>1, RestFacts
  <2>5. PICK j \in 1 .. Len(rest) : rest[j] = x
    <3>1. k # i /\ k \in 1 .. Len(queue) /\ i \in 1 .. Len(queue) /\ Len(queue) \in Nat
      BY <2>2, <2>3, QueueFacts
    <3>2. \A j \in 1 .. Len(queue) - 1 : rest[j] = IF j < i THEN queue[j] ELSE queue[j + 1]
      BY <2>1, <3>1, RemoveAtProperties DEF QueueInv
    <3>3. CASE k < i
      BY <2>3, <2>4, <3>1, <3>2, <3>3
    <3>4. CASE k > i
      <4>0. k - 1 \in 1 .. Len(queue) - 1 /\ (k - 1) + 1 = k /\ ~(k - 1 < i)
        BY <3>1, <3>4
      <4>1. PICK m \in 1 .. Len(queue) - 1 : m + 1 = k /\ ~(m < i)
        BY <4>0
      <4>2. rest[m] = queue[m + 1]
        BY <3>2, <4>1
      <4> QED BY <2>3, <2>4, <4>1, <4>2
    <3> QED BY <3>1, <3>3, <3>4
  <2>6. rest # <<>> /\ j # 1 /\ Len(rest) \in Nat
    BY <2>2, <2>4, <2>5, ShiftFacts
  <2>7. PICK m \in 1 .. Len(rest) - 1 : m + 1 = j
    BY <2>5, <2>6
  <2>8. queue'[m] = rest[m + 1] /\ m \in DOMAIN queue'
    <3>1. /\ Shift(rest) \in Seq(Runs) /\ Len(Shift(rest)) = Len(rest) - 1
          /\ \A n \in 1 .. Len(rest) - 1 : Shift(rest)[n] = rest[n + 1]
      BY <2>4, <2>6, ShiftFacts
    <3>2. DOMAIN Shift(rest) = 1 .. Len(rest) - 1
      BY <3>1, LenProperties
    <3> QED BY <2>2, <3>1, <3>2
  <2> QED BY <2>5, <2>7, <2>8
<1> QED BY <1>1, <1>2, <1>3, <1>4 DEF QueueStep

-----------------------------------------------------------------------------
(* An idle execution stays idle.                                           *)

LEMMA RunRests ==
    ASSUME QueueInv, QueueStep, CutStep, stage' = stage, NEW x \in Runs, Rests(x),
           run[x].pc = "none" => run'[x].pc = "none"
    PROVE  Rests(x)'
<1> SUFFICES (run'[x].pc \in Ended \cup {"none"} \/ (run'[x].pc = "queued" /\ ~Enabled'))
  <2>1. run'[x].cut # "parking"
    BY DEF CutStep, Rests, Ended
  <2> QED BY <2>1 DEF Rests, Enabled
<1>1. Enabled' <=> Enabled
  BY DEF Enabled
<1>2. CASE LeavesQueue
  BY <1>1, <1>2 DEF LeavesQueue, GoesOn, Registers, Ahead, Early, Ended, Rests
<1>3. ASSUME NEW r \in Runs, Takes(r) 
      PROVE  run'[x].pc \in Ended \cup {"none"} \/ (run'[x].pc = "queued" /\ ~Enabled')
  <2>1. x # r => run'[x].pc = run[x].pc
    BY <1>3 DEF Takes
  <2>2. x = r => run[x].pc = "none"
    BY <1>3 DEF Takes
  <2> QED BY <1>1, <2>1, <2>2 DEF Rests
<1>4. ASSUME NEW r \in Runs, Gives(r) 
      PROVE  run'[x].pc \in Ended \cup {"none"} \/ (run'[x].pc = "queued" /\ ~Enabled')
  <2>1. Enabled /\ queue # <<>> /\ x = queue[1] => run[x].pc = "queued"
    BY QueueFacts, ShiftFacts DEF QueueInv
  <2>2. Ahead(run', x) \/ (Enabled /\ queue # <<>> /\ x = queue[1])
    BY <1>4 DEF Gives
  <2> QED BY <1>1, <2>1, <2>2 DEF Ahead, Early, Ended, Rests
<1>5. ASSUME NEW i \in DOMAIN queue, Drops(i) 
      PROVE  run'[x].pc \in Ended \cup {"none"} \/ (run'[x].pc = "queued" /\ ~Enabled')
  <2>1. PICK rest : rest = RemoveAt(queue, i)
    OBVIOUS
  <2>2. rest # <<>> => run[rest[1]].pc = "queued"
    BY <2>1, RestFacts, ShiftFacts
  <2>3. /\ Enabled /\ run'[queue[i]].pc = "removed"
        /\ x # queue[i] => IF rest # <<>> /\ x = rest[1] THEN run'[x].pc = "admitted"
                                                      ELSE run'[x].pc = run[x].pc
    BY <1>5, <2>1 DEF Drops
  <2> QED BY <1>1, <2>2, <2>3 DEF Ended, Rests
<1> QED BY <1>2, <1>3, <1>4, <1>5 DEF QueueStep

\* The row of an idle execution, and what may make a run of it.
RowKept(o) ==
    /\ o \in late => o \in late'
    /\ db[o].status # "none" => db'[o].status # "none"
    /\ Idle(o) /\ db[o].status # "none" =>
          RowRests(o) /\ o \notin boot' \cup timers' \cup polled'

\* A run of an idle execution is none that goes on.
LEMMA IdleRun ==
    ASSUME NEW r \in Runs, Idle(r[1])
    PROVE  run[r].pc \in Ended \cup {"none", "queued"} /\ run[r].cut # "parking"
<1>1. r = <<r[1], r[2]>> /\ r[2] \in RunNo
  BY RunsFacts
<1> QED BY <1>1 DEF Idle, Rests

LEMMA RunKeepsRow ==
    ASSUME RestOK, NEW r \in Runs, RunStep(r), NEW o \in Execution
    PROVE  RowKept(o)
<1>0. r[1] \in Execution
  BY RunsFacts
<1>1. CASE CheckPasses(r) \/ PutToWait(r) \/ Finalize(r) \/ TimeOut(r)
  <2>1. UNCHANGED <<db, boot, timers, polled, late>> /\ log' \subseteq log
    BY <1>1 DEF CheckPasses, PutToWait, Finalize, TimeOut, CancelingLogged, history
  <2> QED BY <2>1 DEF RowKept, RowRests, Idle
<1>2. CASE Add(r) \/ CheckFails(r) \/ Begin(r)
  <2>1. /\ UNCHANGED <<boot, timers, polled, late>> /\ log' \subseteq log \cup {r[1]}
        /\ run[r].pc \in {"admitted", "added", "checked"}
    BY <1>2 DEF Add, CheckFails, Begin, history
  <2>2. ~Idle(r[1])
    BY <2>1, IdleRun DEF Ended
  <2>3. o # r[1] => db'[o] = db[o]
    BY <1>2 DEF Add, CheckFails, Begin, RestOK
  <2>4. db'[r[1]].status # "none"
    BY <1>0, <1>2 DEF Add, CheckFails, Begin, RestOK
  <2> QED BY <2>1, <2>2, <2>3, <2>4 DEF RowKept, RowRests, Idle
<1>3. CASE SaveProgress(r)
  <2>1. /\ UNCHANGED <<boot, timers, polled, late, log>>
        /\ run[r].pc \in {"executing", "stray", "parking"}
    BY <1>3 DEF SaveProgress, Executing, history
  <2>2. ~Idle(r[1])
    BY <2>1, IdleRun DEF Ended
  <2>3. db' = [db EXCEPT ![r[1]] = ProgressRow(db[r[1]])]
    BY <1>3 DEF SaveProgress
  <2>4. /\ o # r[1] => db'[o] = db[o]
        /\ db'[r[1]] = ProgressRow(db[r[1]]) /\ db[r[1]] \in [status : DbStatus, due : BOOLEAN]
    BY <1>0, <2>3 DEF RestOK
  <2>5. db[r[1]].status # "none" => db'[r[1]].status # "none"
    BY <2>4, ProgressRowIs
  <2> QED BY <2>1, <2>2, <2>4, <2>5 DEF RowKept, RowRests, Idle
<1>4. CASE Save(r)
  <2>1. UNCHANGED <<boot, timers, polled, late>> /\ log' \subseteq log
    BY <1>4 DEF Save, SavedLog, history
  <2>2. o # r[1] => db'[o] = db[o]
    BY <1>4 DEF Save, RestOK
  <2>3. CASE run[r].pc \in {"executing", "stray", "parking"}
    <3>1. PICK row \in SavedRow(db[r[1]], run[r].pc) : db' = [db EXCEPT ![r[1]] = row]
      BY <1>4, <2>3 DEF Save
    <3>2. db'[r[1]] = row /\ db[r[1]] \in [status : DbStatus, due : BOOLEAN]
      BY <1>0, <3>1 DEF RestOK
    <3>3. db'[r[1]].status # "none"
      BY <3>2, SavedRowIs
    <3>4. ~Idle(r[1])
      BY <2>3, IdleRun DEF Ended
    <3> QED BY <2>1, <2>2, <3>3, <3>4 DEF RowKept, RowRests, Idle
  <2>4. CASE run[r].pc \notin {"executing", "stray", "parking"}
    <3>1. db' = [db EXCEPT ![r[1]].status = "canceled"]
      BY <1>4, <2>4 DEF Save
    <3>2. db'[r[1]].status = "canceled" /\ db'[r[1]].due = db[r[1]].due
      BY <1>0, <3>1 DEF RestOK
    <3> QED BY <2>1, <2>2, <3>2 DEF RowKept, RowRests, Idle
  <2> QED BY <2>3, <2>4
<1>5. CASE NodeReturns(r)
  <2>1. /\ UNCHANGED <<boot, timers, polled>> /\ late \subseteq late'
        /\ UNCHANGED <<db, log, late>> \/ (log' \subseteq log \cup {r[1]} /\ r[1] \in late')
    BY <1>5 DEF NodeReturns, SavedLog
  <2>2. o # r[1] => db'[o] = db[o]
    BY <1>5 DEF NodeReturns, RestOK
  <2>3. PICK row : row = db[r[1]] /\ row \in [status : DbStatus, due : BOOLEAN]
    BY <1>0 DEF RestOK
  <2>4. \/ db' = db
        \/ db' = [db EXCEPT ![r[1]] = ProgressRow(row)]
        \/ \E new \in SavedRow(row, run[r].cut) : db' = [db EXCEPT ![r[1]] = new]
    BY <1>5, <2>3 DEF NodeReturns
  <2>5. \/ db' = db
        \/ db'[r[1]] = ProgressRow(row)
        \/ db'[r[1]] \in SavedRow(row, run[r].cut)
    BY <1>0, <2>4 DEF RestOK
  <2>6. CASE db' = db
    BY <2>1, <2>6 DEF RowKept, RowRests, Idle
  <2>7. CASE db' # db
    <3>1. r[1] \in late'
      BY <2>1, <2>7
    <3>2. /\ row.status # "none" => db'[r[1]].status # "none"
          /\ db'[r[1]].status \in {row.status, "running", "success", "error", "waiting"}
          /\ db'[r[1]].due = row.due \/ run[r].cut = "parking"
      <4>1. CASE db'[r[1]] = ProgressRow(row)
        BY <2>3, <4>1, ProgressRowIs
      <4>2. CASE db'[r[1]] \in SavedRow(row, run[r].cut)
        <5>1. PICK st \in {"success", "error", "waiting"}, d \in BOOLEAN :
                db'[r[1]] = [status |-> st, due |-> d] /\ (d = row.due \/ run[r].cut = "parking")
          BY <2>3, <4>2, SavedRowIs
        <5> QED BY <5>1
      <4> QED BY <2>5, <2>7, <4>1, <4>2
    <3>3. Idle(r[1]) => run[r].cut # "parking"
      BY IdleRun
    <3>4. o = r[1] /\ Idle(o) /\ db[o].status # "none" => RowRests(o)
      BY <2>1, <2>3, <2>7, <3>1, <3>2, <3>3 DEF RowRests
    <3>5. o # r[1] => RowRests(o)
      BY <2>1, <2>2 DEF RowRests
    <3>6. db[o].status # "none" => db'[o].status # "none"
      BY <2>2, <2>3, <3>2
    <3> QED BY <2>1, <3>4, <3>5, <3>6 DEF RowKept, Idle
  <2> QED BY <2>6, <2>7
<1> QED BY <1>1, <1>2, <1>3, <1>4, <1>5 DEF RunStep

LEMMA StepKeepsRow ==
    ASSUME RestOK, Next, ~Shutdown, ~Exit, ~Crash, ~Restart, ~PollQuery, NEW o \in Execution
    PROVE  RowKept(o)
<1>1. ASSUME NEW e \in Execution, StartNew(e) PROVE RowKept(o)
  <2>1. /\ UNCHANGED <<boot, timers, polled, late>> /\ log' \subseteq log
        /\ db[e].status = "none" /\ db' = [db EXCEPT ![e].status = "new"]
    BY <1>1 DEF StartNew, ThrottleRun, history
  <2>2. /\ o # e => db'[o] = db[o]
        /\ db'[e].status = "new"
    BY <2>1 DEF RestOK
  <2> QED BY <2>1, <2>2 DEF RowKept, RowRests, Idle
<1>2. ASSUME NEW e \in Execution, RunEnqueued(e) \/ Resume(e) PROVE RowKept(o)
  <2>1. /\ UNCHANGED <<db, polled, late>> /\ boot' \subseteq boot /\ timers' \subseteq timers
        /\ log' \subseteq log
    BY <1>2 DEF RunEnqueued, Resume, ThrottleRun, history
  <2> QED BY <2>1 DEF RowKept, RowRests, Idle
<1>3. ASSUME NEW r \in Runs, RunStep(r) PROVE RowKept(o)
  BY <1>3, RunKeepsRow
<1>4. ASSUME NEW e \in Execution, StopCheck(e) \/ StopAct(e) PROVE RowKept(o)
  <2>1. /\ UNCHANGED <<db, polled, boot, late>> /\ timers' \subseteq timers /\ log' \subseteq log
    BY <1>4 DEF StopCheck, StopAct, CancelingLogged, history
  <2> QED BY <2>1 DEF RowKept, RowRests, Idle
<1>5. ASSUME NEW e \in Execution, StopWrite(e) PROVE RowKept(o)
  <2>1. UNCHANGED <<polled, boot, timers, late, log>>
    BY <1>5 DEF StopWrite, history
  <2>2. PICK d \in BOOLEAN : /\ db' = [db EXCEPT ![e] = [status |-> "canceled", due |-> d]]
                             /\ d => db[e].due
    BY <1>5 DEF StopWrite, RestOK
  <2>3. IF o = e THEN db'[o].status = "canceled" /\ db'[o].due = d ELSE db'[o] = db[o]
    BY <2>2 DEF RestOK
  <2> QED BY <2>1, <2>2, <2>3 DEF RowKept, RowRests, Idle
<1>6. CASE PollApply
  BY <1>6 DEF PollApply, RowKept, RowRests, Idle, history
<1> QED BY <1>1, <1>2, <1>3, <1>4, <1>5, <1>6 DEF Next

LEMMA RunsStayIdle ==
    ASSUME IInv, Next, ~Shutdown, ~Exit, ~Crash, ~Restart,
           NEW o \in Execution, Idle(o), db[o].status # "none", NEW k \in RunNo
    PROVE  Rests(<<o, k>>)'
<1>1. PICK x \in Runs : x = <<o, k>> /\ x[1] = o
  BY RunsFacts
<1>2. Rests(x)
  BY <1>1 DEF Idle
<1>3. run[x].pc = "none" => run'[x].pc = "none"
  <2>1. ASSUME NEW e \in Execution, StartNew(e) \/ RunEnqueued(e) \/ Resume(e), OnlyBegins(e)
        PROVE  run'[x].pc = run[x].pc
    <3>1. e # o
      BY <2>1 DEF StartNew, RunEnqueued, Resume, Idle
    <3> QED BY <1>1, <2>1, <3>1 DEF OnlyBegins
  <2> QED BY <2>1, ActionStep DEF NoneBegins
<1>4. QueueInv /\ QueueStep /\ CutStep /\ stage' = stage
  BY ActionStep DEF StepOK, IInv
<1>5. Rests(x)'
  BY <1>2, <1>3, <1>4, RunRests
<1> QED BY <1>1, <1>5

LEMMA IdleStays ==
    ASSUME IInv, Next, ~Shutdown, ~Exit, ~Crash, ~Restart, ~PollQuery, NEW o \in Execution
    PROVE  StaysIdle(o)
<1>1. RowKept(o)
  BY TypeParts, StepKeepsRow DEF IInv
<1>2. Idle(o) /\ db[o].status # "none" => \A k \in RunNo : Rests(<<o, k>>)'
  BY RunsStayIdle
<1> QED BY <1>1, <1>2 DEF RowKept, StaysIdle, Idle

-----------------------------------------------------------------------------
(* What the steps do to an execution that was stopped.                     *)

\* One execution, at a step that is no part of a stop of it.
LEMMA OneReached ==
    ASSUME NEW e \in Execution, Reached(e), StaysIdle(e), stop'[e] = stop[e],
           e \in held' => e \in held
    PROVE  Reached(e)' /\ StaysCanceled(e)
<1>1. e \in held => /\ Idle(e) /\ db[e].status # "none"
                    /\ Idle(e)' /\ RowRests(e) /\ db'[e].status # "none"
  BY DEF Reached, StaysIdle
<1>2. e \in held' => Silent(e)'
  BY <1>1 DEF Reached, RowRests, Silent, StaysIdle
<1>3. e \in held' => (db'[e].due => stop'[e] = "during")
  BY <1>1 DEF Reached, RowRests
<1>4. e \in held' /\ stop'[e] = "none" =>
        IF e \in late' THEN db'[e].status \notin {"none", "new"} ELSE db'[e].status = "canceled"
  BY <1>1 DEF Reached, RowRests, StaysIdle
<1>5. StaysCanceled(e)
  BY <1>1 DEF RowRests, StaysCanceled
<1> QED BY <1>1, <1>2, <1>3, <1>4, <1>5 DEF Reached, StaysIdle

LEMMA OtherReached ==
    ASSUME StopsInv, \A e \in Execution : StaysIdle(e), stop' = stop, held' \subseteq held
    PROVE  ReachedStep
<1>1. ASSUME NEW e \in Execution
      PROVE  Reached(e)' /\ StaysCanceled(e)
  BY OneReached DEF StopsInv
<1> QED BY <1>1 DEF ReachedStep, StopsInv

\* The other executions, at a step of a stop.
LEMMA OthersReached ==
    ASSUME StopsInv, \A o \in Execution : StaysIdle(o), NEW e \in Execution, Reached(e)',
           \A o \in Execution \ {e} : stop'[o] = stop[o],
           held' \subseteq held \cup {e},
           StaysCanceled(e)
    PROVE  ReachedStep
<1>1. ASSUME NEW o \in Execution, o # e
      PROVE  Reached(o)' /\ StaysCanceled(o)
  BY <1>1, OneReached DEF StopsInv
<1> QED BY <1>1 DEF ReachedStep, StopsInv

LEMMA StopCheckReached ==
    ASSUME StopsInv, RestOK, \A o \in Execution : StaysIdle(o), NEW e \in Execution, StopCheck(e)
    PROVE  ReachedStep
<1>1. /\ db[e].status \in Stoppable /\ stop[e] = "none" /\ held' = held /\ db' = db
      /\ stop'[e] = "checked" /\ \A o \in Execution \ {e} : stop'[o] = stop[o]
  BY DEF StopCheck, RestOK
<1>2. StaysCanceled(e) /\ UNCHANGED <<log, late>>
  BY <1>1 DEF StaysCanceled, StopCheck
<1>3. e \in held => e \in late /\ Idle(e)'
  <2>1. e \in held => Idle(e) /\ db[e].status # "none"
    BY <1>1 DEF StopsInv, Reached, Stoppable
  <2> QED BY <1>1, <2>1 DEF StopsInv, Reached, Stoppable, StaysIdle
<1>4. e \in held => ~db[e].due
  BY <1>1 DEF StopsInv, Reached
<1>5. db[e].status # "none" /\ (e \in late => e \in late')
  BY <1>1, <1>2 DEF Stoppable
<1>6. Reached(e)'
  BY <1>1, <1>3, <1>4, <1>5 DEF Reached, Silent
<1> QED BY <1>1, <1>2, <1>6, OthersReached

\* What a stop removes from the queue was the one place of the execution there.
LEMMA LeavingRests ==
    ASSUME StopsInv, NEW e \in Execution, InQueue(e), LeaveQueue(e), ~OutOfReach(e), stage' = stage,
           NEW k \in RunNo
    PROVE  Rests(<<e, k>>)' /\ run[<<e, k>>].pc # "executing"
<1>0. QueueInv /\ WaitsInQueue /\ Enabled
  BY DEF StopsInv, IInv, InQueue
<1>1. PICK x \in Runs : x = <<e, k>> /\ x[1] = e
  BY RunsFacts
<1>a. PICK i \in DOMAIN queue :
        /\ queue[i][1] = e
        /\ run' = Admit([run EXCEPT ![queue[i]].pc = "removed"], RemoveAt(queue, i))
  BY DEF LeaveQueue
<1>b. PICK rest : rest = RemoveAt(queue, i)
  OBVIOUS
<1>2. /\ queue[i][1] = e /\ rest = RemoveAt(queue, i)
      /\ run' = Admit([run EXCEPT ![queue[i]].pc = "removed"], rest)
  BY <1>a, <1>b
<1>3. queue[i] \in Runs /\ run[queue[i]].pc = "queued"
  BY <1>0, QueueFacts
<1>4. run[x].pc = "queued" => x = queue[i]
  <2>1. SUFFICES ASSUME run[x].pc = "queued" PROVE x = queue[i]
    OBVIOUS
  <2>2. PICK j \in DOMAIN queue : queue[j] = x
    BY <1>0, <2>1 DEF WaitsInQueue
  <2>3. i = j
    BY <1>1, <1>2, <2>2 DEF OutOfReach
  <2> QED BY <2>2, <2>3
<1>5. run[x].pc \in Ended \cup {"none", "queued"}
  <2>1. run[x].pc \notin {"admitted", "added", "checked", "stray", "parking", "executing"}
    BY <1>1 DEF OutOfReach
  <2>2. run[x].pc \in Step
    BY <1>0 DEF QueueInv, RunRecord
  <2> QED BY <2>1, <2>2 DEF Step, Ended
<1>6. rest # <<>> => rest[1] \in Runs /\ Head(rest) = rest[1] /\ run[rest[1]].pc = "queued"
                     /\ rest[1] # queue[i]
  BY <1>0, <1>2, RestFacts, ShiftFacts
<1>7. rest # <<>> => x # rest[1]
  BY <1>4, <1>6
<1>8. PICK R : Moves(R, run, queue[i], "removed")
  BY DEF Moves
<1>9. /\ R \in [Runs -> RunRecord]
      /\ \A y \in Runs : /\ R[y].pc = IF y = queue[i] THEN "removed" ELSE run[y].pc
                         /\ R[y].cut = run[y].cut
  <2>1. run \in [Runs -> RunRecord] /\ "removed" \in Step
    BY <1>0 DEF QueueInv, Step
  <2> QED BY <1>3, <1>8, <2>1, RunMoves
<1>10. run'[x].pc = R[x].pc /\ run'[x].cut = R[x].cut
  <2>1. CASE rest = <<>>
    BY <1>2, <1>8, <2>1 DEF Moves, Admit
  <2>2. CASE rest # <<>>
    <3>1. Moves(run', R, rest[1], "admitted")
      BY <1>2, <1>6, <1>8, <2>2 DEF Moves, Admit
    <3> QED BY <1>6, <1>7, <1>9, <2>2, <3>1, RunMoves DEF Step
  <2> QED BY <2>1, <2>2
<1>11. run[x].cut # "parking"
  BY <1>1 DEF OutOfReach
<1>12. Rests(x)'
  BY <1>4, <1>5, <1>9, <1>10, <1>11 DEF Rests, Ended
<1> QED BY <1>1, <1>5, <1>12 DEF Ended

\* A promise that settles leaves the other runs where they are, but for the head of
\* the queue.
LEMMA SettlingMoves ==
    ASSUME QueueInv, NEW R \in [Runs -> RunRecord], NEW r \in Runs, SettlePromise(R, r),
           NEW x \in Runs, run[x].pc # "queued"
    PROVE  run'[x].pc = R[x].pc
<1>1. CASE R[r].promise # "pending"
  BY <1>1 DEF SettlePromise
<1>2. CASE R[r].promise = "pending"
  <2>1. PICK S \in [Runs -> RunRecord] : S = [R EXCEPT ![r].promise = "settled"]
    BY DEF RunRecord
  <2>2. S[x].pc = R[x].pc /\ ReleaseSlot(S)
    BY <1>2, <2>1 DEF SettlePromise, RunRecord
  <2>3. CASE Enabled /\ queue # <<>>
    <3>1. PICK h \in Runs : h = queue[1] /\ Head(queue) = h /\ x # h
      BY <2>3, QueueFacts, ShiftFacts DEF QueueInv
    <3>2. Moves(run', S, h, "admitted") /\ "admitted" \in Step
      BY <2>2, <2>3, <3>1 DEF ReleaseSlot, Admit, Moves, Step
    <3>3. run'[x].pc = S[x].pc
      BY <3>1, <3>2, RunMoves
    <3> QED BY <2>2, <3>3
  <2>4. CASE ~(Enabled /\ queue # <<>>)
    BY <2>2, <2>4 DEF ReleaseSlot, Admit
  <2> QED BY <2>3, <2>4
<1> QED BY <1>1, <1>2

LEMMA CancelingRests ==
    ASSUME StopsInv, NEW e \in Execution, ~InQueue(e), StopActive(e), ~OutOfReach(e), stage' = stage,
           NEW k \in RunNo
    PROVE  /\ Rests(<<e, k>>)'
           /\ run[<<e, k>>].pc = "executing" => run'[<<e, k>>].pc = "canceling"
<1>0. QueueInv /\ WaitsInQueue /\ RestOK
  BY TypeParts DEF StopsInv, IInv
<1>1. PICK x \in Runs : x = <<e, k>> /\ x[1] = e
  BY RunsFacts
<1>2. CASE run[x].pc = "executing"
  <2>1. active[e] # 0 /\ run[<<e, active[e]>>].attached = k /\ run[<<e, active[e]>>].status # "waiting"
    BY <1>1, <1>2 DEF OutOfReach
  <2>2. PICK r \in Runs : r = <<e, active[e]>> /\ r[1] = e
    <3>1. active[e] \in RunNo
      BY <1>0, <2>1, BoundsAssumption DEF RestOK, RunNo
    <3>2. <<e, active[e]>> \in Runs
      BY <3>1, RunsFacts
    <3> QED BY <3>2
  <2>3. SettlePromise(CancelAttached(run, r), r) /\ run[r].attached = k
    BY <2>1, <2>2 DEF StopActive
  <2>4. CancelAttached(run, r) = Canceled(run, x)
    <3>1. k # 0
      BY BoundsAssumption DEF RunNo
    <3>2. CancelAttached(run, r) = Canceled(run, x)
      BY <1>1, <2>2, <2>3, <3>1 DEF CancelAttached
    <3> QED BY <3>2
  <2>5. PICK R : R = CancelAttached(run, r)
    OBVIOUS
  <2>6. R \in [Runs -> RunRecord] /\ R[x].pc = "canceling"
    BY <1>0, <1>2, <2>4, <2>5, CanceledRun DEF QueueInv
  <2>7. run'[x].pc = "canceling"
    BY <1>0, <1>2, <2>3, <2>5, <2>6, SettlingMoves
  <2>8. run'[x].cut # "parking"
    BY <1>0, <1>1, <1>2, StopActiveGives DEF OutOfReach, CutStep
  <2> QED BY <1>1, <2>7, <2>8 DEF Rests, Ended
<1>3. CASE run[x].pc # "executing"
  <2>1. run[x].pc \notin {"admitted", "added", "checked", "stray", "parking"}
    BY <1>1 DEF OutOfReach
  <2>2. run[x].pc = "queued" => ~Enabled
    <3>1. SUFFICES ASSUME run[x].pc = "queued", Enabled PROVE FALSE
      OBVIOUS
    <3>2. PICK i \in DOMAIN queue : queue[i] = x
      BY <1>0, <3>1 DEF WaitsInQueue
    <3> QED BY <1>1, <3>1, <3>2 DEF InQueue
  <2>3. run[x].pc \in Step
    BY <1>0 DEF QueueInv, RunRecord
  <2>4. Rests(x)
    <3>1. run[x].cut # "parking"
      BY <1>1 DEF OutOfReach
    <3> QED BY <1>3, <2>1, <2>2, <2>3, <3>1 DEF Step, Rests, Ended
  <2>5. (LeavesQueue \/ \E q \in Runs : Gives(q)) /\ CutStep
    BY <1>0, StopActiveGives
  <2>6. QueueStep /\ (run[x].pc = "none" => run'[x].pc = "none")
    BY <1>0, <2>5, NoneStays DEF QueueStep
  <2>7. Rests(x)'
    BY <1>0, <2>4, <2>5, <2>6, RunRests
  <2> QED BY <1>1, <1>3, <2>7
<1> QED BY <1>2, <1>3

LEMMA StopActReached ==
    ASSUME StopsInv, \A o \in Execution : StaysIdle(o), NEW e \in Execution, StopAct(e)
    PROVE  ReachedStep
<1>0. RestOK
  BY TypeParts DEF StopsInv, IInv
<1>1. /\ stop[e] = "checked" /\ db' = db /\ boot' = boot /\ polled' = polled /\ stage' = stage
      /\ stop'[e] = IF InQueue(e) THEN "before" ELSE "during"
      /\ timers' = IF InQueue(e) THEN timers ELSE timers \ {e}
      /\ \A o \in Execution \ {e} : stop'[o] = stop[o]
      /\ held' = IF OutOfReach(e) THEN held ELSE held \cup {e}
  BY <1>0 DEF StopAct, RestOK
<1>2. db[e].status # "none" /\ late' = late /\ StaysCanceled(e)
  BY <1>1 DEF StopsInv, Reached, StopAct, StaysCanceled
<1>3. ASSUME ~OutOfReach(e) PROVE Idle(e)' /\ (db[e].due => ~InQueue(e)) /\ Silent(e)'
  <2>1. e \notin boot \cup polled /\ (InQueue(e) => e \notin timers /\ ~db[e].due)
    BY <1>3 DEF OutOfReach
  <2>2. \A k \in RunNo : /\ Rests(<<e, k>>)'
                         /\ run[<<e, k>>].pc = "executing" => run'[<<e, k>>].pc = "canceling"
    <3>1. CASE InQueue(e)
      BY <1>1, <1>3, <3>1, LeavingRests DEF StopAct
    <3>2. CASE ~InQueue(e)
      BY <1>1, <1>3, <3>2, CancelingRests DEF StopAct
    <3> QED BY <3>1, <3>2
  <2>3. Silent(e)'
    <3> SUFFICES ASSUME e \notin late, ~CanWait, e \in log' PROVE FALSE
      BY <1>2 DEF Silent
    <3>1. e \in log /\ \A k \in RunNo : run'[<<e, k>>].pc = "canceling" => run[<<e, k>>].pc = "canceling"
      BY DEF StopAct, CancelingLogged
    <3>2. Working(e) \/ Gone(e)
      BY <3>1 DEF StopsInv, LogInv, StopAct
    <3>3. PICK k \in RunNo : run[<<e, k>>].pc \in {"executing", "stray"}
      BY <1>1, <3>2 DEF Working, Gone
    <3>4. run[<<e, k>>].pc # "stray"
      BY <1>3 DEF OutOfReach
    <3> QED BY <2>2, <3>1, <3>3, <3>4
  <2> QED BY <1>1, <2>1, <2>2, <2>3 DEF Idle
<1>4. ASSUME e \in held PROVE Idle(e)' /\ (db[e].due => ~InQueue(e)) /\ Silent(e)'
  <2>1. Idle(e) /\ e \in late /\ ~db[e].due
    BY <1>1, <1>4 DEF StopsInv, Reached
  <2> QED BY <1>2, <2>1 DEF StaysIdle, Silent
<1>5. Reached(e)'
  BY <1>1, <1>2, <1>3, <1>4 DEF Reached
<1> QED BY <1>1, <1>2, <1>5, OthersReached

LEMMA StopWriteReached ==
    ASSUME StopsInv, \A o \in Execution : StaysIdle(o), NEW e \in Execution, StopWrite(e)
    PROVE  ReachedStep
<1>0. RestOK
  BY TypeParts DEF StopsInv, IInv
<1>1. /\ stop[e] \in {"before", "during"} /\ stop'[e] = "none"
      /\ held' = held /\ UNCHANGED <<run, boot, timers, polled, stage, log, late>>
      /\ \A o \in Execution \ {e} : stop'[o] = stop[o]
  BY <1>0 DEF StopWrite, RestOK, history
<1>2. db'[e].status = "canceled" /\ (db'[e].due => stop[e] = "before" /\ db[e].due)
  <2>1. PICK d \in BOOLEAN :
          /\ db' = [db EXCEPT ![e] = [status |-> "canceled", due |-> d]]
          /\ d => stop[e] = "before" /\ db[e].due
    BY <1>0 DEF StopWrite, RestOK
  <2> QED BY <1>0, <2>1 DEF RestOK
<1>3. Idle(e) => Idle(e)'
  BY <1>1 DEF Idle, Rests, Enabled
<1>4. Reached(e)'
  BY <1>1, <1>2, <1>3 DEF StopsInv, Reached, Silent
<1> QED BY <1>1, <1>2, <1>4, OthersReached DEF StaysCanceled

\* A poll that reads the row of a stop which has not written yet takes it out of
\* reach; it reads no other that was stopped.
LEMMA PollQueryReached ==
    ASSUME StopsInv, PollQuery
    PROVE  ReachedStep
<1>1. /\ polled' = Due \ timers /\ held' = {e \in held : e \in polled' => stop[e] # "during"}
      /\ UNCHANGED <<db, run, timers, stop, boot, stage, log, late>>
  BY DEF PollQuery
<1>2. ASSUME NEW e \in Execution PROVE Reached(e)'
  <2>1. Reached(e) /\ (e \in polled' => db[e].due)
    BY <1>1 DEF StopsInv, Due
  <2>2. e \in held' => e \in held /\ e \notin polled'
    BY <1>1, <2>1 DEF Reached
  <2>3. e \in held' => Idle(e)'
    BY <1>1, <2>1, <2>2 DEF Reached, Idle, Rests, Enabled
  <2> QED BY <1>1, <2>1, <2>2, <2>3 DEF Reached, Silent
<1> QED BY <1>1, <1>2 DEF ReachedStep, StopsInv, StaysCanceled

LEMMA ActionReached ==
    ASSUME StopsInv, Next, ~Shutdown, ~Exit, ~Crash, ~Restart
    PROVE  ReachedStep
<1>0. ~PollQuery => \A o \in Execution : StaysIdle(o)
  BY IdleStays DEF StopsInv
<1>1. ASSUME NEW e \in Execution, StartNew(e) \/ RunEnqueued(e) \/ Resume(e), ~PollQuery
      PROVE  ReachedStep
  BY <1>0, <1>1, OtherReached DEF StartNew, RunEnqueued, Resume, history
<1>2. ASSUME NEW r \in Runs, RunStep(r), ~PollQuery PROVE ReachedStep
  BY <1>0, <1>2, OtherReached DEF RunStep, Add, CheckPasses, CheckFails, Begin, PutToWait,
     SaveProgress, Save, NodeReturns, Finalize, TimeOut, history
<1>3. ASSUME NEW e \in Execution, StopCheck(e) \/ StopAct(e) \/ StopWrite(e), ~PollQuery
      PROVE  ReachedStep
  BY <1>0, <1>3, TypeParts, StopCheckReached, StopActReached, StopWriteReached DEF StopsInv, IInv
<1>4. CASE PollApply /\ ~PollQuery
  BY <1>0, <1>4, OtherReached DEF PollApply, history
<1> QED BY <1>1, <1>2, <1>3, <1>4, PollQueryReached DEF Next

-----------------------------------------------------------------------------
(* What the log has unfinished.                                            *)

\* A run that executes goes on, or its execution leaves the log.
LEMMA WorkGoesOn ==
    ASSUME IInv, ~CanWait, Next, ~Shutdown, ~Exit, ~Crash, ~Restart,
           NEW x \in Runs, run[x].pc \in {"executing", "stray"}
    PROVE  run'[x].pc \in {"executing", "stray"} \/ x[1] \notin log'
<1>0. /\ QueueInv /\ RestOK /\ Fresh /\ x = <<x[1], x[2]>> /\ x[1] \in Execution /\ x[2] \in RunNo
      /\ run \in [Runs -> RunRecord]
  BY TypeParts, RunsFacts DEF IInv, QueueInv
<1>1. ASSUME NEW e \in Execution, StartNew(e) \/ RunEnqueued(e) \/ Resume(e), OnlyBegins(e)
      PROVE  run'[x].pc = run[x].pc
  <2>1. e # x[1]
    BY <1>0, <1>1 DEF Fresh, StartNew, RunEnqueued, Resume
  <2> QED BY <1>1, <2>1 DEF OnlyBegins
<1>2. ASSUME NEW e \in Execution, StopActive(e), CancelingLogged
      PROVE  run'[x].pc = run[x].pc \/ x[1] \notin log'
  <2>1. CASE run' = run
    BY <2>1
  <2>2. CASE run' # run
    <3>1. active[e] # 0 /\ active[e] \in RunNo
      BY <1>0, <1>2, <2>2, BoundsAssumption DEF StopActive, RestOK, RunNo
    <3>2. PICK r \in Runs : r = <<e, active[e]>>
      BY <3>1, RunsFacts
    <3>3. SettlePromise(CancelAttached(run, r), r)
      BY <1>2, <2>2, <3>1, <3>2 DEF StopActive
    <3>4. PICK R \in [Runs -> RunRecord] :
            R = CancelAttached(run, r) /\ R[x].pc \in {run[x].pc, "canceling"}
      <4>1. CASE run[r].attached = 0
        BY <1>0, <4>1 DEF CancelAttached
      <4>2. CASE run[r].attached # 0
        <5>1. PICK a \in Runs : a = <<r[1], run[r].attached>>
          <6>1. run[r].attached \in RunNo
            BY <1>0, <4>2, BoundsAssumption DEF RunRecord, RunNo
          <6> QED BY <6>1, RunsFacts
        <5> QED BY <1>0, <4>2, <5>1, CanceledRun DEF CancelAttached
      <4> QED BY <4>1, <4>2
    <3>5. run'[x].pc = R[x].pc
      BY <1>0, <3>3, <3>4, SettlingMoves
    <3>6. run'[x].pc = "canceling" => x[1] \notin log'
      BY <1>0, <1>2 DEF CancelingLogged
    <3> QED BY <3>4, <3>5, <3>6
  <2> QED BY <2>1, <2>2
<1>3. ASSUME NEW r \in Runs, RunStep(r)
      PROVE  run'[x].pc \in {"executing", "stray"} \/ x[1] \notin log'
  <2>1. CASE Add(r) \/ CheckPasses(r) \/ CheckFails(r)
    <3>1. OthersStay(r) /\ run[r].pc \in {"admitted", "added"}
      BY <1>0, <2>1, AddStep, CheckPassesStep, CheckFailsStep DEF Add, CheckPasses, CheckFails
    <3> QED BY <3>1 DEF OthersStay
  <2>2. CASE Begin(r)
    <3>1. OthersStay(r) /\ run[r].pc = "checked"
      BY <1>0, <2>2, BeginStep DEF Begin
    <3> QED BY <3>1 DEF OthersStay
  <2>3. CASE Save(r)
    <3>1. OthersStay(r)
      BY <1>0, <2>3, SaveStep DEF IInv
    <3>2. run[r].pc \in {"executing", "stray"} => r[1] \notin log'
      BY <2>3 DEF Save, SavedLog
    <3> QED BY <3>1, <3>2 DEF OthersStay
  <2>4. CASE SaveProgress(r) \/ NodeReturns(r)
    <3>1. run'[x].pc = run[x].pc
      BY <1>0, <2>4, NodeReturnsRuns DEF SaveProgress
    <3> QED BY <3>1
  <2>5. CASE Finalize(r)
    <3>1. PICK p \in {"closing", "over"} : p = IF run[r].pc = "canceling" THEN "closing" ELSE "over"
      OBVIOUS
    <3>2. PICK R \in [Runs -> RunRecord] :
            /\ R = [run EXCEPT ![r].pc = p]
            /\ R = [run EXCEPT ![r].pc = IF @ = "canceling" THEN "closing" ELSE "over"]
      <4>1. PICK R \in [Runs -> RunRecord] : R = [run EXCEPT ![r].pc = p]
        BY <1>0, MovedRun DEF Step
      <4>2. R = [run EXCEPT ![r].pc = IF @ = "canceling" THEN "closing" ELSE "over"]
        BY <3>1, <4>1
      <4> QED BY <4>1, <4>2
    <3>3. R[x].pc = run[x].pc
      <4>1. x # r
        BY <2>5 DEF Finalize
      <4> QED BY <1>0, <3>2, <4>1
    <3>4. CASE active[r[1]] = 0
      BY <2>5, <3>2, <3>3, <3>4 DEF Finalize
    <3>5. CASE active[r[1]] # 0
      <4>1. PICK q \in Runs : q = <<r[1], active[r[1]]>>
        <5>1. active[r[1]] \in RunNo
          BY <1>0, <3>5, RunsFacts, BoundsAssumption DEF RestOK, RunNo
        <5> QED BY <5>1, RunsFacts
      <4>2. SettlePromise(R, q)
        BY <2>5, <3>2, <3>5, <4>1 DEF Finalize
      <4>3. run'[x].pc = R[x].pc
        BY <1>0, <4>2, SettlingMoves
      <4> QED BY <3>3, <4>3
    <3> QED BY <3>4, <3>5
  <2>6. CASE TimeOut(r)
    BY <1>2, <2>6, RunsFacts DEF TimeOut
  <2> QED BY <1>3, <2>1, <2>2, <2>3, <2>4, <2>5, <2>6 DEF RunStep, PutToWait
<1>4. ASSUME NEW e \in Execution, StopAct(e)
      PROVE  run'[x].pc = run[x].pc \/ x[1] \notin log'
  <2>1. CASE InQueue(e)
    <3>1. PICK i \in DOMAIN queue : Drops(i)
      BY <1>0, <1>4, <2>1, LeaveQueueDrops DEF StopAct, InQueue
    <3>2. PICK rest : rest = RemoveAt(queue, i)
      OBVIOUS
    <3>3. x # queue[i]
      BY <1>0, QueueFacts
    <3>4. rest # <<>> => x # rest[1]
      <4>1. rest \in Seq(Runs) /\ \A j \in DOMAIN rest : run[rest[j]].pc = "queued"
        BY <1>0, <3>1, <3>2, RestFacts
      <4>2. rest # <<>> => 1 \in DOMAIN rest
        BY <4>1, ShiftFacts
      <4> QED BY <1>0, <4>1, <4>2
    <3> QED BY <1>0, <3>1, <3>2, <3>3, <3>4 DEF Drops
  <2>2. CASE ~InQueue(e)
    BY <1>2, <1>4, <2>2 DEF StopAct
  <2> QED BY <2>1, <2>2
<1>5. ASSUME NEW e \in Execution, StopCheck(e) \/ StopWrite(e) PROVE run' = run
  BY <1>5 DEF StopCheck, StopWrite
<1>6. CASE PollQuery \/ PollApply
  BY <1>6 DEF PollQuery, PollApply
<1>7. \A e \in Execution : StartNew(e) \/ RunEnqueued(e) \/ Resume(e)
        => \E o \in Execution : (StartNew(o) \/ RunEnqueued(o) \/ Resume(o)) /\ OnlyBegins(o)
  BY <1>0, StartNewStep, RunEnqueuedStep, ResumeStep
<1> QED BY <1>1, <1>3, <1>4, <1>5, <1>6, <1>7 DEF Next

\* What crashed before this process began is not touched.
LEMMA GoneStays ==
    ASSUME IInv, ~CanWait, Next, ~Shutdown, ~Exit, ~Crash, ~Restart, NEW o \in Execution, Gone(o)
    PROVE  Gone(o)'
<1>0. /\ RestOK /\ Fresh /\ \A k \in RunNo : run[<<o, k>>].pc = "none"
      /\ \A r \in Runs : run[r].pc # "none" => r[1] # o
  BY TypeParts, RunsFacts DEF IInv, Gone
<1>1. \A k \in RunNo : run'[<<o, k>>].pc = "none"
  <2>1. ASSUME NEW e \in Execution, StartNew(e) \/ RunEnqueued(e) \/ Resume(e), OnlyBegins(e), NEW k \in RunNo
        PROVE  run'[<<o, k>>].pc = "none"
    <3>1. e # o
      BY <1>0, <2>1 DEF Gone, Fresh, StartNew, RunEnqueued, Resume
    <3>2. PICK x \in Runs : x = <<o, k>> /\ x[1] = o
      BY RunsFacts
    <3> QED BY <1>0, <2>1, <3>1, <3>2 DEF OnlyBegins
  <2> QED BY <1>0, <2>1, ActionStep, RunsFacts DEF NoneBegins
<1>2. db'[o] = db[o] /\ stop'[o] = stop[o] /\ boot' \subseteq boot
  <2>1. ASSUME NEW e \in Execution, StartNew(e) \/ RunEnqueued(e) \/ Resume(e)
        PROVE  db'[o] = db[o] /\ stop' = stop /\ boot' \subseteq boot
    BY <1>0, <2>1 DEF StartNew, RunEnqueued, Resume, Gone, RestOK
  <2>2. ASSUME NEW r \in Runs, RunStep(r)
        PROVE  db'[o] = db[o] /\ stop' = stop /\ boot' = boot
    <3>1. r[1] # o
      <4>1. run[r].pc # "none"
        BY <2>2 DEF RunStep, Add, CheckPasses, CheckFails, Begin, PutToWait, SaveProgress, Executing, Save,
           NodeReturns, Finalize, TimeOut
      <4> QED BY <1>0, <4>1
    <3>2. CASE Add(r) \/ CheckPasses(r) \/ CheckFails(r) \/ Begin(r) \/ PutToWait(r) \/ Finalize(r) \/ TimeOut(r)
      BY <1>0, <3>1, <3>2 DEF Add, CheckPasses, CheckFails, Begin, PutToWait, Finalize, TimeOut, RestOK
    <3>3. CASE SaveProgress(r) \/ Save(r) \/ NodeReturns(r)
      BY <1>0, <3>1, <3>3 DEF SaveProgress, Save, NodeReturns, RestOK
    <3> QED BY <2>2, <3>2, <3>3 DEF RunStep
  <2>3. ASSUME NEW e \in Execution, StopCheck(e) \/ StopAct(e) \/ StopWrite(e)
        PROVE  db'[o] = db[o] /\ stop'[o] = stop[o] /\ boot' = boot
    <3>1. e # o
      BY <2>3 DEF StopCheck, StopAct, StopWrite, Gone, Stoppable
    <3> QED BY <1>0, <2>3, <3>1 DEF StopCheck, StopAct, StopWrite, RestOK
  <2>4. CASE PollQuery \/ PollApply
    BY <2>4 DEF PollQuery, PollApply
  <2> QED BY <2>1, <2>2, <2>3, <2>4 DEF Next
<1> QED BY <1>1, <1>2 DEF Gone

LEMMA ActionLogged ==
    ASSUME StopsInv, Next, ~Shutdown, ~Exit, ~Crash, ~Restart
    PROVE  LogInv'
<1> SUFFICES ASSUME ~CanWait, NEW e \in log' \ late' PROVE (Working(e) \/ Gone(e))'
  BY DEF LogInv
<1>0. LogOK /\ LogOK' /\ stage # "down" /\ e \in Execution /\ QueueInv
  BY TypeParts, LogTyped, ActionStep DEF StopsInv, IInv, LogOK
<1>1. e \in log \ late \/ \E r \in Runs : Begin(r) /\ r[1] = e
  <2>1. ASSUME NEW o \in Execution, StartNew(o) \/ RunEnqueued(o) \/ Resume(o) PROVE e \in log \ late
    BY <2>1 DEF StartNew, RunEnqueued, Resume, ThrottleRun, history
  <2>2. ASSUME NEW r \in Runs, RunStep(r), ~(Begin(r) /\ r[1] = e) PROVE e \in log \ late
    <3>1. CASE Add(r) \/ CheckPasses(r) \/ CheckFails(r) \/ PutToWait(r) \/ SaveProgress(r) \/ Finalize(r)
               \/ TimeOut(r)
      BY <3>1 DEF Add, CheckPasses, CheckFails, PutToWait, SaveProgress, Finalize, TimeOut,
         CancelingLogged, history
    <3>2. CASE Begin(r)
      BY <2>2, <3>2 DEF Begin
    <3>3. CASE Save(r) \/ NodeReturns(r)
      BY <3>3 DEF Save, NodeReturns, SavedLog, history
    <3> QED BY <2>2, <3>1, <3>2, <3>3 DEF RunStep
  <2>3. ASSUME NEW o \in Execution, StopCheck(o) \/ StopAct(o) \/ StopWrite(o) PROVE e \in log \ late
    BY <2>3 DEF StopCheck, StopAct, StopWrite, CancelingLogged, history
  <2>4. CASE PollQuery \/ PollApply
    BY <2>4 DEF PollQuery, PollApply, history
  <2> QED BY <2>1, <2>2, <2>3, <2>4 DEF Next
<1>2. ASSUME NEW r \in Runs, Begin(r), r[1] = e PROVE Working(e)'
  <2>1. run'[r].pc \in {"executing", "stray"}
    BY <1>2, TypeParts, BeginStep DEF StopsInv, IInv
  <2>2. r = <<e, r[2]>> /\ r[2] \in RunNo
    BY <1>2, RunsFacts
  <2> QED BY <2>1, <2>2 DEF Working
<1>3. ASSUME e \in log \ late, Working(e) PROVE Working(e)'
  <2>1. PICK k \in RunNo : run[<<e, k>>].pc \in {"executing", "stray"}
    BY <1>3 DEF Working
  <2>2. PICK x \in Runs : x = <<e, k>> /\ x[1] = e
    BY <1>0, RunsFacts
  <2>3. run'[x].pc \in {"executing", "stray"}
    BY <2>1, <2>2, WorkGoesOn DEF StopsInv
  <2> QED BY <2>2, <2>3 DEF Working
<1>4. ASSUME e \in log \ late, Gone(e) PROVE Gone(e)'
  BY <1>0, <1>4, GoneStays DEF StopsInv
<1>5. e \in log \ late => Working(e) \/ Gone(e)
  BY <1>0 DEF StopsInv, LogInv
<1> QED BY <1>1, <1>2, <1>3, <1>4, <1>5

-----------------------------------------------------------------------------
(* The end of a process, and the next one.                                 *)

LEMMA ShutdownReached ==
    ASSUME StopsInv, Shutdown
    PROVE  ReachedStep /\ WaitsInQueue' /\ LogInv'
<1>1. /\ UNCHANGED <<db, queue, polled, stop, boot, held, late>> /\ timers' = {}
      /\ stage' = "stopping" /\ log' \subseteq log
  BY DEF Shutdown, CancelingLogged, history
<1>2. /\ \A x \in Runs : \/ run'[x].pc = run[x].pc
                         \/ run[x].pc \in {"executing", "parking", "saved"} /\ run'[x].pc = "canceling"
      /\ CutStep
  BY ShutdownRuns DEF StopsInv, IInv, QueueInv
<1>3. ASSUME NEW e \in Execution PROVE StaysIdle(e)
  <2>1. ASSUME Idle(e) PROVE Idle(e)'
    <3>1. ASSUME NEW k \in RunNo PROVE Rests(<<e, k>>)'
      <4>1. PICK x \in Runs : x = <<e, k>>
        BY RunsFacts
      <4>2. Rests(x) /\ ~Enabled'
        BY <1>1, <2>1, <4>1 DEF Idle, Enabled
      <4>3. Rests(x)'
        BY <1>2, <4>2 DEF Rests, Ended, CutStep
      <4> QED BY <4>1, <4>3
    <3> QED BY <1>1, <2>1, <3>1 DEF Idle
  <2> QED BY <1>1, <2>1 DEF StaysIdle, RowRests
<1>4. ReachedStep
  BY <1>1, <1>3, OtherReached
<1>5. WaitsInQueue'
  BY <1>1, <1>2 DEF StopsInv, WaitsInQueue
<1>6. LogInv'
  <2> SUFFICES ASSUME ~CanWait, NEW e \in log' \ late PROVE (Working(e) \/ Gone(e))'
    BY <1>1 DEF LogInv
  <2>1. e \in Execution /\ \A k \in RunNo : run'[<<e, k>>].pc = "canceling" => run[<<e, k>>].pc = "canceling"
    BY TypeParts DEF Shutdown, CancelingLogged, StopsInv, IInv, LogOK
  <2>2. \A k \in RunNo : run[<<e, k>>].pc \in {"executing", "stray", "none"}
                           => run'[<<e, k>>].pc = run[<<e, k>>].pc
    BY <1>2, <2>1, RunsFacts
  <2>3. Working(e) \/ Gone(e)
    BY <1>1 DEF StopsInv, LogInv, Shutdown
  <2> QED BY <1>1, <2>2, <2>3 DEF Working, Gone
<1> QED BY <1>4, <1>5, <1>6

\* Without a run, a timer or a poll an execution is idle.
NobodyStirs ==
    /\ \A e \in Execution \ boot : Idle(e)
    /\ \A e \in Execution : stop[e] = "none"
    /\ WaitsInQueue

LEMMA ForgottenRests == Forgotten => NobodyStirs
<1> SUFFICES ASSUME Forgotten PROVE NobodyStirs
  OBVIOUS
<1>1. \A x \in Runs : run[x].pc = "none"
  BY DEF Forgotten, NoRuns, NoRun
<1>a. \A x \in Runs : run[x].cut = "none"
  BY DEF Forgotten, NoRuns, NoRun
<1>2. timers = {} /\ polled = {} /\ \A e \in Execution : stop[e] = "none"
  BY DEF Forgotten, NoStops
<1> QED BY <1>1, <1>a, <1>2, RunsFacts DEF NobodyStirs, Idle, Rests, WaitsInQueue

LEMMA DownReached ==
    ASSUME StopsInv, Exit \/ Crash
    PROVE  ReachedStep /\ WaitsInQueue' /\ LogInv'
<1>1. /\ Forgotten' /\ boot' = {} /\ held' = {e \in held : stop[e] = "none"}
      /\ stage' = "down" /\ UNCHANGED <<db, log, late>>
  BY DEF Exit, Crash, MemoryLost, Forgotten
<1>2. NobodyStirs'
  BY <1>1, ForgottenRests, PTL
<1>3. ASSUME NEW e \in Execution PROVE Reached(e)'
  <2>1. Reached(e) /\ Idle(e)' /\ stop'[e] = "none"
    BY <1>1, <1>2 DEF StopsInv, NobodyStirs
  <2> QED BY <1>1, <2>1 DEF Reached, Silent
<1> QED BY <1>1, <1>2, <1>3 DEF ReachedStep, StopsInv, NobodyStirs, StaysCanceled, LogInv

LEMMA RestartReached ==
    ASSUME StopsInv, Restart
    PROVE  ReachedStep /\ WaitsInQueue' /\ LogInv'
<1>1. /\ Forgotten /\ RestOK /\ LogOK /\ ~CanWait
      /\ UNCHANGED <<run, queue, timers, polled, stop, held, log, late>>
      /\ boot' = {e \in Execution : db'[e].status = "new"}
      /\ db' = [e \in Execution |->
                  IF db[e].status = "running" \/ e \in log
                  THEN [db[e] EXCEPT !.status = "crashed"] ELSE db[e]]
  BY TypeParts DEF Restart, StopsInv, IInv
<1>2. \A x \in Runs : run'[x].pc = "none" /\ run'[x].cut = "none"
  BY <1>1 DEF Forgotten, NoRuns, NoRun
<1>3. \A e \in Execution :
        IF db[e].status = "running" \/ e \in log
        THEN db'[e].status = "crashed" /\ db'[e].due = db[e].due
        ELSE db'[e] = db[e]
  BY <1>1 DEF RestOK
<1>4. ASSUME NEW e \in Execution PROVE Reached(e)' /\ StaysCanceled(e)
  <2>1. Reached(e) /\ stop[e] = "none"
    BY <1>1, ForgottenRests DEF StopsInv, NobodyStirs
  <2>2. e \in held => /\ db[e].status \notin {"none", "new"} /\ ~db[e].due
                      /\ e \notin late => db[e].status = "canceled" /\ e \notin log
    BY <1>1, <2>1 DEF Reached, Silent
  <2>3. e \in held => /\ db'[e].status \notin {"none", "new"} /\ ~db'[e].due
                      /\ e \notin late => db'[e].status = "canceled"
    BY <1>3, <2>2
  <2>4. e \in held => e \notin boot'
    BY <1>1, <2>3
  <2>5. e \in held => Idle(e)'
    BY <1>1, <1>2, <2>4, RunsFacts DEF Idle, Rests, Forgotten
  <2> QED BY <1>1, <2>1, <2>2, <2>3, <2>5 DEF Reached, Silent, StaysCanceled
<1>5. LogInv'
  <2> SUFFICES ASSUME NEW e \in log PROVE Gone(e)'
    BY <1>1 DEF LogInv
  <2>1. e \in Execution /\ db'[e].status = "crashed" /\ stop'[e] = "none"
    BY <1>1, <1>3, ForgottenRests DEF LogOK, NobodyStirs
  <2> QED BY <1>1, <1>2, <2>1, RunsFacts DEF Gone
<1> QED BY <1>1, <1>2, <1>4, <1>5 DEF ReachedStep, StopsInv, WaitsInQueue

-----------------------------------------------------------------------------
(* The invariant is inductive, and what holds after each step.             *)

LEMMA InitStops == Init => StopsInv
<1> SUFFICES ASSUME Init PROVE StopsInv
  OBVIOUS
<1>1. WaitsInQueue
  BY DEF Init, WaitsInQueue, NoRuns, NoRun
<1>2. ASSUME NEW e \in Execution PROVE Reached(e)
  BY DEF Init, Reached, NoStops
<1> QED BY <1>1, <1>2, InitIInv DEF StopsInv, Init, LogInv

LEMMA StepStops ==
    ASSUME StopsInv, [Next]_vars
    PROVE  StopsInv' /\ \A e \in Execution : StaysCanceled(e)
<1>1. IInv'
  BY StepIInv DEF StopsInv
<1>2. CASE UNCHANGED vars
  <2>1. UNCHANGED <<db, log, run, active, queue, timers, polled, stop, boot, stage, held, late>>
    BY <1>2 DEF vars, memory, history
  <2>2. \A e \in Execution : (Reached(e) <=> Reached(e)') /\ StaysCanceled(e)
    BY <2>1 DEF Reached, Silent, Idle, Rests, Enabled, StaysCanceled
  <2>3. LogInv'
    BY <2>1 DEF StopsInv, LogInv, Working, Gone
  <2> QED BY <1>1, <2>1, <2>2, <2>3 DEF StopsInv, WaitsInQueue
<1>3. CASE Next /\ ~Shutdown /\ ~Exit /\ ~Crash /\ ~Restart
  <2>1. QueueStep /\ QueueInv
    BY <1>3, ActionStep DEF StepOK, StopsInv, IInv
  <2>2. ReachedStep /\ WaitsInQueue' /\ LogInv'
    BY <1>3, <2>1, ActionReached, ActionLogged, WaitsStays DEF StopsInv
  <2> QED BY <1>1, <2>2 DEF StopsInv, ReachedStep
<1>4. CASE Shutdown \/ Exit \/ Crash \/ Restart
  <2>1. ReachedStep /\ WaitsInQueue' /\ LogInv'
    BY <1>4, ShutdownReached, DownReached, RestartReached
  <2> QED BY <1>1, <2>1 DEF StopsInv, ReachedStep
<1> QED BY <1>2, <1>3, <1>4

\* What was reached is not started: only a run that passed the check starts.
LEMMA NotBegun ==
    ASSUME StopsInv, [Next]_vars, NEW e \in held
    PROVE  began'[e] = began[e]
<1>1. e \in Execution /\ Idle(e)
  BY DEF StopsInv, Reached
<1>2. CASE UNCHANGED vars
  BY <1>2 DEF vars, history
<1>3. ASSUME NEW r \in Runs, Begin(r) PROVE began'[e] = began[e]
  <2>1. r[1] # e
    BY <1>1, <1>3, IdleRun DEF Begin, Ended
  <2> QED BY <1>3, <2>1 DEF Begin
<1>4. CASE Next /\ ~\E r \in Runs : Begin(r)
  <2>1. began' = began
    <3>1. ASSUME NEW o \in Execution, StartNew(o) \/ RunEnqueued(o) \/ Resume(o) PROVE began' = began
      BY <3>1 DEF StartNew, RunEnqueued, Resume, history
    <3>2. ASSUME NEW r \in Runs, RunStep(r) PROVE began' = began
      BY <1>4, <3>2 DEF RunStep, Add, CheckPasses, CheckFails, PutToWait, SaveProgress, Save,
         NodeReturns, Finalize, TimeOut, history
    <3>3. ASSUME NEW o \in Execution, StopCheck(o) \/ StopAct(o) \/ StopWrite(o) PROVE began' = began
      BY <3>3 DEF StopCheck, StopAct, StopWrite, history
    <3>4. CASE PollQuery \/ PollApply \/ Shutdown \/ Exit \/ Crash \/ Restart
      BY <3>4 DEF PollQuery, PollApply, Shutdown, Exit, Crash, Restart, history
    <3> QED BY <1>4, <3>1, <3>2, <3>3, <3>4 DEF Next
  <2> QED BY <2>1
<1> QED BY <1>2, <1>3, <1>4

-----------------------------------------------------------------------------
\* What a user has stopped is not started again, whatever ends, fails, waits, times
\* out, is shut down, crashes and is booted up afterwards, but for what the stop found
\* out of its reach (stopInRegularMode, stopExecution, ConcurrencyQueue.remove,
\* WaitTracker.stopExecution, runEnqueuedExecutions). Its row stays canceled, in this
\* process and through MessageEventBus.initialize of the next, unless a node that did
\* not heed the cancellation, or a final hook under way, wrote or logged more.
THEOREM StopsHold == Spec => StopHolds
<1>1. Init => StopsInv
  BY InitStops
<1>2. StopsInv /\ [Next]_vars => StopsInv'
  BY StepStops
<1>3. StopsInv /\ [Next]_vars =>
        [\A e \in held :
            /\ began'[e] = began[e]
            /\ db[e].status = "canceled" /\ e \notin late' => db'[e].status = "canceled"]_vars
  <2> SUFFICES ASSUME StopsInv, [Next]_vars, NEW e \in held
               PROVE  /\ began'[e] = began[e]
                      /\ db[e].status = "canceled" /\ e \notin late' => db'[e].status = "canceled"
    OBVIOUS
  <2>1. e \in Execution
    BY DEF StopsInv
  <2> QED BY <2>1, StepStops, NotBegun DEF StaysCanceled
<1> QED BY <1>1, <1>2, <1>3, PTL DEF Spec, StopHolds

-----------------------------------------------------------------------------
(***************************************************************************)
(* When no execution waits: slots and entries are given back, a workflow   *)
(* starts once, and until a signal no more than Limit execute unless       *)
(* somebody stops one.                                                     *)
(*                                                                         *)
(* An execution that never waits has one run in a process.  Sound says how *)
(* that run, the entry, the row, the list of boot-up and the stop of the   *)
(* execution go together, and every step changes these of one execution    *)
(* alone (Elsewhere), but for letting the head of the queue through.       *)
(***************************************************************************)
\* A run whose workflow was not started yet.
Before == {"queued", "removed", "admitted", "added", "checked"}

\* A run that executes its workflow, or will unless its checks fail.
Busy == {"admitted", "added", "checked", "executing", "stray", "parking"}

Committed == {r \in Runs : run[r].pc \in Busy}

OnlyFirst == \A r \in Runs : r[2] # 1 => run[r].pc = "none"

CountersOK == stops \in [Execution -> Nat] /\ began \in [Execution -> {0, 1}]

Sound(e) ==
    LET r == run[<<e, 1>>] IN
    \* The entry is there as long as the promise pends, and only a run at work has one.
    /\ r.status = "running" /\ r.attached \in {0, 1} /\ active[e] \in {0, 1}
    /\ active[e] = 1 <=> r.promise = "pending"
    /\ r.pc \in {"over", "stray", "closing"} => r.promise # "pending"
    /\ r.pc = "executing" => r.attached = 1
    \* What the database calls new, or boot-up found so, was not begun.
    /\ db[e].status \in {"none", "new"} \/ e \in boot \/ r.pc \in Before => began[e] = 0
    \* Only a stop takes the entry of a run that goes on, until the shutdown.
    /\ stop[e] # "none" \/ r.pc = "removed" => stops[e] # 0
    /\ Enabled /\ stops[e] = 0 /\ r.pc \in {"added", "checked", "executing", "stray"} =>
          active[e] = 1

NeverStopped == \A e \in Execution : stops[e] = 0

FewCommitted == Cardinality(Committed) <= Limit

Balanced == capacity + Len(queue) >= 0

\* Until somebody stops an execution, the queue has no more waiting than the
\* counter is below zero. Once control is disabled there is no limit.
LimitKept == NeverStopped /\ Enabled => Balanced

StartsInv ==
    /\ IInv /\ OnlyFirst /\ CountersOK
    /\ \A e \in Execution : Sound(e)
    /\ LimitKept

\* What a step is shown to do to Sound.
SoundStep ==
    /\ OnlyFirst' /\ CountersOK'
    /\ \A e \in Execution : Sound(e)'
    /\ \A e \in Execution : stops[e] # 0 => stops'[e] # 0

-----------------------------------------------------------------------------
(* What a step leaves alone.                                               *)

\* A run that a step is not about: it may be let through.
Frame(S, R, x) ==
    /\ S[x].status = R[x].status /\ S[x].attached = R[x].attached
    /\ S[x].promise = R[x].promise
    /\ \/ S[x].pc = R[x].pc
       \/ Enabled /\ R[x].pc = "queued" /\ S[x].pc = "admitted"

Elsewhere(e) ==
    /\ \A x \in Runs : x # <<e, 1>> => Frame(run', run, x)
    /\ \A o \in Execution \ {e} :
          /\ active'[o] = active[o] /\ db'[o] = db[o] /\ stop'[o] = stop[o]
          /\ stops'[o] = stops[o] /\ began'[o] = began[o]
          /\ o \in boot' => o \in boot
    /\ stage' = stage

LEMMA ElsewhereSound ==
    ASSUME OnlyFirst, \A o \in Execution : Sound(o), NEW e \in Execution,
           Elsewhere(e), Sound(e)', CountersOK', stops[e] # 0 => stops'[e] # 0
    PROVE  SoundStep
<1>1. OnlyFirst'
  BY RunsFacts DEF OnlyFirst, Elsewhere, Frame
<1>2. ASSUME NEW o \in Execution, o # e PROVE Sound(o)'
  <2>1. PICK x \in Runs : x = <<o, 1>> /\ x # <<e, 1>>
    BY <1>2, RunsFacts
  <2>2. Frame(run', run, x)
    BY <2>1 DEF Elsewhere
  <2>3. /\ active'[o] = active[o] /\ db'[o] = db[o] /\ stop'[o] = stop[o]
        /\ stops'[o] = stops[o] /\ began'[o] = began[o]
        /\ o \in boot' => o \in boot
        /\ Enabled' <=> Enabled
    BY <1>2 DEF Elsewhere, Enabled
  <2>4. Sound(o)
    OBVIOUS
  <2> QED BY <2>1, <2>2, <2>3, <2>4 DEF Sound, Frame, Before
<1>3. \A o \in Execution : stops[o] # 0 => stops'[o] # 0
  BY DEF Elsewhere
<1> QED BY <1>1, <1>2, <1>3 DEF SoundStep

-----------------------------------------------------------------------------
(* The operators that several steps share.                                 *)

LEMMA Throttling ==
    ASSUME NEW R \in [Runs -> RunRecord], NEW r \in Runs, NEW logged, ThrottleRun(R, r, logged)
    PROVE  /\ \A x \in Runs : x # r => Frame(run', R, x)
           /\ run'[r].status = R[r].status /\ run'[r].attached = R[r].attached
           /\ run'[r].promise = R[r].promise /\ run'[r].pc \in {"queued", "admitted"}
<1>1. PICK p \in {"queued", "admitted"} : run' = [R EXCEPT ![r].pc = p]
  BY DEF ThrottleRun
<1> QED BY <1>1 DEF RunRecord, Frame

\* The promise of run r settles, and the head of the queue is let through.
LEMMA Settling ==
    ASSUME QueueInv, NEW R \in [Runs -> RunRecord], NEW r \in Runs, SettlePromise(R, r),
           R[r].promise = "pending", R[r].status = "running", R[r].pc # "queued",
           \A x \in Runs : run[x].pc = "queued" => R[x].pc = "queued"
    PROVE  /\ \A x \in Runs : x # r => Frame(run', R, x)
           /\ run'[r].status = R[r].status /\ run'[r].attached = R[r].attached
           /\ run'[r].promise = "settled" /\ run'[r].pc = R[r].pc
           /\ active' = [active EXCEPT ![r[1]] = 0]
<1>1. PICK S \in [Runs -> RunRecord] : S = [R EXCEPT ![r].promise = "settled"]
  BY DEF RunRecord
<1>2. /\ S[r].status = R[r].status /\ S[r].attached = R[r].attached
      /\ S[r].promise = "settled" /\ S[r].pc = R[r].pc
      /\ \A x \in Runs : x # r => S[x] = R[x]
  BY <1>1 DEF RunRecord
<1>3. ReleaseSlot(S) /\ active' = [active EXCEPT ![r[1]] = 0]
  BY <1>1 DEF SettlePromise
<1>4. CASE Enabled /\ queue # <<>>
  <2>1. PICK h \in Runs : h = queue[1] /\ Head(queue) = h
    BY <1>4, ShiftFacts DEF QueueInv
  <2>2. R[h].pc = "queued" /\ h # r
    <3>1. 1 \in DOMAIN queue
      BY <1>4, ShiftFacts DEF QueueInv
    <3> QED BY <2>1, <3>1, QueueFacts
  <2>3. run' = [S EXCEPT ![h].pc = "admitted"]
    BY <1>3, <1>4, <2>1 DEF ReleaseSlot, Admit
  <2> QED BY <1>2, <1>3, <1>4, <2>2, <2>3 DEF RunRecord, Frame
<1>5. CASE ~(Enabled /\ queue # <<>>)
  <2>1. run' = S
    BY <1>3, <1>5 DEF ReleaseSlot, Admit
  <2> QED BY <1>2, <1>3, <2>1 DEF Frame
<1> QED BY <1>4, <1>5

\* stopExecution, for an execution whose one run is sound.
LEMMA Stopping ==
    ASSUME QueueInv, RestOK, NEW e \in Execution, Sound(e), StopActive(e),
           NEW r \in Runs, r = <<e, 1>>
    PROVE  /\ \A x \in Runs : x # r => Frame(run', run, x)
           /\ run'[r].status = run[r].status /\ run'[r].attached = run[r].attached
           /\ active' = [active EXCEPT ![e] = 0]
           /\ run'[r].promise = IF active[e] = 0 THEN run[r].promise ELSE "settled"
           /\ \/ run'[r].pc = run[r].pc /\ (active[e] = 1 => run[r].pc # "executing")
              \/ run[r].pc \in {"executing", "parking", "saved"} /\ run'[r].pc = "canceling"
<1>1. /\ active[e] \in {0, 1} /\ run[r].status = "running" /\ run[r].attached \in {0, 1}
      /\ active[e] = 1 <=> run[r].promise = "pending"
      /\ run[r].pc = "executing" => run[r].attached = 1
  BY DEF Sound
<1>2. CASE active[e] = 0
  <2>1. run' = run /\ active' = active
    BY <1>2 DEF StopActive
  <2> QED BY <1>2, <2>1 DEF Frame, RestOK
<1>3. CASE active[e] = 1
  <2>1. SettlePromise(CancelAttached(run, r), r)
    BY <1>1, <1>3 DEF StopActive
  <2>2. PICK R : R = CancelAttached(run, r)
    OBVIOUS
  <2>3. r[1] = e /\ r = <<r[1], 1>>
    OBVIOUS
  <2>4. /\ R \in [Runs -> RunRecord]
        /\ R[r].status = run[r].status /\ R[r].attached = run[r].attached
        /\ R[r].promise = run[r].promise
        /\ \A x \in Runs : x # r => R[x] = run[x]
        /\ \/ R[r].pc = run[r].pc /\ run[r].pc # "executing"
           \/ run[r].pc \in {"executing", "parking", "saved"} /\ R[r].pc = "canceling"
    <3>1. CASE run[r].attached = 0
      BY <1>1, <2>2, <3>1 DEF CancelAttached, QueueInv
    <3>2. CASE run[r].attached = 1
      <4>1. R = Canceled(run, r)
        BY <2>2, <2>3, <3>2 DEF CancelAttached
      <4>2. \A x \in Runs : x # r => R[x] = run[x]
        BY <4>1 DEF Canceled, QueueInv
      <4> QED BY <4>1, <4>2, CanceledRun DEF QueueInv
    <3> QED BY <1>1, <3>1, <3>2
  <2>5. run[r].pc # "queued" /\ R[r].pc # "queued"
    BY <1>1, <1>3, <2>4 DEF QueueInv, NotRegistered, Early
  <2>6. /\ \A x \in Runs : x # r => Frame(run', R, x)
        /\ run'[r].status = R[r].status /\ run'[r].attached = R[r].attached
        /\ run'[r].promise = "settled" /\ run'[r].pc = R[r].pc
        /\ active' = [active EXCEPT ![e] = 0]
    BY <1>1, <1>3, <2>1, <2>2, <2>4, <2>5, Settling
  <2> QED BY <1>3, <2>4, <2>6 DEF Frame
<1> QED BY <1>1, <1>2, <1>3

\* ConcurrencyQueue.remove, of the one run of an execution.
LEMMA Leaving ==
    ASSUME QueueInv, OnlyFirst, Enabled, NEW e \in Execution, LeaveQueue(e),
           NEW r \in Runs, r = <<e, 1>>
    PROVE  /\ \A x \in Runs : x # r => Frame(run', run, x)
           /\ run'[r].status = run[r].status /\ run'[r].attached = run[r].attached
           /\ run'[r].promise = run[r].promise /\ run'[r].pc = "removed"
           /\ run[r].pc = "queued"
<1>1. PICK i \in DOMAIN queue :
        /\ queue[i][1] = e
        /\ run' = Admit([run EXCEPT ![queue[i]].pc = "removed"], RemoveAt(queue, i))
  BY DEF LeaveQueue
<1>2. queue[i] = r /\ run[r].pc = "queued"
  BY <1>1, QueueFacts, RunsFacts DEF OnlyFirst
<1>3. PICK rest : rest = RemoveAt(queue, i)
  OBVIOUS
<1>4. PICK R \in [Runs -> RunRecord] : R = [run EXCEPT ![r].pc = "removed"]
  <2>1. PICK S : Moves(S, run, r, "removed")
    BY DEF Moves
  <2>2. S \in [Runs -> RunRecord]
    BY <2>1, RunMoves DEF QueueInv, Step
  <2> QED BY <2>1, <2>2 DEF Moves
<1>5. /\ R[r].status = run[r].status /\ R[r].attached = run[r].attached
      /\ R[r].promise = run[r].promise /\ R[r].pc = "removed"
      /\ \A x \in Runs : x # r => R[x] = run[x]
  BY <1>4 DEF QueueInv, RunRecord
<1>6. run' = Admit(R, rest)
  BY <1>1, <1>2, <1>3, <1>4
<1>7. CASE rest = <<>>
  BY <1>2, <1>5, <1>6, <1>7 DEF Admit, Frame
<1>8. CASE rest # <<>>
  <2>1. PICK h \in Runs : h = rest[1] /\ h # r /\ Head(rest) = h /\ run[h].pc = "queued"
    <3>1. rest \in Seq(Runs) /\ \A j \in DOMAIN rest : rest[j] # queue[i] /\ run[rest[j]].pc = "queued"
      BY <1>3, RestFacts
    <3>2. 1 \in DOMAIN rest /\ rest[1] \in Runs /\ Head(rest) = rest[1]
      BY <1>8, <3>1, ShiftFacts
    <3> QED BY <1>2, <3>1, <3>2
  <2>2. run' = [R EXCEPT ![h].pc = "admitted"]
    BY <1>6, <1>8, <2>1 DEF Admit
  <2> QED BY <1>2, <1>5, <2>1, <2>2 DEF Frame, RunRecord
<1> QED BY <1>7, <1>8

-----------------------------------------------------------------------------
(* The steps.                                                              *)

Given ==
    /\ QueueInv /\ RestOK /\ Fresh /\ OnlyFirst /\ CountersOK
    /\ \A e \in Execution : Sound(e)
    /\ ~CanWait /\ NeverParked

\* A run that does something is the first of its execution.
LEMMA FirstOf ==
    ASSUME OnlyFirst, NEW r \in Runs, run[r].pc # "none"
    PROVE  r[1] \in Execution /\ r = <<r[1], 1>> /\ r[2] = 1
BY RunsFacts DEF OnlyFirst

LEMMA StartNewSound ==
    ASSUME Given, NEW e \in Execution, StartNew(e)
    PROVE  SoundStep
<1>1. PICK r \in Runs : r = <<e, 1>>
  BY RunsFacts
<1>2. Sound(e) /\ db[e].status = "none" /\ began[e] = 0 /\ e \notin boot
  BY DEF Given, StartNew, Sound, Fresh
<1>3. run[r].pc = "none"
  BY <1>1, <1>2, RunsFacts DEF Given, Fresh
<1>4. PICK R : R = [run EXCEPT ![<<e, 1>>].caller = e \in WithResponse]
  OBVIOUS
<1>5. /\ R \in [Runs -> RunRecord]
      /\ \A x \in Runs : /\ R[x].status = run[x].status /\ R[x].attached = run[x].attached
                         /\ R[x].promise = run[x].promise /\ R[x].pc = run[x].pc
  <2>1. (e \in WithResponse) \in BOOLEAN
    OBVIOUS
  <2>2. PICK b \in BOOLEAN : b = (e \in WithResponse)
    BY <2>1
  <2>3. R = [run EXCEPT ![r].caller = b]
    BY <1>1, <1>4, <2>2
  <2> QED BY <2>3 DEF Given, QueueInv, RunRecord
<1>6. ThrottleRun(R, r, log)
  BY <1>1, <1>4 DEF StartNew
<1>7. /\ \A x \in Runs : x # r => Frame(run', R, x)
      /\ run'[r].status = R[r].status /\ run'[r].attached = R[r].attached
      /\ run'[r].promise = R[r].promise /\ run'[r].pc \in {"queued", "admitted"}
  BY <1>5, <1>6, Throttling
<1>8. /\ db' = [db EXCEPT ![e].status = "new"] /\ stage' = stage
      /\ UNCHANGED <<active, stop, boot, stops, began>>
  BY DEF StartNew, history
<1>9. Elsewhere(e)
  BY <1>1, <1>5, <1>7, <1>8 DEF Elsewhere, Frame, Given, RestOK
<1>10. Sound(e)'
  BY <1>1, <1>2, <1>3, <1>5, <1>7, <1>8 DEF Sound, Enabled, Given, RestOK
<1> QED BY <1>2, <1>8, <1>9, <1>10, ElsewhereSound DEF CountersOK, Given

LEMMA RunEnqueuedSound ==
    ASSUME Given, NEW e \in Execution, RunEnqueued(e)
    PROVE  SoundStep
<1>1. PICK r \in Runs : r = <<e, 1>>
  BY RunsFacts
<1>2. Sound(e) /\ e \in boot /\ began[e] = 0
  BY DEF Given, RunEnqueued, Sound
<1>3. run[r].pc = "none"
  BY <1>1, <1>2, RunsFacts DEF Given, Fresh
<1>4. /\ \A x \in Runs : x # r => Frame(run', run, x)
      /\ run'[r].status = run[r].status /\ run'[r].attached = run[r].attached
      /\ run'[r].promise = run[r].promise /\ run'[r].pc \in {"queued", "admitted"}
  BY <1>1, Throttling DEF RunEnqueued, Given, QueueInv
<1>5. /\ stage' = stage /\ boot' = boot \ {e}
      /\ UNCHANGED <<db, active, stop, stops, began>>
  BY DEF RunEnqueued, history
<1>6. Elsewhere(e)
  BY <1>1, <1>4, <1>5 DEF Elsewhere
<1>7. Sound(e)'
  BY <1>1, <1>2, <1>3, <1>4, <1>5 DEF Sound, Enabled
<1> QED BY <1>2, <1>5, <1>6, <1>7, ElsewhereSound DEF CountersOK, Given

LEMMA AddSound ==
    ASSUME Given, NEW r \in Runs, Add(r)
    PROVE  SoundStep
<1>1. PICK e \in Execution : e = r[1] /\ r = <<e, 1>> /\ r[2] = 1
  BY FirstOf DEF Add, Given
<1>2. /\ Sound(e) /\ run[r].pc = "admitted" /\ began[e] = 0
      /\ db' = [db EXCEPT ![e] = [status |-> "running", due |-> FALSE]]
      /\ active' = [active EXCEPT ![e] = 1] /\ stage' = stage
      /\ UNCHANGED <<stop, boot, stops, began>>
  BY <1>1 DEF Given, Add, Sound, Before, history
<1>3. /\ \A x \in Runs : x # r => run'[x] = run[x]
      /\ run'[r].pc = "added" /\ run'[r].status = "running"
      /\ run'[r].attached = 0 /\ run'[r].promise = "pending"
  BY DEF Add, NoRun, Given, QueueInv
<1>4. Elsewhere(e)
  BY <1>1, <1>2, <1>3 DEF Elsewhere, Frame, Given, RestOK
<1>5. Sound(e)'
  BY <1>1, <1>2, <1>3 DEF Sound, Given, RestOK
<1>6. e \notin boot
  BY <1>1, <1>2, RunsFacts DEF Given, Fresh
<1> QED BY <1>1, <1>2, <1>3, <1>4, <1>5, ElsewhereSound DEF CountersOK, Given

LEMMA CheckPassesSound ==
    ASSUME Given, NEW r \in Runs, CheckPasses(r)
    PROVE  SoundStep
<1>1. PICK e \in Execution : e = r[1] /\ r = <<e, 1>>
  BY FirstOf DEF CheckPasses, Given
<1>2. /\ Sound(e) /\ run[r].pc = "added" /\ stage' = stage
      /\ UNCHANGED <<db, active, stop, boot, stops, began>>
  BY DEF Given, CheckPasses, history
<1>3. /\ \A x \in Runs : x # r => run'[x] = run[x]
      /\ run'[r].status = run[r].status /\ run'[r].attached = run[r].attached
      /\ run'[r].promise = run[r].promise
      /\ \/ run'[r].pc = "checked"
         \/ active[e] = 0 /\ run'[r].pc = "over"
  <2>1. CASE ~run[r].caller
    <3>1. run' = [run EXCEPT ![r].pc = "checked"]
      BY <2>1 DEF CheckPasses
    <3> QED BY <3>1 DEF Given, QueueInv, RunRecord
  <2>2. CASE run[r].caller /\ active[e] = 0
    <3>1. run' = [run EXCEPT ![r].pc = "over"]
      BY <1>1, <2>2 DEF CheckPasses
    <3> QED BY <2>2, <3>1 DEF Given, QueueInv, RunRecord
  <2>3. CASE run[r].caller /\ active[e] # 0
    <3>1. <<e, active[e]>> = r
      BY <1>1, <1>2, <2>3 DEF Sound
    <3>2. PICK R \in [Runs -> RunRecord] : R = [run EXCEPT ![r].pc = "checked"]
      BY DEF Given, QueueInv, RunRecord, Step
    <3>3. run' = [R EXCEPT ![r].response = TRUE]
      BY <1>1, <2>3, <3>1, <3>2 DEF CheckPasses
    <3>4. /\ \A x \in Runs : x # r => R[x] = run[x]
          /\ R[r].status = run[r].status /\ R[r].attached = run[r].attached
          /\ R[r].promise = run[r].promise /\ R[r].pc = "checked"
      BY <3>2 DEF Given, QueueInv, RunRecord
    <3> QED BY <3>3, <3>4 DEF RunRecord
  <2> QED BY <2>1, <2>2, <2>3
<1>4. Elsewhere(e)
  BY <1>1, <1>2, <1>3 DEF Elsewhere, Frame
<1>5. Sound(e)'
  BY <1>1, <1>2, <1>3 DEF Sound, Enabled, Before
<1> QED BY <1>1, <1>2, <1>3, <1>4, <1>5, ElsewhereSound DEF CountersOK, Given

LEMMA CheckFailsSound ==
    ASSUME Given, NEW r \in Runs, CheckFails(r)
    PROVE  SoundStep
<1>1. PICK e \in Execution : e = r[1] /\ r = <<e, 1>>
  BY FirstOf DEF CheckFails, Given
<1>2. /\ Sound(e) /\ run[r].pc = "added" /\ stage' = stage
      /\ db' = [db EXCEPT ![e].status = "error"]
      /\ UNCHANGED <<active, stop, boot, stops, began>>
  BY <1>1 DEF Given, CheckFails, history
<1>3. /\ \A x \in Runs : x # r => run'[x] = run[x]
      /\ run'[r].status = run[r].status /\ run'[r].attached = run[r].attached
      /\ run'[r].promise = run[r].promise /\ run'[r].pc = "refused"
  BY DEF CheckFails, Given, QueueInv, RunRecord
<1>4. Elsewhere(e)
  BY <1>1, <1>2, <1>3 DEF Elsewhere, Frame, Given, RestOK
<1>5. Sound(e)'
  BY <1>1, <1>2, <1>3 DEF Sound, Before, Given, RestOK
<1> QED BY <1>1, <1>2, <1>3, <1>4, <1>5, ElsewhereSound DEF CountersOK, Given

LEMMA BeginSound ==
    ASSUME Given, NEW r \in Runs, Begin(r)
    PROVE  SoundStep
<1>1. PICK e \in Execution : e = r[1] /\ r = <<e, 1>> /\ r[2] = 1
  BY FirstOf DEF Begin, Given
<1>2. /\ Sound(e) /\ run[r].pc = "checked" /\ stage' = stage /\ began[e] = 0
      /\ db' = [db EXCEPT ![e].status = "running"]
      /\ began' = [began EXCEPT ![e] = @ + 1]
      /\ UNCHANGED <<active, stop, boot, stops>>
  BY <1>1 DEF Given, Begin, Sound, Before
<1>3. /\ \A x \in Runs : x # r => run'[x] = run[x]
      /\ run'[r].status = run[r].status /\ run'[r].attached \in {0, 1}
      /\ run'[r].promise = run[r].promise
      /\ \/ active[e] = 1 /\ run'[r].pc = "executing"
         \/ active[e] = 0 /\ run'[r].pc = "stray"
      /\ run'[r].pc = "executing" => run'[r].attached = 1
  <2>1. CASE active[e] = 0
    <3>1. run' = [run EXCEPT ![r].pc = "stray"]
      BY <1>1, <2>1 DEF Begin
    <3>2. run[r].attached \in {0, 1}
      BY <1>1, <1>2 DEF Sound
    <3> QED BY <2>1, <3>1, <3>2 DEF Given, QueueInv, RunRecord
  <2>2. CASE active[e] # 0
    <3>1. <<e, active[e]>> = r /\ active[e] = 1
      BY <1>1, <1>2, <2>2 DEF Sound
    <3>2. PICK R \in [Runs -> RunRecord] : R = [run EXCEPT ![r].pc = "executing"]
      BY DEF Given, QueueInv, RunRecord, Step
    <3>3. run' = [R EXCEPT ![r].attached = 1]
      BY <1>1, <2>2, <3>1, <3>2 DEF Begin
    <3>4. /\ \A x \in Runs : x # r => R[x] = run[x]
          /\ R[r].status = run[r].status /\ R[r].promise = run[r].promise
          /\ R[r].pc = "executing"
      BY <3>2 DEF Given, QueueInv, RunRecord
    <3> QED BY <3>1, <3>3, <3>4 DEF RunRecord
  <2> QED BY <2>1, <2>2
<1>4. e \notin boot
  BY <1>1, <1>2, RunsFacts DEF Given, Fresh
<1>5. Elsewhere(e)
  BY <1>1, <1>2, <1>3 DEF Elsewhere, Frame, Given, RestOK, CountersOK
<1>6. Sound(e)'
  BY <1>1, <1>2, <1>3, <1>4 DEF Sound, Enabled, Before, Given, RestOK
<1>7. CountersOK'
  BY <1>2 DEF CountersOK, Given
<1> QED BY <1>1, <1>2, <1>3, <1>5, <1>6, <1>7, ElsewhereSound DEF Given

\* The run and the row of an execution change, nothing else that Sound is about.
LEMMA RowSound ==
    ASSUME Given, NEW r \in Runs, NEW e \in Execution, e = r[1] /\ r = <<e, 1>>,
           run[r].pc \in {"executing", "stray", "canceling", "canceled", "closing"},
           NEW s \in DbStatus, s \in {"none", "new"} => s = db[e].status, NEW d,
           db' = [db EXCEPT ![e] = [status |-> s, due |-> d]],
           \A x \in Runs : x # r => run'[x] = run[x],
           run'[r].status = run[r].status, run'[r].attached = run[r].attached,
           run'[r].promise = run[r].promise,
           run'[r].pc \in {run[r].pc, "saved", "canceled", "over"},
           run'[r].pc = "over" => run[r].pc \in {"stray", "closing", "over"},
           stage' = stage, UNCHANGED <<active, stop, boot, stops, began>>
    PROVE  SoundStep
<1>1. Sound(e) /\ e \notin boot
  BY RunsFacts DEF Given, Fresh
<1>2. db'[e].status = s /\ \A o \in Execution \ {e} : db'[o] = db[o]
  BY DEF Given, RestOK
<1>3. Elsewhere(e)
  BY <1>2 DEF Elsewhere, Frame
<1>4. Sound(e)'
  BY <1>1, <1>2 DEF Sound, Before, Enabled
<1> QED BY <1>3, <1>4, ElsewhereSound DEF CountersOK, Given

LEMMA SaveProgressSound ==
    ASSUME Given, NEW r \in Runs, SaveProgress(r)
    PROVE  SoundStep
<1>1. run[r].pc \in {"executing", "stray"}
  BY DEF SaveProgress, Executing, Given, NeverParked
<1>2. PICK e \in Execution : e = r[1] /\ r = <<e, 1>>
  BY <1>1, FirstOf DEF Given
<1>3. PICK s \in DbStatus, d \in BOOLEAN :
        ProgressRow(db[e]) = [status |-> s, due |-> d] /\ s \in {db[e].status, "running"}
  BY ProgressRowIs DEF Given, RestOK
<1>4. db' = [db EXCEPT ![e] = [status |-> s, due |-> d]]
  BY <1>2, <1>3 DEF SaveProgress
<1>5. run' = run /\ stage' = stage /\ UNCHANGED <<active, stop, boot, stops, began>>
  BY DEF SaveProgress, history
<1>6. s \in {"none", "new"} => s = db[e].status
  BY <1>3
<1> QED BY <1>1, <1>2, <1>4, <1>5, <1>6, RowSound

LEMMA NodeReturnsSound ==
    ASSUME Given, NEW r \in Runs, NodeReturns(r)
    PROVE  SoundStep
<1>1. run[r].pc \in {"canceling", "canceled"}
  BY DEF NodeReturns
<1>2. PICK e \in Execution : e = r[1] /\ r = <<e, 1>>
  BY <1>1, FirstOf DEF Given
<1>3. PICK s \in DbStatus, d \in BOOLEAN :
        db' = [db EXCEPT ![e] = [status |-> s, due |-> d]] /\ (s \in {"none", "new"} => s = db[e].status)
  <2>0. db[e] \in [status : DbStatus, due : BOOLEAN]
    BY DEF Given, RestOK
  <2>1. CASE db' = db
    <3>1. db = [db EXCEPT ![e] = [status |-> db[e].status, due |-> db[e].due]]
      BY <2>0 DEF Given, RestOK
    <3> QED BY <2>0, <2>1, <3>1
  <2>2. CASE db' = [db EXCEPT ![e] = ProgressRow(@)]
    <3>1. PICK s \in DbStatus, d \in BOOLEAN :
            ProgressRow(db[e]) = [status |-> s, due |-> d] /\ s \in {db[e].status, "running"}
      BY <2>0, ProgressRowIs
    <3> QED BY <2>2, <3>1
  <2>3. CASE \E row \in SavedRow(db[e], run[r].cut) : db' = [db EXCEPT ![e] = row]
    <3>1. PICK row \in SavedRow(db[e], run[r].cut) : db' = [db EXCEPT ![e] = row]
      BY <2>3
    <3>2. PICK s \in {"success", "error", "waiting"}, d \in BOOLEAN :
            row = [status |-> s, due |-> d] /\ s \in DbStatus \ {"none"}
      BY <2>0, <3>1, SavedRowIs
    <3> QED BY <3>1, <3>2
  <2> QED BY <1>2, <2>1, <2>2, <2>3 DEF NodeReturns
<1>4. \A x \in Runs : /\ run'[x].pc = run[x].pc /\ run'[x].promise = run[x].promise
                       /\ run'[x].status = run[x].status /\ run'[x].attached = run[x].attached
  BY NodeReturnsRuns DEF Given, QueueInv
<1>5. \A x \in Runs : x # r => run'[x] = run[x]
  BY DEF NodeReturns, Given, QueueInv
<1> QED BY <1>1, <1>2, <1>3, <1>4, <1>5, RowSound DEF NodeReturns

LEMMA SaveSound ==
    ASSUME Given, NEW r \in Runs, Save(r)
    PROVE  SoundStep
<1>1. run[r].pc \in {"executing", "stray", "canceling", "closing"}
  BY DEF Save, Given, NeverParked
<1>2. PICK e \in Execution : e = r[1] /\ r = <<e, 1>>
  BY <1>1, FirstOf DEF Given
<1>3. PICK s \in DbStatus \ {"none", "new"}, d \in BOOLEAN :
        db' = [db EXCEPT ![e] = [status |-> s, due |-> d]]
  <2>0. db[e] \in [status : DbStatus, due : BOOLEAN]
    BY DEF Given, RestOK
  <2>1. CASE \E row \in SavedRow(db[e], run[r].pc) : db' = [db EXCEPT ![e] = row]
    <3>1. PICK row \in SavedRow(db[e], run[r].pc) : db' = [db EXCEPT ![e] = row]
      BY <2>1
    <3>2. PICK s \in {"success", "error", "waiting"}, d \in BOOLEAN :
            row = [status |-> s, due |-> d] /\ s \in DbStatus \ {"none"}
      BY <2>0, <3>1, SavedRowIs
    <3> QED BY <3>1, <3>2
  <2>2. CASE db' = [db EXCEPT ![e].status = "canceled"]
    <3>1. [db[e] EXCEPT !.status = "canceled"] = [status |-> "canceled", due |-> db[e].due]
      BY <2>0
    <3>2. db' = [db EXCEPT ![e] = [status |-> "canceled", due |-> db[e].due]]
      BY <2>2, <3>1
    <3> QED BY <2>0, <3>2 DEF DbStatus
  <2> QED BY <1>2, <2>1, <2>2 DEF Save
<1>4. PICK p \in {"over", "canceled", "saved"} :
        run' = [run EXCEPT ![r].pc = p] /\ (p = "over" => run[r].pc \in {"stray", "closing"})
  <2>1. PICK p : p = CASE run[r].pc \in {"stray", "closing"} -> "over"
                       [] run[r].pc = "canceling" -> "canceled"
                       [] OTHER -> "saved"
    OBVIOUS
  <2>2. run' = [run EXCEPT ![r].pc = p]
    BY <2>1 DEF Save
  <2>3. p \in {"over", "canceled", "saved"} /\ (p = "over" => run[r].pc \in {"stray", "closing"})
    BY <1>1, <2>1
  <2> QED BY <2>2, <2>3
<1>5. /\ \A x \in Runs : x # r => run'[x] = run[x]
      /\ run'[r].status = run[r].status /\ run'[r].attached = run[r].attached
      /\ run'[r].promise = run[r].promise /\ run'[r].pc = p
  BY <1>4 DEF Given, QueueInv, RunRecord
<1> QED BY <1>1, <1>2, <1>3, <1>4, <1>5, RowSound DEF Save, history

LEMMA FinalizeSound ==
    ASSUME Given, NEW r \in Runs, Finalize(r)
    PROVE  SoundStep
<1>1. PICK e \in Execution : e = r[1] /\ r = <<e, 1>>
  BY FirstOf DEF Finalize, Given
<1>2. /\ Sound(e) /\ run[r].pc \in {"saved", "refused", "canceling", "canceled"} /\ stage' = stage
      /\ UNCHANGED <<db, stop, boot, stops, began>>
  BY DEF Given, Finalize, history
<1>3. PICK p \in {"closing", "over"} : p = IF run[r].pc = "canceling" THEN "closing" ELSE "over"
  OBVIOUS
<1>4. PICK R \in [Runs -> RunRecord] :
        /\ R = [run EXCEPT ![r].pc = IF @ = "canceling" THEN "closing" ELSE "over"]
        /\ \A x \in Runs : x # r => R[x] = run[x]
        /\ R[r].status = run[r].status /\ R[r].attached = run[r].attached
        /\ R[r].promise = run[r].promise /\ R[r].pc = p
  <2>1. PICK R \in [Runs -> RunRecord] : R = [run EXCEPT ![r].pc = p]
    BY MovedRun DEF Given, QueueInv, Step
  <2>2. R = [run EXCEPT ![r].pc = IF @ = "canceling" THEN "closing" ELSE "over"]
    BY <1>3, <2>1
  <2>3. /\ \A x \in Runs : x # r => R[x] = run[x]
        /\ R[r].status = run[r].status /\ R[r].attached = run[r].attached
        /\ R[r].promise = run[r].promise /\ R[r].pc = p
    BY <2>1 DEF Given, QueueInv, RunRecord
  <2> QED BY <2>2, <2>3
<1>5. /\ \A x \in Runs : x # r => Frame(run', run, x)
      /\ run'[r].status = run[r].status /\ run'[r].attached = run[r].attached
      /\ run'[r].promise # "pending" /\ run'[r].pc = p
      /\ active' = [active EXCEPT ![e] = 0]
  <2>1. CASE active[e] = 0
    <3>1. run' = R /\ active' = active
      BY <1>1, <1>4, <2>1 DEF Finalize
    <3>2. run[r].promise # "pending"
      BY <1>1, <1>2, <2>1 DEF Sound
    <3> QED BY <1>4, <2>1, <3>1, <3>2 DEF Frame, Given, RestOK
  <2>2. CASE active[e] # 0
    <3>1. /\ <<e, active[e]>> = r
          /\ run[r].promise = "pending" /\ run[r].status = "running"
      BY <1>1, <1>2, <2>2 DEF Sound
    <3>2. SettlePromise(R, r)
      BY <1>1, <1>4, <2>2, <3>1 DEF Finalize
    <3>3. \A x \in Runs : run[x].pc = "queued" => R[x].pc = "queued"
      BY <1>2, <1>4
    <3>4. /\ \A x \in Runs : x # r => Frame(run', R, x)
          /\ run'[r].status = R[r].status /\ run'[r].attached = R[r].attached
          /\ run'[r].promise = "settled" /\ run'[r].pc = R[r].pc
          /\ active' = [active EXCEPT ![r[1]] = 0]
      <4>1. /\ R[r].promise = "pending" /\ R[r].status = "running" /\ R[r].pc # "queued"
            /\ QueueInv
        BY <1>4, <3>1 DEF Given
      <4> QED BY <3>2, <3>3, <4>1, Settling
    <3> QED BY <1>1, <1>4, <3>4 DEF Frame
  <2> QED BY <2>1, <2>2
<1>6. Elsewhere(e)
  BY <1>1, <1>2, <1>5 DEF Elsewhere, Given, RestOK
<1>7. Sound(e)'
  BY <1>1, <1>2, <1>5 DEF Sound, Before, Given, RestOK
<1> QED BY <1>2, <1>6, <1>7, ElsewhereSound DEF CountersOK, Given

LEMMA TimeOutSound ==
    ASSUME Given, NEW r \in Runs, TimeOut(r)
    PROVE  SoundStep
<1>1. PICK e \in Execution : e = r[1] /\ r = <<e, 1>> /\ r[2] = 1
  BY FirstOf DEF TimeOut, Given
<1>2. /\ Sound(e) /\ run[r].pc \in {"executing", "parking", "saved", "canceling", "canceled"}
      /\ StopActive(e) /\ active[e] # 0 /\ stage' = stage
      /\ UNCHANGED <<db, stop, boot, stops, began>>
  BY <1>1 DEF Given, TimeOut, history
<1>3. active[e] = 1
  BY <1>1, <1>2 DEF Sound
<1>4. /\ \A x \in Runs : x # r => Frame(run', run, x)
      /\ run'[r].status = run[r].status /\ run'[r].attached = run[r].attached
      /\ active' = [active EXCEPT ![e] = 0]
      /\ run'[r].promise = "settled"
      /\ \/ run'[r].pc = run[r].pc /\ run[r].pc # "executing"
         \/ run[r].pc \in {"executing", "parking", "saved"} /\ run'[r].pc = "canceling"
  BY <1>1, <1>2, <1>3, Stopping DEF Given
<1>5. Elsewhere(e)
  BY <1>1, <1>2, <1>4 DEF Elsewhere, Given, RestOK
<1>6. Sound(e)'
  BY <1>1, <1>2, <1>4 DEF Sound, Before, Given, RestOK
<1> QED BY <1>1, <1>2, <1>4, <1>5, <1>6, ElsewhereSound DEF CountersOK, Given

LEMMA StopCheckSound ==
    ASSUME Given, NEW e \in Execution, StopCheck(e)
    PROVE  SoundStep
<1>1. /\ Sound(e) /\ stage' = stage
      /\ stop' = [stop EXCEPT ![e] = "checked"] /\ stops' = [stops EXCEPT ![e] = @ + 1]
      /\ UNCHANGED <<db, run, active, boot, began>>
  BY DEF Given, StopCheck
<1>2. CountersOK' /\ stops'[e] # 0 /\ \A o \in Execution \ {e} : stops'[o] = stops[o]
  BY <1>1 DEF CountersOK, Given
<1>3. Elsewhere(e)
  BY <1>1, <1>2 DEF Elsewhere, Frame, Given, RestOK
<1>4. Sound(e)'
  BY <1>1, <1>2 DEF Sound
<1> QED BY <1>1, <1>2, <1>3, <1>4, ElsewhereSound DEF Given

LEMMA StopActSound ==
    ASSUME Given, NEW e \in Execution, StopAct(e)
    PROVE  SoundStep
<1>1. PICK r \in Runs : r = <<e, 1>>
  BY RunsFacts
<1>2. /\ Sound(e) /\ stop[e] = "checked" /\ stage' = stage
      /\ UNCHANGED <<db, boot, stops, began>>
  BY DEF Given, StopAct
<1>3. stops[e] # 0
  BY <1>2 DEF Sound
<1>4. \A o \in Execution \ {e} : stop'[o] = stop[o]
  BY DEF StopAct, Given, RestOK
<1>5. CASE InQueue(e)
  <2>1. LeaveQueue(e) /\ Enabled /\ active' = active
    BY <1>5 DEF StopAct, InQueue
  <2>2. /\ \A x \in Runs : x # r => Frame(run', run, x)
        /\ run'[r].status = run[r].status /\ run'[r].attached = run[r].attached
        /\ run'[r].promise = run[r].promise /\ run'[r].pc = "removed"
        /\ run[r].pc = "queued"
    BY <1>1, <2>1, Leaving DEF Given
  <2>3. Elsewhere(e)
    BY <1>1, <1>2, <1>4, <2>1, <2>2 DEF Elsewhere
  <2>4. Sound(e)'
    BY <1>1, <1>2, <1>3, <2>1, <2>2 DEF Sound, Before
  <2>5. CountersOK'
    BY <1>2 DEF CountersOK, Given
  <2> QED BY <1>2, <2>3, <2>4, <2>5, ElsewhereSound DEF Given
<1>6. CASE ~InQueue(e)
  <2>1. StopActive(e)
    BY <1>6 DEF StopAct
  <2>2. /\ \A x \in Runs : x # r => Frame(run', run, x)
        /\ run'[r].status = run[r].status /\ run'[r].attached = run[r].attached
        /\ active' = [active EXCEPT ![e] = 0]
        /\ run'[r].promise = IF active[e] = 0 THEN run[r].promise ELSE "settled"
        /\ \/ run'[r].pc = run[r].pc
           \/ run[r].pc \in {"executing", "parking", "saved"} /\ run'[r].pc = "canceling"
    BY <1>1, <1>2, <2>1, Stopping DEF Given
  <2>3. Elsewhere(e)
    BY <1>1, <1>2, <1>4, <2>2 DEF Elsewhere, Given, RestOK
  <2>4. Sound(e)'
    BY <1>1, <1>2, <1>3, <2>2 DEF Sound, Before, Given, RestOK
  <2>5. CountersOK'
    BY <1>2 DEF CountersOK, Given
  <2> QED BY <1>2, <2>3, <2>4, <2>5, ElsewhereSound DEF Given
<1> QED BY <1>5, <1>6

LEMMA StopWriteSound ==
    ASSUME Given, NEW e \in Execution, StopWrite(e)
    PROVE  SoundStep
<1>1. /\ Sound(e) /\ stage' = stage /\ stop' = [stop EXCEPT ![e] = "none"]
      /\ UNCHANGED <<run, active, boot, stops, began>>
  BY DEF Given, StopWrite, history
<1>2. db'[e].status = "canceled" /\ \A o \in Execution \ {e} : db'[o] = db[o]
  <2>1. PICK d : db' = [db EXCEPT ![e] = [status |-> "canceled", due |-> d]]
    BY DEF StopWrite
  <2> QED BY <2>1 DEF Given, RestOK
<1>3. stop'[e] = "none" /\ \A o \in Execution \ {e} : stop'[o] = stop[o]
  BY <1>1 DEF Given, RestOK
<1>4. Elsewhere(e)
  BY <1>1, <1>2, <1>3 DEF Elsewhere, Frame
<1>5. Sound(e)'
  BY <1>1, <1>2, <1>3 DEF Sound, Enabled
<1> QED BY <1>1, <1>4, <1>5, ElsewhereSound DEF CountersOK, Given

\* Nothing that Sound or Committed is about changes.
LEMMA NothingSound ==
    ASSUME Given, UNCHANGED <<db, run, active, stage, stop, boot, stops, began>>
    PROVE  SoundStep
BY DEF Given, SoundStep, OnlyFirst, CountersOK, Sound, Enabled

\* What each step of a process that is up, or on its way down, does.
LEMMA ActionSound ==
    ASSUME Given, Next, ~Shutdown, ~Exit, ~Crash, ~Restart
    PROVE  SoundStep
<1>1. ASSUME NEW e \in Execution, StartNew(e) \/ RunEnqueued(e) \/ Resume(e)
      PROVE  SoundStep
  <2>1. ~Resume(e)
    BY DEF Given, Fresh, Resume
  <2> QED BY <1>1, <2>1, StartNewSound, RunEnqueuedSound
<1>2. ASSUME NEW r \in Runs, RunStep(r) PROVE SoundStep
  <2>1. ~PutToWait(r)
    BY DEF Given, PutToWait
  <2> QED BY <1>2, <2>1, AddSound, CheckPassesSound, CheckFailsSound, BeginSound,
             SaveProgressSound, SaveSound, NodeReturnsSound, FinalizeSound, TimeOutSound DEF RunStep
<1>3. ASSUME NEW e \in Execution, StopCheck(e) \/ StopAct(e) \/ StopWrite(e)
      PROVE  SoundStep
  BY <1>3, StopCheckSound, StopActSound, StopWriteSound
<1>4. CASE PollQuery \/ PollApply
  BY <1>4, NothingSound DEF PollQuery, PollApply, history
<1> QED BY <1>1, <1>2, <1>3, <1>4 DEF Next

-----------------------------------------------------------------------------
(* The end of a process, and the next one.                                 *)

LEMMA ShutdownSound ==
    ASSUME Given, Shutdown
    PROVE  SoundStep
<1>1. /\ stage' = "stopping" /\ ~Enabled'
      /\ UNCHANGED <<db, stop, boot, stops, began>>
  BY DEF Shutdown, history, Enabled
<1>2. \A e \in Execution : /\ active[e] \in {0, 1} /\ Sound(e) /\ run[<<e, 1>>].status = "running"
                           /\ run[<<e, 1>>].attached \in {0, 1}
  BY DEF Given, Sound
<1>3. PICK Stopped \in SUBSET Execution :
        /\ \A e \in Stopped : active[e] = 1
        /\ \A e \in Execution : active'[e] = IF e \in Stopped THEN 0 ELSE active[e]
        /\ \E Settled \in [Runs -> RunRecord] :
              /\ \A x \in Runs : Settled[x] = IF x[1] \in Stopped /\ x[2] = 1
                                              THEN [run[x] EXCEPT !.promise = "settled"] ELSE run[x]
              /\ \A x \in Runs : run'[x] \in {Settled[x], Canceled(Settled, x)[x]}
  <2> DEFINE entry(e) == <<e, active[e]>>
             Present  == {e \in Execution : active[e] # 0}
             Waiting  == {e \in Present : run[entry(e)].status = "waiting"}
             Stopped  == {e \in Present \ Waiting : run[entry(e)].response}
             Settled  == [r \in Runs |-> IF r[1] \in Stopped /\ r = entry(r[1])
                                        THEN [run[r] EXCEPT !.promise = "settled"] ELSE run[r]]
  <2>1. /\ active' = [e \in Execution |-> IF e \in Waiting \cup Stopped THEN 0 ELSE active[e]]
        /\ run' = [r \in Runs |->
                     IF r[1] \in Stopped /\ run[entry(r[1])].attached = r[2]
                     THEN Canceled(Settled, r)[r] ELSE Settled[r]]
    BY DEF Shutdown
  <2>2. \A e \in Present : entry(e) = <<e, 1>> /\ active[e] = 1
    BY <1>2
  <2>3. Waiting = {}
    BY <1>2, <2>2
  <2>4. \A x \in Runs : x[1] \in Stopped => (x = entry(x[1]) <=> x[2] = 1)
    BY <2>2, RunsFacts
  <2>5. \A x \in Runs : Settled[x] = IF x[1] \in Stopped /\ x[2] = 1
                                     THEN [run[x] EXCEPT !.promise = "settled"] ELSE run[x]
    BY <2>4
  <2>6. Settled \in [Runs -> RunRecord]
    <3>1. \A x \in Runs : run[x] \in RunRecord /\ [run[x] EXCEPT !.promise = "settled"] \in RunRecord
      BY DEF Given, QueueInv, RunRecord
    <3> QED BY <3>1
  <2>7. Stopped \in SUBSET Execution /\ \A e \in Stopped : active[e] = 1
    BY <2>2
  <2>8. \A x \in Runs : run'[x] \in {Settled[x], Canceled(Settled, x)[x]}
    BY <2>1
  <2>9. \A e \in Execution : active'[e] = IF e \in Stopped THEN 0 ELSE active[e]
    BY <2>1, <2>3
  <2> HIDE DEF Settled, Stopped
  <2> QED BY <2>5, <2>6, <2>7, <2>8, <2>9
<1>4. \A x \in Runs :
        /\ run'[x].status = run[x].status /\ run'[x].attached = run[x].attached
        /\ run'[x].promise = IF x[1] \in Stopped /\ x[2] = 1 THEN "settled" ELSE run[x].promise
        /\ \/ run'[x].pc = run[x].pc
           \/ run[x].pc \in {"executing", "parking", "saved"} /\ run'[x].pc = "canceling"
  <2>1. PICK S \in [Runs -> RunRecord] :
          /\ \A x \in Runs : S[x] = IF x[1] \in Stopped /\ x[2] = 1
                                    THEN [run[x] EXCEPT !.promise = "settled"] ELSE run[x]
          /\ \A x \in Runs : run'[x] \in {S[x], Canceled(S, x)[x]}
    BY <1>3
  <2>2. \A x \in Runs :
          /\ S[x].status = run[x].status /\ S[x].attached = run[x].attached
          /\ S[x].promise = IF x[1] \in Stopped /\ x[2] = 1 THEN "settled" ELSE run[x].promise
          /\ S[x].pc = run[x].pc
    BY <2>1 DEF Given, QueueInv, RunRecord
  <2>3. \A x \in Runs :
          /\ Canceled(S, x)[x].status = S[x].status /\ Canceled(S, x)[x].attached = S[x].attached
          /\ Canceled(S, x)[x].promise = S[x].promise
          /\ \/ Canceled(S, x)[x].pc = S[x].pc
             \/ S[x].pc \in {"executing", "parking", "saved"} /\ Canceled(S, x)[x].pc = "canceling"
    BY CanceledRun
  <2> QED BY <2>1, <2>2, <2>3
<1>5. OnlyFirst'
  BY <1>4 DEF OnlyFirst, Given
<1>6. ASSUME NEW e \in Execution PROVE Sound(e)'
  <2>1. PICK x \in Runs : x = <<e, 1>> /\ x[1] = e /\ x[2] = 1
    BY RunsFacts
  <2> QED BY <1>1, <1>2, <1>3, <1>4, <2>1 DEF Sound, Before
<1> QED BY <1>1, <1>5, <1>6 DEF SoundStep, CountersOK, Given

\* exit and crash.
LEMMA DownSound ==
    ASSUME CountersOK, \A e \in Execution : Sound(e), Exit \/ Crash
    PROVE  OnlyFirst' /\ CountersOK' /\ \A e \in Execution : Sound(e)'
<1>1. /\ run' = NoRuns /\ active' = NoEntries /\ boot' = {} /\ stop' = NoStops
      /\ stage' = "down" /\ UNCHANGED <<db, stops, began>>
  BY DEF Exit, Crash, MemoryLost
<1>2. \A r \in Runs : run'[r] = NoRun
  BY <1>1 DEF NoRuns
<1>3. ASSUME NEW e \in Execution PROVE Sound(e)'
  BY <1>1, <1>2, RunsFacts DEF Sound, NoRun, NoEntries, NoStops, Before, Enabled
<1> QED BY <1>1, <1>2, <1>3 DEF OnlyFirst, CountersOK, NoRun

LEMMA RestartSound ==
    ASSUME Given, Forgotten, Restart
    PROVE  OnlyFirst' /\ CountersOK' /\ \A e \in Execution : Sound(e)'
<1>1. /\ stage' = "up" /\ UNCHANGED <<run, active, stop, stops, began>>
      /\ boot' = {e \in Execution : db'[e].status = "new"}
      /\ db' = [e \in Execution |-> IF db[e].status = "running" \/ e \in log
                                    THEN [db[e] EXCEPT !.status = "crashed"] ELSE db[e]]
  BY DEF Restart
<1>2. \A r \in Runs : run[r] = NoRun
  BY DEF Forgotten, NoRuns
<1>3. \A e \in Execution : db'[e].status \in {"crashed", db[e].status}
  BY <1>1 DEF Given, RestOK
<1>4. ASSUME NEW e \in Execution PROVE Sound(e)'
  <2>1. Sound(e) /\ run[<<e, 1>>] = NoRun
    BY <1>2, RunsFacts DEF Given
  <2> QED BY <1>1, <1>3, <2>1 DEF Sound, NoRun, Before
<1> QED BY <1>1, <1>4 DEF OnlyFirst, CountersOK, Given

-----------------------------------------------------------------------------
(* The limit.                                                              *)

LEMMA CommittedFacts ==
    /\ IsFiniteSet(Committed) /\ Cardinality(Committed) \in Nat
    /\ \A S \in SUBSET Committed : Cardinality(S) <= Cardinality(Committed)
<1>1. Committed \subseteq Runs
  BY DEF Committed
<1>2. IsFiniteSet(Committed)
  BY <1>1, RunsFacts, FS_Subset
<1> QED BY <1>2, FS_Subset, FS_CardinalityType

\* Who goes on holds a slot, as long as nobody was stopped.
LEMMA CommittedHold ==
    ASSUME QueueInv, OnlyFirst, \A e \in Execution : Sound(e), NeverParked,
           NeverStopped, Enabled, Balanced
    PROVE  FewCommitted
<1>1. ASSUME NEW r \in Committed PROVE r \in Holding
  <2>1. r \in Runs /\ run[r].pc \in Busy /\ run[r].pc # "parking"
    BY <1>1 DEF Committed, NeverParked
  <2>2. r[1] \in Execution /\ r = <<r[1], 1>>
    BY <2>1, FirstOf DEF Busy
  <2>3. Sound(r[1]) /\ stops[r[1]] = 0
    BY <2>2 DEF NeverStopped
  <2>4. run[r].pc = "admitted" \/ run[r].promise = "pending"
    BY <2>1, <2>2, <2>3 DEF Sound, Busy
  <2> QED BY <2>1, <2>4 DEF Holding
<1>2. Cardinality(Committed) <= Cardinality(Holding)
  <2>1. Committed \subseteq Holding /\ IsFiniteSet(Holding)
    BY <1>1, RunsFacts, FS_Subset DEF Holding
  <2> QED BY <2>1, FS_Subset
<1>3. capacity = Limit - Cardinality(Holding) - Len(queue)
  BY DEF QueueInv, SlotAccounting
<1>4. Cardinality(Holding) \in Nat /\ Len(queue) \in Nat /\ Limit \in Nat
  BY HoldingCounts, QueueFacts, RunsFacts
<1> QED BY <1>2, <1>3, <1>4, CommittedFacts DEF FewCommitted, Balanced

\* A step that drops nobody from the queue keeps the balance of counter and queue.
LEMMA BalanceKept ==
    ASSUME QueueInv, Enabled, QueueStep, Balanced,
           \A r \in Runs : run'[r].pc # "removed"
    PROVE  Balanced'
<1>1. capacity \in Int /\ Len(queue) \in Nat /\ queue \in Seq(Runs)
  BY QueueFacts DEF QueueInv
<1>2. CASE LeavesQueue
  BY <1>1, <1>2 DEF LeavesQueue, Balanced
<1>3. ASSUME NEW r \in Runs, Takes(r) PROVE Balanced'
  <2>1. CASE queue' = queue
    BY <1>1, <1>3, <2>1 DEF Takes, Balanced
  <2>2. CASE queue' # queue
    <3>1. queue' = Append(queue, r) /\ capacity' = capacity - 1
      BY <1>3, <2>2 DEF Takes
    <3>2. Len(queue') = Len(queue) + 1
      BY <1>1, <3>1, AppendProperties
    <3> QED BY <1>1, <3>1, <3>2 DEF Balanced
  <2> QED BY <2>1, <2>2
<1>4. ASSUME NEW r \in Runs, Gives(r) PROVE Balanced'
  <2>1. capacity' = capacity + 1 /\ queue' = Shift(queue)
    BY <1>4 DEF Gives
  <2>2. Len(Shift(queue)) >= Len(queue) - 1 /\ Len(Shift(queue)) \in Nat
    <3>1. CASE queue = <<>>
      BY <1>1, <3>1, ShiftFacts
    <3>2. CASE queue # <<>>
      BY <1>1, <3>2, ShiftFacts
    <3> QED BY <3>1, <3>2
  <2> QED BY <1>1, <2>1, <2>2 DEF Balanced
<1>5. ASSUME NEW i \in DOMAIN queue, Drops(i) PROVE FALSE
  BY <1>5, QueueFacts DEF Drops
<1> QED BY <1>2, <1>3, <1>4, <1>5 DEF QueueStep

-----------------------------------------------------------------------------
(* The invariant is inductive.                                             *)

LEMMA GivenHolds ==
    ASSUME ~CanWait, StartsInv
    PROVE  Given
BY TypeParts DEF StartsInv, IInv, Given

LEMMA InitStarts == Init => StartsInv
<1> SUFFICES ASSUME Init PROVE StartsInv
  OBVIOUS
<1>1. \A r \in Runs : run[r] = NoRun
  BY DEF Init, NoRuns
<1>2. OnlyFirst /\ CountersOK
  BY <1>1 DEF OnlyFirst, CountersOK, NoRun, Init
<1>3. ASSUME NEW e \in Execution PROVE Sound(e)
  BY <1>1, RunsFacts DEF Sound, NoRun, Init, NoEntries, NoStops, Before
<1>4. LimitKept
  <2>1. Len(<<>>) = 0
    BY EmptySeq
  <2> QED BY <2>1, RunsFacts DEF Init, LimitKept, Balanced
<1> QED BY <1>2, <1>3, <1>4, InitIInv DEF StartsInv

\* A process that knows nothing has the balance.
LEMMA ForgottenBalanced ==
    Forgotten => Balanced
<1>1. Len(<<>>) = 0
  BY EmptySeq
<1> QED BY <1>1, RunsFacts DEF Forgotten, Balanced

\* The limit is kept by the steps of a process.
LEMMA StepKeepsLimit ==
    ASSUME Given, LimitKept, SoundStep, QueueStep, stage' = stage
    PROVE  LimitKept'
<1> SUFFICES ASSUME NeverStopped', Enabled'
             PROVE  Balanced'
  BY DEF LimitKept
<1>1. NeverStopped /\ Enabled
  BY DEF NeverStopped, SoundStep, Enabled
<1>2. ASSUME NEW r \in Runs PROVE run'[r].pc # "removed"
  <2>1. CASE r[2] = 1
    <3>1. r[1] \in Execution /\ r = <<r[1], 1>>
      BY <2>1, RunsFacts
    <3>2. Sound(r[1])' /\ stops'[r[1]] = 0
      BY <3>1 DEF SoundStep, NeverStopped
    <3> QED BY <3>1, <3>2 DEF Sound
  <2>2. CASE r[2] # 1
    BY <2>2 DEF SoundStep, OnlyFirst
  <2> QED BY <2>1, <2>2
<1> QED BY <1>1, <1>2, BalanceKept DEF Given, LimitKept

LEMMA StepStarts ==
    ASSUME ~CanWait
    PROVE  StartsInv /\ [Next]_vars => StartsInv'
<1> SUFFICES ASSUME StartsInv, [Next]_vars PROVE StartsInv'
  OBVIOUS
<1>1. Given /\ IInv'
  BY GivenHolds, StepIInv DEF StartsInv
<1>2. CASE UNCHANGED vars
  <2>1. UNCHANGED <<db, run, active, capacity, queue, stop, boot, stage, stops, began>>
    BY <1>2 DEF vars, memory, history
  <2>2. SoundStep
    BY <1>1, <2>1, NothingSound
  <2>3. LimitKept'
    BY <2>1 DEF StartsInv, LimitKept, NeverStopped, Balanced, Enabled
  <2> QED BY <1>1, <2>2, <2>3 DEF StartsInv, SoundStep
<1>3. CASE Next /\ ~Shutdown /\ ~Exit /\ ~Crash /\ ~Restart
  <2>1. QueueStep /\ stage' = stage
    BY <1>3, ActionStep DEF StepOK, StartsInv
  <2>2. SoundStep
    BY <1>1, <1>3, ActionSound
  <2>3. LimitKept'
    BY <1>1, <2>1, <2>2, StepKeepsLimit DEF StartsInv
  <2> QED BY <1>1, <2>2, <2>3 DEF StartsInv, SoundStep
<1>4. CASE Shutdown
  <2>1. SoundStep
    BY <1>1, <1>4, ShutdownSound
  <2>2. ~Enabled'
    BY <1>4 DEF Shutdown, Enabled
  <2>3. LimitKept'
    BY <2>2 DEF LimitKept
  <2> QED BY <1>1, <2>1, <2>3 DEF StartsInv, SoundStep
<1>5. CASE Exit \/ Crash
  <2>1. OnlyFirst' /\ CountersOK' /\ \A e \in Execution : Sound(e)'
    BY <1>1, <1>5, DownSound DEF Given
  <2>2. Forgotten'
    BY <1>5 DEF Exit, Crash, MemoryLost, Forgotten
  <2>3. Balanced'
    BY <2>2, ForgottenBalanced, PTL
  <2> QED BY <1>1, <2>1, <2>3 DEF StartsInv, LimitKept
<1>6. CASE Restart
  <2>1. Forgotten /\ UNCHANGED <<run, capacity, queue>>
    BY <1>6 DEF Restart, StartsInv, IInv
  <2>2. OnlyFirst' /\ CountersOK' /\ \A e \in Execution : Sound(e)'
    BY <1>1, <1>6, <2>1, RestartSound
  <2>3. Balanced'
    BY <2>1, ForgottenBalanced DEF Balanced
  <2> QED BY <1>1, <2>2, <2>3 DEF StartsInv, LimitKept
<1> QED BY <1>2, <1>3, <1>4, <1>5, <1>6

-----------------------------------------------------------------------------
(* Results.                                                                *)

LEMMA StartsInvariance == ASSUME ~CanWait PROVE Spec => []StartsInv
<1>1. Init => StartsInv
  BY InitStarts
<1>2. StartsInv /\ [Next]_vars => StartsInv'
  BY StepStarts
<1> QED BY <1>1, <1>2, PTL DEF Spec

\* However an execution that never waits ends, by itself, by a stop, a timeout, a
\* failed check or the shutdown: its slot and its entry in ActiveExecutions are given
\* back, once, by the run that took them.
THEOREM SlotsAndEntriesReturned == ASSUME ~CanWait PROVE Spec => []SlotsReturned
<1>1. StartsInv => SlotsReturned
  <2> SUFFICES ASSUME StartsInv PROVE SlotsReturned
    OBVIOUS
  <2>1. SlotAccounting
    BY DEF StartsInv, IInv, QueueInv
  <2>2. NoSlotLeak
    <3> SUFFICES ASSUME NEW r \in Runs, run[r].pc = "over" PROVE run[r].promise # "pending"
      BY DEF NoSlotLeak
    <3>1. r[1] \in Execution /\ r = <<r[1], 1>>
      BY FirstOf DEF StartsInv
    <3> QED BY <3>1 DEF StartsInv, Sound
  <2>3. EntryHasOwner
    <3> SUFFICES ASSUME NEW e \in Execution, active[e] # 0
                 PROVE  run[<<e, active[e]>>].pc \notin {"over", "removed"}
      BY DEF EntryHasOwner
    <3>1. Sound(e) /\ <<e, 1>> \in Runs /\ NotRegistered
      BY RunsFacts DEF StartsInv, IInv, QueueInv
    <3>2. active[e] = 1 /\ run[<<e, 1>>].promise = "pending"
      BY <3>1 DEF Sound
    <3> QED BY <3>1, <3>2 DEF Sound, NotRegistered, Early
  <2> QED BY <2>1, <2>2, <2>3 DEF SlotsReturned
<1> QED BY <1>1, StartsInvariance, PTL

\* Over any number of stops, shutdowns, crashes and boot-ups, a workflow that never
\* waits is started at most once: throttle, runEnqueuedExecutions and the recovery at
\* boot-up start none that was begun. And in a process that got no signal no more than
\* Limit execute at a time, as long as nobody stops one.
THEOREM StartsAreBounded == ASSUME ~CanWait PROVE Spec => []StartsBounded
<1>1. StartsInv => StartsBounded
  <2> SUFFICES ASSUME StartsInv PROVE StartsBounded
    OBVIOUS
  <2>1. StartedOnce
    BY DEF StartsInv, CountersOK, StartedOnce
  <2>2. ASSUME Enabled, \A e \in Execution : stops[e] = 0 PROVE Cardinality(Executing) <= Limit
    <3>0. Given
      BY GivenHolds
    <3>1. Cardinality(Committed) <= Limit
      BY <2>2, <3>0, CommittedHold DEF StartsInv, Given, LimitKept, NeverStopped, FewCommitted
    <3>2. Executing \in SUBSET Committed
      BY DEF Executing, Committed, Busy
    <3>3. Cardinality(Executing) \in Nat /\ Cardinality(Executing) <= Cardinality(Committed)
      BY <3>2, CommittedFacts, FS_Subset, FS_CardinalityType
    <3> QED BY <3>1, <3>3, CommittedFacts, RunsFacts
  <2> QED BY <2>1, <2>2 DEF StartsBounded, LimitHolds
<1> QED BY <1>1, StartsInvariance, PTL

=============================================================================
