------------------------ MODULE ConcurrencyQueue_proofs ------------------------
(***************************************************************************)
(* Proofs about ConcurrencyQueue, for every set of executions and every    *)
(* limit. The inductive invariant is the conjunction of the run's own      *)
(* invariants: the accounting equation needs the list and the phases to    *)
(* agree (QueueIsPending), the other bounds need the accounting equation.  *)
(***************************************************************************)
EXTENDS ConcurrencyQueue, QueueLemmas

IInv ==
    /\ TypeOK
    /\ QueueIsPending
    /\ Accounting
    /\ WorkConserving
    /\ BoundedOvershoot

-----------------------------------------------------------------------------
(* Facts about the operators the actions are built from.                   *)

\* What shift() leaves of a list that is not empty.
LEMMA ShiftProperties ==
    ASSUME NEW S, NEW s \in Seq(S), s # <<>>
    PROVE  /\ Shift(s) \in Seq(S)
           /\ Len(s) >= 1
           /\ Len(Shift(s)) = Len(s) - 1
           /\ \A j \in 1 .. Len(s) - 1 : Shift(s)[j] = s[j + 1]
           /\ Released(s) = {s[1]}
           /\ s[1] \in S
<1>1. Len(s) \in Nat \ {0}
  BY EmptySeq
<1>2. Head(s) = s[1]
  OBVIOUS
<1>3. /\ Tail(s) \in Seq(S)
      /\ Len(Tail(s)) = Len(s) - 1
      /\ \A j \in 1 .. Len(Tail(s)) : Tail(s)[j] = s[j + 1]
      /\ Head(s) \in S
  BY HeadTailProperties
<1> QED BY <1>1, <1>2, <1>3 DEF Shift, Released

\* How a step changes the set of running executions: the counting facts every
\* action needs, without the sequence.
LEMMA RunningCounts ==
    ASSUME NEW A, A \subseteq Execution
    PROVE  /\ Cardinality(A) \in Nat
           /\ \A e \in Execution \ A : Cardinality(A \cup {e}) = Cardinality(A) + 1
           /\ \A e \in A : Cardinality(A \ {e}) = Cardinality(A) - 1
           /\ \A e \in A, h \in Execution \ A : Cardinality((A \ {e}) \cup {h}) = Cardinality(A)
BY ExecutionAssumption, SubsetCounts

-----------------------------------------------------------------------------
(* The invariant is inductive.                                             *)

\* It holds of the new queue.
LEMMA InitIInv == Init => IInv
<1> SUFFICES ASSUME Init PROVE IInv
  OBVIOUS
<1>1. queue = <<>> /\ Len(queue) = 0 /\ queue \in Seq(Execution) /\ DOMAIN queue = {}
  BY EmptySeq DEF Init
<1>2. Running = {} /\ Removed = {}
  BY DEF Init, Running, Removed
<1>3. Cardinality({}) = 0
  BY FS_EmptySet
<1>4. TypeOK
  BY <1>1, LimitAssumption DEF Init, TypeOK, Phase
<1>5. QueueIsPending
  BY <1>1 DEF Init, QueueIsPending
<1>6. Accounting /\ WorkConserving /\ BoundedOvershoot
  BY <1>1, <1>2, <1>3, LimitAssumption
  DEF Init, Accounting, WorkConserving, BoundedOvershoot
<1> QED BY <1>4, <1>5, <1>6 DEF IInv

\* What the invariant says of the list and the counter, in one place.
LEMMA IInvFacts ==
    ASSUME IInv
    PROVE  /\ capacity \in Int /\ Limit \in Nat \ {0}
           /\ queue \in Seq(Execution) /\ Len(queue) \in Nat
           /\ DOMAIN queue = 1 .. Len(queue)
           /\ queue = <<>> <=> Len(queue) = 0
           /\ Running \subseteq Execution /\ Cardinality(Running) \in Nat
           /\ Removed \subseteq Execution /\ Cardinality(Removed) \in Nat
           /\ capacity = Limit - Cardinality(Running) - Len(queue)
           /\ \A i \in 1 .. Len(queue) : queue[i] \in Execution /\ phase[queue[i]] = "queued"
<1>1. queue \in Seq(Execution) /\ capacity \in Int
  BY DEF IInv, TypeOK
<1>2. /\ Len(queue) \in Nat /\ DOMAIN queue = 1 .. Len(queue)
      /\ queue = <<>> <=> Len(queue) = 0
  BY <1>1, LenProperties, EmptySeq
<1>3. Running \subseteq Execution /\ Removed \subseteq Execution
  BY DEF Running, Removed
<1>4. Cardinality(Running) \in Nat /\ Cardinality(Removed) \in Nat
  BY <1>3, RunningCounts
<1>5. \A i \in 1 .. Len(queue) : queue[i] \in Execution
  BY <1>1, ElementOfSeq
<1>6. \A i \in 1 .. Len(queue) : phase[queue[i]] = "queued"
  BY <1>2, <1>5 DEF IInv, QueueIsPending
<1> QED BY <1>1, <1>2, <1>3, <1>4, <1>5, <1>6, LimitAssumption DEF IInv, Accounting

\* enqueue keeps it.
LEMMA EnqueueIInv ==
    ASSUME IInv, NEW e \in Execution, Enqueue(e)
    PROVE  IInv'
<1> USE IInvFacts
<1>1. phase[e] = "absent" /\ capacity' = capacity - 1
  BY DEF Enqueue
<1>2. CASE capacity' < 0
  <2>1. queue' = Append(queue, e) /\ phase' = Moved(e, "queued", {})
    BY <1>2 DEF Enqueue
  <2>2. phase' = [x \in Execution |-> IF x = e THEN "queued" ELSE phase[x]]
    BY <2>1 DEF Moved
  <2>3. /\ queue' \in Seq(Execution) /\ Len(queue') = Len(queue) + 1
        /\ \A i \in 1 .. Len(queue) : queue'[i] = queue[i]
        /\ queue'[Len(queue) + 1] = e
    BY <2>1, AppendProperties
  <2>4. DOMAIN queue' = 1 .. Len(queue) + 1
    BY <2>3, LenProperties
  <2>5. Running' = Running /\ Removed' = Removed
    BY <1>1, <2>2 DEF Running, Removed
  <2>6. TypeOK'
    BY <1>1, <2>2, <2>3 DEF IInv, TypeOK, Phase
  <2>7. QueueIsPending'
    <3>1. \A i \in 1 .. Len(queue) : queue[i] # e
      <4>1. \A i \in 1 .. Len(queue) : phase[queue[i]] = "queued"
        OBVIOUS
      <4>2. phase[e] # "queued"
        BY <1>1
      <4>3. SUFFICES ASSUME NEW i \in 1 .. Len(queue), queue[i] = e PROVE FALSE
        OBVIOUS
      <4>4. phase[queue[i]] = "queued"
        BY ONLY <4>1, <4>3
      <4> QED BY ONLY <4>2, <4>3, <4>4
    <3>2. \A i, j \in DOMAIN queue' : queue'[i] = queue'[j] => i = j
      <4>1. \A i, j \in 1 .. Len(queue) : queue[i] = queue[j] => i = j
        BY DEF IInv, QueueIsPending
      <4>2. \A i \in DOMAIN queue' : i \in 1 .. Len(queue) \/ i = Len(queue) + 1
        BY <2>4
      <4> QED BY <2>3, <3>1, <4>1, <4>2
    <3>3. ASSUME NEW x \in Execution, phase'[x] = "queued"
          PROVE  \E i \in DOMAIN queue' : queue'[i] = x
      <4>1. CASE x = e
        <5>1. Len(queue) + 1 \in DOMAIN queue'
          BY <2>4
        <5> QED BY <2>3, <4>1, <5>1
      <4>2. CASE x # e
        <5>1. phase[x] = "queued"
          BY <2>2, <3>3, <4>2
        <5>2. PICK i \in 1 .. Len(queue) : queue[i] = x
          BY <5>1 DEF IInv, QueueIsPending
        <5>3. i \in DOMAIN queue'
          BY <2>4, <5>2
        <5>4. queue'[i] = x
          BY <2>3, <5>2
        <5> QED BY <5>3, <5>4
      <4> QED BY <4>1, <4>2
    <3>4. ASSUME NEW x \in Execution, NEW i \in DOMAIN queue', queue'[i] = x
          PROVE  phase'[x] = "queued"
      <4>1. CASE i = Len(queue) + 1
        BY <2>2, <2>3, <3>4, <4>1
      <4>2. CASE i \in 1 .. Len(queue)
        BY <2>2, <2>3, <3>4, <4>2
      <4> QED BY <2>4, <4>1, <4>2
    <3> QED BY <3>2, <3>3, <3>4 DEF QueueIsPending
  <2>8. Accounting'
    BY <1>1, <2>3, <2>5 DEF Accounting
  <2>9. WorkConserving'
    BY <1>1, <1>2, <2>5 DEF IInv, WorkConserving
  <2>10. BoundedOvershoot'
    BY <2>5 DEF IInv, BoundedOvershoot
  <2> QED BY <2>6, <2>7, <2>8, <2>9, <2>10 DEF IInv
<1>3. CASE ~(capacity' < 0)
  <2>1. queue' = queue /\ phase' = Moved(e, "running", {})
    BY <1>3 DEF Enqueue
  <2>2. phase' = [x \in Execution |-> IF x = e THEN "running" ELSE phase[x]]
    BY <2>1 DEF Moved
  <2>3. Running' = Running \cup {e} /\ Removed' = Removed /\ e \notin Running
    BY <1>1, <2>2 DEF Running, Removed
  <2>4. Cardinality(Running') = Cardinality(Running) + 1
    BY <2>3, RunningCounts
  <2>5. TypeOK'
    BY <1>1, <2>1, <2>2 DEF IInv, TypeOK, Phase
  <2>6. QueueIsPending'
    BY <1>1, <2>1, <2>2 DEF IInv, QueueIsPending
  <2>7. Accounting'
    BY <1>1, <2>1, <2>4 DEF Accounting
  <2>8. WorkConserving'
    BY <2>1, <2>4, LimitAssumption DEF IInv, WorkConserving
  <2>9. BoundedOvershoot'
    <3>1. Cardinality(Running') <= Limit
      BY <1>1, <1>3, <2>4
    <3>2. Limit <= Limit + Cardinality(Removed)
      OBVIOUS
    <3>3. Cardinality(Running') \in Nat
      BY <2>4
    <3>4. Cardinality(Running') <= Limit + Cardinality(Removed)
      BY <3>1, <3>2, <3>3
    <3> QED BY <2>3, <3>4 DEF BoundedOvershoot
  <2> QED BY <2>5, <2>6, <2>7, <2>8, <2>9 DEF IInv
<1> QED BY <1>2, <1>3

\* Taking the head out of the list and of the executions that wait keeps the
\* two in agreement.
LEMMA RestIsPending ==
    ASSUME QueueIsPending, queue \in Seq(Execution), NEW e \in Execution, phase[e] # "queued",
           queue' \in Seq(Execution), Len(queue) \in Nat, Len(queue) >= 1,
           DOMAIN queue = 1 .. Len(queue), DOMAIN queue' = 1 .. Len(queue) - 1,
           \A j \in 1 .. Len(queue) - 1 : queue'[j] = queue[j + 1],
           phase' = [x \in Execution |->
                       IF x = queue[1] THEN "running" ELSE IF x = e THEN "finished" ELSE phase[x]]
    PROVE  QueueIsPending'
<1>1. \A x \in Execution :
        phase'[x] = "queued" <=> \E j \in DOMAIN queue : j # 1 /\ queue[j] = x
  BY DEF QueueIsPending
<1>2. \A j \in DOMAIN queue' : j + 1 \in DOMAIN queue /\ j + 1 # 1 /\ queue'[j] = queue[j + 1]
  OBVIOUS
<1>3. \A j \in DOMAIN queue : j # 1 => j - 1 \in DOMAIN queue' /\ queue'[j - 1] = queue[j]
  OBVIOUS
<1>4. \A j, k \in DOMAIN queue' : queue'[j] = queue'[k] => j = k
  BY <1>2 DEF QueueIsPending
<1> QED BY <1>1, <1>2, <1>3, <1>4 DEF QueueIsPending

\* Taking any execution out of the list leaves the others that wait, once each.
LEMMA RestAfterRemoval ==
    ASSUME QueueIsPending, Len(queue) \in Nat, DOMAIN queue = 1 .. Len(queue),
           NEW i \in 1 .. Len(queue), NEW rest, DOMAIN rest = 1 .. Len(queue) - 1,
           \A j \in 1 .. Len(queue) - 1 : rest[j] = IF j < i THEN queue[j] ELSE queue[j + 1]
    PROVE  /\ \A x \in Execution :
                 (phase[x] = "queued" /\ x # queue[i]) <=> \E j \in DOMAIN rest : rest[j] = x
           /\ \A j, k \in DOMAIN rest : rest[j] = rest[k] => j = k
<1> DEFINE old(j) == IF j < i THEN j ELSE j + 1
           new(j) == IF j < i THEN j ELSE j - 1
<1>1. \A j \in DOMAIN rest : old(j) \in DOMAIN queue /\ old(j) # i /\ rest[j] = queue[old(j)]
  OBVIOUS
<1>2. \A j \in DOMAIN queue : j # i => new(j) \in DOMAIN rest /\ rest[new(j)] = queue[j]
  OBVIOUS
<1>3. \A j, k \in DOMAIN rest : old(j) = old(k) => j = k
  OBVIOUS
<1> HIDE DEF old, new
<1>4. \A x \in Execution :
        (phase[x] = "queued" /\ x # queue[i]) <=> \E j \in DOMAIN queue : j # i /\ queue[j] = x
  BY DEF QueueIsPending
<1>5. \A x \in Execution :
        (\E j \in DOMAIN queue : j # i /\ queue[j] = x) <=> \E j \in DOMAIN rest : rest[j] = x
  BY <1>1, <1>2
<1>6. \A j, k \in DOMAIN rest : rest[j] = rest[k] => j = k
  BY <1>1, <1>3 DEF QueueIsPending
<1> QED BY <1>4, <1>5, <1>6

\* dequeue keeps it.
LEMMA DequeueIInv ==
    ASSUME IInv, NEW e \in Execution, Dequeue(e)
    PROVE  IInv'
<1> USE IInvFacts
<1>1. /\ phase[e] = "running" /\ capacity' = capacity + 1
      /\ queue' = Shift(queue) /\ phase' = Moved(e, "finished", Released(queue))
      /\ e \in Running
  BY DEF Dequeue, Running
<1>2. CASE queue = <<>>
  <2>1. queue' = queue /\ phase' = [x \in Execution |-> IF x = e THEN "finished" ELSE phase[x]]
    BY <1>1, <1>2 DEF Shift, Released, Moved
  <2>2. Running' = Running \ {e} /\ Removed' = Removed
    BY <1>1, <2>1 DEF Running, Removed
  <2>3. Cardinality(Running') = Cardinality(Running) - 1
    BY <1>1, <2>2, RunningCounts
  <2>4. Accounting' /\ WorkConserving'
    BY <1>1, <1>2, <2>1, <2>3 DEF Accounting, WorkConserving
  <2>5. TypeOK'
    <3>1. capacity' \in Int /\ capacity' <= Limit
      <4>1. Cardinality(Running) >= 1
        BY <1>1, <2>2, <2>3, RunningCounts
      <4> QED BY <1>1, <1>2, <4>1
    <3> QED BY <2>1, <3>1 DEF IInv, TypeOK, Phase
  <2>6. QueueIsPending'
    BY <1>1, <2>1 DEF IInv, QueueIsPending
  <2>7. BoundedOvershoot'
    BY <2>2, <2>3 DEF IInv, BoundedOvershoot
  <2> QED BY <2>4, <2>5, <2>6, <2>7 DEF IInv
<1>3. CASE queue # <<>>
  <2> DEFINE h == queue[1]
  <2>1. /\ queue' \in Seq(Execution) /\ Len(queue) >= 1 /\ Len(queue') = Len(queue) - 1
        /\ \A j \in 1 .. Len(queue) - 1 : queue'[j] = queue[j + 1]
        /\ Released(queue) = {h} /\ h \in Execution /\ phase[h] = "queued"
    <3>1. queue \in Seq(Execution)
      OBVIOUS
    <3>2. /\ Shift(queue) \in Seq(Execution) /\ Len(queue) >= 1
          /\ Len(Shift(queue)) = Len(queue) - 1
          /\ \A j \in 1 .. Len(queue) - 1 : Shift(queue)[j] = queue[j + 1]
          /\ Released(queue) = {h} /\ h \in Execution
      BY <1>3, <3>1, ShiftProperties
    <3>3. 1 \in 1 .. Len(queue)
      BY <3>2
    <3> QED BY <1>1, <3>2, <3>3
  <2>2. DOMAIN queue' = 1 .. Len(queue) - 1
    BY <2>1, LenProperties
  <2> HIDE DEF h
  <2>3. phase' = [x \in Execution |->
                    IF x = h THEN "running" ELSE IF x = e THEN "finished" ELSE phase[x]]
    BY <1>1, <2>1 DEF Moved
  <2>4. Running' = (Running \ {e}) \cup {h} /\ Removed' = Removed /\ h \in Execution \ Running
    <3>1. h # e /\ h \in Execution /\ phase[h] = "queued" /\ phase[e] = "running"
      BY <1>1, <2>1
    <3>2. h \in Execution \ Running
      BY <3>1 DEF Running
    <3>3. \A x \in Execution : phase'[x] = "running" <=> (x = h \/ (x # e /\ phase[x] = "running"))
      BY <2>3, <3>1
    <3>4. \A x \in Execution : phase'[x] = "removed" <=> phase[x] = "removed"
      BY <2>3, <3>1
    <3>5. Running' = (Running \ {e}) \cup {h}
      BY <3>1, <3>3 DEF Running
    <3>6. Removed' = Removed
      BY <3>4 DEF Removed
    <3> QED BY <3>2, <3>5, <3>6
  <2>5. Cardinality(Running') = Cardinality(Running)
    BY <1>1, <2>4, RunningCounts
  <2>6. Accounting' /\ WorkConserving'
    BY <1>1, <1>3, <2>1, <2>5 DEF IInv, Accounting, WorkConserving
  <2>7. TypeOK'
    <3>1. capacity' \in Int /\ capacity' <= Limit
      BY <1>1, <2>1
    <3> QED BY <2>1, <2>3, <3>1 DEF IInv, TypeOK, Phase
  <2>8. QueueIsPending'
    BY <1>1, <2>1, <2>2, <2>3, RestIsPending DEF IInv, h
  <2>9. BoundedOvershoot'
    BY <2>4, <2>5 DEF IInv, BoundedOvershoot
  <2> QED BY <2>6, <2>7, <2>8, <2>9 DEF IInv
<1> QED BY <1>2, <1>3

\* remove keeps it.
LEMMA RemoveIInv ==
    ASSUME IInv, NEW e \in Execution, RemoveQueued(e)
    PROVE  IInv'
<1> USE IInvFacts
<1>1. PICK i \in 1 .. Len(queue) :
        /\ queue[i] = e /\ capacity' = capacity + 1
        /\ queue' = Shift(RemoveAt(queue, i))
        /\ phase' = Moved(e, "removed", Released(RemoveAt(queue, i)))
  BY DEF RemoveQueued
<1> DEFINE rest == RemoveAt(queue, i)
<1>2. /\ rest \in Seq(Execution) /\ Len(rest) = Len(queue) - 1
      /\ DOMAIN rest = 1 .. Len(queue) - 1
      /\ \A j \in 1 .. Len(queue) - 1 : rest[j] = IF j < i THEN queue[j] ELSE queue[j + 1]
  <2>1. /\ rest \in Seq(Execution) /\ Len(rest) = Len(queue) - 1
        /\ \A j \in 1 .. Len(queue) - 1 : rest[j] = IF j < i THEN queue[j] ELSE queue[j + 1]
    <3>1. queue \in Seq(Execution)
      OBVIOUS
    <3> QED BY <3>1, RemoveAtProperties
  <2> HIDE DEF rest
  <2>2. DOMAIN rest = 1 .. Len(rest)
    BY <2>1, LenProperties
  <2> QED BY <2>1, <2>2
<1>3. phase[e] = "queued" /\ e \notin Running /\ e \notin Removed /\ Len(queue) >= 1
  BY <1>1 DEF Running, Removed
<1>4. /\ \A x \in Execution : (phase[x] = "queued" /\ x # e) <=> \E j \in DOMAIN rest : rest[j] = x
      /\ \A j, k \in DOMAIN rest : rest[j] = rest[k] => j = k
  <2>1. QueueIsPending /\ Len(queue) \in Nat /\ DOMAIN queue = 1 .. Len(queue)
    BY DEF IInv
  <2> HIDE DEF rest
  <2>2. /\ \A x \in Execution :
              (phase[x] = "queued" /\ x # queue[i]) <=> \E j \in DOMAIN rest : rest[j] = x
        /\ \A j, k \in DOMAIN rest : rest[j] = rest[k] => j = k
    BY <1>2, <2>1, RestAfterRemoval
  <2> QED BY <1>1, <2>2
<1>5. queue' = Shift(rest) /\ phase' = Moved(e, "removed", Released(rest))
  BY <1>1
<1> HIDE DEF rest
<1>6. Cardinality(Removed \cup {e}) = Cardinality(Removed) + 1
  BY <1>3, RunningCounts
<1>7. CASE rest = <<>>
  <2>1. queue' = <<>> /\ phase' = [x \in Execution |-> IF x = e THEN "removed" ELSE phase[x]]
    BY <1>5, <1>7 DEF Shift, Released, Moved
  <2>2. Running' = Running /\ Removed' = Removed \cup {e}
    BY <1>3, <2>1 DEF Running, Removed
  <2>3. Len(queue) = 1 /\ queue' \in Seq(Execution) /\ Len(queue') = 0 /\ DOMAIN queue' = {}
    <3>1. <<>> \in Seq(Execution) /\ Len(<<>>) = 0 /\ DOMAIN <<>> = {}
      BY EmptySeq
    <3>2. Len(rest) = 0
      BY <1>7, <3>1
    <3>3. Len(queue) = 1
      <4>1. Len(rest) = Len(queue) - 1
        BY <1>2
      <4>2. Len(queue) \in Nat
        OBVIOUS
      <4>3. ASSUME NEW n \in Nat, n - 1 = 0 PROVE n = 1
        BY <4>3
      <4>4. Len(queue) - 1 = 0
        BY ONLY <3>2, <4>1
      <4> QED BY ONLY <4>2, <4>3, <4>4
    <3> QED BY <2>1, <3>1, <3>3
  <2>4. Accounting' /\ WorkConserving'
    BY <1>1, <2>1, <2>2, <2>3 DEF IInv, Accounting, WorkConserving
  <2>5. TypeOK'
    BY <1>1, <2>1, <2>3 DEF IInv, TypeOK, Phase
  <2>6. QueueIsPending'
    <3>1. \A x \in Execution : phase'[x] # "queued"
      <4>1. DOMAIN rest = {}
        BY <1>2, <2>3
      <4> QED BY <1>4, <2>1, <4>1
    <3> QED BY <2>3, <3>1 DEF QueueIsPending
  <2>7. BoundedOvershoot'
    BY <1>6, <2>2 DEF IInv, BoundedOvershoot
  <2> QED BY <2>4, <2>5, <2>6, <2>7 DEF IInv
<1>8. CASE rest # <<>>
  <2> DEFINE h == rest[1]
  <2>1. /\ queue' \in Seq(Execution) /\ Len(rest) >= 1 /\ Len(queue') = Len(rest) - 1
        /\ \A j \in 1 .. Len(rest) - 1 : queue'[j] = rest[j + 1]
        /\ Released(rest) = {h} /\ h \in Execution
    BY <1>2, <1>5, <1>8, ShiftProperties
  <2>2. DOMAIN queue' = 1 .. Len(rest) - 1
    BY <2>1, LenProperties
  <2>3. phase[h] = "queued" /\ h # e
    <3>1. 1 \in DOMAIN rest
      BY <1>2, <2>1
    <3> QED BY <1>4, <2>1, <3>1
  <2> HIDE DEF h
  <2>4. phase' = [x \in Execution |->
                    IF x = h THEN "running" ELSE IF x = e THEN "removed" ELSE phase[x]]
    BY <1>5, <2>1 DEF Moved
  <2>5. Running' = Running \cup {h} /\ Removed' = Removed \cup {e} /\ h \in Execution \ Running
    BY <1>3, <2>1, <2>3, <2>4 DEF Running, Removed
  <2>6. Cardinality(Running') = Cardinality(Running) + 1
    <3>1. Running \subseteq Execution
      OBVIOUS
    <3> QED BY ONLY <2>5, <3>1, RunningCounts
  <2>7. Accounting'
    BY <1>1, <1>2, <2>1, <2>6 DEF Accounting
  <2>8. WorkConserving'
    BY <1>2, <1>3, <2>6 DEF IInv, WorkConserving
  <2>9. TypeOK'
    <3>1. capacity' <= Limit
      BY <1>1, <1>3
    <3> QED BY <1>1, <2>1, <2>4, <3>1 DEF IInv, TypeOK, Phase
  <2>10. QueueIsPending'
    <3>1. \A x \in Execution :
            phase'[x] = "queued" <=> \E j \in DOMAIN rest : j # 1 /\ rest[j] = x
      BY <1>2, <1>4, <2>1, <2>3, <2>4 DEF h
    <3>2. ASSUME NEW j \in DOMAIN queue'
          PROVE  j \in Int /\ j + 1 \in DOMAIN rest /\ j + 1 # 1 /\ queue'[j] = rest[j + 1]
      <4>1. j \in 1 .. Len(rest) - 1
        BY <2>2
      <4>2. queue'[j] = rest[j + 1]
        BY <2>1, <4>1
      <4>3. j + 1 \in 1 .. Len(rest) /\ j + 1 # 1
        BY <1>2, <4>1
      <4> QED BY <1>2, <4>1, <4>2, <4>3
    <3>3. ASSUME NEW j \in DOMAIN rest, j # 1
          PROVE  j - 1 \in DOMAIN queue' /\ queue'[j - 1] = rest[j]
      <4>1. PICK k \in 1 .. Len(rest) - 1 : k = j - 1 /\ k + 1 = j
        <5>1. j \in Int /\ j - 1 \in 1 .. Len(rest) - 1 /\ (j - 1) + 1 = j
          BY <1>2, <3>3
        <5> QED BY <5>1
      <4>2. queue'[k] = rest[k + 1]
        BY <2>1
      <4> QED BY <2>2, <4>1, <4>2
    <3>4. ASSUME NEW j \in DOMAIN queue', NEW k \in DOMAIN queue', queue'[j] = queue'[k]
          PROVE  j = k
      <4>1. j + 1 \in DOMAIN rest /\ k + 1 \in DOMAIN rest /\ rest[j + 1] = rest[k + 1]
        BY <3>2, <3>4
      <4>2. j + 1 = k + 1
        BY <1>4, <4>1
      <4>3. j \in Int /\ k \in Int
        BY <3>2
      <4> QED BY <4>2, <4>3
    <3> QED BY <3>1, <3>2, <3>3, <3>4 DEF QueueIsPending
  <2>11. BoundedOvershoot'
    BY <1>6, <2>5, <2>6 DEF IInv, BoundedOvershoot
  <2> QED BY <2>7, <2>8, <2>9, <2>10, <2>11 DEF IInv
<1> QED BY <1>7, <1>8

\* Every step keeps it.
LEMMA StepIInv == IInv /\ [Next]_vars => IInv'
<1> SUFFICES ASSUME IInv, [Next]_vars PROVE IInv'
  OBVIOUS
<1>1. ASSUME NEW e \in Execution, Enqueue(e) PROVE IInv'
  BY <1>1, EnqueueIInv
<1>2. ASSUME NEW e \in Execution, Dequeue(e) PROVE IInv'
  BY <1>2, DequeueIInv
<1>3. ASSUME NEW e \in Execution, RemoveQueued(e) PROVE IInv'
  BY <1>3, RemoveIInv
<1>4. CASE UNCHANGED vars
  <2>1. Running' = Running /\ Removed' = Removed
    BY <1>4 DEF vars, Running, Removed
  <2> QED
    BY <1>4, <2>1
    DEF vars, IInv, TypeOK, QueueIsPending, Accounting, WorkConserving, BoundedOvershoot
<1> QED BY <1>1, <1>2, <1>3, <1>4 DEF Next

\* The conjunction of all the invariants holds in every reachable state.
THEOREM Invariance == Spec => []IInv
BY InitIInv, StepIInv, PTL DEF Spec

-----------------------------------------------------------------------------
(* Results.                                                                *)

\* The counter never exceeds the limit and the list and the phases are well
\* formed (type correctness of concurrency-queue.ts).
THEOREM TypeCorrect == Spec => []TypeOK
<1>1. IInv => TypeOK
  BY DEF IInv
<1> QED BY <1>1, Invariance, PTL

\* The counter equals the limit less the executions that run and wait.
THEOREM CounterIsExact == Spec => []Accounting
<1>1. IInv => Accounting
  BY DEF IInv
<1> QED BY <1>1, Invariance, PTL

\* Nobody waits while a slot is free.
THEOREM NoIdleSlot == Spec => []WorkConserving
<1>1. IInv => WorkConserving
  BY DEF IInv
<1> QED BY <1>1, Invariance, PTL

\* The limit is exceeded by at most the number of cancelled waiting executions.
THEOREM OvershootIsBounded == Spec => []BoundedOvershoot
<1>1. IInv => BoundedOvershoot
  BY DEF IInv
<1> QED BY <1>1, Invariance, PTL

\* The three together: the slots are exact in every reachable state.
THEOREM SlotsAreExact == Spec => []SlotsExact
<1>1. IInv => SlotsExact
  BY DEF IInv, SlotsExact
<1> QED BY <1>1, Invariance, PTL

\* The documented limit does hold for as long as no waiting execution has been
\* cancelled: `remove' is the only way past it.
THEOREM LimitUntilCancellation == Spec => [](Removed = {} => MaxConcurrent)
<1>1. IInv => (Removed = {} => MaxConcurrent)
  <2> SUFFICES ASSUME IInv, Removed = {} PROVE MaxConcurrent
    OBVIOUS
  <2>1. Cardinality(Removed) = 0
    BY FS_EmptySet
  <2>2. Cardinality(Running) <= Limit + 0
    BY <2>1 DEF IInv, BoundedOvershoot
  <2> QED BY <2>2, LimitAssumption DEF MaxConcurrent
<1> QED BY <1>1, Invariance, PTL

-----------------------------------------------------------------------------
(* Order, and the contract.                                                *)

\* Whom a dequeue releases, and what becomes of everybody else.
LEMMA DequeueStep ==
    ASSUME IInv, NEW e \in Execution, Dequeue(e)
    PROVE  /\ phase[e] = "running"
           /\ \/ /\ queue = <<>>
                 /\ phase' = [x \in Execution |-> IF x = e THEN "finished" ELSE phase[x]]
              \/ /\ Len(queue) >= 1
                 /\ phase' = [x \in Execution |->
                       IF x = queue[1] THEN "running"
                       ELSE IF x = e THEN "finished" ELSE phase[x]]
<1> USE IInvFacts
<1>1. phase[e] = "running" /\ phase' = Moved(e, "finished", Released(queue))
  BY DEF Dequeue
<1>2. CASE queue = <<>>
  BY <1>1, <1>2 DEF Released, Moved
<1>3. CASE queue # <<>>
  <2>1. queue \in Seq(Execution)
    OBVIOUS
  <2>2. Released(queue) = {queue[1]} /\ Len(queue) >= 1
    BY <1>3, <2>1, ShiftProperties
  <2> QED BY <1>1, <2>2 DEF Moved
<1> QED BY <1>2, <1>3

\* Whom a removal releases: the head, or the second one if the head leaves.
LEMMA RemoveStep ==
    ASSUME IInv, NEW e \in Execution, RemoveQueued(e)
    PROVE  \E i \in 1 .. Len(queue) :
              /\ queue[i] = e
              /\ \/ /\ Len(queue) = 1
                    /\ phase' = [x \in Execution |-> IF x = e THEN "removed" ELSE phase[x]]
                 \/ /\ Len(queue) > 1
                    /\ phase' = [x \in Execution |->
                          IF x = (IF i = 1 THEN queue[2] ELSE queue[1]) THEN "running"
                          ELSE IF x = e THEN "removed" ELSE phase[x]]
<1> USE IInvFacts
<1>1. PICK i \in 1 .. Len(queue) :
        queue[i] = e /\ phase' = Moved(e, "removed", Released(RemoveAt(queue, i)))
  BY DEF RemoveQueued
<1> DEFINE rest == RemoveAt(queue, i)
<1>2. queue \in Seq(Execution) /\ Len(queue) \in Nat /\ Len(queue) >= 1
  OBVIOUS
<1>3. /\ rest \in Seq(Execution) /\ Len(rest) = Len(queue) - 1
      /\ \A j \in 1 .. Len(queue) - 1 : rest[j] = IF j < i THEN queue[j] ELSE queue[j + 1]
  BY <1>2, RemoveAtProperties
<1>4. phase' = Moved(e, "removed", Released(rest))
  BY <1>1
<1> HIDE DEF rest
<1>5. CASE rest = <<>>
  <2>1. Len(rest) = 0
    BY <1>5, EmptySeq
  <2>2. Len(queue) - 1 = 0
    BY ONLY <1>3, <2>1
  <2>3. Len(queue) = 1
    BY ONLY <1>2, <2>2
  <2>4. phase' = [x \in Execution |-> IF x = e THEN "removed" ELSE phase[x]]
    BY <1>4, <1>5 DEF Released, Moved
  <2> QED BY <1>1, <2>3, <2>4
<1>6. CASE rest # <<>>
  <2>1. Len(rest) >= 1 /\ Released(rest) = {rest[1]}
    BY <1>3, <1>6, ShiftProperties
  <2>2. 1 \in 1 .. Len(queue) - 1 /\ Len(queue) > 1
    BY <1>2, <1>3, <2>1
  <2>3. rest[1] = IF i = 1 THEN queue[2] ELSE queue[1]
    <3>1. rest[1] = IF 1 < i THEN queue[1] ELSE queue[1 + 1]
      BY <1>3, <2>2
    <3> QED BY <3>1
  <2>4. phase' = [x \in Execution |->
                    IF x = (IF i = 1 THEN queue[2] ELSE queue[1]) THEN "running"
                    ELSE IF x = e THEN "removed" ELSE phase[x]]
    BY <1>4, <2>1, <2>3 DEF Moved
  <2> QED BY <1>1, <2>2, <2>4
<1> QED BY <1>5, <1>6

\* No step reorders the list or lets anybody in before its end.
LEMMA StepKeepsOrder == IInv /\ Next => OrderKept
<1> SUFFICES ASSUME IInv, Next,
                    NEW i \in DOMAIN queue', NEW j \in DOMAIN queue', i < j,
                    phase[queue'[j]] = "queued"
             PROVE  \E k, l \in DOMAIN queue :
                        k < l /\ queue[k] = queue'[i] /\ queue[l] = queue'[j]
  BY DEF OrderKept
<1> USE IInvFacts
<1>0. queue \in Seq(Execution) /\ Len(queue) \in Nat /\ DOMAIN queue = 1 .. Len(queue)
  BY LenProperties
<1>1. ASSUME NEW e \in Execution, Enqueue(e)
      PROVE  i \in DOMAIN queue /\ j \in DOMAIN queue /\ queue'[i] = queue[i] /\ queue'[j] = queue[j]
  <2>1. CASE queue' = queue
    BY <2>1
  <2>2. CASE queue' = Append(queue, e)
    <3>1. /\ DOMAIN queue' = 1 .. Len(queue) + 1
          /\ queue'[Len(queue) + 1] = e
          /\ \A n \in 1 .. Len(queue) : queue'[n] = queue[n]
      BY <1>0, <2>2, AppendProperties
    <3>2. phase[e] = "absent"
      BY <1>1 DEF Enqueue
    <3>3. j # Len(queue) + 1
      BY <3>1, <3>2
    <3> QED BY <1>0, <3>1, <3>3
  <2> QED BY <1>1, <2>1, <2>2 DEF Enqueue
<1>2. ASSUME NEW s \in Seq(Execution), queue' = Shift(s),
             \A m, n \in 1 .. Len(s) : m < n =>
                 \E k, l \in DOMAIN queue : k < l /\ queue[k] = s[m] /\ queue[l] = s[n]
      PROVE  \E k, l \in DOMAIN queue : k < l /\ queue[k] = queue'[i] /\ queue[l] = queue'[j]
  <2>1. s # <<>>
    BY <1>2 DEF Shift
  <2>2. /\ Len(s) \in Nat
        /\ Shift(s) \in Seq(Execution) /\ Len(Shift(s)) = Len(s) - 1
        /\ \A n \in 1 .. Len(s) - 1 : Shift(s)[n] = s[n + 1]
    BY <2>1, ShiftProperties, LenProperties
  <2>3. DOMAIN queue' = 1 .. Len(s) - 1
    BY <1>2, <2>2, LenProperties
  <2>4. queue'[i] = s[i + 1] /\ queue'[j] = s[j + 1]
    BY <1>2, <2>2, <2>3
  <2>5. i + 1 \in 1 .. Len(s) /\ j + 1 \in 1 .. Len(s) /\ i + 1 < j + 1
    BY <2>2, <2>3
  <2> QED BY <1>2, <2>4, <2>5
<1>3. ASSUME NEW e \in Execution, Dequeue(e)
      PROVE  \E k, l \in DOMAIN queue : k < l /\ queue[k] = queue'[i] /\ queue[l] = queue'[j]
  <2>1. queue' = Shift(queue)
    BY <1>3 DEF Dequeue
  <2> QED BY <1>0, <1>2, <2>1
<1>4. ASSUME NEW e \in Execution, RemoveQueued(e)
      PROVE  \E k, l \in DOMAIN queue : k < l /\ queue[k] = queue'[i] /\ queue[l] = queue'[j]
  <2>1. PICK r \in DOMAIN queue : queue' = Shift(RemoveAt(queue, r))
    BY <1>4 DEF RemoveQueued
  <2> DEFINE rest == RemoveAt(queue, r)
             from(n) == IF n < r THEN n ELSE n + 1
  <2>2. /\ rest \in Seq(Execution) /\ Len(rest) = Len(queue) - 1
        /\ \A n \in 1 .. Len(queue) - 1 : rest[n] = queue[from(n)]
    <3>1. r \in 1 .. Len(queue)
      BY <1>0
    <3>2. /\ rest \in Seq(Execution) /\ Len(rest) = Len(queue) - 1
          /\ \A n \in 1 .. Len(queue) - 1 : rest[n] = IF n < r THEN queue[n] ELSE queue[n + 1]
      BY <1>0, <3>1, RemoveAtProperties
    <3> HIDE DEF rest
    <3> QED BY <3>2
  <2>3. queue' = Shift(rest)
    BY <2>1
  <2> HIDE DEF rest
  <2>4. ASSUME NEW m \in 1 .. Len(rest), NEW n \in 1 .. Len(rest), m < n
        PROVE  \E k, l \in DOMAIN queue : k < l /\ queue[k] = rest[m] /\ queue[l] = rest[n]
    <3>1. from(m) \in DOMAIN queue /\ from(n) \in DOMAIN queue /\ from(m) < from(n)
      BY <1>0, <2>2, <2>4
    <3>2. queue[from(m)] = rest[m] /\ queue[from(n)] = rest[n]
      BY <2>2, <2>4
    <3> QED BY <3>1, <3>2
  <2> QED BY <1>2, <2>2, <2>3, <2>4
<1>5. CASE \E e \in Execution : Enqueue(e)
  BY <1>1, <1>5
<1> QED BY <1>3, <1>4, <1>5 DEF Next

\* Executions leave the list in the order in which they were throttled, and
\* cancelling some of them does not change that.
THEOREM ReleasedInOrder == Spec => FifoRelease
<1>1. IInv /\ [Next]_vars => [OldestFirst]_vars
  <2> SUFFICES ASSUME IInv, Next,
                      NEW i \in DOMAIN queue, NEW j \in DOMAIN queue, i < j,
                      phase'[queue[j]] = "running"
               PROVE  phase'[queue[i]] # "queued"
    BY DEF OldestFirst
  <2> USE IInvFacts
  <2>1. /\ i \in 1 .. Len(queue) /\ j \in 1 .. Len(queue) /\ j # 1
        /\ phase[queue[i]] = "queued" /\ phase[queue[j]] = "queued"
        /\ queue[i] \in Execution /\ queue[j] \in Execution
    OBVIOUS
  <2>2. \A k, l \in 1 .. Len(queue) : queue[k] = queue[l] => k = l
    BY DEF IInv, QueueIsPending
  <2>3. ASSUME NEW e \in Execution, Enqueue(e) PROVE FALSE
    <3>1. phase[e] = "absent" /\ (phase' = Moved(e, "queued", {}) \/ phase' = Moved(e, "running", {}))
      BY <2>3 DEF Enqueue
    <3>2. phase'[queue[j]] = phase[queue[j]]
      BY <2>1, <3>1 DEF Moved
    <3> QED BY <2>1, <3>2
  <2>4. ASSUME NEW e \in Execution, Dequeue(e) PROVE FALSE
    <3>1. phase[e] = "running"
      BY <2>4, DequeueStep
    <3>2. queue # <<>> /\ 1 \in 1 .. Len(queue)
      BY <2>1
    <3>3. phase' = [x \in Execution |->
              IF x = queue[1] THEN "running" ELSE IF x = e THEN "finished" ELSE phase[x]]
      BY <2>4, <3>2, DequeueStep
    <3>4. queue[j] # queue[1] /\ queue[j] # e
      BY <2>1, <2>2, <3>1, <3>2
    <3>5. phase'[queue[j]] = phase[queue[j]]
      BY <2>1, <3>3, <3>4
    <3> QED BY <2>1, <3>5
  <2>5. ASSUME NEW e \in Execution, RemoveQueued(e) PROVE phase'[queue[i]] # "queued"
    <3>1. PICK k \in 1 .. Len(queue) :
            /\ queue[k] = e
            /\ Len(queue) > 1 =>
                  phase' = [x \in Execution |->
                      IF x = (IF k = 1 THEN queue[2] ELSE queue[1]) THEN "running"
                      ELSE IF x = e THEN "removed" ELSE phase[x]]
      BY <2>5, RemoveStep
    <3>2. Len(queue) > 1 /\ 1 \in 1 .. Len(queue) /\ 2 \in 1 .. Len(queue)
      BY <2>1
    <3>3. CASE k = 1
      <4>1. i = 1 \/ i = 2 \/ (i # k /\ i # 2)
        BY <3>3
      <4>2. j = 2
        <5>1. j # 2 => phase'[queue[j]] = phase[queue[j]]
          BY <2>1, <2>2, <3>1, <3>2, <3>3
        <5> QED BY <2>1, <5>1
      <4>3. i = 1
        BY <2>1, <4>2
      <4>4. queue[1] # queue[2] /\ queue[i] = e
        BY <2>2, <3>1, <3>2, <3>3, <4>3
      <4>5. phase'[queue[i]] = "removed"
        BY <2>1, <3>1, <3>2, <3>3, <4>3, <4>4
      <4> QED BY <4>5
    <3>4. CASE k # 1
      <4>1. queue[j] # queue[1]
        BY <2>1, <2>2, <3>2
      <4>2. phase'[queue[j]] # "running"
        BY <2>1, <3>1, <3>2, <3>4, <4>1
      <4> QED BY <4>2
    <3> QED BY <3>3, <3>4
  <2> QED BY <2>3, <2>4, <2>5 DEF Next
<1>2. IInv /\ [Next]_vars => [OldestFirst /\ OrderKept]_vars
  BY <1>1, StepKeepsOrder
<1> QED BY <1>2, Invariance, PTL DEF Spec, FifoRelease

\* The instance counts as this module does.
LEMMA SameCardinality == \A S : Contract!Cardinality(S) = Cardinality(S)
BY DEF Contract!Cardinality, Cardinality

\* Every step of the counter and the list is a step of the contract.
LEMMA EnqueueContract ==
    ASSUME IInv, NEW e \in Execution, Enqueue(e)
    PROVE  Contract!Start(e) \/ Contract!Wait(e)
<1> USE IInvFacts
<1>1. phase[e] = "absent" /\ capacity' = capacity - 1
  BY DEF Enqueue
<1>2. e \in Contract!Fresh
  BY <1>1 DEF Contract!Fresh, Waiting, Running, Gone
<1>3. CASE capacity' < 0
  <2>1. phase' = [x \in Execution |-> IF x = e THEN "queued" ELSE phase[x]]
    BY <1>3 DEF Enqueue, Moved
  <2>2. Waiting' = Waiting \cup {e} /\ Running' = Running /\ Gone' = Gone
    BY <1>1, <2>1 DEF Waiting, Running, Gone
  <2>3. Cardinality(Running) >= Limit
    <3>1. CASE queue = <<>>
      BY <1>1, <1>3, <3>1
    <3>2. CASE queue # <<>>
      BY <3>2 DEF IInv, WorkConserving
    <3> QED BY <3>1, <3>2
  <2> QED BY <1>2, <2>2, <2>3, SameCardinality DEF Contract!Wait
<1>4. CASE ~(capacity' < 0)
  <2>1. phase' = [x \in Execution |-> IF x = e THEN "running" ELSE phase[x]]
    BY <1>4 DEF Enqueue, Moved
  <2>2. Waiting' = Waiting /\ Running' = Running \cup {e} /\ Gone' = Gone
    BY <1>1, <2>1 DEF Waiting, Running, Gone
  <2>3. Cardinality(Running) < Limit
    BY <1>1, <1>4
  <2> QED BY <1>2, <2>2, <2>3, SameCardinality DEF Contract!Start
<1> QED BY <1>3, <1>4

\* dequeue is the contract's Finish: the head is one of those that wait.
LEMMA DequeueContract ==
    ASSUME IInv, NEW e \in Execution, Dequeue(e)
    PROVE  Contract!Finish(e)
<1> USE IInvFacts
<1>1. phase[e] = "running" /\ e \in Running
  BY DequeueStep DEF Running
<1>2. CASE queue = <<>>
  <2>1. phase' = [x \in Execution |-> IF x = e THEN "finished" ELSE phase[x]]
    BY <1>2, DequeueStep
  <2>2. Waiting = {}
    BY <1>2 DEF Waiting, IInv, QueueIsPending
  <2>3. Waiting' = {} /\ Running' = Running \ {e} /\ Gone' = Gone \cup {e}
    BY <1>1, <2>1, <2>2 DEF Waiting, Running, Gone
  <2> QED BY <1>1, <2>2, <2>3 DEF Contract!Finish, Contract!HandOver
<1>3. CASE queue # <<>>
  <2> DEFINE h == queue[1]
  <2>1. phase' = [x \in Execution |->
                    IF x = h THEN "running" ELSE IF x = e THEN "finished" ELSE phase[x]]
    BY <1>3, DequeueStep
  <2>2. h \in Execution /\ phase[h] = "queued" /\ h # e
    <3>1. 1 \in 1 .. Len(queue)
      BY <1>3
    <3> QED BY <1>1, <3>1
  <2> HIDE DEF h
  <2>3. h \in Waiting
    BY <2>2 DEF Waiting
  <2>4. Waiting' = Waiting \ {h}
    BY <1>1, <2>1, <2>2 DEF Waiting
  <2>5. Running' = (Running \ {e}) \cup {h}
    BY <1>1, <2>1, <2>2 DEF Running
  <2>6. Gone' = Gone \cup {e}
    BY <1>1, <2>1, <2>2 DEF Gone, Running
  <2> QED BY <1>1, <2>3, <2>4, <2>5, <2>6 DEF Contract!Finish, Contract!HandOver
<1> QED BY <1>2, <1>3

\* remove is the contract's GiveUp.
LEMMA RemoveContract ==
    ASSUME IInv, NEW e \in Execution, RemoveQueued(e)
    PROVE  Contract!GiveUp(e)
<1> USE IInvFacts
<1>1. PICK i \in 1 .. Len(queue) :
        /\ queue[i] = e
        /\ \/ /\ Len(queue) = 1
              /\ phase' = [x \in Execution |-> IF x = e THEN "removed" ELSE phase[x]]
           \/ /\ Len(queue) > 1
              /\ phase' = [x \in Execution |->
                    IF x = (IF i = 1 THEN queue[2] ELSE queue[1]) THEN "running"
                    ELSE IF x = e THEN "removed" ELSE phase[x]]
  BY RemoveStep
<1>2. phase[e] = "queued" /\ e \in Waiting
  BY <1>1 DEF Waiting
<1>3. CASE Len(queue) = 1
  <2>1. phase' = [x \in Execution |-> IF x = e THEN "removed" ELSE phase[x]]
    BY <1>1, <1>3
  <2>2. \A x \in Waiting : x = e
    <3> SUFFICES ASSUME NEW x \in Execution, phase[x] = "queued" PROVE x = e
      BY DEF Waiting
    <3>1. PICK k \in 1 .. Len(queue) : queue[k] = x
      BY DEF IInv, QueueIsPending
    <3>2. k = 1 /\ i = 1
      BY <1>3
    <3> QED BY <1>1, <3>1, <3>2
  <2>3. Waiting \ {e} = {}
    BY <2>2
  <2>4. Waiting' = {}
    BY <2>1, <2>2 DEF Waiting
  <2>5. Running' = Running /\ Gone' = Gone \cup {e}
    BY <1>2, <2>1 DEF Running, Gone
  <2> QED BY <1>2, <2>3, <2>4, <2>5 DEF Contract!GiveUp, Contract!HandOver
<1>4. CASE Len(queue) > 1
  <2> DEFINE h == IF i = 1 THEN queue[2] ELSE queue[1]
  <2>1. phase' = [x \in Execution |->
                    IF x = h THEN "running" ELSE IF x = e THEN "removed" ELSE phase[x]]
    BY <1>1, <1>4
  <2>2. h \in Execution /\ phase[h] = "queued" /\ h # e
    <3>1. 1 \in 1 .. Len(queue) /\ 2 \in 1 .. Len(queue)
      BY <1>4
    <3>2. \A k, l \in 1 .. Len(queue) : queue[k] = queue[l] => k = l
      BY DEF IInv, QueueIsPending
    <3> QED BY <1>1, <3>1, <3>2
  <2> HIDE DEF h
  <2>3. h \in Waiting \ {e}
    BY <2>2 DEF Waiting
  <2>4. Waiting' = (Waiting \ {e}) \ {h}
    BY <1>2, <2>1, <2>2 DEF Waiting
  <2>5. Running' = Running \cup {h}
    BY <1>2, <2>1, <2>2 DEF Running
  <2>6. Gone' = Gone \cup {e}
    BY <1>2, <2>1, <2>2 DEF Gone
  <2> QED BY <1>2, <2>3, <2>4, <2>5, <2>6 DEF Contract!GiveUp, Contract!HandOver
<1> QED BY <1>1, <1>3, <1>4

\* The counter implements the contract that looks at the executions.
THEOREM Refinement == Spec => ImplementsContract
<1>1. Init => Contract!Init
  BY DEF Init, Contract!Init, Waiting, Running, Gone
<1>2. IInv /\ [Next]_vars => [Contract!Next]_(Contract!vars)
  <2> SUFFICES ASSUME IInv, [Next]_vars PROVE [Contract!Next]_(Contract!vars)
    OBVIOUS
  <2>1. ASSUME NEW e \in Execution, Enqueue(e) PROVE Contract!Next
    BY <2>1, EnqueueContract DEF Contract!Next
  <2>2. ASSUME NEW e \in Execution, Dequeue(e) PROVE Contract!Next
    BY <2>2, DequeueContract DEF Contract!Next
  <2>3. ASSUME NEW e \in Execution, RemoveQueued(e) PROVE Contract!Next
    BY <2>3, RemoveContract DEF Contract!Next
  <2>4. CASE UNCHANGED vars
    BY <2>4 DEF vars, Contract!vars, Waiting, Running, Gone
  <2> QED BY <2>1, <2>2, <2>3, <2>4 DEF Next
<1> QED BY <1>1, <1>2, Invariance, PTL DEF Spec, ImplementsContract, Contract!Spec

=============================================================================
