--------------------------- MODULE TaskBroker_proofs ---------------------------
(***************************************************************************)
(* Proofs about TaskBroker, for every set of requests and runners, every   *)
(* fleet and every bound: what the broker's records say of its requests,   *)
(* its runners and its tasks holds through late answers, rejections,       *)
(* deferrals, timeouts and runners that come and go.                       *)
(*                                                                         *)
(* The inductive invariant IInv has four parts.  TypeOK is the type.       *)
(* MatchInv relates the list of requests, acceptInProgress, the calls of   *)
(* acceptOffer and what the requesters wait for, and needs nothing of the  *)
(* runners.  RunnersBounded is the property itself: a runner counts the    *)
(* offers it has open and the tasks it holds against its capacity, and     *)
(* what the broker knows of a runner ends with its registration.  LinkInv  *)
(* follows one task through a runner: the orders on their way there (the   *)
(* accepted offer, then the settings, each at most once, and cancels),     *)
(* what the runner holds, and the answers on their way back.  TasksAgree   *)
(* is a consequence of it; RequestsMatched and TaskHasRequester, of        *)
(* MatchInv.                                                               *)
(*                                                                         *)
(* A step of one task leaves the links of the others (Quiet): that needs   *)
(* numbers of tasks that are mentioned nowhere when they are given, which  *)
(* is what FreshTasks is about (FreshFacts).                               *)
(***************************************************************************)
EXTENDS TaskBroker, QueueLemmas

-----------------------------------------------------------------------------
(* Numbers in order.                                                       *)

\* The numbers of P in order: each of them has one place.
LEMMA AscendingFacts ==
    ASSUME NEW m \in Nat, NEW P, P \subseteq 1 .. m
    PROVE  /\ IsFiniteSet(P) /\ Cardinality(P) \in Nat
           /\ Ascending(P) \in [1 .. Cardinality(P) -> P]
           /\ Len(Ascending(P)) = Cardinality(P)
           /\ \A i, j \in 1 .. Cardinality(P) : Ascending(P)[i] = Ascending(P)[j] => i = j
           /\ \A p \in P : \E i \in 1 .. Cardinality(P) : Ascending(P)[i] = p
<1> DEFINE n == Cardinality(P)
           upto(i) == {j \in P : j <= i}
           rank == [i \in P |-> Cardinality(upto(i))]
<1>1. IsFiniteSet(P) /\ n \in Nat
  <2>1. IsFiniteSet(1 .. m)
    BY FS_Interval
  <2> QED BY <2>1, FS_Subset, FS_CardinalityType
<1>2. ASSUME NEW i \in P PROVE IsFiniteSet(upto(i)) /\ rank[i] \in 1 .. n
  <2>1. upto(i) \subseteq P /\ i \in upto(i)
    OBVIOUS
  <2>2. IsFiniteSet(upto(i)) /\ Cardinality(upto(i)) \in Nat /\ Cardinality(upto(i)) <= n
    BY <1>1, <2>1, FS_Subset, FS_CardinalityType
  <2>3. Cardinality(upto(i)) # 0
    BY <2>1, <2>2, FS_EmptySet
  <2> QED BY <1>1, <2>2, <2>3
<1>3. ASSUME NEW i \in P, NEW j \in P, i < j PROVE rank[i] < rank[j]
  <2>1. upto(i) \cup {j} \subseteq upto(j) /\ j \notin upto(i)
    <3>1. \A x \in P : x \in Int
      OBVIOUS
    <3>2. j \notin upto(i)
      BY <1>3, <3>1
    <3>3. ASSUME NEW x \in P, x <= i PROVE x <= j
      BY <1>3, <3>1, <3>3
    <3>4. j <= j
      BY <3>1
    <3> QED BY <3>2, <3>3, <3>4
  <2>2. Cardinality(upto(i) \cup {j}) = Cardinality(upto(i)) + 1
    BY <1>2, <2>1, FS_AddElement
  <2>3. Cardinality(upto(i) \cup {j}) <= Cardinality(upto(j))
    BY <1>2, <2>1, FS_Subset
  <2> QED BY <1>2, <2>2, <2>3
<1>4. rank \in Injection(P, 1 .. n)
  <2>1. rank \in [P -> 1 .. n]
    BY <1>2
  <2>2. \A i, j \in P : rank[i] = rank[j] => i = j
    <3>1. \A i \in P : rank[i] \in Nat
      BY <1>2
    <3> QED BY <1>3, <3>1
  <2> HIDE DEF rank
  <2> QED BY <2>1, <2>2 DEF Injection, IsInjective
<1>5. \A k \in 1 .. n : \E i \in P : rank[i] = k
  <2>1. IsFiniteSet(1 .. n) /\ Cardinality(1 .. n) = n
    BY <1>1, FS_Interval
  <2>2. rank \in Surjection(P, 1 .. n)
    BY <1>1, <1>4, <2>1, FS_Injection
  <2> HIDE DEF rank
  <2> QED BY <2>2 DEF Surjection
<1>6. ASSUME NEW k \in 1 .. n PROVE Ascending(P)[k] \in P /\ rank[Ascending(P)[k]] = k
  <2>1. Ascending(P)[k] = CHOOSE i \in P : Cardinality(upto(i)) = k
    BY DEF Ascending
  <2>2. \E i \in P : Cardinality(upto(i)) = k
    BY <1>5
  <2> QED BY <2>1, <2>2
<1>7. Ascending(P) \in [1 .. n -> P]
  <2>1. Ascending(P) = [k \in 1 .. n |-> Ascending(P)[k]]
    BY DEF Ascending
  <2> QED BY <1>6, <2>1
<1>8. Len(Ascending(P)) = n
  BY <1>1, <1>7
<1>9. ASSUME NEW p \in P PROVE \E k \in 1 .. n : Ascending(P)[k] = p
  <2>1. rank[p] \in 1 .. n
    BY <1>2
  <2>2. Ascending(P)[rank[p]] \in P /\ rank[Ascending(P)[rank[p]]] = rank[p]
    BY <1>6, <2>1
  <2>3. \A i, j \in P : rank[i] = rank[j] => i = j
    BY <1>4 DEF Injection, IsInjective
  <2> HIDE DEF rank
  <2> QED BY <2>1, <2>2, <2>3
<1> HIDE DEF rank
<1> QED BY <1>1, <1>6, <1>7, <1>8, <1>9

-----------------------------------------------------------------------------
(* Messages on their way.                                                  *)

\* A message of P is in the channel s; and no two of them are.
Has(s, P)  == \E i \in DOMAIN s : s[i] \in P
Once(s, P) == \A i, j \in DOMAIN s : s[i] \in P /\ s[j] \in P => i = j

\* The empty channel holds nothing.
LEMMA EmptyHas == \A P : ~Has(<<>>, P) /\ Once(<<>>, P)
<1>1. DOMAIN <<>> = {}
  OBVIOUS
<1> QED BY <1>1 DEF Has, Once

\* The next message is taken from a channel.
LEMMA TailHas ==
    ASSUME NEW S, NEW s \in Seq(S), s # <<>>, NEW P
    PROVE  /\ Has(s, P) <=> Head(s) \in P \/ Has(Tail(s), P)
           /\ Once(s, P) => Once(Tail(s), P)
           /\ Once(s, P) /\ Head(s) \in P => ~Has(Tail(s), P)
<1>1. /\ Len(s) \in Nat \ {0} /\ DOMAIN s = 1 .. Len(s)
      /\ DOMAIN Tail(s) = 1 .. Len(s) - 1 /\ Head(s) = s[1]
      /\ \A i \in 1 .. Len(s) - 1 : Tail(s)[i] = s[i + 1]
  <2>1. Tail(s) \in Seq(S) /\ Len(Tail(s)) = Len(s) - 1
    BY HeadTailProperties
  <2> QED BY <2>1, EmptySeq, LenProperties, HeadTailProperties
<1>2. \A i \in 1 .. Len(s) - 1 : i + 1 \in 1 .. Len(s) /\ Tail(s)[i] = s[i + 1] /\ i + 1 # 1
  BY <1>1
<1>3. \A i \in 1 .. Len(s) : i = 1 \/ (i - 1 \in 1 .. Len(s) - 1 /\ Tail(s)[i - 1] = s[i])
  BY <1>1
<1>4. Has(Tail(s), P) => Has(s, P)
  BY <1>1, <1>2 DEF Has
<1>5. Head(s) \in P => Has(s, P)
  BY <1>1 DEF Has
<1>6. Has(s, P) => Head(s) \in P \/ Has(Tail(s), P)
  BY <1>1, <1>3 DEF Has
<1>7. Once(s, P) => Once(Tail(s), P)
  <2> SUFFICES ASSUME Once(s, P), NEW i \in 1 .. Len(s) - 1, NEW j \in 1 .. Len(s) - 1,
                      Tail(s)[i] \in P, Tail(s)[j] \in P
               PROVE  i = j
    BY <1>1 DEF Once
  <2>1. i + 1 = j + 1
    BY <1>1, <1>2 DEF Once
  <2> QED BY <2>1
<1>8. Once(s, P) /\ Head(s) \in P => ~Has(Tail(s), P)
  <2> SUFFICES ASSUME Once(s, P), s[1] \in P, NEW i \in 1 .. Len(s) - 1, Tail(s)[i] \in P
               PROVE  FALSE
    BY <1>1 DEF Has
  <2>1. i + 1 = 1
    BY <1>1, <1>2 DEF Once
  <2> QED BY <1>2, <2>1
<1> QED BY <1>4, <1>5, <1>6, <1>7, <1>8

\* Messages are sent after those that are on their way.
LEMMA ConcatHas ==
    ASSUME NEW S, NEW s \in Seq(S), NEW u \in Seq(S), NEW P
    PROVE  /\ Has(s \o u, P) <=> Has(s, P) \/ Has(u, P)
           /\ Once(s, P) /\ ~Has(u, P) => Once(s \o u, P)
           /\ ~Has(s, P) /\ Once(u, P) => Once(s \o u, P)
<1> DEFINE n == Len(s)
           k == Len(u)
           v == s \o u
<1>1. /\ n \in Nat /\ k \in Nat /\ DOMAIN s = 1 .. n /\ DOMAIN u = 1 .. k
      /\ DOMAIN v = 1 .. n + k
      /\ \A i \in 1 .. n + k : v[i] = IF i <= n THEN s[i] ELSE u[i - n]
  <2>1. v \in Seq(S) /\ Len(v) = n + k
    BY ConcatProperties
  <2> HIDE DEF v
  <2>2. \A i \in 1 .. n + k : (s \o u)[i] = IF i <= n THEN s[i] ELSE u[i - n]
    BY ConcatProperties
  <2>3. DOMAIN v = 1 .. Len(v) /\ n \in Nat /\ k \in Nat /\ DOMAIN s = 1 .. n /\ DOMAIN u = 1 .. k
    BY <2>1, LenProperties
  <2> QED BY <2>1, <2>2, <2>3 DEF v
<1> HIDE DEF v, n, k
<1>2. \A i \in 1 .. n : i \in 1 .. n + k /\ v[i] = s[i]
  BY <1>1
<1>3. ASSUME NEW i \in 1 .. k
      PROVE  n + i \in 1 .. n + k /\ v[n + i] = u[i]
  <2>1. n + i \in 1 .. n + k /\ ~(n + i <= n) /\ (n + i) - n = i
    BY <1>1
  <2> QED BY <1>1, <2>1
<1>4. \A i \in 1 .. n + k : (i \in 1 .. n /\ v[i] = s[i]) \/ (i - n \in 1 .. k /\ v[i] = u[i - n])
  BY <1>1
<1>5. Has(v, P) <=> Has(s, P) \/ Has(u, P)
  <2>1. Has(s, P) => Has(v, P)
    BY <1>1, <1>2 DEF Has
  <2>2. Has(u, P) => Has(v, P)
    BY <1>1, <1>3 DEF Has
  <2>3. Has(v, P) => Has(s, P) \/ Has(u, P)
    BY <1>1, <1>4 DEF Has
  <2> QED BY <2>1, <2>2, <2>3
<1>6. Once(s, P) /\ ~Has(u, P) => Once(v, P)
  <2>1. ~Has(u, P) => \A i \in 1 .. n + k : v[i] \in P => i \in 1 .. n /\ v[i] = s[i]
    BY <1>1, <1>4 DEF Has
  <2> QED BY <1>1, <2>1 DEF Once
<1>7. ~Has(s, P) /\ Once(u, P) => Once(v, P)
  <2> SUFFICES ASSUME ~Has(s, P), Once(u, P), NEW i \in 1 .. n + k, NEW j \in 1 .. n + k,
                      v[i] \in P, v[j] \in P
               PROVE  i = j
    BY <1>1 DEF Once
  <2>1. i - n \in 1 .. k /\ v[i] = u[i - n]
    BY <1>1, <1>4 DEF Has
  <2>2. j - n \in 1 .. k /\ v[j] = u[j - n]
    BY <1>1, <1>4 DEF Has
  <2>3. i - n = j - n
    BY <1>1, <2>1, <2>2 DEF Once
  <2> QED BY <1>1, <2>3
<1> QED BY <1>5, <1>6, <1>7 DEF v

\* One message is sent.
LEMMA AppendHas ==
    ASSUME NEW S, NEW s \in Seq(S), NEW m \in S, NEW P
    PROVE  /\ Has(Append(s, m), P) <=> Has(s, P) \/ m \in P
           /\ Once(s, P) /\ ~(Has(s, P) /\ m \in P) => Once(Append(s, m), P)
<1>1. Append(s, m) = s \o <<m>> /\ <<m>> \in Seq(S)
  BY AppendIsConcat
<1>2. (Has(<<m>>, P) <=> m \in P) /\ Once(<<m>>, P)
  <2>1. DOMAIN <<m>> = {1} /\ <<m>>[1] = m
    OBVIOUS
  <2> QED BY <2>1 DEF Has, Once
<1>3. /\ Has(s \o <<m>>, P) <=> Has(s, P) \/ Has(<<m>>, P)
      /\ Once(s, P) /\ ~Has(<<m>>, P) => Once(s \o <<m>>, P)
      /\ ~Has(s, P) /\ Once(<<m>>, P) => Once(s \o <<m>>, P)
  BY <1>1, ConcatHas
<1> QED BY <1>1, <1>2, <1>3

\* The messages about task t: the broker's, and the runner's.
Accepts(t) == {AcceptMessage(o, t) : o \in Offer}
Settings(t) == {About("tasksettings", t)}
Cancels(t) == {About("taskcancel", t)}
Accepted(t) == {About("taskaccepted", t)}
Ends(t) == {About("taskdone", t), About("taskerror", t)}
Answers(t) == Accepted(t) \cup Ends(t) \cup {About("taskrejected", t), About("taskdeferred", t)}
Orders(t) == Accepts(t) \cup Settings(t) \cup Cancels(t)

\* Which messages are of which channel, and which of them order or answer what.
LEMMA MessageKinds ==
    ASSUME NEW t \in Task, NEW u \in Task, NEW o \in Offer
    PROVE  /\ AcceptMessage(o, u) \in ToRunner
           /\ About("tasksettings", u) \in ToRunner /\ About("taskcancel", u) \in ToRunner
           /\ OfferMessage(o) \in ToBroker
           /\ \A x \in {"taskaccepted", "taskrejected", "taskdeferred", "taskdone", "taskerror"} :
                 About(x, u) \in ToBroker
           /\ AcceptMessage(o, u) \in Accepts(t) <=> u = t
           /\ AcceptMessage(o, u) \notin Settings(t) \cup Cancels(t)
           /\ \A x : About(x, u) \notin Accepts(t)
           /\ \A x : About(x, u) \in Settings(t) <=> x = "tasksettings" /\ u = t
           /\ \A x : About(x, u) \in Cancels(t) <=> x = "taskcancel" /\ u = t
           /\ \A x : About(x, u) \in Accepted(t) <=> x = "taskaccepted" /\ u = t
           /\ \A x : About(x, u) \in Ends(t) <=> x \in {"taskdone", "taskerror"} /\ u = t
           /\ \A x \in {"taskaccepted", "taskrejected", "taskdeferred", "taskdone", "taskerror"} :
                 About(x, u) \in Answers(t) <=> u = t
           /\ OfferMessage(o) \notin Answers(t)
<1>1. \A x, y : About(x, u) = About(y, t) <=> x = y /\ u = t
  BY DEF About
<1>2. \A x, p, y : AcceptMessage(p, y) # About(x, u) /\ AcceptMessage(p, u) # About(x, y)
  BY DEF About, AcceptMessage
<1>3. \A p : AcceptMessage(o, u) = AcceptMessage(p, t) => u = t
  BY DEF AcceptMessage
<1>4. \A x : OfferMessage(o) # About(x, t)
  BY DEF OfferMessage, About
<1>5. /\ AcceptMessage(o, u) \in ToRunner
      /\ About("tasksettings", u) \in ToRunner /\ About("taskcancel", u) \in ToRunner
      /\ OfferMessage(o) \in ToBroker
      /\ \A x \in {"taskaccepted", "taskrejected", "taskdeferred", "taskdone", "taskerror"} :
            About(x, u) \in ToBroker
  BY DEF ToRunner, ToBroker, AcceptMessages, OfferMessages
<1>6. AcceptMessage(o, u) \in Accepts(t) <=> u = t
  BY <1>3 DEF Accepts
<1>7. AcceptMessage(o, u) \notin Settings(t) \cup Cancels(t)
  BY DEF AcceptMessage, About, Settings, Cancels
<1>8. \A x : About(x, u) \notin Accepts(t)
  BY <1>2 DEF Accepts
<1>9. /\ \A x : About(x, u) \in Settings(t) <=> x = "tasksettings" /\ u = t
      /\ \A x : About(x, u) \in Cancels(t) <=> x = "taskcancel" /\ u = t
      /\ \A x : About(x, u) \in Accepted(t) <=> x = "taskaccepted" /\ u = t
      /\ \A x : About(x, u) \in Ends(t) <=> x \in {"taskdone", "taskerror"} /\ u = t
      /\ \A x \in {"taskaccepted", "taskrejected", "taskdeferred", "taskdone", "taskerror"} :
            About(x, u) \in Answers(t) <=> u = t
  BY <1>1 DEF Settings, Cancels, Accepted, Ends, Answers
<1>10. OfferMessage(o) \notin Answers(t)
  BY <1>4 DEF Answers, Accepted, Ends
<1> QED BY <1>5, <1>6, <1>7, <1>8, <1>9, <1>10

\* What a message is, by its type.
LEMMA MessageCases ==
    /\ \A m \in ToRunner :
          /\ m.type = "taskofferaccept" =>
                m.offer \in Offer /\ m.task \in Task /\ m = AcceptMessage(m.offer, m.task)
          /\ m.type \in {"taskofferaccept", "tasksettings", "taskcancel"} /\ m.task \in Task
          /\ m.type # "taskofferaccept" => m = About(m.type, m.task)
    /\ \A m \in ToBroker :
          /\ m.type = "taskoffer" => m.offer \in Offer /\ m = OfferMessage(m.offer)
          /\ m.type # "taskoffer" =>
                /\ m.task \in Task /\ m = About(m.type, m.task)
                /\ m.type \in {"taskaccepted", "taskrejected", "taskdeferred", "taskdone", "taskerror"}
          /\ m \in OfferMessages <=> m.type = "taskoffer"
<1>1. ASSUME NEW m \in ToRunner
      PROVE  /\ m.type = "taskofferaccept" =>
                   m.offer \in Offer /\ m.task \in Task /\ m = AcceptMessage(m.offer, m.task)
             /\ m.type \in {"taskofferaccept", "tasksettings", "taskcancel"} /\ m.task \in Task
             /\ m.type # "taskofferaccept" => m = About(m.type, m.task)
  BY DEF ToRunner, AcceptMessages, AcceptMessage, About
<1>2. ASSUME NEW m \in ToBroker
      PROVE  /\ m.type = "taskoffer" => m.offer \in Offer /\ m = OfferMessage(m.offer)
             /\ m.type # "taskoffer" =>
                   /\ m.task \in Task /\ m = About(m.type, m.task)
                   /\ m.type \in {"taskaccepted", "taskrejected", "taskdeferred", "taskdone", "taskerror"}
             /\ m \in OfferMessages <=> m.type = "taskoffer"
  BY DEF ToBroker, OfferMessages, OfferMessage, About
<1> QED BY <1>1, <1>2

-----------------------------------------------------------------------------
(* Matching.                                                               *)

PendingOffer == [runner : Runner, offer : Offer]

\* A task id that is not mentioned at runner r.
Unmentioned(r, t) ==
    /\ held[r][t] = "none"
    /\ ~Has(toRunner[r], Orders(t)) /\ ~Has(toBroker[r], Answers(t))

\* A task that no channel and no runner mentions has no trace in a runner.
LEMMA Mentions ==
    ASSUME TypeOK, NEW r \in Runner, NEW t \in Task, t \notin MentionedTasks(r)
    PROVE  Unmentioned(r, t)
<1>1. held[r][t] = "none"
  BY DEF MentionedTasks, Held
<1>2. toRunner[r] \in Seq(ToRunner) /\ toBroker[r] \in Seq(ToBroker)
  BY DEF TypeOK
<1>3. ASSUME NEW i \in DOMAIN toRunner[r], toRunner[r][i] \in Orders(t) PROVE FALSE
  <2>1. toRunner[r][i].task = t
    BY <1>3 DEF Orders, Accepts, Settings, Cancels, AcceptMessage, About
  <2>2. toRunner[r][i] \in ToSet(toRunner[r])
    BY DEF ToSet
  <2> QED BY <2>1, <2>2 DEF MentionedTasks
<1>4. ASSUME NEW i \in DOMAIN toBroker[r], toBroker[r][i] \in Answers(t) PROVE FALSE
  <2>1. toBroker[r][i].task = t /\ toBroker[r][i].type # "taskoffer"
    BY <1>4 DEF Answers, Accepted, Ends, About
  <2>2. toBroker[r][i] \in ToSet(toBroker[r]) \ OfferMessages
    BY <2>1 DEF ToSet, OfferMessages, OfferMessage
  <2> QED BY <2>1, <2>2 DEF MentionedTasks
<1> QED BY <1>1, <1>3, <1>4 DEF Unmentioned, Has

\* The numbers nanoid may give next are of no call and are mentioned nowhere.
LEMMA FreshFacts ==
    ASSUME TypeOK
    PROVE  /\ Len(FreshTasks) \in Nat /\ DOMAIN FreshTasks = 1 .. Len(FreshTasks)
           /\ \A i \in 1 .. Len(FreshTasks) :
                 /\ FreshTasks[i] \in Task /\ call[FreshTasks[i]] = NoCall
                 /\ \A r \in Runner : Unmentioned(r, FreshTasks[i])
                 /\ \A j \in 1 .. Len(FreshTasks) : FreshTasks[i] = FreshTasks[j] => i = j
<1> DEFINE P == {t \in Task : call[t] = NoCall /\ \A r \in Runner : t \notin MentionedTasks(r)}
<1>1. MaxTask \in Nat /\ P \subseteq 1 .. MaxTask
  BY NumbersAssumption DEF Task
<1>2. FreshTasks = Ascending(P)
  BY DEF FreshTasks
<1>3. /\ Cardinality(P) \in Nat
      /\ Ascending(P) \in [1 .. Cardinality(P) -> P]
      /\ Len(Ascending(P)) = Cardinality(P)
      /\ \A i, j \in 1 .. Cardinality(P) : Ascending(P)[i] = Ascending(P)[j] => i = j
  <2> HIDE DEF P
  <2> QED BY <1>1, AscendingFacts
<1>4. \A t \in P : t \in Task /\ call[t] = NoCall /\ \A r \in Runner : Unmentioned(r, t)
  BY Mentions
<1> HIDE DEF P
<1> QED BY <1>2, <1>3, <1>4

\* What settleTasks does: some requests that are not in progress, each once, are
\* given an offer and a fresh task id each.
Matched(n, who, ids, reqs, offs) ==
    /\ n \in 0 .. Len(offs) /\ who \in [1 .. n -> Request] /\ ids \in [1 .. n -> Task]
    /\ \A k \in 1 .. n :
          /\ who[k] \notin inProgress /\ who[k] \in ToSet(reqs)
          /\ call[ids[k]] = NoCall /\ \A r \in Runner : Unmentioned(r, ids[k])
          /\ offs[k] \in PendingOffer
          /\ call'[ids[k]] = [state |-> "accepting", request |-> who[k], runner |-> offs[k].runner]
          /\ \A j \in 1 .. n : j # k => who[j] # who[k] /\ ids[j] # ids[k]
    /\ \A t \in Task : (\A k \in 1 .. n : ids[k] # t) => call'[t] = call[t]
    /\ inProgress' = inProgress \cup {who[k] : k \in 1 .. n}
    /\ \A r \in Runner : \E u \in Seq(ToRunner) :
          /\ toRunner'[r] = toRunner[r] \o u
          /\ \A t \in Task :
                /\ ~Has(u, Settings(t)) /\ ~Has(u, Cancels(t)) /\ Once(u, Accepts(t))
                /\ Has(u, Accepts(t)) => \E k \in 1 .. n : ids[k] = t /\ offs[k].runner = r

\* Each runner is sent orders after the ones it has.
LEMMA MatchedSends ==
    ASSUME NEW n, NEW who, NEW ids, NEW reqs, NEW offs, Matched(n, who, ids, reqs, offs), NEW r \in Runner
    PROVE  \E u \in Seq(ToRunner) : toRunner'[r] = toRunner[r] \o u
BY DEF Matched

\* settleTasks pairs requests and offers: Matched says with which outcome.
LEMMA SettleMatches ==
    ASSUME TypeOK, NEW reqs \in Seq(Request), NEW offs \in Seq(PendingOffer), Settle(reqs, offs)
    PROVE  \E n, who, ids : Matched(n, who, ids, reqs, offs)
<1> DEFINE places  == Places(reqs, inProgress)
           n       == IF Len(places) < Len(offs) THEN Len(places) ELSE Len(offs)
           ids     == FreshTasks
           told(r) == Ascending({k \in 1 .. n : offs[k].runner = r})
           who     == [k \in 1 .. n |-> reqs[places[k]]]
           few     == [k \in 1 .. n |-> ids[k]]
           P == {i \in DOMAIN reqs : reqs[i] \notin inProgress /\ \A j \in 1 .. i - 1 : reqs[j] # reqs[i]}
<1>1. /\ n <= Len(ids)
      /\ inProgress' = inProgress \cup {reqs[places[k]] : k \in 1 .. n}
      /\ call' = [t \in Task |->
                    IF \E k \in 1 .. n : ids[k] = t
                    THEN LET k == CHOOSE k \in 1 .. n : ids[k] = t
                         IN [state |-> "accepting", request |-> reqs[places[k]], runner |-> offs[k].runner]
                    ELSE call[t]]
      /\ toRunner' = [r \in Runner |->
                        toRunner[r] \o
                        [i \in DOMAIN told(r) |->
                            AcceptMessage(offs[told(r)[i]].offer, ids[told(r)[i]])]]
  BY DEF Settle
<1>2. Len(reqs) \in Nat /\ DOMAIN reqs = 1 .. Len(reqs) /\ P \subseteq 1 .. Len(reqs)
  BY LenProperties
<1>3. /\ Len(places) \in Nat /\ \A k \in 1 .. Len(places) : places[k] \in P
      /\ \A i, j \in 1 .. Len(places) : places[i] = places[j] => i = j
  <2>1. places = Ascending(P)
    BY DEF Places
  <2> HIDE DEF P, places
  <2> QED BY <1>2, <2>1, AscendingFacts
<1>4. /\ n \in 0 .. Len(offs) /\ n <= Len(places) /\ Len(offs) \in Nat
      /\ \A k \in 1 .. n : offs[k] \in PendingOffer
  <2>1. Len(offs) \in Nat /\ \A k \in 1 .. Len(offs) : offs[k] \in PendingOffer
    BY LenProperties, ElementOfSeq
  <2> HIDE DEF places
  <2> QED BY <1>3, <2>1
<1>5. ASSUME NEW k \in 1 .. n
      PROVE  /\ places[k] \in P /\ reqs[places[k]] \in Request
             /\ reqs[places[k]] \notin inProgress /\ reqs[places[k]] \in ToSet(reqs)
             /\ \A j \in 1 .. n : j # k => reqs[places[j]] # reqs[places[k]]
  <2>1. k \in 1 .. Len(places) /\ \A j \in 1 .. n : j \in 1 .. Len(places)
    <3> HIDE DEF places, n
    <3> QED BY <1>3, <1>4
  <2>2. places[k] \in P /\ \A j \in 1 .. n : places[j] \in P /\ (j # k => places[j] # places[k])
    <3> HIDE DEF places, n, P
    <3> QED BY <1>3, <2>1
  <2>3. \A i \in P : reqs[i] \in Request /\ reqs[i] \notin inProgress /\ reqs[i] \in ToSet(reqs)
    BY <1>2, ElementOfSeq DEF ToSet
  <2>4. \A i, j \in P : i # j => reqs[i] # reqs[j]
    <3> SUFFICES ASSUME NEW i \in P, NEW j \in P, i < j PROVE reqs[i] # reqs[j]
      BY <1>2
    <3>1. i \in 1 .. j - 1
      BY <1>2
    <3> QED BY <3>1
  <2> HIDE DEF places, n, P
  <2> QED BY <2>2, <2>3, <2>4
<1>6. ASSUME NEW k \in 1 .. n
      PROVE  /\ ids[k] \in Task /\ call[ids[k]] = NoCall /\ \A r \in Runner : Unmentioned(r, ids[k])
             /\ \A j \in 1 .. n : j # k => ids[j] # ids[k]
  <2>1. \A j \in 1 .. n : j \in 1 .. Len(ids)
    <3> HIDE DEF places, n, ids
    <3> QED BY <1>1, <1>4, FreshFacts DEF ids
  <2> HIDE DEF n
  <2> QED BY <2>1, FreshFacts
<1> HIDE DEF places, n, ids, P
<1>7. ASSUME NEW k \in 1 .. n
      PROVE  call'[ids[k]] = [state |-> "accepting", request |-> who[k], runner |-> offs[k].runner]
  <2> DEFINE j == CHOOSE j \in 1 .. n : ids[j] = ids[k]
  <2>1. j \in 1 .. n /\ ids[j] = ids[k]
    OBVIOUS
  <2>2. j = k
    <3> HIDE DEF j
    <3> QED BY <1>6, <2>1
  <2>3. call'[ids[k]] = [state |-> "accepting", request |-> reqs[places[j]], runner |-> offs[j].runner]
    BY <1>1, <1>6
  <2> QED BY <2>2, <2>3
<1>8. ASSUME NEW r \in Runner
      PROVE  \E u \in Seq(ToRunner) :
                /\ toRunner'[r] = toRunner[r] \o u
                /\ \A t \in Task :
                      /\ ~Has(u, Settings(t)) /\ ~Has(u, Cancels(t)) /\ Once(u, Accepts(t))
                      /\ Has(u, Accepts(t)) => \E k \in 1 .. n : ids[k] = t /\ offs[k].runner = r
  <2> DEFINE Q == {k \in 1 .. n : offs[k].runner = r}
             u == [i \in DOMAIN told(r) |-> AcceptMessage(offs[told(r)[i]].offer, ids[told(r)[i]])]
  <2>1. /\ Cardinality(Q) \in Nat /\ DOMAIN told(r) = 1 .. Cardinality(Q)
        /\ \A i \in 1 .. Cardinality(Q) : told(r)[i] \in 1 .. n /\ offs[told(r)[i]].runner = r
        /\ \A i, j \in 1 .. Cardinality(Q) : told(r)[i] = told(r)[j] => i = j
    <3>1. told(r) = Ascending(Q) /\ n \in Nat /\ Q \subseteq 1 .. n
      BY <1>4
    <3>2. \A k \in Q : k \in 1 .. n /\ offs[k].runner = r
      OBVIOUS
    <3> HIDE DEF told, Q
    <3>3. /\ Cardinality(Q) \in Nat
          /\ Ascending(Q) \in [1 .. Cardinality(Q) -> Q]
          /\ \A i, j \in 1 .. Cardinality(Q) : Ascending(Q)[i] = Ascending(Q)[j] => i = j
      BY <3>1, AscendingFacts
    <3> QED BY <3>1, <3>2, <3>3
  <2> HIDE DEF told, Q
  <2>2. ASSUME NEW i \in 1 .. Cardinality(Q)
        PROVE  /\ u[i] = AcceptMessage(offs[told(r)[i]].offer, ids[told(r)[i]])
               /\ offs[told(r)[i]].offer \in Offer /\ ids[told(r)[i]] \in Task
               /\ u[i] \in ToRunner
    <3>1. u[i] = AcceptMessage(offs[told(r)[i]].offer, ids[told(r)[i]])
      BY <2>1
    <3>2. offs[told(r)[i]].offer \in Offer /\ ids[told(r)[i]] \in Task
      BY <1>4, <1>6, <2>1 DEF PendingOffer
    <3> QED BY <3>1, <3>2, MessageKinds
  <2>3. u \in Seq(ToRunner) /\ DOMAIN u = 1 .. Cardinality(Q)
    <3>1. DOMAIN u = 1 .. Cardinality(Q) /\ u = [i \in 1 .. Cardinality(Q) |-> u[i]]
      BY <2>1
    <3> HIDE DEF u
    <3>2. u \in [1 .. Cardinality(Q) -> ToRunner]
      BY <2>2, <3>1
    <3>3. \A c \in Nat : [1 .. c -> ToRunner] \subseteq Seq(ToRunner)
      BY SeqDef
    <3> QED BY <2>1, <3>1, <3>2, <3>3
  <2>4. toRunner'[r] = toRunner[r] \o u
    BY <1>1 DEF told
  <2> HIDE DEF u
  <2>5. ASSUME NEW t \in Task
        PROVE  /\ ~Has(u, Settings(t)) /\ ~Has(u, Cancels(t)) /\ Once(u, Accepts(t))
               /\ Has(u, Accepts(t)) => \E k \in 1 .. n : ids[k] = t /\ offs[k].runner = r
    <3>1. \A i \in 1 .. Cardinality(Q) :
             /\ u[i] \notin Settings(t) /\ u[i] \notin Cancels(t)
             /\ u[i] \in Accepts(t) => ids[told(r)[i]] = t
      BY <2>2, MessageKinds
    <3>2. Once(u, Accepts(t))
      <4>1. \A i, j \in 1 .. Cardinality(Q) : ids[told(r)[i]] = ids[told(r)[j]] => i = j
        BY <1>6, <2>1
      <4> QED BY <2>3, <3>1, <4>1 DEF Once
    <3>3. ~Has(u, Settings(t)) /\ ~Has(u, Cancels(t))
      BY <2>3, <3>1 DEF Has
    <3>4. Has(u, Accepts(t)) => \E k \in 1 .. n : ids[k] = t /\ offs[k].runner = r
      BY <2>1, <2>3, <3>1 DEF Has
    <3> QED BY <3>2, <3>3, <3>4
  <2> QED BY <2>3, <2>4, <2>5
<1>9. inProgress' = inProgress \cup {who[k] : k \in 1 .. n}
  BY <1>1
<1>10. \A t \in Task : (\A k \in 1 .. n : few[k] # t) => call'[t] = call[t]
  <2>1. \A k \in 1 .. n : few[k] = ids[k]
    OBVIOUS
  <2> HIDE DEF few
  <2> QED BY <1>1, <2>1
<1>11. Matched(n, who, few, reqs, offs)
  <2>1. \A k \in 1 .. n : few[k] = ids[k] /\ who[k] = reqs[places[k]]
    OBVIOUS
  <2>2. who \in [1 .. n -> Request] /\ few \in [1 .. n -> Task]
    BY <1>5, <1>6
  <2> HIDE DEF who, few
  <2>3. \A k \in 1 .. n :
          /\ who[k] \notin inProgress /\ who[k] \in ToSet(reqs)
          /\ call[few[k]] = NoCall /\ \A r \in Runner : Unmentioned(r, few[k])
          /\ offs[k] \in PendingOffer
          /\ call'[few[k]] = [state |-> "accepting", request |-> who[k], runner |-> offs[k].runner]
          /\ \A j \in 1 .. n : j # k => who[j] # who[k] /\ few[j] # few[k]
    BY <1>4, <1>5, <1>6, <1>7, <2>1
  <2>4. \A r \in Runner : \E u \in Seq(ToRunner) :
          /\ toRunner'[r] = toRunner[r] \o u
          /\ \A t \in Task :
                /\ ~Has(u, Settings(t)) /\ ~Has(u, Cancels(t)) /\ Once(u, Accepts(t))
                /\ Has(u, Accepts(t)) => \E k \in 1 .. n : few[k] = t /\ offs[k].runner = r
    <3> SUFFICES ASSUME NEW r \in Runner
                 PROVE  \E u \in Seq(ToRunner) :
                           /\ toRunner'[r] = toRunner[r] \o u
                           /\ \A t \in Task :
                                 /\ ~Has(u, Settings(t)) /\ ~Has(u, Cancels(t)) /\ Once(u, Accepts(t))
                                 /\ Has(u, Accepts(t)) =>
                                       \E k \in 1 .. n : few[k] = t /\ offs[k].runner = r
      OBVIOUS
    <3>1. PICK u \in Seq(ToRunner) :
             /\ toRunner'[r] = toRunner[r] \o u
             /\ \A t \in Task :
                   /\ ~Has(u, Settings(t)) /\ ~Has(u, Cancels(t)) /\ Once(u, Accepts(t))
                   /\ Has(u, Accepts(t)) => \E k \in 1 .. n : ids[k] = t /\ offs[k].runner = r
      BY <1>8
    <3>2. \A t \in Task : Has(u, Accepts(t)) => \E k \in 1 .. n : few[k] = t /\ offs[k].runner = r
      <4> HIDE DEF ids, n
      <4> QED BY <2>1, <3>1
    <3> QED BY <3>1, <3>2
  <2> QED BY <1>4, <1>9, <1>10, <2>2, <2>3, <2>4 DEF Matched
<1> QED BY <1>11

-----------------------------------------------------------------------------
(* The lists of the broker.                                                *)

\* The list of requests without the first mention of one.
LEMMA UnlistFacts ==
    ASSUME requests \in Seq(Request), NEW q \in Request
    PROVE  /\ Unlist(q) \in Seq(Request)
           /\ \A x : x \in ToSet(Unlist(q)) => x \in ToSet(requests)
           /\ \A x : x # q /\ x \in ToSet(requests) => x \in ToSet(Unlist(q))
<1> DEFINE s == requests
           I == {i \in 1 .. Len(s) : s[i] = q}
<1>1. Len(s) \in Nat /\ DOMAIN s = 1 .. Len(s)
  BY LenProperties
<1>2. CASE I = {}
  <2>1. Unlist(q) = s
    BY <1>2 DEF Unlist, RemoveFirst
  <2> QED BY <2>1
<1>3. CASE I # {}
  <2> DEFINE p == CHOOSE x \in I : \A y \in I : x <= y
  <2>1. p \in I
    <3>1. \E x \in I : \A y \in I : x <= y
      <4>1. I \subseteq Nat
        BY <1>1
      <4> HIDE DEF I
      <4> QED BY <1>3, <4>1, LeastNumber
    <3> QED BY <3>1
  <2>2. Unlist(q) = RemoveAt(s, p)
    BY <1>3 DEF Unlist, RemoveFirst, SelectInSeq, Min
  <2> HIDE DEF p
  <2>3. p \in 1 .. Len(s) /\ s[p] = q
    BY <2>1
  <2> DEFINE r == RemoveAt(s, p)
  <2>4. /\ r \in Seq(Request) /\ Len(r) = Len(s) - 1
        /\ \A j \in 1 .. Len(s) - 1 : r[j] = IF j < p THEN s[j] ELSE s[j + 1]
    BY <2>3, RemoveAtProperties
  <2> HIDE DEF r
  <2>5. DOMAIN r = 1 .. Len(s) - 1
    BY <2>4, LenProperties
  <2>6. ASSUME NEW j \in 1 .. Len(s) - 1 PROVE r[j] \in ToSet(s)
    <3>1. j \in 1 .. Len(s) /\ j + 1 \in 1 .. Len(s)
      BY <1>1
    <3> QED BY <1>1, <2>4, <3>1 DEF ToSet
  <2>7. ASSUME NEW i \in 1 .. Len(s), s[i] # q PROVE s[i] \in ToSet(r)
    <3>1. CASE i < p
      <4>1. i \in 1 .. Len(s) - 1 /\ r[i] = s[i]
        BY <1>1, <2>3, <2>4, <3>1
      <4> QED BY <2>5, <4>1 DEF ToSet
    <3>2. CASE ~(i < p)
      <4>1. i # p
        BY <2>3, <2>7
      <4>2. i - 1 \in 1 .. Len(s) - 1 /\ ~(i - 1 < p) /\ (i - 1) + 1 = i
        BY <1>1, <2>3, <3>2, <4>1
      <4>3. r[i - 1] = s[i]
        BY <2>4, <4>2
      <4> QED BY <2>5, <4>2, <4>3 DEF ToSet
    <3> QED BY <3>1, <3>2
  <2>8. Unlist(q) = r
    BY <2>2 DEF r
  <2>9. \A x : x \in ToSet(r) => x \in ToSet(s)
    BY <2>5, <2>6 DEF ToSet
  <2>10. \A x : x # q /\ x \in ToSet(s) => x \in ToSet(r)
    BY <1>1, <2>7 DEF ToSet
  <2> QED BY <2>4, <2>8, <2>9, <2>10
<1> QED BY <1>2, <1>3

\* The request is listed once more.
LEMMA RelistFacts ==
    ASSUME requests \in Seq(Request), NEW q \in Request
    PROVE  /\ Append(requests, q) \in Seq(Request)
           /\ ToSet(Append(requests, q)) = ToSet(requests) \cup {q}
<1> DEFINE s == requests
           v == Append(s, q)
<1>1. /\ v \in Seq(Request) /\ Len(v) = Len(s) + 1
      /\ \A i \in 1 .. Len(s) : v[i] = s[i]
      /\ v[Len(s) + 1] = q
  BY AppendProperties
<1> HIDE DEF v
<1>2. DOMAIN v = 1 .. Len(s) + 1 /\ Len(s) \in Nat /\ DOMAIN s = 1 .. Len(s)
  BY <1>1, LenProperties
<1>3. \A i \in 1 .. Len(s) + 1 : v[i] \in ToSet(s) \cup {q}
  BY <1>1, <1>2 DEF ToSet
<1>4. \A i \in 1 .. Len(s) : i \in DOMAIN v /\ v[i] = s[i]
  BY <1>1, <1>2
<1>5. Len(s) + 1 \in DOMAIN v
  BY <1>2
<1>6. ToSet(v) \subseteq ToSet(s) \cup {q}
  BY <1>2, <1>3 DEF ToSet
<1>7. ToSet(s) \cup {q} \subseteq ToSet(v)
  BY <1>1, <1>2, <1>4, <1>5 DEF ToSet
<1>8. ToSet(v) = ToSet(s) \cup {q}
  BY <1>6, <1>7
<1> QED BY <1>1, <1>8 DEF v

\* The offers that the broker has belong to the runners of K.
OffersOf(s, K) == s \in Seq(PendingOffer) /\ \A i \in DOMAIN s : s[i].runner \in K

\* Removing offers, from a place or from the front, and adding one keeps the
\* runners they come from.
LEMMA OffersLeft ==
    ASSUME NEW s \in Seq(PendingOffer), NEW K, OffersOf(s, K)
    PROVE  /\ \A i \in DOMAIN s : OffersOf(RemoveAt(s, i), K)
           /\ \A n \in 0 .. Len(s) : OffersOf(SubSeq(s, n + 1, Len(s)), K)
           /\ \A r \in K, o \in Offer : r \in Runner =>
                 OffersOf(Append(s, [runner |-> r, offer |-> o]), K)
<1>1. /\ Len(s) \in Nat /\ DOMAIN s = 1 .. Len(s)
      /\ \A i \in 1 .. Len(s) : s[i] \in PendingOffer /\ s[i].runner \in K
  BY LenProperties, ElementOfSeq DEF OffersOf
<1>2. ASSUME NEW i \in DOMAIN s PROVE OffersOf(RemoveAt(s, i), K)
  <2> DEFINE v == RemoveAt(s, i)
  <2>1. /\ v \in Seq(PendingOffer) /\ Len(v) = Len(s) - 1
        /\ \A j \in 1 .. Len(s) - 1 : v[j] = IF j < i THEN s[j] ELSE s[j + 1]
    BY <1>1, RemoveAtProperties
  <2> HIDE DEF v
  <2>2. DOMAIN v = 1 .. Len(s) - 1
    BY <2>1, LenProperties
  <2>3. \A j \in 1 .. Len(s) - 1 : v[j].runner \in K
    BY <1>1, <2>1
  <2> QED BY <2>1, <2>2, <2>3 DEF OffersOf, v
<1>3. ASSUME NEW n \in 0 .. Len(s) PROVE OffersOf(SubSeq(s, n + 1, Len(s)), K)
  <2> DEFINE v == SubSeq(s, n + 1, Len(s))
  <2>1. n + 1 \in Int /\ Len(s) \in Int /\ \A i \in n + 1 .. Len(s) : i \in 1 .. Len(s)
    BY <1>1
  <2>2. /\ v \in Seq(PendingOffer)
        /\ Len(v) = IF n + 1 <= Len(s) THEN Len(s) - (n + 1) + 1 ELSE 0
        /\ \A i \in 1 .. Len(s) - (n + 1) + 1 : v[i] = s[(n + 1) + i - 1]
    BY <1>1, <2>1, SubSeqProperties
  <2> HIDE DEF v
  <2>3. DOMAIN v = 1 .. Len(v) /\ Len(v) = Len(s) - n
    <3>1. DOMAIN v = 1 .. Len(v)
      BY <2>2, LenProperties
    <3>2. /\ n + 1 <= Len(s) => Len(s) - (n + 1) + 1 = Len(s) - n
          /\ ~(n + 1 <= Len(s)) => 0 = Len(s) - n
      <4>1. n \in 0 .. Len(s)
        OBVIOUS
      <4> HIDE DEF v
      <4> DEFINE l == Len(s)
      <4>2. l \in Nat /\ n \in 0 .. l
        BY <1>1, <4>1
      <4> HIDE DEF l
      <4>3. (n + 1 <= l => l - (n + 1) + 1 = l - n) /\ (~(n + 1 <= l) => 0 = l - n)
        BY <4>2
      <4> QED BY <4>3 DEF l
    <3> QED BY <2>2, <3>1, <3>2
  <2>4. ASSUME NEW i \in 1 .. Len(s) - n PROVE v[i].runner \in K
    <3>1. (n + 1) + i - 1 \in 1 .. Len(s) /\ i \in 1 .. Len(s) - (n + 1) + 1
      BY <1>1
    <3> QED BY <1>1, <2>2, <3>1
  <2> QED BY <2>2, <2>3, <2>4 DEF OffersOf, v
<1>4. ASSUME NEW r \in K, NEW o \in Offer, r \in Runner
      PROVE  OffersOf(Append(s, [runner |-> r, offer |-> o]), K)
  <2> DEFINE p == [runner |-> r, offer |-> o]
             v == Append(s, p)
  <2>1. p \in PendingOffer /\ p.runner = r
    BY <1>4 DEF PendingOffer
  <2> HIDE DEF p
  <2>2. /\ v \in Seq(PendingOffer) /\ Len(v) = Len(s) + 1
        /\ \A i \in 1 .. Len(s) : v[i] = s[i]
        /\ v[Len(s) + 1] = p
    BY <2>1, AppendProperties
  <2> HIDE DEF v
  <2>3. DOMAIN v = 1 .. Len(s) + 1
    BY <2>2, LenProperties
  <2>4. \A i \in 1 .. Len(s) + 1 : i \in 1 .. Len(s) \/ i = Len(s) + 1
    BY <1>1
  <2>5. OffersOf(v, K)
    BY <1>1, <2>1, <2>2, <2>3, <2>4 DEF OffersOf
  <2> QED BY <2>5 DEF v, p
<1> QED BY <1>2, <1>3, <1>4

\* deregisterRunner leaves the offers of the other runners.
LEMMA OffersOfOthers ==
    ASSUME NEW r, NEW K, OffersOf(offers, K)
    PROVE  OffersOf(OffersWithout(r), K \ {r})
<1> DEFINE P == {i \in DOMAIN offers : offers[i].runner # r}
           c == Cardinality(P)
           others == Ascending(P)
           v == [k \in DOMAIN others |-> offers[others[k]]]
<1>1. /\ Len(offers) \in Nat /\ DOMAIN offers = 1 .. Len(offers)
      /\ \A i \in DOMAIN offers : offers[i] \in PendingOffer /\ offers[i].runner \in K
  BY LenProperties, ElementOfSeq DEF OffersOf
<1>2. P \subseteq 1 .. Len(offers) /\ \A i \in P : offers[i] \in PendingOffer /\ offers[i].runner \in K \ {r}
  BY <1>1
<1>3. OffersWithout(r) = v
  BY DEF OffersWithout
<1> HIDE DEF P
<1>4. c \in Nat /\ others \in [1 .. c -> P]
  BY <1>1, <1>2, AscendingFacts
<1> HIDE DEF others, c
<1>5. v = [k \in 1 .. c |-> v[k]] /\ \A k \in 1 .. c : v[k] \in PendingOffer /\ v[k].runner \in K \ {r}
  BY <1>2, <1>4
<1> HIDE DEF v
<1>6. v \in [1 .. c -> PendingOffer] /\ DOMAIN v = 1 .. c
  BY <1>5
<1>7. [1 .. c -> PendingOffer] \subseteq Seq(PendingOffer)
  BY <1>4, SeqDef
<1> QED BY <1>3, <1>5, <1>6, <1>7 DEF OffersOf

-----------------------------------------------------------------------------
(* Offers.                                                                 *)

\* What sendOffers leaves open, and what it sends. It makes new offers only
\* where there is room for them.
LEMMA SendFacts ==
    ASSUME TypeOK, NEW r \in Runner, NEW tasks, tasks \subseteq Task, NEW before \in Seq(ToBroker),
           SendOffers(r, tasks, before)
    PROVE  /\ late' \in 0 .. MaxLate
           /\ \E S \in SUBSET Offer :
                 /\ open' = [open EXCEPT ![r] = S]
                 /\ S \subseteq open[r] \/ Cardinality(S) + Cardinality(tasks) <= fleet.maxConcurrency
           /\ \/ up[r] = "cut" /\ toBroker' = toBroker
              \/ \E u \in Seq(ToBroker) :
                    /\ toBroker' = [toBroker EXCEPT ![r] = (toBroker[r] \o before) \o u]
                    /\ \A t \in Task : ~Has(u, Answers(t))
<1>1. MaxOffer \in Nat /\ MaxTask \in Nat /\ MaxLate \in Nat /\ fleet.maxConcurrency \in Nat
  <2>1. fleet \in Fleets
    BY DEF TypeOK
  <2> QED BY <2>1, NumbersAssumption, FleetAssumption
<1>2. /\ IsFiniteSet(Offer) /\ IsFiniteSet(Task) /\ open[r] \subseteq Offer
      /\ late \in 0 .. MaxLate
  <2>1. IsFiniteSet(1 .. MaxOffer) /\ IsFiniteSet(1 .. MaxTask)
    <3>1. 1 \in Int /\ MaxOffer \in Int /\ MaxTask \in Int
      BY <1>1
    <3> QED BY <3>1, FS_Interval, Zenon
  <2>2. open[r] \subseteq Offer /\ late \in 0 .. MaxLate
    BY DEF TypeOK
  <2> QED BY <2>1, <2>2 DEF Offer, Task
<1> DEFINE ids == FreshOffers(r)
           Free == Offer \ (open[r] \cup InUse(r))
           Early(stale) == Cardinality(stale \cap InUse(r))
           Many(stale) ==
              IF up[r] # "up" THEN 0
              ELSE fleet.maxConcurrency - (Cardinality(open[r] \ stale) + Cardinality(tasks))
           New(stale) == IF Many(stale) > 0 THEN SubSeq(ids, 1, Many(stale)) ELSE <<>>
<1>3. PICK stale \in SUBSET open[r] :
         /\ Many(stale) <= Len(ids)
         /\ late + Early(stale) <= MaxLate /\ late' = late + Early(stale)
         /\ open' = [open EXCEPT ![r] = (open[r] \ stale) \cup ToSet(New(stale))]
         /\ toBroker' = IF up[r] = "cut" THEN toBroker
                        ELSE [toBroker EXCEPT ![r] =
                                @ \o before \o [i \in DOMAIN New(stale) |-> OfferMessage(New(stale)[i])]]
  BY DEF SendOffers
<1> DEFINE kept == open[r] \ stale
           n == Many(stale)
           new == New(stale)
           u == [i \in DOMAIN new |-> OfferMessage(new[i])]
<1>4. Early(stale) \in Nat /\ Cardinality(kept) \in Nat /\ Cardinality(tasks) \in Nat
  <2>1. IsFiniteSet(stale \cap InUse(r))
    BY <1>2, FS_Subset
  <2>2. IsFiniteSet(kept) /\ IsFiniteSet(tasks)
    BY <1>2, FS_Subset
  <2> QED BY <2>1, <2>2, FS_CardinalityType
<1>5. ids \in [1 .. Len(ids) -> Offer] /\ Len(ids) \in Nat
  <2>1. ids = Ascending(Free)
    BY DEF FreshOffers
  <2>2. Free \subseteq 1 .. MaxOffer /\ Free \subseteq Offer
    BY DEF Offer
  <2> HIDE DEF Free, ids
  <2>3. /\ Cardinality(Free) \in Nat
        /\ Ascending(Free) \in [1 .. Cardinality(Free) -> Free]
        /\ Len(Ascending(Free)) = Cardinality(Free)
    BY <1>1, <2>2, AscendingFacts
  <2> QED BY <2>1, <2>2, <2>3
<1>6. n \in Int /\ (n > 0 => n = fleet.maxConcurrency - (Cardinality(kept) + Cardinality(tasks)))
  BY <1>1, <1>4
<1>7. n <= Len(ids)
  BY <1>3
<1>8. new \in Seq(Offer) /\ (n > 0 => Len(new) = n) /\ (~(n > 0) => new = <<>>)
  <2>1. CASE n > 0
    <3>1. new = SubSeq(ids, 1, n)
      BY <2>1
    <3> HIDE DEF n, ids, new
    <3>2. \A i \in 1 .. n : ids[i] \in Offer
      BY <1>5, <1>6, <1>7
    <3>3. SubSeq(ids, 1, n) \in Seq(Offer)
      BY <1>6, <3>2, SubSeqProperties
    <3>4. Len(SubSeq(ids, 1, n)) = IF 1 <= n THEN n - 1 + 1 ELSE 0
      BY <1>6, <3>2, SubSeqProperties
    <3>5. (IF 1 <= n THEN n - 1 + 1 ELSE 0) = n
      BY <1>6, <2>1
    <3> QED BY <2>1, <3>1, <3>3, <3>4, <3>5
  <2>2. CASE ~(n > 0)
    <3>1. new = <<>>
      BY <2>2
    <3> HIDE DEF n, new
    <3>2. <<>> \in Seq(Offer)
      BY EmptySeq
    <3> QED BY <2>2, <3>1, <3>2
  <2> QED BY <2>1, <2>2
<1>9. open' = [open EXCEPT ![r] = kept \cup ToSet(new)]
  BY <1>3
<1>10. toBroker' = IF up[r] = "cut" THEN toBroker
                   ELSE [toBroker EXCEPT ![r] = (toBroker[r] \o before) \o u]
  BY <1>3
<1>11. late' \in 0 .. MaxLate
  BY <1>1, <1>2, <1>3, <1>4
<1> HIDE DEF n, new, ids
<1>12. /\ Len(new) \in Nat /\ DOMAIN new = 1 .. Len(new)
       /\ \A i \in 1 .. Len(new) : new[i] \in Offer
  BY <1>8, LenProperties, ElementOfSeq
<1>13. ToSet(new) \subseteq Offer /\ kept \subseteq Offer
  BY <1>2, <1>12 DEF ToSet
<1>14. kept \cup ToSet(new) \subseteq open[r]
           \/ Cardinality(kept \cup ToSet(new)) + Cardinality(tasks) <= fleet.maxConcurrency
  <2>1. CASE n > 0
    <3>1. IsFiniteSet(kept) /\ IsFiniteSet(ToSet(new))
      BY <1>2, <1>13, FS_Subset
    <3>2. Cardinality(ToSet(new)) \in Nat /\ Cardinality(ToSet(new)) <= Len(new)
      <4>1. \A y \in ToSet(new) : \E i \in 1 .. Len(new) : new[i] = y
        BY <1>12 DEF ToSet
      <4>2. new \in Surjection(1 .. Len(new), ToSet(new))
        <5>1. new \in [1 .. Len(new) -> ToSet(new)]
          BY <1>12, <1>8, LenProperties DEF ToSet
        <5> QED BY <4>1, <5>1 DEF Surjection
      <4>3. ExistsSurjection(1 .. Len(new), ToSet(new))
        BY <4>2 DEF ExistsSurjection
      <4> QED BY <1>12, <3>1, <4>3, FS_SurjCardinalityBound, FS_CardinalityType
    <3>3. Cardinality(kept \cup ToSet(new)) =
             Cardinality(kept) + Cardinality(ToSet(new)) - Cardinality(kept \cap ToSet(new))
      BY <3>1, FS_Union
    <3>4. Cardinality(kept \cap ToSet(new)) \in Nat
      <4>1. IsFiniteSet(kept \cap ToSet(new))
        BY <3>1, FS_Subset
      <4> QED BY <4>1, FS_CardinalityType
    <3> HIDE DEF kept
    <3> QED BY <1>1, <1>4, <1>6, <1>8, <2>1, <3>2, <3>3, <3>4
  <2>2. CASE ~(n > 0)
    <3>1. ToSet(new) = {}
      BY <1>8, <2>2 DEF ToSet
    <3> QED BY <3>1
  <2> QED BY <2>1, <2>2
<1>15. u \in Seq(ToBroker) /\ \A t \in Task : ~Has(u, Answers(t))
  <2>1. u = [i \in 1 .. Len(new) |-> u[i]] /\ \A i \in 1 .. Len(new) : u[i] = OfferMessage(new[i])
    BY <1>12
  <2>2. DOMAIN u = 1 .. Len(new)
    BY <1>12
  <2> HIDE DEF u
  <2>3. \A i \in 1 .. Len(new) : u[i] \in ToBroker /\ \A t \in Task : u[i] \notin Answers(t)
    <3>1. \A o \in Offer : OfferMessage(o) \in ToBroker
      BY DEF ToBroker, OfferMessages
    <3> QED BY <1>12, <2>1, <3>1, MessageKinds
  <2>4. u \in [1 .. Len(new) -> ToBroker]
    BY <2>1, <2>3
  <2>5. [1 .. Len(new) -> ToBroker] \subseteq Seq(ToBroker)
    BY <1>12, SeqDef
  <2> QED BY <2>2, <2>3, <2>4, <2>5 DEF Has
<1> HIDE DEF u, kept
<1> QED BY <1>9, <1>10, <1>11, <1>13, <1>14, <1>15

-----------------------------------------------------------------------------
(* Types.                                                                  *)

\* The type invariant holds in the beginning.
LEMMA InitTyped == Init => TypeOK
<1> SUFFICES ASSUME Init PROVE TypeOK
  OBVIOUS
<1>1. \A S : <<>> \in Seq(S)
  BY EmptySeq
<1>2. call \in [Task -> Calls] /\ asked \in [Request -> {"idle", "requested", "running", "done", "failed"}]
  BY DEF Init, Calls
<1>3. /\ up \in [Runner -> {"off", "up", "stopping", "cut", "gone"}]
      /\ open \in [Runner -> SUBSET Offer]
      /\ held \in [Runner -> [Task -> TaskStatus]]
      /\ toRunner \in [Runner -> Seq(ToRunner)] /\ toBroker \in [Runner -> Seq(ToBroker)]
  BY <1>1 DEF Init, TaskStatus
<1>4. late \in 0 .. MaxLate /\ fleet \in Fleets
  BY NumbersAssumption DEF Init
<1> QED BY <1>1, <1>2, <1>3, <1>4 DEF Init, TypeOK

\* An acceptOffer call, or a task, is one of a request at a runner.
LEMMA CallFacts ==
    ASSUME TypeOK, NEW t \in Task
    PROVE  /\ call[t] = NoCall <=> call[t].state \notin {"accepting", "task"}
           /\ call[t] # NoCall =>
                 /\ call[t].request \in Request /\ call[t].runner \in Runner
                 /\ call[t] \in [state : {"accepting", "task"}, request : Request, runner : Runner]
                 /\ [call[t] EXCEPT !.state = "task"] =
                       [state |-> "task", request |-> call[t].request, runner |-> call[t].runner]
           /\ t \in Tasks <=> call[t].state = "task"
           /\ t \in Accepting <=> call[t].state = "accepting"
<1>1. call[t] = NoCall \/ call[t] \in [state : {"accepting", "task"}, request : Request, runner : Runner]
  BY DEF TypeOK, Calls
<1>2. NoCall.state = "free"
  BY DEF NoCall
<1>3. ASSUME call[t] \in [state : {"accepting", "task"}, request : Request, runner : Runner]
      PROVE  [call[t] EXCEPT !.state = "task"] =
                 [state |-> "task", request |-> call[t].request, runner |-> call[t].runner]
  BY <1>3
<1>4. t \in Tasks <=> call[t].state = "task"
  BY DEF Tasks
<1>5. t \in Accepting <=> call[t].state = "accepting"
  BY DEF Accepting
<1> QED BY <1>1, <1>2, <1>3, <1>4, <1>5

\* The part of the state that settleTasks changes.
BrokerTypes ==
    /\ offers \in Seq(PendingOffer) /\ requests \in Seq(Request) /\ inProgress \subseteq Request
    /\ call \in [Task -> Calls] /\ toRunner \in [Runner -> Seq(ToRunner)]

RunnerTypes ==
    /\ up \in [Runner -> {"off", "up", "stopping", "cut", "gone"}]
    /\ open \in [Runner -> SUBSET Offer] /\ held \in [Runner -> [Task -> TaskStatus]]
    /\ toBroker \in [Runner -> Seq(ToBroker)] /\ late \in 0 .. MaxLate

OtherTypes ==
    /\ fleet \in Fleets /\ known \subseteq Runner
    /\ asked \in [Request -> {"idle", "requested", "running", "done", "failed"}]

\* The type invariant is that of the broker, the runners and the rest.
LEMMA TypeParts ==
    /\ TypeOK <=> BrokerTypes /\ RunnerTypes /\ OtherTypes
    /\ TypeOK' <=> BrokerTypes' /\ RunnerTypes' /\ OtherTypes'
BY DEF TypeOK, BrokerTypes, RunnerTypes, OtherTypes, PendingOffer

\* Every offer of a list comes from a runner.
LEMMA OffersOfRunners ==
    ASSUME NEW s \in Seq(PendingOffer)
    PROVE  OffersOf(s, Runner)
<1>1. \A i \in DOMAIN s : s[i] \in PendingOffer
  BY LenProperties, ElementOfSeq
<1> QED BY <1>1 DEF OffersOf, PendingOffer

\* settleTasks keeps the types of the broker.
LEMMA SettleType ==
    ASSUME TypeOK, NEW reqs \in Seq(Request), NEW offs \in Seq(PendingOffer), Settle(reqs, offs)
    PROVE  /\ BrokerTypes'
           /\ \A K : OffersOf(offs, K) => OffersOf(offers, K)'
<1>1. PICK n, who, ids : Matched(n, who, ids, reqs, offs)
  BY SettleMatches
<1>2. PICK z \in 0 .. Len(offs) : offers' = SubSeq(offs, z + 1, Len(offs))
  <2> DEFINE c == Len(Places(reqs, inProgress))
  <2>1. offers' = SubSeq(offs, (IF c < Len(offs) THEN c ELSE Len(offs)) + 1, Len(offs))
    BY DEF Settle
  <2>2. c \in Nat
    <3> DEFINE P == {i \in DOMAIN reqs : reqs[i] \notin inProgress /\ \A j \in 1 .. i - 1 : reqs[j] # reqs[i]}
    <3>1. Len(reqs) \in Nat /\ P \subseteq 1 .. Len(reqs) /\ c = Len(Ascending(P))
      BY LenProperties DEF Places
    <3> HIDE DEF P, c
    <3> QED BY <3>1, AscendingFacts
  <2>3. Len(offs) \in Nat
    BY LenProperties
  <2> DEFINE k == IF c < Len(offs) THEN c ELSE Len(offs)
  <2>4. k \in 0 .. Len(offs)
    <3> HIDE DEF c
    <3> QED BY <2>2, <2>3
  <2>5. offers' = SubSeq(offs, k + 1, Len(offs))
    BY <2>1
  <2> HIDE DEF k
  <2> QED BY <2>4, <2>5
<1>3. \A K : OffersOf(offs, K) => OffersOf(offers, K)'
  BY <1>2, OffersLeft DEF OffersOf
<1>4. offers' \in Seq(PendingOffer)
  <2>1. OffersOf(offs, Runner)
    BY OffersOfRunners
  <2> QED BY <1>3, <2>1 DEF OffersOf
<1>5. requests' \in Seq(Request)
  BY DEF Settle
<1>6. inProgress' \subseteq Request
  BY <1>1 DEF Matched, TypeOK
<1>7. call' \in [Task -> Calls]
  <2>1. call' = [t \in Task |-> call'[t]]
    BY DEF Settle
  <2>2. \A t \in Task : call'[t] \in Calls
    <3> SUFFICES ASSUME NEW t \in Task PROVE call'[t] \in Calls
      OBVIOUS
    <3>1. CASE \E k \in 1 .. n : ids[k] = t
      <4>1. PICK k \in 1 .. n : ids[k] = t
        BY <3>1
      <4>2. /\ who[k] \in Request /\ offs[k].runner \in Runner
            /\ call'[t] = [state |-> "accepting", request |-> who[k], runner |-> offs[k].runner]
        BY <1>1, <4>1 DEF Matched, PendingOffer
      <4> QED BY <4>2 DEF Calls
    <3>2. CASE \A k \in 1 .. n : ids[k] # t
      BY <1>1, <3>2 DEF Matched, TypeOK
    <3> QED BY <3>1, <3>2
  <2> QED BY <2>1, <2>2
<1>8. toRunner' \in [Runner -> Seq(ToRunner)]
  <2>1. toRunner' = [r \in Runner |-> toRunner'[r]]
    <3> DEFINE p == Places(reqs, inProgress)
               c == IF Len(p) < Len(offs) THEN Len(p) ELSE Len(offs)
               i(r) == Ascending({k \in 1 .. c : offs[k].runner = r})
               v(r) == toRunner[r] \o
                       [j \in DOMAIN i(r) |-> AcceptMessage(offs[i(r)[j]].offer, FreshTasks[i(r)[j]])]
    <3>1. toRunner' = [r \in Runner |-> v(r)]
      BY DEF Settle
    <3> HIDE DEF v
    <3> QED BY <3>1
  <2>2. \A r \in Runner : toRunner'[r] \in Seq(ToRunner)
    <3> SUFFICES ASSUME NEW r \in Runner PROVE toRunner'[r] \in Seq(ToRunner)
      OBVIOUS
    <3>1. PICK u \in Seq(ToRunner) : toRunner'[r] = toRunner[r] \o u
      BY <1>1, MatchedSends
    <3>2. toRunner[r] \in Seq(ToRunner)
      BY DEF TypeOK
    <3> QED BY <3>1, <3>2, ConcatProperties
  <2> QED BY <2>1, <2>2
<1> QED BY <1>3, <1>4, <1>5, <1>6, <1>7, <1>8 DEF BrokerTypes

\* One more message on its way to a runner.
LEMMA TellType ==
    ASSUME TypeOK, NEW r \in Runner, NEW m \in ToRunner
    PROVE  [toRunner EXCEPT ![r] = Append(@, m)] \in [Runner -> Seq(ToRunner)]
<1>1. Append(toRunner[r], m) \in Seq(ToRunner)
  BY AppendProperties DEF TypeOK
<1> QED BY <1>1 DEF TypeOK

\* A message to the broker keeps the type of the channels.
LEMMA AnswerType ==
    ASSUME TypeOK, NEW r \in Runner, NEW m \in ToBroker
    PROVE  [toBroker EXCEPT ![r] = Append(@, m)] \in [Runner -> Seq(ToBroker)]
<1>1. Append(toBroker[r], m) \in Seq(ToBroker)
  BY AppendProperties DEF TypeOK
<1> QED BY <1>1 DEF TypeOK

\* The end of runners keeps the types of what they keep.
LEMMA DieType ==
    ASSUME TypeOK, NEW rs, Die(rs)
    PROVE  /\ up' \in [Runner -> {"off", "up", "stopping", "cut", "gone"}]
           /\ open' \in [Runner -> SUBSET Offer] /\ held' \in [Runner -> [Task -> TaskStatus]]
BY DEF Die, TypeOK, TaskStatus

\* The end of a call keeps the types of the calls.
LEMMA GiveUpType ==
    ASSUME TypeOK, NEW t \in Task, GiveUp(t)
    PROVE  inProgress' \subseteq Request /\ call' \in [Task -> Calls]
BY DEF GiveUp, TypeOK, Calls

\* handleRequesterRequest keeps the types.
LEMMA RequestedType ==
    ASSUME TypeOK, UNCHANGED fleet, NEW q \in Request, TaskRequested(q)
    PROVE  TypeOK'
<1>1. Append(requests, q) \in Seq(Request) /\ offers \in Seq(PendingOffer)
  BY AppendProperties DEF TypeOK, PendingOffer
<1>2. BrokerTypes'
  BY <1>1, SettleType DEF TaskRequested
<1>3. OtherTypes'
  BY DEF TaskRequested, TypeOK, OtherTypes
<1>4. RunnerTypes'
  BY DEF TaskRequested, TypeOK, RunnerTypes, runnerVars
<1> QED BY <1>2, <1>3, <1>4, TypeParts

\* The next message of a runner.
LEMMA NextMessage ==
    ASSUME TypeOK, NEW r \in Runner
    PROVE  /\ toBroker[r] # <<>> =>
                 Head(toBroker[r]) \in ToBroker /\ Tail(toBroker[r]) \in Seq(ToBroker)
           /\ toRunner[r] # <<>> =>
                 Head(toRunner[r]) \in ToRunner /\ Tail(toRunner[r]) \in Seq(ToRunner)
<1>1. toRunner[r] \in Seq(ToRunner) /\ toBroker[r] \in Seq(ToBroker)
  BY DEF TypeOK
<1>2. toBroker[r] # <<>> => Head(toBroker[r]) \in ToBroker /\ Tail(toBroker[r]) \in Seq(ToBroker)
  BY <1>1, HeadTailProperties
<1>3. toRunner[r] # <<>> => Head(toRunner[r]) \in ToRunner /\ Tail(toRunner[r]) \in Seq(ToRunner)
  BY <1>1, HeadTailProperties
<1> QED BY <1>2, <1>3

\* handleRunnerAccept keeps the types.
LEMMA AcceptType ==
    ASSUME TypeOK, NEW r \in Runner, NEW t \in Task, RunnerAccept(r, t)
    PROVE  /\ requests' \in Seq(Request) /\ inProgress' \subseteq Request
           /\ call' \in [Task -> Calls] /\ toRunner' \in [Runner -> Seq(ToRunner)]
           /\ asked' \in [Request -> {"idle", "requested", "running", "done", "failed"}]
<1> DEFINE q == call[t].request
<1>1. CASE call[t].state # "accepting"
  BY <1>1 DEF RunnerAccept, TypeOK
<1>2. CASE call[t].state = "accepting"
  <2>1. q \in Request /\ call[t] # NoCall /\ call[t].runner \in Runner
    BY <1>2, CallFacts DEF NoCall
  <2>2. requests' \in Seq(Request) /\ inProgress' \subseteq Request
    BY <1>2, <2>1, UnlistFacts DEF RunnerAccept, TypeOK
  <2>3. [call EXCEPT ![t].state = "task"] \in [Task -> Calls] /\ [call EXCEPT ![t] = NoCall] \in [Task -> Calls]
    <3>1. [call[t] EXCEPT !.state = "task"] \in Calls
      BY <2>1, CallFacts DEF Calls
    <3>2. [call EXCEPT ![t] = [call[t] EXCEPT !.state = "task"]] \in [Task -> Calls]
      BY <3>1 DEF TypeOK
    <3>3. [call EXCEPT ![t] = NoCall] \in [Task -> Calls]
      BY DEF TypeOK, Calls
    <3> QED BY <3>2, <3>3
  <2>4. /\ About("tasksettings", t) \in ToRunner /\ About("taskcancel", t) \in ToRunner
    BY DEF ToRunner
  <2>5. /\ [toRunner EXCEPT ![r] = Append(@, About("tasksettings", t))] \in [Runner -> Seq(ToRunner)]
        /\ [toRunner EXCEPT ![r] = Append(@, About("taskcancel", t))] \in [Runner -> Seq(ToRunner)]
    BY <2>4, TellType
  <2>6. asked' \in [Request -> {"idle", "requested", "running", "done", "failed"}]
    BY <1>2, <2>1 DEF RunnerAccept, TaskReady, TypeOK
  <2>7. /\ toRunner' \in {toRunner, [toRunner EXCEPT ![r] = Append(@, About("tasksettings", t))],
                          [toRunner EXCEPT ![r] = Append(@, About("taskcancel", t))]}
        /\ call' \in {[call EXCEPT ![t].state = "task"], [call EXCEPT ![t] = NoCall]}
    BY <1>2 DEF RunnerAccept, TaskReady
  <2>8. toRunner \in [Runner -> Seq(ToRunner)]
    BY DEF TypeOK
  <2> QED BY <2>2, <2>3, <2>5, <2>6, <2>7, <2>8
<1> QED BY <1>1, <1>2

\* A message that the broker reads keeps the types.
LEMMA ReceivesType ==
    ASSUME TypeOK, UNCHANGED fleet, NEW r \in Runner, BrokerReceives(r)
    PROVE  TypeOK'
<1> DEFINE m == Head(toBroker[r])
<1>1. m \in ToBroker /\ Tail(toBroker[r]) \in Seq(ToBroker)
  BY NextMessage DEF BrokerReceives
<1>2. RunnerTypes'
  <2>1. toBroker' \in [Runner -> Seq(ToBroker)]
    BY <1>1 DEF BrokerReceives, TypeOK
  <2> QED BY <2>1 DEF BrokerReceives, runnerVars, TypeOK, RunnerTypes
<1>3. known' = known /\ fleet' = fleet
  BY DEF BrokerReceives
<1> HIDE DEF m
<1>4. OtherTypes' <=> asked' \in [Request -> {"idle", "requested", "running", "done", "failed"}]
  BY <1>3 DEF OtherTypes, TypeOK
<1>5. offers \in Seq(PendingOffer) /\ BrokerTypes /\ OtherTypes
  BY DEF TypeOK, PendingOffer, BrokerTypes, OtherTypes
<1>6. CASE m.type = "taskoffer"
  <2>1. m.offer \in Offer /\ TaskOffered(r, m.offer)
    BY <1>1, <1>6, MessageCases DEF BrokerReceives, m
  <2>2. Append(offers, [runner |-> r, offer |-> m.offer]) \in Seq(PendingOffer)
    <3>1. [runner |-> r, offer |-> m.offer] \in PendingOffer
      BY <2>1 DEF PendingOffer
    <3> QED BY <1>5, <3>1, AppendProperties
  <2>3. BrokerTypes'
    BY <1>5, <2>1, <2>2, SettleType DEF TaskOffered, BrokerTypes
  <2>4. asked' = asked
    BY <2>1 DEF TaskOffered
  <2> QED BY <1>2, <1>4, <1>5, <2>3, <2>4, TypeParts DEF OtherTypes
<1>7. CASE m.type # "taskoffer"
  <2>1. /\ m.task \in Task
        /\ \/ RunnerAccept(r, m.task) \/ RunnerReject(m.task) \/ RunnerDeferred(m.task)
           \/ TaskEnded(m.task, "done") \/ TaskEnded(m.task, "failed")
        /\ offers' = offers
    BY <1>1, <1>7, MessageCases DEF BrokerReceives, m
  <2>2. CASE RunnerAccept(r, m.task)
    BY <1>2, <1>4, <1>5, <2>1, <2>2, AcceptType, TypeParts DEF BrokerTypes
  <2>3. CASE RunnerReject(m.task) \/ RunnerDeferred(m.task)
    <3>1. inProgress' \subseteq Request /\ call' \in [Task -> Calls]
      BY <2>1, <2>3, GiveUpType DEF RunnerReject, RunnerDeferred, TypeOK
    <3>2. requests' \in Seq(Request)
      <4>1. call[m.task].state = "accepting" => call[m.task].request \in Request
        BY <2>1, CallFacts DEF NoCall
      <4>2. \A q \in Request : Append(requests, q) \in Seq(Request)
        BY <1>5, AppendProperties DEF BrokerTypes
      <4>3. CASE RunnerReject(m.task)
        BY <1>5, <4>3 DEF RunnerReject, BrokerTypes
      <4>4. CASE RunnerDeferred(m.task)
        BY <1>5, <4>1, <4>2, <4>4 DEF RunnerDeferred, BrokerTypes
      <4> QED BY <2>3, <4>3, <4>4
    <3>3. asked' = asked /\ toRunner' = toRunner
      BY <2>3 DEF RunnerReject, RunnerDeferred
    <3> QED BY <1>2, <1>4, <1>5, <2>1, <3>1, <3>2, <3>3, TypeParts DEF BrokerTypes, OtherTypes
  <2>4. CASE TaskEnded(m.task, "done") \/ TaskEnded(m.task, "failed")
    <3>1. UNCHANGED <<requests, inProgress, toRunner>>
      BY <2>4 DEF TaskEnded
    <3>2. call' \in [Task -> Calls]
      BY <2>1, <2>4 DEF TaskEnded, TypeOK, Calls
    <3>3. asked' \in [Request -> {"idle", "requested", "running", "done", "failed"}]
      BY <2>4 DEF TaskEnded, TypeOK
    <3> QED BY <1>2, <1>4, <1>5, <2>1, <3>1, <3>2, <3>3, TypeParts DEF BrokerTypes
  <2> QED BY <2>1, <2>2, <2>3, <2>4
<1> QED BY <1>6, <1>7

\* The timers of the broker, connections, and the ends of runners.
LEMMA ConnectionType ==
    ASSUME TypeOK, UNCHANGED fleet,
           \/ \E i \in DOMAIN offers : OfferExpires(i)
           \/ \E t \in Task : AcceptTimesOut(t) \/ TaskTimesOut(t)
           \/ \E r \in Runner : Connect(r) \/ Deregister(r) \/ RunnerEnds(r) \/ RunnerStops(r)
    PROVE  TypeOK'
<1>0. BrokerTypes /\ RunnerTypes /\ OtherTypes
  BY TypeParts
<1>1. ASSUME NEW i \in DOMAIN offers, OfferExpires(i) PROVE TypeOK'
  <2>1. i \in 1 .. Len(offers)
    BY <1>0, LenProperties DEF BrokerTypes
  <2>2. offers' \in Seq(PendingOffer)
    BY <1>0, <1>1, <2>1, RemoveAtProperties DEF OfferExpires, BrokerTypes
  <2> QED BY <1>0, <1>1, <2>2, TypeParts
      DEF OfferExpires, BrokerTypes, RunnerTypes, OtherTypes, runnerVars
<1>2. ASSUME NEW t \in Task, AcceptTimesOut(t) PROVE TypeOK'
  <2>1. inProgress' \subseteq Request /\ call' \in [Task -> Calls]
    BY <1>2, GiveUpType DEF AcceptTimesOut
  <2>2. late' \in 0 .. MaxLate
    BY <1>0, <1>2, NumbersAssumption DEF AcceptTimesOut, RunnerTypes
  <2> QED BY <1>0, <1>2, <2>1, <2>2, TypeParts
      DEF AcceptTimesOut, BrokerTypes, RunnerTypes, OtherTypes, runnerVars
<1>3. ASSUME NEW t \in Task, TaskTimesOut(t) PROVE TypeOK'
  <2>1. t \in Tasks /\ call[t].request \in Request /\ call[t].runner \in Runner
    BY <1>3, CallFacts DEF TaskTimesOut, NoCall
  <2>2. /\ call' \in [Task -> Calls]
        /\ asked' \in [Request -> {"idle", "requested", "running", "done", "failed"}]
    BY <1>0, <1>3, <2>1 DEF TaskTimesOut, BrokerTypes, OtherTypes, Calls
  <2>3. /\ toRunner' \in [Runner -> Seq(ToRunner)]
        /\ up' \in [Runner -> {"off", "up", "stopping", "cut", "gone"}]
        /\ open' \in [Runner -> SUBSET Offer] /\ held' \in [Runner -> [Task -> TaskStatus]]
    <3>1. About("taskcancel", t) \in ToRunner
      BY DEF ToRunner
    <3>2. CASE fleet.external
      <4>1. UNCHANGED runnerVars
        BY <1>3, <3>2 DEF TaskTimesOut, CancelOrRestart
      <4>2. \/ toRunner' = toRunner
            \/ toRunner' = [toRunner EXCEPT ![call[t].runner] = Append(@, About("taskcancel", t))]
        BY <1>3, <3>2 DEF TaskTimesOut, CancelOrRestart
      <4>3. toRunner' \in [Runner -> Seq(ToRunner)]
        <5>1. [toRunner EXCEPT ![call[t].runner] = Append(@, About("taskcancel", t))]
                 \in [Runner -> Seq(ToRunner)]
          BY <2>1, <3>1, TellType
        <5>2. toRunner \in [Runner -> Seq(ToRunner)]
          BY <1>0 DEF BrokerTypes
        <5> QED BY <4>2, <5>1, <5>2
      <4> QED BY <1>0, <4>1, <4>3 DEF runnerVars, RunnerTypes
    <3>3. CASE ~fleet.external
      BY <1>0, <1>3, <3>3, DieType DEF TaskTimesOut, CancelOrRestart, BrokerTypes
    <3> QED BY <3>2, <3>3
  <2> QED BY <1>0, <1>3, <2>2, <2>3, TypeParts DEF TaskTimesOut, BrokerTypes, RunnerTypes, OtherTypes
<1>4. ASSUME NEW r \in Runner, Connect(r) PROVE TypeOK'
  <2>1. 1 \in Offer
    BY NumbersAssumption DEF Offer
  <2>2. OfferMessage(1) \in ToBroker
    BY <2>1 DEF ToBroker, OfferMessages
  <2>3. <<OfferMessage(1)>> \in Seq(ToBroker)
    BY <2>2
  <2>4. open' \in [Runner -> SUBSET Offer] /\ toBroker' \in [Runner -> Seq(ToBroker)]
    <3>1. /\ open' = open \/ open' = [open EXCEPT ![r] = {1}]
          /\ toBroker' = toBroker \/ toBroker' = [toBroker EXCEPT ![r] = <<OfferMessage(1)>>]
      BY <1>4 DEF Connect
    <3>2. [open EXCEPT ![r] = {1}] \in [Runner -> SUBSET Offer]
      BY <1>0, <2>1 DEF RunnerTypes
    <3>3. [toBroker EXCEPT ![r] = <<OfferMessage(1)>>] \in [Runner -> Seq(ToBroker)]
      BY <1>0, <2>3 DEF RunnerTypes
    <3> QED BY <1>0, <3>1, <3>2, <3>3 DEF RunnerTypes
  <2>5. known' \subseteq Runner /\ up' \in [Runner -> {"off", "up", "stopping", "cut", "gone"}]
    BY <1>0, <1>4 DEF Connect, RunnerTypes, OtherTypes
  <2> QED BY <1>0, <1>4, <2>4, <2>5, TypeParts DEF Connect, BrokerTypes, RunnerTypes, OtherTypes
<1>5. ASSUME NEW r \in Runner, Deregister(r) PROVE TypeOK'
  <2>1. offers' \in Seq(PendingOffer)
    <3>1. OffersOf(offers, Runner)
      BY <1>0, OffersOfRunners DEF BrokerTypes
    <3> QED BY <1>5, <3>1, OffersOfOthers DEF Deregister, OffersOf
  <2>2. <<>> \in Seq(ToRunner) /\ <<>> \in Seq(ToBroker)
    BY EmptySeq
  <2>3. toRunner' \in [Runner -> Seq(ToRunner)] /\ toBroker' \in [Runner -> Seq(ToBroker)]
    BY <1>0, <1>5, <2>2 DEF Deregister, BrokerTypes, RunnerTypes
  <2>4. /\ up' \in [Runner -> {"off", "up", "stopping", "cut", "gone"}]
        /\ open' \in [Runner -> SUBSET Offer] /\ held' \in [Runner -> [Task -> TaskStatus]]
    <3>1. CASE fleet.external /\ r \in Live
      BY <1>0, <1>5, <3>1 DEF Deregister, RunnerTypes
    <3>2. CASE ~(fleet.external /\ r \in Live)
      BY <1>5, <3>2, DieType DEF Deregister
    <3> QED BY <3>1, <3>2
  <2>5. /\ call' \in [Task -> Calls]
        /\ asked' \in [Request -> {"idle", "requested", "running", "done", "failed"}]
    BY <1>0, <1>5 DEF Deregister, FailTasks, BrokerTypes, OtherTypes, Calls
  <2>6. known' \subseteq Runner
    BY <1>0, <1>5 DEF Deregister, OtherTypes
  <2> QED BY <1>0, <1>5, <2>1, <2>3, <2>4, <2>5, <2>6, TypeParts
      DEF Deregister, BrokerTypes, RunnerTypes, OtherTypes
<1>6. ASSUME NEW r \in Runner, RunnerEnds(r) PROVE TypeOK'
  BY <1>0, <1>6, DieType, TypeParts
  DEF RunnerEnds, BrokerTypes, RunnerTypes, OtherTypes, brokerVars
<1>7. ASSUME NEW r \in Runner, RunnerStops(r) PROVE TypeOK'
  BY <1>0, <1>7, TypeParts
  DEF RunnerStops, BrokerTypes, RunnerTypes, OtherTypes, brokerVars
<1> QED BY <1>1, <1>2, <1>3, <1>4, <1>5, <1>6, <1>7

\* sendOffers keeps the types.
LEMMA SendType ==
    ASSUME TypeOK, NEW r \in Runner, NEW tasks, tasks \subseteq Task, NEW before \in Seq(ToBroker),
           SendOffers(r, tasks, before)
    PROVE  /\ open' \in [Runner -> SUBSET Offer] /\ toBroker' \in [Runner -> Seq(ToBroker)]
           /\ late' \in 0 .. MaxLate
<1>1. late' \in 0 .. MaxLate /\ \E S \in SUBSET Offer : open' = [open EXCEPT ![r] = S]
  BY SendFacts
<1>2. \/ toBroker' = toBroker
      \/ \E u \in Seq(ToBroker) : toBroker' = [toBroker EXCEPT ![r] = (toBroker[r] \o before) \o u]
  <2>1. \/ up[r] = "cut" /\ toBroker' = toBroker
        \/ \E u \in Seq(ToBroker) :
              /\ toBroker' = [toBroker EXCEPT ![r] = (toBroker[r] \o before) \o u]
              /\ \A t \in Task : ~Has(u, Answers(t))
    BY SendFacts
  <2> QED BY <2>1
<1>3. \A u \in Seq(ToBroker) : (toBroker[r] \o before) \o u \in Seq(ToBroker)
  <2>1. toBroker[r] \in Seq(ToBroker)
    BY DEF TypeOK
  <2>2. toBroker[r] \o before \in Seq(ToBroker)
    BY <2>1, ConcatProperties
  <2> QED BY <2>2, ConcatProperties
<1>4. toBroker' \in [Runner -> Seq(ToBroker)]
  <2>1. toBroker \in [Runner -> Seq(ToBroker)]
    BY DEF TypeOK
  <2>2. ASSUME NEW u \in Seq(ToBroker), toBroker' = [toBroker EXCEPT ![r] = (toBroker[r] \o before) \o u]
        PROVE  toBroker' \in [Runner -> Seq(ToBroker)]
    <3> DEFINE v == (toBroker[r] \o before) \o u
    <3>1. v \in Seq(ToBroker) /\ toBroker' = [toBroker EXCEPT ![r] = v]
      BY <1>3, <2>2
    <3> HIDE DEF v
    <3> QED BY <2>1, <3>1
  <2> QED BY <1>2, <2>1, <2>2
<1>5. open' \in [Runner -> SUBSET Offer]
  BY <1>1 DEF TypeOK
<1> QED BY <1>1, <1>4, <1>5

\* finishTask keeps the types.
LEMMA FinishType ==
    ASSUME TypeOK, NEW r \in Runner, NEW t \in Task, NEW before \in Seq(ToBroker),
           FinishTask(r, t, before)
    PROVE  /\ open' \in [Runner -> SUBSET Offer] /\ toBroker' \in [Runner -> Seq(ToBroker)]
           /\ late' \in 0 .. MaxLate /\ held' \in [Runner -> [Task -> TaskStatus]]
<1>1. Held(r) \ {t} \subseteq Task
  BY DEF Held
<1>2. held' \in [Runner -> [Task -> TaskStatus]]
  BY DEF FinishTask, TypeOK, TaskStatus
<1> QED BY <1>1, <1>2, SendType DEF FinishTask

\* The state of one task of a runner is changed within its type.
LEMMA HeldType ==
    ASSUME TypeOK, NEW r \in Runner, NEW t \in Task, NEW x \in TaskStatus
    PROVE  [held EXCEPT ![r][t] = x] \in [Runner -> [Task -> TaskStatus]]
BY DEF TypeOK

\* A step of a runner keeps the types.
LEMMA RunnerType ==
    ASSUME TypeOK, UNCHANGED fleet,
           \/ \E r \in Runner : OfferInterval(r) \/ RunnerReceives(r) \/ LauncherDefers(r)
           \/ \E r \in Runner, t \in Task : RunnerTaskTimesOut(r, t) \/ RunnerTaskEnds(r, t)
    PROVE  TypeOK'
<1>0. BrokerTypes /\ RunnerTypes /\ OtherTypes
  BY TypeParts
<1>1. ASSUME UNCHANGED brokerVars, asked' = asked, toRunner' \in [Runner -> Seq(ToRunner)], RunnerTypes'
      PROVE  TypeOK'
  BY <1>0, <1>1, TypeParts DEF brokerVars, BrokerTypes, OtherTypes
<1>2. <<>> \in Seq(ToBroker)
  BY EmptySeq
<1>3. ASSUME NEW r \in Runner, OfferInterval(r) PROVE TypeOK'
  <2>1. Held(r) \subseteq Task
    BY DEF Held
  <2>2. /\ open' \in [Runner -> SUBSET Offer] /\ toBroker' \in [Runner -> Seq(ToBroker)]
        /\ late' \in 0 .. MaxLate
    BY <1>2, <1>3, <2>1, SendType DEF OfferInterval
  <2> QED BY <1>0, <1>1, <1>3, <2>2 DEF OfferInterval, RunnerTypes, BrokerTypes
<1>4. ASSUME NEW r \in Runner, RunnerReceives(r) PROVE TypeOK'
  <2> DEFINE m == Head(toRunner[r])
  <2>1. m \in ToRunner /\ Tail(toRunner[r]) \in Seq(ToRunner)
    BY <1>4, NextMessage DEF RunnerReceives
  <2>2. toRunner' \in [Runner -> Seq(ToRunner)] /\ UNCHANGED <<brokerVars, asked, up>>
    BY <1>0, <1>4, <2>1 DEF RunnerReceives, BrokerTypes
  <2> HIDE DEF m
  <2>3. m.task \in Task /\ (m.type = "taskofferaccept" => m.offer \in Offer)
    BY <2>1, MessageCases
  <2>4. CASE m.type = "taskofferaccept" /\ OfferAccepted(r, m.offer, m.task) /\ late' = late
    <3>1. About("taskaccepted", m.task) \in ToBroker /\ About("taskrejected", m.task) \in ToBroker
      BY <2>3 DEF ToBroker
    <3>2. toBroker' \in [Runner -> Seq(ToBroker)]
      <4>1. /\ [toBroker EXCEPT ![r] = Append(@, About("taskaccepted", m.task))] \in [Runner -> Seq(ToBroker)]
            /\ [toBroker EXCEPT ![r] = Append(@, About("taskrejected", m.task))] \in [Runner -> Seq(ToBroker)]
        BY <3>1, AnswerType
      <4>2. \/ toBroker' = [toBroker EXCEPT ![r] = Append(@, About("taskaccepted", m.task))]
            \/ toBroker' = [toBroker EXCEPT ![r] = Append(@, About("taskrejected", m.task))]
        BY <2>4 DEF OfferAccepted
      <4> QED BY <4>1, <4>2
    <3>3. open' \in [Runner -> SUBSET Offer] /\ held' \in [Runner -> [Task -> TaskStatus]]
      <4>1. open' \in [Runner -> SUBSET Offer]
        BY <1>0, <2>4 DEF OfferAccepted, RunnerTypes
      <4>2. held' \in {held, [held EXCEPT ![r][m.task] = "waitingForSettings"]}
        BY <2>4 DEF OfferAccepted
      <4>3. [held EXCEPT ![r][m.task] = "waitingForSettings"] \in [Runner -> [Task -> TaskStatus]]
        BY <2>3, HeldType DEF TaskStatus
      <4> QED BY <1>0, <4>1, <4>2, <4>3 DEF RunnerTypes
    <3> QED BY <1>0, <1>1, <2>2, <2>4, <3>2, <3>3 DEF RunnerTypes
  <2>5. CASE m.type = "tasksettings" /\ ReceivedSettings(r, m.task) /\ late' = late
    <3>1. held' \in [Runner -> [Task -> TaskStatus]]
      BY <1>0, <2>3, <2>5 DEF ReceivedSettings, RunnerTypes, TaskStatus
    <3> QED BY <1>0, <1>1, <2>2, <2>5, <3>1 DEF ReceivedSettings, RunnerTypes
  <2>6. CASE m.type = "taskcancel" /\ TaskCancelled(r, m.task)
    <3>1. CASE held[r][m.task] = "waitingForSettings" /\ FinishTask(r, m.task, <<>>)
      BY <1>0, <1>1, <1>2, <2>2, <2>3, <3>1, FinishType DEF RunnerTypes
    <3>2. CASE ~(held[r][m.task] = "waitingForSettings" /\ FinishTask(r, m.task, <<>>))
      <4>1. held' \in [Runner -> [Task -> TaskStatus]] /\ UNCHANGED <<open, toBroker, late>>
        <5>1. /\ UNCHANGED <<open, toBroker, late>>
              /\ held' \in {held, [held EXCEPT ![r][m.task] = "aborting:cancelled"]}
          BY <2>6, <3>2 DEF TaskCancelled
        <5>2. [held EXCEPT ![r][m.task] = "aborting:cancelled"] \in [Runner -> [Task -> TaskStatus]]
          BY <2>3, HeldType DEF TaskStatus
        <5> QED BY <1>0, <5>1, <5>2 DEF RunnerTypes
      <4> QED BY <1>0, <1>1, <2>2, <4>1 DEF RunnerTypes
    <3> QED BY <3>1, <3>2
  <2> QED BY <1>4, <2>4, <2>5, <2>6 DEF RunnerReceives, m
<1>5. ASSUME NEW r \in Runner, LauncherDefers(r) PROVE TypeOK'
  <2>1. Head(toRunner[r]) \in ToRunner /\ Tail(toRunner[r]) \in Seq(ToRunner)
    BY <1>5, NextMessage DEF LauncherDefers
  <2>2. About("taskdeferred", Head(toRunner[r]).task) \in ToBroker
    BY <2>1, MessageCases DEF ToBroker
  <2>3. toBroker' \in [Runner -> Seq(ToBroker)]
    BY <1>5, <2>2, AnswerType DEF LauncherDefers
  <2>4. toRunner' \in [Runner -> Seq(ToRunner)]
    BY <1>0, <1>5, <2>1 DEF LauncherDefers, BrokerTypes
  <2>5. /\ up' \in [Runner -> {"off", "up", "stopping", "cut", "gone"}]
        /\ open' \in [Runner -> SUBSET Offer]
    BY <1>0, <1>5 DEF LauncherDefers, RunnerTypes
  <2> QED BY <1>0, <1>1, <1>5, <2>3, <2>4, <2>5 DEF LauncherDefers, RunnerTypes
<1>6. ASSUME NEW r \in Runner, NEW t \in Task, RunnerTaskTimesOut(r, t) \/ RunnerTaskEnds(r, t)
      PROVE  TypeOK'
  <2>1. \A x \in {"taskdone", "taskerror"} : <<About(x, t)>> \in Seq(ToBroker)
    <3>1. \A x \in {"taskdone", "taskerror"} : About(x, t) \in ToBroker
      BY DEF ToBroker
    <3> QED BY <3>1
  <2>2. UNCHANGED <<brokerVars, asked, up, toRunner>>
    BY <1>6 DEF RunnerTaskTimesOut, RunnerTaskEnds
  <2>3. ASSUME NEW before \in Seq(ToBroker), FinishTask(r, t, before) PROVE TypeOK'
    BY <1>0, <1>1, <2>2, <2>3, FinishType DEF RunnerTypes, BrokerTypes
  <2>4. CASE \E before \in Seq(ToBroker) : FinishTask(r, t, before)
    BY <2>3, <2>4
  <2>5. CASE held' = [held EXCEPT ![r][t] = "aborting:timeout"] /\ UNCHANGED <<open, toBroker, late>>
    <3>1. held' \in [Runner -> [Task -> TaskStatus]]
      BY <1>0, <2>5 DEF RunnerTypes, TaskStatus
    <3> QED BY <1>0, <1>1, <2>2, <2>5, <3>1 DEF RunnerTypes, BrokerTypes
  <2> QED BY <1>2, <1>6, <2>1, <2>4, <2>5 DEF RunnerTaskTimesOut, RunnerTaskEnds
<1> QED BY <1>3, <1>4, <1>5, <1>6

\* Every step keeps the types.
LEMMA TypeStep == TypeOK /\ [Next]_vars => TypeOK'
<1> SUFFICES ASSUME TypeOK, [Next]_vars PROVE TypeOK'
  OBVIOUS
<1>1. CASE UNCHANGED vars
  BY <1>1 DEF vars, state, brokerVars, runnerVars, TypeOK
<1>2. CASE Next
  BY <1>2, RequestedType, ReceivesType, ConnectionType, RunnerType DEF Next, Step
<1> QED BY <1>1, <1>2


-----------------------------------------------------------------------------
(* Requests, and the calls and tasks they are in.                          *)

\* A request that waits is in the list; one that is listed for no reason any
\* more remains marked, so that nothing takes it up; one that waits and is
\* marked has a call at work, and one that is being answered has a task.
RequestFits(q) ==
    /\ asked[q] = "requested" => q \in ToSet(requests)
    /\ asked[q] # "requested" /\ q \in ToSet(requests) => q \in inProgress
    /\ asked[q] = "idle" => q \notin inProgress
    /\ asked[q] = "requested" /\ q \in inProgress => \E t \in Accepting : call[t].request = q
    /\ asked[q] = "running" => \E t \in Tasks : call[t].request = q

\* A call is at work for a request that waits and is marked, a task answers a
\* request that waits for it, and neither shares its request with another.
CallFits(t) ==
    /\ t \in Accepting => asked[call[t].request] = "requested" /\ call[t].request \in inProgress
    /\ t \in Tasks => asked[call[t].request] = "running"
    /\ \A u \in Task : call[t] # NoCall /\ call[u] # NoCall /\ call[t].request = call[u].request => t = u

MatchInv == (\A q \in Request : RequestFits(q)) /\ (\A t \in Task : CallFits(t))

\* At first there are no requests and no calls.
LEMMA MatchInit == Init => MatchInv
<1> SUFFICES ASSUME Init PROVE MatchInv
  OBVIOUS
<1>1. ToSet(requests) = {}
  BY DEF Init, ToSet
<1>2. Accepting = {} /\ Tasks = {} /\ \A t \in Task : call[t] = NoCall
  BY DEF Init, Accepting, Tasks, NoCall
<1>3. \A q \in Request : asked[q] = "idle" /\ q \notin inProgress
  BY DEF Init
<1> QED BY <1>1, <1>2, <1>3 DEF MatchInv, RequestFits, CallFits

\* Other steps.
LEMMA MatchSame ==
    ASSUME MatchInv, asked' = asked, ToSet(requests') = ToSet(requests), inProgress' = inProgress,
           call' = call
    PROVE  MatchInv'
<1>1. Accepting' = Accepting /\ Tasks' = Tasks
  BY DEF Accepting, Tasks
<1>2. ASSUME NEW q \in Request PROVE RequestFits(q)'
  BY <1>1 DEF MatchInv, RequestFits
<1>3. ASSUME NEW t \in Task PROVE CallFits(t)'
  BY <1>1 DEF MatchInv, CallFits
<1> QED BY <1>2, <1>3 DEF MatchInv

\* settleTasks takes up requests that wait and that no call is at work for.
LEMMA MatchSettle ==
    ASSUME TypeOK, TypeOK', MatchInv, NEW n, NEW who, NEW ids, NEW reqs, NEW offs,
           Matched(n, who, ids, reqs, offs), requests' = reqs,
           \A q \in Request :
              \/ asked'[q] = asked[q] /\ (q \in ToSet(reqs) <=> q \in ToSet(requests))
              \/ asked[q] = "idle" /\ asked'[q] = "requested" /\ q \in ToSet(reqs)
    PROVE  MatchInv'
<1>1. ASSUME NEW k \in 1 .. n
      PROVE  /\ who[k] \in Request /\ ids[k] \in Task
             /\ asked'[who[k]] = "requested" /\ who[k] \in inProgress' /\ who[k] \notin inProgress
             /\ \A t \in Task : call[t] # NoCall => call[t].request # who[k]
             /\ call'[ids[k]].state = "accepting" /\ call'[ids[k]].request = who[k]
             /\ call[ids[k]] = NoCall
             /\ \A j \in 1 .. n : j # k => who[j] # who[k] /\ ids[j] # ids[k]
  <2>1. /\ who[k] \in Request /\ ids[k] \in Task /\ who[k] \notin inProgress /\ who[k] \in ToSet(reqs)
        /\ call'[ids[k]] = [state |-> "accepting", request |-> who[k], runner |-> offs[k].runner]
        /\ who[k] \in inProgress' /\ call[ids[k]] = NoCall
        /\ \A j \in 1 .. n : j # k => who[j] # who[k] /\ ids[j] # ids[k]
    BY DEF Matched
  <2>2. asked'[who[k]] = "requested" /\ asked[who[k]] # "running"
    BY <2>1 DEF MatchInv, RequestFits
  <2>3. ASSUME NEW t \in Task, call[t] # NoCall PROVE call[t].request # who[k]
    <3>1. t \in Accepting \/ t \in Tasks
      BY <2>3, CallFacts
    <3> QED BY <2>1, <2>2, <3>1 DEF MatchInv, CallFits
  <2> QED BY <2>1, <2>2, <2>3
<1>2. ASSUME NEW t \in Task
      PROVE  \/ call'[t] = call[t] /\ \A k \in 1 .. n : ids[k] # t
             \/ \E k \in 1 .. n : ids[k] = t
  BY DEF Matched
<1>3. \A q \in inProgress : q \in inProgress'
  BY DEF Matched
<1>4. \A q : q \in inProgress' => q \in inProgress \/ \E k \in 1 .. n : q = who[k]
  BY DEF Matched
<1>5. ASSUME NEW t \in Task
      PROVE  /\ call'[t] = NoCall \/ t \in Accepting' \/ t \in Tasks'
             /\ t \in Accepting' <=> call'[t].state = "accepting"
             /\ t \in Tasks' <=> call'[t].state = "task"
             /\ t \in Accepting <=> call[t].state = "accepting"
             /\ t \in Tasks <=> call[t].state = "task"
             /\ call[t] # NoCall <=> t \in Accepting \/ t \in Tasks
  <2>1. call'[t] = NoCall \/ call'[t] \in [state : {"accepting", "task"}, request : Request, runner : Runner]
    BY DEF TypeOK, Calls
  <2>2. call[t] # NoCall <=> t \in Accepting \/ t \in Tasks
    BY CallFacts
  <2> QED BY <2>1, <2>2 DEF Accepting, Tasks
<1>6. \A t \in Task : t \in Tasks' <=> t \in Tasks
  <2> SUFFICES ASSUME NEW t \in Task PROVE t \in Tasks' <=> t \in Tasks
    OBVIOUS
  <2>1. CASE call'[t] = call[t] /\ \A k \in 1 .. n : ids[k] # t
    BY <1>5, <2>1
  <2>2. CASE \E k \in 1 .. n : ids[k] = t
    <3>1. call'[t].state = "accepting" /\ call[t] = NoCall
      BY <1>1, <2>2
    <3> QED BY <1>5, <3>1
  <2> QED BY <1>2, <2>1, <2>2
<1>7. ASSUME NEW t \in Task, call[t] # NoCall PROVE call'[t] = call[t]
  BY <1>1, <1>2, <1>7
<1>8. ASSUME NEW q \in Request PROVE RequestFits(q)'
  <2>1. asked'[q] = asked[q] \/ (asked[q] = "idle" /\ asked'[q] = "requested")
    OBVIOUS
  <2>2. asked'[q] = "requested" => q \in ToSet(requests')
    BY DEF MatchInv, RequestFits
  <2>3. asked'[q] # "requested" /\ q \in ToSet(requests') => q \in inProgress'
    BY <1>3 DEF MatchInv, RequestFits
  <2>4. asked'[q] = "idle" => q \notin inProgress'
    BY <1>1, <1>4, <2>1 DEF MatchInv, RequestFits
  <2>5. ASSUME asked'[q] = "requested", q \in inProgress'
        PROVE  \E t \in Accepting' : call'[t].request = q
    <3>1. CASE \E k \in 1 .. n : q = who[k]
      <4>1. PICK k \in 1 .. n : q = who[k]
        BY <3>1
      <4>2. ids[k] \in Accepting' /\ call'[ids[k]].request = q
        BY <1>1, <1>5, <4>1
      <4> QED BY <4>2
    <3>2. CASE q \in inProgress
      <4>1. asked[q] = "requested"
        BY <2>1, <2>5, <3>2 DEF MatchInv, RequestFits
      <4>2. PICK t \in Accepting : call[t].request = q
        BY <3>2, <4>1 DEF MatchInv, RequestFits
      <4>3. t \in Task
        BY DEF Accepting
      <4>4. call'[t] = call[t]
        BY <1>5, <1>7, <4>2, <4>3
      <4> QED BY <1>5, <4>2, <4>3, <4>4
    <3> QED BY <1>4, <2>5, <3>1, <3>2
  <2>6. ASSUME asked'[q] = "running" PROVE \E t \in Tasks' : call'[t].request = q
    <3>1. asked[q] = "running"
      BY <2>1, <2>6
    <3>2. PICK t \in Tasks : call[t].request = q
      BY <3>1 DEF MatchInv, RequestFits
    <3>3. t \in Task
      BY DEF Tasks
    <3> QED BY <1>5, <1>6, <1>7, <3>2, <3>3
  <2> QED BY <2>2, <2>3, <2>4, <2>5, <2>6 DEF RequestFits
<1>9. ASSUME NEW t \in Task PROVE CallFits(t)'
  <2>1. ASSUME NEW k \in 1 .. n, ids[k] = t PROVE CallFits(t)'
    <3>1. t \notin Tasks' /\ asked'[call'[t].request] = "requested" /\ call'[t].request \in inProgress'
      BY <1>1, <1>5, <2>1
    <3>2. ASSUME NEW u \in Task, call'[u] # NoCall, call'[t].request = call'[u].request PROVE t = u
      <4>1. /\ call'[t].request = who[k] /\ \A x \in Task : call[x] # NoCall => call[x].request # who[k]
            /\ \A j \in 1 .. n : j # k => who[j] # who[k]
        BY <1>1, <2>1
      <4>2. CASE call'[u] = call[u]
        <5>1. call[u] # NoCall /\ call[u].request = who[k]
          BY <3>2, <4>1, <4>2
        <5> QED BY <4>1, <5>1
      <4>3. CASE \E j \in 1 .. n : ids[j] = u
        <5>1. PICK j \in 1 .. n : ids[j] = u
          BY <4>3
        <5>2. call'[u].request = who[j]
          BY <1>1, <5>1
        <5> QED BY <2>1, <3>2, <4>1, <5>1, <5>2
      <4> QED BY <1>2, <4>2, <4>3
    <3> QED BY <3>1, <3>2 DEF CallFits
  <2>2. ASSUME call'[t] = call[t] PROVE CallFits(t)'
    <3>1. t \in Accepting' => asked'[call'[t].request] = "requested" /\ call'[t].request \in inProgress'
      <4> SUFFICES ASSUME t \in Accepting'
                   PROVE  asked'[call'[t].request] = "requested" /\ call'[t].request \in inProgress'
        OBVIOUS
      <4>1. t \in Accepting /\ call[t].request \in Request
        BY <1>5, <2>2, CallFacts
      <4>2. asked[call[t].request] = "requested" /\ call[t].request \in inProgress
        BY <4>1 DEF MatchInv, CallFits
      <4> QED BY <1>3, <2>2, <4>1, <4>2
    <3>2. t \in Tasks' => asked'[call'[t].request] = "running"
      <4> SUFFICES ASSUME t \in Tasks' PROVE asked'[call'[t].request] = "running"
        OBVIOUS
      <4>1. t \in Tasks /\ call[t].request \in Request
        BY <1>5, <2>2, CallFacts
      <4>2. asked[call[t].request] = "running"
        BY <4>1 DEF MatchInv, CallFits
      <4> QED BY <2>2, <4>1, <4>2
    <3>3. ASSUME NEW u \in Task, call'[t] # NoCall, call'[u] # NoCall, call'[t].request = call'[u].request
          PROVE  t = u
      <4>1. CASE call'[u] = call[u]
        BY <2>2, <3>3, <4>1 DEF MatchInv, CallFits
      <4>2. CASE \E j \in 1 .. n : ids[j] = u
        BY <1>1, <2>2, <3>3, <4>2
      <4> QED BY <1>2, <4>1, <4>2
    <3> QED BY <3>1, <3>2, <3>3 DEF CallFits
  <2> QED BY <1>2, <2>1, <2>2
<1> QED BY <1>8, <1>9 DEF MatchInv

\* A call gives up: its request, which stays in the list, may be taken up again.
LEMMA MatchGiveUp ==
    ASSUME TypeOK, MatchInv, NEW t \in Accepting, GiveUp(t), asked' = asked,
           ToSet(requests') \in {ToSet(requests), ToSet(requests) \cup {call[t].request}}
    PROVE  MatchInv'
<1> DEFINE q == call[t].request
<1>1. /\ t \in Task /\ call[t] # NoCall /\ q \in Request
      /\ asked[q] = "requested" /\ q \in ToSet(requests) /\ q \in inProgress
  BY CallFacts DEF Accepting, NoCall, MatchInv, CallFits, RequestFits
<1>2. /\ inProgress' = inProgress \ {q} /\ ToSet(requests') = ToSet(requests)
      /\ \A u \in Task : u # t => call'[u] = call[u]
      /\ call'[t] = NoCall
  BY <1>1 DEF GiveUp, TypeOK
<1>3. /\ Accepting' = Accepting \ {t} /\ Tasks' = Tasks /\ t \notin Tasks
  BY <1>1, <1>2 DEF Accepting, Tasks, NoCall
<1>4. ASSUME NEW x \in Request PROVE RequestFits(x)'
  <2>1. RequestFits(x)
    BY DEF MatchInv
  <2>2. ASSUME asked[x] = "requested", x \in inProgress'
        PROVE  \E u \in Accepting' : call'[u].request = x
    <3>1. x # q /\ x \in inProgress
      BY <1>2, <2>2
    <3>2. PICK u \in Accepting : call[u].request = x
      BY <2>1, <2>2, <3>1 DEF RequestFits
    <3>3. u # t /\ u \in Task
      BY <3>1, <3>2 DEF Accepting
    <3> QED BY <1>2, <1>3, <3>2, <3>3
  <2>3. ASSUME asked[x] = "running" PROVE \E u \in Tasks' : call'[u].request = x
    <3>1. PICK u \in Tasks : call[u].request = x
      BY <2>1, <2>3 DEF RequestFits
    <3>2. u # t /\ u \in Task
      BY <1>3 DEF Tasks
    <3> QED BY <1>2, <1>3, <3>1, <3>2
  <2>4. asked[x] # "requested" /\ x \in ToSet(requests') => x \in inProgress'
    BY <1>1, <1>2, <2>1 DEF RequestFits
  <2> QED BY <1>2, <2>1, <2>2, <2>3, <2>4 DEF RequestFits
<1>5. ASSUME NEW u \in Task PROVE CallFits(u)'
  <2>1. CallFits(u) /\ CallFits(t)
    BY <1>1 DEF MatchInv
  <2>2. u \in Accepting' => asked[call'[u].request] = "requested" /\ call'[u].request \in inProgress'
    <3> SUFFICES ASSUME u \in Accepting \ {t}
                 PROVE  asked[call'[u].request] = "requested" /\ call'[u].request \in inProgress'
      BY <1>3
    <3>1. call'[u] = call[u] /\ call[u] # NoCall
      BY <1>2, CallFacts DEF Accepting, NoCall
    <3>2. call[u].request # q
      BY <1>1, <2>1, <3>1 DEF CallFits
    <3> QED BY <1>2, <2>1, <3>1, <3>2 DEF CallFits
  <2>3. u \in Tasks' => asked[call'[u].request] = "running"
    BY <1>2, <1>3, <2>1 DEF CallFits
  <2>4. \A v \in Task : call'[u] # NoCall /\ call'[v] # NoCall /\ call'[u].request = call'[v].request
           => u = v
    BY <1>2, <2>1 DEF CallFits
  <2> QED BY <2>2, <2>3, <2>4 DEF CallFits
<1> QED BY <1>4, <1>5 DEF MatchInv

\* The runner accepted: the request, which is listed and waits, has its task.
LEMMA AcceptFacts ==
    ASSUME TypeOK, MatchInv, NEW r \in Runner, NEW t \in Accepting, RunnerAccept(r, t)
    PROVE  LET q == call[t].request IN
           /\ q \in Request /\ asked[q] = "requested" /\ q \in ToSet(requests) /\ q \in inProgress
           /\ inProgress' = inProgress /\ requests' = Unlist(q)
           /\ asked' = [asked EXCEPT ![q] = "running"]
           /\ call' = [call EXCEPT ![t] = [state |-> "task", request |-> q, runner |-> call[t].runner]]
           /\ toRunner' = [toRunner EXCEPT ![r] = Append(@, About("tasksettings", t))]
<1> DEFINE q == call[t].request
<1>1. /\ t \in Task /\ call[t] # NoCall /\ q \in Request /\ call[t].state = "accepting"
      /\ asked[q] = "requested" /\ q \in ToSet(requests) /\ q \in inProgress
  BY CallFacts DEF Accepting, NoCall, MatchInv, CallFits, RequestFits
<1>2. TaskReady(r, t) /\ inProgress' = inProgress /\ requests' = Unlist(q)
  BY <1>1 DEF RunnerAccept
<1>3. /\ asked' = [asked EXCEPT ![q] = "running"]
      /\ call' = [call EXCEPT ![t].state = "task"]
      /\ toRunner' = [toRunner EXCEPT ![r] = Append(@, About("tasksettings", t))]
  BY <1>1, <1>2 DEF TaskReady
<1>4. [call[t] EXCEPT !.state = "task"] = [state |-> "task", request |-> q, runner |-> call[t].runner]
  BY <1>1, CallFacts
<1> QED BY <1>1, <1>2, <1>3, <1>4

\* An accepted offer turns the call into a task and takes the request off the list.
LEMMA MatchAccept ==
    ASSUME TypeOK, MatchInv, NEW r \in Runner, NEW t \in Accepting, RunnerAccept(r, t)
    PROVE  MatchInv'
<1> DEFINE q == call[t].request
<1>1. /\ q \in Request /\ asked[q] = "requested" /\ q \in ToSet(requests) /\ q \in inProgress
      /\ inProgress' = inProgress /\ requests' = Unlist(q)
      /\ asked' = [asked EXCEPT ![q] = "running"]
      /\ call' = [call EXCEPT ![t] = [state |-> "task", request |-> q, runner |-> call[t].runner]]
      /\ t \in Task /\ call[t].state = "accepting" /\ call[t] # NoCall
  BY AcceptFacts, CallFacts DEF Accepting, NoCall
<1>2. /\ \A x : x \in ToSet(requests') => x \in ToSet(requests)
      /\ \A x : x # q /\ x \in ToSet(requests) => x \in ToSet(requests')
  BY <1>1, UnlistFacts DEF TypeOK
<1>3. /\ asked'[q] = "running" /\ \A x \in Request : x # q => asked'[x] = asked[x]
      /\ \A u \in Task : u # t => call'[u] = call[u]
      /\ call'[t].state = "task" /\ call'[t].request = q
      /\ call'[t] # NoCall
  BY <1>1 DEF TypeOK, NoCall
<1>4. /\ Accepting' = Accepting \ {t} /\ Tasks' = Tasks \cup {t} /\ t \notin Tasks
  BY <1>1, <1>3 DEF Accepting, Tasks
<1>5. ASSUME NEW x \in Request PROVE RequestFits(x)'
  <2>1. RequestFits(x)
    BY DEF MatchInv
  <2>2. CASE x = q
    BY <1>1, <1>3, <1>4, <2>2 DEF RequestFits
  <2>3. CASE x # q
    <3>1. asked'[x] = asked[x]
      BY <1>3, <2>3
    <3>2. ASSUME asked[x] = "requested", x \in inProgress
          PROVE  \E u \in Accepting' : call'[u].request = x
      <4>1. PICK u \in Accepting : call[u].request = x
        BY <2>1, <3>2 DEF RequestFits
      <4>2. u # t /\ u \in Task
        BY <2>3, <4>1 DEF Accepting
      <4> QED BY <1>3, <1>4, <4>1, <4>2
    <3>3. ASSUME asked[x] = "running" PROVE \E u \in Tasks' : call'[u].request = x
      <4>1. PICK u \in Tasks : call[u].request = x
        BY <2>1, <3>3 DEF RequestFits
      <4>2. u # t /\ u \in Task
        BY <2>3, <4>1 DEF Tasks
      <4> QED BY <1>3, <1>4, <4>1, <4>2
    <3> QED BY <1>1, <1>2, <2>1, <2>3, <3>1, <3>2, <3>3 DEF RequestFits
  <2> QED BY <2>2, <2>3
<1>6. ASSUME NEW u \in Task PROVE CallFits(u)'
  <2>1. CallFits(u) /\ CallFits(t)
    BY <1>1 DEF MatchInv
  <2>2. ASSUME u # t, call[u] # NoCall PROVE call[u].request # q /\ call[u].request \in Request
    BY <1>1, <2>1, <2>2, CallFacts DEF CallFits
  <2>3. u \in Accepting' => asked'[call'[u].request] = "requested" /\ call'[u].request \in inProgress'
    <3> SUFFICES ASSUME u \in Accepting \ {t}
                 PROVE  asked'[call'[u].request] = "requested" /\ call'[u].request \in inProgress'
      BY <1>4
    <3>1. call'[u] = call[u] /\ call[u] # NoCall
      BY <1>3, CallFacts DEF Accepting, NoCall
    <3> QED BY <1>1, <1>3, <2>1, <2>2, <3>1 DEF CallFits
  <2>4. u \in Tasks' => asked'[call'[u].request] = "running"
    <3>1. CASE u = t
      BY <1>3, <3>1
    <3>2. CASE u # t
      <4> SUFFICES ASSUME u \in Tasks PROVE asked'[call'[u].request] = "running"
        BY <1>4, <3>2
      <4>1. call'[u] = call[u] /\ call[u] # NoCall
        BY <1>3, <3>2, CallFacts DEF Tasks, NoCall
      <4> QED BY <1>3, <2>1, <2>2, <3>2, <4>1 DEF CallFits
    <3> QED BY <3>1, <3>2
  <2>5. ASSUME NEW v \in Task, call'[u] # NoCall, call'[v] # NoCall, call'[u].request = call'[v].request
        PROVE  u = v
    <3>1. \A x \in Task : call'[x] # NoCall <=> call[x] # NoCall
      BY <1>1, <1>3
    <3>2. \A x \in Task : call'[x].request = call[x].request
      BY <1>3
    <3> QED BY <2>1, <2>5, <3>1, <3>2 DEF CallFits
  <2> QED BY <2>3, <2>4, <2>5 DEF CallFits
<1> QED BY <1>5, <1>6 DEF MatchInv

\* Tasks end: the requesters have their answers.
LEMMA MatchLost ==
    ASSUME TypeOK, MatchInv, NEW lost \in SUBSET Tasks, requests' = requests, inProgress' = inProgress,
           \A t \in Task : call'[t] = IF t \in lost THEN NoCall ELSE call[t],
           \A q \in Request :
              IF \E t \in lost : call[t].request = q THEN asked'[q] \in {"done", "failed"}
              ELSE asked'[q] = asked[q]
    PROVE  MatchInv'
<1>0. /\ \A t \in Tasks : t \in Task /\ call[t] # NoCall /\ call[t].request \in Request
      /\ \A t \in Accepting : t \in Task /\ call[t] # NoCall /\ call[t].request \in Request
      /\ \A t \in Task : t \in Tasks => t \notin Accepting
  BY CallFacts DEF Tasks, Accepting, NoCall
<1>1. Accepting' = Accepting /\ Tasks' = Tasks \ lost /\ \A t \in Accepting : t \notin lost
  BY <1>0 DEF Accepting, Tasks, NoCall
<1>2. \A t, u \in Task : call[t] # NoCall /\ call[u] # NoCall /\ call[t].request = call[u].request => t = u
  BY DEF MatchInv, CallFits
<1>3. ASSUME NEW t \in Task, t \notin lost, call[t] # NoCall
      PROVE  asked'[call[t].request] = asked[call[t].request]
  <2>1. \A u \in lost : call[u].request # call[t].request
    BY <1>0, <1>2, <1>3
  <2> QED BY <1>3, <2>1, CallFacts
<1>4. ASSUME NEW x \in Request PROVE RequestFits(x)'
  <2>1. RequestFits(x)
    BY DEF MatchInv
  <2>2. CASE \E t \in lost : call[t].request = x
    <3>1. asked[x] = "running" /\ asked'[x] \in {"done", "failed"}
      BY <1>0, <2>2 DEF MatchInv, CallFits
    <3> QED BY <2>1, <3>1 DEF RequestFits
  <2>3. CASE ~\E t \in lost : call[t].request = x
    <3>1. asked'[x] = asked[x]
      BY <2>3
    <3>2. ASSUME asked[x] = "requested", x \in inProgress
          PROVE  \E u \in Accepting' : call'[u].request = x
      BY <1>0, <1>1, <2>1, <3>2 DEF RequestFits
    <3>3. ASSUME asked[x] = "running" PROVE \E u \in Tasks' : call'[u].request = x
      <4>1. PICK u \in Tasks : call[u].request = x
        BY <2>1, <3>3 DEF RequestFits
      <4>2. u \notin lost
        BY <2>3, <4>1
      <4> QED BY <1>0, <1>1, <4>1, <4>2
    <3> QED BY <2>1, <3>1, <3>2, <3>3 DEF RequestFits
  <2> QED BY <2>2, <2>3
<1>5. ASSUME NEW u \in Task PROVE CallFits(u)'
  <2>1. CallFits(u)
    BY DEF MatchInv
  <2>2. u \in Accepting' => asked'[call'[u].request] = "requested" /\ call'[u].request \in inProgress'
    BY <1>0, <1>1, <1>3, <2>1 DEF CallFits
  <2>3. u \in Tasks' => asked'[call'[u].request] = "running"
    BY <1>0, <1>1, <1>3, <2>1 DEF CallFits
  <2>4. \A v \in Task : call'[u] # NoCall /\ call'[v] # NoCall /\ call'[u].request = call'[v].request
           => u = v
    BY <1>2
  <2> QED BY <2>2, <2>3, <2>4 DEF CallFits
<1> QED BY <1>4, <1>5 DEF MatchInv

\* What the broker does with a runner's answer about task t.
LEMMA AnswerCases ==
    ASSUME TypeOK, NEW r \in Runner, BrokerReceives(r)
    PROVE  LET m == Head(toBroker[r]) IN
           /\ m \in ToBroker /\ toBroker[r] \in Seq(ToBroker) /\ toBroker[r] # <<>>
           /\ r \in known /\ toBroker' = [toBroker EXCEPT ![r] = Tail(@)]
           /\ UNCHANGED <<known, up, open, held, late>>
           /\ \/ m.type = "taskoffer" /\ m.offer \in Offer /\ TaskOffered(r, m.offer)
              \/ /\ m.task \in Task /\ offers' = offers /\ m = About(m.type, m.task)
                 /\ \/ m.type = "taskaccepted" /\ RunnerAccept(r, m.task)
                    \/ m.type = "taskrejected" /\ RunnerReject(m.task)
                    \/ m.type = "taskdeferred" /\ RunnerDeferred(m.task)
                    \/ m.type = "taskdone" /\ TaskEnded(m.task, "done")
                    \/ m.type = "taskerror" /\ TaskEnded(m.task, "failed")
<1> DEFINE m == Head(toBroker[r])
<1>1. m \in ToBroker /\ toBroker[r] \in Seq(ToBroker) /\ toBroker[r] # <<>>
  BY NextMessage DEF BrokerReceives, TypeOK
<1>2. /\ r \in known /\ toBroker' = [toBroker EXCEPT ![r] = Tail(@)]
      /\ UNCHANGED <<known, up, open, held, late>>
  BY DEF BrokerReceives, runnerVars
<1>3. \/ m.type = "taskoffer" /\ TaskOffered(r, m.offer)
      \/ /\ m.type # "taskoffer" /\ offers' = offers
         /\ \/ m.type = "taskaccepted" /\ RunnerAccept(r, m.task)
            \/ m.type = "taskrejected" /\ RunnerReject(m.task)
            \/ m.type = "taskdeferred" /\ RunnerDeferred(m.task)
            \/ m.type = "taskdone" /\ TaskEnded(m.task, "done")
            \/ m.type = "taskerror" /\ TaskEnded(m.task, "failed")
  BY DEF BrokerReceives
<1> HIDE DEF m
<1>4. /\ m.type = "taskoffer" => m.offer \in Offer
      /\ m.type # "taskoffer" => m.task \in Task /\ m = About(m.type, m.task)
  BY <1>1, MessageCases
<1>5. \/ m.type = "taskoffer" /\ m.offer \in Offer /\ TaskOffered(r, m.offer)
      \/ /\ m.task \in Task /\ offers' = offers /\ m = About(m.type, m.task)
         /\ \/ m.type = "taskaccepted" /\ RunnerAccept(r, m.task)
            \/ m.type = "taskrejected" /\ RunnerReject(m.task)
            \/ m.type = "taskdeferred" /\ RunnerDeferred(m.task)
            \/ m.type = "taskdone" /\ TaskEnded(m.task, "done")
            \/ m.type = "taskerror" /\ TaskEnded(m.task, "failed")
  BY <1>3, <1>4
<1> QED BY <1>1, <1>2, <1>5 DEF m

\* What settleTasks is called with when an offer comes.
LEMMA OfferedMatches ==
    ASSUME TypeOK, NEW r \in Runner, NEW o \in Offer, TaskOffered(r, o)
    PROVE  LET offs == Append(offers, [runner |-> r, offer |-> o]) IN
           /\ offs \in Seq(PendingOffer)
           /\ \E n, who, ids : Matched(n, who, ids, requests, offs)
           /\ requests' = requests /\ asked' = asked
<1>1. [runner |-> r, offer |-> o] \in PendingOffer
  BY DEF PendingOffer
<1>2. offers \in Seq(PendingOffer) /\ requests \in Seq(Request)
  BY DEF TypeOK, PendingOffer
<1>3. Append(offers, [runner |-> r, offer |-> o]) \in Seq(PendingOffer)
  BY <1>1, <1>2, AppendProperties
<1>4. \E n, who, ids : Matched(n, who, ids, requests, Append(offers, [runner |-> r, offer |-> o]))
  BY <1>2, <1>3, SettleMatches DEF TaskOffered
<1>5. requests' = requests /\ asked' = asked
  BY DEF TaskOffered, Settle
<1> QED BY <1>3, <1>4, <1>5

\* The same when a request is made.
LEMMA RequestedMatches ==
    ASSUME TypeOK, NEW q \in Request, TaskRequested(q)
    PROVE  /\ \E n, who, ids : Matched(n, who, ids, Append(requests, q), offers)
           /\ requests' = Append(requests, q)
           /\ asked[q] = "idle" /\ asked' = [asked EXCEPT ![q] = "requested"]
<1>1. Append(requests, q) \in Seq(Request) /\ offers \in Seq(PendingOffer)
  BY RelistFacts DEF TypeOK, PendingOffer
<1>2. \E n, who, ids : Matched(n, who, ids, Append(requests, q), offers)
  BY <1>1, SettleMatches DEF TaskRequested
<1>3. requests' = Append(requests, q)
  BY DEF TaskRequested, Settle
<1> QED BY <1>2, <1>3 DEF TaskRequested

\* Tasks end by an answer, by the broker's timeout, or with their runner.
LEMMA LostFacts ==
    ASSUME TypeOK
    PROVE  /\ \A t \in Task : \A how : TaskEnded(t, how) =>
                 /\ \A u \in Task : call'[u] = IF u = t /\ t \in Tasks THEN NoCall ELSE call[u]
                 /\ \A q \in Request :
                       asked'[q] = IF t \in Tasks /\ call[t].request = q THEN how ELSE asked[q]
           /\ \A t \in Task : TaskTimesOut(t) =>
                 /\ t \in Tasks
                 /\ \A u \in Task : call'[u] = IF u = t THEN NoCall ELSE call[u]
                 /\ \A q \in Request : asked'[q] = IF call[t].request = q THEN "failed" ELSE asked[q]
           /\ \A r \in Runner : Deregister(r) =>
                 LET lost == {t \in Tasks : call[t].runner = r} IN
                 /\ \A u \in Task : call'[u] = IF u \in lost THEN NoCall ELSE call[u]
                 /\ \A q \in Request :
                       asked'[q] = IF \E t \in lost : call[t].request = q THEN "failed" ELSE asked[q]
<1>1. \A t \in Tasks : t \in Task /\ call[t].request \in Request
  BY CallFacts DEF Tasks, NoCall
<1>2. ASSUME NEW t \in Task, NEW how, TaskEnded(t, how)
      PROVE  /\ \A u \in Task : call'[u] = IF u = t /\ t \in Tasks THEN NoCall ELSE call[u]
             /\ \A q \in Request : asked'[q] = IF t \in Tasks /\ call[t].request = q THEN how ELSE asked[q]
  BY <1>1, <1>2 DEF TaskEnded, Tasks, TypeOK
<1>3. ASSUME NEW t \in Task, TaskTimesOut(t)
      PROVE  /\ t \in Tasks
             /\ \A u \in Task : call'[u] = IF u = t THEN NoCall ELSE call[u]
             /\ \A q \in Request : asked'[q] = IF call[t].request = q THEN "failed" ELSE asked[q]
  BY <1>1, <1>3 DEF TaskTimesOut, TypeOK
<1>4. ASSUME NEW r \in Runner, Deregister(r)
      PROVE  LET lost == {t \in Tasks : call[t].runner = r} IN
             /\ \A u \in Task : call'[u] = IF u \in lost THEN NoCall ELSE call[u]
             /\ \A q \in Request :
                   asked'[q] = IF \E t \in lost : call[t].request = q THEN "failed" ELSE asked[q]
  BY <1>1, <1>4 DEF Deregister, FailTasks
<1> QED BY <1>2, <1>3, <1>4

\* The requests and their calls fit after every step.
LEMMA MatchStep == TypeOK /\ TypeOK' /\ MatchInv /\ [Next]_vars => MatchInv'
<1> SUFFICES ASSUME TypeOK, TypeOK', MatchInv, [Next]_vars PROVE MatchInv'
  OBVIOUS
<1>1. ASSUME asked' = asked, requests' = requests, inProgress' = inProgress, call' = call
      PROVE  MatchInv'
  BY <1>1, MatchSame
<1>2. ASSUME NEW q \in Request, TaskRequested(q) PROVE MatchInv'
  <2>1. /\ requests' = Append(requests, q)
        /\ asked[q] = "idle" /\ asked' = [asked EXCEPT ![q] = "requested"]
    BY <1>2, RequestedMatches
  <2>2. PICK n, who, ids : Matched(n, who, ids, Append(requests, q), offers)
    BY <1>2, RequestedMatches
  <2>3. ToSet(Append(requests, q)) = ToSet(requests) \cup {q}
    BY RelistFacts DEF TypeOK
  <2>4. \A x \in Request :
           \/ asked'[x] = asked[x] /\ (x \in ToSet(Append(requests, q)) <=> x \in ToSet(requests))
           \/ asked[x] = "idle" /\ asked'[x] = "requested" /\ x \in ToSet(Append(requests, q))
    BY <2>1, <2>3 DEF TypeOK
  <2> QED BY <2>1, <2>2, <2>4, MatchSettle
<1>3. ASSUME NEW r \in Runner, BrokerReceives(r) PROVE MatchInv'
  <2> DEFINE m == Head(toBroker[r])
             t == m.task
  <2>1. \/ m.type = "taskoffer" /\ m.offer \in Offer /\ TaskOffered(r, m.offer)
        \/ /\ t \in Task
           /\ \/ RunnerAccept(r, t) \/ RunnerReject(t) \/ RunnerDeferred(t)
              \/ TaskEnded(t, "done") \/ TaskEnded(t, "failed")
    BY <1>3, AnswerCases
  <2> HIDE DEF m
  <2>2. CASE m.offer \in Offer /\ TaskOffered(r, m.offer)
    <3>1. requests' = requests /\ asked' = asked
      BY <2>2, OfferedMatches
    <3>2. PICK n, who, ids :
             Matched(n, who, ids, requests, Append(offers, [runner |-> r, offer |-> m.offer]))
      BY <2>2, OfferedMatches
    <3>3. \A x \in Request :
             \/ asked'[x] = asked[x] /\ (x \in ToSet(requests) <=> x \in ToSet(requests))
             \/ asked[x] = "idle" /\ asked'[x] = "requested" /\ x \in ToSet(requests)
      BY <3>1
    <3> QED BY <3>1, <3>2, <3>3, MatchSettle
  <2>3. CASE t \in Task /\ RunnerAccept(r, t)
    <3>1. CASE t \in Accepting
      BY <2>3, <3>1, MatchAccept
    <3>2. CASE t \notin Accepting
      BY <1>1, <2>3, <3>2 DEF RunnerAccept, Accepting
    <3> QED BY <3>1, <3>2
  <2>4. CASE t \in Task /\ (RunnerReject(t) \/ RunnerDeferred(t))
    <3>1. CASE t \in Accepting
      <4>1. GiveUp(t) /\ asked' = asked /\ requests' \in {requests, Append(requests, call[t].request)}
        BY <2>4, <3>1 DEF RunnerReject, RunnerDeferred, Accepting
      <4>2. ToSet(Append(requests, call[t].request)) = ToSet(requests) \cup {call[t].request}
        <5>1. call[t].request \in Request
          BY <3>1, CallFacts DEF Accepting, NoCall
        <5> QED BY <5>1, RelistFacts DEF TypeOK
      <4> QED BY <3>1, <4>1, <4>2, MatchGiveUp
    <3>2. CASE t \notin Accepting
      BY <1>1, <2>4, <3>2 DEF RunnerReject, RunnerDeferred, Accepting
    <3> QED BY <3>1, <3>2
  <2>5. ASSUME t \in Task, NEW how \in {"done", "failed"}, TaskEnded(t, how) PROVE MatchInv'
    <3> DEFINE lost == {u \in Tasks : u = t}
    <3>1. requests' = requests /\ inProgress' = inProgress
      BY <2>5 DEF TaskEnded
    <3>2. /\ \A u \in Task : call'[u] = IF u \in lost THEN NoCall ELSE call[u]
          /\ \A q \in Request :
                IF \E u \in lost : call[u].request = q THEN asked'[q] \in {"done", "failed"}
                ELSE asked'[q] = asked[q]
      BY <2>5, LostFacts
    <3>3. lost \in SUBSET Tasks
      OBVIOUS
    <3> HIDE DEF lost
    <3> QED BY <3>1, <3>2, <3>3, MatchLost
  <2> QED BY <2>1, <2>2, <2>3, <2>4, <2>5
<1>4. ASSUME NEW t \in Task, AcceptTimesOut(t) PROVE MatchInv'
  <2>1. t \in Accepting /\ GiveUp(t) /\ requests' = requests /\ asked' = asked
    BY <1>4 DEF AcceptTimesOut, Accepting
  <2> QED BY <2>1, MatchGiveUp
<1>5. ASSUME NEW t \in Task, TaskTimesOut(t) PROVE MatchInv'
  <2>1. t \in Tasks /\ requests' = requests /\ inProgress' = inProgress
    BY <1>5 DEF TaskTimesOut
  <2>2. /\ \A u \in Task : call'[u] = IF u \in {t} THEN NoCall ELSE call[u]
        /\ \A q \in Request :
              IF \E u \in {t} : call[u].request = q THEN asked'[q] \in {"done", "failed"}
              ELSE asked'[q] = asked[q]
    BY <1>5, LostFacts
  <2>3. {t} \in SUBSET Tasks
    BY <2>1
  <2> QED BY <2>1, <2>2, <2>3, MatchLost
<1>6. ASSUME NEW r \in Runner, Deregister(r) PROVE MatchInv'
  <2> DEFINE lost == {t \in Tasks : call[t].runner = r}
  <2>1. requests' = requests /\ inProgress' = inProgress
    BY <1>6 DEF Deregister
  <2>2. /\ \A u \in Task : call'[u] = IF u \in lost THEN NoCall ELSE call[u]
        /\ \A q \in Request :
              IF \E u \in lost : call[u].request = q THEN asked'[q] \in {"done", "failed"}
              ELSE asked'[q] = asked[q]
    BY <1>6, LostFacts
  <2>3. lost \in SUBSET Tasks
    OBVIOUS
  <2> HIDE DEF lost
  <2> QED BY <2>1, <2>2, <2>3, MatchLost
<1>7. ASSUME NEW i \in DOMAIN offers, OfferExpires(i) PROVE MatchInv'
  BY <1>1, <1>7 DEF OfferExpires
<1>8. ASSUME NEW r \in Runner,
             \/ Connect(r) \/ RunnerEnds(r) \/ RunnerStops(r)
             \/ OfferInterval(r) \/ RunnerReceives(r) \/ LauncherDefers(r)
      PROVE  MatchInv'
  <2>1. asked' = asked /\ requests' = requests /\ inProgress' = inProgress /\ call' = call
    BY <1>8 DEF Connect, RunnerEnds, RunnerStops, OfferInterval, RunnerReceives, LauncherDefers, brokerVars
  <2> QED BY <1>1, <2>1
<1>9. ASSUME NEW r \in Runner, NEW t \in Task, RunnerTaskTimesOut(r, t) \/ RunnerTaskEnds(r, t)
      PROVE  MatchInv'
  <2>1. asked' = asked /\ requests' = requests /\ inProgress' = inProgress /\ call' = call
    BY <1>9 DEF RunnerTaskTimesOut, RunnerTaskEnds, brokerVars
  <2> QED BY <1>1, <2>1
<1>10. CASE UNCHANGED vars
  BY <1>1, <1>10 DEF vars, state, brokerVars
<1> QED BY <1>2, <1>3, <1>4, <1>5, <1>6, <1>7, <1>8, <1>9, <1>10 DEF Next, Step

\* A request is in at most one call, and the broker's tasks are those that
\* requests wait for.
LEMMA MatchGives == TypeOK /\ MatchInv => RequestsMatched /\ TaskHasRequester
<1> SUFFICES ASSUME TypeOK, MatchInv PROVE RequestsMatched /\ TaskHasRequester
  OBVIOUS
<1>1. /\ \A t \in Tasks : t \in Task /\ call[t] # NoCall
      /\ \A t \in Accepting : t \in Task /\ call[t] # NoCall
  BY CallFacts DEF Tasks, Accepting, NoCall
<1>2. \A t, u \in Task : call[t] # NoCall /\ call[u] # NoCall /\ call[t].request = call[u].request => t = u
  BY DEF MatchInv, CallFits
<1>3. ASSUME NEW S, S = {} \/ \E x : S = {x}
      PROVE  Cardinality(S) \in {0, 1} /\ (Cardinality(S) = 0 <=> S = {})
  BY <1>3, FS_EmptySet, FS_Singleton
<1>4. ASSUME NEW q \in Request
      PROVE  /\ asked[q] = "requested" => (q \in inProgress <=> {t \in Accepting : call[t].request = q} # {})
             /\ Cardinality({t \in Accepting : call[t].request = q}) <= 1
             /\ {t \in Accepting : call[t].request = q} # {} => asked[q] = "requested"
             /\ asked[q] = "requested" => q \in ToSet(requests)
             /\ Cardinality({t \in Tasks : call[t].request = q}) = (IF asked[q] = "running" THEN 1 ELSE 0)
  <2> DEFINE A == {t \in Accepting : call[t].request = q}
             T == {t \in Tasks : call[t].request = q}
  <2>1. A = {} \/ \E x : A = {x}
    <3>1. \A t, u \in A : t = u
      BY <1>1, <1>2
    <3> HIDE DEF A
    <3> QED BY <3>1
  <2>2. T = {} \/ \E x : T = {x}
    <3>1. \A t, u \in T : t = u
      BY <1>1, <1>2
    <3> HIDE DEF T
    <3> QED BY <3>1
  <2>3. (A # {} => asked[q] = "requested" /\ q \in inProgress) /\ (asked[q] = "requested" /\ q \in inProgress => A # {})
    BY <1>1 DEF MatchInv, CallFits, RequestFits
  <2>4. T # {} <=> asked[q] = "running"
    BY <1>1 DEF MatchInv, CallFits, RequestFits
  <2>5. asked[q] = "requested" => q \in ToSet(requests)
    BY DEF MatchInv, RequestFits
  <2> HIDE DEF A, T
  <2>6. /\ Cardinality(A) \in {0, 1}
        /\ Cardinality(T) \in {0, 1} /\ (Cardinality(T) = 0 <=> T = {})
    BY <1>3, <2>1, <2>2
  <2>7. Cardinality(A) <= 1 /\ Cardinality(T) = (IF asked[q] = "running" THEN 1 ELSE 0)
    BY <2>4, <2>6
  <2> QED BY <2>3, <2>5, <2>7 DEF A, T
<1> QED BY <1>4 DEF RequestsMatched, RequestIsLocked, NoRequestLost, TaskHasRequester

-----------------------------------------------------------------------------
(* Runners: those that are registered, and their capacity.                 *)

\* The capacity of runner r is not exceeded.
Fits(r) == Cardinality(open[r]) + Cardinality(Held(r)) <= fleet.maxConcurrency

\* It is not when nothing is added, or an open offer becomes a task.
LEMMA FitsStill ==
    ASSUME TypeOK, TypeOK', fleet' = fleet, NEW r \in Runner, Fits(r),
           \/ open'[r] \subseteq open[r] /\ Held(r)' \subseteq Held(r)
           \/ \E S : /\ open'[r] = S
                     /\ Cardinality(S) + Cardinality(Held(r)') <= fleet.maxConcurrency
           \/ \E o \in open[r], t \in Task : open'[r] = open[r] \ {o} /\ Held(r)' = Held(r) \cup {t}
    PROVE  Fits(r)'
<1>1. IsFiniteSet(Offer) /\ IsFiniteSet(Task)
  <2>1. MaxOffer \in Nat /\ MaxTask \in Nat
    BY NumbersAssumption
  <2>2. IsFiniteSet(1 .. MaxOffer) /\ IsFiniteSet(1 .. MaxTask)
    BY <2>1, FS_Interval
  <2> QED BY <2>2 DEF Offer, Task
<1>2. /\ open[r] \subseteq Offer /\ open'[r] \subseteq Offer
      /\ Held(r) \subseteq Task /\ Held(r)' \subseteq Task
      /\ fleet.maxConcurrency \in Nat
  BY FleetAssumption DEF TypeOK, Held
<1>3. /\ IsFiniteSet(open[r]) /\ IsFiniteSet(open'[r]) /\ IsFiniteSet(Held(r)) /\ IsFiniteSet(Held(r)')
      /\ Cardinality(open[r]) \in Nat /\ Cardinality(open'[r]) \in Nat
      /\ Cardinality(Held(r)) \in Nat /\ Cardinality(Held(r)') \in Nat
  <2>1. \A S : S \subseteq Offer \/ S \subseteq Task => IsFiniteSet(S) /\ Cardinality(S) \in Nat
    BY <1>1, FS_Subset, FS_CardinalityType
  <2> QED BY <1>2, <2>1
<1>4. CASE open'[r] \subseteq open[r] /\ Held(r)' \subseteq Held(r)
  <2>1. Cardinality(open'[r]) <= Cardinality(open[r]) /\ Cardinality(Held(r)') <= Cardinality(Held(r))
    BY <1>3, <1>4, FS_Subset
  <2>2. Cardinality(open'[r]) + Cardinality(Held(r)') <= fleet.maxConcurrency
    BY <1>2, <1>3, <2>1 DEF Fits
  <2> QED BY <2>2 DEF Fits
<1>5. CASE \E S : /\ open'[r] = S
                  /\ Cardinality(S) + Cardinality(Held(r)') <= fleet.maxConcurrency
  BY <1>5 DEF Fits
<1>6. CASE \E o \in open[r], t \in Task : open'[r] = open[r] \ {o} /\ Held(r)' = Held(r) \cup {t}
  <2>1. PICK o \in open[r], t \in Task : open'[r] = open[r] \ {o} /\ Held(r)' = Held(r) \cup {t}
    BY <1>6
  <2>2. Cardinality(open[r] \ {o}) = Cardinality(open[r]) - 1
    BY <1>3, <2>1, FS_RemoveElement
  <2>3. Cardinality(Held(r) \cup {t}) <= Cardinality(Held(r)) + 1
    <3>1. CASE t \in Held(r)
      <4>1. Held(r) \cup {t} = Held(r)
        BY <3>1
      <4>2. Cardinality(Held(r)) <= Cardinality(Held(r)) + 1
        BY <1>3
      <4> QED BY <4>1, <4>2
    <3>2. CASE t \notin Held(r)
      <4>1. Cardinality(Held(r) \cup {t}) = Cardinality(Held(r)) + 1
        BY <1>3, <3>2, FS_AddElement
      <4>2. Cardinality(Held(r)) + 1 <= Cardinality(Held(r)) + 1
        BY <1>3
      <4> QED BY <4>1, <4>2
    <3> QED BY <3>1, <3>2
  <2>4. Cardinality(open'[r]) + Cardinality(Held(r)') <= fleet.maxConcurrency
    <3> DEFINE a == Cardinality(open[r])
               b == Cardinality(Held(r))
               c == Cardinality(open'[r])
               d == Cardinality(Held(r)')
               e == fleet.maxConcurrency
    <3>1. a \in Nat /\ b \in Nat /\ c = a - 1 /\ d <= b + 1 /\ a + b <= e /\ d \in Nat /\ e \in Nat
      BY <1>2, <1>3, <2>1, <2>2, <2>3 DEF Fits
    <3> HIDE DEF a, b, c, d, e
    <3>2. c + d <= e
      BY <3>1
    <3> QED BY <3>2 DEF c, d, e
  <2> QED BY <2>4 DEF Fits
<1> QED BY <1>4, <1>5, <1>6

\* A runner that has no offers and no tasks fits.
LEMMA FitsEmpty ==
    ASSUME TypeOK, NEW r \in Runner, open[r] = {}, Held(r) = {}
    PROVE  Fits(r)
<1>1. Cardinality({}) = 0 /\ fleet.maxConcurrency \in Nat
  BY FS_EmptySet, FleetAssumption DEF TypeOK
<1> QED BY <1>1 DEF Fits

\* The runners as sendOffers leaves them.
LEMMA SendFits ==
    ASSUME TypeOK, TypeOK', fleet' = fleet, NEW r \in Runner, NEW before \in Seq(ToBroker),
           Held(r)' \subseteq Held(r), SendOffers(r, Held(r)', before)
    PROVE  /\ Fits(r) => Fits(r)'
           /\ \A x \in Runner : x # r => open'[x] = open[x]
<1>1. Held(r)' \subseteq Task
  BY DEF Held
<1>2. PICK S \in SUBSET Offer :
         /\ open' = [open EXCEPT ![r] = S]
         /\ S \subseteq open[r] \/ Cardinality(S) + Cardinality(Held(r)') <= fleet.maxConcurrency
  BY <1>1, SendFacts
<1>3. open'[r] = S /\ \A x \in Runner : x # r => open'[x] = open[x]
  BY <1>2 DEF TypeOK
<1>4. Fits(r) => Fits(r)'
  <2>1. CASE S \subseteq open[r]
    BY <1>3, <2>1, FitsStill
  <2>2. CASE Cardinality(S) + Cardinality(Held(r)') <= fleet.maxConcurrency
    BY <1>3, <2>2, FitsStill
  <2> QED BY <1>2, <2>1, <2>2
<1> QED BY <1>3, <1>4

\* The tasks a runner holds when the status of one of them changes.
LEMMA HeldChange ==
    ASSUME TypeOK, NEW r \in Runner, NEW t \in Task, NEW s, held' = [held EXCEPT ![r][t] = s]
    PROVE  /\ Held(r)' = IF s = "none" THEN Held(r) \ {t} ELSE Held(r) \cup {t}
           /\ \A x \in Runner : x # r => Held(x)' = Held(x)
<1>1. /\ \A u \in Task : held'[r][u] = IF u = t THEN s ELSE held[r][u]
      /\ \A x \in Runner : x # r => held'[x] = held[x]
  BY DEF TypeOK
<1> QED BY <1>1 DEF Held

\* A finished task makes room for an offer, not for more.
LEMMA FinishFits ==
    ASSUME TypeOK, TypeOK', fleet' = fleet, NEW r \in Runner, NEW t \in Task,
           NEW before \in Seq(ToBroker), FinishTask(r, t, before)
    PROVE  \A x \in Runner : Fits(x) => Fits(x)'
<1>1. Held(r)' = Held(r) \ {t} /\ \A x \in Runner : x # r => Held(x)' = Held(x)
  BY HeldChange DEF FinishTask
<1>2. (Fits(r) => Fits(r)') /\ \A x \in Runner : x # r => open'[x] = open[x]
  BY <1>1, SendFits DEF FinishTask
<1>3. ASSUME NEW x \in Runner, x # r, Fits(x) PROVE Fits(x)'
  BY <1>1, <1>2, <1>3, FitsStill
<1> QED BY <1>2, <1>3

\* A runner whose process ends has nothing left.
LEMMA DieFits ==
    ASSUME TypeOK, TypeOK', fleet' = fleet, NEW rs, Die(rs)
    PROVE  \A r \in Runner : Fits(r) => Fits(r)'
<1> SUFFICES ASSUME NEW r \in Runner, Fits(r) PROVE Fits(r)'
  OBVIOUS
<1>1. open'[r] \subseteq open[r] /\ Held(r)' \subseteq Held(r)
  BY DEF Die, Held
<1> QED BY <1>1, FitsStill

\* No step exceeds the capacity of a runner that is no launcher.
LEMMA FitsStep ==
    ASSUME TypeOK, TypeOK', [Next]_vars, NEW r \in Runner \ fleet.launchers, Fits(r)
    PROVE  Fits(r)'
<1>0. fleet' = fleet
  BY DEF Next, vars
<1>1. ASSUME open' = open, held' = held PROVE Fits(r)'
  BY <1>0, <1>1, FitsStill DEF Held
<1>2. CASE UNCHANGED vars
  BY <1>1, <1>2 DEF vars, state, runnerVars
<1>3. ASSUME NEW t \in Task, AcceptTimesOut(t) PROVE Fits(r)'
  BY <1>1, <1>3 DEF AcceptTimesOut, runnerVars
<1>4. ASSUME NEW t \in Task, TaskTimesOut(t) PROVE Fits(r)'
  <2>1. CASE fleet.external
    BY <1>1, <1>4, <2>1 DEF TaskTimesOut, CancelOrRestart, runnerVars
  <2>2. CASE ~fleet.external
    BY <1>0, <1>4, <2>2, DieFits DEF TaskTimesOut, CancelOrRestart
  <2> QED BY <2>1, <2>2
<1>5. ASSUME NEW x \in Runner, Connect(x) PROVE Fits(r)'
  <2>1. open'[r] = open[r] /\ Held(r)' = Held(r)
    BY <1>5 DEF Connect, TypeOK, Held
  <2> QED BY <1>0, <2>1, FitsStill
<1>6. ASSUME NEW x \in Runner, Deregister(x) PROVE Fits(r)'
  <2>1. CASE fleet.external /\ x \in Live
    <3>1. open' = [open EXCEPT ![x] = {}] /\ held' = held
      BY <1>6, <2>1 DEF Deregister
    <3>2. open \in [Runner -> SUBSET Offer]
      BY DEF TypeOK
    <3>3. open'[r] \subseteq open[r] /\ Held(r)' = Held(r)
      BY <3>1, <3>2 DEF Held
    <3> QED BY <1>0, <3>3, FitsStill
  <2>2. CASE ~(fleet.external /\ x \in Live)
    BY <1>0, <1>6, <2>2, DieFits DEF Deregister
  <2> QED BY <2>1, <2>2
<1>7. ASSUME NEW x \in Runner, RunnerEnds(x) PROVE Fits(r)'
  BY <1>0, <1>7, DieFits DEF RunnerEnds
<1>8. ASSUME NEW x \in Runner, OfferInterval(x) PROVE Fits(r)'
  <2>1. Held(x)' = Held(x) /\ Held(r)' = Held(r) /\ <<>> \in Seq(ToBroker)
    BY <1>8, EmptySeq DEF OfferInterval, Held
  <2>2. (Fits(x) => Fits(x)') /\ \A y \in Runner : y # x => open'[y] = open[y]
    BY <1>0, <1>8, <2>1, SendFits DEF OfferInterval
  <2> QED BY <1>0, <2>1, <2>2, FitsStill
<1>9. ASSUME NEW x \in Runner, RunnerReceives(x) PROVE Fits(r)'
  <2> DEFINE m == Head(toRunner[x])
             t == m.task
  <2>1. /\ t \in Task
        /\ \/ m.offer \in Offer /\ OfferAccepted(x, m.offer, t)
           \/ ReceivedSettings(x, t)
           \/ TaskCancelled(x, t)
    BY <1>9, NextMessage, MessageCases DEF RunnerReceives
  <2> HIDE DEF m
  <2>2. CASE m.offer \in Offer /\ OfferAccepted(x, m.offer, t)
    <3> DEFINE o == m.offer
    <3>1. open'[x] = open[x] \ {o} /\ \A y \in Runner : y # x => open'[y] = open[y]
      BY <2>2 DEF OfferAccepted, TypeOK
    <3>2. CASE held' = held
      BY <1>0, <3>1, <3>2, FitsStill DEF Held
    <3>3. CASE held' # held
      <4>1. held' = [held EXCEPT ![x][t] = "waitingForSettings"] /\ o \in open[x]
        BY <2>2, <3>3 DEF OfferAccepted
      <4>2. Held(x)' = Held(x) \cup {t} /\ \A y \in Runner : y # x => Held(y)' = Held(y)
        <5>1. /\ Held(x)' = IF "waitingForSettings" = "none" THEN Held(x) \ {t} ELSE Held(x) \cup {t}
              /\ \A y \in Runner : y # x => Held(y)' = Held(y)
          BY <2>1, <4>1, HeldChange
        <5> QED BY <5>1
      <4>3. CASE x = r
        BY <1>0, <2>1, <3>1, <4>1, <4>2, <4>3, FitsStill
      <4>4. CASE x # r
        BY <1>0, <3>1, <4>2, <4>4, FitsStill
      <4> QED BY <4>3, <4>4
    <3> QED BY <3>2, <3>3
  <2>3. ASSUME held[x][t] # "none", NEW s, s # "none", held' = [held EXCEPT ![x][t] = s], open' = open
        PROVE  Fits(r)'
    <3>1. Held(x)' = Held(x) \cup {t} /\ \A y \in Runner : y # x => Held(y)' = Held(y)
      BY <2>1, <2>3, HeldChange
    <3>2. t \in Held(x)
      BY <2>1, <2>3 DEF Held
    <3>3. Held(r)' = Held(r)
      BY <3>1, <3>2
    <3> QED BY <1>0, <2>3, <3>3, FitsStill
  <2>4. CASE ReceivedSettings(x, t)
    <3>1. CASE held[x][t] = "waitingForSettings"
      BY <2>3, <2>4, <3>1 DEF ReceivedSettings
    <3>2. CASE held[x][t] # "waitingForSettings"
      BY <1>1, <2>4, <3>2 DEF ReceivedSettings
    <3> QED BY <3>1, <3>2
  <2>5. CASE TaskCancelled(x, t)
    <3>1. CASE FinishTask(x, t, <<>>)
      <4>1. <<>> \in Seq(ToBroker)
        BY EmptySeq
      <4> QED BY <1>0, <2>1, <3>1, <4>1, FinishFits
    <3>2. CASE ~FinishTask(x, t, <<>>)
      <4>1. open' = open /\ (held' = held \/ (/\ held[x][t] = "running"
                                              /\ held' = [held EXCEPT ![x][t] = "aborting:cancelled"]))
        BY <2>5, <3>2 DEF TaskCancelled
      <4> QED BY <1>1, <2>3, <4>1
    <3> QED BY <3>1, <3>2
  <2> QED BY <2>1, <2>2, <2>4, <2>5
<1>10. ASSUME NEW x \in Runner, LauncherDefers(x) PROVE Fits(r)'
  <2>1. open'[r] = open[r] /\ Held(r)' = Held(r)
    BY <1>10 DEF LauncherDefers, TypeOK, Held
  <2> QED BY <1>0, <2>1, FitsStill
<1>11. ASSUME NEW x \in Runner, NEW t \in Task, RunnerTaskTimesOut(x, t) \/ RunnerTaskEnds(x, t)
       PROVE  Fits(r)'
  <2>1. \A y \in {"taskdone", "taskerror"} : <<About(y, t)>> \in Seq(ToBroker)
    <3>1. \A y \in {"taskdone", "taskerror"} : About(y, t) \in ToBroker
      BY DEF ToBroker
    <3> QED BY <3>1
  <2>2. <<>> \in Seq(ToBroker)
    BY EmptySeq
  <2>3. CASE \E before \in Seq(ToBroker) : FinishTask(x, t, before)
    BY <1>0, <2>3, FinishFits
  <2>4. CASE /\ held[x][t] = "running" /\ open' = open
             /\ held' = [held EXCEPT ![x][t] = "aborting:timeout"]
    <3>1. Held(x)' = Held(x) \cup {t} /\ \A y \in Runner : y # x => Held(y)' = Held(y)
      <4>1. /\ Held(x)' = IF "aborting:timeout" = "none" THEN Held(x) \ {t} ELSE Held(x) \cup {t}
            /\ \A y \in Runner : y # x => Held(y)' = Held(y)
        BY <2>4, HeldChange
      <4> QED BY <4>1
    <3>2. Held(r)' = Held(r)
      BY <2>4, <3>1 DEF Held
    <3> QED BY <1>0, <2>4, <3>2, FitsStill
  <2> QED BY <1>11, <2>1, <2>2, <2>3, <2>4 DEF RunnerTaskTimesOut, RunnerTaskEnds
<1>12. CASE open' = open /\ held' = held
  BY <1>1, <1>12
<1>13. ASSUME \/ \E q \in Request : TaskRequested(q)
              \/ \E i \in DOMAIN offers : OfferExpires(i)
              \/ \E x \in Runner : BrokerReceives(x) \/ RunnerStops(x)
       PROVE  open' = open /\ held' = held
  BY <1>13 DEF TaskRequested, OfferExpires, BrokerReceives, RunnerStops, runnerVars
<1> QED BY <1>2, <1>3, <1>4, <1>5, <1>6, <1>7, <1>8, <1>9, <1>10, <1>11, <1>12, <1>13 DEF Next, Step

\* A call for a task that runner r has, or has messages about, is one at r.
Mine(r, t) ==
    (held[r][t] # "none" \/ Has(toRunner[r], Orders(t)) \/ Has(toBroker[r], Answers(t)))
        => (call[t] = NoCall \/ call[t].runner = r)

\* The answer at the head of a channel is one of the call's runner.
LEMMA HeadIsMine ==
    ASSUME TypeOK, NEW r \in Runner, NEW t \in Task, Mine(r, t), NEW s,
           s \in {"taskaccepted", "taskrejected", "taskdeferred", "taskdone", "taskerror"},
           toBroker[r] # <<>>, Head(toBroker[r]) = About(s, t)
    PROVE  call[t] = NoCall \/ call[t].runner = r
<1>1. About(s, t) \in Answers(t)
  BY DEF Answers, Accepted, Ends
<1>2. toBroker[r] \in Seq(ToBroker)
  BY DEF TypeOK
<1>3. Has(toBroker[r], Answers(t)) <=> Head(toBroker[r]) \in Answers(t) \/ Has(Tail(toBroker[r]), Answers(t))
  BY <1>2, TailHas
<1> QED BY <1>1, <1>3 DEF Mine

\* A registered runner whose offers go or whose tasks end leaves the others
\* known.
LEMMA KnownStill ==
    ASSUME OnlyKnownRunners, NEW K, known' = K, \A i \in DOMAIN offers' : offers'[i].runner \in K,
           \A t \in Task : t \in Tasks' => /\ t \in Tasks /\ call'[t].runner = call[t].runner
                                           /\ call[t].runner \in known => call[t].runner \in K
    PROVE  OnlyKnownRunners'
<1>1. \A t \in Tasks' : call'[t].runner \in known'
  BY DEF OnlyKnownRunners, Tasks
<1> QED BY <1>1 DEF OnlyKnownRunners

\* What belongs to runners that are registered goes on to.
LEMMA KnownStep ==
    ASSUME TypeOK, TypeOK', MatchInv, OnlyKnownRunners, [Next]_vars,
           \A r \in Runner, t \in Task : Mine(r, t)
    PROVE  OnlyKnownRunners'
<1>0. OffersOf(offers, known) /\ offers \in Seq(PendingOffer)
  BY DEF OffersOf, OnlyKnownRunners, TypeOK, PendingOffer
<1>1. \A t \in Task : /\ (t \in Tasks <=> call[t].state = "task") /\ (t \in Tasks' <=> call'[t].state = "task")
                      /\ t \in Tasks => call[t].runner \in known
                      /\ NoCall.state # "task"
  BY DEF Tasks, OnlyKnownRunners, NoCall
<1>2. ASSUME OffersOf(offers, known)', known' = known,
             \A t \in Task : call'[t] = call[t] \/ call'[t] = NoCall
      PROVE  OnlyKnownRunners'
  BY <1>1, <1>2, KnownStill DEF OffersOf
<1>3. ASSUME offers' = offers, known' = known,
             \A t \in Task : call'[t] = call[t] \/ call'[t] = NoCall
      PROVE  OnlyKnownRunners'
  BY <1>0, <1>2, <1>3 DEF OffersOf
<1>4. ASSUME known' = known, NEW n, NEW who, NEW ids, NEW reqs, NEW offs,
             Matched(n, who, ids, reqs, offs), reqs \in Seq(Request), OffersOf(offs, known), Settle(reqs, offs)
      PROVE  OnlyKnownRunners'
  <2>1. OffersOf(offers, known)'
    <3>1. \A K : OffersOf(offs, K) => OffersOf(offers, K)'
      BY <1>4, SettleType DEF OffersOf
    <3> QED BY <1>4, <3>1 DEF OffersOf
  <2>2. ASSUME NEW t \in Task, t \in Tasks' PROVE t \in Tasks /\ call'[t].runner = call[t].runner
    <3>1. CASE \E k \in 1 .. n : ids[k] = t
      <4>1. PICK k \in 1 .. n : ids[k] = t
        BY <3>1
      <4>2. call'[ids[k]] = [state |-> "accepting", request |-> who[k], runner |-> offs[k].runner]
        BY <1>4, <4>1 DEF Matched
      <4>3. call'[t].state = "accepting"
        BY <4>1, <4>2
      <4> QED BY <1>1, <2>2, <4>3
    <3>2. CASE \A k \in 1 .. n : ids[k] # t
      <4>1. call'[t] = call[t]
        BY <1>4, <3>2 DEF Matched
      <4> QED BY <1>1, <2>2, <4>1
    <3> QED BY <3>1, <3>2
  <2> QED BY <1>4, <2>1, <2>2, KnownStill DEF OffersOf
<1>5. ASSUME NEW q \in Request, TaskRequested(q) PROVE OnlyKnownRunners'
  <2>1. PICK n, who, ids : Matched(n, who, ids, Append(requests, q), offers)
    BY <1>5, RequestedMatches
  <2>2. Append(requests, q) \in Seq(Request) /\ known' = known /\ Settle(Append(requests, q), offers)
    BY <1>5, RelistFacts DEF TypeOK, TaskRequested
  <2> QED BY <1>0, <1>4, <2>1, <2>2
<1>6. ASSUME NEW r \in Runner, BrokerReceives(r) PROVE OnlyKnownRunners'
  <2> DEFINE m == Head(toBroker[r])
             t == m.task
  <2>1. /\ r \in known /\ known' = known /\ toBroker[r] # <<>>
        /\ \/ m.type = "taskoffer" /\ m.offer \in Offer /\ TaskOffered(r, m.offer)
           \/ /\ t \in Task /\ offers' = offers /\ m = About(m.type, t)
              /\ \/ m.type = "taskaccepted" /\ RunnerAccept(r, t)
                 \/ RunnerReject(t) \/ RunnerDeferred(t)
                 \/ TaskEnded(t, "done") \/ TaskEnded(t, "failed")
    BY <1>6, AnswerCases
  <2>2. CASE m.offer \in Offer /\ TaskOffered(r, m.offer)
    <3> DEFINE offs == Append(offers, [runner |-> r, offer |-> m.offer])
    <3>1. PICK n, who, ids : Matched(n, who, ids, requests, offs)
      BY <2>2, OfferedMatches
    <3>2. OffersOf(offs, known)
      BY <1>0, <2>1, <2>2, OffersLeft
    <3>3. requests \in Seq(Request) /\ Settle(requests, offs)
      BY <2>2 DEF TypeOK, TaskOffered
    <3> HIDE DEF offs
    <3> QED BY <1>4, <2>1, <3>1, <3>2, <3>3
  <2>3. CASE t \in Task /\ offers' = offers /\ m = About("taskaccepted", t) /\ RunnerAccept(r, t)
    <3>1. CASE t \in Accepting
      <4>1. call[t] # NoCall /\ call[t].runner = r
        <5>1. Mine(r, t) /\ toBroker[r] # <<>> /\ Head(toBroker[r]) = About("taskaccepted", t)
          BY <2>1, <2>3
        <5>2. call[t] = NoCall \/ call[t].runner = r
          BY <2>3, <5>1, HeadIsMine
        <5> QED BY <3>1, <5>2 DEF Accepting, NoCall
      <4>2. call' = [call EXCEPT ![t] = [state |-> "task", request |-> call[t].request, runner |-> call[t].runner]]
        BY <2>3, <3>1, AcceptFacts
      <4>3. call'[t].runner = r /\ \A u \in Task : u # t => call'[u] = call[u]
        BY <2>3, <4>1, <4>2 DEF TypeOK
      <4>4. \A u \in Tasks' : call'[u].runner \in known
        <5>1. \A u \in Tasks' : u \in Task /\ (u # t => call[u].state = "task")
          BY <4>3 DEF Tasks
        <5>2. \A u \in Tasks' : u # t => call[u].runner \in known
          BY <1>1, <5>1
        <5> QED BY <2>1, <4>3, <5>1, <5>2
      <4> QED BY <2>1, <2>3, <4>4 DEF OnlyKnownRunners
    <3>2. CASE t \notin Accepting
      <4>1. call' = call
        BY <2>3, <3>2 DEF RunnerAccept, Accepting
      <4> QED BY <1>3, <2>1, <2>3, <4>1
    <3> QED BY <3>1, <3>2
  <2>4. CASE /\ t \in Task /\ offers' = offers
             /\ RunnerReject(t) \/ RunnerDeferred(t) \/ TaskEnded(t, "done") \/ TaskEnded(t, "failed")
    <3>1. call' \in {call, [call EXCEPT ![t] = NoCall]}
      BY <2>4 DEF RunnerReject, RunnerDeferred, TaskEnded, GiveUp
    <3>2. \A u \in Task : call'[u] = call[u] \/ call'[u] = NoCall
      BY <2>4, <3>1 DEF TypeOK
    <3> QED BY <1>3, <2>1, <2>4, <3>2
  <2> HIDE DEF m
  <2> QED BY <2>1, <2>2, <2>3, <2>4
<1>7. ASSUME NEW t \in Task, AcceptTimesOut(t) \/ TaskTimesOut(t) PROVE OnlyKnownRunners'
  <2>1. offers' = offers /\ known' = known /\ call' = [call EXCEPT ![t] = NoCall]
    BY <1>7 DEF AcceptTimesOut, TaskTimesOut, GiveUp
  <2>2. \A u \in Task : call'[u] = call[u] \/ call'[u] = NoCall
    BY <2>1 DEF TypeOK
  <2> QED BY <1>3, <2>1, <2>2
<1>8. ASSUME NEW r \in Runner, Deregister(r) PROVE OnlyKnownRunners'
  <2>1. known' = known \ {r} /\ \A i \in DOMAIN offers' : offers'[i].runner \in known \ {r}
    <3>1. OffersOf(OffersWithout(r), known \ {r}) /\ offers' = OffersWithout(r) /\ known' = known \ {r}
      BY <1>0, <1>8, OffersOfOthers DEF Deregister
    <3> QED BY <3>1 DEF OffersOf
  <2>2. ASSUME NEW t \in Task, t \in Tasks'
        PROVE  /\ t \in Tasks /\ call'[t].runner = call[t].runner
               /\ call[t].runner \in known => call[t].runner \in known \ {r}
    <3>1. call'[t] = IF t \in {u \in Tasks : call[u].runner = r} THEN NoCall ELSE call[t]
      BY <1>8, LostFacts
    <3>2. call'[t] # NoCall
      BY <1>1, <2>2
    <3>3. call'[t] = call[t] /\ t \notin {u \in Tasks : call[u].runner = r}
      BY <3>1, <3>2
    <3>4. t \in Tasks
      BY <1>1, <2>2, <3>3
    <3> QED BY <3>3, <3>4
  <2> QED BY <2>1, <2>2, KnownStill
<1>9. ASSUME NEW i \in DOMAIN offers, OfferExpires(i) PROVE OnlyKnownRunners'
  <2>1. OffersOf(RemoveAt(offers, i), known)
    BY <1>0, OffersLeft
  <2>2. offers' = RemoveAt(offers, i) /\ known' = known /\ call' = call
    BY <1>9 DEF OfferExpires
  <2>3. OffersOf(offers, known)'
    BY <2>1, <2>2 DEF OffersOf
  <2> QED BY <1>2, <2>2, <2>3
<1>10. ASSUME NEW r \in Runner, Connect(r) PROVE OnlyKnownRunners'
  <2>1. offers' = offers /\ known' = known \cup {r} /\ call' = call
    BY <1>10 DEF Connect
  <2> QED BY <1>1, <2>1 DEF OnlyKnownRunners, Tasks
<1>11. ASSUME offers' = offers, known' = known, call' = call PROVE OnlyKnownRunners'
  BY <1>3, <1>11
<1>12. ASSUME NEW r \in Runner,
              \/ RunnerEnds(r) \/ RunnerStops(r)
              \/ OfferInterval(r) \/ RunnerReceives(r) \/ LauncherDefers(r)
       PROVE  OnlyKnownRunners'
  BY <1>11, <1>12 DEF RunnerEnds, RunnerStops, OfferInterval, RunnerReceives, LauncherDefers, brokerVars
<1>13. ASSUME NEW r \in Runner, NEW t \in Task, RunnerTaskTimesOut(r, t) \/ RunnerTaskEnds(r, t)
       PROVE  OnlyKnownRunners'
  BY <1>11, <1>13 DEF RunnerTaskTimesOut, RunnerTaskEnds, brokerVars
<1>14. CASE UNCHANGED vars
  BY <1>11, <1>14 DEF vars, state, brokerVars
<1> QED BY <1>5, <1>6, <1>7, <1>8, <1>9, <1>10, <1>12, <1>13, <1>14 DEF Next, Step

-----------------------------------------------------------------------------
(* What runners do with their tasks.                                       *)

\* The broker waits for what runner r makes of task t, or has told it to stop.
Wanted(r, t) ==
    \/ call[t].state = "task" /\ call[t].runner = r
    \/ Has(toRunner[r], Cancels(t))

\* The messages about task t between the broker and runner r, and what each of
\* them takes the task to be: an accepted offer comes before anything else, the
\* settings after the answer to it and before the task runs, and the end when
\* the runner has forgotten the task. A task that runs, or is about to, is one
\* that is wanted.
Link(r, t) ==
    /\ Has(toRunner[r], Accepts(t)) =>
          /\ held[r][t] = "none" /\ call[t].state # "task"
          /\ ~Has(toRunner[r], Settings(t)) /\ ~Has(toRunner[r], Cancels(t))
          /\ ~Has(toBroker[r], Answers(t))
    /\ Has(toRunner[r], Settings(t)) =>
          /\ held[r][t] \in {"none", "waitingForSettings"} /\ ~Has(toBroker[r], Accepted(t))
          /\ held[r][t] = "waitingForSettings" /\ r \in Live => Wanted(r, t)
    /\ Has(toBroker[r], Accepted(t)) =>
          /\ held[r][t] \in {"none", "waitingForSettings"} /\ call[t].state # "task"
          /\ ~Has(toRunner[r], Orders(t))
    /\ Has(toBroker[r], Ends(t)) => held[r][t] = "none"
    /\ Once(toRunner[r], Accepts(t)) /\ Once(toRunner[r], Settings(t)) /\ Once(toBroker[r], Accepted(t))
    /\ up[r] = "off" => held[r][t] = "none"
    /\ r \in Live /\ held[r][t] = "running" => Wanted(r, t)
    /\ Mine(r, t)

LinkInv == \A r \in Runner, t \in Task : Link(r, t)

\* Channel v has the orders about task t that s has; and no other answers.
AlikeOrders(v, s, t) ==
    \A P \in {Accepts(t), Settings(t), Cancels(t)} :
        (Has(v, P) <=> Has(s, P)) /\ (Once(s, P) => Once(v, P))
FewerAnswers(v, s, t) ==
    \A P \in {Accepted(t), Ends(t), Answers(t)} :
        (Has(v, P) => Has(s, P)) /\ (Once(s, P) => Once(v, P))

\* The kinds of orders, and of answers.
LEMMA KindsHas ==
    ASSUME NEW s, NEW t
    PROVE  /\ Has(s, Orders(t)) <=> \/ Has(s, Accepts(t)) \/ Has(s, Settings(t)) \/ Has(s, Cancels(t))
           /\ Has(s, Accepted(t)) => Has(s, Answers(t))
           /\ Has(s, Ends(t)) => Has(s, Answers(t))
           /\ \A P : ~Has(s, P) => Once(s, P)
BY DEF Has, Once, Orders, Answers

\* Orders about other tasks.
LEMMA OtherOrders ==
    ASSUME NEW s \in Seq(ToRunner), NEW t \in Task
    PROVE  /\ s # <<>> /\ Head(s).task # t => AlikeOrders(Tail(s), s, t)
           /\ \A u \in Task, x \in {"tasksettings", "taskcancel"} :
                 u # t => AlikeOrders(Append(s, About(x, u)), s, t)
           /\ \A v \in Seq(ToRunner) :
                 ~Has(v, Accepts(t)) /\ ~Has(v, Settings(t)) /\ ~Has(v, Cancels(t))
                    => AlikeOrders(s \o v, s, t)
<1>1. ASSUME s # <<>>, Head(s).task # t PROVE AlikeOrders(Tail(s), s, t)
  <2>1. Head(s) \notin Accepts(t) /\ Head(s) \notin Settings(t) /\ Head(s) \notin Cancels(t)
    BY <1>1 DEF Accepts, Settings, Cancels, AcceptMessage, About
  <2>2. ASSUME NEW P, Head(s) \notin P
        PROVE  (Has(Tail(s), P) <=> Has(s, P)) /\ (Once(s, P) => Once(Tail(s), P))
    <3>1. (Has(s, P) <=> Head(s) \in P \/ Has(Tail(s), P)) /\ (Once(s, P) => Once(Tail(s), P))
      BY <1>1, TailHas
    <3> QED BY <2>2, <3>1
  <2> QED BY <2>1, <2>2 DEF AlikeOrders
<1>2. ASSUME NEW u \in Task, NEW x \in {"tasksettings", "taskcancel"}, u # t
      PROVE  AlikeOrders(Append(s, About(x, u)), s, t)
  <2> DEFINE m == About(x, u)
  <2>1. m \in ToRunner /\ m \notin Accepts(t) /\ m \notin Settings(t) /\ m \notin Cancels(t)
    <3>1. 1 \in Offer
      BY NumbersAssumption DEF Offer
    <3>2. /\ About("tasksettings", u) \in ToRunner /\ About("taskcancel", u) \in ToRunner
          /\ m \notin Accepts(t)
          /\ m \in Settings(t) <=> x = "tasksettings" /\ u = t
          /\ m \in Cancels(t) <=> x = "taskcancel" /\ u = t
      BY <3>1, MessageKinds
    <3> QED BY <1>2, <3>2
  <2> HIDE DEF m
  <2>2. ASSUME NEW P, m \notin P
        PROVE  (Has(Append(s, m), P) <=> Has(s, P)) /\ (Once(s, P) => Once(Append(s, m), P))
    <3>1. /\ Has(Append(s, m), P) <=> Has(s, P) \/ m \in P
          /\ Once(s, P) /\ ~(Has(s, P) /\ m \in P) => Once(Append(s, m), P)
      BY <2>1, AppendHas
    <3> QED BY <2>2, <3>1
  <2>3. AlikeOrders(Append(s, m), s, t)
    BY <2>1, <2>2 DEF AlikeOrders
  <2> QED BY <2>3 DEF m
<1>3. ASSUME NEW v \in Seq(ToRunner),
             ~Has(v, Accepts(t)), ~Has(v, Settings(t)), ~Has(v, Cancels(t))
      PROVE  AlikeOrders(s \o v, s, t)
  <2>1. ASSUME NEW P, ~Has(v, P)
        PROVE  (Has(s \o v, P) <=> Has(s, P)) /\ (Once(s, P) => Once(s \o v, P))
    <3>1. /\ Has(s \o v, P) <=> Has(s, P) \/ Has(v, P)
          /\ Once(s, P) /\ ~Has(v, P) => Once(s \o v, P)
      BY ConcatHas
    <3> QED BY <2>1, <3>1
  <2> QED BY <1>3, <2>1 DEF AlikeOrders
<1> QED BY <1>1, <1>2, <1>3

\* Answers that are read, those about other tasks, and offers.
LEMMA OtherAnswers ==
    ASSUME NEW s \in Seq(ToBroker), NEW t \in Task
    PROVE  /\ s # <<>> => FewerAnswers(Tail(s), s, t)
           /\ \A u \in Task, x \in {"taskaccepted", "taskrejected", "taskdeferred", "taskdone", "taskerror"} :
                 u # t => FewerAnswers(Append(s, About(x, u)), s, t)
           /\ \A v \in Seq(ToBroker) : ~Has(v, Answers(t)) => FewerAnswers(s \o v, s, t)
<1>1. ASSUME s # <<>> PROVE FewerAnswers(Tail(s), s, t)
  <2>1. \A P : (Has(Tail(s), P) => Has(s, P)) /\ (Once(s, P) => Once(Tail(s), P))
    BY <1>1, TailHas
  <2> QED BY <2>1 DEF FewerAnswers
<1>2. ASSUME NEW u \in Task, u # t,
             NEW x \in {"taskaccepted", "taskrejected", "taskdeferred", "taskdone", "taskerror"}
      PROVE  FewerAnswers(Append(s, About(x, u)), s, t)
  <2> DEFINE m == About(x, u)
  <2>1. m \in ToBroker /\ m \notin Accepted(t) /\ m \notin Ends(t) /\ m \notin Answers(t)
    BY <1>2 DEF ToBroker, Accepted, Ends, Answers, About
  <2> HIDE DEF m
  <2>2. ASSUME NEW P, m \notin P
        PROVE  (Has(Append(s, m), P) => Has(s, P)) /\ (Once(s, P) => Once(Append(s, m), P))
    <3>1. /\ Has(Append(s, m), P) <=> Has(s, P) \/ m \in P
          /\ Once(s, P) /\ ~(Has(s, P) /\ m \in P) => Once(Append(s, m), P)
      BY <2>1, AppendHas
    <3> QED BY <2>2, <3>1
  <2>3. FewerAnswers(Append(s, m), s, t)
    BY <2>1, <2>2 DEF FewerAnswers
  <2> QED BY <2>3 DEF m
<1>3. ASSUME NEW v \in Seq(ToBroker), ~Has(v, Answers(t)) PROVE FewerAnswers(s \o v, s, t)
  <2>1. ASSUME NEW P, ~Has(v, P)
        PROVE  (Has(s \o v, P) => Has(s, P)) /\ (Once(s, P) => Once(s \o v, P))
    <3>1. /\ Has(s \o v, P) <=> Has(s, P) \/ Has(v, P)
          /\ Once(s, P) /\ ~Has(v, P) => Once(s \o v, P)
      BY ConcatHas
    <3> QED BY <2>1, <3>1
  <2>2. ~Has(v, Accepted(t)) /\ ~Has(v, Ends(t))
    BY <1>3, KindsHas
  <2> QED BY <1>3, <2>1, <2>2 DEF FewerAnswers
<1> QED BY <1>1, <1>2, <1>3

\* Nothing is new about task t at runner r, but for a call that ends, or a
\* process that does.
Quiet(r, t) ==
    /\ held'[r][t] \in {held[r][t], "none"}
    /\ AlikeOrders(toRunner'[r], toRunner[r], t) /\ FewerAnswers(toBroker'[r], toBroker[r], t)
    /\ r \in Live' => r \in Live \/ held'[r][t] = "none"
    /\ up'[r] = "off" => up[r] = "off"
    /\ \/ call'[t] = call[t]
       \/ /\ call'[t] = NoCall
          /\ call[t].state = "task" /\ call[t].runner = r /\ r \in Live' => held'[r][t] = "none"

\* Then the messages and the task fit as they did.
LEMMA LinkQuiet ==
    ASSUME NEW r \in Runner, NEW t \in Task, Link(r, t), Quiet(r, t)
    PROVE  Link(r, t)'
<1>1. /\ Has(toRunner'[r], Accepts(t)) <=> Has(toRunner[r], Accepts(t))
      /\ Has(toRunner'[r], Settings(t)) <=> Has(toRunner[r], Settings(t))
      /\ Has(toRunner'[r], Cancels(t)) <=> Has(toRunner[r], Cancels(t))
      /\ Once(toRunner[r], Accepts(t)) => Once(toRunner'[r], Accepts(t))
      /\ Once(toRunner[r], Settings(t)) => Once(toRunner'[r], Settings(t))
  BY DEF Quiet, AlikeOrders
<1>2. Has(toRunner'[r], Orders(t)) <=> Has(toRunner[r], Orders(t))
  BY <1>1, KindsHas
<1>3. /\ Has(toBroker'[r], Accepted(t)) => Has(toBroker[r], Accepted(t))
      /\ Has(toBroker'[r], Ends(t)) => Has(toBroker[r], Ends(t))
      /\ Has(toBroker'[r], Answers(t)) => Has(toBroker[r], Answers(t))
      /\ Once(toBroker[r], Accepted(t)) => Once(toBroker'[r], Accepted(t))
  BY DEF Quiet, FewerAnswers
<1>4. NoCall.state # "task"
  BY DEF NoCall
<1>5. call'[t].state = "task" => call[t].state = "task"
  BY <1>4 DEF Quiet
<1>6. ASSUME r \in Live', held'[r][t] # "none", Wanted(r, t) PROVE Wanted(r, t)'
  BY <1>1, <1>6 DEF Quiet, Wanted
<1>7. Mine(r, t)'
  BY <1>2, <1>3 DEF Quiet, Link, Mine
<1>8. Has(toRunner'[r], Accepts(t)) =>
          /\ held'[r][t] = "none" /\ call'[t].state # "task"
          /\ ~Has(toRunner'[r], Settings(t)) /\ ~Has(toRunner'[r], Cancels(t))
          /\ ~Has(toBroker'[r], Answers(t))
  BY <1>1, <1>3, <1>5 DEF Quiet, Link
<1>9. Has(toRunner'[r], Settings(t)) =>
          /\ held'[r][t] \in {"none", "waitingForSettings"} /\ ~Has(toBroker'[r], Accepted(t))
          /\ held'[r][t] = "waitingForSettings" /\ r \in Live' => Wanted(r, t)'
  BY <1>1, <1>3, <1>6 DEF Quiet, Link
<1>10. Has(toBroker'[r], Accepted(t)) =>
          /\ held'[r][t] \in {"none", "waitingForSettings"} /\ call'[t].state # "task"
          /\ ~Has(toRunner'[r], Orders(t))
  BY <1>2, <1>3, <1>5 DEF Quiet, Link
<1>11. /\ Has(toBroker'[r], Ends(t)) => held'[r][t] = "none"
       /\ up'[r] = "off" => held'[r][t] = "none"
  BY <1>3 DEF Quiet, Link
<1>12. /\ Once(toRunner'[r], Accepts(t)) /\ Once(toRunner'[r], Settings(t))
       /\ Once(toBroker'[r], Accepted(t))
  BY <1>1, <1>3 DEF Link
<1>13. r \in Live' /\ held'[r][t] = "running" => Wanted(r, t)'
  BY <1>6 DEF Quiet, Link
<1> QED BY <1>7, <1>8, <1>9, <1>10, <1>11, <1>12, <1>13 DEF Link

\* Nothing mentions the task.
LEMMA LinkNothing ==
    ASSUME NEW r \in Runner, NEW t \in Task, held'[r][t] = "none",
           ~Has(toRunner'[r], Orders(t)), ~Has(toBroker'[r], Answers(t))
    PROVE  Link(r, t)'
<1>1. /\ ~Has(toRunner'[r], Accepts(t)) /\ ~Has(toRunner'[r], Settings(t)) /\ ~Has(toRunner'[r], Cancels(t))
      /\ ~Has(toBroker'[r], Accepted(t)) /\ ~Has(toBroker'[r], Ends(t))
  BY KindsHas
<1>2. Once(toRunner'[r], Accepts(t)) /\ Once(toRunner'[r], Settings(t)) /\ Once(toBroker'[r], Accepted(t))
  BY <1>1, KindsHas
<1>3. Mine(r, t)'
  BY DEF Mine
<1> QED BY <1>1, <1>2, <1>3 DEF Link

\* Nothing changes at a runner that a step is not about, but for a call that ends.
LEMMA LinkElsewhere ==
    ASSUME NEW r \in Runner, NEW t \in Task, Link(r, t), held'[r] = held[r], up'[r] = up[r],
           toRunner'[r] = toRunner[r], toBroker'[r] = toBroker[r],
           \/ call'[t] = call[t]
           \/ call'[t] = NoCall /\ ~(call[t].state = "task" /\ call[t].runner = r)
    PROVE  Link(r, t)'
<1>1. AlikeOrders(toRunner'[r], toRunner[r], t) /\ FewerAnswers(toBroker'[r], toBroker[r], t)
  BY DEF AlikeOrders, FewerAnswers
<1>2. r \in Live' => r \in Live
  BY DEF Live
<1> QED BY <1>1, <1>2, LinkQuiet DEF Quiet

\* A fresh task id is sent to the runner whose offer is accepted.
LEMMA LinkSettle ==
    ASSUME TypeOK, LinkInv, NEW n, NEW who, NEW ids, NEW reqs, NEW offs,
           Matched(n, who, ids, reqs, offs), held' = held, up' = up,
           NEW r \in Runner, NEW t \in Task, FewerAnswers(toBroker'[r], toBroker[r], t)
    PROVE  Link(r, t)'
<1>1. PICK u \in Seq(ToRunner) :
         /\ toRunner'[r] = toRunner[r] \o u
         /\ ~Has(u, Settings(t)) /\ ~Has(u, Cancels(t)) /\ Once(u, Accepts(t))
         /\ Has(u, Accepts(t)) => \E k \in 1 .. n : ids[k] = t /\ offs[k].runner = r
  BY DEF Matched
<1>2. toRunner[r] \in Seq(ToRunner) /\ Link(r, t)
  BY DEF TypeOK, LinkInv
<1>3. CASE \E k \in 1 .. n : ids[k] = t
  <2>1. PICK k \in 1 .. n : ids[k] = t
    BY <1>3
  <2>2. /\ Unmentioned(r, t)
        /\ call'[t] = [state |-> "accepting", request |-> who[k], runner |-> offs[k].runner]
        /\ \A j \in 1 .. n : j # k => ids[j] # t
    BY <2>1 DEF Matched
  <2>3. /\ held'[r][t] = "none"
        /\ ~Has(toRunner[r], Accepts(t)) /\ ~Has(toRunner[r], Settings(t)) /\ ~Has(toRunner[r], Cancels(t))
        /\ ~Has(toBroker[r], Answers(t))
    BY <2>2, KindsHas DEF Unmentioned
  <2>4. ~Has(toBroker'[r], Answers(t)) /\ ~Has(toBroker'[r], Accepted(t)) /\ ~Has(toBroker'[r], Ends(t))
    <3>1. ~Has(toBroker'[r], Answers(t))
      BY <2>3 DEF FewerAnswers
    <3> QED BY <3>1, KindsHas
  <2>5. /\ Has(toRunner'[r], Accepts(t)) <=> Has(u, Accepts(t))
        /\ ~Has(toRunner'[r], Settings(t)) /\ ~Has(toRunner'[r], Cancels(t))
        /\ Once(toRunner'[r], Accepts(t))
    <3>1. \A P : /\ Has(toRunner[r] \o u, P) <=> Has(toRunner[r], P) \/ Has(u, P)
                 /\ ~Has(toRunner[r], P) /\ Once(u, P) => Once(toRunner[r] \o u, P)
      BY <1>2, ConcatHas
    <3> QED BY <1>1, <2>3, <3>1
  <2>6. CASE ~Has(u, Accepts(t))
    <3>1. ~Has(toRunner'[r], Orders(t))
      BY <2>5, <2>6, KindsHas
    <3> QED BY <2>3, <2>4, <3>1, LinkNothing
  <2>7. CASE Has(u, Accepts(t))
    <3>1. call'[t].state = "accepting" /\ call'[t].runner = r
      BY <1>1, <2>1, <2>2, <2>7
    <3>2. Once(toRunner'[r], Settings(t)) /\ Once(toBroker'[r], Accepted(t))
      BY <2>4, <2>5, KindsHas
    <3>3. Mine(r, t)'
      BY <3>1 DEF Mine
    <3> QED BY <2>3, <2>4, <2>5, <3>1, <3>2, <3>3 DEF Link
  <2> QED BY <2>6, <2>7
<1>4. CASE \A k \in 1 .. n : ids[k] # t
  <2>1. call'[t] = call[t] /\ ~Has(u, Accepts(t))
    BY <1>1, <1>4 DEF Matched
  <2>2. AlikeOrders(toRunner'[r], toRunner[r], t)
    BY <1>1, <1>2, <2>1, OtherOrders
  <2>3. Quiet(r, t)
    BY <2>1, <2>2 DEF Quiet, Live
  <2> QED BY <1>2, <2>3, LinkQuiet
<1> QED BY <1>3, <1>4

\* The runner's acceptance is read: the settings follow it.
LEMMA LinkAccept ==
    ASSUME TypeOK, MatchInv, LinkInv, NEW r \in Runner, NEW t \in Accepting, RunnerAccept(r, t),
           toBroker[r] # <<>>, Head(toBroker[r]) = About("taskaccepted", t),
           toBroker' = [toBroker EXCEPT ![r] = Tail(@)], held' = held, up' = up
    PROVE  LinkInv'
<1>1. /\ t \in Task /\ call[t].state = "accepting" /\ call[t] # NoCall
      /\ \A x \in Runner : toRunner[x] \in Seq(ToRunner) /\ toBroker[x] \in Seq(ToBroker)
  BY DEF Accepting, TypeOK, NoCall
<1>2. call[t].runner = r
  <2>1. Mine(r, t)
    BY <1>1 DEF LinkInv, Link
  <2> QED BY <1>1, <2>1, HeadIsMine
<1>3. /\ call' = [call EXCEPT ![t] = [state |-> "task", request |-> call[t].request, runner |-> call[t].runner]]
      /\ toRunner' = [toRunner EXCEPT ![r] = Append(@, About("tasksettings", t))]
  BY AcceptFacts
<1>4. /\ call'[t].state = "task" /\ call'[t].runner = r
      /\ \A u \in Task : u # t => call'[u] = call[u]
      /\ toRunner'[r] = Append(toRunner[r], About("tasksettings", t))
      /\ toBroker'[r] = Tail(toBroker[r])
      /\ \A x \in Runner : x # r => toRunner'[x] = toRunner[x] /\ toBroker'[x] = toBroker[x]
  BY <1>1, <1>2, <1>3 DEF TypeOK
<1>5. Link(r, t)'
  <2>1. Link(r, t)
    BY <1>1 DEF LinkInv
  <2>2. Head(toBroker[r]) \in Accepted(t)
    BY DEF Accepted
  <2>3. /\ Has(toBroker[r], Accepted(t)) /\ ~Has(toBroker'[r], Accepted(t))
        /\ Has(toBroker'[r], Ends(t)) => Has(toBroker[r], Ends(t))
    <3>1. \A P : /\ Has(toBroker[r], P) <=> Head(toBroker[r]) \in P \/ Has(Tail(toBroker[r]), P)
                 /\ Once(toBroker[r], P) /\ Head(toBroker[r]) \in P => ~Has(Tail(toBroker[r]), P)
      BY <1>1, TailHas
    <3>2. Once(toBroker[r], Accepted(t))
      BY <2>1 DEF Link
    <3> QED BY <1>4, <2>2, <3>1, <3>2
  <2>4. /\ held[r][t] \in {"none", "waitingForSettings"}
        /\ ~Has(toRunner[r], Accepts(t)) /\ ~Has(toRunner[r], Settings(t)) /\ ~Has(toRunner[r], Cancels(t))
    BY <2>1, <2>3, KindsHas DEF Link
  <2>5. /\ ~Has(toRunner'[r], Accepts(t)) /\ Has(toRunner'[r], Settings(t))
        /\ Once(toRunner'[r], Settings(t))
    <3>1. 1 \in Offer
      BY NumbersAssumption DEF Offer
    <3>2. /\ About("tasksettings", t) \in ToRunner /\ About("tasksettings", t) \notin Accepts(t)
          /\ About("tasksettings", t) \in Settings(t)
      BY <1>1, <3>1, MessageKinds DEF Settings
    <3>3. \A P : /\ Has(Append(toRunner[r], About("tasksettings", t)), P)
                       <=> Has(toRunner[r], P) \/ About("tasksettings", t) \in P
                 /\ Once(toRunner[r], P) /\ ~(Has(toRunner[r], P) /\ About("tasksettings", t) \in P)
                       => Once(Append(toRunner[r], About("tasksettings", t)), P)
      BY <1>1, <3>2, AppendHas
    <3>4. Once(toRunner[r], Settings(t))
      BY <2>4, KindsHas
    <3> QED BY <1>4, <2>4, <3>2, <3>3, <3>4
  <2>6. Once(toRunner'[r], Accepts(t)) /\ Once(toBroker'[r], Accepted(t))
    BY <2>3, <2>5, KindsHas
  <2>7. Wanted(r, t)' /\ Mine(r, t)'
    BY <1>4 DEF Wanted, Mine
  <2>8. Has(toBroker'[r], Ends(t)) => held'[r][t] = "none"
    BY <2>1, <2>3 DEF Link
  <2>9. up'[r] = "off" => held'[r][t] = "none"
    BY <2>1 DEF Link
  <2> QED BY <2>3, <2>4, <2>5, <2>6, <2>7, <2>8, <2>9 DEF Link
<1>6. ASSUME NEW x \in Runner, x # r PROVE Link(x, t)'
  <2>1. Mine(x, t)
    BY <1>1 DEF LinkInv, Link
  <2>2. held[x][t] = "none" /\ ~Has(toRunner[x], Orders(t)) /\ ~Has(toBroker[x], Answers(t))
    BY <1>1, <1>2, <1>6, <2>1 DEF Mine
  <2> QED BY <1>1, <1>4, <1>6, <2>2, LinkNothing
<1>7. ASSUME NEW x \in Runner, NEW u \in Task, u # t PROVE Link(x, u)'
  <2>1. Link(x, u) /\ call'[u] = call[u]
    BY <1>4, <1>7 DEF LinkInv
  <2>2. CASE x # r
    BY <1>4, <2>1, <2>2, LinkElsewhere
  <2>3. CASE x = r
    <3>1. FewerAnswers(toBroker'[r], toBroker[r], u)
      BY <1>1, <1>4, OtherAnswers
    <3>2. AlikeOrders(toRunner'[r], toRunner[r], u)
      BY <1>1, <1>4, <1>7, OtherOrders
    <3>3. Quiet(r, u)
      BY <2>1, <3>1, <3>2 DEF Quiet, Live
    <3> QED BY <2>1, <2>3, <3>3, LinkQuiet
  <2> QED BY <2>2, <2>3
<1> QED BY <1>1, <1>5, <1>6, <1>7 DEF LinkInv

\* Another message of a runner is read.
LEMMA LinkRead ==
    ASSUME TypeOK, LinkInv, NEW r \in Runner, toBroker[r] # <<>>,
           toBroker' = [toBroker EXCEPT ![r] = Tail(@)], toRunner' = toRunner, held' = held, up' = up,
           \A t \in Task :
              \/ call'[t] = call[t]
              \/ call'[t] = NoCall /\ (call[t].state = "task" => held[call[t].runner][t] = "none")
    PROVE  LinkInv'
<1> SUFFICES ASSUME NEW x \in Runner, NEW t \in Task PROVE Link(x, t)'
  BY DEF LinkInv
<1>1. toBroker[x] \in Seq(ToBroker) /\ Link(x, t)
  BY DEF TypeOK, LinkInv
<1>2. toBroker'[x] = IF x = r THEN Tail(toBroker[x]) ELSE toBroker[x]
  BY DEF TypeOK
<1>3. FewerAnswers(toBroker'[x], toBroker[x], t)
  <2>1. CASE x = r
    BY <1>1, <1>2, <2>1, OtherAnswers
  <2>2. CASE x # r
    BY <1>2, <2>2 DEF FewerAnswers
  <2> QED BY <2>1, <2>2
<1>4. AlikeOrders(toRunner'[x], toRunner[x], t)
  BY DEF AlikeOrders
<1>5. Quiet(x, t)
  BY <1>3, <1>4 DEF Quiet, Live
<1> QED BY <1>1, <1>5, LinkQuiet

\* A message that the broker reads keeps the links.
LEMMA LinkReceives ==
    ASSUME TypeOK, MatchInv, LinkInv, NEW r \in Runner, BrokerReceives(r)
    PROVE  LinkInv'
<1> DEFINE m == Head(toBroker[r])
           t == m.task
<1>1. /\ toBroker[r] \in Seq(ToBroker) /\ toBroker[r] # <<>>
      /\ toBroker' = [toBroker EXCEPT ![r] = Tail(@)]
      /\ UNCHANGED <<up, held>>
      /\ \/ m.offer \in Offer /\ TaskOffered(r, m.offer)
         \/ /\ t \in Task /\ m = About(m.type, t)
            /\ \/ m.type = "taskaccepted" /\ RunnerAccept(r, t)
               \/ m.type = "taskrejected" /\ RunnerReject(t)
               \/ m.type = "taskdeferred" /\ RunnerDeferred(t)
               \/ m.type = "taskdone" /\ TaskEnded(t, "done")
               \/ m.type = "taskerror" /\ TaskEnded(t, "failed")
  BY AnswerCases
<1>2. CASE m.offer \in Offer /\ TaskOffered(r, m.offer)
  <2>1. PICK n, who, ids :
           Matched(n, who, ids, requests, Append(offers, [runner |-> r, offer |-> m.offer]))
    BY <1>2, OfferedMatches
  <2>2. ASSUME NEW x \in Runner, NEW u \in Task PROVE FewerAnswers(toBroker'[x], toBroker[x], u)
    <3>1. toBroker'[x] = IF x = r THEN Tail(toBroker[x]) ELSE toBroker[x]
      BY <1>1 DEF TypeOK
    <3>2. CASE x = r
      BY <1>1, <3>1, <3>2, OtherAnswers
    <3>3. CASE x # r
      BY <3>1, <3>3 DEF FewerAnswers
    <3> QED BY <3>2, <3>3
  <2>3. \A x \in Runner, u \in Task : Link(x, u)'
    BY <1>1, <2>1, <2>2, LinkSettle
  <2> QED BY <2>3 DEF LinkInv
<1>3. ASSUME t \in Task, m = About("taskaccepted", t), RunnerAccept(r, t) PROVE LinkInv'
  <2>1. CASE t \in Accepting
    BY <1>1, <1>3, <2>1, LinkAccept
  <2>2. CASE t \notin Accepting
    <3>1. call' = call /\ toRunner' = toRunner
      BY <1>3, <2>2 DEF RunnerAccept, Accepting
    <3> QED BY <1>1, <3>1, LinkRead
  <2> QED BY <2>1, <2>2
<1>4. ASSUME t \in Task, RunnerReject(t) \/ RunnerDeferred(t) PROVE LinkInv'
  <2>1. \A u \in Task :
           \/ call'[u] = call[u]
           \/ call'[u] = NoCall /\ (call[u].state = "task" => held[call[u].runner][u] = "none")
    BY <1>4 DEF RunnerReject, RunnerDeferred, GiveUp, TypeOK
  <2>2. toRunner' = toRunner
    BY <1>4 DEF RunnerReject, RunnerDeferred
  <2> QED BY <1>1, <2>1, <2>2, LinkRead
<1>5. ASSUME t \in Task, NEW s \in {"taskdone", "taskerror"}, m = About(s, t), NEW how, TaskEnded(t, how)
      PROVE  LinkInv'
  <2>1. Link(r, t)
    BY <1>5 DEF LinkInv
  <2>2. held[r][t] = "none"
    <3>1. Head(toBroker[r]) \in Ends(t)
      BY <1>5 DEF Ends
    <3>2. Has(toBroker[r], Ends(t)) <=> Head(toBroker[r]) \in Ends(t) \/ Has(Tail(toBroker[r]), Ends(t))
      BY <1>1, TailHas
    <3> QED BY <2>1, <3>1, <3>2 DEF Link
  <2>3. call[t] = NoCall \/ call[t].runner = r
    <3>1. Mine(r, t)
      BY <2>1 DEF Link
    <3> QED BY <1>1, <1>5, <3>1, HeadIsMine
  <2>4. \A u \in Task :
           \/ call'[u] = call[u]
           \/ call'[u] = NoCall /\ (call[u].state = "task" => held[call[u].runner][u] = "none")
    <3>1. call' \in {call, [call EXCEPT ![t] = NoCall]}
      BY <1>5 DEF TaskEnded
    <3>2. call[t].state = "task" => call[t] # NoCall
      BY DEF NoCall
    <3> QED BY <2>2, <2>3, <3>1, <3>2 DEF TypeOK
  <2>5. toRunner' = toRunner
    BY <1>5 DEF TaskEnded
  <2> QED BY <1>1, <2>4, <2>5, LinkRead
<1> HIDE DEF m
<1> QED BY <1>1, <1>2, <1>3, <1>4, <1>5

\* A process ends, or all of the broker's do, and perhaps a task with them.
LEMMA LinkDies ==
    ASSUME TypeOK, LinkInv, NEW rs, Die(rs), toRunner' = toRunner, toBroker' = toBroker,
           \A t \in Task :
              \/ call'[t] = call[t]
              \/ call'[t] = NoCall /\ (call[t].state = "task" /\ call[t].runner \in Live
                                          => call[t].runner \in rs)
    PROVE  LinkInv'
<1> SUFFICES ASSUME NEW r \in Runner, NEW t \in Task PROVE Link(r, t)'
  BY DEF LinkInv
<1>1. AlikeOrders(toRunner'[r], toRunner[r], t) /\ FewerAnswers(toBroker'[r], toBroker[r], t)
  BY DEF AlikeOrders, FewerAnswers
<1>2. /\ held'[r][t] = IF r \in rs THEN "none" ELSE held[r][t]
      /\ up'[r] = IF r \in rs THEN "gone" ELSE up[r]
  BY DEF Die
<1>3. r \in Live' => r \in Live /\ r \notin rs
  BY <1>2 DEF Live
<1>4. Quiet(r, t)
  BY <1>1, <1>2, <1>3 DEF Quiet
<1> QED BY <1>4, LinkQuiet DEF LinkInv

\* A task takes too long for the broker.
LEMMA LinkTimesOut ==
    ASSUME TypeOK, LinkInv, OnlyKnownRunners, NEW t \in Task, TaskTimesOut(t)
    PROVE  LinkInv'
<1>0. PICK r \in Runner : r = call[t].runner
  <2>1. t \in Tasks
    BY LostFacts
  <2> QED BY <2>1, CallFacts DEF NoCall
<1>1. /\ t \in Tasks /\ r \in known /\ call[t].state = "task" /\ call[t].runner = r
      /\ \A u \in Task : call'[u] = IF u = t THEN NoCall ELSE call[u]
      /\ toBroker' = toBroker
  <2>1. t \in Tasks /\ \A u \in Task : call'[u] = IF u = t THEN NoCall ELSE call[u]
    BY LostFacts
  <2> QED BY <1>0, <2>1, CallFacts DEF OnlyKnownRunners, TaskTimesOut, NoCall
<1>2. CASE ~fleet.external
  <2>1. Die(Live) /\ toRunner' = toRunner
    BY <1>2 DEF TaskTimesOut, CancelOrRestart
  <2> QED BY <1>1, <2>1, LinkDies
<1>3. CASE fleet.external
  <2>1. /\ toRunner' = [toRunner EXCEPT ![r] = Append(@, About("taskcancel", t))]
        /\ held' = held /\ up' = up
    BY <1>1, <1>3 DEF TaskTimesOut, CancelOrRestart, runnerVars
  <2>2. /\ toRunner'[r] = Append(toRunner[r], About("taskcancel", t))
        /\ \A x \in Runner : x # r => toRunner'[x] = toRunner[x]
        /\ toRunner[r] \in Seq(ToRunner)
    BY <1>1, <2>1 DEF TypeOK
  <2>3. ASSUME NEW x \in Runner, NEW u \in Task PROVE Link(x, u)'
    <3>1. Link(x, u)
      BY DEF LinkInv
    <3>2. CASE x # r
      BY <1>1, <2>1, <2>2, <3>1, <3>2, LinkElsewhere
    <3>3. CASE x = r /\ u # t
      <4>1. AlikeOrders(toRunner'[r], toRunner[r], u)
        BY <2>2, <3>3, OtherOrders
      <4>2. FewerAnswers(toBroker'[r], toBroker[r], u)
        BY <1>1 DEF FewerAnswers
      <4>3. Quiet(r, u)
        BY <1>1, <2>1, <3>3, <4>1, <4>2 DEF Quiet, Live
      <4> QED BY <3>1, <3>3, <4>3, LinkQuiet
    <3>4. CASE x = r /\ u = t
      <4>0. Link(r, t)
        BY <3>1, <3>4
      <4>1. ~Has(toRunner[r], Accepts(t)) /\ ~Has(toBroker[r], Accepted(t))
        BY <1>1, <4>0 DEF Link
      <4>2. /\ ~Has(toRunner'[r], Accepts(t)) /\ Has(toRunner'[r], Cancels(t))
            /\ Has(toRunner'[r], Settings(t)) => Has(toRunner[r], Settings(t))
            /\ Once(toRunner[r], Settings(t)) => Once(toRunner'[r], Settings(t))
        <5>1. 1 \in Offer
          BY NumbersAssumption DEF Offer
        <5>2. /\ About("taskcancel", t) \in ToRunner /\ About("taskcancel", t) \notin Accepts(t)
              /\ About("taskcancel", t) \in Cancels(t) /\ About("taskcancel", t) \notin Settings(t)
          BY <5>1, MessageKinds DEF Cancels
        <5>3. \A P : /\ Has(Append(toRunner[r], About("taskcancel", t)), P)
                           <=> Has(toRunner[r], P) \/ About("taskcancel", t) \in P
                     /\ Once(toRunner[r], P) /\ ~(Has(toRunner[r], P) /\ About("taskcancel", t) \in P)
                           => Once(Append(toRunner[r], About("taskcancel", t)), P)
          BY <2>2, <5>2, AppendHas
        <5> QED BY <2>2, <4>1, <5>2, <5>3
      <4>3. Once(toRunner'[r], Accepts(t)) /\ Wanted(r, t)'
        BY <4>2, KindsHas DEF Wanted
      <4>4. Mine(r, t)' /\ Live' = Live /\ call'[t].state # "task"
        BY <1>1, <2>1 DEF Mine, Live, NoCall
      <4>5. Link(r, t)'
        BY <1>1, <2>1, <4>0, <4>1, <4>2, <4>3, <4>4 DEF Link
      <4> QED BY <3>4, <4>5
    <3> QED BY <3>2, <3>3, <3>4
  <2> QED BY <2>3 DEF LinkInv
<1> QED BY <1>2, <1>3

\* A websocket closes: what was on its way is not read.
LEMMA LinkCloses ==
    ASSUME TypeOK, LinkInv, NEW r \in Runner, Deregister(r)
    PROVE  LinkInv'
<1>1. /\ \A t \in Task : call'[t] = IF t \in {u \in Tasks : call[u].runner = r} THEN NoCall ELSE call[t]
      /\ toRunner'[r] = <<>> /\ toBroker'[r] = <<>>
      /\ \A x \in Runner : x # r => toRunner'[x] = toRunner[x] /\ toBroker'[x] = toBroker[x]
  <2>1. \A t \in Task : call'[t] = IF t \in {u \in Tasks : call[u].runner = r} THEN NoCall ELSE call[t]
    BY LostFacts
  <2> QED BY <2>1 DEF Deregister, TypeOK
<1>2. /\ up'[r] \in {"cut", "gone"}
      /\ \A t \in Task : held'[r][t] \in {held[r][t], "none"}
      /\ \A x \in Runner : x # r => up'[x] = up[x] /\ held'[x] = held[x]
  BY DEF Deregister, Die, TypeOK
<1>3. ASSUME NEW x \in Runner, NEW t \in Task, x # r PROVE Link(x, t)'
  <2>1. \/ call'[t] = call[t]
        \/ call'[t] = NoCall /\ ~(call[t].state = "task" /\ call[t].runner = x)
    BY <1>1, <1>3
  <2> QED BY <1>1, <1>2, <1>3, <2>1, LinkElsewhere DEF LinkInv
<1>4. ASSUME NEW t \in Task PROVE Link(r, t)'
  <2>1. \A P : ~Has(toRunner'[r], P) /\ ~Has(toBroker'[r], P) /\ Once(toRunner'[r], P) /\ Once(toBroker'[r], P)
    BY <1>1, EmptyHas
  <2>2. r \notin Live' /\ up'[r] # "off"
    BY <1>2 DEF Live
  <2>3. Mine(r, t)'
    <3>1. Mine(r, t)
      BY DEF LinkInv, Link
    <3> QED BY <1>1, <1>2, <2>1, <3>1 DEF Mine
  <2> QED BY <2>1, <2>2, <2>3 DEF Link
<1> QED BY <1>3, <1>4 DEF LinkInv

\* A runner connects.
LEMMA LinkConnects ==
    ASSUME TypeOK, LinkInv, NEW r \in Runner, Connect(r)
    PROVE  LinkInv'
<1>1. /\ up[r] = "off" /\ up'[r] = "up" /\ held' = held /\ call' = call /\ toRunner' = toRunner
      /\ toBroker'[r] \in {toBroker[r], <<OfferMessage(1)>>}
      /\ \A x \in Runner : x # r => up'[x] = up[x] /\ toBroker'[x] = toBroker[x]
  BY DEF Connect, TypeOK
<1>2. ASSUME NEW x \in Runner, NEW t \in Task, x # r PROVE Link(x, t)'
  BY <1>1, <1>2, LinkElsewhere DEF LinkInv
<1>3. ASSUME NEW t \in Task PROVE Link(r, t)'
  <2>1. Link(r, t)
    BY DEF LinkInv
  <2>2. held[r][t] = "none"
    BY <1>1, <2>1 DEF Link
  <2>3. FewerAnswers(<<OfferMessage(1)>>, toBroker[r], t)
    <3> DEFINE v == <<OfferMessage(1)>>
    <3>1. 1 \in Offer
      BY NumbersAssumption DEF Offer
    <3>2. DOMAIN v = {1} /\ v[1] \notin Answers(t)
      BY <3>1, MessageKinds
    <3> HIDE DEF v
    <3>3. ~Has(v, Answers(t))
      BY <3>2 DEF Has
    <3>4. \A P \in {Accepted(t), Ends(t), Answers(t)} : ~Has(v, P) /\ Once(v, P)
      BY <3>3, KindsHas
    <3> QED BY <3>4 DEF FewerAnswers, v
  <2>4. FewerAnswers(toBroker'[r], toBroker[r], t)
    <3>1. FewerAnswers(toBroker[r], toBroker[r], t)
      BY DEF FewerAnswers
    <3> QED BY <1>1, <2>3, <3>1
  <2>5. AlikeOrders(toRunner'[r], toRunner[r], t)
    BY <1>1 DEF AlikeOrders
  <2>6. Quiet(r, t)
    BY <1>1, <2>2, <2>4, <2>5 DEF Quiet
  <2> QED BY <2>1, <2>6, LinkQuiet
<1> QED BY <1>2, <1>3 DEF LinkInv

\* What sendOffers adds to a channel are offers, after the messages in `before'.
LEMMA SendAnswers ==
    ASSUME TypeOK, NEW r \in Runner, NEW tasks, tasks \subseteq Task, NEW before \in Seq(ToBroker),
           SendOffers(r, tasks, before)
    PROVE  /\ \A x \in Runner : x # r => toBroker'[x] = toBroker[x]
           /\ \A t \in Task : ~Has(before, Answers(t)) => FewerAnswers(toBroker'[r], toBroker[r], t)
           /\ \A t \in Task : ~Has(before, Accepted(t)) =>
                 /\ Has(toBroker'[r], Accepted(t)) => Has(toBroker[r], Accepted(t))
                 /\ Once(toBroker[r], Accepted(t)) => Once(toBroker'[r], Accepted(t))
<1>1. toBroker[r] \in Seq(ToBroker) /\ toBroker \in [Runner -> Seq(ToBroker)]
  BY DEF TypeOK
<1>2. CASE toBroker' = toBroker
  BY <1>2 DEF FewerAnswers
<1>3. CASE \E u \in Seq(ToBroker) :
              /\ toBroker' = [toBroker EXCEPT ![r] = (toBroker[r] \o before) \o u]
              /\ \A t \in Task : ~Has(u, Answers(t))
  <2>1. PICK u \in Seq(ToBroker) :
           /\ toBroker' = [toBroker EXCEPT ![r] = (toBroker[r] \o before) \o u]
           /\ \A t \in Task : ~Has(u, Answers(t))
    BY <1>3
  <2> DEFINE s == toBroker[r]
             v == s \o before
             w == v \o u
  <2>2. v \in Seq(ToBroker) /\ toBroker'[r] = w /\ \A x \in Runner : x # r => toBroker'[x] = toBroker[x]
    <3>1. v \in Seq(ToBroker)
      BY <1>1, ConcatProperties
    <3>2. toBroker' = [toBroker EXCEPT ![r] = w]
      BY <2>1
    <3> HIDE DEF w, v
    <3> QED BY <1>1, <3>1, <3>2
  <2>3. ASSUME NEW P, ~Has(before, P), ~Has(u, P)
        PROVE  (Has(w, P) => Has(s, P)) /\ (Once(s, P) => Once(w, P))
    <3>1. /\ Has(v, P) <=> Has(s, P) \/ Has(before, P)
          /\ Once(s, P) /\ ~Has(before, P) => Once(v, P)
      BY <1>1, ConcatHas
    <3> HIDE DEF v
    <3>2. /\ Has(w, P) <=> Has(v, P) \/ Has(u, P)
          /\ Once(v, P) /\ ~Has(u, P) => Once(w, P)
      BY <2>2, ConcatHas
    <3> QED BY <2>3, <3>1, <3>2
  <2>4. \A t \in Task : ~Has(u, Answers(t)) /\ ~Has(u, Accepted(t)) /\ ~Has(u, Ends(t))
    BY <2>1, KindsHas
  <2> HIDE DEF w
  <2>5. ASSUME NEW t \in Task, ~Has(before, Answers(t)) PROVE FewerAnswers(toBroker'[r], toBroker[r], t)
    <3>1. ~Has(before, Accepted(t)) /\ ~Has(before, Ends(t))
      BY <2>5, KindsHas
    <3> QED BY <2>2, <2>3, <2>4, <2>5, <3>1 DEF FewerAnswers
  <2>6. ASSUME NEW t \in Task, ~Has(before, Accepted(t))
        PROVE  /\ Has(toBroker'[r], Accepted(t)) => Has(toBroker[r], Accepted(t))
               /\ Once(toBroker[r], Accepted(t)) => Once(toBroker'[r], Accepted(t))
    BY <2>2, <2>3, <2>4, <2>6
  <2> QED BY <2>2, <2>5, <2>6
<1>4. \/ toBroker' = toBroker
      \/ \E u \in Seq(ToBroker) :
            /\ toBroker' = [toBroker EXCEPT ![r] = (toBroker[r] \o before) \o u]
            /\ \A t \in Task : ~Has(u, Answers(t))
  <2>1. \/ up[r] = "cut" /\ toBroker' = toBroker
        \/ \E u \in Seq(ToBroker) :
              /\ toBroker' = [toBroker EXCEPT ![r] = (toBroker[r] \o before) \o u]
              /\ \A t \in Task : ~Has(u, Answers(t))
    BY SendFacts
  <2> QED BY <2>1
<1> QED BY <1>2, <1>3, <1>4

\* Runner r has the same orders on their way, or has read one about task t.
Reads(r, t) ==
    /\ \A x \in Runner : x # r => toRunner'[x] = toRunner[x]
    /\ \/ toRunner'[r] = toRunner[r]
       \/ /\ toRunner[r] # <<>> /\ toRunner'[r] = Tail(toRunner[r])
          /\ Head(toRunner[r]).task = t

\* A runner that reads its next message leaves the other messages as they are.
LEMMA ReadFacts ==
    ASSUME TypeOK, NEW r \in Runner, NEW t, Reads(r, t)
    PROVE  /\ \A P : /\ Has(toRunner'[r], P) => Has(toRunner[r], P)
                     /\ Once(toRunner[r], P) => Once(toRunner'[r], P)
           /\ \A u \in Task : u # t => AlikeOrders(toRunner'[r], toRunner[r], u)
<1>1. toRunner[r] \in Seq(ToRunner)
  BY DEF TypeOK
<1>2. CASE toRunner'[r] = toRunner[r]
  BY <1>2 DEF AlikeOrders
<1>3. CASE /\ toRunner[r] # <<>> /\ toRunner'[r] = Tail(toRunner[r])
           /\ Head(toRunner[r]).task = t
  <2>1. \A P : /\ Has(toRunner'[r], P) => Has(toRunner[r], P)
               /\ Once(toRunner[r], P) => Once(toRunner'[r], P)
    BY <1>1, <1>3, TailHas
  <2>2. \A u \in Task : u # t => AlikeOrders(toRunner'[r], toRunner[r], u)
    BY <1>1, <1>3, OtherOrders
  <2> QED BY <2>1, <2>2
<1> QED BY <1>2, <1>3 DEF Reads

\* A runner's step about task t leaves the links of other tasks and runners.
LEMMA LinkOthers ==
    ASSUME TypeOK, LinkInv, NEW r \in Runner, NEW t \in Task, Reads(r, t), call' = call,
           \A x \in Runner : x # r => /\ held'[x] = held[x] /\ up'[x] = up[x]
                                      /\ toBroker'[x] = toBroker[x],
           r \in Live' => r \in Live, up'[r] = "off" => up[r] = "off",
           \A u \in Task : u # t => /\ held'[r][u] = held[r][u]
                                    /\ FewerAnswers(toBroker'[r], toBroker[r], u),
           Link(r, t)'
    PROVE  LinkInv'
<1> SUFFICES ASSUME NEW x \in Runner, NEW u \in Task PROVE Link(x, u)'
  BY DEF LinkInv
<1>1. Link(x, u)
  BY DEF LinkInv
<1>2. CASE x # r
  BY <1>1, <1>2, LinkElsewhere DEF Reads
<1>3. CASE x = r /\ u # t
  <2>1. AlikeOrders(toRunner'[r], toRunner[r], u)
    BY <1>3, ReadFacts
  <2>2. Quiet(r, u)
    BY <1>3, <2>1 DEF Quiet
  <2> QED BY <1>1, <1>3, <2>2, LinkQuiet
<1> QED BY <1>2, <1>3

\* The status of one task changes.
LEMMA HeldStatus ==
    ASSUME TypeOK, NEW r \in Runner, NEW t \in Task, NEW s, held' = [held EXCEPT ![r][t] = s]
    PROVE  /\ held'[r][t] = s /\ \A u \in Task : u # t => held'[r][u] = held[r][u]
           /\ \A x \in Runner : x # r => held'[x] = held[x]
BY DEF TypeOK

\* A task is finished: it is forgotten, and its end is said, or nothing.
LEMMA LinkFinish ==
    ASSUME TypeOK, LinkInv, NEW r \in Runner, NEW t \in Task, NEW before,
           FinishTask(r, t, before), held[r][t] # "none", Reads(r, t), call' = call, up' = up,
           before = <<>> \/ \E y \in {"taskdone", "taskerror"} : before = <<About(y, t)>>
    PROVE  LinkInv'
<1>1. before \in Seq(ToBroker)
  <2>1. \A y \in {"taskdone", "taskerror"} : About(y, t) \in ToBroker
    BY DEF ToBroker
  <2>2. \A y \in {"taskdone", "taskerror"} : <<About(y, t)>> \in Seq(ToBroker)
    BY <2>1
  <2>3. <<>> \in Seq(ToBroker)
    BY EmptySeq
  <2> QED BY <2>2, <2>3
<1>2. /\ ~Has(before, Accepted(t))
      /\ \A u \in Task : u # t => ~Has(before, Answers(u))
  <2>1. CASE before = <<>>
    BY <2>1, EmptyHas
  <2>2. CASE \E y \in {"taskdone", "taskerror"} : before = <<About(y, t)>>
    <3>1. PICK y \in {"taskdone", "taskerror"} : before = <<About(y, t)>>
      BY <2>2
    <3>2. DOMAIN before = {1} /\ before[1] = About(y, t)
      BY <3>1
    <3>3. About(y, t) \notin Accepted(t) /\ \A u \in Task : u # t => About(y, t) \notin Answers(u)
      BY DEF About, Accepted, Answers, Ends
    <3> QED BY <3>2, <3>3 DEF Has
  <2> QED BY <2>1, <2>2
<1>3. /\ \A x \in Runner : x # r => toBroker'[x] = toBroker[x]
      /\ \A u \in Task : u # t => FewerAnswers(toBroker'[r], toBroker[r], u)
      /\ Has(toBroker'[r], Accepted(t)) => Has(toBroker[r], Accepted(t))
      /\ Once(toBroker[r], Accepted(t)) => Once(toBroker'[r], Accepted(t))
  <2>1. Held(r) \ {t} \subseteq Task /\ SendOffers(r, Held(r) \ {t}, before)
    BY DEF Held, FinishTask
  <2> QED BY <1>1, <1>2, <2>1, SendAnswers
<1>4. /\ held'[r][t] = "none" /\ \A u \in Task : u # t => held'[r][u] = held[r][u]
      /\ \A x \in Runner : x # r => held'[x] = held[x]
  BY HeldStatus DEF FinishTask
<1>5. Link(r, t)'
  <2>1. Link(r, t)
    BY DEF LinkInv
  <2>2. \A P : /\ Has(toRunner'[r], P) => Has(toRunner[r], P)
               /\ Once(toRunner[r], P) => Once(toRunner'[r], P)
    BY ReadFacts
  <2>3. ~Has(toRunner'[r], Accepts(t))
    BY <2>1, <2>2 DEF Link
  <2>4. Has(toRunner'[r], Settings(t)) => ~Has(toBroker'[r], Accepted(t))
    BY <1>3, <2>1, <2>2 DEF Link
  <2>5. Has(toBroker'[r], Accepted(t)) => call'[t].state # "task" /\ ~Has(toRunner'[r], Orders(t))
    BY <1>3, <2>1, <2>2 DEF Link
  <2>6. /\ Once(toRunner'[r], Accepts(t)) /\ Once(toRunner'[r], Settings(t))
        /\ Once(toBroker'[r], Accepted(t))
    BY <1>3, <2>1, <2>2 DEF Link
  <2>7. Mine(r, t)'
    BY <2>1 DEF Link, Mine
  <2> QED BY <1>4, <2>3, <2>4, <2>5, <2>6, <2>7 DEF Link
<1> QED BY <1>3, <1>4, <1>5, LinkOthers DEF Live

\* A task that runs is aborted.
LEMMA LinkAborts ==
    ASSUME TypeOK, LinkInv, NEW r \in Runner, NEW t \in Task, held[r][t] = "running",
           NEW s \in {"aborting:cancelled", "aborting:timeout"}, held' = [held EXCEPT ![r][t] = s],
           Reads(r, t), toBroker' = toBroker, call' = call, up' = up
    PROVE  LinkInv'
<1>1. /\ held'[r][t] = s /\ \A u \in Task : u # t => held'[r][u] = held[r][u]
      /\ \A x \in Runner : x # r => held'[x] = held[x]
  BY HeldStatus
<1>2. Link(r, t)'
  <2>1. Link(r, t)
    BY DEF LinkInv
  <2>2. \A P : /\ Has(toRunner'[r], P) => Has(toRunner[r], P)
               /\ Once(toRunner[r], P) => Once(toRunner'[r], P)
    BY ReadFacts
  <2>3. ~Has(toRunner'[r], Accepts(t)) /\ ~Has(toRunner'[r], Settings(t))
    BY <2>1, <2>2 DEF Link
  <2>4. ~Has(toBroker'[r], Accepted(t)) /\ ~Has(toBroker'[r], Ends(t))
    BY <2>1 DEF Link
  <2>5. /\ Once(toRunner'[r], Accepts(t)) /\ Once(toRunner'[r], Settings(t))
        /\ Once(toBroker'[r], Accepted(t))
    BY <2>1, <2>2 DEF Link
  <2>6. Mine(r, t)' /\ up'[r] # "off"
    BY <2>1 DEF Link, Mine
  <2> QED BY <1>1, <2>3, <2>4, <2>5, <2>6 DEF Link
<1>3. \A u \in Task : FewerAnswers(toBroker'[r], toBroker[r], u)
  BY DEF FewerAnswers
<1> QED BY <1>1, <1>2, <1>3, LinkOthers DEF Live

\* An offer was accepted: the runner takes the task, or rejects it.
LEMMA LinkOffered ==
    ASSUME TypeOK, LinkInv, NEW r \in Live, NEW o \in Offer, NEW t \in Task,
           toRunner[r] # <<>>, Head(toRunner[r]) = AcceptMessage(o, t), OfferAccepted(r, o, t),
           toRunner' = [toRunner EXCEPT ![r] = Tail(@)], call' = call, up' = up
    PROVE  LinkInv'
<1>1. /\ r \in Runner /\ up[r] # "off"
      /\ toRunner[r] \in Seq(ToRunner) /\ toBroker[r] \in Seq(ToBroker)
      /\ toRunner'[r] = Tail(toRunner[r])
      /\ \A x \in Runner : x # r => toRunner'[x] = toRunner[x]
      /\ Head(toRunner[r]).task = t
  BY DEF Live, TypeOK, AcceptMessage
<1>2. Reads(r, t)
  BY <1>1 DEF Reads
<1>3. PICK y \in {"taskaccepted", "taskrejected"} :
         /\ toBroker' = [toBroker EXCEPT ![r] = Append(@, About(y, t))]
         /\ \/ y = "taskaccepted" /\ held' = [held EXCEPT ![r][t] = "waitingForSettings"]
            \/ y = "taskrejected" /\ held' = held
  BY DEF OfferAccepted
<1>4. /\ \A x \in Runner : x # r => toBroker'[x] = toBroker[x] /\ held'[x] = held[x]
      /\ toBroker'[r] = Append(toBroker[r], About(y, t))
      /\ \A u \in Task : u # t => held'[r][u] = held[r][u]
      /\ \/ y = "taskaccepted" /\ held'[r][t] = "waitingForSettings"
         \/ y = "taskrejected" /\ held'[r][t] = held[r][t]
  BY <1>1, <1>3 DEF TypeOK
<1>5. \A u \in Task : u # t => FewerAnswers(toBroker'[r], toBroker[r], u)
  BY <1>1, <1>4, OtherAnswers
<1>6. Link(r, t)'
  <2>1. Link(r, t)
    BY <1>1 DEF LinkInv
  <2>2. Has(toRunner[r], Accepts(t)) /\ ~Has(toRunner'[r], Accepts(t))
    <3>1. Head(toRunner[r]) \in Accepts(t)
      BY DEF Accepts
    <3>2. /\ Has(toRunner[r], Accepts(t)) <=> Head(toRunner[r]) \in Accepts(t) \/ Has(Tail(toRunner[r]), Accepts(t))
          /\ Once(toRunner[r], Accepts(t)) /\ Head(toRunner[r]) \in Accepts(t) => ~Has(Tail(toRunner[r]), Accepts(t))
      BY <1>1, TailHas
    <3> QED BY <1>1, <2>1, <3>1, <3>2 DEF Link
  <2>3. ~Has(toRunner'[r], Settings(t)) /\ ~Has(toRunner'[r], Cancels(t))
    <3>1. \A P : Has(toRunner'[r], P) => Has(toRunner[r], P)
      BY <1>1, <1>2, ReadFacts
    <3> QED BY <2>1, <2>2, <3>1 DEF Link
  <2>4. ~Has(toRunner'[r], Orders(t))
    BY <2>2, <2>3, KindsHas
  <2>5. held[r][t] = "none" /\ call[t].state # "task" /\ ~Has(toBroker[r], Answers(t))
    BY <2>1, <2>2 DEF Link
  <2>6. ~Has(toBroker'[r], Ends(t)) /\ Once(toBroker'[r], Accepted(t))
        /\ (Has(toBroker'[r], Accepted(t)) => y = "taskaccepted")
    <3>1. /\ About(y, t) \in ToBroker /\ About(y, t) \notin Ends(t)
          /\ About(y, t) \in Accepted(t) => y = "taskaccepted"
      BY DEF ToBroker, About, Ends, Accepted
    <3>2. ~Has(toBroker[r], Accepted(t)) /\ ~Has(toBroker[r], Ends(t)) /\ Once(toBroker[r], Accepted(t))
      BY <2>5, KindsHas
    <3>3. \A P : /\ Has(Append(toBroker[r], About(y, t)), P) <=> Has(toBroker[r], P) \/ About(y, t) \in P
                 /\ Once(toBroker[r], P) /\ ~(Has(toBroker[r], P) /\ About(y, t) \in P)
                       => Once(Append(toBroker[r], About(y, t)), P)
      BY <1>1, <3>1, AppendHas
    <3> QED BY <1>4, <3>1, <3>2, <3>3
  <2>7. Once(toRunner'[r], Accepts(t)) /\ Once(toRunner'[r], Settings(t))
    BY <2>2, <2>3, KindsHas
  <2>8. Mine(r, t)'
    <3>1. Has(toRunner[r], Orders(t))
      BY <2>2, KindsHas
    <3> QED BY <2>1, <3>1 DEF Link, Mine
  <2>9. held'[r][t] \in {"none", "waitingForSettings"} /\ up'[r] # "off"
    BY <1>1, <1>4, <2>5
  <2> QED BY <2>2, <2>3, <2>4, <2>5, <2>6, <2>7, <2>8, <2>9 DEF Link
<1> QED BY <1>1, <1>2, <1>4, <1>5, <1>6, LinkOthers DEF Live

\* The settings have come: the task runs.
LEMMA LinkSettings ==
    ASSUME TypeOK, LinkInv, NEW r \in Live, NEW t \in Task,
           toRunner[r] # <<>>, Head(toRunner[r]) = About("tasksettings", t), ReceivedSettings(r, t),
           toRunner' = [toRunner EXCEPT ![r] = Tail(@)], call' = call, up' = up
    PROVE  LinkInv'
<1>1. /\ r \in Runner /\ up[r] # "off"
      /\ toRunner[r] \in Seq(ToRunner)
      /\ toRunner'[r] = Tail(toRunner[r])
      /\ \A x \in Runner : x # r => toRunner'[x] = toRunner[x]
      /\ Head(toRunner[r]).task = t
  BY DEF Live, TypeOK, About
<1>2. Reads(r, t)
  BY <1>1 DEF Reads
<1>3. /\ toBroker' = toBroker
      /\ \A x \in Runner : x # r => held'[x] = held[x]
      /\ \A u \in Task : u # t => held'[r][u] = held[r][u]
      /\ held'[r][t] = IF held[r][t] = "waitingForSettings" THEN "running" ELSE held[r][t]
  BY <1>1 DEF ReceivedSettings, TypeOK
<1>4. \A u \in Task : u # t => FewerAnswers(toBroker'[r], toBroker[r], u)
  BY <1>3 DEF FewerAnswers
<1>5. Link(r, t)'
  <2>1. Link(r, t)
    BY <1>1 DEF LinkInv
  <2>2. /\ Has(toRunner[r], Settings(t)) /\ ~Has(toRunner'[r], Settings(t))
        /\ ~Has(toRunner[r], Accepts(t)) /\ ~Has(toRunner'[r], Accepts(t))
        /\ Has(toRunner[r], Cancels(t)) => Has(toRunner'[r], Cancels(t))
    <3>1. Head(toRunner[r]) \in Settings(t) /\ Head(toRunner[r]) \notin Cancels(t)
      BY DEF Settings, Cancels, About
    <3>2. \A P : /\ Has(toRunner[r], P) <=> Head(toRunner[r]) \in P \/ Has(Tail(toRunner[r]), P)
                 /\ Once(toRunner[r], P) /\ Head(toRunner[r]) \in P => ~Has(Tail(toRunner[r]), P)
      BY <1>1, TailHas
    <3> QED BY <1>1, <2>1, <3>1, <3>2 DEF Link
  <2>3. held[r][t] \in {"none", "waitingForSettings"} /\ ~Has(toBroker[r], Accepted(t))
    BY <2>1, <2>2 DEF Link
  <2>4. held[r][t] = "waitingForSettings" => Wanted(r, t)'
    <3>1. held[r][t] = "waitingForSettings" => Wanted(r, t)
      BY <2>1, <2>2 DEF Link
    <3> QED BY <2>2, <3>1 DEF Wanted
  <2>5. Has(toBroker'[r], Ends(t)) => held'[r][t] = "none"
    BY <1>3, <2>1 DEF Link
  <2>6. Once(toRunner'[r], Accepts(t)) /\ Once(toRunner'[r], Settings(t)) /\ Once(toBroker'[r], Accepted(t))
    BY <1>3, <2>1, <2>2, KindsHas DEF Link
  <2>7. Mine(r, t)' /\ up'[r] # "off"
    <3>1. Has(toRunner[r], Orders(t))
      BY <2>2, KindsHas
    <3> QED BY <1>1, <2>1, <3>1 DEF Link, Mine
  <2>8. r \in Live' /\ held'[r][t] = "running" => Wanted(r, t)'
    BY <1>3, <2>3, <2>4
  <2> QED BY <1>3, <2>2, <2>3, <2>5, <2>6, <2>7, <2>8 DEF Link
<1> QED BY <1>1, <1>2, <1>3, <1>4, <1>5, LinkOthers DEF Live

\* A cancellation that is ignored.
LEMMA LinkIgnores ==
    ASSUME TypeOK, LinkInv, NEW r \in Runner, NEW t \in Task, Reads(r, t),
           held[r][t] \notin {"waitingForSettings", "running"},
           held' = held, toBroker' = toBroker, call' = call, up' = up
    PROVE  LinkInv'
<1>1. Link(r, t)
  BY DEF LinkInv
<1>2. \A P : /\ Has(toRunner'[r], P) => Has(toRunner[r], P)
             /\ Once(toRunner[r], P) => Once(toRunner'[r], P)
  BY ReadFacts
<1>3. Mine(r, t)'
  <2>1. Mine(r, t)
    BY <1>1 DEF Link
  <2> QED BY <1>2, <2>1 DEF Mine
<1>4. Has(toRunner'[r], Accepts(t)) =>
          /\ held'[r][t] = "none" /\ call'[t].state # "task"
          /\ ~Has(toRunner'[r], Settings(t)) /\ ~Has(toRunner'[r], Cancels(t))
          /\ ~Has(toBroker'[r], Answers(t))
  BY <1>1, <1>2 DEF Link
<1>5. Has(toRunner'[r], Settings(t)) => held'[r][t] = "none" /\ ~Has(toBroker'[r], Accepted(t))
  BY <1>1, <1>2 DEF Link
<1>6. Has(toBroker'[r], Accepted(t)) =>
          /\ held'[r][t] \in {"none", "waitingForSettings"} /\ call'[t].state # "task"
          /\ ~Has(toRunner'[r], Orders(t))
  BY <1>1, <1>2 DEF Link
<1>7. /\ Has(toBroker'[r], Ends(t)) => held'[r][t] = "none"
      /\ Once(toRunner'[r], Accepts(t)) /\ Once(toRunner'[r], Settings(t)) /\ Once(toBroker'[r], Accepted(t))
      /\ up'[r] = "off" => held'[r][t] = "none"
      /\ held'[r][t] # "running" /\ held'[r][t] # "waitingForSettings"
  BY <1>1, <1>2 DEF Link
<1>8. Link(r, t)'
  BY <1>3, <1>4, <1>5, <1>6, <1>7 DEF Link
<1>9. \A u \in Task : FewerAnswers(toBroker'[r], toBroker[r], u)
  BY DEF FewerAnswers
<1> QED BY <1>8, <1>9, LinkOthers DEF Live

\* A launcher defers the task and ends.
LEMMA LinkDefers ==
    ASSUME TypeOK, LinkInv, NEW r \in Runner, LauncherDefers(r)
    PROVE  LinkInv'
<1> DEFINE m == Head(toRunner[r])
<1>0. PICK t \in Task : t = m.task
  BY NextMessage, MessageCases DEF LauncherDefers
<1>1. /\ toRunner[r] \in Seq(ToRunner) /\ toBroker[r] \in Seq(ToBroker) /\ toRunner[r] # <<>>
      /\ m \in ToRunner /\ m.task = t
      /\ toRunner'[r] = Tail(toRunner[r]) /\ toBroker'[r] = Append(toBroker[r], About("taskdeferred", t))
      /\ \A x \in Runner : x # r => /\ toRunner'[x] = toRunner[x] /\ toBroker'[x] = toBroker[x]
                                    /\ up'[x] = up[x]
      /\ up'[r] = "gone" /\ held' = held /\ call' = call
  BY <1>0, NextMessage DEF LauncherDefers, TypeOK, brokerVars
<1>2. Reads(r, t)
  BY <1>1 DEF Reads
<1> HIDE DEF m
<1>3. m \in Accepts(t) \/ m \in Settings(t) \/ m \in Cancels(t)
  <2>1. /\ m.type = "taskofferaccept" => m.offer \in Offer /\ m = AcceptMessage(m.offer, m.task)
        /\ m.type \in {"taskofferaccept", "tasksettings", "taskcancel"}
        /\ m.type # "taskofferaccept" => m = About(m.type, m.task)
    BY <1>1, MessageCases
  <2> QED BY <1>1, <2>1 DEF Accepts, Settings, Cancels
<1>4. Link(r, t)
  BY DEF LinkInv
<1>5. /\ \A P : Has(toRunner[r], P) <=> m \in P \/ Has(Tail(toRunner[r]), P)
      /\ \A P : Once(toRunner[r], P) => Once(Tail(toRunner[r]), P)
      /\ \A P : Once(toRunner[r], P) /\ m \in P => ~Has(Tail(toRunner[r]), P)
  BY <1>1, TailHas DEF m
<1>6. ~Has(toRunner'[r], Accepts(t)) /\ Has(toRunner[r], Orders(t))
  <2>1. Has(toRunner[r], Orders(t))
    BY <1>3, <1>5, KindsHas
  <2>2. CASE m \in Accepts(t)
    BY <1>1, <1>4, <1>5, <2>1, <2>2 DEF Link
  <2>3. CASE m \in Settings(t) \/ m \in Cancels(t)
    <3>1. ~Has(toRunner[r], Accepts(t))
      BY <1>4, <1>5, <2>3 DEF Link
    <3> QED BY <1>1, <1>5, <2>1, <3>1
  <2> QED BY <1>3, <2>2, <2>3
<1>7. /\ Has(toBroker'[r], Accepted(t)) => Has(toBroker[r], Accepted(t))
      /\ Has(toBroker'[r], Ends(t)) => Has(toBroker[r], Ends(t))
      /\ Once(toBroker[r], Accepted(t)) => Once(toBroker'[r], Accepted(t))
  <2>1. /\ About("taskdeferred", t) \in ToBroker
        /\ About("taskdeferred", t) \notin Accepted(t) /\ About("taskdeferred", t) \notin Ends(t)
    BY DEF ToBroker, About, Accepted, Ends
  <2>2. \A P : /\ Has(Append(toBroker[r], About("taskdeferred", t)), P)
                     <=> Has(toBroker[r], P) \/ About("taskdeferred", t) \in P
               /\ Once(toBroker[r], P) /\ ~(Has(toBroker[r], P) /\ About("taskdeferred", t) \in P)
                     => Once(Append(toBroker[r], About("taskdeferred", t)), P)
    BY <1>1, <2>1, AppendHas
  <2> QED BY <1>1, <2>1, <2>2
<1>8. r \notin Live' /\ up'[r] # "off"
  BY <1>1 DEF Live
<1>9. Link(r, t)'
  <2>1. Mine(r, t)'
    BY <1>1, <1>4, <1>6 DEF Link, Mine
  <2>2. Has(toRunner'[r], Settings(t)) =>
           held'[r][t] \in {"none", "waitingForSettings"} /\ ~Has(toBroker'[r], Accepted(t))
    BY <1>1, <1>4, <1>5, <1>7 DEF Link
  <2>3. Has(toBroker'[r], Accepted(t)) =>
           /\ held'[r][t] \in {"none", "waitingForSettings"} /\ call'[t].state # "task"
           /\ ~Has(toRunner'[r], Orders(t))
    BY <1>1, <1>4, <1>5, <1>7 DEF Link
  <2>4. /\ Has(toBroker'[r], Ends(t)) => held'[r][t] = "none"
        /\ Once(toRunner'[r], Accepts(t)) /\ Once(toRunner'[r], Settings(t)) /\ Once(toBroker'[r], Accepted(t))
    BY <1>1, <1>4, <1>5, <1>7 DEF Link
  <2> QED BY <1>6, <1>8, <2>1, <2>2, <2>3, <2>4 DEF Link
<1>10. \A u \in Task : u # t => FewerAnswers(toBroker'[r], toBroker[r], u)
  BY <1>1, OtherAnswers
<1> QED BY <1>1, <1>2, <1>8, <1>9, <1>10, LinkOthers

\* What a runner does when a message comes.
LEMMA LinkRunnerReceives ==
    ASSUME TypeOK, LinkInv, NEW r \in Runner, RunnerReceives(r)
    PROVE  LinkInv'
<1> DEFINE m == Head(toRunner[r])
           t == m.task
<1>1. /\ r \in Live /\ toRunner[r] # <<>> /\ t \in Task /\ m \in ToRunner
      /\ toRunner' = [toRunner EXCEPT ![r] = Tail(@)] /\ call' = call /\ up' = up
      /\ \/ m.type = "taskofferaccept" /\ OfferAccepted(r, m.offer, t)
         \/ m.type = "tasksettings" /\ ReceivedSettings(r, t)
         \/ m.type = "taskcancel" /\ TaskCancelled(r, t)
  BY NextMessage, MessageCases DEF RunnerReceives, brokerVars
<1>2. Reads(r, t)
  BY <1>1 DEF Reads, TypeOK
<1>3. /\ m.type = "taskofferaccept" => m.offer \in Offer /\ m = AcceptMessage(m.offer, t)
      /\ m.type # "taskofferaccept" => m = About(m.type, t)
  BY <1>1, MessageCases
<1>4. CASE m.type = "taskofferaccept" /\ OfferAccepted(r, m.offer, t)
  BY <1>1, <1>3, <1>4, LinkOffered
<1>5. CASE m.type = "tasksettings" /\ ReceivedSettings(r, t)
  BY <1>1, <1>3, <1>5, LinkSettings
<1>6. CASE TaskCancelled(r, t)
  <2>1. CASE held[r][t] = "waitingForSettings" /\ FinishTask(r, t, <<>>)
    <3>1. held[r][t] # "none"
      BY <2>1
    <3> QED BY <1>1, <1>2, <2>1, <3>1, LinkFinish
  <2>2. CASE held[r][t] # "waitingForSettings"
    <3>1. /\ toBroker' = toBroker
          /\ held' = IF held[r][t] = "running" THEN [held EXCEPT ![r][t] = "aborting:cancelled"] ELSE held
      BY <1>6, <2>2 DEF TaskCancelled
    <3>2. CASE held[r][t] = "running"
      BY <1>1, <1>2, <3>1, <3>2, LinkAborts
    <3>3. CASE held[r][t] # "running"
      <4>1. held' = held /\ held[r][t] \notin {"waitingForSettings", "running"}
        BY <2>2, <3>1, <3>3
      <4> QED BY <1>1, <1>2, <3>1, <4>1, LinkIgnores
    <3> QED BY <3>2, <3>3
  <2> QED BY <1>6, <2>1, <2>2 DEF TaskCancelled
<1> QED BY <1>1, <1>4, <1>5, <1>6

\* At first no task is anywhere.
LEMMA LinkInit == Init => LinkInv
<1> SUFFICES ASSUME Init, NEW r \in Runner, NEW t \in Task PROVE Link(r, t)
  BY DEF LinkInv
<1>1. toRunner[r] = <<>> /\ toBroker[r] = <<>> /\ held[r][t] = "none"
  BY DEF Init
<1>2. \A P : ~Has(toRunner[r], P) /\ ~Has(toBroker[r], P) /\ Once(toRunner[r], P) /\ Once(toBroker[r], P)
  BY <1>1, EmptyHas
<1>3. Mine(r, t)
  BY <1>1, <1>2 DEF Mine
<1> QED BY <1>1, <1>2, <1>3 DEF Link

\* Messages and tasks fit after every step.
LEMMA LinkStep == TypeOK /\ MatchInv /\ OnlyKnownRunners /\ LinkInv /\ [Next]_vars => LinkInv'
<1> SUFFICES ASSUME TypeOK, MatchInv, OnlyKnownRunners, LinkInv, [Next]_vars PROVE LinkInv'
  OBVIOUS
<1>1. ASSUME held' = held, up' = up, toRunner' = toRunner, toBroker' = toBroker,
             \A t \in Task : call'[t] = call[t] \/ (call'[t] = NoCall /\ call[t].state # "task")
      PROVE  LinkInv'
  <2>1. ASSUME NEW r \in Runner, NEW t \in Task PROVE Link(r, t)'
    BY <1>1, LinkElsewhere DEF LinkInv
  <2> QED BY <2>1 DEF LinkInv
<1>2. ASSUME NEW q \in Request, TaskRequested(q) PROVE LinkInv'
  <2>1. PICK n, who, ids : Matched(n, who, ids, Append(requests, q), offers)
    BY <1>2, RequestedMatches
  <2>2. held' = held /\ up' = up /\ toBroker' = toBroker
    BY <1>2 DEF TaskRequested, runnerVars
  <2>3. \A r \in Runner, t \in Task : FewerAnswers(toBroker'[r], toBroker[r], t)
    BY <2>2 DEF FewerAnswers
  <2>4. \A r \in Runner, t \in Task : Link(r, t)'
    BY <2>1, <2>2, <2>3, LinkSettle
  <2> QED BY <2>4 DEF LinkInv
<1>3. ASSUME NEW t \in Task, AcceptTimesOut(t) PROVE LinkInv'
  <2>1. held' = held /\ up' = up /\ toRunner' = toRunner /\ toBroker' = toBroker
    BY <1>3 DEF AcceptTimesOut, runnerVars
  <2>2. \A u \in Task : call'[u] = call[u] \/ (call'[u] = NoCall /\ call[u].state # "task")
    BY <1>3 DEF AcceptTimesOut, GiveUp, TypeOK
  <2> QED BY <1>1, <2>1, <2>2
<1>4. ASSUME NEW r \in Runner, RunnerEnds(r) PROVE LinkInv'
  <2>1. Die({r}) /\ toRunner' = toRunner /\ toBroker' = toBroker /\ call' = call
    BY <1>4 DEF RunnerEnds, brokerVars
  <2> QED BY <2>1, LinkDies
<1>5. ASSUME NEW r \in Runner, RunnerStops(r) PROVE LinkInv'
  <2>1. /\ up[r] = "up" /\ up' = [up EXCEPT ![r] = "stopping"] /\ held' = held
        /\ toRunner' = toRunner /\ toBroker' = toBroker /\ call' = call
    BY <1>5 DEF RunnerStops, brokerVars
  <2>2. ASSUME NEW x \in Runner, NEW t \in Task PROVE Link(x, t)'
    <3>1. AlikeOrders(toRunner'[x], toRunner[x], t) /\ FewerAnswers(toBroker'[x], toBroker[x], t)
      BY <2>1 DEF AlikeOrders, FewerAnswers
    <3>2. (x \in Live' => x \in Live) /\ (up'[x] = "off" => up[x] = "off")
      BY <2>1 DEF Live, TypeOK
    <3>3. Quiet(x, t)
      BY <2>1, <3>1, <3>2 DEF Quiet
    <3> QED BY <3>3, LinkQuiet DEF LinkInv
  <2> QED BY <2>2 DEF LinkInv
<1>6. ASSUME NEW r \in Runner, OfferInterval(r) PROVE LinkInv'
  <2>1. /\ SendOffers(r, Held(r), <<>>) /\ Held(r) \subseteq Task /\ <<>> \in Seq(ToBroker)
        /\ held' = held /\ up' = up /\ toRunner' = toRunner /\ call' = call
    BY <1>6, EmptySeq DEF OfferInterval, brokerVars, Held
  <2>2. ASSUME NEW x \in Runner, NEW t \in Task PROVE Link(x, t)'
    <3>1. AlikeOrders(toRunner'[x], toRunner[x], t)
      BY <2>1 DEF AlikeOrders
    <3>2. FewerAnswers(toBroker'[x], toBroker[x], t)
      <4>1. CASE x = r
        <5>1. ~Has(<<>>, Answers(t))
          BY EmptyHas
        <5> QED BY <2>1, <4>1, <5>1, SendAnswers
      <4>2. CASE x # r
        <5>1. toBroker'[x] = toBroker[x]
          BY <2>1, <4>2, SendAnswers
        <5> QED BY <5>1 DEF FewerAnswers
      <4> QED BY <4>1, <4>2
    <3>3. Quiet(x, t)
      BY <2>1, <3>1, <3>2 DEF Quiet, Live
    <3> QED BY <3>3, LinkQuiet DEF LinkInv
  <2> QED BY <2>2 DEF LinkInv
<1>7. ASSUME NEW r \in Runner, NEW t \in Task, RunnerTaskTimesOut(r, t) \/ RunnerTaskEnds(r, t)
      PROVE  LinkInv'
  <2>1. call' = call /\ up' = up /\ toRunner' = toRunner /\ Reads(r, t)
    BY <1>7 DEF RunnerTaskTimesOut, RunnerTaskEnds, brokerVars, Reads
  <2>2. ASSUME NEW before, FinishTask(r, t, before), held[r][t] # "none",
               before = <<>> \/ \E y \in {"taskdone", "taskerror"} : before = <<About(y, t)>>
        PROVE  LinkInv'
    BY <2>1, <2>2, LinkFinish
  <2>3. CASE /\ held[r][t] = "running" /\ toBroker' = toBroker
             /\ held' = [held EXCEPT ![r][t] = "aborting:timeout"]
    BY <2>1, <2>3, LinkAborts
  <2>4. CASE RunnerTaskTimesOut(r, t)
    BY <2>2, <2>3, <2>4 DEF RunnerTaskTimesOut
  <2>5. CASE RunnerTaskEnds(r, t)
    BY <2>2, <2>5 DEF RunnerTaskEnds
  <2> QED BY <1>7, <2>4, <2>5
<1>8. ASSUME NEW i \in DOMAIN offers, OfferExpires(i) PROVE LinkInv'
  BY <1>1, <1>8 DEF OfferExpires, runnerVars
<1>9. CASE UNCHANGED vars
  BY <1>1, <1>9 DEF vars, state, runnerVars, brokerVars
<1> QED BY <1>2, <1>3, <1>4, <1>5, <1>6, <1>7, <1>8, <1>9, LinkReceives, LinkTimesOut, LinkConnects,
           LinkCloses, LinkRunnerReceives, LinkDefers DEF Next, Step

-----------------------------------------------------------------------------
(* Results.                                                                *)

IInv == TypeOK /\ MatchInv /\ RunnersBounded /\ LinkInv

\* No capacity is exceeded in the beginning, when nothing is there.
LEMMA BoundedInit == Init => RunnersBounded
<1> SUFFICES ASSUME Init PROVE RunnersBounded
  OBVIOUS
<1>1. TypeOK
  BY InitTyped
<1>2. OnlyKnownRunners
  <2>1. DOMAIN offers = {} /\ Tasks = {}
    BY DEF Init, Tasks, NoCall
  <2> QED BY <2>1 DEF OnlyKnownRunners
<1>3. \A r \in Runner : Fits(r)
  <2>1. \A r \in Runner : open[r] = {} /\ Held(r) = {}
    BY DEF Init, Held
  <2> QED BY <1>1, <2>1, FitsEmpty
<1> QED BY <1>2, <1>3 DEF RunnersBounded, WithinCapacity, Fits

\* Every step keeps the offers and tasks within the capacity of known runners.
LEMMA BoundedStep ==
    ASSUME TypeOK, TypeOK', MatchInv, RunnersBounded, LinkInv, [Next]_vars
    PROVE  RunnersBounded'
<1>1. fleet' = fleet
  BY DEF Next, vars
<1>2. \A r \in Runner, t \in Task : Mine(r, t)
  BY DEF LinkInv, Link
<1>3. OnlyKnownRunners'
  BY <1>2, KnownStep DEF RunnersBounded
<1>4. \A r \in Runner \ fleet.launchers : Fits(r)
  BY DEF RunnersBounded, WithinCapacity, Fits
<1>5. \A r \in Runner \ fleet.launchers : Fits(r)'
  BY <1>4, FitsStep
<1>6. WithinCapacity'
  BY <1>1, <1>5 DEF WithinCapacity, Fits
<1> QED BY <1>3, <1>6 DEF RunnersBounded

\* The tasks agree, as the links say.
LEMMA LinkGives == TypeOK /\ LinkInv => TasksAgree
<1> SUFFICES ASSUME TypeOK, LinkInv PROVE TasksAgree
  OBVIOUS
<1>1. ASSUME NEW r \in Runner, NEW i \in DOMAIN toRunner[r], toRunner[r][i].type = "tasksettings"
      PROVE  held[r][toRunner[r][i].task] \in {"none", "waitingForSettings"}
  <2> DEFINE m == toRunner[r][i]
  <2>1. m \in ToRunner
    <3>1. toRunner[r] \in Seq(ToRunner)
      BY DEF TypeOK
    <3> QED BY <3>1, LenProperties, ElementOfSeq
  <2>2. m.task \in Task /\ m = About("tasksettings", m.task)
    BY <1>1, <2>1, MessageCases
  <2>3. Has(toRunner[r], Settings(m.task))
    BY <2>2 DEF Has, Settings
  <2> QED BY <2>2, <2>3 DEF LinkInv, Link
<1>2. ASSUME NEW r \in Live, NEW t \in Task, held[r][t] = "running"
      PROVE  \/ call[t].state = "task" /\ call[t].runner = r
             \/ About("taskcancel", t) \in ToSet(toRunner[r])
  <2>1. r \in Runner
    BY DEF Live
  <2>2. Wanted(r, t)
    BY <1>2, <2>1 DEF LinkInv, Link
  <2>3. Has(toRunner[r], Cancels(t)) => About("taskcancel", t) \in ToSet(toRunner[r])
    BY DEF Has, Cancels, ToSet
  <2> QED BY <2>2, <2>3 DEF Wanted
<1> QED BY <1>1, <1>2 DEF TasksAgree, SettingsExpected, RunsForSomebody

\* The inductive invariant holds in every reachable state.
LEMMA Inductive == Spec => []IInv
<1>1. Init => IInv
  BY InitTyped, MatchInit, BoundedInit, LinkInit DEF IInv
<1>2. IInv /\ [Next]_vars => IInv'
  <2> SUFFICES ASSUME IInv, [Next]_vars PROVE IInv'
    OBVIOUS
  <2>1. TypeOK'
    BY TypeStep DEF IInv
  <2>2. MatchInv' /\ LinkInv' /\ RunnersBounded'
    BY <2>1, MatchStep, LinkStep, BoundedStep DEF IInv, RunnersBounded
  <2> QED BY <2>1, <2>2 DEF IInv
<1> QED BY <1>1, <1>2, PTL DEF Spec

\* Every state is of the type.
THEOREM TypeCorrect == Spec => []TypeOK
<1>1. IInv => TypeOK
  BY DEF IInv
<1> QED BY <1>1, Inductive, PTL

\* acceptInProgress is a lock, and no request that waits leaves the list:
\* matching goes through rejections, deferrals, late answers and timeouts with
\* each request in at most one acceptOffer call.
THEOREM RequestsAreMatched == Spec => []RequestsMatched
<1>1. IInv => RequestsMatched
  BY MatchGives DEF IInv
<1> QED BY <1>1, Inductive, PTL

\* The broker has exactly one task for a request that waits for an answer, and
\* none for any other.
THEOREM TasksHaveRequesters == Spec => []TaskHasRequester
<1>1. IInv => TaskHasRequester
  BY MatchGives DEF IInv
<1> QED BY <1>1, Inductive, PTL

\* What the broker counts on belongs to registered runners, and no runner
\* promises more than its capacity.
THEOREM RunnersAreBounded == Spec => []RunnersBounded
<1>1. IInv => RunnersBounded
  BY DEF IInv
<1> QED BY <1>1, Inductive, PTL

\* Settings never meet a task that runs or is aborted, and no task runs in a
\* connected runner for nobody.
THEOREM TasksDoAgree == Spec => []TasksAgree
<1>1. IInv => TasksAgree
  BY LinkGives DEF IInv
<1> QED BY <1>1, Inductive, PTL
=============================================================================
