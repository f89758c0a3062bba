---------------------- MODULE WorkflowActivation_proofs ----------------------
(***************************************************************************)
(* The activation of a workflow, for every shape it may have, any number   *)
(* of updates, deletions, faults and calls at a time: types, that what     *)
(* listens and what will be tried again has an owner, and that the memory  *)
(* agrees with the row when nothing is in progress.                        *)
(*                                                                         *)
(* As long as nothing was left astray, a call that activates the workflow  *)
(* is alone from its first step to its last. So each call may rely on what *)
(* it found at its step before (Phase), and between calls the memory is    *)
(* that of the last one (InStep). That an active workflow is not forgotten *)
(* needs one thing more: until it runs or will be tried again, some call   *)
(* has still to see to it (Attended).                                      *)
(***************************************************************************)
EXTENDS WorkflowActivation, FiniteSetTheorems, TLAPS

Stamped == [id : Nat, version : Nat]
Call == [id : Nat, kind : Kind, at : At, version : Nat, want : BOOLEAN, nodes : SUBSET Nat,
         tasks : Nat]

\* A call has no nodes before it starts or closes some, and no crons before it registers
\* some, which are those it has to register at most; one at the start reads
\* the row first, one that drops the workflow has removed it already, and a retry
\* goes straight to its triggers.
GoodCall(c) ==
    /\ c \in Call /\ IsFiniteSet(c.nodes)
    /\ c.at \in {"read", "removing", "saving", "saved", "finding"} => c.nodes = {}
    /\ c.at \in {"read", "removing", "closing", "saving", "saved", "finding"} => c.tasks = 0
    /\ c.at = "read" => c.kind = "boot"
    /\ c.at = "removing" => c.kind # "drop"
    /\ c.kind = "retry" => c.at \in Adding \ {"finding"}

GoodCalls(cs) == IsFiniteSet(cs) /\ \A c \in cs : GoodCall(c)

GoodEntry ==
    /\ entry \in [on : BOOLEAN, responses : SUBSET Nat] /\ IsFiniteSet(entry.responses)
    /\ IF entry.on THEN Cardinality(entry.responses) = shape.triggers ELSE entry = NoEntry

Typed ==
    /\ shape \in Shapes /\ uses \in Nat
    /\ row \in [state : {"active", "inactive", "deleted"}, version : Nat]
    /\ GoodEntry
    /\ listening \subseteq Stamped /\ IsFiniteSet(listening)
    /\ crons \in Seq(Nat)
    /\ timers \subseteq Stamped /\ IsFiniteSet(timers) /\ \A t \in timers : t.id # NoQueue
    /\ queued \in Nat
    /\ GoodCalls(calls)

-----------------------------------------------------------------------------
(* New ids.                                                                *)

\* A number that is not in use can be found.
LEMMA UnusedIsNew ==
    ASSUME NEW S, IsFiniteSet(S)
    PROVE  Unused(S) \in Nat /\ Unused(S) # 0 /\ Unused(S) \notin S
<1> DEFINE n == Cardinality(S)
<1>1. n \in Nat
  BY FS_CardinalityType
<1>2. \E k \in 1 .. (n + 1) : k \notin S
  <2> SUFFICES ASSUME 1 .. (n + 1) \subseteq S PROVE FALSE
    OBVIOUS
  <2>1. Cardinality(1 .. (n + 1)) = n + 1
    BY <1>1, FS_Interval
  <2>2. Cardinality(1 .. (n + 1)) <= n
    BY FS_Subset
  <2> QED BY <1>1, <2>1, <2>2
<1> QED BY <1>1, <1>2 DEF Unused

\* What a finite set of records has as a field is finite.
LEMMA IdsAreFinite == ASSUME NEW S, IsFiniteSet(S) PROVE IsFiniteSet(Ids(S))
<1> DEFINE f == [x \in S |-> x.id]
<1>1. f \in Surjection(S, Ids(S))
  BY DEF Surjection, Ids
<1> QED BY <1>1, FS_Surjection

LEMMA IdsOfOneMore ==
    ASSUME NEW S, NEW n, NEW v PROVE Ids(S \cup {[id |-> n, version |-> v]}) = Ids(S) \cup {n}
<1> DEFINE r == [id |-> n, version |-> v]
<1>1. r.id = n
  OBVIOUS
<1> HIDE DEF r
<1>2. Ids(S \cup {r}) = Ids(S) \cup {n}
  BY <1>1 DEF Ids
<1> QED BY <1>2 DEF r

LEMMA NodesAreFinite == ASSUME GoodCalls(calls) PROVE IsFiniteSet(UNION {c.nodes : c \in calls})
<1> DEFINE T == {c.nodes : c \in calls}
           f == [c \in calls |-> c.nodes]
<1>1. f \in Surjection(calls, T)
  BY DEF Surjection
<1>2. IsFiniteSet(T)
  BY <1>1, FS_Surjection DEF GoodCalls
<1>3. \A t \in T : IsFiniteSet(t)
  BY DEF GoodCalls, GoodCall
<1> HIDE DEF T
<1> QED BY <1>2, <1>3, FS_UNION DEF T

\* What is started, queued or called anew can be told from all that there is.
LEMMA NewIds ==
    ASSUME Typed
    PROVE  /\ NewCall \in Nat
           /\ NewTimer \in Nat /\ NewTimer # NoQueue
           /\ NewListener \in Nat /\ NewListener \notin Ids(listening) \cup entry.responses
           /\ \A c \in calls : NewListener \notin c.nodes
<1>1. NewCall \in Nat
  BY UnusedIsNew, IdsAreFinite DEF NewCall, Typed, GoodCalls
<1>2. NewTimer \in Nat /\ NewTimer # NoQueue
  <2>1. IsFiniteSet(Ids(timers) \cup {queued})
    BY IdsAreFinite, FS_AddElement DEF Typed
  <2> QED BY <2>1, UnusedIsNew DEF NewTimer, NoQueue
<1>3. IsFiniteSet(Ids(listening) \cup entry.responses \cup UNION {c.nodes : c \in calls})
  BY IdsAreFinite, NodesAreFinite, FS_Union DEF Typed, GoodEntry
<1>4. NewListener \in Nat /\ NewListener \notin Ids(listening) \cup entry.responses \cup UNION {c.nodes : c \in calls}
  BY <1>3, UnusedIsNew DEF NewListener
<1> QED BY <1>1, <1>2, <1>4

\* Crons that are registered come after those there are.
LEMMA CronsRegistered ==
    ASSUME NEW c, c.version \in Nat, NEW n \in Nat, crons \in Seq(Nat), Cron(c, n)
    PROVE  /\ crons' \in Seq(Nat) /\ Len(crons') = Len(crons) + n
           /\ \A i \in DOMAIN crons' :
                (i \in DOMAIN crons /\ crons'[i] = crons[i]) \/ crons'[i] = c.version
<1> DEFINE t == [i \in 1..n |-> c.version]
<1>1. t \in Seq(Nat) /\ Len(t) = n /\ \A i \in 1..n : t[i] = c.version
  OBVIOUS
<1> HIDE DEF t
<1>2. crons' = crons \o t
  BY DEF Cron, t
<1>3. crons' \in Seq(Nat) /\ Len(crons') = Len(crons) + n
  <2>1. crons \o t \in Seq(Nat) /\ Len(crons \o t) = Len(crons) + Len(t)
    BY <1>1
  <2> QED BY <1>1, <1>2, <2>1
<1>4. ASSUME NEW i \in DOMAIN crons'
      PROVE  (i \in DOMAIN crons /\ crons'[i] = crons[i]) \/ crons'[i] = c.version
  <2>1. i \in 1..(Len(crons) + n) /\ DOMAIN crons = 1..Len(crons)
    BY <1>3
  <2>2. CASE i <= Len(crons)
    BY <1>1, <1>2, <2>1, <2>2
  <2>3. CASE i > Len(crons)
    <3>1. i - Len(crons) \in 1..n
      BY <2>1, <2>3
    <3>2. crons'[i] = t[i - Len(crons)]
      BY <1>1, <1>2, <2>1, <2>3
    <3> QED BY <1>1, <3>1, <3>2
  <2> QED BY <2>1, <2>2, <2>3
<1> QED BY <1>3, <1>4

-----------------------------------------------------------------------------
(* Types.                                                                  *)

LEMMA CallEnds == ASSUME NEW cs, NEW c, GoodCalls(cs) PROVE GoodCalls(cs \ {c})
BY FS_RemoveElement DEF GoodCalls

LEMMA CallBegins ==
    ASSUME NEW cs, NEW d, GoodCalls(cs), GoodCall(d) PROVE GoodCalls(cs \cup {d})
BY FS_AddElement DEF GoodCalls

LEMMA CallGoesOn ==
    ASSUME NEW c, NEW d, GoodCalls(calls), GoodCall(d) PROVE GoodCalls(Becomes(c, d))
BY CallEnds, CallBegins DEF Becomes

\* The initial state is well typed.
LEMMA InitTyped == Init => Typed
<1> SUFFICES ASSUME Init PROVE Typed
  OBVIOUS
<1>1. GoodEntry
  BY FS_EmptySet DEF Init, NoEntry, GoodEntry
<1>2. GoodCall(NoCall)
  BY FS_EmptySet DEF GoodCall, NoCall, Call, Kind, At, Adding
<1>3. GoodCalls(calls)
  BY <1>2, FS_EmptySet, FS_Singleton DEF Init, GoodCalls
<1> QED BY <1>1, <1>3, FS_EmptySet DEF Init, Typed, NoQueue

\* So is each new call.
LEMMA NewCallIsGood ==
    ASSUME Typed, NEW v \in Nat, NEW w \in BOOLEAN
    PROVE  /\ \A a \in {"removing", "saving"} :
                /\ GoodCall([NoCall EXCEPT !.id = NewCall, !.kind = "update", !.want = w, !.version = v, !.at = a])
                /\ GoodCall([NoCall EXCEPT !.id = NewCall, !.kind = "delete", !.at = a])
           /\ GoodCall([NoCall EXCEPT !.id = NewCall, !.kind = "retry", !.at = "starting", !.version = v])
           /\ GoodCall([NoCall EXCEPT !.id = NewCall, !.kind = "drop", !.at = "closing",
                                      !.nodes = entry.responses])
<1>1. NewCall \in Nat /\ IsFiniteSet(entry.responses) /\ entry.responses \in SUBSET Nat
  BY NewIds DEF Typed, GoodEntry
<1>2. \A a \in {"removing", "saving"} :
        GoodCall([NoCall EXCEPT !.id = NewCall, !.kind = "update", !.want = w, !.version = v, !.at = a])
  BY <1>1, FS_EmptySet DEF GoodCall, NoCall, Call, Kind, At, Adding
<1>3. \A a \in {"removing", "saving"} :
        GoodCall([NoCall EXCEPT !.id = NewCall, !.kind = "delete", !.at = a])
  BY <1>1, FS_EmptySet DEF GoodCall, NoCall, Call, Kind, At, Adding
<1>4. GoodCall([NoCall EXCEPT !.id = NewCall, !.kind = "retry", !.at = "starting", !.version = v])
  BY <1>1, FS_EmptySet DEF GoodCall, NoCall, Call, Kind, At, Adding
<1>5. GoodCall([NoCall EXCEPT !.id = NewCall, !.kind = "drop", !.at = "closing",
                              !.nodes = entry.responses])
  BY <1>1 DEF GoodCall, NoCall, Call, Kind, At, Adding
<1> QED BY <1>2, <1>3, <1>4, <1>5

\* The queue of retries is well typed after it is changed.
LEMMA QueueTyped ==
    ASSUME Typed, NEW v \in Nat,
           \/ Unqueue
           \/ Enqueue(v)
           \/ queued' = NewTimer /\ timers' = timers \cup {[id |-> NewTimer, version |-> v]}
    PROVE  /\ timers' \subseteq Stamped /\ IsFiniteSet(timers') /\ \A t \in timers' : t.id # NoQueue
           /\ queued' \in Nat
<1>1. IsFiniteSet({t \in timers : t.id # queued})
  BY FS_Subset DEF Typed
<1>2. [id |-> NewTimer, version |-> v] \in Stamped
  BY NewIds DEF Stamped
<1>3. /\ IsFiniteSet({t \in timers : t.id # queued} \cup {[id |-> NewTimer, version |-> v]})
      /\ IsFiniteSet(timers \cup {[id |-> NewTimer, version |-> v]})
  BY <1>1, FS_AddElement DEF Typed
<1>4. CASE Unqueue
  BY <1>1, <1>4 DEF Unqueue, Typed, NoQueue
<1>5. CASE Enqueue(v)
  BY <1>2, <1>3, <1>5, NewIds DEF Enqueue, Typed
<1>6. CASE queued' = NewTimer /\ timers' = timers \cup {[id |-> NewTimer, version |-> v]}
  BY <1>2, <1>3, <1>6, NewIds DEF Typed
<1> QED BY <1>4, <1>5, <1>6

\* The steps of a call keep the types.
LEMMA CallTyped ==
    ASSUME Typed, NEW c \in calls,
           Continue(c) \/ CloseFails(c) \/ TriggerFails(c) \/ PollFails(c)
    PROVE  Typed'
<1> USE DEF memory
<1>a. GoodCall(c) /\ GoodCalls(calls)
  BY DEF Typed, GoodCalls
<1>b. GoodCalls(calls \ {c})
  BY <1>a, CallEnds
<1>c. \A a \in {"ending", "failing"} :
        c.at \in Adding => GoodCalls(Among(c, a))
  <2> TAKE a \in {"ending", "failing"}
  <2>1. c.at \in Adding => GoodCall([c EXCEPT !.at = a])
    BY <1>a DEF GoodCall, Call, At, Adding
  <2> QED BY <1>a, <2>1, CallGoesOn DEF Among
<1>d. c.at = "closing" => GoodCalls(AfterClosing(c))
  <2> HAVE c.at = "closing"
  <2>1. GoodCall([c EXCEPT !.nodes = {}, !.at = "saving"])
    BY <1>a, FS_EmptySet DEF GoodCall, Call, At, Adding
  <2> QED BY <1>a, <1>b, <2>1, CallGoesOn DEF AfterClosing
<1>1. CASE ReadAtStart(c)
  <2>1. GoodCall([c EXCEPT !.version = row.version, !.at = "starting"])
    BY <1>a DEF GoodCall, Call, At, Adding, Typed
  <2> QED BY <1>1, <1>a, <1>b, <2>1, CallGoesOn DEF ReadAtStart, Goes, Typed, GoodEntry
<1>2. CASE Save(c)
  <2>1. GoodCall([c EXCEPT !.at = "saved"])
    BY <1>2, <1>a DEF Save, GoodCall, Call, At, Adding
  <2>2. row' \in [state : {"active", "inactive", "deleted"}, version : Nat]
    BY <1>2, <1>a DEF Save, GoodCall, Call, Typed
  <2> QED BY <1>2, <1>a, <1>b, <2>1, <2>2, CallGoesOn DEF Save, Goes, Among, Typed, GoodEntry
<1>3. CASE Reread(c)
  <2>1. GoodCall([c EXCEPT !.at = "finding"])
    BY <1>3, <1>a DEF Reread, GoodCall, Call, At, Adding
  <2> QED BY <1>3, <1>a, <1>b, <2>1, CallGoesOn DEF Reread, Goes, Among, Typed, GoodEntry
<1>4. CASE Remove(c)
  <2>1. GoodCall([c EXCEPT !.at = "saving"]) /\ GoodCall([c EXCEPT !.nodes = entry.responses, !.at = "closing"])
    BY <1>4, <1>a DEF Remove, GoodCall, Call, At, Adding, Typed, GoodEntry
  <2>2. GoodCalls(calls')
    BY <1>4, <1>a, <2>1, CallGoesOn DEF Remove, Goes, Among
  <2>3. /\ timers' \subseteq Stamped /\ IsFiniteSet(timers') /\ \A t \in timers' : t.id # NoQueue
        /\ queued' \in Nat
    BY <1>4, QueueTyped DEF Remove
  <2>4. GoodEntry'
    BY <1>4, FS_EmptySet DEF Remove, Typed, GoodEntry, NoEntry
  <2> QED BY <1>4, <2>2, <2>3, <2>4, FS_EmptySet DEF Remove, Typed
<1>5. CASE Closed(c)
  <2>1. IsFiniteSet(listening')
    BY <1>5, FS_Subset DEF Closed, Typed
  <2>2. GoodEntry'
    BY <1>5, FS_EmptySet DEF Closed, GoodEntry, NoEntry
  <2> QED BY <1>5, <1>d, <2>1, <2>2 DEF Closed, Goes, Typed
<1>6. CASE Find(c)
  <2>1. GoodCall([c EXCEPT !.version = row.version, !.at = "starting"])
    BY <1>a DEF GoodCall, Call, At, Adding, Typed
  <2> QED BY <1>6, <1>a, <1>c, <2>1, CallGoesOn DEF Find, Adding, Goes, Typed, GoodEntry
<1>7. CASE RunTrigger(c)
  <2>1. IsFiniteSet(c.nodes \cup {NewListener})
    BY <1>a, FS_AddElement DEF GoodCall
  <2>2. GoodCall([c EXCEPT !.nodes = @ \cup {NewListener}])
    BY <1>7, <1>a, <2>1, NewIds DEF RunTrigger, GoodCall, Call, Adding
  <2>3. IsFiniteSet(listening') /\ listening' \subseteq Stamped
    <3>1. [id |-> NewListener, version |-> c.version] \in Stamped
      BY <1>a, NewIds DEF Stamped, GoodCall, Call
    <3> QED BY <1>7, <3>1, FS_AddElement DEF RunTrigger, Typed
  <2> QED BY <1>7, <1>a, <2>2, <2>3, CallGoesOn DEF RunTrigger, Goes, Typed, GoodEntry
<1>f. c.version \in Nat /\ crons \in Seq(Nat) /\ shape.rules \in Nat /\ shape.polls \in Nat /\ c.tasks \in Nat
  BY <1>a, ActivationBounds DEF GoodCall, Call, Typed
<1>8. CASE Register(c)
  <2>1. GoodCall([c EXCEPT !.at = IF shape.polls > 0 THEN "polling" ELSE "ending"])
    BY <1>8, <1>a DEF Register, GoodCall, Call, At, Adding
  <2>2. GoodEntry'
    BY <1>8, <1>a DEF Register, GoodEntry, GoodCall, Call
  <2> QED BY <1>8, <1>a, <2>1, <2>2, CallGoesOn DEF Register, Goes, Among, Typed
<1>17. CASE RunSchedule(c)
  <2>1. PICK n \in 1..(shape.rules - c.tasks) : Cron(c, n) /\ Goes(Becomes(c, [c EXCEPT !.tasks = @ + n]))
    BY <1>17 DEF RunSchedule
  <2>2. GoodCall([c EXCEPT !.tasks = @ + n])
    <3>1. c.tasks + n \in Nat
      BY <1>f
    <3> DEFINE k == c.tasks + n
    <3> HIDE DEF k
    <3>2. GoodCall([c EXCEPT !.tasks = k])
      BY <1>17, <1>a, <3>1 DEF RunSchedule, GoodCall, Call, Adding, k
    <3> QED BY <3>2 DEF k
  <2>3. crons' \in Seq(Nat)
    BY <1>f, <2>1, CronsRegistered
  <2> QED BY <1>17, <1>a, <2>1, <2>2, <2>3, CallGoesOn DEF RunSchedule, Goes, Typed, GoodEntry
<1>9. CASE Poll(c)
  <2> DEFINE a(n) == IF c.tasks + n = Tasks THEN "ending" ELSE "polling"
  <2>1. PICK n \in 1..(Tasks - c.tasks) :
          Cron(c, n) /\ Goes(Becomes(c, [c EXCEPT !.tasks = @ + n, !.at = a(n)]))
    BY <1>9 DEF Poll
  <2>2. GoodCall([c EXCEPT !.tasks = @ + n, !.at = a(n)])
    <3> DEFINE k == c.tasks + n
    <3>1. a(n) \in {"ending", "polling"} /\ k \in Nat
      BY <1>f DEF Tasks
    <3> HIDE DEF a, k
    <3>2. GoodCall([c EXCEPT !.tasks = k, !.at = a(n)])
      BY <1>9, <1>a, <3>1 DEF Poll, GoodCall, Call, At, Adding
    <3> QED BY <3>2 DEF k
  <2>3. crons' \in Seq(Nat)
    BY <1>f, <2>1, CronsRegistered DEF Tasks
  <2>4. GoodCalls(calls')
    BY <1>a, <2>1, <2>2, CallGoesOn DEF Goes
  <2> QED BY <1>9, <2>3, <2>4 DEF Poll, Typed, GoodEntry
<1>10. CASE Activated(c)
  BY <1>10, <1>b, QueueTyped DEF Activated, Goes, Typed, GoodEntry
<1>11. CASE GiveUp(c)
  BY <1>11, <1>b DEF GiveUp, Goes, Typed, GoodEntry
<1>12. CASE RetryLater(c)
  <2>1. c.version \in Nat
    BY <1>a DEF GoodCall, Call
  <2> QED BY <1>12, <1>b, <2>1, QueueTyped DEF RetryLater, Goes, Typed, GoodEntry
<1>13. CASE RetryAgain(c)
  <2>1. c.version \in Nat
    BY <1>a DEF GoodCall, Call
  <2> QED BY <1>13, <1>b, <2>1, QueueTyped DEF RetryAgain, Goes, Typed, GoodEntry
<1>14. CASE CloseFails(c)
  <2>1. IsFiniteSet(listening') /\ listening' \subseteq Stamped
    BY <1>14, FS_Subset DEF CloseFails, Typed
  <2>2. GoodEntry'
    <3>1. (entry' = entry \/ entry' = NoEntry) /\ shape' = shape
      BY <1>14 DEF CloseFails
    <3>2. CASE entry' = entry
      BY <3>1, <3>2 DEF Typed, GoodEntry, NoEntry
    <3>3. CASE entry' = NoEntry
      BY <3>3, FS_EmptySet DEF GoodEntry, NoEntry
    <3> QED BY <3>1, <3>2, <3>3
  <2> QED BY <1>14, <1>b, <1>d, <2>1, <2>2 DEF CloseFails, Typed
<1>15. CASE TriggerFails(c)
  <2>1. PICK n \in 0..(shape.rules - c.tasks) : Cron(c, n) /\ Fails(c, c.tasks + n)
    BY <1>15 DEF TriggerFails
  <2>2. crons' \in Seq(Nat)
    BY <1>f, <2>1, CronsRegistered
  <2> QED BY <1>15, <1>c, <2>1, <2>2 DEF TriggerFails, Fails, Adding, Typed, GoodEntry
<1>16. CASE PollFails(c)
  <2>1. GoodEntry'
    BY <1>16, FS_EmptySet DEF PollFails, Typed, GoodEntry, NoEntry
  <2>2. PICK n \in 0..(Tasks - c.tasks - 1) : Cron(c, n) /\ Fails(c, c.tasks + n)
    BY <1>16 DEF PollFails
  <2>3. crons' \in Seq(Nat)
    BY <1>f, <2>2, CronsRegistered DEF Tasks
  <2> QED BY <1>16, <1>c, <2>1, <2>2, <2>3 DEF PollFails, Fails, Adding, Typed
<1> QED BY <1>1, <1>2, <1>3, <1>4, <1>5, <1>6, <1>7, <1>8, <1>9, <1>10, <1>11, <1>12, <1>13,
           <1>14, <1>15, <1>16, <1>17 DEF Continue

\* Every step keeps the types.
LEMMA NextTyped == Typed /\ [Next]_vars => Typed'
<1> USE DEF memory
<1> SUFFICES ASSUME Typed, [Next]_vars PROVE Typed'
  OBVIOUS
<1>1. CASE Update
  <2>1. PICK w \in BOOLEAN : Goes(calls \cup
           {[NoCall EXCEPT !.id = NewCall, !.kind = "update", !.want = w, !.version = uses + 1,
                           !.at = IF row.state = "active" THEN "removing" ELSE "saving"]})
    BY <1>1 DEF Update
  <2>2. GoodCalls(calls')
    <3>1. uses + 1 \in Nat
      BY DEF Typed
    <3>2. GoodCall([NoCall EXCEPT !.id = NewCall, !.kind = "update", !.want = w, !.version = uses + 1,
                           !.at = IF row.state = "active" THEN "removing" ELSE "saving"])
      BY <3>1, NewCallIsGood
    <3> QED BY <2>1, <3>2, CallBegins DEF Goes, Typed
  <2> QED BY <1>1, <2>2 DEF Update, Typed, GoodEntry
<1>2. CASE Delete
  <2>1. GoodCalls(calls')
    BY <1>2, NewCallIsGood, CallBegins DEF Delete, Goes, Typed
  <2> QED BY <1>2, <2>1 DEF Delete, Typed, GoodEntry
<1>3. ASSUME NEW t \in timers, Retry(t) PROVE Typed'
  <2>1. GoodCalls(calls')
    BY <1>3, NewCallIsGood, CallBegins DEF Retry, Goes, Typed, Stamped
  <2> QED BY <1>3, <2>1, FS_RemoveElement DEF Retry, Typed, GoodEntry
<1>4. ASSUME NEW l \in listening, EmitError(l) PROVE Typed'
  <2>1. GoodCalls(calls')
    BY <1>4, NewCallIsGood, CallBegins DEF EmitError, Typed
  <2>2. /\ timers' \subseteq Stamped /\ IsFiniteSet(timers') /\ \A t \in timers' : t.id # NoQueue
        /\ queued' \in Nat
    BY <1>4, QueueTyped DEF EmitError, Typed, Stamped
  <2>3. GoodEntry'
    BY <1>4, FS_EmptySet DEF EmitError, Typed, GoodEntry, NoEntry
  <2> QED BY <1>4, <2>1, <2>2, <2>3, FS_EmptySet DEF EmitError, Typed
<1>5. CASE UNCHANGED vars
  BY <1>5 DEF vars, Typed, GoodEntry
<1> QED BY <1>1, <1>2, <1>3, <1>4, <1>5, CallTyped DEF Next

-----------------------------------------------------------------------------
(* What a step does to the calls and to the history.                       *)

\* The history grows.
LEMMA WhyGrows == [Next]_vars => why \subseteq why'
BY DEF Next, vars, Update, Delete, Retry, EmitError, Continue, ReadAtStart, Save, Reread, Remove,
   Closed, Find, RunTrigger, RunSchedule, Register, Poll, Activated, GiveUp, RetryLater, RetryAgain,
   CloseFails, TriggerFails, PollFails, Fails, Goes

\* A step of a call ends it or takes it further; what it is stays.
LEMMA CallFollows ==
    ASSUME Typed, NEW c \in calls,
           Continue(c) \/ CloseFails(c) \/ TriggerFails(c) \/ PollFails(c)
    PROVE  \A x, y \in calls' \ (calls \ {c}) : x = y /\ x.kind = c.kind
<1>a. c \in Call
  BY DEF Typed, GoodCalls, GoodCall
<1>1. CASE ReadAtStart(c)
  BY <1>1, <1>a DEF ReadAtStart, Goes, Becomes, Call
<1>2. CASE Save(c) \/ Reread(c)
  BY <1>2, <1>a DEF Save, Reread, Goes, Among, Becomes, Call
<1>3. CASE Register(c)
  BY <1>3, <1>a DEF Register, Goes, Among, Becomes, Call
<1>11. CASE Poll(c)
  BY <1>11, <1>a DEF Poll, Goes, Becomes, Call
<1>4. CASE TriggerFails(c) \/ PollFails(c)
  BY <1>4, <1>a DEF TriggerFails, PollFails, Fails, Among, Becomes, Call
<1>10. CASE RunSchedule(c)
  BY <1>10, <1>a DEF RunSchedule, Goes, Becomes, Call
<1>5. CASE Remove(c)
  BY <1>5, <1>a DEF Remove, Goes, Among, Becomes, Call
<1>6. CASE Closed(c) \/ CloseFails(c)
  <2>1. calls' = calls \ {c} \/ calls' = AfterClosing(c)
    BY <1>6 DEF Closed, CloseFails, Goes
  <2>2. [c EXCEPT !.nodes = {}, !.at = "saving"].kind = c.kind
    BY <1>a DEF Call
  <2> QED BY <2>1, <2>2 DEF AfterClosing, Becomes
<1>7. CASE Find(c)
  BY <1>7, <1>a DEF Find, Goes, Among, Becomes, Call
<1>8. CASE RunTrigger(c)
  BY <1>8, <1>a DEF RunTrigger, Goes, Becomes, Call
<1>9. CASE Activated(c) \/ GiveUp(c) \/ RetryLater(c) \/ RetryAgain(c)
  BY <1>9 DEF Activated, GiveUp, RetryLater, RetryAgain, Goes
<1> QED BY <1>1, <1>2, <1>3, <1>4, <1>5, <1>6, <1>7, <1>8, <1>9, <1>10, <1>11 DEF Continue

-----------------------------------------------------------------------------
(* One retry at a time.                                                    *)

\* There is one retry, set or in progress, or the call of the start of the
\* process, and the queue knows its timer.
Retrying == {c \in calls : c.kind \in {"retry", "boot"}}

OneRetry ==
    /\ \A t \in timers : t.id = queued
    /\ \A t, u \in timers : t = u
    /\ \A c, d \in Retrying : c = d
    /\ timers = {} \/ Retrying = {}

\* When the first of them goes, nothing but one new one may follow.
LEMMA OneRetryInCall ==
    ASSUME Typed, OneRetry, NEW c \in calls,
           Continue(c) \/ CloseFails(c) \/ TriggerFails(c) \/ PollFails(c)
    PROVE  OneRetry'
<1> USE DEF memory
<1>1. \A x, y \in calls' \ (calls \ {c}) : x = y /\ x.kind = c.kind
  BY CallFollows
<1>2. /\ \A x, y \in Retrying' : x = y
      /\ Retrying' # {} => Retrying # {}
  BY <1>1 DEF OneRetry, Retrying
<1>3. CASE UNCHANGED <<timers, queued>>
  BY <1>2, <1>3 DEF OneRetry
<1>4. CASE Unqueue
  BY <1>2, <1>4 DEF Unqueue, OneRetry
<1>5. CASE RetryLater(c) \/ RetryAgain(c)
  <2>1. c \in Retrying
    BY <1>5 DEF RetryLater, RetryAgain, Retrying
  <2>2. timers = {} /\ Retrying \ {c} = {}
    BY <2>1 DEF OneRetry
  <2>3. calls' = calls \ {c}
    BY <1>5 DEF RetryLater, RetryAgain, Goes
  <2>4. Retrying' = {}
    BY <2>2, <2>3 DEF Retrying
  <2>5. timers' = {} \/ timers' = {[id |-> queued', version |-> c.version]}
    BY <1>5, <2>2 DEF RetryLater, RetryAgain, Enqueue
  <2> QED BY <2>4, <2>5 DEF OneRetry
<1>6. \/ UNCHANGED <<timers, queued>> \/ Unqueue \/ RetryLater(c) \/ RetryAgain(c)
  BY DEF Continue, ReadAtStart, Save, Reread, Remove, Closed, Find, RunTrigger, RunSchedule, Register, Poll,
     Activated, GiveUp, CloseFails, TriggerFails, PollFails
<1> QED BY <1>3, <1>4, <1>5, <1>6

LEMMA OneRetryNext ==
    Typed /\ ("late" \notin why => OneRetry) /\ [Next]_vars => ("late" \notin why => OneRetry)'
<1> SUFFICES ASSUME Typed, "late" \notin why => OneRetry, [Next]_vars, "late" \notin why'
             PROVE  OneRetry'
  OBVIOUS
<1> USE DEF memory
<1>1. OneRetry
  BY WhyGrows
<1>2. CASE Update \/ Delete
  <2>1. /\ calls \subseteq calls'
        /\ \A x \in calls' : x \in calls \/ x.kind \in {"update", "delete"}
    BY <1>2 DEF Update, Delete, Goes, NoCall
  <2>2. Retrying' = Retrying
    BY <2>1 DEF Retrying
  <2> QED BY <1>1, <1>2, <2>2 DEF Update, Delete, OneRetry
<1>3. ASSUME NEW t \in timers, Retry(t) PROVE OneRetry'
  <2>1. timers' = {} /\ Retrying = {}
    BY <1>1, <1>3 DEF Retry, OneRetry
  <2>2. PICK d : calls' = calls \cup {d}
    BY <1>3 DEF Retry, Goes
  <2>3. Retrying' \subseteq {d}
    BY <2>1, <2>2 DEF Retrying
  <2> QED BY <2>1, <2>3 DEF OneRetry
<1>4. ASSUME NEW l \in listening, EmitError(l) PROVE OneRetry'
  <2>1. calls = {}
    BY <1>4 DEF EmitError
  <2>2. timers' = {[id |-> queued', version |-> l.version]}
    BY <1>1, <1>4 DEF EmitError, Enqueue, OneRetry
  <2>3. \A x \in calls' : x.kind = "drop"
    BY <1>4, <2>1 DEF EmitError, NoCall
  <2>4. Retrying' = {}
    BY <2>3 DEF Retrying
  <2> QED BY <2>2, <2>4 DEF OneRetry
<1>5. CASE UNCHANGED vars
  BY <1>1, <1>5 DEF vars, OneRetry, Retrying
<1> QED BY <1>1, <1>2, <1>3, <1>4, <1>5, OneRetryInCall DEF Next

-----------------------------------------------------------------------------
(* What an entry holds listens.                                            *)

\* What the entry holds, or a call that starts triggers, listens.
Open ==
    /\ entry.responses \subseteq Ids(listening)
    /\ \A c \in calls : c.at = "starting" => c.nodes \subseteq Ids(listening)

\* What a call starts is its own until it is registered.
Own ==
    \A c \in calls : c.at = "starting" =>
        /\ c.nodes \cap entry.responses = {}
        /\ \A d \in calls : d # c => c.nodes \cap d.nodes = {}

\* A step leaves what a call starts to that call.
LEMMA OwnNext == Typed /\ Own /\ [Next]_vars => Own'
<1> SUFFICES ASSUME Typed, Own, [Next]_vars PROVE Own'
  OBVIOUS
<1> USE DEF memory
<1>a. \A c \in calls : GoodCall(c)
  BY DEF Typed, GoodCalls
<1>1. CASE Update \/ Delete
  <2>1. /\ UNCHANGED entry
        /\ \A x \in calls' : x \in calls \/ (x.at # "starting" /\ x.nodes = {})
    BY <1>1 DEF Update, Delete, Goes, NoCall
  <2> QED BY <2>1 DEF Own
<1>2. ASSUME NEW t \in timers, Retry(t) PROVE Own'
  <2>1. UNCHANGED entry /\ \A x \in calls' : x \in calls \/ x.nodes = {}
    BY <1>2 DEF Retry, Goes, NoCall
  <2> QED BY <2>1 DEF Own
<1>3. ASSUME NEW l \in listening, EmitError(l) PROVE Own'
  <2>1. /\ entry'.responses = entry.responses
        /\ \A x \in calls' : x \in calls \/ (x.at # "starting" /\ x.nodes = entry.responses)
    BY <1>3 DEF EmitError, NoCall, NoEntry
  <2> QED BY <2>1 DEF Own
<1>4. ASSUME NEW c \in calls, ReadAtStart(c) \/ Find(c) PROVE Own'
  <2>1. UNCHANGED entry /\ \A x \in calls' : x \in calls \/ x.nodes = {}
    BY <1>4, <1>a DEF ReadAtStart, Find, Goes, Becomes, Among, GoodCall, Call
  <2> QED BY <2>1 DEF Own
<1>5. ASSUME NEW c \in calls, Save(c) \/ Reread(c) \/ Poll(c) \/ TriggerFails(c) PROVE Own'
  <2>1. UNCHANGED entry /\ \A x \in calls' : x \in calls \ {c} \/ (x.at # "starting" /\ x.nodes = c.nodes)
    BY <1>5, <1>a DEF Save, Reread, Poll, TriggerFails, Fails, Goes, Becomes, Among, GoodCall, Call
  <2> QED BY <2>1 DEF Own
<1>6. ASSUME NEW c \in calls, Remove(c) PROVE Own'
  <2>1. /\ entry'.responses = entry.responses
        /\ \A x \in calls' : x \in calls \ {c} \/ (x.at # "starting" /\ x.nodes \in {{}, entry.responses})
    BY <1>6, <1>a DEF Remove, Goes, Becomes, Among, GoodCall, Call, NoEntry
  <2> QED BY <2>1 DEF Own
<1>7. ASSUME NEW c \in calls, Closed(c) \/ CloseFails(c) PROVE Own'
  <2>1. entry'.responses \subseteq entry.responses
    BY <1>7 DEF Closed, CloseFails, NoEntry
  <2>2. calls' = calls \ {c} \/ calls' = AfterClosing(c)
    BY <1>7 DEF Closed, CloseFails, Goes
  <2>3. \A x \in calls' : x \in calls \ {c} \/ (x.at # "starting" /\ x.nodes = {})
    <3> DEFINE d == [c EXCEPT !.nodes = {}, !.at = "saving"]
    <3>1. d.at = "saving" /\ d.nodes = {}
      BY <1>a DEF GoodCall, Call
    <3>2. calls' \subseteq (calls \ {c}) \cup {d}
      BY <2>2 DEF AfterClosing, Becomes
    <3> QED BY <3>1, <3>2
  <2> QED BY <2>1, <2>3 DEF Own
<1>13. ASSUME NEW c \in calls, RunSchedule(c) PROVE Own'
  <2>1. /\ UNCHANGED entry /\ c.at = "starting"
        /\ \A x \in calls' : x \in calls \ {c} \/ x.nodes = c.nodes
    BY <1>13, <1>a DEF RunSchedule, Goes, Becomes, GoodCall, Call
  <2>2. \A x, y \in calls' \ (calls \ {c}) : x = y
    BY <1>13, CallFollows DEF Continue
  <2> QED BY <2>1, <2>2 DEF Own
<1>8. ASSUME NEW c \in calls, RunTrigger(c) PROVE Own'
  <2>1. /\ UNCHANGED entry
        /\ \A x \in calls' : x \in calls \ {c} \/ x.nodes = c.nodes \cup {NewListener}
    BY <1>8, <1>a DEF RunTrigger, Goes, Becomes, GoodCall, Call
  <2>2. \A x, y \in calls' \ (calls \ {c}) : x = y
    BY <1>8, CallFollows DEF Continue
  <2>3. NewListener \notin entry.responses /\ \A x \in calls : NewListener \notin x.nodes
    BY NewIds
  <2>4. c.at = "starting"
    BY <1>8 DEF RunTrigger
  <2> QED BY <2>1, <2>2, <2>3, <2>4 DEF Own
<1>9. ASSUME NEW c \in calls, Register(c) PROVE Own'
  <2>1. /\ entry'.responses = c.nodes /\ c.at = "starting"
        /\ \A x \in calls' : x \in calls \ {c} \/ (x.at # "starting" /\ x.nodes = c.nodes)
    BY <1>9, <1>a DEF Register, Goes, Becomes, Among, GoodCall, Call
  <2> QED BY <2>1 DEF Own
<1>10. ASSUME NEW c \in calls, PollFails(c) PROVE Own'
  <2>1. /\ entry'.responses \subseteq entry.responses
        /\ \A x \in calls' : x \in calls \ {c} \/ (x.at # "starting" /\ x.nodes = c.nodes)
    BY <1>10, <1>a DEF PollFails, Fails, NoEntry, Becomes, Among, GoodCall, Call
  <2> QED BY <2>1 DEF Own
<1>11. ASSUME NEW c \in calls, Activated(c) \/ GiveUp(c) \/ RetryLater(c) \/ RetryAgain(c) PROVE Own'
  <2>1. UNCHANGED entry /\ calls' = calls \ {c}
    BY <1>11 DEF Activated, GiveUp, RetryLater, RetryAgain, Goes
  <2> QED BY <2>1 DEF Own
<1>12. CASE UNCHANGED vars
  BY <1>12 DEF vars, Own
<1> QED BY <1>1, <1>2, <1>3, <1>4, <1>5, <1>6, <1>7, <1>8, <1>9, <1>10, <1>11, <1>12, <1>13 DEF Next, Continue

\* Until a trigger is not closed, what an entry holds goes on to listen.
LEMMA OpenNext ==
    Typed /\ Own /\ ("close" \notin why => Open) /\ [Next]_vars => ("close" \notin why => Open)'
<1> SUFFICES ASSUME Typed, Own, "close" \notin why => Open, [Next]_vars, "close" \notin why'
             PROVE  Open'
  OBVIOUS
<1> USE DEF memory
<1>a. \A c \in calls : GoodCall(c)
  BY DEF Typed, GoodCalls
<1>b. Open
  BY WhyGrows
<1>1. CASE Update \/ Delete
  <2>1. /\ UNCHANGED <<entry, listening>>
        /\ \A x \in calls' : x \in calls \/ x.nodes = {}
    BY <1>1 DEF Update, Delete, Goes, NoCall
  <2> QED BY <1>b, <2>1 DEF Open
<1>2. ASSUME NEW t \in timers, Retry(t) PROVE Open'
  <2>1. UNCHANGED <<entry, listening>> /\ \A x \in calls' : x \in calls \/ x.nodes = {}
    BY <1>2 DEF Retry, Goes, NoCall
  <2> QED BY <1>b, <2>1 DEF Open
<1>3. ASSUME NEW l \in listening, EmitError(l) PROVE Open'
  <2>1. /\ entry'.responses = entry.responses /\ UNCHANGED listening
        /\ \A x \in calls' : x \in calls \/ x.at # "starting"
    BY <1>3 DEF EmitError, NoCall, NoEntry
  <2> QED BY <1>b, <2>1 DEF Open
<1>4. ASSUME NEW c \in calls, ReadAtStart(c) \/ Find(c) PROVE Open'
  <2>1. UNCHANGED <<entry, listening>> /\ \A x \in calls' : x \in calls \/ x.nodes = {}
    BY <1>4, <1>a DEF ReadAtStart, Find, Goes, Becomes, Among, GoodCall, Call
  <2> QED BY <1>b, <2>1 DEF Open
<1>5. ASSUME NEW c \in calls, Save(c) \/ Reread(c) \/ Poll(c) \/ TriggerFails(c) PROVE Open'
  <2>1. UNCHANGED <<entry, listening>> /\ \A x \in calls' : x \in calls \/ x.at # "starting"
    BY <1>5, <1>a DEF Save, Reread, Poll, TriggerFails, Fails, Goes, Becomes, Among, GoodCall, Call
  <2> QED BY <1>b, <2>1 DEF Open
<1>6. ASSUME NEW c \in calls, Remove(c) PROVE Open'
  <2>1. /\ entry'.responses = entry.responses /\ UNCHANGED listening
        /\ \A x \in calls' : x \in calls \/ x.at # "starting"
    BY <1>6, <1>a DEF Remove, Goes, Becomes, Among, GoodCall, Call, NoEntry
  <2> QED BY <1>b, <2>1 DEF Open
<1>7. ASSUME NEW c \in calls, Closed(c) PROVE Open'
  <2>1. \A x \in calls' : x \in calls \ {c} \/ x.at # "starting"
    BY <1>7, <1>a DEF Closed, AfterClosing, Becomes, Goes, GoodCall, Call
  <2>2. \A x \in calls' : x.at = "starting" => x.nodes \cap c.nodes = {}
    BY <1>7, <2>1 DEF Own, Closed
  <2>3. \A n \in Ids(listening) : n \notin c.nodes => n \in Ids(listening')
    BY <1>7 DEF Closed, Ids
  <2>4. entry'.responses = {}
    BY <1>7 DEF Closed, NoEntry
  <2> QED BY <1>b, <2>1, <2>2, <2>3, <2>4 DEF Open
<1>8. ASSUME NEW c \in calls, CloseFails(c) PROVE Open'
  BY <1>8 DEF CloseFails
<1>14. ASSUME NEW c \in calls, RunSchedule(c) PROVE Open'
  <2>1. /\ UNCHANGED <<entry, listening>> /\ c.at = "starting"
        /\ \A x \in calls' : x \in calls \/ x.nodes = c.nodes
    BY <1>14, <1>a DEF RunSchedule, Goes, Becomes, GoodCall, Call
  <2> QED BY <1>b, <2>1 DEF Open
<1>9. ASSUME NEW c \in calls, RunTrigger(c) PROVE Open'
  <2>1. /\ UNCHANGED entry /\ c.at = "starting"
        /\ \A x \in calls' : x \in calls \/ x.nodes = c.nodes \cup {NewListener}
    BY <1>9, <1>a DEF RunTrigger, Goes, Becomes, GoodCall, Call
  <2>2. Ids(listening') = Ids(listening) \cup {NewListener}
    BY <1>9, IdsOfOneMore DEF RunTrigger
  <2> QED BY <1>b, <2>1, <2>2 DEF Open
<1>10. ASSUME NEW c \in calls, Register(c) PROVE Open'
  <2>1. /\ entry'.responses = c.nodes /\ c.at = "starting" /\ UNCHANGED listening
        /\ \A x \in calls' : x \in calls \/ x.at # "starting"
    BY <1>10, <1>a DEF Register, Goes, Becomes, Among, GoodCall, Call
  <2> QED BY <1>b, <2>1 DEF Open
<1>11. ASSUME NEW c \in calls, PollFails(c) PROVE Open'
  <2>1. /\ entry'.responses \subseteq entry.responses /\ UNCHANGED listening
        /\ \A x \in calls' : x \in calls \/ x.at # "starting"
    BY <1>11, <1>a DEF PollFails, Fails, NoEntry, Becomes, Among, GoodCall, Call
  <2> QED BY <1>b, <2>1 DEF Open
<1>12. ASSUME NEW c \in calls, Activated(c) \/ GiveUp(c) \/ RetryLater(c) \/ RetryAgain(c) PROVE Open'
  <2>1. UNCHANGED <<entry, listening>> /\ calls' = calls \ {c}
    BY <1>12 DEF Activated, GiveUp, RetryLater, RetryAgain, Goes
  <2> QED BY <1>b, <2>1 DEF Open
<1>13. CASE UNCHANGED vars
  BY <1>b, <1>13 DEF vars, Open
<1> QED BY <1>1, <1>2, <1>3, <1>4, <1>5, <1>6, <1>7, <1>8, <1>9, <1>10, <1>11, <1>12, <1>13, <1>14 DEF Next, Continue

-----------------------------------------------------------------------------
(* As long as nothing was left astray.                                     *)

Calm == why \cap Stray = {}

\* What a call may rely on at each step. One that activates the workflow is alone,
\* with an active row that was not written since it was read and no other retry.
\* One that has removed the workflow from memory, or found it inactive, finds no
\* entry. One that closes triggers has those of the entry.
Phase(c) ==
    /\ c.at \in Adding => calls = {c} /\ row.state = "active" /\ timers = {}
    /\ c.at \in {"read", "saving", "saved", "finding", "starting", "failing"} =>
           entry = NoEntry /\ timers = {}
    /\ c.at \in {"read", "saving", "saved", "finding", "failing"} => Len(crons) = 0
    /\ c.at = "closing" => /\ Len(crons) = 0
                           /\ entry = NoEntry \/ entry.responses = c.nodes
                           /\ c.kind # "drop" => timers = {}
    /\ c.at \in {"polling", "ending"} => entry = [on |-> TRUE, responses |-> c.nodes]
    /\ c.at \in {"starting", "polling"} => Len(crons) = c.tasks
    /\ c.at = "polling" => shape.rules <= c.tasks
    /\ c.at = "ending" => Len(crons) = Tasks
    /\ c.at \in {"starting", "polling", "ending", "failing"} => c.version = row.version
    /\ c.at = "starting" => Ids(listening) = c.nodes
    /\ c.kind = "retry" => queued # NoQueue

\* The memory is that of the call that activated the workflow last, until it is
\* removed; there is none of a workflow that is not active.
InStep ==
    /\ (\A c \in calls : c.at # "starting") => Ids(listening) = entry.responses
    /\ row.state # "active" => entry = NoEntry /\ timers = {}
    /\ ~entry.on /\ (\A c \in calls : c.at # "starting") => Len(crons) = 0
    /\ entry.on /\ (\A c \in calls : c.at \notin {"closing", "polling"}) => Len(crons) = Tasks
    /\ timers # {} /\ entry.on => \E c \in calls : c.at = "closing"
    /\ \A x \in listening \cup timers : x.version = row.version
    /\ \A i \in DOMAIN crons : crons[i] = row.version

CalmInv == InStep /\ \A c \in calls : Phase(c)

\* A call that activates the workflow is alone.
LEMMA AloneAfter ==
    ASSUME NEW cs, Goes(cs), Calm' PROVE \A c, d \in cs : c.at \in Adding => d = c
BY DEF Goes, Calm, Stray, Overlap

\* What users and timers begin.
LEMMA BegunCalm ==
    ASSUME Typed, OneRetry, CalmInv, Calm',
           Update \/ Delete \/ \E t \in timers : Retry(t)
    PROVE  CalmInv'
<1> USE DEF memory
<1>1. CASE Update \/ Delete
  <2>1. PICK d : /\ Goes(calls \cup {d})
                 /\ d.kind \in {"update", "delete"}
                 /\ d.at = IF row.state = "active" THEN "removing" ELSE "saving"
    <3>1. CASE Update
      <4>1. PICK w \in BOOLEAN : Goes(calls \cup {[NoCall EXCEPT !.id = NewCall, !.kind = "update", !.want = w,
                    !.version = uses + 1, !.at = IF row.state = "active" THEN "removing" ELSE "saving"]})
        BY <3>1 DEF Update
      <4> DEFINE r == [NoCall EXCEPT !.id = NewCall, !.kind = "update", !.want = w,
                    !.version = uses + 1, !.at = IF row.state = "active" THEN "removing" ELSE "saving"]
      <4>2. r.kind = "update" /\ r.at = IF row.state = "active" THEN "removing" ELSE "saving"
        BY DEF NoCall
      <4> HIDE DEF r
      <4>3. Goes(calls \cup {r})
        BY <4>1 DEF r
      <4> QED BY <4>2, <4>3
    <3>2. CASE Delete
      <4> DEFINE r == [NoCall EXCEPT !.id = NewCall, !.kind = "delete",
                           !.at = IF row.state = "active" THEN "removing" ELSE "saving"]
      <4>1. r.kind = "delete" /\ r.at = IF row.state = "active" THEN "removing" ELSE "saving"
        BY DEF NoCall
      <4> HIDE DEF r
      <4>2. Goes(calls \cup {r})
        BY <3>2 DEF Delete, r
      <4> QED BY <4>1, <4>2
    <3> QED BY <1>1, <3>1, <3>2
  <2>2. UNCHANGED <<shape, row, entry, listening, crons, queued, timers>>
    BY <1>1 DEF Update, Delete
  <2>3. calls' = calls \cup {d}
    BY <2>1 DEF Goes
  <2>4. \A c \in calls : c.at \notin Adding
    BY <2>1, AloneAfter DEF Adding
  <2>5. \A c \in calls : Phase(c)'
    BY <2>2, <2>4 DEF CalmInv, Phase, Tasks
  <2>6. Phase(d)'
    BY <2>1, <2>2 DEF CalmInv, Phase, InStep, Adding, NoEntry
  <2>7. InStep'
    BY <2>1, <2>2, <2>3 DEF CalmInv, InStep, Tasks
  <2> QED BY <2>3, <2>5, <2>6, <2>7 DEF CalmInv
<1>2. ASSUME NEW t \in timers, Retry(t) PROVE CalmInv'
  <2>1. PICK d : /\ Goes(calls \cup {d}) /\ d.kind = "retry" /\ d.at = "starting"
                 /\ d.version = t.version /\ d.nodes = {} /\ d.tasks = 0
    <3> DEFINE r == [NoCall EXCEPT !.id = NewCall, !.kind = "retry", !.at = "starting", !.version = t.version]
    <3>1. r.kind = "retry" /\ r.at = "starting" /\ r.version = t.version /\ r.nodes = {} /\ r.tasks = 0
      BY DEF NoCall
    <3> HIDE DEF r
    <3>2. Goes(calls \cup {r})
      BY <1>2 DEF Retry, r
    <3> QED BY <3>1, <3>2
  <2>2. calls' = calls \cup {d}
    BY <2>1 DEF Goes
  <2>3. calls' = {d}
    BY <2>1, <2>2, AloneAfter DEF Adding
  <2>4. \A c \in calls : c.at = "starting"
    BY <2>1, <2>2, <2>3
  <2>5. entry = NoEntry
    BY <2>4 DEF CalmInv, InStep, Typed, GoodEntry
  <2>6. row.state = "active"
    BY DEF CalmInv, InStep
  <2>7. timers' = {}
    BY <1>2 DEF Retry, OneRetry
  <2>8. Len(crons) = 0
    <3>1. CASE calls = {}
      BY <2>5, <3>1 DEF CalmInv, InStep, NoEntry
    <3>2. CASE calls # {}
      <4>1. d \in calls
        BY <2>2, <2>3, <3>2
      <4> QED BY <2>1, <4>1 DEF CalmInv, Phase
    <3> QED BY <3>1, <3>2
  <2>9. Ids(listening) = {}
    <3>1. CASE calls = {}
      BY <3>1, <2>5 DEF CalmInv, InStep, NoEntry
    <3>2. CASE calls # {}
      BY <3>2, <2>4 DEF CalmInv, Phase, Adding
    <3> QED BY <3>1, <3>2
  <2>10. d.version = row.version /\ queued # NoQueue
    BY <2>1 DEF CalmInv, InStep, OneRetry, Typed
  <2> QED
    BY <1>2, <2>1, <2>3, <2>5, <2>6, <2>7, <2>8, <2>9, <2>10 DEF Retry, CalmInv, InStep, Phase, Adding, NoEntry
<1> QED BY <1>1, <1>2

\* A call that activates the workflow is the only one; beside any other there is none.
LEMMA Alone ==
    ASSUME CalmInv, NEW c \in calls
    PROVE  /\ c.at \in Adding => calls = {c}
           /\ c.at \notin Adding => /\ \A x \in calls : x.at \notin Adding
                                    /\ Ids(listening) = entry.responses
BY DEF CalmInv, Phase, InStep, Adding

\* What nobody holds does not listen.
LEMMA NoneListen == ASSUME NEW S, Ids(S) = {} PROVE S = {}
BY DEF Ids

\* Steps of a call that does not activate the workflow, or not yet.
LEMMA RemovalCalm ==
    ASSUME Typed, OneRetry, CalmInv, Calm', NEW c \in calls,
           ReadAtStart(c) \/ Save(c) \/ Reread(c) \/ Remove(c) \/ Closed(c)
    PROVE  CalmInv'
<1> USE DEF memory
<1>a. GoodCall(c) /\ c \in Call /\ \A x \in calls : GoodCall(x)
  BY DEF Typed, GoodCalls, GoodCall
<1>b. Phase(c) /\ InStep /\ \A x \in calls : Phase(x)
  BY DEF CalmInv
<1>c. c.at \notin Adding
  BY DEF ReadAtStart, Save, Reread, Remove, Closed, Adding
<1>d. Ids(listening) = entry.responses /\ \A x \in calls : x.at \notin Adding
  BY <1>c, Alone
\* It is gone, or not the one it was: the others do not mind.
<1>e. ASSUME calls' = calls \ {c}, c.at # "closing", UNCHANGED <<shape, row, memory>>
      PROVE  CalmInv'
  <2>1. \A x \in calls' : Phase(x)'
    BY <1>b, <1>d, <1>e DEF Phase, Tasks
  <2>2. InStep'
    BY <1>b, <1>d, <1>e DEF InStep, Adding, Tasks
  <2> QED BY <2>1, <2>2 DEF CalmInv
<1>1. CASE ReadAtStart(c)
  <2>1. CASE row.state # "active"
    BY <1>1, <1>e, <2>1 DEF ReadAtStart, Goes
  <2>2. CASE row.state = "active"
    <3> DEFINE d == [c EXCEPT !.version = row.version, !.at = "starting"]
    <3>1. d.version = row.version /\ d.at = "starting" /\ d.kind = c.kind /\ d.nodes = {} /\ d.tasks = 0
      BY <1>1, <1>a DEF ReadAtStart, GoodCall, Call
    <3>2. Goes(Becomes(c, d))
      BY <1>1, <2>2 DEF ReadAtStart
    <3> HIDE DEF d
    <3>3. calls' = {d}
      BY <3>1, <3>2, AloneAfter DEF Becomes, Goes, Adding
    <3>4. entry = NoEntry /\ Len(crons) = 0 /\ timers = {} /\ c.kind = "boot"
      BY <1>1, <1>a, <1>b DEF ReadAtStart, Phase, GoodCall
    <3>5. UNCHANGED <<row, entry, listening, crons, timers>>
      BY <1>1 DEF ReadAtStart
    <3> QED BY <1>b, <1>d, <2>2, <3>1, <3>3, <3>4, <3>5 DEF CalmInv, Phase, InStep, NoEntry
  <2> QED BY <2>1, <2>2
<1>2. CASE Save(c)
  <2>1. entry = NoEntry /\ Len(crons) = 0 /\ timers = {}
    BY <1>2, <1>b DEF Save, Phase
  <2>2. listening = {}
    BY <1>d, <2>1, NoneListen DEF NoEntry
  <2>3. \A x \in calls' : \/ x \in calls \ {c}
                          \/ x.at = "saved" /\ x.kind = c.kind
    BY <1>2, <1>a DEF Save, Goes, Among, Becomes, Call
  <2>4. UNCHANGED <<entry, crons, timers, listening, queued>>
    BY <1>2 DEF Save
  <2>5. \A x \in calls' : Phase(x)'
    BY <1>b, <1>d, <2>1, <2>3, <2>4 DEF Phase, Adding
  <2>6. InStep'
    BY <1>d, <2>1, <2>2, <2>4 DEF InStep, NoEntry
  <2> QED BY <2>5, <2>6 DEF CalmInv
<1>3. CASE Reread(c)
  <2>1. CASE row.state # "active"
    BY <1>3, <1>e, <2>1 DEF Reread, Goes
  <2>2. CASE row.state = "active"
    <3> DEFINE d == [c EXCEPT !.at = "finding"]
    <3>1. d.at = "finding" /\ d.kind = c.kind
      BY <1>a DEF Call
    <3>2. Goes(Becomes(c, d))
      BY <1>3, <2>2 DEF Reread, Among
    <3> HIDE DEF d
    <3>3. calls' = {d}
      BY <3>1, <3>2, AloneAfter DEF Becomes, Goes, Adding
    <3>4. entry = NoEntry /\ Len(crons) = 0 /\ timers = {}
      BY <1>3, <1>b DEF Reread, Phase
    <3>5. UNCHANGED <<row, entry, listening, crons, timers, queued>>
      BY <1>3 DEF Reread
    <3> QED BY <1>b, <1>d, <2>2, <3>1, <3>3, <3>4, <3>5 DEF CalmInv, Phase, InStep, NoEntry
  <2> QED BY <2>1, <2>2
<1>4. CASE Remove(c)
  <2>1. timers' = {}
    BY <1>4 DEF Remove, Unqueue, OneRetry
  <2>2. Len(crons') = 0
    BY <1>4, <1>b, <1>d DEF Remove, InStep, Adding
  <2>3. entry' = NoEntry \/ (entry' = entry /\ entry.responses # {})
    BY <1>4 DEF Remove, Typed, GoodEntry
  <2>4. UNCHANGED <<row, listening>> /\ entry'.responses = entry.responses
    BY <1>4 DEF Remove, NoEntry
  <2>5. \A x \in calls' : \/ x \in calls \ {c}
                          \/ x.at = "saving" /\ entry.responses = {} /\ x.kind # "retry"
                          \/ x.at = "closing" /\ entry.responses # {} /\ x.nodes = entry.responses /\ x.kind # "retry"
    <3>1. c.at = "removing" /\ c.kind # "retry"
      BY <1>4, <1>a DEF Remove, GoodCall, Adding
    <3>2. [c EXCEPT !.at = "saving"].at = "saving" /\ [c EXCEPT !.at = "saving"].kind = c.kind
      BY <1>a DEF Call
    <3> DEFINE d == [c EXCEPT !.nodes = entry.responses, !.at = "closing"]
    <3>3. d.at = "closing" /\ d.nodes = entry.responses /\ d.kind = c.kind
      BY <1>a DEF Call
    <3> HIDE DEF d
    <3>4. calls' = IF entry.responses = {} THEN Among(c, "saving") ELSE Becomes(c, d)
      BY <1>4 DEF Remove, Goes, d
    <3> QED BY <3>1, <3>2, <3>3, <3>4 DEF Among, Becomes
  <2>6. \A x \in calls : x.kind # "retry"
    BY <1>a, <1>d DEF GoodCall, Adding
  <2>7. \A x \in calls' : Phase(x)'
    BY <1>b, <1>d, <2>1, <2>2, <2>3, <2>4, <2>5, <2>6 DEF Phase, Adding
  <2>8. entry'.on => \E x \in calls' : x.at = "closing"
    <3>1. CASE entry.responses # {}
      <4>1. [c EXCEPT !.nodes = entry.responses, !.at = "closing"].at = "closing"
        BY <1>a DEF Call
      <4> QED BY <1>4, <3>1, <4>1 DEF Remove, Goes, Becomes
    <3> QED BY <2>3, <3>1 DEF NoEntry
  <2>9. InStep'
    BY <1>b, <1>d, <2>1, <2>2, <2>3, <2>4, <2>8 DEF InStep
  <2> QED BY <2>7, <2>9 DEF CalmInv
<1>5. CASE Closed(c)
  <2>1. Len(crons) = 0 /\ (entry = NoEntry \/ entry.responses = c.nodes) /\ (c.kind # "drop" => timers = {})
    BY <1>5, <1>b DEF Closed, Phase
  <2>2. listening' = {}
    BY <1>5, <1>d, <2>1 DEF Closed, Ids, NoEntry
  <2>3. entry' = NoEntry /\ UNCHANGED <<row, crons, timers, queued>>
    BY <1>5 DEF Closed
  <2>4. \A x \in calls' : \/ x \in calls \ {c}
                          \/ x.at = "saving" /\ c.kind # "drop" /\ x.kind = c.kind
    BY <1>5, <1>a DEF Closed, AfterClosing, Goes, Becomes, Call
  <2>5. \A x \in calls' : Phase(x)'
    BY <1>b, <1>d, <2>1, <2>3, <2>4 DEF Phase, Adding
  <2>6. row.state # "active" => timers = {}
    BY <1>b DEF InStep
  <2>7. Ids(listening') = {} /\ Ids(listening)' = {}
    BY <2>2 DEF Ids
  <2>8. InStep'
    <3>1. \A x \in timers : x.version = row.version
      BY <1>b DEF InStep
    <3> QED BY <2>1, <2>2, <2>3, <2>6, <2>7, <3>1 DEF InStep, NoEntry
  <2> QED BY <2>5, <2>8 DEF CalmInv
<1> QED BY <1>1, <1>2, <1>3, <1>4, <1>5

\* Steps of a call that activates the workflow.
LEMMA ActivationCalm ==
    ASSUME Typed, OneRetry, CalmInv, Calm', NEW c \in calls,
           \/ Find(c) \/ RunTrigger(c) \/ RunSchedule(c) \/ Register(c) \/ Poll(c) \/ Activated(c)
           \/ GiveUp(c) \/ RetryLater(c) \/ RetryAgain(c) \/ TriggerFails(c) \/ PollFails(c)
    PROVE  CalmInv'
<1> USE DEF memory
<1>a. GoodCall(c) /\ c \in Call
  BY DEF Typed, GoodCalls, GoodCall
<1>b. Phase(c) /\ InStep
  BY DEF CalmInv
<1>c. c.at \in Adding
  BY DEF Find, RunTrigger, RunSchedule, Register, Poll, Activated, GiveUp, RetryLater, RetryAgain,
         TriggerFails, PollFails, Adding
<1>d. calls = {c} /\ row.state = "active" /\ timers = {}
  BY <1>b, <1>c DEF Phase
<1>e. c.version \in Nat /\ crons \in Seq(Nat) /\ shape.rules \in Nat /\ shape.polls \in Nat /\ c.tasks \in Nat
  BY <1>a, ActivationBounds DEF Call, Typed
\* Its crons are of its version.
<1>f. ASSUME NEW n \in Nat, Cron(c, n), c.version = row.version, row' = row
      PROVE  Len(crons') = Len(crons) + n /\ \A i \in DOMAIN crons' : crons'[i] = row'.version
  <2>1. \A i \in DOMAIN crons : crons[i] = row.version
    BY <1>b DEF InStep
  <2> QED BY <1>e, <1>f, <2>1, CronsRegistered
<1>1. CASE Find(c)
  <2> DEFINE d == [c EXCEPT !.version = row.version, !.at = "starting"]
  <2>1. d.version = row.version /\ d.at = "starting" /\ d.kind = c.kind /\ d.nodes = {} /\ d.tasks = 0
    BY <1>1, <1>a DEF Find, GoodCall, Call
  <2>2. calls' = {d}
    BY <1>1, <1>d DEF Find, Goes, Becomes
  <2> HIDE DEF d
  <2>3. entry = NoEntry /\ Len(crons) = 0 /\ c.at = "finding"
    BY <1>1, <1>b DEF Find, Phase
  <2>4. UNCHANGED <<row, entry, listening, crons, timers, queued>>
    BY <1>1 DEF Find
  <2> QED BY <1>b, <1>d, <2>1, <2>2, <2>3, <2>4 DEF CalmInv, Phase, InStep, NoEntry
<1>2. CASE RunTrigger(c)
  <2> DEFINE d == [c EXCEPT !.nodes = @ \cup {NewListener}]
  <2>1. /\ d.version = c.version /\ d.at = "starting" /\ d.kind = c.kind /\ d.nodes = c.nodes \cup {NewListener}
        /\ d.tasks = c.tasks
    BY <1>2, <1>a DEF RunTrigger, Call
  <2>2. calls' = {d}
    BY <1>2, <1>d DEF RunTrigger, Goes, Becomes
  <2> HIDE DEF d
  <2>3. entry = NoEntry /\ Len(crons) = c.tasks /\ Ids(listening) = c.nodes /\ c.version = row.version
    BY <1>2, <1>b DEF RunTrigger, Phase
  <2>4. Ids(listening)' = d.nodes
    <3>1. listening' = listening \cup {[id |-> NewListener, version |-> c.version]}
      BY <1>2 DEF RunTrigger
    <3>2. Ids(listening)' = Ids(listening')
      BY DEF Ids
    <3>3. Ids(listening \cup {[id |-> NewListener, version |-> c.version]}) = Ids(listening) \cup {NewListener}
      BY IdsOfOneMore
    <3>4. Ids(listening') = Ids(listening) \cup {NewListener}
      BY <3>1, <3>3
    <3> QED BY <2>1, <2>3, <3>2, <3>4
  <2>5. UNCHANGED <<row, entry, crons, timers, queued>>
    BY <1>2 DEF RunTrigger
  <2>6. \A x \in listening' : x.version = row.version
    BY <1>2, <1>b, <2>3 DEF RunTrigger, InStep
  <2> QED BY <1>b, <1>d, <2>1, <2>2, <2>3, <2>4, <2>5, <2>6 DEF CalmInv, Phase, InStep, NoEntry
<1>8. CASE RunSchedule(c)
  <2>1. PICK n \in 1..(shape.rules - c.tasks) : Cron(c, n) /\ Goes(Becomes(c, [c EXCEPT !.tasks = @ + n]))
    BY <1>8 DEF RunSchedule
  <2> DEFINE d == [c EXCEPT !.tasks = @ + n]
  <2>2. /\ d.version = c.version /\ d.at = "starting" /\ d.kind = c.kind /\ d.nodes = c.nodes
        /\ d.tasks = c.tasks + n
    BY <1>8, <1>a DEF RunSchedule, Call
  <2>3. calls' = {d}
    BY <1>d, <2>1 DEF Goes, Becomes
  <2> HIDE DEF d
  <2>4. entry = NoEntry /\ Len(crons) = c.tasks /\ Ids(listening) = c.nodes /\ c.version = row.version
    BY <1>8, <1>b DEF RunSchedule, Phase
  <2>5. UNCHANGED <<row, entry, listening, timers, queued>> /\ Ids(listening)' = Ids(listening)
    BY <1>8 DEF RunSchedule, Ids
  <2>6. Len(crons') = Len(crons) + n /\ \A i \in DOMAIN crons' : crons'[i] = row'.version
    BY <1>e, <1>f, <2>1, <2>4, <2>5
  <2>7. \A y \in calls' : Phase(y)'
    BY <1>b, <1>d, <2>2, <2>3, <2>4, <2>5, <2>6 DEF Phase
  <2>8. InStep'
    BY <1>b, <1>d, <2>2, <2>3, <2>4, <2>5, <2>6 DEF InStep, NoEntry
  <2> QED BY <2>7, <2>8 DEF CalmInv
<1>3. CASE Register(c)
  <2> DEFINE d == [c EXCEPT !.at = IF shape.polls > 0 THEN "polling" ELSE "ending"]
  <2>1. /\ d.version = c.version /\ d.kind = c.kind /\ d.nodes = c.nodes /\ d.tasks = c.tasks
        /\ d.at = IF shape.polls > 0 THEN "polling" ELSE "ending"
    BY <1>a DEF Call
  <2>2. calls' = {d}
    BY <1>3, <1>d DEF Register, Goes, Among, Becomes
  <2> HIDE DEF d
  <2>3. Len(crons) = c.tasks /\ c.tasks = shape.rules /\ Ids(listening) = c.nodes /\ c.version = row.version
    BY <1>3, <1>b DEF Register, Phase
  <2>4. UNCHANGED <<shape, row, listening, crons, timers, queued>> /\ entry' = [on |-> TRUE, responses |-> c.nodes]
    BY <1>3 DEF Register
  <2>5. Ids(listening)' = Ids(listening)
    BY <2>4 DEF Ids
  <2>6. shape.polls = 0 => Len(crons) = Tasks
    BY <1>e, <2>3 DEF Tasks
  <2>7. \A y \in calls' : Phase(y)'
    <3>1. (d.at = "ending" /\ Len(crons) = Tasks) \/ (d.at = "polling" /\ shape.rules <= d.tasks)
      BY <1>e, <2>1, <2>3, <2>6
    <3>2. Tasks' = Tasks
      BY <2>4 DEF Tasks
    <3>3. c.kind = "retry" => queued # NoQueue
      BY <1>b DEF Phase
    <3> QED BY <1>d, <2>1, <2>2, <2>3, <2>4, <3>1, <3>2, <3>3 DEF Phase
  <2>8. InStep'
    BY <1>b, <1>d, <1>e, <2>1, <2>2, <2>3, <2>4, <2>5, <2>6 DEF InStep, Tasks
  <2> QED BY <2>7, <2>8 DEF CalmInv
<1>4. CASE Poll(c)
  <2> DEFINE a(n) == IF c.tasks + n = Tasks THEN "ending" ELSE "polling"
  <2>1. PICK n \in 1..(Tasks - c.tasks) :
          Cron(c, n) /\ Goes(Becomes(c, [c EXCEPT !.tasks = @ + n, !.at = a(n)]))
    BY <1>4 DEF Poll
  <2> DEFINE d == [c EXCEPT !.tasks = @ + n, !.at = a(n)]
  <2>2. /\ d.version = c.version /\ d.kind = c.kind /\ d.nodes = c.nodes /\ d.at = a(n)
        /\ d.tasks = c.tasks + n
    BY <1>a DEF Call
  <2>3. calls' = {d}
    BY <1>d, <2>1 DEF Goes, Becomes
  <2> HIDE DEF d
  <2>4. /\ Len(crons) = c.tasks /\ shape.rules <= c.tasks /\ entry = [on |-> TRUE, responses |-> c.nodes]
        /\ c.version = row.version
    BY <1>4, <1>b DEF Poll, Phase
  <2>5. UNCHANGED <<shape, row, entry, listening, timers, queued>>
    BY <1>4 DEF Poll
  <2>6. n \in Nat
    BY <1>e DEF Tasks
  <2>7. Len(crons') = c.tasks + n /\ \A i \in DOMAIN crons' : crons'[i] = row'.version
    BY <1>f, <2>1, <2>4, <2>5, <2>6
  <2>8. Ids(listening)' = entry'.responses
    BY <1>4, <1>b, <1>d, <2>5 DEF InStep, Ids, Poll
  <2>9. \A y \in calls' : Phase(y)'
    <3>1. (d.at = "ending" /\ d.tasks = Tasks) \/ (d.at = "polling" /\ shape.rules <= d.tasks)
      BY <1>e, <2>2, <2>4, <2>6
    <3>2. Len(crons') = d.tasks /\ Tasks' = Tasks
      BY <2>2, <2>5, <2>7 DEF Tasks
    <3>3. c.kind = "retry" => queued # NoQueue
      BY <1>b DEF Phase
    <3> QED BY <1>d, <2>2, <2>3, <2>4, <2>5, <3>1, <3>2, <3>3 DEF Phase
  <2>10. InStep'
    BY <1>b, <1>d, <1>e, <2>2, <2>3, <2>4, <2>5, <2>7, <2>8 DEF InStep, Tasks
  <2> QED BY <2>9, <2>10 DEF CalmInv
<1>5. CASE Activated(c)
  <2>1. calls' = {} /\ timers' = {} /\ UNCHANGED <<shape, row, entry, listening, crons>>
    BY <1>5, <1>d DEF Activated, Goes, Unqueue
  <2>2. c.at = "ending"
    BY <1>5 DEF Activated
  <2>3. InStep'
    BY <1>b, <1>d, <2>1, <2>2 DEF InStep, Ids, Tasks
  <2> QED BY <2>1, <2>3 DEF CalmInv
<1>6. CASE GiveUp(c) \/ RetryLater(c) \/ RetryAgain(c)
  <2>1. entry = NoEntry /\ Len(crons) = 0 /\ c.at = "failing" /\ c.version = row.version
    BY <1>6, <1>b DEF Phase, GiveUp, RetryLater, RetryAgain
  <2>2. listening = {}
    BY <1>b, <1>d, <2>1, NoneListen DEF InStep, NoEntry
  <2>3. calls' = {} /\ UNCHANGED <<entry, listening, crons>>
    BY <1>6, <1>d DEF GiveUp, RetryLater, RetryAgain, Goes
  <2>4. CASE GiveUp(c)
    BY <1>d, <2>1, <2>2, <2>3, <2>4 DEF GiveUp, CalmInv, InStep, NoEntry, Ids
  <2>5. CASE RetryLater(c) \/ RetryAgain(c)
    <3>1. UNCHANGED row /\ \A t \in timers' : t.version = c.version
      BY <1>d, <2>5 DEF RetryLater, RetryAgain, Enqueue
    <3> QED BY <1>d, <2>1, <2>2, <2>3, <3>1 DEF CalmInv, InStep, NoEntry, Ids
  <2> QED BY <1>6, <2>4, <2>5
<1>7. CASE TriggerFails(c) \/ PollFails(c)
  <2> DEFINE d == [c EXCEPT !.at = "failing"]
  <2>1. d.version = c.version /\ d.kind = c.kind /\ d.at = "failing"
    BY <1>a DEF Call
  <2>2. PICK n \in Nat : Cron(c, n) /\ Fails(c, c.tasks + n)
    BY <1>7, <1>e DEF TriggerFails, PollFails, Tasks
  <2>3. calls' = {d}
    BY <1>d, <2>2 DEF Fails, Among, Becomes
  <2> HIDE DEF d
  <2>4. c.nodes = {} /\ c.tasks = 0 /\ n = 0
    <3>1. c.nodes = {} /\ c.tasks + n = 0
      BY <2>2 DEF Fails, Calm, Stray
    <3> QED BY <1>e, <3>1
  <2>5. c.at \in {"starting", "polling"} /\ UNCHANGED <<row, listening, timers, queued>>
    BY <1>7 DEF TriggerFails, PollFails
  <2>6. c.version = row.version /\ Len(crons) = 0 /\ Ids(listening) = {}
    BY <1>b, <1>d, <2>4, <2>5 DEF Phase, InStep
  <2>7. entry' = NoEntry
    <3>1. CASE TriggerFails(c)
      BY <1>b, <3>1 DEF TriggerFails, Phase
    <3>2. CASE PollFails(c)
      BY <1>b, <1>e, <2>4, <3>2 DEF PollFails, Phase
    <3> QED BY <1>7, <3>1, <3>2
  <2>8. Len(crons') = 0 /\ \A i \in DOMAIN crons' : crons'[i] = row'.version
    BY <1>f, <2>2, <2>4, <2>5, <2>6
  <2>9. Ids(listening)' = {} /\ listening = {}
    BY <2>5, <2>6, NoneListen DEF Ids
  <2> QED BY <1>b, <1>d, <2>1, <2>3, <2>5, <2>6, <2>7, <2>8, <2>9 DEF CalmInv, Phase, InStep, NoEntry
<1> QED BY <1>1, <1>2, <1>3, <1>4, <1>5, <1>6, <1>7, <1>8

\* A trigger that fails.
LEMMA ErrorCalm ==
    ASSUME Typed, OneRetry, CalmInv, Calm', NEW l \in listening, EmitError(l)
    PROVE  CalmInv'
<1>1. calls = {}
  BY DEF EmitError, Calm, Stray
<1>2. InStep
  BY DEF CalmInv
<1>3. Ids(listening) = entry.responses
  BY <1>1, <1>2 DEF InStep
<1>4. entry.responses # {} /\ entry.on
  <2>1. GoodEntry
    BY DEF Typed
  <2>2. entry.responses # {}
    BY <1>3 DEF Ids
  <2> QED BY <2>1, <2>2 DEF GoodEntry, NoEntry
<1> DEFINE d == [NoCall EXCEPT !.id = NewCall, !.kind = "drop", !.at = "closing", !.nodes = entry.responses]
<1>5. d.kind = "drop" /\ d.at = "closing" /\ d.nodes = entry.responses
  BY DEF NoCall
<1>6. calls' = {d}
  BY <1>1, <1>4 DEF EmitError
<1> HIDE DEF d
<1>7. UNCHANGED <<shape, row, entry, listening>> /\ Len(crons') = 0
  BY <1>4 DEF EmitError
<1>8. \A t \in timers' : t.version = row.version
  <2>1. l.version = row.version
    BY <1>2 DEF InStep
  <2> QED BY <1>2, <2>1 DEF EmitError, Enqueue, InStep
<1>9. \A x \in calls' : Phase(x)'
  BY <1>5, <1>6, <1>7 DEF Phase, Adding
<1>10. Ids(listening)' = entry'.responses
  BY <1>3, <1>7 DEF Ids
<1>11. row.state = "active"
  BY <1>2, <1>4 DEF InStep, NoEntry
<1>12. InStep'
  BY <1>2, <1>4, <1>5, <1>6, <1>7, <1>8, <1>10, <1>11 DEF InStep
<1> QED BY <1>9, <1>12 DEF CalmInv

LEMMA CalmNext ==
    /\ Typed /\ ("late" \notin why => OneRetry) /\ (Calm => CalmInv) /\ [Next]_vars
    => (Calm => CalmInv)'
<1> SUFFICES ASSUME Typed, "late" \notin why => OneRetry, Calm => CalmInv, [Next]_vars, Calm'
             PROVE  CalmInv'
  OBVIOUS
<1>1. Calm /\ "late" \notin why
  BY WhyGrows DEF Calm, Stray
<1>2. CalmInv /\ OneRetry
  BY <1>1
<1>3. CASE Update \/ Delete \/ \E t \in timers : Retry(t)
  BY <1>2, <1>3, BegunCalm
<1>4. ASSUME NEW l \in listening, EmitError(l) PROVE CalmInv'
  BY <1>2, <1>4, ErrorCalm
<1>5. ASSUME NEW c \in calls, Continue(c) \/ TriggerFails(c) \/ PollFails(c) PROVE CalmInv'
  BY <1>2, <1>5, RemovalCalm, ActivationCalm DEF Continue
<1>6. ASSUME NEW c \in calls, CloseFails(c) PROVE FALSE
  BY <1>6 DEF CloseFails, Calm, Stray
<1>7. CASE UNCHANGED vars
  <2>1. InStep'
    BY <1>2, <1>7 DEF vars, memory, CalmInv, InStep, Ids, Tasks
  <2>2. \A c \in calls : Phase(c)'
    BY <1>2, <1>7 DEF vars, memory, CalmInv, Phase, Ids, Tasks
  <2> QED BY <1>7, <2>1, <2>2 DEF vars, CalmInv
<1> QED BY <1>3, <1>4, <1>5, <1>6, <1>7 DEF Next

-----------------------------------------------------------------------------
(* That an active workflow is not forgotten.                               *)

\* A call has still to see to it that the workflow is activated.
Pending == \E c \in calls : \/ c.at \in {"read", "saving", "saved"} \cup Adding
                            \/ c.at = "closing" /\ c.kind # "drop"

\* It runs and is not about to be closed, or will be tried again, or a call will see
\* to it.
Attended ==
    row.state = "active" =>
        timers # {} \/ Pending \/ (entry.on /\ \A c \in calls : c.at # "closing")

\* Steps of a call that does not activate the workflow, or not yet.
LEMMA RemovalAttended ==
    ASSUME Typed, Attended, NEW c \in calls,
           ReadAtStart(c) \/ Save(c) \/ Reread(c) \/ Remove(c) \/ Closed(c)
    PROVE  Attended'
<1> USE DEF memory
<1>a. GoodCall(c) /\ c \in Call
  BY DEF Typed, GoodCalls, GoodCall
<1>b. ASSUME NEW d \in calls',
             d.at \in {"read", "saving", "saved"} \cup Adding \/ (d.at = "closing" /\ d.kind # "drop")
      PROVE  Attended'
  BY <1>b DEF Attended, Pending
<1>1. CASE ReadAtStart(c)
  <2>1. [c EXCEPT !.version = row.version, !.at = "starting"].at = "starting"
    BY <1>a DEF Call
  <2>2. row.state = "active" => \E d \in calls' : d.at = "starting"
    BY <1>1, <2>1 DEF ReadAtStart, Goes, Becomes
  <2>3. row' = row
    BY <1>1 DEF ReadAtStart
  <2> QED BY <1>b, <2>2, <2>3 DEF Attended, Adding
<1>2. CASE Save(c)
  <2>1. CASE c.kind = "delete"
    <3>1. row'.state # "active"
      BY <1>2, <2>1 DEF Save, Typed
    <3> QED BY <3>1 DEF Attended
  <2>2. CASE c.kind # "delete"
    <3>1. [c EXCEPT !.at = "saved"].at = "saved"
      BY <1>a DEF Call
    <3>2. \E d \in calls' : d.at = "saved"
      BY <1>2, <2>2, <3>1 DEF Save, Goes, Among, Becomes
    <3> QED BY <1>b, <3>2
  <2> QED BY <2>1, <2>2
<1>3. CASE Reread(c)
  <2>1. [c EXCEPT !.at = "finding"].at = "finding"
    BY <1>a DEF Call
  <2>2. row.state = "active" => \E d \in calls' : d.at = "finding"
    BY <1>3, <2>1 DEF Reread, Goes, Among, Becomes
  <2>3. row' = row
    BY <1>3 DEF Reread
  <2> QED BY <1>b, <2>2, <2>3 DEF Attended, Adding
<1>4. CASE Remove(c)
  <2>1. [c EXCEPT !.at = "saving"].at = "saving"
    BY <1>a DEF Call
  <2>2. /\ [c EXCEPT !.nodes = entry.responses, !.at = "closing"].at = "closing"
        /\ [c EXCEPT !.nodes = entry.responses, !.at = "closing"].kind # "drop"
    BY <1>4, <1>a DEF Remove, GoodCall, Call
  <2>3. \E d \in calls' : d.at = "saving" \/ (d.at = "closing" /\ d.kind # "drop")
    BY <1>4, <2>1, <2>2 DEF Remove, Goes, Among, Becomes
  <2> QED BY <1>b, <2>3
<1>5. CASE Closed(c)
  <2>1. c.at = "closing" /\ UNCHANGED <<row, timers>>
    BY <1>5 DEF Closed
  <2>2. CASE c.kind = "drop"
    <3>1. calls' = calls \ {c}
      BY <1>5, <2>2 DEF Closed, AfterClosing, Goes
    <3> QED BY <2>1, <2>2, <3>1 DEF Attended, Pending, Adding
  <2>3. CASE c.kind # "drop"
    <3>1. [c EXCEPT !.nodes = {}, !.at = "saving"].at = "saving"
      BY <1>a DEF Call
    <3>2. \E d \in calls' : d.at = "saving"
      BY <1>5, <2>3, <3>1 DEF Closed, AfterClosing, Goes, Becomes
    <3> QED BY <1>b, <3>2
  <2> QED BY <2>2, <2>3
<1> QED BY <1>1, <1>2, <1>3, <1>4, <1>5

\* Steps of a call that activates the workflow.
LEMMA ActivationAttended ==
    ASSUME Typed, CalmInv, why' = {}, NEW c \in calls,
           \/ Find(c) \/ RunTrigger(c) \/ RunSchedule(c) \/ Register(c) \/ Poll(c) \/ Activated(c)
           \/ GiveUp(c) \/ RetryLater(c) \/ RetryAgain(c) \/ TriggerFails(c) \/ PollFails(c)
    PROVE  Attended'
<1> USE DEF memory
<1>a. c \in Call /\ Phase(c)
  BY DEF Typed, GoodCalls, GoodCall, CalmInv
<1>b. ASSUME NEW d \in calls', d.at \in Adding PROVE Attended'
  BY <1>b DEF Attended, Pending
<1>1. CASE Find(c)
  <2>1. /\ [c EXCEPT !.version = row.version, !.at = "starting"].at \in Adding
        /\ [c EXCEPT !.at = "failing"].at \in Adding
    BY <1>a DEF Call, Adding
  <2>2. \E d \in calls' : d.at \in Adding
    BY <1>1, <2>1 DEF Find, Goes, Among, Becomes
  <2> QED BY <1>b, <2>2
<1>7. CASE RunSchedule(c)
  <2>1. \A n : [c EXCEPT !.tasks = @ + n].at \in Adding
    BY <1>7, <1>a DEF RunSchedule, Call, Adding
  <2>2. \E d \in calls' : d.at \in Adding
    BY <1>7, <2>1 DEF RunSchedule, Goes, Becomes
  <2> QED BY <1>b, <2>2
<1>8. CASE Poll(c)
  <2>1. \A n, a : a \in Adding => [c EXCEPT !.tasks = @ + n, !.at = a].at \in Adding
    BY <1>a DEF Call
  <2>2. \E d \in calls' : d.at \in Adding
    BY <1>8, <2>1 DEF Poll, Goes, Becomes, Adding
  <2> QED BY <1>b, <2>2
<1>2. CASE RunTrigger(c)
  <2>1. [c EXCEPT !.nodes = @ \cup {NewListener}].at \in Adding
    BY <1>2, <1>a DEF RunTrigger, Call, Adding
  <2>2. \E d \in calls' : d.at \in Adding
    BY <1>2, <2>1 DEF RunTrigger, Goes, Becomes
  <2> QED BY <1>b, <2>2
<1>3. CASE Register(c) \/ TriggerFails(c) \/ PollFails(c)
  <2>1. \A a \in Adding : [c EXCEPT !.at = a].at = a
    BY <1>a DEF Call
  <2>2. PICK a \in Adding : [c EXCEPT !.at = a] \in calls'
    BY <1>3 DEF Register, TriggerFails, PollFails, Fails, Goes, Among, Becomes, Adding
  <2> QED BY <1>b, <2>1, <2>2
<1>4. CASE Activated(c)
  <2>1. calls' = {} /\ entry'.on
    BY <1>4, <1>a DEF Activated, Goes, Phase, Adding
  <2> QED BY <2>1 DEF Attended
<1>5. CASE GiveUp(c)
  <2>1. row'.state # "active"
    BY <1>5 DEF GiveUp, Typed
  <2> QED BY <2>1 DEF Attended
<1>6. CASE RetryLater(c) \/ RetryAgain(c)
  <2>1. timers' # {}
    BY <1>6, <1>a DEF RetryLater, RetryAgain, Enqueue, Phase
  <2> QED BY <2>1 DEF Attended
<1> QED BY <1>1, <1>2, <1>3, <1>4, <1>5, <1>6, <1>7, <1>8

LEMMA AttendedNext ==
    /\ Typed /\ (Calm => CalmInv) /\ (why = {} => Attended) /\ [Next]_vars
    => (why = {} => Attended)'
<1> SUFFICES ASSUME Typed, Calm => CalmInv, why = {} => Attended, [Next]_vars, why' = {}
             PROVE  Attended'
  OBVIOUS
<1> USE DEF memory
<1>1. Attended /\ CalmInv
  BY WhyGrows DEF Calm
<1>2. CASE Update \/ Delete
  <2>1. /\ UNCHANGED <<row, timers, entry>> /\ calls \subseteq calls'
        /\ \A x \in calls' : x \in calls \/ x.at # "closing"
    BY <1>2 DEF Update, Delete, Goes, NoCall
  <2> QED BY <1>1, <2>1 DEF Attended, Pending
<1>3. ASSUME NEW t \in timers, Retry(t) PROVE Attended'
  <2>1. [NoCall EXCEPT !.id = NewCall, !.kind = "retry", !.at = "starting", !.version = t.version].at = "starting"
    BY DEF NoCall
  <2>2. \E d \in calls' : d.at = "starting"
    BY <1>3, <2>1 DEF Retry, Goes
  <2> QED BY <2>2 DEF Attended, Pending, Adding
<1>4. ASSUME NEW l \in listening, EmitError(l) PROVE Attended'
  <2>1. timers' # {}
    BY <1>4 DEF EmitError, Enqueue
  <2> QED BY <2>1 DEF Attended
<1>5. ASSUME NEW c \in calls, Continue(c) \/ TriggerFails(c) \/ PollFails(c) PROVE Attended'
  BY <1>1, <1>5, RemovalAttended, ActivationAttended DEF Continue
<1>6. ASSUME NEW c \in calls, CloseFails(c) PROVE FALSE
  BY <1>6 DEF CloseFails
<1>7. CASE UNCHANGED vars
  BY <1>1, <1>7 DEF vars, Attended, Pending
<1> QED BY <1>2, <1>3, <1>4, <1>5, <1>6, <1>7 DEF Next

-----------------------------------------------------------------------------
(* The invariant and what follows from it.                                 *)

IInv ==
    /\ Typed
    /\ "late" \notin why => OneRetry
    /\ Own
    /\ "close" \notin why => Open
    /\ Calm => CalmInv
    /\ why = {} => Attended

LEMMA InitInv == Init => IInv
<1> SUFFICES ASSUME Init PROVE IInv
  OBVIOUS
<1>1. Typed
  BY InitTyped
<1>2. /\ entry = NoEntry /\ Len(crons) = 0 /\ timers = {} /\ Ids(listening) = {} /\ listening = {}
      /\ calls = {} \/ (calls = {NoCall} /\ row.state = "active")
      /\ row.state = "active" => calls = {NoCall}
  BY DEF Init, Ids
<1>3. NoCall.at = "read" /\ NoCall.kind = "boot" /\ NoCall.nodes = {}
  BY DEF NoCall
<1>4. OneRetry
  BY <1>2 DEF OneRetry, Retrying
<1>5. Own /\ Open
  BY <1>2, <1>3 DEF Own, Open, NoEntry
<1>6. InStep
  BY <1>2 DEF InStep, NoEntry
<1>7. \A c \in calls : Phase(c)
  BY <1>2, <1>3 DEF Phase, Adding
<1>8. Attended
  BY <1>2, <1>3 DEF Attended, Pending
<1> QED BY <1>1, <1>4, <1>5, <1>6, <1>7, <1>8 DEF IInv, CalmInv

LEMMA NextInv == IInv /\ [Next]_vars => IInv'
<1> SUFFICES ASSUME IInv, [Next]_vars PROVE IInv'
  OBVIOUS
<1>1. Typed'
  BY NextTyped DEF IInv
<1>2. ("late" \notin why => OneRetry)'
  BY OneRetryNext DEF IInv
<1>3. Own'
  BY OwnNext DEF IInv
<1>4. ("close" \notin why => Open)'
  BY OpenNext DEF IInv
<1>5. (Calm => CalmInv)'
  BY CalmNext DEF IInv
<1>6. (why = {} => Attended)'
  BY AttendedNext DEF IInv
<1> QED BY <1>1, <1>2, <1>3, <1>4, <1>5, <1>6 DEF IInv

LEMMA Invariant == Spec => []IInv
BY InitInv, NextInv, PTL DEF Spec

LEMMA InvTypes == IInv => TypeOK
BY DEF IInv, Typed, GoodEntry, NoEntry, GoodCalls, GoodCall, Call, TypeOK

\* The memory and the row have the values the properties expect.
THEOREM TypeCorrect == Spec => []TypeOK
BY Invariant, InvTypes, PTL

\* A set of which all members are the same has one at most.
LEMMA OneAtMost ==
    ASSUME NEW S, \A x, y \in S : x = y
    PROVE  Cardinality(S) \in {0, 1} /\ (S = {} => Cardinality(S) = 0)
<1>1. CASE S = {}
  BY <1>1, FS_EmptySet
<1>2. CASE S # {}
  <2>1. PICK x \in S : S = {x}
    BY <1>2
  <2> QED BY <1>2, <2>1, FS_Singleton
<1> QED BY <1>1, <1>2

LEMMA InvNothingStray == IInv => NothingStray
<1> SUFFICES ASSUME IInv PROVE NothingStray
  OBVIOUS
<1>1. ASSUME "late" \notin why
      PROVE  /\ \A t \in timers : t.id = queued
             /\ Cardinality(timers) + Cardinality({c \in calls : c.kind \in {"retry", "boot"}}) <= 1
  <2>1. OneRetry
    BY <1>1 DEF IInv
  <2>2. Cardinality(timers) \in {0, 1} /\ (timers = {} => Cardinality(timers) = 0)
    BY <2>1, OneAtMost DEF OneRetry
  <2>3. Cardinality(Retrying) \in {0, 1} /\ (Retrying = {} => Cardinality(Retrying) = 0)
    BY <2>1, OneAtMost DEF OneRetry
  <2>4. Cardinality(timers) + Cardinality(Retrying) <= 1
    BY <2>1, <2>2, <2>3 DEF OneRetry
  <2> QED BY <2>1, <2>4 DEF OneRetry, Retrying
<1>2. "close" \notin why => entry.responses \subseteq Ids(listening)
  BY DEF IInv, Open
<1>3. ASSUME Calm PROVE Ids(listening) \subseteq entry.responses \cup UNION {c.nodes : c \in calls}
  <2>1. InStep /\ \A c \in calls : Phase(c)
    BY <1>3 DEF IInv, CalmInv
  <2>2. CASE \A c \in calls : c.at # "starting"
    BY <2>1, <2>2 DEF InStep
  <2>3. ASSUME NEW c \in calls, c.at = "starting"
        PROVE  Ids(listening) \subseteq entry.responses \cup UNION {d.nodes : d \in calls}
    BY <2>1, <2>3 DEF Phase
  <2> QED BY <2>2, <2>3
<1> QED BY <1>1, <1>2, <1>3 DEF NothingStray, Unless, Calm

\* There is one retry at a time and the queue knows its timer; what an entry holds
\* listens, and what listens is held by an entry or a call.
THEOREM NothingIsStray == Spec => []NothingStray
BY Invariant, InvNothingStray, PTL

LEMMA InvActiveAsSaved == IInv => ActiveAsSaved
<1> SUFFICES ASSUME IInv, calls = {}
             PROVE  IF row.state = "active" THEN Explained \/ Runs \/ timers # {}
                    ELSE Unless(Stray, listening = {} /\ ~entry.on /\ crons = << >> /\ timers = {})
  BY DEF ActiveAsSaved
<1>a. Typed
  BY DEF IInv
<1>1. ASSUME row.state = "active", why = {}, timers = {} PROVE Runs
  <2>1. InStep /\ Attended
    BY <1>1 DEF IInv, Calm, CalmInv
  <2>2. entry.on
    BY <1>1, <2>1 DEF Attended, Pending
  <2>3. Ids(listening) = entry.responses /\ \A l \in listening : l.version = row.version
    BY <1>1, <2>1 DEF InStep
  <2>4. Cardinality(entry.responses) = shape.triggers
    BY <1>a, <2>2 DEF Typed, GoodEntry
  <2>5. Len(crons) = Tasks
    BY <2>1, <2>2 DEF InStep
  <2>6. \A i \in DOMAIN crons : crons[i] = row.version
    BY <2>1 DEF InStep
  <2> QED BY <2>2, <2>3, <2>4, <2>5, <2>6 DEF Runs
<1>2. ASSUME row.state # "active", Calm PROVE listening = {} /\ ~entry.on /\ crons = << >> /\ timers = {}
  <2>1. InStep
    BY <1>2 DEF IInv, CalmInv
  <2>2. entry = NoEntry /\ timers = {}
    BY <1>2, <2>1 DEF InStep
  <2>3. Ids(listening) = {} /\ Len(crons) = 0
    BY <2>1, <2>2 DEF InStep, NoEntry
  <2>4. crons = << >>
    BY <1>a, <2>3 DEF Typed
  <2> QED BY <2>2, <2>3, <2>4, NoneListen DEF NoEntry
<1> QED BY <1>1, <1>2 DEF Explained, Unless, Calm

\* When nothing is in progress, an active workflow runs as it was saved or will be
\* tried again, and of one that is not active nothing is left.
THEOREM ActiveRunsAsSaved == Spec => []ActiveAsSaved
BY Invariant, InvActiveAsSaved, PTL
=============================================================================
