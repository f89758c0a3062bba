-------------------------- MODULE MultiMain_proofs --------------------------
(***************************************************************************)
(* Proofs about MultiMain, for every set of mains and any number of lost   *)
(* connections, crashes and stops: leaders are what the key in Redis says  *)
(* as far as the code lets them know, and an execution that waits is       *)
(* resumed once as long as no connection is lost.                          *)
(*                                                                         *)
(* LeadershipSound follows from LockInv, a statement about each main with  *)
(* its pipe of commands: which of them can be under way in a stage, and    *)
(* what the key is when a leader relies on it.  ResumedOnce needs          *)
(* ResumeInv too: without lost connections a leader holds the key, and     *)
(* unless it is loose nobody else has timers of executions, which all      *)
(* still wait.                                                             *)
(*                                                                         *)
(* ResumedOnce is proved for Ttl > 1.  With Ttl = 1 the key may expire in  *)
(* the very check that should renew it, and a second main takes over while *)
(* the first one still tracks: TLC shows this behaviour.  The code has a   *)
(* TTL of 10 s and a check every 3 s.                                      *)
(***************************************************************************)
EXTENDS MultiMain, QueueLemmas

Keys == {k \in [holder : Main \cup {None}, ttl : 0..Forever] : k.holder = None <=> k.ttl = 0}

-----------------------------------------------------------------------------
(* Redis.                                                                  *)

\* What each command makes of the key.
LEMMA EffectFacts ==
    ASSUME NEW k \in Keys, NEW m \in Main, NEW c \in Command
    PROVE  /\ c = "get" => Effect(k, m, c) = k
           /\ c = "claim" => Effect(k, m, c) = IF k.holder = None THEN [holder |-> m, ttl |-> Forever] ELSE k
           /\ c \in {"confirm", "renew"} =>
                 Effect(k, m, c) = IF k.holder # None THEN [k EXCEPT !.ttl = Ttl] ELSE k
           /\ c = "del" => Effect(k, m, c) = NoKey
           /\ Effect(k, m, c) \in Keys
<1>1. /\ c = "get" => Effect(k, m, c) = k
      /\ c = "claim" => Effect(k, m, c) = IF k.holder = None THEN [holder |-> m, ttl |-> Forever] ELSE k
      /\ c \in {"confirm", "renew"} =>
            Effect(k, m, c) = IF k.holder # None THEN [k EXCEPT !.ttl = Ttl] ELSE k
      /\ c = "del" => Effect(k, m, c) = NoKey
  BY DEF Effect
<1>2. Ttl \in Nat \ {0} /\ Forever = Ttl + 1 /\ None \notin Main /\ NoKey \in Keys
  BY MultiMainBounds, MainAssumption DEF Forever, NoKey, Keys
<1>3. [holder |-> m, ttl |-> Forever] \in Keys
  BY <1>2 DEF Keys
<1>4. k.holder # None => [k EXCEPT !.ttl = Ttl] \in Keys
  BY <1>2 DEF Keys
<1> QED BY <1>1, <1>2, <1>3, <1>4 DEF Command

\* The key after each of the commands cmds of main m: the recursion in Execute
\* defines a function.
LEMMA Executing ==
    ASSUME NEW k \in Keys, NEW m \in Main, NEW cmds \in Seq(Command)
    PROVE  \E f : /\ f[0] = k /\ Execute(k, m, cmds) = f[Len(cmds)]
                  /\ \A i \in 1..Len(cmds) : f[i] = Effect(f[i - 1], m, cmds[i])
<1> DEFINE n == Len(cmds)
           Recursion(f) == [i \in 0..n |-> IF i = 0 THEN k ELSE Effect(f[i - 1], m, cmds[i])]
           Partial(j) ==
              {f \in [0..n -> Keys] :
                 f[0] = k /\ \A i \in 1..n : i <= j => f[i] = Effect(f[i - 1], m, cmds[i])}
           T == {j \in Nat : j <= n => Partial(j) # {}}
           after == CHOOSE f : f = Recursion(f)
<1>1. n \in Nat /\ \A i \in 1..n : cmds[i] \in Command
  BY LenProperties, ElementOfSeq
<1>2. 0 \in T
  <2>1. [i \in 0..n |-> k] \in Partial(0)
    BY <1>1
  <2> QED BY <2>1
<1>3. ASSUME NEW j \in Nat, j \in T PROVE j + 1 \in T
  <2> SUFFICES ASSUME j + 1 <= n PROVE Partial(j + 1) # {}
    OBVIOUS
  <2>1. PICK f \in Partial(j) : TRUE
    BY <1>1, <1>3
  <2> DEFINE x == Effect(f[j], m, cmds[j + 1])
             g == [f EXCEPT ![j + 1] = x]
  <2>2. j \in 0..n /\ j + 1 \in 1..n /\ f[j] \in Keys
    BY <1>1
  <2>3. x \in Keys
    BY <1>1, <2>2, EffectFacts
  <2>4. g \in [0..n -> Keys] /\ g[0] = k /\ g[j + 1] = x
    BY <2>2, <2>3
  <2>5. ASSUME NEW i \in 1..n, i <= j + 1 PROVE g[i] = Effect(g[i - 1], m, cmds[i])
    <3>1. i - 1 \in 0..n /\ i - 1 # j + 1 /\ g[i - 1] = f[i - 1]
      BY <1>1, <2>2, <2>5
    <3>2. CASE i = j + 1
      BY <2>4, <3>1, <3>2
    <3>3. CASE i # j + 1
      <4>1. i <= j /\ g[i] = f[i]
        BY <1>1, <2>5, <3>3
      <4>2. f[i] = Effect(f[i - 1], m, cmds[i])
        BY <2>1, <4>1
      <4> QED BY <3>1, <4>1, <4>2
    <3> QED BY <3>2, <3>3
  <2>6. g \in Partial(j + 1)
    BY <2>4, <2>5
  <2> QED BY <2>6
<1>4. n \in T
  <2> HIDE DEF T
  <2> QED BY <1>1, <1>2, <1>3, Induction
<1>5. PICK f \in [0..n -> Keys] : f[0] = k /\ \A i \in 1..n : f[i] = Effect(f[i - 1], m, cmds[i])
  BY <1>1, <1>4
<1>6. f = Recursion(f)
  <2>1. \A i \in 0..n : f[i] = IF i = 0 THEN k ELSE Effect(f[i - 1], m, cmds[i])
    BY <1>1, <1>5
  <2> QED BY <1>5, <2>1
<1>7. after = Recursion(after)
  BY <1>6
<1>8. Execute(k, m, cmds) = after[n]
  BY DEF Execute
<1> HIDE DEF after
<1>9. after[0] = k /\ \A i \in 1..n : after[i] = Effect(after[i - 1], m, cmds[i])
  BY <1>1, <1>7
<1> QED BY <1>8, <1>9

\* What commands of main m do to the key: it goes to m or to nobody, unless it
\* stays where it is, and without a DEL nobody loses it.
LEMMA ExecuteFacts ==
    ASSUME NEW k \in Keys, NEW m \in Main, NEW cmds \in Seq(Command)
    PROVE  LET x == Execute(k, m, cmds) IN
           /\ x \in Keys
           /\ x.holder \in {k.holder, m, None}
           /\ x.ttl = Forever => x.holder = m \/ x = k
           /\ ~Contains(cmds, "del") /\ k.holder # None =>
                 x.holder = k.holder /\ x.ttl \in {k.ttl, Ttl}
<1> DEFINE n == Len(cmds)
           Good(x) == /\ x \in Keys /\ x.holder \in {k.holder, m, None}
                      /\ x.ttl = Forever => x.holder = m \/ x = k
                      /\ ~Contains(cmds, "del") /\ k.holder # None =>
                            x.holder = k.holder /\ x.ttl \in {k.ttl, Ttl}
<1>1. PICK f : /\ f[0] = k /\ Execute(k, m, cmds) = f[n]
               /\ \A i \in 1..n : f[i] = Effect(f[i - 1], m, cmds[i])
  BY Executing
<1>2. n \in Nat /\ \A i \in 1..n : cmds[i] \in Command
  BY LenProperties, ElementOfSeq
<1> DEFINE T == {j \in Nat : j <= n => Good(f[j])}
<1>3. 0 \in T
  BY <1>1
<1>4. ASSUME NEW j \in Nat, j \in T PROVE j + 1 \in T
  <2> SUFFICES ASSUME j + 1 <= n PROVE Good(f[j + 1])
    OBVIOUS
  <2>1. j + 1 \in 1..n /\ (j + 1) - 1 = j
    BY <1>2
  <2>2. PICK x \in Keys : x = f[j] /\ Good(x)
    BY <1>4, <2>1
  <2>3. PICK c \in Command : c = cmds[j + 1]
    BY <1>2, <2>1
  <2>4. f[j + 1] = Effect(x, m, c)
    BY <1>1, <2>1, <2>2, <2>3
  <2>5. c = "del" => Contains(cmds, "del")
    BY <2>1, <2>3 DEF Contains
  <2>6. Ttl # Forever /\ 0 # Forever
    BY MultiMainBounds DEF Forever
  <2>7. Good(Effect(x, m, c))
    <3> HIDE DEF n
    <3>1. CASE c \in {"get", "claim"}
      BY <2>2, <2>5, <3>1, EffectFacts
    <3>2. CASE c \in {"confirm", "renew"}
      <4>1. Effect(x, m, c) = IF x.holder # None THEN [x EXCEPT !.ttl = Ttl] ELSE x
        BY <3>2, EffectFacts
      <4>2. CASE x.holder = None
        BY <2>2, <2>5, <4>1, <4>2
      <4>3. CASE x.holder # None
        <5>1. Effect(x, m, c).holder = x.holder /\ Effect(x, m, c).ttl = Ttl
          BY <4>1, <4>3 DEF Keys
        <5>2. Effect(x, m, c) \in Keys
          BY EffectFacts
        <5> QED BY <2>2, <2>6, <5>1, <5>2
      <4> QED BY <4>2, <4>3
    <3>3. CASE c = "del"
      BY <2>2, <2>5, <2>6, <3>3, EffectFacts DEF NoKey
    <3> QED BY <3>1, <3>2, <3>3 DEF Command
  <2> QED BY <2>4, <2>7
<1> HIDE DEF T
<1>5. n \in T
  BY <1>2, <1>3, <1>4, Induction
<1> QED BY <1>1, <1>2, <1>5 DEF T

-----------------------------------------------------------------------------
(* Pipes.                                                                  *)

\* A main whose commands are not interrupted has one at a time under way, but
\* for the DEL of its shutdown.
Alone(p) == \A i, j \in DOMAIN p : p[i] # "del" /\ p[j] # "del" => i = j

\* Pipes with one command and with none.
LEMMA ShortPipes ==
    /\ <<>> \in Seq(Command) /\ Len(<<>>) = 0 /\ Alone(<<>>)
    /\ \A c \in Command : ~Contains(<<>>, c)
    /\ \A c \in Command : <<c>> \in Seq(Command) /\ Len(<<c>>) = 1 /\ <<c>> # <<>> /\ Alone(<<c>>)
    /\ \A c, d \in Command : Contains(<<c>>, d) <=> c = d
  BY DEF Contains, Alone

\* A command is sent.
LEMMA Sending ==
    ASSUME NEW p \in Seq(Command), NEW c \in Command
    PROVE  LET q == Append(p, c) IN
           /\ q \in Seq(Command) /\ Len(q) = Len(p) + 1 /\ q # <<>>
           /\ \A d \in Command : Contains(q, d) <=> Contains(p, d) \/ d = c
           /\ Alone(p) /\ (c = "del" \/ p = <<>>) => Alone(q)
<1> DEFINE q == Append(p, c)
<1>1. /\ q \in Seq(Command) /\ Len(q) = Len(p) + 1 /\ q # <<>>
      /\ \A i \in 1..Len(p) : q[i] = p[i]
      /\ q[Len(p) + 1] = c
  BY AppendProperties
<1>2. Len(p) \in Nat /\ DOMAIN p = 1..Len(p) /\ DOMAIN q = 1..Len(p) + 1
  BY <1>1, LenProperties
<1> HIDE DEF q
<1>3. ASSUME NEW d \in Command PROVE Contains(q, d) <=> Contains(p, d) \/ d = c
  <2>1. ASSUME Contains(q, d) PROVE Contains(p, d) \/ d = c
    BY <1>1, <1>2, <2>1 DEF Contains
  <2>2. ASSUME Contains(p, d) PROVE Contains(q, d)
    BY <1>1, <1>2, <2>2 DEF Contains
  <2>3. d = c => Contains(q, d)
    BY <1>1, <1>2 DEF Contains
  <2> QED BY <2>1, <2>2, <2>3
<1>4. Alone(p) /\ (c = "del" \/ p = <<>>) => Alone(q)
  <2>1. p = <<>> => Len(p) = 0
    BY ShortPipes
  <2> QED BY <1>1, <1>2, <2>1 DEF Alone
<1> QED BY <1>1, <1>3, <1>4 DEF q

\* The first command is answered, and more commands are sent.
LEMMA Answering ==
    ASSUME NEW p \in Seq(Command), p # <<>>, NEW more \in Seq(Command)
    PROVE  LET q == Tail(p) \o more IN
           /\ q \in Seq(Command) /\ Len(q) = Len(p) - 1 + Len(more) /\ Head(p) \in Command
           /\ \A d \in Command : Contains(p, d) <=> Head(p) = d \/ Contains(Tail(p), d)
           /\ \A d \in Command : Contains(q, d) <=> Contains(Tail(p), d) \/ Contains(more, d)
           /\ Alone(p) /\ Head(p) # "del" => \A d \in Command \ {"del"} : ~Contains(Tail(p), d)
           /\ Alone(p) /\ Head(p) # "del" /\ Len(more) <= 1 => Alone(q)
<1> DEFINE t == Tail(p)
           q == t \o more
<1>1. /\ t \in Seq(Command) /\ Len(t) = Len(p) - 1 /\ Head(p) \in Command /\ Head(p) = p[1]
      /\ \A i \in 1..Len(t) : t[i] = p[i + 1]
  BY HeadTailProperties
<1>2. /\ q \in Seq(Command) /\ Len(q) = Len(t) + Len(more)
      /\ \A i \in 1..Len(t) + Len(more) : q[i] = IF i <= Len(t) THEN t[i] ELSE more[i - Len(t)]
  BY <1>1, ConcatProperties
<1>3. /\ Len(t) \in Nat /\ Len(more) \in Nat /\ Len(p) = Len(t) + 1
      /\ DOMAIN p = 1..Len(t) + 1 /\ DOMAIN q = 1..Len(t) + Len(more)
  BY <1>1, <1>2, LenProperties
<1> HIDE DEF t, q
<1>4. ASSUME NEW d \in Command PROVE Contains(p, d) <=> Head(p) = d \/ Contains(t, d)
  <2>1. ASSUME Contains(p, d) PROVE Head(p) = d \/ Contains(t, d)
    <3>1. PICK i \in 1..Len(t) + 1 : p[i] = d
      BY <1>3, <2>1 DEF Contains
    <3>2. i = 1 \/ (i - 1 \in 1..Len(t) /\ t[i - 1] = d)
      BY <1>1, <1>3, <3>1
    <3> QED BY <1>1, <3>1, <3>2 DEF Contains
  <2>2. ASSUME Contains(t, d) PROVE Contains(p, d)
    <3>1. PICK i \in 1..Len(t) : t[i] = d
      BY <2>2 DEF Contains
    <3>2. i + 1 \in 1..Len(p) /\ p[i + 1] = d
      BY <1>1, <1>3, <3>1
    <3> QED BY <3>2 DEF Contains
  <2>3. Head(p) = d => Contains(p, d)
    BY <1>1, <1>3 DEF Contains
  <2> QED BY <2>1, <2>2, <2>3
<1>5. ASSUME NEW d \in Command PROVE Contains(q, d) <=> Contains(t, d) \/ Contains(more, d)
  <2>1. ASSUME Contains(q, d) PROVE Contains(t, d) \/ Contains(more, d)
    <3>1. PICK i \in 1..Len(t) + Len(more) : q[i] = d
      BY <1>2, <2>1 DEF Contains
    <3>2. (i \in 1..Len(t) /\ t[i] = d) \/ (i - Len(t) \in 1..Len(more) /\ more[i - Len(t)] = d)
      BY <1>2, <1>3, <3>1
    <3> QED BY <3>2 DEF Contains
  <2>2. ASSUME Contains(t, d) PROVE Contains(q, d)
    <3>1. PICK i \in 1..Len(t) : t[i] = d
      BY <2>2 DEF Contains
    <3>2. i \in 1..Len(q) /\ q[i] = d
      BY <1>2, <1>3, <3>1
    <3> QED BY <3>2 DEF Contains
  <2>3. ASSUME Contains(more, d) PROVE Contains(q, d)
    <3>1. PICK i \in 1..Len(more) : more[i] = d
      BY <2>3 DEF Contains
    <3>2. Len(t) + i \in 1..Len(q) /\ q[Len(t) + i] = more[i]
      BY <1>2, <1>3, <3>1
    <3> QED BY <3>1, <3>2 DEF Contains
  <2> QED BY <2>1, <2>2, <2>3
<1>6. ASSUME Alone(p), Head(p) # "del" PROVE \A i \in 1..Len(t) : t[i] = "del"
  BY <1>1, <1>3, <1>6 DEF Alone
<1>7. Alone(p) /\ Head(p) # "del" => \A d \in Command \ {"del"} : ~Contains(t, d)
  BY <1>6 DEF Contains
<1>8. ASSUME Alone(p), Head(p) # "del", Len(more) <= 1 PROVE Alone(q)
  <2>1. \A i \in DOMAIN q : q[i] # "del" => i = Len(t) + 1
    BY <1>2, <1>3, <1>6, <1>8
  <2> QED BY <2>1 DEF Alone
<1> QED BY <1>1, <1>2, <1>4, <1>5, <1>7, <1>8 DEF t, q

\* Some of the commands are executed.
LEMMA Beginning ==
    ASSUME NEW p \in Seq(Command), NEW n \in 0..Len(p)
    PROVE  /\ SubSeq(p, 1, n) \in Seq(Command)
           /\ \A d \in Command : Contains(SubSeq(p, 1, n), d) => Contains(p, d)
<1>1. Len(p) \in Nat /\ \A i \in 1..Len(p) : p[i] \in Command
  BY LenProperties, ElementOfSeq
<1>2. /\ SubSeq(p, 1, n) \in Seq(Command)
      /\ Len(SubSeq(p, 1, n)) = n
      /\ \A i \in 1..n : SubSeq(p, 1, n)[i] = p[i]
  <2>1. /\ SubSeq(p, 1, n) \in Seq(Command)
        /\ Len(SubSeq(p, 1, n)) = IF 1 <= n THEN n - 1 + 1 ELSE 0
        /\ \A i \in 1..n - 1 + 1 : SubSeq(p, 1, n)[i] = p[1 + i - 1]
    BY <1>1, SubSeqProperties
  <2> QED BY <1>1, <2>1
<1>3. ASSUME NEW d \in Command, Contains(SubSeq(p, 1, n), d) PROVE Contains(p, d)
  <2>1. PICK i \in 1..n : SubSeq(p, 1, n)[i] = d
    BY <1>2, <1>3 DEF Contains
  <2>2. i \in 1..Len(p) /\ p[i] = d
    BY <1>1, <1>2, <2>1
  <2> QED BY <2>2 DEF Contains
<1> QED BY <1>2, <1>3

-----------------------------------------------------------------------------
(* Type correctness.                                                       *)

\* What a step that executes commands of main m does to the lock.
LEMMA RedisFacts ==
    ASSUME TypeOK, NEW m \in Main, NEW cmds \in Seq(Command), Redis(m, cmds)
    PROVE  /\ key \in Keys /\ key' \in Keys
           /\ unsure' \subseteq Main
           /\ \A n \in Main \ {m} : n \in unsure' <=> n \in unsure \/ (Contains(cmds, "del") /\ key.holder = n)
           /\ m \in unsure' <=> m \in unsure /\ cmds # <<"get">>
<1>1. key \in Keys
  BY DEF TypeOK, Keys
<1>2. key' \in Keys
  BY <1>1, ExecuteFacts DEF Redis
<1>3. key.holder \in Main \cup {None} /\ unsure \subseteq Main /\ None \notin Main
  BY MainAssumption DEF TypeOK
<1>4. unsure' = (unsure \ (IF cmds = <<"get">> THEN {m} ELSE {})) \cup
                (IF Contains(cmds, "del") THEN {key.holder} \ {None, m} ELSE {})
  BY DEF Redis, Robbed
<1> QED BY <1>1, <1>2, <1>3, <1>4

\* What a step that answers main m does to its pipe.
LEMMA AnswerFacts ==
    ASSUME TypeOK, NEW m \in Main, NEW cmd \in Command, NEW more \in Seq(Command), Len(more) <= 1,
           Answer(m, cmd, more)
    PROVE  /\ <<cmd>> \in Seq(Command) /\ Redis(m, <<cmd>>)
           /\ pipe[m] \in Seq(Command) /\ pipe[m] # <<>> /\ Head(pipe[m]) = cmd
           /\ pipe' = [pipe EXCEPT ![m] = Tail(pipe[m]) \o more]
           /\ pipe' \in [Main -> Seq(Command)]
           /\ Len(pipe'[m]) <= Len(pipe[m])
<1> DEFINE q == Tail(pipe[m]) \o more
<1>1. <<cmd>> \in Seq(Command) /\ Redis(m, <<cmd>>)
  BY ShortPipes DEF Answer
<1>2. pipe[m] \in Seq(Command) /\ pipe[m] # <<>> /\ Head(pipe[m]) = cmd
  BY DEF TypeOK, Answer
<1>3. pipe' = [pipe EXCEPT ![m] = q]
  BY DEF Answer
<1>4. q \in Seq(Command) /\ Len(q) = Len(pipe[m]) - 1 + Len(more)
  BY <1>2, Answering
<1> HIDE DEF q
<1>5. Len(pipe[m]) \in Nat /\ Len(more) \in Nat
  BY <1>2, LenProperties
<1>6. pipe' \in [Main -> Seq(Command)] /\ pipe'[m] = q
  BY <1>3, <1>4 DEF TypeOK
<1>7. Len(pipe'[m]) <= Len(pipe[m])
  BY <1>4, <1>5, <1>6
<1> QED BY <1>1, <1>2, <1>3, <1>6, <1>7 DEF q

\* The type invariant holds in the beginning.
LEMMA InitTyped == Init => TypeOK
<1> SUFFICES ASSUME Init PROVE TypeOK
  OBVIOUS
<1>1. pipe \in [Main -> Seq(Command)] /\ \A m \in Main : Len(pipe[m]) = 0
  BY ShortPipes DEF Init
<1>2. Ttl \in Nat \ {0} /\ MaxPipe \in Nat \ {0} /\ MaxCuts \in Nat /\ MaxCrashes \in Nat /\ MaxStops \in Nat
  BY MultiMainBounds
<1>3. \A m \in Main : Len(pipe[m]) <= MaxPipe + (IF stage[m] = "resigning" THEN 1 ELSE 0)
  BY <1>1, <1>2
<1>4. /\ key \in [holder : Main \cup {None}, ttl : 0..Forever]
      /\ (key.holder = None) <=> (key.ttl = 0)
  BY <1>2 DEF Init, NoKey, Forever
<1>5. tracking \in [Main -> Interval] /\ pruning \in [Main -> Interval]
  BY DEF Init, Idle, Interval
<1>6. stage \in [Main -> Stage]
  BY DEF Init, Stage
<1>7. /\ polled \in [Main -> SUBSET Execution] /\ timer \in [Main -> [Execution -> {"none", "armed", "cleared"}]]
      /\ resuming \in [Main -> [Execution -> Nat]]
  BY DEF Init
<1>8. crashes \in 0..MaxCrashes /\ stops \in 0..MaxStops /\ cuts \in 0..MaxCuts
  BY <1>2 DEF Init
<1>9. row \in [Execution -> {"waiting", "resumed"}] /\ starts \in [Execution -> 0..2] /\ loose \in BOOLEAN
  <2>1. row \in [Execution -> {"waiting", "resumed"}] /\ loose \in BOOLEAN
    BY DEF Init
  <2>2. starts = [e \in Execution |-> 0] /\ 0 \in 0..2
    BY DEF Init
  <2>3. starts \in [Execution -> 0..2]
    BY <2>2
  <2> QED BY <2>1, <2>3
<1>10. role \in [Main -> {"unset", "leader", "follower"}] /\ linked \subseteq Main /\ cut \subseteq Main
       /\ unsure \subseteq Main
  BY DEF Init
<1> QED BY <1>1, <1>3, <1>4, <1>5, <1>6, <1>7, <1>8, <1>9, <1>10 DEF TypeOK

\* The parts of TypeOK that a step changes together.
LockTyped == key \in Keys /\ unsure \subseteq Main

PipesTyped ==
    /\ stage \in [Main -> Stage] /\ pipe \in [Main -> Seq(Command)]
    /\ \A m \in Main : Len(pipe[m]) <= MaxPipe + (IF stage[m] = "resigning" THEN 1 ELSE 0)

RoleTyped == role \in [Main -> {"unset", "leader", "follower"}]

ServicesTyped ==
    /\ tracking \in [Main -> Interval] /\ pruning \in [Main -> Interval]
    /\ polled \in [Main -> SUBSET Execution]
    /\ timer \in [Main -> [Execution -> {"none", "armed", "cleared"}]]
    /\ resuming \in [Main -> [Execution -> Nat]]

WaitingTyped ==
    row \in [Execution -> {"waiting", "resumed"}] /\ starts \in [Execution -> 0..2] /\ loose \in BOOLEAN

FaultsTyped ==
    /\ linked \subseteq Main /\ cut \subseteq Main
    /\ crashes \in 0..MaxCrashes /\ stops \in 0..MaxStops /\ cuts \in 0..MaxCuts

\* The type invariant in parts.
LEMMA TypeParts ==
    /\ TypeOK => LockTyped /\ PipesTyped /\ RoleTyped /\ ServicesTyped /\ WaitingTyped /\ FaultsTyped
    /\ LockTyped' /\ PipesTyped' /\ RoleTyped' /\ ServicesTyped' /\ WaitingTyped' /\ FaultsTyped' => TypeOK'
  BY DEF TypeOK, LockTyped, Keys, PipesTyped, RoleTyped, ServicesTyped, WaitingTyped, FaultsTyped

\* A main that is answered stays on the same side of its resignation.
LEMMA AnswerTyped ==
    ASSUME TypeOK, NEW m \in Main, NEW cmd \in Command, NEW more \in Seq(Command), Len(more) <= 1,
           Answer(m, cmd, more), stage' = stage \/ AfterClaim(m)
    PROVE  LockTyped' /\ PipesTyped'
<1>1. /\ Redis(m, <<cmd>>) /\ <<cmd>> \in Seq(Command)
      /\ pipe[m] \in Seq(Command) /\ pipe' \in [Main -> Seq(Command)] /\ Len(pipe'[m]) <= Len(pipe[m])
      /\ pipe' = [pipe EXCEPT ![m] = Tail(pipe[m]) \o more]
  BY AnswerFacts
<1>2. LockTyped'
  BY <1>1, RedisFacts DEF LockTyped, Keys
<1>3. /\ stage' \in [Main -> Stage]
      /\ \A n \in Main : stage'[n] = "resigning" <=> stage[n] = "resigning"
  BY DEF TypeOK, Stage, AfterClaim
<1>4. ASSUME NEW n \in Main
      PROVE  Len(pipe'[n]) <= MaxPipe + (IF stage'[n] = "resigning" THEN 1 ELSE 0)
  <2>1. Len(pipe[n]) <= MaxPipe + (IF stage'[n] = "resigning" THEN 1 ELSE 0)
    BY <1>3 DEF TypeOK
  <2>2. Len(pipe[n]) \in Nat /\ Len(pipe'[n]) \in Nat
    <3>1. pipe[n] \in Seq(Command) /\ pipe'[n] \in Seq(Command)
      BY <1>1 DEF TypeOK
    <3> QED BY <3>1, LenProperties
  <2>3. Len(pipe'[n]) <= Len(pipe[n])
    BY <1>1, <2>2 DEF TypeOK
  <2> QED BY <2>1, <2>2, <2>3, MultiMainBounds
<1> QED BY <1>1, <1>2, <1>3, <1>4 DEF PipesTyped

\* A main that hangs up has an empty pipe.
LEMMA HangUpTyped ==
    ASSUME TypeOK, NEW m \in Main, HangUp(m, pipe[m]), NEW s \in Stage, stage' = [stage EXCEPT ![m] = s]
    PROVE  LockTyped' /\ PipesTyped'
<1>1. pipe[m] \in Seq(Command) /\ pipe' = [pipe EXCEPT ![m] = <<>>]
  BY DEF TypeOK, HangUp
<1>2. PICK n \in 0..Len(pipe[m]) : Redis(m, SubSeq(pipe[m], 1, n))
  BY DEF HangUp
<1>3. SubSeq(pipe[m], 1, n) \in Seq(Command)
  BY <1>1, Beginning
<1>4. LockTyped'
  BY <1>2, <1>3, RedisFacts DEF LockTyped
<1>5. pipe' \in [Main -> Seq(Command)] /\ Len(pipe'[m]) = 0
  BY <1>1, ShortPipes DEF TypeOK
<1>6. \A x \in Main : Len(pipe'[x]) <= MaxPipe + (IF stage'[x] = "resigning" THEN 1 ELSE 0)
  BY <1>1, <1>5, MultiMainBounds DEF TypeOK
<1>7. stage' \in [Main -> Stage]
  BY DEF TypeOK
<1> QED BY <1>4, <1>5, <1>6, <1>7 DEF PipesTyped

\* What starts and stops the services.
LEMMA ServicesFacts ==
    ASSUME TypeOK, NEW m \in Main
    PROVE  /\ StartTracking(m) => tracking' \in [Main -> Interval] /\ polled' \in [Main -> SUBSET Execution]
           /\ StopTracking(m) => /\ tracking' \in [Main -> Interval]
                                 /\ timer' \in [Main -> [Execution -> {"none", "armed", "cleared"}]]
           /\ StepDown(m) => ServicesTyped'
           /\ TakeOver(m) => ServicesTyped'
           /\ Gone(m) => ServicesTyped'
<1>1. \A t \in Interval : Started(t) \in Interval /\ Cleared(t) \in Interval
  BY DEF Interval, Started, Cleared
<1>2. Idle \in Interval
  BY DEF Interval, Idle
<1>3. StartTracking(m) => tracking' \in [Main -> Interval] /\ polled' \in [Main -> SUBSET Execution]
  BY <1>1 DEF TypeOK, StartTracking, Due
<1>4. StopTracking(m) => /\ tracking' \in [Main -> Interval]
                         /\ timer' \in [Main -> [Execution -> {"none", "armed", "cleared"}]]
  <2> SUFFICES ASSUME StopTracking(m) PROVE /\ tracking' \in [Main -> Interval]
                         /\ timer' \in [Main -> [Execution -> {"none", "armed", "cleared"}]]
    OBVIOUS
  <2>1. tracking' \in [Main -> Interval]
    BY <1>1 DEF TypeOK, StopTracking
  <2>2. [e \in Execution |-> IF timer[m][e] = "armed" THEN "cleared" ELSE timer[m][e]]
           \in [Execution -> {"none", "armed", "cleared"}]
    BY DEF TypeOK
  <2>3. timer' \in [Main -> [Execution -> {"none", "armed", "cleared"}]]
    BY <2>2 DEF TypeOK, StopTracking
  <2> QED BY <2>1, <2>3
<1>5. StepDown(m) => ServicesTyped'
  BY <1>4 DEF StepDown, ServicesTyped, TypeOK
<1>6. TakeOver(m) => ServicesTyped'
  BY <1>1, <1>3 DEF TakeOver, ServicesTyped, TypeOK
<1>7. Gone(m) => ServicesTyped'
  BY <1>2 DEF Gone, ServicesTyped, TypeOK
<1> QED BY <1>3, <1>4, <1>5, <1>6, <1>7

\* Checking, with what a main sends then.
LEMMA TickTyped == TypeOK /\ Tick => TypeOK'
<1> SUFFICES ASSUME TypeOK, Tick PROVE TypeOK'
  OBVIOUS
<1>1. key \in Keys /\ Ttl \in Nat \ {0} /\ MaxPipe \in Nat \ {0}
  BY MultiMainBounds DEF TypeOK, Keys
<1>2. key' \in Keys
  BY <1>1 DEF Tick, Keys, NoKey, Forever
<1>3. ASSUME NEW n \in Main
      PROVE  /\ pipe'[n] \in Seq(Command)
             /\ Len(pipe'[n]) <= MaxPipe + (IF stage'[n] = "resigning" THEN 1 ELSE 0)
  <2>1. pipe[n] \in Seq(Command) /\ "get" \in Command /\ Len(pipe[n]) \in Nat /\ stage' = stage
    BY LenProperties DEF TypeOK, Command, Tick
  <2>2. CASE stage[n] \in Checking /\ Len(pipe[n]) < MaxPipe
    <3>1. pipe'[n] = Append(pipe[n], "get")
      BY <2>2 DEF Tick
    <3>2. Append(pipe[n], "get") \in Seq(Command) /\ Len(Append(pipe[n], "get")) = Len(pipe[n]) + 1
      BY <2>1, Sending
    <3> QED BY <1>1, <2>1, <2>2, <3>1, <3>2
  <2>3. CASE ~(stage[n] \in Checking /\ Len(pipe[n]) < MaxPipe)
    <3>1. pipe'[n] = pipe[n]
      BY <2>3 DEF Tick
    <3> QED BY <2>1, <3>1 DEF TypeOK
  <2> QED BY <2>2, <2>3
<1>4. pipe' \in [Main -> Seq(Command)]
  BY <1>3 DEF Tick
<1>5. PipesTyped'
  BY <1>3, <1>4 DEF PipesTyped, TypeOK, Tick
<1>6. LockTyped'
  BY <1>2 DEF LockTyped, TypeOK, Tick
<1>7. RoleTyped' /\ ServicesTyped' /\ WaitingTyped' /\ FaultsTyped'
  BY TypeParts DEF Tick, services, waiting, faults, RoleTyped, ServicesTyped, WaitingTyped, FaultsTyped
<1> QED BY <1>5, <1>6, <1>7, TypeParts

\* Every other step.
LEMMA TypeStep == TypeOK /\ [Next]_vars => TypeOK'
<1> SUFFICES ASSUME TypeOK, [Next]_vars PROVE TypeOK'
  OBVIOUS
<1> DEFINE Rest == RoleTyped' /\ ServicesTyped' /\ WaitingTyped' /\ FaultsTyped'
<1>1. LockTyped /\ PipesTyped /\ RoleTyped /\ ServicesTyped /\ WaitingTyped /\ FaultsTyped
  BY TypeParts
<1> USE DEF RoleTyped, ServicesTyped, WaitingTyped, FaultsTyped
<1>2. /\ <<>> \in Seq(Command) /\ Len(<<>>) <= 1
      /\ \A c \in Command : <<c>> \in Seq(Command) /\ Len(<<c>>) <= 1
      /\ Command = {"get", "claim", "confirm", "renew", "del"}
  BY ShortPipes DEF Command
<1>3. CASE Tick
  BY <1>3, TickTyped
<1>4. ASSUME NEW m \in Main, Boot(m) PROVE TypeOK'
  <2>1. <<"claim">> \in Seq(Command) /\ Len(<<"claim">>) = 1
    BY <1>2, ShortPipes
  <2>2. PipesTyped'
    BY <1>1, <1>4, <2>1, MultiMainBounds DEF Boot, PipesTyped, Stage
  <2>3. Rest /\ LockTyped'
    BY <1>1, <1>4 DEF Boot, lock, services, waiting, faults, LockTyped
  <2> QED BY <2>2, <2>3, TypeParts
<1>5. ASSUME NEW m \in Main, Stop(m) PROVE TypeOK'
  <2>1. PipesTyped' /\ LockTyped'
    BY <1>1, <1>5 DEF Stop, lock, PipesTyped, LockTyped, Stage
  <2>2. pruning' \in [Main -> Interval]
    BY <1>1, <1>5 DEF Stop, Interval, Cleared
  <2>3. Rest
    BY <1>1, <1>5, <2>2, MultiMainBounds DEF Stop, waiting
  <2> QED BY <2>1, <2>3, TypeParts
<1>6. ASSUME NEW m \in Main, Crash(m) PROVE TypeOK'
  <2>1. LockTyped' /\ PipesTyped'
    BY <1>6, HangUpTyped DEF Crash, Gone, Stage
  <2>2. ServicesTyped'
    BY <1>6, ServicesFacts DEF Crash
  <2>3. Rest
    BY <1>1, <1>6, <2>2, MultiMainBounds DEF Crash, waiting
  <2> QED BY <2>1, <2>3, TypeParts
<1>7. ASSUME NEW m \in Main, Cut(m) PROVE TypeOK'
  <2>1. PICK n \in 0..Len(pipe[m]) : /\ key' = Execute(key, m, SubSeq(pipe[m], 1, n))
                                     /\ unsure' = unsure \cup {m} \cup Robbed(m, SubSeq(pipe[m], 1, n))
    BY <1>7 DEF Cut
  <2>2. SubSeq(pipe[m], 1, n) \in Seq(Command)
    BY <1>1, Beginning DEF PipesTyped
  <2>3. key' \in Keys
    BY <1>1, <2>1, <2>2, ExecuteFacts DEF LockTyped
  <2>4. Robbed(m, SubSeq(pipe[m], 1, n)) \subseteq Main
    BY <1>1 DEF Robbed, LockTyped, Keys
  <2>5. LockTyped' /\ PipesTyped'
    BY <1>1, <1>7, <2>1, <2>3, <2>4 DEF Cut, LockTyped, PipesTyped
  <2>6. Rest
    BY <1>1, <1>7, MultiMainBounds DEF Cut, services, waiting
  <2> QED BY <2>5, <2>6, TypeParts
<1>8. ASSUME NEW m \in Main, Relink(m) PROVE TypeOK'
  BY <1>1, <1>8, TypeParts DEF Relink, lock, services, waiting, LockTyped, PipesTyped
<1>9. ASSUME NEW m \in Main, Protocol(m) PROVE TypeOK'
  <2>1. CASE FindOwn(m)
    <3>1. LockTyped' /\ PipesTyped'
      BY <1>2, <2>1, AnswerTyped DEF FindOwn
    <3>2. Rest
      BY <1>1, <2>1 DEF FindOwn, services, waiting, faults
    <3> QED BY <3>1, <3>2, TypeParts
  <2>2. CASE FindOther(m)
    <3>1. LockTyped' /\ PipesTyped'
      BY <1>2, <2>2, AnswerTyped DEF FindOther
    <3>2. ServicesTyped'
      BY <1>1, <2>2, ServicesFacts DEF FindOther, services
    <3>3. Rest
      BY <1>1, <2>2, <3>2 DEF FindOther, waiting, faults
    <3> QED BY <3>1, <3>3, TypeParts
  <2>3. CASE FindVacant(m)
    <3>1. LockTyped' /\ PipesTyped'
      BY <1>2, <2>3, AnswerTyped DEF FindVacant
    <3>2. ServicesTyped'
      BY <2>3, ServicesFacts DEF FindVacant
    <3>3. Rest
      BY <1>1, <2>3, <3>2 DEF FindVacant, waiting, faults
    <3> QED BY <3>1, <3>3, TypeParts
  <2>4. CASE ClaimWon(m)
    <3>1. LockTyped' /\ PipesTyped'
      BY <1>2, <2>4, AnswerTyped DEF ClaimWon
    <3>2. Rest
      BY <1>1, <2>4 DEF ClaimWon, services, waiting, faults
    <3> QED BY <3>1, <3>2, TypeParts
  <2>5. CASE ClaimLost(m)
    <3>1. LockTyped' /\ PipesTyped'
      BY <1>2, <2>5, AnswerTyped DEF ClaimLost
    <3>2. Rest
      BY <1>1, <2>5 DEF ClaimLost, services, waiting, faults
    <3> QED BY <3>1, <3>2, TypeParts
  <2>6. CASE Confirm(m)
    <3>1. LockTyped' /\ PipesTyped'
      BY <1>2, <2>6, AnswerTyped DEF Confirm
    <3>2. ServicesTyped'
      BY <2>6, ServicesFacts DEF Confirm
    <3>3. Rest
      BY <1>1, <2>6, <3>2 DEF Confirm, waiting, faults
    <3> QED BY <3>1, <3>3, TypeParts
  <2>7. CASE Renew(m)
    <3>1. LockTyped' /\ PipesTyped'
      BY <1>2, <2>7, AnswerTyped DEF Renew
    <3>2. Rest
      BY <1>1, <2>7 DEF Renew, services, waiting, faults
    <3> QED BY <3>1, <3>2, TypeParts
  <2>8. CASE Resigned(m)
    <3>1. HangUp(m, pipe[m])
      BY <2>8 DEF Resigned, HangUp
    <3>2. LockTyped' /\ PipesTyped'
      BY <2>8, <3>1, HangUpTyped DEF Resigned, Stage
    <3>3. Rest
      BY <1>1, <2>8 DEF Resigned, services, waiting, faults
    <3> QED BY <3>2, <3>3, TypeParts
  <2> QED BY <1>9, <2>1, <2>2, <2>3, <2>4, <2>5, <2>6, <2>7, <2>8 DEF Protocol
<1>10. ASSUME NEW m \in Main, Process(m) PROVE TypeOK'
  <2>1. CASE InitServices(m)
    <3>1. LockTyped' /\ PipesTyped'
      BY <1>1, <2>1 DEF InitServices, lock, LockTyped, PipesTyped, Stage
    <3>2. pruning' \in [Main -> Interval]
      <4>1. \A t \in Interval : Started(t) \in Interval
        BY DEF Interval, Started
      <4> QED BY <1>1, <2>1, <4>1 DEF InitServices
    <3>3. tracking' \in [Main -> Interval] /\ polled' \in [Main -> SUBSET Execution]
      BY <1>1, <2>1, ServicesFacts DEF InitServices
    <3>4. Rest
      BY <1>1, <2>1, <3>2, <3>3 DEF InitServices, waiting, faults
    <3> QED BY <3>1, <3>4, TypeParts
  <2>2. CASE Halt(m)
    <3>1. LockTyped' /\ PipesTyped'
      BY <1>1, <2>2 DEF Halt, lock, LockTyped, PipesTyped, Stage
    <3>2. tracking' \in [Main -> Interval] /\ timer' \in [Main -> [Execution -> {"none", "armed", "cleared"}]]
      BY <2>2, ServicesFacts DEF Halt
    <3>3. Rest
      BY <1>1, <2>2, <3>2 DEF Halt, waiting, faults
    <3> QED BY <3>1, <3>3, TypeParts
  <2>3. CASE Resign(m)
    <3>1. /\ Append(pipe[m], "del") \in Seq(Command)
          /\ Len(Append(pipe[m], "del")) = Len(pipe[m]) + 1
          /\ Len(pipe[m]) \in Nat /\ Len(pipe[m]) <= MaxPipe
      BY <1>1, <1>2, <2>3, Sending, LenProperties, MultiMainBounds DEF PipesTyped, Resign
    <3>2. PipesTyped'
      BY <1>1, <2>3, <3>1, MultiMainBounds DEF Resign, PipesTyped, Stage
    <3>3. Rest /\ LockTyped'
      BY <1>1, <2>3 DEF Resign, lock, services, waiting, faults, LockTyped
    <3> QED BY <3>2, <3>3, TypeParts
  <2>4. CASE Leave(m)
    <3>1. LockTyped' /\ PipesTyped'
      BY <2>4, HangUpTyped DEF Leave, Stage
    <3>2. Rest
      BY <1>1, <2>4 DEF Leave, services, waiting, faults
    <3> QED BY <3>1, <3>2, TypeParts
  <2>5. CASE Exit(m)
    <3>1. LockTyped' /\ PipesTyped'
      BY <1>1, <2>5 DEF Exit, Gone, lock, LockTyped, PipesTyped, Stage
    <3>2. ServicesTyped'
      BY <2>5, ServicesFacts DEF Exit
    <3>3. Rest
      BY <1>1, <2>5, <3>2 DEF Exit, waiting, faults
    <3> QED BY <3>1, <3>3, TypeParts
  <2> QED BY <1>10, <2>1, <2>2, <2>3, <2>4, <2>5 DEF Process
<1>11. ASSUME NEW m \in Main, Tracker(m) PROVE TypeOK'
  <2>1. LockTyped' /\ PipesTyped' /\ RoleTyped' /\ FaultsTyped'
    BY <1>1, <1>11 DEF Tracker, Poll, SetTimers, Fire, Resume, GiveUp, lock, faults, LockTyped, PipesTyped
  <2>2. CASE Poll(m)
    BY <1>1, <2>1, <2>2, TypeParts DEF Poll, Due, waiting
  <2>3. CASE SetTimers(m)
    <3>1. [e \in Execution |-> IF e \in polled[m] /\ timer[m][e] = "none" THEN "armed" ELSE timer[m][e]]
             \in [Execution -> {"none", "armed", "cleared"}]
      BY <1>1
    <3>2. ServicesTyped'
      BY <1>1, <2>3, <3>1 DEF SetTimers
    <3>3. WaitingTyped'
      BY <1>1, <2>3 DEF SetTimers
    <3> QED BY <2>1, <3>2, <3>3, TypeParts
  <2>4. ASSUME NEW e \in Execution, Fire(m, e) PROVE TypeOK'
    <3>1. ServicesTyped'
      <4>1. resuming' \in {resuming, [resuming EXCEPT ![m][e] = @ + 1]}
        BY <2>4 DEF Fire
      <4>2. [resuming[m] EXCEPT ![e] = @ + 1] \in [Execution -> Nat]
        BY <1>1
      <4>3. resuming' \in [Main -> [Execution -> Nat]]
        BY <1>1, <4>1, <4>2
      <4> QED BY <1>1, <2>4, <4>3 DEF Fire
    <3>2. WaitingTyped'
      BY <1>1, <2>4 DEF Fire, waiting
    <3> QED BY <2>1, <3>1, <3>2, TypeParts
  <2>5. ASSUME NEW e \in Execution, Resume(m, e) \/ GiveUp(m, e) PROVE TypeOK'
    <3>1. ServicesTyped'
      <4>1. resuming' = [resuming EXCEPT ![m][e] = @ - 1] /\ resuming[m][e] # 0
        BY <2>5 DEF Resume, GiveUp
      <4>2. resuming[m][e] \in Nat \ {0}
        BY <1>1, <4>1
      <4>3. [resuming[m] EXCEPT ![e] = @ - 1] \in [Execution -> Nat]
        BY <1>1, <4>2
      <4>4. resuming' \in [Main -> [Execution -> Nat]]
        BY <1>1, <4>1, <4>3
      <4> QED BY <1>1, <2>5, <4>4 DEF Resume, GiveUp
    <3>2. WaitingTyped'
      <4>1. \A n \in 0..2 : More(n) \in 0..2
        BY DEF More
      <4>2. CASE Resume(m, e)
        <5>1. /\ row' = [row EXCEPT ![e] = "resumed"] /\ loose' = loose
              /\ starts' = [starts EXCEPT ![e] = More(starts[e])]
          BY <4>2 DEF Resume
        <5>2. More(starts[e]) \in 0..2
          BY <1>1, <4>1
        <5> QED BY <1>1, <5>1, <5>2
      <4>3. CASE GiveUp(m, e)
        BY <1>1, <4>3 DEF GiveUp, waiting
      <4> QED BY <2>5, <4>2, <4>3
    <3> QED BY <2>1, <3>1, <3>2, TypeParts
  <2> QED BY <1>11, <2>2, <2>3, <2>4, <2>5 DEF Tracker
<1>13. CASE UNCHANGED vars
  BY <1>1, <1>13, TypeParts DEF vars, lock, services, waiting, faults, LockTyped, PipesTyped
<1> QED BY <1>3, <1>4, <1>5, <1>6, <1>7, <1>8, <1>9, <1>10, <1>11, <1>13 DEF Next

\* Every state is of the type.
THEOREM TypeCorrect == Spec => []TypeOK
<1>1. Init => TypeOK
  BY InitTyped
<1>2. TypeOK /\ [Next]_vars => TypeOK'
  BY TypeStep
<1> QED BY <1>1, <1>2, PTL DEF Spec

-----------------------------------------------------------------------------
(* The lock. The invariant says for each main how its pipe fits its stage, *)
(* what a main that takes itself for the leader knows of the key, and what *)
(* the one that holds it knows of itself.                                  *)

InOffice == {"starting", "resigning"} \cup Checking

PipeSound(m) ==
    /\ stage[m] \in {"off", "lame", "gone"} => pipe[m] = <<>>
    /\ stage[m] = "starting" =>
          pipe[m] # <<>> /\ \A c \in {"get", "renew", "del"} : ~Contains(pipe[m], c)
    /\ stage[m] = "resigning" <=> Contains(pipe[m], "del")
    /\ m \notin cut => m \in linked /\ Alone(pipe[m])
    /\ m \notin linked /\ stage[m] \in InOffice => m \in unsure

\* A leader that has read the key since it could have lost it holds it, or is
\* about to find out.
LeaderKnows(m) ==
    stage[m] \in InOffice \ {"resigning"} /\ role[m] = "leader" /\ m \notin unsure =>
        key.holder = m \/ Contains(pipe[m], "get")

\* A main that holds the key and was never cut off acts as the leader, and has
\* sent the command that gives the key its time to live.
HolderKnows(m) ==
    m \notin cut /\ key.holder = m =>
        /\ stage[m] # "off"
        /\ stage[m] \in InOffice => role[m] = "leader" /\ ~Contains(pipe[m], "claim")
        /\ key.ttl = Forever /\ stage[m] \in InOffice =>
              Contains(pipe[m], "confirm") \/ Contains(pipe[m], "renew")

MainSound(m) ==
    /\ PipeSound(m) /\ LeaderKnows(m) /\ HolderKnows(m)
    /\ stage[m] = "off" => m \notin cut /\ role[m] = "unset"
    /\ m \notin cut /\ Contains(pipe[m], "confirm") => role[m] = "leader"

LockInv == \A m \in Main : MainSound(m)

\* The stages in which a main may be leader are all but these three.
LEMMA StageFacts ==
    ASSUME TypeOK, NEW m \in Main
    PROVE  stage[m] \in InOffice <=> stage[m] \notin {"off", "lame", "gone"}
  BY DEF TypeOK, Stage, InOffice, Checking

\* A step of main m leaves what is sound about another main.
LEMMA OthersSound ==
    ASSUME TypeOK, LockInv, NEW m \in Main, NEW n \in Main \ {m}, NEW cmds \in Seq(Command),
           key' = Execute(key, m, cmds),
           n \in unsure' <=> n \in unsure \/ (Contains(cmds, "del") /\ key.holder = n),
           stage'[n] = stage[n], role'[n] = role[n], pipe'[n] = pipe[n],
           n \in linked' <=> n \in linked, n \in cut' <=> n \in cut
    PROVE  MainSound(n)'
<1>1. key \in Keys /\ None \notin Main
  BY MainAssumption DEF TypeOK, Keys
<1>2. /\ key'.holder \in {key.holder, m, None}
      /\ key'.ttl = Forever => key'.holder = m \/ key' = key
      /\ ~Contains(cmds, "del") /\ key.holder # None => key'.holder = key.holder
  BY <1>1, ExecuteFacts
<1>3. MainSound(n)
  BY DEF LockInv
<1>4. PipeSound(n)'
  BY <1>3 DEF MainSound, PipeSound
<1>5. LeaderKnows(n)'
  BY <1>1, <1>2, <1>3 DEF MainSound, LeaderKnows
<1>6. HolderKnows(n)'
  BY <1>1, <1>2, <1>3 DEF MainSound, HolderKnows
<1> QED BY <1>3, <1>4, <1>5, <1>6 DEF MainSound

\* A step that does not touch the lock leaves what is sound about a main that
\* does not move.
LEMMA StillSound ==
    ASSUME NEW n \in Main, MainSound(n), UNCHANGED lock,
           stage'[n] = stage[n], role'[n] = role[n], pipe'[n] = pipe[n],
           n \in linked' <=> n \in linked, n \in cut' <=> n \in cut
    PROVE  MainSound(n)'
  BY DEF MainSound, PipeSound, LeaderKnows, HolderKnows, lock

\* One command.
LEMMA OneCommand ==
    ASSUME NEW k \in Keys, NEW m \in Main, NEW c \in Command
    PROVE  Execute(k, m, <<c>>) = Effect(k, m, c)
<1>1. <<c>> \in Seq(Command) /\ Len(<<c>>) = 1 /\ <<c>>[1] = c
  BY ShortPipes
<1>2. PICK f : /\ f[0] = k /\ Execute(k, m, <<c>>) = f[1]
               /\ \A i \in 1..1 : f[i] = Effect(f[i - 1], m, <<c>>[i])
  <2> DEFINE cmds == <<c>>
  <2> HIDE DEF cmds
  <2>1. cmds \in Seq(Command) /\ Len(cmds) = 1
    BY <1>1 DEF cmds
  <2>2. \E f : /\ f[0] = k /\ Execute(k, m, cmds) = f[Len(cmds)]
               /\ \A i \in 1..Len(cmds) : f[i] = Effect(f[i - 1], m, cmds[i])
    BY <2>1, Executing
  <2> QED BY <2>1, <2>2 DEF cmds
<1>3. f[1] = Effect(f[1 - 1], m, <<c>>[1])
  BY <1>2
<1> QED BY <1>1, <1>2, <1>3

\* What an answer to main m leaves, but for what it teaches m about the key.
AnswerLeft(m, cmd, more) ==
    /\ key \in Keys /\ key' = Effect(key, m, cmd)
    /\ stage[m] \in InOffice /\ stage'[m] \in InOffice
    /\ stage'[m] = "resigning" <=> stage[m] = "resigning"
    /\ PipeSound(m)'
    /\ \A n \in Main \ {m} : MainSound(n)'
    /\ m \in cut' <=> m \in cut
    /\ m \in unsure' <=> m \in unsure /\ cmd # "get"
    /\ \A d \in Command : Contains(pipe[m], d) <=> cmd = d \/ Contains(Tail(pipe[m]), d)
    /\ \A d \in Command : Contains(pipe'[m], d) <=> Contains(Tail(pipe[m]), d) \/ Contains(more, d)
    /\ m \notin cut => \A d \in Command \ {"del"} : ~Contains(Tail(pipe[m]), d)

\* An answered command, other than a DEL, leaves the main as AnswerLeft says.
LEMMA AnswerLeaves ==
    ASSUME TypeOK, LockInv, NEW m \in Main, NEW cmd \in Command \ {"del"},
           NEW more \in Seq(Command), Len(more) <= 1, ~Contains(more, "del"),
           Answer(m, cmd, more), stage' = stage \/ AfterClaim(m), UNCHANGED faults,
           \A n \in Main \ {m} : role'[n] = role[n],
           stage'[m] = "starting" => more = <<"confirm">> /\ cmd = "claim"
    PROVE  AnswerLeft(m, cmd, more)
<1>1. /\ <<cmd>> \in Seq(Command) /\ Redis(m, <<cmd>>)
      /\ pipe[m] \in Seq(Command) /\ pipe[m] # <<>> /\ Head(pipe[m]) = cmd
      /\ pipe' = [pipe EXCEPT ![m] = Tail(pipe[m]) \o more]
      /\ pipe'[m] = Tail(pipe[m]) \o more
  <2>1. /\ <<cmd>> \in Seq(Command) /\ Redis(m, <<cmd>>)
        /\ pipe[m] \in Seq(Command) /\ pipe[m] # <<>> /\ Head(pipe[m]) = cmd
        /\ pipe' = [pipe EXCEPT ![m] = Tail(pipe[m]) \o more]
    BY AnswerFacts
  <2> QED BY <2>1 DEF TypeOK
<1>2. key \in Keys /\ key' = Effect(key, m, cmd)
  BY <1>1, OneCommand DEF TypeOK, Keys, Redis
<1>3. MainSound(m) /\ PipeSound(m)
  BY DEF LockInv, MainSound
<1>4. /\ stage[m] \in InOffice /\ stage'[m] \in InOffice
      /\ stage'[m] = "resigning" <=> stage[m] = "resigning"
  <2>1. stage[m] \in InOffice
    BY <1>1, <1>3, StageFacts DEF PipeSound
  <2> QED BY <2>1 DEF AfterClaim, TypeOK, InOffice, Checking
<1>5. /\ \A d \in Command : Contains(pipe[m], d) <=> cmd = d \/ Contains(Tail(pipe[m]), d)
      /\ \A d \in Command : Contains(pipe'[m], d) <=> Contains(Tail(pipe[m]), d) \/ Contains(more, d)
      /\ Alone(pipe[m]) => \A d \in Command \ {"del"} : ~Contains(Tail(pipe[m]), d)
      /\ Alone(pipe[m]) => Alone(pipe'[m])
  <2> DEFINE q == Tail(pipe[m]) \o more
  <2>1. Head(pipe[m]) = cmd /\ cmd # "del"
    BY <1>1
  <2>2. /\ \A d \in Command : Contains(pipe[m], d) <=> Head(pipe[m]) = d \/ Contains(Tail(pipe[m]), d)
        /\ \A d \in Command : Contains(q, d) <=> Contains(Tail(pipe[m]), d) \/ Contains(more, d)
        /\ Alone(pipe[m]) /\ Head(pipe[m]) # "del" =>
              \A d \in Command \ {"del"} : ~Contains(Tail(pipe[m]), d)
        /\ Alone(pipe[m]) /\ Head(pipe[m]) # "del" /\ Len(more) <= 1 => Alone(q)
    BY <1>1, Answering
  <2>3. pipe'[m] = q
    BY <1>1
  <2> HIDE DEF q
  <2> QED BY <2>1, <2>2, <2>3
<1>6. m \in cut' <=> m \in cut
  BY DEF faults
<1>7. m \in unsure' <=> m \in unsure /\ cmd # "get"
  <2>1. <<cmd>> = <<"get">> <=> cmd = "get"
    OBVIOUS
  <2> QED BY <1>1, <2>1, RedisFacts
<1>8. m \in linked /\ linked' = linked /\ cut' = cut
  BY DEF Answer, faults
<1>9. PipeSound(m)'
  <2>1. stage'[m] = "starting" =>
          pipe'[m] # <<>> /\ \A c \in {"get", "renew", "del"} : ~Contains(pipe'[m], c)
    <3> SUFFICES ASSUME stage'[m] = "starting"
                 PROVE  pipe'[m] # <<>> /\ \A c \in {"get", "renew", "del"} : ~Contains(pipe'[m], c)
      OBVIOUS
    <3>1. stage[m] = "starting"
      BY DEF AfterClaim, TypeOK
    <3>2. "confirm" \in Command /\ {"get", "renew", "del"} \subseteq Command
      BY DEF Command
    <3>3. \A d \in Command : Contains(more, d) <=> d = "confirm"
      BY <3>2, ShortPipes
    <3>4. Contains(pipe'[m], "confirm")
      BY <1>5, <3>2, <3>3
    <3>5. pipe'[m] # <<>>
      BY <3>2, <3>4, ShortPipes
    <3>6. \A c \in {"get", "renew", "del"} : ~Contains(pipe[m], c)
      BY <1>3, <3>1 DEF PipeSound
    <3> QED BY <1>5, <3>2, <3>3, <3>5, <3>6
  <2>2. stage'[m] = "resigning" <=> Contains(pipe'[m], "del")
    BY <1>3, <1>4, <1>5 DEF PipeSound, Command
  <2>3. stage'[m] \notin {"off", "lame", "gone"}
    BY <1>4 DEF InOffice, Checking
  <2>4. m \notin cut' => m \in linked' /\ Alone(pipe'[m])
    BY <1>3, <1>5, <1>8 DEF PipeSound
  <2> QED BY <1>8, <2>1, <2>2, <2>3, <2>4 DEF PipeSound
<1>10. ASSUME NEW n \in Main \ {m} PROVE MainSound(n)'
  <2>1. key' = Execute(key, m, <<cmd>>)
    BY <1>1 DEF Redis
  <2>2. n \in unsure' <=> n \in unsure \/ (Contains(<<cmd>>, "del") /\ key.holder = n)
    BY <1>1, RedisFacts
  <2>3. stage'[n] = stage[n] /\ role'[n] = role[n] /\ pipe'[n] = pipe[n]
    BY <1>1 DEF AfterClaim, TypeOK
  <2> QED BY <1>1, <1>8, <2>1, <2>2, <2>3, OthersSound
<1>11. m \notin cut => \A d \in Command \ {"del"} : ~Contains(Tail(pipe[m]), d)
  BY <1>3, <1>5 DEF PipeSound
<1> QED BY <1>2, <1>4, <1>5, <1>6, <1>7, <1>9, <1>10, <1>11 DEF AnswerLeft

\* The answers keep the lock sound.
LEMMA AnswersSound ==
    ASSUME TypeOK, LockInv, NEW m \in Main,
           FindOwn(m) \/ FindOther(m) \/ FindVacant(m) \/ ClaimWon(m) \/ ClaimLost(m) \/ Confirm(m) \/ Renew(m)
    PROVE  LockInv'
<1> DEFINE Kept == \A n \in Main \ {m} : role'[n] = role[n]
<1>1. /\ <<>> \in Seq(Command) /\ Len(<<>>) <= 1 /\ \A d \in Command : ~Contains(<<>>, d)
      /\ \A c \in Command : <<c>> \in Seq(Command) /\ Len(<<c>>) <= 1
      /\ \A c, d \in Command : Contains(<<c>>, d) <=> c = d
      /\ Command = {"get", "claim", "confirm", "renew", "del"}
  BY ShortPipes DEF Command
<1>2. MainSound(m) /\ PipeSound(m)
  BY DEF LockInv, MainSound
<1>3. None \notin Main /\ Ttl # Forever
  BY MainAssumption, MultiMainBounds DEF Forever
<1>4. stage'[m] \in InOffice => stage'[m] # "off"
  BY DEF InOffice, Checking
<1>5. stage[m] = "starting" => ~Contains(pipe[m], "get") /\ ~Contains(pipe[m], "renew")
  BY <1>2 DEF PipeSound
<1>6. \A k \in Keys :
        /\ Effect(k, m, "get") = k
        /\ k.holder = None => Effect(k, m, "claim").holder = m
        /\ k.holder # None => Effect(k, m, "claim") = k
        /\ \A c \in {"confirm", "renew"} :
              Effect(k, m, c).holder = k.holder /\ (k.holder # None => Effect(k, m, c).ttl # Forever)
  <2>1. ASSUME NEW k \in Keys, NEW c \in {"confirm", "renew"}
        PROVE  Effect(k, m, c).holder = k.holder /\ (k.holder # None => Effect(k, m, c).ttl # Forever)
    <3>1. Effect(k, m, c) = IF k.holder # None THEN [k EXCEPT !.ttl = Ttl] ELSE k
      BY <1>1, EffectFacts
    <3> QED BY <1>3, <3>1 DEF Keys
  <2>2. ASSUME NEW k \in Keys
        PROVE  /\ Effect(k, m, "get") = k
               /\ k.holder = None => Effect(k, m, "claim").holder = m
               /\ k.holder # None => Effect(k, m, "claim") = k
    BY <1>1, EffectFacts
  <2> QED BY <2>1, <2>2
<1>7. SUFFICES MainSound(m)' /\ \A n \in Main \ {m} : MainSound(n)'
  BY DEF LockInv
<1>8. role \in [Main -> {"unset", "leader", "follower"}]
  BY DEF TypeOK
<1>9. ASSUME NEW cmd \in Command, NEW more, Answer(m, cmd, more) PROVE Contains(pipe[m], cmd)
  <2>1. pipe[m] \in Seq(Command) /\ pipe[m] # <<>> /\ Head(pipe[m]) = cmd
    BY <1>9 DEF TypeOK, Answer
  <2> QED BY <1>1, <2>1, Answering
<1>10. ASSUME NEW cmd \in Command \ {"del"}, NEW more \in {<<>>} \cup {<<c>> : c \in Command \ {"del"}},
              Answer(m, cmd, more), stage' = stage \/ AfterClaim(m), UNCHANGED faults, Kept,
              stage'[m] = "starting" => more = <<"confirm">> /\ cmd = "claim"
       PROVE  AnswerLeft(m, cmd, more)
  <2>1. more \in Seq(Command) /\ Len(more) <= 1 /\ ~Contains(more, "del")
    <3>1. CASE more = <<>>
      BY <1>1, <3>1
    <3>2. ASSUME NEW c \in Command \ {"del"}, more = <<c>>
          PROVE  more \in Seq(Command) /\ Len(more) <= 1 /\ ~Contains(more, "del")
      BY <1>1, <3>2
    <3> QED BY <3>1, <3>2
  <2> QED BY <1>10, <2>1, AnswerLeaves
<1>11. /\ <<>> \in {<<>>} \cup {<<c>> : c \in Command \ {"del"}}
       /\ \A c \in Command \ {"del"} : <<c>> \in {<<>>} \cup {<<d>> : d \in Command \ {"del"}}
  OBVIOUS
<1>12. CASE FindOwn(m)
  <2>1. key.holder = m /\ Answer(m, "get", <<"renew">>) /\ UNCHANGED <<stage, role, faults>>
    BY <1>12 DEF FindOwn
  <2>2. stage'[m] # "starting"
    <3>1. Contains(pipe[m], "get")
      BY <1>1, <1>9, <2>1
    <3> QED BY <1>5, <2>1, <3>1
  <2>3. AnswerLeft(m, "get", <<"renew">>)
    BY <1>1, <1>10, <1>11, <2>1, <2>2
  <2> QED BY <1>1, <1>2, <1>4, <1>6, <2>1, <2>3 DEF AnswerLeft, MainSound, LeaderKnows, HolderKnows
<1>13. CASE FindOther(m)
  <2>1. /\ key.holder \notin {m, None} /\ Answer(m, "get", <<>>) /\ UNCHANGED <<stage, faults>>
        /\ role' = [role EXCEPT ![m] = "follower"]
    BY <1>13 DEF FindOther
  <2>2. stage'[m] # "starting"
    <3>1. Contains(pipe[m], "get")
      BY <1>1, <1>9, <2>1
    <3> QED BY <1>5, <2>1, <3>1
  <2>3. Kept /\ role'[m] = "follower"
    BY <1>8, <2>1
  <2>4. AnswerLeft(m, "get", <<>>)
    BY <1>1, <1>10, <1>11, <2>1, <2>2, <2>3
  <2> QED BY <1>1, <1>2, <1>4, <1>6, <2>1, <2>3, <2>4 DEF AnswerLeft, MainSound, LeaderKnows, HolderKnows
<1>14. CASE FindVacant(m)
  <2>1. /\ key.holder = None /\ Answer(m, "get", <<"claim">>) /\ UNCHANGED <<stage, faults>>
        /\ role' = [role EXCEPT ![m] = "follower"]
    BY <1>14 DEF FindVacant
  <2>2. stage'[m] # "starting"
    <3>1. Contains(pipe[m], "get")
      BY <1>1, <1>9, <2>1
    <3> QED BY <1>5, <2>1, <3>1
  <2>3. Kept /\ role'[m] = "follower"
    BY <1>8, <2>1
  <2>4. AnswerLeft(m, "get", <<"claim">>)
    BY <1>1, <1>10, <1>11, <2>1, <2>2, <2>3
  <2> QED BY <1>1, <1>2, <1>3, <1>4, <1>6, <2>1, <2>3, <2>4 DEF AnswerLeft, MainSound, LeaderKnows, HolderKnows
<1>15. CASE ClaimWon(m)
  <2>1. /\ key.holder = None /\ Answer(m, "claim", <<"confirm">>) /\ UNCHANGED <<stage, faults>>
        /\ role' = [role EXCEPT ![m] = "leader"]
    BY <1>15 DEF ClaimWon
  <2>2. Kept /\ role'[m] = "leader"
    BY <1>8, <2>1
  <2>3. AnswerLeft(m, "claim", <<"confirm">>)
    BY <1>1, <1>10, <1>11, <2>1, <2>2
  <2> QED BY <1>1, <1>2, <1>4, <1>6, <2>1, <2>2, <2>3 DEF AnswerLeft, MainSound, LeaderKnows, HolderKnows
<1>16. CASE ClaimLost(m)
  <2>1. /\ key.holder # None /\ Answer(m, "claim", <<>>) /\ AfterClaim(m) /\ UNCHANGED faults
        /\ role' = [role EXCEPT ![m] = "follower"]
    BY <1>16 DEF ClaimLost
  <2>2. Kept /\ role'[m] = "follower" /\ stage'[m] # "starting"
    BY <1>8, <2>1 DEF AfterClaim, TypeOK
  <2>3. AnswerLeft(m, "claim", <<>>)
    BY <1>1, <1>10, <1>11, <2>1, <2>2
  <2>4. Contains(pipe[m], "claim")
    BY <1>1, <1>9, <2>1
  <2> QED BY <1>1, <1>2, <1>4, <1>6, <2>1, <2>2, <2>3, <2>4 DEF AnswerLeft, MainSound, LeaderKnows, HolderKnows
<1>17. CASE Confirm(m)
  <2>1. Answer(m, "confirm", <<>>) /\ AfterClaim(m) /\ UNCHANGED <<role, faults>>
    BY <1>17 DEF Confirm
  <2>2. Kept /\ role'[m] = role[m] /\ stage'[m] # "starting"
    BY <2>1 DEF AfterClaim, TypeOK
  <2>3. AnswerLeft(m, "confirm", <<>>)
    BY <1>1, <1>10, <1>11, <2>1, <2>2
  <2>4. key'.holder = key.holder /\ (key.holder # None => key'.ttl # Forever)
    BY <1>6, <2>3 DEF AnswerLeft
  <2> QED BY <1>1, <1>2, <1>3, <1>4, <2>1, <2>2, <2>3, <2>4 DEF AnswerLeft, MainSound, LeaderKnows, HolderKnows
<1>18. CASE Renew(m)
  <2>1. Answer(m, "renew", <<>>) /\ UNCHANGED <<stage, role, faults>>
    BY <1>18 DEF Renew
  <2>2. stage'[m] # "starting"
    <3>1. Contains(pipe[m], "renew")
      BY <1>1, <1>9, <2>1
    <3> QED BY <1>5, <2>1, <3>1
  <2>3. AnswerLeft(m, "renew", <<>>)
    BY <1>1, <1>10, <1>11, <2>1, <2>2
  <2>4. key'.holder = key.holder /\ (key.holder # None => key'.ttl # Forever)
    BY <1>6, <2>3 DEF AnswerLeft
  <2> QED BY <1>1, <1>2, <1>3, <1>4, <2>1, <2>3, <2>4 DEF AnswerLeft, MainSound, LeaderKnows, HolderKnows
<1> QED BY <1>12, <1>13, <1>14, <1>15, <1>16, <1>17, <1>18

\* A main that hangs up is soon no leader any more.
LEMMA HangUpSound ==
    ASSUME TypeOK, LockInv, NEW m \in Main, HangUp(m, pipe[m]), NEW s \in {"lame", "gone"},
           stage' = [stage EXCEPT ![m] = s], UNCHANGED <<role, linked, cut>>
    PROVE  LockInv'
<1>1. pipe[m] \in Seq(Command) /\ pipe' = [pipe EXCEPT ![m] = <<>>] /\ pipe'[m] = <<>>
  BY DEF TypeOK, HangUp
<1>2. PICK i \in 0..Len(pipe[m]) : Redis(m, SubSeq(pipe[m], 1, i))
  BY DEF HangUp
<1> DEFINE cmds == SubSeq(pipe[m], 1, i)
<1>3. cmds \in Seq(Command) /\ Redis(m, cmds)
  BY <1>1, <1>2, Beginning
<1> HIDE DEF cmds
<1>4. MainSound(m) /\ stage'[m] = s
  BY DEF LockInv, TypeOK
<1>5. MainSound(m)'
  <2>1. \A c \in Command : ~Contains(pipe'[m], c)
    BY <1>1, ShortPipes
  <2>2. Alone(pipe'[m])
    BY <1>1, ShortPipes
  <2>3. stage'[m] \notin InOffice /\ stage'[m] \notin {"off", "starting", "resigning"}
    BY <1>4 DEF InOffice, Checking
  <2> QED BY <1>1, <1>4, <2>1, <2>2, <2>3
          DEF MainSound, PipeSound, LeaderKnows, HolderKnows, Command
<1>6. ASSUME NEW n \in Main \ {m} PROVE MainSound(n)'
  <2>1. key' = Execute(key, m, cmds)
    BY <1>3 DEF Redis
  <2>2. n \in unsure' <=> n \in unsure \/ (Contains(cmds, "del") /\ key.holder = n)
    BY <1>3, RedisFacts
  <2>3. stage'[n] = stage[n] /\ pipe'[n] = pipe[n]
    BY <1>1
  <2> QED BY <1>3, <2>1, <2>2, <2>3, OthersSound
<1> QED BY <1>5, <1>6 DEF LockInv

\* The connection of a main is lost.
LEMMA CutSound ==
    ASSUME TypeOK, LockInv, NEW m \in Main, Cut(m)
    PROVE  LockInv'
<1>1. PICK i \in 0..Len(pipe[m]) : /\ key' = Execute(key, m, SubSeq(pipe[m], 1, i))
                                   /\ unsure' = unsure \cup {m} \cup Robbed(m, SubSeq(pipe[m], 1, i))
  BY DEF Cut
<1> DEFINE cmds == SubSeq(pipe[m], 1, i)
<1>2. pipe[m] \in Seq(Command)
  BY DEF TypeOK
<1>3. cmds \in Seq(Command) /\ key' = Execute(key, m, cmds) /\ unsure' = unsure \cup {m} \cup Robbed(m, cmds)
  BY <1>1, <1>2, Beginning
<1> HIDE DEF cmds
<1>4. MainSound(m)
  BY DEF LockInv
<1>5. MainSound(m)'
  <2>1. m \in cut' /\ m \in unsure' /\ stage'[m] = stage[m] /\ stage[m] \notin {"off", "lame", "gone"}
    BY <1>3 DEF Cut, Alive
  <2>2. pipe'[m] = pipe[m] /\ role'[m] = role[m]
    BY DEF Cut
  <2> QED BY <1>4, <2>1, <2>2 DEF MainSound, PipeSound, LeaderKnows, HolderKnows
<1>6. ASSUME NEW n \in Main \ {m} PROVE MainSound(n)'
  <2>1. key.holder = n => key.holder # None
    BY MainAssumption
  <2>2. n \in unsure' <=> n \in unsure \/ (Contains(cmds, "del") /\ key.holder = n)
    BY <1>3, <2>1 DEF Robbed
  <2>3. /\ stage'[n] = stage[n] /\ role'[n] = role[n] /\ pipe'[n] = pipe[n]
        /\ n \in linked' <=> n \in linked
        /\ n \in cut' <=> n \in cut
    BY DEF Cut
  <2> QED BY <1>3, <2>2, <2>3, OthersSound
<1> QED BY <1>5, <1>6 DEF LockInv

\* An interval passes.
LEMMA TickSound ==
    ASSUME TypeOK, LockInv, Tick, NEW n \in Main
    PROVE  MainSound(n)'
<1>1. /\ MainSound(n) /\ stage[n] \in Stage /\ pipe[n] \in Seq(Command) /\ Len(pipe[n]) \in Nat
      /\ key \in Keys /\ None \notin Main /\ Ttl \in Nat \ {0} /\ MaxPipe \in Nat \ {0}
  BY MainAssumption, MultiMainBounds, LenProperties DEF LockInv, TypeOK, Keys
<1>2. /\ key'.holder = n => key.holder = n
      /\ key.holder = n /\ key'.holder # n => key.ttl = 1
      /\ key'.holder = n /\ key'.ttl = Forever => key.ttl = Forever
  BY <1>1 DEF Tick, NoKey, Keys, Forever
<1>3. /\ stage'[n] = stage[n] /\ role'[n] = role[n]
      /\ unsure' = unsure /\ linked' = linked /\ cut' = cut
      /\ pipe'[n] = IF stage[n] \in Checking /\ Len(pipe[n]) < MaxPipe THEN Append(pipe[n], "get") ELSE pipe[n]
  BY DEF Tick, faults
<1>4. /\ Len(Append(pipe[n], "get")) = Len(pipe[n]) + 1 /\ Append(pipe[n], "get") # <<>>
      /\ \A d \in Command : Contains(Append(pipe[n], "get"), d) <=> Contains(pipe[n], d) \/ d = "get"
      /\ pipe[n] = <<>> => Alone(Append(pipe[n], "get"))
      /\ Command = {"get", "claim", "confirm", "renew", "del"}
  <2>1. "get" \in Command /\ Command = {"get", "claim", "confirm", "renew", "del"}
    BY DEF Command
  <2> DEFINE q == Append(pipe[n], "get")
  <2>2. /\ Len(q) = Len(pipe[n]) + 1 /\ q # <<>>
        /\ \A d \in Command : Contains(q, d) <=> Contains(pipe[n], d) \/ d = "get"
        /\ Alone(pipe[n]) /\ ("get" = "del" \/ pipe[n] = <<>>) => Alone(q)
    BY <1>1, <2>1, Sending
  <2>3. pipe[n] = <<>> => Alone(pipe[n])
    BY ShortPipes
  <2> HIDE DEF q
  <2>4. pipe[n] = <<>> => Alone(q)
    BY <2>2, <2>3
  <2> QED BY <2>1, <2>2, <2>4 DEF q
<1>5. n \in linked => pipe[n] = <<>> /\ Len(pipe[n]) = 0 /\ \A d \in Command : ~Contains(pipe[n], d)
  BY ShortPipes DEF Tick
<1>6. CASE stage[n] \in Checking /\ Len(pipe[n]) < MaxPipe
  <2>1. pipe'[n] = Append(pipe[n], "get")
    BY <1>3, <1>6
  <2>2. stage[n] \in InOffice /\ stage[n] \notin {"off", "lame", "gone", "starting", "resigning"}
    BY <1>6 DEF InOffice, Checking
  <2>3. \A d \in Command : Contains(pipe'[n], d) <=> Contains(pipe[n], d) \/ d = "get"
    BY <1>4, <2>1
  <2>4. PipeSound(n)'
    BY <1>1, <1>3, <1>4, <1>5, <2>1, <2>2, <2>3 DEF MainSound, PipeSound
  <2>5. LeaderKnows(n)'
    BY <1>4, <2>3 DEF LeaderKnows
  <2>6. HolderKnows(n)'
    BY <1>1, <1>2, <1>3, <1>4, <2>2, <2>3 DEF MainSound, HolderKnows
  <2> QED BY <1>1, <1>3, <1>4, <2>2, <2>3, <2>4, <2>5, <2>6 DEF MainSound
<1>7. CASE ~(stage[n] \in Checking /\ Len(pipe[n]) < MaxPipe)
  <2>1. pipe'[n] = pipe[n]
    BY <1>3, <1>7
  <2>2. PipeSound(n)'
    BY <1>1, <1>3, <2>1 DEF MainSound, PipeSound
  <2>3. LeaderKnows(n)'
    <3> SUFFICES ASSUME stage[n] \in InOffice \ {"resigning"}, n \notin unsure PROVE FALSE
      BY <1>3 DEF LeaderKnows
    <3>1. n \in linked
      BY <1>1 DEF MainSound, PipeSound
    <3>2. stage[n] # "starting"
      BY <1>1, <1>5, <3>1 DEF MainSound, PipeSound
    <3>3. stage[n] \in Checking
      BY <3>2 DEF InOffice
    <3> QED BY <1>1, <1>5, <1>7, <3>1, <3>3
  <2>4. HolderKnows(n)'
    BY <1>1, <1>2, <1>3, <2>1 DEF MainSound, HolderKnows
  <2> QED BY <1>1, <1>3, <2>1, <2>2, <2>3, <2>4 DEF MainSound
<1> QED BY <1>6, <1>7

\* Every other step.
LEMMA LockStep == TypeOK /\ LockInv /\ [Next]_vars => LockInv'
<1> SUFFICES ASSUME TypeOK, LockInv, [Next]_vars PROVE LockInv'
  OBVIOUS
<1>1. \A n \in Main : MainSound(n)
  BY DEF LockInv
<1>2. CASE Tick
  BY <1>2, TickSound DEF LockInv
<1>3. ASSUME NEW m \in Main, Boot(m) PROVE LockInv'
  <2>1. \A n \in Main \ {m} : MainSound(n)'
    BY <1>1, <1>3, StillSound DEF Boot, faults
  <2>2. /\ pipe'[m] = <<"claim">> /\ stage'[m] = "starting" /\ role'[m] = role[m]
        /\ key' = key /\ unsure' = unsure /\ linked' = linked /\ cut' = cut
    BY <1>3 DEF Boot, TypeOK, lock, faults
  <2>3. /\ "claim" \in Command /\ {"get", "renew", "del", "confirm"} \subseteq Command
        /\ \A d \in Command : Contains(<<"claim">>, d) <=> d = "claim"
        /\ <<"claim">> # <<>> /\ Alone(<<"claim">>)
    BY ShortPipes DEF Command
  <2>4. /\ MainSound(m) /\ PipeSound(m) /\ HolderKnows(m)
        /\ stage[m] = "off" /\ m \notin cut /\ role[m] = "unset" /\ key.holder # m /\ m \in linked
    BY <1>1, <1>3 DEF MainSound, PipeSound, HolderKnows, Boot
  <2>5. MainSound(m)'
    BY <2>2, <2>3, <2>4 DEF MainSound, PipeSound, LeaderKnows, HolderKnows
  <2> QED BY <2>1, <2>5 DEF LockInv
<1>4. ASSUME NEW m \in Main, Stop(m) \/ InitServices(m) \/ Halt(m) PROVE LockInv'
  <2>1. /\ UNCHANGED lock /\ role' = role /\ pipe' = pipe /\ linked' = linked /\ cut' = cut
        /\ \A n \in Main \ {m} : stage'[n] = stage[n]
        /\ {stage[m], stage'[m]} \subseteq Checking
    BY <1>4 DEF Stop, InitServices, Halt, faults, TypeOK, Checking
  <2>2. \A n \in Main \ {m} : MainSound(n)'
    BY <1>1, <2>1, StillSound
  <2>3. MainSound(m)'
    BY <1>1, <2>1 DEF MainSound, PipeSound, LeaderKnows, HolderKnows, lock, InOffice, Checking
  <2> QED BY <2>2, <2>3 DEF LockInv
<1>5. ASSUME NEW m \in Main, Resign(m) PROVE LockInv'
  <2>1. \A n \in Main \ {m} : MainSound(n)'
    BY <1>1, <1>5, StillSound DEF Resign, faults
  <2>2. /\ pipe'[m] = Append(pipe[m], "del") /\ pipe[m] \in Seq(Command)
        /\ stage[m] = "halting" /\ stage'[m] = "resigning" /\ role'[m] = role[m]
        /\ key' = key /\ unsure' = unsure /\ linked' = linked /\ cut' = cut
    BY <1>5 DEF Resign, TypeOK, lock, faults
  <2>3. /\ {"get", "renew", "del", "confirm", "claim"} \subseteq Command
        /\ \A d \in Command : Contains(pipe'[m], d) <=> Contains(pipe[m], d) \/ d = "del"
        /\ Alone(pipe[m]) => Alone(pipe'[m])
    <3>1. "del" \in Command /\ {"get", "renew", "del", "confirm", "claim"} \subseteq Command
      BY DEF Command
    <3> QED BY <2>2, <3>1, Sending
  <2>4. MainSound(m)'
    BY <1>1, <2>2, <2>3 DEF MainSound, PipeSound, LeaderKnows, HolderKnows, InOffice, Checking
  <2> QED BY <2>1, <2>4 DEF LockInv
<1>6. ASSUME NEW m \in Main, Crash(m) PROVE LockInv'
  BY <1>6, HangUpSound DEF Crash, Gone
<1>7. ASSUME NEW m \in Main, Leave(m) PROVE LockInv'
  BY <1>7, HangUpSound DEF Leave, faults
<1>8. ASSUME NEW m \in Main, Resigned(m) PROVE LockInv'
  <2>1. HangUp(m, pipe[m])
    BY <1>8 DEF Resigned, HangUp
  <2> QED BY <1>8, <2>1, HangUpSound DEF Resigned, faults
<1>9. ASSUME NEW m \in Main, Exit(m) PROVE LockInv'
  <2>1. \A n \in Main \ {m} : MainSound(n)'
    BY <1>1, <1>9, StillSound DEF Exit, Gone, faults
  <2>2. /\ UNCHANGED lock /\ role' = role /\ pipe' = pipe /\ linked' = linked /\ cut' = cut
        /\ stage[m] = "lame" /\ stage'[m] = "gone"
    BY <1>9 DEF Exit, Gone, faults, TypeOK
  <2>3. MainSound(m)'
    BY <1>1, <2>2 DEF MainSound, PipeSound, LeaderKnows, HolderKnows, lock, InOffice, Checking
  <2> QED BY <2>1, <2>3 DEF LockInv
<1>10. ASSUME NEW m \in Main, Cut(m) PROVE LockInv'
  BY <1>10, CutSound
<1>11. ASSUME NEW m \in Main, Relink(m) PROVE LockInv'
  <2>1. \A n \in Main \ {m} : MainSound(n)'
    BY <1>1, <1>11, StillSound DEF Relink
  <2>2. MainSound(m)'
    BY <1>1, <1>11 DEF Relink, MainSound, PipeSound, LeaderKnows, HolderKnows, lock
  <2> QED BY <2>1, <2>2 DEF LockInv
<1>12. ASSUME NEW m \in Main, Protocol(m) PROVE LockInv'
  BY <1>8, <1>12, AnswersSound DEF Protocol
<1>13. ASSUME NEW m \in Main, Process(m) PROVE LockInv'
  BY <1>4, <1>5, <1>7, <1>9, <1>13 DEF Process
<1>14. ASSUME NEW m \in Main, Tracker(m) PROVE LockInv'
  BY <1>1, <1>14, StillSound DEF Tracker, Poll, SetTimers, Fire, Resume, GiveUp, faults, LockInv
<1>16. CASE UNCHANGED vars
  BY <1>1, <1>16, StillSound DEF vars, faults, LockInv
<1> QED BY <1>2, <1>3, <1>4, <1>6, <1>10, <1>11, <1>12, <1>13, <1>14, <1>16 DEF Next

\* The invariant of the lock holds in the beginning.
LEMMA LockInit == Init => LockInv
<1> SUFFICES ASSUME Init, NEW m \in Main PROVE MainSound(m)
  BY DEF LockInv
<1>1. pipe[m] = <<>> /\ stage[m] = "off" /\ role[m] = "unset" /\ linked = Main /\ cut = {} /\ key.holder # m
  BY MainAssumption DEF Init, NoKey
<1>2. Alone(pipe[m]) /\ \A c \in Command : ~Contains(pipe[m], c)
  BY <1>1, ShortPipes
<1> QED BY <1>1, <1>2
        DEF MainSound, PipeSound, LeaderKnows, HolderKnows, InOffice, Checking, Command

\* The invariant of the lock holds in every reachable state.
LEMMA LockAlwaysSound == Spec => [](TypeOK /\ LockInv)
<1>1. Init => TypeOK /\ LockInv
  BY InitTyped, LockInit
<1>2. TypeOK /\ LockInv /\ [Next]_vars => TypeOK' /\ LockInv'
  BY TypeStep, LockStep
<1> QED BY <1>1, <1>2, PTL DEF Spec

\* Leader, holder and life of the key agree, for any number of mains that lose
\* their connection, crash and are stopped any number of times.
THEOREM LeadershipIsSound == Spec => []LeadershipSound
<1>1. TypeOK /\ LockInv => LeadershipSound
  <2> SUFFICES ASSUME TypeOK, LockInv PROVE LeadershipSound
    OBVIOUS
  <2>1. \A m \in Main : MainSound(m)
    BY DEF LockInv
  <2>2. \A c \in Command : ~Contains(<<>>, c)
    BY ShortPipes
  <2>3. LeaderHoldsKey
    BY <2>1, <2>2 DEF LeaderHoldsKey, Informed, MainSound, LeaderKnows, InOffice, Checking, Command
  <2>4. HolderLeads
    BY <2>1 DEF HolderLeads, Informed, MainSound, HolderKnows, InOffice
  <2>5. KeyExpires
    <3> SUFFICES ASSUME key.ttl = Forever, key.holder \notin cut
                 PROVE  \/ Contains(pipe[key.holder], "confirm") \/ Contains(pipe[key.holder], "renew")
                        \/ stage[key.holder] \in {"lame", "gone"}
      BY DEF KeyExpires
    <3>1. key.holder \in Main
      BY MultiMainBounds DEF TypeOK, Forever
    <3>2. HolderKnows(key.holder)
      BY <2>1, <3>1 DEF MainSound
    <3> QED BY <3>1, <3>2, StageFacts DEF HolderKnows
  <2> QED BY <2>3, <2>4, <2>5 DEF LeadershipSound
<1> QED BY <1>1, LockAlwaysSound, PTL

-----------------------------------------------------------------------------
(* Waiting executions. While no connection was lost, the mains that take   *)
(* themselves for the leader hold the key, so there is one, and only it    *)
(* has timers. That takes a key that lives for more than one interval.     *)

TracksAsLeader(m) ==
    /\ stage[m] \in InOffice /\ role[m] = "leader" =>
          key.holder = m /\ (pipe[m] = <<>> => key.ttl >= Ttl)
    /\ stage[m] = "resigning" => role[m] = "leader"
    /\ stage[m] \in {"off", "starting", "booting"} => tracking[m] = Idle
    /\ stage[m] \in {"up", "stopping"} /\ Ticks(tracking[m]) => role[m] = "leader"
    /\ \A e \in Execution : timer[m][e] = "armed" /\ ~loose =>
          stage[m] \in {"up", "stopping"} /\ role[m] = "leader" /\ row[e] = "waiting"

StartsCounted == ~loose => \A e \in Execution : starts[e] = IF row[e] = "waiting" THEN 0 ELSE 1

\* As long as no timer is out of place, an execution that is being resumed still
\* waits, is resumed by one call, and has no timer.
OneResume ==
    ~loose => \A e \in Execution, m \in Main : resuming[m][e] # 0 =>
        /\ row[e] = "waiting" /\ resuming[m][e] = 1
        /\ \A n \in Main : timer[n][e] # "armed" /\ (resuming[n][e] # 0 => n = m)

ResumeInv == cut = {} => StartsCounted /\ OneResume /\ \A m \in Main : TracksAsLeader(m)

\* What a step changes of a main: nothing.
Stays(n) ==
    /\ stage'[n] = stage[n] /\ role'[n] = role[n] /\ pipe'[n] = pipe[n]
    /\ tracking'[n] = tracking[n] /\ timer'[n] = timer[n]

\* The commands of a main, a DEL only when it resigns, leave the key with the
\* leader.
LEMMA OthersTrack ==
    ASSUME TypeOK, NEW m \in Main, NEW n \in Main \ {m}, TracksAsLeader(m), TracksAsLeader(n),
           NEW cmds \in Seq(Command), key' = Execute(key, m, cmds),
           Contains(cmds, "del") => stage[m] = "resigning", Stays(n), UNCHANGED waiting
    PROVE  TracksAsLeader(n)'
<1>1. key \in Keys /\ None \notin Main /\ Ttl \in Nat
  BY MainAssumption, MultiMainBounds DEF TypeOK, Keys
<1>2. /\ ~Contains(cmds, "del") /\ key.holder # None =>
            key'.holder = key.holder /\ key'.ttl \in {key.ttl, Ttl}
  BY <1>1, ExecuteFacts
<1>3. stage[n] \in InOffice /\ role[n] = "leader" => key'.holder = n /\ (pipe[n] = <<>> => key'.ttl >= Ttl)
  <2> SUFFICES ASSUME stage[n] \in InOffice, role[n] = "leader"
               PROVE  key'.holder = n /\ (pipe[n] = <<>> => key'.ttl >= Ttl)
    OBVIOUS
  <2>1. key.holder = n /\ (pipe[n] = <<>> => key.ttl >= Ttl)
    BY DEF TracksAsLeader
  <2>2. ~Contains(cmds, "del")
    BY <2>1 DEF TracksAsLeader, InOffice
  <2> QED BY <1>1, <1>2, <2>1, <2>2
<1> QED BY <1>3 DEF TracksAsLeader, Stays, waiting

\* A leader that a step does not concern still tracks the waiting executions.
LEMMA StillTracks ==
    ASSUME NEW n \in Main, TracksAsLeader(n), Stays(n), UNCHANGED <<key, waiting>>
    PROVE  TracksAsLeader(n)'
  BY DEF TracksAsLeader, Stays, waiting

\* What an answer finds while no connection was lost: a leader holds the key,
\* and the answered command is the only one but for a DEL.
LEMMA Uninterrupted ==
    ASSUME TypeOK, LockInv, cut = {}, NEW m \in Main, TracksAsLeader(m),
           NEW cmd \in Command, NEW more, Answer(m, cmd, more)
    PROVE  /\ stage[m] \in InOffice /\ m \notin cut /\ MainSound(m)
           /\ Contains(pipe[m], cmd)
           /\ role[m] = "leader" => key.holder = m
           /\ cmd = "claim" => ~(role[m] = "leader")
           /\ cmd = "confirm" => role[m] = "leader"
           /\ <<cmd>> \in Seq(Command) /\ key' = Execute(key, m, <<cmd>>)
           /\ key \in Keys /\ key' = Effect(key, m, cmd)
           /\ cmd # "del" => ~Contains(<<cmd>>, "del")
           /\ pipe'[m] = Tail(pipe[m]) \o more
           /\ \A n \in Main \ {m} : pipe'[n] = pipe[n]
<1>1. MainSound(m) /\ m \notin cut
  BY DEF LockInv
<1>2. pipe[m] \in Seq(Command) /\ pipe[m] # <<>> /\ Head(pipe[m]) = cmd
  BY DEF TypeOK, Answer
<1>3. Contains(pipe[m], cmd)
  BY <1>2, ShortPipes, Answering
<1>4. stage[m] \in InOffice
  BY <1>1, <1>2, StageFacts DEF MainSound, PipeSound
<1>5. role[m] = "leader" => key.holder = m
  BY <1>4 DEF TracksAsLeader
<1>6. cmd = "claim" => ~(role[m] = "leader")
  BY <1>1, <1>3, <1>4, <1>5 DEF MainSound, HolderKnows
<1>7. cmd = "confirm" => role[m] = "leader"
  BY <1>1, <1>3 DEF MainSound
<1>8. <<cmd>> \in Seq(Command) /\ key' = Execute(key, m, <<cmd>>) /\ key \in Keys
  BY ShortPipes DEF Answer, Redis, TypeOK, Keys
<1>9. key' = Effect(key, m, cmd)
  BY <1>8, OneCommand
<1>10. cmd # "del" => ~Contains(<<cmd>>, "del")
  BY ShortPipes DEF Command
<1>11. pipe'[m] = Tail(pipe[m]) \o more /\ \A n \in Main \ {m} : pipe'[n] = pipe[n]
  BY DEF Answer, TypeOK
<1> QED BY <1>1, <1>3, <1>4, <1>5, <1>6, <1>7, <1>8, <1>9, <1>10, <1>11

\* What starts and stops the polling, by what it leaves.
LEMMA PollingFacts ==
    ASSUME TypeOK, NEW m \in Main
    PROVE  /\ StopTracking(m) =>
                /\ Ticks(tracking'[m]) => Ticks(tracking[m])
                /\ \A e \in Execution : timer'[m][e] # "armed"
                /\ \A n \in Main \ {m} : tracking'[n] = tracking[n] /\ timer'[n] = timer[n]
           /\ StepDown(m) =>
                /\ Ticks(tracking'[m]) => Ticks(tracking[m])
                /\ stage[m] \notin Listening => tracking'[m] = tracking[m]
                /\ \A e \in Execution : timer'[m][e] = "armed" => timer[m][e] = "armed"
                /\ \A n \in Main \ {m} : tracking'[n] = tracking[n] /\ timer'[n] = timer[n]
           /\ TakeOver(m) =>
                /\ stage[m] \notin Listening => tracking'[m] = tracking[m]
                /\ timer' = timer
                /\ \A n \in Main \ {m} : tracking'[n] = tracking[n]
           /\ Gone(m) =>
                /\ \A e \in Execution : timer'[m][e] # "armed"
                /\ \A n \in Main \ {m} : tracking'[n] = tracking[n] /\ timer'[n] = timer[n]
<1>1. StopTracking(m) =>
                /\ Ticks(tracking'[m]) => Ticks(tracking[m])
                /\ \A e \in Execution : timer'[m][e] # "armed"
                /\ \A n \in Main \ {m} : tracking'[n] = tracking[n] /\ timer'[n] = timer[n]
  <2> SUFFICES ASSUME StopTracking(m)
               PROVE  /\ Ticks(tracking'[m]) => Ticks(tracking[m])
                      /\ \A e \in Execution : timer'[m][e] # "armed"
                      /\ \A n \in Main \ {m} : tracking'[n] = tracking[n] /\ timer'[n] = timer[n]
    OBVIOUS
  <2>1. tracking[m] \in Interval /\ tracking'[m] = Cleared(tracking[m])
    BY DEF TypeOK, StopTracking
  <2>2. Ticks(tracking'[m]) => Ticks(tracking[m])
    BY <2>1 DEF Ticks, Cleared, Interval
  <2>3. \A e \in Execution : timer'[m][e] = IF timer[m][e] = "armed" THEN "cleared" ELSE timer[m][e]
    BY DEF TypeOK, StopTracking
  <2>4. \A n \in Main \ {m} : tracking'[n] = tracking[n] /\ timer'[n] = timer[n]
    BY DEF TypeOK, StopTracking
  <2> QED BY <2>2, <2>3, <2>4
<1>2. StepDown(m) =>
                /\ Ticks(tracking'[m]) => Ticks(tracking[m])
                /\ stage[m] \notin Listening => tracking'[m] = tracking[m]
                /\ \A e \in Execution : timer'[m][e] = "armed" => timer[m][e] = "armed"
                /\ \A n \in Main \ {m} : tracking'[n] = tracking[n] /\ timer'[n] = timer[n]
  BY <1>1 DEF StepDown
<1>3. TakeOver(m) =>
                /\ stage[m] \notin Listening => tracking'[m] = tracking[m]
                /\ timer' = timer
                /\ \A n \in Main \ {m} : tracking'[n] = tracking[n]
  BY DEF TakeOver, StartTracking, TypeOK
<1>4. Gone(m) =>
                /\ \A e \in Execution : timer'[m][e] # "armed"
                /\ \A n \in Main \ {m} : tracking'[n] = tracking[n] /\ timer'[n] = timer[n]
  BY DEF Gone, TypeOK
<1> QED BY <1>1, <1>2, <1>3, <1>4

\* The answers keep the leader the only one that tracks.
LEMMA AnswersTrack ==
    ASSUME TypeOK, LockInv, cut = {}, NEW m \in Main, \A n \in Main : TracksAsLeader(n),
           FindOwn(m) \/ FindOther(m) \/ FindVacant(m) \/ ClaimWon(m) \/ ClaimLost(m) \/ Confirm(m) \/ Renew(m)
    PROVE  \A n \in Main : TracksAsLeader(n)'
<1>1. /\ TracksAsLeader(m) /\ Ttl \in Nat /\ None \notin Main
      /\ Command = {"get", "claim", "confirm", "renew", "del"}
  BY MainAssumption, MultiMainBounds DEF Command
<1>2. /\ role \in [Main -> {"unset", "leader", "follower"}] /\ stage \in [Main -> Stage]
      /\ pipe[m] \in Seq(Command)
  BY DEF TypeOK
<1>3. ASSUME NEW c \in Command, Tail(pipe[m]) \in Seq(Command)
      PROVE  Tail(pipe[m]) \o <<c>> # <<>>
  <2>1. <<c>> \in Seq(Command) /\ <<c>> # <<>>
    BY ShortPipes
  <2> QED BY <1>3, <2>1, ConcatEqualIffEmpty
<1>4. ASSUME NEW cmd, NEW more, Answer(m, cmd, more) PROVE Tail(pipe[m]) \in Seq(Command)
  BY <1>2, <1>4, HeadTailProperties DEF Answer
<1>5. CASE FindOwn(m)
  <2>1. key.holder = m /\ Answer(m, "get", <<"renew">>) /\ UNCHANGED <<stage, role, services, waiting>>
    BY <1>5 DEF FindOwn
  <2>2. pipe'[m] # <<>>
    BY <1>1, <1>3, <1>4, <2>1, Uninterrupted
  <2>3. key' = key
    BY <1>1, <2>1, Uninterrupted, EffectFacts
  <2>4. TracksAsLeader(m)'
    BY <1>1, <2>1, <2>2, <2>3 DEF TracksAsLeader, services, waiting
  <2>5. \A n \in Main \ {m} : Stays(n)
    BY <1>1, <2>1, Uninterrupted DEF Stays, services
  <2> QED BY <2>1, <2>3, <2>4, <2>5, StillTracks
<1>6. CASE FindOther(m)
  <2>1. /\ key.holder \notin {m, None} /\ Answer(m, "get", <<>>) /\ UNCHANGED <<stage, waiting>>
        /\ role' = [role EXCEPT ![m] = "follower"]
        /\ role[m] # "leader" => UNCHANGED services
    BY <1>6 DEF FindOther
  <2>2. stage[m] \in InOffice /\ role[m] # "leader" /\ UNCHANGED services
    BY <1>1, <2>1, Uninterrupted
  <2>3. key' = key
    BY <1>1, <2>1, Uninterrupted, EffectFacts
  <2>4. TracksAsLeader(m)'
    BY <1>1, <1>2, <2>1, <2>2 DEF TracksAsLeader, services, waiting
  <2>5. \A n \in Main \ {m} : Stays(n)
    BY <1>1, <1>2, <2>1, <2>2, Uninterrupted DEF Stays, services
  <2> QED BY <2>1, <2>3, <2>4, <2>5, StillTracks
<1>7. CASE FindVacant(m)
  <2>1. /\ key.holder = None /\ Answer(m, "get", <<"claim">>) /\ UNCHANGED <<stage, waiting>>
        /\ role' = [role EXCEPT ![m] = "follower"] /\ StepDown(m)
    BY <1>7 DEF FindVacant
  <2>2. stage[m] \in InOffice /\ role[m] # "leader"
    BY <1>1, <2>1, Uninterrupted
  <2>3. key' = key
    BY <1>1, <2>1, Uninterrupted, EffectFacts
  <2>4. TracksAsLeader(m)'
    BY <1>1, <1>2, <2>1, <2>2, PollingFacts DEF TracksAsLeader, waiting, Listening
  <2>5. \A n \in Main \ {m} : Stays(n)
    BY <1>1, <1>2, <2>1, Uninterrupted, PollingFacts DEF Stays
  <2> QED BY <2>1, <2>3, <2>4, <2>5, StillTracks
<1>8. CASE ClaimWon(m)
  <2>1. /\ key.holder = None /\ Answer(m, "claim", <<"confirm">>) /\ UNCHANGED <<stage, services, waiting>>
        /\ role' = [role EXCEPT ![m] = "leader"]
    BY <1>8 DEF ClaimWon
  <2>2. pipe'[m] # <<>>
    BY <1>1, <1>3, <1>4, <2>1, Uninterrupted
  <2>3. <<"claim">> \in Seq(Command) /\ key' = Execute(key, m, <<"claim">>) /\ ~Contains(<<"claim">>, "del")
    BY <1>1, <2>1, Uninterrupted
  <2>4. key'.holder = m
    BY <1>1, <2>1, Uninterrupted, EffectFacts
  <2>5. TracksAsLeader(m)'
    BY <1>1, <1>2, <2>1, <2>2, <2>4 DEF TracksAsLeader, services, waiting
  <2>6. \A n \in Main \ {m} : Stays(n)
    BY <1>1, <1>2, <2>1, Uninterrupted DEF Stays, services
  <2> QED BY <1>1, <2>1, <2>3, <2>5, <2>6, OthersTrack
<1>9. CASE ClaimLost(m)
  <2>1. /\ key.holder # None /\ Answer(m, "claim", <<>>) /\ AfterClaim(m) /\ UNCHANGED <<services, waiting>>
        /\ role' = [role EXCEPT ![m] = "follower"]
    BY <1>9 DEF ClaimLost
  <2>2. /\ role[m] # "leader" /\ stage[m] \in InOffice
        /\ stage'[m] = IF stage[m] = "starting" THEN "booting" ELSE stage[m]
        /\ \A n \in Main \ {m} : stage'[n] = stage[n]
    BY <1>1, <1>2, <2>1, Uninterrupted DEF AfterClaim
  <2>3. key' = key
    BY <1>1, <2>1, Uninterrupted, EffectFacts
  <2>4. TracksAsLeader(m)'
    BY <1>1, <1>2, <2>1, <2>2 DEF TracksAsLeader, services, waiting
  <2>5. \A n \in Main \ {m} : Stays(n)
    BY <1>1, <1>2, <2>1, <2>2, Uninterrupted DEF Stays, services
  <2> QED BY <2>1, <2>3, <2>4, <2>5, StillTracks
<1>10. CASE Confirm(m)
  <2>1. Answer(m, "confirm", <<>>) /\ AfterClaim(m) /\ TakeOver(m) /\ UNCHANGED <<role, waiting>>
    BY <1>10 DEF Confirm
  <2>2. /\ role[m] = "leader" /\ key.holder = m /\ stage[m] \in InOffice
        /\ stage'[m] = IF stage[m] = "starting" THEN "booting" ELSE stage[m]
        /\ \A n \in Main \ {m} : stage'[n] = stage[n]
    BY <1>1, <1>2, <2>1, Uninterrupted DEF AfterClaim
  <2>3. <<"confirm">> \in Seq(Command) /\ key' = Execute(key, m, <<"confirm">>) /\ ~Contains(<<"confirm">>, "del")
    BY <1>1, <2>1, Uninterrupted
  <2>4. key'.holder = m /\ key'.ttl = Ttl
    <3>1. key' = [key EXCEPT !.ttl = Ttl] /\ key \in Keys
      BY <1>1, <2>1, <2>2, Uninterrupted, EffectFacts
    <3> QED BY <2>2, <3>1 DEF Keys
  <2>5. TracksAsLeader(m)'
    <3>1. /\ stage[m] \notin Listening => tracking'[m] = tracking[m]
          /\ timer' = timer
      BY <2>1, PollingFacts
    <3> QED BY <1>1, <2>1, <2>2, <2>4, <3>1 DEF TracksAsLeader, waiting, Listening, InOffice, Checking
  <2>6. \A n \in Main \ {m} : Stays(n)
    BY <1>1, <2>1, <2>2, Uninterrupted, PollingFacts DEF Stays
  <2> QED BY <1>1, <2>1, <2>3, <2>5, <2>6, OthersTrack
<1>11. CASE Renew(m)
  <2>1. Answer(m, "renew", <<>>) /\ UNCHANGED <<stage, role, services, waiting>>
    BY <1>11 DEF Renew
  <2>2. stage[m] \in InOffice /\ (role[m] = "leader" => key.holder = m)
    BY <1>1, <2>1, Uninterrupted
  <2>3. <<"renew">> \in Seq(Command) /\ key' = Execute(key, m, <<"renew">>) /\ ~Contains(<<"renew">>, "del")
    BY <1>1, <2>1, Uninterrupted
  <2>4. key.holder = m => key'.holder = m /\ key'.ttl = Ttl
    <3> SUFFICES ASSUME key.holder = m PROVE key'.holder = m /\ key'.ttl = Ttl
      OBVIOUS
    <3>1. key' = [key EXCEPT !.ttl = Ttl] /\ key \in Keys
      BY <1>1, <2>1, Uninterrupted, EffectFacts
    <3> QED BY <3>1 DEF Keys
  <2>5. TracksAsLeader(m)'
    BY <1>1, <2>1, <2>2, <2>4 DEF TracksAsLeader, services, waiting
  <2>6. \A n \in Main \ {m} : Stays(n)
    BY <1>1, <2>1, Uninterrupted DEF Stays, services
  <2> QED BY <1>1, <2>1, <2>3, <2>5, <2>6, OthersTrack
<1> QED BY <1>5, <1>6, <1>7, <1>8, <1>9, <1>10, <1>11

\* A main that hangs up takes the key from no leader.
LEMMA HangUpTracks ==
    ASSUME TypeOK, LockInv, cut = {}, NEW m \in Main, \A n \in Main : TracksAsLeader(n),
           HangUp(m, pipe[m]), NEW s \in {"lame", "gone"}, stage' = [stage EXCEPT ![m] = s],
           \A e \in Execution : timer'[m][e] = "armed" => loose,
           \A n \in Main \ {m} : tracking'[n] = tracking[n] /\ timer'[n] = timer[n],
           UNCHANGED <<role, waiting>>
    PROVE  \A n \in Main : TracksAsLeader(n)'
<1>1. pipe[m] \in Seq(Command) /\ pipe' = [pipe EXCEPT ![m] = <<>>] /\ stage'[m] = s
  BY DEF TypeOK, HangUp
<1>2. PICK i \in 0..Len(pipe[m]) : Redis(m, SubSeq(pipe[m], 1, i))
  BY DEF HangUp
<1> DEFINE cmds == SubSeq(pipe[m], 1, i)
<1>3. cmds \in Seq(Command) /\ key' = Execute(key, m, cmds)
  BY <1>1, <1>2, Beginning DEF Redis
<1>4. Contains(cmds, "del") => Contains(pipe[m], "del")
  BY <1>1, <1>2, Beginning DEF Command
<1> HIDE DEF cmds
<1>5. Contains(cmds, "del") => stage[m] = "resigning"
  BY <1>4 DEF LockInv, MainSound, PipeSound
<1>6. TracksAsLeader(m)'
  BY <1>1 DEF TracksAsLeader, waiting, InOffice, Checking
<1>7. ASSUME NEW n \in Main \ {m} PROVE TracksAsLeader(n)'
  <2>1. Stays(n)
    BY <1>1 DEF Stays
  <2> QED BY <1>3, <1>5, <2>1, OthersTrack
<1> QED BY <1>6, <1>7

\* An interval passes, which the key outlives.
LEMMA TickTracks ==
    ASSUME Ttl > 1, TypeOK, LockInv, cut = {}, NEW n \in Main, TracksAsLeader(n), Tick
    PROVE  TracksAsLeader(n)'
<1>1. /\ MainSound(n) /\ n \in linked /\ pipe[n] = <<>>
      /\ UNCHANGED <<stage, role, services, waiting>>
      /\ Ttl \in Nat /\ MaxPipe \in Nat \ {0} /\ key \in Keys
  BY MultiMainBounds DEF LockInv, MainSound, PipeSound, Tick, TypeOK, Keys
<1>2. \A c \in Command : ~Contains(pipe[n], c)
  BY <1>1, ShortPipes
<1>3. stage[n] \notin {"starting", "resigning"}
  BY <1>1, <1>2 DEF MainSound, PipeSound, Command
<1>4. ASSUME stage[n] \in InOffice, role[n] = "leader" PROVE key'.holder = n /\ pipe'[n] # <<>>
  <2>1. stage[n] \in Checking
    BY <1>3, <1>4 DEF InOffice
  <2>2. pipe'[n] = Append(pipe[n], "get")
    <3>1. Len(pipe[n]) = 0 /\ Len(pipe[n]) < MaxPipe
      BY <1>1, ShortPipes
    <3> QED BY <2>1, <3>1 DEF Tick
  <2>3. pipe'[n] # <<>>
    BY <1>1, <2>2, ShortPipes, Sending DEF Command
  <2>4. key.holder = n /\ key.ttl >= Ttl
    BY <1>1, <1>4 DEF TracksAsLeader
  <2>5. key'.holder = key.holder
    BY <1>1, <2>4 DEF Tick, Keys, Forever
  <2> QED BY <2>3, <2>4, <2>5
<1> QED BY <1>1, <1>4 DEF TracksAsLeader, services, waiting

\* Only the wait tracker sets timers and resumes.
LEMMA NoNewTimers ==
    ASSUME TypeOK, NEW m \in Main,
           Tick \/ Boot(m) \/ Stop(m) \/ Crash(m) \/ Cut(m) \/ Relink(m) \/ Protocol(m) \/ Process(m) \/ Poll(m)
    PROVE  /\ UNCHANGED waiting
           /\ \A n \in Main, e \in Execution : /\ timer'[n][e] = "armed" => timer[n][e] = "armed"
                                               /\ resuming'[n][e] \in {0, resuming[n][e]}
<1> DEFINE Fewer == \A n \in Main, e \in Execution : /\ timer'[n][e] = "armed" => timer[n][e] = "armed"
                                                     /\ resuming'[n][e] \in {0, resuming[n][e]}
<1>1. UNCHANGED waiting
  BY DEF Tick, Boot, Stop, Crash, Cut, Relink, Protocol, FindOwn, FindOther, FindVacant, ClaimWon, ClaimLost,
         Confirm, Renew, Resigned, Process, InitServices, Halt, Resign, Leave, Exit, Poll
<1>2. StepDown(m) => Fewer
  <2> SUFFICES ASSUME StepDown(m) PROVE Fewer
    OBVIOUS
  <2>1. /\ \A e \in Execution : timer'[m][e] = "armed" => timer[m][e] = "armed"
        /\ \A n \in Main \ {m} : timer'[n] = timer[n]
    BY PollingFacts
  <2>2. resuming' = resuming
    BY DEF StepDown
  <2> QED BY <2>1, <2>2
<1>3. TakeOver(m) => Fewer
  BY DEF TakeOver
<1>4. Gone(m) => Fewer
  BY DEF Gone, TypeOK
<1>5. UNCHANGED services => Fewer
  BY DEF services
<1>6. CASE Tick \/ Boot(m) \/ Cut(m) \/ Relink(m) \/ Resign(m) \/ Leave(m)
  BY <1>1, <1>5, <1>6 DEF Tick, Boot, Cut, Relink, Resign, Leave
<1>7. CASE Stop(m) \/ InitServices(m) \/ Poll(m)
  BY <1>1, <1>7 DEF Stop, InitServices, Poll
<1>8. CASE Halt(m)
  <2>1. /\ \A e \in Execution : timer'[m][e] # "armed"
        /\ \A n \in Main \ {m} : timer'[n] = timer[n]
    BY <1>8, PollingFacts DEF Halt
  <2>2. resuming' = resuming
    BY <1>8 DEF Halt
  <2> QED BY <1>1, <2>1, <2>2
<1>9. CASE Crash(m) \/ Exit(m)
  BY <1>1, <1>4, <1>9 DEF Crash, Exit
<1>10. CASE Protocol(m)
  BY <1>1, <1>2, <1>3, <1>5, <1>10
     DEF Protocol, FindOwn, FindOther, FindVacant, ClaimWon, ClaimLost, Confirm, Renew, Resigned
<1> QED BY <1>6, <1>7, <1>8, <1>9, <1>10 DEF Process

\* Every other step keeps the leader the only one that tracks.
LEMMA ResumeStep ==
    ASSUME Ttl > 1, TypeOK, LockInv, ResumeInv, [Next]_vars
    PROVE  ResumeInv'
<1>1. SUFFICES ASSUME cut' = {} PROVE StartsCounted' /\ OneResume' /\ \A n \in Main : TracksAsLeader(n)'
  BY DEF ResumeInv
<1> DEFINE Goal == StartsCounted' /\ \A n \in Main : TracksAsLeader(n)'
<1>2. cut = {}
  BY <1>1 DEF Next, Tick, Boot, Stop, Crash, Cut, Relink, Protocol, FindOwn, FindOther, FindVacant, ClaimWon,
              ClaimLost, Confirm, Renew, Resigned, Process, InitServices, Halt, Resign, Leave, Exit,
              Tracker, Poll, SetTimers, Fire, Resume, GiveUp, vars, faults
<1>3. StartsCounted /\ OneResume /\ \A n \in Main : TracksAsLeader(n)
  BY <1>2 DEF ResumeInv
<1>4. \A n \in Main : MainSound(n) /\ n \in linked
  BY <1>2 DEF LockInv, MainSound, PipeSound
<1>5. UNCHANGED waiting => StartsCounted'
  BY <1>3 DEF StartsCounted, waiting
<1>6. /\ stage \in [Main -> Stage] /\ role \in [Main -> {"unset", "leader", "follower"}]
      /\ pipe \in [Main -> Seq(Command)]
      /\ row \in [Execution -> {"waiting", "resumed"}] /\ starts \in [Execution -> 0..2]
      /\ timer \in [Main -> [Execution -> {"none", "armed", "cleared"}]]
      /\ resuming \in [Main -> [Execution -> Nat]]
  BY DEF TypeOK
<1>7. ASSUME Tick PROVE Goal
  BY <1>2, <1>3, <1>5, <1>7, TickTracks DEF Tick
<1>8. ASSUME NEW m \in Main, Boot(m) PROVE Goal
  <2>1. \A n \in Main \ {m} : Stays(n)
    BY <1>8 DEF Boot, Stays, services
  <2>2. UNCHANGED <<key, waiting, role, services>> /\ stage[m] = "off" /\ stage'[m] = "starting"
    BY <1>6, <1>8 DEF Boot, lock
  <2>3. role[m] = "unset"
    BY <1>4, <2>2 DEF MainSound
  <2>4. TracksAsLeader(m)'
    BY <1>3, <2>2, <2>3 DEF TracksAsLeader, services, waiting
  <2> QED BY <1>3, <1>5, <2>1, <2>2, <2>4, StillTracks
<1>9. ASSUME NEW m \in Main, Stop(m) PROVE Goal
  <2>1. \A n \in Main \ {m} : Stays(n)
    BY <1>9 DEF Stop, Stays
  <2>2. /\ UNCHANGED <<key, waiting, role, pipe, tracking, timer>>
        /\ stage[m] = "up" /\ stage'[m] = "stopping"
    BY <1>6, <1>9 DEF Stop, lock
  <2>3. TracksAsLeader(m)'
    BY <1>3, <2>2 DEF TracksAsLeader, waiting, InOffice, Checking
  <2> QED BY <1>3, <1>5, <2>1, <2>2, <2>3, StillTracks
<1>10. ASSUME NEW m \in Main, InitServices(m) PROVE Goal
  <2>1. \A n \in Main \ {m} : Stays(n)
    <3>1. tracking \in [Main -> Interval]
      BY DEF TypeOK
    <3>2. /\ UNCHANGED <<role, pipe, timer>> /\ stage' = [stage EXCEPT ![m] = "up"]
          /\ tracking' = tracking \/ tracking' = [tracking EXCEPT ![m] = Started(@)]
      BY <1>10 DEF InitServices, StartTracking
    <3> QED BY <1>6, <3>1, <3>2 DEF Stays
  <2>2. /\ UNCHANGED <<key, waiting, role, pipe, timer>>
        /\ stage[m] = "booting" /\ stage'[m] = "up"
        /\ role[m] # "leader" => tracking' = tracking
    BY <1>6, <1>10 DEF InitServices, lock
  <2>3. TracksAsLeader(m)'
    BY <1>3, <2>2 DEF TracksAsLeader, waiting, InOffice, Checking, Idle, Ticks
  <2> QED BY <1>3, <1>5, <2>1, <2>2, <2>3, StillTracks
<1>11. ASSUME NEW m \in Main, Halt(m) PROVE Goal
  <2>1. \A n \in Main \ {m} : Stays(n)
    BY <1>11, PollingFacts DEF Halt, Stays
  <2>2. /\ UNCHANGED <<key, waiting, role, pipe>>
        /\ stage[m] = "stopping" /\ stage'[m] = "halting"
        /\ \A e \in Execution : timer'[m][e] # "armed"
    BY <1>6, <1>11, PollingFacts DEF Halt, lock
  <2>3. TracksAsLeader(m)'
    BY <1>3, <2>2 DEF TracksAsLeader, waiting, InOffice, Checking
  <2> QED BY <1>3, <1>5, <2>1, <2>2, <2>3, StillTracks
<1>12. ASSUME NEW m \in Main, Resign(m) PROVE Goal
  <2>1. \A n \in Main \ {m} : Stays(n)
    BY <1>12 DEF Resign, Stays, services
  <2>2. /\ UNCHANGED <<key, waiting, role, services>> /\ role[m] = "leader"
        /\ stage[m] = "halting" /\ stage'[m] = "resigning" /\ pipe'[m] = Append(pipe[m], "del")
    BY <1>6, <1>12 DEF Resign, lock
  <2>3. pipe'[m] # <<>>
    BY <1>6, <2>2, Sending DEF Command
  <2>4. TracksAsLeader(m)'
    BY <1>3, <2>2, <2>3 DEF TracksAsLeader, waiting, services, InOffice, Checking
  <2> QED BY <1>3, <1>5, <2>1, <2>2, <2>4, StillTracks
<1>13. ASSUME NEW m \in Main, Crash(m) PROVE Goal
  <2>1. /\ \A e \in Execution : timer'[m][e] # "armed"
        /\ \A n \in Main \ {m} : tracking'[n] = tracking[n] /\ timer'[n] = timer[n]
    BY <1>13, PollingFacts DEF Crash
  <2> QED BY <1>2, <1>3, <1>5, <1>13, <2>1, HangUpTracks DEF Crash, Gone
<1>14. ASSUME NEW m \in Main, Leave(m) PROVE Goal
  <2>1. \A e \in Execution : timer[m][e] = "armed" => loose
    BY <1>3, <1>14 DEF Leave, TracksAsLeader
  <2> QED BY <1>2, <1>3, <1>5, <1>14, <2>1, HangUpTracks DEF Leave, services
<1>15. ASSUME NEW m \in Main, Resigned(m) PROVE Goal
  <2>1. HangUp(m, pipe[m])
    BY <1>15 DEF Resigned, HangUp
  <2>2. \A e \in Execution : timer[m][e] = "armed" => loose
    BY <1>3, <1>15 DEF Resigned, TracksAsLeader
  <2> QED BY <1>2, <1>3, <1>5, <1>15, <2>1, <2>2, HangUpTracks DEF Resigned, services
<1>16. ASSUME NEW m \in Main, Exit(m) PROVE Goal
  <2>1. /\ \A e \in Execution : timer'[m][e] # "armed"
        /\ \A n \in Main \ {m} : tracking'[n] = tracking[n] /\ timer'[n] = timer[n]
    BY <1>16, PollingFacts DEF Exit
  <2>2. \A n \in Main \ {m} : Stays(n)
    BY <1>16, <2>1 DEF Exit, Gone, Stays
  <2>3. UNCHANGED <<key, waiting>> /\ stage'[m] = "gone"
    BY <1>6, <1>16 DEF Exit, Gone, lock
  <2>4. TracksAsLeader(m)'
    BY <2>1, <2>3 DEF TracksAsLeader, InOffice, Checking
  <2> QED BY <1>3, <1>5, <2>2, <2>3, <2>4, StillTracks
<1>17. ASSUME NEW m \in Main, Relink(m) PROVE Goal
  BY <1>4, <1>17 DEF Relink
<1>18. ASSUME NEW m \in Main, Protocol(m) PROVE Goal
  <2>1. CASE Resigned(m)
    BY <1>15, <2>1
  <2>2. CASE ~Resigned(m)
    <3>1. FindOwn(m) \/ FindOther(m) \/ FindVacant(m) \/ ClaimWon(m) \/ ClaimLost(m) \/ Confirm(m) \/ Renew(m)
      BY <1>18, <2>2 DEF Protocol
    <3>2. UNCHANGED waiting
      BY <3>1 DEF FindOwn, FindOther, FindVacant, ClaimWon, ClaimLost, Confirm, Renew
    <3> QED BY <1>2, <1>3, <1>5, <3>1, <3>2, AnswersTrack
  <2> QED BY <2>1, <2>2
<1>19. ASSUME NEW m \in Main, Process(m) PROVE Goal
  BY <1>10, <1>11, <1>12, <1>14, <1>16, <1>19 DEF Process
<1>20. ASSUME NEW m \in Main, Poll(m) PROVE Goal
  BY <1>3, <1>5, <1>20, StillTracks DEF Poll, Stays, lock
<1>21. ASSUME NEW m \in Main, SetTimers(m) PROVE Goal /\ OneResume'
  <2>1. /\ UNCHANGED <<key, stage, role, pipe, tracking, resuming, row, starts>>
        /\ loose' = (loose \/ \E e \in polled[m] : timer[m][e] = "none" /\ Misplaced(m, e))
        /\ \A n \in Main \ {m} : timer'[n] = timer[n]
        /\ \A e \in Execution :
              timer'[m][e] = IF e \in polled[m] /\ timer[m][e] = "none" THEN "armed" ELSE timer[m][e]
    BY <1>6, <1>21 DEF SetTimers, lock
  <2>2. ~loose' => ~loose
    BY <2>1
  <2>3. StartsCounted'
    BY <1>3, <2>1, <2>2 DEF StartsCounted
  <2>4. \A n \in Main \ {m} : TracksAsLeader(n)'
    BY <1>3, <2>1, <2>2 DEF TracksAsLeader
  <2>5. ASSUME NEW e \in Execution, timer'[m][e] = "armed", ~loose'
        PROVE  stage[m] \in {"up", "stopping"} /\ role[m] = "leader" /\ row[e] = "waiting"
    <3>1. CASE timer[m][e] = "armed"
      BY <1>3, <2>2, <2>5, <3>1 DEF TracksAsLeader
    <3>2. CASE timer[m][e] # "armed"
      <4>1. ~Misplaced(m, e)
        BY <2>1, <2>5, <3>2
      <4> QED BY <1>3, <4>1 DEF Misplaced, TracksAsLeader
    <3> QED BY <3>1, <3>2
  <2>6. TracksAsLeader(m)'
    BY <1>3, <2>1, <2>5 DEF TracksAsLeader
  <2>7. OneResume'
    <3> SUFFICES ASSUME ~loose', NEW e \in Execution, NEW x \in Main, resuming[x][e] # 0
                 PROVE  \A n \in Main : timer'[n][e] # "armed"
      BY <1>3, <2>1, <2>2 DEF OneResume
    <3>1. \A n \in Main : timer[n][e] # "armed"
      BY <1>3, <2>2 DEF OneResume
    <3>2. Misplaced(m, e)
      BY DEF Misplaced
    <3> QED BY <2>1, <3>1, <3>2
  <2> QED BY <2>3, <2>4, <2>6, <2>7
<1>22. ASSUME NEW m \in Main, NEW e \in Execution, Fire(m, e) PROVE Goal /\ OneResume'
  <2>1. /\ UNCHANGED <<key, stage, role, pipe, tracking, row, starts, loose>>
        /\ timer[m][e] = "armed" /\ timer'[m][e] = "none"
        /\ \A n \in Main, d \in Execution : n # m \/ d # e => timer'[n][d] = timer[n][d]
        /\ \A n \in Main, d \in Execution : n # m \/ d # e => resuming'[n][d] = resuming[n][d]
        /\ row[e] = "waiting" => resuming'[m][e] = resuming[m][e] + 1
    BY <1>6, <1>22 DEF Fire, lock, waiting
  <2>2. Goal
    <3>1. StartsCounted'
      BY <1>3, <2>1 DEF StartsCounted
    <3>2. ASSUME NEW n \in Main PROVE TracksAsLeader(n)'
      <4>1. \A d \in Execution : timer'[n][d] = "armed" => timer[n][d] = "armed"
        BY <2>1
      <4> QED BY <1>3, <2>1, <4>1 DEF TracksAsLeader
    <3> QED BY <3>1, <3>2
  <2>3. CASE loose
    BY <2>1, <2>2, <2>3 DEF OneResume
  <2>4. CASE ~loose
    <3>1. stage[m] \in {"up", "stopping"} /\ role[m] = "leader" /\ row[e] = "waiting"
      BY <1>3, <2>1, <2>4 DEF TracksAsLeader
    <3>2. key.holder = m
      BY <1>3, <3>1 DEF TracksAsLeader, InOffice, Checking
    <3>3. \A n \in Main : n # m => timer[n][e] # "armed"
      BY <1>3, <2>4, <3>2 DEF TracksAsLeader, InOffice, Checking
    <3>4. \A n \in Main : resuming[n][e] = 0
      BY <1>3, <2>1, <2>4 DEF OneResume
    <3>5. resuming'[m][e] = 1 /\ \A n \in Main \ {m} : resuming'[n][e] = 0
      BY <2>1, <3>1, <3>4
    <3>6. OneResume'
      <4> SUFFICES ASSUME NEW d \in Execution, NEW x \in Main, resuming'[x][d] # 0
                   PROVE  /\ row'[d] = "waiting" /\ resuming'[x][d] = 1
                          /\ \A n \in Main : timer'[n][d] # "armed" /\ (resuming'[n][d] # 0 => n = x)
        BY DEF OneResume
      <4>1. CASE d = e
        BY <2>1, <3>1, <3>3, <3>5, <4>1
      <4>2. CASE d # e
        BY <1>3, <2>1, <2>4, <4>2 DEF OneResume
      <4> QED BY <4>1, <4>2
    <3> QED BY <2>2, <3>6
  <2> QED BY <2>3, <2>4
<1>23. ASSUME NEW m \in Main, NEW e \in Execution, Resume(m, e) \/ GiveUp(m, e) PROVE Goal /\ OneResume'
  <2>1. /\ UNCHANGED <<key, stage, role, pipe, tracking, timer, loose>> /\ resuming[m][e] # 0
        /\ resuming'[m][e] = resuming[m][e] - 1
        /\ \A n \in Main, d \in Execution : n # m \/ d # e => resuming'[n][d] = resuming[n][d]
        /\ \A d \in Execution \ {e} : row'[d] = row[d] /\ starts'[d] = starts[d]
        /\ row[e] = "waiting" => row'[e] = "resumed" /\ starts'[e] = More(starts[e])
    BY <1>6, <1>23 DEF Resume, GiveUp, lock, waiting
  <2>2. CASE loose
    BY <1>3, <2>1, <2>2 DEF StartsCounted, TracksAsLeader, OneResume
  <2>3. CASE ~loose
    <3>1. /\ row[e] = "waiting" /\ resuming[m][e] = 1
          /\ \A n \in Main : timer[n][e] # "armed" /\ (resuming[n][e] # 0 => n = m)
      BY <1>3, <2>1, <2>3 DEF OneResume
    <3>2. row'[e] = "resumed" /\ starts'[e] = 1
      BY <1>3, <2>1, <2>3, <3>1 DEF StartsCounted, More
    <3>3. StartsCounted'
      BY <1>3, <2>1, <2>3, <3>2 DEF StartsCounted
    <3>4. ASSUME NEW n \in Main PROVE TracksAsLeader(n)'
      <4>1. \A d \in Execution : timer'[n][d] = "armed" => d # e /\ timer[n][d] = "armed" /\ row'[d] = row[d]
        BY <2>1, <3>1
      <4> QED BY <1>3, <2>1, <4>1 DEF TracksAsLeader
    <3>5. \A n \in Main : resuming'[n][e] = 0
      BY <2>1, <3>1
    <3>6. OneResume'
      <4> SUFFICES ASSUME NEW d \in Execution, NEW x \in Main, resuming'[x][d] # 0
                   PROVE  /\ row'[d] = "waiting" /\ resuming'[x][d] = 1
                          /\ \A n \in Main : timer'[n][d] # "armed" /\ (resuming'[n][d] # 0 => n = x)
        BY DEF OneResume
      <4>1. d # e
        BY <3>5
      <4> QED BY <1>3, <2>1, <2>3, <4>1 DEF OneResume
    <3> QED BY <3>3, <3>4, <3>6
  <2> QED BY <2>2, <2>3
<1>25. CASE UNCHANGED vars
  <2>1. Goal
    BY <1>3, <1>5, <1>25, StillTracks DEF vars, lock, services, Stays
  <2>2. OneResume'
    BY <1>3, <1>25 DEF vars, services, waiting, OneResume
  <2> QED BY <2>1, <2>2
<1>26. ASSUME NEW m \in Main, Cut(m) PROVE FALSE
  BY <1>1, <1>26 DEF Cut
<1>27. ASSUME NEW m \in Main,
              Tick \/ Boot(m) \/ Stop(m) \/ Crash(m) \/ Relink(m) \/ Protocol(m) \/ Process(m) \/ Poll(m)
       PROVE  Goal /\ OneResume'
  <2>1. Goal
    BY <1>7, <1>8, <1>9, <1>13, <1>17, <1>18, <1>19, <1>20, <1>27
  <2>2. /\ UNCHANGED waiting
        /\ \A n \in Main, e \in Execution : /\ timer'[n][e] = "armed" => timer[n][e] = "armed"
                                            /\ resuming'[n][e] \in {0, resuming[n][e]}
    BY <1>27, NoNewTimers
  <2>3. OneResume'
    BY <1>3, <2>2 DEF OneResume, waiting
  <2> QED BY <2>1, <2>3
<1>28. CASE Tick
  <2>1. PICK m \in Main : stage[m] \in Checking
    BY <1>28 DEF Tick
  <2> QED BY <1>27, <1>28, <2>1
<1>29. ASSUME NEW m \in Main, Tracker(m) PROVE Goal /\ OneResume'
  BY <1>21, <1>22, <1>23, <1>27, <1>29 DEF Tracker
<1> QED BY <1>25, <1>26, <1>27, <1>28, <1>29 DEF Next

\* An execution is resumed twice only if a connection was lost or a timer set
\* out of place, if the key lives for more than one interval: by default ten
\* seconds and three.
THEOREM ExecutionsResumedOnce ==
    ASSUME Ttl > 1
    PROVE  Spec => []ResumedOnce
<1>1. Init => ResumeInv
  BY DEF Init, ResumeInv, StartsCounted, OneResume, TracksAsLeader, InOffice, Checking, Idle, Ticks
<1>2. TypeOK /\ LockInv /\ ResumeInv /\ [Next]_vars => ResumeInv'
  BY ResumeStep
<1>3. ResumeInv => ResumedOnce
  BY DEF ResumeInv, StartsCounted, ResumedOnce
<1> QED BY <1>1, <1>2, <1>3, LockAlwaysSound, PTL DEF Spec

=============================================================================
