-------------------------- MODULE AdmissionContract --------------------------
(***************************************************************************)
(* What concurrency control promises its callers, without its counter and  *)
(* without its order: who may start is decided by how many executions      *)
(* really run. An execution starts at once exactly when fewer than Limit   *)
(* run; a slot that becomes free passes straight to somebody who waits;    *)
(* an execution that gives up waiting also lets somebody else start.       *)
(*                                                                         *)
(* ConcurrencyQueue implements this contract with a counter that never     *)
(* looks at the executions.                                                *)
(***************************************************************************)
EXTENDS Integers, FiniteSets

CONSTANTS Execution, Limit

VARIABLES
    waiting,    \* The executions that were told to wait.
    running,    \* The executions that were let through and have not ended.
    gone        \* The executions that ended or gave up.

vars == <<waiting, running, gone>>

Init == waiting = {} /\ running = {} /\ gone = {}

Fresh == Execution \ (waiting \cup running \cup gone)

Start(e) ==
    /\ e \in Fresh
    /\ Cardinality(running) < Limit
    /\ running' = running \cup {e}
    /\ UNCHANGED <<waiting, gone>>

Wait(e) ==
    /\ e \in Fresh
    /\ Cardinality(running) >= Limit
    /\ waiting' = waiting \cup {e}
    /\ UNCHANGED <<running, gone>>

\* Somebody out of W goes on, unless W is empty.
HandOver(W, R) ==
    \/ W = {} /\ waiting' = {} /\ running' = R
    \/ \E w \in W : waiting' = W \ {w} /\ running' = R \cup {w}

Finish(e) ==
    /\ e \in running
    /\ HandOver(waiting, running \ {e})
    /\ gone' = gone \cup {e}

GiveUp(e) ==
    /\ e \in waiting
    /\ HandOver(waiting \ {e}, running)
    /\ gone' = gone \cup {e}

Next == \E e \in Execution : Start(e) \/ Wait(e) \/ Finish(e) \/ GiveUp(e)

Spec == Init /\ [][Next]_vars

=============================================================================
