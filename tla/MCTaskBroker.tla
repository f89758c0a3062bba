----------------------------- MODULE MCTaskBroker -----------------------------
(* The broker with a few requests and runners, for TLC.                    *)
EXTENDS TaskBroker, TLC

\* External runners of one slot, or a launcher beside one; one runner of two slots;
\* and the broker's own process, with its successor.
External    == [external |-> TRUE, runners |-> Runner, launchers |-> {}, maxConcurrency |-> 1]
Internal    == [External EXCEPT !.external = FALSE]
Launched(r) == [External EXCEPT !.launchers = {r}]
Lone(r)     == [External EXCEPT !.runners = {r}]
Double(r)   == [Lone(r) EXCEPT !.maxConcurrency = 2]

MCFleets == {External, Internal} \cup {Launched(r) : r \in Runner} \cup {Double(r) : r \in Runner}

\* Where liveness is checked, requests contend for the one slot of a runner.
MCLiveFleets == {Internal, Lone(CHOOSE r \in Runner : TRUE)}

\* Requests are interchangeable, and so are runners, where only invariants are
\* checked: MCFleets tells none of them apart.
Symmetry == Permutations(Request) \cup Permutations(Runner)
=============================================================================
