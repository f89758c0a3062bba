--------------------------- MODULE PartialExecution ---------------------------
(***************************************************************************)
(* How a partial execution is prepared: from a workflow, a destination     *)
(* node and the run data of an earlier execution, runPartialWorkflow2      *)
(* derives which nodes run again and with which input. Each step of it is  *)
(* an action; each uses the graph algorithms of partial-execution-utils.   *)
(*                                                                         *)
(* The graph is the sequence of its connections in the order in which they *)
(* were added, which decides the order of every search. Only connections   *)
(* of type Main are modelled, not those of the utility nodes of an agent.  *)
(***************************************************************************)
EXTENDS Integers, Sequences, FiniteSets, SequencesExt

CONSTANTS
    Names,        \* The nodes, in the order of the workflow and of their names.
    Trigger,      \* What findTriggerForPartialExecution has chosen.
    Destination,  \* The node the user wants to see the output of.
    Loops,        \* The nodes of type splitInBatches.
    Links,        \* The connections a workflow may have, as a sequence.
    MayDisable,   \* The nodes that may be disabled.
    MayPin        \* The nodes that may have pinned data.

Node == ToSet(Names)

ASSUME PartialConstants ==
    /\ {Trigger, Destination} \cup Loops \cup MayPin \subseteq Node
    /\ MayDisable \subseteq Node \ {Trigger, Destination}
    /\ \A l \in ToSet(Links) :
         /\ {l.from, l.to} \subseteq Node /\ l.to # Trigger
         /\ l.out \in Nat /\ l.in \in Nat

VARIABLES
    phase,    \* The step of runPartialWorkflow2 that comes next.
    circling, \* History: disabled nodes that circle before the destination.
    nodes,    \* The nodes of the graph.
    graph,    \* Its connections, without duplicates.
    run,      \* Per node: whether it has run data, and which outputs had items.
    pins,     \* The nodes with pinned data.
    starts,   \* The start nodes.
    stack,    \* nodeExecutionStack: nodes, with the connections that feed them.
    waiting   \* waitingExecution: the same, where some input is missing.

vars == <<phase, circling, nodes, graph, run, pins, starts, stack, waiting>>

NoData == [ran |-> FALSE, out |-> {}]

Outputs(n) == {l.out : l \in {k \in ToSet(Links) : k.from = n}}

\* A node without run data, or one whose outputs had items or not.
RunData ==
    LET all == UNION {Outputs(n) : n \in Node}
    IN  {r \in [Node -> {NoData} \cup [ran : {TRUE}, out : SUBSET all]] :
            \A n \in Node : r[n].out \subseteq Outputs(n)}

-----------------------------------------------------------------------------
(* DirectedGraph.                                                          *)

\* Mutant: connections are listed, not mapped from what they connect.
DistinctAll(s) == [i \in DOMAIN s |-> [at |-> i, link |-> s[i]]]

Distinct(s) ==
    SelectSeq([i \in DOMAIN s |-> [at |-> i, link |-> s[i]]],
              LAMBDA x : \A j \in 1..(x.at - 1) : s[j] # x.link)

Unique(s) == LET d == Distinct(s) IN [i \in DOMAIN d |-> d[i].link]

Into(g, n)  == SelectSeq(g, LAMBDA l : l.to = n)
OutOf(g, n) == SelectSeq(g, LAMBDA l : l.from = n)

Ends(g) == {l.from : l \in ToSet(g)} \cup {l.to : l \in ToSet(g)}

\* The nodes of a subgraph, in the order in which they were added.
NodeOrder(g) == Unique(FlattenSeq([i \in DOMAIN g |-> <<g[i].from, g[i].to>>]))

RECURSIVE Closure(_, _)
Closure(pairs, ns) ==
    LET more == ns \cup {p[2] : p \in {q \in pairs : q[1] \in ns}}
    IN  IF more = ns THEN ns ELSE Closure(pairs, more)

Pairs(g) == {<<l.from, l.to>> : l \in ToSet(g)}

\* getChildren: what can be reached over at least one connection.
Children(g, n) == Closure(Pairs(g), {l.to : l \in ToSet(OutOf(g, n))})

\* Mutant: the parents of a removed node lose its children.
RemoveNodeCut(g, n) == SelectSeq(g, LAMBDA l : n \notin {l.from, l.to})

\* Mutant: the connections of a removed node remain beside the new ones.
RemoveNodeKeep(g, n) ==
    LET into == Into(g, n)
        out  == OutOf(g, n)
    IN  Unique(g \o FlattenSeq([i \in DOMAIN into |-> [j \in DOMAIN out |->
                      [into[i] EXCEPT !.to = out[j].to, !.in = out[j].in]]]))

\* removeNode with reconnectConnections. Connections of the node with itself
\* come back as connections of a node that is gone.
RemoveNode(g, n) ==
    LET into    == Into(g, n)
        out     == OutOf(g, n)
        rewired == FlattenSeq([i \in DOMAIN into |-> [j \in DOMAIN out |->
                     [into[i] EXCEPT !.to = out[j].to, !.in = out[j].in]]])
    IN  Unique(SelectSeq(g, LAMBDA l : n \notin {l.from, l.to}) \o rewired)

RECURSIVE RemoveAll(_, _)
RemoveAll(g, ns) == IF ns = <<>> THEN g ELSE RemoveAll(RemoveNode(g, Head(ns)), Tail(ns))

\* depthFirstSearchRecursive from the nodes of a sequence, the first match of
\* the goal being the result, as a sequence of none or one.
RECURSIVE Search(_, _, _, _)
Search(g, todo, seen, goal) ==
    IF todo = <<>> THEN <<>>
    ELSE LET n == Head(todo)
             out == OutOf(g, n)
         IN  IF n \in seen THEN Search(g, Tail(todo), seen, goal)
             ELSE IF n \in goal THEN <<n>>
             ELSE Search(g, [i \in DOMAIN out |-> out[i].to] \o Tail(todo), seen \cup {n}, goal)

\* getStronglyConnectedComponents. A node keeps the id of its first visit and
\* the lowest id it is known to reach; the components are taken from the stack,
\* as far as the nodes on it have the very id of the node that was followed.
RECURSIVE TakeComponent(_, _, _)
TakeComponent(s, id, taken) ==
    IF s.stack # <<>> /\ s.low[Last(s.stack)] = id
    THEN TakeComponent([s EXCEPT !.stack = Front(@)], id, taken \cup {Last(s.stack)})
    ELSE [s EXCEPT !.found = @ \cup ({taken} \ {{}})]

RECURSIVE FollowNode(_, _, _), FollowChildren(_, _, _, _)
FollowNode(g, n, s) ==
    IF n \in DOMAIN s.low THEN s
    ELSE LET id   == Cardinality(DOMAIN s.low)
             done == FollowChildren(g, n, OutOf(g, n),
                       [s EXCEPT !.low = (n :> id) @@ @, !.stack = Append(@, n)])
         IN  IF done.low[n] = id THEN TakeComponent(done, id, {}) ELSE done
FollowChildren(g, n, out, s) ==
    IF out = <<>> THEN s
    ELSE LET child == Head(out).to
             done  == FollowNode(g, child, s)
         IN  FollowChildren(g, n, Tail(out),
               IF Contains(done.stack, child) /\ done.low[child] < done.low[n]
               THEN [done EXCEPT !.low[n] = done.low[child]] ELSE done)

RECURSIVE FollowAll(_, _, _)
FollowAll(g, ns, s) ==
    IF ns = <<>> THEN s ELSE FollowAll(g, Tail(ns), FollowNode(g, Head(ns), s))

Components(g) ==
    FollowAll(g, NodeOrder(g), [low |-> [n \in {} |-> 0], stack |-> <<>>, found |-> {}]).found

-----------------------------------------------------------------------------
(* find-subgraph.ts, find-start-nodes.ts                                   *)

\* findSubgraphRecursive: the branches that are kept, one after the other. One
\* that meets a node again is kept, unless the node is the destination.
RECURSIVE Branches(_, _, _)
Branches(g, n, branch) ==
    LET into  == Into(g, n)
        again == \E l \in ToSet(branch) : l.to = n
    IN  IF n = Trigger THEN branch
        ELSE IF into = <<>> \/ (again /\ n = Destination) THEN <<>>
        ELSE IF again THEN branch
        ELSE FlattenSeq([i \in DOMAIN into |->
               Branches(g, into[i].from, Append(branch, into[i]))])

\* Those of ns that lead back to themselves over nodes of ns alone, and on to
\* the destination (history, not in the code).
Circling(g, ns) ==
    LET among == {p \in Pairs(g) : {p[1], p[2]} \subseteq ns}
    IN  {n \in ns : /\ n \in Closure(among, {p[2] : p \in {q \in among : q[1] = n}})
                   /\ Destination \in Children(g, n)}

\* A removed node is met on the way back: an assertion of DirectedGraph fails.
MeetsRemoved(g) ==
    LET back == {<<l.to, l.from>> : l \in {k \in ToSet(g) : k.to # Trigger}}
    IN  Closure(back, {Destination}) \ nodes # {}

IsDirty(n) == n \notin pins /\ ~run[n].ran

\* Where the search for start nodes ends with one: a dirty node, the
\* destination, a loop that is not done.
IsStart(n) == IsDirty(n) \/ n = Destination \/ (n \in Loops /\ 0 \notin run[n].out)

\* Mutant: every output is followed.
RECURSIVE StartsAnywhere(_, _)
StartsAnywhere(n, seen) ==
    IF IsStart(n) THEN {n}
    ELSE IF n \in seen THEN {}
    ELSE UNION {StartsAnywhere(l.to, seen \cup {n}) : l \in ToSet(OutOf(graph, n))}

\* findStartNodesRecursive: only outputs with run data are followed.
RECURSIVE StartsFrom(_, _)
StartsFrom(n, seen) ==
    IF IsStart(n) THEN {n}
    ELSE IF n \in seen THEN {}
    ELSE UNION {StartsFrom(l.to, seen \cup {n}) :
                  l \in {k \in ToSet(OutOf(graph, n)) : k.out \in run[n].out}}

-----------------------------------------------------------------------------
(* get-source-data-groups.ts, recreate-node-execution-stack.ts             *)

HasData(l)  == run[l.from].ran \/ l.from \in pins
HasItems(l) == l.out \in run[l.from].out

Place(s, x)   == CHOOSE i \in DOMAIN s : s[i] = x
LowestIn(ls)  == CHOOSE i \in {l.in : l \in ls} : \A l \in ls : i <= l.in
FirstNamed(ls) ==
    CHOOSE l \in ls : \A k \in ls :
        \/ Place(Names, l.from) < Place(Names, k.from)
        \/ l.from = k.from /\ Place(graph, l) <= Place(graph, k)

\* getSourceDataGroups: groups with one connection per input, for as long as
\* the inputs follow each other, those with data first.
RECURSIVE Groups(_, _, _)
Groups(rest, input, group) ==
    IF rest = {} THEN <<group>>
    ELSE LET here == {l \in rest : l.in = input}
             best == IF \E l \in here : HasData(l) THEN {l \in here : HasData(l)} ELSE here
         IN  IF here = {} THEN <<group>> \o Groups(rest, LowestIn(rest), <<>>)
             ELSE Groups(rest \ {FirstNamed(best)}, input + 1, Append(group, FirstNamed(best)))

SourceGroups(n) ==
    LET ls == ToSet(Into(graph, n)) IN Groups(ls, LowestIn(ls), <<>>)

\* An entry for a start node: the connections it is fed by, and those of them
\* whose items are handed on.
Entry(n, group, ls) == [node |-> n, sources |-> group, fed |-> SelectSeq(group, LAMBDA l : l \in ls)]

Pinned(l) == l.from \in pins

\* recreateNodeExecutionStack
OnStack(n) ==
    IF Into(graph, n) = <<>> THEN {[node |-> n, sources |-> <<>>, fed |-> <<>>]}
    ELSE {Entry(n, g, {l \in ToSet(g) : Pinned(l) \/ HasItems(l)}) :
            g \in {h \in ToSet(SourceGroups(n)) : \A l \in ToSet(h) : HasData(l)}}

OnWait(n) ==
    IF Into(graph, n) = <<>> THEN {}
    ELSE {e \in {Entry(n, g, {l \in ToSet(g) : HasItems(l)}) :
                   g \in {h \in ToSet(SourceGroups(n)) : \E l \in ToSet(h) : ~HasData(l)}} :
            e.fed # <<>>}

-----------------------------------------------------------------------------
(* The steps of runPartialWorkflow2.                                       *)

\* A workflow whose destination has the trigger among its parents.
Init ==
    /\ graph \in {SelectSeq(Links, LAMBDA l : l \in ls) : ls \in SUBSET ToSet(Links)}
    /\ Destination \in Children(graph, Trigger)
    /\ phase = "filter" /\ nodes = Node /\ circling = {}
    /\ run = [n \in Node |-> NoData] /\ pins = {}
    /\ starts = {} /\ stack = {} /\ waiting = {}

\* filterDisabledNodes
FilterDisabledNodes ==
    /\ phase = "filter"
    /\ \E off \in SUBSET MayDisable :
         /\ nodes' = Node \ off
         /\ graph' = RemoveAll(graph, SelectSeq(Names, LAMBDA n : n \in off))
         /\ circling' = Circling(graph, off)
    /\ phase' = "subgraph"
    /\ UNCHANGED <<run, pins, starts, stack, waiting>>

FindSubgraph ==
    /\ phase = "subgraph"
    /\ graph' = Unique(Branches(graph, Destination, <<>>))
    /\ nodes' = Ends(graph')
    /\ phase' = IF MeetsRemoved(graph) THEN "failed" ELSE "data"
    /\ UNCHANGED <<circling, run, pins, starts, stack, waiting>>

\* The run data and the pinned data of the request, read from here on. Run data
\* of dirtyNodeNames has been taken out of it, maybe all there was.
ReadData ==
    /\ phase = "data"
    /\ run' \in RunData /\ pins' \in SUBSET MayPin
    /\ phase' = "starts"
    /\ UNCHANGED <<circling, nodes, graph, starts, stack, waiting>>

FindStartNodes ==
    /\ phase = "starts"
    /\ starts' = StartsFrom(Trigger, {})
    /\ phase' = "cycles"
    /\ UNCHANGED <<circling, nodes, graph, run, pins, stack, waiting>>

\* handleCycles: a start node in a component gives way to the node of it that a
\* search from the trigger finds first.
HandleCycles ==
    /\ phase = "cycles"
    /\ LET cycles == {c \in Components(graph) : c \cap starts # {}}
           first(c) == Search(graph, <<Trigger>>, {}, c)
       IN  /\ starts' = (starts \ UNION cycles) \cup UNION {ToSet(first(c)) : c \in cycles}
           /\ phase' = IF \E c \in cycles : first(c) = <<>> THEN "failed" ELSE "clean"
    /\ UNCHANGED <<circling, nodes, graph, run, pins, stack, waiting>>

\* Mutant: only what follows a start node directly is cleaned.
CleanRunDataNear ==
    /\ phase = "clean"
    /\ LET stale == starts \cup {l.to : l \in {k \in ToSet(graph) : k.from \in starts}}
       IN  run' = [n \in Node |-> IF n \in stale \/ n \notin nodes THEN NoData ELSE run[n]]
    /\ phase' = "stack"
    /\ UNCHANGED <<circling, nodes, graph, pins, starts, stack, waiting>>

CleanRunData ==
    /\ phase = "clean"
    /\ LET stale == starts \cup UNION {Children(graph, n) : n \in starts}
       IN  run' = [n \in Node |-> IF n \in stale \/ n \notin nodes THEN NoData ELSE run[n]]
    /\ phase' = "stack"
    /\ UNCHANGED <<circling, nodes, graph, pins, starts, stack, waiting>>

RecreateNodeExecutionStack ==
    /\ phase = "stack"
    /\ stack' = UNION {OnStack(n) : n \in starts}
    /\ waiting' = UNION {OnWait(n) : n \in starts}
    /\ phase' = "done"
    /\ UNCHANGED <<circling, nodes, graph, run, pins, starts>>

Next ==
    \/ FilterDisabledNodes \/ FindSubgraph \/ ReadData \/ FindStartNodes
    \/ HandleCycles \/ CleanRunData \/ RecreateNodeExecutionStack

Spec == Init /\ [][Next]_vars

-----------------------------------------------------------------------------
(* Properties.                                                             *)

\* The state is well formed; what is on the stack or waits is a start node.
TypeOK ==
    /\ phase \in {"filter", "subgraph", "data", "starts", "cycles", "clean", "stack", "done", "failed"}
    /\ circling \subseteq MayDisable
    /\ nodes \subseteq Node /\ starts \subseteq nodes /\ pins \subseteq MayPin
    /\ \A i, j \in DOMAIN graph : graph[i] = graph[j] => i = j
    /\ \A n \in Node : run[n].ran \in BOOLEAN /\ run[n].out \subseteq Outputs(n)
    /\ \A e \in stack \cup waiting :
         /\ e.node \in starts
         /\ ToSet(e.fed) \subseteq ToSet(e.sources) /\ ToSet(e.sources) \subseteq ToSet(graph)

\* An assertion of DirectedGraph fails if, and only if, disabled nodes lead back
\* to themselves over disabled nodes and on to the destination: removeNode gives
\* connections to a node that is gone. None of handleCycles fails, the trigger
\* reaches every component with a start node.
AssertionsHold ==
    /\ phase = "failed" => circling # {}
    /\ phase \notin {"filter", "subgraph", "failed"} => circling = {}

\* The pairs of nodes of which one leads to the other over removed nodes only.
Bypasses(g, kept) ==
    {<<x, y>> \in kept \X kept :
        y \in Closure({p \in Pairs(g) : p[1] \notin kept}, {l.to : l \in ToSet(OutOf(g, x))})}

\* Disabled nodes are stepped over, one or several in a row: two enabled nodes
\* are connected exactly if they were, or if disabled nodes led from one to the
\* other. Nothing else is left unless a disabled node is on a cycle (removeNode).
FilterKeepsWays ==
    [][phase = "filter" =>
        /\ Pairs(graph') \cap (nodes' \X nodes') = Bypasses(graph, nodes')
        /\ Ends(graph') \subseteq nodes' \/ \E n \in Node \ nodes' : n \in Children(graph, n)]_vars

\* Connections that lie on a way from the trigger to the destination.
OnTheWay(g) ==
    LET there == Closure({p \in Pairs(g) : p[1] # Destination}, {Trigger})
        back  == Closure({<<p[2], p[1]>> : p \in {q \in Pairs(g) : q[1] # Destination}}, {Destination})
    IN  {l \in ToSet(g) : l.from \in there \ {Destination} /\ l.to \in back}

\* The subgraph has every way from the trigger to the destination, cycles
\* included, and nothing from which the destination is not reached
\* (findSubgraph).
SubgraphKeepsWays ==
    [][phase = "subgraph" =>
        /\ OnTheWay(graph) \subseteq ToSet(graph')
        /\ \A l \in ToSet(graph') : Destination \in Children(graph', l.from)]_vars

\* What a connection hands on: items of the run data, or pinned data.
Flows(l) == HasItems(l) \/ Pinned(l)

\* Pinned data that the search does not see: it looks at run data alone.
Unseen == {n \in pins : \E l \in ToSet(OutOf(graph, n)) : ~HasItems(l)}

\* The earliest nodes, on every branch along which data flows from the trigger,
\* that have to run.
Earliest ==
    LET along == {<<l.from, l.to>> : l \in {k \in ToSet(graph) : ~IsStart(k.from) /\ Flows(k)}}
    IN  {n \in Closure(along, {Trigger}) : IsStart(n)}

\* The start nodes are the earliest dirty nodes on every branch, as
\* findStartNodes says: none is too far down or off the branches, and none is
\* missed but behind a pinned node without items in its run data, where the
\* search ends.
StartsAreFirst ==
    phase = "cycles" =>
        /\ starts \subseteq Earliest
        /\ \A n \in Earliest \ starts : \E p \in Unseen : n \in Children(graph, p)

\* The strongly connected component of a node, by what can be reached.
Cycle(n) == {n} \cup {m \in Children(graph, n) : n \in Children(graph, m)}

\* Every cycle is simple: no two of them share a node.
Untangled ==
    \A n \in nodes : Cardinality({l.to : l \in ToSet(OutOf(graph, n))} \cap Cycle(n)) <= 1

\* The nodes of a cycle that can be reached from the trigger past its others.
Entries(c) ==
    c \cap Closure({p \in Pairs(graph) : p[1] \notin c}, {Trigger})

\* What getStronglyConnectedComponents returns never joins nodes that do not
\* reach each other, and is every component if no two cycles share a node. If
\* some do, as two branches of a loop that both lead back to it, it may miss
\* components: low ids are not revised when that of a node on the way falls.
ComponentsFound ==
    phase = "data" =>
        /\ \A c \in Components(graph) : \A n \in c : c \subseteq Cycle(n)
        /\ Untangled => Components(graph) = {Cycle(n) : n \in nodes}

\* In place of the start nodes on a cycle there is one node, at which the cycle
\* is entered from the trigger, if no two cycles share a node. If some do, a
\* start node may stay where it is in the middle of its cycle, and no cycle is
\* left without one. Start nodes on no cycle stay (handleCycles).
CyclesEntered ==
    [][phase = "cycles" /\ phase' = "clean" =>
        /\ \A n \in starts :
             LET cycle == Cycle(n)
             IN  /\ starts' \cap cycle # {}
                 /\ cycle = {n} => n \in starts'
                 /\ \/ \E f \in starts' \cap Entries(cycle) : starts' \cap cycle = {f}
                    \/ ~Untangled
        /\ \A f \in starts' : \E n \in starts : f \in Cycle(n)]_vars

\* No way through the workflow is lost or made up, from the trigger to the
\* destination and into the cycles (removeNode, findSubgraph, handleCycles).
WaysKept == FilterKeepsWays /\ SubgraphKeepsWays /\ []ComponentsFound /\ CyclesEntered

\* No node that will run again keeps the data of the earlier run, nor does one
\* outside the subgraph; the sources of the stack do (cleanRunData).
NothingStale ==
    phase \in {"stack", "done"} =>
        /\ \A n \in Node : run[n].ran =>
             n \in nodes /\ \A s \in starts : n # s /\ n \notin Children(graph, s)
        /\ \A e \in stack : \A l \in ToSet(e.sources) : HasData(l)

\* Every start node that is on no cycle is executed, has its turn when an input
\* it waits for arrives, or comes after another start node
\* (recreateNodeExecutionStack).
StartsPlaced ==
    phase = "done" =>
        \A n \in starts :
            \/ \E e \in stack \cup waiting : e.node = n
            \/ n \in Children(graph, n)
            \/ \E s \in starts \ {n} : n \in Children(graph, s)

\* What is executed is fresh, and everything that has to be.
StackSound == NothingStale /\ StartsPlaced

\* A partial execution executes something: there is a node on the stack.
SomethingRuns == phase = "done" => stack # {}
=============================================================================
