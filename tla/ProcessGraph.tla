----------------------------- MODULE ProcessGraph ------------------------------
(***************************************************************************)
(* build_graph of graph_engine.py: the graph of processes and network      *)
(* peers that the page draws.  AddEvent is one turn of the loop over the   *)
(* events and KeepSource one of the loop that keeps parents; FinishGraph   *)
(* cuts the graph down to what can be displayed.                           *)
(*                                                                         *)
(* A node keeps its identity and its severity; the texts that describe it  *)
(* are left out.  The dict of nodes is a sequence, in insertion order.     *)
(* The code removes repeated edges after the loop; here they are not added *)
(* in the first place, which leaves the same list.                         *)
(***************************************************************************)
EXTENDS Integers, FiniteSets, Sequences

CONSTANTS
    MaxNodes,       \* MAX_GRAPH_NODES
    MaxEdges        \* MAX_GRAPH_EDGES

ASSUME ProcessGraphAssumption == MaxNodes \in Nat \ {0} /\ MaxEdges \in Nat

VARIABLES
    cursor,     \* events the loop has passed
    nodes,      \* nodes_map: records of an id and a severity
    edges,      \* unique_edges: pairs of ids
    kept,       \* kept_ids
    passed,     \* edges the loop that keeps parents has passed
    shown       \* what is returned: nodes, edges and the flag "truncated"

graphVars == <<cursor, nodes, edges, kept, passed, shown>>

NotBuilt == [nodes |-> {}, edges |-> {}, truncated |-> FALSE]

Process(g) == <<"process", g>>
Peer(d) == <<"net", d>>

\* _sev_rank
NodeRank(s) ==
    LET known == [benign |-> 0, low |-> 1, medium |-> 2, high |-> 3, critical |-> 4]
    IN IF s \in DOMAIN known THEN known[s] ELSE 0

Ids(ns) == {ns[i].id : i \in DOMAIN ns}

NodeOf(ns, id) == ns[CHOOSE i \in DOMAIN ns : ns[i].id = id]

\* The worst severity of the findings about a process; others say nothing.  Severities
\* are in lower case here; the graph, unlike the rest of the code, only knows those that
\* findings spell in upper case (graph_engine.py:42-49), as all rules of the repository
\* do.  Other spellings are not modelled.
WorstFinding(fs, g) ==
    LET about == {f.severity : f \in {h \in fs : h.guid = g}}
        S == {"benign"} \cup {s \in about : NodeRank(s) > 0}
    IN CHOOSE s \in S : \A t \in S : NodeRank(t) <= NodeRank(s)

(***************************************************************************)
(* The loop over the events.                                               *)
(***************************************************************************)

\* Variant with a planted error: a node that is there is added again.
AddAgain(ns, ids, sev) ==
    IF ids = {} THEN ns ELSE Append(ns, [id |-> CHOOSE id \in ids : TRUE, severity |-> sev])

\* A new node for the member of ids, if it has one and no node has that id.
Ensure(ns, ids, sev) ==
    IF ids \subseteq Ids(ns) THEN ns
    ELSE Append(ns, [id |-> CHOOSE id \in ids : TRUE, severity |-> sev])

\* Variant with a planted error: a node keeps the severity it was created with.
NeverRaise(ns, id, sev) == ns

\* A node that is there is only ever made worse.
Raise(ns, id, sev) ==
    [i \in DOMAIN ns |->
        IF ns[i].id = id /\ NodeRank(sev) > NodeRank(ns[i].severity)
        THEN [ns[i] EXCEPT !.severity = sev] ELSE ns[i]]

\* The process an event names as the parent of its own, and its network peer.
Parents(ev) == {Process(p) : p \in ev.parent \ {ev.guid}}
Peers(ev) == {Peer(d) : d \in ev.dst}

\* The event's process, then its parent, then its peer.
NodesAfter(ns, ev, sev) ==
    LET own == Raise(Ensure(ns, {Process(ev.guid)}, sev), Process(ev.guid), sev)
    IN Ensure(Ensure(own, Parents(ev), "benign"), Peers(ev), "benign")

\* The member of links, if it has one, is an edge.
Link(es, links) ==
    IF links \subseteq {es[k] : k \in DOMAIN es} THEN es ELSE Append(es, CHOOSE e \in links : TRUE)

EdgesAfter(es, ev) ==
    Link(Link(es, Parents(ev) \X {Process(ev.guid)}), {Process(ev.guid)} \X Peers(ev))

StartGraph ==
    /\ cursor' = 0
    /\ nodes' = <<>> /\ edges' = <<>> /\ kept' = {} /\ passed' = 0 /\ shown' = NotBuilt

\* The loop stops early when there are far more nodes than can be displayed.
MoreEvents(evs) == cursor < Len(evs) /\ Len(nodes) <= MaxNodes * 3

AddEvent(evs, fs) ==
    /\ MoreEvents(evs)
    /\ LET ev == evs[cursor + 1] IN
       /\ nodes' = NodesAfter(nodes, ev, WorstFinding(fs, ev.guid))
       /\ edges' = EdgesAfter(edges, ev)
    /\ cursor' = cursor + 1
    /\ UNCHANGED <<kept, passed, shown>>

(***************************************************************************)
(* The cut.                                                                *)
(***************************************************************************)

TooMany == Len(nodes) > MaxNodes

\* Variant with a planted error: the oldest nodes stay, whatever they are.
FirstNodes == {nodes[i].id : i \in 1..MaxNodes}

\* Node i comes before node j in the stable sort by severity.
Before(i, j) ==
    \/ NodeRank(nodes[i].severity) > NodeRank(nodes[j].severity)
    \/ NodeRank(nodes[i].severity) = NodeRank(nodes[j].severity) /\ i < j

\* The sorted nodes up to the cap.
TopNodes ==
    {nodes[i].id : i \in {k \in DOMAIN nodes :
        Cardinality({j \in DOMAIN nodes : Before(j, k)}) < MaxNodes}}

StartCut(evs) ==
    /\ ~MoreEvents(evs)
    /\ kept' = IF TooMany THEN TopNodes ELSE Ids(nodes)
    /\ UNCHANGED <<cursor, nodes, edges, passed, shown>>

\* The parent of a node that is kept is kept.  The set grows during the loop, so a
\* parent of a parent is kept too when its edge comes later.
KeepSource ==
    /\ TooMany
    /\ passed < Len(edges)
    /\ kept' = IF edges[passed + 1][2] \in kept THEN kept \cup {edges[passed + 1][1]} ELSE kept
    /\ passed' = passed + 1
    /\ UNCHANGED <<cursor, nodes, edges, shown>>

\* Only edges between kept nodes stay, and of these as many as can be displayed.
FinishGraph ==
    /\ TooMany => passed = Len(edges)
    /\ LET within == {k \in DOMAIN edges : {edges[k][1], edges[k][2]} \subseteq kept}
           first == {k \in within : Cardinality({l \in within : l < k}) < MaxEdges}
       IN shown' = [nodes |-> {nodes[i] : i \in {k \in DOMAIN nodes : nodes[k].id \in kept}},
                    edges |-> {edges[k] : k \in first},
                    truncated |-> TooMany \/ within # first]
    /\ UNCHANGED <<cursor, nodes, edges, kept, passed>>
=============================================================================
