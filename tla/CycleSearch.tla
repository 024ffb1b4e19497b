---------------------------- MODULE CycleSearch ----------------------------
(***************************************************************************)
(* DetectCycles of pkg/container/cycles.go: a depth-first search with      *)
(* three colours over the links of the listed containers, started from     *)
(* every node in the order of a Go map.                                    *)
(*                                                                         *)
(* A list is a sequence of containers; each has a name, an identifier      *)
(* (ResolveContainerIdentifier) and the names it links to.                 *)
(***************************************************************************)
EXTENDS Naturals, Sequences, Dependencies

CONSTANTS
    Names,   \* names and identifiers of containers
    Lists    \* the lists of containers to search

Container == [name : Names, id : Names, links : SUBSET Names]

ASSUME SearchAssumption == Lists \subseteq Seq(Container)

VARIABLES
    graph,   \* the links of each node, by identifier
    colors,  \* white: not visited, gray: on the path, black: finished
    path,    \* the nodes from the start of this search to the current one
    left,    \* the links of each node that are still to be followed
    cycles   \* the nodes marked so far

vars == <<graph, colors, path, left, cycles>>

Nodes == DOMAIN graph

-----------------------------------------------------------------------------
(* Building the graph *)

(* Entry i is the last one of the list l with property P: it overwrites the others. *)
IsLast(l, P) == {i \in DOMAIN l : i \in P /\ \A j \in DOMAIN l : j > i => j \notin P}

(* The entries that write key n into the alias map, and into the graph. *)
Aliasing(l, n) == {i \in DOMAIN l : n \in {l[i].name, l[i].id}}
Defining(l, n) == {i \in DOMAIN l : l[i].id = n}

(* aliasMap[n], as a set that is empty for an unknown name. *)
Alias(l, n) == {l[i].id : i \in IsLast(l, Aliasing(l, n))}

(* Variant: links looked up by identifier only, not through the aliases. *)
GraphUnaliased(l) ==
    [n \in {l[i].id : i \in DOMAIN l} |->
        UNION {l[i].links : i \in IsLast(l, Defining(l, n))}]

Graph(l) ==
    [n \in {l[i].id : i \in DOMAIN l} |->
        UNION {Alias(l, m) : m \in UNION {l[i].links : i \in IsLast(l, Defining(l, n))}}]

-----------------------------------------------------------------------------
(* The search *)

Init ==
    /\ \E l \in Lists : graph = Graph(l)
    /\ colors = [n \in Nodes |-> "white"]
    /\ path = <<>>
    /\ left = graph
    /\ cycles = {}

Current == path[Len(path)]

Enter(n) ==
    /\ colors[n] = "white"
    /\ colors' = [colors EXCEPT ![n] = "gray"]
    /\ path' = Append(path, n)

(* The loop of DetectCycles starts a search at a node not yet visited. *)
Start(n) ==
    /\ path = <<>>
    /\ Enter(n)
    /\ UNCHANGED <<graph, left, cycles>>

(* dfs follows the next link of the current node. *)
Follow(n) ==
    /\ path # <<>> /\ n \in left[Current]
    /\ left' = [left EXCEPT ![Current] = @ \ {n}]
    /\ UNCHANGED graph

Visit(n) == Follow(n) /\ Enter(n) /\ UNCHANGED cycles

(* Variants: the whole path; the stretch without the node the link leads to. *)
ClosedWhole(n) == {path[i] : i \in 1 .. Len(path)}
ClosedAfter(n) == {path[i] : i \in {i \in 1 .. Len(path) : \E j \in 1 .. i - 1 : path[j] = n}}

(* The stretch of the path that the link to n closes. *)
Closed(n) == {path[i] : i \in {i \in 1 .. Len(path) : \E j \in 1 .. i : path[j] = n}}

(* A gray neighbour: the path from it to the current node is a cycle. *)
BackEdge(n) ==
    /\ Follow(n)
    /\ colors[n] = "gray"
    /\ cycles' = cycles \cup Closed(n)
    /\ UNCHANGED <<colors, path>>

(* A black neighbour is not looked at again. *)
CrossEdge(n) ==
    /\ Follow(n)
    /\ colors[n] = "black"
    /\ UNCHANGED <<colors, path, cycles>>

(* Variant: a finished node becomes white again. *)
BacktrackForgets ==
    /\ path # <<>> /\ left[Current] = {}
    /\ colors' = [colors EXCEPT ![Current] = "white"]
    /\ path' = SubSeq(path, 1, Len(path) - 1)
    /\ UNCHANGED <<graph, left, cycles>>

Backtrack ==
    /\ path # <<>> /\ left[Current] = {}
    /\ colors' = [colors EXCEPT ![Current] = "black"]
    /\ path' = SubSeq(path, 1, Len(path) - 1)
    /\ UNCHANGED <<graph, left, cycles>>

Done == path = <<>> /\ \A n \in Nodes : colors[n] # "white"

Step ==
    \/ \E n \in Nodes : Start(n) \/ Visit(n) \/ BackEdge(n) \/ CrossEdge(n)
    \/ Backtrack

Next == Step \/ (Done /\ UNCHANGED vars)

Spec == Init /\ [][Next]_vars /\ WF_vars(Step)

-----------------------------------------------------------------------------
(* The variables hold values of their types; what is gray is on the path. *)
TypeOK ==
    /\ graph \in [Nodes -> SUBSET Nodes]
    /\ colors \in [Nodes -> {"white", "gray", "black"}]
    /\ path \in Seq(Nodes)
    /\ left \in [Nodes -> SUBSET Nodes]
    /\ cycles \subseteq Nodes

(***************************************************************************)
(* A node is marked only if it lies on a cycle: no container is excluded   *)
(* from updates for the company it keeps (the loop over cd.path from idx). *)
(***************************************************************************)
OnlyCycles == cycles \subseteq OnCycle(graph, Nodes)

(***************************************************************************)
(* When the search is over, the nodes that are not marked form no cycle:   *)
(* the containers that remain can be put in order, whatever order the      *)
(* search took (dfs, the loop of DetectCycles).                            *)
(***************************************************************************)
NoCycleLeft == Done => cycles \in DetectableCycles(graph, Nodes)

(* Every search ends (dfs recurses on white nodes only). *)
SearchEnds == <>Done

(***************************************************************************)
(* "identifying all containers that are part of any circular dependency    *)
(* chain" (comment of DetectCycles): every container on a cycle is marked. *)
(***************************************************************************)
AllCyclesFound == Done => OnCycle(graph, Nodes) \subseteq cycles
=============================================================================
