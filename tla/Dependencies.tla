---------------------------- MODULE Dependencies ----------------------------
(***************************************************************************)
(* Graphs of dependencies: what a cycle is, and what the two searches of   *)
(* the program, DetectCycles and the dependency sort, promise about them.  *)
(* links maps each container to the containers it depends on.              *)
(***************************************************************************)

(* A cycle inside S: a set whose members all depend on another member. *)
Cyclic(links, S) ==
    \E X \in SUBSET S : X # {} /\ \A c \in X : links[c] \cap X # {}

(* Every member of X reaches every other one inside X. *)
StronglyConnected(links, X) ==
    \A Y \in SUBSET X : Y \notin {{}, X} => \E c \in Y : links[c] \cap (X \ Y) # {}

(* A set on a cycle: its members reach one another, and themselves. *)
IsCycle(links, X) ==
    /\ X # {} /\ \A c \in X : links[c] \cap X # {}
    /\ StronglyConnected(links, X)

OnCycle(links, S) == UNION {X \in SUBSET S : IsCycle(links, X)}

(***************************************************************************)
(* What DetectCycles may return: only containers on a cycle, and at least  *)
(* one of every cycle.  Which ones depends on the order of its search.     *)
(***************************************************************************)
DetectableCycles(links, S) == {D \in SUBSET OnCycle(links, S) : ~Cyclic(links, S \ D)}
=============================================================================
