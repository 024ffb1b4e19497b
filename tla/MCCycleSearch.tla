--------------------------- MODULE MCCycleSearch ---------------------------
(* Small lists for CycleSearch. *)
EXTENDS CycleSearch

CONSTANTS a, b, c, p

(* Containers without labels: the identifier is the name. *)
Plainly(n, l) == [name |-> n, id |-> n, links |-> l]

MCNames == {a, b, c, p}

(* Every graph over three containers. *)
ThreeLists ==
    {<<Plainly(a, f[a]), Plainly(b, f[b]), Plainly(c, f[c])>> :
        f \in [{a, b, c} -> SUBSET {a, b, c}]}

(* Names and identifiers that differ, coincide or are not in the list. *)
AliasLists ==
    {<<[name |-> a, id |-> p, links |-> L], [name |-> b, id |-> q, links |-> M],
       Plainly(c, N)>> :
        q \in {b, p, c}, L, M \in SUBSET {a, b, p}, N \in SUBSET {a, b}}

AllLists == ThreeLists \cup AliasLists
=============================================================================
