------------------------- MODULE CycleSearchProofs -------------------------
(* Theorems about CycleSearch, for every list of containers. *)
EXTENDS CycleSearch, SequenceTheorems, TLAPS

-----------------------------------------------------------------------------
(***************************************************************************)
(* The path: its nodes are the gray ones, each once, each linked to by the *)
(* one before.                                                             *)
(***************************************************************************)
PathInv ==
    /\ \A i \in 1 .. Len(path) : colors[path[i]] = "gray"
    /\ \A n \in Nodes : colors[n] = "gray" => \E i \in 1 .. Len(path) : path[i] = n
    /\ \A i, j \in 1 .. Len(path) : path[i] = path[j] => i = j
    /\ \A i \in 1 .. Len(path) - 1 : path[i + 1] \in graph[path[i]]

(* Induction along the path, carried by the search itself. *)
ChainInv ==
    \A i \in 1 .. Len(path), Y \in SUBSET Nodes :
        /\ path[i] \in Y
        /\ \A j \in i .. Len(path) - 1 : path[j] \in Y => path[j + 1] \in Y
        => \A j \in i .. Len(path) : path[j] \in Y

(***************************************************************************)
(* What an unmarked node has followed is finished, or is being visited     *)
(* from it; so no cycle lies among the finished unmarked nodes.            *)
(***************************************************************************)
FollowInv ==
    /\ \A n \in Nodes : left[n] \subseteq graph[n]
    /\ \A n \in Nodes : colors[n] = "white" => left[n] = graph[n]
    /\ \A n \in Nodes : colors[n] = "black" => left[n] = {}
    /\ \A n \in Nodes \ cycles : \A m \in graph[n] \ left[n] :
          \/ colors[m] = "black"
          \/ \E i \in 1 .. Len(path) - 1 : path[i] = n /\ path[i + 1] = m
    /\ ~Cyclic(graph, {n \in Nodes \ cycles : colors[n] = "black"})

IInv == TypeOK /\ PathInv /\ ChainInv /\ FollowInv /\ OnlyCycles

-----------------------------------------------------------------------------
LEMMA GraphTypes ==
    ASSUME NEW l \in Lists
    PROVE  Graph(l) \in [DOMAIN Graph(l) -> SUBSET DOMAIN Graph(l)]
  BY DEF Graph, Alias, IsLast

LEMMA InitIInv == Init => IInv
  <1> SUFFICES ASSUME Init
               PROVE  IInv
    OBVIOUS
  <1>1. graph \in [Nodes -> SUBSET Nodes]
    BY GraphTypes DEF Init, Nodes
  <1>2. TypeOK /\ PathInv /\ ChainInv /\ OnlyCycles
    BY <1>1 DEF Init, TypeOK, PathInv, ChainInv, OnlyCycles
  <1>3. ~Cyclic(graph, {n \in Nodes \ cycles : colors[n] = "black"})
    BY DEF Init, Cyclic
  <1>4. QED
    BY <1>1, <1>2, <1>3 DEF IInv, FollowInv, Init

-----------------------------------------------------------------------------
(* What the two movements of the search do to the path. *)

LEMMA PushPath ==
    ASSUME TypeOK, NEW n \in Nodes, path' = Append(path, n)
    PROVE  /\ Len(path') = Len(path) + 1 /\ Len(path) \in Nat
           /\ \A i \in 1 .. Len(path) : path'[i] = path[i]
           /\ path'[Len(path) + 1] = n
           /\ path' \in Seq(Nodes)
  BY DEF TypeOK

LEMMA PrefixLength ==
    ASSUME NEW S, NEW s \in Seq(S), NEW n \in Nat, n <= Len(s)
    PROVE  Len(SubSeq(s, 1, n)) = n
  OBVIOUS

LEMMA FrontKeeps ==
    ASSUME NEW S, NEW s \in Seq(S), s # <<>>
    PROVE  /\ Len(s) \in Nat \ {0} /\ SubSeq(s, 1, Len(s) - 1) \in Seq(S)
           /\ Len(SubSeq(s, 1, Len(s) - 1)) = Len(s) - 1
           /\ \A i \in 1 .. Len(s) - 1 : SubSeq(s, 1, Len(s) - 1)[i] = s[i]
  <1>1. Len(s) \in Nat \ {0} /\ Len(s) - 1 \in Nat /\ Len(s) - 1 <= Len(s)
    OBVIOUS
  <1>2. Len(SubSeq(s, 1, Len(s) - 1)) = Len(s) - 1
    BY <1>1, PrefixLength
  <1>3. \A i \in 1 .. Len(s) - 1 : SubSeq(s, 1, Len(s) - 1)[i] = s[i]
    BY <1>1
  <1>4. SubSeq(s, 1, Len(s) - 1) \in Seq(S)
    BY <1>1
  <1>5. QED
    BY <1>1, <1>2, <1>3, <1>4

LEMMA NotLast ==
    ASSUME NEW n \in Nat, NEW m, m = n - 1, NEW i \in 1 .. m, NEW j \in i .. n - 1, j # n - 1
    PROVE  j \in i .. m - 1 /\ j \in 1 .. n - 1
  OBVIOUS

LEMMA PopPath ==
    ASSUME TypeOK, path # <<>>, path' = SubSeq(path, 1, Len(path) - 1)
    PROVE  /\ Len(path) \in Nat \ {0} /\ Len(path') = Len(path) - 1
           /\ \A i \in 1 .. Len(path') : path'[i] = path[i]
           /\ path' \in Seq(Nodes)
  <1>1. path \in Seq(Nodes)
    BY DEF TypeOK
  <1>2. QED
    BY <1>1, FrontKeeps

LEMMA EnterKeeps ==
    ASSUME TypeOK, PathInv, ChainInv, NEW n \in Nodes, Enter(n), UNCHANGED graph,
           path # <<>> => n \in graph[Current]
    PROVE  PathInv' /\ ChainInv'
  <1>1. /\ Len(path') = Len(path) + 1 /\ Len(path) \in Nat
        /\ \A i \in 1 .. Len(path) : path'[i] = path[i]
        /\ path'[Len(path) + 1] = n
    BY PushPath DEF Enter
  <1>2. /\ colors[n] = "white" /\ colors'[n] = "gray"
        /\ \A m \in Nodes \ {n} : colors'[m] = colors[m]
        /\ Nodes' = Nodes
    BY DEF Enter, TypeOK, Nodes
  <1>3. \A i \in 1 .. Len(path) : path[i] \in Nodes \ {n}
    BY <1>2 DEF PathInv, TypeOK
  <1>4. PathInv'
    <2>1. \A i \in 1 .. Len(path') : colors'[path'[i]] = "gray"
      BY <1>1, <1>2, <1>3 DEF PathInv
    <2>2. \A m \in Nodes' : colors'[m] = "gray" => \E i \in 1 .. Len(path') : path'[i] = m
      BY <1>1, <1>2 DEF PathInv
    <2>3. \A i, j \in 1 .. Len(path') : path'[i] = path'[j] => i = j
      BY <1>1, <1>3 DEF PathInv
    <2>4. \A i \in 1 .. Len(path') - 1 : path'[i + 1] \in graph'[path'[i]]
      <3> SUFFICES ASSUME NEW i \in 1 .. Len(path)
                   PROVE  path'[i + 1] \in graph[path[i]]
        BY <1>1
      <3>1. CASE i = Len(path)
        BY <3>1, <1>1 DEF Current
      <3>2. CASE i # Len(path)
        BY <3>2, <1>1 DEF PathInv
      <3>3. QED
        BY <3>1, <3>2
    <2>5. QED
      BY <2>1, <2>2, <2>3, <2>4 DEF PathInv
  <1>5. ChainInv'
    <2> SUFFICES ASSUME NEW i \in 1 .. Len(path) + 1, NEW Y \in SUBSET Nodes,
                        path'[i] \in Y,
                        \A j \in i .. Len(path) : path'[j] \in Y => path'[j + 1] \in Y,
                        NEW k \in i .. Len(path) + 1
                 PROVE  path'[k] \in Y
      BY <1>1, <1>2 DEF ChainInv
    <2>1. CASE i = Len(path) + 1
      BY <2>1, <1>1
    <2>2. CASE i # Len(path) + 1
      <3>1. i \in 1 .. Len(path) /\ path[i] \in Y
        BY <2>2, <1>1
      <3>4. \A j \in i .. Len(path) - 1 : path[j] \in Y => path[j + 1] \in Y
        <4> SUFFICES ASSUME NEW j \in i .. Len(path) - 1, path[j] \in Y
                     PROVE  path[j + 1] \in Y
          OBVIOUS
        <4>1. j \in i .. Len(path) /\ path'[j] = path[j] /\ path'[j + 1] = path[j + 1]
          BY <1>1
        <4>2. QED
          BY <4>1
      <3>5. \A j \in i .. Len(path) : path[j] \in Y
        BY <3>1, <3>4 DEF ChainInv
      <3>2. n \in Y
        BY <3>1, <3>5, <1>1
      <3>3. QED
        BY <3>5, <3>2, <1>1
    <2>3. QED
      BY <2>1, <2>2
  <1>6. QED
    BY <1>4, <1>5

LEMMA BacktrackKeeps ==
    ASSUME TypeOK, PathInv, ChainInv, Backtrack
    PROVE  PathInv' /\ ChainInv'
  <1>1. /\ Len(path) \in Nat \ {0} /\ Len(path') = Len(path) - 1
        /\ \A i \in 1 .. Len(path') : path'[i] = path[i]
    BY PopPath DEF Backtrack
  <1>2. Current \in Nodes /\ \A i \in 1 .. Len(path) - 1 : path[i] \in Nodes \ {Current}
    BY <1>1 DEF PathInv, Current, TypeOK
  <1>3. /\ \A m \in Nodes \ {Current} : colors'[m] = colors[m]
        /\ colors'[Current] = "black" /\ Nodes' = Nodes /\ graph' = graph
    BY <1>2 DEF Backtrack, TypeOK, Nodes
  <1>4. PathInv'
    <2>1. \A m \in Nodes : colors'[m] = "gray" => \E i \in 1 .. Len(path') : path'[i] = m
      <3> SUFFICES ASSUME NEW m \in Nodes, colors'[m] = "gray"
                   PROVE  \E i \in 1 .. Len(path') : path'[i] = m
        OBVIOUS
      <3>1. m # Current /\ colors[m] = "gray"
        BY <1>2, <1>3
      <3>2. PICK i \in 1 .. Len(path) : path[i] = m
        BY <3>1 DEF PathInv
      <3>3. i # Len(path)
        BY <3>1, <3>2 DEF Current
      <3>4. QED
        BY <3>2, <3>3, <1>1
    <2>2. /\ \A i, j \in 1 .. Len(path') : path'[i] = path'[j] => i = j
          /\ \A i \in 1 .. Len(path') - 1 : path'[i + 1] \in graph'[path'[i]]
      BY <1>1, <1>3 DEF PathInv
    <2>3. \A i \in 1 .. Len(path') : colors'[path'[i]] = "gray"
      BY <1>1, <1>2, <1>3 DEF PathInv
    <2>4. QED
      BY <2>1, <2>2, <2>3, <1>3 DEF PathInv
  <1>5. ChainInv'
    <2> SUFFICES ASSUME NEW i \in 1 .. Len(path'), NEW Y \in SUBSET Nodes,
                        path[i] \in Y,
                        \A j \in i .. Len(path') - 1 : path[j] \in Y => path[j + 1] \in Y
                 PROVE  \A j \in i .. Len(path') : path[j] \in Y
      <3> SUFFICES ASSUME NEW i \in 1 .. Len(path'), NEW Y \in SUBSET Nodes,
                          path'[i] \in Y,
                          \A j \in i .. Len(path') - 1 : path'[j] \in Y => path'[j + 1] \in Y,
                          NEW k \in i .. Len(path')
                   PROVE  path'[k] \in Y
        BY <1>1, <1>3 DEF ChainInv
      <3>1. path[i] \in Y
        BY <1>1
      <3>2. \A j \in i .. Len(path') - 1 : path[j] \in Y => path[j + 1] \in Y
        <4> TAKE j \in i .. Len(path') - 1
        <4>1. path'[j] = path[j] /\ path'[j + 1] = path[j + 1]
          BY <1>1
        <4>2. QED
          BY <4>1
      <3>3. QED
        BY <3>1, <3>2, <1>1
    <2> DEFINE Z == Y \cup {Current}
    <2>1. path[i] \in Z /\ Z \in SUBSET Nodes /\ i \in 1 .. Len(path)
      BY <1>1, <1>2
    <2>2. \A j \in i .. Len(path) - 1 : path[j] \in Z => path[j + 1] \in Z
      <3> SUFFICES ASSUME NEW j \in i .. Len(path) - 1, path[j] \in Z
                   PROVE  path[j + 1] \in Z
        OBVIOUS
      <3>1. CASE j = Len(path) - 1
        BY <3>1, <1>1 DEF Current
      <3>2. CASE j # Len(path) - 1
        <4>1. j \in i .. Len(path') - 1 /\ j \in 1 .. Len(path) - 1
          BY <3>2, <1>1, NotLast
        <4>2. path[j] # Current
          BY <4>1, <1>2
        <4>3. QED
          BY <4>1, <4>2
      <3>3. QED
        BY <3>1, <3>2
    <2>3. \A j \in i .. Len(path) : path[j] \in Z
      BY <2>1, <2>2 DEF ChainInv
    <2>4. QED
      BY <2>3, <1>1, <1>2
  <1>6. QED
    BY <1>4, <1>5

-----------------------------------------------------------------------------
(* A back edge closes a cycle: the stretch of the path it closes is one. *)
LEMMA ClosedIsCycle ==
    ASSUME TypeOK, PathInv, ChainInv, NEW n \in Nodes,
           path # <<>>, n \in graph[Current], colors[n] = "gray"
    PROVE  /\ IsCycle(graph, Closed(n)) /\ Closed(n) \subseteq Nodes
           /\ Current \in Closed(n)
  <1>1. PICK k \in 1 .. Len(path) : path[k] = n
    BY DEF PathInv
  <1>2. Len(path) \in Nat \ {0} /\ \A i \in 1 .. Len(path) : path[i] \in Nodes
    BY FrontKeeps DEF TypeOK
  <1>3. Closed(n) = {path[i] : i \in k .. Len(path)}
    <2>1. \A i \in 1 .. Len(path) : (\E j \in 1 .. i : path[j] = n) <=> i \in k .. Len(path)
      <3> TAKE i \in 1 .. Len(path)
      <3>1. ASSUME NEW j \in 1 .. i, path[j] = n
            PROVE  i \in k .. Len(path)
        <4>1. j \in 1 .. Len(path)
          BY <1>2
        <4>2. j = k
          BY <3>1, <4>1, <1>1 DEF PathInv
        <4>3. QED
          BY <4>2, <1>2
      <3>2. ASSUME i \in k .. Len(path)
            PROVE  \E j \in 1 .. i : path[j] = n
        BY <3>2, <1>1, <1>2
      <3>3. QED
        BY <3>1, <3>2
    <2>2. k .. Len(path) \subseteq 1 .. Len(path)
      BY <1>1, <1>2
    <2>3. {i \in 1 .. Len(path) : \E j \in 1 .. i : path[j] = n} = k .. Len(path)
      BY <2>1, <2>2
    <2>4. QED
      BY <2>3 DEF Closed
  <1>4. n \in Closed(n) /\ Current \in Closed(n)
    BY <1>1, <1>2, <1>3 DEF Current
  <1>5. \A i \in k .. Len(path) - 1 :
           path[i + 1] \in graph[path[i]] /\ path[i + 1] \in Closed(n)
    <2> TAKE i \in k .. Len(path) - 1
    <2>1. i \in 1 .. Len(path) - 1 /\ i + 1 \in k .. Len(path)
      BY <1>1, <1>2
    <2>2. QED
      BY <2>1, <1>3 DEF PathInv
  <1>6. \A c \in Closed(n) : graph[c] \cap Closed(n) # {}
    <2> TAKE c \in Closed(n)
    <2>1. PICK i \in k .. Len(path) : path[i] = c
      BY <1>3
    <2>2. CASE i = Len(path)
      BY <2>1, <2>2, <1>4 DEF Current
    <2>3. CASE i # Len(path)
      <3>1. i \in k .. Len(path) - 1
        BY <2>3, <1>1, <1>2
      <3>2. QED
        BY <3>1, <2>1, <1>5
    <2>4. QED
      BY <2>2, <2>3
  <1>7. StronglyConnected(graph, Closed(n))
    <2> SUFFICES ASSUME NEW Y \in SUBSET Closed(n), Y # {},
                        \A c \in Y : graph[c] \cap (Closed(n) \ Y) = {}
                 PROVE  Y = Closed(n)
      BY DEF StronglyConnected
    <2>1. PICK i \in k .. Len(path) : path[i] \in Y
      BY <1>3
    <2>2. Y \in SUBSET Nodes /\ i \in 1 .. Len(path)
      BY <1>1, <1>2, <1>3
    <2>3. \A j \in k .. Len(path) - 1 : path[j] \in Y => path[j + 1] \in Y
      BY <1>5
    <2>4. i .. Len(path) - 1 \subseteq k .. Len(path) - 1
      BY <1>1, <1>2
    <2>5. \A j \in i .. Len(path) : path[j] \in Y
      BY <2>1, <2>2, <2>3, <2>4 DEF ChainInv
    <2>6. Current \in Y
      BY <2>5, <2>2, <1>2 DEF Current
    <2>7. n \in Y
      BY <2>6, <1>4
    <2>8. \A j \in k .. Len(path) : path[j] \in Y
      BY <2>7, <2>2, <2>3, <1>1 DEF ChainInv
    <2>9. QED
      BY <2>8, <1>3
  <1>8. Closed(n) \subseteq Nodes
    <2>1. k .. Len(path) \subseteq 1 .. Len(path)
      BY <1>1, <1>2
    <2>2. QED
      BY <2>1, <1>2, <1>3
  <1>9. IsCycle(graph, Closed(n))
    BY <1>4, <1>6, <1>7 DEF IsCycle
  <1>10. QED
    BY <1>4, <1>8, <1>9

-----------------------------------------------------------------------------
(* What each step of the search keeps. *)

LEMMA Followed ==
    ASSUME FollowInv, NEW n \in Nodes, n \notin cycles, NEW m \in graph[n], m \notin left[n]
    PROVE  \/ colors[m] = "black"
           \/ \E i \in 1 .. Len(path) - 1 : path[i] = n /\ path[i + 1] = m
  BY DEF FollowInv

LEMMA StartKeeps ==
    ASSUME IInv, NEW n \in Nodes, Start(n)
    PROVE  IInv'
  <1> USE DEF IInv
  <1>1. Enter(n) /\ Nodes' = Nodes
    BY DEF Start, Nodes
  <1>2. PathInv' /\ ChainInv'
    BY <1>1, EnterKeeps DEF Start
  <1>3. TypeOK'
    BY <1>1, PushPath DEF Start, Enter, TypeOK
  <1>4. OnlyCycles'
    BY <1>1 DEF Start, OnlyCycles
  <1>5. FollowInv'
    <2>1. /\ \A m \in Nodes : colors'[m] = "white" => colors[m] = "white"
          /\ \A m \in Nodes : colors'[m] = "black" <=> colors[m] = "black"
      BY <1>1 DEF Enter, TypeOK
    <2>2. Len(path) = 0
      BY DEF Start
    <2>3. \A m \in Nodes \ cycles : \A q \in graph[m] \ left[m] : colors[q] = "black"
      BY <2>2 DEF FollowInv
    <2>4. graph \in [Nodes -> SUBSET Nodes]
      BY DEF TypeOK
    <2>5. {m \in Nodes \ cycles : colors'[m] = "black"} = {m \in Nodes \ cycles : colors[m] = "black"}
      BY <2>1
    <2>6. graph' = graph /\ left' = left /\ cycles' = cycles
      BY DEF Start
    <2>7. /\ \A m \in Nodes : left[m] \subseteq graph[m]
          /\ \A m \in Nodes : colors'[m] = "white" => left[m] = graph[m]
          /\ \A m \in Nodes : colors'[m] = "black" => left[m] = {}
      BY <2>1 DEF FollowInv
    <2>8. \A m \in Nodes \ cycles : \A q \in graph[m] \ left[m] : colors'[q] = "black"
      BY <2>1, <2>3, <2>4
    <2>9. ~Cyclic(graph, {m \in Nodes \ cycles : colors'[m] = "black"})
      BY <2>5 DEF FollowInv
    <2>10. QED
      BY <1>1, <2>6, <2>7, <2>8, <2>9 DEF FollowInv
  <1>6. QED
    BY <1>2, <1>3, <1>4, <1>5

(* The facts about the current node that every step with a path uses. *)
LEMMA AtCurrent ==
    ASSUME TypeOK, PathInv, path # <<>>
    PROVE  /\ Current \in Nodes /\ colors[Current] = "gray"
           /\ Len(path) \in Nat \ {0}
           /\ \A i \in 1 .. Len(path) - 1 : path[i] # Current
  <1>1. Len(path) \in Nat \ {0}
    BY FrontKeeps DEF TypeOK
  <1>2. QED
    BY <1>1 DEF TypeOK, PathInv, Current

LEMMA VisitKeeps ==
    ASSUME IInv, NEW n \in Nodes, Visit(n)
    PROVE  IInv'
  <1> USE DEF IInv
  <1>1. Enter(n) /\ Follow(n) /\ Nodes' = Nodes /\ graph' = graph /\ cycles' = cycles
    BY DEF Visit, Follow, Nodes
  <1>2. path # <<>> /\ n \in left[Current] /\ Current \in Nodes /\ colors[Current] = "gray"
    BY <1>1, AtCurrent DEF Follow
  <1>3. PathInv' /\ ChainInv'
    BY <1>1, <1>2, EnterKeeps DEF FollowInv
  <1>4. TypeOK'
    BY <1>1, <1>2, PushPath DEF Follow, Enter, TypeOK
  <1>5. OnlyCycles'
    BY <1>1 DEF OnlyCycles
  <1>6. /\ \A m \in Nodes : colors'[m] = "white" => colors[m] = "white"
        /\ \A m \in Nodes : colors'[m] = "black" <=> colors[m] = "black"
    BY <1>1 DEF Enter, TypeOK
  <1>7. /\ left'[Current] = left[Current] \ {n}
        /\ \A m \in Nodes \ {Current} : left'[m] = left[m]
    BY <1>1, <1>2 DEF Follow, TypeOK
  <1>8. /\ Len(path') = Len(path) + 1 /\ Len(path) \in Nat \ {0}
        /\ \A i \in 1 .. Len(path) : path'[i] = path[i]
        /\ path'[Len(path) + 1] = n
    BY <1>1, <1>2, PushPath, AtCurrent DEF Enter
  <1>9. ASSUME NEW m \in Nodes \ cycles, NEW q \in graph[m] \ left'[m]
        PROVE  \/ colors'[q] = "black"
               \/ \E i \in 1 .. Len(path') - 1 : path'[i] = m /\ path'[i + 1] = q
    <2>0. q \in Nodes
      BY DEF TypeOK
    <2>1. CASE m = Current /\ q = n
      BY <2>1, <1>8 DEF Current
    <2>2. CASE ~(m = Current /\ q = n)
      <3>1. q \in graph[m] \ left[m]
        BY <2>2, <1>7, <1>9
      <3>2. CASE colors[q] = "black"
        BY <3>2, <2>0, <1>6
      <3>3. CASE \E i \in 1 .. Len(path) - 1 : path[i] = m /\ path[i + 1] = q
        <4>1. PICK i \in 1 .. Len(path) - 1 : path[i] = m /\ path[i + 1] = q
          BY <3>3
        <4>2. /\ i \in 1 .. Len(path') - 1
              /\ path'[i] = path[i] /\ path'[i + 1] = path[i + 1]
          BY <1>8
        <4>3. QED
          BY <4>1, <4>2
      <3>4. FollowInv /\ m \in Nodes /\ m \notin cycles /\ q \in graph[m] /\ q \notin left[m]
        BY <3>1, <1>9
      <3>5. QED
        BY <3>2, <3>3, <3>4, Followed
    <2>3. QED
      BY <2>1, <2>2
  <1>10. FollowInv'
    <2>1. \A m \in Nodes : left'[m] \subseteq graph[m]
      BY <1>2, <1>7 DEF FollowInv
    <2>2. /\ \A m \in Nodes : colors'[m] = "white" => left'[m] = graph[m]
          /\ \A m \in Nodes : colors'[m] = "black" => left'[m] = {}
      BY <1>2, <1>6, <1>7 DEF FollowInv
    <2>3. {m \in Nodes \ cycles : colors'[m] = "black"} = {m \in Nodes \ cycles : colors[m] = "black"}
      BY <1>6
    <2>4. QED
      BY <1>1, <1>9, <2>1, <2>2, <2>3 DEF FollowInv
  <1>11. QED
    BY <1>3, <1>4, <1>5, <1>10

(* A set is free of cycles when a larger one is. *)
LEMMA CyclicMonotone ==
    ASSUME NEW links, NEW S, NEW T, S \subseteq T, ~Cyclic(links, T)
    PROVE  ~Cyclic(links, S)
  BY DEF Cyclic

(* The two edges that move nothing: the path and the colours stay. *)
LEMMA EdgeKeeps ==
    ASSUME IInv, NEW n \in Nodes, Follow(n), UNCHANGED <<colors, path>>,
           \/ cycles' = cycles /\ colors[n] = "black"
           \/ cycles' = cycles \cup Closed(n) /\ colors[n] = "gray"
    PROVE  IInv'
  <1> USE DEF IInv
  <1>1. /\ Nodes' = Nodes /\ graph' = graph
        /\ path # <<>> /\ n \in left[Current] /\ n \in graph[Current]
        /\ Current \in Nodes /\ colors[Current] = "gray"
    BY AtCurrent DEF Follow, FollowInv, Nodes
  <1>2. /\ left'[Current] = left[Current] \ {n}
        /\ \A m \in Nodes \ {Current} : left'[m] = left[m]
    BY <1>1 DEF Follow, TypeOK
  <1>3. PathInv' /\ ChainInv'
    BY <1>1 DEF PathInv, ChainInv
  <1>4. /\ cycles \subseteq cycles' /\ cycles' \subseteq Nodes
        /\ cycles' \subseteq OnCycle(graph, Nodes)
        /\ colors[n] = "black" \/ Current \in cycles'
    BY <1>1, ClosedIsCycle DEF TypeOK, OnlyCycles, OnCycle
  <1>5. TypeOK' /\ OnlyCycles'
    BY <1>1, <1>4 DEF Follow, TypeOK, OnlyCycles
  <1>6. ASSUME NEW m \in Nodes \ cycles', NEW q \in graph[m] \ left'[m]
        PROVE  \/ colors[q] = "black"
               \/ \E i \in 1 .. Len(path) - 1 : path[i] = m /\ path[i + 1] = q
    <2>1. m \in Nodes \ cycles
      BY <1>4
    <2>2. CASE m = Current /\ q = n
      BY <2>2, <1>4
    <2>3. CASE ~(m = Current /\ q = n)
      <3>1. FollowInv /\ m \in Nodes /\ m \notin cycles /\ q \in graph[m] /\ q \notin left[m]
        BY <2>1, <2>3, <1>2, <1>6
      <3>2. QED
        BY <3>1, Followed
    <2>4. QED
      BY <2>2, <2>3
  <1>7. ~Cyclic(graph, {m \in Nodes \ cycles' : colors[m] = "black"})
    <2>1. {m \in Nodes \ cycles' : colors[m] = "black"}
             \subseteq {m \in Nodes \ cycles : colors[m] = "black"}
      BY <1>4
    <2>2. QED
      BY <2>1, CyclicMonotone DEF FollowInv
  <1>8. /\ \A m \in Nodes : left'[m] \subseteq graph[m]
        /\ \A m \in Nodes : colors[m] = "white" => left'[m] = graph[m]
        /\ \A m \in Nodes : colors[m] = "black" => left'[m] = {}
    BY <1>1, <1>2 DEF FollowInv
  <1>9. FollowInv'
    BY <1>1, <1>6, <1>7, <1>8 DEF FollowInv
  <1>10. QED
    BY <1>3, <1>5, <1>9

(* The finished unmarked nodes still form no cycle when one more is finished. *)
LEMMA FinishKeeps ==
    ASSUME IInv, path # <<>>, left[Current] = {}
    PROVE  ~Cyclic(graph, {m \in Nodes \ cycles : colors[m] = "black" \/ m = Current})
  <1> USE DEF IInv
  <1> DEFINE B == {m \in Nodes \ cycles : colors[m] = "black"}
  <1>1. /\ Current \in Nodes /\ colors[Current] = "gray" /\ Len(path) \in Nat \ {0}
        /\ \A i \in 1 .. Len(path) - 1 : path[i] # Current
    BY AtCurrent
  <1> SUFFICES ASSUME NEW X \in SUBSET (B \cup ({Current} \ cycles)), X # {},
                      \A c \in X : graph[c] \cap X # {}
               PROVE  FALSE
    BY <1>1 DEF Cyclic
  <1>2. ASSUME NEW c \in X, NEW m \in graph[c]
        PROVE  colors[m] = "black"
    <2>1. c \in Nodes \ cycles /\ left[c] = {}
      BY <1>1 DEF FollowInv
    <2>2. ASSUME NEW i \in 1 .. Len(path) - 1, path[i] = c
          PROVE  FALSE
      <3>1. i \in 1 .. Len(path)
        BY <1>1
      <3>2. colors[c] = "gray"
        BY <3>1, <2>2 DEF PathInv
      <3>3. c # Current
        BY <2>2, <1>1
      <3>4. QED
        BY <3>2, <3>3
    <2>3. FollowInv /\ c \in Nodes /\ c \notin cycles /\ m \in graph[c] /\ m \notin left[c]
      BY <2>1, <1>2
    <2>4. QED
      BY <2>2, <2>3, Followed
  <1>3. \A c \in X : Current \notin graph[c]
    BY <1>1, <1>2
  <1>4. PICK Y : Y = X \ {Current}
    OBVIOUS
  <1>5. Y \in SUBSET B /\ Y # {} /\ \A c \in Y : graph[c] \cap Y # {}
    BY <1>3, <1>4
  <1>6. ~Cyclic(graph, B)
    BY DEF FollowInv
  <1>7. QED
    BY <1>5, <1>6 DEF Cyclic

LEMMA BacktrackStep ==
    ASSUME IInv, Backtrack
    PROVE  IInv'
  <1> USE DEF IInv
  <1>1. /\ Current \in Nodes /\ colors[Current] = "gray" /\ path # <<>>
        /\ left[Current] = {} /\ Nodes' = Nodes /\ graph' = graph
        /\ left' = left /\ cycles' = cycles
    BY AtCurrent DEF Backtrack, Nodes
  <1>2. PathInv' /\ ChainInv'
    BY BacktrackKeeps
  <1>3. /\ Len(path) \in Nat \ {0} /\ Len(path') = Len(path) - 1
        /\ \A i \in 1 .. Len(path') : path'[i] = path[i]
        /\ path' \in Seq(Nodes)
    BY PopPath DEF Backtrack
  <1>4. /\ colors'[Current] = "black"
        /\ \A m \in Nodes \ {Current} : colors'[m] = colors[m]
    BY <1>1 DEF Backtrack, TypeOK
  <1>5. TypeOK' /\ OnlyCycles'
    BY <1>1, <1>3 DEF Backtrack, TypeOK, OnlyCycles
  <1>6. ASSUME NEW m \in Nodes \ cycles, NEW q \in graph[m] \ left[m]
        PROVE  \/ colors'[q] = "black"
               \/ \E i \in 1 .. Len(path') - 1 : path'[i] = m /\ path'[i + 1] = q
    <2>0. q \in Nodes
      BY DEF TypeOK
    <2>1. CASE q = Current \/ colors[q] = "black"
      BY <2>0, <2>1, <1>1, <1>4
    <2>2. CASE ~(q = Current \/ colors[q] = "black")
      <3>0. \/ colors[q] = "black"
            \/ \E i \in 1 .. Len(path) - 1 : path[i] = m /\ path[i + 1] = q
        <4>1. FollowInv /\ m \in Nodes /\ m \notin cycles /\ q \in graph[m] /\ q \notin left[m]
          BY <1>6
        <4>2. QED
          BY <4>1, Followed
      <3>1. PICK i \in 1 .. Len(path) - 1 : path[i] = m /\ path[i + 1] = q
        BY <2>2, <3>0
      <3>2. i + 1 # Len(path)
        BY <3>1, <2>2 DEF Current
      <3>3. i \in 1 .. Len(path') - 1 /\ i \in 1 .. Len(path') /\ i + 1 \in 1 .. Len(path')
        BY <3>2, <1>3
      <3>4. QED
        BY <3>1, <3>3, <1>3
    <2>3. QED
      BY <2>1, <2>2
  <1>7. ~Cyclic(graph, {m \in Nodes \ cycles : colors'[m] = "black"})
    <2>1. {m \in Nodes \ cycles : colors'[m] = "black"}
            = {m \in Nodes \ cycles : colors[m] = "black" \/ m = Current}
      BY <1>1, <1>4
    <2>2. QED
      BY <2>1, <1>1, FinishKeeps
  <1>8. /\ \A m \in Nodes : colors'[m] = "white" => left[m] = graph[m]
        /\ \A m \in Nodes : colors'[m] = "black" => left[m] = {}
    BY <1>1, <1>4 DEF FollowInv
  <1>9. FollowInv'
    BY <1>1, <1>6, <1>7, <1>8 DEF FollowInv
  <1>10. QED
    BY <1>2, <1>5, <1>9

-----------------------------------------------------------------------------
LEMMA StepIInv == IInv /\ [Next]_vars => IInv'
  <1> SUFFICES ASSUME IInv, [Next]_vars
               PROVE  IInv'
    OBVIOUS
  <1>1. CASE UNCHANGED vars
    <2>1. Nodes' = Nodes
      BY <1>1 DEF vars, Nodes
    <2>2. TypeOK' /\ OnlyCycles'
      BY <1>1, <2>1 DEF vars, IInv, TypeOK, OnlyCycles
    <2>3. PathInv' /\ ChainInv'
      BY <1>1, <2>1 DEF vars, IInv, PathInv, ChainInv
    <2>4. FollowInv'
      BY <1>1, <2>1 DEF vars, IInv, FollowInv
    <2>5. QED
      BY <2>2, <2>3, <2>4 DEF IInv
  <1>2. ASSUME NEW n \in Nodes, Start(n)
        PROVE  IInv'
    BY <1>2, StartKeeps
  <1>3. ASSUME NEW n \in Nodes, Visit(n)
        PROVE  IInv'
    BY <1>3, VisitKeeps
  <1>4. ASSUME NEW n \in Nodes, BackEdge(n)
        PROVE  IInv'
    BY <1>4, EdgeKeeps DEF BackEdge
  <1>5. ASSUME NEW n \in Nodes, CrossEdge(n)
        PROVE  IInv'
    BY <1>5, EdgeKeeps DEF CrossEdge
  <1>6. CASE Backtrack
    BY <1>6, BacktrackStep
  <1>7. QED
    BY <1>1, <1>2, <1>3, <1>4, <1>5, <1>6 DEF Next, Step

LEMMA Inductive == Spec => []IInv
  <1>1. QED
    BY InitIInv, StepIInv, PTL DEF Spec

(* The variables keep their types, whatever the list (DetectCycles, dfs). *)
THEOREM SearchTyping == Spec => []TypeOK
  <1>1. IInv => TypeOK
    BY DEF IInv
  <1>2. QED
    BY <1>1, Inductive, PTL

(***************************************************************************)
(* Whatever the list, the aliases and the order in which dfs meets the     *)
(* nodes, every node it marks lies on a cycle of the graph.                *)
(***************************************************************************)
THEOREM MarksLieOnCycles == Spec => []OnlyCycles
  <1>1. IInv => OnlyCycles
    BY DEF IInv
  <1>2. QED
    BY <1>1, Inductive, PTL

(***************************************************************************)
(* The contract of DetectCycles that the update session relies on: when it *)
(* returns, the containers it has not marked form no cycle.                *)
(***************************************************************************)
THEOREM UnmarkedAreAcyclic == Spec => []NoCycleLeft
  <1>1. IInv => NoCycleLeft
    <2> SUFFICES ASSUME IInv, Done
                 PROVE  cycles \in DetectableCycles(graph, Nodes)
      BY DEF NoCycleLeft
    <2>1. Len(path) = 0
      BY DEF Done
    <2>2. \A n \in Nodes : colors[n] = "black"
      BY <2>1 DEF Done, IInv, TypeOK, PathInv
    <2>3. {n \in Nodes \ cycles : colors[n] = "black"} = Nodes \ cycles
      BY <2>2
    <2>4. QED
      BY <2>3 DEF IInv, FollowInv, OnlyCycles, DetectableCycles
  <1>2. QED
    BY <1>1, Inductive, PTL
=============================================================================
