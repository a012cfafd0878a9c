-------------------------- MODULE ParsonTree_proofs ---------------------------
(***************************************************************************)
(* Proofs about the trees of parson, for every number of values and        *)
(* whichever allocation fails.                                             *)
(***************************************************************************)
EXTENDS ParsonTree, Numbers_proofs

(* Trees, as sets of addresses E, the children K and the parent P of each, and *)
(* the roots R.                                                             *)

Closed(K, S) == \A c \in S : K[c] \subseteq S

IsTree(K, v, T) ==
    /\ T \in SUBSET Values /\ v \in T /\ Closed(K, T)
    /\ \A S \in SUBSET Values : v \in S /\ Closed(K, S) => T \subseteq S

Forest(E, K, P, R) ==
    /\ E \subseteq Values /\ R \subseteq E
    /\ \A c \in Values : K[c] \subseteq E \ R /\ (K[c] # {} => c \in E)
    /\ \A c \in Values : \A u \in K[c] : P[u] = c
    /\ \A S \in SUBSET Values : R \subseteq S /\ Closed(K, S) => E \subseteq S

LEMMA ForestParent ==
    ASSUME NEW E, NEW K, NEW P, NEW R, Forest(E, K, P, R), NEW w \in E \ R
    PROVE  P[w] \in E /\ w \in K[P[w]]
<1> DEFINE S == Values \ {w}
<1>1. R \subseteq S /\ ~(E \subseteq S) /\ S \in SUBSET Values
    BY DEF Forest
<1>2. ~Closed(K, S)
    BY <1>1 DEF Forest
<1>3. PICK c \in S : w \in K[c]
    BY <1>2 DEF Closed, Forest
<1> QED  BY <1>3 DEF Forest

\* What is below v has its parent there.
LEMMA InTree ==
    ASSUME NEW E, NEW K, NEW P, NEW R, Forest(E, K, P, R), NEW v, NEW T, IsTree(K, v, T),
           NEW x \in T, x # v
    PROVE  P[x] \in T /\ x \in K[P[x]]
<1> DEFINE S == T \ {x}
<1>1. ~(T \subseteq S) /\ v \in S /\ S \in SUBSET Values
    BY DEF IsTree
<1>2. ~Closed(K, S)
    BY <1>1 DEF IsTree
<1>3. PICK c \in S : x \in K[c]
    BY <1>2 DEF Closed, IsTree
<1>4. c \in Values
    BY <1>1
<1> QED  BY <1>3, <1>4 DEF Forest

LEMMA RootNotBelow ==
    ASSUME NEW E, NEW K, NEW P, NEW R, Forest(E, K, P, R), NEW v, NEW T, IsTree(K, v, T),
           NEW r \in R, r # v
    PROVE  r \notin T
<1>1. SUFFICES ASSUME r \in T PROVE FALSE
    OBVIOUS
<1>2. P[r] \in T /\ r \in K[P[r]]
    BY <1>1, InTree
<1> QED  BY <1>2 DEF Forest, IsTree

LEMMA ParentNotBelow ==
    ASSUME NEW E, NEW K, NEW P, NEW R, Forest(E, K, P, R), NEW c \in Values, NEW u \in K[c],
           NEW T, IsTree(K, u, T)
    PROVE  c \notin T /\ R \cap T = {} /\ c # u
<1> DEFINE S == Values \ T
<1>1. u \in E /\ u \notin R /\ P[u] = c
    BY DEF Forest
<1>2. ASSUME NEW r \in R PROVE r \notin T
    BY <1>1, RootNotBelow
<1>3. R \subseteq S /\ S \in SUBSET Values /\ ~(E \subseteq S)
    BY <1>1, <1>2 DEF Forest, IsTree
<1>4. ~Closed(K, S)
    BY <1>3 DEF Forest
<1>5. PICK w \in S : \E x \in K[w] : x \in T
    BY <1>4 DEF Closed, Forest
<1>6. PICK x \in K[w] : x \in T
    BY <1>5
<1>7. P[x] = w /\ w \in Values /\ w \notin T
    BY <1>5, <1>6 DEF Forest
<1>8. x = u
    BY <1>6, <1>7, InTree
<1>9. w = c /\ u \in T
    BY <1>1, <1>7, <1>8 DEF IsTree
<1> QED  BY <1>2, <1>7, <1>9

\* What is closed upwards and does not have v is not below v.
LEMMA NotBelowNew ==
    ASSUME NEW E, NEW K, NEW P, NEW R, Forest(E, K, P, R), NEW v, NEW T, IsTree(K, v, T),
           NEW Q, v \notin Q, \A w \in Q : w \in R \/ P[w] \in Q
    PROVE  T \cap Q = {}
<1> DEFINE S == T \ Q
<1>1. SUFFICES Closed(K, S)
    BY <1>1 DEF IsTree
<1>2. SUFFICES ASSUME NEW c \in S, NEW x \in K[c], x \in Q PROVE FALSE
    BY <1>2 DEF Closed, IsTree
<1>3. c \in Values /\ c \notin Q
    BY DEF IsTree
<1>4. x \notin R /\ P[x] = c
    BY <1>3 DEF Forest
<1> QED  BY <1>2, <1>3, <1>4

\* A tree stays as it is while what is in it keeps its children.
LEMMA SameTree ==
    ASSUME NEW K, NEW L, NEW v, NEW T, IsTree(K, v, T), \A c \in T : L[c] = K[c]
    PROVE  IsTree(L, v, T)
<1>1. Closed(L, T)
    BY DEF IsTree, Closed
<1>2. ASSUME NEW S \in SUBSET Values, v \in S, Closed(L, S) PROVE T \subseteq S
    <2>1. Closed(K, S \cap T) /\ v \in S \cap T /\ S \cap T \in SUBSET Values
        BY <1>2 DEF IsTree, Closed
    <2> QED  BY <2>1 DEF IsTree
<1> QED  BY <1>1, <1>2 DEF IsTree

LEMMA TreeInForest ==
    ASSUME NEW E, NEW K, NEW P, NEW R, Forest(E, K, P, R), NEW v \in E, NEW T, IsTree(K, v, T)
    PROVE  T \subseteq E
<1>1. Closed(K, E) /\ E \in SUBSET Values
    BY DEF Forest, Closed
<1> QED  BY <1>1 DEF IsTree

LEMMA ForestInsert ==
    ASSUME NEW E, NEW K, NEW P, NEW R, Forest(E, K, P, R), NEW v \in Values \ E,
           NEW L, NEW Q, L[v] = {}, \A c \in Values \ {v} : L[c] = K[c], \A c \in E : Q[c] = P[c]
    PROVE  Forest(E \cup {v}, L, Q, R \cup {v})
<1>1. K[v] = {}
    BY DEF Forest
<1>2. \A c \in Values : L[c] = K[c]
    BY <1>1
<1>3. \A S \in SUBSET Values : Closed(L, S) => Closed(K, S)
    BY <1>2 DEF Closed
<1> QED  BY <1>2, <1>3 DEF Forest

LEMMA ForestAttach ==
    ASSUME NEW E, NEW K, NEW P, NEW R, Forest(E, K, P, R), NEW v \in R, NEW c \in E,
           NEW T, IsTree(K, v, T), c \notin T,
           NEW L, NEW Q, L[c] = K[c] \cup {v}, \A u \in Values \ {c} : L[u] = K[u],
           Q[v] = c, \A u \in E \ R : Q[u] = P[u]
    PROVE  Forest(E, L, Q, R \ {v})
<1>1. ASSUME NEW S \in SUBSET Values, R \ {v} \subseteq S, Closed(L, S) PROVE E \subseteq S
    <2>1. Closed(K, S)
        BY <1>1 DEF Closed
    <2>2. Closed(K, S \cup T) /\ S \cup T \in SUBSET Values /\ R \subseteq S \cup T
        BY <1>1, <2>1 DEF Closed, IsTree
    <2>3. E \subseteq S \cup T
        BY <2>2 DEF Forest
    <2>4. v \in S
        BY <1>1, <2>3 DEF Closed
    <2>5. T \subseteq S
        BY <2>1, <2>4 DEF IsTree
    <2> QED  BY <2>3, <2>5
<1>2. c \in Values /\ v \in E
    BY DEF Forest
<1>3. \A u \in Values : L[u] \subseteq E \ (R \ {v}) /\ (L[u] # {} => u \in E)
    BY <1>2 DEF Forest
<1>4. ASSUME NEW u \in Values, NEW x \in L[u] PROVE Q[x] = u
    <2>1. CASE x = v
        BY <1>4, <2>1 DEF Forest
    <2>2. CASE x # v
        <3>1. x \in K[u]
            BY <1>4, <2>2
        <3>2. x \in E \ R /\ P[x] = u
            BY <3>1 DEF Forest
        <3> QED  BY <3>2
    <2> QED  BY <2>1, <2>2
<1> QED  BY <1>1, <1>2, <1>3, <1>4 DEF Forest

LEMMA ForestDetach ==
    ASSUME NEW E, NEW K, NEW P, NEW R, Forest(E, K, P, R), NEW c \in Values, NEW v \in K[c],
           NEW L, NEW Q, L[c] = K[c] \ {v}, \A u \in Values \ {c} : L[u] = K[u],
           \A u \in E : Q[u] = P[u]
    PROVE  Forest(E, L, Q, R \cup {v})
<1>1. ASSUME NEW S \in SUBSET Values, R \cup {v} \subseteq S, Closed(L, S) PROVE E \subseteq S
    <2>1. Closed(K, S)
        BY <1>1 DEF Closed
    <2> QED  BY <1>1, <2>1 DEF Forest
<1>2. v \in E /\ P[v] = c
    BY DEF Forest
<1>3. ASSUME NEW u \in Values PROVE L[u] \subseteq E \ (R \cup {v}) /\ (L[u] # {} => u \in E)
    <2>1. L[u] \subseteq K[u] /\ K[u] \subseteq E \ R /\ (K[u] # {} => u \in E)
        BY DEF Forest
    <2>2. v \notin L[u]
        BY <1>2, <2>1 DEF Forest
    <2> QED  BY <2>1, <2>2
<1>4. ASSUME NEW u \in Values, NEW x \in L[u] PROVE Q[x] = u
    <2>1. x \in K[u]
        BY <1>4
    <2>2. x \in E /\ P[x] = u
        BY <2>1 DEF Forest
    <2> QED  BY <2>2
<1>5. E \subseteq Values /\ R \cup {v} \subseteq E
    BY <1>2 DEF Forest
<1> QED  BY <1>1, <1>3, <1>4, <1>5 DEF Forest

LEMMA ForestDrop ==
    ASSUME NEW E, NEW K, NEW P, NEW R, Forest(E, K, P, R), NEW v \in R,
           NEW T, IsTree(K, v, T),
           NEW L, NEW Q, \A u \in T : L[u] = {}, \A u \in Values \ T : L[u] = K[u],
           \A u \in E \ T : Q[u] = P[u]
    PROVE  Forest(E \ T, L, Q, R \ {v})
<1>1. ASSUME NEW S \in SUBSET Values, R \ {v} \subseteq S, Closed(L, S) PROVE E \ T \subseteq S
    <2>1. Closed(K, S \cup T) /\ S \cup T \in SUBSET Values /\ R \subseteq S \cup T
        BY <1>1 DEF Closed, IsTree
    <2> QED  BY <1>1, <2>1 DEF Forest
<1>2. ASSUME NEW r \in R, r # v PROVE r \notin T
    BY <1>2, RootNotBelow
<1>3. ASSUME NEW u \in Values \ T, NEW x \in K[u] PROVE x \notin T
    <2>1. x # v /\ P[x] = u
        BY DEF Forest
    <2> QED  BY <2>1, InTree
<1>4. ASSUME NEW u \in Values
      PROVE  /\ L[u] \subseteq (E \ T) \ (R \ {v}) /\ (L[u] # {} => u \in E \ T)
             /\ \A x \in L[u] : Q[x] = u
    <2>1. CASE u \in T
        BY <2>1
    <2>2. CASE u \notin T
        <3>1. L[u] = K[u] /\ K[u] \subseteq E \ R /\ (K[u] # {} => u \in E)
            BY <2>2 DEF Forest
        <3>2. \A x \in K[u] : x \in E \ T /\ P[x] = u
            BY <1>3, <2>2, <3>1 DEF Forest
        <3> QED  BY <2>2, <3>1, <3>2
    <2> QED  BY <2>1, <2>2
<1>5. E \ T \subseteq Values /\ R \ {v} \subseteq E \ T
    BY <1>2 DEF Forest
<1> QED  BY <1>1, <1>4, <1>5 DEF Forest

LEMMA ForestClear ==
    ASSUME NEW E, NEW K, NEW P, NEW R, Forest(E, K, P, R), NEW c \in E,
           NEW T, IsTree(K, c, T),
           NEW L, NEW Q, \A u \in T : L[u] = {}, \A u \in Values \ T : L[u] = K[u],
           \A u \in E \ (T \ {c}) : Q[u] = P[u]
    PROVE  Forest(E \ (T \ {c}), L, Q, R)
<1> DEFINE G == T \ {c}
<1>1. ASSUME NEW u \in Values \ T, NEW x \in K[u] PROVE x \notin G
    <2>1. P[x] = u
        BY DEF Forest
    <2> QED  BY <2>1, InTree
<1>2. ASSUME NEW S \in SUBSET Values, R \subseteq S, Closed(L, S) PROVE E \ G \subseteq S
    <2>1. Closed(K, S \cup T) /\ S \cup T \in SUBSET Values /\ R \subseteq S \cup T
        BY <1>2 DEF Closed, IsTree
    <2>2. E \subseteq S \cup T
        BY <2>1 DEF Forest
    <2>3. CASE c \in R
        BY <1>2, <2>2, <2>3
    <2>4. CASE c \notin R
        <3>1. P[c] \in E /\ c \in K[P[c]]
            BY <2>4, ForestParent
        <3>2. P[c] \in Values
            BY <3>1 DEF Forest
        <3>3. P[c] \notin T
            BY <3>1, <3>2, ParentNotBelow
        <3>4. P[c] \in S /\ L[P[c]] = K[P[c]]
            BY <2>2, <3>1, <3>2, <3>3
        <3>5. c \in S
            BY <1>2, <3>1, <3>4 DEF Closed
        <3> QED  BY <2>2, <3>5
    <2> QED  BY <2>3, <2>4
<1>3. ASSUME NEW r \in R PROVE r \notin G
    BY RootNotBelow
<1>4. ASSUME NEW u \in Values
      PROVE  /\ L[u] \subseteq (E \ G) \ R /\ (L[u] # {} => u \in E \ G)
             /\ \A x \in L[u] : Q[x] = u
    <2>1. CASE u \in T
        BY <2>1
    <2>2. CASE u \notin T
        <3>1. L[u] = K[u] /\ K[u] \subseteq E \ R /\ (K[u] # {} => u \in E)
            BY <2>2 DEF Forest
        <3>2. \A x \in K[u] : x \in E \ G /\ P[x] = u
            BY <1>1, <2>2, <3>1 DEF Forest
        <3> QED  BY <2>2, <3>1, <3>2
    <2> QED  BY <2>1, <2>2
<1>5. E \ G \subseteq Values /\ R \subseteq E \ G
    BY <1>3 DEF Forest
<1> QED  BY <1>2, <1>4, <1>5 DEF Forest

LEMMA ForestSame ==
    ASSUME NEW E, NEW K, NEW P, NEW R, Forest(E, K, P, R),
           NEW L, NEW Q, \A u \in Values : L[u] = K[u], \A u \in E \ R : Q[u] = P[u]
    PROVE  Forest(E, L, Q, R)
<1>1. \A S \in SUBSET Values : Closed(L, S) => Closed(K, S)
    BY DEF Closed
<1> QED  BY <1>1 DEF Forest
-----------------------------------------------------------------------------
(* The trees of a heap. *)

Kids(nd) == [v \in Values |-> Children(nd, v)]
Par(nd)  == [v \in Values |-> nd[v].parent]

LEMMA NodeTypes ==
    ASSUME NEW n \in Nodes
    PROVE  /\ n.type \in Containers <=> n \in ContainerNodes
           /\ n.type \in ScalarTypes <=> n \in ScalarNodes
           /\ n.type = "free" <=> n = Unused
           /\ n.type \in Containers \cup ScalarTypes \cup {"free"}
<1>1. CASE n = Unused
    BY <1>1 DEF Unused, Containers, ScalarTypes, ContainerNodes, ScalarNodes
<1>2. CASE n \in ScalarNodes
    BY <1>2 DEF Unused, Containers, ScalarTypes, ContainerNodes, ScalarNodes
<1>3. CASE n \in ContainerNodes
    BY <1>3 DEF Unused, Containers, ScalarTypes, ContainerNodes, ScalarNodes
<1> QED  BY <1>1, <1>2, <1>3 DEF Nodes

LEMMA ChildrenAreValues ==
    ASSUME NEW nd \in [Values -> Nodes], NEW v \in Values
    PROVE  Children(nd, v) \subseteq Values
<1>1. CASE nd[v].type \in Containers
    <2>1. nd[v] \in ContainerNodes
        BY <1>1, NodeTypes
    <2>2. nd[v].values \in Seq(Values)
        BY <2>1 DEF ContainerNodes
    <2> QED  BY <1>1, <2>2 DEF Children, ToSet
<1>2. CASE nd[v].type \notin Containers
    BY <1>2 DEF Children
<1> QED  BY <1>1, <1>2

\* The rounds of Tree end with a set that has all that is below it.
LEMMA TreeIsTree ==
    ASSUME NEW nd \in [Values -> Nodes], NEW v \in Values
    PROVE  IsTree(Kids(nd), v, Tree(nd, v))
<1> DEFINE N == Cardinality(Values)
           Is(f) == f = [n \in 0 .. N |-> IF n = 0 THEN {v} ELSE AndMembers(nd, f[n - 1])]
           upTo == CHOOSE f : Is(f)
<1>1. IsFiniteSet(Values) /\ N \in Nat
    BY ValuesAssumption, FS_CardinalityType
<1>2. ASSUME NEW X \in SUBSET Values PROVE AndMembers(nd, X) \in SUBSET Values
    BY ChildrenAreValues DEF AndMembers
<1> HIDE DEF N
<1>3. \E f : Is(f)
    <2> DEFINE S == SUBSET Values
               a == {v}
               step == [n \in 1 .. N |-> [X \in S |-> AndMembers(nd, X)]]
    <2>1. a \in S /\ step \in [1 .. N -> [S -> S]]
        BY <1>2
    <2>2. \E f \in [0 .. N -> S] : f[0] = a /\ \A n \in 1 .. N : f[n] = step[n][f[n - 1]]
        <3> HIDE DEF S, a, step
        <3> QED  BY <1>1, <2>1, TableExists
    <2>3. PICK f \in [0 .. N -> S] : f[0] = a /\ \A n \in 1 .. N : f[n] = step[n][f[n - 1]]
        BY <2>2
    <2>4. \A n \in 1 .. N : n - 1 \in 0 .. N /\ n # 0
        BY <1>1
    <2>5. \A n \in 1 .. N : f[n] = AndMembers(nd, f[n - 1])
        BY <2>3, <2>4
    <2>6. \A n \in 0 .. N : n = 0 \/ n \in 1 .. N
        BY <1>1
    <2>7. Is(f)
        BY <2>3, <2>5, <2>6
    <2> QED  BY <2>7
<1>4. Is(upTo)
    BY <1>3
<1>5. Tree(nd, v) = upTo[N]
    BY DEF Tree, N
<1> HIDE DEF upTo
<1>6. upTo[0] = {v} /\ \A n \in 1 .. N : upTo[n] = AndMembers(nd, upTo[n - 1])
    <2>1. 0 \in 0 .. N /\ \A n \in 1 .. N : n \in 0 .. N /\ n # 0
        BY <1>1
    <2>2. \A n \in 0 .. N : upTo[n] = IF n = 0 THEN {v} ELSE AndMembers(nd, upTo[n - 1])
        BY <1>4
    <2> QED  BY <2>1, <2>2
<1> DEFINE Right(n) == /\ upTo[n] \in SUBSET Values /\ v \in upTo[n]
                       /\ \A S \in SUBSET Values : v \in S /\ Closed(Kids(nd), S) => upTo[n] \subseteq S
                       /\ Closed(Kids(nd), upTo[n]) \/ Cardinality(upTo[n]) > n
           Bad == {n \in 0 .. N : ~Right(n)}
<1>7. Right(0)
    <2>1. Cardinality(upTo[0]) = 1
        BY <1>6, FS_Singleton
    <2> QED  BY <1>6, <2>1
<1>8. ASSUME NEW n \in 1 .. N, Right(n - 1) PROVE Right(n)
    <2> DEFINE X == upTo[n - 1]
               Y == upTo[n]
    <2>1. X \in SUBSET Values /\ Y = AndMembers(nd, X)
        BY <1>6, <1>8
    <2>2. Y \in SUBSET Values /\ v \in Y /\ X \subseteq Y
        BY <1>2, <1>8, <2>1 DEF AndMembers
    <2>3. ASSUME NEW S \in SUBSET Values, v \in S, Closed(Kids(nd), S) PROVE Y \subseteq S
        <3>1. X \subseteq S
            BY <1>8, <2>3
        <3>2. \A u \in X : Children(nd, u) \subseteq S
            BY <2>3, <3>1 DEF Closed, Kids
        <3> QED  BY <2>1, <3>1, <3>2 DEF AndMembers
    <2>4. Closed(Kids(nd), Y) \/ Cardinality(Y) > n
        <3>1. CASE X = Y
            <4>1. Closed(Kids(nd), X)
                BY <2>1, <3>1 DEF Closed, Kids, AndMembers
            <4> QED  BY <3>1, <4>1
        <3>2. CASE Closed(Kids(nd), X)
            <4>1. \A u \in X : Children(nd, u) \subseteq X
                BY <2>1, <3>2 DEF Closed, Kids
            <4>2. Y = X
                BY <2>1, <4>1 DEF AndMembers
            <4> QED  BY <3>2, <4>2
        <3>3. CASE X # Y /\ ~Closed(Kids(nd), X)
            <4>1. Cardinality(X) > n - 1
                BY <1>8, <3>3
            <4>2. IsFiniteSet(Y)
                BY <1>1, <2>2, FS_Subset
            <4>3. IsFiniteSet(X) /\ Cardinality(X) <= Cardinality(Y) /\ Cardinality(X) # Cardinality(Y)
                BY <2>2, <3>3, <4>2, FS_Subset
            <4>4. Cardinality(X) \in Nat /\ Cardinality(Y) \in Nat
                BY <4>2, <4>3, FS_CardinalityType
            <4> HIDE DEF X, Y
            <4> QED  BY <4>1, <4>3, <4>4
        <3> QED  BY <3>1, <3>2, <3>3
    <2> QED  BY <2>2, <2>3, <2>4
<1> HIDE DEF Right
<1>9. Bad = {}
    <2>1. SUFFICES ASSUME Bad # {} PROVE FALSE
        OBVIOUS
    <2>2. Bad \in SUBSET Nat
        OBVIOUS
    <2>3. PICK n \in Bad : \A k \in Bad : n <= k
        <3> HIDE DEF Bad
        <3> QED  BY <2>1, <2>2, LeastExists
    <2>4. n \in 1 .. N /\ n - 1 \in 0 .. N
        BY <1>1, <1>7, <2>3
    <2>5. n - 1 \notin Bad
        BY <2>3, <2>4
    <2> QED  BY <1>8, <2>3, <2>4, <2>5
<1>10. Right(N)
    BY <1>1, <1>9
<1>11. ~(Cardinality(upTo[N]) > N)
    <2>1. Cardinality(upTo[N]) <= N /\ Cardinality(upTo[N]) \in Nat
        BY <1>1, <1>10, FS_Subset, FS_CardinalityType DEF Right, N
    <2> QED  BY <1>1, <2>1
<1> QED  BY <1>5, <1>10, <1>11 DEF Right, IsTree

-----------------------------------------------------------------------------
(* The blocks of a heap. *)

Weight(nd) == Cardinality(BlocksOf(nd, Values))

LEMMA OwnBlocksOf ==
    ASSUME NEW n \in Nodes
    PROVE  /\ OwnBlocks(n) \in Nat
           /\ n.type = "free" => OwnBlocks(n) = 0
           /\ n.type \in Containers =>
                 OwnBlocks(n) = 2 + Len(n.names) + (IF n.capacity > 0 THEN ArraysOf(n) ELSE 0)
<1>1. CASE n.type \in Containers
    <2>1. n.names \in Seq(Keys)
        BY <1>1, NodeTypes DEF ContainerNodes
    <2>2. PICK l \in Nat, k \in Nat :
              Len(n.names) = l /\ (IF n.capacity > 0 THEN ArraysOf(n) ELSE 0) = k
        BY <2>1 DEF ArraysOf
    <2>3. n.type # "free"
        BY <1>1 DEF Containers
    <2>4. OwnBlocks(n) = 2 + Len(n.names) + (IF n.capacity > 0 THEN ArraysOf(n) ELSE 0)
        BY <1>1 DEF OwnBlocks, Containers
    <2>5. OwnBlocks(n) = 2 + l + k
        BY <2>2, <2>4
    <2> QED  BY <2>2, <2>3, <2>4, <2>5
<1>2. CASE n.type \notin Containers
    BY <1>2 DEF OwnBlocks
<1> QED  BY <1>1, <1>2

LEMMA BlocksFinite ==
    ASSUME NEW nd \in [Values -> Nodes], NEW S \in SUBSET Values
    PROVE  IsFiniteSet(BlocksOf(nd, S)) /\ Cardinality(BlocksOf(nd, S)) \in Nat
<1> DEFINE Of(v) == {v} \X (1 .. OwnBlocks(nd[v]))
           T == {Of(v) : v \in S}
           f == [v \in S |-> Of(v)]
<1>1. IsFiniteSet(S)
    BY ValuesAssumption, FS_Subset
<1>2. ASSUME NEW v \in S PROVE IsFiniteSet(Of(v))
    <2>1. PICK k \in Nat : OwnBlocks(nd[v]) = k
        BY OwnBlocksOf
    <2>2. IsFiniteSet(1 .. k)
        BY FS_Interval
    <2>3. IsFiniteSet({v})
        BY FS_Singleton
    <2> QED  BY <2>1, <2>2, <2>3, FS_Product
<1> HIDE DEF Of
<1>3. f \in Surjection(S, T)
    BY DEF Surjection
<1>4. IsFiniteSet(T)
    BY <1>1, <1>3, FS_Surjection
<1>5. IsFiniteSet(UNION T)
    BY <1>2, <1>4, FS_UNION
<1>6. BlocksOf(nd, S) = UNION T
    BY DEF BlocksOf, Of
<1> QED  BY <1>5, <1>6, FS_CardinalityType

\* Only the changed values change the count.
LEMMA WeightChange ==
    ASSUME NEW nd \in [Values -> Nodes], NEW md \in [Values -> Nodes], NEW S \in SUBSET Values,
           \A u \in Values \ S : OwnBlocks(md[u]) = OwnBlocks(nd[u])
    PROVE  /\ Weight(md) + Cardinality(BlocksOf(nd, S)) = Weight(nd) + Cardinality(BlocksOf(md, S))
           /\ Weight(nd) \in Nat /\ Weight(md) \in Nat
<1> DEFINE U == Values \ S
<1>1. ASSUME NEW n \in [Values -> Nodes]
      PROVE  /\ Weight(n) = Cardinality(BlocksOf(n, S)) + Cardinality(BlocksOf(n, U))
             /\ Weight(n) \in Nat /\ Cardinality(BlocksOf(n, S)) \in Nat
             /\ Cardinality(BlocksOf(n, U)) \in Nat
    <2>1. /\ IsFiniteSet(BlocksOf(n, S)) /\ Cardinality(BlocksOf(n, S)) \in Nat
          /\ IsFiniteSet(BlocksOf(n, U)) /\ Cardinality(BlocksOf(n, U)) \in Nat
        BY BlocksFinite
    <2>2. BlocksOf(n, Values) = BlocksOf(n, S) \cup BlocksOf(n, U)
        BY DEF BlocksOf
    <2>3. BlocksOf(n, S) \cap BlocksOf(n, U) = {}
        BY DEF BlocksOf
    <2>4. Cardinality(BlocksOf(n, S) \cap BlocksOf(n, U)) = 0
        BY <2>3, FS_EmptySet
    <2>5. PICK a \in Nat, b \in Nat :
              Cardinality(BlocksOf(n, S)) = a /\ Cardinality(BlocksOf(n, U)) = b
        BY <2>1
    <2>6. Cardinality(BlocksOf(n, S) \cup BlocksOf(n, U)) = a + b - 0
        BY <2>1, <2>4, <2>5, FS_Union
    <2> QED  BY <2>2, <2>5, <2>6 DEF Weight
<1>2. BlocksOf(nd, U) = BlocksOf(md, U)
    BY DEF BlocksOf
<1>3. PICK a \in Nat, b \in Nat, x \in Nat :
            /\ Cardinality(BlocksOf(nd, S)) = a /\ Cardinality(BlocksOf(md, S)) = b
            /\ Cardinality(BlocksOf(nd, U)) = x
    BY <1>1
<1>4. Weight(nd) = a + x /\ Weight(md) = b + x
    BY <1>1, <1>2, <1>3
<1> QED  BY <1>3, <1>4

LEMMA WeightIsNat ==
    ASSUME NEW nd \in [Values -> Nodes]
    PROVE  Weight(nd) \in Nat
BY BlocksFinite DEF Weight

LEMMA BlocksOfOne ==
    ASSUME NEW nd \in [Values -> Nodes], NEW c \in Values
    PROVE  Cardinality(BlocksOf(nd, {c})) = OwnBlocks(nd[c])
<1>1. PICK k \in Nat : OwnBlocks(nd[c]) = k
    BY OwnBlocksOf
<1>2. BlocksOf(nd, {c}) = {c} \X (1 .. k)
    BY <1>1, Zenon DEF BlocksOf
<1>3. IsFiniteSet(1 .. k) /\ Cardinality(1 .. k) = k
    BY FS_Interval
<1>4. IsFiniteSet({c}) /\ Cardinality({c}) = 1
    BY FS_Singleton
<1>5. Cardinality({c} \X (1 .. k)) = 1 * k
    BY <1>3, <1>4, FS_Product
<1> QED  BY <1>1, <1>2, <1>5

LEMMA WeightOne ==
    ASSUME NEW nd \in [Values -> Nodes], NEW md \in [Values -> Nodes], NEW c \in Values,
           \A u \in Values \ {c} : OwnBlocks(md[u]) = OwnBlocks(nd[u])
    PROVE  /\ Weight(md) + OwnBlocks(nd[c]) = Weight(nd) + OwnBlocks(md[c])
           /\ Weight(nd) \in Nat /\ Weight(md) \in Nat
<1>1. {c} \in SUBSET Values /\ \A u \in Values \ {c} : OwnBlocks(md[u]) = OwnBlocks(nd[u])
    OBVIOUS
<1>2. /\ Weight(md) + Cardinality(BlocksOf(nd, {c})) = Weight(nd) + Cardinality(BlocksOf(md, {c}))
      /\ Weight(nd) \in Nat /\ Weight(md) \in Nat
    BY <1>1, WeightChange
<1> QED  BY <1>2, BlocksOfOne

LEMMA WeightFreed ==
    ASSUME NEW nd \in [Values -> Nodes], NEW md \in [Values -> Nodes], NEW S \in SUBSET Values,
           \A u \in Values \ S : OwnBlocks(md[u]) = OwnBlocks(nd[u]),
           \A u \in S : md[u] = Unused
    PROVE  /\ Weight(md) + Cardinality(BlocksOf(nd, S)) = Weight(nd)
           /\ Weight(nd) \in Nat /\ Weight(md) \in Nat /\ Cardinality(BlocksOf(nd, S)) \in Nat
<1>1. \A u \in S : OwnBlocks(md[u]) = 0
    BY DEF OwnBlocks, Unused, Containers
<1>2. BlocksOf(md, S) = {}
    BY <1>1 DEF BlocksOf
<1>3. Cardinality(BlocksOf(md, S)) = 0
    BY <1>2, FS_EmptySet
<1>4. /\ Weight(md) + Cardinality(BlocksOf(nd, S)) = Weight(nd) + Cardinality(BlocksOf(md, S))
      /\ Weight(nd) \in Nat /\ Weight(md) \in Nat
    BY WeightChange
<1>5. Cardinality(BlocksOf(nd, S)) \in Nat
    BY BlocksFinite
<1> QED  BY <1>3, <1>4, <1>5

-----------------------------------------------------------------------------
(* Heaps within a call.  Debt is what is allocated and belongs to no value:  *)
(* names on their way.                                                       *)

Fits(n) ==
    n.type \in Containers => /\ Len(n.values) <= n.capacity
                             /\ Len(n.names) = IF n.type = "object" THEN Len(n.values) ELSE 0
                             /\ IsInjective(n.names) /\ IsInjective(n.values)

Sound(nd, R) == /\ nd \in [Values -> Nodes] /\ \A v \in Values : Fits(nd[v])
                /\ Forest(Exist(nd), Kids(nd), Par(nd), R)

Debt(h) == h.blocks - h.lost - Weight(h.node)

Heap(h, R, d) == h \in Heaps /\ Sound(h.node, R) /\ Debt(h) = d

LEMMA HeapFields ==
    ASSUME NEW h \in Heaps
    PROVE  /\ h.node \in [Values -> Nodes] /\ h.blocks \in Int /\ h.lost \in Nat /\ h.memory \in Nat
           /\ h.ok \in BOOLEAN /\ h.value \in Values \cup {NULL} /\ h.text \in Seq(Tokens)
BY DEF Heaps

LEMMA FailedIs ==
    ASSUME NEW h \in Heaps
    PROVE  /\ Failed(h) \in Heaps /\ Failed(h).node = h.node /\ ~Failed(h).ok
           /\ Debt(Failed(h)) = Debt(h)
<1>1. Failed(h) \in Heaps
    BY DEF Failed, Heaps
<1>2. /\ Failed(h).node = h.node /\ ~Failed(h).ok
      /\ Failed(h).blocks = h.blocks /\ Failed(h).lost = h.lost
    BY DEF Failed, Heaps
<1> QED  BY <1>1, <1>2 DEF Debt

LEMMA AllocIs ==
    ASSUME NEW h \in Heaps, NEW k \in Nat
    PROVE  /\ Alloc(h, k) \in Heaps /\ Alloc(h, k).node = h.node
           /\ Alloc(h, k).ok => /\ h.ok /\ Debt(Alloc(h, k)) = Debt(h) + k
                                /\ Alloc(h, k).value = h.value /\ Alloc(h, k).text = h.text
<1>1. CASE h.memory < k
    <2>1. Alloc(h, k) = Failed(h)
        BY <1>1, HeapFields DEF Alloc
    <2> QED  BY <2>1, FailedIs
<1>2. CASE h.memory >= k
    <2> DEFINE g == [h EXCEPT !.memory = @ - k, !.blocks = @ + k]
    <2>1. Alloc(h, k) = g
        BY <1>2 DEF Alloc
    <2>2. g \in Heaps
        <3>1. PICK m \in Nat, b \in Int : m = h.memory - k /\ b = h.blocks + k
            BY <1>2, HeapFields
        <3>2. g = [h EXCEPT !.memory = m, !.blocks = b]
            BY <3>1
        <3> QED  BY <3>2 DEF Heaps
    <2>3. /\ g.node = h.node /\ g.blocks = h.blocks + k /\ g.lost = h.lost /\ g.ok = h.ok
          /\ g.value = h.value /\ g.text = h.text
        BY DEF Heaps
    <2>4. h.blocks \in Int /\ h.lost \in Nat /\ Weight(h.node) \in Nat
        BY HeapFields, WeightIsNat
    <2>5. Debt(g) = Debt(h) + k
        <3> HIDE DEF g
        <3> QED  BY <2>3, <2>4 DEF Debt
    <2> QED  BY <2>1, <2>2, <2>3, <2>5
<1> QED  BY <1>1, <1>2, HeapFields

LEMMA FreeBlocksIs ==
    ASSUME NEW h \in Heaps, NEW k \in Nat
    PROVE  /\ FreeBlocks(h, k) \in Heaps /\ FreeBlocks(h, k).node = h.node
           /\ FreeBlocks(h, k).ok = h.ok /\ FreeBlocks(h, k).value = h.value
           /\ FreeBlocks(h, k).text = h.text
           /\ Debt(FreeBlocks(h, k)) = Debt(h) - k
<1> DEFINE g == [h EXCEPT !.blocks = @ - k]
<1>1. FreeBlocks(h, k) = g
    BY DEF FreeBlocks
<1>2. g \in Heaps
    <2>1. PICK b \in Int : b = h.blocks - k
        BY HeapFields
    <2>2. g = [h EXCEPT !.blocks = b]
        BY <2>1
    <2> QED  BY <2>2 DEF Heaps
<1>3. /\ g.node = h.node /\ g.blocks = h.blocks - k /\ g.lost = h.lost /\ g.ok = h.ok
      /\ g.value = h.value /\ g.text = h.text
    BY DEF Heaps
<1>4. h.blocks \in Int /\ h.lost \in Nat /\ Weight(h.node) \in Nat
    BY HeapFields, WeightIsNat
<1>5. Debt(g) = Debt(h) - k
    <2> HIDE DEF g
    <2> QED  BY <1>3, <1>4 DEF Debt
<1> QED  BY <1>1, <1>2, <1>3, <1>5

\* What freeing a set of values does to the heap.
LEMMA FreeIs ==
    ASSUME NEW h \in Heaps, NEW gone \in SUBSET Values
    PROVE  /\ Free(h, gone) \in Heaps
           /\ \A u \in Values : Free(h, gone).node[u] = IF u \in gone THEN Unused ELSE h.node[u]
           /\ Free(h, gone).ok = h.ok /\ Free(h, gone).value = h.value
           /\ Free(h, gone).text = h.text
           /\ Debt(Free(h, gone)) = Debt(h)
<1> DEFINE md == [u \in Values |-> IF u \in gone THEN Unused ELSE h.node[u]]
           k == Cardinality(BlocksOf(h.node, gone))
           g == [h EXCEPT !.node = md, !.blocks = @ - k]
<1>1. Free(h, gone) = g
    BY DEF Free
<1>2. md \in [Values -> Nodes]
    BY HeapFields DEF Nodes
<1>3. k \in Nat
    BY HeapFields, BlocksFinite
<1>4. Weight(md) + k = Weight(h.node) /\ Weight(h.node) \in Nat /\ Weight(md) \in Nat
    <2>1. h.node \in [Values -> Nodes]
        BY HeapFields
    <2>2. \A u \in Values \ gone : OwnBlocks(md[u]) = OwnBlocks(h.node[u])
        OBVIOUS
    <2>3. \A u \in gone : md[u] = Unused
        OBVIOUS
    <2> HIDE DEF md
    <2> QED  BY <1>2, <2>1, <2>2, <2>3, WeightFreed
<1> HIDE DEF md, k
<1>5. g \in Heaps
    <2>1. PICK b \in Int : b = h.blocks - k
        BY <1>3, HeapFields
    <2>2. g = [h EXCEPT !.node = md, !.blocks = b]
        BY <2>1
    <2> QED  BY <1>2, <2>2 DEF Heaps
<1>6. /\ g.node = md /\ g.blocks = h.blocks - k /\ g.lost = h.lost /\ g.ok = h.ok
      /\ g.value = h.value /\ g.text = h.text
    BY DEF Heaps
<1>7. h.blocks \in Int /\ h.lost \in Nat
    BY HeapFields
<1> HIDE DEF g
<1>8. Debt(g) = Debt(h)
    BY <1>3, <1>4, <1>6, <1>7 DEF Debt
<1>9. \A u \in Values : md[u] = IF u \in gone THEN Unused ELSE h.node[u]
    BY DEF md
<1> QED  BY <1>1, <1>5, <1>6, <1>8, <1>9

LEMMA NodesIs ==
    ASSUME NEW h \in Heaps, NEW md \in [Values -> Nodes], NEW g, g = [h EXCEPT !.node = md]
    PROVE  /\ g \in Heaps /\ g.node = md /\ g.ok = h.ok /\ g.value = h.value /\ g.text = h.text
           /\ Debt(g) + Weight(md) = Debt(h) + Weight(h.node)
           /\ Debt(g) \in Int /\ Debt(h) \in Int
<1>1. g \in Heaps
    BY DEF Heaps
<1>2. /\ g.node = md /\ g.blocks = h.blocks /\ g.lost = h.lost /\ g.ok = h.ok
      /\ g.value = h.value /\ g.text = h.text
    BY DEF Heaps
<1>3. h.blocks \in Int /\ h.lost \in Nat /\ Weight(h.node) \in Nat /\ Weight(md) \in Nat
    BY HeapFields, WeightIsNat
<1> QED  BY <1>1, <1>2, <1>3 DEF Debt

LEMMA DebtIsInt ==
    ASSUME NEW h \in Heaps
    PROVE  Debt(h) \in Int
<1>1. h.blocks \in Int /\ h.lost \in Nat /\ Weight(h.node) \in Nat
    BY HeapFields, WeightIsNat
<1> QED  BY <1>1 DEF Debt

\* A value without members, as the calls make them.
Single(n) == /\ n \in Nodes /\ n.type # "free" /\ Fits(n)
             /\ n.type \in Containers => n.values = <<>>

LEMMA SoundInsert ==
    ASSUME NEW nd, NEW R, Sound(nd, R), NEW v \in Values \ Exist(nd), NEW n, Single(n)
    PROVE  /\ Sound([nd EXCEPT ![v] = n], R \cup {v})
           /\ Exist([nd EXCEPT ![v] = n]) = Exist(nd) \cup {v}
<1> DEFINE md == [nd EXCEPT ![v] = n]
<1>1. md \in [Values -> Nodes] /\ \A u \in Values : Fits(md[u])
    BY DEF Sound, Single
<1>2. Exist(md) = Exist(nd) \cup {v}
    BY DEF Exist, Single, Sound
<1>3. md[v] = n /\ \A c \in Values \ {v} : md[c] = nd[c]
    BY DEF Sound
<1> HIDE DEF md
<1>4. Kids(md)[v] = {}
    BY <1>3 DEF Kids, Children, Single, ToSet
<1>5. \A c \in Values \ {v} : Kids(md)[c] = Kids(nd)[c]
    BY <1>3 DEF Kids, Children
<1>6. \A c \in Exist(nd) : Par(md)[c] = Par(nd)[c]
    BY <1>3 DEF Par, Exist
<1>7. Forest(Exist(md), Kids(md), Par(md), R \cup {v})
    <2>1. Forest(Exist(nd), Kids(nd), Par(nd), R)
        BY DEF Sound
    <2> QED  BY <1>2, <1>4, <1>5, <1>6, <2>1, ForestInsert
<1>8. Sound(md, R \cup {v})
    BY <1>1, <1>7 DEF Sound
<1> QED  BY <1>2, <1>8 DEF md

\* The value is new: what existed is as it was.
LEMMA NewValueIs ==
    ASSUME NEW h, NEW R, NEW d, Heap(h, R, d), NEW n, Single(n), NEW k \in Nat
    PROVE  /\ ~NewValue(h, n, k).ok => NewValue(h, n, k) = Failed(h)
           /\ NewValue(h, n, k).ok =>
                 /\ h.ok /\ NewValue(h, n, k).value \in Values \ Exist(h.node)
                 /\ NewValue(h, n, k).node = [h.node EXCEPT ![NewValue(h, n, k).value] = n]
                 /\ NewValue(h, n, k).text = h.text
                 /\ Heap(NewValue(h, n, k), R \cup {NewValue(h, n, k).value}, d + k - OwnBlocks(n))
<1> DEFINE free == Values \ Exist(h.node)
           new  == CHOOSE v \in free : TRUE
           g    == Alloc(h, k)
           r    == NewValue(h, n, k)
           f    == [g EXCEPT !.value = new]
           md   == [h.node EXCEPT ![new] = n]
<1>0. h \in Heaps /\ Sound(h.node, R) /\ Debt(h) = d /\ d \in Int
    BY DebtIsInt DEF Heap
<1>1. CASE free = {} \/ ~g.ok
    <2>1. r = Failed(h)
        BY <1>1 DEF NewValue
    <2> QED  BY <1>0, <2>1, FailedIs
<1>2. CASE free # {} /\ g.ok
    <2>1. r = [g EXCEPT !.value = new, !.node[new] = n]
        BY <1>2 DEF NewValue
    <2>2. new \in Values \ Exist(h.node)
        BY <1>2
    <2> HIDE DEF new
    <2>3. g \in Heaps /\ g.node = h.node /\ h.ok /\ Debt(g) = d + k /\ g.text = h.text
        BY <1>0, <1>2, AllocIs
    <2>4. md \in [Values -> Nodes]
        BY <1>0 DEF Sound, Single
    <2>5. /\ f \in Heaps /\ f.node = g.node /\ f.ok = g.ok /\ f.value = new /\ f.text = g.text
          /\ f.blocks = g.blocks /\ f.lost = g.lost
        BY <2>2, <2>3 DEF Heaps
    <2>6. Debt(f) = d + k
        BY <2>3, <2>5 DEF Debt
    <2>7. r = [f EXCEPT !.node = md]
        BY <2>1, <2>3, <2>5 DEF Heaps
    <2> HIDE DEF g, f, md, r
    <2>8. /\ r \in Heaps /\ r.node = md /\ r.ok = g.ok /\ r.value = new /\ r.text = h.text
          /\ Debt(r) + Weight(md) = d + k + Weight(h.node) /\ Debt(r) \in Int
        BY <2>3, <2>4, <2>5, <2>6, <2>7, NodesIs
    <2>9. /\ Weight(md) + OwnBlocks(h.node[new]) = Weight(h.node) + OwnBlocks(md[new])
          /\ Weight(h.node) \in Nat /\ Weight(md) \in Nat
        <3>1. \A u \in Values \ {new} : OwnBlocks(md[u]) = OwnBlocks(h.node[u])
            BY DEF md
        <3>2. h.node \in [Values -> Nodes] /\ new \in Values
            BY <1>0, <2>2 DEF Sound
        <3> QED  BY <2>4, <3>1, <3>2, WeightOne
    <2>10. OwnBlocks(h.node[new]) = 0 /\ md[new] = n /\ OwnBlocks(n) \in Nat
        <3>1. h.node[new].type = "free" /\ h.node[new] \in Nodes /\ md[new] = n /\ n \in Nodes
            BY <1>0, <2>2 DEF Exist, Sound, md, Single
        <3> QED  BY <3>1, OwnBlocksOf
    <2>11. PICK o \in Nat : OwnBlocks(n) = o
        BY <2>10
    <2>12. Debt(r) = d + k - o
        BY <1>0, <2>8, <2>9, <2>10, <2>11
    <2>13. Sound(md, R \cup {new})
        BY <1>0, <2>2, SoundInsert DEF md
    <2>14. Heap(r, R \cup {new}, d + k - OwnBlocks(n))
        BY <2>8, <2>11, <2>12, <2>13 DEF Heap
    <2>15. r.ok
        BY <1>2, <2>8 DEF g
    <2> QED  BY <2>2, <2>3, <2>8, <2>14, <2>15 DEF md, r
<1> QED  BY <1>1, <1>2

LEMMA InitIs ==
    ASSUME NEW h, NEW R, NEW d, Heap(h, R, d), NEW n, Single(n)
    PROVE  /\ ~json_value_init(h, n).ok => json_value_init(h, n) = Failed(h)
           /\ json_value_init(h, n).ok =>
                 /\ h.ok /\ json_value_init(h, n).value \in Values \ Exist(h.node)
                 /\ json_value_init(h, n).node = [h.node EXCEPT ![json_value_init(h, n).value] = n]
                 /\ json_value_init(h, n).text = h.text
                 /\ Heap(json_value_init(h, n), R \cup {json_value_init(h, n).value}, d)
<1> DEFINE r == json_value_init(h, n)
<1>1. PICK k \in Nat : OwnBlocks(n) = k
    BY OwnBlocksOf DEF Single
<1>2. r = NewValue(h, n, k)
    BY <1>1 DEF json_value_init
<1>3. d \in Int /\ d + k - k = d
    BY DebtIsInt DEF Heap
<1>4. /\ ~NewValue(h, n, k).ok => NewValue(h, n, k) = Failed(h)
      /\ NewValue(h, n, k).ok =>
            /\ h.ok /\ NewValue(h, n, k).value \in Values \ Exist(h.node)
            /\ NewValue(h, n, k).node = [h.node EXCEPT ![NewValue(h, n, k).value] = n]
            /\ NewValue(h, n, k).text = h.text
            /\ Heap(NewValue(h, n, k), R \cup {NewValue(h, n, k).value}, d + k - OwnBlocks(n))
    BY NewValueIs
<1>5. d + k - OwnBlocks(n) = d
    BY <1>1, <1>3
<1> HIDE DEF r
<1> QED  BY <1>2, <1>4, <1>5 DEF r

LEMMA SoundTree ==
    ASSUME NEW nd, NEW R, Sound(nd, R), NEW v \in Exist(nd)
    PROVE  /\ IsTree(Kids(nd), v, Tree(nd, v)) /\ Tree(nd, v) \subseteq Exist(nd)
           /\ v \in Tree(nd, v) /\ v \in Values /\ Exist(nd) \subseteq Values
           /\ Forest(Exist(nd), Kids(nd), Par(nd), R) /\ nd \in [Values -> Nodes]
<1>1. v \in Values /\ nd \in [Values -> Nodes] /\ Forest(Exist(nd), Kids(nd), Par(nd), R)
    BY DEF Exist, Sound
<1>2. IsTree(Kids(nd), v, Tree(nd, v))
    BY <1>1, TreeIsTree
<1>3. Tree(nd, v) \subseteq Exist(nd)
    BY <1>1, <1>2, TreeInForest
<1> QED  BY <1>1, <1>2, <1>3 DEF IsTree, Exist

\* The values of T are gone, the others as before.
Without(nd, md, T) == \A u \in Values : md[u] = IF u \in T THEN Unused ELSE nd[u]

LEMMA WithoutIs ==
    ASSUME NEW nd \in [Values -> Nodes], NEW md \in [Values -> Nodes], NEW T, Without(nd, md, T)
    PROVE  /\ Exist(md) = Exist(nd) \ T
           /\ \A u \in Values : Kids(md)[u] = IF u \in T THEN {} ELSE Kids(nd)[u]
           /\ \A u \in Values \ T : Par(md)[u] = Par(nd)[u]
           /\ (\A u \in Values : Fits(nd[u])) => \A u \in Values : Fits(md[u])
<1>1. Unused.type = "free" /\ Fits(Unused)
    BY DEF Unused, Fits, Containers
<1>2. Exist(md) = Exist(nd) \ T
    BY <1>1 DEF Exist, Without
<1>3. \A u \in T \cap Values : Children(md, u) = {}
    BY <1>1 DEF Children, Without, Containers
<1>4. \A u \in Values : Kids(md)[u] = IF u \in T THEN {} ELSE Kids(nd)[u]
    BY <1>3 DEF Kids, Children, Without
<1>5. \A u \in Values \ T : Par(md)[u] = Par(nd)[u]
    BY DEF Par, Without
<1>6. (\A u \in Values : Fits(nd[u])) => \A u \in Values : Fits(md[u])
    BY <1>1 DEF Without
<1> QED  BY <1>2, <1>4, <1>5, <1>6

LEMMA SoundDrop ==
    ASSUME NEW nd, NEW R, Sound(nd, R), NEW v \in R, NEW md \in [Values -> Nodes],
           Without(nd, md, Tree(nd, v))
    PROVE  Sound(md, R \ {v}) /\ Exist(md) = Exist(nd) \ Tree(nd, v)
<1> DEFINE T == Tree(nd, v)
<1>1. v \in Exist(nd)
    BY DEF Sound, Forest
<1>2. /\ IsTree(Kids(nd), v, T) /\ nd \in [Values -> Nodes] /\ T \subseteq Values
      /\ Forest(Exist(nd), Kids(nd), Par(nd), R) /\ Exist(nd) \subseteq Values
    BY <1>1, SoundTree
<1> HIDE DEF T
<1>3. /\ Exist(md) = Exist(nd) \ T
      /\ \A u \in Values : Kids(md)[u] = IF u \in T THEN {} ELSE Kids(nd)[u]
      /\ \A u \in Values \ T : Par(md)[u] = Par(nd)[u]
      /\ (\A u \in Values : Fits(nd[u])) => \A u \in Values : Fits(md[u])
    BY <1>2, WithoutIs DEF T
<1>4. /\ \A u \in T : Kids(md)[u] = {}
      /\ \A u \in Values \ T : Kids(md)[u] = Kids(nd)[u]
      /\ \A u \in Exist(nd) \ T : Par(md)[u] = Par(nd)[u]
    BY <1>2, <1>3
<1>5. Forest(Exist(nd) \ T, Kids(md), Par(md), R \ {v})
    BY <1>2, <1>4, ForestDrop
<1> QED  BY <1>3, <1>5 DEF Sound, T

LEMMA FreeRootIs ==
    ASSUME NEW h, NEW R, NEW d, Heap(h, R, d), NEW v \in R
    PROVE  /\ Heap(json_value_free(h, v), R \ {v}, d)
           /\ Without(h.node, json_value_free(h, v).node, Tree(h.node, v))
           /\ Exist(json_value_free(h, v).node) = Exist(h.node) \ Tree(h.node, v)
           /\ json_value_free(h, v).ok = h.ok /\ json_value_free(h, v).value = h.value
           /\ json_value_free(h, v).text = h.text
<1> DEFINE T == Tree(h.node, v)
           g == Free(h, T)
<1>1. h \in Heaps /\ Sound(h.node, R) /\ Debt(h) = d
    BY DEF Heap
<1>2. v \in Exist(h.node) /\ v \in Values
    BY <1>1 DEF Sound, Forest
<1>3. T \in SUBSET Values
    BY <1>1, <1>2, SoundTree
<1>4. v # NULL
    BY <1>2, ValuesAssumption
<1>5. json_value_free(h, v) = g
    BY <1>4 DEF json_value_free
<1> HIDE DEF T
<1>6. /\ g \in Heaps
      /\ \A u \in Values : g.node[u] = IF u \in T THEN Unused ELSE h.node[u]
      /\ g.ok = h.ok /\ g.value = h.value /\ g.text = h.text /\ Debt(g) = Debt(h)
    BY <1>1, <1>3, FreeIs
<1> HIDE DEF g
<1>7. Without(h.node, g.node, T)
    BY <1>6 DEF Without
<1>8. g.node \in [Values -> Nodes]
    BY <1>6, HeapFields
<1>9. Sound(g.node, R \ {v}) /\ Exist(g.node) = Exist(h.node) \ T
    BY <1>1, <1>7, <1>8, SoundDrop DEF T
<1> QED  BY <1>1, <1>5, <1>6, <1>7, <1>9 DEF Heap, T

LEMMA AbandonIs ==
    ASSUME NEW h, NEW R, NEW d, Heap(h, R, d), NEW v \in R
    PROVE  /\ Heap(Abandon(h, v), R \ {v}, d)
           /\ Without(h.node, Abandon(h, v).node, Tree(h.node, v))
           /\ Exist(Abandon(h, v).node) = Exist(h.node) \ Tree(h.node, v)
           /\ ~Abandon(h, v).ok
<1> DEFINE g == json_value_free(h, v)
<1>1. /\ Heap(g, R \ {v}, d) /\ Without(h.node, g.node, Tree(h.node, v))
      /\ Exist(g.node) = Exist(h.node) \ Tree(h.node, v)
    BY FreeRootIs
<1>2. Abandon(h, v) = Failed(g)
    BY DEF Abandon
<1> HIDE DEF g
<1>3. /\ Failed(g) \in Heaps /\ Failed(g).node = g.node /\ ~Failed(g).ok /\ Debt(Failed(g)) = Debt(g)
    BY <1>1, FailedIs DEF Heap
<1> QED  BY <1>1, <1>2, <1>3 DEF Heap

-----------------------------------------------------------------------------
(* The sequences of a container. *)

LEMMA AppendIs ==
    ASSUME NEW S, NEW s \in Seq(S), NEW x \in S
    PROVE  /\ Append(s, x) \in Seq(S) /\ Len(Append(s, x)) = Len(s) + 1 /\ Len(s) \in Nat
           /\ ToSet(Append(s, x)) = ToSet(s) \cup {x}
           /\ IsInjective(s) /\ x \notin ToSet(s) => IsInjective(Append(s, x))
           /\ Append(s, x)[Len(s) + 1] = x /\ \A i \in 1 .. Len(s) : Append(s, x)[i] = s[i]
<1> DEFINE t == Append(s, x)
<1>1. PICK l \in Nat : Len(s) = l
    OBVIOUS
<1>2. /\ t \in Seq(S) /\ Len(t) = l + 1 /\ DOMAIN s = 1 .. l /\ DOMAIN t = 1 .. l + 1
      /\ t[l + 1] = x /\ \A i \in 1 .. l : t[i] = s[i]
    BY <1>1
<1> HIDE DEF t
<1>3. \A i \in 1 .. l + 1 : i = l + 1 \/ i \in 1 .. l
    OBVIOUS
<1>4. \A i \in 1 .. l : i \in 1 .. l + 1
    OBVIOUS
<1>5. l + 1 \in 1 .. l + 1
    OBVIOUS
<1>6. ToSet(t) = ToSet(s) \cup {x}
    BY <1>2, <1>3, <1>4, <1>5 DEF ToSet
<1>7. IsInjective(s) /\ x \notin ToSet(s) => IsInjective(t)
    BY <1>2, <1>3 DEF ToSet, IsInjective
<1> QED  BY <1>1, <1>2, <1>6, <1>7 DEF t

\* One element is gone.
Less(s, t, i) == /\ Len(t) = Len(s) - 1 /\ ToSet(t) = ToSet(s) \ {s[i]} /\ IsInjective(t)

LEMMA SwapOutIs ==
    ASSUME NEW S, NEW s \in Seq(S), IsInjective(s), NEW i \in 1 .. Len(s)
    PROVE  SwapOut(s, i) \in Seq(S) /\ Less(s, SwapOut(s, i), i)
<1> DEFINE t == SwapOut(s, i)
           r == [s EXCEPT ![i] = Last(s)]
<1>1. PICK l \in Nat : Len(s) = l
    OBVIOUS
<1>2. l \in 1 .. l /\ i \in 1 .. l
    BY <1>1
<1>3. r \in Seq(S) /\ Len(r) = l /\ \A j \in 1 .. l : r[j] = IF j = i THEN s[l] ELSE s[j]
    BY <1>1, <1>2 DEF Last
<1>4. t = SubSeq(r, 1, l - 1)
    BY <1>1 DEF SwapOut
<1> HIDE DEF r
<1>5. /\ t \in Seq(S) /\ Len(t) = l - 1 /\ DOMAIN t = 1 .. l - 1 /\ DOMAIN s = 1 .. l
      /\ \A j \in 1 .. l - 1 : t[j] = r[j] /\ j \in 1 .. l
    BY <1>1, <1>2, <1>3, <1>4
<1>6. \A j \in 1 .. l - 1 : t[j] = IF j = i THEN s[l] ELSE s[j]
    BY <1>3, <1>5
<1> HIDE DEF t
<1>7. \A j \in 1 .. l : j \in 1 .. l - 1 \/ j = l
    OBVIOUS
<1>8. \A j \in 1 .. l - 1 : j \in 1 .. l /\ j # l
    OBVIOUS
<1>9. \A j, k \in 1 .. l : s[j] = s[k] => j = k
    BY <1>5 DEF IsInjective
<1>10. ToSet(t) = ToSet(s) \ {s[i]}
    <2>1. ASSUME NEW j \in 1 .. l - 1 PROVE t[j] \in ToSet(s) \ {s[i]}
        <3>1. CASE j = i
            <4>1. t[j] = s[l] /\ l # i
                BY <1>6, <1>8, <3>1
            <4> QED  BY <1>2, <1>5, <1>9, <4>1 DEF ToSet
        <3>2. CASE j # i
            <4>1. t[j] = s[j] /\ j \in 1 .. l
                BY <1>6, <1>8, <3>2
            <4> QED  BY <1>2, <1>5, <1>9, <3>2, <4>1 DEF ToSet
        <3> QED  BY <3>1, <3>2
    <2>2. ASSUME NEW j \in 1 .. l, s[j] # s[i] PROVE s[j] \in ToSet(t)
        <3>1. CASE j = l
            <4>1. i \in 1 .. l - 1
                BY <1>2, <1>7, <2>2, <3>1
            <4>2. t[i] = s[j]
                BY <1>6, <3>1, <4>1
            <4> QED  BY <1>5, <4>1, <4>2 DEF ToSet
        <3>2. CASE j # l
            <4>1. j \in 1 .. l - 1 /\ j # i
                BY <1>7, <2>2, <3>2
            <4>2. t[j] = s[j]
                BY <1>6, <4>1
            <4> QED  BY <1>5, <4>1, <4>2 DEF ToSet
        <3> QED  BY <3>1, <3>2
    <2> QED  BY <1>5, <2>1, <2>2 DEF ToSet
<1>11. IsInjective(t)
    <2>1. ASSUME NEW j \in 1 .. l - 1, NEW k \in 1 .. l - 1, t[j] = t[k] PROVE j = k
        BY <1>2, <1>6, <1>8, <1>9, <2>1
    <2> QED  BY <1>5, <2>1 DEF IsInjective
<1> QED  BY <1>1, <1>5, <1>10, <1>11 DEF t, Less

LEMMA RemoveAtIs ==
    ASSUME NEW S, NEW s \in Seq(S), IsInjective(s), NEW i \in 1 .. Len(s)
    PROVE  RemoveAt(s, i) \in Seq(S) /\ Less(s, RemoveAt(s, i), i)
<1> DEFINE t == RemoveAt(s, i)
           a == SubSeq(s, 1, i - 1)
           b == SubSeq(s, i + 1, Len(s))
<1>1. PICK l \in Nat : Len(s) = l
    OBVIOUS
<1>2. i \in 1 .. l /\ DOMAIN s = 1 .. l
    BY <1>1
<1>3. a \in Seq(S) /\ Len(a) = i - 1 /\ \A j \in 1 .. i - 1 : a[j] = s[j]
    BY <1>1, <1>2
<1>4. b \in Seq(S) /\ Len(b) = l - i /\ \A j \in 1 .. l - i : b[j] = s[i + j]
    BY <1>1, <1>2
<1>5. t = a \o b
    BY DEF RemoveAt
<1> HIDE DEF a, b
<1>6. /\ t \in Seq(S) /\ Len(t) = l - 1 /\ DOMAIN t = 1 .. l - 1
      /\ \A j \in 1 .. l - 1 : t[j] = IF j < i THEN s[j] ELSE s[j + 1]
    <2>1. PICK p \in Nat, q \in Nat : i = p + 1 /\ l = p + q + 1
        <3>1. i - 1 \in Nat /\ l - i \in Nat /\ i = (i - 1) + 1 /\ l = (i - 1) + (l - i) + 1
            BY <1>2
        <3> QED  BY <3>1
    <2>2. Len(a) = p /\ Len(b) = q /\ i - 1 = p /\ l - i = q /\ l - 1 = p + q
        BY <1>3, <1>4, <2>1
    <2>3. /\ t \in Seq(S) /\ Len(t) = p + q
          /\ \A j \in 1 .. p + q : t[j] = IF j <= p THEN a[j] ELSE b[j - p]
        <3>1. a \in Seq(S) /\ b \in Seq(S)
            BY <1>3, <1>4
        <3>2. t \in Seq(S) /\ Len(t) = Len(a) + Len(b)
            BY <1>5, <3>1
        <3>3. \A j \in 1 .. Len(a) + Len(b) :
                  t[j] = IF j <= Len(a) THEN a[j] ELSE b[j - Len(a)]
            BY <1>5, <3>1
        <3> QED  BY <2>2, <3>2, <3>3
    <2>4. ASSUME NEW j \in 1 .. p + q PROVE t[j] = IF j < i THEN s[j] ELSE s[j + 1]
        <3>1. CASE j <= p
            <4>1. j \in 1 .. i - 1 /\ j < i
                BY <2>1, <3>1
            <4> QED  BY <1>3, <2>3, <3>1, <4>1
        <3>2. CASE ~(j <= p)
            <4>1. j - p \in 1 .. l - i /\ ~(j < i) /\ i + (j - p) = j + 1
                BY <2>1, <3>2
            <4> QED  BY <1>4, <2>3, <3>2, <4>1
        <3> QED  BY <3>1, <3>2
    <2>5. DOMAIN t = 1 .. Len(t)
        BY <2>3
    <2> QED  BY <2>2, <2>3, <2>4, <2>5
<1> HIDE DEF t
<1>7. \A j \in 1 .. l - 1 : j \in 1 .. l /\ j + 1 \in 1 .. l
    OBVIOUS
<1>8. \A j, k \in 1 .. l : s[j] = s[k] => j = k
    BY <1>2 DEF IsInjective
<1>9. ToSet(t) = ToSet(s) \ {s[i]}
    <2>1. ASSUME NEW j \in 1 .. l - 1 PROVE t[j] \in ToSet(s) \ {s[i]}
        <3>1. CASE j < i
            <4>1. t[j] = s[j] /\ j \in 1 .. l /\ j # i
                BY <1>2, <1>6, <1>7, <3>1
            <4> QED  BY <1>2, <1>8, <4>1 DEF ToSet
        <3>2. CASE ~(j < i)
            <4>1. t[j] = s[j + 1] /\ j + 1 \in 1 .. l /\ j + 1 # i
                BY <1>2, <1>6, <1>7, <3>2
            <4> QED  BY <1>2, <1>8, <4>1 DEF ToSet
        <3> QED  BY <3>1, <3>2
    <2>2. ASSUME NEW j \in 1 .. l, s[j] # s[i] PROVE s[j] \in ToSet(t)
        <3>1. CASE j < i
            <4>1. j \in 1 .. l - 1 /\ t[j] = s[j]
                BY <1>2, <1>6, <3>1
            <4> QED  BY <1>6, <4>1 DEF ToSet
        <3>2. CASE j > i
            <4>1. j - 1 \in 1 .. l - 1 /\ ~(j - 1 < i) /\ (j - 1) + 1 = j
                BY <1>2, <3>2
            <4>2. t[j - 1] = s[j]
                BY <1>6, <4>1
            <4> QED  BY <1>6, <4>1, <4>2 DEF ToSet
        <3> QED  BY <1>2, <2>2, <3>1, <3>2
    <2> QED  BY <1>2, <1>6, <2>1, <2>2 DEF ToSet
<1>10. IsInjective(t)
    <2>1. ASSUME NEW j \in 1 .. l - 1, NEW k \in 1 .. l - 1, t[j] = t[k] PROVE j = k
        BY <1>2, <1>6, <1>7, <1>8, <2>1
    <2> QED  BY <1>6, <2>1 DEF IsInjective
<1> QED  BY <1>1, <1>6, <1>9, <1>10 DEF t, Less

\* One element is another one.
LEMMA ReplaceIs ==
    ASSUME NEW S, NEW s \in Seq(S), IsInjective(s), NEW i \in 1 .. Len(s), NEW x \in S,
           x \notin ToSet(s)
    PROVE  /\ [s EXCEPT ![i] = x] \in Seq(S) /\ Len([s EXCEPT ![i] = x]) = Len(s)
           /\ ToSet([s EXCEPT ![i] = x]) = (ToSet(s) \ {s[i]}) \cup {x}
           /\ IsInjective([s EXCEPT ![i] = x])
<1> DEFINE t == [s EXCEPT ![i] = x]
<1>1. PICK l \in Nat : Len(s) = l
    OBVIOUS
<1>2. /\ t \in Seq(S) /\ Len(t) = l /\ DOMAIN t = 1 .. l /\ DOMAIN s = 1 .. l /\ i \in 1 .. l
      /\ \A j \in 1 .. l : t[j] = IF j = i THEN x ELSE s[j]
    BY <1>1
<1> HIDE DEF t
<1>3. \A j \in 1 .. l : s[j] # x
    BY <1>2 DEF ToSet
<1>4. \A j, k \in 1 .. l : s[j] = s[k] => j = k
    BY <1>2 DEF IsInjective
<1>5. ToSet(t) = (ToSet(s) \ {s[i]}) \cup {x}
    BY <1>2, <1>3, <1>4 DEF ToSet
<1>6. IsInjective(t)
    BY <1>2, <1>3, <1>4 DEF IsInjective
<1> QED  BY <1>1, <1>2, <1>5, <1>6 DEF t

-----------------------------------------------------------------------------
(* What the changes of a container do to the trees. *)

LEMMA ContainerIs ==
    ASSUME NEW nd \in [Values -> Nodes], NEW c \in Values, nd[c].type \in Containers
    PROVE  /\ nd[c] \in ContainerNodes /\ nd[c].names \in Seq(Keys) /\ nd[c].values \in Seq(Values)
           /\ nd[c].capacity \in Nat /\ nd[c].parent \in Parents /\ nd[c].type # "free"
           /\ c \in Exist(nd) /\ Kids(nd)[c] = ToSet(nd[c].values)
           /\ Children(nd, c) = ToSet(nd[c].values)
<1>1. nd[c] \in ContainerNodes
    BY NodeTypes
<1>2. nd[c].type # "free"
    BY DEF Containers
<1> QED  BY <1>1, <1>2 DEF ContainerNodes, Exist, Kids, Children

\* A value under another parent.
Under(n, p) == [n EXCEPT !.parent = p]

LEMMA ReparentIs ==
    ASSUME NEW n \in Nodes, n.type # "free", NEW p \in Parents
    PROVE  /\ Under(n, p) \in Nodes /\ Under(n, p).parent = p
           /\ Under(n, p).type = n.type
           /\ n.type \in Containers =>
                 /\ Under(n, p).names = n.names
                 /\ Under(n, p).values = n.values
                 /\ Under(n, p).capacity = n.capacity
           /\ Fits(n) => Fits(Under(n, p))
           /\ OwnBlocks(Under(n, p)) = OwnBlocks(n)
<1> DEFINE m == [n EXCEPT !.parent = p]
<1>0. Under(n, p) = m
    BY DEF Under
<1>1. CASE n \in ScalarNodes
    <2>1. m \in ScalarNodes /\ m.parent = p /\ m.type = n.type
        BY <1>1 DEF ScalarNodes
    <2>2. n.type \notin Containers
        BY <1>1 DEF ScalarNodes, ScalarTypes, Containers
    <2> HIDE DEF m
    <2> QED  BY <1>0, <2>1, <2>2 DEF Nodes, Fits, OwnBlocks
<1>2. CASE n \in ContainerNodes
    <2>1. m \in ContainerNodes /\ m.parent = p /\ m.type = n.type /\ m.names = n.names
          /\ m.values = n.values /\ m.capacity = n.capacity
        BY <1>2 DEF ContainerNodes
    <2>2. m \in Nodes /\ n.type \in Containers
        BY <1>2, <2>1 DEF Nodes, ContainerNodes
    <2> HIDE DEF m
    <2>3. Fits(n) => Fits(m)
        BY <2>1 DEF Fits
    <2>4. OwnBlocks(m) = OwnBlocks(n)
        BY <2>1, <2>2, OwnBlocksOf DEF ArraysOf
    <2> QED  BY <1>0, <2>1, <2>2, <2>3, <2>4
<1> QED  BY <1>1, <1>2, NodeTypes DEF Nodes

\* Two nodes are the same, parents and capacities apart.
SameData(m, n) ==
    n.type = m.type /\ (m.type \in Containers => n.names = m.names /\ n.values = m.values)

Alike(m, n) ==
    SameData(m, n) /\ (m.type \in ScalarTypes => n.data = m.data)

LEMMA UnderAlike ==
    ASSUME NEW n \in Nodes, n.type # "free", NEW p
    PROVE  Alike(n, Under(n, p))
<1>1. n \in ScalarNodes \/ n \in ContainerNodes
    BY NodeTypes DEF ScalarTypes, Containers
<1>2. CASE n \in ScalarNodes
    <2>1. n.type \in ScalarTypes /\ n.type \notin Containers
        BY <1>2 DEF ScalarNodes, ScalarTypes, Containers
    <2>2. Under(n, p).type = n.type /\ Under(n, p).data = n.data
        BY <1>2 DEF ScalarNodes, Under
    <2> QED  BY <2>1, <2>2 DEF Alike, SameData
<1>3. CASE n \in ContainerNodes
    <2>1. n.type \notin ScalarTypes
        BY <1>3 DEF ContainerNodes, ScalarTypes, Containers
    <2>2. /\ Under(n, p).type = n.type /\ Under(n, p).names = n.names
          /\ Under(n, p).values = n.values
        BY <1>3 DEF ContainerNodes, Under
    <2> QED  BY <2>1, <2>2 DEF Alike, SameData
<1> QED  BY <1>1, <1>2, <1>3

\* All but c hold what they held, or are gone.
Others(nd, md, c) == \A u \in Values \ {c} : md[u] = Unused \/ Alike(nd[u], md[u])

LEMMA OthersKept ==
    ASSUME NEW nd, NEW md, NEW c, \A u \in Values \ {c} : md[u] = Unused \/ md[u] = nd[u]
    PROVE  Others(nd, md, c)
BY DEF Others, Alike, SameData

LEMMA SoundAttach ==
    ASSUME NEW nd, NEW R, Sound(nd, R), NEW v \in R, NEW c \in Exist(nd),
           nd[c].type \in Containers, c \notin Tree(nd, v),
           NEW md \in [Values -> Nodes], \A u \in Values \ {v, c} : md[u] = nd[u],
           md[v] = Under(nd[v], c),
           md[c].type = nd[c].type, md[c].parent = nd[c].parent, Fits(md[c]),
           ToSet(md[c].values) = ToSet(nd[c].values) \cup {v}
    PROVE  Sound(md, R \ {v}) /\ Exist(md) = Exist(nd)
<1> DEFINE T == Tree(nd, v)
<1>1. v \in Exist(nd) /\ c \in Values
    BY DEF Sound, Forest, Exist
<1>2. /\ IsTree(Kids(nd), v, T) /\ v \in Values /\ v \in T /\ nd \in [Values -> Nodes]
      /\ Forest(Exist(nd), Kids(nd), Par(nd), R)
    BY <1>1, SoundTree
<1>3. v # c
    BY <1>2
<1>4. nd[v] \in Nodes /\ nd[v].type # "free" /\ c \in Parents
    BY <1>1, <1>2 DEF Exist, Parents
<1>5. /\ md[v].parent = c /\ md[v].type = nd[v].type /\ Fits(md[v])
      /\ nd[v].type \in Containers => md[v].values = nd[v].values
    <2>1. Fits(nd[v])
        BY <1>2 DEF Sound
    <2> QED  BY <1>4, <2>1, ReparentIs
<1>6. Exist(md) = Exist(nd)
    BY <1>5 DEF Exist
<1>7. Kids(md)[c] = Kids(nd)[c] \cup {v}
    BY <1>1, <1>2, ContainerIs
<1>8. \A u \in Values \ {c} : Kids(md)[u] = Kids(nd)[u]
    BY <1>5 DEF Kids, Children
<1>9. Par(md)[v] = c /\ \A u \in Exist(nd) \ R : Par(md)[u] = Par(nd)[u]
    BY <1>2, <1>5 DEF Par, Exist
<1>10. \A u \in Values : Fits(md[u])
    BY <1>5 DEF Sound
<1>11. Forest(Exist(nd), Kids(md), Par(md), R \ {v})
    BY <1>2, <1>7, <1>8, <1>9, ForestAttach
<1> QED  BY <1>6, <1>10, <1>11 DEF Sound

LEMMA SoundDetach ==
    ASSUME NEW nd, NEW R, Sound(nd, R), NEW c \in Values, nd[c].type \in Containers,
           NEW u \in Children(nd, c),
           NEW md \in [Values -> Nodes], \A w \in Values \ {c} : md[w] = nd[w],
           md[c].type = nd[c].type, md[c].parent = nd[c].parent, Fits(md[c]),
           ToSet(md[c].values) = ToSet(nd[c].values) \ {u}
    PROVE  Sound(md, R \cup {u}) /\ Exist(md) = Exist(nd)
<1>1. nd \in [Values -> Nodes] /\ Forest(Exist(nd), Kids(nd), Par(nd), R)
    BY DEF Sound
<1>2. Exist(md) = Exist(nd)
    BY DEF Exist
<1>3. u \in Kids(nd)[c] /\ Kids(md)[c] = Kids(nd)[c] \ {u}
    BY <1>1, ContainerIs
<1>4. \A w \in Values \ {c} : Kids(md)[w] = Kids(nd)[w]
    BY DEF Kids, Children
<1>5. \A w \in Exist(nd) : Par(md)[w] = Par(nd)[w]
    BY DEF Par, Exist
<1>6. \A w \in Values : Fits(md[w])
    BY DEF Sound
<1>7. Forest(Exist(nd), Kids(md), Par(md), R \cup {u})
    BY <1>1, <1>3, <1>4, <1>5, ForestDetach
<1> QED  BY <1>2, <1>6, <1>7 DEF Sound

\* A member is taken out and its tree freed.
LEMMA ForestRemove ==
    ASSUME NEW E, NEW K, NEW P, NEW R, Forest(E, K, P, R), NEW c \in Values, NEW u \in K[c],
           NEW T, IsTree(K, u, T), NEW L, NEW Q, L[c] = K[c] \ {u}, \A w \in T : L[w] = {},
           \A w \in Values \ (T \cup {c}) : L[w] = K[w], \A w \in E \ T : Q[w] = P[w]
    PROVE  Forest(E \ T, L, Q, R) /\ c \notin T
<1> DEFINE M == [w \in Values |-> IF w = c THEN K[c] \ {u} ELSE K[w]]
<1>1. c \notin T /\ R \cap T = {} /\ u \in T /\ T \subseteq Values
    BY ParentNotBelow DEF IsTree
<1>2. M[c] = K[c] \ {u} /\ \A w \in Values \ {c} : M[w] = K[w]
    OBVIOUS
<1> HIDE DEF M
<1>3. Forest(E, M, P, R \cup {u})
    BY <1>2, ForestDetach
<1>4. IsTree(M, u, T)
    BY <1>1, <1>2, SameTree
<1>5. \A w \in Values \ T : L[w] = M[w]
    BY <1>1, <1>2
<1>6. Forest(E \ T, L, Q, (R \cup {u}) \ {u})
    <2> DEFINE R2 == R \cup {u}
    <2>1. Forest(E, M, P, R2) /\ u \in R2
        BY <1>3
    <2> HIDE DEF R2
    <2>2. Forest(E \ T, L, Q, R2 \ {u})
        BY <1>4, <1>5, <2>1, ForestDrop
    <2> QED  BY <2>2 DEF R2
<1>7. (R \cup {u}) \ {u} = R
    BY <1>1
<1> QED  BY <1>1, <1>6, <1>7

\* The tree of a root has nothing of the tree of a member of something else.
LEMMA TreesApart ==
    ASSUME NEW E, NEW K, NEW P, NEW R, Forest(E, K, P, R), NEW c \in Values, NEW u \in K[c],
           NEW T, IsTree(K, u, T), NEW v \in R, NEW U, IsTree(K, v, U), c \notin U
    PROVE  T \cap U = {}
<1> DEFINE S == T \ U
<1>1. u # v /\ P[u] = c
    BY DEF Forest
<1>2. u \in S /\ S \in SUBSET Values
    BY <1>1, InTree DEF IsTree
<1>3. Closed(K, S)
    <2>1. SUFFICES ASSUME NEW w \in S, NEW x \in K[w], x \in U PROVE FALSE
        BY <2>1 DEF Closed, IsTree
    <2>2. w \in Values
        BY DEF IsTree
    <2>3. x # v /\ P[x] = w
        BY <2>2 DEF Forest
    <2> QED  BY <2>1, <2>3, InTree
<1> QED  BY <1>2, <1>3 DEF IsTree

LEMMA SoundRemoved ==
    ASSUME NEW nd, NEW R, Sound(nd, R), NEW c \in Values, nd[c].type \in Containers,
           NEW u \in Children(nd, c), NEW md \in [Values -> Nodes],
           \A w \in Tree(nd, u) : md[w] = Unused,
           \A w \in Values \ (Tree(nd, u) \cup {c}) : md[w] = nd[w],
           md[c].type = nd[c].type, md[c].parent = nd[c].parent, Fits(md[c]),
           ToSet(md[c].values) = ToSet(nd[c].values) \ {u}
    PROVE  Sound(md, R) /\ Exist(md) = Exist(nd) \ Tree(nd, u)
<1> DEFINE T == Tree(nd, u)
<1>1. nd \in [Values -> Nodes] /\ Forest(Exist(nd), Kids(nd), Par(nd), R)
    BY DEF Sound
<1>2. u \in Kids(nd)[c] /\ Kids(md)[c] = Kids(nd)[c] \ {u} /\ c \in Exist(nd)
    BY <1>1, ContainerIs
<1>3. u \in Exist(nd)
    BY <1>1, <1>2 DEF Forest
<1>4. IsTree(Kids(nd), u, T) /\ T \subseteq Exist(nd) /\ T \subseteq Values
    BY <1>3, SoundTree
<1>5. c \notin T
    BY <1>1, <1>2, <1>4, ParentNotBelow
<1>6. Unused.type = "free" /\ Fits(Unused)
    BY DEF Unused, Fits, Containers
<1>7. /\ \A w \in T : md[w] = Unused
      /\ \A w \in Values \ (T \cup {c}) : md[w] = nd[w]
    OBVIOUS
<1> HIDE DEF T
<1>8. Exist(md) = Exist(nd) \ T
    BY <1>5, <1>6, <1>7 DEF Exist
<1>9. \A w \in T : Kids(md)[w] = {}
    BY <1>4, <1>6, <1>7 DEF Kids, Children, Containers
<1>10. \A w \in Values \ (T \cup {c}) : Kids(md)[w] = Kids(nd)[w]
    BY <1>7 DEF Kids, Children
<1>11. \A w \in Exist(nd) \ T : Par(md)[w] = Par(nd)[w]
    BY <1>7 DEF Par, Exist
<1>12. \A w \in Values : Fits(md[w])
    BY <1>6, <1>7 DEF Sound
<1>13. Forest(Exist(nd) \ T, Kids(md), Par(md), R)
    BY <1>1, <1>2, <1>4, <1>9, <1>10, <1>11, ForestRemove
<1> QED  BY <1>8, <1>12, <1>13 DEF Sound, T

\* Of a container with a member u and a root v that is not above it.
LEMMA MemberTrees ==
    ASSUME NEW nd, NEW R, Sound(nd, R), NEW c \in Values, nd[c].type \in Containers,
           NEW u \in Children(nd, c)
    PROVE  /\ u \in Exist(nd) /\ u \in Values /\ u \notin R /\ nd[u].parent = c
           /\ Tree(nd, u) \subseteq Exist(nd) /\ c \notin Tree(nd, u) /\ u \in Tree(nd, u)
           /\ \A v \in R : c \notin Tree(nd, v) =>
                 Tree(nd, u) \cap Tree(nd, v) = {} /\ v \notin Tree(nd, u)
<1>1. nd \in [Values -> Nodes] /\ Forest(Exist(nd), Kids(nd), Par(nd), R)
    BY DEF Sound
<1>2. u \in Kids(nd)[c] /\ c \in Exist(nd)
    BY <1>1, ContainerIs
<1>3. u \in Exist(nd) /\ u \notin R /\ Par(nd)[u] = c
    BY <1>1, <1>2 DEF Forest
<1>4. /\ IsTree(Kids(nd), u, Tree(nd, u)) /\ Tree(nd, u) \subseteq Exist(nd)
      /\ u \in Tree(nd, u) /\ u \in Values
    BY <1>3, SoundTree
<1>5. c \notin Tree(nd, u)
    BY <1>1, <1>2, <1>4, ParentNotBelow
<1>6. ASSUME NEW v \in R, c \notin Tree(nd, v)
      PROVE  Tree(nd, u) \cap Tree(nd, v) = {} /\ v \notin Tree(nd, u)
    <2>1. v \in Exist(nd)
        BY <1>1 DEF Forest
    <2>2. IsTree(Kids(nd), v, Tree(nd, v)) /\ v \in Tree(nd, v)
        BY <2>1, SoundTree
    <2>3. Tree(nd, u) \cap Tree(nd, v) = {}
        BY <1>1, <1>2, <1>4, <1>6, <2>2, TreesApart
    <2> QED  BY <2>2, <2>3
<1>7. nd[u].parent = c
    BY <1>3, <1>4 DEF Par
<1> QED  BY <1>3, <1>4, <1>5, <1>6, <1>7

LEMMA SoundReplaced ==
    ASSUME NEW nd, NEW R, Sound(nd, R), NEW c \in Values, nd[c].type \in Containers,
           NEW u \in Children(nd, c), NEW v \in R, c \notin Tree(nd, v),
           NEW md \in [Values -> Nodes],
           \A w \in Tree(nd, u) : md[w] = Unused,
           \A w \in Values \ (Tree(nd, u) \cup {c, v}) : md[w] = nd[w],
           md[v] = Under(nd[v], c),
           md[c].type = nd[c].type, md[c].parent = nd[c].parent, Fits(md[c]),
           ToSet(md[c].values) = (ToSet(nd[c].values) \ {u}) \cup {v}
    PROVE  Sound(md, R \ {v}) /\ Exist(md) = Exist(nd) \ Tree(nd, u)
<1> DEFINE T == Tree(nd, u)
           U == Tree(nd, v)
           E == Exist(nd)
           K == Kids(nd)
           L == [w \in Values |-> IF w = c THEN K[c] \ {u} ELSE IF w \in T THEN {} ELSE K[w]]
<1>1. nd \in [Values -> Nodes] /\ Forest(E, K, Par(nd), R)
    BY DEF Sound
<1>2. u \in K[c] /\ Kids(md)[c] = (K[c] \ {u}) \cup {v} /\ c \in E
    BY <1>1, ContainerIs
<1>3. v \in E /\ u \in E
    BY <1>1, <1>2 DEF Forest
<1>4. IsTree(K, u, T) /\ IsTree(K, v, U) /\ v \in Values /\ v \in U /\ T \subseteq Values
    BY <1>3, SoundTree
<1>5. c \notin T /\ T \cap U = {} /\ v \notin T /\ v # c /\ c \notin U
    BY <1>4, MemberTrees
<1>6. Unused.type = "free" /\ Fits(Unused)
    BY DEF Unused, Fits, Containers
<1>7. /\ \A w \in T : md[w] = Unused
      /\ \A w \in Values \ (T \cup {c, v}) : md[w] = nd[w]
    OBVIOUS
<1> HIDE DEF T, U
<1>8. /\ md[v].parent = c /\ md[v].type = nd[v].type /\ Fits(md[v])
      /\ nd[v].type \in Containers => md[v].values = nd[v].values
    <2>1. Fits(nd[v]) /\ nd[v] \in Nodes /\ nd[v].type # "free" /\ c \in Parents
        BY <1>1, <1>3, <1>4 DEF Sound, Exist, Parents
    <2> QED  BY <2>1, ReparentIs
<1>9. Exist(md) = E \ T
    <2>1. \A w \in Values \ T : md[w].type = nd[w].type
        BY <1>7, <1>8
    <2>2. \A w \in T : md[w].type = "free"
        BY <1>6, <1>7
    <2> QED  BY <2>1, <2>2 DEF Exist
<1>10. /\ L[c] = K[c] \ {u} /\ \A w \in T : L[w] = {}
       /\ \A w \in Values \ (T \cup {c}) : L[w] = K[w]
    BY <1>4, <1>5
<1>11. /\ \A w \in T : Kids(md)[w] = {}
       /\ \A w \in Values \ (T \cup {c}) : Kids(md)[w] = K[w]
    BY <1>4, <1>6, <1>7, <1>8 DEF Kids, Children, Containers
<1>12. /\ Par(md)[v] = c
       /\ \A w \in (E \ T) \ R : Par(md)[w] = Par(nd)[w]
    BY <1>4, <1>7, <1>8 DEF Par, Exist
<1>13. \A w \in Values : Fits(md[w])
    BY <1>6, <1>7, <1>8 DEF Sound
<1> HIDE DEF E, K, L
<1>14. Forest(E \ T, L, Par(nd), R)
    BY <1>1, <1>2, <1>4, <1>10, ForestRemove
<1>15. IsTree(L, v, U)
    <2>1. \A w \in U : L[w] = K[w]
        BY <1>4, <1>5, <1>10 DEF IsTree
    <2> QED  BY <1>4, <2>1, SameTree
<1>16. Kids(md)[c] = L[c] \cup {v} /\ \A w \in Values \ {c} : Kids(md)[w] = L[w]
    BY <1>2, <1>4, <1>10, <1>11
<1>17. c \in E \ T
    BY <1>2, <1>5
<1>18. Forest(E \ T, Kids(md), Par(md), R \ {v})
    <2> DEFINE F == E \ T
    <2>1. Forest(F, L, Par(nd), R) /\ c \in F /\ \A w \in F \ R : Par(md)[w] = Par(nd)[w]
        BY <1>12, <1>14, <1>17
    <2> HIDE DEF F
    <2>2. Forest(F, Kids(md), Par(md), R \ {v})
        BY <1>5, <1>12, <1>15, <1>16, <2>1, ForestAttach
    <2> QED  BY <2>2 DEF F
<1> QED  BY <1>9, <1>13, <1>18 DEF Sound, E, T

LEMMA SoundCleared ==
    ASSUME NEW nd, NEW R, Sound(nd, R), NEW c \in Values, nd[c].type \in Containers,
           NEW md \in [Values -> Nodes],
           \A w \in Tree(nd, c) \ {c} : md[w] = Unused,
           \A w \in Values \ Tree(nd, c) : md[w] = nd[w],
           md[c].type = nd[c].type, md[c].parent = nd[c].parent, Fits(md[c]),
           ToSet(md[c].values) = {}
    PROVE  Sound(md, R)
<1> DEFINE T == Tree(nd, c)
           E == Exist(nd)
<1>1. nd \in [Values -> Nodes] /\ c \in E /\ Kids(md)[c] = {} /\ md[c].type # "free"
    <2>1. nd \in [Values -> Nodes]
        BY DEF Sound
    <2> QED  BY <2>1, ContainerIs
<1>2. IsTree(Kids(nd), c, T) /\ T \subseteq Values /\ c \in T /\ Forest(E, Kids(nd), Par(nd), R)
    BY <1>1, SoundTree
<1>3. Unused.type = "free" /\ Fits(Unused)
    BY DEF Unused, Fits, Containers
<1>4. /\ \A w \in T \ {c} : md[w] = Unused
      /\ \A w \in Values \ T : md[w] = nd[w]
    OBVIOUS
<1> HIDE DEF T
<1>5. Exist(md) = E \ (T \ {c})
    BY <1>1, <1>2, <1>3, <1>4 DEF Exist
<1>6. \A w \in T : Kids(md)[w] = {}
    BY <1>1, <1>2, <1>3, <1>4 DEF Kids, Children, Containers
<1>7. \A w \in Values \ T : Kids(md)[w] = Kids(nd)[w]
    BY <1>4 DEF Kids, Children
<1>8. \A w \in E \ (T \ {c}) : Par(md)[w] = Par(nd)[w]
    BY <1>4 DEF Par, Exist
<1>9. \A w \in Values : Fits(md[w])
    BY <1>3, <1>4 DEF Sound
<1> HIDE DEF E
<1>10. Forest(E \ (T \ {c}), Kids(md), Par(md), R)
    BY <1>1, <1>2, <1>6, <1>7, <1>8, ForestClear
<1> QED  BY <1>5, <1>9, <1>10 DEF Sound, E

\* The container has the members it had.
LEMMA SoundResized ==
    ASSUME NEW nd, NEW R, Sound(nd, R), NEW c \in Values, nd[c].type \in Containers,
           NEW k \in Nat, Len(nd[c].values) <= k
    PROVE  /\ Sound([nd EXCEPT ![c].capacity = k], R)
           /\ [nd EXCEPT ![c].capacity = k][c] = [nd[c] EXCEPT !.capacity = k]
           /\ \A u \in Values \ {c} : [nd EXCEPT ![c].capacity = k][u] = nd[u]
<1> DEFINE m == [nd[c] EXCEPT !.capacity = k]
           md == [nd EXCEPT ![c].capacity = k]
<1>1. nd \in [Values -> Nodes] /\ Forest(Exist(nd), Kids(nd), Par(nd), R)
    BY DEF Sound
<1>2. nd[c] \in ContainerNodes /\ nd[c].type \in Containers
    BY <1>1, ContainerIs
<1>3. /\ m \in ContainerNodes /\ m.type = nd[c].type /\ m.parent = nd[c].parent
      /\ m.names = nd[c].names /\ m.values = nd[c].values /\ m.capacity = k
    BY <1>2 DEF ContainerNodes
<1>4. md[c] = m /\ \A u \in Values \ {c} : md[u] = nd[u]
    BY <1>1
<1> HIDE DEF m
<1>5. md \in [Values -> Nodes]
    BY <1>1, <1>3 DEF Nodes, m
<1> HIDE DEF md
<1>6. Fits(m)
    BY <1>2, <1>3 DEF Fits, Sound
<1>7. \A u \in Values : Fits(md[u])
    BY <1>4, <1>6 DEF Sound
<1>8. Exist(md) = Exist(nd)
    BY <1>3, <1>4 DEF Exist
<1>9. \A u \in Values : Kids(md)[u] = Kids(nd)[u]
    BY <1>3, <1>4 DEF Kids, Children
<1>10. \A u \in Values : Par(md)[u] = Par(nd)[u]
    BY <1>3, <1>4 DEF Par
<1>11. Forest(Exist(nd), Kids(md), Par(md), R)
    <2>1. \A u \in Exist(nd) \ R : Par(md)[u] = Par(nd)[u]
        BY <1>10 DEF Exist
    <2> QED  BY <1>1, <1>9, <2>1, ForestSame
<1> QED  BY <1>4, <1>5, <1>7, <1>8, <1>11 DEF Sound, m, md

-----------------------------------------------------------------------------
(* The calls that change a container. *)

LEMMA ResizeIs ==
    ASSUME NEW h, NEW R, NEW d, Heap(h, R, d), NEW c \in Values, h.node[c].type \in Containers,
           NEW k \in Nat, Len(h.node[c].values) <= k
    PROVE  /\ ~Resize(h, c, k).ok => Resize(h, c, k) = Failed(h)
           /\ Resize(h, c, k).ok =>
                 /\ h.ok /\ Heap(Resize(h, c, k), R, d)
                 /\ Resize(h, c, k).node = [h.node EXCEPT ![c].capacity = k]
                 /\ Resize(h, c, k).value = h.value /\ Resize(h, c, k).text = h.text
<1> DEFINE a == ArraysOf(h.node[c])
           g == Alloc(h, a)
           md == [h.node EXCEPT ![c].capacity = k]
           f == [g EXCEPT !.node[c].capacity = k]
           old == IF h.node[c].capacity > 0 THEN a ELSE 0
           r == Resize(h, c, k)
<1>0. h \in Heaps /\ Sound(h.node, R) /\ Debt(h) = d /\ h.node \in [Values -> Nodes] /\ d \in Int
    BY DebtIsInt DEF Heap, Sound
<1>a. a \in Nat /\ old \in Nat
    BY DEF ArraysOf
<1>1. CASE k = 0 \/ ~g.ok
    <2>1. r = Failed(h)
        BY <1>1 DEF Resize
    <2> QED  BY <1>0, <2>1, FailedIs
<1>2. CASE k # 0 /\ g.ok
    <2>1. r = FreeBlocks(f, old)
        BY <1>2 DEF Resize
    <2>2. /\ g \in Heaps /\ g.node = h.node /\ h.ok /\ g.ok /\ Debt(g) = d + a
          /\ g.value = h.value /\ g.text = h.text
        BY <1>0, <1>2, <1>a, AllocIs
    <2>3. /\ Sound(md, R) /\ md[c] = [h.node[c] EXCEPT !.capacity = k]
          /\ \A u \in Values \ {c} : md[u] = h.node[u]
        BY <1>0, SoundResized
    <2>4. md \in [Values -> Nodes] /\ f = [g EXCEPT !.node = md]
        BY <2>2, <2>3 DEF Sound
    <2>5. h.node[c] \in ContainerNodes
        BY <1>0, ContainerIs
    <2>6. /\ md[c].type = h.node[c].type /\ md[c].names = h.node[c].names /\ md[c].capacity = k
          /\ md[c] \in Nodes /\ h.node[c] \in Nodes
        BY <1>0, <2>3, <2>4, <2>5 DEF ContainerNodes
    <2> HIDE DEF g, md, f, r
    <2>7. /\ f \in Heaps /\ f.node = md /\ f.ok = g.ok /\ f.value = g.value /\ f.text = g.text
          /\ Debt(f) + Weight(md) = d + a + Weight(h.node) /\ Debt(f) \in Int
        <3>1. g \in Heaps
            BY <2>2
        <3>2. /\ f \in Heaps /\ f.node = md /\ f.ok = g.ok /\ f.value = g.value /\ f.text = g.text
              /\ Debt(f) + Weight(md) = Debt(g) + Weight(g.node) /\ Debt(f) \in Int
            BY <2>4, <3>1, NodesIs
        <3> QED  BY <2>2, <3>2
    <2>8. /\ Weight(md) + OwnBlocks(h.node[c]) = Weight(h.node) + OwnBlocks(md[c])
          /\ Weight(h.node) \in Nat /\ Weight(md) \in Nat
        <3>1. \A u \in Values \ {c} : OwnBlocks(md[u]) = OwnBlocks(h.node[u])
            BY <2>3
        <3> QED  BY <1>0, <2>4, <3>1, WeightOne
    <2>9. OwnBlocks(h.node[c]) = 2 + Len(h.node[c].names) + old
        BY <2>6, OwnBlocksOf
    <2>10. OwnBlocks(md[c]) = 2 + Len(h.node[c].names) + a
        <3>1. ArraysOf(md[c]) = a /\ md[c].capacity > 0
            BY <1>2, <2>6 DEF ArraysOf
        <3>2. OwnBlocks(md[c]) = 2 + Len(md[c].names)
                                   + (IF md[c].capacity > 0 THEN ArraysOf(md[c]) ELSE 0)
            BY <2>6, OwnBlocksOf
        <3> QED  BY <2>6, <3>1, <3>2
    <2>11. PICK n \in Nat : Len(h.node[c].names) = n
        BY <2>5 DEF ContainerNodes
    <2> HIDE DEF a, old
    <2>12. PICK w \in Nat, x \in Nat, b \in Nat, o \in Nat, e \in Int :
              Weight(md) = w /\ Weight(h.node) = x /\ a = b /\ old = o /\ Debt(f) = e
        BY <1>a, <2>7, <2>8
    <2>13. w + (2 + n + o) = x + (2 + n + b) /\ e + w = d + b + x
        BY <2>7, <2>8, <2>9, <2>10, <2>11, <2>12
    <2>14. e = d + o
        BY <1>0, <2>13
    <2>15. /\ r \in Heaps /\ r.node = md /\ r.ok = f.ok /\ r.value = f.value /\ r.text = f.text
           /\ Debt(r) = e - o
        BY <1>a, <2>1, <2>7, <2>12, FreeBlocksIs
    <2>16. e - o = d
        BY <1>0, <2>14
    <2>17. Heap(r, R, d)
        BY <2>3, <2>15, <2>16 DEF Heap
    <2>18. r.node = md /\ r.value = h.value /\ r.text = h.text /\ r.ok
        BY <2>2, <2>7, <2>15
    <2> QED  BY <2>2, <2>17, <2>18 DEF md, r
<1> QED  BY <1>1, <1>2

\* Room for one more, and nothing else is changed.
Roomy(nd, md, c) ==
    /\ \A u \in Values \ {c} : md[u] = nd[u]
    /\ md[c].type = nd[c].type /\ md[c].parent = nd[c].parent
    /\ md[c].names = nd[c].names /\ md[c].values = nd[c].values

LEMMA GrowIs ==
    ASSUME NEW h, NEW R, NEW d, Heap(h, R, d), NEW c \in Values, h.node[c].type \in Containers
    PROVE  /\ ~Grow(h, c).ok => Grow(h, c) = Failed(h) \/ ~h.ok
           /\ Grow(h, c).ok =>
                 /\ h.ok /\ Heap(Grow(h, c), R, d) /\ Roomy(h.node, Grow(h, c).node, c)
                 /\ Len(h.node[c].values) + 1 <= Grow(h, c).node[c].capacity
                 /\ Grow(h, c).value = h.value /\ Grow(h, c).text = h.text
<1> DEFINE n == h.node[c]
           k == Max({2 * n.capacity, StartCapacity})
           r == Grow(h, c)
<1>1. h.node \in [Values -> Nodes] /\ Fits(n)
    BY DEF Heap, Sound
<1>2. n \in ContainerNodes
    BY <1>1, ContainerIs
<1>3. PICK x \in Nat, l \in Nat : n.capacity = x /\ Len(n.values) = l
    BY <1>2 DEF ContainerNodes
<1>4. l <= x
    BY <1>1, <1>3 DEF Fits
<1>5. CASE ~(l >= x)
    <2>1. r = h
        BY <1>3, <1>5 DEF Grow
    <2>2. l + 1 <= x
        BY <1>5
    <2> QED  BY <1>3, <2>1, <2>2 DEF Roomy
<1>6. CASE l >= x
    <2>1. r = Resize(h, c, k)
        BY <1>3, <1>6 DEF Grow
    <2>2. k \in Nat /\ k >= 2 * x /\ k >= StartCapacity
        <3> DEFINE a == 2 * x
        <3>1. StartCapacity \in Nat /\ a \in Nat
            BY BoundsAssumption
        <3> HIDE DEF a
        <3>2. \E m \in {a, StartCapacity} : \A y \in {a, StartCapacity} : m >= y
            <4>1. CASE a >= StartCapacity
                BY <3>1, <4>1
            <4>2. CASE a < StartCapacity
                BY <3>1, <4>2
            <4> QED  BY <3>1, <4>1, <4>2
        <3>3. /\ Max({a, StartCapacity}) \in {a, StartCapacity}
              /\ \A y \in {a, StartCapacity} : Max({a, StartCapacity}) >= y
            BY <3>2 DEF Max
        <3>4. k = Max({a, StartCapacity})
            BY <1>3 DEF a
        <3> QED  BY <3>1, <3>3, <3>4 DEF a
    <2> HIDE DEF k
    <2>3. PICK z \in Nat : k = z
        BY <2>2
    <2>4. l + 1 <= z
        <3>1. StartCapacity \in Nat /\ StartCapacity > 0
            BY BoundsAssumption
        <3> QED  BY <1>4, <1>6, <2>2, <2>3, <3>1
    <2>5. Len(n.values) <= z /\ r = Resize(h, c, z)
        BY <1>3, <2>1, <2>3, <2>4
    <2> HIDE DEF r
    <2>6. CASE ~r.ok
        <3>1. r = Failed(h)
            BY <2>5, <2>6, ResizeIs
        <3> QED  BY <2>6, <3>1 DEF r
    <2>7. CASE r.ok
        <3>1. /\ h.ok /\ Heap(r, R, d) /\ r.node = [h.node EXCEPT ![c].capacity = z]
              /\ r.value = h.value /\ r.text = h.text
            BY <2>5, <2>7, ResizeIs
        <3>2. /\ \A u \in Values \ {c} : r.node[u] = h.node[u]
              /\ r.node[c] = [n EXCEPT !.capacity = z]
            BY <1>1, <3>1
        <3>3. r.node[c].capacity = z /\ Roomy(h.node, r.node, c)
            BY <1>2, <3>2 DEF ContainerNodes, Roomy
        <3>4. Len(n.values) + 1 <= r.node[c].capacity
            BY <1>3, <2>4, <3>3
        <3> QED  BY <2>7, <3>1, <3>3, <3>4 DEF r
    <2> QED  BY <2>6, <2>7
<1> QED  BY <1>5, <1>6

\* The root v is now the last member of c.
Joined(nd, md, c, v) ==
    /\ \A u \in Values \ {c, v} : md[u] = nd[u]
    /\ md[v] = Under(nd[v], c)
    /\ md[c].type = nd[c].type /\ md[c].parent = nd[c].parent
    /\ md[c].values = Append(nd[c].values, v)

\* The names of c are as many as its values, if it has any; k of them are new.
Counted(nd, md, c, k) ==
    /\ k = (IF nd[c].type = "object" THEN 1 ELSE 0)
    /\ IsInjective(md[c].names) /\ Len(md[c].names) = Len(nd[c].names) + k
    /\ md[c].capacity = nd[c].capacity /\ Len(nd[c].values) + 1 <= nd[c].capacity

LEMMA JoinIs ==
    ASSUME NEW nd, NEW R, Sound(nd, R), NEW v \in R, NEW c \in Values, nd[c].type \in Containers,
           c \notin Tree(nd, v), NEW md \in [Values -> Nodes], Joined(nd, md, c, v),
           NEW k \in Nat, Counted(nd, md, c, k)
    PROVE  /\ Sound(md, R \ {v}) /\ Exist(md) = Exist(nd) /\ v # c
           /\ Weight(md) = Weight(nd) + k
<1>1. nd \in [Values -> Nodes] /\ Fits(nd[c]) /\ Forest(Exist(nd), Kids(nd), Par(nd), R)
    BY DEF Sound
<1>2. /\ nd[c] \in ContainerNodes /\ c \in Exist(nd) /\ nd[c].values \in Seq(Values)
      /\ Kids(nd)[c] = ToSet(nd[c].values) /\ nd[c].capacity \in Nat /\ nd[c].names \in Seq(Keys)
    BY <1>1, ContainerIs
<1>3. v \in Exist(nd) /\ v \in Values /\ v \in Tree(nd, v) /\ v # c
    <2>1. v \in Exist(nd)
        BY <1>1 DEF Forest
    <2> QED  BY <2>1, SoundTree
<1>4. nd[v] \in Nodes /\ nd[v].type # "free" /\ c \in Parents
    BY <1>1, <1>3 DEF Exist, Parents
<1>5. /\ \A u \in Values \ {c, v} : md[u] = nd[u]
      /\ md[v] = Under(nd[v], c) /\ md[c].type = nd[c].type /\ md[c].parent = nd[c].parent
    BY DEF Joined
<1>6. OwnBlocks(md[v]) = OwnBlocks(nd[v])
    BY <1>4, <1>5, ReparentIs
<1>7. md[c] \in Nodes /\ nd[c] \in Nodes
    BY <1>1
<1>8. PICK l \in Nat, x \in Nat, m \in Nat :
            Len(nd[c].values) = l /\ nd[c].capacity = x /\ Len(nd[c].names) = m
    BY <1>2
<1>9. /\ Len(md[c].values) = l + 1 /\ ToSet(md[c].values) = ToSet(nd[c].values) \cup {v}
      /\ IsInjective(md[c].values)
    <2>1. v \notin ToSet(nd[c].values) /\ IsInjective(nd[c].values)
        BY <1>1, <1>2 DEF Forest, Fits
    <2>2. md[c].values = Append(nd[c].values, v)
        BY DEF Joined
    <2> QED  BY <1>2, <1>3, <1>8, <2>1, <2>2, AppendIs
<1>10. /\ Len(md[c].names) = m + k /\ md[c].capacity = x /\ l + 1 <= x
       /\ IsInjective(md[c].names) /\ k = (IF nd[c].type = "object" THEN 1 ELSE 0)
    BY <1>8 DEF Counted
<1>11. Fits(md[c])
    <2>1. m = IF nd[c].type = "object" THEN l ELSE 0
        BY <1>1, <1>8 DEF Fits
    <2>2. Len(md[c].names) = IF md[c].type = "object" THEN l + 1 ELSE 0
        <3>1. CASE nd[c].type = "object"
            BY <1>5, <1>10, <2>1, <3>1
        <3>2. CASE nd[c].type # "object"
            BY <1>5, <1>10, <2>1, <3>2
        <3> QED  BY <3>1, <3>2
    <2> QED  BY <1>9, <1>10, <2>2 DEF Fits
<1>12. Sound(md, R \ {v}) /\ Exist(md) = Exist(nd)
    <2>1. c \in Exist(nd)
        BY <1>2
    <2>2. ToSet(md[c].values) = ToSet(nd[c].values) \cup {v}
        BY <1>9
    <2> QED  BY <1>5, <1>11, <2>1, <2>2, SoundAttach
<1>13. Weight(md) = Weight(nd) + k
    <2>1. \A u \in Values \ {c} : OwnBlocks(md[u]) = OwnBlocks(nd[u])
        BY <1>5, <1>6
    <2>2. /\ Weight(md) + OwnBlocks(nd[c]) = Weight(nd) + OwnBlocks(md[c])
          /\ Weight(nd) \in Nat /\ Weight(md) \in Nat
        BY <1>1, <2>1, WeightOne
    <2>3. ArraysOf(md[c]) = ArraysOf(nd[c]) /\ ArraysOf(md[c]) \in Nat
        BY <1>5 DEF ArraysOf
    <2>4. PICK b \in Nat : (IF x > 0 THEN ArraysOf(nd[c]) ELSE 0) = b
        BY <2>3
    <2>5. OwnBlocks(nd[c]) = 2 + m + b
        BY <1>7, <1>8, <2>4, OwnBlocksOf
    <2>6. OwnBlocks(md[c]) = 2 + (m + k) + b
        BY <1>5, <1>7, <1>10, <2>3, <2>4, OwnBlocksOf
    <2> QED  BY <2>2, <2>5, <2>6
<1> QED  BY <1>3, <1>12, <1>13

LEMMA IndexOfIs ==
    ASSUME NEW nd \in [Values -> Nodes], NEW o \in Values, nd[o].type \in Containers, NEW name
    PROVE  /\ IndexOf(nd[o], name) \in 0 .. Len(nd[o].names)
           /\ IndexOf(nd[o], name) = 0 => name \notin ToSet(nd[o].names)
           /\ IndexOf(nd[o], name) # 0 => nd[o].names[IndexOf(nd[o], name)] = name
<1> DEFINE s == nd[o].names
<1>1. s \in Seq(Keys)
    BY ContainerIs
<1> HIDE DEF s
<1>2. DOMAIN s = 1 .. Len(s) /\ Len(s) \in Nat
    BY <1>1
<1>3. CASE name \in ToSet(s)
    <2>1. IndexOf(nd[o], name) = CHOOSE i \in DOMAIN s : s[i] = name
        BY <1>3 DEF IndexOf, s
    <2>2. \E i \in DOMAIN s : s[i] = name
        BY <1>3 DEF ToSet
    <2>3. IndexOf(nd[o], name) \in 1 .. Len(s) /\ s[IndexOf(nd[o], name)] = name
        BY <1>2, <2>1, <2>2
    <2> QED  BY <1>2, <2>3 DEF s
<1>4. CASE name \notin ToSet(s)
    <2>1. IndexOf(nd[o], name) = 0
        BY <1>4 DEF IndexOf, s
    <2> QED  BY <1>2, <1>4, <2>1 DEF s
<1> QED  BY <1>3, <1>4

\* A tree whose values keep their children stays as it is.
LEMMA TreeKept ==
    ASSUME NEW nd \in [Values -> Nodes], NEW md \in [Values -> Nodes], NEW v \in Values,
           \A u \in Tree(nd, v) : Children(md, u) = Children(nd, u)
    PROVE  Tree(md, v) = Tree(nd, v)
<1> DEFINE T == Tree(nd, v)
           U == Tree(md, v)
<1>1. IsTree(Kids(nd), v, T) /\ IsTree(Kids(md), v, U)
    BY TreeIsTree
<1>2. \A u \in T : Kids(md)[u] = Kids(nd)[u]
    BY <1>1 DEF Kids, IsTree
<1>3. IsTree(Kids(md), v, T)
    <2> HIDE DEF T, U
    <2> QED  BY <1>1, <1>2, SameTree
<1> QED  BY <1>1, <1>3 DEF IsTree

LEMMA RoomyIs ==
    ASSUME NEW nd \in [Values -> Nodes], NEW md \in [Values -> Nodes], NEW c \in Values,
           Roomy(nd, md, c)
    PROVE  /\ Exist(md) = Exist(nd) /\ \A u \in Values : Children(md, u) = Children(nd, u)
           /\ \A v \in Values : Tree(md, v) = Tree(nd, v)
<1>1. Exist(md) = Exist(nd)
    BY DEF Exist, Roomy
<1>2. \A u \in Values : Children(md, u) = Children(nd, u)
    BY DEF Children, Roomy
<1>3. ASSUME NEW v \in Values PROVE Tree(md, v) = Tree(nd, v)
    <2>1. \A u \in Tree(nd, v) : u \in Values
        BY TreeIsTree DEF IsTree
    <2> QED  BY <1>2, <2>1, TreeKept
<1> QED  BY <1>1, <1>2, <1>3

\* How adding the root v to c ends.
Adds(h, r, R, d, c, v) ==
    /\ ~r.ok => Heap(r, R, d) /\ Roomy(h.node, r.node, c)
    /\ r.ok  => /\ h.ok /\ Heap(r, R \ {v}, d) /\ Exist(r.node) = Exist(h.node)
                /\ Joined(h.node, r.node, c, v) /\ r.value = h.value /\ r.text = h.text

LEMMA AddsFailed ==
    ASSUME NEW h, NEW R, NEW d, Heap(h, R, d), NEW c, NEW v, NEW g, Heap(g, R, d),
           Roomy(h.node, g.node, c)
    PROVE  Adds(h, Failed(g), R, d, c, v)
<1>1. /\ Failed(g) \in Heaps /\ Failed(g).node = g.node /\ ~Failed(g).ok
      /\ Debt(Failed(g)) = Debt(g)
    BY FailedIs DEF Heap
<1> QED  BY <1>1 DEF Adds, Heap

\* From a heap g with room, in which b blocks are allocated for the name.
LEMMA AddsJoined ==
    ASSUME NEW h, NEW R, NEW d, Heap(h, R, d), h.ok,
           NEW c \in Values, h.node[c].type \in Containers,
           NEW v \in R, c \notin Tree(h.node, v),
           NEW g, NEW k \in Nat, g \in Heaps, Sound(g.node, R), Debt(g) = d + k, g.ok,
           Roomy(h.node, g.node, c), g.value = h.value, g.text = h.text,
           NEW md \in [Values -> Nodes], Joined(g.node, md, c, v), Counted(g.node, md, c, k),
           NEW r, r = [g EXCEPT !.node = md]
    PROVE  r.ok /\ Adds(h, r, R, d, c, v) /\ r.node = md
<1>1. h.node \in [Values -> Nodes] /\ g.node \in [Values -> Nodes] /\ d \in Int
    BY DebtIsInt DEF Heap, Sound
<1>2. v \in Values
    BY DEF Heap, Sound, Forest
<1>3. c \notin Tree(g.node, v) /\ Exist(g.node) = Exist(h.node) /\ g.node[c].type \in Containers
    <2>1. g.node[c].type \in Containers
        BY DEF Roomy
    <2> QED  BY <1>1, <1>2, <2>1, RoomyIs
<1>4. /\ Sound(md, R \ {v}) /\ Exist(md) = Exist(h.node) /\ v # c
      /\ Weight(md) = Weight(g.node) + k
    BY <1>3, JoinIs
<1>5. /\ r \in Heaps /\ r.node = md /\ r.ok = g.ok /\ r.value = g.value /\ r.text = g.text
      /\ Debt(r) + Weight(md) = d + k + Weight(g.node) /\ Debt(r) \in Int
    <2>1. /\ r \in Heaps /\ r.node = md /\ r.ok = g.ok /\ r.value = g.value /\ r.text = g.text
          /\ Debt(r) + Weight(md) = Debt(g) + Weight(g.node) /\ Debt(r) \in Int
        BY NodesIs
    <2> QED  BY <2>1
<1>6. Debt(r) = d
    <2>1. PICK x \in Nat, w \in Nat, e \in Int : Weight(g.node) = x /\ Weight(md) = w /\ Debt(r) = e
        BY <1>1, <1>5, WeightIsNat
    <2>2. w = x + k /\ e + w = d + k + x
        BY <1>4, <1>5, <2>1
    <2>3. e = d
        BY <1>1, <2>2
    <2> QED  BY <2>1, <2>3
<1>7. Heap(r, R \ {v}, d)
    BY <1>4, <1>5, <1>6 DEF Heap
<1>8. Joined(h.node, md, c, v)
    <2>1. /\ \A u \in Values \ {c} : g.node[u] = h.node[u]
          /\ g.node[c].type = h.node[c].type /\ g.node[c].parent = h.node[c].parent
          /\ g.node[c].values = h.node[c].values
        BY DEF Roomy
    <2>2. g.node[v] = h.node[v]
        BY <1>2, <1>4, <2>1
    <2> QED  BY <2>1, <2>2 DEF Joined
<1> QED  BY <1>4, <1>5, <1>7, <1>8 DEF Adds

LEMMA AddnIs ==
    ASSUME NEW h, NEW R, NEW d, Heap(h, R, d), NEW o \in Values, h.node[o].type = "object",
           NEW name \in Keys, NEW v \in R, o \notin Tree(h.node, v)
    PROVE  /\ Adds(h, json_object_addn(h, o, name, v), R, d, o, v)
           /\ json_object_addn(h, o, name, v).ok =>
                 /\ name \notin ToSet(h.node[o].names)
                 /\ json_object_addn(h, o, name, v).node[o].names = Append(h.node[o].names, name)
<1> DEFINE r == json_object_addn(h, o, name, v)
           g == Grow(h, o)
           f == Alloc(g, 1)
           n == [g.node[o] EXCEPT !.names = Append(@, name), !.values = Append(@, v)]
           md == [[g.node EXCEPT ![v] = Under(@, o)] EXCEPT ![o] = n]
<1>1. /\ h \in Heaps /\ h.node \in [Values -> Nodes] /\ Sound(h.node, R)
      /\ v \in Values /\ v \in Exist(h.node) /\ v # NULL
    BY ValuesAssumption DEF Heap, Sound, Forest, Exist
<1>2. h.node[o].type \in Containers
    BY DEF Containers
<1>3. /\ ~g.ok => g = Failed(h) \/ ~h.ok
      /\ g.ok => /\ h.ok /\ Heap(g, R, d) /\ Roomy(h.node, g.node, o)
                 /\ Len(h.node[o].values) + 1 <= g.node[o].capacity
                 /\ g.value = h.value /\ g.text = h.text
    BY <1>2, GrowIs
<1>4. Roomy(h.node, h.node, o)
    BY DEF Roomy
<1> HIDE DEF g, f
<1>5. CASE IndexOf(h.node[o], name) > 0 \/ ~g.ok
    <2>1. r = Failed(h)
        BY <1>5 DEF json_object_addn, g
    <2>2. ~r.ok
        BY <1>1, <2>1, FailedIs
    <2>3. Adds(h, r, R, d, o, v)
        BY <1>4, <2>1, AddsFailed
    <2> QED  BY <2>2, <2>3
<1>6. CASE ~(IndexOf(h.node[o], name) > 0) /\ g.ok /\ ~f.ok
    <2>1. r = Failed(g)
        BY <1>1, <1>6 DEF json_object_addn, g, f
    <2>2. ~r.ok
        BY <1>3, <1>6, <2>1, FailedIs DEF Heap
    <2>3. Adds(h, r, R, d, o, v)
        BY <1>3, <1>6, <2>1, AddsFailed
    <2> QED  BY <2>2, <2>3
<1>7. CASE ~(IndexOf(h.node[o], name) > 0) /\ g.ok /\ f.ok
    <2>1. r = [f EXCEPT !.node[v].parent = o,
                        !.node[o] = [g.node[o] EXCEPT !.names = Append(@, name),
                                                      !.values = Append(@, v)]]
        BY <1>1, <1>7 DEF json_object_addn, g, f
    <2>2. /\ g \in Heaps /\ Sound(g.node, R) /\ Debt(g) = d /\ h.ok /\ Roomy(h.node, g.node, o)
          /\ g.node \in [Values -> Nodes]
          /\ g.value = h.value /\ g.text = h.text
        BY <1>3, <1>7 DEF Heap, Sound
    <2>3. /\ f \in Heaps /\ f.node = g.node /\ f.ok /\ Debt(f) = d + 1
          /\ f.value = h.value /\ f.text = h.text
        <3>1. /\ Alloc(g, 1) \in Heaps /\ Alloc(g, 1).node = g.node
              /\ Alloc(g, 1).ok => /\ Debt(Alloc(g, 1)) = Debt(g) + 1
                                   /\ Alloc(g, 1).value = g.value /\ Alloc(g, 1).text = g.text
            BY <2>2, AllocIs
        <3> QED  BY <1>7, <2>2, <3>1 DEF f
    <2>4. v # o
        <3>1. v \in Tree(h.node, v)
            BY <1>1, SoundTree
        <3> QED  BY <3>1
    <2>5. /\ g.node[o].type = "object" /\ g.node[o].type = h.node[o].type
          /\ g.node[o].parent = h.node[o].parent /\ g.node[o].names = h.node[o].names
          /\ g.node[o].values = h.node[o].values
        BY <2>2 DEF Roomy
    <2>6. g.node[o] \in ContainerNodes
        BY <1>2, <2>2, <2>5, ContainerIs
    <2>7. g.node[v] \in Nodes /\ g.node[v].type # "free" /\ o \in Parents
        BY <1>1, <2>2, <2>4 DEF Roomy, Exist, Parents
    <2>8. Under(g.node[v], o) \in Nodes
        BY <2>7, ReparentIs
    <2>9. /\ n \in ContainerNodes /\ n.type = g.node[o].type /\ n.parent = g.node[o].parent
          /\ n.names = Append(g.node[o].names, name) /\ n.values = Append(g.node[o].values, v)
          /\ n.capacity = g.node[o].capacity
        <3>1. g.node[o].names \in Seq(Keys) /\ g.node[o].values \in Seq(Values)
            BY <2>6 DEF ContainerNodes
        <3>2. PICK s \in Seq(Keys), t \in Seq(Values) :
                  s = Append(g.node[o].names, name) /\ t = Append(g.node[o].values, v)
            BY <1>1, <3>1, AppendIs
        <3>3. n = [g.node[o] EXCEPT !.names = s, !.values = t]
            BY <3>2
        <3> HIDE DEF n
        <3>4. /\ n \in ContainerNodes /\ n.type = g.node[o].type /\ n.parent = g.node[o].parent
              /\ n.names = s /\ n.values = t /\ n.capacity = g.node[o].capacity
            BY <2>6, <3>3 DEF ContainerNodes
        <3> QED  BY <3>2, <3>4
    <2>10. r = [f EXCEPT !.node = md]
        BY <2>1, <2>3, <2>4 DEF Under
    <2> HIDE DEF n, r
    <2>11. /\ md \in [Values -> Nodes] /\ md[o] = n /\ md[v] = Under(g.node[v], o)
           /\ \A u \in Values \ {o, v} : md[u] = g.node[u]
        BY <1>1, <2>2, <2>4, <2>8, <2>9 DEF Nodes
    <2> HIDE DEF md
    <2>12. Joined(g.node, md, o, v)
        BY <2>9, <2>11 DEF Joined
    <2>13. name \notin ToSet(h.node[o].names)
        <3>1. IndexOf(h.node[o], name) \in 0 .. Len(h.node[o].names)
            BY <1>1, <1>2, IndexOfIs
        <3>2. Len(h.node[o].names) \in Nat
            BY <1>1, <1>2, ContainerIs
        <3>3. IndexOf(h.node[o], name) = 0
            BY <1>7, <3>1, <3>2
        <3> QED  BY <1>1, <1>2, <3>3, IndexOfIs
    <2>14. Counted(g.node, md, o, 1)
        <3>1. h.node[o].names \in Seq(Keys) /\ IsInjective(h.node[o].names)
            BY <1>1, <1>2, ContainerIs DEF Sound, Fits
        <3>2. IsInjective(md[o].names) /\ Len(md[o].names) = Len(g.node[o].names) + 1
            <4>1. PICK s \in Seq(Keys) : s = h.node[o].names
                BY <3>1
            <4>2. IsInjective(s) /\ name \notin ToSet(s)
                BY <2>13, <3>1, <4>1
            <4>3. IsInjective(Append(s, name)) /\ Len(Append(s, name)) = Len(s) + 1
                BY <4>2, AppendIs
            <4>4. md[o].names = Append(s, name) /\ g.node[o].names = s
                BY <2>5, <2>9, <2>11, <4>1
            <4> QED  BY <4>3, <4>4
        <3>3. md[o].capacity = g.node[o].capacity
            BY <2>9, <2>11
        <3>4. Len(g.node[o].values) + 1 <= g.node[o].capacity
            BY <1>3, <1>7, <2>5
        <3> QED  BY <2>5, <3>2, <3>3, <3>4 DEF Counted
    <2>15. Joined(f.node, md, o, v) /\ Counted(f.node, md, o, 1) /\ Sound(f.node, R)
           /\ Roomy(h.node, f.node, o) /\ md \in [Values -> Nodes] /\ f \in Heaps
        BY <2>2, <2>3, <2>11, <2>12, <2>14
    <2>16. r.ok /\ Adds(h, r, R, d, o, v) /\ r.node = md
        <3>1. h.ok /\ f.ok /\ f.value = h.value /\ f.text = h.text /\ Debt(f) = d + 1
            BY <2>2, <2>3
        <3> QED  BY <1>2, <2>10, <2>15, <3>1, AddsJoined
    <2>17. r.node[o].names = Append(h.node[o].names, name)
        BY <2>5, <2>9, <2>11, <2>16
    <2> QED  BY <2>13, <2>16, <2>17 DEF r
<1> QED  BY <1>5, <1>6, <1>7

LEMMA ArrayAddIs ==
    ASSUME NEW h, NEW R, NEW d, Heap(h, R, d), NEW a \in Values, h.node[a].type = "array",
           NEW v \in R, a \notin Tree(h.node, v)
    PROVE  Adds(h, json_array_add(h, a, v), R, d, a, v)
<1> DEFINE r == json_array_add(h, a, v)
           g == Grow(h, a)
           n == [g.node[a] EXCEPT !.values = Append(@, v)]
           md == [[g.node EXCEPT ![v] = Under(@, a)] EXCEPT ![a] = n]
<1>1. /\ h \in Heaps /\ h.node \in [Values -> Nodes] /\ Sound(h.node, R)
      /\ v \in Values /\ v \in Exist(h.node)
    BY DEF Heap, Sound, Forest, Exist
<1>2. h.node[a].type \in Containers
    BY DEF Containers
<1>3. /\ ~g.ok => g = Failed(h) \/ ~h.ok
      /\ g.ok => /\ h.ok /\ Heap(g, R, d) /\ Roomy(h.node, g.node, a)
                 /\ Len(h.node[a].values) + 1 <= g.node[a].capacity
                 /\ g.value = h.value /\ g.text = h.text
    BY <1>2, GrowIs
<1> HIDE DEF g
<1>4. CASE ~g.ok
    <2>1. r = Failed(h)
        BY <1>4 DEF json_array_add, g
    <2>2. Roomy(h.node, h.node, a)
        BY DEF Roomy
    <2> QED  BY <2>1, <2>2, AddsFailed
<1>5. CASE g.ok
    <2>1. r = [g EXCEPT !.node[v].parent = a, !.node[a].values = Append(@, v)]
        BY <1>5 DEF json_array_add, g
    <2>2. /\ g \in Heaps /\ Sound(g.node, R) /\ Debt(g) = d /\ h.ok /\ Roomy(h.node, g.node, a)
          /\ g.node \in [Values -> Nodes] /\ d \in Int
          /\ g.value = h.value /\ g.text = h.text
        BY <1>3, <1>5, DebtIsInt DEF Heap, Sound
    <2>3. v # a
        <3>1. v \in Tree(h.node, v)
            BY <1>1, SoundTree
        <3> QED  BY <3>1
    <2>4. /\ g.node[a].type = "array" /\ g.node[a].type = h.node[a].type
          /\ g.node[a].values = h.node[a].values
        BY <2>2 DEF Roomy
    <2>5. g.node[a] \in ContainerNodes
        BY <1>2, <2>2, <2>4, ContainerIs
    <2>6. g.node[v] \in Nodes /\ g.node[v].type # "free" /\ a \in Parents
        BY <1>1, <2>2, <2>3 DEF Roomy, Exist, Parents
    <2>7. Under(g.node[v], a) \in Nodes
        BY <2>6, ReparentIs
    <2>8. /\ n \in ContainerNodes /\ n.type = g.node[a].type /\ n.parent = g.node[a].parent
          /\ n.names = g.node[a].names /\ n.values = Append(g.node[a].values, v)
          /\ n.capacity = g.node[a].capacity
        <3>1. PICK t \in Seq(Values) : t = Append(g.node[a].values, v)
            <4>1. g.node[a].values \in Seq(Values)
                BY <2>5 DEF ContainerNodes
            <4> QED  BY <1>1, <4>1, AppendIs
        <3>2. n = [g.node[a] EXCEPT !.values = t]
            BY <3>1
        <3> HIDE DEF n
        <3>3. /\ n \in ContainerNodes /\ n.type = g.node[a].type /\ n.parent = g.node[a].parent
              /\ n.names = g.node[a].names /\ n.values = t /\ n.capacity = g.node[a].capacity
            BY <2>5, <3>2 DEF ContainerNodes
        <3> QED  BY <3>1, <3>3
    <2>9. r = [g EXCEPT !.node = md]
        BY <2>1, <2>3 DEF Under
    <2> HIDE DEF n, r
    <2>10. /\ md \in [Values -> Nodes] /\ md[a] = n /\ md[v] = Under(g.node[v], a)
           /\ \A u \in Values \ {a, v} : md[u] = g.node[u]
        BY <1>1, <2>2, <2>3, <2>7, <2>8 DEF Nodes
    <2> HIDE DEF md
    <2>11. Joined(g.node, md, a, v)
        BY <2>8, <2>10 DEF Joined
    <2>12. Counted(g.node, md, a, 0)
        <3>1. g.node[a].names \in Seq(Keys) /\ IsInjective(g.node[a].names)
            BY <1>2, <2>2, <2>4, ContainerIs DEF Sound, Fits
        <3>2. IsInjective(md[a].names) /\ Len(md[a].names) = Len(g.node[a].names) + 0
            BY <2>8, <2>10, <3>1
        <3>3. md[a].capacity = g.node[a].capacity
            BY <2>8, <2>10
        <3>4. Len(g.node[a].values) + 1 <= g.node[a].capacity
            BY <1>3, <1>5, <2>4
        <3> QED  BY <2>4, <3>2, <3>3, <3>4 DEF Counted
    <2>13. Debt(g) = d + 0
        BY <2>2
    <2>14. r.ok /\ Adds(h, r, R, d, a, v) /\ r.node = md
        BY <1>2, <1>5, <2>2, <2>9, <2>10, <2>11, <2>12, <2>13, AddsJoined
    <2> QED  BY <2>14 DEF r
<1> QED  BY <1>4, <1>5

LEMMA MemberIs ==
    ASSUME NEW nd, NEW R, Sound(nd, R), NEW c \in Values, nd[c].type \in Containers,
           NEW i \in 1 .. Len(nd[c].values)
    PROVE  /\ nd[c].values[i] \in Children(nd, c) /\ nd[c].values[i] \in Values
           /\ nd[c].values \in Seq(Values) /\ IsInjective(nd[c].values)
<1>1. nd[c].values \in Seq(Values) /\ Children(nd, c) = ToSet(nd[c].values)
    BY ContainerIs DEF Sound
<1>2. IsInjective(nd[c].values)
    BY DEF Sound, Fits
<1> QED  BY <1>1, <1>2 DEF ToSet

\* What is below a value of a tree is in the tree.
LEMMA TreeBelow ==
    ASSUME NEW nd \in [Values -> Nodes], NEW c \in Values
    PROVE  /\ c \in Tree(nd, c) /\ Tree(nd, c) \subseteq Values
           /\ \A u \in Tree(nd, c) : /\ Tree(nd, u) \subseteq Tree(nd, c)
                                     /\ Children(nd, u) \subseteq Tree(nd, c)
<1>1. IsTree(Kids(nd), c, Tree(nd, c))
    BY TreeIsTree
<1>2. ASSUME NEW u \in Tree(nd, c)
      PROVE  Tree(nd, u) \subseteq Tree(nd, c) /\ Children(nd, u) \subseteq Tree(nd, c)
    <2>1. u \in Values
        BY <1>1 DEF IsTree
    <2>2. IsTree(Kids(nd), u, Tree(nd, u))
        BY <2>1, TreeIsTree
    <2>3. Kids(nd)[u] = Children(nd, u)
        BY <2>1 DEF Kids
    <2> QED  BY <1>1, <2>2, <2>3 DEF IsTree, Closed
<1> QED  BY <1>1, <1>2 DEF IsTree

\* Only a value that the program owns has no parent.
LEMMA NoParentIs ==
    ASSUME NEW h, NEW R, NEW d, Heap(h, R, d), NEW v \in Exist(h.node), HasNoParent(h, v)
    PROVE  v \in R
<1>1. SUFFICES ASSUME v \notin R PROVE FALSE
    OBVIOUS
<1>2. Forest(Exist(h.node), Kids(h.node), Par(h.node), R)
    BY DEF Heap, Sound
<1>3. Par(h.node)[v] \in Exist(h.node)
    BY <1>1, <1>2, ForestParent
<1>4. h.node[v].parent \in Values
    BY <1>3 DEF Par, Exist
<1> QED  BY <1>4, ValuesAssumption DEF HasNoParent

LEMMA GetIs ==
    ASSUME NEW nd, NEW R, Sound(nd, R), NEW o \in Values \cup {NULL}, NEW name,
           NEW u, u = json_object_get_value(nd, o, name), u # NULL
    PROVE  /\ o \in Values /\ nd[o].type = "object" /\ nd[o].type \in Containers
           /\ u \in Children(nd, o) /\ u \in Values /\ u \in Exist(nd)
           /\ IndexOf(nd[o], name) \in 1 .. Len(nd[o].values)
           /\ nd[o].values[IndexOf(nd[o], name)] = u
<1> DEFINE i == IndexOf(nd[o], name)
<1>1. o # NULL /\ nd[o].type = "object" /\ i > 0 /\ u = nd[o].values[i]
    BY DEF json_object_get_value
<1>2. o \in Values /\ nd[o].type \in Containers /\ nd \in [Values -> Nodes]
    BY <1>1 DEF Containers, Sound
<1>3. i \in 0 .. Len(nd[o].names)
    BY <1>2, IndexOfIs
<1>4. Len(nd[o].names) = Len(nd[o].values) /\ nd[o].names \in Seq(Keys)
    BY <1>1, <1>2, ContainerIs DEF Sound, Fits
<1>5. i \in 1 .. Len(nd[o].values)
    BY <1>1, <1>3, <1>4
<1> HIDE DEF i
<1>6. u \in Children(nd, o)
    BY <1>1, <1>2, <1>5, MemberIs
<1>7. u \in Exist(nd) /\ u \in Values
    BY <1>2, <1>6, MemberTrees
<1> QED  BY <1>1, <1>2, <1>5, <1>6, <1>7 DEF i

LEMMA GetFound ==
    ASSUME NEW nd \in [Values -> Nodes], NEW o \in Values, nd[o].type = "object",
           IsInjective(nd[o].names), NEW i \in 1 .. Len(nd[o].names), NEW name,
           nd[o].names[i] = name
    PROVE  json_object_get_value(nd, o, name) = nd[o].values[i]
<1>1. nd[o].type \in Containers /\ o # NULL
    BY ValuesAssumption DEF Containers
<1>2. PICK s \in Seq(Keys) : s = nd[o].names
    BY <1>1, ContainerIs
<1>3. IndexOf(nd[o], name) \in 0 .. Len(s) /\ Len(s) \in Nat /\ i \in 1 .. Len(s)
    BY <1>1, <1>2, IndexOfIs
<1>4. name \in ToSet(s)
    BY <1>2, <1>3 DEF ToSet
<1>5. IndexOf(nd[o], name) # 0
    BY <1>1, <1>2, <1>4, IndexOfIs
<1>6. s[IndexOf(nd[o], name)] = name
    BY <1>1, <1>2, <1>5, IndexOfIs
<1>7. IndexOf(nd[o], name) = i
    <2>1. IndexOf(nd[o], name) \in DOMAIN s /\ i \in DOMAIN s /\ s[i] = name /\ IsInjective(s)
        BY <1>2, <1>3, <1>5
    <2> QED  BY <1>6, <2>1 DEF IsInjective
<1>8. i > 0
    BY <1>3
<1> QED  BY <1>1, <1>7, <1>8 DEF json_object_get_value

\* How storing v below p ends: the rest of the heap stays as it is.
Sets(h, r, R, d, p, v) ==
    /\ r.ok  => v \in R /\ Heap(r, R \ {v}, d)
    /\ ~r.ok => Heap(r, R, d)
    /\ \A u \in Exist(h.node) \ (Tree(h.node, p) \cup Tree(h.node, v)) : r.node[u] = h.node[u]

LEMMA SetsFailed ==
    ASSUME NEW h, NEW R, NEW d, Heap(h, R, d), NEW p, NEW v
    PROVE  Sets(h, Failed(h), R, d, p, v) /\ ~Failed(h).ok
<1>1. /\ Failed(h) \in Heaps /\ Failed(h).node = h.node /\ ~Failed(h).ok
      /\ Debt(Failed(h)) = Debt(h)
    BY FailedIs DEF Heap
<1> QED  BY <1>1 DEF Sets, Heap

LEMMA SetsAdded ==
    ASSUME NEW h, NEW R, NEW d, Heap(h, R, d), NEW c \in Exist(h.node), NEW v \in R,
           NEW r, Adds(h, r, R, d, c, v)
    PROVE  Sets(h, r, R, d, c, v)
<1>1. Sound(h.node, R) /\ v \in Exist(h.node)
    BY DEF Heap, Sound, Forest
<1>2. c \in Tree(h.node, c) /\ v \in Tree(h.node, v)
    BY <1>1, SoundTree
<1>3. \A u \in Values \ {c, v} : r.node[u] = h.node[u]
    <2>1. ~r.ok => Roomy(h.node, r.node, c)
        BY DEF Adds
    <2>2. r.ok => Joined(h.node, r.node, c, v)
        BY DEF Adds
    <2>3. CASE r.ok
        BY <2>2, <2>3 DEF Joined
    <2>4. CASE ~r.ok
        BY <2>1, <2>4 DEF Roomy
    <2> QED  BY <2>3, <2>4
<1>4. \A u \in Exist(h.node) \ (Tree(h.node, c) \cup Tree(h.node, v)) : r.node[u] = h.node[u]
    BY <1>2, <1>3 DEF Exist
<1>5. (r.ok => Heap(r, R \ {v}, d)) /\ (~r.ok => Heap(r, R, d))
    BY DEF Adds
<1> QED  BY <1>4, <1>5 DEF Sets

\* A member of a container gives way to the root v.
LEMMA PutIs ==
    ASSUME NEW h, NEW R, NEW d, Heap(h, R, d), h.ok,
           NEW c \in Values, h.node[c].type \in Containers,
           NEW i \in 1 .. Len(h.node[c].values), NEW v \in R, c \notin Tree(h.node, v),
           NEW r, r = Put(json_value_free(h, h.node[c].values[i]), c, i, v)
    PROVE  /\ Sets(h, r, R, d, c, v) /\ r.ok /\ Others(h.node, r.node, c)
           /\ r.node[c].type = h.node[c].type /\ r.node[c].names = h.node[c].names
           /\ r.node[c].values = [h.node[c].values EXCEPT ![i] = v]
<1>0. PICK u : u = h.node[c].values[i]
    OBVIOUS
<1> DEFINE T == Tree(h.node, u)
           g == Free(h, T)
           n == [g.node[c] EXCEPT !.values = [g.node[c].values EXCEPT ![i] = v]]
           md == [[g.node EXCEPT ![v] = Under(g.node[v], c)] EXCEPT ![c] = n]
<1>1. /\ h \in Heaps /\ h.node \in [Values -> Nodes] /\ Sound(h.node, R) /\ Debt(h) = d
      /\ v \in Values /\ v \in Exist(h.node) /\ d \in Int
    BY DebtIsInt DEF Heap, Sound, Forest, Exist
<1>2. /\ u \in Children(h.node, c) /\ u \in Values /\ h.node[c].values \in Seq(Values)
      /\ IsInjective(h.node[c].values)
    BY <1>0, <1>1, MemberIs
<1>3. /\ T \subseteq Exist(h.node) /\ c \notin T /\ v \notin T /\ u \in T
    BY <1>1, <1>2, MemberTrees
<1>4. T \in SUBSET Values
    BY <1>3 DEF Exist
<1>5. v # c
    <2>1. v \in Tree(h.node, v)
        BY <1>1, SoundTree
    <2> QED  BY <2>1
<1>6. u # NULL
    BY <1>2, ValuesAssumption
<1>7. json_value_free(h, u) = g
    BY <1>6 DEF json_value_free
<1>8. r = [g EXCEPT !.node[v].parent = c, !.node[c].values[i] = v]
    <2>1. r = Put(g, c, i, v)
        BY <1>0, <1>7
    <2> HIDE DEF g
    <2> QED  BY <2>1, Zenon DEF Put
<1> HIDE DEF T
<1>9. /\ g \in Heaps
      /\ \A w \in Values : g.node[w] = IF w \in T THEN Unused ELSE h.node[w]
      /\ g.ok = h.ok /\ Debt(g) = d
    BY <1>1, <1>4, FreeIs
<1> HIDE DEF g
<1>10. g.node \in [Values -> Nodes] /\ g.node[c] = h.node[c] /\ g.node[v] = h.node[v]
    BY <1>1, <1>3, <1>9, HeapFields
<1>11. r = [g EXCEPT !.node = md]
    BY <1>5, <1>8, <1>10 DEF Under
<1>12. h.node[c] \in ContainerNodes
    BY <1>1, ContainerIs
<1>13. v \notin ToSet(h.node[c].values)
    <2>1. Children(h.node, c) \cap R = {} /\ Children(h.node, c) = ToSet(h.node[c].values)
        <3>1. Kids(h.node)[c] \cap R = {}
            BY <1>1 DEF Sound, Forest
        <3> QED  BY <1>1, <3>1, ContainerIs
    <2> QED  BY <2>1
<1>14. PICK t \in Seq(Values) :
            /\ t = [h.node[c].values EXCEPT ![i] = v] /\ Len(t) = Len(h.node[c].values)
            /\ ToSet(t) = (ToSet(h.node[c].values) \ {u}) \cup {v} /\ IsInjective(t)
    <2>1. PICK s \in Seq(Values) : s = h.node[c].values
        BY <1>2
    <2>2. i \in 1 .. Len(s) /\ IsInjective(s) /\ v \notin ToSet(s) /\ u = s[i] /\ v \in Values
        BY <1>0, <1>1, <1>2, <1>13, <2>1
    <2>3. /\ [s EXCEPT ![i] = v] \in Seq(Values) /\ Len([s EXCEPT ![i] = v]) = Len(s)
          /\ ToSet([s EXCEPT ![i] = v]) = (ToSet(s) \ {s[i]}) \cup {v}
          /\ IsInjective([s EXCEPT ![i] = v])
        BY <2>2, ReplaceIs
    <2> QED  BY <2>1, <2>2, <2>3
<1>15. n = [h.node[c] EXCEPT !.values = t]
    BY <1>10, <1>14
<1> HIDE DEF n
<1>16. /\ n \in ContainerNodes /\ n.type = h.node[c].type /\ n.parent = h.node[c].parent
       /\ n.names = h.node[c].names /\ n.values = t /\ n.capacity = h.node[c].capacity
    BY <1>12, <1>15 DEF ContainerNodes
<1>17. /\ h.node[v] \in Nodes /\ h.node[v].type # "free" /\ c \in Parents
    BY <1>1 DEF Exist, Parents
<1>18. /\ md \in [Values -> Nodes] /\ md[c] = n /\ md[v] = Under(h.node[v], c)
       /\ \A w \in Values \ {c, v} : md[w] = g.node[w]
    <2>1. Under(h.node[v], c) \in Nodes
        BY <1>17, ReparentIs
    <2> QED  BY <1>1, <1>5, <1>10, <1>16, <2>1 DEF Nodes
<1> HIDE DEF md
<1>19. Fits(md[c])
    <2>1. Fits(h.node[c])
        BY <1>1 DEF Sound
    <2> QED  BY <1>14, <1>16, <1>18, <2>1 DEF Fits
<1>20. Sound(md, R \ {v})
    <2>1. \A w \in T : md[w] = Unused
        BY <1>3, <1>4, <1>9, <1>18
    <2>2. \A w \in Values \ (T \cup {c, v}) : md[w] = h.node[w]
        BY <1>9, <1>18
    <2>3. /\ md[c].type = h.node[c].type /\ md[c].parent = h.node[c].parent
          /\ ToSet(md[c].values) = (ToSet(h.node[c].values) \ {u}) \cup {v}
        BY <1>14, <1>16, <1>18
    <2> QED  BY <1>1, <1>2, <1>18, <1>19, <2>1, <2>2, <2>3, SoundReplaced DEF T
<1>21. /\ r \in Heaps /\ r.node = md /\ r.ok = g.ok
       /\ Debt(r) + Weight(md) = Debt(g) + Weight(g.node) /\ Debt(r) \in Int
    <2>1. g \in Heaps /\ md \in [Values -> Nodes] /\ r = [g EXCEPT !.node = md]
        BY <1>9, <1>11, <1>18
    <2> QED  BY <2>1, NodesIs
<1>22. Debt(r) = d
    <2>1. OwnBlocks(md[v]) = OwnBlocks(g.node[v])
        BY <1>10, <1>17, <1>18, ReparentIs
    <2>2. \A w \in Values \ {c} : OwnBlocks(md[w]) = OwnBlocks(g.node[w])
        BY <1>18, <2>1
    <2>3. /\ Weight(md) + OwnBlocks(g.node[c]) = Weight(g.node) + OwnBlocks(md[c])
          /\ Weight(g.node) \in Nat /\ Weight(md) \in Nat
        BY <1>10, <1>18, <2>2, WeightOne
    <2>4. OwnBlocks(md[c]) = OwnBlocks(g.node[c]) /\ OwnBlocks(g.node[c]) \in Nat
        <3>1. n \in Nodes /\ h.node[c] \in Nodes /\ ArraysOf(n) = ArraysOf(h.node[c])
            BY <1>1, <1>16 DEF ArraysOf, Nodes
        <3> QED  BY <1>10, <1>16, <1>18, <3>1, OwnBlocksOf
    <2>5. PICK x \in Nat, y \in Nat, b \in Nat, e \in Int :
              /\ Weight(md) = x /\ Weight(g.node) = y /\ OwnBlocks(g.node[c]) = b /\ Debt(r) = e
        BY <1>21, <2>3, <2>4
    <2>6. x + b = y + b /\ e + x = d + y
        BY <1>9, <1>21, <2>3, <2>4, <2>5
    <2>7. e = d
        BY <1>1, <2>6
    <2> QED  BY <2>5, <2>7
<1>23. Heap(r, R \ {v}, d)
    BY <1>20, <1>21, <1>22 DEF Heap
<1>24. \A w \in Values \ (T \cup {c, v}) : r.node[w] = h.node[w]
    BY <1>9, <1>18, <1>21
<1>25. /\ r.node[c].type = h.node[c].type /\ r.node[c].names = h.node[c].names
       /\ r.node[c].values = [h.node[c].values EXCEPT ![i] = v]
    BY <1>14, <1>16, <1>18, <1>21
<1>26. r.ok
    BY <1>9, <1>21
<1>27. c \in Tree(h.node, c) /\ v \in Tree(h.node, v) /\ T \subseteq Tree(h.node, c)
    BY <1>1, <1>2, TreeBelow DEF T
<1>28. \A w \in Exist(h.node) \ (Tree(h.node, c) \cup Tree(h.node, v)) : r.node[w] = h.node[w]
    BY <1>24, <1>27 DEF Exist
<1>29. Others(h.node, r.node, c)
    <2>1. ASSUME NEW w \in Values \ {c, v} PROVE r.node[w] = Unused \/ Alike(h.node[w], r.node[w])
        <3>1. r.node[w] = Unused \/ r.node[w] = h.node[w]
            BY <1>9, <1>18, <1>21
        <3> QED  BY <3>1 DEF Alike, SameData
    <2>2. Alike(h.node[v], r.node[v])
        BY <1>17, <1>18, <1>21, UnderAlike
    <2> QED  BY <2>1, <2>2 DEF Others
<1> QED  BY <1>23, <1>25, <1>26, <1>28, <1>29 DEF Sets

LEMMA SetIs ==
    ASSUME NEW h, NEW R, NEW d, Heap(h, R, d), h.ok, NEW o \in Values, h.node[o].type = "object",
           NEW name \in Keys, NEW v \in Exist(h.node), v \in R => o \notin Tree(h.node, v),
           NEW r, r = json_object_set_value(h, o, name, v)
    PROVE  /\ Sets(h, r, R, d, o, v)
           /\ r.ok => json_object_get_value(r.node, o, name) = v
<1> DEFINE i == IndexOf(h.node[o], name)
<1>1. /\ h.node[o].type \in Containers /\ h.node \in [Values -> Nodes] /\ Sound(h.node, R)
      /\ v \in Values
    BY DEF Containers, Heap, Sound, Exist
<1>2. /\ h.node[o].names \in Seq(Keys) /\ h.node[o].values \in Seq(Values)
      /\ o \in Exist(h.node)
    BY <1>1, ContainerIs
<1>3. Len(h.node[o].names) = Len(h.node[o].values) /\ IsInjective(h.node[o].names)
    BY <1>1 DEF Sound, Fits
<1>4. i \in 0 .. Len(h.node[o].names) /\ (i # 0 => h.node[o].names[i] = name)
    BY <1>1, IndexOfIs
<1> HIDE DEF i
<1>5. CASE ~HasNoParent(h, v)
    <2>1. r = Failed(h)
        BY <1>5 DEF json_object_set_value
    <2> QED  BY <2>1, SetsFailed
<1>6. CASE HasNoParent(h, v) /\ i > 0
    <2>1. v \in R /\ o \notin Tree(h.node, v)
        BY <1>6, NoParentIs
    <2>2. i \in 1 .. Len(h.node[o].values) /\ i # 0
        BY <1>2, <1>3, <1>4, <1>6
    <2>3. r = Put(json_value_free(h, h.node[o].values[i]), o, i, v)
        BY <1>6 DEF json_object_set_value, i
    <2>4. /\ Sets(h, r, R, d, o, v) /\ r.ok
          /\ r.node[o].type = "object" /\ r.node[o].names = h.node[o].names
          /\ r.node[o].values = [h.node[o].values EXCEPT ![i] = v]
        BY <1>1, <2>1, <2>2, <2>3, PutIs
    <2> DEFINE md == r.node
    <2>5. md \in [Values -> Nodes] /\ md[o].type = "object"
        BY <2>4 DEF Sets, Heap, Sound
    <2>6. i \in 1 .. Len(md[o].names) /\ md[o].names[i] = name /\ IsInjective(md[o].names)
        BY <1>3, <1>4, <2>2, <2>4
    <2> HIDE DEF md
    <2>7. json_object_get_value(md, o, name) = md[o].values[i]
        BY <2>5, <2>6, GetFound
    <2>8. md[o].values[i] = v
        BY <1>2, <2>2, <2>4 DEF md
    <2> QED  BY <2>4, <2>7, <2>8 DEF md
<1>7. CASE HasNoParent(h, v) /\ ~(i > 0)
    <2>1. v \in R /\ o \notin Tree(h.node, v)
        BY <1>7, NoParentIs
    <2>2. r = json_object_addn(h, o, name, v)
        BY <1>7 DEF json_object_set_value, i
    <2>3. /\ Adds(h, r, R, d, o, v)
          /\ r.ok => /\ name \notin ToSet(h.node[o].names)
                     /\ r.node[o].names = Append(h.node[o].names, name)
        BY <2>1, <2>2, AddnIs
    <2>4. Sets(h, r, R, d, o, v)
        BY <1>2, <2>1, <2>3, SetsAdded
    <2>5. ASSUME r.ok PROVE json_object_get_value(r.node, o, name) = v
        <3>1. PICK s \in Seq(Keys), t \in Seq(Values) : s = h.node[o].names /\ t = h.node[o].values
            BY <1>2
        <3> DEFINE md == r.node
                   x  == Append(s, name)
        <3>2. /\ md[o].type = "object" /\ md[o].values = Append(t, v)
              /\ md[o].names = x /\ md \in [Values -> Nodes]
            BY <2>3, <2>5, <3>1 DEF Adds, Joined, Heap, Sound
        <3>3. PICK l \in Nat : Len(s) = l /\ Len(t) = l
            BY <1>3, <3>1
        <3>4. IsInjective(md[o].names)
            <4>1. Fits(md[o])
                BY <2>3, <2>5 DEF Adds, Heap, Sound
            <4> QED  BY <3>2, <4>1 DEF Fits, Containers
        <3>5. PICK k \in Nat : k = l + 1
            OBVIOUS
        <3>6. k \in 1 .. Len(x) /\ x[k] = name /\ Append(t, v)[k] = v
            BY <1>1, <3>3, <3>5
        <3> HIDE DEF md, x
        <3>7. k \in 1 .. Len(md[o].names) /\ md[o].names[k] = name
            BY <3>2, <3>6
        <3>8. md \in [Values -> Nodes] /\ md[o].type = "object"
            BY <3>2
        <3>9. json_object_get_value(md, o, name) = md[o].values[k]
            BY <3>4, <3>7, <3>8, GetFound
        <3> QED  BY <3>2, <3>6, <3>9 DEF md
    <2> QED  BY <2>4, <2>5
<1> QED  BY <1>5, <1>6, <1>7

LEMMA AppendValueIs ==
    ASSUME NEW h, NEW R, NEW d, Heap(h, R, d), NEW a \in Values, h.node[a].type = "array",
           NEW v \in Exist(h.node), v \in R => a \notin Tree(h.node, v),
           NEW r, r = json_array_append_value(h, a, v)
    PROVE  Sets(h, r, R, d, a, v)
<1>1. CASE ~HasNoParent(h, v)
    <2>1. r = Failed(h)
        BY <1>1 DEF json_array_append_value
    <2> QED  BY <2>1, SetsFailed
<1>2. CASE HasNoParent(h, v)
    <2>1. v \in R /\ a \notin Tree(h.node, v) /\ a \in Exist(h.node)
        BY <1>2, NoParentIs DEF Exist
    <2>2. r = json_array_add(h, a, v)
        BY <1>2 DEF json_array_append_value
    <2>3. Adds(h, r, R, d, a, v)
        BY <2>1, <2>2, ArrayAddIs
    <2> QED  BY <2>1, <2>3, SetsAdded
<1> QED  BY <1>1, <1>2

LEMMA ReplaceValueIs ==
    ASSUME NEW h, NEW R, NEW d, Heap(h, R, d), h.ok, NEW a \in Values, h.node[a].type = "array",
           NEW i \in Nat \ {0}, NEW v \in Exist(h.node), v \in R => a \notin Tree(h.node, v),
           NEW r, r = json_array_replace_value(h, a, i, v)
    PROVE  Sets(h, r, R, d, a, v)
<1>1. h.node[a].type \in Containers /\ h.node \in [Values -> Nodes]
    BY DEF Containers, Heap, Sound
<1>2. h.node[a].values \in Seq(Values)
    BY <1>1, ContainerIs
<1>3. CASE ~(HasNoParent(h, v) /\ i <= Len(h.node[a].values))
    <2>1. r = Failed(h)
        BY <1>3 DEF json_array_replace_value
    <2> QED  BY <2>1, SetsFailed
<1>4. CASE HasNoParent(h, v) /\ i <= Len(h.node[a].values)
    <2>1. v \in R /\ a \notin Tree(h.node, v)
        BY <1>4, NoParentIs
    <2>2. r = Put(json_value_free(h, h.node[a].values[i]), a, i, v)
        BY <1>4 DEF json_array_replace_value
    <2>3. i \in 1 .. Len(h.node[a].values)
        BY <1>2, <1>4
    <2> QED  BY <1>1, <2>1, <2>2, <2>3, PutIs
<1> QED  BY <1>3, <1>4

\* The node of a container is another one that has k names less.
Renewed(f, c, n) == [f EXCEPT !.node[c] = n]

Lighter(m, n, k) ==
    /\ m.type \in Containers /\ n \in ContainerNodes /\ n.type = m.type
    /\ n.capacity = m.capacity /\ k \in Nat /\ Len(n.names) + k = Len(m.names)

LEMMA RenewIs ==
    ASSUME NEW f \in Heaps, NEW c \in Values, NEW n, NEW k, Lighter(f.node[c], n, k)
    PROVE  /\ Renewed(f, c, n) \in Heaps /\ Renewed(f, c, n).node = [f.node EXCEPT ![c] = n]
           /\ Renewed(f, c, n).ok = f.ok
           /\ Renewed(f, c, n).value = f.value /\ Renewed(f, c, n).text = f.text
           /\ Debt(Renewed(f, c, n)) = Debt(f) + k
<1> DEFINE md == [f.node EXCEPT ![c] = n]
           r == Renewed(f, c, n)
<1>0. /\ f.node[c].type \in Containers /\ n \in ContainerNodes /\ n.type = f.node[c].type
      /\ n.capacity = f.node[c].capacity /\ k \in Nat /\ Len(n.names) + k = Len(f.node[c].names)
    BY DEF Lighter
<1>1. f.node \in [Values -> Nodes]
    BY HeapFields
<1>2. /\ md \in [Values -> Nodes] /\ md[c] = n /\ \A u \in Values \ {c} : md[u] = f.node[u]
      /\ n \in Nodes
    BY <1>0, <1>1 DEF Nodes
<1>3. r = [f EXCEPT !.node = md]
    BY DEF Renewed
<1> HIDE DEF md, r
<1>4. /\ r \in Heaps /\ r.node = md /\ r.ok = f.ok /\ r.value = f.value /\ r.text = f.text
      /\ Debt(r) + Weight(md) = Debt(f) + Weight(f.node) /\ Debt(r) \in Int /\ Debt(f) \in Int
    <2>1. ASSUME NEW g, g = [f EXCEPT !.node = md]
          PROVE  /\ g \in Heaps /\ g.node = md /\ g.ok = f.ok /\ g.value = f.value /\ g.text = f.text
                 /\ Debt(g) + Weight(md) = Debt(f) + Weight(f.node)
                 /\ Debt(g) \in Int /\ Debt(f) \in Int
        BY <1>2, <2>1, NodesIs
    <2> QED  BY <1>3, <2>1
<1>5. /\ Weight(md) + OwnBlocks(f.node[c]) = Weight(f.node) + OwnBlocks(md[c])
      /\ Weight(f.node) \in Nat /\ Weight(md) \in Nat
    <2>1. \A u \in Values \ {c} : OwnBlocks(md[u]) = OwnBlocks(f.node[u])
        BY <1>2
    <2> QED  BY <1>1, <1>2, <2>1, WeightOne
<1>6. PICK l \in Nat, m \in Nat : Len(n.names) = l /\ Len(f.node[c].names) = m
    <2>1. n.names \in Seq(Keys) /\ f.node[c].names \in Seq(Keys)
        BY <1>0, <1>1, ContainerIs DEF ContainerNodes
    <2> QED  BY <2>1
<1>7. PICK b \in Nat : (IF n.capacity > 0 THEN ArraysOf(n) ELSE 0) = b
    BY DEF ArraysOf
<1>8. OwnBlocks(md[c]) = 2 + l + b
    BY <1>0, <1>2, <1>6, <1>7, OwnBlocksOf
<1>9. OwnBlocks(f.node[c]) = 2 + m + b
    <2>1. ArraysOf(f.node[c]) = ArraysOf(n)
        BY <1>0 DEF ArraysOf
    <2>2. f.node[c] \in Nodes
        BY <1>1
    <2> QED  BY <1>0, <1>6, <1>7, <2>1, <2>2, OwnBlocksOf
<1>10. PICK x \in Nat, y \in Nat, e \in Int, d \in Int :
           Weight(md) = x /\ Weight(f.node) = y /\ Debt(r) = e /\ Debt(f) = d
    BY <1>4, <1>5
<1>11. l + k = m
    BY <1>0, <1>6
<1>12. x + (2 + m + b) = y + (2 + l + b) /\ e + x = d + y
    BY <1>4, <1>5, <1>8, <1>9, <1>10
<1>13. e = d + k
    BY <1>0, <1>11, <1>12
<1> QED  BY <1>4, <1>10, <1>13 DEF md, r

\* The node n of a container lacks the member i of m.
Cut(m, n, i) ==
    /\ n \in ContainerNodes /\ n.type = m.type /\ n.parent = m.parent /\ n.capacity = m.capacity
    /\ Fits(n) /\ ToSet(n.values) = ToSet(m.values) \ {m.values[i]}

LEMMA MemberCut ==
    ASSUME NEW m \in ContainerNodes, m.type = "object", Fits(m), NEW i \in 1 .. Len(m.values),
           NEW n, n = [m EXCEPT !.names = SwapOut(@, i), !.values = SwapOut(@, i)]
    PROVE  Cut(m, n, i) /\ Len(n.names) + 1 = Len(m.names)
<1>1. PICK s \in Seq(Keys), t \in Seq(Values) : s = m.names /\ t = m.values
    BY DEF ContainerNodes
<1>2. PICK l \in Nat, x \in Nat : Len(s) = l /\ Len(t) = l /\ m.capacity = x
    BY <1>1 DEF Fits, ContainerNodes, Containers
<1>3. l <= x /\ i \in 1 .. l /\ IsInjective(s) /\ IsInjective(t)
    BY <1>1, <1>2 DEF Fits, Containers
<1>4. SwapOut(s, i) \in Seq(Keys) /\ Less(s, SwapOut(s, i), i)
    BY <1>2, <1>3, SwapOutIs
<1>5. SwapOut(t, i) \in Seq(Values) /\ Less(t, SwapOut(t, i), i)
    BY <1>2, <1>3, SwapOutIs
<1>6. PICK p \in Seq(Keys), q \in Seq(Values) : p = SwapOut(s, i) /\ q = SwapOut(t, i)
    BY <1>4, <1>5
<1>7. n = [m EXCEPT !.names = p, !.values = q]
    BY <1>1, <1>6
<1>8. /\ n \in ContainerNodes /\ n.type = m.type /\ n.parent = m.parent /\ n.capacity = m.capacity
      /\ n.names = p /\ n.values = q
    BY <1>7 DEF ContainerNodes
<1>9. Len(p) = l - 1 /\ IsInjective(p) /\ Len(q) = l - 1 /\ IsInjective(q) /\ ToSet(q) = ToSet(t) \ {t[i]}
    BY <1>2, <1>4, <1>5, <1>6 DEF Less
<1>10. Fits(n)
    <2>1. l - 1 <= x
        BY <1>3
    <2> QED  BY <1>2, <1>8, <1>9, <2>1 DEF Fits
<1>11. Len(n.names) + 1 = Len(m.names)
    BY <1>1, <1>2, <1>8, <1>9
<1> QED  BY <1>1, <1>8, <1>9, <1>10, <1>11 DEF Cut

LEMMA ItemCut ==
    ASSUME NEW m \in ContainerNodes, m.type = "array", Fits(m), NEW i \in 1 .. Len(m.values),
           NEW n, n = [m EXCEPT !.values = RemoveAt(@, i)]
    PROVE  Cut(m, n, i) /\ n.names = m.names
<1>1. PICK t \in Seq(Values) : t = m.values
    BY DEF ContainerNodes
<1>2. PICK l \in Nat, x \in Nat : Len(t) = l /\ m.capacity = x
    BY <1>1 DEF ContainerNodes
<1>3. l <= x /\ i \in 1 .. l /\ IsInjective(t)
    BY <1>1, <1>2 DEF Fits, Containers
<1>4. RemoveAt(t, i) \in Seq(Values) /\ Less(t, RemoveAt(t, i), i)
    BY <1>2, <1>3, RemoveAtIs
<1>5. PICK q \in Seq(Values) : q = RemoveAt(t, i)
    BY <1>4
<1>6. n = [m EXCEPT !.values = q]
    BY <1>1, <1>5
<1>7. /\ n \in ContainerNodes /\ n.type = m.type /\ n.parent = m.parent /\ n.capacity = m.capacity
      /\ n.names = m.names /\ n.values = q
    BY <1>6 DEF ContainerNodes
<1>8. Len(q) = l - 1 /\ IsInjective(q) /\ ToSet(q) = ToSet(t) \ {t[i]}
    BY <1>2, <1>4, <1>5 DEF Less
<1>9. Fits(n)
    <2>1. l - 1 <= x
        BY <1>3
    <2> QED  BY <1>2, <1>7, <1>8, <2>1 DEF Fits, Containers
<1> QED  BY <1>1, <1>7, <1>8, <1>9 DEF Cut

\* The member i of c is freed, and n is c without it.
FreedMember(h, g, R, d, c, i) ==
    /\ Debt(g) = d
    /\ \A w \in Values : g.node[w] = Unused \/ g.node[w] = h.node[w]
    /\ \A md \in [Values -> Nodes] :
          (\A w \in Values \ {c} : md[w] = g.node[w]) /\ Cut(h.node[c], md[c], i)
          => Sound(md, R)

LEMMA FreeMemberIs ==
    ASSUME NEW h, NEW R, NEW d, Heap(h, R, d), NEW c \in Values, h.node[c].type \in Containers,
           NEW i \in 1 .. Len(h.node[c].values),
           NEW g, g = json_value_free(h, h.node[c].values[i])
    PROVE  /\ g \in Heaps /\ g.ok = h.ok /\ g.node[c] = h.node[c]
           /\ FreedMember(h, g, R, d, c, i)
<1>1. PICK u : u = h.node[c].values[i]
    OBVIOUS
<1> DEFINE T == Tree(h.node, u)
<1>2. h \in Heaps /\ Sound(h.node, R) /\ Debt(h) = d /\ h.node \in [Values -> Nodes]
    BY DEF Heap, Sound
<1>3. u \in Children(h.node, c) /\ u \in Values
    BY <1>1, <1>2, MemberIs
<1>4. T \subseteq Exist(h.node) /\ c \notin T
    BY <1>2, <1>3, MemberTrees
<1>5. T \in SUBSET Values
    BY <1>4 DEF Exist
<1>6. g = Free(h, T)
    <2>1. u # NULL
        BY <1>3, ValuesAssumption
    <2> QED  BY <1>1, <2>1 DEF json_value_free
<1> HIDE DEF T
<1>7. /\ g \in Heaps /\ g.ok = h.ok /\ Debt(g) = d
      /\ \A w \in Values : g.node[w] = IF w \in T THEN Unused ELSE h.node[w]
    BY <1>2, <1>5, <1>6, FreeIs
<1>8. g.node[c] = h.node[c]
    BY <1>4, <1>7
<1>9. ASSUME NEW md \in [Values -> Nodes], \A w \in Values \ {c} : md[w] = g.node[w],
             Cut(h.node[c], md[c], i)
      PROVE  Sound(md, R)
    <2>1. \A w \in T : md[w] = Unused
        BY <1>4, <1>5, <1>7, <1>9
    <2>2. \A w \in Values \ (T \cup {c}) : md[w] = h.node[w]
        BY <1>7, <1>9
    <2>3. /\ md[c].type = h.node[c].type /\ md[c].parent = h.node[c].parent /\ Fits(md[c])
          /\ ToSet(md[c].values) = ToSet(h.node[c].values) \ {u}
        BY <1>1, <1>9 DEF Cut
    <2> QED  BY <1>2, <1>3, <2>1, <2>2, <2>3, SoundRemoved DEF T
<1>10. \A w \in Values : g.node[w] = Unused \/ g.node[w] = h.node[w]
    BY <1>7
<1>11. FreedMember(h, g, R, d, c, i)
    BY <1>7, <1>9, <1>10 DEF FreedMember
<1> QED  BY <1>7, <1>8, <1>11

CutOut(g, o, i) ==
    [FreeBlocks(g, 1) EXCEPT
        !.node[o] = [FreeBlocks(g, 1).node[o] EXCEPT !.names  = SwapOut(@, i),
                                                     !.values = SwapOut(@, i)]]

LEMMA CutIs ==
    ASSUME NEW g \in Heaps, NEW o \in Values, g.node[o].type = "object", Fits(g.node[o]),
           NEW i \in 1 .. Len(g.node[o].values)
    PROVE  /\ CutOut(g, o, i) \in Heaps /\ Debt(CutOut(g, o, i)) = Debt(g)
           /\ CutOut(g, o, i).ok = g.ok
           /\ Cut(g.node[o], CutOut(g, o, i).node[o], i)
           /\ CutOut(g, o, i).node[o].names = SwapOut(g.node[o].names, i)
           /\ CutOut(g, o, i).node[o].values = SwapOut(g.node[o].values, i)
           /\ \A w \in Values \ {o} : CutOut(g, o, i).node[w] = g.node[w]
<1> DEFINE f == FreeBlocks(g, 1)
           n == [g.node[o] EXCEPT !.names = SwapOut(@, i), !.values = SwapOut(@, i)]
           r == CutOut(g, o, i)
<1>1. g.node \in [Values -> Nodes] /\ g.node[o].type \in Containers
    BY HeapFields DEF Containers
<1>2. g.node[o] \in ContainerNodes
    BY <1>1, ContainerIs
<1>3. PICK k \in Nat : k = 1
    OBVIOUS
<1>4. f \in Heaps /\ f.node = g.node /\ f.ok = g.ok /\ Debt(f) = Debt(g) - k
    BY <1>3, FreeBlocksIs
<1>5. r = [f EXCEPT !.node[o] = [f.node[o] EXCEPT !.names = SwapOut(@, i), !.values = SwapOut(@, i)]]
    BY DEF CutOut
<1> HIDE DEF f
<1>6. r = Renewed(f, o, n)
    BY <1>4, <1>5 DEF Renewed
<1>7. Cut(g.node[o], n, i) /\ Len(n.names) + k = Len(g.node[o].names)
    BY <1>2, <1>3, MemberCut
<1>12. n.names = SwapOut(g.node[o].names, i) /\ n.values = SwapOut(g.node[o].values, i)
    BY <1>2 DEF ContainerNodes
<1> HIDE DEF n, r
<1>8. Lighter(f.node[o], n, k)
    BY <1>1, <1>4, <1>7 DEF Cut, Lighter
<1>9. r \in Heaps /\ r.node = [f.node EXCEPT ![o] = n] /\ r.ok = f.ok /\ Debt(r) = Debt(f) + k
    BY <1>4, <1>6, <1>8, RenewIs
<1>10. Debt(r) = Debt(g)
    <2>1. PICK e \in Int : e = Debt(g)
        BY DebtIsInt
    <2>2. Debt(r) = (e - k) + k
        BY <1>4, <1>9, <2>1
    <2> QED  BY <2>1, <2>2
<1>11. /\ r.node[o] = n /\ \A w \in Values \ {o} : r.node[w] = g.node[w]
    BY <1>1, <1>4, <1>9
<1> QED  BY <1>4, <1>7, <1>9, <1>10, <1>11, <1>12 DEF r

\* The ith member of the object o, which has the name, is not in n.
MemberOut(m, n, name, i) ==
    /\ i \in 1 .. Len(m.names) /\ m.names[i] = name /\ n.type = "object"
    /\ n.names = SwapOut(m.names, i) /\ n.values = SwapOut(m.values, i)

Removes(h, r, o, name) ==
    /\ r.ok => Others(h.node, r.node, o) /\ \E i : MemberOut(h.node[o], r.node[o], name, i)
    /\ ~r.ok /\ h.ok => r.node = h.node

LEMMA RemoveIs ==
    ASSUME NEW h, NEW R, NEW d, Heap(h, R, d), NEW o \in Values, h.node[o].type = "object",
           NEW name, NEW r, r = json_object_remove_internal(h, o, name, TRUE)
    PROVE  Heap(r, R, d) /\ Removes(h, r, o, name)
<1> DEFINE i == IndexOf(h.node[o], name)
           g == json_value_free(h, h.node[o].values[i])
<1>1. /\ h \in Heaps /\ h.node \in [Values -> Nodes] /\ h.node[o].type \in Containers
      /\ Sound(h.node, R)
    BY DEF Heap, Sound, Containers
<1>2. Fits(h.node[o]) /\ h.node[o].names \in Seq(Keys)
    BY <1>1, ContainerIs DEF Sound
<1>3. i \in 0 .. Len(h.node[o].names) /\ Len(h.node[o].names) = Len(h.node[o].values)
      /\ (i # 0 => h.node[o].names[i] = name)
    BY <1>1, <1>2, IndexOfIs DEF Fits
<1>4. CASE i = 0
    <2>1. r = Failed(h)
        BY <1>4 DEF json_object_remove_internal
    <2>2. Failed(h) \in Heaps /\ Failed(h).node = h.node /\ Debt(Failed(h)) = Debt(h) /\ ~Failed(h).ok
        BY <1>1, FailedIs
    <2> QED  BY <2>1, <2>2 DEF Heap, Removes
<1>5. CASE i # 0
    <2>1. r = CutOut(g, o, i)
        BY <1>5 DEF json_object_remove_internal, CutOut
    <2>2. i \in 1 .. Len(h.node[o].values)
        BY <1>2, <1>3, <1>5
    <2> HIDE DEF i
    <2>3. /\ g \in Heaps /\ g.ok = h.ok /\ Debt(g) = d /\ g.node[o] = h.node[o]
          /\ \A w \in Values : g.node[w] = Unused \/ g.node[w] = h.node[w]
          /\ \A md \in [Values -> Nodes] :
                (\A w \in Values \ {o} : md[w] = g.node[w]) /\ Cut(h.node[o], md[o], i)
                => Sound(md, R)
        BY <1>1, <2>2, FreeMemberIs DEF FreedMember
    <2> HIDE DEF g
    <2>4. /\ r \in Heaps /\ Debt(r) = Debt(g) /\ Cut(g.node[o], r.node[o], i) /\ r.ok = g.ok
          /\ r.node[o].names = SwapOut(g.node[o].names, i)
          /\ r.node[o].values = SwapOut(g.node[o].values, i)
          /\ \A w \in Values \ {o} : r.node[w] = g.node[w]
        <3>1. g.node[o].type = "object" /\ Fits(g.node[o]) /\ i \in 1 .. Len(g.node[o].values)
            BY <1>2, <2>2, <2>3
        <3>2. g \in Heaps
            BY <2>3
        <3>3. /\ CutOut(g, o, i) \in Heaps /\ Debt(CutOut(g, o, i)) = Debt(g)
              /\ CutOut(g, o, i).ok = g.ok
              /\ Cut(g.node[o], CutOut(g, o, i).node[o], i)
              /\ CutOut(g, o, i).node[o].names = SwapOut(g.node[o].names, i)
              /\ CutOut(g, o, i).node[o].values = SwapOut(g.node[o].values, i)
              /\ \A w \in Values \ {o} : CutOut(g, o, i).node[w] = g.node[w]
            BY <3>1, <3>2, CutIs
        <3> QED  BY <2>1, <3>3
    <2>5. r.node \in [Values -> Nodes]
        BY <2>4, HeapFields
    <2>6. Sound(r.node, R)
        BY <2>3, <2>4, <2>5
    <2>7. Heap(r, R, d) /\ r.ok = h.ok
        BY <2>3, <2>4, <2>6 DEF Heap
    <2>8. Others(h.node, r.node, o)
        BY <2>3, <2>4, OthersKept
    <2>9. /\ h.node[o].names[i] = name /\ r.node[o].type = "object"
          /\ r.node[o].names = SwapOut(h.node[o].names, i)
          /\ r.node[o].values = SwapOut(h.node[o].values, i)
        BY <1>3, <1>5, <2>3, <2>4 DEF Cut, i
    <2>10. MemberOut(h.node[o], r.node[o], name, i)
        BY <1>3, <2>2, <2>9 DEF MemberOut
    <2> QED  BY <2>7, <2>8, <2>10 DEF Removes
<1> QED  BY <1>4, <1>5

Detached(h, r, R, d, o, u) ==
    Heap(r, R \cup {u}, d) /\ \A w \in Values \ {o} : r.node[w] = h.node[w]

HasMember(nd, o, name, u) == u = json_object_get_value(nd, o, name) /\ u # NULL

\* The member goes and is not freed: the program owns it.
LEMMA DetachIs ==
    ASSUME NEW h, NEW R, NEW d, Heap(h, R, d), NEW o \in Values, NEW name,
           NEW u, HasMember(h.node, o, name, u)
    PROVE  Detached(h, json_object_remove_internal(h, o, name, FALSE), R, d, o, u)
<1> DEFINE i == IndexOf(h.node[o], name)
           r == json_object_remove_internal(h, o, name, FALSE)
<1>1. h \in Heaps /\ h.node \in [Values -> Nodes] /\ Sound(h.node, R) /\ Debt(h) = d
    BY DEF Heap, Sound
<1>2. /\ h.node[o].type = "object" /\ h.node[o].type \in Containers /\ u \in Children(h.node, o)
      /\ i \in 1 .. Len(h.node[o].values) /\ h.node[o].values[i] = u
    BY <1>1, GetIs DEF HasMember
<1>3. Fits(h.node[o]) /\ h.node[o].values \in Seq(Values)
    BY <1>1, <1>2, ContainerIs DEF Sound
<1>4. i # 0
    BY <1>2, <1>3
<1> HIDE DEF i
<1>5. r = CutOut(h, o, i)
    BY <1>4 DEF json_object_remove_internal, CutOut, i
<1> HIDE DEF r
<1>6. /\ r \in Heaps /\ Debt(r) = Debt(h) /\ Cut(h.node[o], r.node[o], i)
      /\ \A w \in Values \ {o} : r.node[w] = h.node[w]
    <2>1. h \in Heaps /\ i \in 1 .. Len(h.node[o].values)
        BY <1>1, <1>2
    <2>2. /\ CutOut(h, o, i) \in Heaps /\ Debt(CutOut(h, o, i)) = Debt(h)
          /\ Cut(h.node[o], CutOut(h, o, i).node[o], i)
          /\ \A w \in Values \ {o} : CutOut(h, o, i).node[w] = h.node[w]
        <3>1. h.node[o].type = "object" /\ Fits(h.node[o])
            BY <1>2, <1>3
        <3> QED  BY <2>1, <3>1, CutIs
    <2> QED  BY <1>5, <2>2
<1>7. Sound(r.node, R \cup {u})
    <2> DEFINE md == r.node
    <2>1. /\ md[o].type = h.node[o].type /\ md[o].parent = h.node[o].parent /\ Fits(md[o])
          /\ ToSet(md[o].values) = ToSet(h.node[o].values) \ {u}
        BY <1>2, <1>6 DEF Cut
    <2>2. md \in [Values -> Nodes] /\ \A w \in Values \ {o} : md[w] = h.node[w]
        BY <1>6, HeapFields
    <2> HIDE DEF md
    <2>3. Sound(md, R \cup {u})
        BY <1>1, <1>2, <2>1, <2>2, SoundDetach
    <2> QED  BY <2>3 DEF md
<1> QED  BY <1>1, <1>6, <1>7 DEF Heap, Detached, r

LEMMA ArrayRemoveIs ==
    ASSUME NEW h, NEW R, NEW d, Heap(h, R, d), NEW a \in Values, h.node[a].type = "array",
           NEW i \in Nat \ {0}, NEW r, r = json_array_remove(h, a, i)
    PROVE  /\ Heap(r, R, d)
           /\ r.ok => /\ Others(h.node, r.node, a) /\ i \in 1 .. Len(h.node[a].values)
                      /\ r.node[a].type = "array"
                      /\ r.node[a].values = RemoveAt(h.node[a].values, i)
           /\ ~r.ok /\ h.ok => r.node = h.node
<1> DEFINE g == json_value_free(h, h.node[a].values[i])
           n == [h.node[a] EXCEPT !.values = RemoveAt(@, i)]
<1>1. /\ h \in Heaps /\ h.node \in [Values -> Nodes] /\ h.node[a].type \in Containers
      /\ Sound(h.node, R) /\ d \in Int
    BY DebtIsInt DEF Heap, Sound, Containers
<1>2. h.node[a] \in ContainerNodes /\ Fits(h.node[a]) /\ h.node[a].values \in Seq(Values)
      /\ h.node[a].names \in Seq(Keys)
    BY <1>1, ContainerIs DEF Sound
<1>3. CASE i > Len(h.node[a].values)
    <2>1. r = Failed(h)
        BY <1>3 DEF json_array_remove
    <2>2. Failed(h) \in Heaps /\ Failed(h).node = h.node /\ Debt(Failed(h)) = Debt(h) /\ ~Failed(h).ok
        BY <1>1, FailedIs
    <2> QED  BY <2>1, <2>2 DEF Heap
<1>4. CASE ~(i > Len(h.node[a].values))
    <2>1. r = [g EXCEPT !.node[a].values = RemoveAt(@, i)]
        BY <1>4 DEF json_array_remove
    <2>2. i \in 1 .. Len(h.node[a].values)
        BY <1>2, <1>4
    <2>3. /\ g \in Heaps /\ g.ok = h.ok /\ Debt(g) = d /\ g.node[a] = h.node[a]
          /\ \A w \in Values : g.node[w] = Unused \/ g.node[w] = h.node[w]
          /\ \A md \in [Values -> Nodes] :
                (\A w \in Values \ {a} : md[w] = g.node[w]) /\ Cut(h.node[a], md[a], i)
                => Sound(md, R)
        BY <1>1, <2>2, FreeMemberIs DEF FreedMember
    <2> HIDE DEF g
    <2>4. r = Renewed(g, a, n)
        BY <2>1, <2>3 DEF Renewed
    <2>5. Cut(h.node[a], n, i) /\ n.names = h.node[a].names
        BY <1>2, <2>2, ItemCut
    <2>11. n.values = RemoveAt(h.node[a].values, i) /\ n.type = "array"
        BY <1>2 DEF ContainerNodes
    <2> HIDE DEF n
    <2>6. Lighter(g.node[a], n, 0)
        BY <1>1, <1>2, <2>3, <2>5 DEF Cut, Lighter
    <2>7. r \in Heaps /\ r.node = [g.node EXCEPT ![a] = n] /\ Debt(r) = Debt(g) + 0 /\ r.ok = g.ok
        BY <2>3, <2>4, <2>6, RenewIs
    <2>8. Debt(r) = d
        BY <1>1, <2>3, <2>7
    <2>9. /\ r.node \in [Values -> Nodes] /\ r.node[a] = n
          /\ \A w \in Values \ {a} : r.node[w] = g.node[w]
        BY <2>3, <2>7, HeapFields
    <2>10. Sound(r.node, R)
        BY <2>3, <2>5, <2>9
    <2>12. Heap(r, R, d) /\ r.ok = h.ok
        BY <2>3, <2>7, <2>8, <2>10 DEF Heap
    <2>13. Others(h.node, r.node, a)
        BY <2>3, <2>9, OthersKept
    <2> QED  BY <2>2, <2>9, <2>11, <2>12, <2>13
<1> QED  BY <1>3, <1>4

LEMMA RemoveAllIs ==
    ASSUME NEW h, NEW R, NEW d, Heap(h, R, d), NEW c \in Values, h.node[c].type \in Containers
    PROVE  /\ Heap(RemoveAll(h, c), R, d) /\ RemoveAll(h, c).ok = h.ok
           /\ Others(h.node, RemoveAll(h, c).node, c)
           /\ RemoveAll(h, c).node[c].type = h.node[c].type
           /\ RemoveAll(h, c).node[c].names = <<>> /\ RemoveAll(h, c).node[c].values = <<>>
<1> DEFINE T == Tree(h.node, c) \ {c}
           g == Free(h, T)
           n == [h.node[c] EXCEPT !.names = <<>>, !.values = <<>>]
           f == Renewed(g, c, n)
           r == RemoveAll(h, c)
<1>1. h \in Heaps /\ Sound(h.node, R) /\ Debt(h) = d /\ h.node \in [Values -> Nodes] /\ d \in Int
    BY DebtIsInt DEF Heap, Sound
<1>2. h.node[c] \in ContainerNodes /\ h.node[c].names \in Seq(Keys)
    BY <1>1, ContainerIs
<1>3. PICK k \in Nat : k = Len(h.node[c].names)
    BY <1>2
<1>4. r = FreeBlocks(f, k)
    BY <1>3 DEF RemoveAll, Renewed
<1>5. T \in SUBSET Values
    BY <1>1, TreeBelow
<1> HIDE DEF r
<1>6. /\ T \subseteq Values \ {c} /\ Tree(h.node, c) \ {c} = T
      /\ \A w \in Values \ Tree(h.node, c) : w \notin T
    BY <1>5
<1> HIDE DEF T
<1>7. /\ g \in Heaps /\ Debt(g) = d /\ g.ok = h.ok
      /\ \A w \in Values : g.node[w] = IF w \in T THEN Unused ELSE h.node[w]
    BY <1>1, <1>5, FreeIs
<1> HIDE DEF g
<1>8. g.node[c] = h.node[c]
    BY <1>6, <1>7
<1>9. /\ n \in ContainerNodes /\ n.type = h.node[c].type /\ n.parent = h.node[c].parent
      /\ n.capacity = h.node[c].capacity /\ n.names = <<>> /\ n.values = <<>>
    <2>1. <<>> \in Seq(Keys) /\ <<>> \in Seq(Values)
        OBVIOUS
    <2> QED  BY <1>2, <2>1 DEF ContainerNodes
<1> HIDE DEF n
<1>10. Lighter(g.node[c], n, k)
    <2>1. Len(n.names) = 0
        BY <1>9
    <2>2. Len(n.names) + k = Len(g.node[c].names)
        BY <1>3, <1>8, <2>1
    <2> QED  BY <1>8, <1>9, <2>2 DEF Lighter
<1>11. f \in Heaps /\ f.node = [g.node EXCEPT ![c] = n] /\ Debt(f) = Debt(g) + k /\ f.ok = g.ok
    BY <1>7, <1>10, RenewIs
<1> HIDE DEF f
<1>12. r \in Heaps /\ r.node = f.node /\ Debt(r) = Debt(f) - k /\ r.ok = f.ok
    BY <1>4, <1>11, FreeBlocksIs
<1>13. Debt(r) = d
    <2>1. Debt(r) = (d + k) - k
        BY <1>7, <1>11, <1>12
    <2> QED  BY <1>1, <2>1
<1> DEFINE md == r.node
<1>14. /\ md \in [Values -> Nodes] /\ md[c] = n /\ \A w \in Values \ {c} : md[w] = g.node[w]
    BY <1>7, <1>11, <1>12, HeapFields
<1> HIDE DEF md
<1>15. Fits(n) /\ ToSet(n.values) = {}
    <2>1. Len(n.values) = 0 /\ Len(n.names) = 0 /\ n.capacity \in Nat
        BY <1>9 DEF ContainerNodes
    <2>2. IsInjective(n.names) /\ IsInjective(n.values) /\ ToSet(n.values) = {}
        BY <1>9 DEF IsInjective, ToSet
    <2>3. Fits(n)
        BY <2>1, <2>2 DEF Fits
    <2> QED  BY <2>2, <2>3
<1>16. Sound(md, R)
    <2>1. /\ \A w \in Tree(h.node, c) \ {c} : md[w] = Unused
          /\ \A w \in Values \ Tree(h.node, c) : md[w] = h.node[w]
        <3>1. c \in Tree(h.node, c)
            BY <1>1, TreeBelow
        <3> QED  BY <1>6, <1>7, <1>14, <3>1
    <2>2. /\ md[c].type = h.node[c].type /\ md[c].parent = h.node[c].parent /\ Fits(md[c])
          /\ ToSet(md[c].values) = {}
        BY <1>9, <1>14, <1>15
    <2> QED  BY <1>1, <1>14, <2>1, <2>2, SoundCleared
<1>17. Others(h.node, md, c)
    BY <1>7, <1>14, OthersKept
<1>18. md[c].type = h.node[c].type /\ md[c].names = <<>> /\ md[c].values = <<>>
    BY <1>9, <1>14
<1>19. Heap(r, R, d)
    BY <1>12, <1>13, <1>16 DEF Heap, md
<1> QED  BY <1>7, <1>11, <1>12, <1>17, <1>18, <1>19, Zenon DEF md, r

-----------------------------------------------------------------------------
(* Dotted names. *)

LEMMA GetTyped ==
    ASSUME NEW nd, NEW R, Sound(nd, R), NEW o \in Values \cup {NULL}, NEW name
    PROVE  json_object_get_value(nd, o, name) \in Values \cup {NULL}
<1>1. PICK u : u = json_object_get_value(nd, o, name)
    OBVIOUS
<1>2. u = NULL \/ u \in Values
    BY <1>1, GetIs
<1> QED  BY <1>1, <1>2

\* The way to the value that has the last part of a name.
Long(name, l) == name \in Keys /\ Len(name) = l /\ l \in Nat \ {0}

LEMMA HolderIs ==
    ASSUME NEW nd, NEW R, Sound(nd, R), NEW o \in Values, NEW name, NEW l \in Nat \ {0},
           Long(name, l)
    PROVE  \E at \in [1 .. l -> Values \cup {NULL}] :
              /\ at[1] = o /\ Holder(nd, o, name) = at[l]
              /\ \A i \in 1 .. l : i # 1 =>
                    at[i] = json_object_get_value(nd, at[i - 1], <<name[i - 1]>>)
<1> DEFINE S == Values \cup {NULL}
           N == l - 1
           Get(x, i) == json_object_get_value(nd, x, <<name[i]>>)
           Is(f) == f = [i \in 1 .. l |-> IF i = 1 THEN o ELSE Get(f[i - 1], i - 1)]
           at == CHOOSE f : Is(f)
           step == [n \in 1 .. N |-> [x \in S |-> Get(x, n)]]
<1>1. N \in Nat /\ o \in S
    OBVIOUS
<1>2. step \in [1 .. N -> [S -> S]]
    <2>1. ASSUME NEW x \in S, NEW i PROVE Get(x, i) \in S
        BY <2>1, GetTyped
    <2> HIDE DEF S, Get
    <2> QED  BY <2>1
<1>3. \E f \in [0 .. N -> S] : f[0] = o /\ \A n \in 1 .. N : f[n] = step[n][f[n - 1]]
    <2> DEFINE a == o
    <2>1. N \in Nat /\ a \in S /\ step \in [1 .. N -> [S -> S]]
        BY <1>1, <1>2
    <2> HIDE DEF S, step, N, a
    <2>2. \E f \in [0 .. N -> S] : f[0] = a /\ \A n \in 1 .. N : f[n] = step[n][f[n - 1]]
        BY <2>1, TableExists
    <2> QED  BY <2>2 DEF a
<1>4. PICK f \in [0 .. N -> S] : f[0] = o /\ \A n \in 1 .. N : f[n] = step[n][f[n - 1]]
    BY <1>3
<1>5. \A n \in 1 .. N : n - 1 \in 0 .. N
    BY <1>1
<1>6. \A n \in 1 .. N : f[n] = Get(f[n - 1], n)
    BY <1>4, <1>5
<1> DEFINE g == [i \in 1 .. l |-> f[i - 1]]
<1>7. \A i \in 1 .. l : i - 1 \in 0 .. N /\ (i # 1 => i - 1 \in 1 .. l /\ i - 1 \in 1 .. N)
    BY <1>1
<1> HIDE DEF Get, N, S
<1>8. g \in [1 .. l -> S]
    BY <1>4, <1>7
<1>9. \A i \in 1 .. l : g[i] = f[i - 1]
    OBVIOUS
<1> HIDE DEF g
<1>10. ASSUME NEW i \in 1 .. l PROVE g[i] = IF i = 1 THEN o ELSE Get(g[i - 1], i - 1)
    <2>1. CASE i = 1
        <3>1. g[i] = f[0]
            BY <1>9, <2>1
        <3> QED  BY <1>4, <2>1, <3>1
    <2>2. CASE i # 1
        <3>1. PICK j \in 1 .. l : j = i - 1 /\ j \in 1 .. N
            BY <1>7, <2>2
        <3>2. g[i] = f[j] /\ g[j] = f[j - 1]
            BY <1>9, <3>1
        <3>3. f[j] = Get(f[j - 1], j)
            BY <1>6, <3>1
        <3> QED  BY <2>2, <3>1, <3>2, <3>3
    <2> QED  BY <2>1, <2>2
<1>11. Is(g)
    <2> DEFINE rhs == [i \in 1 .. l |-> IF i = 1 THEN o ELSE Get(g[i - 1], i - 1)]
    <2>1. \A i \in 1 .. l : g[i] = rhs[i]
        BY <1>10
    <2>2. DOMAIN g = 1 .. l /\ DOMAIN rhs = 1 .. l /\ rhs = [i \in 1 .. l |-> rhs[i]]
        BY <1>8
    <2>3. g = [i \in 1 .. l |-> g[i]]
        BY <1>8
    <2> QED  BY <2>1, <2>2, <2>3
<1>12. Is(at)
    BY <1>11
<1>13. Holder(nd, o, name) = at[l]
    BY DEF Holder, Get, Long
<1> HIDE DEF at
<1>14. \A i \in 1 .. l : at[i] = IF i = 1 THEN o ELSE Get(at[i - 1], i - 1)
    BY <1>12
<1>15. \A i \in 1 .. l : at[i] = g[i]
    <2> DEFINE Bad == {i \in 1 .. l : at[i] # g[i]}
    <2>1. SUFFICES ASSUME Bad # {} PROVE FALSE
        OBVIOUS
    <2>2. Bad \in SUBSET Nat
        OBVIOUS
    <2>3. PICK i \in Bad : \A k \in Bad : i <= k
        <3> HIDE DEF Bad
        <3> QED  BY <2>1, <2>2, LeastExists
    <2>4. i # 1
        BY <1>10, <1>14
    <2>5. i - 1 \in 1 .. l /\ i - 1 \notin Bad
        BY <1>7, <2>3, <2>4
    <2>6. at[i - 1] = g[i - 1]
        BY <2>5
    <2> QED  BY <1>10, <1>14, <2>4, <2>6
<1>16. at \in [1 .. l -> S]
    <2>1. at = [i \in 1 .. l |-> at[i]]
        BY <1>12
    <2> QED  BY <1>8, <1>15, <2>1
<1>17. at[1] = o /\ \A i \in 1 .. l : i # 1 => at[i] = Get(at[i - 1], i - 1)
    <2>1. 1 \in 1 .. l
        OBVIOUS
    <2> QED  BY <1>14, <2>1
<1> QED  BY <1>13, <1>16, <1>17 DEF Get, S

LEMMA DotRemoveIs ==
    ASSUME NEW h, NEW R, NEW d, Heap(h, R, d), NEW o \in Values, NEW name \in Keys, Len(name) > 0,
           NEW r, r = json_object_dotremove_internal(h, o, name, TRUE)
    PROVE  Heap(r, R, d)
<1> DEFINE p == Holder(h.node, o, name)
<1>1. h \in Heaps /\ Sound(h.node, R)
    BY DEF Heap
<1>2. p \in Values \cup {NULL}
    <2>1. PICK l \in Nat \ {0} : l = Len(name)
        OBVIOUS
    <2>2. Long(name, l)
        BY <2>1 DEF Long
    <2>3. \E at \in [1 .. l -> Values \cup {NULL}] : p = at[l]
        BY <1>1, <2>2, HolderIs
    <2> QED  BY <2>3
<1> HIDE DEF p
<1>3. CASE p = NULL \/ h.node[p].type # "object"
    <2>1. r = Failed(h)
        BY <1>3 DEF json_object_dotremove_internal, p
    <2>2. Failed(h) \in Heaps /\ Failed(h).node = h.node /\ Debt(Failed(h)) = Debt(h)
        BY <1>1, FailedIs
    <2> QED  BY <2>1, <2>2 DEF Heap
<1>4. CASE p # NULL /\ h.node[p].type = "object"
    <2>1. r = json_object_remove_internal(h, p, <<Last(name)>>, TRUE)
        BY <1>4 DEF json_object_dotremove_internal, p
    <2>2. p \in Values
        BY <1>2, <1>4
    <2> QED  BY <1>4, <2>1, <2>2, RemoveIs
<1> QED  BY <1>3, <1>4

\* The parts i to l of a name lead from p to v, below p.
Leads(nd, p, name, i, l, v) ==
    \E at \in [i .. l -> Values] :
        /\ at[i] = p /\ json_object_get_value(nd, at[l], <<name[l]>>) = v
        /\ \A j \in i .. l : /\ at[j] \in Tree(nd, p)
                             /\ j # i => at[j] = json_object_get_value(nd, at[j - 1], <<name[j - 1]>>)

LEMMA LeadsOn ==
    ASSUME NEW nd \in [Values -> Nodes], NEW p \in Values, NEW name, NEW i \in Nat, NEW l \in Nat,
           i < l, NEW v, NEW u, u = json_object_get_value(nd, p, <<name[i]>>),
           u \in Children(nd, p), Leads(nd, u, name, i + 1, l, v)
    PROVE  Leads(nd, p, name, i, l, v)
<1>1. PICK k \in Nat : k = i + 1
    OBVIOUS
<1>2. PICK at \in [k .. l -> Values] :
        /\ at[k] = u /\ json_object_get_value(nd, at[l], <<name[l]>>) = v
        /\ \A j \in k .. l : /\ at[j] \in Tree(nd, u)
                             /\ j # k => at[j] = json_object_get_value(nd, at[j - 1], <<name[j - 1]>>)
    BY <1>1 DEF Leads
<1>3. p \in Tree(nd, p) /\ Tree(nd, u) \subseteq Tree(nd, p)
    BY TreeBelow
<1> DEFINE to == [j \in i .. l |-> IF j = i THEN p ELSE at[j]]
<1>4. \A j \in i .. l : j = i \/ j \in k .. l
    BY <1>1
<1>5. /\ k # i /\ l # i /\ l \in k .. l /\ l \in i .. l /\ i \in i .. l
      /\ \A j \in k .. l : j # k => j - 1 \in k .. l /\ j - 1 # i
      /\ \A j \in k .. l : j # i /\ j \in i .. l
    BY <1>1
<1>6. to \in [i .. l -> Values] /\ to[i] = p /\ \A j \in k .. l : to[j] = at[j]
    BY <1>4, <1>5
<1> HIDE DEF to
<1>7. json_object_get_value(nd, to[l], <<name[l]>>) = v
    BY <1>2, <1>5, <1>6
<1>8. ASSUME NEW j \in i .. l
      PROVE  /\ to[j] \in Tree(nd, p)
             /\ j # i => to[j] = json_object_get_value(nd, to[j - 1], <<name[j - 1]>>)
    <2>1. CASE j = i
        BY <1>3, <1>6, <2>1
    <2>2. CASE j = k
        <3>1. to[j] = u /\ j - 1 = i /\ j \in k .. l
            BY <1>1, <1>2, <1>5, <1>6, <2>2
        <3>2. to[j] \in Tree(nd, u)
            BY <1>2, <1>6, <3>1
        <3> QED  BY <1>3, <1>6, <3>1, <3>2
    <2>3. CASE j \in k .. l /\ j # k
        <3>1. at[j] \in Tree(nd, u) /\ at[j] = json_object_get_value(nd, at[j - 1], <<name[j - 1]>>)
            BY <1>2, <2>3
        <3>2. to[j] = at[j] /\ to[j - 1] = at[j - 1]
            BY <1>5, <1>6, <2>3
        <3> QED  BY <1>3, <3>1, <3>2
    <2> QED  BY <1>4, <2>1, <2>2, <2>3
<1> QED  BY <1>6, <1>7, <1>8 DEF Leads

\* What a name leads to depends on types, names and members only.
LEMMA LeadsKept ==
    ASSUME NEW nd \in [Values -> Nodes], NEW md \in [Values -> Nodes], NEW p \in Values,
           NEW name, NEW i \in Nat, NEW l \in Nat, i <= l, NEW v,
           \A w \in Tree(nd, p) : SameData(nd[w], md[w]),
           Leads(nd, p, name, i, l, v)
    PROVE  Leads(md, p, name, i, l, v)
<1>1. PICK at \in [i .. l -> Values] :
        /\ at[i] = p /\ json_object_get_value(nd, at[l], <<name[l]>>) = v
        /\ \A j \in i .. l : /\ at[j] \in Tree(nd, p)
                             /\ j # i => at[j] = json_object_get_value(nd, at[j - 1], <<name[j - 1]>>)
    BY DEF Leads
<1>2. \A w \in Tree(nd, p) : Children(md, w) = Children(nd, w)
    BY DEF Children, SameData
<1>3. Tree(md, p) = Tree(nd, p)
    BY <1>2, TreeKept
<1>4. \A w \in Tree(nd, p) : \A x :
          json_object_get_value(md, w, x) = json_object_get_value(nd, w, x)
    <2> DEFINE In(s, x) == IF x \in ToSet(s) THEN CHOOSE k \in DOMAIN s : s[k] = x ELSE 0
    <2>1. \A n, x : IndexOf(n, x) = In(n.names, x)
        BY DEF IndexOf
    <2> HIDE DEF In
    <2>2. ASSUME NEW w \in Tree(nd, p), NEW x, nd[w].type \in Containers
          PROVE  IndexOf(md[w], x) = IndexOf(nd[w], x)
        BY <2>1, <2>2 DEF SameData
    <2> QED  BY <2>2 DEF json_object_get_value, SameData, Containers
<1>5. json_object_get_value(md, at[l], <<name[l]>>) = v
    <2>1. l \in i .. l
        OBVIOUS
    <2> QED  BY <1>1, <1>4, <2>1
<1>6. ASSUME NEW j \in i .. l, j # i
      PROVE  at[j] = json_object_get_value(md, at[j - 1], <<name[j - 1]>>)
    <2>1. j - 1 \in i .. l
        BY <1>6
    <2> QED  BY <1>1, <1>4, <1>6, <2>1
<1> QED  BY <1>1, <1>3, <1>5, <1>6 DEF Leads

LEMMA SuffixIs ==
    ASSUME NEW name \in Keys, NEW i \in Nat, NEW l \in Nat, Len(name) = l, i < l
    PROVE  /\ Long(SubSeq(name, i + 1, l), l - i) /\ Last(SubSeq(name, i + 1, l)) = name[l]
           /\ \A k \in 1 .. l - i : SubSeq(name, i + 1, l)[k] = name[i + k]
<1> DEFINE s == SubSeq(name, i + 1, l)
<1>1. PICK n \in Nat \ {0} : n = l - i
    OBVIOUS
<1>2. s \in Keys /\ Len(s) = n /\ \A k \in 1 .. n : s[k] = name[i + k]
    BY <1>1 DEF Keys
<1> HIDE DEF s
<1>3. Last(s) = name[l]
    <2>1. Last(s) = s[n]
        BY <1>2 DEF Last
    <2>2. n \in 1 .. n /\ i + n = l
        BY <1>1
    <2> QED  BY <1>2, <2>1, <2>2
<1>4. Long(s, n)
    BY <1>2 DEF Long
<1> QED  BY <1>1, <1>2, <1>3, <1>4 DEF s

\* Taking out again what a name leads to gives it back to the program.
Undone(h, r, R, d, m, v) ==
    /\ Heap(r, R \cup {v}, d)
    /\ \E p \in Tree(h.node, m) : /\ p \in Values /\ v \in Children(h.node, p)
                                  /\ \A w \in Values \ {p} : r.node[w] = h.node[w]

LEMMA UndoIs ==
    ASSUME NEW h, NEW R, NEW d, Heap(h, R, d), NEW m \in Values, NEW name \in Keys,
           NEW i \in Nat, NEW l \in Nat, Long(name, l), i < l,
           NEW v \in Values, Leads(h.node, m, name, i + 1, l, v)
    PROVE  Undone(h, json_object_dotremove_internal(h, m, SubSeq(name, i + 1, Len(name)), FALSE),
                  R, d, m, v)
<1> DEFINE s == SubSeq(name, i + 1, l)
           r == json_object_dotremove_internal(h, m, SubSeq(name, i + 1, Len(name)), FALSE)
<1>0. Len(name) = l
    BY DEF Long
<1>1. PICK k \in Nat, n \in Nat \ {0} : k = i + 1 /\ n = l - i
    OBVIOUS
<1>2. Long(s, n) /\ Last(s) = name[l] /\ \A j \in 1 .. n : s[j] = name[i + j]
    BY <1>0, <1>1, SuffixIs
<1>3. r = json_object_dotremove_internal(h, m, s, FALSE)
    BY <1>0
<1> HIDE DEF r, s
<1>4. PICK at \in [k .. l -> Values] :
        /\ at[k] = m /\ json_object_get_value(h.node, at[l], <<name[l]>>) = v
        /\ \A j \in k .. l : /\ at[j] \in Tree(h.node, m)
                             /\ j # k => at[j] = json_object_get_value(h.node, at[j - 1], <<name[j - 1]>>)
    BY <1>1 DEF Leads
<1>5. PICK to \in [1 .. n -> Values \cup {NULL}] :
        /\ to[1] = m /\ Holder(h.node, m, s) = to[n]
        /\ \A j \in 1 .. n : j # 1 => to[j] = json_object_get_value(h.node, to[j - 1], <<s[j - 1]>>)
    BY <1>2, HolderIs DEF Heap
<1>6. \A j \in 1 .. n : to[j] = at[i + j]
    <2> DEFINE Bad == {j \in 1 .. n : to[j] # at[i + j]}
    <2>1. SUFFICES ASSUME Bad # {} PROVE FALSE
        OBVIOUS
    <2>2. Bad \in SUBSET Nat
        OBVIOUS
    <2>3. PICK j \in Bad : \A x \in Bad : j <= x
        <3> HIDE DEF Bad
        <3> QED  BY <2>1, <2>2, LeastExists
    <2>4. j \in 1 .. n /\ j # 1
        BY <1>1, <1>4, <1>5
    <2>5. PICK x \in 1 .. n : x = j - 1
        BY <2>4
    <2>6. x \notin Bad
        BY <2>3, <2>4, <2>5
    <2>7. to[x] = at[i + x]
        BY <2>6
    <2>8. PICK y \in k .. l : y = i + j /\ y - 1 = i + x /\ y # k
        BY <1>1, <2>4, <2>5
    <2>9. at[y] = json_object_get_value(h.node, at[i + x], <<name[i + x]>>)
        BY <1>4, <2>8
    <2>10. to[j] = json_object_get_value(h.node, to[x], <<s[x]>>)
        BY <1>5, <2>4, <2>5
    <2>11. to[j] = at[i + j]
        BY <1>2, <2>7, <2>8, <2>9, <2>10
    <2> QED  BY <2>3, <2>11
<1> DEFINE p == at[l]
<1>7. Holder(h.node, m, s) = p /\ p \in Values /\ p \in Tree(h.node, m)
    <2>1. n \in 1 .. n /\ i + n = l /\ l \in k .. l
        BY <1>1
    <2> QED  BY <1>4, <1>5, <1>6, <2>1
<1>8. v = json_object_get_value(h.node, p, <<name[l]>>) /\ v # NULL
    BY <1>4, ValuesAssumption
<1> HIDE DEF p
<1>9. h.node[p].type = "object" /\ p # NULL /\ v \in Children(h.node, p)
    BY <1>7, <1>8, GetIs, ValuesAssumption DEF Heap
<1>10. r = json_object_remove_internal(h, p, <<name[l]>>, FALSE)
    BY <1>2, <1>3, <1>7, <1>9 DEF json_object_dotremove_internal
<1>11. Heap(r, R \cup {v}, d) /\ \A w \in Values \ {p} : r.node[w] = h.node[w]
    <2>1. HasMember(h.node, p, <<name[l]>>, v)
        BY <1>8 DEF HasMember
    <2>2. Detached(h, json_object_remove_internal(h, p, <<name[l]>>, FALSE), R, d, p, v)
        BY <1>7, <2>1, DetachIs
    <2> QED  BY <1>10, <2>2 DEF Detached
<1> QED  BY <1>7, <1>9, <1>11 DEF Undone, r

\* Below a new root m stands nothing of what existed and keeps its parent: of nd,
\* the values that are not in the trees T taken out of it.
LEMMA Untouched ==
    ASSUME NEW nd, NEW R, Sound(nd, R), NEW md, NEW Q, Sound(md, Q),
           NEW T, Closed(Kids(nd), T \cap Values), R \ T \subseteq Q,
           \A w \in Exist(nd) \ T : md[w].parent = nd[w].parent,
           NEW m \in Exist(md), m \notin Exist(nd) \ T
    PROVE  Tree(md, m) \cap (Exist(nd) \ T) = {}
<1> DEFINE X == Exist(nd) \ T
<1>1. Forest(Exist(nd), Kids(nd), Par(nd), R) /\ Forest(Exist(md), Kids(md), Par(md), Q)
    BY DEF Sound
<1>2. IsTree(Kids(md), m, Tree(md, m))
    BY SoundTree
<1>3. ASSUME NEW w \in X PROVE w \in Q \/ Par(md)[w] \in X
    <2>1. CASE w \in R
        BY <2>1
    <2>2. CASE w \notin R
        <3>1. Par(nd)[w] \in Exist(nd) /\ w \in Kids(nd)[Par(nd)[w]]
            BY <1>1, <2>2, ForestParent
        <3>2. Par(md)[w] = Par(nd)[w] /\ Par(nd)[w] \in Values
            BY <3>1 DEF Par, Exist
        <3>3. Par(nd)[w] \notin T
            BY <3>1, <3>2 DEF Closed, Exist
        <3> QED  BY <3>1, <3>2, <3>3
    <2> QED  BY <2>1, <2>2
<1> HIDE DEF X
<1>4. m \notin X
    BY DEF X
<1>5. Tree(md, m) \cap X = {}
    BY <1>1, <1>2, <1>3, <1>4, NotBelowNew
<1> QED  BY <1>5 DEF X

\* What is in the tree of a value has its children there.
LEMMA TreeClosed ==
    ASSUME NEW nd \in [Values -> Nodes], NEW v \in Values
    PROVE  Closed(Kids(nd), Tree(nd, v) \cap Values)
<1>1. IsTree(Kids(nd), v, Tree(nd, v))
    BY TreeIsTree
<1>2. Tree(nd, v) \cap Values = Tree(nd, v)
    BY <1>1 DEF IsTree
<1> QED  BY <1>1, <1>2 DEF IsTree

\* A new container.
LEMMA ContainerSingle ==
    ASSUME NEW t \in Containers
    PROVE  /\ Single(Container(t)) /\ Container(t).type = t /\ Container(t).values = <<>>
<1> DEFINE n == Container(t)
<1>1. n = [type |-> t, parent |-> NULL, names |-> <<>>, values |-> <<>>, capacity |-> 0]
    BY DEF Container
<1>2. <<>> \in Seq(Keys) /\ <<>> \in Seq(Values) /\ NULL \in Parents
    BY DEF Parents
<1>3. n \in ContainerNodes /\ n.type = t /\ n.values = <<>> /\ n.names = <<>> /\ n.capacity = 0
    BY <1>1, <1>2 DEF ContainerNodes
<1> HIDE DEF n
<1>4. Len(n.values) = 0 /\ Len(n.names) = 0 /\ IsInjective(n.names) /\ IsInjective(n.values)
    BY <1>3 DEF IsInjective
<1>5. Fits(n)
    BY <1>3, <1>4 DEF Fits
<1>6. n \in Nodes /\ n.type # "free"
    BY <1>3 DEF Nodes, Containers
<1> QED  BY <1>3, <1>5, <1>6 DEF Single, n

\* A new, empty container among the roots.
MadeOf(h, made, m, R, d, t) ==
    /\ h.ok /\ made.ok /\ made.text = h.text /\ m \in Values \ Exist(h.node) /\ m \notin R
    /\ Heap(made, R \cup {m}, d) /\ Exist(made.node) = Exist(h.node) \cup {m}
    /\ made.node[m].type = t /\ made.node[m].values = <<>>
    /\ \A u \in Exist(h.node) : made.node[u] = h.node[u]
    /\ Tree(made.node, m) = {m}
    /\ \A v \in Exist(h.node) : Tree(made.node, v) = Tree(h.node, v) /\ m \notin Tree(h.node, v)

LEMMA NewContainerIs ==
    ASSUME NEW h, NEW R, NEW d, Heap(h, R, d), NEW t \in Containers,
           NEW made, made = json_value_init(h, Container(t)), NEW m, m = made.value
    PROVE  /\ ~made.ok => made = Failed(h)
           /\ made.ok => MadeOf(h, made, m, R, d, t)
<1> DEFINE n == Container(t)
<1>1. Single(n) /\ n.type = t /\ n.values = <<>>
    BY ContainerSingle
<1> HIDE DEF n
<1>2. /\ ~made.ok => made = Failed(h)
      /\ made.ok => /\ h.ok /\ m \in Values \ Exist(h.node) /\ made.node = [h.node EXCEPT ![m] = n]
                    /\ made.text = h.text /\ Heap(made, R \cup {m}, d)
    <2>1. made = json_value_init(h, n)
        BY DEF n
    <2>2. /\ ~json_value_init(h, n).ok => json_value_init(h, n) = Failed(h)
          /\ json_value_init(h, n).ok =>
                /\ h.ok /\ json_value_init(h, n).value \in Values \ Exist(h.node)
                /\ json_value_init(h, n).node = [h.node EXCEPT ![json_value_init(h, n).value] = n]
                /\ json_value_init(h, n).text = h.text
                /\ Heap(json_value_init(h, n), R \cup {json_value_init(h, n).value}, d)
        BY <1>1, InitIs
    <2> QED  BY <2>1, <2>2
<1>3. Sound(h.node, R)
    BY DEF Heap
<1>4. ASSUME made.ok PROVE MadeOf(h, made, m, R, d, t)
    <2> DEFINE nd == h.node
               md == made.node
    <2>1. m \in Values \ Exist(nd) /\ md = [nd EXCEPT ![m] = n] /\ nd \in [Values -> Nodes]
        BY <1>2, <1>3, <1>4 DEF Sound
    <2>2. Sound(md, R \cup {m})
        BY <1>2, <1>4 DEF Heap
    <2>3. R \subseteq Exist(nd) /\ md \in [Values -> Nodes]
        BY <1>3, <2>2 DEF Sound, Forest
    <2> HIDE DEF nd, md
    <2>4. Exist(md) = Exist(nd) \cup {m}
        BY <1>1, <1>3, <2>1, SoundInsert DEF nd
    <2>5. md[m] = n /\ \A u \in Values \ {m} : md[u] = nd[u]
        BY <2>1
    <2>6. \A u \in Exist(nd) : u \in Values /\ u # m
        BY <2>1 DEF Exist
    <2>7. Tree(md, m) = {m}
        <3>1. Children(md, m) = {}
            <4>1. <<>> \in Seq(Values)
                OBVIOUS
            <4>2. PICK s \in Seq(Values) : s = <<>>
                BY <4>1
            <4>3. Len(s) = 0 /\ DOMAIN s = 1 .. Len(s)
                BY <4>2
            <4>4. ToSet(s) = {}
                BY <4>3 DEF ToSet
            <4> QED  BY <1>1, <2>5, <4>2, <4>4 DEF Children
        <3>2. IsTree(Kids(md), m, Tree(md, m)) /\ Kids(md)[m] = {}
            BY <2>1, <2>3, <3>1, TreeIsTree DEF Kids
        <3>3. Closed(Kids(md), {m}) /\ {m} \in SUBSET Values
            BY <2>1, <3>2 DEF Closed
        <3> QED  BY <3>2, <3>3 DEF IsTree
    <2>8. ASSUME NEW v \in Exist(nd) PROVE Tree(md, v) = Tree(nd, v) /\ m \notin Tree(nd, v)
        <3>1. Tree(nd, v) \subseteq Exist(nd) /\ v \in Values
            BY <1>3, SoundTree DEF nd
        <3>2. \A u \in Tree(nd, v) : Children(md, u) = Children(nd, u)
            BY <2>5, <2>6, <3>1 DEF Children
        <3> QED  BY <2>1, <2>3, <3>1, <3>2, TreeKept
    <2>9. m \notin R
        BY <2>1, <2>3
    <2>10. \A u \in Exist(nd) : md[u] = nd[u]
        BY <2>5, <2>6
    <2> QED  BY <1>1, <1>2, <1>4, <2>1, <2>4, <2>5, <2>7, <2>8, <2>9, <2>10 DEF MadeOf, nd, md
<1> QED  BY <1>2, <1>4

\* A value v may be stored below p.
Storable(h, R, d, p, v) ==
    /\ Heap(h, R, d) /\ h.ok /\ p \in Values /\ h.node[p].type = "object"
    /\ v \in Exist(h.node) /\ (v \in R => p \notin Tree(h.node, v))

\* It is, where the parts i to l of the name lead, or the heap is as it was.
Stored(h, r, R, d, p, v, name, i, l) ==
    Sets(h, r, R, d, p, v) /\ (r.ok => Leads(r.node, p, name, i, l, v))

Stores(S, name, i, l, v) ==
    \A g, R, d, p : Storable(g, R, d, p, v) => Stored(g, S[g][p], R, d, p, v, name, i, l)

\* The member u is as good a place as p.
Below(h, R, d, p, v, u) ==
    /\ Storable(h, R, d, u, v) /\ h.node[p].type \in Containers /\ u \in Children(h.node, p)
    /\ Tree(h.node, u) \subseteq Tree(h.node, p) /\ p \in Exist(h.node) \ Tree(h.node, u)

LEMMA BelowIs ==
    ASSUME NEW h, NEW R, NEW d, NEW p, NEW v, Storable(h, R, d, p, v),
           NEW first, NEW u, HasMember(h.node, p, first, u), h.node[u].type = "object"
    PROVE  Below(h, R, d, p, v, u)
<1> DEFINE nd == h.node
<1>1. /\ Sound(nd, R) /\ p \in Values /\ v \in Exist(nd) /\ Heap(h, R, d) /\ h.ok
      /\ v \in R => p \notin Tree(nd, v)
    BY DEF Storable, Heap
<1>2. u \in Children(nd, p) /\ u \in Values /\ nd[p].type \in Containers
    <2>1. u = json_object_get_value(nd, p, first) /\ u # NULL /\ p \in Values \cup {NULL}
        BY <1>1 DEF HasMember
    <2> HIDE DEF nd
    <2> QED  BY <1>1, <2>1, GetIs
<1>3. /\ Forest(Exist(nd), Kids(nd), Par(nd), R) /\ IsTree(Kids(nd), v, Tree(nd, v))
      /\ nd \in [Values -> Nodes] /\ Tree(nd, v) \subseteq Exist(nd)
    BY <1>1, SoundTree
<1>4. u \notin R /\ nd[u].parent = p /\ p \notin Tree(nd, u) /\ p \in Exist(nd) /\ p \in Values
    <2> HIDE DEF nd
    <2>1. u \notin R /\ nd[u].parent = p /\ p \notin Tree(nd, u)
        BY <1>1, <1>2, MemberTrees
    <2> QED  BY <1>1, <1>2, <1>3, <2>1, ContainerIs
<1>5. ASSUME v \in R PROVE u \notin Tree(nd, v)
    <2>1. SUFFICES ASSUME u \in Tree(nd, v) PROVE FALSE
        OBVIOUS
    <2>2. Par(nd)[u] \in Tree(nd, v)
        <3> HIDE DEF nd
        <3> QED  BY <1>3, <1>4, <1>5, <2>1, InTree
    <2> QED  BY <1>1, <1>2, <1>4, <1>5, <2>2 DEF Par
<1>6. Storable(h, R, d, u, v)
    BY <1>1, <1>2, <1>5 DEF Storable
<1>7. Tree(nd, u) \subseteq Tree(nd, p)
    <2>1. Children(nd, p) \subseteq Tree(nd, p) /\ p \in Tree(nd, p)
        BY <1>1, <1>3, TreeBelow
    <2> QED  BY <1>1, <1>2, <1>3, <2>1, TreeBelow
<1> QED  BY <1>2, <1>4, <1>6, <1>7 DEF Below

\* What is stored below u is stored below p, and leaves p as it is.
LEMMA BelowStored ==
    ASSUME NEW h, NEW R, NEW d, NEW p, NEW v, Storable(h, R, d, p, v),
           NEW u, Below(h, R, d, p, v, u), NEW r, Sets(h, r, R, d, u, v)
    PROVE  /\ Sets(h, r, R, d, p, v)
           /\ r.ok => r.node[p] = h.node[p]
BY DEF Below, Sets, Storable

\* There is an object on the way.
LEMMA DotBelow ==
    ASSUME NEW h, NEW R, NEW d, NEW p, NEW v, Storable(h, R, d, p, v),
           NEW name, NEW i \in Nat, NEW l \in Nat, i < l, NEW S, Stores(S, name, i + 1, l, v),
           NEW u, HasMember(h.node, p, <<name[i]>>, u), h.node[u].type = "object"
    PROVE  Stored(h, S[h][u], R, d, p, v, name, i, l)
<1> DEFINE r == S[h][u]
<1>1. Below(h, R, d, p, v, u)
    BY BelowIs
<1>2. Stored(h, r, R, d, u, v, name, i + 1, l)
    BY <1>1 DEF Stores, Below
<1> HIDE DEF r
<1>3. Sets(h, r, R, d, p, v) /\ (r.ok => r.node[p] = h.node[p])
    BY <1>1, <1>2, BelowStored DEF Stored
<1>4. ASSUME r.ok PROVE Leads(r.node, p, name, i, l, v)
    <2> DEFINE md == r.node
    <2>1. Leads(md, u, name, i + 1, l, v) /\ Sound(md, R \ {v}) /\ md[p] = h.node[p] /\ p \in Values
        BY <1>2, <1>3, <1>4 DEF Stored, Sets, Heap, Storable
    <2>2. u \in Children(md, p) /\ md \in [Values -> Nodes]
        BY <1>1, <2>1 DEF Children, Sound, Below
    <2>3. u = json_object_get_value(md, p, <<name[i]>>)
        BY <2>1 DEF HasMember, json_object_get_value
    <2> HIDE DEF md
    <2>4. Leads(md, p, name, i, l, v)
        <3>1. u \in Values
            BY <1>1 DEF Below, Storable
        <3> QED  BY <2>1, <2>2, <2>3, LeadsOn
    <2> QED  BY <2>4 DEF md
<1> QED  BY <1>3, <1>4 DEF Stored, r

\* The part that comes next is stored below a new object m, which touches only v.
DotInner(h, inner, m, R, d, v, name, j, l) ==
    /\ m \in Values \ Exist(h.node) /\ m \notin R /\ v # m /\ m \in Exist(inner.node)
    /\ \A w \in Exist(h.node) \ Tree(h.node, v) : inner.node[w] = h.node[w]
    /\ ~inner.ok => Heap(inner, R \cup {m}, d)
    /\ inner.ok  => v \in R /\ Heap(inner, (R \ {v}) \cup {m}, d) /\ Leads(inner.node, m, name, j, l, v)

LEMMA DotInnerIs ==
    ASSUME NEW h, NEW R, NEW d, NEW p, NEW v, Storable(h, R, d, p, v),
           NEW name, NEW j, NEW l, NEW S, Stores(S, name, j, l, v),
           NEW made, NEW m, MadeOf(h, made, m, R, d, "object")
    PROVE  DotInner(h, S[made][m], m, R, d, v, name, j, l)
<1> DEFINE inner == S[made][m]
           Q == R \cup {m}
<1>1. /\ Heap(h, R, d) /\ v \in Exist(h.node) /\ m \in Values \ Exist(h.node) /\ m \notin R
      /\ Heap(made, Q, d) /\ made.ok /\ Exist(made.node) = Exist(h.node) \cup {m}
      /\ made.node[m].type = "object" /\ \A u \in Exist(h.node) : made.node[u] = h.node[u]
      /\ Tree(made.node, m) = {m} /\ Tree(made.node, v) = Tree(h.node, v) /\ m \notin Tree(h.node, v)
    BY DEF MadeOf, Storable
<1>2. Storable(made, Q, d, m, v)
    BY <1>1 DEF Storable
<1>3. Stored(made, inner, Q, d, m, v, name, j, l)
    BY <1>2 DEF Stores
<1> HIDE DEF inner
<1>4. v # m /\ (v \in Q => v \in R)
    BY <1>1
<1>5. /\ ~inner.ok => Heap(inner, Q, d)
      /\ inner.ok  => v \in R /\ Heap(inner, Q \ {v}, d) /\ Leads(inner.node, m, name, j, l, v)
      /\ \A w \in Exist(h.node) \ Tree(h.node, v) : inner.node[w] = h.node[w]
    BY <1>1, <1>3, <1>4 DEF Stored, Sets
<1>6. Q \ {v} = (R \ {v}) \cup {m}
    BY <1>4
<1>7. m \in Exist(inner.node)
    <2>1. ASSUME NEW X, Heap(inner, X, d) PROVE X \subseteq Exist(inner.node)
        BY <2>1 DEF Heap, Sound, Forest
    <2> QED  BY <1>5, <1>6, <2>1
<1> QED  BY <1>1, <1>4, <1>5, <1>6, <1>7 DEF DotInner, inner

\* Nothing that existed, but what is below v, came below m.
LEMMA DotApart ==
    ASSUME NEW nd, NEW R, Sound(nd, R), NEW v \in Exist(nd), NEW m \in Values \ Exist(nd),
           NEW md, NEW Q, Sound(md, Q), m \in Exist(md), R \ {v} \subseteq Q,
           \A w \in Exist(nd) \ Tree(nd, v) : md[w].parent = nd[w].parent
    PROVE  Tree(md, m) \cap (Exist(nd) \ Tree(nd, v)) = {}
<1>1. v \in Tree(nd, v) /\ v \in Values /\ nd \in [Values -> Nodes]
    BY SoundTree
<1>2. Closed(Kids(nd), Tree(nd, v) \cap Values)
    BY <1>1, TreeClosed
<1>3. R \ Tree(nd, v) \subseteq Q /\ m \notin Exist(nd) \ Tree(nd, v)
    BY <1>1
<1> QED  BY <1>2, <1>3, Untouched

\* The new object m is freed again.
LEMMA DotAbandoned ==
    ASSUME NEW h, NEW R, NEW d, NEW p, NEW v, Storable(h, R, d, p, v),
           NEW m \in Values \ Exist(h.node), m \notin R,
           NEW g, Heap(g, R \cup {m}, d),
           \A w \in Exist(h.node) \ (Tree(h.node, p) \cup Tree(h.node, v)) : g.node[w] = h.node[w],
           \A w \in Exist(h.node) \ Tree(h.node, v) : g.node[w].parent = h.node[w].parent
    PROVE  Sets(h, Abandon(g, m), R, d, p, v) /\ ~Abandon(g, m).ok
<1> DEFINE r == Abandon(g, m)
           Q == R \cup {m}
<1>1. Heap(h, R, d) /\ Sound(h.node, R) /\ v \in Exist(h.node) /\ Sound(g.node, Q) /\ m \in Q
    BY DEF Storable, Heap
<1>2. m \in Exist(g.node) /\ R \ {v} \subseteq Q
    BY <1>1 DEF Sound, Forest
<1>3. Tree(g.node, m) \cap (Exist(h.node) \ Tree(h.node, v)) = {}
    <2> HIDE DEF Q
    <2> QED  BY <1>1, <1>2, DotApart
<1>4. Heap(r, Q \ {m}, d) /\ Without(g.node, r.node, Tree(g.node, m)) /\ ~r.ok
    BY <1>1, AbandonIs
<1>5. Q \ {m} = R
    OBVIOUS
<1> HIDE DEF r
<1>6. ASSUME NEW w \in Exist(h.node) \ (Tree(h.node, p) \cup Tree(h.node, v))
      PROVE  r.node[w] = h.node[w]
    <2>1. w \in Values /\ w \notin Tree(g.node, m)
        BY <1>3 DEF Exist
    <2> QED  BY <1>4, <2>1 DEF Without
<1>7. Sets(h, r, R, d, p, v)
    BY <1>4, <1>5, <1>6 DEF Sets
<1> QED  BY <1>4, <1>7 DEF r

\* The new object m is added to p.
DotAdded(h, inner, added, R, d, p, v, m, first) ==
    /\ v \in R /\ p \notin Tree(inner.node, m) /\ p \in Exist(h.node) \ Tree(h.node, v)
    /\ Adds(inner, added, (R \ {v}) \cup {m}, d, p, m)
    /\ Heap(inner, (R \ {v}) \cup {m}, d)
    /\ Tree(inner.node, m) \cap (Exist(h.node) \ Tree(h.node, v)) = {}
    /\ added.ok => json_object_get_value(added.node, p, first) = m

LEMMA DotAddedIs ==
    ASSUME NEW h, NEW R, NEW d, NEW p, NEW v, Storable(h, R, d, p, v),
           NEW name, NEW j, NEW l, NEW inner, NEW m, DotInner(h, inner, m, R, d, v, name, j, l),
           inner.ok, NEW first \in Keys
    PROVE  DotAdded(h, inner, json_object_addn(inner, p, first, m), R, d, p, v, m, first)
<1> DEFINE Q == (R \ {v}) \cup {m}
           added == json_object_addn(inner, p, first, m)
<1>1. /\ Sound(h.node, R) /\ p \in Values /\ h.node[p].type = "object" /\ v \in Exist(h.node)
      /\ v \in R /\ p \notin Tree(h.node, v)
    BY DEF Storable, Heap, DotInner
<1>2. p \in Exist(h.node) \ Tree(h.node, v)
    BY <1>1 DEF Exist
<1>3. /\ m \in Values \ Exist(h.node) /\ v # m /\ m \in Exist(inner.node) /\ Heap(inner, Q, d)
      /\ \A w \in Exist(h.node) \ Tree(h.node, v) : inner.node[w] = h.node[w]
    BY DEF DotInner
<1>4. Sound(inner.node, Q) /\ R \ {v} \subseteq Q /\ m \in Q
    BY <1>3 DEF Heap
<1>5. Tree(inner.node, m) \cap (Exist(h.node) \ Tree(h.node, v)) = {}
    <2> HIDE DEF Q
    <2> QED  BY <1>1, <1>3, <1>4, DotApart
<1>6. p \notin Tree(inner.node, m) /\ inner.node[p].type = "object"
    BY <1>1, <1>2, <1>3, <1>5
<1>7. /\ Adds(inner, added, Q, d, p, m)
      /\ added.ok => added.node[p].names = Append(inner.node[p].names, first)
    <2> HIDE DEF Q
    <2>1. /\ Adds(inner, json_object_addn(inner, p, first, m), Q, d, p, m)
          /\ json_object_addn(inner, p, first, m).ok =>
                json_object_addn(inner, p, first, m).node[p].names
                    = Append(inner.node[p].names, first)
        BY <1>1, <1>3, <1>4, <1>6, AddnIs
    <2> QED  BY <2>1
<1> HIDE DEF added
<1>8. ASSUME added.ok PROVE json_object_get_value(added.node, p, first) = m
    <2> DEFINE nd == inner.node
               md == added.node
    <2>1. /\ Sound(md, Q \ {m}) /\ md[p].type = nd[p].type /\ md[p].values = Append(nd[p].values, m)
          /\ md[p].names = Append(nd[p].names, first)
        BY <1>7, <1>8 DEF Adds, Joined, Heap
    <2>2. /\ nd \in [Values -> Nodes] /\ md \in [Values -> Nodes] /\ Fits(nd[p])
          /\ md[p].type \in Containers /\ Fits(md[p])
        BY <1>1, <1>4, <1>6, <2>1 DEF Sound, Containers
    <2> HIDE DEF nd, md
    <2>3. nd[p].names \in Seq(Keys) /\ nd[p].values \in Seq(Values)
        BY <1>1, <2>1, <2>2, ContainerIs
    <2>4. Len(nd[p].names) = Len(nd[p].values) /\ IsInjective(md[p].names)
        BY <1>1, <1>6, <2>1, <2>2 DEF Fits, nd
    <2>5. PICK k \in Nat : k = Len(nd[p].names) + 1
        BY <2>3
    <2>6. Len(md[p].names) = k /\ md[p].names[k] = first /\ md[p].values[k] = m /\ k \in 1 .. k
        <3>1. PICK s \in Seq(Keys), t \in Seq(Values) : s = nd[p].names /\ t = nd[p].values
            BY <2>3
        <3>2. Append(s, first)[Len(s) + 1] = first /\ Len(Append(s, first)) = Len(s) + 1
            OBVIOUS
        <3>3. Append(t, m)[Len(t) + 1] = m
            BY <1>3
        <3> QED  BY <2>1, <2>4, <2>5, <3>1, <3>2, <3>3
    <2>7. k \in 1 .. Len(md[p].names) /\ md[p].type = "object"
        BY <1>6, <2>1, <2>6 DEF nd
    <2>8. json_object_get_value(md, p, first) = md[p].values[k]
        BY <1>1, <2>2, <2>4, <2>6, <2>7, GetFound
    <2> QED  BY <2>6, <2>8 DEF md
<1> QED  BY <1>1, <1>2, <1>3, <1>5, <1>6, <1>7, <1>8 DEF DotAdded, added

LEMMA DotAddedOk ==
    ASSUME NEW h, NEW R, NEW d, NEW p, NEW v, Storable(h, R, d, p, v),
           NEW name, NEW i \in Nat, NEW l \in Nat, i < l,
           NEW inner, NEW m, DotInner(h, inner, m, R, d, v, name, i + 1, l), inner.ok,
           <<name[i]>> \in Keys,
           NEW added, added = json_object_addn(inner, p, <<name[i]>>, m), added.ok
    PROVE  Stored(h, added, R, d, p, v, name, i, l)
<1> DEFINE Q == (R \ {v}) \cup {m}
           nd == inner.node
           md == added.node
<1>1. PICK first \in Keys : first = <<name[i]>>
    OBVIOUS
<1>2. PICK j \in Nat : j = i + 1
    OBVIOUS
<1>3. /\ m \in Values \ Exist(h.node) /\ m \notin R /\ v # m
      /\ \A w \in Exist(h.node) \ Tree(h.node, v) : nd[w] = h.node[w]
      /\ Leads(nd, m, name, j, l, v) /\ DotInner(h, inner, m, R, d, v, name, j, l)
    BY <1>2 DEF DotInner
<1>4. /\ v \in R /\ p \notin Tree(nd, m) /\ p \in Exist(h.node) \ Tree(h.node, v)
      /\ Adds(inner, added, Q, d, p, m) /\ Heap(inner, Q, d)
      /\ json_object_get_value(md, p, first) = m
    <2>1. DotAdded(h, inner, json_object_addn(inner, p, first, m), R, d, p, v, m, first)
        BY <1>3, DotAddedIs
    <2> QED  BY <1>1, <2>1 DEF DotAdded
<1>5. /\ Heap(added, Q \ {m}, d) /\ Joined(nd, md, p, m) /\ Sound(md, Q \ {m}) /\ Sound(nd, Q)
      /\ nd \in [Values -> Nodes] /\ md \in [Values -> Nodes] /\ p \in Values
    BY <1>4 DEF Adds, Heap, Sound, Exist
<1>6. Q \ {m} = R \ {v}
    BY <1>3
<1>7. Sets(h, added, R, d, p, v)
    <2>1. ASSUME NEW w \in Exist(h.node) \ (Tree(h.node, p) \cup Tree(h.node, v))
          PROVE  md[w] = h.node[w]
        <3>1. w \in Values /\ w # m
            BY <1>3 DEF Exist
        <3>2. w # p
            <4>1. p \in Tree(h.node, p)
                BY <1>5, TreeBelow DEF Storable, Heap, Sound
            <4> QED  BY <2>1, <4>1
        <3> QED  BY <1>3, <1>5, <3>1, <3>2 DEF Joined
    <2> QED  BY <1>4, <1>5, <1>6, <2>1 DEF Sets
<1>8. \A w \in Tree(nd, m) : SameData(nd[w], md[w])
    <2>1. SUFFICES ASSUME NEW w \in Tree(nd, m) PROVE SameData(nd[w], md[w])
        OBVIOUS
    <2>2. w \in Values /\ w # p
        <3> HIDE DEF nd
        <3> QED  BY <1>3, <1>4, <1>5, <2>1, TreeBelow
    <2>3. md[m] = Under(nd[m], p) /\ (w # m => md[w] = nd[w])
        BY <1>5, <2>2 DEF Joined
    <2>4. nd[m] \in Nodes /\ nd[m].type # "free" /\ p \in Parents
        BY <1>3, <1>5 DEF DotInner, Exist, Parents
    <2>5. SameData(nd[m], Under(nd[m], p))
        BY <2>4, ReparentIs DEF SameData
    <2> QED  BY <2>3, <2>5 DEF SameData
<1>9. m \in Children(md, p)
    <2>1. m # NULL /\ p \in Values \cup {NULL}
        BY <1>3, <1>5, ValuesAssumption
    <2> HIDE DEF md
    <2> QED  BY <1>4, <1>5, <2>1, GetIs
<1>10. Leads(md, p, name, i, l, v)
    <2> HIDE DEF nd, md
    <2>1. j <= l
        BY <1>2
    <2>2. Leads(md, m, name, j, l, v)
        BY <1>3, <1>5, <1>8, <2>1, LeadsKept
    <2>3. Leads(md, m, name, i + 1, l, v) /\ m = json_object_get_value(md, p, <<name[i]>>)
        BY <1>1, <1>2, <1>4, <2>2
    <2> QED  BY <1>5, <1>9, <2>3, LeadsOn
<1> QED  BY <1>7, <1>10 DEF Stored

\* The object m cannot be added: the name still leads from it to v.
LEMMA DotStillLeads ==
    ASSUME NEW h, NEW R, NEW d, NEW p, NEW v, Storable(h, R, d, p, v),
           NEW name, NEW j \in Nat, NEW l \in Nat, j <= l,
           NEW inner, NEW m, DotInner(h, inner, m, R, d, v, name, j, l), inner.ok,
           NEW first, NEW added, DotAdded(h, inner, added, R, d, p, v, m, first), ~added.ok
    PROVE  Leads(added.node, m, name, j, l, v) /\ Tree(added.node, m) = Tree(inner.node, m)
<1> DEFINE Q  == (R \ {v}) \cup {m}
           nd == inner.node
           md == added.node
<1>1. m \in Values /\ Leads(nd, m, name, j, l, v)
    BY DEF DotInner
<1>2. Heap(inner, Q, d) /\ Heap(added, Q, d) /\ Roomy(nd, md, p) /\ p \in Values
    BY DEF DotAdded, Adds, Storable
<1>3. nd \in [Values -> Nodes] /\ md \in [Values -> Nodes]
    BY <1>2 DEF Heap, Sound
<1> HIDE DEF nd, md
<1>4. Tree(md, m) = Tree(nd, m) /\ Tree(nd, m) \subseteq Values
    BY <1>1, <1>2, <1>3, RoomyIs, TreeBelow
<1>5. \A w \in Tree(nd, m) : SameData(nd[w], md[w])
    BY <1>2, <1>4 DEF Roomy, SameData
<1>6. Leads(md, m, name, j, l, v)
    BY <1>1, <1>3, <1>5, LeadsKept
<1> QED  BY <1>4, <1>6 DEF nd, md

\* Then v is taken out of it before it is freed.
LEMMA DotUndoneIs ==
    ASSUME NEW h, NEW R, NEW d, NEW p, NEW v, Storable(h, R, d, p, v),
           NEW name, NEW j, NEW l,
           NEW inner, NEW m, DotInner(h, inner, m, R, d, v, name, j, l), inner.ok,
           NEW first, NEW added, DotAdded(h, inner, added, R, d, p, v, m, first), ~added.ok,
           Tree(added.node, m) = Tree(inner.node, m),
           NEW undone, Undone(added, undone, (R \ {v}) \cup {m}, d, m, v)
    PROVE  Sets(h, Abandon(undone, m), R, d, p, v) /\ ~Abandon(undone, m).ok
<1> DEFINE Q  == (R \ {v}) \cup {m}
           nd == inner.node
           md == added.node
           T  == Tree(h.node, v)
<1>1. /\ m \in Values \ Exist(h.node) /\ m \notin R /\ v # m
      /\ \A w \in Exist(h.node) \ T : nd[w] = h.node[w]
    BY DEF DotInner
<1>2. /\ v \in R /\ p \in Exist(h.node) \ T /\ Tree(nd, m) \cap (Exist(h.node) \ T) = {}
      /\ Roomy(nd, md, p) /\ p \in Values
    BY DEF DotAdded, Adds, Storable
<1>3. Heap(undone, Q \cup {v}, d) /\ \A w \in Values \ Tree(md, m) : undone.node[w] = md[w]
    BY DEF Undone
<1>4. Q \cup {v} = R \cup {m}
    BY <1>2
<1>5. ASSUME NEW w \in Exist(h.node) \ T
      PROVE  undone.node[w].parent = h.node[w].parent /\ (w # p => undone.node[w] = h.node[w])
    <2>1. w \in Values /\ w \notin Tree(md, m)
        BY <1>2 DEF Exist
    <2>2. undone.node[w] = md[w] /\ nd[w] = h.node[w]
        BY <1>1, <1>3, <2>1
    <2>3. md[w].parent = nd[w].parent /\ (w # p => md[w] = nd[w])
        BY <1>2, <2>1 DEF Roomy
    <2> QED  BY <2>2, <2>3
<1>6. p \in Tree(h.node, p)
    BY <1>2, TreeBelow DEF Storable, Heap, Sound
<1> HIDE DEF Q, nd, md
<1>7. /\ Heap(undone, R \cup {m}, d)
      /\ \A w \in Exist(h.node) \ (Tree(h.node, p) \cup Tree(h.node, v)) :
            undone.node[w] = h.node[w]
      /\ \A w \in Exist(h.node) \ Tree(h.node, v) : undone.node[w].parent = h.node[w].parent
    BY <1>3, <1>4, <1>5, <1>6
<1> QED  BY <1>1, <1>7, DotAbandoned

LEMMA StoredFailed ==
    ASSUME NEW h, NEW R, NEW d, NEW p, NEW v, NEW r, Sets(h, r, R, d, p, v), ~r.ok,
           NEW name, NEW i, NEW l
    PROVE  Stored(h, r, R, d, p, v, name, i, l)
BY DEF Stored

\* A part of a name that has more is stored if the rest of it is.
LEMMA DotPartIs ==
    ASSUME NEW h, NEW R, NEW d, NEW p, NEW v, Storable(h, R, d, p, v),
           NEW name \in Keys, NEW i \in Nat \ {0}, NEW l \in Nat, Long(name, l), i < l,
           NEW S, Stores(S, name, i + 1, l, v)
    PROVE  Stored(h, DotSetPart(S, h, p, name, i), R, d, p, v, name, i, l)
<1> DEFINE first  == <<name[i]>>
           u      == json_object_get_value(h.node, p, first)
           made   == json_value_init(h, Container("object"))
           m      == made.value
           inner  == S[made][m]
           added  == json_object_addn(inner, p, first, m)
           undone == json_object_dotremove_internal(added, m, SubSeq(name, i + 1, Len(name)), FALSE)
           r      == DotSetPart(S, h, p, name, i)
<1>1. r = IF u # NULL THEN IF h.node[u].type # "object" THEN Failed(h) ELSE S[h][u]
          ELSE IF ~made.ok  THEN Failed(h)
          ELSE IF ~inner.ok THEN Abandon(inner, m)
          ELSE IF ~added.ok THEN Abandon(undone, m)
          ELSE added
    BY DEF DotSetPart
<1>2. Heap(h, R, d) /\ first \in Keys /\ v \in Values
    <2>1. i \in 1 .. Len(name)
        BY DEF Long
    <2>2. name[i] \in STRING
        BY <2>1 DEF Keys
    <2> QED  BY <2>2 DEF Keys, Storable, Exist
<1> DEFINE Goal(x) == Stored(h, x, R, d, p, v, name, i, l)
<1>3. Goal(Failed(h))
    BY <1>2, SetsFailed, StoredFailed
<1>4. ASSUME u # NULL, h.node[u].type = "object" PROVE Goal(S[h][u])
    <2>1. HasMember(h.node, p, first, u)
        BY <1>4 DEF HasMember
    <2>2. ASSUME NEW x, HasMember(h.node, p, <<name[i]>>, x), h.node[x].type = "object"
          PROVE  Goal(S[h][x])
        BY <2>2, DotBelow
    <2> QED  BY <1>4, <2>1, <2>2
<1>5. ASSUME made.ok
      PROVE  MadeOf(h, made, m, R, d, "object") /\ DotInner(h, inner, m, R, d, v, name, i + 1, l)
    <2>1. PICK x, y : x = made /\ y = m
        OBVIOUS
    <2>2. MadeOf(h, x, y, R, d, "object")
        <3>1. "object" \in Containers /\ x.ok /\ x = json_value_init(h, Container("object")) /\ y = x.value
            BY <1>5, <2>1 DEF Containers
        <3> QED  BY <1>2, <3>1, NewContainerIs
    <2>3. DotInner(h, S[x][y], y, R, d, v, name, i + 1, l)
        BY <2>2, DotInnerIs
    <2> QED  BY <2>1, <2>2, <2>3
<1> HIDE DEF made, u, m
<1>6. ASSUME made.ok, ~inner.ok PROVE Goal(Abandon(inner, m))
    <2> HIDE DEF inner
    <2>1. /\ m \in Values \ Exist(h.node) /\ m \notin R /\ Heap(inner, R \cup {m}, d)
          /\ \A w \in Exist(h.node) \ Tree(h.node, v) : inner.node[w] = h.node[w]
        BY <1>5, <1>6 DEF DotInner
    <2>2. /\ \A w \in Exist(h.node) \ (Tree(h.node, p) \cup Tree(h.node, v)) :
                inner.node[w] = h.node[w]
          /\ \A w \in Exist(h.node) \ Tree(h.node, v) : inner.node[w].parent = h.node[w].parent
        BY <2>1
    <2>3. Sets(h, Abandon(inner, m), R, d, p, v) /\ ~Abandon(inner, m).ok
        BY <2>1, <2>2, DotAbandoned
    <2> QED  BY <2>3, StoredFailed
<1> HIDE DEF inner, Goal
<1>7. ASSUME made.ok, inner.ok, added.ok PROVE Goal(added)
    <2>1. first \in Keys
        BY <1>2
    <2>2. Stored(h, added, R, d, p, v, name, i, l)
        BY <1>5, <1>7, <2>1, DotAddedOk
    <2> QED  BY <2>2 DEF Goal
<1>8. ASSUME made.ok, inner.ok, ~added.ok PROVE Goal(Abandon(undone, m))
    <2>1. PICK j \in Nat : j = i + 1 /\ j <= l
        OBVIOUS
    <2>2. DotInner(h, inner, m, R, d, v, name, j, l)
        BY <1>5, <1>8, <2>1
    <2>3. DotAdded(h, inner, added, R, d, p, v, m, first)
        <3> HIDE DEF first
        <3> QED  BY <1>2, <1>8, <2>2, DotAddedIs
    <2> HIDE DEF added, first
    <2>4. Leads(added.node, m, name, j, l, v) /\ Tree(added.node, m) = Tree(inner.node, m)
        BY <1>8, <2>1, <2>2, <2>3, DotStillLeads
    <2>5. Undone(added, undone, (R \ {v}) \cup {m}, d, m, v)
        <3>1. Heap(added, (R \ {v}) \cup {m}, d) /\ m \in Values
            BY <1>8, <2>2, <2>3 DEF DotAdded, Adds, DotInner
        <3>2. Leads(added.node, m, name, i + 1, l, v)
            BY <2>1, <2>4
        <3> QED  BY <1>2, <3>1, <3>2, UndoIs
    <2> HIDE DEF undone
    <2>6. Sets(h, Abandon(undone, m), R, d, p, v) /\ ~Abandon(undone, m).ok
        BY <1>8, <2>2, <2>3, <2>4, <2>5, DotUndoneIs
    <2> QED  BY <2>6, StoredFailed DEF Goal
<1> HIDE DEF added, undone, r
<1>9. Goal(r)
    BY <1>1, <1>3, <1>4, <1>6, <1>7, <1>8
<1> QED  BY <1>9 DEF Goal, r

\* The last part is stored by json_object_set_value.
LEMMA LastPartIs ==
    ASSUME NEW v, NEW name \in Keys, NEW l \in Nat \ {0}, Long(name, l), NEW S,
           \A g \in Heaps : \A p \in Values : S[g][p] = json_object_set_value(g, p, <<name[l]>>, v)
    PROVE  Stores(S, name, l, l, v)
<1>1. SUFFICES ASSUME NEW g, NEW R, NEW d, NEW p, Storable(g, R, d, p, v)
               PROVE  Stored(g, S[g][p], R, d, p, v, name, l, l)
    BY DEF Stores
<1>2. /\ g \in Heaps /\ Heap(g, R, d) /\ g.ok /\ p \in Values /\ g.node[p].type = "object"
      /\ v \in Exist(g.node) /\ (v \in R => p \notin Tree(g.node, v))
    BY <1>1 DEF Storable, Heap
<1>3. <<name[l]>> \in Keys
    <2>1. l \in 1 .. Len(name)
        BY DEF Long
    <2>2. name[l] \in STRING
        BY <2>1 DEF Keys
    <2> QED  BY <2>2 DEF Keys
<1>4. PICK r : r = S[g][p]
    OBVIOUS
<1>5. PICK key \in Keys : key = <<name[l]>>
    BY <1>3
<1>6. Sets(g, r, R, d, p, v) /\ (r.ok => json_object_get_value(r.node, p, key) = v)
    <2>1. r = json_object_set_value(g, p, key, v)
        BY <1>2, <1>4, <1>5
    <2> QED  BY <1>2, <2>1, SetIs
<1>7. ASSUME r.ok PROVE Leads(r.node, p, name, l, l, v)
    <2> DEFINE md == r.node
               at == [j \in l .. l |-> p]
    <2>1. md \in [Values -> Nodes]
        BY <1>6, <1>7 DEF Sets, Heap, Sound
    <2>2. json_object_get_value(md, p, <<name[l]>>) = v
        BY <1>5, <1>6, <1>7
    <2> HIDE DEF md
    <2>3. p \in Tree(md, p)
        BY <1>2, <2>1, TreeBelow
    <2>4. \A j \in l .. l : j = l
        OBVIOUS
    <2>5. at \in [l .. l -> Values] /\ at[l] = p /\ \A j \in l .. l : at[j] = p
        BY <1>2, <2>4
    <2> HIDE DEF at
    <2>6. Leads(md, p, name, l, l, v)
        BY <2>2, <2>3, <2>4, <2>5 DEF Leads
    <2> QED  BY <2>6 DEF md
<1> QED  BY <1>4, <1>6, <1>7 DEF Stored

\* What stores the ith part of a name, when x stores the next one.
DotRow(x, name, v, i) ==
    [g \in Heaps |-> [p \in Values |->
        IF i = Len(name) THEN json_object_set_value(g, p, <<name[i]>>, v)
                         ELSE DotSetPart(x, g, p, name, i)]]

IsDotTable(f, name, v, l) == f = [i \in 1 .. l |-> DotRow(f[i + 1], name, v, i)]

\* There is such a table for the last parts of a name, and so for all of them.
LEMMA DotTable ==
    ASSUME NEW name, NEW v, NEW l \in Nat \ {0}, Long(name, l)
    PROVE  \E f : IsDotTable(f, name, v, l)
<1> DEFINE Row(x, i) == DotRow(x, name, v, i)
           Is(f, k) == f = [i \in k .. l |-> Row(f[i + 1], i)]
           Missing == {m \in 0 .. l - 1 : ~\E f : Is(f, l - m)}
<1>1. \A x, y : Row(x, l) = Row(y, l)
    BY DEF DotRow, Long
<1> HIDE DEF Row
<1>2. \E f : Is(f, l)
    <2> DEFINE f == [i \in l .. l |-> Row(0, i)]
    <2>1. \A i \in l .. l : Row(0, i) = Row(f[i + 1], i)
        <3> HIDE DEF f
        <3> QED  BY <1>1
    <2>2. f = [i \in l .. l |-> Row(f[i + 1], i)]
        BY <2>1
    <2> QED  BY <2>2
<1>3. ASSUME NEW k \in 1 .. l, k # l, NEW f, Is(f, k + 1) PROVE \E g : Is(g, k)
    <2> DEFINE g == [i \in k .. l |-> IF i = k THEN Row(f[k + 1], k) ELSE f[i]]
    <2>1. \A i \in k + 1 .. l : f[i] = Row(f[i + 1], i)
        BY <1>3
    <2>2. ASSUME NEW i \in k .. l PROVE g[i] = Row(g[i + 1], i)
        <3>1. CASE i = l
            <4>1. i \in k + 1 .. l /\ i # k
                BY <1>3, <3>1
            <4>2. g[i] = Row(f[i + 1], i)
                BY <2>1, <4>1
            <4> HIDE DEF g
            <4> QED  BY <1>1, <3>1, <4>2
        <3>2. CASE i # l
            <4>1. i + 1 \in k .. l /\ i + 1 # k /\ (i # k => i \in k + 1 .. l)
                BY <1>3, <3>2
            <4>2. g[i + 1] = f[i + 1]
                BY <4>1
            <4>3. g[i] = Row(f[i + 1], i)
                <5>1. CASE i = k
                    BY <5>1
                <5>2. CASE i # k
                    <6>1. g[i] = f[i]
                        BY <5>2
                    <6> HIDE DEF g
                    <6> QED  BY <2>1, <4>1, <5>2, <6>1
                <5> QED  BY <5>1, <5>2
            <4> QED  BY <4>2, <4>3
        <3> QED  BY <3>1, <3>2
    <2>3. g = [i \in k .. l |-> g[i]]
        OBVIOUS
    <2> HIDE DEF g
    <2>4. g = [i \in k .. l |-> Row(g[i + 1], i)]
        BY <2>2, <2>3
    <2> QED  BY <2>4
<1> HIDE DEF Is
<1>4. Missing = {}
    <2>1. SUFFICES ASSUME Missing # {} PROVE FALSE
        OBVIOUS
    <2>2. Missing \in SUBSET Nat
        OBVIOUS
    <2>3. PICK m \in Missing : \A n \in Missing : m <= n
        <3> HIDE DEF Missing
        <3> QED  BY <2>1, <2>2, LeastExists
    <2>4. m # 0 /\ m \in 0 .. l - 1
        BY <1>2
    <2>5. PICK n \in 0 .. l - 1 : n = m - 1
        BY <2>4
    <2>6. n \notin Missing
        BY <2>3, <2>4, <2>5
    <2>7. PICK f : Is(f, l - n)
        BY <2>6
    <2>8. PICK k \in 1 .. l : k = l - m /\ k # l /\ l - n = k + 1
        BY <2>4, <2>5
    <2>9. \E g : Is(g, k)
        BY <1>3, <2>7, <2>8
    <2> QED  BY <2>3, <2>8, <2>9
<1>5. \E f : Is(f, 1)
    <2>1. l - 1 \in 0 .. l - 1 /\ l - (l - 1) = 1
        OBVIOUS
    <2> QED  BY <1>4, <2>1
<1> QED  BY <1>5 DEF Is, Row, IsDotTable

LEMMA DotValueIs ==
    ASSUME NEW name, NEW v, v # NULL, NEW l \in Nat \ {0}, Long(name, l), NEW h, NEW o
    PROVE  \E set : /\ json_object_dotset_value(h, o, name, v) = set[1][h][o]
                    /\ \A i \in 1 .. l : set[i] = DotRow(set[i + 1], name, v, i)
<1> DEFINE set == CHOOSE f : IsDotTable(f, name, v, l)
<1>1. set = [i \in 1 .. l |-> DotRow(set[i + 1], name, v, i)]
    <2>1. \E f : IsDotTable(f, name, v, l)
        BY DotTable
    <2>2. IsDotTable(set, name, v, l)
        BY <2>1
    <2> HIDE DEF set
    <2> QED  BY <2>2 DEF IsDotTable
<1>2. json_object_dotset_value(h, o, name, v) = set[1][h][o]
    <2>1. json_object_dotset_value(h, o, name, v)
             = (CHOOSE f : f = [i \in 1 .. Len(name) |-> DotRow(f[i + 1], name, v, i)])[1][h][o]
        BY Zenon DEF json_object_dotset_value, DotRow
    <2>2. Len(name) = l
        BY DEF Long
    <2> QED  BY Zenon, <2>1, <2>2 DEF IsDotTable
<1> HIDE DEF set
<1> QED  BY <1>1, <1>2

LEMMA PartsAreStored ==
    ASSUME NEW name \in Keys, NEW v, NEW l \in Nat \ {0}, Long(name, l), NEW set,
           \A i \in 1 .. l : set[i] = DotRow(set[i + 1], name, v, i)
    PROVE  Stores(set[1], name, 1, l, v)
<1>1. Stores(set[l], name, l, l, v)
    <2>1. PICK S : S = set[l]
        OBVIOUS
    <2>2. l \in 1 .. l /\ l = Len(name)
        BY DEF Long
    <2>3. S = DotRow(set[l + 1], name, v, l)
        BY <2>1, <2>2
    <2>4. \A g \in Heaps : \A p \in Values : S[g][p] = json_object_set_value(g, p, <<name[l]>>, v)
        BY <2>2, <2>3 DEF DotRow
    <2> QED  BY <2>1, <2>4, LastPartIs
<1>2. ASSUME NEW i \in 1 .. l, i # l, Stores(set[i + 1], name, i + 1, l, v)
      PROVE  Stores(set[i], name, i, l, v)
    <2>1. PICK S : S = set[i + 1]
        OBVIOUS
    <2>2. i \in Nat \ {0} /\ l \in Nat /\ i < l /\ i # Len(name)
        BY <1>2 DEF Long
    <2>3. set[i] = DotRow(S, name, v, i)
        BY <2>1
    <2>4. \A g \in Heaps : \A p \in Values : set[i][g][p] = DotSetPart(S, g, p, name, i)
        BY <2>2, <2>3 DEF DotRow
    <2>5. Stores(S, name, i + 1, l, v)
        BY <1>2, <2>1
    <2>6. ASSUME NEW g, NEW R, NEW d, NEW p, Storable(g, R, d, p, v)
          PROVE  Stored(g, set[i][g][p], R, d, p, v, name, i, l)
        <3>1. g \in Heaps /\ p \in Values
            BY <2>6 DEF Storable, Heap
        <3>2. Stored(g, DotSetPart(S, g, p, name, i), R, d, p, v, name, i, l)
            BY <2>2, <2>5, <2>6, DotPartIs
        <3> QED  BY <2>4, <3>1, <3>2
    <2> QED  BY <2>6 DEF Stores
<1> DEFINE Stored_(i) == Stores(set[i], name, i, l, v)
           Bad == {m \in 0 .. l - 1 : ~Stored_(l - m)}
<1>3. Stored_(l) /\ \A i \in 1 .. l : i # l /\ Stored_(i + 1) => Stored_(i)
    BY <1>1, <1>2
<1> HIDE DEF Stored_
<1>4. Bad = {}
    <2>1. SUFFICES ASSUME Bad # {} PROVE FALSE
        OBVIOUS
    <2>2. Bad \in SUBSET Nat
        OBVIOUS
    <2>3. PICK m \in Bad : \A n \in Bad : m <= n
        <3> HIDE DEF Bad
        <3> QED  BY <2>1, <2>2, LeastExists
    <2>4. m # 0 /\ m \in 0 .. l - 1
        BY <1>3
    <2>5. PICK n \in 0 .. l - 1 : n = m - 1
        BY <2>4
    <2>6. n \notin Bad
        BY <2>3, <2>4, <2>5
    <2>7. PICK k \in 1 .. l : k = l - m /\ k # l /\ l - n = k + 1
        BY <2>4, <2>5
    <2> QED  BY <1>3, <2>3, <2>6, <2>7
<1>5. l - 1 \in 0 .. l - 1 /\ l - (l - 1) = 1
    OBVIOUS
<1> QED  BY <1>4, <1>5 DEF Stored_

LEMMA DotSetStored ==
    ASSUME NEW h, NEW R, NEW d, Heap(h, R, d), h.ok, NEW o \in Values, h.node[o].type = "object",
           NEW name \in Keys, NEW l \in Nat \ {0}, Long(name, l),
           NEW v \in Exist(h.node), v \in R => o \notin Tree(h.node, v)
    PROVE  Stored(h, json_object_dotset_value(h, o, name, v), R, d, o, v, name, 1, l)
<1>1. v # NULL
    BY ValuesAssumption DEF Exist
<1>2. PICK set : /\ json_object_dotset_value(h, o, name, v) = set[1][h][o]
                 /\ \A i \in 1 .. l : set[i] = DotRow(set[i + 1], name, v, i)
    BY <1>1, DotValueIs
<1>3. Stores(set[1], name, 1, l, v)
    BY <1>2, PartsAreStored
<1>4. Storable(h, R, d, o, v)
    BY DEF Storable
<1> QED  BY <1>2, <1>3, <1>4 DEF Stores

LEMMA DotSetIs ==
    ASSUME NEW h, NEW R, NEW d, Heap(h, R, d), h.ok, NEW o \in Values, h.node[o].type = "object",
           NEW name \in Keys, Len(name) > 0,
           NEW v \in Exist(h.node), v \in R => o \notin Tree(h.node, v)
    PROVE  Sets(h, json_object_dotset_value(h, o, name, v), R, d, o, v)
<1>1. PICK l \in Nat \ {0} : Long(name, l)
    <2>1. PICK l \in Nat \ {0} : l = Len(name)
        BY DEF Keys
    <2> QED  BY <2>1 DEF Long
<1> QED  BY <1>1, DotSetStored DEF Stored

\* Where the parts of a name lead is where json_object_dotget_value looks.
LEMMA LedTo ==
    ASSUME NEW nd, NEW R, Sound(nd, R), NEW o \in Values, NEW name, NEW l \in Nat \ {0},
           Long(name, l), NEW v, Leads(nd, o, name, 1, l, v)
    PROVE  json_object_dotget_value(nd, o, name) = v
<1>1. PICK at \in [1 .. l -> Values] :
        /\ at[1] = o /\ json_object_get_value(nd, at[l], <<name[l]>>) = v
        /\ \A j \in 1 .. l : j # 1 => at[j] = json_object_get_value(nd, at[j - 1], <<name[j - 1]>>)
    BY DEF Leads
<1>2. PICK to \in [1 .. l -> Values \cup {NULL}] :
        /\ to[1] = o /\ Holder(nd, o, name) = to[l]
        /\ \A j \in 1 .. l : j # 1 => to[j] = json_object_get_value(nd, to[j - 1], <<name[j - 1]>>)
    BY HolderIs
<1>3. \A j \in 1 .. l : to[j] = at[j]
    <2> DEFINE Bad == {j \in 1 .. l : to[j] # at[j]}
    <2>1. SUFFICES ASSUME Bad # {} PROVE FALSE
        OBVIOUS
    <2>2. Bad \in SUBSET Nat
        OBVIOUS
    <2>3. PICK j \in Bad : \A x \in Bad : j <= x
        <3> HIDE DEF Bad
        <3> QED  BY <2>1, <2>2, LeastExists
    <2>4. j \in 1 .. l /\ j # 1
        BY <1>1, <1>2
    <2>5. PICK x \in 1 .. l : x = j - 1
        BY <2>4
    <2>6. to[x] = at[x]
        BY <2>3, <2>4, <2>5
    <2> QED  BY <1>1, <1>2, <2>3, <2>4, <2>5, <2>6
<1>4. l \in 1 .. l
    OBVIOUS
<1>5. Last(name) = name[l]
    BY DEF Last, Long
<1> QED  BY <1>1, <1>2, <1>3, <1>4, <1>5 DEF json_object_dotget_value

-----------------------------------------------------------------------------
(* Copying. *)

\* The values that h has are as they were.
Keeps(h, r) == \A u \in Exist(h.node) : r.node[u] = h.node[u]

\* How making a new root ends.
Grown(h, r, R, d) ==
    /\ r.ok  => r.value \in Values \ Exist(h.node) /\ Heap(r, R \cup {r.value}, d)
    /\ ~r.ok => Heap(r, R, d)
    /\ Keeps(h, r)

\* Below a root that h does not have is nothing that h has.
LEMMA RootApart ==
    ASSUME NEW h, NEW R, NEW d, Heap(h, R, d), NEW m \in Values \ Exist(h.node),
           NEW g, NEW Q, NEW e, Heap(g, Q, e), m \in Q, R \subseteq Q,
           \A w \in Exist(h.node) : g.node[w].parent = h.node[w].parent
    PROVE  Tree(g.node, m) \cap Exist(h.node) = {}
<1> DEFINE T == {}
           nd == h.node
           md == g.node
<1>1. Sound(nd, R) /\ Sound(md, Q)
    BY DEF Heap
<1>2. m \in Exist(md)
    BY <1>1 DEF Sound, Forest
<1>3. Closed(Kids(nd), T \cap Values) /\ R \ T \subseteq Q /\ m \notin Exist(nd) \ T
      /\ \A w \in Exist(nd) \ T : md[w].parent = nd[w].parent
    BY DEF Closed
<1> HIDE DEF T, nd, md
<1>4. Tree(md, m) \cap (Exist(nd) \ T) = {}
    BY <1>1, <1>2, <1>3, Untouched
<1> QED  BY <1>4 DEF T, nd, md

\* Such a root may be freed.
LEMMA FreeNewIs ==
    ASSUME NEW h, NEW R, NEW d, Heap(h, R, d), NEW m \in Values \ Exist(h.node),
           NEW g, NEW Q, NEW e, Heap(g, Q, e), m \in Q, R \subseteq Q, Keeps(h, g)
    PROVE  /\ Heap(json_value_free(g, m), Q \ {m}, e) /\ Keeps(h, json_value_free(g, m))
           /\ Heap(Abandon(g, m), Q \ {m}, e) /\ Keeps(h, Abandon(g, m)) /\ ~Abandon(g, m).ok
<1>1. Tree(g.node, m) \cap Exist(h.node) = {}
    <2>1. \A w \in Exist(h.node) : g.node[w].parent = h.node[w].parent
        BY DEF Keeps
    <2> QED  BY <2>1, RootApart
<1>2. /\ Heap(json_value_free(g, m), Q \ {m}, e)
      /\ Without(g.node, json_value_free(g, m).node, Tree(g.node, m))
    BY FreeRootIs
<1>3. /\ Heap(Abandon(g, m), Q \ {m}, e) /\ ~Abandon(g, m).ok
      /\ Without(g.node, Abandon(g, m).node, Tree(g.node, m))
    BY AbandonIs
<1>4. ASSUME NEW x, Without(g.node, x.node, Tree(g.node, m)) PROVE Keeps(h, x)
    <2>1. ASSUME NEW u \in Exist(h.node) PROVE x.node[u] = h.node[u]
        <3>1. u \in Values /\ u \notin Tree(g.node, m)
            BY <1>1 DEF Exist
        <3> QED  BY <1>4, <3>1 DEF Keeps, Without
    <2> QED  BY <2>1 DEF Keeps
<1> QED  BY <1>2, <1>3, <1>4

\* A member of any container that is not below it.
LEMMA AddMemberIs ==
    ASSUME NEW h, NEW R, NEW d, Heap(h, R, d), NEW c \in Values, h.node[c].type \in Containers,
           NEW name \in Keys, NEW v \in R, c \notin Tree(h.node, v)
    PROVE  Adds(h, AddMember(h, c, name, v), R, d, c, v)
<1>1. CASE h.node[c].type = "object"
    BY <1>1, AddnIs DEF AddMember
<1>2. CASE h.node[c].type = "array"
    BY <1>2, ArrayAddIs DEF AddMember
<1> QED  BY <1>1, <1>2 DEF Containers

\* A container m that h does not have is being filled.
Filling(h, x, m, R, d, t) ==
    /\ m \in Values \ Exist(h.node) /\ m \notin R /\ t \in Containers
    /\ Heap(x, R \cup {m}, d) /\ x.node[m].type = t /\ Keeps(h, x)

\* A new value w is made for it.
Found(h, g, m, w, R, d, t) ==
    /\ Filling(h, g, m, R \cup {w}, d, t) /\ w \in Values \ Exist(h.node) /\ w # m /\ w \notin R
    /\ m \notin Tree(g.node, w)

LEMMA FoundIs ==
    ASSUME NEW h, NEW R, NEW d, Heap(h, R, d), NEW x, NEW m, NEW t, NEW e,
           Filling(h, x, m, R, e, t), NEW g, Grown(x, g, R \cup {m}, e)
    PROVE  /\ g.ok  => Found(h, g, m, g.value, R, e, t)
           /\ ~g.ok => Filling(h, g, m, R, e, t)
<1> DEFINE Q == R \cup {m}
<1>1. /\ m \in Values \ Exist(h.node) /\ m \notin R /\ t \in Containers /\ Heap(x, Q, e)
      /\ x.node[m].type = t /\ Keeps(h, x)
    BY DEF Filling
<1>2. Q \subseteq Exist(x.node) /\ Exist(h.node) \subseteq Exist(x.node) /\ m \in Exist(x.node)
    <2>1. Q \subseteq Exist(x.node)
        <3> HIDE DEF Q
        <3> QED  BY <1>1 DEF Heap, Sound, Forest
    <2>2. \A u \in Exist(h.node) : u \in Values /\ x.node[u] = h.node[u] /\ h.node[u].type # "free"
        BY <1>1 DEF Keeps, Exist
    <2> QED  BY <2>1, <2>2 DEF Exist
<1>3. Keeps(x, g)
    BY DEF Grown
<1>4. Keeps(h, g) /\ g.node[m].type = t
    BY <1>1, <1>2, <1>3 DEF Keeps
<1>5. ASSUME ~g.ok PROVE Filling(h, g, m, R, e, t)
    BY <1>1, <1>4, <1>5 DEF Filling, Grown
<1>6. ASSUME g.ok PROVE Found(h, g, m, g.value, R, e, t)
    <2>1. PICK w : w = g.value
        OBVIOUS
    <2>2. w \in Values \ Exist(x.node) /\ Heap(g, Q \cup {w}, e)
        BY <1>6, <2>1 DEF Grown
    <2>3. w \notin Exist(h.node) /\ w # m /\ w \notin R
        BY <1>2, <2>2
    <2>4. Q \cup {w} = (R \cup {w}) \cup {m}
        OBVIOUS
    <2>5. Filling(h, g, m, R \cup {w}, e, t)
        BY <1>1, <1>4, <2>2, <2>3, <2>4 DEF Filling
    <2>6. m \notin Tree(g.node, w)
        <3> DEFINE nd == g.node
        <3>1. Sound(nd, Q \cup {w}) /\ m \in Q \cup {w}
            BY <2>2 DEF Heap
        <3> HIDE DEF nd, Q
        <3>2. w \in Exist(nd)
            BY <3>1 DEF Sound, Forest
        <3>3. IsTree(Kids(nd), w, Tree(nd, w)) /\ Forest(Exist(nd), Kids(nd), Par(nd), Q \cup {w})
            BY <3>1, <3>2, SoundTree
        <3>4. m \notin Tree(nd, w)
            BY <2>3, <3>1, <3>3, RootNotBelow
        <3> QED  BY <3>4 DEF nd
    <2> QED  BY <2>1, <2>2, <2>3, <2>5, <2>6 DEF Found
<1> QED  BY <1>5, <1>6

\* It becomes a member of m, or is still to be freed.
LEMMA FoundAdded ==
    ASSUME NEW h, NEW R, NEW d, Heap(h, R, d), NEW g, NEW m, NEW w, NEW t, NEW e,
           Found(h, g, m, w, R, e, t), NEW name \in Keys, NEW added, added = AddMember(g, m, name, w)
    PROVE  /\ added.ok  => Filling(h, added, m, R, e, t)
           /\ ~added.ok => Filling(h, added, m, R \cup {w}, e, t)
<1> DEFINE Q == (R \cup {w}) \cup {m}
<1>1. /\ m \in Values \ Exist(h.node) /\ m \notin R \cup {w} /\ t \in Containers /\ Heap(g, Q, e)
      /\ g.node[m].type = t /\ Keeps(h, g) /\ w \in Values \ Exist(h.node) /\ w # m /\ w \notin R
      /\ m \notin Tree(g.node, w) /\ w \in Q
    BY DEF Found, Filling
<1> HIDE DEF Q
<1>2. Adds(g, added, Q, e, m, w)
    <2>1. Adds(g, AddMember(g, m, name, w), Q, e, m, w)
        BY <1>1, AddMemberIs
    <2> QED  BY <2>1
<1>3. ASSUME NEW u \in Exist(h.node) PROVE u \in Values \ {m, w} /\ g.node[u] = h.node[u]
    BY <1>1 DEF Exist, Keeps
<1>4. ASSUME added.ok PROVE Filling(h, added, m, R, e, t)
    <2>1. Heap(added, Q \ {w}, e) /\ Joined(g.node, added.node, m, w)
        BY <1>2, <1>4 DEF Adds
    <2>2. Q \ {w} = R \cup {m}
        BY <1>1 DEF Q
    <2>3. Keeps(h, added) /\ added.node[m].type = t
        BY <1>1, <1>3, <2>1 DEF Keeps, Joined
    <2> QED  BY <1>1, <2>1, <2>2, <2>3 DEF Filling
<1>5. ASSUME ~added.ok PROVE Filling(h, added, m, R \cup {w}, e, t)
    <2>1. Heap(added, Q, e) /\ Roomy(g.node, added.node, m)
        BY <1>2, <1>5 DEF Adds
    <2>2. Keeps(h, added) /\ added.node[m].type = t
        BY <1>1, <1>3, <2>1 DEF Keeps, Roomy
    <2> QED  BY <1>1, <2>1, <2>2 DEF Filling, Q
<1> QED  BY <1>4, <1>5

\* m is freed, or both are.
LEMMA FillingFreed ==
    ASSUME NEW h, NEW R, NEW d, Heap(h, R, d), NEW x, NEW m, NEW t, NEW e,
           Filling(h, x, m, R, e, t)
    PROVE  Heap(Abandon(x, m), R, e) /\ Keeps(h, Abandon(x, m)) /\ ~Abandon(x, m).ok
<1> DEFINE Q == R \cup {m}
<1>1. m \in Values \ Exist(h.node) /\ Heap(x, Q, e) /\ Keeps(h, x) /\ m \in Q /\ R \subseteq Q
      /\ Q \ {m} = R
    BY DEF Filling
<1> HIDE DEF Q
<1>2. Heap(Abandon(x, m), Q \ {m}, e) /\ Keeps(h, Abandon(x, m)) /\ ~Abandon(x, m).ok
    BY <1>1, FreeNewIs
<1> QED  BY <1>1, <1>2

LEMMA BothFreed ==
    ASSUME NEW h, NEW R, NEW d, Heap(h, R, d), NEW x, NEW a, NEW b, a # b, NEW e,
           a \in Values \ Exist(h.node), b \in Values \ Exist(h.node), a \notin R, b \notin R,
           Heap(x, R \cup {a, b}, e), Keeps(h, x),
           NEW r, r = Abandon(json_value_free(x, a), b)
    PROVE  Heap(r, R, e) /\ Keeps(h, r) /\ ~r.ok
<1> DEFINE Q == R \cup {a, b}
           P == R \cup {b}
           f == json_value_free(x, a)
<1>1. a \in Q /\ R \subseteq Q /\ Q \ {a} = P /\ b \in P /\ R \subseteq P /\ P \ {b} = R /\ Heap(x, Q, e)
    OBVIOUS
<1> HIDE DEF Q, P
<1>2. Heap(f, Q \ {a}, e) /\ Keeps(h, f)
    BY <1>1, FreeNewIs
<1>3. r = Abandon(f, b) /\ Heap(f, P, e)
    BY <1>1, <1>2
<1> HIDE DEF f
<1>4. Heap(Abandon(f, b), P \ {b}, e) /\ Keeps(h, Abandon(f, b)) /\ ~Abandon(f, b).ok
    BY <1>1, <1>2, <1>3, FreeNewIs
<1> QED  BY <1>1, <1>3, <1>4

Copies(C) ==
    \A g, R, d, w : Heap(g, R, d) /\ g.ok /\ w \in Exist(g.node) => Grown(g, C[g][w], R, d)

\* As long as all goes well m is filled; otherwise nothing is left of it.
CopyInv(h, x, m, R, d, t) ==
    /\ x.ok  => Filling(h, x, m, R, d, t)
    /\ ~x.ok => Heap(x, R, d) /\ Keeps(h, x)

LEMMA CopyMemberIs ==
    ASSUME NEW h, NEW R, NEW d, Heap(h, R, d), NEW v \in Values, NEW t \in Containers,
           h.node[v].type = t, NEW i \in 1 .. Len(h.node[v].values), NEW C, Copies(C),
           NEW x, NEW m, CopyInv(h, x, m, R, d, t)
    PROVE  CopyInv(h, CopyMember(C, x, m, v, i), m, R, d, t)
<1> DEFINE u     == x.node[v].values[i]
           made  == C[x][u]
           name  == IF x.node[v].type = "object" THEN x.node[v].names[i] ELSE <<>>
           added == AddMember(made, m, name, made.value)
           r     == CopyMember(C, x, m, v, i)
<1>1. CASE ~x.ok
    BY <1>1 DEF CopyMember
<1>2. CASE x.ok
    <2>1. Filling(h, x, m, R, d, t) /\ Heap(x, R \cup {m}, d) /\ Keeps(h, x) /\ Sound(h.node, R)
        BY <1>2 DEF CopyInv, Filling, Heap
    <2>2. r = IF ~made.ok THEN Abandon(made, m)
              ELSE IF ~added.ok THEN Abandon(json_value_free(added, m), made.value)
              ELSE added
        BY <1>2 DEF CopyMember
    <2>3. /\ h.node[v] = x.node[v] /\ v \in Exist(h.node) /\ u \in Exist(x.node) /\ name \in Keys
        <3>1. v \in Exist(h.node) /\ h.node \in [Values -> Nodes] /\ Fits(h.node[v])
              /\ h.node[v].names \in Seq(Keys)
            BY <2>1, ContainerIs DEF Sound
        <3>2. x.node[v] = h.node[v]
            BY <2>1, <3>1 DEF Keeps
        <3>3. h.node[v].values[i] \in Children(h.node, v)
            BY <2>1, MemberIs
        <3>4. h.node[v].values[i] \in Exist(h.node)
            BY <2>1, <3>3, MemberTrees
        <3>5. h.node[v].values[i] \in Exist(x.node)
            BY <2>1, <3>4 DEF Keeps, Exist
        <3>6. t = "object" => h.node[v].names[i] \in Keys
            BY <3>1 DEF Fits, Containers
        <3>7. <<>> \in Keys
            BY DEF Keys
        <3> QED  BY <3>1, <3>2, <3>5, <3>6, <3>7
    <2>4. Grown(x, made, R \cup {m}, d)
        BY <1>2, <2>1, <2>3 DEF Copies
    <2> HIDE DEF made, name, u
    <2>5. /\ made.ok  => Found(h, made, m, made.value, R, d, t)
          /\ ~made.ok => Filling(h, made, m, R, d, t)
        BY <2>1, <2>4, FoundIs
    <2>6. CASE ~made.ok
        <3>1. r = Abandon(made, m)
            BY <2>2, <2>6
        <3>2. Heap(Abandon(made, m), R, d) /\ Keeps(h, Abandon(made, m)) /\ ~Abandon(made, m).ok
            BY <2>5, <2>6, FillingFreed
        <3> QED  BY <3>1, <3>2 DEF CopyInv
    <2>7. CASE made.ok
        <3>1. PICK w : w = made.value
            OBVIOUS
        <3>2. Found(h, made, m, w, R, d, t) /\ added = AddMember(made, m, name, w)
            BY <2>5, <2>7, <3>1
        <3>3. /\ added.ok  => Filling(h, added, m, R, d, t)
              /\ ~added.ok => Filling(h, added, m, R \cup {w}, d, t)
            <4>1. PICK a : a = added
                OBVIOUS
            <4>2. a = AddMember(made, m, name, w)
                BY <3>2, <4>1
            <4>3. /\ a.ok  => Filling(h, a, m, R, d, t)
                  /\ ~a.ok => Filling(h, a, m, R \cup {w}, d, t)
                BY <2>3, <3>2, <4>2, FoundAdded
            <4> QED  BY <4>1, <4>3
        <3> HIDE DEF added
        <3>4. CASE added.ok
            BY <2>2, <2>7, <3>3, <3>4 DEF CopyInv
        <3>5. CASE ~added.ok
            <4>1. r = Abandon(json_value_free(added, m), w)
                BY <2>2, <2>7, <3>1, <3>5
            <4>2. /\ m # w /\ m \in Values \ Exist(h.node) /\ w \in Values \ Exist(h.node)
                  /\ m \notin R /\ w \notin R /\ Heap(added, (R \cup {w}) \cup {m}, d)
                  /\ Keeps(h, added)
                BY <3>2, <3>3, <3>5 DEF Filling, Found
            <4>3. (R \cup {w}) \cup {m} = R \cup {m, w}
                OBVIOUS
            <4>4. Heap(added, R \cup {m, w}, d)
                BY <4>2, <4>3
            <4> HIDE DEF r
            <4>5. Heap(r, R, d) /\ Keeps(h, r) /\ ~r.ok
                BY <4>1, <4>2, <4>4, BothFreed
            <4> QED  BY <4>5 DEF CopyInv, r
        <3> QED  BY <3>4, <3>5
    <2> QED  BY <2>6, <2>7
<1> QED  BY <1>1, <1>2 DEF CopyInv

\* A loop whose rounds stay in S.
Loops(f, N, a, step) == f[0] = a /\ \A n \in 1 .. N : f[n] = step[n][f[n - 1]]

LEMMA LoopExists ==
    ASSUME NEW S, NEW a \in S, NEW N \in Nat, NEW step \in [1 .. N -> [S -> S]]
    PROVE  \E f \in [0 .. N -> S] : Loops(f, N, a, step)
BY TableExists DEF Loops

StaysIn(f, N, S) == f[0] \in S /\ \A n \in 1 .. N : f[n - 1] \in S => f[n] \in S

LEMMA LoopIn ==
    ASSUME NEW S, NEW N \in Nat, NEW f, StaysIn(f, N, S)
    PROVE  \A n \in 0 .. N : f[n] \in S
<1> DEFINE Bad == {n \in 0 .. N : f[n] \notin S}
<1>1. SUFFICES ASSUME Bad # {} PROVE FALSE
    OBVIOUS
<1>2. Bad \in SUBSET Nat
    OBVIOUS
<1>3. PICK n \in Bad : \A k \in Bad : n <= k
    <2> HIDE DEF Bad
    <2> QED  BY <1>1, <1>2, LeastExists
<1>4. n # 0 /\ n \in 1 .. N
    BY DEF StaysIn
<1>5. PICK k \in 0 .. N : k = n - 1
    BY <1>4
<1>6. k \notin Bad
    BY <1>3, <1>4, <1>5
<1>7. f[k] \in S
    BY <1>6
<1> QED  BY <1>3, <1>4, <1>5, <1>7 DEF StaysIn

IsCopyLoop(f, C, made, v, n) ==
    f = [i \in 0 .. n |-> IF i = 0 THEN made ELSE CopyMember(C, f[i - 1], made.value, v, i)]

HasMembers(h, v, n) == n = Len(h.node[v].values)

LEMMA CopyLoop ==
    ASSUME NEW h, NEW R, NEW d, Heap(h, R, d), NEW v \in Values, NEW t \in Containers,
           h.node[v].type = t, NEW n \in Nat, HasMembers(h, v, n), NEW C, Copies(C),
           NEW made, CopyInv(h, made, made.value, R, d, t)
    PROVE  /\ \E f : IsCopyLoop(f, C, made, v, n)
           /\ \A f : IsCopyLoop(f, C, made, v, n) => CopyInv(h, f[n], made.value, R, d, t)
<1> DEFINE S    == {x \in Heaps : CopyInv(h, x, made.value, R, d, t)}
           Step(x, i) == CopyMember(C, x, made.value, v, i)
           step == [i \in 1 .. n |-> [x \in S |-> Step(x, i)]]
<1>1. \A x : CopyInv(h, x, made.value, R, d, t) => x \in S
    BY DEF CopyInv, Filling, Heap
<1>2. ASSUME NEW i \in 1 .. n, NEW x \in S PROVE Step(x, i) \in S
    <2>1. CopyInv(h, Step(x, i), made.value, R, d, t)
        <3>1. i \in 1 .. Len(h.node[v].values) /\ CopyInv(h, x, made.value, R, d, t)
            BY <1>2 DEF HasMembers
        <3> QED  BY <3>1, CopyMemberIs
    <2> QED  BY <1>1, <2>1
<1>3. made \in S
    BY <1>1
<1>4. \A x \in S : CopyInv(h, x, made.value, R, d, t)
    OBVIOUS
<1> HIDE DEF S, Step
<1>5. step \in [1 .. n -> [S -> S]]
    BY <1>2
<1>6. PICK g \in [0 .. n -> S] : g[0] = made /\ \A i \in 1 .. n : g[i] = step[i][g[i - 1]]
    <2>1. PICK a \in S : a = made
        BY <1>3
    <2> HIDE DEF step
    <2>2. PICK g \in [0 .. n -> S] : Loops(g, n, a, step)
        BY <1>5, LoopExists
    <2> QED  BY <2>1, <2>2 DEF Loops
<1>7. \A i \in 0 .. n : i # 0 => i \in 1 .. n /\ i - 1 \in 0 .. n
    OBVIOUS
<1>8. \A i \in 1 .. n : g[i] = Step(g[i - 1], i)
    <2>1. \A i \in 1 .. n : g[i - 1] \in S
        BY <1>6, <1>7
    <2>2. \A i \in 1 .. n : \A x \in S : step[i][x] = Step(x, i)
        OBVIOUS
    <2> HIDE DEF step
    <2> QED  BY <1>6, <2>1, <2>2
<1>9. \E f : IsCopyLoop(f, C, made, v, n)
    <2>1. \A i \in 0 .. n : g[i] = IF i = 0 THEN made ELSE Step(g[i - 1], i)
        BY <1>6, <1>7, <1>8
    <2>2. g = [i \in 0 .. n |-> g[i]]
        BY <1>6
    <2>3. g = [i \in 0 .. n |-> IF i = 0 THEN made ELSE Step(g[i - 1], i)]
        BY <2>1, <2>2
    <2> QED  BY <2>3 DEF IsCopyLoop, Step
<1>10. ASSUME NEW f, IsCopyLoop(f, C, made, v, n) PROVE f[n] \in S
    <2>1. f = [i \in 0 .. n |-> IF i = 0 THEN made ELSE Step(f[i - 1], i)]
        BY <1>10 DEF IsCopyLoop, Step
    <2>2. f[0] \in S
        BY <1>3, <2>1
    <2>3. \A i \in 1 .. n : f[i] = Step(f[i - 1], i)
        BY <2>1
    <2>4. StaysIn(f, n, S)
        BY <1>2, <2>2, <2>3 DEF StaysIn
    <2>5. \A i \in 0 .. n : f[i] \in S
        BY <2>4, LoopIn
    <2> QED  BY <2>5
<1> QED  BY <1>4, <1>9, <1>10

\* The value of a heap is only what a call returns.
Valued(h, m) == [h EXCEPT !.value = m]

LEMMA ValuedIs ==
    ASSUME NEW h, NEW R, NEW d, Heap(h, R, d), NEW m \in Values
    PROVE  /\ Heap(Valued(h, m), R, d) /\ Valued(h, m).node = h.node /\ Valued(h, m).ok = h.ok
           /\ Valued(h, m).value = m /\ Valued(h, m).text = h.text
<1> DEFINE r == Valued(h, m)
<1>1. h \in Heaps /\ r = [h EXCEPT !.value = m]
    BY DEF Heap, Valued
<1> HIDE DEF r
<1>2. r \in Heaps /\ r.node = h.node /\ r.ok = h.ok /\ r.value = m /\ r.text = h.text
      /\ r.blocks = h.blocks /\ r.lost = h.lost
    BY <1>1 DEF Heaps
<1>3. Debt(r) = Debt(h)
    BY <1>2 DEF Debt
<1> QED  BY <1>2, <1>3 DEF Heap, r

LastRound(C, v, made, n) ==
    LET done == CHOOSE f : IsCopyLoop(f, C, made, v, n)
    IN IF done[n].ok THEN [done[n] EXCEPT !.value = made.value] ELSE done[n]

LEMMA CopyContainerIs ==
    ASSUME NEW h, NEW R, NEW d, Heap(h, R, d), NEW v \in Values, h.node[v].type \in Containers,
           NEW C, Copies(C)
    PROVE  Grown(h, CopyContainer(C, h, v), R, d)
<1>1. PICK t \in Containers : t = h.node[v].type
    OBVIOUS
<1>2. PICK n \in Nat : HasMembers(h, v, n)
    <2>1. h.node[v].values \in Seq(Values)
        BY ContainerIs DEF Heap, Sound
    <2> QED  BY <2>1 DEF HasMembers
<1>3. PICK made : made = json_value_init(h, Container(t))
    OBVIOUS
<1> DEFINE done == CHOOSE f : IsCopyLoop(f, C, made, v, n)
           m    == made.value
           r    == CopyContainer(C, h, v)
<1>4. r = IF done[n].ok THEN [done[n] EXCEPT !.value = m] ELSE done[n]
    <2>1. r = LastRound(C, v, json_value_init(h, Container(h.node[v].type)),
                        Len(h.node[v].values))
        BY Zenon DEF CopyContainer, LastRound, IsCopyLoop
    <2>2. r = LastRound(C, v, made, n)
        <3> HIDE DEF r
        <3> QED  BY Zenon, <1>1, <1>2, <1>3, <2>1 DEF HasMembers
    <2> HIDE DEF r
    <2> QED  BY Zenon, <2>2 DEF LastRound
<1>5. CopyInv(h, made, m, R, d, t)
    <2>1. /\ ~made.ok => made = Failed(h)
          /\ made.ok => MadeOf(h, made, m, R, d, t)
        BY <1>3, NewContainerIs
    <2>2. ASSUME made.ok PROVE Filling(h, made, m, R, d, t)
        BY <2>1, <2>2 DEF MadeOf, Filling, Keeps
    <2>3. ASSUME ~made.ok PROVE Heap(made, R, d) /\ Keeps(h, made)
        <3>1. Failed(h) \in Heaps /\ Failed(h).node = h.node /\ Debt(Failed(h)) = Debt(h)
            BY FailedIs DEF Heap
        <3> QED  BY <2>1, <2>3, <3>1 DEF Heap, Keeps
    <2> QED  BY <2>2, <2>3 DEF CopyInv
<1>6. /\ \E f : IsCopyLoop(f, C, made, v, n)
      /\ \A f : IsCopyLoop(f, C, made, v, n) => CopyInv(h, f[n], m, R, d, t)
    BY <1>1, <1>2, <1>5, CopyLoop
<1>7. CopyInv(h, done[n], m, R, d, t)
    BY <1>6
<1> HIDE DEF done, m, r
<1>8. CASE done[n].ok
    <2>1. PICK all : all = done[n]
        OBVIOUS
    <2>2. Filling(h, all, m, R, d, t) /\ r = Valued(all, m) /\ all.ok
        BY <1>4, <1>7, <1>8, <2>1 DEF CopyInv, Valued
    <2>3. m \in Values \ Exist(h.node) /\ Heap(all, R \cup {m}, d) /\ Keeps(h, all)
        BY <2>2 DEF Filling
    <2>4. Heap(r, R \cup {m}, d) /\ r.node = all.node /\ r.ok = all.ok /\ r.value = m
        BY <2>2, <2>3, ValuedIs
    <2>5. Keeps(h, r) /\ r.ok
        BY <2>2, <2>3, <2>4 DEF Keeps
    <2>6. Heap(r, R \cup {r.value}, d) /\ r.value \in Values \ Exist(h.node)
        BY <2>3, <2>4
    <2>7. Grown(h, r, R, d)
        BY <2>5, <2>6 DEF Grown
    <2> QED  BY <2>7 DEF r
<1>9. CASE ~done[n].ok
    BY <1>4, <1>7, <1>9 DEF CopyInv, Grown, r
<1> QED  BY <1>8, <1>9

\* A new scalar.
LEMMA ScalarSingle ==
    ASSUME NEW s \in Data
    PROVE  /\ Single(Scalar(s)) /\ Scalar(s).type = TypeOf(s) /\ TypeOf(s) \in ScalarTypes
           /\ s \in [string : Keys] => TypeOf(s) = "string"
<1>1. PICK t \in ScalarTypes : DOMAIN s = {t} /\ (s \in [string : Keys] => t = "string")
    <2>1. CASE s \in [string : Keys]
        BY <2>1 DEF ScalarTypes
    <2>2. CASE s \in [number : Int]
        <3>1. DOMAIN s = {"number"} /\ s \notin [string : Keys]
            BY <2>2
        <3> QED  BY <3>1 DEF ScalarTypes
    <2>3. CASE s \notin [string : Keys] /\ s \notin [number : Int]
        BY <2>3, ScalarsAssumption DEF Data
    <2> QED  BY <2>1, <2>2, <2>3
<1>2. TypeOf(s) = t
    BY <1>1 DEF TypeOf
<1>3. Scalar(s) = [type |-> t, parent |-> NULL, data |-> s]
    BY <1>2 DEF Scalar
<1>4. Scalar(s) \in ScalarNodes /\ Scalar(s).type = t
    BY <1>3 DEF ScalarNodes, Parents
<1>5. t \notin Containers /\ t # "free"
    BY DEF ScalarTypes, Containers
<1> QED  BY <1>1, <1>2, <1>4, <1>5 DEF Single, Nodes, Fits

\* A new value that is not in the heap yet grows it.
LEMMA InitGrows ==
    ASSUME NEW h, NEW R, NEW d, Heap(h, R, d), NEW n, Single(n)
    PROVE  Grown(h, json_value_init(h, n), R, d)
<1> DEFINE r == json_value_init(h, n)
<1>1. /\ ~r.ok => r = Failed(h)
      /\ r.ok => /\ r.value \in Values \ Exist(h.node)
                 /\ r.node = [h.node EXCEPT ![r.value] = n]
                 /\ Heap(r, R \cup {r.value}, d)
    BY InitIs
<1>2. Heap(Failed(h), R, d) /\ Failed(h).node = h.node
    BY FailedIs DEF Heap
<1>3. h.node \in [Values -> Nodes]
    BY DEF Heap, Sound
<1> HIDE DEF r
<1>4. CASE r.ok
    <2>1. \A u \in Exist(h.node) : u \in Values /\ u # r.value
        BY <1>1, <1>4 DEF Exist
    <2>2. Keeps(h, r)
        BY <1>1, <1>3, <1>4, <2>1 DEF Keeps
    <2> QED  BY <1>1, <1>4, <2>2 DEF Grown, r
<1>5. CASE ~r.ok
    BY <1>1, <1>2, <1>5 DEF Grown, Keeps, r
<1> QED  BY <1>4, <1>5

\* Induction up to N.
LEMMA Upwards ==
    ASSUME NEW N \in Nat, NEW G, 0 \in G, \A k \in 0 .. N : k # 0 /\ k - 1 \in G => k \in G
    PROVE  0 .. N \subseteq G
<1> DEFINE Bad == (0 .. N) \ G
<1>1. SUFFICES ASSUME Bad # {} PROVE FALSE
    OBVIOUS
<1>2. Bad \in SUBSET Nat
    OBVIOUS
<1>3. PICK n \in Bad : \A k \in Bad : n <= k
    <2> HIDE DEF Bad
    <2> QED  BY <1>1, <1>2, LeastExists
<1>4. n # 0 /\ n \in 0 .. N
    OBVIOUS
<1>5. PICK k \in 0 .. N : k = n - 1
    BY <1>4
<1>6. k \notin Bad
    BY <1>3, <1>4, <1>5
<1> QED  BY <1>3, <1>4, <1>5, <1>6

\* The tables by which json_value_deep_copy and parse_value call themselves: row k
\* does the work of a level, and leaves what is below it to x.
CopyRow(x, k) ==
    [g \in Heaps |-> [w \in Values |->
        IF k = 0 THEN Failed(g)
        ELSE IF g.node[w].type \in Containers THEN CopyContainer(x, g, w)
        ELSE json_value_init(g, Scalar(g.node[w].data))]]

ParseLevel(x, g) ==
    CASE NextTok(g) = "{"      -> parse_container(x, g, "object", "}")
      [] NextTok(g) = "["      -> parse_container(x, g, "array", "]")
      [] NextTok(g) = "string" -> parse_string_value(g)
      [] NextTok(g) \in ScalarTypes \ {"string"} ->
            LET v == json_value_init(g, Scalar(Head(g.text).data))
            IN IF v.ok THEN Skip(v) ELSE v
      [] OTHER -> Failed(g)

ParseRow(x, k) == [g \in Heaps |-> IF k = 0 THEN Failed(g) ELSE ParseLevel(x, g)]

LevelRow(call, x, k) == IF call = "copy" THEN CopyRow(x, k) ELSE ParseRow(x, k)

IsLevels(call, f, N) == f = [k \in 0 .. N |-> LevelRow(call, f[k - 1], k)]

LEMMA LevelsExist ==
    ASSUME NEW call, NEW N \in Nat
    PROVE  \E f : IsLevels(call, f, N)
<1> DEFINE Row(x, k) == LevelRow(call, x, k)
           Is(f, m)  == f = [k \in 0 .. m |-> Row(f[k - 1], k)]
           G         == {m \in 0 .. N : \E f : Is(f, m)}
<1>1. \A x, y : Row(x, 0) = Row(y, 0)
    BY DEF LevelRow, CopyRow, ParseRow
<1> HIDE DEF Row
<1>2. \E f : Is(f, 0)
    <2> DEFINE f == [k \in 0 .. 0 |-> Row(0, k)]
    <2>1. \A k \in 0 .. 0 : Row(0, k) = Row(f[k - 1], k)
        <3> HIDE DEF f
        <3> QED  BY <1>1
    <2>2. f = [k \in 0 .. 0 |-> Row(f[k - 1], k)]
        BY <2>1
    <2> QED  BY <2>2
<1>3. ASSUME NEW m \in 0 .. N, m # 0, NEW f, Is(f, m - 1) PROVE \E g : Is(g, m)
    <2> DEFINE g == [k \in 0 .. m |-> IF k = m THEN Row(f[m - 1], m) ELSE f[k]]
    <2>1. \A k \in 0 .. m - 1 : f[k] = Row(f[k - 1], k)
        BY <1>3
    <2>2. ASSUME NEW k \in 0 .. m PROVE g[k] = Row(g[k - 1], k)
        <3>1. CASE k = 0
            <4>1. k \in 0 .. m - 1 /\ k # m
                BY <1>3, <3>1
            <4>2. g[k] = Row(f[k - 1], k)
                BY <2>1, <4>1
            <4> HIDE DEF g
            <4> QED  BY <1>1, <3>1, <4>2
        <3>2. CASE k # 0
            <4>1. k - 1 \in 0 .. m /\ k - 1 # m /\ (k # m => k \in 0 .. m - 1)
                BY <1>3, <3>2
            <4>2. g[k - 1] = f[k - 1]
                BY <4>1
            <4>3. g[k] = Row(f[k - 1], k)
                <5>1. CASE k = m
                    BY <5>1
                <5>2. CASE k # m
                    <6>1. g[k] = f[k]
                        BY <5>2
                    <6> HIDE DEF g
                    <6> QED  BY <2>1, <4>1, <5>2, <6>1
                <5> QED  BY <5>1, <5>2
            <4> QED  BY <4>2, <4>3
        <3> QED  BY <3>1, <3>2
    <2>3. g = [k \in 0 .. m |-> g[k]]
        OBVIOUS
    <2> HIDE DEF g
    <2>4. g = [k \in 0 .. m |-> Row(g[k - 1], k)]
        BY <2>2, <2>3
    <2> QED  BY <2>4
<1> HIDE DEF Is
<1>4. 0 .. N \subseteq G
    <2>1. 0 \in G /\ \A m \in 0 .. N : m # 0 /\ m - 1 \in G => m \in G
        BY <1>2, <1>3
    <2> HIDE DEF G
    <2> QED  BY <2>1, Upwards
<1>5. \E f : Is(f, N)
    BY <1>4
<1> QED  BY <1>5 DEF Is, Row, IsLevels

\* Whichever level it is at, copying makes a new root or leaves the heap as it was.
LEMMA CopyRowIs ==
    ASSUME NEW x, NEW k, k # 0 => Copies(x)
    PROVE  Copies(CopyRow(x, k))
<1>1. SUFFICES ASSUME NEW g, NEW R, NEW d, Heap(g, R, d), NEW w \in Exist(g.node)
               PROVE  Grown(g, CopyRow(x, k)[g][w], R, d)
    BY DEF Copies
<1>2. g \in Heaps /\ w \in Values /\ g.node \in [Values -> Nodes] /\ g.node[w].type # "free"
    BY <1>1 DEF Heap, Exist, Sound
<1> DEFINE r == CopyRow(x, k)[g][w]
<1>3. r = IF k = 0 THEN Failed(g)
          ELSE IF g.node[w].type \in Containers THEN CopyContainer(x, g, w)
          ELSE json_value_init(g, Scalar(g.node[w].data))
    BY <1>2 DEF CopyRow
<1> HIDE DEF r
<1>4. CASE k = 0
    <2>1. Heap(Failed(g), R, d) /\ Failed(g).node = g.node /\ ~Failed(g).ok
        BY <1>1, FailedIs DEF Heap
    <2> QED  BY <1>3, <1>4, <2>1 DEF Grown, Keeps, r
<1>5. CASE k # 0 /\ g.node[w].type \in Containers
    <2>1. Grown(g, CopyContainer(x, g, w), R, d)
        BY <1>1, <1>2, <1>5, CopyContainerIs
    <2> QED  BY <1>3, <1>5, <2>1 DEF r
<1>6. CASE k # 0 /\ g.node[w].type \notin Containers
    <2>1. g.node[w] \in ScalarNodes
        BY <1>2, <1>6, NodeTypes
    <2>2. g.node[w].data \in Data
        BY <2>1 DEF ScalarNodes
    <2>3. Single(Scalar(g.node[w].data))
        BY <2>2, ScalarSingle
    <2>4. Grown(g, json_value_init(g, Scalar(g.node[w].data)), R, d)
        BY <1>1, <2>3, InitGrows
    <2> QED  BY <1>3, <1>6, <2>4 DEF r
<1> QED  BY <1>4, <1>5, <1>6

LEMMA CopyIs ==
    ASSUME NEW h, NEW R, NEW d, Heap(h, R, d), h.ok, NEW v \in Exist(h.node)
    PROVE  Grown(h, json_value_deep_copy(h, v), R, d)
<1> DEFINE N    == Cardinality(Values)
           copy == CHOOSE f : IsLevels("copy", f, N)
           G    == {k \in 0 .. N : Copies(copy[k])}
<1>1. N \in Nat
    BY ValuesAssumption, FS_CardinalityType
<1>2. IsLevels("copy", copy, N)
    BY <1>1, LevelsExist
<1>3. json_value_deep_copy(h, v) = copy[N][h][v]
    BY Zenon DEF json_value_deep_copy, IsLevels, LevelRow, CopyRow
<1> HIDE DEF copy, N
<1>4. \A k \in 0 .. N : copy[k] = CopyRow(copy[k - 1], k)
    BY <1>2 DEF IsLevels, LevelRow
<1>5. 0 .. N \subseteq G
    <2>1. ASSUME NEW k \in 0 .. N, k # 0 => k - 1 \in G PROVE k \in G
        <3>1. PICK x : x = copy[k - 1]
            OBVIOUS
        <3>2. k # 0 => Copies(x)
            BY <2>1, <3>1
        <3>3. Copies(CopyRow(x, k))
            BY <3>2, CopyRowIs
        <3> QED  BY <1>4, <3>1, <3>3
    <2>2. 0 \in G /\ \A k \in 0 .. N : k # 0 /\ k - 1 \in G => k \in G
        BY <1>1, <2>1
    <2> HIDE DEF G
    <2> QED  BY <1>1, <2>2, Upwards
<1>6. Copies(copy[N])
    BY <1>1, <1>5
<1> QED  BY <1>3, <1>6 DEF Copies

-----------------------------------------------------------------------------
(* Parsing. *)

LEMMA SkipIs ==
    ASSUME NEW h, NEW R, NEW d, Heap(h, R, d), NextTok(h) # "end"
    PROVE  /\ Heap(Skip(h), R, d) /\ Skip(h).node = h.node /\ Skip(h).ok = h.ok
           /\ Skip(h).value = h.value
<1> DEFINE r == Skip(h)
<1>1. h \in Heaps /\ r = [h EXCEPT !.text = Tail(@)] /\ h.text \in Seq(Tokens) /\ h.text # <<>>
    BY HeapFields DEF Heap, Skip, NextTok
<1>2. PICK s \in Seq(Tokens) : s = Tail(h.text)
    <2>1. PICK u \in Seq(Tokens) : u = h.text /\ u # <<>>
        BY <1>1
    <2>2. Tail(u) \in Seq(Tokens)
        BY <2>1
    <2> QED  BY <2>1, <2>2
<1>3. r = [h EXCEPT !.text = s]
    BY <1>1, <1>2
<1> HIDE DEF r
<1>4. r \in Heaps /\ r.node = h.node /\ r.ok = h.ok /\ r.value = h.value
      /\ r.blocks = h.blocks /\ r.lost = h.lost
    BY <1>1, <1>3 DEF Heaps
<1>5. Debt(r) = Debt(h)
    BY <1>4 DEF Debt
<1> QED  BY <1>4, <1>5 DEF Heap, r

\* What the next token holds.
LEMMA TokenIs ==
    ASSUME NEW h \in Heaps
    PROVE  /\ NextTok(h) = "string" => Head(h.text).data \in [string : Keys]
           /\ NextTok(h) \in ScalarTypes \ {"string"} => Head(h.text).data \in Data
<1>1. SUFFICES ASSUME NextTok(h) \in ScalarTypes
               PROVE  /\ NextTok(h) = "string" => Head(h.text).data \in [string : Keys]
                      /\ NextTok(h) \in ScalarTypes \ {"string"} => Head(h.text).data \in Data
    BY DEF ScalarTypes
<1>2. h.text \in Seq(Tokens) /\ h.text # <<>> /\ NextTok(h) = Head(h.text).t
    BY <1>1, HeapFields DEF NextTok, ScalarTypes
<1>3. PICK u \in Seq(Tokens) : u = h.text
    BY <1>2
<1>4. Head(u) \in Tokens
    BY <1>2, <1>3
<1>5. PICK x \in Tokens : x = Head(h.text) /\ x.t \in ScalarTypes
    BY <1>1, <1>2, <1>3, <1>4
<1>6. /\ x.t = "string" => x.data \in [string : Keys]
      /\ x.t \in ScalarTypes \ {"string"} => x.data \in Data
    BY <1>5 DEF Tokens, ScalarTypes, Data
<1> QED  BY <1>2, <1>5, <1>6

\* A key or a string takes one block until it is put away.
LEMMA QuotedIs ==
    ASSUME NEW h, NEW R, NEW d, Heap(h, R, d)
    PROVE  /\ ~get_quoted_string(h).ok => get_quoted_string(h) = Failed(h)
           /\ get_quoted_string(h).ok =>
                 /\ Heap(get_quoted_string(h), R, d + 1) /\ get_quoted_string(h).node = h.node
                 /\ NextTok(h) = "string" /\ Head(h.text).data \in [string : Keys]
                 /\ h.ok
<1> DEFINE g == Alloc(h, 2)
           f == FreeBlocks(g, 1)
           q == get_quoted_string(h)
<1>1. h \in Heaps /\ Debt(h) = d /\ Sound(h.node, R)
    BY DEF Heap
<1>2. q = IF NextTok(h) # "string" \/ ~g.ok THEN Failed(h) ELSE Skip(f)
    BY DEF get_quoted_string
<1>3. CASE NextTok(h) # "string" \/ ~g.ok
    BY <1>1, <1>2, <1>3, FailedIs
<1>4. CASE NextTok(h) = "string" /\ g.ok
    <2>1. PICK one \in Nat, two \in Nat : one = 1 /\ two = 2
        OBVIOUS
    <2>2. g \in Heaps /\ g.node = h.node /\ h.ok /\ Debt(g) = Debt(h) + two /\ g.text = h.text
        BY <1>1, <1>4, <2>1, AllocIs
    <2> HIDE DEF g
    <2>3. f \in Heaps /\ f.node = h.node /\ f.ok = g.ok /\ f.text = h.text /\ Debt(f) = Debt(g) - one
        BY <2>1, <2>2, FreeBlocksIs
    <2> HIDE DEF f
    <2>4. Debt(f) = d + 1
        <3>1. PICK e \in Int : e = Debt(h)
            BY <1>1, DebtIsInt
        <3>2. Debt(f) = (e + two) - one
            BY <2>2, <2>3, <3>1
        <3> QED  BY <1>1, <2>1, <3>1, <3>2
    <2>5. Heap(f, R, d + 1) /\ NextTok(f) # "end"
        BY <1>1, <1>4, <2>3, <2>4 DEF Heap, NextTok
    <2>6. Heap(Skip(f), R, d + 1) /\ Skip(f).node = f.node /\ Skip(f).ok = f.ok
        BY <2>5, SkipIs
    <2>7. q = Skip(f) /\ g.ok
        BY <1>2, <1>4
    <2> HIDE DEF q
    <2>8. Head(h.text).data \in [string : Keys]
        BY <1>1, <1>4, TokenIs
    <2>9. q.ok
        BY <2>3, <2>6, <2>7
    <2> QED  BY <1>4, <2>2, <2>3, <2>6, <2>7, <2>8, <2>9 DEF q
<1> QED  BY <1>3, <1>4

NewIn(g, v, n, R, d) ==
    /\ v.value \in Values \ Exist(g.node) /\ v.node = [g.node EXCEPT ![v.value] = n]
    /\ Heap(v, R \cup {v.value}, d)

LEMMA NewInIs ==
    ASSUME NEW g, NEW R, NEW e \in Int, Heap(g, R, e), NEW n, Single(n), NEW k \in Nat,
           NewValue(g, n, k).ok, NEW b \in Nat, b = OwnBlocks(n)
    PROVE  NewIn(g, NewValue(g, n, k), n, R, (e + k) - b)
<1>1. /\ ~NewValue(g, n, k).ok => NewValue(g, n, k) = Failed(g)
      /\ NewValue(g, n, k).ok =>
            /\ g.ok /\ NewValue(g, n, k).value \in Values \ Exist(g.node)
            /\ NewValue(g, n, k).node = [g.node EXCEPT ![NewValue(g, n, k).value] = n]
            /\ NewValue(g, n, k).text = g.text
            /\ Heap(NewValue(g, n, k), R \cup {NewValue(g, n, k).value}, e + k - OwnBlocks(n))
    BY NewValueIs, Zenon
<1> QED  BY <1>1 DEF NewIn

LEMMA StringIs ==
    ASSUME NEW h, NEW R, NEW d, Heap(h, R, d)
    PROVE  Grown(h, parse_string_value(h), R, d)
<1> DEFINE g == get_quoted_string(h)
           n == Scalar(Head(h.text).data)
           v == NewValue(g, n, 1)
           r == parse_string_value(h)
<1>1. r = IF ~g.ok THEN g ELSE IF ~v.ok THEN Failed(FreeBlocks(g, 1)) ELSE v
    BY DEF parse_string_value
<1>2. /\ ~g.ok => g = Failed(h)
      /\ g.ok => Heap(g, R, d + 1) /\ g.node = h.node /\ Head(h.text).data \in [string : Keys]
    BY QuotedIs
<1>3. d \in Int /\ h \in Heaps /\ h.node \in [Values -> Nodes]
    BY DebtIsInt, HeapFields DEF Heap
<1> DEFINE Goal(x) == Grown(h, x, R, d)
<1>4. Goal(Failed(h))
    BY FailedIs DEF Heap, Grown, Keeps
<1>5. ASSUME g.ok, ~v.ok PROVE Goal(Failed(FreeBlocks(g, 1)))
    <2>1. PICK e \in Int, one \in Nat : e = d + 1 /\ one = 1 /\ d = e - one
        BY <1>3
    <2>2. Heap(g, R, e) /\ g.node = h.node /\ g \in Heaps /\ Sound(g.node, R) /\ Debt(g) = e
        BY <1>2, <1>5, <2>1 DEF Heap
    <2> HIDE DEF g
    <2>3. /\ FreeBlocks(g, one) \in Heaps /\ FreeBlocks(g, one).node = g.node
          /\ Debt(FreeBlocks(g, one)) = e - one
        BY <2>2, FreeBlocksIs
    <2>4. PICK f : f = FreeBlocks(g, 1)
        OBVIOUS
    <2>5. f \in Heaps /\ f.node = h.node /\ Debt(f) = d
        BY <2>1, <2>2, <2>3, <2>4
    <2>6. Failed(f) \in Heaps /\ Failed(f).node = h.node /\ Debt(Failed(f)) = d /\ ~Failed(f).ok
        BY <2>5, FailedIs
    <2>7. Goal(Failed(f))
        BY <2>2, <2>6 DEF Grown, Heap, Keeps
    <2> QED  BY <2>4, <2>7
<1>6. ASSUME g.ok, v.ok PROVE Goal(v)
    <2>1. Single(n) /\ n.type = "string"
        <3>1. PICK s \in [string : Keys] : s = Head(h.text).data
            BY <1>2, <1>6
        <3>2. s \in Data
            BY DEF Data
        <3> QED  BY <3>1, <3>2, ScalarSingle
    <2>2. OwnBlocks(n) = 2
        BY <2>1 DEF OwnBlocks, Containers
    <2>3. PICK e \in Int, one \in Nat, two \in Nat :
             e = d + 1 /\ one = 1 /\ two = 2 /\ (e + one) - two = d
        BY <1>3
    <2>4. Heap(g, R, e) /\ g.node = h.node
        BY <1>2, <1>6, <2>3
    <2> HIDE DEF g, n
    <2>5. PICK w : w = v
        OBVIOUS
    <2>6. NewIn(g, NewValue(g, n, one), n, R, (e + one) - two)
        <3>1. NewValue(g, n, one).ok /\ two = OwnBlocks(n)
            BY <1>6, <2>2, <2>3
        <3> QED  BY <2>1, <2>4, <3>1, NewInIs
    <2>7. /\ Heap(w, R \cup {w.value}, d) /\ w = v
          /\ w.value \in Values \ Exist(g.node) /\ w.node = [g.node EXCEPT ![w.value] = n]
        BY <2>3, <2>5, <2>6 DEF NewIn
    <2>8. Keeps(h, w)
        BY <1>3, <2>4, <2>7 DEF Keeps, Exist
    <2> HIDE DEF v
    <2>9. Goal(w)
        BY <2>4, <2>7, <2>8, <1>6 DEF Grown
    <2> QED  BY <2>7, <2>9
<1> HIDE DEF Goal, g, v, r
<1>7. Goal(r)
    <2>1. CASE ~g.ok
        BY <1>1, <1>2, <1>4, <2>1
    <2>2. CASE g.ok /\ ~v.ok
        BY <1>1, <1>5, <2>2
    <2>3. CASE g.ok /\ v.ok
        BY <1>1, <1>6, <2>3
    <2> QED  BY <2>1, <2>2, <2>3
<1> QED  BY <1>7 DEF Goal, r

LEMMA NumberIs ==
    ASSUME NEW h, NEW R, NEW d, Heap(h, R, d), NextTok(h) \in ScalarTypes \ {"string"},
           NEW v, v = json_value_init(h, Scalar(Head(h.text).data))
    PROVE  Grown(h, IF v.ok THEN Skip(v) ELSE v, R, d)
<1>1. h \in Heaps /\ NextTok(h) # "end"
    BY DEF Heap, ScalarTypes
<1>2. Head(h.text).data \in Data
    BY <1>1, TokenIs DEF Data
<1>3. PICK n : n = Scalar(Head(h.text).data) /\ Single(n)
    BY <1>2, ScalarSingle
<1>4. v = json_value_init(h, n)
    BY <1>3
<1>5. Grown(h, json_value_init(h, n), R, d)
    BY <1>3, InitGrows
<1>6. v.ok => v.text = h.text
    <2>1. json_value_init(h, n).ok => json_value_init(h, n).text = h.text
        BY <1>3, InitIs
    <2> QED  BY <1>4, <2>1
<1>7. CASE v.ok
    <2>1. NextTok(v) # "end" /\ Heap(v, R \cup {v.value}, d)
        BY <1>1, <1>4, <1>5, <1>6, <1>7 DEF NextTok, Grown
    <2>2. /\ Heap(Skip(v), R \cup {v.value}, d) /\ Skip(v).node = v.node /\ Skip(v).ok = v.ok
          /\ Skip(v).value = v.value
        BY <2>1, SkipIs
    <2>3. Grown(h, Skip(v), R, d)
        BY <1>4, <1>5, <1>7, <2>2 DEF Grown, Keeps
    <2> QED  BY <1>7, <2>3
<1>8. CASE ~v.ok
    BY <1>4, <1>5, <1>8
<1> QED  BY <1>7, <1>8

Parses(P) == \A g, R, d : Heap(g, R, d) /\ g.ok => Grown(g, P[g], R, d)

\* Blocks or the text change, the values do not.
LEMMA FillingSame ==
    ASSUME NEW h, NEW x, NEW m, NEW R, NEW e, NEW t, Filling(h, x, m, R, e, t),
           NEW y \in Heaps, y.node = x.node
    PROVE  Filling(h, y, m, R, Debt(y), t)
BY DEF Filling, Heap, Keeps

LEMMA FillingLess ==
    ASSUME NEW h, NEW x, NEW m, NEW R, NEW e \in Int, NEW t, Filling(h, x, m, R, e + 1, t)
    PROVE  Filling(h, FreeBlocks(x, 1), m, R, e, t)
<1>1. PICK one \in Nat, f \in Int : one = 1 /\ f = e + 1 /\ e = f - one
    OBVIOUS
<1>2. x \in Heaps /\ Debt(x) = f /\ Filling(h, x, m, R, f, t)
    BY <1>1 DEF Filling, Heap
<1>3. FreeBlocks(x, one) \in Heaps /\ FreeBlocks(x, one).node = x.node
      /\ Debt(FreeBlocks(x, one)) = Debt(x) - one
    BY <1>2, FreeBlocksIs
<1>4. PICK y : y = FreeBlocks(x, one)
    OBVIOUS
<1>5. y \in Heaps /\ y.node = x.node /\ Debt(y) = e
    BY <1>1, <1>2, <1>3, <1>4
<1>6. Filling(h, y, m, R, Debt(y), t)
    BY <1>2, <1>5, FillingSame
<1> QED  BY <1>1, <1>4, <1>5, <1>6

LEMMA LessByOne ==
    ASSUME NEW b \in Int, NEW l \in Nat, NEW n \in Nat, n = l + 1, NEW w \in Nat, NEW e \in Int,
           (b - l) - w = e + 1
    PROVE  (b - n) - w = e
OBVIOUS

\* The blocks of a key are lost.
LostKey(x) == [x EXCEPT !.lost = @ + 1]

LEMMA FillingLost ==
    ASSUME NEW h, NEW x, NEW m, NEW R, NEW e \in Int, NEW t, Filling(h, x, m, R, e + 1, t)
    PROVE  Filling(h, LostKey(x), m, R, e, t)
<1>1. x \in Heaps /\ Debt(x) = e + 1
    BY DEF Filling, Heap
<1>2. PICK l \in Nat, n \in Nat : l = x.lost /\ n = l + 1
    BY <1>1, HeapFields
<1>3. PICK y : y = LostKey(x)
    OBVIOUS
<1>4. y = [x EXCEPT !.lost = n]
    BY <1>2, <1>3 DEF LostKey
<1>5. y \in Heaps /\ y.node = x.node /\ y.lost = n /\ y.blocks = x.blocks
    BY <1>1, <1>4 DEF Heaps
<1>6. Debt(y) = e
    <2>1. x.node \in [Values -> Nodes] /\ x.blocks \in Int
        BY <1>1, HeapFields
    <2>2. PICK w \in Nat, b \in Int : w = Weight(x.node) /\ b = x.blocks
        BY <2>1, WeightIsNat
    <2>3. (b - l) - w = e + 1
        BY <1>1, <1>2, <2>2 DEF Debt
    <2>4. Debt(y) = (b - n) - w
        BY <1>5, <2>2 DEF Debt
    <2>5. n = l + 1
        BY <1>2
    <2>6. (b - n) - w = e
        BY <2>3, <2>5, LessByOne
    <2> QED  BY <2>4, <2>6
<1>7. Filling(h, y, m, R, Debt(y), t)
    BY <1>5, FillingSame
<1> QED  BY <1>3, <1>6, <1>7

LEMMA FillingSkip ==
    ASSUME NEW h, NEW x, NEW m, NEW R, NEW e, NEW t, Filling(h, x, m, R, e, t), NextTok(x) # "end"
    PROVE  Filling(h, Skip(x), m, R, e, t) /\ Skip(x).ok = x.ok
<1> DEFINE Q == R \cup {m}
<1>1. Heap(x, Q, e)
    BY DEF Filling
<1> HIDE DEF Q
<1>2. Heap(Skip(x), Q, e) /\ Skip(x).node = x.node /\ Skip(x).ok = x.ok
    BY <1>1, SkipIs
<1>3. Filling(h, Skip(x), m, R, e, t)
    BY <1>2 DEF Filling, Keeps, Q
<1> QED  BY <1>2, <1>3

\* Abandoning what is filled keeps the loop's invariant.
LEMMA FillingAbandoned ==
    ASSUME NEW h, NEW R, NEW d, Heap(h, R, d), NEW x, NEW m, NEW t, Filling(h, x, m, R, d, t)
    PROVE  CopyInv(h, Abandon(x, m), m, R, d, t)
<1>1. Heap(Abandon(x, m), R, d) /\ Keeps(h, Abandon(x, m)) /\ ~Abandon(x, m).ok
    BY FillingFreed
<1> QED  BY <1>1 DEF CopyInv

\* What becomes of a member's value, while its name takes a block.
AfterValue(g, m, name) ==
    LET added == AddMember(g, m, name, g.value)
        next  == FreeBlocks(added, 1)
    IN IF ~g.ok THEN Abandon(FreeBlocks(g, 1), m)
       ELSE IF ~added.ok THEN Abandon(json_value_free(next, g.value), m)
       ELSE next

LEMMA AfterValueIs ==
    ASSUME NEW h, NEW R, NEW d \in Int, Heap(h, R, d), NEW x, NEW m,
           NEW t, Filling(h, x, m, R, d + 1, t), NEW g, Grown(x, g, R \cup {m}, d + 1), NEW name \in Keys
    PROVE  CopyInv(h, AfterValue(g, m, name), m, R, d, t)
<1> DEFINE r     == AfterValue(g, m, name)
           added == AddMember(g, m, name, g.value)
           next  == FreeBlocks(added, 1)
<1>1. /\ g.ok  => Found(h, g, m, g.value, R, d + 1, t)
      /\ ~g.ok => Filling(h, g, m, R, d + 1, t)
    BY FoundIs
<1>2. r = IF ~g.ok THEN Abandon(FreeBlocks(g, 1), m)
          ELSE IF ~added.ok THEN Abandon(json_value_free(next, g.value), m)
          ELSE next
    BY DEF AfterValue
<1>3. CASE ~g.ok
    <2>1. Filling(h, FreeBlocks(g, 1), m, R, d, t)
        BY <1>1, <1>3, FillingLess
    <2>2. PICK f : f = FreeBlocks(g, 1)
        OBVIOUS
    <2>3. CopyInv(h, Abandon(f, m), m, R, d, t)
        BY <2>1, <2>2, FillingAbandoned
    <2> HIDE DEF r
    <2> QED  BY <1>2, <1>3, <2>2, <2>3 DEF r
<1>4. CASE g.ok
    <2>1. PICK w : w = g.value
        OBVIOUS
    <2>2. PICK a : a = added
        OBVIOUS
    <2>3. Found(h, g, m, w, R, d + 1, t) /\ a = AddMember(g, m, name, w)
        BY <1>1, <1>4, <2>1, <2>2
    <2>4. r = IF ~a.ok THEN Abandon(json_value_free(FreeBlocks(a, 1), w), m) ELSE FreeBlocks(a, 1)
        BY <1>2, <1>4, <2>1, <2>2
    <2> HIDE DEF r, added, next
    <2>5. /\ a.ok  => Filling(h, a, m, R, d + 1, t)
          /\ ~a.ok => Filling(h, a, m, R \cup {w}, d + 1, t)
        BY <2>3, FoundAdded
    <2>6. PICK f : f = FreeBlocks(a, 1)
        OBVIOUS
    <2>7. CASE a.ok
        <3>1. Filling(h, f, m, R, d, t)
            BY <2>5, <2>6, <2>7, FillingLess
        <3>2. f.ok
            <4>1. a \in Heaps
                BY <2>5, <2>7 DEF Filling, Heap
            <4>2. f.ok = a.ok
                BY <2>6, <4>1 DEF FreeBlocks, Heaps
            <4> QED  BY <2>7, <4>2
        <3>3. r = f
            BY <2>4, <2>6, <2>7
        <3> QED  BY <3>1, <3>2, <3>3 DEF CopyInv, r
    <2>8. CASE ~a.ok
        <3>1. Filling(h, f, m, R \cup {w}, d, t)
            BY <2>5, <2>6, <2>8, FillingLess
        <3>2. r = Abandon(json_value_free(f, w), m)
            BY <2>4, <2>6, <2>8
        <3>3. (R \cup {w}) \cup {m} = R \cup {w, m}
            OBVIOUS
        <3>4. /\ w # m /\ m \in Values \ Exist(h.node) /\ w \in Values \ Exist(h.node)
              /\ m \notin R /\ w \notin R /\ Heap(f, R \cup {w, m}, d) /\ Keeps(h, f)
            BY <2>3, <3>1, <3>3 DEF Filling, Found
        <3>5. Heap(r, R, d) /\ Keeps(h, r) /\ ~r.ok
            BY <3>2, <3>4, BothFreed
        <3> QED  BY <3>5 DEF CopyInv, r
    <2> QED  BY <2>7, <2>8
<1> QED  BY <1>3, <1>4

\* A key that was read takes a block, the values are as they were.
LEMMA KeyIs ==
    ASSUME NEW h, NEW x, NEW m, NEW R, NEW d, NEW t, Filling(h, x, m, R, d, t),
           get_quoted_string(x).ok
    PROVE  /\ Filling(h, get_quoted_string(x), m, R, d + 1, t)
           /\ Head(x.text).data.string \in Keys
<1> DEFINE Q == R \cup {m}
<1>1. Heap(x, Q, d)
    BY DEF Filling
<1> HIDE DEF Q
<1>2. /\ Heap(get_quoted_string(x), Q, d + 1) /\ get_quoted_string(x).node = x.node
      /\ Head(x.text).data \in [string : Keys]
    BY <1>1, QuotedIs
<1>3. Filling(h, get_quoted_string(x), m, R, d + 1, t)
    BY <1>2 DEF Filling, Keeps, Q
<1>4. Head(x.text).data.string \in Keys
    BY <1>2
<1> QED  BY <1>3, <1>4

LEMMA ParseMemberIs ==
    ASSUME NEW h, NEW R, NEW d \in Int, Heap(h, R, d), NEW P, Parses(P),
           NEW x, NEW m, Filling(h, x, m, R, d, "object")
    PROVE  CopyInv(h, ParseMember(P, x, m), m, R, d, "object")
<1> DEFINE key   == get_quoted_string(x)
           name  == Head(x.text).data.string
           value == P[Skip(key)]
           after == AfterValue(value, m, name)
           r     == ParseMember(P, x, m)
<1>1. key.ok => Filling(h, key, m, R, d + 1, "object") /\ name \in Keys
    BY KeyIs
<1>2. key.ok /\ NextTok(key) = ":" => Grown(Skip(key), value, R \cup {m}, d + 1)
                                      /\ Filling(h, Skip(key), m, R, d + 1, "object")
    <2>1. SUFFICES ASSUME key.ok, NextTok(key) = ":"
                   PROVE  Grown(Skip(key), value, R \cup {m}, d + 1)
                          /\ Filling(h, Skip(key), m, R, d + 1, "object")
        OBVIOUS
    <2>2. PICK k : k = key
        OBVIOUS
    <2>3. Filling(h, k, m, R, d + 1, "object") /\ NextTok(k) # "end" /\ k.ok
        BY <1>1, <2>1, <2>2
    <2> HIDE DEF key
    <2>4. Filling(h, Skip(k), m, R, d + 1, "object") /\ Skip(k).ok
        BY <2>3, FillingSkip
    <2>5. Heap(Skip(k), R \cup {m}, d + 1)
        BY <2>4 DEF Filling
    <2>6. Grown(Skip(k), P[Skip(k)], R \cup {m}, d + 1)
        BY <2>4, <2>5 DEF Parses
    <2> QED  BY <2>2, <2>4, <2>6
<1>3. r = IF ~key.ok THEN Abandon(x, m)
          ELSE IF name = NulName THEN Abandon(LostKey(key), m)
          ELSE IF NextTok(key) # ":" THEN Abandon(FreeBlocks(key, 1), m)
          ELSE IF ~value.ok THEN Abandon(FreeBlocks(value, 1), m)
          ELSE IF ~json_object_addn(value, m, name, value.value).ok
          THEN Abandon(json_value_free(FreeBlocks(json_object_addn(value, m, name, value.value), 1),
                                       value.value), m)
          ELSE FreeBlocks(json_object_addn(value, m, name, value.value), 1)
    BY DEF ParseMember, LostKey
<1> HIDE DEF key, name, value, r
<1>4. CASE ~key.ok
    <2>1. CopyInv(h, Abandon(x, m), m, R, d, "object")
        BY FillingAbandoned
    <2> QED  BY <1>3, <1>4, <2>1 DEF r
<1>5. CASE key.ok /\ name = NulName
    <2>1. Filling(h, LostKey(key), m, R, d, "object")
        BY <1>1, <1>5, FillingLost
    <2>2. PICK f : f = LostKey(key)
        OBVIOUS
    <2>3. CopyInv(h, Abandon(f, m), m, R, d, "object")
        BY <2>1, <2>2, FillingAbandoned
    <2> QED  BY <1>3, <1>5, <2>2, <2>3 DEF r
<1>6. CASE key.ok /\ name # NulName /\ NextTok(key) # ":"
    <2>1. Filling(h, FreeBlocks(key, 1), m, R, d, "object")
        BY <1>1, <1>6, FillingLess
    <2>2. PICK f : f = FreeBlocks(key, 1)
        OBVIOUS
    <2>3. CopyInv(h, Abandon(f, m), m, R, d, "object")
        BY <2>1, <2>2, FillingAbandoned
    <2> QED  BY <1>3, <1>6, <2>2, <2>3 DEF r
<1>7. CASE key.ok /\ name # NulName /\ NextTok(key) = ":"
    <2>1. CopyInv(h, after, m, R, d, "object")
        <3>1. PICK y : y = Skip(key)
            OBVIOUS
        <3>2. Filling(h, y, m, R, d + 1, "object") /\ Grown(y, value, R \cup {m}, d + 1) /\ name \in Keys
            BY <1>1, <1>2, <1>7, <3>1
        <3> QED  BY <3>2, AfterValueIs
    <2>2. value.ok => value.node[m].type = "object"
        <3>1. PICK y : y = Skip(key)
            OBVIOUS
        <3>2. Filling(h, y, m, R, d + 1, "object") /\ Grown(y, value, R \cup {m}, d + 1)
            BY <1>2, <1>7, <3>1
        <3>3. value.ok  => Found(h, value, m, value.value, R, d + 1, "object")
            BY <3>2, FoundIs
        <3> QED  BY <3>3 DEF Found, Filling
    <2>3. value.ok => AddMember(value, m, name, value.value) = json_object_addn(value, m, name, value.value)
        BY <2>2 DEF AddMember
    <2>4. r = after
        BY <1>3, <1>7, <2>3, Zenon DEF AfterValue
    <2> QED  BY <2>1, <2>4 DEF r
<1> QED  BY <1>4, <1>5, <1>6, <1>7

LEMMA ParseItemIs ==
    ASSUME NEW h, NEW R, NEW d \in Int, Heap(h, R, d), NEW P, Parses(P),
           NEW x, NEW m, Filling(h, x, m, R, d, "array"), x.ok
    PROVE  CopyInv(h, ParseItem(P, x, m), m, R, d, "array")
<1> DEFINE g     == P[x]
           added == json_array_add(g, m, g.value)
           r     == ParseItem(P, x, m)
<1>1. Grown(x, g, R \cup {m}, d)
    BY DEF Parses, Filling
<1>2. r = IF ~g.ok THEN Abandon(g, m)
          ELSE IF ~added.ok THEN Abandon(json_value_free(added, g.value), m)
          ELSE added
    BY DEF ParseItem
<1> HIDE DEF g
<1>3. /\ g.ok  => Found(h, g, m, g.value, R, d, "array")
      /\ ~g.ok => Filling(h, g, m, R, d, "array")
    BY <1>1, FoundIs
<1>4. CASE ~g.ok
    <2>1. CopyInv(h, Abandon(g, m), m, R, d, "array")
        BY <1>3, <1>4, FillingAbandoned
    <2> HIDE DEF r
    <2> QED  BY <1>2, <1>4, <2>1 DEF r
<1>5. CASE g.ok
    <2>1. PICK w : w = g.value
        OBVIOUS
    <2>2. PICK a : a = added
        OBVIOUS
    <2>3. PICK name : name \in Keys
        <3>1. <<>> \in Keys
            BY DEF Keys
        <3> QED  BY <3>1
    <2>4. Found(h, g, m, w, R, d, "array") /\ g.node[m].type = "array"
        BY <1>3, <1>5, <2>1 DEF Found, Filling
    <2>5. a = AddMember(g, m, name, w)
        BY <2>1, <2>2, <2>4 DEF AddMember
    <2>6. r = IF ~a.ok THEN Abandon(json_value_free(a, w), m) ELSE a
        BY <1>2, <1>5, <2>1, <2>2
    <2> HIDE DEF r, added
    <2>7. /\ a.ok  => Filling(h, a, m, R, d, "array")
          /\ ~a.ok => Filling(h, a, m, R \cup {w}, d, "array")
        BY <2>3, <2>4, <2>5, FoundAdded
    <2>8. CASE a.ok
        BY <2>6, <2>7, <2>8 DEF CopyInv, r
    <2>9. CASE ~a.ok
        <3>1. Filling(h, a, m, R \cup {w}, d, "array") /\ r = Abandon(json_value_free(a, w), m)
            BY <2>6, <2>7, <2>9
        <3>2. (R \cup {w}) \cup {m} = R \cup {w, m}
            OBVIOUS
        <3>3. /\ w # m /\ m \in Values \ Exist(h.node) /\ w \in Values \ Exist(h.node)
              /\ m \notin R /\ w \notin R /\ Heap(a, R \cup {w, m}, d) /\ Keeps(h, a)
            BY <2>4, <3>1, <3>2 DEF Filling, Found
        <3>4. Heap(r, R, d) /\ Keeps(h, r) /\ ~r.ok
            BY <3>1, <3>3, BothFreed
        <3> QED  BY <3>4 DEF CopyInv, r
    <2> QED  BY <2>8, <2>9
<1> QED  BY <1>4, <1>5

LEMMA ParseNextIs ==
    ASSUME NEW h, NEW R, NEW d \in Int, Heap(h, R, d), NEW P, Parses(P),
           NEW x, NEW m, NEW t, Filling(h, x, m, R, d, t), x.ok
    PROVE  CopyInv(h, ParseNext(P, x, m), m, R, d, t)
<1>1. x.node[m].type = t /\ t \in {"object", "array"}
    BY DEF Filling, Containers
<1>2. CASE t = "object"
    BY <1>1, <1>2, ParseMemberIs DEF ParseNext
<1>3. CASE t = "array"
    BY <1>1, <1>3, ParseItemIs DEF ParseNext
<1> QED  BY <1>1, <1>2, <1>3

\* The SMT backend does not read a comma in quotes.
Comma(x) == NextTok(x) = ","

LEMMA CommaIs ==
    ASSUME NEW x, NEW P, NEW m
    PROVE  /\ Comma(x) => NextTok(x) # "end"
           /\ ParseOn(P, x, m) = IF x.ok /\ Comma(x) THEN ParseNext(P, Skip(x), m) ELSE x
<1>1. Comma(x) => NextTok(x) # "end"
    BY Zenon DEF Comma
<1>2. ParseOn(P, x, m) = IF x.ok /\ Comma(x) THEN ParseNext(P, Skip(x), m) ELSE x
    BY Zenon DEF Comma, ParseOn
<1> QED  BY <1>1, <1>2, Zenon

LEMMA ParseOnIs ==
    ASSUME NEW h, NEW R, NEW d \in Int, Heap(h, R, d), NEW P, Parses(P),
           NEW x, NEW m, NEW t, CopyInv(h, x, m, R, d, t)
    PROVE  CopyInv(h, ParseOn(P, x, m), m, R, d, t)
<1>1. CASE x.ok /\ Comma(x)
    <2>1. Filling(h, x, m, R, d, t) /\ NextTok(x) # "end" /\ x.ok
        BY <1>1, CommaIs DEF CopyInv
    <2>2. PICK y : y = Skip(x)
        OBVIOUS
    <2>3. Filling(h, y, m, R, d, t) /\ y.ok
        BY <2>1, <2>2, FillingSkip
    <2>4. CopyInv(h, ParseNext(P, y, m), m, R, d, t)
        BY <2>3, ParseNextIs
    <2> QED  BY <1>1, <2>2, <2>4, CommaIs
<1>2. CASE ~(x.ok /\ Comma(x))
    BY <1>2, CommaIs
<1> QED  BY <1>1, <1>2

IsParseLoop(f, P, made, m, n) ==
    f = [i \in 0 .. n |-> IF i = 0 THEN ParseNext(P, made, m) ELSE ParseOn(P, f[i - 1], m)]

LEMMA ParseLoop ==
    ASSUME NEW h, NEW R, NEW d \in Int, Heap(h, R, d), NEW P, Parses(P), NEW n \in Nat,
           NEW made, NEW m, NEW t, Filling(h, made, m, R, d, t), made.ok
    PROVE  /\ \E f : IsParseLoop(f, P, made, m, n)
           /\ \A f : IsParseLoop(f, P, made, m, n) => CopyInv(h, f[n], m, R, d, t)
<1> DEFINE S       == {x \in Heaps : CopyInv(h, x, m, R, d, t)}
           first   == ParseNext(P, made, m)
           Step(x) == ParseOn(P, x, m)
           step    == [i \in 1 .. n |-> [x \in S |-> Step(x)]]
<1>1. \A x : CopyInv(h, x, m, R, d, t) => x \in S
    BY DEF CopyInv, Filling, Heap
<1>2. ASSUME NEW x \in S PROVE Step(x) \in S
    <2>1. CopyInv(h, Step(x), m, R, d, t)
        BY ParseOnIs
    <2> QED  BY <1>1, <2>1
<1>3. first \in S
    BY <1>1, ParseNextIs
<1>4. \A x \in S : CopyInv(h, x, m, R, d, t)
    OBVIOUS
<1> HIDE DEF S, Step, first
<1>5. step \in [1 .. n -> [S -> S]]
    BY <1>2
<1>6. PICK g \in [0 .. n -> S] : g[0] = first /\ \A i \in 1 .. n : g[i] = step[i][g[i - 1]]
    <2>1. PICK a \in S : a = first
        BY <1>3
    <2> HIDE DEF step
    <2>2. PICK g \in [0 .. n -> S] : Loops(g, n, a, step)
        BY <1>5, LoopExists
    <2> QED  BY <2>1, <2>2 DEF Loops
<1>7. \A i \in 0 .. n : i # 0 => i \in 1 .. n /\ i - 1 \in 0 .. n
    OBVIOUS
<1>8. \A i \in 1 .. n : g[i] = Step(g[i - 1])
    <2>1. \A i \in 1 .. n : g[i - 1] \in S
        BY <1>6, <1>7
    <2>2. \A i \in 1 .. n : \A x \in S : step[i][x] = Step(x)
        OBVIOUS
    <2> HIDE DEF step
    <2> QED  BY <1>6, <2>1, <2>2
<1>9. \E f : IsParseLoop(f, P, made, m, n)
    <2>1. \A i \in 0 .. n : g[i] = IF i = 0 THEN first ELSE Step(g[i - 1])
        BY <1>6, <1>7, <1>8
    <2>2. g = [i \in 0 .. n |-> g[i]]
        BY <1>6
    <2>3. g = [i \in 0 .. n |-> IF i = 0 THEN first ELSE Step(g[i - 1])]
        BY <2>1, <2>2
    <2> QED  BY <2>3 DEF IsParseLoop, Step, first
<1>10. ASSUME NEW f, IsParseLoop(f, P, made, m, n) PROVE f[n] \in S
    <2>1. f = [i \in 0 .. n |-> IF i = 0 THEN first ELSE Step(f[i - 1])]
        BY <1>10 DEF IsParseLoop, Step, first
    <2>2. f[0] \in S
        BY <1>3, <2>1
    <2>3. \A i \in 1 .. n : f[i] = Step(f[i - 1])
        BY <2>1
    <2>4. StaysIn(f, n, S)
        BY <1>2, <2>2, <2>3 DEF StaysIn
    <2>5. \A i \in 0 .. n : f[i] \in S
        BY <2>4, LoopIn
    <2> QED  BY <2>5
<1> QED  BY <1>4, <1>9, <1>10

LEMMA CloseIs ==
    ASSUME NEW h, NEW R, NEW d, Heap(h, R, d), NEW x, NEW m, NEW t, Filling(h, x, m, R, d, t),
           NEW bracket, bracket # "end"
    PROVE  Grown(h, Close(x, m, bracket), R, d)
<1> DEFINE Q == R \cup {m}
           r == Close(x, m, bracket)
<1>1. /\ m \in Values \ Exist(h.node) /\ Heap(x, Q, d) /\ x.node[m].type \in Containers
      /\ Keeps(h, x) /\ x.node \in [Values -> Nodes]
    BY DEF Filling, Heap, Sound
<1> HIDE DEF Q
<1>2. PICK k \in Nat : HasMembers(x, m, k) /\ Len(x.node[m].values) <= k
    <2>1. PICK s \in Seq(Values) : s = x.node[m].values
        BY <1>1, ContainerIs
    <2>2. PICK k \in Nat : k = Len(s) /\ k <= k
        OBVIOUS
    <2> QED  BY <2>1, <2>2 DEF HasMembers
<1>3. PICK g : g = Resize(x, m, k)
    OBVIOUS
<1>4. g.ok => Heap(g, Q, d) /\ g.node = [x.node EXCEPT ![m].capacity = k] /\ g.text = x.text
    <2>1. Resize(x, m, k).ok => /\ Heap(Resize(x, m, k), Q, d)
                                /\ Resize(x, m, k).node = [x.node EXCEPT ![m].capacity = k]
                                /\ Resize(x, m, k).text = x.text
        BY <1>1, <1>2, ResizeIs
    <2> QED  BY <1>3, <2>1
<1>5. r = IF NextTok(x) # bracket \/ ~g.ok THEN Abandon(x, m) ELSE Skip(Valued(g, m))
    <2>1. r = IF NextTok(x) # bracket \/ ~Resize(x, m, Len(x.node[m].values)).ok THEN Abandon(x, m)
              ELSE Skip([Resize(x, m, Len(x.node[m].values)) EXCEPT !.value = m])
        BY Zenon DEF Close
    <2>2. Len(x.node[m].values) = k
        BY <1>2 DEF HasMembers
    <2> HIDE DEF r
    <2> QED  BY <1>3, <2>1, <2>2, Zenon DEF Valued
<1> HIDE DEF r
<1>6. CASE NextTok(x) # bracket \/ ~g.ok
    <2>1. Heap(Abandon(x, m), R, d) /\ Keeps(h, Abandon(x, m)) /\ ~Abandon(x, m).ok
        BY FillingFreed
    <2> QED  BY <1>5, <1>6, <2>1 DEF Grown, r
<1>7. CASE NextTok(x) = bracket /\ g.ok
    <2>1. PICK v : v = Valued(g, m)
        OBVIOUS
    <2>2. Heap(v, Q, d) /\ v.node = g.node /\ v.ok /\ v.value = m /\ v.text = g.text
        BY <1>1, <1>4, <1>7, <2>1, ValuedIs
    <2>3. g.text = x.text
        BY <1>4, <1>7
    <2>4. NextTok(v) # "end"
        BY <1>7, <2>2, <2>3 DEF NextTok
    <2>5. Heap(Skip(v), Q, d) /\ Skip(v).node = v.node /\ Skip(v).ok = v.ok /\ Skip(v).value = v.value
        BY <2>2, <2>4, SkipIs
    <2>6. r = Skip(v)
        BY <1>5, <1>7, <2>1
    <2>7. Keeps(h, r)
        <3>1. ASSUME NEW u \in Exist(h.node) PROVE r.node[u] = h.node[u]
            <4>1. u \in Values /\ u # m /\ x.node[u] = h.node[u]
                BY <1>1 DEF Exist, Keeps
            <4>2. r.node = [x.node EXCEPT ![m].capacity = k]
                BY <1>4, <1>7, <2>2, <2>5, <2>6
            <4> QED  BY <1>1, <4>1, <4>2
        <3> QED  BY <3>1 DEF Keeps
    <2>8. r.ok /\ r.value = m /\ Heap(r, R \cup {m}, d)
        BY <2>2, <2>5, <2>6 DEF Q
    <2> QED  BY <1>1, <2>7, <2>8 DEF Grown, r
<1> QED  BY <1>6, <1>7

ParsedRounds(P, made, bracket, n, h) ==
    LET done == CHOOSE f : IsParseLoop(f, P, made, made.value, n)
    IN IF ~made.ok THEN Failed(h)
       ELSE IF NextTok(made) = bracket THEN Skip(made)
       ELSE IF done[n].ok THEN Close(done[n], made.value, bracket) ELSE done[n]

LEMMA ParseContainerIs ==
    ASSUME NEW h, NEW R, NEW d, Heap(h, R, d), NEW t \in Containers,
           NextTok(h) # "end", NEW bracket, bracket # "end", NEW P, Parses(P)
    PROVE  Grown(h, parse_container(P, h, t, bracket), R, d)
<1>0. d \in Int
    BY DebtIsInt DEF Heap
<1>1. PICK v : v = json_value_init(h, Container(t))
    OBVIOUS
<1>2. PICK made : made = Skip(v)
    OBVIOUS
<1>3. PICK n \in Nat : n = Len(h.text)
    BY HeapFields DEF Heap
<1> DEFINE m    == made.value
           done == CHOOSE f : IsParseLoop(f, P, made, m, n)
           r    == parse_container(P, h, t, bracket)
<1>4. r = IF ~made.ok THEN Failed(h)
          ELSE IF NextTok(made) = bracket THEN Skip(made)
          ELSE IF done[n].ok THEN Close(done[n], m, bracket) ELSE done[n]
    <2>1. r = ParsedRounds(P, Skip(json_value_init(h, Container(t))), bracket, Len(h.text), h)
        BY Zenon DEF parse_container, ParsedRounds, IsParseLoop
    <2> HIDE DEF r
    <2>2. r = ParsedRounds(P, made, bracket, n, h)
        BY Zenon, <1>1, <1>2, <1>3, <2>1
    <2> QED  BY Zenon, <2>2 DEF ParsedRounds
<1>5. made.ok = v.ok /\ (made.ok => Filling(h, made, m, R, d, t))
    <2>1. CASE ~v.ok
        <3>1. made.ok = v.ok
            BY <1>2 DEF Skip
        <3> QED  BY <2>1, <3>1
    <2>2. CASE v.ok
        <3>1. PICK w : w = v.value
            OBVIOUS
        <3>2. MadeOf(h, v, w, R, d, t)
            BY <1>1, <2>2, <3>1, NewContainerIs
        <3>3. Filling(h, v, w, R, d, t) /\ NextTok(v) # "end" /\ Heap(v, R \cup {w}, d)
            BY <3>2 DEF MadeOf, Filling, Keeps, NextTok
        <3>4. Filling(h, made, w, R, d, t) /\ made.ok = v.ok
            BY <1>2, <3>3, FillingSkip
        <3>5. made.value = v.value
            BY <1>2, <3>3, SkipIs
        <3> QED  BY <3>1, <3>4, <3>5
    <2> QED  BY <2>1, <2>2
<1> HIDE DEF r, done, m
<1>6. CASE ~made.ok
    <2>1. Heap(Failed(h), R, d) /\ Failed(h).node = h.node /\ ~Failed(h).ok
        BY FailedIs DEF Heap
    <2> QED  BY <1>4, <1>6, <2>1 DEF Grown, Keeps, r
<1>7. CASE made.ok /\ NextTok(made) = bracket
    <2>1. Filling(h, made, m, R, d, t) /\ Heap(made, R \cup {m}, d) /\ Keeps(h, made)
          /\ m \in Values \ Exist(h.node)
        BY <1>5, <1>7 DEF Filling
    <2>2. NextTok(made) # "end"
        BY <1>7
    <2>3. Heap(Skip(made), R \cup {m}, d) /\ Skip(made).node = made.node /\ Skip(made).ok = made.ok
          /\ Skip(made).value = made.value
        BY <2>1, <2>2, SkipIs
    <2>4. Grown(h, Skip(made), R, d)
        BY <1>7, <2>1, <2>3 DEF Grown, Keeps, m
    <2> QED  BY <1>4, <1>7, <2>4 DEF r
<1>8. CASE made.ok /\ NextTok(made) # bracket
    <2>1. Filling(h, made, m, R, d, t)
        BY <1>5, <1>8
    <2>2. /\ \E f : IsParseLoop(f, P, made, m, n)
          /\ \A f : IsParseLoop(f, P, made, m, n) => CopyInv(h, f[n], m, R, d, t)
        BY <1>0, <1>8, <2>1, ParseLoop
    <2>3. CopyInv(h, done[n], m, R, d, t)
        BY <2>2 DEF done
    <2>4. CASE done[n].ok
        <3>1. PICK x : x = done[n]
            OBVIOUS
        <3>2. Filling(h, x, m, R, d, t)
            BY <2>3, <2>4, <3>1 DEF CopyInv
        <3>3. Grown(h, Close(x, m, bracket), R, d)
            BY <3>2, CloseIs
        <3> QED  BY <1>4, <1>8, <2>4, <3>1, <3>3 DEF r
    <2>5. CASE ~done[n].ok
        BY <1>4, <1>8, <2>3, <2>5 DEF CopyInv, Grown, r
    <2> QED  BY <2>4, <2>5
<1> QED  BY <1>6, <1>7, <1>8

\* The cases of parse_value, with the brackets behind them.
LEMMA LevelIs ==
    ASSUME NEW g, NEW P
    PROVE  \/ /\ NextTok(g) # "end" /\ \E t \in Containers : \E bracket :
                    bracket # "end" /\ ParseLevel(P, g) = parse_container(P, g, t, bracket)
           \/ ParseLevel(P, g) = parse_string_value(g)
           \/ /\ NextTok(g) \in ScalarTypes \ {"string"}
              /\ \E v : /\ v = json_value_init(g, Scalar(Head(g.text).data))
                        /\ ParseLevel(P, g) = IF v.ok THEN Skip(v) ELSE v
           \/ ParseLevel(P, g) = Failed(g)
<1>1. CASE NextTok(g) = "{"
    <2>1. "object" \in Containers /\ "}" # "end" /\ NextTok(g) # "end"
        BY Zenon, <1>1 DEF Containers
    <2>2. NextTok(g) # "[" /\ NextTok(g) # "string" /\ NextTok(g) \notin ScalarTypes
        BY Zenon, <1>1 DEF ScalarTypes
    <2>3. ParseLevel(P, g) = parse_container(P, g, "object", "}")
        BY Zenon, <1>1, <2>2 DEF ParseLevel
    <2> QED  BY Zenon, <2>1, <2>3
<1>2. CASE NextTok(g) = "["
    <2>1. "array" \in Containers /\ "]" # "end" /\ NextTok(g) # "end"
        BY Zenon, <1>2 DEF Containers
    <2>2. NextTok(g) # "{" /\ NextTok(g) # "string" /\ NextTok(g) \notin ScalarTypes
        BY Zenon, <1>2 DEF ScalarTypes
    <2>3. ParseLevel(P, g) = parse_container(P, g, "array", "]")
        BY Zenon, <1>2, <2>2 DEF ParseLevel
    <2> QED  BY Zenon, <2>1, <2>3
<1>3. CASE NextTok(g) = "string"
    <2>1. NextTok(g) # "{" /\ NextTok(g) # "[" /\ NextTok(g) \notin ScalarTypes \ {"string"}
        BY Zenon, <1>3
    <2>2. ParseLevel(P, g) = parse_string_value(g)
        BY Zenon, <1>3, <2>1 DEF ParseLevel
    <2> QED  BY Zenon, <2>2
<1>4. CASE NextTok(g) \in ScalarTypes \ {"string"}
    <2>1. NextTok(g) # "{" /\ NextTok(g) # "[" /\ NextTok(g) # "string"
        BY Zenon, <1>4 DEF ScalarTypes
    <2>2. PICK v : v = json_value_init(g, Scalar(Head(g.text).data))
        BY Zenon
    <2>3. ParseLevel(P, g) = IF v.ok THEN Skip(v) ELSE v
        BY Zenon, <1>4, <2>1, <2>2 DEF ParseLevel
    <2> QED  BY Zenon, <1>4, <2>2, <2>3
<1>5. CASE /\ NextTok(g) # "{" /\ NextTok(g) # "[" /\ NextTok(g) # "string"
           /\ NextTok(g) \notin ScalarTypes \ {"string"}
    <2>1. ParseLevel(P, g) = Failed(g)
        BY Zenon, <1>5 DEF ParseLevel
    <2> QED  BY Zenon, <2>1
<1> QED  BY Zenon, <1>1, <1>2, <1>3, <1>4, <1>5

LEMMA ParseLevelIs ==
    ASSUME NEW g, NEW R, NEW d, Heap(g, R, d), NEW P, Parses(P)
    PROVE  Grown(g, ParseLevel(P, g), R, d)
<1> DEFINE r == ParseLevel(P, g)
<1>1. \/ /\ NextTok(g) # "end" /\ \E t \in Containers : \E bracket :
                bracket # "end" /\ r = parse_container(P, g, t, bracket)
      \/ r = parse_string_value(g)
      \/ /\ NextTok(g) \in ScalarTypes \ {"string"}
         /\ \E v : /\ v = json_value_init(g, Scalar(Head(g.text).data))
                   /\ r = IF v.ok THEN Skip(v) ELSE v
      \/ r = Failed(g)
    BY LevelIs, Zenon
<1> HIDE DEF r
<1>2. ASSUME NextTok(g) # "end", NEW t \in Containers, NEW bracket, bracket # "end",
             r = parse_container(P, g, t, bracket)
      PROVE  Grown(g, r, R, d)
    <2>1. Grown(g, parse_container(P, g, t, bracket), R, d)
        BY <1>2, ParseContainerIs
    <2> QED  BY <1>2, <2>1
<1>3. ASSUME r = parse_string_value(g) PROVE Grown(g, r, R, d)
    BY <1>3, StringIs
<1>4. ASSUME NextTok(g) \in ScalarTypes \ {"string"},
             NEW v, v = json_value_init(g, Scalar(Head(g.text).data)),
             r = IF v.ok THEN Skip(v) ELSE v
      PROVE  Grown(g, r, R, d)
    <2>1. Grown(g, IF v.ok THEN Skip(v) ELSE v, R, d)
        BY <1>4, NumberIs
    <2> QED  BY <1>4, <2>1
<1>5. ASSUME r = Failed(g) PROVE Grown(g, r, R, d)
    <2>1. Heap(Failed(g), R, d) /\ Failed(g).node = g.node /\ ~Failed(g).ok
        BY FailedIs DEF Heap
    <2> QED  BY <1>5, <2>1 DEF Grown, Keeps
<1>6. Grown(g, r, R, d)
    BY <1>1, <1>2, <1>3, <1>4, <1>5, Zenon
<1> QED  BY <1>6 DEF r

LEMMA ParseRowIs ==
    ASSUME NEW x, NEW k, k # 0 => Parses(x)
    PROVE  Parses(ParseRow(x, k))
<1>1. SUFFICES ASSUME NEW g, NEW R, NEW d, Heap(g, R, d)
               PROVE  Grown(g, ParseRow(x, k)[g], R, d)
    BY DEF Parses
<1> DEFINE r == ParseRow(x, k)[g]
<1>2. r = IF k = 0 THEN Failed(g) ELSE ParseLevel(x, g)
    BY <1>1 DEF Heap, ParseRow
<1> HIDE DEF r
<1>3. CASE k = 0
    <2>1. Heap(Failed(g), R, d) /\ Failed(g).node = g.node /\ ~Failed(g).ok
        BY <1>1, FailedIs DEF Heap
    <2> QED  BY <1>2, <1>3, <2>1 DEF Grown, Keeps, r
<1>4. CASE k # 0
    <2>1. Grown(g, ParseLevel(x, g), R, d)
        BY <1>1, <1>4, ParseLevelIs
    <2> QED  BY <1>2, <1>4, <2>1 DEF r
<1> QED  BY <1>3, <1>4

LEMMA ParseIs ==
    ASSUME NEW h, NEW R, NEW d, Heap(h, R, d), h.ok
    PROVE  Grown(h, parse_value(h), R, d)
<1> DEFINE N     == MaxNesting + 1
           parse == CHOOSE f : IsLevels("parse", f, N)
           G     == {k \in 0 .. N : Parses(parse[k])}
<1>1. N \in Nat
    BY BoundsAssumption
<1>2. IsLevels("parse", parse, N)
    BY <1>1, LevelsExist
<1>3. parse_value(h) = parse[N][h]
    BY Zenon DEF parse_value, IsLevels, LevelRow, ParseRow, ParseLevel
<1> HIDE DEF parse, N
<1>4. \A k \in 0 .. N : parse[k] = ParseRow(parse[k - 1], k)
    BY <1>2 DEF IsLevels, LevelRow
<1>5. 0 .. N \subseteq G
    <2>1. ASSUME NEW k \in 0 .. N, k # 0 => k - 1 \in G PROVE k \in G
        <3>1. PICK x : x = parse[k - 1]
            OBVIOUS
        <3>2. k # 0 => Parses(x)
            BY <2>1, <3>1
        <3>3. Parses(ParseRow(x, k))
            BY <3>2, ParseRowIs
        <3> QED  BY <1>4, <3>1, <3>3
    <2>2. 0 \in G /\ \A k \in 0 .. N : k # 0 /\ k - 1 \in G => k \in G
        BY <1>1, <2>1
    <2> HIDE DEF G
    <2> QED  BY <1>1, <2>2, Upwards
<1>6. Parses(parse[N])
    BY <1>1, <1>5
<1> QED  BY <1>3, <1>6 DEF Parses

-----------------------------------------------------------------------------
(* The calls of the interface. *)

\* Who forgets a freed parent stays where it is, with its blocks.
LEMMA ForgetIs ==
    ASSUME NEW nd, NEW R, Sound(nd, R)
    PROVE  /\ Sound(Forget(nd), R) /\ Exist(Forget(nd)) = Exist(nd)
           /\ Weight(Forget(nd)) = Weight(nd)
<1> DEFINE md == Forget(nd)
           Orphan(v) == /\ nd[v].type # "free" /\ nd[v].parent \in Values
                        /\ nd[nd[v].parent].type = "free"
<1>1. nd \in [Values -> Nodes] /\ (\A v \in Values : Fits(nd[v]))
      /\ Forest(Exist(nd), Kids(nd), Par(nd), R)
    BY DEF Sound
<1>2. md = [v \in Values |-> IF Orphan(v) THEN Under(nd[v], Stale) ELSE nd[v]]
    BY DEF Forget, Under
<1>3. ASSUME NEW v \in Values
      PROVE  /\ md[v] \in Nodes /\ Fits(md[v]) /\ OwnBlocks(md[v]) = OwnBlocks(nd[v])
             /\ md[v].type = nd[v].type /\ Children(md, v) = Children(nd, v)
             /\ ~Orphan(v) => md[v] = nd[v]
    <2>1. md[v] = IF Orphan(v) THEN Under(nd[v], Stale) ELSE nd[v]
        BY <1>2
    <2> HIDE DEF md
    <2>2. CASE Orphan(v)
        <3>1. nd[v] \in Nodes /\ nd[v].type # "free" /\ Stale \in Parents /\ Fits(nd[v])
            BY <1>1, <2>2 DEF Parents
        <3> HIDE DEF Orphan
        <3>2. md[v] = Under(nd[v], Stale)
            BY <2>1, <2>2
        <3>3. /\ Under(nd[v], Stale) \in Nodes /\ Under(nd[v], Stale).type = nd[v].type
              /\ nd[v].type \in Containers => Under(nd[v], Stale).values = nd[v].values
              /\ Fits(Under(nd[v], Stale)) /\ OwnBlocks(Under(nd[v], Stale)) = OwnBlocks(nd[v])
            BY <3>1, ReparentIs
        <3>4. Children(md, v) = Children(nd, v)
            BY <3>2, <3>3 DEF Children
        <3> QED  BY <2>2, <3>2, <3>3, <3>4
    <2>3. CASE ~Orphan(v)
        BY <1>1, <2>1, <2>3 DEF Children
    <2> QED  BY <2>2, <2>3
<1>4. md \in [Values -> Nodes]
    <2>1. md = [v \in Values |-> md[v]]
        BY <1>2
    <2> HIDE DEF md
    <2> QED  BY <1>3, <2>1
<1> HIDE DEF md
<1>5. Exist(md) = Exist(nd)
    BY <1>3 DEF Exist
<1>6. Forest(Exist(nd), Kids(md), Par(md), R)
    <2>1. \A u \in Values : Kids(md)[u] = Kids(nd)[u]
        BY <1>3 DEF Kids
    <2>2. ASSUME NEW u \in Exist(nd) \ R PROVE Par(md)[u] = Par(nd)[u]
        <3>1. Par(nd)[u] \in Exist(nd) /\ u \in Values
            BY <1>1, ForestParent DEF Exist
        <3>2. ~Orphan(u)
            BY <3>1 DEF Exist, Par
        <3> HIDE DEF Orphan
        <3> QED  BY <1>3, <3>1, <3>2 DEF Par
    <2> QED  BY <1>1, <2>1, <2>2, ForestSame
<1>7. Sound(md, R)
    BY <1>3, <1>4, <1>5, <1>6 DEF Sound
<1>8. Weight(md) = Weight(nd)
    <2>1. \A v \in Values : {v} \X (1 .. OwnBlocks(md[v])) = {v} \X (1 .. OwnBlocks(nd[v]))
        BY <1>3
    <2>2. BlocksOf(md, Values) = BlocksOf(nd, Values)
        BY <2>1 DEF BlocksOf
    <2> QED  BY <2>2 DEF Weight
<1> QED  BY <1>5, <1>7, <1>8 DEF md

\* What is so between the calls.  The blocks of all values are counted, and
\* the values make up trees of which the program owns the roots.
IInv == Sound(node, held) /\ blocks = Weight(node) /\ ok \in BOOLEAN

\* How a call ends that the program owns S after, or R when it failed.
EndsIn(r, R, S) == /\ r.ok  => Heap(r, S, 0)
                   /\ ~r.ok => Heap(r, R, 0)

LEMMA ReturnIs ==
    ASSUME NEW h, NEW S, EndsIn(h, held, S), Return(h, S)
    PROVE  IInv'
<1>1. PICK R : R = (IF h.ok THEN S ELSE held)
    OBVIOUS
<1>2. Heap(h, R, 0) /\ held' = R
    BY <1>1 DEF EndsIn, Return
<1>3. h \in Heaps /\ Sound(h.node, R) /\ Debt(h) = 0
    BY <1>2 DEF Heap
<1>4. node' = Forget(h.node) /\ blocks' = h.blocks - h.lost /\ ok' = h.ok
    BY DEF Return
<1>5. Sound(node', R) /\ Weight(node') = Weight(h.node)
    BY <1>3, <1>4, ForgetIs
<1>6. blocks' = Weight(node')
    <2>1. h.node \in [Values -> Nodes] /\ h.blocks \in Int /\ h.lost \in Nat
        BY <1>3, HeapFields
    <2>2. PICK w \in Nat, b \in Int, l \in Nat : w = Weight(h.node) /\ b = h.blocks /\ l = h.lost
        BY <2>1, WeightIsNat
    <2>3. b - l - w = 0 /\ blocks' = b - l
        BY <1>3, <1>4, <2>2 DEF Debt
    <2>4. b - l = w
        BY <2>3
    <2> QED  BY <1>5, <2>2, <2>3, <2>4
<1>7. ok' \in BOOLEAN
    BY <1>3, <1>4, HeapFields
<1> QED  BY <1>2, <1>5, <1>6, <1>7 DEF IInv

\* Whatever is left of the memory and of the text is of no matter.
LEMMA OutcomeIs ==
    ASSUME NEW run, \A m \in Memory : run[m] \in Heaps, NEW h \in Outcomes(run)
    PROVE  \E m \in Memory :
              /\ h.ok = run[m].ok /\ h.value = run[m].value /\ h.node = run[m].node
              /\ \A R, d : Heap(run[m], R, d) => Heap(h, R, d)
<1>1. Plenty \in Nat /\ Plenty \in Memory
    BY BoundsAssumption DEF Memory
<1>2. PICK n \in Nat : n = run[Plenty].memory
    BY <1>1, HeapFields
<1>3. PICK m \in {Plenty} \cup 0 .. ((Plenty - n) - 1) : h = [run[m] EXCEPT !.memory = 0, !.text = <<>>]
    BY <1>2 DEF Outcomes
<1>4. m \in Memory
    BY <1>1, <1>3 DEF Memory
<1>5. PICK x \in Heaps : x = run[m]
    BY <1>4
<1>6. h = [x EXCEPT !.memory = 0, !.text = <<>>] /\ <<>> \in Seq(Tokens)
    BY <1>3, <1>5
<1>7. h \in Heaps /\ h.node = x.node /\ h.blocks = x.blocks /\ h.lost = x.lost /\ h.ok = x.ok
      /\ h.value = x.value
    BY <1>6 DEF Heaps
<1>8. Debt(h) = Debt(x)
    BY <1>7 DEF Debt
<1>9. \A R, d : Heap(x, R, d) => Heap(h, R, d)
    BY <1>7, <1>8 DEF Heap
<1> QED  BY <1>4, <1>5, <1>7, <1>9

LEMMA CallsIs ==
    ASSUME NEW run, NEW S, \A m \in Memory : EndsIn(run[m], held, S), Calls(run, S)
    PROVE  IInv'
<1>1. PICK h \in Outcomes(run) : Return(h, S)
    BY DEF Calls
<1>2. \A m \in Memory : run[m] \in Heaps
    BY DEF EndsIn, Heap
<1>3. EndsIn(h, held, S)
    BY <1>2, OutcomeIs DEF EndsIn
<1> QED  BY <1>1, <1>3, ReturnIs

LEMMA MakesIs ==
    ASSUME NEW run, \A m \in Memory : EndsIn(run[m], held, held \cup {run[m].value}), Makes(run)
    PROVE  IInv'
<1>1. PICK h \in Outcomes(run) : Return(h, held \cup {h.value})
    BY DEF Makes
<1>2. \A m \in Memory : run[m] \in Heaps
    BY DEF EndsIn, Heap
<1>3. EndsIn(h, held, held \cup {h.value})
    <2>1. PICK m \in Memory : /\ h.ok = run[m].ok /\ h.value = run[m].value
                              /\ \A R, d : Heap(run[m], R, d) => Heap(h, R, d)
        BY <1>2, OutcomeIs
    <2>2. EndsIn(run[m], held, held \cup {run[m].value})
        OBVIOUS
    <2> QED  BY <2>1, <2>2 DEF EndsIn
<1> QED  BY <1>1, <1>3, ReturnIs

LEMMA CallIs ==
    ASSUME IInv, NEW m \in Nat
    PROVE  Heap(Call(m), held, 0) /\ Call(m).ok /\ Call(m).node = node
<1> DEFINE h == Call(m)
<1>1. node \in [Values -> Nodes] /\ Sound(node, held) /\ blocks = Weight(node)
    BY DEF IInv, Sound
<1>2. Weight(node) \in Nat
    BY <1>1, WeightIsNat
<1>3. h = [node |-> node, blocks |-> blocks, lost |-> 0, memory |-> m,
           ok |-> TRUE, value |-> NULL, text |-> <<>>] /\ <<>> \in Seq(Tokens)
    BY DEF Call
<1> HIDE DEF h
<1>4. h \in Heaps /\ h.node = node /\ h.blocks = blocks /\ h.lost = 0 /\ h.ok
    BY <1>1, <1>2, <1>3 DEF Heaps
<1>5. Debt(h) = 0
    <2>1. PICK w \in Nat : w = Weight(node)
        BY <1>2
    <2>2. Debt(h) = w - 0 - w
        BY <1>1, <1>4, <2>1 DEF Debt
    <2> QED  BY <2>2
<1> QED  BY <1>1, <1>4, <1>5 DEF Heap, h

LEMMA MemoryIsNat == Memory \subseteq Nat
BY BoundsAssumption DEF Memory

\* What a call is made with.
LEMMA Given ==
    ASSUME IInv
    PROVE  /\ \A v \in Live : v \in Values /\ v \in Exist(node)
           /\ \A o \in Objects : o \in Values /\ o \in Exist(node) /\ node[o].type = "object"
           /\ \A a \in Arrays : a \in Values /\ a \in Exist(node) /\ node[a].type = "array"
           /\ \A c \in Objects \cup Arrays : c \in Values /\ node[c].type \in Containers
           /\ \A name \in Names : name \in Keys /\ Len(name) > 0
           /\ \A a \in Arrays : Index(a) \subseteq Nat \ {0}
<1>1. \A name \in Names : name \in Keys /\ Len(name) > 0
    BY NamesAssumption
<1>2. \A v \in Live : v \in Values /\ v \in Exist(node)
    BY DEF Live, Exist
<1>3. ASSUME NEW a \in Arrays PROVE Index(a) \subseteq Nat \ {0}
    <2>1. a \in Values /\ node[a].type \in Containers /\ node \in [Values -> Nodes]
        BY <1>2 DEF Arrays, OfType, Containers, IInv, Sound
    <2>2. node[a].values \in Seq(Values)
        BY <2>1, ContainerIs
    <2>3. PICK n \in Nat : n = Len(node[a].values)
        BY <2>2
    <2>4. Index(a) = 1 .. n + 1
        BY <2>3 DEF Index
    <2> QED  BY <2>4
<1>4. /\ \A o \in Objects : o \in Values /\ o \in Exist(node) /\ node[o].type = "object"
      /\ \A a \in Arrays : a \in Values /\ a \in Exist(node) /\ node[a].type = "array"
      /\ \A c \in Objects \cup Arrays : c \in Values /\ node[c].type \in Containers
    BY <1>2 DEF Objects, Arrays, OfType, Containers
<1> QED  BY <1>1, <1>2, <1>3, <1>4

LEMMA GrownEnds ==
    ASSUME NEW h, NEW r, Grown(h, r, held, 0)
    PROVE  EndsIn(r, held, held \cup {r.value})
BY DEF Grown, EndsIn

LEMMA SetsEnds ==
    ASSUME NEW h, NEW r, NEW R, NEW p, NEW v, Sets(h, r, R, 0, p, v)
    PROVE  EndsIn(r, R, R \ {v})
BY DEF Sets, EndsIn

LEMMA SameEnds ==
    ASSUME NEW r, Heap(r, held, 0)
    PROVE  EndsIn(r, held, held)
BY DEF EndsIn

\* A value made for a call, which is not there before.
Fresh(made, c, w) ==
    /\ Heap(made, held \cup {w}, 0) /\ made.ok /\ w \in Exist(made.node) /\ w = made.value
    /\ w \notin held /\ made.node[c] = node[c] /\ c \notin Tree(made.node, w)

LEMMA FreshIs ==
    ASSUME IInv, NEW m \in Nat, NEW s \in Scalars, NEW made,
           made = json_value_init(Call(m), Scalar(s)), NEW c \in Exist(node)
    PROVE  /\ ~made.ok => Heap(made, held, 0)
           /\ made.ok  => \E w : Fresh(made, c, w)
<1>1. PICK h : h = Call(m)
    OBVIOUS
<1>2. Heap(h, held, 0) /\ h.node = node
    BY <1>1, CallIs
<1>3. PICK n : n = Scalar(s) /\ Single(n)
    BY ScalarSingle DEF Data
<1>4. Grown(h, json_value_init(h, n), held, 0)
    BY <1>2, <1>3, InitGrows
<1>5. Grown(h, made, held, 0)
    BY <1>1, <1>3, <1>4
<1>6. ASSUME made.ok PROVE \E w : Fresh(made, c, w)
    <2>1. PICK w : w = made.value
        OBVIOUS
    <2>2. w \in Values \ Exist(h.node) /\ Heap(made, held \cup {w}, 0) /\ Keeps(h, made)
        BY <1>5, <1>6, <2>1 DEF Grown
    <2> DEFINE Q == held \cup {w}
    <2>3. w \in Q /\ held \subseteq Q /\ Heap(made, Q, 0)
        BY <2>2
    <2> HIDE DEF Q
    <2>4. Tree(made.node, w) \cap Exist(h.node) = {}
        <3>1. \A u \in Exist(h.node) : made.node[u].parent = h.node[u].parent
            BY <2>2 DEF Keeps
        <3> QED  BY <1>2, <2>2, <2>3, <3>1, RootApart
    <2>5. w \in Exist(made.node)
        BY <2>3 DEF Heap, Sound, Forest
    <2>6. held \subseteq Exist(h.node)
        BY <1>2 DEF Heap, Sound, Forest
    <2>7. made.node[c] = node[c] /\ c \notin Tree(made.node, w)
        BY <1>2, <2>2, <2>4 DEF Keeps
    <2> QED  BY <1>6, <2>1, <2>2, <2>5, <2>6, <2>7 DEF Fresh
<1> QED  BY <1>5, <1>6 DEF Grown

LEMMA WithNewIs ==
    ASSUME NEW made, NEW used, NEW p, ~made.ok => Heap(made, held, 0),
           made.ok => made.value \notin held
                      /\ Sets(made, used, held \cup {made.value}, 0, p, made.value)
    PROVE  EndsIn(WithNew(made, used), held, held)
<1> DEFINE r == WithNew(made, used)
<1>1. CASE ~made.ok
    BY <1>1 DEF WithNew, EndsIn
<1>2. CASE made.ok /\ used.ok
    <2>1. PICK w : w = made.value
        OBVIOUS
    <2>2. Heap(used, (held \cup {w}) \ {w}, 0) /\ w \notin held
        BY <1>2, <2>1 DEF Sets
    <2>3. (held \cup {w}) \ {w} = held
        BY <2>2
    <2>4. r = used
        BY <1>2 DEF WithNew
    <2> QED  BY <1>2, <2>2, <2>3, <2>4 DEF EndsIn
<1>3. CASE made.ok /\ ~used.ok
    <2>1. PICK w : w = made.value
        OBVIOUS
    <2>2. PICK Q : Q = held \cup {w}
        OBVIOUS
    <2>3. Heap(used, Q, 0) /\ w \in Q /\ w \notin held /\ Q \ {w} = held
        BY <1>3, <2>1, <2>2 DEF Sets
    <2>4. Heap(Abandon(used, w), Q \ {w}, 0) /\ ~Abandon(used, w).ok
        BY <2>3, AbandonIs
    <2>5. r = Abandon(used, w)
        BY <1>3, <2>1 DEF WithNew
    <2> QED  BY <2>3, <2>4, <2>5 DEF EndsIn
<1> QED  BY <1>1, <1>2, <1>3

LEMMA CreateIs ==
    ASSUME IInv, Create
    PROVE  IInv'
<1>1. ASSUME NEW n, Single(n), Makes([m \in Memory |-> json_value_init(Call(m), n)])
      PROVE  IInv'
    <2> DEFINE run == [m \in Memory |-> json_value_init(Call(m), n)]
    <2>1. ASSUME NEW m \in Memory PROVE EndsIn(run[m], held, held \cup {run[m].value})
        <3>1. PICK h : h = Call(m)
            OBVIOUS
        <3>2. Heap(h, held, 0)
            BY <3>1, CallIs, MemoryIsNat
        <3>3. Grown(h, json_value_init(h, n), held, 0)
            BY <1>1, <3>2, InitGrows
        <3>4. run[m] = json_value_init(h, n)
            BY <3>1
        <3> HIDE DEF run
        <3> QED  BY <3>3, <3>4, GrownEnds
    <2>2. Makes(run)
        BY <1>1
    <2> HIDE DEF run
    <2> QED  BY <2>1, <2>2, MakesIs
<1>2. \A t \in Containers : Single(Container(t))
    BY ContainerSingle
<1>3. \A s \in Scalars : Single(Scalar(s))
    BY ScalarSingle DEF Data
<1> QED  BY <1>1, <1>2, <1>3 DEF Create

LEMMA CopyStep ==
    ASSUME IInv, Copy
    PROVE  IInv'
<1>1. PICK v \in Live : Makes([m \in Memory |-> json_value_deep_copy(Call(m), v)])
    BY DEF Copy
<1> DEFINE run == [m \in Memory |-> json_value_deep_copy(Call(m), v)]
<1>2. ASSUME NEW m \in Memory PROVE EndsIn(run[m], held, held \cup {run[m].value})
    <2>1. PICK h : h = Call(m)
        OBVIOUS
    <2>2. Heap(h, held, 0) /\ h.ok /\ v \in Exist(h.node)
        BY <2>1, CallIs, MemoryIsNat, Given
    <2>3. Grown(h, json_value_deep_copy(h, v), held, 0)
        BY <2>2, CopyIs
    <2>4. run[m] = json_value_deep_copy(h, v)
        BY <2>1
    <2> HIDE DEF run
    <2> QED  BY <2>3, <2>4, GrownEnds
<1>3. Makes(run)
    BY <1>1
<1> HIDE DEF run
<1> QED  BY <1>2, <1>3, MakesIs

LEMMA ParseStep ==
    ASSUME IInv, Parse
    PROVE  IInv'
<1>1. PICK text \in Texts : Makes([m \in Memory |-> parse_value([Call(m) EXCEPT !.text = text])])
    BY DEF Parse
<1> DEFINE run == [m \in Memory |-> parse_value([Call(m) EXCEPT !.text = text])]
<1>2. ASSUME NEW m \in Memory PROVE EndsIn(run[m], held, held \cup {run[m].value})
    <2>1. PICK g : g = Call(m)
        OBVIOUS
    <2>2. Heap(g, held, 0) /\ g.ok /\ g \in Heaps
        BY <2>1, CallIs, MemoryIsNat DEF Heap
    <2>3. PICK h : h = [g EXCEPT !.text = text]
        OBVIOUS
    <2>4. /\ h \in Heaps /\ h.node = g.node /\ h.blocks = g.blocks /\ h.lost = g.lost /\ h.ok = g.ok
        BY <2>2, <2>3, TextsAssumption DEF Heaps
    <2>5. Debt(h) = Debt(g)
        BY <2>4 DEF Debt
    <2>6. Heap(h, held, 0) /\ h.ok
        BY <2>2, <2>4, <2>5 DEF Heap
    <2>7. Grown(h, parse_value(h), held, 0)
        BY <2>6, ParseIs
    <2>8. run[m] = parse_value(h)
        BY <2>1, <2>3
    <2> HIDE DEF run
    <2> QED  BY <2>7, <2>8, GrownEnds
<1>3. Makes(run)
    BY <1>1
<1> HIDE DEF run
<1> QED  BY <1>2, <1>3, MakesIs

LEMMA FreeStep ==
    ASSUME IInv, FreeValue
    PROVE  IInv'
<1>1. PICK v \in held : Return(json_value_free(Call(0), v), held \ {v})
    BY DEF FreeValue
<1>2. PICK h : h = Call(0)
    OBVIOUS
<1>3. Heap(h, held, 0) /\ h.ok
    BY <1>2, CallIs
<1>4. Heap(json_value_free(h, v), held \ {v}, 0) /\ json_value_free(h, v).ok = h.ok
    BY <1>3, FreeRootIs
<1>5. EndsIn(json_value_free(h, v), held, held \ {v})
    BY <1>3, <1>4 DEF EndsIn
<1> QED  BY <1>1, <1>2, <1>5, ReturnIs

LEMMA RemoveSteps ==
    ASSUME IInv, RemoveMember \/ DotRemove \/ RemoveItem \/ Clear
    PROVE  IInv'
<1>1. PICK h : h = Call(0)
    OBVIOUS
<1>2. Heap(h, held, 0) /\ h.node = node
    BY <1>1, CallIs
<1>3. ASSUME NEW r, Heap(r, held, 0), Return(r, held) PROVE IInv'
    BY <1>3, SameEnds, ReturnIs
<1>4. CASE RemoveMember
    <2>1. PICK o \in Objects, name \in Names :
             Return(json_object_remove_internal(h, o, name, TRUE), held)
        BY <1>1, <1>4 DEF RemoveMember
    <2>2. o \in Values /\ h.node[o].type = "object"
        BY <1>2, Given
    <2>3. Heap(json_object_remove_internal(h, o, name, TRUE), held, 0)
        BY <1>2, <2>2, RemoveIs
    <2> QED  BY <1>3, <2>1, <2>3
<1>5. CASE DotRemove
    <2>1. PICK o \in Objects, name \in Names :
             Return(json_object_dotremove_internal(h, o, name, TRUE), held)
        BY <1>1, <1>5 DEF DotRemove
    <2>2. o \in Values /\ name \in Keys /\ Len(name) > 0
        BY Given
    <2>3. Heap(json_object_dotremove_internal(h, o, name, TRUE), held, 0)
        BY <1>2, <2>2, DotRemoveIs
    <2> QED  BY <1>3, <2>1, <2>3
<1>6. CASE RemoveItem
    <2>1. PICK a \in Arrays : \E i \in Index(a) : Return(json_array_remove(h, a, i), held)
        BY <1>1, <1>6 DEF RemoveItem
    <2>2. PICK i \in Nat \ {0} : Return(json_array_remove(h, a, i), held)
        BY <2>1, Given
    <2>3. a \in Values /\ h.node[a].type = "array"
        BY <1>2, Given
    <2>4. Heap(json_array_remove(h, a, i), held, 0)
        BY <1>2, <2>3, ArrayRemoveIs
    <2> QED  BY <1>3, <2>2, <2>4
<1>7. CASE Clear
    <2>1. PICK c \in Objects \cup Arrays : Return(RemoveAll(h, c), held)
        BY <1>1, <1>7 DEF Clear
    <2>2. c \in Values /\ h.node[c].type \in Containers
        BY <1>2, Given
    <2>3. Heap(RemoveAll(h, c), held, 0)
        BY <1>2, <2>2, RemoveAllIs
    <2> QED  BY <1>3, <2>1, <2>3
<1> QED  BY <1>4, <1>5, <1>6, <1>7

LEMMA StoreSteps ==
    ASSUME IInv, SetValue \/ DotSet \/ AppendValue \/ ReplaceValue
    PROVE  IInv'
<1>1. ASSUME NEW m \in Nat
      PROVE  /\ Heap(Call(m), held, 0) /\ Call(m).ok /\ Call(m).node = node
             /\ \A v \in Live : v \in Exist(Call(m).node)
             /\ \A c, v : NotBelow(c, v) => (v \in held => c \notin Tree(Call(m).node, v))
             /\ \A o \in Objects : o \in Values /\ Call(m).node[o].type = "object"
             /\ \A a \in Arrays : a \in Values /\ Call(m).node[a].type = "array"
    BY CallIs, Given DEF NotBelow
<1>2. CASE SetValue
    <2>1. PICK o \in Objects, name \in Names, v \in Live :
             /\ NotBelow(o, v)
             /\ Calls([m \in Memory |-> json_object_set_value(Call(m), o, name, v)], held \ {v})
        BY <1>2 DEF SetValue
    <2> DEFINE run == [m \in Memory |-> json_object_set_value(Call(m), o, name, v)]
    <2>2. ASSUME NEW m \in Memory PROVE EndsIn(run[m], held, held \ {v})
        <3>1. PICK h : h = Call(m)
            OBVIOUS
        <3>2. /\ Heap(h, held, 0) /\ h.ok /\ v \in Exist(h.node) /\ o \in Values
              /\ h.node[o].type = "object" /\ name \in Keys /\ (v \in held => o \notin Tree(h.node, v))
            BY <1>1, <2>1, <3>1, Given, MemoryIsNat
        <3>3. PICK r : r = json_object_set_value(h, o, name, v)
            OBVIOUS
        <3>4. Sets(h, r, held, 0, o, v)
            BY <3>2, <3>3, SetIs
        <3>5. run[m] = r
            BY <3>1, <3>3
        <3> HIDE DEF run
        <3> QED  BY <3>4, <3>5, SetsEnds
    <2>3. Calls(run, held \ {v})
        BY <2>1
    <2> HIDE DEF run
    <2> QED  BY <2>2, <2>3, CallsIs
<1>3. CASE DotSet
    <2>1. PICK o \in Objects, name \in Names, v \in Live :
             /\ NotBelow(o, v)
             /\ Calls([m \in Memory |-> json_object_dotset_value(Call(m), o, name, v)], held \ {v})
        BY <1>3 DEF DotSet
    <2> DEFINE run == [m \in Memory |-> json_object_dotset_value(Call(m), o, name, v)]
    <2>2. ASSUME NEW m \in Memory PROVE EndsIn(run[m], held, held \ {v})
        <3>1. PICK h : h = Call(m)
            OBVIOUS
        <3>2. /\ Heap(h, held, 0) /\ h.ok /\ v \in Exist(h.node) /\ o \in Values
              /\ h.node[o].type = "object" /\ name \in Keys /\ (v \in held => o \notin Tree(h.node, v))
              /\ Len(name) > 0
            BY <1>1, <2>1, <3>1, Given, MemoryIsNat
        <3>3. Sets(h, json_object_dotset_value(h, o, name, v), held, 0, o, v)
            BY <3>2, DotSetIs
        <3>4. run[m] = json_object_dotset_value(h, o, name, v)
            BY <3>1
        <3> HIDE DEF run
        <3> QED  BY <3>3, <3>4, SetsEnds
    <2>3. Calls(run, held \ {v})
        BY <2>1
    <2> HIDE DEF run
    <2> QED  BY <2>2, <2>3, CallsIs
<1>4. CASE AppendValue
    <2>1. PICK a \in Arrays, v \in Live :
             /\ NotBelow(a, v)
             /\ Calls([m \in Memory |-> json_array_append_value(Call(m), a, v)], held \ {v})
        BY <1>4 DEF AppendValue
    <2> DEFINE run == [m \in Memory |-> json_array_append_value(Call(m), a, v)]
    <2>2. ASSUME NEW m \in Memory PROVE EndsIn(run[m], held, held \ {v})
        <3>1. PICK h : h = Call(m)
            OBVIOUS
        <3>2. /\ Heap(h, held, 0) /\ h.ok /\ v \in Exist(h.node) /\ a \in Values
              /\ h.node[a].type = "array" /\ (v \in held => a \notin Tree(h.node, v))
            BY <1>1, <2>1, <3>1, MemoryIsNat
        <3>3. PICK r : r = json_array_append_value(h, a, v)
            OBVIOUS
        <3>4. Sets(h, r, held, 0, a, v)
            BY <3>2, <3>3, AppendValueIs
        <3>5. run[m] = r
            BY <3>1, <3>3
        <3> HIDE DEF run
        <3> QED  BY <3>4, <3>5, SetsEnds
    <2>3. Calls(run, held \ {v})
        BY <2>1
    <2> HIDE DEF run
    <2> QED  BY <2>2, <2>3, CallsIs
<1>5. CASE ReplaceValue
    <2>1. PICK h : h = Call(0)
        OBVIOUS
    <2>2. PICK a \in Arrays, v \in Live : \E i \in Index(a) :
             /\ NotBelow(a, v)
             /\ Return(json_array_replace_value(h, a, i, v), held \ {v})
        BY <1>5, <2>1 DEF ReplaceValue
    <2>3. PICK i \in Nat \ {0} :
             NotBelow(a, v) /\ Return(json_array_replace_value(h, a, i, v), held \ {v})
        BY <2>2, Given
    <2>4. /\ Heap(h, held, 0) /\ h.ok /\ v \in Exist(h.node) /\ a \in Values
          /\ h.node[a].type = "array" /\ (v \in held => a \notin Tree(h.node, v))
        BY <1>1, <2>1, <2>3
    <2>5. PICK r : r = json_array_replace_value(h, a, i, v)
        OBVIOUS
    <2>6. Sets(h, r, held, 0, a, v)
        BY <2>4, <2>5, ReplaceValueIs
    <2> QED  BY <2>3, <2>5, <2>6, SetsEnds, ReturnIs
<1> QED  BY <1>2, <1>3, <1>4, <1>5

\* A call with a value of its own, which it stores below c.
LEMMA NewStored ==
    ASSUME IInv, NEW m \in Nat, NEW s \in Scalars, NEW c \in Exist(node),
           NEW made, made = json_value_init(Call(m), Scalar(s)), NEW used,
           \A w : Fresh(made, c, w) => Sets(made, used, held \cup {w}, 0, c, w)
    PROVE  EndsIn(WithNew(made, used), held, held)
<1>1. /\ ~made.ok => Heap(made, held, 0)
      /\ made.ok  => \E w : Fresh(made, c, w)
    BY FreshIs
<1>2. ASSUME made.ok
      PROVE  made.value \notin held
             /\ Sets(made, used, held \cup {made.value}, 0, c, made.value)
    <2>1. PICK w : Fresh(made, c, w)
        BY <1>1, <1>2
    <2>2. w = made.value /\ w \notin held
        BY <2>1 DEF Fresh
    <2>3. Sets(made, used, held \cup {w}, 0, c, w)
        BY <2>1
    <2> QED  BY <2>2, <2>3
<1> QED  BY <1>1, <1>2, WithNewIs

\* What a fresh value is to the calls that store it.
LEMMA FreshGiven ==
    ASSUME NEW made, NEW c, NEW w, Fresh(made, c, w), NEW t, node[c].type = t
    PROVE  /\ Heap(made, held \cup {w}, 0) /\ made.ok /\ w \in Exist(made.node) /\ made.value = w
           /\ made.node[c].type = t /\ (w \in held \cup {w} => c \notin Tree(made.node, w))
BY DEF Fresh

LEMMA StoreNewSteps ==
    ASSUME IInv, SetNew \/ DotSetNew \/ AppendNew \/ ReplaceNew
    PROVE  IInv'
<1>1. CASE SetNew
    <2> DEFINE Made(m, s) == json_value_init(Call(m), Scalar(s))
               Used(x, o, name) == json_object_set_value(x, o, name, x.value)
    <2>1. PICK o \in Objects, name \in Names, s \in Scalars :
             Calls([m \in Memory |-> WithNew(Made(m, s), Used(Made(m, s), o, name))], held)
        BY <1>1 DEF SetNew
    <2> DEFINE run == [m \in Memory |-> WithNew(Made(m, s), Used(Made(m, s), o, name))]
    <2>2. ASSUME NEW m \in Memory PROVE EndsIn(run[m], held, held)
        <3>1. PICK made : made = Made(m, s)
            OBVIOUS
        <3>2. o \in Values /\ o \in Exist(node) /\ node[o].type = "object" /\ name \in Keys /\ m \in Nat
            BY Given, MemoryIsNat
        <3>3. PICK r : r = Used(made, o, name)
            OBVIOUS
        <3>4. ASSUME NEW w, Fresh(made, o, w) PROVE Sets(made, r, held \cup {w}, 0, o, w)
            <4>1. PICK Q : Q = held \cup {w}
                OBVIOUS
            <4>2. /\ Heap(made, Q, 0) /\ made.ok /\ w \in Exist(made.node) /\ made.value = w
                  /\ made.node[o].type = "object" /\ (w \in Q => o \notin Tree(made.node, w))
                BY <3>2, <3>4, <4>1, FreshGiven
            <4>3. r = json_object_set_value(made, o, name, w)
                BY <3>3, <4>2
            <4>4. Sets(made, r, Q, 0, o, w)
                BY <3>2, <4>2, <4>3, SetIs
            <4> QED  BY <4>1, <4>4
        <3>5. made = json_value_init(Call(m), Scalar(s))
            BY <3>1
        <3>6. run[m] = WithNew(made, r)
            BY <3>1, <3>3
        <3> HIDE DEF run, Made, Used
        <3>7. EndsIn(WithNew(made, r), held, held)
            BY <3>2, <3>4, <3>5, NewStored
        <3> QED  BY <3>6, <3>7
    <2>3. Calls(run, held)
        BY <2>1
    <2> HIDE DEF run
    <2> QED  BY <2>2, <2>3, CallsIs
<1>2. CASE DotSetNew
    <2> DEFINE Made(m, s) == json_value_init(Call(m), Scalar(s))
               Used(x, o, name) == json_object_dotset_value(x, o, name, x.value)
    <2>1. PICK o \in Objects, name \in Names, s \in Scalars :
             Calls([m \in Memory |-> WithNew(Made(m, s), Used(Made(m, s), o, name))], held)
        BY <1>2 DEF DotSetNew
    <2> DEFINE run == [m \in Memory |-> WithNew(Made(m, s), Used(Made(m, s), o, name))]
    <2>2. ASSUME NEW m \in Memory PROVE EndsIn(run[m], held, held)
        <3>1. PICK made : made = Made(m, s)
            OBVIOUS
        <3>2. o \in Values /\ o \in Exist(node) /\ node[o].type = "object" /\ name \in Keys /\ m \in Nat
              /\ Len(name) > 0
            BY Given, MemoryIsNat
        <3>3. PICK r : r = Used(made, o, name)
            OBVIOUS
        <3>4. ASSUME NEW w, Fresh(made, o, w) PROVE Sets(made, r, held \cup {w}, 0, o, w)
            <4>1. PICK Q : Q = held \cup {w}
                OBVIOUS
            <4>2. /\ Heap(made, Q, 0) /\ made.ok /\ w \in Exist(made.node) /\ made.value = w
                  /\ made.node[o].type = "object" /\ (w \in Q => o \notin Tree(made.node, w))
                BY <3>2, <3>4, <4>1, FreshGiven
            <4>3. Sets(made, json_object_dotset_value(made, o, name, w), Q, 0, o, w)
                BY <3>2, <4>2, DotSetIs
            <4>4. r = json_object_dotset_value(made, o, name, w)
                BY <3>3, <4>2
            <4> QED  BY <4>1, <4>3, <4>4
        <3>5. made = json_value_init(Call(m), Scalar(s))
            BY <3>1
        <3>6. run[m] = WithNew(made, r)
            BY <3>1, <3>3
        <3> HIDE DEF run, Made, Used
        <3>7. EndsIn(WithNew(made, r), held, held)
            BY <3>2, <3>4, <3>5, NewStored
        <3> QED  BY <3>6, <3>7
    <2>3. Calls(run, held)
        BY <2>1
    <2> HIDE DEF run
    <2> QED  BY <2>2, <2>3, CallsIs
<1>3. CASE AppendNew
    <2> DEFINE Made(m, s) == json_value_init(Call(m), Scalar(s))
               Used(x, a) == json_array_append_value(x, a, x.value)
    <2>1. PICK a \in Arrays, s \in Scalars :
             Calls([m \in Memory |-> WithNew(Made(m, s), Used(Made(m, s), a))], held)
        BY <1>3 DEF AppendNew
    <2> DEFINE run == [m \in Memory |-> WithNew(Made(m, s), Used(Made(m, s), a))]
    <2>2. ASSUME NEW m \in Memory PROVE EndsIn(run[m], held, held)
        <3>1. PICK made : made = Made(m, s)
            OBVIOUS
        <3>2. a \in Values /\ a \in Exist(node) /\ node[a].type = "array" /\ m \in Nat
            BY Given, MemoryIsNat
        <3>3. PICK r : r = Used(made, a)
            OBVIOUS
        <3>4. ASSUME NEW w, Fresh(made, a, w) PROVE Sets(made, r, held \cup {w}, 0, a, w)
            <4>1. PICK Q : Q = held \cup {w}
                OBVIOUS
            <4>2. /\ Heap(made, Q, 0) /\ w \in Exist(made.node) /\ made.value = w
                  /\ made.node[a].type = "array" /\ (w \in Q => a \notin Tree(made.node, w))
                BY <3>2, <3>4, <4>1, FreshGiven
            <4>3. r = json_array_append_value(made, a, w)
                BY <3>3, <4>2
            <4>4. Sets(made, r, Q, 0, a, w)
                BY <3>2, <4>2, <4>3, AppendValueIs
            <4> QED  BY <4>1, <4>4
        <3>5. made = json_value_init(Call(m), Scalar(s))
            BY <3>1
        <3>6. run[m] = WithNew(made, r)
            BY <3>1, <3>3
        <3> HIDE DEF run, Made, Used
        <3>7. EndsIn(WithNew(made, r), held, held)
            BY <3>2, <3>4, <3>5, NewStored
        <3> QED  BY <3>6, <3>7
    <2>3. Calls(run, held)
        BY <2>1
    <2> HIDE DEF run
    <2> QED  BY <2>2, <2>3, CallsIs
<1>4. CASE ReplaceNew
    <2> DEFINE Made(m, s) == json_value_init(Call(m), Scalar(s))
               Used(x, a, i) == json_array_replace_value(x, a, i, x.value)
    <2>1. PICK a \in Arrays, s \in Scalars : \E i \in Index(a) :
             Calls([m \in Memory |-> WithNew(Made(m, s), Used(Made(m, s), a, i))], held)
        BY <1>4 DEF ReplaceNew
    <2>2. PICK i \in Nat \ {0} :
             Calls([m \in Memory |-> WithNew(Made(m, s), Used(Made(m, s), a, i))], held)
        BY <2>1, Given
    <2> DEFINE run == [m \in Memory |-> WithNew(Made(m, s), Used(Made(m, s), a, i))]
    <2>3. ASSUME NEW m \in Memory PROVE EndsIn(run[m], held, held)
        <3>1. PICK made : made = Made(m, s)
            OBVIOUS
        <3>2. a \in Values /\ a \in Exist(node) /\ node[a].type = "array" /\ m \in Nat
            BY Given, MemoryIsNat
        <3>3. PICK r : r = Used(made, a, i)
            OBVIOUS
        <3>4. ASSUME NEW w, Fresh(made, a, w) PROVE Sets(made, r, held \cup {w}, 0, a, w)
            <4>1. PICK Q : Q = held \cup {w}
                OBVIOUS
            <4>2. /\ Heap(made, Q, 0) /\ made.ok /\ w \in Exist(made.node) /\ made.value = w
                  /\ made.node[a].type = "array" /\ (w \in Q => a \notin Tree(made.node, w))
                BY <3>2, <3>4, <4>1, FreshGiven
            <4>3. r = json_array_replace_value(made, a, i, w)
                BY <3>3, <4>2
            <4>4. Sets(made, r, Q, 0, a, w)
                BY <3>2, <4>2, <4>3, ReplaceValueIs
            <4> QED  BY <4>1, <4>4
        <3>5. made = json_value_init(Call(m), Scalar(s))
            BY <3>1
        <3>6. run[m] = WithNew(made, r)
            BY <3>1, <3>3
        <3> HIDE DEF run, Made, Used
        <3>7. EndsIn(WithNew(made, r), held, held)
            BY <3>2, <3>4, <3>5, NewStored
        <3> QED  BY <3>6, <3>7
    <2>4. Calls(run, held)
        BY <2>2
    <2> HIDE DEF run
    <2> QED  BY <2>3, <2>4, CallsIs
<1> QED  BY <1>1, <1>2, <1>3, <1>4

LEMMA IInvStep ==
    ASSUME IInv, [Next]_vars
    PROVE  IInv'
<1>1. CASE Create
    BY <1>1, CreateIs
<1>2. CASE SetValue \/ DotSet \/ AppendValue \/ ReplaceValue
    BY <1>2, StoreSteps
<1>3. CASE SetNew \/ DotSetNew \/ AppendNew \/ ReplaceNew
    BY <1>3, StoreNewSteps
<1>4. CASE RemoveMember \/ DotRemove \/ RemoveItem \/ Clear
    BY <1>4, RemoveSteps
<1>5. CASE Copy
    BY <1>5, CopyStep
<1>6. CASE Parse
    BY <1>6, ParseStep
<1>7. CASE FreeValue
    BY <1>7, FreeStep
<1>8. CASE UNCHANGED vars
    BY <1>8 DEF vars, IInv
<1> QED  BY <1>1, <1>2, <1>3, <1>4, <1>5, <1>6, <1>7, <1>8 DEF Next

LEMMA IInvInit ==
    ASSUME Init
    PROVE  IInv
<1>1. node = [v \in Values |-> Unused] /\ blocks = 0 /\ held = {} /\ ok = TRUE
    BY DEF Init
<1>2. /\ node \in [Values -> Nodes] /\ Exist(node) = {}
      /\ \A v \in Values : Fits(node[v]) /\ Children(node, v) = {} /\ OwnBlocks(node[v]) = 0
    BY <1>1 DEF Nodes, Unused, Exist, Fits, Containers, Children, OwnBlocks
<1>3. Forest({}, Kids(node), Par(node), {})
    BY <1>2 DEF Forest, Kids
<1>4. Weight(node) = 0
    <2>1. \A v \in Values : {v} \X (1 .. OwnBlocks(node[v])) = {}
        BY <1>2
    <2>2. BlocksOf(node, Values) = {}
        BY <2>1 DEF BlocksOf
    <2> QED  BY <2>2, FS_EmptySet DEF Weight
<1> QED  BY <1>1, <1>2, <1>3, <1>4 DEF IInv, Sound

\* Every call, ended by whichever allocation, leaves sound trees and counts its blocks.
THEOREM Inductive == Spec => []IInv
<1>1. Init => IInv
    BY IInvInit
<1>2. IInv /\ [Next]_vars => IInv'
    BY IInvStep
<1> QED  BY <1>1, <1>2, PTL DEF Spec

-----------------------------------------------------------------------------
(* What the runs check. *)

LEMMA TypeOKHolds ==
    ASSUME IInv
    PROVE  TypeOK
<1>1. /\ node \in [Values -> Nodes] /\ (\A v \in Values : Fits(node[v])) /\ held \subseteq Live
      /\ blocks = Weight(node) /\ ok \in BOOLEAN
    BY DEF IInv, Sound, Forest, Live
<1>2. blocks \in Nat
    BY <1>1, WeightIsNat
<1>3. ASSUME NEW v \in Live, node[v].type \in Containers
      PROVE  /\ Len(node[v].values) <= node[v].capacity
             /\ Len(node[v].names) = IF node[v].type = "object" THEN Len(node[v].values) ELSE 0
    <2>1. Fits(node[v])
        BY <1>1 DEF Live, Exist
    <2> QED  BY <1>3, <2>1 DEF Fits
<1> QED  BY <1>1, <1>2, <1>3 DEF TypeOK

\* The places of a value, as pairs.
LEMMA PlaceIs ==
    ASSUME IInv, NEW v, NEW p
    PROVE  p \in Places(v) <=>
              \E c \in Values : \E i \in DOMAIN node[c].values :
                 node[c].type \in Containers /\ p = <<c, i>> /\ node[c].values[i] = v
<1>1. Objects \cup Arrays = {c \in Values : node[c].type \in Containers}
    BY DEF Objects, Arrays, OfType, Live, Exist, Containers
<1>2. ASSUME p \in Places(v)
      PROVE  \E c \in Values : \E i \in DOMAIN node[c].values :
                 node[c].type \in Containers /\ p = <<c, i>> /\ node[c].values[i] = v
    <2>1. PICK c \in Objects \cup Arrays : p \in {c} \X DOMAIN node[c].values
        BY <1>2 DEF Places
    <2>2. PICK i \in DOMAIN node[c].values : p = <<c, i>>
        BY <2>1
    <2>3. node[p[1]].values[p[2]] = v
        BY <1>2 DEF Places
    <2> QED  BY <1>1, <2>1, <2>2, <2>3
<1>3. ASSUME NEW c \in Values, NEW i \in DOMAIN node[c].values, node[c].type \in Containers,
             p = <<c, i>>, node[c].values[i] = v
      PROVE  p \in Places(v)
    <2>1. p \in {c} \X DOMAIN node[c].values /\ c \in Objects \cup Arrays
        BY <1>1, <1>3
    <2>2. node[p[1]].values[p[2]] = v
        BY <1>3
    <2> QED  BY <2>1, <2>2 DEF Places
<1> QED  BY <1>2, <1>3

\* Where a value stands it is a child.
LEMMA PlaceOfChild ==
    ASSUME IInv, NEW c \in Values, node[c].type \in Containers
    PROVE  /\ \A i \in DOMAIN node[c].values : node[c].values[i] \in Kids(node)[c]
           /\ \A u \in Kids(node)[c] : \E i \in DOMAIN node[c].values : node[c].values[i] = u
           /\ \A i, j \in DOMAIN node[c].values : node[c].values[i] = node[c].values[j] => i = j
<1>1. node \in [Values -> Nodes] /\ Fits(node[c])
    BY DEF IInv, Sound
<1>2. Kids(node)[c] = ToSet(node[c].values)
    BY <1>1, ContainerIs
<1> QED  BY <1>1, <1>2 DEF ToSet, Fits, IsInjective

LEMMA OnePlace ==
    ASSUME IInv, NEW v \in Live
    PROVE  /\ v \in held    => Places(v) = {}
           /\ v \notin held => \E i : Places(v) = {<<node[v].parent, i>>}
<1>1. Forest(Live, Kids(node), Par(node), held) /\ node \in [Values -> Nodes]
    BY DEF IInv, Sound, Live
<1>2. ASSUME NEW c \in Values, NEW i \in DOMAIN node[c].values, node[c].type \in Containers,
             node[c].values[i] = v
      PROVE  v \in Kids(node)[c] /\ v \notin held /\ node[v].parent = c
    <2>1. v \in Kids(node)[c]
        BY <1>2, PlaceOfChild
    <2>2. v \notin held /\ Par(node)[v] = c
        BY <1>1, <2>1 DEF Forest
    <2> QED  BY <2>1, <2>2 DEF Par, Live, Exist
<1>3. v \in held => Places(v) = {}
    BY <1>2, PlaceIs
<1>4. ASSUME v \notin held PROVE \E i : Places(v) = {<<node[v].parent, i>>}
    <2>1. PICK c : c = node[v].parent
        OBVIOUS
    <2>2. Par(node)[v] = c
        BY <2>1 DEF Par, Live, Exist
    <2>3. c \in Live /\ v \in Kids(node)[c]
        BY <1>1, <1>4, <2>2, ForestParent
    <2>4. c \in Values /\ node[c].type \in Containers
        BY <2>3 DEF Live, Exist, Kids, Children
    <2>5. PICK i \in DOMAIN node[c].values : node[c].values[i] = v
        BY <2>3, <2>4, PlaceOfChild
    <2>6. <<c, i>> \in Places(v)
        BY <2>4, <2>5, PlaceIs
    <2>7. ASSUME NEW p \in Places(v) PROVE p = <<c, i>>
        <3>1. PICK b \in Values : \E j \in DOMAIN node[b].values :
                 node[b].type \in Containers /\ p = <<b, j>> /\ node[b].values[j] = v
            BY <2>7, PlaceIs
        <3>2. PICK j \in DOMAIN node[b].values :
                 node[b].type \in Containers /\ p = <<b, j>> /\ node[b].values[j] = v
            BY <3>1
        <3>3. b = c
            BY <1>2, <2>1, <3>2
        <3>4. j = i
            BY <2>4, <2>5, <3>2, <3>3, PlaceOfChild
        <3> QED  BY <3>2, <3>3, <3>4
    <2> QED  BY <2>1, <2>6, <2>7
<1> QED  BY <1>3, <1>4

LEMMA LiveIsOwned ==
    ASSUME IInv
    PROVE  Live = Owned
<1>1. Forest(Live, Kids(node), Par(node), held) /\ node \in [Values -> Nodes] /\ Sound(node, held)
    BY DEF IInv, Sound, Live
<1>2. \A v \in held : v \in Live /\ v \in Values
    BY <1>1 DEF Forest, Live, Exist
<1>3. \A v \in held : Tree(node, v) \subseteq Live /\ v \in Tree(node, v) /\ Closed(Kids(node), Tree(node, v))
    BY <1>1, <1>2, SoundTree DEF Live, IsTree
<1>4. Owned \subseteq Live
    BY <1>3 DEF Owned
<1>5. held \subseteq Owned /\ Closed(Kids(node), Owned)
    BY <1>3 DEF Owned, Closed
<1>6. Owned \in SUBSET Values
    BY <1>4 DEF Live, Exist
<1>7. Live \subseteq Owned
    BY <1>1, <1>5, <1>6 DEF Forest
<1> QED  BY <1>4, <1>7

LEMMA TreeInvHolds ==
    ASSUME IInv
    PROVE  TreeInv
<1>1. ASSUME NEW c \in Live PROVE Children(node, c) \subseteq Live
    BY DEF IInv, Sound, Forest, Kids, Live, Exist
<1>2. ASSUME NEW v \in Live PROVE Cardinality(Places(v)) = IF v \in held THEN 0 ELSE 1
    <2>1. CASE v \in held
        BY <2>1, OnePlace, FS_EmptySet
    <2>2. CASE v \notin held
        <3>1. PICK p : Places(v) = {p}
            BY <2>2, OnePlace
        <3> QED  BY <2>2, <3>1, FS_Singleton
    <2> QED  BY <2>1, <2>2
<1>3. ASSUME NEW v \in Live \ held, NEW p \in Places(v) PROVE node[v].parent = p[1]
    <2>1. PICK i : Places(v) = {<<node[v].parent, i>>}
        BY <1>3, OnePlace
    <2>2. p = <<node[v].parent, i>>
        BY <1>3, <2>1
    <2> QED  BY <2>2
<1>4. ASSUME NEW o \in Objects PROVE IsInjective(node[o].names)
    <2>1. o \in Values /\ node[o].type \in Containers /\ Fits(node[o])
        BY DEF Objects, OfType, Live, Exist, Containers, IInv, Sound
    <2> QED  BY <2>1 DEF Fits
<1> QED  BY <1>1, <1>2, <1>3, <1>4, LiveIsOwned DEF TreeInv

LEMMA NothingLostHolds ==
    ASSUME IInv
    PROVE  NothingLost
<1>1. node \in [Values -> Nodes] /\ blocks = Weight(node)
    BY DEF IInv, Sound
<1>2. Owned = Exist(node) /\ Exist(node) \subseteq Values
    BY LiveIsOwned DEF Live, Exist
<1>3. ASSUME NEW v \in Values \ Exist(node) PROVE {v} \X (1 .. OwnBlocks(node[v])) = {}
    <2>1. node[v].type = "free" /\ node[v] \in Nodes
        BY <1>1 DEF Exist
    <2>2. OwnBlocks(node[v]) = 0
        BY <2>1, OwnBlocksOf
    <2> QED  BY <2>2
<1>4. BlocksOf(node, Values) = BlocksOf(node, Exist(node))
    BY <1>2, <1>3 DEF BlocksOf
<1> QED  BY <1>1, <1>2, <1>4 DEF NothingLost, Weight

\* The arrays of a container always have room for its members, and an object has
\* a name for each.
THEOREM TypeCorrect == Spec => []TypeOK
BY Inductive, TypeOKHolds, PTL

\* Whatever is called with whichever value, and whichever allocation fails: each
\* value stands in one place of the trees or is owned, and all can be reached.
THEOREM Trees == Spec => []TreeInv
BY Inductive, TreeInvHolds, PTL

\* No call loses a block, however it ends.
THEOREM NoLeak == Spec => []NothingLost
BY Inductive, NothingLostHolds, PTL

\* json_object_dotremove works where json_object_dotget_value finds something.
LEMMA DotRemoveOk ==
    ASSUME NEW h, NEW R, NEW d, Heap(h, R, d), h.ok, NEW o \in Values, NEW name,
           NEW l \in Nat \ {0}, Long(name, l)
    PROVE  json_object_dotremove_internal(h, o, name, TRUE).ok
              <=> json_object_dotget_value(h.node, o, name) # NULL
<1> DEFINE p   == Holder(h.node, o, name)
           key == <<Last(name)>>
           i   == IndexOf(h.node[p], key)
           u   == h.node[p].values[i]
           r   == json_object_dotremove_internal(h, o, name, TRUE)
<1>1. h \in Heaps /\ Sound(h.node, R) /\ h.node \in [Values -> Nodes]
    BY DEF Heap, Sound
<1>2. p \in Values \cup {NULL}
    <2>1. \E at \in [1 .. l -> Values \cup {NULL}] : p = at[l]
        BY <1>1, HolderIs
    <2> QED  BY <2>1
<1>3. CASE p = NULL \/ h.node[p].type # "object"
    <2>1. ~r.ok
        BY <1>1, <1>3, FailedIs DEF json_object_dotremove_internal
    <2>2. json_object_dotget_value(h.node, o, name) = NULL
        BY <1>3 DEF json_object_dotget_value, json_object_get_value
    <2> QED  BY <2>1, <2>2
<1>4. CASE p # NULL /\ h.node[p].type = "object"
    <2>1. /\ r = json_object_remove_internal(h, p, key, TRUE)
          /\ json_object_dotget_value(h.node, o, name) = IF i > 0 THEN u ELSE NULL
        BY <1>4 DEF json_object_dotremove_internal, json_object_dotget_value, json_object_get_value
    <2>2. p \in Values /\ h.node[p].type \in Containers /\ h.node[p].type = "object"
        BY <1>2, <1>4 DEF Containers
    <2> HIDE DEF p, key, r
    <2>3. i \in 0 .. Len(h.node[p].values) /\ Fits(h.node[p])
        <3>1. Fits(h.node[p])
            BY <1>1, <2>2 DEF Sound
        <3>2. Len(h.node[p].names) = Len(h.node[p].values)
            BY <2>2, <3>1 DEF Fits
        <3>3. i \in 0 .. Len(h.node[p].names)
            BY <1>1, <2>2, IndexOfIs
        <3> QED  BY <3>1, <3>2, <3>3
    <2> DEFINE g == json_value_free(h, u)
    <2>4. r = IF i = 0 THEN Failed(h) ELSE CutOut(g, p, i)
        <3>1. json_object_remove_internal(h, p, key, TRUE)
                 = IF i = 0 THEN Failed(h) ELSE CutOut(g, p, i)
            BY DEF json_object_remove_internal, CutOut
        <3> QED  BY <2>1, <3>1
    <2> HIDE DEF i
    <2>5. CASE i = 0
        <3>1. ~r.ok
            BY <1>1, <2>4, <2>5, FailedIs
        <3>2. ~(i > 0)
            BY <2>5
        <3>3. json_object_dotget_value(h.node, o, name) = NULL
            BY <2>1, <3>2
        <3> QED  BY Zenon, <3>1, <3>3 DEF r
    <2>6. CASE i # 0
        <3>1. i \in 1 .. Len(h.node[p].values) /\ i > 0
            BY <2>3, <2>6
        <3>2. u \in Values
            <4>1. h.node[p].values[i] \in Values
                BY <1>1, <2>2, <3>1, MemberIs
            <4> QED  BY <4>1
        <3>3. g \in Heaps /\ g.ok = h.ok /\ g.node[p] = h.node[p]
            BY <2>2, <3>1, FreeMemberIs
        <3> HIDE DEF g, u
        <3>4. CutOut(g, p, i).ok = g.ok
            BY <2>2, <2>3, <3>1, <3>3, CutIs
        <3>5. r.ok
            BY <2>4, <2>6, <3>3, <3>4
        <3>6. u # NULL
            BY <3>2, ValuesAssumption
        <3>7. json_object_dotget_value(h.node, o, name) # NULL
            BY <2>1, <3>1, <3>6
        <3> QED  BY Zenon, <3>5, <3>7 DEF r
    <2> QED  BY <2>5, <2>6
<1> QED  BY <1>3, <1>4

LEMMA DotNamesAgreeHolds ==
    ASSUME IInv
    PROVE  DotNamesAgree
<1> SUFFICES ASSUME NEW o \in Objects, NEW name \in Names
             PROVE  /\ json_object_dotremove_internal(Call(0), o, name, TRUE).ok
                          <=> json_object_dotget_value(node, o, name) # NULL
                    /\ \A v \in held : NotBelow(o, v) =>
                          \A h \in {json_object_dotset_value(Call(Plenty), o, name, v)} :
                              h.ok => json_object_dotget_value(h.node, o, name) = v
    BY DEF DotNamesAgree
<1>1. PICK l \in Nat \ {0} : Long(name, l)
    <2>1. name \in Keys /\ Len(name) > 0
        BY Given
    <2>2. PICK l \in Nat \ {0} : l = Len(name)
        BY <2>1 DEF Keys
    <2> QED  BY <2>1, <2>2 DEF Long
<1>2. name \in Keys /\ o \in Values /\ node[o].type = "object"
    BY Given
<1>3. /\ json_object_dotremove_internal(Call(0), o, name, TRUE).ok
      <=> json_object_dotget_value(node, o, name) # NULL
    <2>1. PICK h : h = Call(0)
        OBVIOUS
    <2>2. Heap(h, held, 0) /\ h.ok /\ h.node = node
        BY <2>1, CallIs
    <2> QED  BY <1>1, <1>2, <2>1, <2>2, DotRemoveOk
<1>4. ASSUME NEW v \in held, NotBelow(o, v),
             NEW h, h = json_object_dotset_value(Call(Plenty), o, name, v), h.ok
      PROVE  json_object_dotget_value(h.node, o, name) = v
    <2>1. PICK g : g = Call(Plenty)
        OBVIOUS
    <2>2. Heap(g, held, 0) /\ g.ok /\ g.node = node
        BY <2>1, CallIs, BoundsAssumption
    <2>3. v \in Exist(g.node) /\ o \notin Tree(g.node, v)
        BY <1>4, <2>2 DEF NotBelow, IInv, Sound, Forest
    <2>4. Stored(g, h, held, 0, o, v, name, 1, l)
        <3>1. h = json_object_dotset_value(g, o, name, v)
            BY <1>4, <2>1
        <3>2. g.node[o].type = "object"
            BY <1>2, <2>2
        <3> QED  BY <1>1, <1>2, <2>2, <2>3, <3>1, <3>2, DotSetStored
    <2>5. Leads(h.node, o, name, 1, l, v) /\ Sound(h.node, held \ {v})
        BY <1>4, <2>4 DEF Stored, Sets, Heap
    <2> QED  BY <1>1, <1>2, <2>5, LedTo
<1> QED  BY <1>3, <1>4

\* What dotset stored under a name is what dotget finds there, and dotremove works
\* exactly where dotget finds something: all three walk the same way.
THEOREM DottedNames == Spec => []DotNamesAgree
BY Inductive, DotNamesAgreeHolds, PTL
=============================================================================
