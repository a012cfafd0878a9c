----------------------------- MODULE JsonDoc_proofs -----------------------------
(***************************************************************************)
(* ParsonTree implements JsonDoc: the documents that the program sees in   *)
(* the trees of parson are kept as JsonDoc says.                           *)
(*                                                                         *)
(* Tells: a document says what the values of a heap hold.  Ended: a call   *)
(* has succeeded and left a sound heap, whose values are what its roots    *)
(* reach.  Spares: a call left the values alone that it found.  Puts,      *)
(* Walked, Itemed: what the calls that change a container did to it.       *)
(***************************************************************************)
EXTENDS ParsonTree_proofs

\* The members of an object by their names.
Members(n) == [name \in ToSet(n.names) |-> n.values[CHOOSE i \in DOMAIN n.names : n.names[i] = name]]

LEMMA MembersIs ==
    ASSUME NEW n \in ContainerNodes, n.type = "object", Fits(n)
    PROVE  /\ DOMAIN Members(n) = ToSet(n.names)
           /\ \A i \in 1 .. Len(n.names) : /\ n.names[i] \in DOMAIN Members(n)
                                           /\ Members(n)[n.names[i]] = n.values[i]
           /\ \A name \in DOMAIN Members(n) : \E i \in 1 .. Len(n.names) : n.names[i] = name
<1>1. n.names \in Seq(Keys) /\ DOMAIN n.names = 1 .. Len(n.names)
    BY DEF ContainerNodes
<1>2. ToSet(n.names) = {n.names[i] : i \in 1 .. Len(n.names)}
    BY <1>1 DEF ToSet
<1>3. \A i, j \in 1 .. Len(n.names) : n.names[i] = n.names[j] => i = j
    BY <1>1, SMT DEF Fits, IsInjective, Containers
<1>4. ASSUME NEW i \in 1 .. Len(n.names)
      PROVE  Members(n)[n.names[i]] = n.values[i]
    <2> DEFINE p == CHOOSE j \in DOMAIN n.names : n.names[j] = n.names[i]
    <2>1. p \in 1 .. Len(n.names) /\ n.names[p] = n.names[i]
        BY <1>1
    <2>2. p = i
        BY <1>3, <2>1
    <2> QED  BY <1>2, <2>2 DEF Members
<1> QED  BY <1>2, <1>4 DEF Members

LEMMA MembersSame ==
    ASSUME NEW m, NEW n, n.names = m.names, n.values = m.values
    PROVE  Members(n) = Members(m)
<1> DEFINE F(s, t) == [name \in ToSet(s) |-> t[CHOOSE i \in DOMAIN s : s[i] = name]]
<1>1. Members(n) = F(n.names, n.values) /\ Members(m) = F(m.names, m.values)
    BY Zenon DEF Members
<1> HIDE DEF F
<1> QED  BY <1>1

LEMMA HoldsIs ==
    ASSUME NEW n \in Nodes, n.type # "free"
    PROVE  /\ n.type = "object" => Holds(n) = [object |-> Members(n)]
           /\ n.type = "array"  => Holds(n) = [array |-> n.values]
           /\ n.type \notin Containers => Holds(n) = n.data /\ n.data \in Data
           /\ "object" \in DOMAIN Holds(n) <=> n.type = "object"
           /\ "array"  \in DOMAIN Holds(n) <=> n.type = "array"
<1>1. CASE n.type = "object"
    <2>1. Holds(n) = [object |-> Members(n)]
        BY <1>1 DEF Holds, Members
    <2>2. "object" \in DOMAIN Holds(n) /\ "array" \notin DOMAIN Holds(n)
        BY <2>1
    <2> QED  BY <1>1, <2>1, <2>2 DEF Containers
<1>2. CASE n.type = "array"
    <2>1. Holds(n) = [array |-> n.values]
        BY <1>2 DEF Holds
    <2>2. "object" \notin DOMAIN Holds(n) /\ "array" \in DOMAIN Holds(n)
        BY <2>1
    <2> QED  BY <1>2, <2>1, <2>2 DEF Containers
<1>3. CASE n.type \notin Containers
    <2>1. n \in ScalarNodes
        BY <1>3, NodeTypes DEF Containers, ScalarTypes
    <2>2. n.data \in Data
        BY <2>1 DEF ScalarNodes
    <2>3. Holds(n) = n.data
        BY <1>3 DEF Holds, Containers
    <2>4. \E t \in ScalarTypes : DOMAIN n.data = {t}
        <3>1. CASE n.data \in Scalars
            BY <3>1, ScalarsAssumption
        <3>2. CASE n.data \in [string : Keys]
            BY <3>2 DEF ScalarTypes
        <3>3. CASE n.data \in [number : Int]
            BY <3>3 DEF ScalarTypes
        <3> QED  BY <2>2, <3>1, <3>2, <3>3 DEF Data
    <2>5. "object" \notin DOMAIN n.data /\ "array" \notin DOMAIN n.data
        BY <2>4 DEF ScalarTypes
    <2> QED  BY <1>3, <2>2, <2>3, <2>5 DEF Containers
<1> QED  BY <1>1, <1>2, <1>3 DEF Containers

LEMMA AlikeHolds ==
    ASSUME NEW m \in Nodes, m.type # "free", NEW n, Alike(m, n)
    PROVE  Holds(n) = Holds(m) /\ n.type # "free"
<1>1. m.type \in Containers \/ m.type \in ScalarTypes
    BY NodeTypes
<1>2. n.type = m.type
    BY DEF Alike, SameData
<1>3. CASE m.type \in Containers
    <2>1. n.names = m.names /\ n.values = m.values
        BY <1>3 DEF Alike, SameData
    <2> QED  BY <1>2, <1>3, <2>1 DEF Holds, Containers
<1>4. CASE m.type \in ScalarTypes
    <2>1. n.data = m.data
        BY <1>4 DEF Alike
    <2> QED  BY <1>2, <1>4, <2>1 DEF Holds, ScalarTypes
<1> QED  BY <1>1, <1>3, <1>4

\* c is what the values of nd hold.
Tells(nd, c) == \A u \in Exist(nd) : u \in DOMAIN c /\ c[u] = Holds(nd[u])

LEMMA TellsChildren ==
    ASSUME NEW nd \in [Values -> Nodes], NEW u \in Values, nd[u].type # "free", Fits(nd[u]),
           NEW c, c[u] = Holds(nd[u])
    PROVE  /\ Doc!Children(c, u) = Children(nd, u)
           /\ Doc!IsObject(c, u) <=> nd[u].type = "object"
           /\ Doc!IsArray(c, u) <=> nd[u].type = "array"
<1> DEFINE n == nd[u]
<1>1. n \in Nodes
    OBVIOUS
<1>2. (Doc!IsObject(c, u) <=> n.type = "object") /\ (Doc!IsArray(c, u) <=> n.type = "array")
    BY <1>1, HoldsIs DEF Doc!IsObject, Doc!IsArray
<1>3. CASE n.type = "object"
    <2>1. n \in ContainerNodes
        BY <1>1, <1>3, NodeTypes DEF Containers
    <2>2. c[u].object = Members(n)
        BY <1>1, <1>3, HoldsIs
    <2>3. Doc!Children(c, u) = {Members(n)[name] : name \in DOMAIN Members(n)}
        BY <1>2, <1>3, <2>2 DEF Doc!Children
    <2>4. Len(n.names) = Len(n.values) /\ n.values \in Seq(Values)
        BY <1>3, <2>1 DEF Fits, Containers, ContainerNodes
    <2>5. Children(nd, u) = {n.values[i] : i \in 1 .. Len(n.names)}
        BY <1>3, <2>4 DEF Children, Containers, ToSet
    <2> HIDE DEF n
    <2>6. {Members(n)[name] : name \in DOMAIN Members(n)} = {n.values[i] : i \in 1 .. Len(n.names)}
        BY <1>3, <2>1, MembersIs DEF n
    <2> QED  BY <1>2, <2>3, <2>5, <2>6 DEF n
<1>4. CASE n.type = "array"
    <2>1. c[u].array = n.values
        BY <1>1, <1>4, HoldsIs
    <2>2. Doc!Children(c, u) = Doc!ToSet(n.values)
        BY <1>2, <1>4, <2>1 DEF Doc!Children
    <2> QED  BY <1>2, <1>4, <2>2 DEF Children, Containers, ToSet, Doc!ToSet
<1>5. CASE n.type \notin Containers
    <2>1. Children(nd, u) = {}
        BY <1>5 DEF Children
    <2>2. Doc!Children(c, u) = {}
        BY <1>2, <1>5 DEF Doc!Children, Containers
    <2> QED  BY <1>2, <2>1, <2>2
<1> QED  BY <1>3, <1>4, <1>5 DEF Containers

-----------------------------------------------------------------------------
LEMMA SoundNodes ==
    ASSUME NEW nd, NEW R, Sound(nd, R)
    PROVE  /\ nd \in [Values -> Nodes] /\ R \subseteq Exist(nd) /\ Exist(nd) \in SUBSET Values
           /\ \A u \in Values : Fits(nd[u]) /\ nd[u] \in Nodes
           /\ \A u \in Values : Children(nd, u) \subseteq Exist(nd)
           /\ \A u \in Exist(nd) : u \in Values /\ nd[u].type # "free"
           /\ \A S \in SUBSET Exist(nd) :
                 R \subseteq S /\ (\A u \in S : Children(nd, u) \subseteq S) => S = Exist(nd)
<1>1. nd \in [Values -> Nodes] /\ (\A u \in Values : Fits(nd[u]))
      /\ Forest(Exist(nd), Kids(nd), Par(nd), R)
    BY DEF Sound
<1>2. R \subseteq Exist(nd) /\ Exist(nd) \in SUBSET Values
    BY <1>1 DEF Forest
<1>3. \A u \in Values : Children(nd, u) \subseteq Exist(nd)
    BY <1>1 DEF Forest, Kids
<1>4. ASSUME NEW S \in SUBSET Exist(nd), R \subseteq S, \A u \in S : Children(nd, u) \subseteq S
      PROVE  S = Exist(nd)
    <2>1. S \in SUBSET Values /\ \A u \in S : Kids(nd)[u] \subseteq S
        BY <1>2, <1>4 DEF Kids
    <2>2. Exist(nd) \subseteq S
        BY <1>1, <1>4, <2>1 DEF Forest, Closed
    <2> QED  BY <2>2
<1> QED  BY <1>1, <1>2, <1>3, <1>4 DEF Exist

\* What is there is what the roots reach.
LEMMA ReachIs ==
    ASSUME NEW nd, NEW R, Sound(nd, R), NEW c, Tells(nd, c)
    PROVE  Doc!Reach(c, R, Exist(nd))
<1>1. \A u \in Exist(nd) : Doc!Children(c, u) = Children(nd, u)
    BY SoundNodes, TellsChildren DEF Tells
<1>2. R \subseteq Exist(nd) /\ Doc!Closed(c, Exist(nd))
    BY <1>1, SoundNodes DEF Doc!Closed
<1>3. ASSUME NEW S \in SUBSET Exist(nd), R \subseteq S, Doc!Closed(c, S)
      PROVE  S = Exist(nd)
    <2>1. \A u \in S : Children(nd, u) \subseteq S
        BY <1>1, <1>3 DEF Doc!Closed
    <2> QED  BY <1>3, <2>1, SoundNodes
<1> QED  BY <1>2, <1>3 DEF Doc!Reach

\* What is below v is its tree.
LEMMA ReachTree ==
    ASSUME NEW nd, NEW R, Sound(nd, R), NEW c, Tells(nd, c), NEW v \in Exist(nd)
    PROVE  Doc!Reach(c, {v}, Tree(nd, v)) /\ Tree(nd, v) \subseteq DOMAIN c
<1>1. IsTree(Kids(nd), v, Tree(nd, v)) /\ Tree(nd, v) \subseteq Exist(nd)
    BY SoundTree
<1>2. \A u \in Exist(nd) : Doc!Children(c, u) = Kids(nd)[u] /\ u \in Values
    BY SoundNodes, TellsChildren DEF Tells, Kids
<1>3. v \in Tree(nd, v) /\ Doc!Closed(c, Tree(nd, v))
    BY <1>1, <1>2 DEF IsTree, Closed, Doc!Closed
<1>4. ASSUME NEW S \in SUBSET Tree(nd, v), {v} \subseteq S, Doc!Closed(c, S)
      PROVE  S = Tree(nd, v)
    <2>1. S \in SUBSET Values /\ v \in S /\ Closed(Kids(nd), S)
        BY <1>1, <1>2, <1>4 DEF Closed, Doc!Closed
    <2> QED  BY <1>1, <1>4, <2>1 DEF IsTree
<1>5. Tree(nd, v) \subseteq DOMAIN c
    BY <1>1 DEF Tells
<1> QED  BY <1>3, <1>4, <1>5 DEF Doc!Reach

\* What both heaps have holds the same in both.
Spares(nd, md) == \A u \in Exist(nd) \cap Exist(md) : Holds(md[u]) = Holds(nd[u])

\* With the same roots they then have the same values: a call that fails need not be
\* shown to free what it made.
LEMMA SparedIs ==
    ASSUME NEW nd, NEW R, Sound(nd, R), NEW md, Sound(md, R), Spares(nd, md)
    PROVE  Exist(md) = Exist(nd)
<1> DEFINE S == Exist(nd) \cap Exist(md)
           c == [u \in Values |-> Holds(nd[u])]
<1>1. R \subseteq S
    BY SoundNodes
<1>2. ASSUME NEW u \in S PROVE Children(nd, u) = Children(md, u)
    <2>1. u \in Values /\ nd[u].type # "free" /\ md[u].type # "free"
        BY SoundNodes
    <2>2. c[u] = Holds(nd[u]) /\ c[u] = Holds(md[u])
        BY <2>1 DEF Spares
    <2> HIDE DEF c
    <2>3. Doc!Children(c, u) = Children(nd, u)
        BY <2>1, <2>2, SoundNodes, TellsChildren
    <2>4. Doc!Children(c, u) = Children(md, u)
        BY <2>1, <2>2, SoundNodes, TellsChildren
    <2> QED  BY <2>3, <2>4
<1>3. \A u \in S : Children(nd, u) \subseteq S /\ Children(md, u) \subseteq S
    BY <1>2, SoundNodes
<1>4. S \in SUBSET Exist(nd) /\ S \in SUBSET Exist(md)
    OBVIOUS
<1> HIDE DEF S
<1>5. S = Exist(nd)
    BY <1>1, <1>3, <1>4, SoundNodes
<1>6. S = Exist(md)
    BY <1>1, <1>3, <1>4, SoundNodes
<1> QED  BY <1>5, <1>6

LEMMA ForgetHolds ==
    ASSUME NEW nd \in [Values -> Nodes], NEW u \in Values, nd[u].type # "free"
    PROVE  Holds(Forget(nd)[u]) = Holds(nd[u])
<1>1. Forget(nd)[u] = Under(nd[u], Stale) \/ Forget(nd)[u] = nd[u]
    BY DEF Forget, Under
<1>2. Holds(Under(nd[u], Stale)) = Holds(nd[u])
    BY UnderAlike, AlikeHolds
<1> QED  BY <1>1, <1>2

Contents(nd) == [u \in Exist(nd) |-> Holds(nd[u])]

LEMMA ForgetContents ==
    ASSUME NEW nd, NEW R, Sound(nd, R)
    PROVE  Contents(Forget(nd)) = Contents(nd)
<1>1. Exist(Forget(nd)) = Exist(nd)
    BY ForgetIs
<1>2. \A u \in Exist(nd) : Holds(Forget(nd)[u]) = Holds(nd[u])
    BY SoundNodes, ForgetHolds
<1> QED  BY <1>1, <1>2 DEF Contents

\* The documents are the heap's.
LEMMA ContentIs == content = Contents(node) /\ Tells(node, content) /\ DOMAIN content = Live
BY DEF content, Contents, Tells, Live

\* A call that succeeded has ended, and the program owns S.
Ended(r, S) == Sound(r.node, S) /\ ok' = TRUE /\ held' = S /\ node' = Forget(r.node)

LEMMA EndedIs ==
    ASSUME NEW r, NEW S, Ended(r, S)
    PROVE  /\ content' = Contents(r.node) /\ DOMAIN content' = Exist(r.node)
           /\ \A c : Tells(r.node, c) => Doc!Becomes(c, S)
<1>1. content' = Contents(node')
    BY DEF content, Contents, Live
<1>2. content' = Contents(r.node)
    BY <1>1, ForgetContents DEF Ended
<1>3. DOMAIN content' = Exist(r.node)
    BY <1>2 DEF Contents
<1>4. ASSUME NEW c, Tells(r.node, c) PROVE Doc!Becomes(c, S)
    <2>1. Doc!Reach(c, S, DOMAIN content')
        BY <1>3, <1>4, ReachIs DEF Ended
    <2>2. \A v \in DOMAIN content' : v \in DOMAIN c /\ content'[v] = c[v]
        BY <1>2, <1>3, <1>4 DEF Tells, Contents
    <2> QED  BY <2>1, <2>2 DEF Doc!Becomes, Ended
<1> QED  BY <1>2, <1>3, <1>4

\* A call that failed has changed nothing.
LEMMA FailedEnds ==
    ASSUME IInv, NEW r, Sound(r.node, held), Spares(node, r.node),
           ok' = FALSE, held' = held, node' = Forget(r.node)
    PROVE  Doc!Fails
<1>1. Exist(r.node) = Exist(node)
    BY SparedIs DEF IInv
<1>2. Contents(r.node) = Contents(node)
    BY <1>1 DEF Contents, Spares
<1>3. content' = Contents(node')
    BY DEF content, Contents, Live
<1>4. content' = content
    BY <1>2, <1>3, ForgetContents, ContentIs
<1> QED  BY <1>4 DEF Doc!Fails

LEMMA CallsEnd ==
    ASSUME IInv, NEW run, NEW S, Calls(run, S),
           \A m \in Memory : EndsIn(run[m], held, S),
           \A m \in Memory : ~run[m].ok => Spares(node, run[m].node)
    PROVE  Doc!Fails \/ \E m \in Memory : run[m].ok /\ Ended(run[m], S)
<1>1. PICK h \in Outcomes(run) : Return(h, S)
    BY DEF Calls
<1>2. \A m \in Memory : run[m] \in Heaps
    BY DEF EndsIn, Heap
<1>3. PICK m \in Memory : /\ h.ok = run[m].ok /\ h.value = run[m].value /\ h.node = run[m].node
                          /\ \A R, d : Heap(run[m], R, d) => Heap(h, R, d)
    BY <1>2, OutcomeIs
<1>4. node' = Forget(run[m].node) /\ ok' = run[m].ok
      /\ held' = IF run[m].ok THEN S ELSE held
    BY <1>1, <1>3 DEF Return
<1>5. run[m].ok \in BOOLEAN
    BY <1>2, HeapFields
<1>6. CASE run[m].ok
    <2>1. Sound(run[m].node, S)
        BY <1>6 DEF EndsIn, Heap
    <2> QED  BY <1>4, <1>5, <1>6, <2>1 DEF Ended
<1>7. CASE ~run[m].ok
    <2>1. Sound(run[m].node, held) /\ Spares(node, run[m].node)
        BY <1>7 DEF EndsIn, Heap
    <2> QED  BY <1>4, <1>5, <1>7, <2>1, FailedEnds
<1> QED  BY <1>6, <1>7

LEMMA MakesEnd ==
    ASSUME IInv, NEW run, Makes(run),
           \A m \in Memory : EndsIn(run[m], held, held \cup {run[m].value}),
           \A m \in Memory : ~run[m].ok => Spares(node, run[m].node)
    PROVE  Doc!Fails \/ \E m \in Memory : run[m].ok /\ Ended(run[m], held \cup {run[m].value})
<1>1. PICK h \in Outcomes(run) : Return(h, held \cup {h.value})
    BY DEF Makes
<1>2. \A m \in Memory : run[m] \in Heaps
    BY DEF EndsIn, Heap
<1>3. PICK m \in Memory : /\ h.ok = run[m].ok /\ h.value = run[m].value /\ h.node = run[m].node
                          /\ \A R, d : Heap(run[m], R, d) => Heap(h, R, d)
    BY <1>2, OutcomeIs
<1>4. node' = Forget(run[m].node) /\ ok' = run[m].ok
      /\ held' = IF run[m].ok THEN held \cup {run[m].value} ELSE held
    BY <1>1, <1>3 DEF Return
<1>5. run[m].ok \in BOOLEAN
    BY <1>2, HeapFields
<1>6. CASE run[m].ok
    <2>1. Sound(run[m].node, held \cup {run[m].value})
        BY <1>6 DEF EndsIn, Heap
    <2> QED  BY <1>4, <1>5, <1>6, <2>1 DEF Ended
<1>7. CASE ~run[m].ok
    <2>1. Sound(run[m].node, held) /\ Spares(node, run[m].node)
        BY <1>7 DEF EndsIn, Heap
    <2> QED  BY <1>4, <1>5, <1>7, <2>1, FailedEnds
<1> QED  BY <1>6, <1>7

-----------------------------------------------------------------------------
LEMMA OthersTell ==
    ASSUME NEW nd \in [Values -> Nodes], NEW md, NEW o \in Values, Others(nd, md, o),
           NEW c, Tells(nd, c)
    PROVE  \A u \in Exist(md) \ {o} : u \in Exist(nd) /\ u \in DOMAIN c /\ c[u] = Holds(md[u])
<1>1. SUFFICES ASSUME NEW u \in Exist(md) \ {o}
               PROVE  u \in Exist(nd) /\ u \in DOMAIN c /\ c[u] = Holds(md[u])
    OBVIOUS
<1>2. u \in Values \ {o} /\ md[u].type # "free"
    BY DEF Exist
<1>3. Alike(nd[u], md[u])
    BY <1>2 DEF Others, Unused
<1>4. nd[u].type # "free" /\ nd[u] \in Nodes
    BY <1>2, <1>3 DEF Alike, SameData
<1>5. Holds(md[u]) = Holds(nd[u])
    BY <1>3, <1>4, AlikeHolds
<1>6. u \in Exist(nd)
    BY <1>2, <1>4 DEF Exist
<1> QED  BY <1>5, <1>6 DEF Tells

\* In d the value o holds x, all others what they hold in c.
Recast(c, d, o, x) == /\ DOMAIN d = DOMAIN c /\ o \in DOMAIN c /\ d[o] = x
                      /\ \A u \in DOMAIN c \ {o} : d[u] = c[u]

\* One value holds something else.
LEMMA OneTells ==
    ASSUME NEW nd \in [Values -> Nodes], NEW md, NEW o \in Values, Others(nd, md, o),
           NEW c, Tells(nd, c), NEW d, NEW x, Recast(c, d, o, x), x = Holds(md[o])
    PROVE  Tells(md, d)
BY OthersTell DEF Tells, Recast

LEMMA MembersFunction ==
    ASSUME NEW n
    PROVE  Members(n) = [x \in DOMAIN Members(n) |-> Members(n)[x]]
<1> DEFINE e(x) == n.values[CHOOSE i \in DOMAIN n.names : n.names[i] = x]
<1>1. Members(n) = [x \in ToSet(n.names) |-> e(x)]
    BY DEF Members
<1> HIDE DEF e
<1> QED  BY <1>1

LEMMA MembersAdded ==
    ASSUME NEW m \in ContainerNodes, m.type = "object", Fits(m),
           NEW n \in ContainerNodes, n.type = "object", Fits(n),
           NEW name \in Keys, NEW v \in Values,
           n.names = Append(m.names, name), n.values = Append(m.values, v)
    PROVE  Members(n) = Doc!Added(Members(m), name, v)
<1>1. PICK k \in Nat : k = Len(m.names)
    BY DEF ContainerNodes
<1>2. k = Len(m.values) /\ m.names \in Seq(Keys) /\ m.values \in Seq(Values)
    BY <1>1 DEF ContainerNodes, Fits, Containers
<1>3. /\ Len(n.names) = k + 1 /\ n.names[k + 1] = name
      /\ \A i \in 1 .. k : n.names[i] = m.names[i]
    <2>1. /\ Len(Append(m.names, name)) = Len(m.names) + 1
          /\ Append(m.names, name)[Len(m.names) + 1] = name
          /\ \A i \in 1 .. Len(m.names) : Append(m.names, name)[i] = m.names[i]
        BY <1>2, AppendIs
    <2> QED  BY <1>1, <2>1, Zenon
<1>4. n.values[k + 1] = v /\ \A i \in 1 .. k : n.values[i] = m.values[i]
    <2>1. /\ Append(m.values, v)[Len(m.values) + 1] = v
          /\ \A i \in 1 .. Len(m.values) : Append(m.values, v)[i] = m.values[i]
        BY <1>2, AppendIs
    <2> QED  BY <1>2, <2>1, Zenon
<1>5. k + 1 \in 1 .. k + 1 /\ 1 .. k + 1 = (1 .. k) \cup {k + 1} /\ k + 1 \notin 1 .. k
    OBVIOUS
<1>6. /\ DOMAIN Members(n) = {n.names[i] : i \in 1 .. k + 1}
      /\ \A i \in 1 .. k + 1 : Members(n)[n.names[i]] = n.values[i]
    <2>1. /\ \A i \in 1 .. k + 1 : /\ n.names[i] \in DOMAIN Members(n)
                                   /\ Members(n)[n.names[i]] = n.values[i]
          /\ \A x \in DOMAIN Members(n) : \E i \in 1 .. k + 1 : n.names[i] = x
        <3>1. /\ \A i \in 1 .. Len(n.names) : /\ n.names[i] \in DOMAIN Members(n)
                                              /\ Members(n)[n.names[i]] = n.values[i]
              /\ \A x \in DOMAIN Members(n) : \E i \in 1 .. Len(n.names) : n.names[i] = x
            BY MembersIs
        <3> QED  BY <1>3, <3>1, Zenon
    <2> QED  BY <2>1
<1>7. /\ DOMAIN Members(m) = {m.names[i] : i \in 1 .. k}
      /\ \A i \in 1 .. k : Members(m)[m.names[i]] = m.values[i]
    <2>1. /\ \A i \in 1 .. k : /\ m.names[i] \in DOMAIN Members(m)
                               /\ Members(m)[m.names[i]] = m.values[i]
          /\ \A x \in DOMAIN Members(m) : \E i \in 1 .. k : m.names[i] = x
        BY <1>1, MembersIs
    <2> QED  BY <2>1
<1>8. \A i \in 1 .. k : n.names[i] # name
    <2>1. DOMAIN n.names = 1 .. k + 1 /\ IsInjective(n.names)
        BY <1>3 DEF ContainerNodes, Fits, Containers
    <2> QED  BY <1>3, <1>5, <2>1 DEF IsInjective
<1>9. DOMAIN Members(n) = DOMAIN Members(m) \cup {name}
    BY <1>3, <1>4, <1>5, <1>6, <1>7
<1>10. ASSUME NEW x \in DOMAIN Members(n)
       PROVE  Members(n)[x] = IF x = name THEN v ELSE Members(m)[x]
    <2>1. PICK i \in 1 .. k + 1 : x = n.names[i]
        BY <1>6
    <2>2. CASE i = k + 1
        BY <1>3, <1>4, <1>5, <1>6, <2>1, <2>2
    <2>3. CASE i \in 1 .. k
        <3>1. x # name /\ x = m.names[i] /\ Members(n)[x] = m.values[i]
            BY <1>3, <1>4, <1>5, <1>6, <1>8, <2>1, <2>3
        <3>2. Members(m)[x] = m.values[i]
            BY <1>7, <2>3, <3>1
        <3> QED  BY <3>1, <3>2
    <2> QED  BY <1>5, <2>2, <2>3
<1>11. Members(n) = [x \in DOMAIN Members(n) |-> Members(n)[x]]
    BY MembersFunction
<1> DEFINE g == Members(n)
           f == Members(m)
<1> HIDE DEF g, f
<1>12. g = Doc!Added(f, name, v)
    <2>1. g = [x \in DOMAIN g |-> g[x]]
        BY <1>11, Zenon DEF g
    <2>2. DOMAIN g = DOMAIN f \cup {name} /\ \A x \in DOMAIN g : g[x] = IF x = name THEN v ELSE f[x]
        BY <1>9, <1>10, Zenon DEF f, g
    <2> QED  BY <2>1, <2>2, Zenon DEF Doc!Added
<1> QED  BY <1>12, Zenon DEF f, g

\* In n the ith member of m is v.
PutIn(m, n, i, v) ==
    /\ m \in ContainerNodes /\ m.type = "object" /\ Fits(m)
    /\ n \in ContainerNodes /\ n.type = "object" /\ Fits(n)
    /\ i \in 1 .. Len(m.names) /\ n.names = m.names /\ n.values[i] = v
    /\ \A j \in 1 .. Len(m.names) : j # i => n.values[j] = m.values[j]

LEMMA MembersPut ==
    ASSUME NEW m, NEW n, NEW i, NEW v, PutIn(m, n, i, v)
    PROVE  Members(n) = Doc!Added(Members(m), m.names[i], v)
<1>0. /\ m \in ContainerNodes /\ m.type = "object" /\ Fits(m)
      /\ n \in ContainerNodes /\ n.type = "object" /\ Fits(n)
      /\ i \in 1 .. Len(m.names) /\ n.names = m.names /\ n.values[i] = v
      /\ \A j \in 1 .. Len(m.names) : j # i => n.values[j] = m.values[j]
    BY DEF PutIn
<1>1. PICK k \in Nat : k = Len(m.names)
    BY <1>0 DEF ContainerNodes
<1>2. k = Len(m.values) /\ m.names \in Seq(Keys) /\ m.values \in Seq(Values) /\ i \in 1 .. k
    BY <1>0, <1>1 DEF ContainerNodes, Fits, Containers
<1>3. n.values[i] = v /\ \A j \in 1 .. k : j # i => n.values[j] = m.values[j]
    BY <1>0, <1>1, Zenon
<1>4. /\ \A j \in 1 .. k : /\ m.names[j] \in DOMAIN Members(n)
                           /\ Members(n)[m.names[j]] = n.values[j]
      /\ \A x \in DOMAIN Members(n) : \E j \in 1 .. k : m.names[j] = x
    <2>1. /\ \A j \in 1 .. Len(n.names) : /\ n.names[j] \in DOMAIN Members(n)
                                          /\ Members(n)[n.names[j]] = n.values[j]
          /\ \A x \in DOMAIN Members(n) : \E j \in 1 .. Len(n.names) : n.names[j] = x
        BY <1>0, MembersIs
    <2> QED  BY <1>0, <1>1, <2>1, Zenon
<1>5. /\ \A j \in 1 .. k : /\ m.names[j] \in DOMAIN Members(m)
                           /\ Members(m)[m.names[j]] = m.values[j]
      /\ \A x \in DOMAIN Members(m) : \E j \in 1 .. k : m.names[j] = x
    BY <1>0, <1>1, MembersIs
<1> DEFINE name == m.names[i]
<1>6. DOMAIN Members(n) = {m.names[j] : j \in 1 .. k} /\ DOMAIN Members(m) = {m.names[j] : j \in 1 .. k}
    <2>1. DOMAIN Members(n) = {m.names[j] : j \in 1 .. k}
        BY <1>4, Zenon
    <2>2. DOMAIN Members(m) = {m.names[j] : j \in 1 .. k}
        BY <1>5, Zenon
    <2> QED  BY <2>1, <2>2
<1>7. DOMAIN Members(n) = DOMAIN Members(m) \cup {name}
    BY <1>2, <1>6
<1>8. ASSUME NEW x \in DOMAIN Members(n)
      PROVE  Members(n)[x] = IF x = name THEN v ELSE Members(m)[x]
    <2>1. PICK j \in 1 .. k : x = m.names[j]
        BY <1>4
    <2>2. Members(n)[x] = n.values[j] /\ Members(m)[x] = m.values[j]
        BY <1>4, <1>5, <2>1
    <2>3. CASE j = i
        BY <1>3, <2>1, <2>2, <2>3
    <2>4. CASE j # i
        <3>1. x # name
            BY <1>0, <1>2, <2>1, <2>4 DEF Fits, IsInjective, ContainerNodes, Containers
        <3> QED  BY <1>3, <2>2, <2>4, <3>1
    <2> QED  BY <2>3, <2>4
<1> HIDE DEF name
<1> DEFINE g == Members(n)
           f == Members(m)
<1>9. Members(n) = [x \in DOMAIN Members(n) |-> Members(n)[x]]
    BY MembersFunction
<1> HIDE DEF g, f
<1>10. g = Doc!Added(f, name, v)
    <2>1. g = [x \in DOMAIN g |-> g[x]]
        BY <1>9, Zenon DEF g
    <2>2. DOMAIN g = DOMAIN f \cup {name} /\ \A x \in DOMAIN g : g[x] = IF x = name THEN v ELSE f[x]
        BY <1>7, <1>8, Zenon DEF f, g
    <2> QED  BY <2>1, <2>2, Zenon DEF Doc!Added
<1> QED  BY <1>10, Zenon DEF name, f, g

\* The value w is stored in p, and nothing else changes but what is freed.
Puts(nd, md, p, name, w) ==
    /\ Others(nd, md, p) /\ md[p].type = "object"
    /\ Members(md[p]) = Doc!Added(Members(nd[p]), name, w)

LEMMA WithIs ==
    ASSUME NEW c, NEW o \in DOMAIN c, NEW f, c[o] = [object |-> f], NEW name, NEW v,
           NEW d, d = Doc!With(c, o, name, v)
    PROVE  Recast(c, d, o, [object |-> Doc!Added(f, name, v)])
<1>1. d = [c EXCEPT ![o] = [c[o] EXCEPT !.object = Doc!Added(c[o].object, name, v)]]
    BY DEF Doc!With
<1>2. c[o].object = f
    OBVIOUS
<1>3. [c[o] EXCEPT !.object = Doc!Added(f, name, v)] = [object |-> Doc!Added(f, name, v)]
    OBVIOUS
<1> QED  BY <1>1, <1>2, <1>3 DEF Recast

LEMMA PutsTell ==
    ASSUME NEW nd, NEW R, Sound(nd, R), NEW md, NEW Q, Sound(md, Q),
           NEW p \in Values, nd[p].type = "object", NEW name, NEW w, Puts(nd, md, p, name, w),
           NEW c, Tells(nd, c)
    PROVE  Tells(md, Doc!With(c, p, name, w))
<1>1. nd \in [Values -> Nodes] /\ p \in Exist(nd) /\ nd[p] \in Nodes /\ md[p] \in Nodes
      /\ nd[p].type # "free" /\ md[p].type # "free"
    BY SoundNodes DEF Puts, Exist
<1>2. p \in DOMAIN c /\ c[p] = [object |-> Members(nd[p])]
    BY <1>1, HoldsIs DEF Tells
<1>3. Holds(md[p]) = [object |-> Doc!Added(Members(nd[p]), name, w)]
    BY <1>1, HoldsIs DEF Puts
<1>4. PICK d : d = Doc!With(c, p, name, w)
    OBVIOUS
<1>5. Recast(c, d, p, [object |-> Doc!Added(Members(nd[p]), name, w)])
    BY <1>2, <1>4, WithIs
<1>6. Others(nd, md, p)
    BY DEF Puts
<1>7. Tells(md, d)
    BY <1>1, <1>3, <1>5, <1>6, OneTells
<1> QED  BY <1>4, <1>7

-----------------------------------------------------------------------------
(* What the calls that store a value make of the documents. *)

LEMMA AlikeSpares ==
    ASSUME NEW nd \in [Values -> Nodes], NEW md,
           \A u \in Exist(nd) : md[u] = Unused \/ Alike(nd[u], md[u])
    PROVE  Spares(nd, md)
<1>1. SUFFICES ASSUME NEW u \in Exist(nd) \cap Exist(md)
               PROVE  Holds(md[u]) = Holds(nd[u])
    BY DEF Spares
<1>2. Alike(nd[u], md[u])
    BY DEF Exist, Unused
<1>3. nd[u] \in Nodes /\ nd[u].type # "free"
    BY DEF Exist
<1> QED  BY <1>2, <1>3, AlikeHolds

LEMMA SameAlike ==
    ASSUME NEW n
    PROVE  Alike(n, n)
BY DEF Alike, SameData

LEMMA SameSpares ==
    ASSUME NEW nd \in [Values -> Nodes], NEW md,
           \A u \in Exist(nd) : md[u] = Unused \/ md[u] = nd[u]
    PROVE  Spares(nd, md)
BY SameAlike, AlikeSpares

\* What a call makes and does not leave is of no matter.
LEMMA SparesOn ==
    ASSUME NEW nd, NEW g, NEW md, Spares(nd, g), Spares(g, md), Exist(nd) \subseteq Exist(g)
    PROVE  Spares(nd, md)
BY DEF Spares

LEMMA RoomySpares ==
    ASSUME NEW nd \in [Values -> Nodes], NEW md, NEW c \in Values, nd[c].type \in Containers,
           Roomy(nd, md, c)
    PROVE  Spares(nd, md)
<1>1. Alike(nd[c], md[c])
    BY DEF Roomy, Alike, SameData, Containers, ScalarTypes
<1>2. \A u \in Values \ {c} : Alike(nd[u], md[u])
    BY SameAlike DEF Roomy
<1>3. Exist(nd) \subseteq Values
    BY DEF Exist
<1> QED  BY <1>1, <1>2, <1>3, AlikeSpares

LEMMA JoinedOthers ==
    ASSUME NEW nd \in [Values -> Nodes], NEW md, NEW c, NEW v \in Exist(nd), Joined(nd, md, c, v)
    PROVE  Others(nd, md, c)
<1>1. v \in Values /\ nd[v] \in Nodes /\ nd[v].type # "free"
    BY DEF Exist
<1>2. Alike(nd[v], md[v])
    BY <1>1, UnderAlike DEF Joined
<1>3. \A u \in Values \ {c, v} : Alike(nd[u], md[u])
    BY SameAlike DEF Joined
<1> QED  BY <1>2, <1>3 DEF Others

\* An object of a sound heap.
LEMMA ObjectIs ==
    ASSUME NEW nd, NEW R, Sound(nd, R), NEW o \in Values, nd[o].type = "object"
    PROVE  nd[o] \in ContainerNodes /\ Fits(nd[o]) /\ o \in Exist(nd)
<1>1. nd[o].type \in Containers /\ nd \in [Values -> Nodes] /\ Fits(nd[o])
    BY DEF Containers, Sound
<1> QED  BY <1>1, ContainerIs

LEMMA AddnPuts ==
    ASSUME NEW h, NEW R, NEW d, Heap(h, R, d), NEW o \in Values, h.node[o].type = "object",
           NEW name \in Keys, NEW v \in R, o \notin Tree(h.node, v),
           NEW r, r = json_object_addn(h, o, name, v)
    PROVE  /\ ~r.ok => Spares(h.node, r.node)
           /\ r.ok  => Puts(h.node, r.node, o, name, v)
<1>1. /\ Adds(h, r, R, d, o, v)
      /\ r.ok => r.node[o].names = Append(h.node[o].names, name)
    BY AddnIs
<1>2. Sound(h.node, R) /\ h.node \in [Values -> Nodes] /\ h.node[o].type \in Containers
      /\ v \in Exist(h.node) /\ v \in Values
    BY SoundNodes DEF Heap, Sound, Containers
<1>3. ASSUME ~r.ok PROVE Spares(h.node, r.node)
    BY <1>1, <1>2, <1>3, RoomySpares DEF Adds
<1>4. ASSUME r.ok PROVE Puts(h.node, r.node, o, name, v)
    <2>1. Joined(h.node, r.node, o, v) /\ Sound(r.node, R \ {v})
        BY <1>1, <1>4 DEF Adds, Heap
    <2>2. r.node[o].type = "object" /\ r.node[o].values = Append(h.node[o].values, v)
        BY <2>1 DEF Joined
    <2>3. h.node[o] \in ContainerNodes /\ Fits(h.node[o])
        BY <1>2, ObjectIs
    <2>4. r.node[o] \in ContainerNodes /\ Fits(r.node[o])
        BY <2>1, <2>2, ObjectIs
    <2>5. Members(r.node[o]) = Doc!Added(Members(h.node[o]), name, v)
        <3>1. PICK m, n : m = h.node[o] /\ n = r.node[o]
            OBVIOUS
        <3>2. n.names = Append(m.names, name) /\ n.values = Append(m.values, v)
            BY <1>1, <1>4, <2>2, <3>1
        <3>3. /\ m \in ContainerNodes /\ m.type = "object" /\ Fits(m)
              /\ n \in ContainerNodes /\ n.type = "object" /\ Fits(n)
            BY <2>2, <2>3, <2>4, <3>1
        <3>4. Members(n) = Doc!Added(Members(m), name, v)
            BY <1>2, <3>2, <3>3, MembersAdded
        <3> QED  BY <3>1, <3>4
    <2> QED  BY <1>2, <2>1, <2>2, <2>5, JoinedOthers DEF Puts
<1> QED  BY <1>3, <1>4

LEMMA SetPuts ==
    ASSUME NEW h, NEW R, NEW d, Heap(h, R, d), h.ok, NEW o \in Values, h.node[o].type = "object",
           NEW name \in Keys, NEW v \in Exist(h.node), v \in R => o \notin Tree(h.node, v),
           NEW r, r = json_object_set_value(h, o, name, v)
    PROVE  /\ ~r.ok => Spares(h.node, r.node)
           /\ r.ok  => Puts(h.node, r.node, o, name, v)
<1> DEFINE i == IndexOf(h.node[o], name)
<1>1. /\ h.node[o].type \in Containers /\ h.node \in [Values -> Nodes] /\ Sound(h.node, R)
      /\ h.node[o] \in ContainerNodes /\ Fits(h.node[o]) /\ h \in Heaps
    BY ObjectIs DEF Containers, Heap, Sound
<1>2. Len(h.node[o].names) = Len(h.node[o].values)
    BY <1>1 DEF Fits
<1>3. i \in 0 .. Len(h.node[o].names) /\ (i # 0 => h.node[o].names[i] = name)
    BY <1>1, IndexOfIs
<1> HIDE DEF i
<1>4. CASE ~HasNoParent(h, v)
    <2>1. r = Failed(h)
        BY <1>4 DEF json_object_set_value
    <2>2. ~r.ok /\ r.node = h.node
        BY <1>1, <2>1, FailedIs
    <2> QED  BY <1>1, <2>2, SameSpares
<1>5. CASE HasNoParent(h, v) /\ i > 0
    <2>1. v \in R /\ o \notin Tree(h.node, v)
        BY <1>5, NoParentIs
    <2>2. i \in 1 .. Len(h.node[o].values) /\ i \in 1 .. Len(h.node[o].names)
        BY <1>2, <1>3, <1>5
    <2>3. r = Put(json_value_free(h, h.node[o].values[i]), o, i, v)
        BY <1>5 DEF json_object_set_value, i
    <2>4. /\ Sets(h, r, R, d, o, v) /\ r.ok /\ Others(h.node, r.node, o)
          /\ r.node[o].type = "object" /\ r.node[o].names = h.node[o].names
          /\ r.node[o].values = [h.node[o].values EXCEPT ![i] = v]
        BY <1>1, <2>1, <2>2, <2>3, PutIs
    <2>5. r.node[o] \in ContainerNodes /\ Fits(r.node[o])
        BY <2>4, ObjectIs DEF Sets, Heap
    <2>6. Members(r.node[o]) = Doc!Added(Members(h.node[o]), h.node[o].names[i], v)
        <3>1. PICK m \in ContainerNodes, n \in ContainerNodes :
                 m = h.node[o] /\ n = r.node[o] /\ Fits(m) /\ Fits(n)
            BY <1>1, <2>5
        <3>2. m.type = "object" /\ n.type = "object" /\ i \in 1 .. Len(m.names) /\ n.names = m.names
            BY <2>2, <2>4, <3>1
        <3>3. n.values[i] = v /\ \A j \in 1 .. Len(m.names) : j # i => n.values[j] = m.values[j]
            <4>1. n.values = [m.values EXCEPT ![i] = v]
                BY <2>4, <3>1
            <4>2. m.values \in Seq(Values) /\ Len(m.values) = Len(m.names)
                BY <1>2, <3>1 DEF ContainerNodes
            <4> QED  BY <3>2, <4>1, <4>2
        <3>4. PutIn(m, n, i, v)
            BY <3>1, <3>2, <3>3, Zenon DEF PutIn
        <3>5. PICK x : x = m.names[i]
            OBVIOUS
        <3>6. Members(n) = Doc!Added(Members(m), x, v)
            BY <3>4, <3>5, MembersPut
        <3> QED  BY <3>1, <3>5, <3>6
    <2>7. h.node[o].names[i] = name
        BY <1>3, <1>5
    <2> QED  BY <2>4, <2>6, <2>7 DEF Puts
<1>6. CASE HasNoParent(h, v) /\ ~(i > 0)
    <2>1. v \in R /\ o \notin Tree(h.node, v)
        BY <1>6, NoParentIs
    <2>2. r = json_object_addn(h, o, name, v)
        BY <1>6 DEF json_object_set_value, i
    <2> QED  BY <2>1, <2>2, AddnPuts
<1> QED  BY <1>4, <1>5, <1>6

-----------------------------------------------------------------------------
(* Dotted names, as JsonDoc stores them. *)

\* The members that an object had, if it was there.
Old(nd, u) == IF u \in Exist(nd) THEN Members(nd[u]) ELSE <<>>

\* The object x, which may be new, has got the member y.
Got(nd, md, x, key, y) ==
    /\ md[x].type = "object" /\ (x \in Exist(nd) => nd[x].type = "object")
    /\ Members(md[x]) = Doc!Added(Old(nd, x), key, y)

\* It was a member already, or there was none and it is new.
Next_(nd, x, key, y) ==
    IF x \in Exist(nd) /\ json_object_get_value(nd, x, key) # NULL
    THEN y = json_object_get_value(nd, x, key) ELSE y \notin Exist(nd)

\* The objects under which the parts i to l of a name store v.
Way(nd, md, at, name, i, l, v) ==
    /\ at \in [i .. l -> Values] /\ IsInjective(at)
    /\ \A j \in i .. l : j # l => /\ Got(nd, md, at[j], <<name[j]>>, at[j + 1])
                                  /\ Next_(nd, at[j], <<name[j]>>, at[j + 1])
    /\ Got(nd, md, at[l], <<name[l]>>, v)

Aside(nd, md, S) == \A u \in Values \ S : md[u] = Unused \/ Alike(nd[u], md[u])

Apart(nd, p, S) == S \subseteq Tree(nd, p) \cup (Values \ Exist(nd))

Walked(nd, md, p, name, i, l, v) ==
    \E at : /\ Way(nd, md, at, name, i, l, v) /\ at[i] = p
            /\ Apart(nd, p, ToSet(at)) /\ Aside(nd, md, ToSet(at))

LEMMA WayFront ==
    ASSUME NEW nd, NEW md, NEW name, NEW i \in Nat, NEW l \in Nat, i < l, NEW v,
           NEW to, Way(nd, md, to, name, i + 1, l, v), NEW p \in Values, p \notin ToSet(to),
           Got(nd, md, p, <<name[i]>>, to[i + 1]), Next_(nd, p, <<name[i]>>, to[i + 1]),
           Apart(nd, p, ToSet(to)), p \in Tree(nd, p), Aside(nd, md, {p} \cup ToSet(to))
    PROVE  Walked(nd, md, p, name, i, l, v)
<1> DEFINE at == [j \in i .. l |-> IF j = i THEN p ELSE to[j]]
<1>1. PICK k \in Nat : k = i + 1 /\ k <= l /\ k # i /\ i .. l = {i} \cup (k .. l) /\ i \notin k .. l
    OBVIOUS
<1>2. /\ to \in [k .. l -> Values] /\ IsInjective(to)
      /\ \A j \in k .. l : j # l => /\ Got(nd, md, to[j], <<name[j]>>, to[j + 1])
                                    /\ Next_(nd, to[j], <<name[j]>>, to[j + 1])
      /\ Got(nd, md, to[l], <<name[l]>>, v)
    BY <1>1 DEF Way
<1>3. ToSet(to) = {to[j] : j \in k .. l}
    BY <1>2 DEF ToSet
<1>4. at \in [i .. l -> Values] /\ at[i] = p /\ \A j \in k .. l : at[j] = to[j]
    BY <1>1, <1>2
<1> HIDE DEF at
<1>5. ToSet(at) = {p} \cup ToSet(to)
    <2>1. ToSet(at) = {at[j] : j \in {i} \cup (k .. l)}
        BY <1>1, <1>4 DEF ToSet
    <2> QED  BY <1>3, <1>4, <2>1
<1>6. IsInjective(at)
    <2>1. SUFFICES ASSUME NEW a \in {i} \cup (k .. l), NEW b \in {i} \cup (k .. l), at[a] = at[b]
                   PROVE  a = b
        BY <1>1, <1>4 DEF IsInjective
    <2>2. \A j \in k .. l : at[j] # p
        BY <1>3, <1>4
    <2>3. \A x, y \in k .. l : to[x] = to[y] => x = y
        BY <1>2 DEF IsInjective
    <2> QED  BY <1>4, <2>1, <2>2, <2>3
<1>7. ASSUME NEW j \in i .. l, j # l
      PROVE  Got(nd, md, at[j], <<name[j]>>, at[j + 1]) /\ Next_(nd, at[j], <<name[j]>>, at[j + 1])
    <2>1. PICK x \in k .. l : x = j + 1
        BY <1>1, <1>7
    <2>2. at[j + 1] = to[x] /\ to[j + 1] = to[x]
        BY <1>4, <2>1
    <2>3. CASE j = i
        BY <1>1, <1>4, <2>1, <2>2, <2>3
    <2>4. CASE j \in k .. l
        BY <1>2, <1>4, <1>7, <2>2, <2>4
    <2> QED  BY <1>1, <2>3, <2>4
<1>8. Got(nd, md, at[l], <<name[l]>>, v)
    <2>1. l \in k .. l
        BY <1>1
    <2> QED  BY <1>2, <1>4, <2>1
<1>9. Way(nd, md, at, name, i, l, v)
    BY <1>4, <1>6, <1>7, <1>8 DEF Way
<1>10. Apart(nd, p, ToSet(at)) /\ Aside(nd, md, ToSet(at))
    BY <1>5 DEF Apart
<1> QED  BY <1>4, <1>9, <1>10 DEF Walked

\* How storing v below p by a name is seen.
Walking(h, r, p, name, i, l, v) ==
    /\ r.ok  => Walked(h.node, r.node, p, name, i, l, v)
    /\ ~r.ok => Spares(h.node, r.node)

Walks(S, name, i, l, v) ==
    \A g, R, d, p : Storable(g, R, d, p, v) => Walking(g, S[g][p], p, name, i, l, v)

LEMMA PutsWalked ==
    ASSUME NEW nd, NEW R, Sound(nd, R), NEW md, NEW p \in Values, nd[p].type = "object",
           NEW name, NEW l \in Nat, NEW v, Puts(nd, md, p, <<name[l]>>, v)
    PROVE  Walked(nd, md, p, name, l, l, v)
<1> DEFINE at == [j \in l .. l |-> p]
<1>1. nd \in [Values -> Nodes] /\ p \in Exist(nd) /\ p \in Tree(nd, p)
    BY ObjectIs, SoundTree DEF Sound
<1>2. l .. l = {l}
    OBVIOUS
<1>3. at \in [{l} -> Values] /\ at[l] = p /\ ToSet(at) = {p} /\ IsInjective(at)
    BY <1>2 DEF ToSet, IsInjective
<1> HIDE DEF at
<1>4. Got(nd, md, p, <<name[l]>>, v)
    BY <1>1 DEF Got, Old, Puts
<1>5. Way(nd, md, at, name, l, l, v)
    BY <1>2, <1>3, <1>4 DEF Way
<1>6. Apart(nd, p, ToSet(at))
    BY <1>1, <1>3 DEF Apart
<1>7. Aside(nd, md, ToSet(at))
    BY <1>3 DEF Aside, Puts, Others
<1> QED  BY <1>3, <1>5, <1>6, <1>7 DEF Walked

LEMMA LastWalks ==
    ASSUME NEW v, NEW name \in Keys, NEW l \in Nat \ {0}, Long(name, l), NEW S,
           \A g \in Heaps : \A p \in Values : S[g][p] = json_object_set_value(g, p, <<name[l]>>, v)
    PROVE  Walks(S, name, l, l, v)
<1>1. SUFFICES ASSUME NEW g, NEW R, NEW d, NEW p, Storable(g, R, d, p, v)
               PROVE  Walking(g, S[g][p], p, name, l, l, v)
    BY DEF Walks
<1>2. /\ g \in Heaps /\ Heap(g, R, d) /\ g.ok /\ p \in Values /\ g.node[p].type = "object"
      /\ v \in Exist(g.node) /\ (v \in R => p \notin Tree(g.node, v)) /\ Sound(g.node, R)
    BY <1>1 DEF Storable, Heap
<1>3. <<name[l]>> \in Keys
    <2>1. l \in 1 .. Len(name)
        BY DEF Long
    <2>2. name[l] \in STRING
        BY <2>1 DEF Keys
    <2> QED  BY <2>2 DEF Keys
<1>4. PICK r : r = S[g][p]
    OBVIOUS
<1>5. PICK key \in Keys : key = <<name[l]>>
    BY <1>3
<1>6. /\ ~r.ok => Spares(g.node, r.node)
      /\ r.ok  => Puts(g.node, r.node, p, key, v)
    <2>1. r = json_object_set_value(g, p, key, v)
        BY <1>2, <1>4, <1>5
    <2> QED  BY <1>2, <2>1, SetPuts
<1>7. ASSUME r.ok PROVE Walked(g.node, r.node, p, name, l, l, v)
    <2>1. Puts(g.node, r.node, p, <<name[l]>>, v)
        BY <1>5, <1>6, <1>7
    <2> QED  BY <1>2, <2>1, PutsWalked
<1> QED  BY <1>4, <1>6, <1>7 DEF Walking

\* An object on the way.
LEMMA GetMembers ==
    ASSUME NEW nd, NEW R, Sound(nd, R), NEW o \in Values, nd[o].type = "object", NEW name
    PROVE  /\ json_object_get_value(nd, o, name) # NULL <=> name \in DOMAIN Members(nd[o])
           /\ name \in DOMAIN Members(nd[o]) =>
                 json_object_get_value(nd, o, name) = Members(nd[o])[name]
<1>1. nd[o] \in ContainerNodes /\ Fits(nd[o]) /\ nd \in [Values -> Nodes] /\ o # NULL
    BY ObjectIs, ValuesAssumption DEF Sound
<1>2. PICK n \in ContainerNodes : n = nd[o] /\ n.type = "object" /\ Fits(n)
    BY <1>1
<1>3. /\ DOMAIN Members(n) = ToSet(n.names)
      /\ \A i \in 1 .. Len(n.names) : /\ n.names[i] \in DOMAIN Members(n)
                                      /\ Members(n)[n.names[i]] = n.values[i]
      /\ \A x \in DOMAIN Members(n) : \E i \in 1 .. Len(n.names) : n.names[i] = x
    BY <1>2, MembersIs
<1>4. IsInjective(n.names) /\ Len(n.names) = Len(n.values) /\ n.values \in Seq(Values)
    BY <1>2 DEF Fits, Containers, ContainerNodes
<1>5. CASE name \in DOMAIN Members(n)
    <2>1. PICK i \in 1 .. Len(n.names) : n.names[i] = name
        BY <1>3, <1>5
    <2>2. json_object_get_value(nd, o, name) = n.values[i]
        BY <1>1, <1>2, <1>4, <2>1, GetFound
    <2>3. n.values[i] \in Values
        BY <1>4, <2>1
    <2>4. Members(n)[name] = n.values[i]
        BY <1>3, <2>1
    <2> QED  BY <1>2, <1>5, <2>2, <2>3, <2>4, ValuesAssumption
<1>6. CASE name \notin DOMAIN Members(n)
    <2>1. IndexOf(n, name) = 0
        BY <1>3, <1>6 DEF IndexOf
    <2>2. json_object_get_value(nd, o, name) = NULL
        BY <1>2, <2>1 DEF json_object_get_value
    <2> QED  BY <1>2, <1>6, <2>2
<1> QED  BY <1>5, <1>6

\* A member that is stored again.
LEMMA AddedAgain ==
    ASSUME NEW n, NEW name \in DOMAIN Members(n)
    PROVE  Doc!Added(Members(n), name, Members(n)[name]) = Members(n)
<1> DEFINE f == Members(n)
<1>1. f = [x \in DOMAIN f |-> f[x]]
    BY MembersFunction
<1> HIDE DEF f
<1>2. name \in DOMAIN f
    BY DEF f
<1>3. DOMAIN f \cup {name} = DOMAIN f
    BY <1>2
<1>4. \A x \in DOMAIN f : (IF x = name THEN f[name] ELSE f[x]) = f[x]
    OBVIOUS
<1>5. Doc!Added(f, name, f[name]) = [x \in DOMAIN f |-> IF x = name THEN f[name] ELSE f[x]]
    BY <1>3, Zenon DEF Doc!Added
<1>6. Doc!Added(f, name, f[name]) = f
    BY <1>1, <1>4, <1>5
<1> QED  BY <1>6, Zenon DEF f

\* There is an object on the way.
LEMMA WalkBelow ==
    ASSUME NEW h, NEW R, NEW d, NEW p, NEW v, Storable(h, R, d, p, v),
           NEW name, NEW i \in Nat, NEW l \in Nat, i < l,
           NEW S, Stores(S, name, i + 1, l, v), Walks(S, name, i + 1, l, v),
           NEW u, HasMember(h.node, p, <<name[i]>>, u), h.node[u].type = "object"
    PROVE  Walking(h, S[h][u], p, name, i, l, v)
<1> DEFINE r == S[h][u]
           nd == h.node
           md == r.node
<1>1. Below(h, R, d, p, v, u)
    BY BelowIs
<1>2. Stored(h, r, R, d, u, v, name, i + 1, l) /\ Walking(h, r, u, name, i + 1, l, v)
    BY <1>1 DEF Stores, Walks, Below
<1>3. /\ Sound(nd, R) /\ p \in Values /\ nd[p].type = "object" /\ p \in Exist(nd)
      /\ Tree(nd, u) \subseteq Tree(nd, p) /\ p \notin Tree(nd, u)
      /\ u = json_object_get_value(nd, p, <<name[i]>>) /\ u # NULL
    BY <1>1 DEF Storable, Below, Heap, HasMember
<1> HIDE DEF r
<1>4. r.ok => md[p] = nd[p]
    BY <1>1, <1>2, BelowStored DEF Stored
<1>5. ASSUME r.ok PROVE Walked(nd, md, p, name, i, l, v)
    <2>1. Walked(nd, md, u, name, i + 1, l, v) /\ md[p] = nd[p]
        BY <1>2, <1>4, <1>5 DEF Walking
    <2> HIDE DEF nd, md
    <2>2. PICK to : /\ Way(nd, md, to, name, i + 1, l, v) /\ to[i + 1] = u
                    /\ Apart(nd, u, ToSet(to)) /\ Aside(nd, md, ToSet(to))
        BY <2>1 DEF Walked
    <2>3. PICK key : key = <<name[i]>>
        OBVIOUS
    <2>4. key \in DOMAIN Members(nd[p]) /\ u = Members(nd[p])[key]
        BY <1>3, <2>3, GetMembers
    <2>5. Got(nd, md, p, <<name[i]>>, to[i + 1])
        <3>1. Members(md[p]) = Doc!Added(Members(nd[p]), key, u)
            BY <2>1, <2>4, AddedAgain
        <3> QED  BY <1>3, <2>1, <2>2, <2>3, <3>1 DEF Got, Old
    <2>6. Next_(nd, p, <<name[i]>>, to[i + 1])
        BY <1>3, <2>2 DEF Next_
    <2>7. p \notin ToSet(to) /\ Apart(nd, p, ToSet(to)) /\ Aside(nd, md, {p} \cup ToSet(to))
        BY <1>3, <2>2 DEF Apart, Aside
    <2>8. p \in Tree(nd, p)
        BY <1>3, SoundTree
    <2> QED  BY <1>3, <2>2, <2>5, <2>6, <2>7, <2>8, WayFront
<1>6. ~r.ok => Spares(nd, md)
    BY <1>2 DEF Walking
<1> QED  BY <1>5, <1>6 DEF Walking, r

\* What is freed later is of no matter either.
LEMMA SparesOff ==
    ASSUME NEW nd, NEW g, NEW md, Spares(nd, g), Spares(g, md), Exist(md) \subseteq Exist(g)
    PROVE  Spares(nd, md)
BY DEF Spares

LEMMA AbandonSpares ==
    ASSUME NEW nd, NEW g, NEW R, NEW d, Heap(g, R, d), NEW v \in R, Spares(nd, g.node)
    PROVE  Spares(nd, Abandon(g, v).node)
<1> DEFINE md == Abandon(g, v).node
<1>1. Without(g.node, md, Tree(g.node, v)) /\ Exist(md) = Exist(g.node) \ Tree(g.node, v)
    BY AbandonIs
<1>2. g.node \in [Values -> Nodes]
    BY DEF Heap, Sound
<1> HIDE DEF md
<1>3. Exist(g.node) \subseteq Values
    BY DEF Exist
<1>4. \A u \in Exist(g.node) : md[u] = Unused \/ md[u] = g.node[u]
    BY <1>1, <1>3 DEF Without
<1>5. Spares(g.node, md)
    BY <1>2, <1>4, SameSpares
<1>6. Spares(nd, md)
    BY <1>1, <1>5, SparesOff
<1> QED  BY <1>6 DEF md

\* A new object has no members.
MadeFor(h, made, m, R, d) ==
    /\ MadeOf(h, made, m, R, d, "object") /\ Sound(made.node, R \cup {m})
    /\ Exist(made.node) = Exist(h.node) \cup {m} /\ m \in Values \ Exist(h.node)
    /\ Members(made.node[m]) = <<>>
    /\ \A key : json_object_get_value(made.node, m, key) = NULL
    /\ Spares(h.node, made.node)

LEMMA MadeForIs ==
    ASSUME NEW h, NEW R, NEW d, NEW p, NEW v, Storable(h, R, d, p, v),
           NEW made, NEW m, MadeOf(h, made, m, R, d, "object")
    PROVE  MadeFor(h, made, m, R, d) /\ Storable(made, R \cup {m}, d, m, v)
<1> DEFINE nd == made.node
<1>1. /\ Heap(h, R, d) /\ Sound(h.node, R) /\ v \in Exist(h.node) /\ m \in Values \ Exist(h.node)
      /\ Heap(made, R \cup {m}, d) /\ Sound(nd, R \cup {m}) /\ made.ok
      /\ Exist(nd) = Exist(h.node) \cup {m}
      /\ nd[m].type = "object" /\ nd[m].values = <<>> /\ \A u \in Exist(h.node) : nd[u] = h.node[u]
      /\ Tree(nd, v) = Tree(h.node, v) /\ m \notin Tree(h.node, v)
    BY DEF MadeOf, Storable, Heap
<1>2. Storable(made, R \cup {m}, d, m, v)
    BY <1>1 DEF Storable
<1>3. Spares(h.node, nd)
    BY <1>1 DEF Spares
<1> HIDE DEF nd
<1>4. PICK n \in ContainerNodes : n = nd[m] /\ n.type = "object" /\ Fits(n)
    BY <1>1, ObjectIs
<1>5. n.names = <<>>
    <2>1. Len(n.names) = Len(n.values) /\ n.values = <<>> /\ n.names \in Seq(Keys)
        BY <1>1, <1>4 DEF Fits, Containers, ContainerNodes
    <2> QED  BY <2>1
<1>6. ToSet(n.names) = {}
    BY <1>5 DEF ToSet
<1>7. Members(n) = <<>>
    BY <1>6 DEF Members
<1>8. \A key : IndexOf(n, key) = 0
    BY <1>6 DEF IndexOf
<1>9. \A key : json_object_get_value(nd, m, key) = NULL
    BY <1>4, <1>8 DEF json_object_get_value
<1> QED  BY <1>1, <1>2, <1>3, <1>4, <1>7, <1>9 DEF MadeFor, nd

\* The part that comes next is stored below it: only new objects are on the way.
Anew(nd, mk, x) == /\ x \notin Exist(nd) /\ Old(mk, x) = <<>>
                   /\ \A key : x \in Exist(mk) => json_object_get_value(mk, x, key) = NULL

LEMMA MadeAnew ==
    ASSUME NEW h, NEW R, NEW d, NEW made, NEW m, MadeFor(h, made, m, R, d),
           NEW S, Apart(made.node, m, S)
    PROVE  \A x \in S : x \in Values /\ Anew(h.node, made.node, x)
<1>1. SUFFICES ASSUME NEW x \in S PROVE x \in Values /\ Anew(h.node, made.node, x)
    OBVIOUS
<1>2. Tree(made.node, m) = {m} /\ m \in Values
    BY DEF MadeFor, MadeOf
<1>3. x = m \/ x \in Values \ Exist(made.node)
    BY <1>2 DEF Apart
<1> QED  BY <1>2, <1>3 DEF Anew, Old, MadeFor

LEMMA InnerSpares ==
    ASSUME NEW h, NEW R, NEW d, Heap(h, R, d), NEW made, NEW m, MadeFor(h, made, m, R, d), NEW md,
           NEW S, Apart(made.node, m, S), Aside(made.node, md, S)
    PROVE  Spares(h.node, md)
<1>1. \A x \in S : x \notin Exist(h.node)
    BY MadeAnew DEF Anew
<1>2. \A u \in Exist(h.node) : made.node[u] = h.node[u] /\ u \in Values
    BY DEF MadeFor, MadeOf, Exist
<1>3. \A u \in Exist(h.node) : md[u] = Unused \/ Alike(h.node[u], md[u])
    BY <1>1, <1>2 DEF Aside
<1>4. h.node \in [Values -> Nodes]
    BY DEF Heap, Sound
<1> QED  BY <1>3, <1>4, AlikeSpares

LEMMA WayAnew ==
    ASSUME NEW nd, NEW mk, NEW im, NEW md, NEW to, NEW name, NEW j \in Nat, NEW l \in Nat, j <= l, NEW v,
           Way(mk, im, to, name, j, l, v), Exist(nd) \subseteq Exist(mk),
           \A x \in ToSet(to) : /\ Anew(nd, mk, x) /\ md[x].type = im[x].type
                                /\ Members(md[x]) = Members(im[x])
    PROVE  Way(nd, md, to, name, j, l, v)
<1>1. \A i \in j .. l : to[i] \in ToSet(to)
    BY DEF Way, ToSet
<1>2. ASSUME NEW i \in j .. l, NEW key, NEW y, Got(mk, im, to[i], key, y)
      PROVE  Got(nd, md, to[i], key, y)
    BY <1>1, <1>2 DEF Got, Anew, Old
<1>3. ASSUME NEW i \in j .. l, NEW key, NEW y, Next_(mk, to[i], key, y)
      PROVE  Next_(nd, to[i], key, y)
    BY <1>1, <1>3 DEF Next_, Anew
<1>4. l \in j .. l
    OBVIOUS
<1> QED  BY <1>2, <1>3, <1>4 DEF Way

\* The new object is added.
LEMMA WalkAdded ==
    ASSUME NEW h, NEW R, NEW d, NEW p, NEW v, Storable(h, R, d, p, v),
           NEW name, NEW i \in Nat, NEW l \in Nat, i < l,
           NEW made, NEW m, MadeFor(h, made, m, R, d),
           NEW inner, DotInner(h, inner, m, R, d, v, name, i + 1, l), inner.ok,
           Walked(made.node, inner.node, m, name, i + 1, l, v), <<name[i]>> \in Keys,
           json_object_get_value(h.node, p, <<name[i]>>) = NULL,
           NEW added, added = json_object_addn(inner, p, <<name[i]>>, m), added.ok
    PROVE  Walked(h.node, added.node, p, name, i, l, v)
<1> DEFINE Q  == (R \ {v}) \cup {m}
           nd == h.node
           mk == made.node
           im == inner.node
           md == added.node
<1>1. PICK first \in Keys : first = <<name[i]>>
    OBVIOUS
<1>2. /\ DotAdded(h, inner, added, R, d, p, v, m, first)
      /\ added = json_object_addn(inner, p, first, m)
    <2>1. added = json_object_addn(inner, p, first, m)
        BY <1>1
    <2>2. PICK j : j = i + 1
        OBVIOUS
    <2>3. DotInner(h, inner, m, R, d, v, name, j, l)
        BY <2>2
    <2> QED  BY <2>1, <2>3, DotAddedIs
<1>3. /\ Sound(nd, R) /\ p \in Values /\ nd[p].type = "object" /\ v \in R
      /\ p \notin Tree(im, m) /\ p \in Exist(nd) \ Tree(nd, v)
      /\ Heap(inner, Q, d) /\ Joined(im, md, p, m) /\ m \in Values \ Exist(nd)
      /\ im[p] = nd[p] /\ p \in Tree(nd, p)
    <2>1. Sound(nd, R) /\ p \in Values /\ nd[p].type = "object"
        BY DEF Storable, Heap
    <2>2. p \in Tree(nd, p)
        BY <2>1, ObjectIs, SoundTree
    <2> QED  BY <1>2, <2>1, <2>2 DEF DotAdded, Adds, DotInner
<1>4. Puts(im, md, p, first, m)
    <2>1. im[p].type = "object" /\ m \in Q
        BY <1>3
    <2> HIDE DEF Q
    <2> QED  BY <1>2, <1>3, <2>1, AddnPuts
<1>5. PICK to : /\ Way(mk, im, to, name, i + 1, l, v) /\ to[i + 1] = m
                /\ Apart(mk, m, ToSet(to)) /\ Aside(mk, im, ToSet(to))
    BY DEF Walked
<1>6. \A x \in ToSet(to) : x \in Values /\ Anew(nd, mk, x)
    BY <1>5, MadeAnew
<1>7. /\ Exist(mk) = Exist(nd) \cup {m} /\ \A u \in Exist(nd) : mk[u] = nd[u]
      /\ mk \in [Values -> Nodes] /\ im \in [Values -> Nodes]
    BY <1>3 DEF MadeFor, MadeOf, Sound, Heap
<1>8. ASSUME NEW x \in ToSet(to)
      PROVE  md[x].type = im[x].type /\ Members(md[x]) = Members(im[x])
    <2>1. x # p /\ x \in Values
        BY <1>3, <1>6 DEF Anew
    <2>2. CASE x = m
        <3>1. md[m] = Under(im[m], p)
            BY <1>3 DEF Joined
        <3>2. im[m] \in Nodes /\ im[m].type = "object" /\ p \in Parents
            <4>1. i + 1 \in i + 1 .. l
                OBVIOUS
            <4>2. im[to[i + 1]].type = "object"
                BY <1>5, <4>1 DEF Way, Got
            <4> QED  BY <1>3, <1>5, <1>7, <4>2 DEF Parents
        <3>3. md[m].type = im[m].type /\ md[m].names = im[m].names /\ md[m].values = im[m].values
            BY <3>1, <3>2, ReparentIs DEF Containers
        <3>4. Members(md[m]) = Members(im[m])
            BY <3>3, MembersSame
        <3> QED  BY <2>2, <3>3, <3>4, Zenon
    <2>3. CASE x # m
        BY <1>3, <2>1, <2>3 DEF Joined
    <2> QED  BY <2>2, <2>3
<1>9. Way(nd, md, to, name, i + 1, l, v)
    <2>1. PICK j \in Nat : j = i + 1 /\ j <= l
        OBVIOUS
    <2>2. Way(mk, im, to, name, j, l, v) /\ Exist(nd) \subseteq Exist(mk)
        BY <1>5, <1>7, <2>1
    <2> HIDE DEF nd, mk, im, md
    <2>3. Way(nd, md, to, name, j, l, v)
        BY <1>6, <1>8, <2>1, <2>2, WayAnew
    <2> QED  BY <2>1, <2>3
<1>10. Got(nd, md, p, <<name[i]>>, to[i + 1])
    BY <1>1, <1>3, <1>4, <1>5 DEF Got, Old, Puts
<1>11. Next_(nd, p, <<name[i]>>, to[i + 1])
    BY <1>3, <1>5 DEF Next_
<1>12. p \notin ToSet(to) /\ Apart(nd, p, ToSet(to))
    BY <1>3, <1>6 DEF Anew, Apart
<1>13. Aside(nd, md, {p} \cup ToSet(to))
    <2>1. SUFFICES ASSUME NEW u \in Values, u # p, u \notin ToSet(to)
                   PROVE  md[u] = Unused \/ Alike(nd[u], md[u])
        BY DEF Aside
    <2>2. u # m
        <3>1. i + 1 \in i + 1 .. l
            OBVIOUS
        <3>2. to[i + 1] \in ToSet(to)
            BY <1>5, <3>1 DEF Way, ToSet
        <3> QED  BY <1>5, <2>1, <3>2
    <2>3. md[u] = im[u] /\ (im[u] = Unused \/ Alike(mk[u], im[u]))
        BY <1>3, <1>5, <2>1, <2>2 DEF Joined, Aside
    <2>4. CASE u \in Exist(nd)
        BY <1>7, <2>3, <2>4
    <2>5. CASE u \notin Exist(nd)
        <3>1. mk[u].type = "free"
            BY <1>7, <2>2, <2>5 DEF Exist
        <3>2. im[u].type = "free"
            BY <2>3, <3>1 DEF Alike, SameData, Unused
        <3> QED  BY <1>7, <2>3, <3>2, NodeTypes
    <2> QED  BY <2>4, <2>5
<1> HIDE DEF nd, md, mk, im
<1>14. Walked(nd, md, p, name, i, l, v)
    BY <1>3, <1>9, <1>10, <1>11, <1>12, <1>13, WayFront
<1> QED  BY <1>14 DEF nd, md

\* The new object cannot be added, and v is taken out of where it was stored.
LEMMA WalkUndone ==
    ASSUME NEW h, NEW R, NEW d, NEW p, NEW v, Storable(h, R, d, p, v),
           NEW name, NEW j \in Nat, NEW l \in Nat, j <= l,
           NEW made, NEW m, MadeFor(h, made, m, R, d),
           NEW inner, DotInner(h, inner, m, R, d, v, name, j, l), inner.ok,
           Walked(made.node, inner.node, m, name, j, l, v),
           NEW first, NEW added, DotAdded(h, inner, added, R, d, p, v, m, first), ~added.ok,
           NEW undone, Undone(added, undone, (R \ {v}) \cup {m}, d, m, v)
    PROVE  Spares(h.node, Abandon(undone, m).node)
<1> DEFINE Q  == (R \ {v}) \cup {m}
           nd == h.node
           mk == made.node
           im == inner.node
           md == added.node
<1>1. /\ Heap(h, R, d) /\ Sound(nd, R) /\ p \in Values /\ nd[p].type = "object" /\ v \in Values
      /\ Heap(inner, Q, d) /\ Heap(added, Q, d) /\ Sound(im, Q) /\ Sound(md, Q) /\ Roomy(im, md, p)
      /\ im \in [Values -> Nodes]
    BY DEF Storable, Heap, DotAdded, Adds, Exist, Sound
<1>2. PICK to : /\ Way(mk, im, to, name, j, l, v)
                /\ Apart(mk, m, ToSet(to)) /\ Aside(mk, im, ToSet(to))
    BY DEF Walked
<1>3. Spares(nd, im)
    BY <1>1, <1>2, InnerSpares
<1>4. /\ im[p].type = "object" /\ p \in Exist(im)
    <2>1. p \in Exist(nd) \ Tree(nd, v)
        BY DEF DotAdded
    <2>2. im[p] = nd[p]
        BY <2>1 DEF DotInner
    <2> QED  BY <1>1, <2>2 DEF Exist
<1>5. Exist(md) = Exist(im) /\ \A u \in Values : Children(md, u) = Children(im, u)
    <2> HIDE DEF im, md
    <2> QED  BY <1>1, RoomyIs, SoundNodes
<1>6. Spares(nd, md)
    <2> HIDE DEF im, md, nd
    <2>1. Spares(im, md)
        BY <1>1, <1>4, RoomySpares DEF Containers
    <2> QED  BY <1>3, <1>5, <2>1, SparesOff
<1>7. PICK x : x \in ToSet(to) /\ x \in Values /\ x \notin Exist(nd) /\ v \in Children(im, x)
    <2>1. l \in j .. l
        OBVIOUS
    <2>2. PICK x, key : x = to[l] /\ key = <<name[l]>>
        OBVIOUS
    <2>3. x \in ToSet(to) /\ im[x].type = "object" /\ Members(im[x]) = Doc!Added(Old(mk, x), key, v)
        BY <1>2, <2>1, <2>2 DEF Way, Got, ToSet
    <2>4. x \in Values /\ x \notin Exist(nd)
        BY <1>2, <2>3, MadeAnew DEF Anew
    <2>5. key \in DOMAIN Members(im[x]) /\ Members(im[x])[key] = v
        BY <2>3 DEF Doc!Added
    <2> HIDE DEF im
    <2>6. json_object_get_value(im, x, key) = v
        BY <1>1, <2>3, <2>4, <2>5, GetMembers
    <2>7. v \in Children(im, x)
        <3>1. v # NULL /\ x \in Values \cup {NULL}
            BY <1>1, <2>4, ValuesAssumption
        <3> QED  BY <1>1, <2>6, <3>1, GetIs
    <2> QED  BY <2>3, <2>4, <2>7
<1>8. PICK q : /\ q \in Values /\ v \in Children(md, q)
               /\ \A w \in Values \ {q} : undone.node[w] = md[w]
    BY DEF Undone
<1>9. q \notin Exist(nd)
    <2>1. \A c \in Values : v \in Children(md, c) => md[v].parent = c
        BY <1>1 DEF Sound, Forest, Kids, Par
    <2>2. v \in Children(md, x)
        BY <1>5, <1>7
    <2> QED  BY <1>7, <1>8, <2>1, <2>2
<1>10. Spares(nd, undone.node)
    <2>1. \A u \in Exist(nd) : undone.node[u] = md[u] /\ u \in Values
        BY <1>8, <1>9 DEF Exist
    <2> QED  BY <1>6, <2>1 DEF Spares, Exist
<1>11. PICK Z : Heap(undone, Z, d) /\ m \in Z
    BY DEF Undone
<1> QED  BY <1>10, <1>11, AbandonSpares

\* A part of a name that has more, if the rest of it is stored so.
LEMMA DotPartWalks ==
    ASSUME NEW h, NEW R, NEW d, NEW p, NEW v, Storable(h, R, d, p, v),
           NEW name \in Keys, NEW i \in Nat \ {0}, NEW l \in Nat, Long(name, l), i < l,
           NEW S, Stores(S, name, i + 1, l, v), Walks(S, name, i + 1, l, v)
    PROVE  Walking(h, DotSetPart(S, h, p, name, i), p, name, i, l, v)
<1> DEFINE first  == <<name[i]>>
           u      == json_object_get_value(h.node, p, first)
           made   == json_value_init(h, Container("object"))
           m      == made.value
           inner  == S[made][m]
           added  == json_object_addn(inner, p, first, m)
           undone == json_object_dotremove_internal(added, m, SubSeq(name, i + 1, Len(name)), FALSE)
           r      == DotSetPart(S, h, p, name, i)
<1>1. r = IF u # NULL THEN IF h.node[u].type # "object" THEN Failed(h) ELSE S[h][u]
          ELSE IF ~made.ok  THEN Failed(h)
          ELSE IF ~inner.ok THEN Abandon(inner, m)
          ELSE IF ~added.ok THEN Abandon(undone, m)
          ELSE added
    BY DEF DotSetPart
<1>2. Heap(h, R, d) /\ first \in Keys /\ v \in Values
    <2>1. i \in 1 .. Len(name)
        BY DEF Long
    <2>2. name[i] \in STRING
        BY <2>1 DEF Keys
    <2> QED  BY <2>2 DEF Keys, Storable, Exist
<1> DEFINE Goal(x) == Walking(h, x, p, name, i, l, v)
<1>3. Goal(Failed(h))
    <2>1. h \in Heaps
        BY <1>2 DEF Heap
    <2>2. Failed(h).node = h.node /\ ~Failed(h).ok
        BY <2>1, FailedIs
    <2> QED  BY <2>2 DEF Walking, Spares
<1>4. ASSUME u # NULL, h.node[u].type = "object" PROVE Goal(S[h][u])
    <2>1. HasMember(h.node, p, first, u)
        BY <1>4 DEF HasMember
    <2>2. ASSUME NEW x, HasMember(h.node, p, <<name[i]>>, x), h.node[x].type = "object"
          PROVE  Goal(S[h][x])
        BY <2>2, WalkBelow
    <2> QED  BY <1>4, <2>1, <2>2
<1>5. ASSUME made.ok
      PROVE  /\ MadeFor(h, made, m, R, d) /\ DotInner(h, inner, m, R, d, v, name, i + 1, l)
             /\ Walking(made, inner, m, name, i + 1, l, v)
    <2>1. PICK x, y : x = made /\ y = m
        OBVIOUS
    <2>2. MadeOf(h, x, y, R, d, "object")
        <3>1. "object" \in Containers /\ x.ok /\ x = json_value_init(h, Container("object")) /\ y = x.value
            BY <1>5, <2>1 DEF Containers
        <3> QED  BY <1>2, <3>1, NewContainerIs
    <2>3. DotInner(h, S[x][y], y, R, d, v, name, i + 1, l)
        BY <2>2, DotInnerIs
    <2>4. MadeFor(h, x, y, R, d) /\ Storable(x, R \cup {y}, d, y, v)
        BY <2>2, MadeForIs
    <2>5. Walking(x, S[x][y], y, name, i + 1, l, v)
        BY <2>4 DEF Walks
    <2> QED  BY <2>1, <2>3, <2>4, <2>5
<1> HIDE DEF made, u, m, inner
<1>6. ASSUME made.ok, ~inner.ok PROVE Goal(Abandon(inner, m))
    <2>1. Spares(h.node, made.node) /\ Spares(made.node, inner.node) /\ Exist(h.node) \subseteq Exist(made.node)
        BY <1>5, <1>6 DEF MadeFor, Walking
    <2>2. Spares(h.node, inner.node)
        BY <2>1, SparesOn
    <2>3. Heap(inner, R \cup {m}, d) /\ m \in R \cup {m}
        BY <1>5, <1>6 DEF DotInner
    <2>4. Spares(h.node, Abandon(inner, m).node) /\ ~Abandon(inner, m).ok
        BY <2>2, <2>3, AbandonSpares, AbandonIs
    <2> QED  BY <2>4 DEF Walking
<1> HIDE DEF Goal
<1>7. ASSUME u = NULL, made.ok, inner.ok, added.ok PROVE Goal(added)
    <2>1. /\ first \in Keys /\ Walked(made.node, inner.node, m, name, i + 1, l, v)
          /\ json_object_get_value(h.node, p, <<name[i]>>) = NULL
        BY <1>2, <1>5, <1>7 DEF Walking, u
    <2>2. Walked(h.node, added.node, p, name, i, l, v)
        BY <1>5, <1>7, <2>1, WalkAdded
    <2> QED  BY <1>7, <2>2 DEF Goal, Walking
<1>8. ASSUME made.ok, inner.ok, ~added.ok PROVE Goal(Abandon(undone, m))
    <2>1. PICK j \in Nat : j = i + 1 /\ j <= l
        OBVIOUS
    <2>2. /\ DotInner(h, inner, m, R, d, v, name, j, l) /\ MadeFor(h, made, m, R, d)
          /\ Walked(made.node, inner.node, m, name, j, l, v)
        BY <1>5, <1>8, <2>1 DEF Walking
    <2>3. DotAdded(h, inner, added, R, d, p, v, m, first)
        <3> HIDE DEF first
        <3> QED  BY <1>2, <1>8, <2>2, DotAddedIs
    <2> HIDE DEF added, first
    <2>4. Leads(added.node, m, name, j, l, v)
        BY <1>8, <2>1, <2>2, <2>3, DotStillLeads
    <2>5. Undone(added, undone, (R \ {v}) \cup {m}, d, m, v)
        <3>1. Heap(added, (R \ {v}) \cup {m}, d) /\ m \in Values
            BY <1>8, <2>2, <2>3 DEF DotAdded, Adds, DotInner
        <3>2. Leads(added.node, m, name, i + 1, l, v)
            BY <2>1, <2>4
        <3> QED  BY <1>2, <3>1, <3>2, UndoIs
    <2> HIDE DEF undone
    <2>6. Spares(h.node, Abandon(undone, m).node)
        BY <1>8, <2>1, <2>2, <2>3, <2>5, WalkUndone
    <2>7. ~Abandon(undone, m).ok
        <3>1. PICK Z : Heap(undone, Z, d) /\ m \in Z
            BY <2>5 DEF Undone
        <3> QED  BY <3>1, AbandonIs
    <2> QED  BY <2>6, <2>7 DEF Goal, Walking
<1> HIDE DEF added, undone, r
<1>9. Goal(r)
    BY <1>1, <1>3, <1>4, <1>6, <1>7, <1>8
<1> QED  BY <1>9 DEF Goal, r

LEMMA PartsAreWalked ==
    ASSUME NEW name \in Keys, NEW v, NEW l \in Nat \ {0}, Long(name, l), NEW set,
           \A i \in 1 .. l : set[i] = DotRow(set[i + 1], name, v, i)
    PROVE  Walks(set[1], name, 1, l, v)
<1>1. Stores(set[l], name, l, l, v) /\ Walks(set[l], name, l, l, v)
    <2>1. PICK S : S = set[l]
        OBVIOUS
    <2>2. l \in 1 .. l /\ l = Len(name)
        BY DEF Long
    <2>3. S = DotRow(set[l + 1], name, v, l)
        BY <2>1, <2>2
    <2>4. \A g \in Heaps : \A p \in Values : S[g][p] = json_object_set_value(g, p, <<name[l]>>, v)
        BY <2>2, <2>3 DEF DotRow
    <2> QED  BY <2>1, <2>4, LastPartIs, LastWalks
<1>2. ASSUME NEW i \in 1 .. l, i # l, Stores(set[i + 1], name, i + 1, l, v),
             Walks(set[i + 1], name, i + 1, l, v)
      PROVE  Stores(set[i], name, i, l, v) /\ Walks(set[i], name, i, l, v)
    <2>1. PICK S : S = set[i + 1]
        OBVIOUS
    <2>2. i \in Nat \ {0} /\ l \in Nat /\ i < l /\ i # Len(name)
        BY <1>2 DEF Long
    <2>3. set[i] = DotRow(S, name, v, i)
        BY <2>1
    <2>4. \A g \in Heaps : \A p \in Values : set[i][g][p] = DotSetPart(S, g, p, name, i)
        BY <2>2, <2>3 DEF DotRow
    <2>5. Stores(S, name, i + 1, l, v) /\ Walks(S, name, i + 1, l, v)
        BY <1>2, <2>1
    <2>6. ASSUME NEW g, NEW R, NEW d, NEW p, Storable(g, R, d, p, v)
          PROVE  /\ Stored(g, set[i][g][p], R, d, p, v, name, i, l)
                 /\ Walking(g, set[i][g][p], p, name, i, l, v)
        <3>1. g \in Heaps /\ p \in Values
            BY <2>6 DEF Storable, Heap
        <3>2. /\ Stored(g, DotSetPart(S, g, p, name, i), R, d, p, v, name, i, l)
              /\ Walking(g, DotSetPart(S, g, p, name, i), p, name, i, l, v)
            BY <2>2, <2>5, <2>6, DotPartIs, DotPartWalks
        <3> QED  BY <2>4, <3>1, <3>2
    <2> QED  BY <2>6 DEF Stores, Walks
<1> DEFINE Good(i) == Stores(set[i], name, i, l, v) /\ Walks(set[i], name, i, l, v)
           Bad == {m \in 0 .. l - 1 : ~Good(l - m)}
<1>3. Good(l) /\ \A i \in 1 .. l : i # l /\ Good(i + 1) => Good(i)
    BY <1>1, <1>2
<1> HIDE DEF Good
<1>4. Bad = {}
    <2>1. SUFFICES ASSUME Bad # {} PROVE FALSE
        OBVIOUS
    <2>2. Bad \in SUBSET Nat
        OBVIOUS
    <2>3. PICK m \in Bad : \A n \in Bad : m <= n
        <3> HIDE DEF Bad
        <3> QED  BY <2>1, <2>2, LeastExists
    <2>4. m # 0 /\ m \in 0 .. l - 1
        BY <1>3
    <2>5. PICK n \in 0 .. l - 1 : n = m - 1
        BY <2>4
    <2>6. n \notin Bad
        BY <2>3, <2>4, <2>5
    <2>7. PICK k \in 1 .. l : k = l - m /\ k # l /\ l - n = k + 1
        BY <2>4, <2>5
    <2> QED  BY <1>3, <2>3, <2>6, <2>7
<1>5. l - 1 \in 0 .. l - 1 /\ l - (l - 1) = 1
    OBVIOUS
<1> QED  BY <1>4, <1>5 DEF Good

LEMMA DotSetWalks ==
    ASSUME NEW h, NEW R, NEW d, NEW o, NEW v, Storable(h, R, d, o, v),
           NEW name \in Keys, NEW l \in Nat \ {0}, Long(name, l)
    PROVE  Walking(h, json_object_dotset_value(h, o, name, v), o, name, 1, l, v)
<1>1. v # NULL
    BY ValuesAssumption DEF Storable, Exist
<1>2. PICK set : /\ json_object_dotset_value(h, o, name, v) = set[1][h][o]
                 /\ \A i \in 1 .. l : set[i] = DotRow(set[i + 1], name, v, i)
    BY <1>1, DotValueIs
<1>3. Walks(set[1], name, 1, l, v)
    BY <1>2, PartsAreWalked
<1> QED  BY <1>2, <1>3 DEF Walks

-----------------------------------------------------------------------------
(* The same in the words of JsonDoc. *)

LEMMA DocSame ==
    /\ \A s : Doc!ToSet(s) = ToSet(s)
    /\ \A f : Doc!IsInjective(f) <=> IsInjective(f)
BY DEF Doc!ToSet, ToSet, Doc!IsInjective, IsInjective

OldIn(c, u) == IF u \in DOMAIN c THEN c[u].object ELSE <<>>

DotsWith(d, c, at, name, l, v) ==
    /\ DOMAIN d = DOMAIN c \cup ToSet(at)
    /\ \A u \in DOMAIN c \ ToSet(at) : d[u] = c[u]
    /\ \A i \in 1 .. l :
          d[at[i]] = [object |-> Doc!Added(OldIn(c, at[i]), <<name[i]>>,
                                           IF i = Len(name) THEN v ELSE at[i + 1])]

LEMMA DotWithIs ==
    ASSUME NEW c, NEW name, NEW l \in Nat, NEW at, DOMAIN at = 1 .. l, IsInjective(at), NEW v,
           NEW d, d = Doc!DotWith(c, at, name, v)
    PROVE  DotsWith(d, c, at, name, l, v)
<1> DEFINE N(i) == IF i = Len(name) THEN v ELSE at[i + 1]
           P(u) == CHOOSE i \in DOMAIN at : at[i] = u
           F(u) == [object |-> Doc!Added(OldIn(c, u), <<name[P(u)]>>, N(P(u)))]
<1>1. d = [u \in DOMAIN c \cup ToSet(at) |-> IF u \in ToSet(at) THEN F(u) ELSE c[u]]
    <2>1. d = [u \in DOMAIN c \cup Doc!ToSet(at) |-> IF u \in Doc!ToSet(at) THEN F(u) ELSE c[u]]
        BY Zenon DEF Doc!DotWith, OldIn
    <2>2. Doc!ToSet(at) = ToSet(at)
        BY DocSame
    <2> HIDE DEF F
    <2> QED  BY <2>1, <2>2
<1>2. ASSUME NEW i \in 1 .. l PROVE P(at[i]) = i /\ at[i] \in ToSet(at)
    <2>1. \E j \in DOMAIN at : at[j] = at[i]
        OBVIOUS
    <2>2. P(at[i]) \in DOMAIN at /\ at[P(at[i])] = at[i]
        BY <2>1
    <2> HIDE DEF P
    <2> QED  BY <2>2 DEF IsInjective, ToSet
<1> HIDE DEF P
<1>3. \A i \in 1 .. l : F(at[i]) = [object |-> Doc!Added(OldIn(c, at[i]), <<name[i]>>, N(i))]
    BY <1>2, Zenon
<1> HIDE DEF F, N
<1>4. \A i \in 1 .. l : d[at[i]] = F(at[i])
    BY <1>1, <1>2
<1>5. /\ DOMAIN d = DOMAIN c \cup ToSet(at)
      /\ \A u \in DOMAIN c \ ToSet(at) : d[u] = c[u]
    BY <1>1
<1>6. \A i \in 1 .. l : d[at[i]] = [object |-> Doc!Added(OldIn(c, at[i]), <<name[i]>>, N(i))]
    BY <1>3, <1>4, Zenon
<1> QED  BY <1>5, <1>6, Zenon DEF N, DotsWith

\* What an object holds.
LEMMA TellsObject ==
    ASSUME NEW nd, NEW R, Sound(nd, R), NEW c, Tells(nd, c), NEW o \in Exist(nd), nd[o].type = "object"
    PROVE  /\ o \in DOMAIN c /\ c[o] = [object |-> Members(nd[o])] /\ c[o].object = Members(nd[o])
           /\ o \in Doc!ObjectsOf(c)
<1>1. nd[o] \in Nodes /\ o \in DOMAIN c /\ c[o] = Holds(nd[o])
    BY SoundNodes DEF Tells
<1>2. Holds(nd[o]) = [object |-> Members(nd[o])]
    BY <1>1, HoldsIs
<1>3. "object" \in DOMAIN [object |-> Members(nd[o])]
    OBVIOUS
<1> QED  BY <1>1, <1>2, <1>3 DEF Doc!ObjectsOf, Doc!IsObject

LEMMA WalkedRoad ==
    ASSUME NEW nd, NEW R, Sound(nd, R), NEW md, NEW name, NEW l \in Nat \ {0}, Long(name, l), NEW v,
           NEW at, Way(nd, md, at, name, 1, l, v), NEW c, Tells(nd, c), DOMAIN c = Exist(nd),
           NEW new, Exist(md) \ Exist(nd) \subseteq new
    PROVE  at \in Doc!Roads(c, at[1], name, new)
<1>1. /\ at \in [1 .. l -> Values] /\ IsInjective(at) /\ Len(name) = l
      /\ Got(nd, md, at[l], <<name[l]>>, v)
      /\ \A j \in 1 .. l : j # l => /\ Got(nd, md, at[j], <<name[j]>>, at[j + 1])
                                    /\ Next_(nd, at[j], <<name[j]>>, at[j + 1])
    BY DEF Way, Long
<1>2. ASSUME NEW j \in 1 .. l
      PROVE  /\ at[j] \in Exist(nd) => nd[at[j]].type = "object"
             /\ at[j] \notin Exist(nd) => at[j] \in new
    <2>1. at[j] \in Values /\ md[at[j]].type = "object" /\ (at[j] \in Exist(nd) => nd[at[j]].type = "object")
        BY <1>1 DEF Got
    <2> QED  BY <2>1 DEF Exist
<1>3. ASSUME NEW j \in 1 .. l PROVE at[j] \in Doc!ObjectsOf(c) \cup new
    BY <1>2, TellsObject
<1>4. ASSUME NEW i \in 1 .. l - 1
      PROVE  IF at[i] \in DOMAIN c /\ <<name[i]>> \in DOMAIN c[at[i]].object
             THEN at[i + 1] = c[at[i]].object[<<name[i]>>]
             ELSE at[i + 1] \in new
    <2>1. PICK j \in 1 .. l : j = i /\ j # l
        OBVIOUS
    <2>2. PICK y : y = at[j + 1]
        OBVIOUS
    <2>3. PICK x \in Values : x = at[j]
        BY <1>1
    <2>4. PICK key : key = <<name[j]>>
        OBVIOUS
    <2>5. Next_(nd, x, key, y) /\ (x \in Exist(nd) => nd[x].type = "object")
        BY <1>1, <1>2, <2>1, <2>2, <2>3, <2>4
    <2>6. y \notin Exist(nd) => y \in new
        <3>1. PICK k \in 1 .. l : k = j + 1
            BY <2>1
        <3> QED  BY <1>2, <2>2, <3>1
    <2>7. IF x \in DOMAIN c /\ key \in DOMAIN c[x].object THEN y = c[x].object[key] ELSE y \in new
        <3>1. CASE x \in Exist(nd)
            <4>1. c[x].object = Members(nd[x])
                BY <2>5, <3>1, TellsObject
            <4>2. /\ json_object_get_value(nd, x, key) # NULL <=> key \in DOMAIN Members(nd[x])
                  /\ key \in DOMAIN Members(nd[x]) =>
                        json_object_get_value(nd, x, key) = Members(nd[x])[key]
                BY <2>5, <3>1, GetMembers
            <4> QED  BY <2>5, <2>6, <3>1, <4>1, <4>2 DEF Next_
        <3>2. CASE x \notin Exist(nd)
            BY <2>5, <2>6, <3>2 DEF Next_
        <3> QED  BY <3>1, <3>2
    <2> QED  BY <2>1, <2>2, <2>3, <2>4, <2>7
<1>5. at \in [1 .. Len(name) -> Doc!ObjectsOf(c) \cup new]
    BY <1>1, <1>3
<1>6. Doc!IsInjective(at)
    BY <1>1, DocSame
<1> QED  BY <1>1, <1>4, <1>5, <1>6, Zenon DEF Doc!Roads

LEMMA WalkedTells ==
    ASSUME NEW nd, NEW R, Sound(nd, R), NEW md, NEW Q, Sound(md, Q),
           NEW name, NEW l \in Nat \ {0}, Long(name, l), NEW v,
           NEW at, Way(nd, md, at, name, 1, l, v), Aside(nd, md, ToSet(at)),
           NEW c, Tells(nd, c), DOMAIN c = Exist(nd)
    PROVE  Tells(md, Doc!DotWith(c, at, name, v))
<1> DEFINE d == Doc!DotWith(c, at, name, v)
<1>1. /\ at \in [1 .. l -> Values] /\ IsInjective(at) /\ Len(name) = l
      /\ Got(nd, md, at[l], <<name[l]>>, v)
      /\ \A j \in 1 .. l : j # l => Got(nd, md, at[j], <<name[j]>>, at[j + 1])
    BY DEF Way, Long
<1>2. /\ DOMAIN d = DOMAIN c \cup ToSet(at)
      /\ \A u \in DOMAIN c \ ToSet(at) : d[u] = c[u]
      /\ \A i \in 1 .. l :
            d[at[i]] = [object |-> Doc!Added(OldIn(c, at[i]), <<name[i]>>,
                                             IF i = Len(name) THEN v ELSE at[i + 1])]
    <2>1. DOMAIN at = 1 .. l /\ IsInjective(at) /\ l \in Nat
        BY <1>1
    <2>2. PICK x : x = d
        OBVIOUS
    <2> HIDE DEF d
    <2>3. x = Doc!DotWith(c, at, name, v)
        BY <2>2 DEF d
    <2>4. DotsWith(x, c, at, name, l, v)
        BY <2>1, <2>3, DotWithIs
    <2> QED  BY <2>2, <2>4, Zenon DEF DotsWith
<1> HIDE DEF d
<1>3. ASSUME NEW i \in 1 .. l PROVE d[at[i]] = Holds(md[at[i]])
    <2>1. PICK y : y = IF i = Len(name) THEN v ELSE at[i + 1]
        OBVIOUS
    <2>2. PICK x \in Values : x = at[i]
        BY <1>1
    <2>3. PICK key : key = <<name[i]>>
        OBVIOUS
    <2>4. Got(nd, md, x, key, y)
        BY <1>1, <2>1, <2>2, <2>3
    <2>5. OldIn(c, x) = Old(nd, x)
        <3>1. CASE x \in Exist(nd)
            <4>1. c[x].object = Members(nd[x])
                BY <2>4, <3>1, TellsObject DEF Got
            <4> QED  BY <3>1, <4>1 DEF OldIn, Old
        <3>2. CASE x \notin Exist(nd)
            BY <3>2 DEF OldIn, Old
        <3> QED  BY <3>1, <3>2
    <2>6. d[x] = [object |-> Doc!Added(OldIn(c, x), key, y)]
        BY <1>2, <2>1, <2>2, <2>3, Zenon
    <2>7. md[x].type = "object" /\ Members(md[x]) = Doc!Added(Old(nd, x), key, y)
        BY <2>4 DEF Got
    <2>8. Holds(md[x]) = [object |-> Members(md[x])]
        <3>1. md[x] \in Nodes
            BY SoundNodes
        <3> QED  BY <2>7, <3>1, HoldsIs
    <2> QED  BY <2>2, <2>5, <2>6, <2>7, <2>8, Zenon
<1>4. ASSUME NEW u \in Exist(md) PROVE u \in DOMAIN d /\ d[u] = Holds(md[u])
    <2>1. CASE u \in ToSet(at)
        <3>1. PICK i \in 1 .. l : u = at[i]
            BY <1>1, <2>1 DEF ToSet
        <3> QED  BY <1>2, <1>3, <2>1, <3>1
    <2>2. CASE u \notin ToSet(at)
        <3>1. u \in Values /\ md[u].type # "free" /\ nd[u] \in Nodes
            BY SoundNodes
        <3>2. Alike(nd[u], md[u])
            BY <2>2, <3>1 DEF Aside, Unused
        <3>3. nd[u].type # "free"
            BY <3>1, <3>2 DEF Alike, SameData
        <3>4. Holds(md[u]) = Holds(nd[u])
            BY <3>1, <3>2, <3>3, AlikeHolds
        <3>5. u \in Exist(nd) /\ c[u] = Holds(nd[u])
            BY <3>1, <3>3 DEF Exist, Tells
        <3> QED  BY <1>2, <2>2, <3>4, <3>5
    <2> QED  BY <2>1, <2>2
<1> QED  BY <1>4 DEF Tells, d

-----------------------------------------------------------------------------
(* Arrays, as JsonDoc has them. *)

\* The array a has the items s.
Itemed(nd, md, a, s) == Others(nd, md, a) /\ md[a].type = "array" /\ md[a].values = s

ArrayIn(c, a, s) == a \in DOMAIN c /\ c[a] = [array |-> s]

\* It has the items s in d.
ItemsIn(c, d, a, s) == Recast(c, d, a, [array |-> s])

LEMMA TellsArray ==
    ASSUME NEW nd, NEW R, Sound(nd, R), NEW c, Tells(nd, c), NEW a \in Values, nd[a].type = "array"
    PROVE  ArrayIn(c, a, nd[a].values) /\ a \in Doc!ArraysOf(c) /\ a \in Exist(nd)
<1>1. a \in Exist(nd)
    BY DEF Exist
<1>2. nd[a] \in Nodes /\ a \in DOMAIN c /\ c[a] = Holds(nd[a])
    BY <1>1, SoundNodes DEF Tells
<1>3. Holds(nd[a]) = [array |-> nd[a].values]
    BY <1>2, HoldsIs
<1>4. "array" \in DOMAIN [array |-> nd[a].values]
    OBVIOUS
<1> QED  BY <1>1, <1>2, <1>3, <1>4 DEF Doc!ArraysOf, Doc!IsArray, ArrayIn

LEMMA ItemsTell ==
    ASSUME NEW nd, NEW R, Sound(nd, R), NEW md, NEW Q, Sound(md, Q),
           NEW a \in Values, nd[a].type = "array", NEW s, Itemed(nd, md, a, s),
           NEW c, Tells(nd, c), NEW d, ItemsIn(c, d, a, s)
    PROVE  Tells(md, d)
<1>1. nd \in [Values -> Nodes] /\ a \in DOMAIN c
    BY TellsArray DEF Sound, ArrayIn
<1>2. md[a] \in Nodes /\ md[a].type = "array" /\ md[a].values = s
    BY SoundNodes DEF Itemed
<1>3. Holds(md[a]) = [array |-> s]
    BY <1>2, HoldsIs
<1>4. Others(nd, md, a)
    BY DEF Itemed
<1>5. PICK x : Recast(c, d, a, x) /\ x = Holds(md[a])
    BY <1>3 DEF ItemsIn
<1> QED  BY <1>1, <1>4, <1>5, OneTells

LEMMA AppendedIn ==
    ASSUME NEW c, NEW a, NEW s, ArrayIn(c, a, s), NEW v,
           NEW d, d = [c EXCEPT ![a].array = Append(@, v)]
    PROVE  ItemsIn(c, d, a, Append(s, v))
<1>1. PICK x : x = c[a]
    OBVIOUS
<1>2. x = [array |-> s] /\ a \in DOMAIN c
    BY <1>1 DEF ArrayIn
<1>3. [x EXCEPT !.array = Append(@, v)] = [array |-> Append(s, v)]
    BY <1>2
<1>4. d = [c EXCEPT ![a] = [x EXCEPT !.array = Append(@, v)]]
    BY <1>1
<1> QED  BY <1>2, <1>3, <1>4 DEF ItemsIn, Recast

LEMMA PutAt ==
    ASSUME NEW c, NEW a, NEW s, ArrayIn(c, a, s), NEW i, NEW v,
           NEW d, d = [c EXCEPT ![a].array[i] = v]
    PROVE  ItemsIn(c, d, a, [s EXCEPT ![i] = v])
<1>1. PICK x : x = c[a]
    OBVIOUS
<1>2. x = [array |-> s] /\ a \in DOMAIN c
    BY <1>1 DEF ArrayIn
<1>3. [x EXCEPT !.array[i] = v] = [array |-> [s EXCEPT ![i] = v]]
    BY <1>2
<1>4. d = [c EXCEPT ![a] = [x EXCEPT !.array[i] = v]]
    BY <1>1
<1> QED  BY <1>2, <1>3, <1>4 DEF ItemsIn, Recast

LEMMA RemovedAt ==
    ASSUME NEW c, NEW a, NEW s, ArrayIn(c, a, s), NEW i,
           NEW d, d = [c EXCEPT ![a].array = Doc!RemoveAt(@, i)]
    PROVE  ItemsIn(c, d, a, RemoveAt(s, i))
<1>1. PICK x : x = c[a]
    OBVIOUS
<1>2. x = [array |-> s] /\ a \in DOMAIN c
    BY <1>1 DEF ArrayIn
<1>3. Doc!RemoveAt(s, i) = RemoveAt(s, i)
    BY Zenon DEF Doc!RemoveAt, RemoveAt
<1>4. PICK t : t = Doc!RemoveAt(s, i)
    OBVIOUS
<1>5. [x EXCEPT !.array = Doc!RemoveAt(@, i)] = [array |-> t]
    BY <1>2, <1>4
<1>6. d = [c EXCEPT ![a] = [x EXCEPT !.array = Doc!RemoveAt(@, i)]]
    BY <1>1
<1> QED  BY <1>2, <1>3, <1>4, <1>5, <1>6 DEF ItemsIn, Recast

LEMMA AppendPuts ==
    ASSUME NEW h, NEW R, NEW d, Heap(h, R, d), NEW a \in Values, h.node[a].type = "array",
           NEW v \in Exist(h.node), v \in R => a \notin Tree(h.node, v),
           NEW r, r = json_array_append_value(h, a, v)
    PROVE  /\ ~r.ok => Spares(h.node, r.node)
           /\ r.ok  => Itemed(h.node, r.node, a, Append(h.node[a].values, v))
<1>1. h \in Heaps /\ h.node \in [Values -> Nodes] /\ "array" \in Containers
    BY DEF Heap, Sound, Containers
<1>2. CASE ~HasNoParent(h, v)
    <2>1. r.node = h.node /\ ~r.ok
        BY <1>1, <1>2, FailedIs DEF json_array_append_value
    <2> QED  BY <2>1 DEF Spares
<1>3. CASE HasNoParent(h, v)
    <2>1. v \in R
        BY <1>3, NoParentIs
    <2>2. Adds(h, json_array_add(h, a, v), R, d, a, v) /\ r = json_array_add(h, a, v)
        BY <1>3, <2>1, ArrayAddIs DEF json_array_append_value
    <2>3. ASSUME ~r.ok PROVE Spares(h.node, r.node)
        <3>1. Roomy(h.node, r.node, a)
            BY <2>2, <2>3 DEF Adds
        <3> QED  BY <1>1, <3>1, RoomySpares
    <2>4. ASSUME r.ok PROVE Itemed(h.node, r.node, a, Append(h.node[a].values, v))
        <3>1. Joined(h.node, r.node, a, v)
            BY <2>2, <2>4 DEF Adds
        <3>2. Others(h.node, r.node, a)
            BY <1>1, <3>1, JoinedOthers
        <3> QED  BY <3>1, <3>2 DEF Itemed, Joined
    <2> QED  BY <2>3, <2>4
<1> QED  BY <1>2, <1>3

LEMMA ReplacePuts ==
    ASSUME NEW h, NEW R, NEW d, Heap(h, R, d), h.ok, NEW a \in Values, h.node[a].type = "array",
           NEW i \in Nat \ {0}, NEW v \in Exist(h.node), v \in R => a \notin Tree(h.node, v),
           NEW r, r = json_array_replace_value(h, a, i, v)
    PROVE  /\ ~r.ok => Spares(h.node, r.node)
           /\ r.ok  => /\ i \in DOMAIN h.node[a].values
                       /\ Itemed(h.node, r.node, a, [h.node[a].values EXCEPT ![i] = v])
<1>1. /\ h \in Heaps /\ h.node \in [Values -> Nodes] /\ "array" \in Containers
      /\ h.node[a].values \in Seq(Values)
    <2>1. h.node \in [Values -> Nodes] /\ "array" \in Containers
        BY DEF Heap, Sound, Containers
    <2>2. h.node[a].values \in Seq(Values)
        BY <2>1, ContainerIs
    <2> QED  BY <2>1, <2>2 DEF Heap
<1>2. PICK s \in Seq(Values) : s = h.node[a].values
    BY <1>1
<1>3. CASE ~(HasNoParent(h, v) /\ i <= Len(s))
    <2>1. r = Failed(h)
        BY <1>2, <1>3 DEF json_array_replace_value
    <2>2. r.node = h.node /\ ~r.ok
        BY <1>1, <2>1, FailedIs
    <2> QED  BY <2>2 DEF Spares
<1>4. CASE HasNoParent(h, v) /\ i <= Len(s)
    <2>1. v \in R
        BY <1>4, NoParentIs
    <2>2. i \in 1 .. Len(s) /\ i \in DOMAIN s
        BY <1>4
    <2>3. r = Put(json_value_free(h, h.node[a].values[i]), a, i, v)
        BY <1>2, <1>4 DEF json_array_replace_value
    <2>4. /\ r.ok /\ Others(h.node, r.node, a) /\ r.node[a].type = h.node[a].type
          /\ r.node[a].values = [h.node[a].values EXCEPT ![i] = v]
        BY <1>1, <1>2, <2>1, <2>2, <2>3, PutIs
    <2> QED  BY <1>2, <2>2, <2>4 DEF Itemed
<1> QED  BY <1>3, <1>4

-----------------------------------------------------------------------------
(* The calls that take a value. *)

LEMMA ReturnEnds ==
    ASSUME IInv, NEW r, NEW S, Return(r, S), EndsIn(r, held, S), ~r.ok => Spares(node, r.node)
    PROVE  Doc!Fails \/ (r.ok /\ Ended(r, S))
<1>1. node' = Forget(r.node) /\ ok' = r.ok /\ held' = IF r.ok THEN S ELSE held
    BY DEF Return
<1>2. r \in Heaps
    BY DEF EndsIn, Heap
<1>3. r.ok \in BOOLEAN
    BY <1>2, HeapFields
<1>4. CASE r.ok
    <2>1. Sound(r.node, S)
        BY <1>4 DEF EndsIn, Heap
    <2> QED  BY <1>1, <1>3, <1>4, <2>1 DEF Ended
<1>5. CASE ~r.ok
    <2>1. Sound(r.node, held) /\ Spares(node, r.node)
        BY <1>5 DEF EndsIn, Heap
    <2> QED  BY <1>1, <1>3, <1>5, <2>1, FailedEnds
<1> QED  BY <1>4, <1>5

\* The call took the value v.
Taken(r, p, v) == r.ok /\ v \in held /\ Ended(r, held \ {v}) /\ NotBelow(p, v)

LEMMA GivenEnds ==
    ASSUME IInv, NEW p, NEW v, NotBelow(p, v), NEW run, Calls(run, held \ {v}),
           \A m \in Memory : Sets(Call(m), run[m], held, 0, p, v),
           \A m \in Memory : ~run[m].ok => Spares(node, run[m].node)
    PROVE  Doc!Fails \/ \E m \in Memory : Taken(run[m], p, v)
<1>1. \A m \in Memory : EndsIn(run[m], held, held \ {v})
    BY SetsEnds
<1>2. Doc!Fails \/ \E m \in Memory : run[m].ok /\ Ended(run[m], held \ {v})
    BY <1>1, CallsEnd
<1>3. \A m \in Memory : run[m].ok => v \in held
    BY DEF Sets
<1> QED  BY <1>2, <1>3 DEF Taken

LEMMA TakenNext ==
    ASSUME NEW r, NEW p, NEW v, Taken(r, p, v),
           Doc!SetValue(v) \/ Doc!DotSet(v) \/ Doc!AppendValue(v) \/ Doc!ReplaceValue(v)
    PROVE  Doc!Next
<1>1. v \in held \ held'
    BY DEF Taken, Ended
<1> QED  BY <1>1 DEF Doc!Gives, Doc!Next

LEMMA TakenEnters ==
    ASSUME IInv, NEW r, NEW p, NEW v, Taken(r, p, v)
    PROVE  /\ Doc!CanEnter(v, p)
           /\ \A c : Tells(r.node, c) => Doc!Becomes(c, held \ {v})
<1>1. Sound(node, held) /\ v \in Exist(node) /\ Tells(node, content)
    BY ContentIs, SoundNodes DEF IInv, Taken
<1>2. Doc!Reach(content, {v}, Tree(node, v)) /\ Tree(node, v) \subseteq DOMAIN content
    BY <1>1, ReachTree
<1>3. p \notin Tree(node, v)
    BY DEF Taken, NotBelow
<1>4. Doc!CanEnter(v, p)
    BY <1>2, <1>3 DEF Doc!CanEnter
<1>5. \A c : Tells(r.node, c) => Doc!Becomes(c, held \ {v})
    BY EndedIs DEF Taken
<1> QED  BY <1>4, <1>5

\* What a call finds.
LEMMA GivenHeap ==
    ASSUME IInv, NEW m \in Memory, NEW c, NEW v \in Live, NotBelow(c, v), NEW h, h = Call(m)
    PROVE  /\ Heap(h, held, 0) /\ h.ok /\ h.node = node /\ v \in Exist(h.node)
           /\ v \in held => c \notin Tree(h.node, v)
BY CallIs, Given, MemoryIsNat DEF NotBelow

LEMMA GivenDoc ==
    ASSUME IInv
    PROVE  /\ Sound(node, held) /\ Tells(node, content) /\ DOMAIN content = Exist(node)
           /\ \A o \in Objects : o \in Doc!Objects /\ content[o].object = Members(node[o])
           /\ \A a \in Arrays : a \in Doc!Arrays /\ ArrayIn(content, a, node[a].values)
<1>1. Sound(node, held) /\ Tells(node, content) /\ DOMAIN content = Exist(node)
    BY ContentIs DEF IInv, Live
<1>2. ASSUME NEW o \in Objects PROVE o \in Doc!Objects /\ content[o].object = Members(node[o])
    <2>1. o \in Exist(node) /\ node[o].type = "object"
        BY Given
    <2> QED  BY <1>1, <2>1, TellsObject DEF Doc!Objects
<1>3. ASSUME NEW a \in Arrays PROVE a \in Doc!Arrays /\ ArrayIn(content, a, node[a].values)
    <2>1. a \in Values /\ node[a].type = "array"
        BY Given
    <2> QED  BY <1>1, <2>1, TellsArray DEF Doc!Arrays
<1> QED  BY <1>1, <1>2, <1>3

LEMMA SetValueDoc ==
    ASSUME IInv, SetValue
    PROVE  Doc!Next
<1>1. PICK o \in Objects, name \in Names, v \in Live :
         /\ NotBelow(o, v)
         /\ Calls([m \in Memory |-> json_object_set_value(Call(m), o, name, v)], held \ {v})
    BY DEF SetValue
<1> DEFINE run == [m \in Memory |-> json_object_set_value(Call(m), o, name, v)]
<1>2. o \in Values /\ o \in Exist(node) /\ node[o].type = "object" /\ name \in Keys
    BY Given
<1>3. ASSUME NEW m \in Memory
      PROVE  /\ Sets(Call(m), run[m], held, 0, o, v)
             /\ ~run[m].ok => Spares(node, run[m].node)
             /\ run[m].ok  => Puts(node, run[m].node, o, name, v)
    <2>1. PICK h : h = Call(m)
        OBVIOUS
    <2>2. PICK r : r = json_object_set_value(h, o, name, v)
        OBVIOUS
    <2>3. /\ Heap(h, held, 0) /\ h.ok /\ h.node = node /\ v \in Exist(h.node)
          /\ v \in held => o \notin Tree(h.node, v)
        BY <1>1, <2>1, GivenHeap
    <2>4. Sets(h, r, held, 0, o, v)
        BY <1>2, <2>2, <2>3, SetIs
    <2>5. /\ ~r.ok => Spares(h.node, r.node)
          /\ r.ok  => Puts(h.node, r.node, o, name, v)
        BY <1>2, <2>2, <2>3, SetPuts
    <2>6. run[m] = r
        BY <2>1, <2>2
    <2> HIDE DEF run
    <2> QED  BY <2>1, <2>3, <2>4, <2>5, <2>6
<1>4. Calls(run, held \ {v})
    BY <1>1
<1> HIDE DEF run
<1>5. Doc!Fails \/ \E m \in Memory : Taken(run[m], o, v)
    BY <1>1, <1>3, <1>4, GivenEnds
<1>6. ASSUME NEW m \in Memory, Taken(run[m], o, v) PROVE Doc!Next
    <2>1. PICK r : r = run[m] /\ Taken(r, o, v) /\ Puts(node, r.node, o, name, v)
        BY <1>3, <1>6 DEF Taken
    <2>2. Tells(r.node, Doc!With(content, o, name, v))
        <3>1. Sound(r.node, held \ {v})
            BY <2>1 DEF Taken, Ended
        <3> QED  BY <1>2, <2>1, <3>1, GivenDoc, PutsTell
    <2>3. Doc!SetValue(v)
        BY <1>1, <2>1, <2>2, TakenEnters, GivenDoc DEF Doc!SetValue
    <2> QED  BY <2>1, <2>3, TakenNext
<1> QED  BY <1>5, <1>6 DEF Doc!Next

\* The road of a dotted name that was stored: what is new on it exists now.
LEMMA WalkedDoc ==
    ASSUME NEW nd, NEW R, Sound(nd, R), NEW md, NEW Q, Sound(md, Q), NEW o, NEW name, NEW v,
           NEW l \in Nat \ {0}, Long(name, l), Walked(nd, md, o, name, 1, l, v),
           NEW c, Tells(nd, c), DOMAIN c = Exist(nd), NEW new, Exist(md) \ Exist(nd) \subseteq new
    PROVE  \E at \in Doc!Roads(c, o, name, new) : Tells(md, Doc!DotWith(c, at, name, v))
<1>1. PICK at : Way(nd, md, at, name, 1, l, v) /\ at[1] = o /\ Aside(nd, md, ToSet(at))
    BY DEF Walked
<1>2. at \in Doc!Roads(c, at[1], name, new)
    BY <1>1, WalkedRoad
<1>3. Tells(md, Doc!DotWith(c, at, name, v))
    BY <1>1, WalkedTells
<1> QED  BY <1>1, <1>2, <1>3

LEMMA DotSetDoc ==
    ASSUME IInv, DotSet
    PROVE  Doc!Next
<1>1. PICK o \in Objects, name \in Names, v \in Live :
         /\ NotBelow(o, v)
         /\ Calls([m \in Memory |-> json_object_dotset_value(Call(m), o, name, v)], held \ {v})
    BY DEF DotSet
<1> DEFINE run == [m \in Memory |-> json_object_dotset_value(Call(m), o, name, v)]
<1>2. o \in Values /\ o \in Exist(node) /\ node[o].type = "object" /\ name \in Keys /\ Len(name) > 0
    BY Given
<1>3. PICK l \in Nat \ {0} : Long(name, l)
    BY <1>2 DEF Long, Keys
<1>4. ASSUME NEW m \in Memory
      PROVE  /\ Sets(Call(m), run[m], held, 0, o, v)
             /\ ~run[m].ok => Spares(node, run[m].node)
             /\ run[m].ok  => Walked(node, run[m].node, o, name, 1, l, v)
    <2>1. PICK h : h = Call(m)
        OBVIOUS
    <2>2. PICK r : r = json_object_dotset_value(h, o, name, v)
        OBVIOUS
    <2>3. /\ Heap(h, held, 0) /\ h.ok /\ h.node = node /\ v \in Exist(h.node)
          /\ v \in held => o \notin Tree(h.node, v)
        BY <1>1, <2>1, GivenHeap
    <2>4. Sets(h, r, held, 0, o, v)
        BY <1>2, <2>2, <2>3, DotSetIs
    <2>5. Storable(h, held, 0, o, v)
        BY <1>2, <2>3 DEF Storable
    <2>6. Walking(h, r, o, name, 1, l, v)
        BY <1>2, <1>3, <2>2, <2>5, DotSetWalks
    <2>7. run[m] = r
        BY <2>1, <2>2
    <2> HIDE DEF run
    <2> QED  BY <2>1, <2>3, <2>4, <2>6, <2>7 DEF Walking
<1>5. Calls(run, held \ {v})
    BY <1>1
<1> HIDE DEF run
<1>6. Doc!Fails \/ \E m \in Memory : Taken(run[m], o, v)
    BY <1>1, <1>4, <1>5, GivenEnds
<1>7. ASSUME NEW m \in Memory, Taken(run[m], o, v) PROVE Doc!Next
    <2>1. PICK r : r = run[m] /\ Taken(r, o, v) /\ Walked(node, r.node, o, name, 1, l, v)
        BY <1>4, <1>7 DEF Taken
    <2>2. Sound(r.node, held \ {v}) /\ DOMAIN content' = Exist(r.node)
        BY <2>1, EndedIs DEF Taken, Ended
    <2>3. Exist(r.node) \ Exist(node) \subseteq Doc!New
        BY <2>2, GivenDoc DEF Doc!New
    <2>4. PICK new : new = Doc!New
        OBVIOUS
    <2>5. PICK at \in Doc!Roads(content, o, name, new) : Tells(r.node, Doc!DotWith(content, at, name, v))
        <3>1. /\ Sound(node, held) /\ Tells(node, content) /\ DOMAIN content = Exist(node)
              /\ Exist(r.node) \ Exist(node) \subseteq new
            BY <2>3, <2>4, GivenDoc
        <3> QED  BY <1>3, <2>1, <2>2, <3>1, WalkedDoc
    <2>6. Doc!DotSet(v)
        BY <1>1, <2>1, <2>4, <2>5, TakenEnters, GivenDoc DEF Doc!DotSet
    <2> QED  BY <2>1, <2>6, TakenNext
<1> QED  BY <1>6, <1>7 DEF Doc!Next

LEMMA AppendValueDoc ==
    ASSUME IInv, AppendValue
    PROVE  Doc!Next
<1>1. PICK a \in Arrays, v \in Live :
         /\ NotBelow(a, v)
         /\ Calls([m \in Memory |-> json_array_append_value(Call(m), a, v)], held \ {v})
    BY DEF AppendValue
<1> DEFINE run == [m \in Memory |-> json_array_append_value(Call(m), a, v)]
<1>2. a \in Values /\ a \in Exist(node) /\ node[a].type = "array"
    BY Given
<1>3. PICK s : s = node[a].values
    OBVIOUS
<1>4. ASSUME NEW m \in Memory
      PROVE  /\ Sets(Call(m), run[m], held, 0, a, v)
             /\ ~run[m].ok => Spares(node, run[m].node)
             /\ run[m].ok  => Itemed(node, run[m].node, a, Append(s, v))
    <2>1. PICK h : h = Call(m)
        OBVIOUS
    <2>2. PICK r : r = json_array_append_value(h, a, v)
        OBVIOUS
    <2>3. /\ Heap(h, held, 0) /\ h.ok /\ h.node = node /\ v \in Exist(h.node)
          /\ v \in held => a \notin Tree(h.node, v)
        BY <1>1, <2>1, GivenHeap
    <2>4. Sets(h, r, held, 0, a, v)
        BY <1>2, <2>2, <2>3, AppendValueIs
    <2>5. /\ ~r.ok => Spares(h.node, r.node)
          /\ r.ok  => Itemed(h.node, r.node, a, Append(s, v))
        BY <1>2, <1>3, <2>2, <2>3, AppendPuts
    <2>6. run[m] = r
        BY <2>1, <2>2
    <2> HIDE DEF run
    <2> QED  BY <2>1, <2>3, <2>4, <2>5, <2>6
<1>5. Calls(run, held \ {v})
    BY <1>1
<1> HIDE DEF run
<1>6. Doc!Fails \/ \E m \in Memory : Taken(run[m], a, v)
    BY <1>1, <1>4, <1>5, GivenEnds
<1>7. ASSUME NEW m \in Memory, Taken(run[m], a, v) PROVE Doc!Next
    <2>1. PICK r : r = run[m] /\ Taken(r, a, v) /\ Itemed(node, r.node, a, Append(s, v))
        BY <1>4, <1>7 DEF Taken
    <2>2. PICK d : d = [content EXCEPT ![a].array = Append(@, v)]
        OBVIOUS
    <2>3. ArrayIn(content, a, s)
        BY <1>3, GivenDoc
    <2> DEFINE t == Append(s, v)
    <2>4. ItemsIn(content, d, a, t)
        BY <2>2, <2>3, AppendedIn, Zenon
    <2>5. Tells(r.node, d)
        <3>1. /\ Sound(r.node, held \ {v}) /\ Sound(node, held) /\ Tells(node, content)
              /\ Itemed(node, r.node, a, t)
            BY <2>1, GivenDoc DEF Taken, Ended
        <3> HIDE DEF t
        <3> QED  BY <1>2, <2>1, <2>4, <3>1, ItemsTell
    <2>6. Doc!Becomes(d, held \ {v}) /\ Doc!CanEnter(v, a) /\ a \in Doc!Arrays
        BY <2>1, <2>5, TakenEnters, GivenDoc
    <2>7. Doc!AppendValue(v)
        BY <2>2, <2>6 DEF Doc!AppendValue
    <2> QED  BY <2>1, <2>7, TakenNext
<1> QED  BY <1>6, <1>7 DEF Doc!Next

LEMMA ReplaceValueDoc ==
    ASSUME IInv, ReplaceValue
    PROVE  Doc!Next
<1>1. PICK h : h = Call(0)
    OBVIOUS
<1>2. PICK a \in Arrays, v \in Live : \E i \in Index(a) :
         /\ NotBelow(a, v)
         /\ Return(json_array_replace_value(h, a, i, v), held \ {v})
    BY <1>1 DEF ReplaceValue
<1>3. PICK i \in Nat \ {0} :
         NotBelow(a, v) /\ Return(json_array_replace_value(h, a, i, v), held \ {v})
    BY <1>2, Given
<1>4. a \in Values /\ a \in Exist(node) /\ node[a].type = "array"
    BY Given
<1>5. /\ Heap(h, held, 0) /\ h.ok /\ h.node = node /\ v \in Exist(h.node)
      /\ v \in held => a \notin Tree(h.node, v)
    BY <1>1, <1>3, CallIs, Given DEF NotBelow
<1>6. PICK r : r = json_array_replace_value(h, a, i, v)
    OBVIOUS
<1>7. PICK s : s = node[a].values
    OBVIOUS
<1>8. Sets(h, r, held, 0, a, v)
    BY <1>4, <1>5, <1>6, ReplaceValueIs
<1>9. /\ ~r.ok => Spares(node, r.node)
      /\ r.ok  => i \in DOMAIN s /\ Itemed(node, r.node, a, [s EXCEPT ![i] = v])
    BY <1>4, <1>5, <1>6, <1>7, ReplacePuts
<1>10. Doc!Fails \/ (r.ok /\ Ended(r, held \ {v}))
    BY <1>3, <1>6, <1>8, <1>9, SetsEnds, ReturnEnds
<1>11. ASSUME r.ok, Ended(r, held \ {v}) PROVE Doc!Next
    <2>1. Taken(r, a, v)
        BY <1>3, <1>8, <1>11 DEF Sets, Taken
    <2>2. PICK d : d = [content EXCEPT ![a].array[i] = v]
        OBVIOUS
    <2>3. ArrayIn(content, a, s)
        BY <1>7, GivenDoc
    <2> DEFINE t == [s EXCEPT ![i] = v]
    <2>4. ItemsIn(content, d, a, t)
        BY <2>2, <2>3, PutAt, Zenon
    <2>5. Tells(r.node, d)
        <3>1. Sound(r.node, held \ {v}) /\ Sound(node, held) /\ Tells(node, content)
            BY <1>11, GivenDoc DEF Ended
        <3>2. Itemed(node, r.node, a, t)
            BY <1>9, <1>11
        <3> HIDE DEF t
        <3> QED  BY <1>4, <2>4, <3>1, <3>2, ItemsTell
    <2>6. Doc!Becomes(d, held \ {v}) /\ Doc!CanEnter(v, a) /\ a \in Doc!Arrays
        BY <2>1, <2>5, TakenEnters, GivenDoc
    <2>7. i \in DOMAIN content[a].array
        BY <1>9, <1>11, <2>3 DEF ArrayIn
    <2>8. Doc!ReplaceValue(v)
        BY <2>2, <2>6, <2>7 DEF Doc!ReplaceValue
    <2> QED  BY <2>1, <2>8, TakenNext
<1> QED  BY <1>10, <1>11 DEF Doc!Next

LEMMA FreeValueDoc ==
    ASSUME IInv, FreeValue
    PROVE  Doc!Next
<1>1. PICK h : h = Call(0)
    OBVIOUS
<1>2. PICK v \in held : Return(json_value_free(h, v), held \ {v})
    BY <1>1 DEF FreeValue
<1>3. PICK r : r = json_value_free(h, v)
    OBVIOUS
<1>4. Heap(h, held, 0) /\ h.ok /\ h.node = node
    BY <1>1, CallIs
<1>5. /\ Heap(r, held \ {v}, 0) /\ r.ok = h.ok
      /\ Without(node, r.node, Tree(node, v))
    BY <1>3, <1>4, FreeRootIs
<1>6. Ended(r, held \ {v})
    <2>1. EndsIn(r, held, held \ {v}) /\ r.ok
        BY <1>4, <1>5 DEF EndsIn
    <2>2. ~Doc!Fails
        <3>1. ok' = r.ok /\ r \in Heaps
            BY <1>2, <1>3, <1>5 DEF Return, Heap
        <3> QED  BY <2>1, <3>1 DEF Doc!Fails
    <2> QED  BY <1>2, <1>3, <2>1, <2>2, ReturnEnds
<1>7. Tells(r.node, content)
    <2>1. \A u \in Exist(r.node) : u \in Exist(node) /\ r.node[u] = node[u]
        <3>1. \A u \in Values : r.node[u] = IF u \in Tree(node, v) THEN Unused ELSE node[u]
            BY <1>5 DEF Without
        <3> QED  BY <3>1 DEF Exist, Unused
    <2> QED  BY <2>1, GivenDoc DEF Tells
<1>8. Doc!FreeValue(v)
    BY <1>6, <1>7, EndedIs DEF Doc!FreeValue
<1>9. v \in held \ held'
    BY <1>6 DEF Ended
<1> QED  BY <1>8, <1>9 DEF Doc!Gives, Doc!Next

-----------------------------------------------------------------------------
(* The calls that leave the program what it has. *)

LEMMA KeptEnds ==
    ASSUME IInv, NEW r, Heap(r, held, 0), Return(r, held), ~r.ok => r.node = node
    PROVE  Doc!Fails \/ (r.ok /\ Ended(r, held))
<1>1. ~r.ok => Spares(node, r.node)
    BY DEF Spares
<1> QED  BY <1>1, SameEnds, ReturnEnds

LEMMA KeptNext ==
    ASSUME NEW r, Ended(r, held),
           Doc!RemoveMember \/ Doc!DotRemove \/ Doc!RemoveItem \/ Doc!Clear
    PROVE  Doc!Next
<1>1. held' = held
    BY DEF Ended
<1> QED  BY <1>1 DEF Doc!Keeps, Doc!Next

SwappedOut(s, t, i, l) ==
    /\ i \in 1 .. l
    /\ \A j \in 1 .. l - 1 : j \in 1 .. l /\ t[j] = s[IF j = i THEN l ELSE j]

LEMMA SwapOutAt ==
    ASSUME NEW S, NEW s \in Seq(S), NEW l \in Nat, Len(s) = l, NEW i \in 1 .. l
    PROVE  SwappedOut(s, SwapOut(s, i), i, l) /\ Len(SwapOut(s, i)) = l - 1
<1> DEFINE t == SwapOut(s, i)
           r == [s EXCEPT ![i] = Last(s)]
<1>1. r \in Seq(S) /\ Len(r) = l /\ \A j \in 1 .. l : r[j] = IF j = i THEN s[l] ELSE s[j]
    BY DEF Last
<1>2. t = SubSeq(r, 1, l - 1)
    BY DEF SwapOut
<1> HIDE DEF r
<1>3. Len(t) = l - 1 /\ \A j \in 1 .. l - 1 : t[j] = r[j] /\ j \in 1 .. l
    BY <1>1, <1>2
<1> HIDE DEF t
<1>4. \A j \in 1 .. l - 1 : t[j] = s[IF j = i THEN l ELSE j]
    BY <1>1, <1>3
<1> QED  BY <1>3, <1>4 DEF SwappedOut, t

\* A function without one of its arguments.
Removed(f, x) == [y \in DOMAIN f \ {x} |-> f[y]]

LEMMA MembersCut ==
    ASSUME NEW m \in ContainerNodes, m.type = "object", Fits(m),
           NEW n \in ContainerNodes, n.type = "object", Fits(n),
           NEW i \in 1 .. Len(m.names), n.names = SwapOut(m.names, i), n.values = SwapOut(m.values, i)
    PROVE  Members(n) = Removed(Members(m), m.names[i])
<1>1. PICK l \in Nat : l = Len(m.names)
    BY DEF ContainerNodes
<1>2. l = Len(m.values) /\ m.names \in Seq(Keys) /\ m.values \in Seq(Values) /\ i \in 1 .. l
    BY <1>1 DEF ContainerNodes, Fits, Containers
<1>3. SwappedOut(m.names, n.names, i, l) /\ SwappedOut(m.values, n.values, i, l) /\ Len(n.names) = l - 1
    <2>1. SwappedOut(m.names, SwapOut(m.names, i), i, l) /\ Len(SwapOut(m.names, i)) = l - 1
        BY <1>1, <1>2, SwapOutAt, Zenon
    <2>2. SwappedOut(m.values, SwapOut(m.values, i), i, l)
        BY <1>2, SwapOutAt, Zenon
    <2> QED  BY <2>1, <2>2
<1>4. DOMAIN Members(n) = DOMAIN Members(m) \ {m.names[i]}
    <2>1. IsInjective(m.names)
        BY DEF Fits, Containers
    <2>2. ToSet(n.names) = ToSet(m.names) \ {m.names[i]}
        BY <1>2, <2>1, SwapOutIs DEF Less
    <2> QED  BY <2>2, MembersIs
<1>5. /\ \A j \in 1 .. l : Members(m)[m.names[j]] = m.values[j]
      /\ \A j \in 1 .. l - 1 : Members(n)[n.names[j]] = n.values[j]
      /\ \A x \in DOMAIN Members(n) : \E j \in 1 .. l - 1 : n.names[j] = x
    <2>1. \A j \in 1 .. Len(m.names) : Members(m)[m.names[j]] = m.values[j]
        BY MembersIs
    <2>2. /\ \A j \in 1 .. Len(n.names) : Members(n)[n.names[j]] = n.values[j]
          /\ \A x \in DOMAIN Members(n) : \E j \in 1 .. Len(n.names) : n.names[j] = x
        BY MembersIs
    <2> QED  BY <1>1, <1>3, <2>1, <2>2, Zenon
<1>6. ASSUME NEW x \in DOMAIN Members(n) PROVE Members(n)[x] = Members(m)[x]
    <2>1. PICK j \in 1 .. l - 1 : n.names[j] = x
        BY <1>5
    <2>2. PICK q : q = IF j = i THEN l ELSE j
        OBVIOUS
    <2>3. q \in 1 .. l
        BY <1>2, <2>2
    <2>4. n.names[j] = m.names[q] /\ n.values[j] = m.values[q]
        BY <1>3, <2>2 DEF SwappedOut
    <2>5. Members(n)[n.names[j]] = n.values[j] /\ Members(m)[m.names[q]] = m.values[q]
        BY <1>5, <2>3
    <2> QED  BY <2>1, <2>4, <2>5, Zenon
<1> DEFINE g == Members(n)
           f == Members(m)
           y == m.names[i]
<1>7. g = [x \in DOMAIN g |-> g[x]]
    BY MembersFunction
<1>8. DOMAIN g = DOMAIN f \ {y} /\ \A x \in DOMAIN g : g[x] = f[x]
    BY <1>4, <1>6
<1> HIDE DEF g, f, y
<1>9. g = Removed(f, y)
    BY <1>7, <1>8 DEF Removed
<1> QED  BY <1>9, Zenon DEF g, f, y

LEMMA DocWithoutIs ==
    ASSUME NEW c, NEW o \in DOMAIN c, NEW f, c[o] = [object |-> f], NEW name,
           NEW d, d = Doc!Without(c, o, name)
    PROVE  Recast(c, d, o, [object |-> Removed(f, name)])
<1>1. d = [c EXCEPT ![o] = [c[o] EXCEPT !.object = Removed(c[o].object, name)]]
    BY DEF Doc!Without, Removed
<1>2. c[o].object = f
    OBVIOUS
<1>3. [c[o] EXCEPT !.object = Removed(f, name)] = [object |-> Removed(f, name)]
    OBVIOUS
<1> QED  BY <1>1, <1>2, <1>3 DEF Recast

LEMMA RemovedTells ==
    ASSUME NEW h, NEW R, NEW d, Heap(h, R, d), h.ok, NEW o \in Values, h.node[o].type = "object",
           NEW name, NEW r, r = json_object_remove_internal(h, o, name, TRUE),
           NEW c, Tells(h.node, c)
    PROVE  /\ ~r.ok => r.node = h.node
           /\ r.ok  => name \in DOMAIN c[o].object /\ Tells(r.node, Doc!Without(c, o, name))
<1>0. Heap(r, R, d) /\ Removes(h, r, o, name)
    BY RemoveIs
<1>1. ~r.ok => r.node = h.node
    BY <1>0 DEF Removes
<1>2. ASSUME r.ok PROVE name \in DOMAIN c[o].object /\ Tells(r.node, Doc!Without(c, o, name))
    <2>1. PICK m, n : m = h.node[o] /\ n = r.node[o]
        OBVIOUS
    <2>2. Heap(r, R, d) /\ Others(h.node, r.node, o)
        BY <1>0, <1>2 DEF Removes
    <2>3. PICK i \in 1 .. Len(m.names) :
             /\ m.names[i] = name /\ n.type = "object"
             /\ n.names = SwapOut(m.names, i) /\ n.values = SwapOut(m.values, i)
        BY <1>0, <1>2, <2>1 DEF Removes, MemberOut
    <2>4. Sound(h.node, R) /\ Sound(r.node, R)
        BY <2>2 DEF Heap
    <2>5. /\ m \in ContainerNodes /\ m.type = "object" /\ Fits(m) /\ o \in Exist(h.node)
          /\ n \in ContainerNodes /\ Fits(n)
        BY <2>1, <2>3, <2>4, ObjectIs
    <2>6. Members(n) = Removed(Members(m), m.names[i])
        BY <2>3, <2>5, MembersCut
    <2>7. name \in DOMAIN Members(m)
        BY <2>3, <2>5, MembersIs
    <2>8. o \in DOMAIN c /\ c[o] = [object |-> Members(m)] /\ c[o].object = Members(m)
        BY <2>1, <2>4, <2>5, TellsObject
    <2>9. Holds(n) = [object |-> Removed(Members(m), name)]
        <3>1. n \in Nodes /\ n.type # "free"
            BY <2>3, <2>5 DEF Nodes
        <3> QED  BY <2>3, <2>6, <3>1, HoldsIs
    <2>10. PICK e : e = Doc!Without(c, o, name)
        OBVIOUS
    <2>11. Recast(c, e, o, [object |-> Removed(Members(m), name)])
        BY <2>8, <2>10, DocWithoutIs
    <2>12. Tells(r.node, e)
        <3>1. PICK nd, md : nd = h.node /\ md = r.node
            OBVIOUS
        <3>2. nd \in [Values -> Nodes] /\ Others(nd, md, o) /\ Tells(nd, c)
            BY <2>2, <2>4, <3>1 DEF Sound
        <3>3. Holds(md[o]) = [object |-> Removed(Members(m), name)]
            BY <2>1, <2>9, <3>1
        <3>4. Tells(md, e)
            BY <2>11, <3>2, <3>3, OneTells
        <3> QED  BY <3>1, <3>4
    <2> QED  BY <2>7, <2>8, <2>10, <2>12
<1> QED  BY <1>1, <1>2

LEMMA RemoveMemberDoc ==
    ASSUME IInv, RemoveMember
    PROVE  Doc!Next
<1>1. PICK h : h = Call(0)
    OBVIOUS
<1>2. PICK o \in Objects, name \in Names :
         Return(json_object_remove_internal(h, o, name, TRUE), held)
    BY <1>1 DEF RemoveMember
<1>3. Heap(h, held, 0) /\ h.ok /\ h.node = node
    BY <1>1, CallIs
<1>4. PICK r : r = json_object_remove_internal(h, o, name, TRUE)
    OBVIOUS
<1>5. o \in Values /\ h.node[o].type = "object" /\ Tells(h.node, content) /\ o \in Doc!Objects
    BY <1>3, Given, GivenDoc
<1>6. Heap(r, held, 0)
    BY <1>3, <1>4, <1>5, RemoveIs
<1>7. /\ ~r.ok => r.node = h.node
      /\ r.ok  => name \in DOMAIN content[o].object /\ Tells(r.node, Doc!Without(content, o, name))
    BY <1>3, <1>4, <1>5, RemovedTells
<1>8. Doc!Fails \/ (r.ok /\ Ended(r, held))
    BY <1>2, <1>3, <1>4, <1>6, <1>7, KeptEnds
<1>9. ASSUME r.ok, Ended(r, held) PROVE Doc!Next
    <2>1. Doc!Becomes(Doc!Without(content, o, name), held)
        BY <1>7, <1>9, EndedIs
    <2>2. Doc!RemoveMember
        BY <1>5, <1>7, <1>9, <2>1 DEF Doc!RemoveMember
    <2> QED  BY <1>9, <2>2, KeptNext
<1> QED  BY <1>8, <1>9 DEF Doc!Next

LEMMA RemoveItemDoc ==
    ASSUME IInv, RemoveItem
    PROVE  Doc!Next
<1>1. PICK h : h = Call(0)
    OBVIOUS
<1>2. PICK a \in Arrays : \E i \in Index(a) : Return(json_array_remove(h, a, i), held)
    BY <1>1 DEF RemoveItem
<1>3. PICK i \in Nat \ {0} : Return(json_array_remove(h, a, i), held)
    BY <1>2, Given
<1>4. Heap(h, held, 0) /\ h.ok /\ h.node = node
    BY <1>1, CallIs
<1>5. PICK r : r = json_array_remove(h, a, i)
    OBVIOUS
<1>6. PICK s : s = node[a].values
    OBVIOUS
<1>7. /\ a \in Values /\ node[a].type = "array" /\ a \in Doc!Arrays /\ ArrayIn(content, a, s)
      /\ Tells(node, content) /\ Sound(node, held)
    BY <1>6, Given, GivenDoc
<1>8. Heap(r, held, 0) /\ (~r.ok => r.node = node)
    BY <1>4, <1>5, <1>7, ArrayRemoveIs
<1>9. Doc!Fails \/ (r.ok /\ Ended(r, held))
    BY <1>3, <1>5, <1>8, KeptEnds
<1>10. ASSUME r.ok, Ended(r, held) PROVE Doc!Next
    <2> DEFINE t == RemoveAt(s, i)
    <2>1. Itemed(node, r.node, a, t) /\ i \in 1 .. Len(s)
        BY <1>4, <1>5, <1>6, <1>7, <1>10, ArrayRemoveIs DEF Itemed
    <2>2. PICK d : d = [content EXCEPT ![a].array = Doc!RemoveAt(@, i)]
        OBVIOUS
    <2>3. ItemsIn(content, d, a, t)
        BY <1>7, <2>2, RemovedAt, Zenon
    <2> HIDE DEF t
    <2>4. Tells(r.node, d)
        <3>1. Sound(r.node, held)
            BY <1>10 DEF Ended
        <3> QED  BY <1>7, <2>1, <2>3, <3>1, ItemsTell
    <2>5. Doc!Becomes(d, held)
        BY <1>10, <2>4, EndedIs
    <2>6. i \in DOMAIN content[a].array
        <3>1. s \in Seq(Values)
            BY <1>6, <1>7, ContainerIs DEF Sound, Containers
        <3>2. content[a].array = s
            BY <1>7 DEF ArrayIn
        <3> QED  BY <2>1, <3>1, <3>2
    <2>7. Doc!RemoveItem
        BY <1>7, <2>2, <2>5, <2>6 DEF Doc!RemoveItem
    <2> QED  BY <1>10, <2>7, KeptNext
<1> QED  BY <1>9, <1>10 DEF Doc!Next

LEMMA NoMembers ==
    ASSUME NEW n, n.names = <<>>
    PROVE  Members(n) = <<>>
<1>1. ToSet(n.names) = {}
    BY DEF ToSet
<1> QED  BY <1>1 DEF Members

LEMMA ClearDoc ==
    ASSUME IInv, Clear
    PROVE  Doc!Next
<1>1. PICK h : h = Call(0)
    OBVIOUS
<1>2. PICK c \in Objects \cup Arrays : Return(RemoveAll(h, c), held)
    BY <1>1 DEF Clear
<1>3. Heap(h, held, 0) /\ h.ok /\ h.node = node
    BY <1>1, CallIs
<1>4. c \in Values /\ node[c].type \in Containers /\ c \in Doc!Objects \cup Doc!Arrays
      /\ Sound(node, held) /\ Tells(node, content) /\ node \in [Values -> Nodes]
    BY Given, GivenDoc DEF Sound
<1>5. PICK r, n : r = RemoveAll(h, c) /\ n = r.node[c]
    OBVIOUS
<1>6. /\ Heap(r, held, 0) /\ r.ok = h.ok /\ Others(node, r.node, c)
      /\ n.type = node[c].type /\ n.names = <<>> /\ n.values = <<>>
    BY <1>3, <1>4, <1>5, RemoveAllIs
<1>7. Ended(r, held) /\ r.ok
    <2>1. Doc!Fails \/ (r.ok /\ Ended(r, held))
        BY <1>2, <1>3, <1>5, <1>6, KeptEnds
    <2>2. ~Doc!Fails
        <3>1. ok' = r.ok /\ r.ok
            BY <1>2, <1>3, <1>5, <1>6 DEF Return
        <3> QED  BY <3>1 DEF Doc!Fails
    <2> QED  BY <2>1, <2>2
<1>8. PICK x : x = IF Doc!IsObject(content, c) THEN [object |-> <<>>] ELSE [array |-> <<>>]
    OBVIOUS
<1>9. x = Holds(n)
    <2>1. n \in Nodes /\ n.type # "free"
        <3>1. Sound(r.node, held)
            BY <1>7 DEF Ended
        <3>2. n \in Nodes
            BY <1>4, <1>5, <3>1, SoundNodes
        <3> QED  BY <1>4, <1>6, <3>2 DEF Containers
    <2>2. Doc!IsObject(content, c) <=> n.type = "object"
        <3>1. c \in Exist(node) /\ node[c] \in Nodes /\ node[c].type # "free"
            BY <1>4, ContainerIs
        <3>2. content[c] = Holds(node[c])
            BY <1>4, <3>1 DEF Tells
        <3> QED  BY <1>6, <3>1, <3>2, HoldsIs DEF Doc!IsObject
    <2>3. CASE n.type = "object"
        <3>1. Members(n) = <<>>
            BY <1>6, NoMembers
        <3> QED  BY <1>8, <2>1, <2>2, <2>3, <3>1, HoldsIs
    <2>4. CASE n.type = "array"
        BY <1>6, <1>8, <2>1, <2>2, <2>4, HoldsIs
    <2> QED  BY <1>4, <1>6, <2>3, <2>4 DEF Containers
<1>10. PICK d : d = [content EXCEPT ![c] = x]
    OBVIOUS
<1>11. Recast(content, d, c, x)
    <2>1. c \in DOMAIN content
        BY <1>4, ContainerIs, GivenDoc
    <2> QED  BY <1>10, <2>1 DEF Recast
<1>12. Tells(r.node, d)
    BY <1>4, <1>5, <1>6, <1>9, <1>11, OneTells
<1>13. Doc!Becomes(d, held)
    BY <1>7, <1>12, EndedIs
<1>14. Doc!Clear
    BY <1>4, <1>8, <1>10, <1>13 DEF Doc!Clear
<1> QED  BY <1>7, <1>14, KeptNext

\* The way to the value that holds what is removed, all of it there.
Led(nd, at, name, l) ==
    /\ at \in [1 .. l -> Values] /\ \A i \in 1 .. l : nd[at[i]].type = "object"
    /\ \A i \in 1 .. l : i # l => at[i + 1] = json_object_get_value(nd, at[i], <<name[i]>>)

LEMMA LedIs ==
    ASSUME NEW nd, NEW R, Sound(nd, R), NEW o \in Values, NEW name, NEW l \in Nat \ {0},
           Long(name, l), NEW p, p = Holder(nd, o, name), p # NULL, nd[p].type = "object"
    PROVE  \E at : Led(nd, at, name, l) /\ at[1] = o /\ at[l] = p
<1>1. PICK at \in [1 .. l -> Values \cup {NULL}] :
         /\ at[1] = o /\ p = at[l]
         /\ \A i \in 1 .. l : i # 1 =>
               at[i] = json_object_get_value(nd, at[i - 1], <<name[i - 1]>>)
    BY HolderIs
<1>2. ASSUME NEW i \in 1 .. l, i # l PROVE at[i + 1] = json_object_get_value(nd, at[i], <<name[i]>>)
    <2>1. PICK j \in 1 .. l : j = i + 1 /\ j # 1 /\ j - 1 = i
        BY <1>2
    <2>2. at[j] = json_object_get_value(nd, at[j - 1], <<name[j - 1]>>)
        BY <1>1, <2>1
    <2> QED  BY <2>1, <2>2
<1> DEFINE Bad(i) == at[i] = NULL \/ nd[at[i]].type # "object"
<1>3. ASSUME NEW i \in 1 .. l, Bad(i) PROVE FALSE
    <2> DEFINE N == l - i
               G == {j \in 0 .. N : Bad(i + j)}
    <2>1. N \in Nat /\ 0 \in G
        BY <1>3
    <2>2. ASSUME NEW j \in 0 .. N, j # 0, j - 1 \in G PROVE j \in G
        <3>1. PICK k : k = i + (j - 1)
            OBVIOUS
        <3>2. k \in 1 .. l /\ k # l /\ k + 1 = i + j
            BY <2>2, <3>1
        <3>3. Bad(k)
            BY <2>2, <3>1
        <3>4. at[k + 1] = json_object_get_value(nd, at[k], <<name[k]>>)
            BY <1>2, <3>2
        <3>5. at[k + 1] = NULL
            <4>1. PICK u : u = json_object_get_value(nd, at[k], <<name[k]>>)
                OBVIOUS
            <4>2. u = NULL
                BY <3>3, <4>1 DEF json_object_get_value
            <4> QED  BY <3>4, <4>1, <4>2
        <3> QED  BY <3>2, <3>5
    <2> HIDE DEF G
    <2>3. 0 .. N \subseteq G
        BY <2>1, <2>2, Upwards
    <2>4. N \in G
        BY <2>1, <2>3
    <2>5. Bad(l)
        BY <2>4 DEF G
    <2> QED  BY <1>1, <2>5
<1>4. \A i \in 1 .. l : at[i] # NULL /\ nd[at[i]].type = "object"
    BY <1>3
<1>5. at \in [1 .. l -> Values]
    BY <1>1, <1>4
<1>6. Led(nd, at, name, l)
    BY <1>2, <1>4, <1>5 DEF Led
<1> QED  BY <1>1, <1>6

\* No object is on the way twice.
LEMMA LedApart ==
    ASSUME NEW nd, NEW R, Sound(nd, R), NEW name, NEW l \in Nat \ {0}, NEW at, Led(nd, at, name, l),
           \A i \in 1 .. l : i # l => at[i + 1] # NULL
    PROVE  IsInjective(at)
<1>1. at \in [1 .. l -> Values] /\ nd \in [Values -> Nodes]
    BY DEF Led, Sound
<1>2. ASSUME NEW i \in 1 .. l, i # l
      PROVE  at[i + 1] \in Children(nd, at[i]) /\ i + 1 \in 1 .. l /\ nd[at[i]].type \in Containers
    <2>1. PICK j \in 1 .. l : j = i + 1
        BY <1>2
    <2>2. PICK x, u : x = at[i] /\ u = at[j]
        OBVIOUS
    <2>3. u = json_object_get_value(nd, x, <<name[i]>>) /\ u # NULL
        BY <1>2, <2>1, <2>2 DEF Led
    <2>4. x \in Values
        BY <1>1, <2>2
    <2>5. u \in Children(nd, x) /\ nd[x].type \in Containers
        BY <2>3, <2>4, GetIs
    <2> QED  BY <2>1, <2>2, <2>5
<1>3. ASSUME NEW i \in 1 .. l PROVE \A j \in 1 .. l : i <= j => at[j] \in Tree(nd, at[i])
    <2> DEFINE N == l - i
               G == {k \in 0 .. N : at[i + k] \in Tree(nd, at[i])}
    <2>1. N \in Nat /\ 0 \in G
        BY <1>1, TreeBelow
    <2>2. ASSUME NEW k \in 0 .. N, k # 0, k - 1 \in G PROVE k \in G
        <3>1. PICK j : j = i + (k - 1)
            OBVIOUS
        <3>2. j \in 1 .. l /\ j # l /\ j + 1 = i + k
            BY <2>2, <3>1
        <3>3. at[j] \in Tree(nd, at[i])
            BY <2>2, <3>1
        <3>4. at[j + 1] \in Children(nd, at[j])
            BY <1>2, <3>2
        <3>5. at[j + 1] \in Tree(nd, at[i])
            BY <1>1, <3>3, <3>4, TreeBelow
        <3> QED  BY <3>2, <3>5
    <2>3. 0 .. N \subseteq G
        <3> HIDE DEF G, N
        <3> QED  BY <2>1, <2>2, Upwards
    <2> TAKE j \in 1 .. l
    <2> HAVE i <= j
    <2>4. j - i \in 0 .. N /\ i + (j - i) = j
        OBVIOUS
    <2>5. j - i \in G
        BY <2>3, <2>4
    <2> QED  BY <2>4, <2>5
<1>4. ASSUME NEW i \in 1 .. l, NEW j \in 1 .. l, i < j PROVE at[i] # at[j]
    <2>1. i # l /\ i + 1 <= j
        BY <1>4
    <2>2. PICK k \in 1 .. l : k = i + 1 /\ k <= j /\ at[k] \in Children(nd, at[i]) /\ nd[at[i]].type \in Containers
        BY <1>2, <2>1
    <2>3. at[j] \in Tree(nd, at[k])
        BY <1>3, <2>2
    <2>4. PICK x, u : x = at[i] /\ u = at[k] /\ x \in Values
        BY <1>1
    <2>5. x \notin Tree(nd, u)
        BY <2>2, <2>4, MemberTrees
    <2> QED  BY <2>3, <2>4, <2>5
<1>5. \A i, j \in 1 .. l : i = j \/ i < j \/ j < i
    OBVIOUS
<1> QED  BY <1>1, <1>4, <1>5 DEF IsInjective

LEMMA LedRoad ==
    ASSUME NEW nd, NEW R, Sound(nd, R), NEW name, NEW l \in Nat \ {0}, Long(name, l),
           NEW at, Led(nd, at, name, l), NEW c, Tells(nd, c), DOMAIN c = Exist(nd)
    PROVE  at \in Doc!Roads(c, at[1], name, {})
<1>1. /\ at \in [1 .. l -> Values] /\ \A i \in 1 .. l : nd[at[i]].type = "object"
      /\ \A i \in 1 .. l : i # l => at[i + 1] = json_object_get_value(nd, at[i], <<name[i]>>)
    BY DEF Led
<1>2. ASSUME NEW i \in 1 .. l - 1
      PROVE  /\ at[i + 1] # NULL
             /\ at[i] \in DOMAIN c /\ <<name[i]>> \in DOMAIN c[at[i]].object
             /\ at[i + 1] = c[at[i]].object[<<name[i]>>]
    <2>1. PICK j \in 1 .. l : j = i + 1
        OBVIOUS
    <2>2. PICK k \in 1 .. l : k = i /\ k # l
        OBVIOUS
    <2>3. PICK x, y, key : x = at[k] /\ y = at[j] /\ key = <<name[k]>>
        OBVIOUS
    <2>4. x \in Values /\ y \in Values /\ nd[x].type = "object"
        BY <1>1, <2>3
    <2>5. y = json_object_get_value(nd, x, key)
        BY <1>1, <2>1, <2>2, <2>3
    <2>6. y # NULL
        BY <2>4, ValuesAssumption
    <2>7. key \in DOMAIN Members(nd[x]) /\ y = Members(nd[x])[key]
        BY <2>4, <2>5, <2>6, GetMembers
    <2>8. x \in DOMAIN c /\ c[x].object = Members(nd[x])
        <3>1. x \in Exist(nd)
            BY <2>4 DEF Exist
        <3> QED  BY <2>4, <3>1, TellsObject
    <2> QED  BY <2>1, <2>2, <2>3, <2>6, <2>7, <2>8
<1>3. ASSUME NEW j \in 1 .. l PROVE at[j] \in Doc!ObjectsOf(c)
    <2>1. PICK x \in Values : x = at[j]
        BY <1>1
    <2>2. nd[x].type = "object" /\ x \in Exist(nd)
        BY <1>1, <2>1 DEF Exist
    <2> QED  BY <2>1, <2>2, TellsObject
<1>4. IsInjective(at)
    <2>1. ASSUME NEW i \in 1 .. l, i # l PROVE at[i + 1] # NULL
        <3>1. i \in 1 .. l - 1
            BY <2>1
        <3> QED  BY <1>2, <3>1
    <2> QED  BY <2>1, LedApart
<1>5. Len(name) = l
    BY DEF Long
<1>6. at \in [1 .. Len(name) -> Doc!ObjectsOf(c) \cup {}]
    BY <1>1, <1>3, <1>5
<1>7. Doc!IsInjective(at)
    BY <1>4, DocSame
<1>8. \A i \in 1 .. Len(name) - 1 :
         IF at[i] \in DOMAIN c /\ <<name[i]>> \in DOMAIN c[at[i]].object
         THEN at[i + 1] = c[at[i]].object[<<name[i]>>]
         ELSE at[i + 1] \in {}
    BY <1>2, <1>5, Zenon
<1> QED  BY <1>6, <1>7, <1>8, Zenon DEF Doc!Roads

LEMMA DotRemoveDoc ==
    ASSUME IInv, DotRemove
    PROVE  Doc!Next
<1>1. PICK h : h = Call(0)
    OBVIOUS
<1>2. PICK o \in Objects, name \in Names :
         Return(json_object_dotremove_internal(h, o, name, TRUE), held)
    BY <1>1 DEF DotRemove
<1>3. Heap(h, held, 0) /\ h.ok /\ h.node = node
    BY <1>1, CallIs
<1>4. PICK r : r = json_object_dotremove_internal(h, o, name, TRUE)
    OBVIOUS
<1>5. PICK p : p = Holder(h.node, o, name)
    OBVIOUS
<1>6. /\ o \in Values /\ name \in Keys /\ Len(name) > 0 /\ Tells(h.node, content) /\ o \in Doc!Objects
      /\ Sound(h.node, held) /\ DOMAIN content = Exist(h.node)
    BY <1>3, Given, GivenDoc
<1>7. PICK l \in Nat \ {0} : l = Len(name)
    BY <1>6
<1>8. Long(name, l)
    BY <1>6, <1>7 DEF Long
<1>9. Heap(r, held, 0)
    BY <1>3, <1>4, <1>6, DotRemoveIs
<1>10. CASE p = NULL \/ h.node[p].type # "object"
    <2>1. r = Failed(h)
        BY <1>4, <1>5, <1>10 DEF json_object_dotremove_internal
    <2>2. h \in Heaps
        BY <1>3 DEF Heap
    <2>3. ~r.ok /\ r.node = node
        BY <1>3, <2>1, <2>2, FailedIs
    <2>4. Doc!Fails
        BY <1>2, <1>4, <1>9, <2>3, KeptEnds
    <2> QED  BY <2>4 DEF Doc!Next
<1>11. CASE p # NULL /\ h.node[p].type = "object"
    <2>1. PICK key : key = <<Last(name)>>
        OBVIOUS
    <2>2. r = json_object_remove_internal(h, p, key, TRUE)
        BY <1>4, <1>5, <1>11, <2>1 DEF json_object_dotremove_internal
    <2>3. PICK at : Led(h.node, at, name, l) /\ at[1] = o /\ at[l] = p
        BY <1>5, <1>6, <1>8, <1>11, LedIs
    <2>4. p \in Values
        BY <2>3 DEF Led
    <2>5. at \in Doc!Roads(content, o, name, {})
        BY <1>6, <1>8, <2>3, LedRoad
    <2>6. /\ ~r.ok => r.node = h.node
          /\ r.ok  => key \in DOMAIN content[p].object /\ Tells(r.node, Doc!Without(content, p, key))
        BY <1>3, <1>6, <1>11, <2>2, <2>4, RemovedTells
    <2>7. Doc!Fails \/ (r.ok /\ Ended(r, held))
        BY <1>2, <1>3, <1>4, <1>9, <2>6, KeptEnds
    <2>8. ASSUME r.ok, Ended(r, held) PROVE Doc!Next
        <3>1. Doc!Becomes(Doc!Without(content, p, key), held)
            BY <2>6, <2>8, EndedIs
        <3>2. key = <<Doc!Last(name)>> /\ at[Len(name)] = p
            BY <1>7, <2>1, <2>3 DEF Last, Doc!Last
        <3>3. Doc!DotRemove
            <4>1. /\ <<Doc!Last(name)>> \in DOMAIN content[at[Len(name)]].object
                  /\ Doc!Becomes(Doc!Without(content, at[Len(name)], <<Doc!Last(name)>>), held)
                BY <2>6, <2>8, <3>1, <3>2
            <4> QED  BY <1>6, <2>5, <4>1, Zenon DEF Doc!DotRemove
        <3> QED  BY <2>8, <3>3, KeptNext
    <2> QED  BY <2>7, <2>8 DEF Doc!Next
<1> QED  BY <1>10, <1>11

-----------------------------------------------------------------------------
(* The calls that store a value of their own. *)

\* The call made the value w, which holds s.
NewTells(made, w, s) ==
    /\ w \in Values \ Exist(node) /\ Exist(made.node) = Exist(node) \cup {w}
    /\ Sound(made.node, held \cup {w})
    /\ Tells(made.node, Doc!Plus(content, w, s))
    /\ DOMAIN Doc!Plus(content, w, s) = Exist(made.node)

LEMMA FreshTells ==
    ASSUME IInv, NEW m \in Nat, NEW s \in Scalars, NEW made,
           made = json_value_init(Call(m), Scalar(s))
    PROVE  /\ ~made.ok => made.node = node
           /\ made.ok  => /\ NewTells(made, made.value, s) /\ Heap(made, held \cup {made.value}, 0)
                          /\ Spares(node, made.node)
<1>1. PICK h : h = Call(m)
    OBVIOUS
<1>2. Heap(h, held, 0) /\ h.node = node /\ h \in Heaps
    BY <1>1, CallIs DEF Heap
<1>3. PICK n : n = Scalar(s)
    OBVIOUS
<1>4. Single(n) /\ n.type \in ScalarTypes /\ n.data = s
    BY <1>3, ScalarSingle DEF Data, Scalar
<1>5. PICK w : w = made.value
    OBVIOUS
<1>6. /\ ~made.ok => made = Failed(h)
      /\ made.ok  => /\ w \in Values \ Exist(node) /\ made.node = [node EXCEPT ![w] = n]
                     /\ Heap(made, held \cup {w}, 0)
    BY <1>1, <1>2, <1>3, <1>4, <1>5, InitIs
<1>7. ~made.ok => made.node = node
    BY <1>2, <1>6, FailedIs
<1>8. ASSUME made.ok PROVE NewTells(made, w, s) /\ Heap(made, held \cup {w}, 0) /\ Spares(node, made.node)
    <2>1. Tells(node, content) /\ DOMAIN content = Exist(node) /\ node \in [Values -> Nodes]
        BY GivenDoc DEF Sound
    <2>2. /\ w \in Values \ Exist(node) /\ Heap(made, held \cup {w}, 0) /\ made.node[w] = n
          /\ \A u \in Values \ {w} : made.node[u] = node[u]
        BY <1>6, <1>8, <2>1
    <2>3. n.type # "free"
        BY <1>4 DEF Single
    <2>4. Exist(made.node) = Exist(node) \cup {w}
        BY <2>2, <2>3 DEF Exist
    <2>5. Sound(made.node, held \cup {w})
        BY <2>2 DEF Heap
    <2>6. Holds(n) = s
        <3>1. n \in Nodes /\ n.type \notin Containers
            BY <1>4 DEF Single, ScalarTypes, Containers
        <3> QED  BY <1>4, <2>3, <3>1, HoldsIs
    <2>7. PICK c : c = Doc!Plus(content, w, s)
        OBVIOUS
    <2>8. /\ DOMAIN c = DOMAIN content \cup {w} /\ c[w] = s
          /\ \A u \in DOMAIN content \ {w} : c[u] = content[u]
        BY <2>7 DEF Doc!Plus
    <2>9. Tells(made.node, c)
        <3>1. ASSUME NEW u \in Exist(made.node) PROVE u \in DOMAIN c /\ c[u] = Holds(made.node[u])
            <4>1. CASE u = w
                BY <2>2, <2>6, <2>8, <4>1
            <4>2. CASE u # w
                <5>1. u \in Exist(node) /\ made.node[u] = node[u]
                    BY <2>2, <2>4, <4>2 DEF Exist
                <5>2. u \in DOMAIN content /\ content[u] = Holds(node[u])
                    BY <2>1, <5>1 DEF Tells
                <5> QED  BY <2>8, <4>2, <5>1, <5>2
            <4> QED  BY <4>1, <4>2
        <3> QED  BY <3>1 DEF Tells
    <2>10. NewTells(made, w, s)
        BY <2>1, <2>2, <2>4, <2>5, <2>7, <2>8, <2>9 DEF NewTells
    <2>11. Spares(node, made.node)
        <3>1. \A u \in Exist(node) : made.node[u] = node[u]
            BY <2>2 DEF Exist
        <3> QED  BY <3>1 DEF Spares
    <2> QED  BY <2>2, <2>10, <2>11
<1> QED  BY <1>5, <1>7, <1>8

\* It stored w below c, or failed.
StoresNew(made, used, c, w) ==
    /\ Sets(made, used, held \cup {w}, 0, c, w)
    /\ ~used.ok => Spares(made.node, used.node)

LEMMA NewSpares ==
    ASSUME IInv, NEW m \in Nat, NEW s \in Scalars, NEW c \in Exist(node),
           NEW made, made = json_value_init(Call(m), Scalar(s)), NEW used,
           \A w : Fresh(made, c, w) => StoresNew(made, used, c, w),
           NEW r, r = WithNew(made, used)
    PROVE  /\ EndsIn(r, held, held)
           /\ ~r.ok => Spares(node, r.node)
           /\ r.ok  => /\ \E w : Fresh(made, c, w) /\ NewTells(made, w, s)
                       /\ used.ok /\ r = used
<1>1. EndsIn(r, held, held)
    <2>1. \A w : Fresh(made, c, w) => Sets(made, used, held \cup {w}, 0, c, w)
        BY DEF StoresNew
    <2> QED  BY <2>1, NewStored
<1>2. /\ ~made.ok => made.node = node
      /\ made.ok  => /\ NewTells(made, made.value, s) /\ Heap(made, held \cup {made.value}, 0)
                     /\ Spares(node, made.node)
    BY FreshTells
<1>3. CASE ~made.ok
    <2>1. r = made
        BY <1>3 DEF WithNew
    <2> QED  BY <1>1, <1>2, <1>3, <2>1 DEF Spares
<1>4. CASE made.ok
    <2>1. PICK w : Fresh(made, c, w)
        BY <1>4, FreshIs
    <2>2. w = made.value
        BY <2>1 DEF Fresh
    <2>3. StoresNew(made, used, c, w)
        BY <2>1
    <2>4. CASE used.ok
        <3>1. r = used
            BY <1>4, <2>4 DEF WithNew
        <3> QED  BY <1>1, <1>2, <1>4, <2>1, <2>2, <2>4, <3>1
    <2>5. CASE ~used.ok
        <3>1. r = Abandon(used, w)
            BY <1>4, <2>2, <2>5 DEF WithNew
        <3>2. PICK Q : Q = held \cup {w}
            OBVIOUS
        <3>3. Heap(used, Q, 0) /\ w \in Q /\ Spares(made.node, used.node)
            BY <2>3, <2>5, <3>2 DEF StoresNew, Sets
        <3>4. ~r.ok /\ Spares(made.node, r.node)
            BY <3>1, <3>3, AbandonIs, AbandonSpares
        <3>5. Spares(node, made.node) /\ Exist(node) \subseteq Exist(made.node)
            BY <1>2, <1>4 DEF NewTells
        <3>6. Spares(node, r.node)
            BY <3>4, <3>5, SparesOn
        <3> QED  BY <1>1, <3>4, <3>6
    <2> QED  BY <2>4, <2>5
<1> QED  BY <1>3, <1>4

\* The call has ended and left w in the trees.
Left(made, used, c, w, s) ==
    /\ Fresh(made, c, w) /\ NewTells(made, w, s) /\ used.ok /\ Ended(used, held)

\* For every memory M has what a call makes, U how the heap is when that is stored,
\* and run how the call ends.
NewRun(M, U, run, s) ==
    /\ \A m \in Memory : M[m] = json_value_init(Call(m), Scalar(s))
    /\ \A m \in Memory : run[m] = WithNew(M[m], U[m])

AllStore(M, U, c) == \A m \in Memory : \A w : Fresh(M[m], c, w) => StoresNew(M[m], U[m], c, w)

LEMMA NewEnds ==
    ASSUME IInv, NEW s \in Scalars, NEW c \in Exist(node), NEW M, NEW U, NEW run, Calls(run, held),
           NewRun(M, U, run, s), AllStore(M, U, c)
    PROVE  Doc!Fails \/ \E m \in Memory : \E w : Left(M[m], U[m], c, w, s)
<1>1. ASSUME NEW m \in Memory
      PROVE  /\ EndsIn(run[m], held, held)
             /\ ~run[m].ok => Spares(node, run[m].node)
             /\ run[m].ok  => /\ \E w : Fresh(M[m], c, w) /\ NewTells(M[m], w, s)
                              /\ U[m].ok /\ run[m] = U[m]
    <2>1. PICK made, used, r : made = M[m] /\ used = U[m] /\ r = run[m]
        OBVIOUS
    <2>2. /\ m \in Nat /\ made = json_value_init(Call(m), Scalar(s)) /\ r = WithNew(made, used)
          /\ \A w : Fresh(made, c, w) => StoresNew(made, used, c, w)
        BY <2>1, MemoryIsNat DEF NewRun, AllStore
    <2> QED  BY <2>1, <2>2, NewSpares
<1>2. Doc!Fails \/ \E m \in Memory : run[m].ok /\ Ended(run[m], held)
    BY <1>1, CallsEnd
<1> QED  BY <1>1, <1>2 DEF Left

\* What is left in the trees is new.
LEMMA LeftIs ==
    ASSUME NEW made, NEW used, NEW c, NEW w, NEW s, Left(made, used, c, w, s), IInv,
           w \in Exist(used.node)
    PROVE  /\ w \in Doc!New /\ held' = held
           /\ Exist(used.node) \ Exist(made.node) \subseteq Doc!New \ {w}
           /\ \A d : Tells(used.node, d) => Doc!Becomes(d, held)
<1>1. DOMAIN content' = Exist(used.node) /\ \A d : Tells(used.node, d) => Doc!Becomes(d, held)
    BY EndedIs DEF Left
<1>2. w \notin Exist(node) /\ Exist(made.node) = Exist(node) \cup {w} /\ held' = held
    BY DEF Left, NewTells, Ended
<1>3. DOMAIN content = Exist(node)
    BY GivenDoc
<1> QED  BY <1>1, <1>2, <1>3 DEF Doc!New

\* A member is there.
LEMMA AddedExists ==
    ASSUME NEW md, NEW R, Sound(md, R), NEW p \in Values, md[p].type = "object",
           NEW f, NEW key, NEW w \in Values, Members(md[p]) = Doc!Added(f, key, w)
    PROVE  w \in Exist(md)
<1>1. key \in DOMAIN Members(md[p]) /\ Members(md[p])[key] = w
    BY DEF Doc!Added
<1>2. json_object_get_value(md, p, key) = w /\ w # NULL
    BY <1>1, GetMembers, ValuesAssumption
<1> QED  BY <1>2, GetIs

LEMMA SetNewDoc ==
    ASSUME IInv, SetNew
    PROVE  Doc!Next
<1> DEFINE Made(m, s) == json_value_init(Call(m), Scalar(s))
           Used(x, o, name) == json_object_set_value(x, o, name, x.value)
<1>1. PICK o \in Objects, name \in Names, s \in Scalars :
         Calls([m \in Memory |-> WithNew(Made(m, s), Used(Made(m, s), o, name))], held)
    BY DEF SetNew
<1> DEFINE M == [m \in Memory |-> Made(m, s)]
           U == [m \in Memory |-> Used(Made(m, s), o, name)]
           run == [m \in Memory |-> WithNew(Made(m, s), Used(Made(m, s), o, name))]
<1>2. o \in Values /\ o \in Exist(node) /\ node[o].type = "object" /\ name \in Keys
    BY Given
<1>3. ASSUME NEW m \in Memory, NEW w, Fresh(M[m], o, w)
      PROVE  StoresNew(M[m], U[m], o, w) /\ (U[m].ok => Puts(M[m].node, U[m].node, o, name, w))
    <2>1. PICK made : made = Made(m, s)
        OBVIOUS
    <2>2. PICK r : r = Used(made, o, name)
        OBVIOUS
    <2>3. M[m] = made /\ U[m] = r
        BY <2>1, <2>2
    <2>4. PICK Q : Q = held \cup {w}
        OBVIOUS
    <2>5. /\ Heap(made, Q, 0) /\ made.ok /\ w \in Exist(made.node) /\ made.value = w
          /\ made.node[o].type = "object" /\ (w \in Q => o \notin Tree(made.node, w))
        <3>1. Fresh(made, o, w)
            BY <1>3, <2>3
        <3> HIDE DEF M, U
        <3> QED  BY <1>2, <2>4, <3>1, FreshGiven
    <2>6. r = json_object_set_value(made, o, name, w)
        BY <2>2, <2>5
    <2>7. Sets(made, r, Q, 0, o, w)
        BY <1>2, <2>5, <2>6, SetIs
    <2>8. /\ ~r.ok => Spares(made.node, r.node)
          /\ r.ok  => Puts(made.node, r.node, o, name, w)
        BY <1>2, <2>5, <2>6, SetPuts
    <2> HIDE DEF M, U
    <2> QED  BY <2>3, <2>4, <2>7, <2>8 DEF StoresNew
<1>4. NewRun(M, U, run, s)
    BY DEF NewRun
<1>5. Calls(run, held)
    BY <1>1
<1> HIDE DEF M, U, run, Made, Used
<1>6. Doc!Fails \/ \E m \in Memory : \E w : Left(M[m], U[m], o, w, s)
    <2>1. AllStore(M, U, o)
        BY <1>3 DEF AllStore
    <2> QED  BY <1>2, <1>4, <1>5, <2>1, NewEnds
<1>7. ASSUME NEW m \in Memory, NEW w, Left(M[m], U[m], o, w, s) PROVE Doc!Next
    <2>1. PICK made, r : made = M[m] /\ r = U[m] /\ Left(made, r, o, w, s)
        BY <1>7
    <2>2. Puts(made.node, r.node, o, name, w)
        BY <1>3, <2>1 DEF Left
    <2>3. PICK c : c = Doc!Plus(content, w, s)
        OBVIOUS
    <2>4. /\ Sound(made.node, held \cup {w}) /\ Sound(r.node, held) /\ w \in Values
          /\ made.node[o].type = "object" /\ Tells(made.node, c)
        BY <1>2, <2>1, <2>3 DEF Left, NewTells, Ended, Fresh
    <2>5. Tells(r.node, Doc!With(c, o, name, w))
        BY <1>2, <2>2, <2>4, PutsTell
    <2>6. w \in Exist(r.node)
        BY <1>2, <2>2, <2>4, AddedExists DEF Puts
    <2>7. w \in Doc!New /\ held' = held /\ Doc!Becomes(Doc!With(c, o, name, w), held)
        BY <2>1, <2>5, <2>6, LeftIs
    <2>8. Doc!SetNew(w)
        BY <2>3, <2>7, GivenDoc DEF Doc!SetNew
    <2> QED  BY <2>7, <2>8 DEF Doc!Keeps, Doc!Next
<1> QED  BY <1>6, <1>7 DEF Doc!Next

LEMMA WalkedExists ==
    ASSUME NEW nd, NEW md, NEW R, Sound(md, R), NEW o, NEW name, NEW l \in Nat \ {0},
           NEW v \in Values, Walked(nd, md, o, name, 1, l, v)
    PROVE  v \in Exist(md)
<1>1. PICK at : Way(nd, md, at, name, 1, l, v)
    BY DEF Walked
<1>2. PICK x, key : x = at[l] /\ key = <<name[l]>>
    OBVIOUS
<1>3. x \in Values /\ Got(nd, md, x, key, v)
    BY <1>1, <1>2 DEF Way
<1> QED  BY <1>3, AddedExists DEF Got

LEMMA DotSetNewDoc ==
    ASSUME IInv, DotSetNew
    PROVE  Doc!Next
<1> DEFINE Made(m, s) == json_value_init(Call(m), Scalar(s))
           Used(x, o, name) == json_object_dotset_value(x, o, name, x.value)
<1>1. PICK o \in Objects, name \in Names, s \in Scalars :
         Calls([m \in Memory |-> WithNew(Made(m, s), Used(Made(m, s), o, name))], held)
    BY DEF DotSetNew
<1> DEFINE M == [m \in Memory |-> Made(m, s)]
           U == [m \in Memory |-> Used(Made(m, s), o, name)]
           run == [m \in Memory |-> WithNew(Made(m, s), Used(Made(m, s), o, name))]
<1>2. o \in Values /\ o \in Exist(node) /\ node[o].type = "object" /\ name \in Keys /\ Len(name) > 0
    BY Given
<1>3. PICK l \in Nat \ {0} : Long(name, l)
    BY <1>2 DEF Long, Keys
<1>4. ASSUME NEW m \in Memory, NEW w, Fresh(M[m], o, w)
      PROVE  StoresNew(M[m], U[m], o, w)
             /\ (U[m].ok => Walked(M[m].node, U[m].node, o, name, 1, l, w))
    <2>1. PICK made : made = Made(m, s)
        OBVIOUS
    <2>2. PICK r : r = Used(made, o, name)
        OBVIOUS
    <2>3. M[m] = made /\ U[m] = r
        BY <2>1, <2>2
    <2>4. PICK Q : Q = held \cup {w}
        OBVIOUS
    <2>5. /\ Heap(made, Q, 0) /\ made.ok /\ w \in Exist(made.node) /\ made.value = w
          /\ made.node[o].type = "object" /\ (w \in Q => o \notin Tree(made.node, w))
        <3>1. Fresh(made, o, w)
            BY <1>4, <2>3
        <3> HIDE DEF M, U
        <3> QED  BY <1>2, <2>4, <3>1, FreshGiven
    <2>6. r = json_object_dotset_value(made, o, name, w)
        BY <2>2, <2>5
    <2>7. Sets(made, r, Q, 0, o, w)
        BY <1>2, <2>5, <2>6, DotSetIs
    <2>8. Storable(made, Q, 0, o, w)
        BY <1>2, <2>5 DEF Storable
    <2>9. Walking(made, r, o, name, 1, l, w)
        BY <1>2, <1>3, <2>6, <2>8, DotSetWalks
    <2> HIDE DEF M, U
    <2> QED  BY <2>3, <2>4, <2>7, <2>9 DEF StoresNew, Walking
<1>5. NewRun(M, U, run, s)
    BY DEF NewRun
<1>6. Calls(run, held)
    BY <1>1
<1> HIDE DEF M, U, run, Made, Used
<1>7. Doc!Fails \/ \E m \in Memory : \E w : Left(M[m], U[m], o, w, s)
    <2>1. AllStore(M, U, o)
        BY <1>4 DEF AllStore
    <2> QED  BY <1>2, <1>5, <1>6, <2>1, NewEnds
<1>8. ASSUME NEW m \in Memory, NEW w, Left(M[m], U[m], o, w, s) PROVE Doc!Next
    <2>1. PICK made, r : made = M[m] /\ r = U[m] /\ Left(made, r, o, w, s)
        BY <1>8
    <2>2. Walked(made.node, r.node, o, name, 1, l, w)
        BY <1>4, <2>1 DEF Left
    <2>3. PICK c : c = Doc!Plus(content, w, s)
        OBVIOUS
    <2>4. /\ Sound(made.node, held \cup {w}) /\ Sound(r.node, held) /\ w \in Values
          /\ Tells(made.node, c) /\ DOMAIN c = Exist(made.node)
        BY <2>1, <2>3 DEF Left, NewTells, Ended
    <2>5. w \in Exist(r.node)
        BY <2>2, <2>4, WalkedExists
    <2>6. PICK new : new = Doc!New \ {w}
        OBVIOUS
    <2>7. /\ w \in Doc!New /\ held' = held /\ Exist(r.node) \ Exist(made.node) \subseteq new
          /\ \A d : Tells(r.node, d) => Doc!Becomes(d, held)
        BY <2>1, <2>5, <2>6, LeftIs
    <2>8. \E at \in Doc!Roads(c, o, name, new) : Tells(r.node, Doc!DotWith(c, at, name, w))
        BY <1>3, <2>2, <2>4, <2>7, WalkedDoc
    <2>9. \E at \in Doc!Roads(c, o, name, new) : Doc!Becomes(Doc!DotWith(c, at, name, w), held)
        BY <2>7, <2>8
    <2>10. Doc!DotSetNew(w)
        <3>1. o \in Doc!Objects
            BY GivenDoc
        <3>2. \E at \in Doc!Roads(Doc!Plus(content, w, s), o, name, Doc!New \ {w}) :
                 Doc!Becomes(Doc!DotWith(Doc!Plus(content, w, s), at, name, w), held)
            BY <2>3, <2>6, <2>9, Zenon
        <3> QED  BY <3>1, <3>2, Zenon DEF Doc!DotSetNew
    <2> QED  BY <2>7, <2>10 DEF Doc!Keeps, Doc!Next
<1> QED  BY <1>7, <1>8 DEF Doc!Next

\* An item is there.
LEMMA ItemExists ==
    ASSUME NEW nd, NEW md, NEW R, Sound(md, R), NEW a \in Values, NEW s, Itemed(nd, md, a, s),
           NEW w \in ToSet(s)
    PROVE  w \in Exist(md)
<1>1. w \in Children(md, a)
    BY DEF Itemed, Children, Containers
<1> QED  BY <1>1, SoundNodes

LEMMA AppendNewDoc ==
    ASSUME IInv, AppendNew
    PROVE  Doc!Next
<1> DEFINE Made(m, s) == json_value_init(Call(m), Scalar(s))
           Used(x, a) == json_array_append_value(x, a, x.value)
<1>1. PICK a \in Arrays, s \in Scalars :
         Calls([m \in Memory |-> WithNew(Made(m, s), Used(Made(m, s), a))], held)
    BY DEF AppendNew
<1> DEFINE M == [m \in Memory |-> Made(m, s)]
           U == [m \in Memory |-> Used(Made(m, s), a)]
           run == [m \in Memory |-> WithNew(Made(m, s), Used(Made(m, s), a))]
<1>2. a \in Values /\ a \in Exist(node) /\ node[a].type = "array"
    BY Given
<1>3. PICK t : t = node[a].values
    OBVIOUS
<1>4. ASSUME NEW m \in Memory, NEW w, Fresh(M[m], a, w)
      PROVE  StoresNew(M[m], U[m], a, w)
             /\ (U[m].ok => Itemed(M[m].node, U[m].node, a, Append(t, w)))
    <2>1. PICK made : made = Made(m, s)
        OBVIOUS
    <2>2. PICK r : r = Used(made, a)
        OBVIOUS
    <2>3. M[m] = made /\ U[m] = r
        BY <2>1, <2>2
    <2>4. PICK Q : Q = held \cup {w}
        OBVIOUS
    <2>5. /\ Heap(made, Q, 0) /\ made.ok /\ w \in Exist(made.node) /\ made.value = w
          /\ made.node[a].type = "array" /\ (w \in Q => a \notin Tree(made.node, w))
          /\ made.node[a].values = t
        <3>1. Fresh(made, a, w)
            BY <1>4, <2>3
        <3>2. made.node[a] = node[a]
            BY <3>1 DEF Fresh
        <3> HIDE DEF M, U
        <3> QED  BY <1>2, <1>3, <2>4, <3>1, <3>2, FreshGiven
    <2>6. r = json_array_append_value(made, a, w)
        BY <2>2, <2>5
    <2>7. Sets(made, r, Q, 0, a, w)
        BY <1>2, <2>5, <2>6, AppendValueIs
    <2>8. /\ ~r.ok => Spares(made.node, r.node)
          /\ r.ok  => Itemed(made.node, r.node, a, Append(t, w))
        BY <1>2, <2>5, <2>6, AppendPuts
    <2> HIDE DEF M, U
    <2> QED  BY <2>3, <2>4, <2>7, <2>8 DEF StoresNew
<1>5. NewRun(M, U, run, s)
    BY DEF NewRun
<1>6. Calls(run, held)
    BY <1>1
<1> HIDE DEF M, U, run, Made, Used
<1>7. Doc!Fails \/ \E m \in Memory : \E w : Left(M[m], U[m], a, w, s)
    <2>1. AllStore(M, U, a)
        BY <1>4 DEF AllStore
    <2> QED  BY <1>2, <1>5, <1>6, <2>1, NewEnds
<1>8. ASSUME NEW m \in Memory, NEW w, Left(M[m], U[m], a, w, s) PROVE Doc!Next
    <2>1. PICK made, r : made = M[m] /\ r = U[m] /\ Left(made, r, a, w, s)
        BY <1>8
    <2>2. PICK i : i = Append(t, w)
        OBVIOUS
    <2>3. Itemed(made.node, r.node, a, i)
        BY <1>4, <2>1, <2>2 DEF Left
    <2>4. PICK c : c = Doc!Plus(content, w, s)
        OBVIOUS
    <2>5. /\ Sound(made.node, held \cup {w}) /\ Sound(r.node, held) /\ w \in Values
          /\ Tells(made.node, c) /\ made.node[a] = node[a]
        BY <2>1, <2>4 DEF Left, NewTells, Ended, Fresh
    <2>6. w \in ToSet(i)
        <3>1. t \in Seq(Values)
            BY <1>2, <1>3, ContainerIs DEF Containers, IInv, Sound
        <3> QED  BY <2>2, <2>5, <3>1 DEF ToSet
    <2>7. w \in Exist(r.node)
        BY <1>2, <2>3, <2>5, <2>6, ItemExists
    <2>8. /\ w \in Doc!New /\ held' = held
          /\ \A d : Tells(r.node, d) => Doc!Becomes(d, held)
        BY <2>1, <2>7, LeftIs
    <2>9. PICK d : d = [c EXCEPT ![a].array = Append(@, w)]
        OBVIOUS
    <2>10. ItemsIn(c, d, a, i)
        <3>1. ArrayIn(c, a, t)
            BY <1>2, <1>3, <2>5, TellsArray
        <3>2. ItemsIn(c, d, a, Append(t, w))
            BY <2>9, <3>1, AppendedIn, Zenon
        <3> QED  BY <2>2, <3>2
    <2>11. Tells(r.node, d)
        BY <1>2, <2>3, <2>5, <2>10, ItemsTell
    <2>12. Doc!AppendNew(w)
        <3>1. a \in Doc!Arrays /\ Doc!Becomes(d, held)
            BY <2>8, <2>11, GivenDoc
        <3> QED  BY <2>4, <2>9, <3>1 DEF Doc!AppendNew
    <2> QED  BY <2>8, <2>12 DEF Doc!Keeps, Doc!Next
<1> QED  BY <1>7, <1>8 DEF Doc!Next

LEMMA ReplaceNewDoc ==
    ASSUME IInv, ReplaceNew
    PROVE  Doc!Next
<1> DEFINE Made(m, s) == json_value_init(Call(m), Scalar(s))
           Used(x, a, i) == json_array_replace_value(x, a, i, x.value)
<1>1. PICK a \in Arrays, s \in Scalars : \E i \in Index(a) :
         Calls([m \in Memory |-> WithNew(Made(m, s), Used(Made(m, s), a, i))], held)
    BY DEF ReplaceNew
<1>2. PICK i \in Nat \ {0} :
         Calls([m \in Memory |-> WithNew(Made(m, s), Used(Made(m, s), a, i))], held)
    <2> HIDE DEF Made, Used
    <2> QED  BY <1>1, Given
<1> DEFINE M == [m \in Memory |-> Made(m, s)]
           U == [m \in Memory |-> Used(Made(m, s), a, i)]
           run == [m \in Memory |-> WithNew(Made(m, s), Used(Made(m, s), a, i))]
<1>3. a \in Values /\ a \in Exist(node) /\ node[a].type = "array"
    BY Given
<1>4. PICK t : t = node[a].values
    OBVIOUS
<1>5. ASSUME NEW m \in Memory, NEW w, Fresh(M[m], a, w)
      PROVE  /\ StoresNew(M[m], U[m], a, w)
             /\ U[m].ok => i \in DOMAIN t /\ Itemed(M[m].node, U[m].node, a, [t EXCEPT ![i] = w])
    <2>1. PICK made : made = Made(m, s)
        OBVIOUS
    <2>2. PICK r : r = Used(made, a, i)
        OBVIOUS
    <2>3. M[m] = made /\ U[m] = r
        BY <2>1, <2>2
    <2>4. PICK Q : Q = held \cup {w}
        OBVIOUS
    <2>5. /\ Heap(made, Q, 0) /\ made.ok /\ w \in Exist(made.node) /\ made.value = w
          /\ made.node[a].type = "array" /\ (w \in Q => a \notin Tree(made.node, w))
          /\ made.node[a].values = t
        <3>1. Fresh(made, a, w)
            BY <1>5, <2>3
        <3>2. made.node[a] = node[a]
            BY <3>1 DEF Fresh
        <3> HIDE DEF M, U
        <3> QED  BY <1>3, <1>4, <2>4, <3>1, <3>2, FreshGiven
    <2>6. r = json_array_replace_value(made, a, i, w)
        BY <2>2, <2>5
    <2>7. Sets(made, r, Q, 0, a, w)
        BY <1>3, <2>5, <2>6, ReplaceValueIs
    <2>8. /\ ~r.ok => Spares(made.node, r.node)
          /\ r.ok  => i \in DOMAIN t /\ Itemed(made.node, r.node, a, [t EXCEPT ![i] = w])
        BY <1>3, <2>5, <2>6, ReplacePuts
    <2> HIDE DEF M, U
    <2> QED  BY <2>3, <2>4, <2>7, <2>8, Zenon DEF StoresNew
<1>6. NewRun(M, U, run, s)
    BY DEF NewRun
<1>7. Calls(run, held)
    BY <1>2
<1> HIDE DEF M, U, run, Made, Used
<1>8. Doc!Fails \/ \E m \in Memory : \E w : Left(M[m], U[m], a, w, s)
    <2>1. AllStore(M, U, a)
        BY <1>5 DEF AllStore
    <2> QED  BY <1>3, <1>6, <1>7, <2>1, NewEnds
<1>9. ASSUME NEW m \in Memory, NEW w, Left(M[m], U[m], a, w, s) PROVE Doc!Next
    <2>1. PICK made, r : made = M[m] /\ r = U[m] /\ Left(made, r, a, w, s)
        BY <1>9
    <2>2. PICK x : x = [t EXCEPT ![i] = w]
        OBVIOUS
    <2>3. i \in DOMAIN t /\ Itemed(made.node, r.node, a, x)
        <3>1. Fresh(M[m], a, w) /\ U[m].ok
            BY <2>1 DEF Left
        <3>2. i \in DOMAIN t /\ Itemed(M[m].node, U[m].node, a, [t EXCEPT ![i] = w])
            BY <1>5, <3>1
        <3> QED  BY <2>1, <2>2, <3>2, Zenon
    <2>4. PICK c : c = Doc!Plus(content, w, s)
        OBVIOUS
    <2>5. /\ Sound(made.node, held \cup {w}) /\ Sound(r.node, held) /\ w \in Values
          /\ Tells(made.node, c) /\ made.node[a] = node[a]
        BY <2>1, <2>4 DEF Left, NewTells, Ended, Fresh
    <2>6. w \in ToSet(x)
        <3>1. i \in DOMAIN x /\ x[i] = w
            BY <2>2, <2>3
        <3> QED  BY <3>1 DEF ToSet
    <2>7. w \in Exist(r.node)
        BY <1>3, <2>3, <2>5, <2>6, ItemExists
    <2>8. /\ w \in Doc!New /\ held' = held
          /\ \A d : Tells(r.node, d) => Doc!Becomes(d, held)
        BY <2>1, <2>7, LeftIs
    <2>9. PICK d : d = [c EXCEPT ![a].array[i] = w]
        OBVIOUS
    <2>10. ItemsIn(c, d, a, x)
        <3>1. ArrayIn(c, a, t)
            BY <1>3, <1>4, <2>5, TellsArray
        <3>2. ItemsIn(c, d, a, [t EXCEPT ![i] = w])
            BY <2>9, <3>1, PutAt, Zenon
        <3> QED  BY <2>2, <3>2, Zenon
    <2>11. Tells(r.node, d)
        BY <1>3, <2>3, <2>5, <2>10, ItemsTell
    <2>12. Doc!ReplaceNew(w)
        <3>1. a \in Doc!Arrays /\ Doc!Becomes(d, held) /\ i \in DOMAIN content[a].array
            <4>1. ArrayIn(content, a, t) /\ a \in Doc!Arrays
                BY <1>4, GivenDoc
            <4>2. content[a].array = t
                BY <4>1 DEF ArrayIn
            <4> QED  BY <2>3, <2>8, <2>11, <4>1, <4>2
        <3>2. Doc!Becomes([Doc!Plus(content, w, s) EXCEPT ![a].array[i] = w], held)
            BY <2>4, <2>9, <3>1, Zenon
        <3> QED  BY <3>1, <3>2 DEF Doc!ReplaceNew
    <2> QED  BY <2>8, <2>12 DEF Doc!Keeps, Doc!Next
<1> QED  BY <1>8, <1>9 DEF Doc!Next

-----------------------------------------------------------------------------
(* The calls that make a document. *)

GrownFrom(r) == \E h : h.node = node /\ Grown(h, r, held, 0)

LEMMA GrownDoc ==
    ASSUME IInv, NEW run, Makes(run), \A m \in Memory : GrownFrom(run[m])
    PROVE  Doc!Next
<1>1. ASSUME NEW m \in Memory
      PROVE  /\ EndsIn(run[m], held, held \cup {run[m].value})
             /\ ~run[m].ok => Spares(node, run[m].node)
             /\ \A u \in Exist(node) : run[m].node[u] = node[u]
             /\ run[m].ok  => run[m].value \in Values \ Exist(node)
    <2>1. PICK r : r = run[m]
        OBVIOUS
    <2>2. PICK h : h.node = node /\ Grown(h, r, held, 0)
        BY <2>1 DEF GrownFrom
    <2>3. EndsIn(r, held, held \cup {r.value})
        BY <2>2, GrownEnds
    <2>4. \A u \in Exist(node) : r.node[u] = node[u]
        BY <2>2 DEF Grown, Keeps
    <2>5. r.ok => r.value \in Values \ Exist(node)
        BY <2>2 DEF Grown
    <2> QED  BY <2>1, <2>3, <2>4, <2>5 DEF Spares
<1>2. Doc!Fails \/ \E m \in Memory : run[m].ok /\ Ended(run[m], held \cup {run[m].value})
    BY <1>1, MakesEnd
<1>3. ASSUME NEW m \in Memory, run[m].ok, Ended(run[m], held \cup {run[m].value}) PROVE Doc!Next
    <2>1. PICK r, v : r = run[m] /\ v = r.value
        OBVIOUS
    <2>2. PICK S : S = held \cup {v}
        OBVIOUS
    <2>3. Ended(r, S) /\ v \in Values \ Exist(node) /\ \A u \in Exist(node) : r.node[u] = node[u]
        BY <1>1, <1>3, <2>1, <2>2
    <2>4. /\ content' = Contents(r.node) /\ DOMAIN content' = Exist(r.node)
          /\ \A c : Tells(r.node, c) => Doc!Becomes(c, S)
        BY <2>3, EndedIs
    <2>5. Tells(r.node, Contents(r.node))
        BY DEF Tells, Contents
    <2>6. PICK c : c = Contents(r.node)
        OBVIOUS
    <2>7. c = content' /\ Doc!Becomes(c, S)
        BY <2>4, <2>5, <2>6
    <2>8. held' = S /\ v \in Exist(r.node)
        <3>1. Sound(r.node, S) /\ held' = S
            BY <2>3 DEF Ended
        <3> QED  BY <2>2, <3>1, SoundNodes
    <2>9. DOMAIN content = Exist(node) /\ held \subseteq Exist(node) /\ Tells(node, content)
        BY GivenDoc, SoundNodes
    <2>10. v \in held' \ held /\ v \in Doc!New
        BY <2>2, <2>3, <2>4, <2>8, <2>9 DEF Doc!New
    <2>11. \A u \in DOMAIN content : u \in DOMAIN content' /\ content'[u] = content[u]
        <3>1. ASSUME NEW u \in Exist(node)
              PROVE  u \in Exist(r.node) /\ Contents(r.node)[u] = content[u]
            <4>1. u \in Exist(r.node)
                BY <2>3 DEF Exist
            <4> QED  BY <2>3, <2>9, <4>1 DEF Tells, Contents
        <3> QED  BY <2>4, <2>9, <3>1
    <2>12. Doc!Becomes(content', held \cup {v})
        BY <2>2, <2>7, Zenon
    <2>13. Doc!Adopt
        BY <2>10, <2>11, <2>12, Zenon DEF Doc!Adopt
    <2> QED  BY <2>13 DEF Doc!Next
<1> QED  BY <1>2, <1>3 DEF Doc!Next

LEMMA CreateDoc ==
    ASSUME IInv, Create
    PROVE  Doc!Next
<1>1. ASSUME NEW n, Single(n), Makes([m \in Memory |-> json_value_init(Call(m), n)])
      PROVE  Doc!Next
    <2> DEFINE run == [m \in Memory |-> json_value_init(Call(m), n)]
    <2>1. ASSUME NEW m \in Memory PROVE GrownFrom(run[m])
        <3>1. PICK h : h = Call(m)
            OBVIOUS
        <3>2. Heap(h, held, 0) /\ h.node = node
            BY <3>1, CallIs, MemoryIsNat
        <3>3. Grown(h, json_value_init(h, n), held, 0)
            BY <1>1, <3>2, InitGrows
        <3>4. run[m] = json_value_init(h, n)
            BY <3>1
        <3> HIDE DEF run
        <3> QED  BY <3>2, <3>3, <3>4 DEF GrownFrom
    <2>2. Makes(run)
        BY <1>1
    <2> HIDE DEF run
    <2> QED  BY <2>1, <2>2, GrownDoc
<1>2. \A t \in Containers : Single(Container(t))
    BY ContainerSingle
<1>3. \A s \in Scalars : Single(Scalar(s))
    BY ScalarSingle DEF Data
<1> QED  BY <1>1, <1>2, <1>3 DEF Create

LEMMA CopyDoc ==
    ASSUME IInv, Copy
    PROVE  Doc!Next
<1>1. PICK v \in Live : Makes([m \in Memory |-> json_value_deep_copy(Call(m), v)])
    BY DEF Copy
<1> DEFINE run == [m \in Memory |-> json_value_deep_copy(Call(m), v)]
<1>2. ASSUME NEW m \in Memory PROVE GrownFrom(run[m])
    <2>1. PICK h : h = Call(m)
        OBVIOUS
    <2>2. Heap(h, held, 0) /\ h.ok /\ v \in Exist(h.node) /\ h.node = node
        BY <2>1, CallIs, MemoryIsNat, Given
    <2>3. Grown(h, json_value_deep_copy(h, v), held, 0)
        BY <2>2, CopyIs
    <2>4. run[m] = json_value_deep_copy(h, v)
        BY <2>1
    <2> HIDE DEF run
    <2> QED  BY <2>2, <2>3, <2>4 DEF GrownFrom
<1>3. Makes(run)
    BY <1>1
<1> HIDE DEF run
<1> QED  BY <1>2, <1>3, GrownDoc

LEMMA ParseDoc ==
    ASSUME IInv, Parse
    PROVE  Doc!Next
<1>1. PICK text \in Texts : Makes([m \in Memory |-> parse_value([Call(m) EXCEPT !.text = text])])
    BY DEF Parse
<1> DEFINE run == [m \in Memory |-> parse_value([Call(m) EXCEPT !.text = text])]
<1>2. ASSUME NEW m \in Memory PROVE GrownFrom(run[m])
    <2>1. PICK g : g = Call(m)
        OBVIOUS
    <2>2. Heap(g, held, 0) /\ g.ok /\ g \in Heaps /\ g.node = node
        BY <2>1, CallIs, MemoryIsNat DEF Heap
    <2>3. PICK h : h = [g EXCEPT !.text = text]
        OBVIOUS
    <2>4. /\ h \in Heaps /\ h.node = g.node /\ h.blocks = g.blocks /\ h.lost = g.lost /\ h.ok = g.ok
        BY <2>2, <2>3, TextsAssumption DEF Heaps
    <2>5. Debt(h) = Debt(g)
        BY <2>4 DEF Debt
    <2>6. Heap(h, held, 0) /\ h.ok /\ h.node = node
        BY <2>2, <2>4, <2>5 DEF Heap
    <2>7. Grown(h, parse_value(h), held, 0)
        BY <2>6, ParseIs
    <2>8. run[m] = parse_value(h)
        BY <2>1, <2>3
    <2> HIDE DEF run
    <2> QED  BY <2>6, <2>7, <2>8 DEF GrownFrom
<1>3. Makes(run)
    BY <1>1
<1> HIDE DEF run
<1> QED  BY <1>2, <1>3, GrownDoc

-----------------------------------------------------------------------------
LEMMA DocInit ==
    ASSUME Init
    PROVE  Doc!Init
<1>1. Live = {} /\ held = {} /\ ok = TRUE
    BY DEF Init, Live, Exist, Unused
<1>2. content = <<>>
    BY <1>1 DEF content
<1> QED  BY <1>1, <1>2 DEF Doc!Init

LEMMA DocStep ==
    ASSUME IInv, [Next]_vars
    PROVE  [Doc!Next]_(Doc!vars)
<1>1. CASE Next
    BY <1>1, CreateDoc, SetValueDoc, SetNewDoc, DotSetDoc, DotSetNewDoc, RemoveMemberDoc,
       DotRemoveDoc, AppendValueDoc, AppendNewDoc, ReplaceValueDoc, ReplaceNewDoc, RemoveItemDoc,
       ClearDoc, CopyDoc, ParseDoc, FreeValueDoc DEF Next
<1>2. CASE UNCHANGED vars
    <2>1. node' = node /\ held' = held /\ ok' = ok
        BY <1>2 DEF vars
    <2>2. content' = content
        BY <2>1 DEF content, Live, Exist
    <2> QED  BY <2>1, <2>2 DEF Doc!vars
<1> QED  BY <1>1, <1>2

\* Every call changes the documents as its name says, or fails and changes nothing,
\* and frees exactly what cannot be reached any more (parson.c:1349-2011).
THEOREM DocumentsAreKept == Spec => Promise
<1>1. Init => Doc!Init
    BY DocInit
<1>2. IInv /\ [Next]_vars => [Doc!Next]_(Doc!vars)
    BY DocStep
<1> QED  BY <1>1, <1>2, Inductive, PTL DEF Spec, Promise, Doc!Spec
=============================================================================
