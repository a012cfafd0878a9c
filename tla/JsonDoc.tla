------------------------------- MODULE JsonDoc -------------------------------
(***************************************************************************)
(* What a program may rely on when it builds documents with parson         *)
(* (include/parson.h): the documents as a language with a garbage          *)
(* collector would keep them.  There are no parents, no capacities, no     *)
(* order of members and no memory that runs out half way: a call does what *)
(* its name says and returns, or it fails and has changed nothing, and     *)
(* what the program cannot reach any more is gone, neither more nor less.  *)
(***************************************************************************)
EXTENDS Naturals, SequencesExt

CONSTANTS
    Values,     \* identities of JSON values
    Names,      \* names, a dotted one as the sequence of its parts
    Scalars     \* contents of strings, numbers, booleans and null

VARIABLES
    content,    \* what each value that exists holds
    held,       \* the values the program owns
    ok          \* whether the last call succeeded

vars == <<content, held, ok>>

IsObject(c, v) == "object" \in DOMAIN c[v]
IsArray(c, v)  == "array" \in DOMAIN c[v]
ObjectsOf(c) == {v \in DOMAIN c : IsObject(c, v)}
ArraysOf(c)  == {v \in DOMAIN c : IsArray(c, v)}
Objects == ObjectsOf(content)
Arrays  == ArraysOf(content)
New     == DOMAIN content' \ DOMAIN content

Children(c, v) == IF IsObject(c, v) THEN {c[v].object[n] : n \in DOMAIN c[v].object}
                  ELSE IF IsArray(c, v) THEN ToSet(c[v].array)
                  ELSE {}

Closed(c, S) == \A v \in S : Children(c, v) \subseteq S

\* S is what can be reached from some values, the smallest closed set that has them.
Reach(c, from, S) ==
    /\ from \subseteq S /\ Closed(c, S)
    /\ \A T \in SUBSET S : from \subseteq T /\ Closed(c, T) => T = S

\* The call succeeds, the program owns roots, and of c is left what they reach.
Becomes(c, roots) ==
    LET after == content' IN
    /\ ok' = TRUE
    /\ held' = roots
    /\ \A v \in DOMAIN after : v \in DOMAIN c /\ after[v] = c[v]
    /\ Reach(c, roots, DOMAIN after)

\* A value the program owns can be put below c unless c is below it.
CanEnter(v, c) == \E S \in SUBSET DOMAIN content : Reach(content, {v}, S) /\ c \notin S

\* A member is stored, in the place of the one that has its name.
Added(f, name, v) == [n \in DOMAIN f \cup {name} |-> IF n = name THEN v ELSE f[n]]

With(c, o, name, v)  == [c EXCEPT ![o].object = Added(@, name, v)]
Without(c, o, name) == [c EXCEPT ![o].object = [n \in DOMAIN @ \ {name} |-> @[n]]]

\* With a new scalar.
Plus(c, v, s) == [u \in DOMAIN c \cup {v} |-> IF u = v THEN s ELSE c[u]]

\* The objects on the way from o along a dotted name: those that are there, and new
\* ones from where a part is missing.
Roads(c, o, name, new) ==
    {at \in [1 .. Len(name) -> ObjectsOf(c) \cup new] :
        /\ at[1] = o /\ IsInjective(at)
        /\ \A i \in 1 .. Len(name) - 1 :
              IF at[i] \in DOMAIN c /\ <<name[i]>> \in DOMAIN c[at[i]].object
              THEN at[i + 1] = c[at[i]].object[<<name[i]>>]
              ELSE at[i + 1] \in new}

\* v stored under the last part of the name, and every object on the way under its own.
DotWith(c, at, name, v) ==
    LET Old(u)  == IF u \in DOMAIN c THEN c[u].object ELSE <<>>
        Next(i) == IF i = Len(name) THEN v ELSE at[i + 1]
    IN [u \in DOMAIN c \cup ToSet(at) |->
           IF u \in ToSet(at)
           THEN LET i == CHOOSE i \in DOMAIN at : at[i] = u
                IN [object |-> Added(Old(u), <<name[i]>>, Next(i))]
           ELSE c[u]]
-----------------------------------------------------------------------------
SetValue(v) == \E o \in Objects, name \in Names :
    /\ Becomes(With(content, o, name, v), held \ {v})
    /\ CanEnter(v, o)

SetNew(v) == \E o \in Objects, name \in Names, s \in Scalars :
    Becomes(With(Plus(content, v, s), o, name, v), held)

DotSet(v) == \E o \in Objects, name \in Names :
    /\ \E at \in Roads(content, o, name, New) : Becomes(DotWith(content, at, name, v), held \ {v})
    /\ CanEnter(v, o)

DotSetNew(v) == \E o \in Objects, name \in Names, s \in Scalars :
    LET c == Plus(content, v, s)
    IN \E at \in Roads(c, o, name, New \ {v}) : Becomes(DotWith(c, at, name, v), held)

RemoveMember == \E o \in Objects : \E name \in DOMAIN content[o].object :
    Becomes(Without(content, o, name), held)

DotRemove == \E o \in Objects, name \in Names : \E at \in Roads(content, o, name, {}) :
    LET p == at[Len(name)] IN
    /\ <<Last(name)>> \in DOMAIN content[p].object
    /\ Becomes(Without(content, p, <<Last(name)>>), held)

AppendValue(v) == \E a \in Arrays :
    /\ Becomes([content EXCEPT ![a].array = Append(@, v)], held \ {v})
    /\ CanEnter(v, a)

AppendNew(v) == \E a \in Arrays, s \in Scalars :
    Becomes([Plus(content, v, s) EXCEPT ![a].array = Append(@, v)], held)

ReplaceValue(v) == \E a \in Arrays : \E i \in DOMAIN content[a].array :
    /\ Becomes([content EXCEPT ![a].array[i] = v], held \ {v})
    /\ CanEnter(v, a)

ReplaceNew(v) == \E a \in Arrays, s \in Scalars : \E i \in DOMAIN content[a].array :
    Becomes([Plus(content, v, s) EXCEPT ![a].array[i] = v], held)

RemoveItem == \E a \in Arrays : \E i \in DOMAIN content[a].array :
    Becomes([content EXCEPT ![a].array = RemoveAt(@, i)], held)

Clear == \E v \in Objects \cup Arrays :
    Becomes([content EXCEPT ![v] = IF IsObject(content, v) THEN [object |-> <<>>]
                                                                    ELSE [array |-> <<>>]], held)

\* A new document for the program, and every other as it was.
Adopt == \E r \in held' \ held :
    /\ r \in New
    /\ \A v \in DOMAIN content : v \in DOMAIN content' /\ content'[v] = content[v]
    /\ Becomes(content', held \cup {r})

FreeValue(v) == Becomes(content, held \ {v})

Fails == ok' = FALSE /\ UNCHANGED <<content, held>>

Init == content = <<>> /\ held = {} /\ ok = TRUE

\* Calls that take a value from the program, and calls that leave it what it has.
Gives == \E v \in held \ held' :
    SetValue(v) \/ DotSet(v) \/ AppendValue(v) \/ ReplaceValue(v) \/ FreeValue(v)
Keeps == /\ held' = held
         /\ \/ RemoveMember \/ DotRemove \/ RemoveItem \/ Clear
            \/ \E v \in New : SetNew(v) \/ DotSetNew(v) \/ AppendNew(v) \/ ReplaceNew(v)

Next == Fails \/ Gives \/ Keeps \/ Adopt

Spec == Init /\ [][Next]_vars
=============================================================================
