------------------------------ MODULE ParsonTree ------------------------------
(***************************************************************************)
(* The JSON tree of parson (src/parson.c), from which main.cpp reads its   *)
(* configuration and every answer of Microsoft Graph: the calls that make, *)
(* change, copy, parse and free values.                                    *)
(*                                                                         *)
(* One action is one call of the interface, made with any live value the   *)
(* program can have a pointer to, while memory runs out after any number   *)
(* of allocations.  Inside a call the heap and what is left of the memory  *)
(* and of the text are passed on in a record, h.  Allocations that the     *)
(* code undoes when a later one fails count as one of several blocks.      *)
(* Where the code calls itself, a function of the heap stands for the      *)
(* inner calls: by the parts of a name, the levels of a document, or the   *)
(* rounds of a loop.                                                       *)
(*                                                                         *)
(* A name is the sequence of its parts between dots; strings are names     *)
(* too.  A text is a sequence of tokens.                                   *)
(***************************************************************************)
EXTENDS Integers, SequencesExt

CONSTANTS
    Values,         \* addresses of JSON_Value: as many live values as there may be
    Names,          \* names handed to the calls
    Scalars,        \* [string |-> name], [number |-> n], [boolean |-> b], [null |-> 0]
    Texts,          \* texts to parse
    Plenty,         \* more allocations than one call makes
    StartCapacity,  \* STARTING_CAPACITY, 16
    MaxNesting,     \* MAX_NESTING, 2048
    MaxHeld,        \* how many documents the program owns at a time
    NULL,
    Stale           \* a pointer to a value that was freed

ASSUME ValuesAssumption == IsFiniteSet(Values) /\ {NULL, Stale} \cap Values = {} /\ NULL # Stale
ASSUME BoundsAssumption == /\ {Plenty, StartCapacity, MaxNesting, MaxHeld} \subseteq Nat
                           /\ StartCapacity > 0

VARIABLES
    node,     \* what is at each address
    blocks,   \* allocations minus frees and minus what a parse left behind
    held,     \* values the program owns: it must add them somewhere or free them
    ok        \* the status of the last call

vars == <<node, blocks, held, ok>>

\* A key is a sequence of parts.  This one holds \u0000, which no C string is equal to.
Keys    == Seq(STRING)
NulName == <<"NUL">>

ASSUME NamesAssumption == Names \subseteq Keys /\ \A n \in Names : Len(n) > 0 /\ n # NulName

ScalarTypes == {"string", "number", "boolean", "null"}
Containers  == {"object", "array"}
TypeOf(s)   == CHOOSE t \in DOMAIN s : TRUE

ASSUME ScalarsAssumption == \A s \in Scalars : \E t \in ScalarTypes : DOMAIN s = {t}

\* What a JSON_Value holds, with the JSON_Object or JSON_Array it points to.  Strings and
\* numbers also come from the texts; a number counts in steps as small as one likes.
Data    == Scalars \cup [string : Keys] \cup [number : Int]
Parents == Values \cup {NULL, Stale}
Unused  == [type |-> "free"]
ScalarNodes == [type : ScalarTypes, parent : Parents, data : Data]
ContainerNodes ==
    [type : Containers, parent : Parents, names : Seq(Keys), values : Seq(Values), capacity : Nat]
Nodes   == {Unused} \cup ScalarNodes \cup ContainerNodes

Scalar(s)    == [type |-> TypeOf(s), parent |-> NULL, data |-> s]
Container(t) == [type |-> t, parent |-> NULL, names |-> <<>>, values |-> <<>>, capacity |-> 0]

Exist(nd) == {v \in Values : nd[v].type # "free"}
Live      == Exist(node)
OfType(t) == {v \in Live : node[v].type = t}

\* Arrays behind a container that has room: names and values, or items.
ArraysOf(n) == IF n.type = "object" THEN 2 ELSE 1

\* The blocks of a value itself, without its members.
OwnBlocks(n) ==
    CASE n.type \in Containers -> 2 + Len(n.names) + (IF n.capacity > 0 THEN ArraysOf(n) ELSE 0)
      [] n.type = "string" -> 2
      [] n.type = "free"   -> 0
      [] OTHER             -> 1

BlocksOf(nd, vs) == UNION {{v} \X (1 .. OwnBlocks(nd[v])) : v \in vs}

Children(nd, v) == IF nd[v].type \in Containers THEN ToSet(nd[v].values) ELSE {}

\* A value and all below it, level by level; there are no more levels than values.
AndMembers(nd, vs) == vs \cup UNION {Children(nd, u) : u \in vs}

Tree(nd, v) ==
    LET upTo[n \in 0 .. Cardinality(Values)] ==
            IF n = 0 THEN {v} ELSE AndMembers(nd, upTo[n - 1])
    IN upTo[Cardinality(Values)]
-----------------------------------------------------------------------------
(* Texts.  A token is [t |-> its first character], a string has its name    *)
(* and a scalar its contents; "bad" is whatever no case of parse_value      *)
(* accepts, "end" what follows the last token.                              *)

Tok(t)          == [t |-> t]
ScalarTok(s)    == [t |-> TypeOf(s), data |-> s]
StringTok(name) == ScalarTok([string |-> name])

Tokens == [t : {"{", "}", "[", "]", ":", ",", "bad"}]
          \cup [t : {"string"}, data : [string : Keys]]
          \cup [t : {"number"}, data : [number : Int]]
          \cup [t : ScalarTypes \ {"string"}, data : Scalars]

ASSUME TextsAssumption == Texts \subseteq Seq(Tokens)
-----------------------------------------------------------------------------
(* The heap within a call. *)

Heaps == [node : [Values -> Nodes], blocks : Int, lost : Nat, memory : Nat, ok : BOOLEAN,
          value : Values \cup {NULL}, text : Seq(Tokens)]

Failed(h) == [h EXCEPT !.ok = FALSE, !.value = NULL]

Alloc(h, k) == IF h.memory >= k THEN [h EXCEPT !.memory = @ - k, !.blocks = @ + k] ELSE Failed(h)

FreeBlocks(h, k) == [h EXCEPT !.blocks = @ - k]

\* A new value made with k allocations.
NewValue(h, n, k) ==
    LET free == Values \ Exist(h.node)
        new  == CHOOSE v \in free : TRUE
        g    == Alloc(h, k)
    IN IF free = {} \/ ~g.ok THEN Failed(h) ELSE [g EXCEPT !.value = new, !.node[new] = n]

json_value_init(h, n) == NewValue(h, n, OwnBlocks(n))

Free(h, gone) ==
    [h EXCEPT !.node = [v \in Values |-> IF v \in gone THEN Unused ELSE @[v]],
              !.blocks = @ - Cardinality(BlocksOf(h.node, gone))]

json_value_free(h, v) == IF v = NULL THEN h ELSE Free(h, Tree(h.node, v))

Abandon(h, v) == Failed(json_value_free(h, v))
-----------------------------------------------------------------------------
(* Objects and arrays. *)

IndexOf(n, name) == IF name \in ToSet(n.names) THEN CHOOSE i \in DOMAIN n.names : n.names[i] = name
                                               ELSE 0

json_object_get_value(nd, o, name) ==
    IF o # NULL /\ nd[o].type = "object" /\ IndexOf(nd[o], name) > 0
    THEN nd[o].values[IndexOf(nd[o], name)] ELSE NULL

\* Where a dotted name leads from o: the value that has its last part.
Holder(nd, o, name) ==
    LET at[i \in 1 .. Len(name)] ==
            IF i = 1 THEN o ELSE json_object_get_value(nd, at[i - 1], <<name[i - 1]>>)
    IN at[Len(name)]

\* A member that has the dots in its name comes first.
json_object_dotget_value_Whole(nd, o, name) ==
    IF json_object_get_value(nd, o, name) # NULL THEN json_object_get_value(nd, o, name)
    ELSE json_object_get_value(nd, Holder(nd, o, name), <<Last(name)>>)

json_object_dotget_value(nd, o, name) ==
    json_object_get_value(nd, Holder(nd, o, name), <<Last(name)>>)

\* New arrays of names and values, or of items; the old ones are freed.
Resize(h, c, capacity) ==
    LET k == ArraysOf(h.node[c])
        g == Alloc(h, k)
    IN IF capacity = 0 \/ ~g.ok THEN Failed(h)
       ELSE FreeBlocks([g EXCEPT !.node[c].capacity = capacity],
                       IF h.node[c].capacity > 0 THEN k ELSE 0)

\* With > for >= in json_object_addn and json_array_add.
Grow_Late(h, c) ==
    LET n == h.node[c] IN
    IF Len(n.values) > n.capacity THEN Resize(h, c, Max({2 * n.capacity, StartCapacity})) ELSE h

Grow(h, c) ==
    LET n == h.node[c] IN
    IF Len(n.values) >= n.capacity THEN Resize(h, c, Max({2 * n.capacity, StartCapacity})) ELSE h

json_object_addn(h, o, name, v) ==
    LET grown == Grow(h, o)
        named == Alloc(grown, 1)
    IN IF v = NULL \/ IndexOf(h.node[o], name) > 0 \/ ~grown.ok THEN Failed(h)
       ELSE IF ~named.ok THEN Failed(grown)
       ELSE [named EXCEPT !.node[v].parent = o,
                          !.node[o] = [grown.node[o] EXCEPT !.names  = Append(@, name),
                                                            !.values = Append(@, v)]]

json_array_add(h, a, v) ==
    LET grown == Grow(h, a)
    IN IF ~grown.ok THEN Failed(h)
       ELSE [grown EXCEPT !.node[v].parent = a, !.node[a].values = Append(@, v)]

\* The last one takes the place of the one removed.
SwapOut(s, i) == SubSeq([s EXCEPT ![i] = Last(s)], 1, Len(s) - 1)

json_object_remove_internal(h, o, name, freeValue) ==
    LET i == IndexOf(h.node[o], name)
        v == h.node[o].values[i]
        g == FreeBlocks(IF freeValue THEN json_value_free(h, v) ELSE h, 1)
    IN IF i = 0 THEN Failed(h)
       ELSE [g EXCEPT !.node[o] = [g.node[o] EXCEPT !.names = SwapOut(@, i), !.values = SwapOut(@, i)]]

json_object_dotremove_internal(h, o, name, freeValue) ==
    LET p == Holder(h.node, o, name)
    IN IF p = NULL \/ h.node[p].type # "object" THEN Failed(h)
       ELSE json_object_remove_internal(h, p, <<Last(name)>>, freeValue)

\* Without the look at value->parent.
HasNoParent_Unchecked(h, v) == v # NULL

HasNoParent(h, v) == v # NULL /\ h.node[v].parent = NULL

Put(h, c, i, v) == [h EXCEPT !.node[v].parent = c, !.node[c].values[i] = v]

json_object_set_value(h, o, name, v) ==
    LET i == IndexOf(h.node[o], name) IN
    IF ~HasNoParent(h, v) THEN Failed(h)
    ELSE IF i > 0 THEN Put(json_value_free(h, h.node[o].values[i]), o, i, v)
    ELSE json_object_addn(h, o, name, v)

\* The ith part of a name that has more, which set stores below it.  With an object that
\* is missing on the way, they are built in a new object first and undone when that
\* one cannot be added.

\* Without the dotremove that saves the caller's value.
DotSetPart_Unsaved(set, h, o, name, i) ==
    LET first == <<name[i]>>
        u     == json_object_get_value(h.node, o, first)
        made  == json_value_init(h, Container("object"))
        inner == set[made][made.value]
        added == json_object_addn(inner, o, first, made.value)
    IN IF u # NULL THEN IF h.node[u].type # "object" THEN Failed(h) ELSE set[h][u]
       ELSE IF ~made.ok  THEN Failed(h)
       ELSE IF ~inner.ok \/ ~added.ok THEN Abandon(added, made.value)
       ELSE added

DotSetPart(set, h, o, name, i) ==
    LET first == <<name[i]>>
        u     == json_object_get_value(h.node, o, first)
        made  == json_value_init(h, Container("object"))
        inner == set[made][made.value]
        added == json_object_addn(inner, o, first, made.value)
        undone == json_object_dotremove_internal(added, made.value,
                                                 SubSeq(name, i + 1, Len(name)), FALSE)
    IN IF u # NULL THEN IF h.node[u].type # "object" THEN Failed(h) ELSE set[h][u]
       ELSE IF ~made.ok  THEN Failed(h)
       ELSE IF ~inner.ok THEN Abandon(inner, made.value)
       ELSE IF ~added.ok THEN Abandon(undone, made.value)
       ELSE added

json_object_dotset_value(h, o, name, v) ==
    LET set[i \in 1 .. Len(name)] == [g \in Heaps |-> [p \in Values |->
            IF i = Len(name) THEN json_object_set_value(g, p, <<name[i]>>, v)
                             ELSE DotSetPart(set[i + 1], g, p, name, i)]]
    IN IF v = NULL THEN Failed(h) ELSE set[1][h][o]

json_array_append_value(h, a, v) ==
    IF HasNoParent(h, v) THEN json_array_add(h, a, v) ELSE Failed(h)

json_array_replace_value(h, a, i, v) ==
    IF HasNoParent(h, v) /\ i <= Len(h.node[a].values)
    THEN Put(json_value_free(h, h.node[a].values[i]), a, i, v)
    ELSE Failed(h)

json_array_remove(h, a, i) ==
    IF i > Len(h.node[a].values) THEN Failed(h)
    ELSE [json_value_free(h, h.node[a].values[i]) EXCEPT !.node[a].values = RemoveAt(@, i)]

\* json_object_clear and json_array_clear: the capacity stays.
RemoveAll(h, c) ==
    FreeBlocks([Free(h, Tree(h.node, c) \ {c})
                   EXCEPT !.node[c] = [h.node[c] EXCEPT !.names = <<>>, !.values = <<>>]],
               Len(h.node[c].names))
-----------------------------------------------------------------------------
(* Copying. *)

AddMember(h, c, name, v) == IF h.node[c].type = "object" THEN json_object_addn(h, c, name, v)
                                                         ELSE json_array_add(h, c, v)

\* The ith member of v is copied into c, unless one before it could not be.

\* The copy that could not be added is forgotten.
CopyMember_Leak(copy, h, c, v, i) ==
    LET made  == copy[h][h.node[v].values[i]]
        name  == IF h.node[v].type = "object" THEN h.node[v].names[i] ELSE <<>>
        added == AddMember(made, c, name, made.value)
    IN IF ~h.ok THEN h
       ELSE IF ~made.ok  THEN Abandon(made, c)
       ELSE IF ~added.ok THEN Abandon(added, c)
       ELSE added

\* A member that cannot be copied is left out.
CopyMember_Skip(copy, h, c, v, i) ==
    LET made  == copy[h][h.node[v].values[i]]
        name  == IF h.node[v].type = "object" THEN h.node[v].names[i] ELSE <<>>
        added == AddMember(made, c, name, made.value)
    IN IF ~h.ok \/ ~made.ok THEN h
       ELSE IF ~added.ok THEN Abandon(json_value_free(added, c), made.value)
       ELSE added

CopyMember(copy, h, c, v, i) ==
    LET made  == copy[h][h.node[v].values[i]]
        name  == IF h.node[v].type = "object" THEN h.node[v].names[i] ELSE <<>>
        added == AddMember(made, c, name, made.value)
    IN IF ~h.ok THEN h
       ELSE IF ~made.ok  THEN Abandon(made, c)
       ELSE IF ~added.ok THEN Abandon(json_value_free(added, c), made.value)
       ELSE added

CopyContainer(copy, h, v) ==
    LET made == json_value_init(h, Container(h.node[v].type))
        n    == Len(h.node[v].values)
        done[i \in 0 .. n] == IF i = 0 THEN made
                              ELSE CopyMember(copy, done[i - 1], made.value, v, i)
        all  == done[n]
    IN IF all.ok THEN [all EXCEPT !.value = made.value] ELSE all

\* No document has more levels than there are values.
json_value_deep_copy(h, v) ==
    LET copy[k \in 0 .. Cardinality(Values)] == [g \in Heaps |-> [w \in Values |->
            IF k = 0 THEN Failed(g)
            ELSE IF g.node[w].type \in Containers THEN CopyContainer(copy[k - 1], g, w)
            ELSE json_value_init(g, Scalar(g.node[w].data))]]
    IN copy[Cardinality(Values)][h][v]
-----------------------------------------------------------------------------
(* Parsing. *)

NextTok(h) == IF h.text = <<>> THEN "end" ELSE Head(h.text).t
Skip(h)    == [h EXCEPT !.text = Tail(@)]

\* The processed text is copied once more, into a block of its length.
get_quoted_string(h) ==
    LET g == Alloc(h, 2)
    IN IF NextTok(h) # "string" \/ ~g.ok THEN Failed(h) ELSE Skip(FreeBlocks(g, 1))

parse_string_value(h) ==
    LET g == get_quoted_string(h)
        v == NewValue(g, Scalar(Head(h.text).data), 1)
    IN IF ~g.ok THEN g ELSE IF ~v.ok THEN Failed(FreeBlocks(g, 1)) ELSE v

\* The closing bracket; the arrays of the container are cut to what they hold.
Close(h, c, bracket) ==
    LET trimmed == Resize(h, c, Len(h.node[c].values))
    IN IF NextTok(h) # bracket \/ ~trimmed.ok THEN Abandon(h, c)
       ELSE Skip([trimmed EXCEPT !.value = c])

\* One round of the loops of parse_object_value and parse_array_value.
ParseMember(parse, h, o) ==
    LET key   == get_quoted_string(h)
        name  == Head(h.text).data.string
        value == parse[Skip(key)]
        added == json_object_addn(value, o, name, value.value)
        next  == FreeBlocks(added, 1)
    IN IF ~key.ok THEN Abandon(h, o)
       ELSE IF name = NulName THEN Abandon([key EXCEPT !.lost = @ + 1], o)
       ELSE IF NextTok(key) # ":" THEN Abandon(FreeBlocks(key, 1), o)
       ELSE IF ~value.ok THEN Abandon(FreeBlocks(value, 1), o)
       ELSE IF ~added.ok THEN Abandon(json_value_free(next, value.value), o)
       ELSE next

ParseItem(parse, h, a) ==
    LET value == parse[h]
        added == json_array_add(value, a, value.value)
    IN IF ~value.ok THEN Abandon(value, a)
       ELSE IF ~added.ok THEN Abandon(json_value_free(added, value.value), a)
       ELSE added

ParseNext(parse, h, c) == IF h.node[c].type = "object" THEN ParseMember(parse, h, c)
                                                       ELSE ParseItem(parse, h, c)

\* The loop goes on behind a comma.
ParseOn(parse, h, c) == IF h.ok /\ NextTok(h) = "," THEN ParseNext(parse, Skip(h), c) ELSE h

\* Each round leaves less of the text.
parse_container(parse, h, type, bracket) ==
    LET made == Skip(json_value_init(h, Container(type)))
        c    == made.value
        n    == Len(h.text)
        done[i \in 0 .. n] ==
            IF i = 0 THEN ParseNext(parse, made, c) ELSE ParseOn(parse, done[i - 1], c)
        all  == done[n]
    IN IF ~made.ok THEN Failed(h)
       ELSE IF NextTok(made) = bracket THEN Skip(made)
       ELSE IF all.ok THEN Close(all, c, bracket) ELSE all

\* With k levels left of MAX_NESTING.
parse_value(h) ==
    LET parse[k \in 0 .. MaxNesting + 1] == [g \in Heaps |->
            IF k = 0 THEN Failed(g)
            ELSE CASE NextTok(g) = "{"      -> parse_container(parse[k - 1], g, "object", "}")
                   [] NextTok(g) = "["      -> parse_container(parse[k - 1], g, "array", "]")
                   [] NextTok(g) = "string" -> parse_string_value(g)
                   [] NextTok(g) \in ScalarTypes \ {"string"} ->
                         LET v == json_value_init(g, Scalar(Head(g.text).data))
                         IN IF v.ok THEN Skip(v) ELSE v
                   [] OTHER -> Failed(g)]
    IN parse[MaxNesting + 1][h]
-----------------------------------------------------------------------------
(* The calls of the interface, with memory for any number of allocations: a *)
(* function from that number to how the call ends.                          *)

Memory == 0 .. Plenty

Call(m) == [node |-> node, blocks |-> blocks, lost |-> 0, memory |-> m,
            ok |-> TRUE, value |-> NULL, text |-> <<>>]

\* How a call may end: with plenty of memory, or with none left for one of the
\* allocations it makes then.
Outcomes(run) ==
    LET needed == Plenty - run[Plenty].memory
    IN {[run[m] EXCEPT !.memory = 0, !.text = <<>>] : m \in {Plenty} \cup 0 .. (needed - 1)}

\* Whoever has a freed parent keeps a pointer that is not NULL, which is all
\* that is ever asked of it.
Forget(nd) == [v \in Values |-> IF nd[v].type # "free" /\ nd[v].parent \in Values
                                   /\ nd[nd[v].parent].type = "free"
                                THEN [nd[v] EXCEPT !.parent = Stale] ELSE nd[v]]

\* The call ends; when it succeeded the program owns another set of values.
Return(h, owned) ==
    /\ node' = Forget(h.node) /\ blocks' = h.blocks - h.lost
    /\ ok' = h.ok
    /\ held' = IF h.ok THEN owned ELSE held

Calls(run, owned) == \E h \in Outcomes(run) : Return(h, owned)

Makes(run) == /\ Cardinality(held) < MaxHeld
              /\ \E h \in Outcomes(run) : Return(h, held \cup {h.value})

\* A call that made a value of its own first, and frees it when it fails.
WithNew(made, used) ==
    IF ~made.ok THEN made ELSE IF ~used.ok THEN Abandon(used, made.value) ELSE used

\* The program never puts a value below itself; the code does not look.
NotBelow(c, v) == v \in held => c \notin Tree(node, v)

Objects == OfType("object")
Arrays  == OfType("array")
Index(a) == 1 .. Len(node[a].values) + 1

Create == \/ \E t \in Containers : Makes([m \in Memory |-> json_value_init(Call(m), Container(t))])
          \/ \E s \in Scalars    : Makes([m \in Memory |-> json_value_init(Call(m), Scalar(s))])

SetValue == \E o \in Objects, name \in Names, v \in Live :
    /\ NotBelow(o, v)
    /\ Calls([m \in Memory |-> json_object_set_value(Call(m), o, name, v)], held \ {v})

SetNew == \E o \in Objects, name \in Names, s \in Scalars :
    LET Run(made) == WithNew(made, json_object_set_value(made, o, name, made.value))
    IN Calls([m \in Memory |-> Run(json_value_init(Call(m), Scalar(s)))], held)

DotSet == \E o \in Objects, name \in Names, v \in Live :
    /\ NotBelow(o, v)
    /\ Calls([m \in Memory |-> json_object_dotset_value(Call(m), o, name, v)], held \ {v})

DotSetNew == \E o \in Objects, name \in Names, s \in Scalars :
    LET Run(made) == WithNew(made, json_object_dotset_value(made, o, name, made.value))
    IN Calls([m \in Memory |-> Run(json_value_init(Call(m), Scalar(s)))], held)

RemoveMember == \E o \in Objects, name \in Names :
    Return(json_object_remove_internal(Call(0), o, name, TRUE), held)

DotRemove == \E o \in Objects, name \in Names :
    Return(json_object_dotremove_internal(Call(0), o, name, TRUE), held)

AppendValue == \E a \in Arrays, v \in Live :
    /\ NotBelow(a, v)
    /\ Calls([m \in Memory |-> json_array_append_value(Call(m), a, v)], held \ {v})

AppendNew == \E a \in Arrays, s \in Scalars :
    LET Run(made) == WithNew(made, json_array_append_value(made, a, made.value))
    IN Calls([m \in Memory |-> Run(json_value_init(Call(m), Scalar(s)))], held)

ReplaceValue == \E a \in Arrays, v \in Live : \E i \in Index(a) :
    /\ NotBelow(a, v)
    /\ Return(json_array_replace_value(Call(0), a, i, v), held \ {v})

ReplaceNew == \E a \in Arrays, s \in Scalars : \E i \in Index(a) :
    LET Run(made) == WithNew(made, json_array_replace_value(made, a, i, made.value))
    IN Calls([m \in Memory |-> Run(json_value_init(Call(m), Scalar(s)))], held)

RemoveItem == \E a \in Arrays : \E i \in Index(a) :
    Return(json_array_remove(Call(0), a, i), held)

Clear == \E c \in Objects \cup Arrays : Return(RemoveAll(Call(0), c), held)

Copy == \E v \in Live : Makes([m \in Memory |-> json_value_deep_copy(Call(m), v)])

Parse == \E text \in Texts :
    Makes([m \in Memory |-> parse_value([Call(m) EXCEPT !.text = text])])

FreeValue == \E v \in held : Return(json_value_free(Call(0), v), held \ {v})

Init == /\ node = [v \in Values |-> Unused]
        /\ blocks = 0 /\ held = {} /\ ok = TRUE

Next == \/ Create \/ SetValue \/ SetNew \/ DotSet \/ DotSetNew \/ RemoveMember \/ DotRemove
        \/ AppendValue \/ AppendNew \/ ReplaceValue \/ ReplaceNew \/ RemoveItem \/ Clear
        \/ Copy \/ Parse \/ FreeValue

Spec == Init /\ [][Next]_vars
-----------------------------------------------------------------------------
(* The documents, as JsonDoc has them. *)

Holds(n) ==
    CASE n.type = "object" ->
            [object |-> [name \in ToSet(n.names) |->
                            n.values[CHOOSE i \in DOMAIN n.names : n.names[i] = name]]]
      [] n.type = "array"  -> [array |-> n.values]
      [] OTHER             -> n.data

content == [v \in Live |-> Holds(node[v])]

Doc == INSTANCE JsonDoc
-----------------------------------------------------------------------------
\* Nothing is written beyond the arrays that a container has: it has no more
\* members than its capacity, and an object has as many names as values.
TypeOK ==
    /\ held \subseteq Live /\ ok \in BOOLEAN /\ blocks \in Nat
    /\ node \in [Values -> Nodes]
    /\ \A v \in Live :
          LET n == node[v] IN
          n.type \in Containers => /\ Len(n.values) <= n.capacity
                                   /\ Len(n.names) = IF n.type = "object" THEN Len(n.values) ELSE 0

\* The places in the trees where a value stands.
Places(v) == {p \in UNION {{c} \X DOMAIN node[c].values : c \in Objects \cup Arrays} :
                 node[p[1]].values[p[2]] = v}

Owned == UNION {Tree(node, v) : v \in held}

\* Every value that exists stands in exactly one place of the trees, or the
\* program owns it: two places would free it twice.  A freed value stands
\* nowhere, all others can be reached.  A value in a tree has the right parent,
\* by which the calls refuse to add it again, and an object has a name once.
TreeInv ==
    /\ \A c \in Live : Children(node, c) \subseteq Live
    /\ \A v \in Live : Cardinality(Places(v)) = (IF v \in held THEN 0 ELSE 1)
    /\ \A v \in Live \ held : \A p \in Places(v) : node[v].parent = p[1]
    /\ \A o \in Objects : IsInjective(node[o].names)
    /\ Live = Owned

\* Every block allocated belongs to a value that the program can reach, whichever
\* allocation of whichever call failed, but for the key with an embedded \0 that
\* a parse leaves behind (parson.c:744).
NothingLost == blocks = Cardinality(BlocksOf(node, Owned))

\* A dotted name leads every call to the same member: what dotset stored is what
\* dotget finds, and dotremove works exactly where dotget does (parson.h:158, 170).
DotNamesAgree ==
    \A o \in Objects, name \in Names :
        /\ json_object_dotremove_internal(Call(0), o, name, TRUE).ok
              <=> json_object_dotget_value(node, o, name) # NULL
        /\ \A v \in held : NotBelow(o, v) =>
              \A h \in {json_object_dotset_value(Call(Plenty), o, name, v)} :
                  h.ok => json_object_dotget_value(h.node, o, name) = v

\* The calls keep the documents as JsonDoc does: what a call returns is true, a
\* call that fails has changed nothing, whichever allocation of it failed, and
\* exactly what cannot be reached any more is freed.
Promise == Doc!Spec
=============================================================================
