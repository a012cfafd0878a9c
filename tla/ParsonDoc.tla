------------------------------ MODULE ParsonDoc ------------------------------
(***************************************************************************)
(* What the documents of ParsonTree say: parson's calls that write and     *)
(* compare values.                                                         *)
(***************************************************************************)
EXTENDS ParsonTree

CONSTANT Epsilon    \* EPSILON, 0.000001, in the steps that numbers count in

ASSUME EpsilonAssumption ==
    Epsilon \in Nat /\ \A s \in Scalars : TypeOf(s) = "number" => s.number \in Int

(* Writing and comparing. *)

\* After the last one as well.
Comma_Always(i, n) == IF i <= n THEN <<Tok(",")>> ELSE <<>>

Comma(i, n) == IF i < n THEN <<Tok(",")>> ELSE <<>>

\* json_serialize_to_buffer_r as tokens.
RECURSIVE Serialize(_, _)
Serialize(nd, v) ==
    LET n == nd[v]
        Member(i) == <<StringTok(n.names[i]), Tok(":")>>
                     \o Serialize(nd, json_object_get_value(nd, v, n.names[i]))
                     \o Comma(i, Len(n.values))
        Item(i) == Serialize(nd, n.values[i]) \o Comma(i, Len(n.values))
    IN CASE n.type = "object" ->
              <<Tok("{")>> \o FlattenSeq([i \in DOMAIN n.values |-> Member(i)]) \o <<Tok("}")>>
         [] n.type = "array"  ->
              <<Tok("[")>> \o FlattenSeq([i \in DOMAIN n.values |-> Item(i)]) \o <<Tok("]")>>
         [] OTHER -> <<[t |-> n.type, data |-> n.data]>>

\* fabs(a - b) < 0.000001.
Near(a, b) == a - b < Epsilon /\ b - a < Epsilon

\* Two scalars of the same type.
ScalarEquals(m, n) == IF m.type = "number" THEN Near(m.data.number, n.data.number)
                                           ELSE m.data = n.data

RECURSIVE json_value_equals(_, _, _)

\* Members compared in their order instead of by name.
json_value_equals_InOrder(nd, v, w) ==
    /\ nd[v].type = nd[w].type
    /\ IF nd[v].type \in Containers
       THEN /\ Len(nd[v].values) = Len(nd[w].values)
            /\ \A i \in DOMAIN nd[v].values : json_value_equals(nd, nd[v].values[i], nd[w].values[i])
       ELSE ScalarEquals(nd[v], nd[w])

json_value_equals(nd, v, w) ==
    IF NULL \in {v, w} THEN v = w
    ELSE /\ nd[v].type = nd[w].type
         /\ CASE nd[v].type = "object" ->
                   /\ Len(nd[v].values) = Len(nd[w].values)
                   /\ \A n \in ToSet(nd[v].names) :
                         json_value_equals(nd, json_object_get_value(nd, v, n),
                                               json_object_get_value(nd, w, n))
              [] nd[v].type = "array" ->
                   /\ Len(nd[v].values) = Len(nd[w].values)
                   /\ \A i \in DOMAIN nd[v].values :
                         json_value_equals(nd, nd[v].values[i], nd[w].values[i])
              [] OTHER -> ScalarEquals(nd[v], nd[w])
-----------------------------------------------------------------------------
(* What the documents say. *)

IsNumber(c, v) == "number" \in DOMAIN c[v]

\* Two values stand for the same document, numbers that are near counting as one.
RECURSIVE Same(_, _, _)
Same(c, v, w) ==
    CASE Doc!IsObject(c, v) -> /\ Doc!IsObject(c, w)
                               /\ DOMAIN c[v].object = DOMAIN c[w].object
                               /\ \A n \in DOMAIN c[v].object :
                                     Same(c, c[v].object[n], c[w].object[n])
      [] Doc!IsArray(c, v) -> /\ Doc!IsArray(c, w)
                              /\ Len(c[v].array) = Len(c[w].array)
                              /\ \A i \in DOMAIN c[v].array : Same(c, c[v].array[i], c[w].array[i])
      [] IsNumber(c, v) -> IsNumber(c, w) /\ Near(c[v].number, c[w].number)
      [] OTHER -> c[v] = c[w]

\* Levels below a value.
RECURSIVE Deep(_, _)
Deep(nd, v) == IF Children(nd, v) = {} THEN 0
               ELSE 1 + Max({Deep(nd, u) : u \in Children(nd, v)})
-----------------------------------------------------------------------------
\* json_value_equals says of two values whether they are the same document, the
\* order of members and the capacities apart, and numbers closer than EPSILON
\* (parson.c:2128) taken for the same: 1 and 1.0000005 are equal wherever they stand.
EqualsIsSame == \A v, w \in Live : json_value_equals(node, v, w) <=> Same(content, v, w)

\* What is written is read back as the same document; only what is nested deeper
\* than the parser goes, which is written all the same, is refused.
RoundTrip ==
    \A v \in held : \A text \in {Serialize(node, v)} :
        LET empty == [Call(Plenty) EXCEPT !.node = [u \in Values |-> Unused], !.text = text]
        IN \A back \in {parse_value(empty)} :
              IF Deep(node, v) > MaxNesting THEN ~back.ok
              ELSE back.ok /\ back.text = <<>> /\ Serialize(back.node, back.value) = text

\* A new document is what the call was asked for: a copy says the same as the original,
\* to the last digit and in the same order, and is no part of it, and what is parsed is
\* the text up to where its value ends.
NewIsTold ==
    /\ \A v \in Live : \A h \in {json_value_deep_copy(Call(Plenty), v)} :
          h.ok => /\ Serialize(h.node, h.value) = Serialize(node, v)
                  /\ Tree(h.node, h.value) \cap Live = {}
    /\ \A text \in Texts : \A h \in {parse_value([Call(Plenty) EXCEPT !.text = text])} :
          h.ok => Serialize(h.node, h.value) \o h.text = text
=============================================================================
