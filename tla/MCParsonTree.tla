------------------------------ MODULE MCParsonTree ------------------------------
EXTENDS ParsonDoc

A == <<"a">>
B == <<"b">>

\* "b" is reached through the dotted name.
MCNames == {A, A \o B}

\* The program's own scalars are the number 1; strings and other numbers come from
\* the texts.  With Epsilon = 2 this is near to 0 and to 2, which are not near each other.
MCScalars == {[number |-> 1]}

Str(s)    == <<StringTok(s)>>
Number(n) == <<ScalarTok([number |-> n])>>
Punct(t)  == <<Tok(t)>>
Member(name, text) == Str(name) \o Punct(":") \o text
Braces(text)   == Punct("{") \o text \o Punct("}")
Brackets(text) == Punct("[") \o text \o Punct("]")
Two(s, t)      == s \o Punct(",") \o t

Zero == Number(0)

MCTexts == {
    Braces(Two(Member(A, Str(A)), Member(B, Number(2)))),
    Braces(Member(A, Brackets(Number(1)))),
    Brackets(Zero) \o Zero,                              \* something follows it
    Brackets(Brackets(Brackets(<<>>))),                  \* as deep as it may be
    Brackets(Brackets(Brackets(Zero))),                  \* deeper
    Braces(Two(Member(A, Str(A)), Member(A, Zero))),     \* a name twice
    Braces(Two(Member(A, Str(A)), Member(NulName, Zero))),
    Braces(Two(Member(A, Str(A)), <<>>)),                \* no member after the comma
    Braces(Member(A, Punct("bad"))),
    Braces(Str(A) \o Str(A)),                            \* no colon
    Punct("{") \o Member(A, Zero) \o Punct("]"),
    Punct("[") \o Zero \o Punct(",")}

\* Free addresses are alike, and nothing orders the others.
MCSymmetry == Permutations(Values)
==============================================================================
