----------------------------- MODULE Numbers_proofs -----------------------------
(* Facts about numbers, and about what is defined over them, that the proofs of
   several components need. *)
EXTENDS Integers, FiniteSetTheorems, WellFoundedInduction, TLAPS

\* A set of numbers has a least element.  (The library's induction theorem takes
\* an operator; that a chain of smaller finite sets ends does not.)
LEMMA LeastExists ==
    ASSUME NEW S \in SUBSET Nat, S # {}
    PROVE  \E x \in S : \A y \in S : x <= y
<1> DEFINE Below(k) == S \cap (0 .. k)
           T == {Below(k) : k \in S}
<1>1. T \subseteq FiniteSubsetsOf(Nat)
  <2>1. ASSUME NEW k \in S PROVE Below(k) \in SUBSET Nat /\ IsFiniteSet(Below(k))
    <3>1. IsFiniteSet(0 .. k)
      BY FS_Interval
    <3> QED
      BY <3>1, FS_Intersection
  <2> QED
    BY <2>1 DEF FiniteSubsetsOf
<1>2. IsWellFoundedOn(StrictSubsetOrdering(Nat), FiniteSubsetsOf(Nat))
  BY FS_StrictSubsetOrderingWellFounded
<1>3. PICK U \in T : \A V \in T : ~(<<V, U>> \in StrictSubsetOrdering(Nat))
  <2>1. T # {}
    OBVIOUS
  <2> QED
    BY <1>1, <1>2, <2>1, WFMin
<1>4. PICK x \in S : U = Below(x)
  OBVIOUS
<1>5. ASSUME NEW y \in S, y < x PROVE FALSE
  <2>1. Below(y) \subseteq U /\ Below(y) # U /\ Below(y) \in SUBSET Nat /\ U \in SUBSET Nat
    BY <1>4, <1>5
  <2>2. <<Below(y), U>> \in StrictSubsetOrdering(Nat)
    BY <2>1 DEF StrictSubsetOrdering
  <2> QED
    BY <2>2, <1>3, <1>5
<1> QED
  BY <1>5

\* Quotient and rest of a division are unique.
LEMMA RestIsUnique ==
    ASSUME NEW w \in Nat \ {0}, NEW p \in Int, NEW q \in Int,
           NEW r \in 0 .. w - 1, NEW s \in 0 .. w - 1, w * p + r = w * q + s
    PROVE  r = s
<1>1. ASSUME NEW a \in Int, NEW b \in Int, a < b
      PROVE  w * a + w <= w * b
    <2>1. PICK d \in Nat : b = a + 1 + d
        BY <1>1
    <2>2. w * b = w * a + w + w * d /\ w * d \in Nat
        BY <2>1
    <2> QED  BY <2>2
<1>2. CASE p = q
    BY <1>2
<1>3. CASE p < q
    BY <1>3, <1>1
<1>4. CASE q < p
    BY <1>4, <1>1
<1> QED  BY <1>2, <1>3, <1>4

\* Quotient and rest, of negative numbers too.
LEMMA Division ==
    ASSUME NEW w \in Nat \ {0}, NEW a \in Int
    PROVE  /\ a \div w \in Int /\ a % w \in 0 .. w - 1
           /\ a = w * (a \div w) + (a % w)
           /\ a \in Nat => a \div w \in Nat
OBVIOUS

\* What is within the modulus and a multiple of it away is the rest.
LEMMA RestIs ==
    ASSUME NEW w \in Nat \ {0}, NEW a \in Int, NEW k \in Int, NEW r \in 0 .. w - 1,
           a = w * k + r
    PROVE  a % w = r
<1>1. a \div w \in Int /\ a % w \in 0 .. w - 1 /\ a = w * (a \div w) + (a % w)
    BY Division
<1> DEFINE q == a \div w
           s == a % w
<1>2. q \in Int /\ s \in 0 .. w - 1 /\ w * q + s = w * k + r
    BY <1>1
<1> HIDE DEF q, s
<1>3. s = r
    BY <1>2, RestIsUnique
<1> QED  BY <1>3 DEF s

\* What is the smaller multiple is a multiple of the smaller number.
LEMMA Smaller ==
    ASSUME NEW w \in Nat \ {0}, NEW a \in Int, NEW b \in Int, w * a < w * b
    PROVE  a < b
<1>1. CASE a >= b
    <2>1. PICK d \in Nat : a = b + d
        BY <1>1
    <2>2. w * a = w * b + w * d /\ w * d \in Nat /\ w * b \in Int
        BY <2>1
    <2> QED  BY <2>2
<1> QED  BY <1>1

\* What a recursion over numbers defines exists: every entry of a table from the one before.
LEMMA TableExists ==
    ASSUME NEW S, NEW a \in S, NEW N \in Nat, NEW step \in [1 .. N -> [S -> S]]
    PROVE  \E f \in [0 .. N -> S] :
              f[0] = a /\ \A n \in 1 .. N : f[n] = step[n][f[n - 1]]
<1> DEFINE Upto(m) == {f \in [0 .. m -> S] :
                          f = [n \in 0 .. m |-> IF n = 0 THEN a ELSE step[n][f[n - 1]]]}
           Missing == {m \in 0 .. N : Upto(m) = {}}
<1>1. Upto(0) # {}
  <2> DEFINE f == [n \in 0 .. 0 |-> a]
  <2>1. f \in Upto(0)
    OBVIOUS
  <2> QED  BY <2>1
<1>2. ASSUME NEW m \in 1 .. N, Upto(m - 1) # {} PROVE Upto(m) # {}
  <2>1. PICK f \in Upto(m - 1) : TRUE
    BY <1>2
  <2>2. /\ f \in [0 .. m - 1 -> S]
        /\ \A n \in 0 .. m - 1 : f[n] = IF n = 0 THEN a ELSE step[n][f[n - 1]]
    BY <2>1
  <2> DEFINE g == [n \in 0 .. m |-> IF n = m THEN step[m][f[m - 1]] ELSE f[n]]
  <2>3. g \in [0 .. m -> S]
    BY <2>2
  <2>4. ASSUME NEW n \in 0 .. m PROVE g[n] = IF n = 0 THEN a ELSE step[n][g[n - 1]]
    <3>1. CASE n = m
      BY <3>1, <2>2
    <3>2. CASE n < m
      BY <3>2, <2>2
    <3> QED  BY <3>1, <3>2
  <2>5. g = [n \in 0 .. m |-> IF n = 0 THEN a ELSE step[n][g[n - 1]]]
    <3> HIDE DEF g
    <3> QED  BY <2>3, <2>4
  <2> QED  BY <2>3, <2>5
<1> HIDE DEF Upto
<1>3. Missing = {}
  <2>1. SUFFICES ASSUME Missing # {} PROVE FALSE
    OBVIOUS
  <2>2. Missing \in SUBSET Nat
    OBVIOUS
  <2>3. PICK m \in Missing : \A k \in Missing : m <= k
    <3> HIDE DEF Missing
    <3> QED  BY <2>1, <2>2, LeastExists
  <2>4. m \in 1 .. N
    BY <1>1
  <2>5. m - 1 \notin Missing
    BY <2>3, <2>4
  <2> QED  BY <1>2, <2>3, <2>4, <2>5
<1>4. Upto(N) # {}
  BY <1>3
<1>5. PICK f \in [0 .. N -> S] :
                f = [n \in 0 .. N |-> IF n = 0 THEN a ELSE step[n][f[n - 1]]]
  BY <1>4 DEF Upto
<1>6. f[0] = a /\ \A n \in 1 .. N : f[n] = step[n][f[n - 1]]
  BY <1>5
<1> QED  BY <1>6

\* The same of a table of numbers, the form in which SMT finds it.
LEMMA NatTable ==
    \A N \in Nat : \A step \in [1 .. N -> [Nat -> Nat]] :
       \E f \in [0 .. N -> Nat] : f[0] = 0 /\ \A n \in 1 .. N : f[n] = step[n][f[n - 1]]
<1> DEFINE S == Nat
           a == 0
<1>1. a \in S
  OBVIOUS
<1>2. \A N \in Nat : \A step \in [1 .. N -> [S -> S]] :
         \E f \in [0 .. N -> S] : f[0] = a /\ \A n \in 1 .. N : f[n] = step[n][f[n - 1]]
  <2> HIDE DEF S, a
  <2> QED  BY <1>1, TableExists
<1> QED  BY <1>2
=============================================================================
