------------------------------- MODULE Counting -------------------------------
(***************************************************************************)
(* How reference counts follow the owners: lemmas about the number of      *)
(* elements a function maps to one value, used for the loader's counts and *)
(* for the control blocks of shared pointers.                              *)
(***************************************************************************)
EXTENDS Naturals, FiniteSets, FiniteSetTheorems, TLAPS

\* How many elements a function maps to one value.
Count(f, h) == Cardinality({o \in DOMAIN f : f[o] = h})

\* One object changing its value moves one unit from the old to the new.
LEMMA CountChange ==
    ASSUME NEW S, IsFiniteSet(S), NEW f, NEW g, DOMAIN f = S, DOMAIN g = S,
           NEW x \in S, f[x] # g[x], \A y \in S : y # x => g[y] = f[y], NEW h
    PROVE  /\ Count(f, h) \in Nat
           /\ h = f[x] => Count(f, h) > 0
           /\ Count(g, h) = IF h = g[x] THEN Count(f, h) + 1
                            ELSE IF h = f[x] THEN Count(f, h) - 1
                            ELSE Count(f, h)
<1> DEFINE A == {o \in S : f[o] = h}
           B == {o \in S : g[o] = h}
<1>1. IsFiniteSet(A) /\ Cardinality(A) \in Nat
  BY FS_Subset, FS_CardinalityType
<1>2. Count(f, h) = Cardinality(A) /\ Count(g, h) = Cardinality(B)
  BY DEF Count
<1> HIDE DEF A, B
<1>3. CASE h = g[x]
  <2>1. B = A \cup {x} /\ x \notin A
    BY <1>3 DEF A, B
  <2>2. Cardinality(B) = Cardinality(A) + 1
    BY <2>1, <1>1, FS_AddElement
  <2> QED BY <2>2, <1>1, <1>2, <1>3
<1>4. CASE h # g[x] /\ h = f[x]
  <2>1. B = A \ {x} /\ x \in A
    BY <1>4 DEF A, B
  <2>2. Cardinality(B) = Cardinality(A) - 1
    BY <2>1, <1>1, FS_RemoveElement
  <2>3. Cardinality(A) # 0
    BY <2>1, <1>1, FS_EmptySet
  <2> QED BY <2>2, <2>3, <1>1, <1>2, <1>4
<1>5. CASE h # g[x] /\ h # f[x]
  <2>1. B = A
    BY <1>5 DEF A, B
  <2> QED BY <2>1, <1>1, <1>2, <1>5
<1> QED BY <1>3, <1>4, <1>5

\* Two objects exchanging their values change no count.
LEMMA CountExchange ==
    ASSUME NEW S, IsFiniteSet(S), NEW f, NEW g, DOMAIN f = S, DOMAIN g = S,
           NEW x \in S, NEW y \in S, g[x] = f[y], g[y] = f[x],
           \A z \in S : z \notin {x, y} => g[z] = f[z], NEW h
    PROVE  Count(g, h) = Count(f, h)
<1>1. CASE f[x] = f[y]
  BY <1>1 DEF Count
<1>2. CASE f[x] # f[y]
  <2> DEFINE k == [z \in S |-> IF z = x THEN f[y] ELSE f[z]]
  <2>1. DOMAIN k = S /\ k[x] = f[y] /\ k[y] = f[y] /\ x # y
    BY <1>2
  <2>2. \A z \in S : z # x => k[z] = f[z]
    OBVIOUS
  <2>3. \A z \in S : z # y => g[z] = k[z]
    BY <2>1
  <2> HIDE DEF k
  <2>4. /\ Count(f, h) \in Nat
        /\ Count(k, h) = IF h = f[y] THEN Count(f, h) + 1
                         ELSE IF h = f[x] THEN Count(f, h) - 1
                         ELSE Count(f, h)
    BY <1>2, <2>1, <2>2, CountChange
  <2>5. Count(g, h) = IF h = f[x] THEN Count(k, h) + 1
                      ELSE IF h = f[y] THEN Count(k, h) - 1
                      ELSE Count(k, h)
    BY <1>2, <2>1, <2>3, CountChange
  <2> QED BY <2>4, <2>5, <1>2
<1> QED BY <1>1, <1>2

\* What holds of one owner of h: the count is not zero.
LEMMA CountPositive ==
    ASSUME NEW S, IsFiniteSet(S), NEW f, DOMAIN f = S, NEW x \in S
    PROVE  Count(f, f[x]) \in Nat \ {0}
<1> DEFINE A == {o \in S : f[o] = f[x]}
<1>1. IsFiniteSet(A) /\ Cardinality(A) \in Nat
  BY FS_Subset, FS_CardinalityType
<1>2. Cardinality(A) # 0
  BY <1>1, FS_EmptySet
<1> QED BY <1>1, <1>2 DEF Count

\* A table of counts stays exact when one element moves and the table follows.
LEMMA CountedChange ==
    ASSUME NEW S, IsFiniteSet(S), NEW f, NEW g, DOMAIN f = S, DOMAIN g = S,
           NEW x \in S, f[x] # g[x], \A y \in S : y # x => g[y] = f[y],
           NEW K, NEW c, NEW d, \A h \in K : c[h] = Count(f, h),
           \A h \in K : d[h] = IF h = g[x] THEN c[h] + 1
                               ELSE IF h = f[x] THEN c[h] - 1 ELSE c[h]
    PROVE  \A h \in K : d[h] \in Nat /\ d[h] = Count(g, h)
<1> SUFFICES ASSUME NEW h \in K PROVE d[h] \in Nat /\ d[h] = Count(g, h)
  OBVIOUS
<1>1. /\ Count(f, h) \in Nat
      /\ h = f[x] => Count(f, h) > 0
      /\ Count(g, h) = IF h = g[x] THEN Count(f, h) + 1
                       ELSE IF h = f[x] THEN Count(f, h) - 1
                       ELSE Count(f, h)
  BY CountChange
<1> QED BY <1>1
===============================================================================
