----------------------------- MODULE SumTheorems -----------------------------
(***************************************************************************)
(* Sums of naturals over finite sets.  A sum is the last value of a        *)
(* function that is defined recursively on the subsets; that there is one, *)
(* and what it is, is shown by a smallest set for which it is not so.      *)
(***************************************************************************)
EXTENDS Functions, Integers, FiniteSets, FiniteSetTheorems, WellFoundedInduction, TLAPS

\* A set of numbers has a least one.
LEMMA HasLeast ==
  ASSUME NEW S, S \subseteq Nat, S # {}
  PROVE  \E m \in S : \A n \in S : m <= n
<1> DEFINE R == {p \in Nat \X Nat : p[1] < p[2]}
<1>1. IsWellFoundedOn(R, Nat)
  BY NatLessThanWellFounded DEF OpToRel
<1>2. PICK m \in S : \A n \in S : <<n, m>> \notin R
  <2> HIDE DEF R
  <2> QED  BY <1>1, WFMin
<1>3. \A n \in S : ~(n < m)
  BY <1>2
<1> QED  BY <1>3

Member(s) == CHOOSE x \in s : TRUE

LEMMA MemberIsIn == \A s : s # {} => Member(s) \in s
  BY DEF Member

Totals(f, S, g) ==
  g = [s \in SUBSET S |-> IF s = {} THEN 0 ELSE f[Member(s)] + g[s \ {Member(s)}]]

Total(f, S) == CHOOSE g : Totals(f, S, g)

LEMMA SumIsTotal == \A f, S : SumFunctionOnSet(f, S) = Total(f, S)[S]
  BY DEF SumFunctionOnSet, FoldFunctionOnSet, MapThenFoldSet, Total, Totals, Member

\* At each subset.
LEMMA TotalsAt ==
  ASSUME NEW f, NEW S, NEW g, Totals(f, S, g)
  PROVE  \A s \in SUBSET S : g[s] = IF s = {} THEN 0 ELSE f[Member(s)] + g[s \ {Member(s)}]
<1>1. TAKE s \in SUBSET S
<1>2. PICK h : h = [t \in SUBSET S |-> IF t = {} THEN 0 ELSE f[Member(t)] + g[t \ {Member(t)}]]
  OBVIOUS
<1>3. g = h
  BY <1>2 DEF Totals
<1>4. h[s] = IF s = {} THEN 0 ELSE f[Member(s)] + g[s \ {Member(s)}]
  BY <1>2
<1> QED  BY <1>3, <1>4

\* Without one element.
LEMMA OneFewer ==
  ASSUME NEW s, IsFiniteSet(s), NEW x \in s
  PROVE  /\ IsFiniteSet(s \ {x})
         /\ Cardinality(s) \in Nat /\ Cardinality(s \ {x}) \in Nat
         /\ Cardinality(s \ {x}) < Cardinality(s)
<1>1. IsFiniteSet(s \ {x}) /\ Cardinality(s \ {x}) = Cardinality(s) - 1
  BY FS_RemoveElement
<1>2. Cardinality(s) \in Nat /\ Cardinality(s \ {x}) \in Nat
  BY <1>1, FS_CardinalityType
<1> QED  BY <1>1, <1>2

\* Two recursive functions agree wherever both are defined.
LEMMA TotalsAgree ==
  ASSUME NEW f, NEW S, IsFiniteSet(S), NEW T \in SUBSET S
  PROVE  \A g, h : Totals(f, S, g) /\ Totals(f, T, h) => \A s \in SUBSET T : g[s] = h[s]
<1> SUFFICES ASSUME NEW g, NEW h, Totals(f, S, g), Totals(f, T, h)
             PROVE  \A s \in SUBSET T : g[s] = h[s]
  OBVIOUS
<1> DEFINE B == {s \in SUBSET T : g[s] # h[s]}
           N == {n \in Nat : \E s \in B : Cardinality(s) = n}
<1> SUFFICES ASSUME B # {} PROVE FALSE
  OBVIOUS
<1>1. \A s \in SUBSET T : IsFiniteSet(s) /\ Cardinality(s) \in Nat
  <2>1. \A s \in SUBSET T : s \in SUBSET S
    OBVIOUS
  <2> QED  BY <2>1, FS_Subset, FS_CardinalityType
<1>2. N # {}
  <2>1. PICK s \in B : TRUE
    OBVIOUS
  <2>2. Cardinality(s) \in N
    BY <1>1, <2>1
  <2> QED  BY <2>2
<1>3. PICK m \in N : \A n \in N : m <= n
  BY <1>2, HasLeast
<1>4. PICK s \in B : Cardinality(s) = m
  BY <1>3
<1>5. s \in SUBSET S /\ s \in SUBSET T /\ g[s] # h[s]
  BY <1>4
<1>6. s # {}
  BY <1>5, TotalsAt
<1>7. PICK x \in s : x = Member(s)
  BY <1>6, MemberIsIn
<1>8. g[s] = f[x] + g[s \ {x}] /\ h[s] = f[x] + h[s \ {x}]
  <2>1. \A t \in SUBSET S : g[t] = IF t = {} THEN 0 ELSE f[Member(t)] + g[t \ {Member(t)}]
    BY TotalsAt
  <2>2. \A t \in SUBSET T : h[t] = IF t = {} THEN 0 ELSE f[Member(t)] + h[t \ {Member(t)}]
    BY TotalsAt
  <2> QED  BY <1>5, <1>6, <1>7, <2>1, <2>2
<1>9. s \ {x} \notin B
  <2>1. Cardinality(s \ {x}) < m /\ Cardinality(s \ {x}) \in Nat /\ m \in Nat
    BY <1>1, <1>4, <1>5, <1>7, OneFewer
  <2>2. Cardinality(s \ {x}) \notin N
    <3> HIDE DEF N
    <3> QED  BY <1>3, <2>1
  <2> QED  BY <2>1, <2>2
<1>10. g[s \ {x}] = h[s \ {x}]
  BY <1>5, <1>9
<1> QED  BY <1>5, <1>8, <1>10

\* There is one on every finite set.
LEMMA TotalsExist ==
  ASSUME NEW f, NEW S0, IsFiniteSet(S0)
  PROVE  Totals(f, S0, Total(f, S0))
<1> DEFINE Bad(S) == IsFiniteSet(S) /\ ~(\E g : Totals(f, S, g))
           N == {n \in Nat : \E S : Bad(S) /\ Cardinality(S) = n}
<1>1. ASSUME Bad(S0) PROVE FALSE
  <2>1. Cardinality(S0) \in N
    BY <1>1, FS_CardinalityType
  <2>2. PICK m \in N : \A n \in N : m <= n
    <3>1. N \subseteq Nat /\ N # {}
      BY <2>1
    <3> HIDE DEF N
    <3> QED  BY <3>1, HasLeast
  <2>3. PICK S : Bad(S) /\ Cardinality(S) = m
    OBVIOUS
  <2>4. ASSUME NEW u \in SUBSET S, u # S
        PROVE  IsFiniteSet(u) /\ Totals(f, u, Total(f, u))
    <3>1. IsFiniteSet(u) /\ Cardinality(u) \in Nat /\ Cardinality(u) < m
      BY <2>3, <2>4, FS_Subset, FS_CardinalityType
    <3>2. Cardinality(u) \notin N
      <4> HIDE DEF N
      <4> QED  BY <2>2, <3>1, SMT DEF N
    <3>3. ~Bad(u)
      BY <3>1, <3>2
    <3>4. \E g : Totals(f, u, g)
      BY <3>1, <3>3
    <3> QED  BY <3>1, <3>4 DEF Total
  <2> DEFINE F(t) == Total(f, t)[t]
             g == [t \in SUBSET S |-> IF t = {} THEN 0 ELSE f[Member(t)] + F(t \ {Member(t)})]
  <2>5. ASSUME NEW t \in SUBSET S, t # {}
        PROVE  g[t \ {Member(t)}] = F(t \ {Member(t)})
    <3>1. PICK u : u = t \ {Member(t)}
      OBVIOUS
    <3>2. u \in SUBSET S /\ u # S
      BY <2>5, <3>1, MemberIsIn
    <3>3. IsFiniteSet(u) /\ Totals(f, u, Total(f, u))
      BY <2>4, <3>2
    <3>4. F(u) = IF u = {} THEN 0 ELSE f[Member(u)] + Total(f, u)[u \ {Member(u)}]
      <4>1. u \in SUBSET u
        OBVIOUS
      <4> QED  BY <3>3, <4>1, TotalsAt
    <3>5. g[u] = IF u = {} THEN 0 ELSE f[Member(u)] + F(u \ {Member(u)})
      BY <3>2
    <3>6. CASE u = {}
      BY <3>1, <3>4, <3>5, <3>6
    <3>7. CASE u # {}
      <4>1. PICK w : w = u \ {Member(u)}
        OBVIOUS
      <4>2. w \in SUBSET S /\ w # S /\ w \in SUBSET u
        BY <3>2, <3>7, <4>1, MemberIsIn
      <4>3. Totals(f, w, Total(f, w))
        BY <2>4, <4>2
      <4>4. Total(f, u)[w] = Total(f, w)[w]
        <5>1. w \in SUBSET w
          OBVIOUS
        <5>2. PICK k : k = Total(f, u)
          OBVIOUS
        <5>3. PICK h : h = Total(f, w)
          OBVIOUS
        <5>4. \A a, b : Totals(f, u, a) /\ Totals(f, w, b) => \A s \in SUBSET w : a[s] = b[s]
          BY <3>3, <4>2, TotalsAgree
        <5> QED  BY <3>3, <4>3, <5>1, <5>2, <5>3, <5>4
      <4> QED  BY <3>1, <3>4, <3>5, <3>7, <4>1, <4>4
    <3> QED  BY <3>6, <3>7
  <2>6. g = [t \in SUBSET S |-> IF t = {} THEN 0 ELSE f[Member(t)] + g[t \ {Member(t)}]]
    <3>1. \A t \in SUBSET S : (IF t = {} THEN 0 ELSE f[Member(t)] + F(t \ {Member(t)}))
                            = (IF t = {} THEN 0 ELSE f[Member(t)] + g[t \ {Member(t)}])
      <4> HIDE DEF F, g
      <4> QED  BY <2>5
    <3> QED  BY <3>1
  <2>7. Totals(f, S, g)
    BY <2>6 DEF Totals
  <2> QED  BY <2>3, <2>7
<1> QED  BY <1>1 DEF Total
-----------------------------------------------------------------------------
(* What sums are.                                                          *)

LEMMA SumOfNothing == ASSUME NEW f PROVE SumFunctionOnSet(f, {}) = 0
<1>1. PICK g : g = Total(f, {})
  OBVIOUS
<1>2. Totals(f, {}, g)
  BY <1>1, TotalsExist, FS_EmptySet
<1>3. \A s \in SUBSET {} : g[s] = IF s = {} THEN 0 ELSE f[Member(s)] + g[s \ {Member(s)}]
  BY <1>2, TotalsAt
<1> QED  BY <1>1, <1>3, SumIsTotal

\* A sum is taken of one element after another.
LEMMA SumOfMember ==
  ASSUME NEW f, NEW S, IsFiniteSet(S), S # {}
  PROVE  SumFunctionOnSet(f, S) = f[Member(S)] + SumFunctionOnSet(f, S \ {Member(S)})
<1>1. PICK T : T = S \ {Member(S)}
  OBVIOUS
<1>2. PICK g : g = Total(f, S)
  OBVIOUS
<1>3. PICK h : h = Total(f, T)
  OBVIOUS
<1>4. IsFiniteSet(T) /\ T \in SUBSET S
  BY <1>1, FS_Subset
<1>5. Totals(f, S, g) /\ Totals(f, T, h)
  BY <1>2, <1>3, <1>4, TotalsExist
<1>6. \A s \in SUBSET S : g[s] = IF s = {} THEN 0 ELSE f[Member(s)] + g[s \ {Member(s)}]
  BY <1>5, TotalsAt
<1>7. \A s \in SUBSET T : g[s] = h[s]
  <2>1. \A k, l : Totals(f, S, k) /\ Totals(f, T, l) => \A s \in SUBSET T : k[s] = l[s]
    BY <1>4, TotalsAgree
  <2> QED  BY <1>5, <2>1
<1>8. g[S] = f[Member(S)] + h[T]
  BY <1>1, <1>6, <1>7
<1> QED  BY <1>1, <1>2, <1>3, <1>8, SumIsTotal

\* Functions that agree on a set have the same sum, a natural number.
LEMMA SumIsOf ==
  ASSUME NEW S, IsFiniteSet(S), NEW f, NEW g, \A x \in S : f[x] \in Nat /\ f[x] = g[x]
  PROVE  SumFunctionOnSet(f, S) \in Nat /\ SumFunctionOnSet(f, S) = SumFunctionOnSet(g, S)
<1> DEFINE Good(T) == SumFunctionOnSet(f, T) \in Nat
                        /\ SumFunctionOnSet(f, T) = SumFunctionOnSet(g, T)
           B == {T \in SUBSET S : ~Good(T)}
           N == {Cardinality(T) : T \in B}
<1> SUFFICES ASSUME S \in B PROVE FALSE
  OBVIOUS
<1>1. \A T \in SUBSET S : IsFiniteSet(T) /\ Cardinality(T) \in Nat
  BY FS_Subset, FS_CardinalityType
<1>2. N \subseteq Nat /\ N # {}
  BY <1>1
<1>3. PICK m \in N : \A n \in N : m <= n
  <2> HIDE DEF N
  <2> QED  BY <1>2, HasLeast
<1>4. PICK T \in B : Cardinality(T) = m
  BY <1>3
<1>5. T # {}
  BY <1>4, SumOfNothing
<1>6. PICK x \in T : x = Member(T)
  BY <1>5, MemberIsIn
<1>7. PICK U : U = T \ {x}
  OBVIOUS
<1>8. U \in SUBSET S /\ Cardinality(U) < m
  BY <1>1, <1>4, <1>6, <1>7, OneFewer
<1>9. Good(U)
  <2>1. Cardinality(U) \notin N
    <3> HIDE DEF N
    <3> QED  BY <1>1, <1>2, <1>3, <1>8
  <2> QED  BY <1>8, <2>1
<1>10. /\ SumFunctionOnSet(f, T) = f[x] + SumFunctionOnSet(f, U)
       /\ SumFunctionOnSet(g, T) = g[x] + SumFunctionOnSet(g, U)
  BY <1>1, <1>4, <1>5, <1>6, <1>7, SumOfMember
<1>11. f[x] \in Nat /\ f[x] = g[x]
  BY <1>6
<1>12. Good(T)
  BY <1>9, <1>10, <1>11
<1> QED  BY <1>4, <1>12

\* In any order.
LEMMA SumWithout ==
  ASSUME NEW S, IsFiniteSet(S), NEW f, \A x \in S : f[x] \in Nat, NEW a \in S
  PROVE  SumFunctionOnSet(f, S) = f[a] + SumFunctionOnSet(f, S \ {a})
<1> DEFINE sum(T) == SumFunctionOnSet(f, T)
           B == {T \in SUBSET S : \E b \in T : sum(T) # f[b] + sum(T \ {b})}
           N == {Cardinality(T) : T \in B}
<1> SUFFICES ASSUME S \in B PROVE FALSE
  OBVIOUS
<1>1. \A T \in SUBSET S : IsFiniteSet(T) /\ Cardinality(T) \in Nat
  BY FS_Subset, FS_CardinalityType
<1>2. N \subseteq Nat /\ N # {}
  BY <1>1
<1>3. PICK m \in N : \A n \in N : m <= n
  <2> HIDE DEF N
  <2> QED  BY <1>2, HasLeast
<1>4. PICK T \in B : Cardinality(T) = m
  BY <1>3
<1>5. PICK b \in T : sum(T) # f[b] + sum(T \ {b})
  BY <1>4
<1>6. PICK x \in T : x = Member(T)
  BY <1>5, MemberIsIn
<1>7. \A U \in SUBSET S : sum(U) \in Nat
  BY <1>1, SumIsOf
<1>8. sum(T) = f[x] + sum(T \ {x})
  BY <1>1, <1>4, <1>5, <1>6, SumOfMember
<1>9. b # x
  BY <1>5, <1>8
<1>10. ASSUME NEW y \in T, NEW c \in T \ {y}
       PROVE  sum(T \ {y}) = f[c] + sum((T \ {y}) \ {c})
  <2>1. PICK U : U = T \ {y}
    OBVIOUS
  <2>2. U \in SUBSET S /\ Cardinality(U) < m
    BY <1>1, <1>4, <2>1, OneFewer
  <2>3. Cardinality(U) \notin N
    <3> HIDE DEF N
    <3> QED  BY <1>1, <1>2, <1>3, <2>2
  <2>4. U \notin B
    BY <2>3
  <2> QED  BY <2>1, <2>2, <2>4
<1>11. sum(T \ {x}) = f[b] + sum((T \ {x}) \ {b})
  BY <1>5, <1>6, <1>9, <1>10
<1>12. sum(T \ {b}) = f[x] + sum((T \ {b}) \ {x})
  BY <1>5, <1>6, <1>9, <1>10
<1>13. PICK V \in SUBSET S : V = (T \ {x}) \ {b} /\ V = (T \ {b}) \ {x}
  BY <1>4
<1>14. f[x] \in Nat /\ f[b] \in Nat /\ sum(V) \in Nat
  BY <1>4, <1>5, <1>6, <1>7
<1> HIDE DEF sum
<1> QED  BY <1>5, <1>8, <1>11, <1>12, <1>13, <1>14

Part(R, of, c) == {r \in R : of[r] = c}

\* What is counted by parts is counted: every member of R belongs to the part
\* of C that of names.
LEMMA PartsAddUp ==
  ASSUME NEW C, IsFiniteSet(C), NEW R, IsFiniteSet(R), NEW of, \A r \in R : of[r] \in C,
         NEW f, \A c \in C : f[c] = Cardinality(Part(R, of, c))
  PROVE  SumFunctionOnSet(f, C) = Cardinality(R)
<1> DEFINE sum(D) == SumFunctionOnSet(f, D)
           in(D) == {r \in R : of[r] \in D}
           B == {D \in SUBSET C : sum(D) # Cardinality(in(D))}
           N == {Cardinality(D) : D \in B}
<1>1. ASSUME C \in B PROVE FALSE
  <2>1. \A D \in SUBSET C : IsFiniteSet(D) /\ Cardinality(D) \in Nat
    BY FS_Subset, FS_CardinalityType
  <2>2. N \subseteq Nat /\ N # {}
    BY <1>1, <2>1
  <2>3. PICK m \in N : \A n \in N : m <= n
    <3> HIDE DEF N
    <3> QED  BY <2>2, HasLeast
  <2>4. PICK D \in B : Cardinality(D) = m
    BY <2>3
  <2>5. \A S \in SUBSET R : IsFiniteSet(S) /\ Cardinality(S) \in Nat
    BY FS_Subset, FS_CardinalityType
  <2>6. D # {}
    <3>1. in({}) = {}
      OBVIOUS
    <3>2. sum({}) = 0 /\ Cardinality({}) = 0
      BY SumOfNothing, FS_EmptySet
    <3> QED  BY <2>4, <3>1, <3>2
  <2>7. PICK d \in D : TRUE
    BY <2>6
  <2>8. PICK E : E = D \ {d}
    OBVIOUS
  <2>9. \A c \in C : f[c] \in Nat
    <3>1. \A c \in C : Part(R, of, c) \in SUBSET R
      BY DEF Part
    <3> QED  BY <2>5, <3>1
  <2>10. sum(D) = f[d] + sum(E)
    <3>1. IsFiniteSet(D) /\ \A c \in D : f[c] \in Nat
      BY <2>1, <2>4, <2>9
    <3> QED  BY <2>7, <2>8, <3>1, SumWithout
  <2>11. sum(E) = Cardinality(in(E))
    <3>1. E \in SUBSET C /\ Cardinality(E) < m
      BY <2>1, <2>4, <2>7, <2>8, OneFewer
    <3>2. Cardinality(E) \notin N
      <4> HIDE DEF N
      <4> QED  BY <2>1, <2>2, <2>3, <3>1
    <3> QED  BY <3>1, <3>2
  <2>12. PICK X : X = {r \in R : of[r] = d}
    OBVIOUS
  <2>13. PICK Y : Y = in(E)
    OBVIOUS
  <2>14. in(D) = X \cup Y /\ X \cap Y = {}
    BY <2>7, <2>8, <2>12, <2>13
  <2>15. IsFiniteSet(X) /\ IsFiniteSet(Y) /\ Cardinality(X) \in Nat /\ Cardinality(Y) \in Nat
    BY <2>5, <2>12, <2>13
  <2>16. Cardinality(X \cup Y) = Cardinality(X) + Cardinality(Y)
    <3>1. Cardinality(X \cup Y) = Cardinality(X) + Cardinality(Y) - Cardinality(X \cap Y)
      BY <2>15, FS_Union
    <3>2. Cardinality(X \cap Y) = 0
      BY <2>14, FS_EmptySet
    <3> QED  BY <2>15, <3>1, <3>2
  <2>17. f[d] = Cardinality(X)
    BY <2>4, <2>7, <2>12 DEF Part
  <2>18. sum(D) = Cardinality(in(D))
    BY <2>10, <2>11, <2>13, <2>14, <2>16, <2>17
  <2> QED  BY <2>4, <2>18
<1>2. in(C) = R
  OBVIOUS
<1> QED  BY <1>1, <1>2
=============================================================================
