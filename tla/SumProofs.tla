------------------------------ MODULE SumProofs ------------------------------
(***************************************************************************)
(* The sum of a function over a finite set (SumFunctionOnSet of the        *)
(* community module Functions), with which bandwidths, exits, times,       *)
(* threads and columns are added up.                                       *)
(*                                                                         *)
(* The sum is a recursive function.  Facts about it are proved from a      *)
(* minimal set for which they fail, of which there is one because a strict *)
(* subset of a finite set comes before it in a well-founded order.         *)
(***************************************************************************)
EXTENDS Integers, FiniteSets, FiniteSetsExt, Functions, FiniteSetTheorems,
        WellFoundedInduction, TLAPS

Pick(s) == CHOOSE x \in s : TRUE

Body(f, g, s) == IF s = {} THEN 0 ELSE f[Pick(s)] + g[s \ {Pick(s)}]

\* g is the table of the sums of f over the subsets of S.
Tabulates(f, g, S) == g = [s \in SUBSET S |-> Body(f, g, s)]

LEMMA PickInSet == ASSUME NEW s, s # {} PROVE Pick(s) \in s
BY DEF Pick

\* Of the subsets of a finite set that have some property, one is minimal.
LEMMA MinimalSubset ==
    ASSUME NEW S, IsFiniteSet(S), NEW T, T \subseteq SUBSET S, T # {}
    PROVE  \E s \in T : \A x \in s : s \ {x} \notin T
<1>1. SUBSET S = FiniteSubsetsOf(S)
  BY FS_FiniteSubsetsOfFinite
<1>2. IsWellFoundedOn(StrictSubsetOrdering(S), FiniteSubsetsOf(S))
  BY FS_StrictSubsetOrderingWellFounded
<1>3. T \subseteq FiniteSubsetsOf(S)
  BY <1>1
<1>4. PICK s \in T : \A y \in T : ~ (<<y, s>> \in StrictSubsetOrdering(S))
  BY <1>2, <1>3, WFMin
<1>5. ASSUME NEW x \in s, s \ {x} \in T PROVE FALSE
  <2>1. <<s \ {x}, s>> \in (SUBSET S) \X (SUBSET S)
    OBVIOUS
  <2>2. s \ {x} \subseteq s /\ s \ {x} # s
    OBVIOUS
  <2>3. <<s \ {x}, s>> \in StrictSubsetOrdering(S)
    BY <2>1, <2>2 DEF StrictSubsetOrdering
  <2> QED BY <1>4, <1>5, <2>3
<1> QED BY <1>5
-----------------------------------------------------------------------------
\* Two tables agree wherever both are defined and the functions are the same.
LEMMA TablesAgree ==
    ASSUME NEW S, IsFiniteSet(S), NEW R, NEW R2,
           S \subseteq R, S \subseteq R2,
           NEW f, NEW f2, \A x \in S : f[x] = f2[x],
           NEW g, Tabulates(f, g, R),
           NEW g2, Tabulates(f2, g2, R2)
    PROVE  g[S] = g2[S]
<1> DEFINE T == {s \in SUBSET S : g[s] # g2[s]}
<1> SUFFICES ASSUME T # {} PROVE FALSE
  OBVIOUS
<1>1. PICK s \in T : \A x \in s : s \ {x} \notin T
  <2>1. T \subseteq SUBSET S
    OBVIOUS
  <2> HIDE DEF T
  <2> QED BY <2>1, MinimalSubset
<1>2. s \in SUBSET R /\ s \in SUBSET R2 /\ s \in SUBSET S
  OBVIOUS
<1>3. g[s] = Body(f, g, s) /\ g2[s] = Body(f2, g2, s)
  BY <1>2 DEF Tabulates
<1>4. CASE s = {}
  BY <1>3, <1>4 DEF Body
<1>5. CASE s # {}
  <2>1. Pick(s) \in s
    BY <1>5, PickInSet
  <2>2. s \ {Pick(s)} \in SUBSET S /\ s \ {Pick(s)} \notin T
    BY <1>1, <1>2, <2>1
  <2>3. g[s \ {Pick(s)}] = g2[s \ {Pick(s)}]
    BY <2>2
  <2>4. f[Pick(s)] = f2[Pick(s)]
    BY <1>2, <2>1
  <2>5. Body(f, g, s) = Body(f2, g2, s)
    BY <1>5, <2>3, <2>4 DEF Body
  <2> QED BY <1>3, <2>5
<1> QED BY <1>4, <1>5

\* The sets of at most n elements have a table, for each n: one more
\* application of Body extends it to the sets with one element more.
Partly(f, g, S, n) ==
    /\ g = [s \in SUBSET S |-> g[s]]
    /\ \A s \in SUBSET S : Cardinality(s) <= n => g[s] = Body(f, g, s)

LEMMA TableExists ==
    ASSUME NEW S, IsFiniteSet(S), NEW f
    PROVE  \E g : Tabulates(f, g, S)
<1>0. \A s \in SUBSET S : IsFiniteSet(s) /\ Cardinality(s) \in Nat
  BY FS_Subset, FS_CardinalityType
<1> DEFINE T == {n \in Nat : ~ \E g : Partly(f, g, S, n)}
<1>1. T = {}
  <2> SUFFICES ASSUME T # {} PROVE FALSE
    OBVIOUS
  <2>1. PICK n \in T : \A m \in T : ~ (m < n)
    <3>1. T \subseteq Nat
      OBVIOUS
    <3>2. PICK n \in T : \A m \in T : ~ (<<m, n>> \in OpToRel(<, Nat))
      <4> HIDE DEF T
      <4> QED BY <3>1, NatLessThanWellFounded, WFMin
    <3>3. \A m \in T : m < n => <<m, n>> \in OpToRel(<, Nat)
      BY DEF OpToRel
    <3> QED BY <3>2, <3>3
  <2>2. CASE n = 0
    <3> DEFINE g == [s \in SUBSET S |-> 0]
    <3>1. \A s \in SUBSET S : Cardinality(s) <= 0 => s = {}
      BY <1>0, FS_EmptySet
    <3>2. Partly(f, g, S, 0)
      BY <3>1 DEF Partly, Body
    <3> QED BY <2>2, <3>2
  <2>3. CASE n # 0
    <3>1. n - 1 \in Nat /\ n - 1 < n
      BY <2>3
    <3>2. PICK g : Partly(f, g, S, n - 1)
      BY <2>1, <3>1
    <3> DEFINE h == [s \in SUBSET S |-> Body(f, g, s)]
    <3>3. ASSUME NEW s \in SUBSET S, Cardinality(s) <= n
          PROVE  h[s] = Body(f, h, s)
      <4>1. CASE s = {}
        BY <4>1 DEF Body
      <4>2. CASE s # {}
        <5> DEFINE t == s \ {Pick(s)}
        <5>1. t \in SUBSET S /\ Cardinality(t) <= n - 1
          BY SMTT(30), <1>0, <3>3, <4>2, PickInSet, FS_RemoveElement
        <5>2. g[t] = Body(f, g, t)
          BY <3>2, <5>1 DEF Partly
        <5>3. h[t] = g[t]
          BY <5>1, <5>2
        <5>4. Body(f, h, s) = Body(f, g, s)
          BY <4>2, <5>3 DEF Body
        <5> QED BY <5>4
      <4> QED BY <4>1, <4>2
    <3>4. Partly(f, h, S, n)
      BY <3>3 DEF Partly
    <3> QED BY <3>4
  <2> QED BY <2>2, <2>3
<1>2. Cardinality(S) \in Nat
  BY <1>0
<1>3. PICK g : Partly(f, g, S, Cardinality(S))
  BY <1>1, <1>2
<1>4. \A s \in SUBSET S : g[s] = Body(f, g, s)
  <2>1. \A s \in SUBSET S : Cardinality(s) <= Cardinality(S)
    BY FS_Subset
  <2> QED BY <1>3, <2>1 DEF Partly
<1>5. Tabulates(f, g, S)
  BY <1>3, <1>4 DEF Partly, Tabulates
<1> QED BY <1>5
-----------------------------------------------------------------------------
\* SumFunctionOnSet reads the sum from a table.
LEMMA SumIsTabulated ==
    ASSUME NEW S, IsFiniteSet(S), NEW f
    PROVE  \E g : Tabulates(f, g, S) /\ SumFunctionOnSet(f, S) = g[S]
<1> DEFINE g == CHOOSE iter : iter = [s \in SUBSET S |-> Body(f, iter, s)]
<1>1. SumFunctionOnSet(f, S) = g[S]
  BY DEF SumFunctionOnSet, FoldFunctionOnSet, MapThenFoldSet, Body, Pick
<1>2. g = [s \in SUBSET S |-> Body(f, g, s)]
  BY TableExists DEF Tabulates
<1> QED BY <1>1, <1>2 DEF Tabulates

\* The sum over a set in terms of a smaller one: the equation that the
\* recursive definition stands for.
LEMMA SumUnfolds ==
    ASSUME NEW S, IsFiniteSet(S), NEW f
    PROVE  SumFunctionOnSet(f, S) =
                IF S = {} THEN 0
                ELSE f[Pick(S)] + SumFunctionOnSet(f, S \ {Pick(S)})
<1>1. PICK g : Tabulates(f, g, S) /\ SumFunctionOnSet(f, S) = g[S]
  BY SumIsTabulated
<1>2. g[S] = Body(f, g, S)
  BY <1>1 DEF Tabulates
<1>3. CASE S = {}
  BY <1>1, <1>2, <1>3 DEF Body
<1>4. CASE S # {}
  <2> DEFINE t == S \ {Pick(S)}
  <2>1. IsFiniteSet(t) /\ t \subseteq S
    BY FS_RemoveElement
  <2>2. PICK h : Tabulates(f, h, t) /\ SumFunctionOnSet(f, t) = h[t]
    BY <2>1, SumIsTabulated
  <2>3. g[t] = h[t]
    <3> HIDE DEF t
    <3> QED BY <1>1, <2>1, <2>2, TablesAgree
  <2> QED BY <1>1, <1>2, <1>4, <2>2, <2>3 DEF Body
<1> QED BY <1>3, <1>4

\* Functions with the same values have the same sum.
LEMMA SumSame ==
    ASSUME NEW S, IsFiniteSet(S), NEW f, NEW g, \A x \in S : f[x] = g[x]
    PROVE  SumFunctionOnSet(f, S) = SumFunctionOnSet(g, S)
<1>1. PICK t : Tabulates(f, t, S) /\ SumFunctionOnSet(f, S) = t[S]
  BY SumIsTabulated
<1>2. PICK u : Tabulates(g, u, S) /\ SumFunctionOnSet(g, S) = u[S]
  BY SumIsTabulated
<1> QED BY <1>1, <1>2, TablesAgree

\* A sum of natural numbers is one.
LEMMA SumIsNat ==
    ASSUME NEW S, IsFiniteSet(S), NEW f, \A x \in S : f[x] \in Nat
    PROVE  SumFunctionOnSet(f, S) \in Nat
<1> DEFINE T == {s \in SUBSET S : SumFunctionOnSet(f, s) \notin Nat}
<1> SUFFICES ASSUME T # {} PROVE FALSE
  OBVIOUS
<1>1. PICK s \in T : \A x \in s : s \ {x} \notin T
  <2>1. T \subseteq SUBSET S
    OBVIOUS
  <2> HIDE DEF T
  <2> QED BY <2>1, MinimalSubset
<1>2. s \in SUBSET S /\ IsFiniteSet(s)
  BY FS_Subset
<1>3. CASE s = {}
  <2>1. SumFunctionOnSet(f, s) = 0
    BY <1>2, <1>3, SumUnfolds
  <2> QED BY <2>1
<1>4. CASE s # {}
  <2>1. Pick(s) \in s
    BY <1>4, PickInSet
  <2>2. f[Pick(s)] \in Nat
    BY <1>2, <2>1
  <2>3. SumFunctionOnSet(f, s \ {Pick(s)}) \in Nat
    BY <1>1, <1>2, <2>1
  <2>4. SumFunctionOnSet(f, s) =
            f[Pick(s)] + SumFunctionOnSet(f, s \ {Pick(s)})
    BY <1>2, <1>4, SumUnfolds
  <2>5. SumFunctionOnSet(f, s) \in Nat
    BY <2>2, <2>3, <2>4
  <2> QED BY <2>5
<1> QED BY <1>3, <1>4

\* Any element may be taken out of the sum first.
LEMMA SumRemove ==
    ASSUME NEW S, IsFiniteSet(S), NEW f, \A x \in S : f[x] \in Nat,
           NEW y \in S
    PROVE  SumFunctionOnSet(f, S) = f[y] + SumFunctionOnSet(f, S \ {y})
<1> DEFINE Sum(s) == SumFunctionOnSet(f, s)
           T == {s \in SUBSET S : \E x \in s : Sum(s) # f[x] + Sum(s \ {x})}
<1> SUFFICES ASSUME T # {} PROVE FALSE
  OBVIOUS
<1>1. PICK s \in T : \A x \in s : s \ {x} \notin T
  <2>1. T \subseteq SUBSET S
    OBVIOUS
  <2> HIDE DEF T
  <2> QED BY <2>1, MinimalSubset
<1>2. PICK x \in s : Sum(s) # f[x] + Sum(s \ {x})
  OBVIOUS
<1> DEFINE p == Pick(s)
           rest == s \ {p, x}
<1>3. s \in SUBSET S /\ IsFiniteSet(s) /\ s # {}
  BY FS_Subset
<1>4. p \in s
  BY <1>3, PickInSet
<1>5. Sum(s) = f[p] + Sum(s \ {p})
  BY <1>3, SumUnfolds
<1>6. p # x
  BY <1>2, <1>5
<1>7. Sum(s \ {p}) = f[x] + Sum(rest)
  <2>1. s \ {p} \notin T /\ s \ {p} \in SUBSET S /\ x \in s \ {p}
    BY <1>1, <1>3, <1>4, <1>6
  <2>2. (s \ {p}) \ {x} = rest
    OBVIOUS
  <2> HIDE DEF p, rest
  <2> QED BY <2>1, <2>2
<1>8. Sum(s \ {x}) = f[p] + Sum(rest)
  <2>1. s \ {x} \notin T /\ s \ {x} \in SUBSET S /\ p \in s \ {x}
    BY <1>1, <1>3, <1>4, <1>6
  <2>2. (s \ {x}) \ {p} = rest
    OBVIOUS
  <2> HIDE DEF p, rest
  <2> QED BY <2>1, <2>2
<1>9. f[x] \in Nat /\ f[p] \in Nat /\ Sum(rest) \in Nat
  <2>1. IsFiniteSet(rest) /\ rest \subseteq S
    BY <1>3, FS_Subset
  <2> QED BY <1>3, <1>4, <2>1, SumIsNat
<1> HIDE DEF p, rest, Sum
<1> QED BY <1>2, <1>5, <1>7, <1>8, <1>9
-----------------------------------------------------------------------------
\* A sum of zeros is zero.
LEMMA SumOfZeros ==
    ASSUME NEW S, IsFiniteSet(S), NEW f, \A x \in S : f[x] = 0
    PROVE  SumFunctionOnSet(f, S) = 0
<1> DEFINE T == {s \in SUBSET S : SumFunctionOnSet(f, s) # 0}
<1> SUFFICES ASSUME T # {} PROVE FALSE
  OBVIOUS
<1>1. PICK s \in T : \A x \in s : s \ {x} \notin T
  <2>1. T \subseteq SUBSET S
    OBVIOUS
  <2> HIDE DEF T
  <2> QED BY <2>1, MinimalSubset
<1>2. s \in SUBSET S /\ IsFiniteSet(s)
  BY FS_Subset
<1>3. CASE s = {}
  BY <1>2, <1>3, SumUnfolds
<1>4. CASE s # {}
  <2>1. Pick(s) \in s
    BY <1>4, PickInSet
  <2>2. f[Pick(s)] = 0 /\ SumFunctionOnSet(f, s \ {Pick(s)}) = 0
    BY <1>1, <1>2, <2>1
  <2> QED BY <1>2, <1>4, <2>2, SumUnfolds
<1> QED BY <1>3, <1>4

\* Changing one summand changes the sum by as much.
LEMMA SumChanged ==
    ASSUME NEW S, IsFiniteSet(S),
           NEW f, \A x \in S : f[x] \in Nat,
           NEW g, \A x \in S : g[x] \in Nat,
           NEW y \in S, \A x \in S \ {y} : f[x] = g[x]
    PROVE  SumFunctionOnSet(f, S) + g[y] = SumFunctionOnSet(g, S) + f[y]
<1>1. IsFiniteSet(S \ {y})
  BY FS_RemoveElement
<1>2. SumFunctionOnSet(f, S \ {y}) = SumFunctionOnSet(g, S \ {y})
  BY <1>1, SumSame
<1>3. SumFunctionOnSet(f, S \ {y}) \in Nat
  BY <1>1, SumIsNat
<1>4. /\ SumFunctionOnSet(f, S) = f[y] + SumFunctionOnSet(f, S \ {y})
      /\ SumFunctionOnSet(g, S) = g[y] + SumFunctionOnSet(g, S \ {y})
  BY SumRemove
<1> QED BY <1>2, <1>3, <1>4

\* A sum is no larger than one of larger summands.
LEMMA SumMonotone ==
    ASSUME NEW S, IsFiniteSet(S),
           NEW f, \A x \in S : f[x] \in Nat,
           NEW g, \A x \in S : g[x] \in Nat,
           \A x \in S : f[x] <= g[x]
    PROVE  SumFunctionOnSet(f, S) <= SumFunctionOnSet(g, S)
<1> DEFINE T == {s \in SUBSET S :
                    ~ (SumFunctionOnSet(f, s) <= SumFunctionOnSet(g, s))}
<1> SUFFICES ASSUME T # {} PROVE FALSE
  OBVIOUS
<1>1. PICK s \in T : \A x \in s : s \ {x} \notin T
  <2>1. T \subseteq SUBSET S
    OBVIOUS
  <2> HIDE DEF T
  <2> QED BY <2>1, MinimalSubset
<1>2. s \in SUBSET S /\ IsFiniteSet(s)
  BY FS_Subset
<1>3. CASE s = {}
  <2>1. SumFunctionOnSet(f, s) = 0 /\ SumFunctionOnSet(g, s) = 0
    BY <1>2, <1>3, SumUnfolds
  <2>2. SumFunctionOnSet(f, s) <= SumFunctionOnSet(g, s)
    BY <2>1
  <2> QED BY <2>2
<1>4. CASE s # {}
  <2> DEFINE t == s \ {Pick(s)}
  <2>1. Pick(s) \in s
    BY <1>4, PickInSet
  <2>2. SumFunctionOnSet(f, t) <= SumFunctionOnSet(g, t)
    BY <1>1, <1>2, <2>1
  <2>3. SumFunctionOnSet(f, t) \in Nat /\ SumFunctionOnSet(g, t) \in Nat
    BY <1>2, FS_RemoveElement, SumIsNat
  <2>4. /\ SumFunctionOnSet(f, s) = f[Pick(s)] + SumFunctionOnSet(f, t)
        /\ SumFunctionOnSet(g, s) = g[Pick(s)] + SumFunctionOnSet(g, t)
    BY <1>2, <1>4, SumUnfolds
  <2>5. f[Pick(s)] \in Nat /\ g[Pick(s)] \in Nat /\ f[Pick(s)] <= g[Pick(s)]
    BY <1>2, <2>1
  <2>6. SumFunctionOnSet(f, s) <= SumFunctionOnSet(g, s)
    BY <2>2, <2>3, <2>4, <2>5
  <2> QED BY <2>6
<1> QED BY <1>3, <1>4

\* The sum of sums.
LEMMA SumAdds ==
    ASSUME NEW S, IsFiniteSet(S),
           NEW f, \A x \in S : f[x] \in Nat,
           NEW g, \A x \in S : g[x] \in Nat,
           NEW h, \A x \in S : h[x] = f[x] + g[x]
    PROVE  SumFunctionOnSet(h, S) =
                SumFunctionOnSet(f, S) + SumFunctionOnSet(g, S)
<1> DEFINE F(s) == SumFunctionOnSet(f, s)
           G(s) == SumFunctionOnSet(g, s)
           H(s) == SumFunctionOnSet(h, s)
           T == {s \in SUBSET S : H(s) # F(s) + G(s)}
<1> SUFFICES ASSUME T # {} PROVE FALSE
  OBVIOUS
<1>1. PICK s \in T : \A x \in s : s \ {x} \notin T
  <2>1. T \subseteq SUBSET S
    OBVIOUS
  <2> HIDE DEF T
  <2> QED BY <2>1, MinimalSubset
<1>2. s \in SUBSET S /\ IsFiniteSet(s) /\ H(s) # F(s) + G(s)
  BY FS_Subset
<1>3. CASE s = {}
  <2>1. F(s) = 0 /\ G(s) = 0 /\ H(s) = 0
    BY <1>2, <1>3, SumUnfolds
  <2> HIDE DEF F, G, H
  <2> QED BY <1>2, <2>1
<1>4. CASE s # {}
  <2> DEFINE x == Pick(s)
             t == s \ {x}
  <2>1. x \in s
    BY <1>4, PickInSet
  <2>2. t \in SUBSET S /\ t \notin T /\ IsFiniteSet(t)
    BY <1>1, <1>2, <2>1, FS_RemoveElement
  <2>3. H(t) = F(t) + G(t)
    BY <2>2
  <2>4. F(t) \in Nat /\ G(t) \in Nat
    BY <2>2, SumIsNat
  <2>5. /\ F(s) = f[x] + F(t) /\ G(s) = g[x] + G(t)
        /\ H(s) = h[x] + H(t)
    BY <1>2, <1>4, SumUnfolds
  <2>6. f[x] \in Nat /\ g[x] \in Nat /\ h[x] = f[x] + g[x]
    BY <1>2, <2>1
  <2> HIDE DEF F, G, H, x, t
  <2> QED BY <1>2, <2>3, <2>4, <2>5, <2>6
<1> QED BY <1>3, <1>4

\* Summands of at most m.
LEMMA SumBounded ==
    ASSUME NEW S, IsFiniteSet(S), NEW m \in Nat,
           NEW f, \A x \in S : f[x] \in 0..m
    PROVE  SumFunctionOnSet(f, S) <= Cardinality(S) * m
<1> DEFINE F(s) == SumFunctionOnSet(f, s)
           T == {s \in SUBSET S : ~ (F(s) <= Cardinality(s) * m)}
<1> SUFFICES ASSUME T # {} PROVE FALSE
  OBVIOUS
<1>1. PICK s \in T : \A x \in s : s \ {x} \notin T
  <2>1. T \subseteq SUBSET S
    OBVIOUS
  <2> HIDE DEF T
  <2> QED BY <2>1, MinimalSubset
<1>2. s \in SUBSET S /\ IsFiniteSet(s) /\ ~ (F(s) <= Cardinality(s) * m)
  BY FS_Subset
<1>3. CASE s = {}
  <2>1. F(s) = 0 /\ Cardinality(s) = 0
    BY <1>2, <1>3, SumUnfolds, FS_EmptySet
  <2>2. F(s) <= Cardinality(s) * m
    BY <2>1
  <2> QED BY <1>2, <2>2
<1>4. CASE s # {}
  <2> DEFINE x == Pick(s)
             t == s \ {x}
  <2>1. x \in s
    BY <1>4, PickInSet
  <2>2. t \in SUBSET S /\ t \notin T /\ IsFiniteSet(t)
    BY <1>1, <1>2, <2>1, FS_RemoveElement
  <2>3. F(t) <= Cardinality(t) * m
    BY <2>2
  <2>4. F(t) \in Nat
    <3>1. \A y \in t : f[y] \in Nat
      BY <2>2
    <3> QED BY <2>2, <3>1, SumIsNat
  <2>5. F(s) = f[x] + F(t)
    BY <1>2, <1>4, SumUnfolds
  <2>6. f[x] \in Nat /\ f[x] <= m
    BY <1>2, <2>1
  <2>7. PICK c \in Nat : c = Cardinality(t) /\ Cardinality(s) = c + 1
    <3>1. Cardinality(t) = Cardinality(s) - 1 /\ Cardinality(s) \in Nat
          /\ Cardinality(t) \in Nat
      BY <1>2, <2>1, <2>2, FS_RemoveElement, FS_CardinalityType
    <3> HIDE DEF t
    <3> QED BY <3>1
  <2>8. (c + 1) * m = c * m + m /\ c * m \in Nat
    OBVIOUS
  <2>9. F(s) <= Cardinality(s) * m
    <3> HIDE DEF F, x, t
    <3> QED BY <2>3, <2>4, <2>5, <2>6, <2>7, <2>8
  <2> QED BY <1>2, <2>9
<1> QED BY <1>3, <1>4
=============================================================================
