-------------------------------- MODULE Sums --------------------------------
(***************************************************************************)
(* Lemmas about the sum of a function over a finite set and the maximum of *)
(* a finite set, for the models that add up or rank points.                *)
(* SumFunctionOnSet is a fold, that is a recursive function on the subsets *)
(* of the set.  Induction is done by minimal counterexample: strict        *)
(* inclusion of finite sets is well founded, so a nonempty set of          *)
(* counterexamples has a least one.                                        *)
(***************************************************************************)
EXTENDS Integers, FiniteSets, FiniteSetsExt, FiniteSetTheorems, TLAPS

\* Of sets of subsets of a finite set, the nonempty ones have a minimal member.
LEMMA LeastSubset ==
    ASSUME NEW S, IsFiniteSet(S), NEW Bad, Bad \subseteq SUBSET S, Bad # {}
    PROVE  \E U \in Bad : \A V \in SUBSET U : V # U => V \notin Bad
  <1>1. IsWellFoundedOn(StrictSubsetOrdering(S), SUBSET S)
    BY FS_StrictSubsetOrderingWellFounded, FS_FiniteSubsetsOfFinite
  <1>2. PICK U \in Bad : \A V \in Bad : <<V, U>> \notin StrictSubsetOrdering(S)
    BY <1>1, WFMin
  <1> QED
    BY <1>2 DEF StrictSubsetOrdering

-----------------------------------------------------------------------------
(* The fold is well defined *)

AnyOf(s) == CHOOSE x \in s : TRUE

\* g gives the sums of f over the subsets of T.
IsSum(g, f, T) ==
    g = [s \in SUBSET T |-> IF s = {} THEN 0 ELSE f[AnyOf(s)] + g[s \ {AnyOf(s)}]]

\* What SumFunctionOnSet of the community modules says.
LEMMA SumIsFold ==
    ASSUME NEW f, NEW S
    PROVE  SumFunctionOnSet(f, S) = (CHOOSE g : IsSum(g, f, S))[S]
  BY DEF SumFunctionOnSet, FoldFunctionOnSet, MapThenFoldSet, IsSum, AnyOf

LEMMA AnyOfIn == ASSUME NEW s, s # {} PROVE AnyOf(s) \in s
  BY DEF AnyOf

LEMMA IsSumApplied ==
    ASSUME NEW f, NEW T, NEW g, IsSum(g, f, T)
    PROVE  /\ g[{}] = 0
           /\ \A s \in SUBSET T : s # {} => g[s] = f[AnyOf(s)] + g[s \ {AnyOf(s)}]
  BY DEF IsSum

\* The sums over the subsets of U do not depend on the set U is part of.
LEMMA SumUnique ==
    ASSUME NEW f, NEW S, IsFiniteSet(S), NEW U \in SUBSET S, NEW g, NEW h, IsSum(g, f, S), IsSum(h, f, U)
    PROVE  \A s \in SUBSET U : g[s] = h[s]
  <1> DEFINE Bad == {s \in SUBSET U : g[s] # h[s]}
  <1> SUFFICES ASSUME Bad # {} PROVE FALSE
    OBVIOUS
  <1>1. Bad \subseteq SUBSET S
    OBVIOUS
  <1>2. PICK s \in Bad : \A r \in SUBSET s : r # s => r \notin Bad
    <2> HIDE DEF Bad
    <2> QED BY <1>1, LeastSubset
  <1>3. \A r \in SUBSET s : r # s => g[r] = h[r]
    BY <1>2
  <1>4. s \in SUBSET U /\ s \in SUBSET S /\ g[s] # h[s]
    BY <1>2
  <1>5. s # {}
    BY <1>4, IsSumApplied
  <1>6. g[s] = f[AnyOf(s)] + g[s \ {AnyOf(s)}] /\ h[s] = f[AnyOf(s)] + h[s \ {AnyOf(s)}]
    BY <1>4, <1>5, IsSumApplied
  <1>7. g[s \ {AnyOf(s)}] = h[s \ {AnyOf(s)}]
    BY <1>3, <1>5, AnyOfIn
  <1> QED
    BY <1>4, <1>6, <1>7

LEMMA SumExists ==
    ASSUME NEW f, NEW S, IsFiniteSet(S)
    PROVE  \E g : IsSum(g, f, S)
  <1> DEFINE Bad == {U \in SUBSET S : ~ \E g : IsSum(g, f, U)}
  <1> SUFFICES ASSUME Bad # {} PROVE FALSE
    OBVIOUS
  <1>1. Bad \subseteq SUBSET S
    OBVIOUS
  <1>2. PICK U \in Bad : \A V \in SUBSET U : V # U => V \notin Bad
    <2> HIDE DEF Bad
    <2> QED BY <1>1, LeastSubset
  <1> DEFINE of(V) == CHOOSE g : IsSum(g, f, V)
             rest(s) == s \ {AnyOf(s)}
             h == [s \in SUBSET U |-> IF s = {} THEN 0 ELSE f[AnyOf(s)] + of(rest(s))[rest(s)]]
  <1>3. \A V \in SUBSET U : V # U => IsSum(of(V), f, V) /\ IsFiniteSet(V)
    BY <1>2, FS_Subset
  <1>4. \A s \in SUBSET U : s # {} => rest(s) \in SUBSET s /\ rest(s) \in SUBSET U /\ rest(s) # U /\ rest(s) # s
    BY AnyOfIn
  <1>5. \A s \in SUBSET U : s # {} => h[s] = f[AnyOf(s)] + of(rest(s))[rest(s)]
    OBVIOUS
  <1>6. h[{}] = 0
    OBVIOUS
  <1>7. ASSUME NEW s \in SUBSET U, s # U PROVE h[s] = of(s)[s]
    <2> HIDE DEF of, h
    <2>1. CASE s = {}
      BY <1>3, <1>6, <1>7, <2>1, IsSumApplied
    <2>2. CASE s # {}
      <3>1. of(s)[rest(s)] = of(rest(s))[rest(s)]
        <4>1. rest(s) \in SUBSET s /\ IsSum(of(s), f, s) /\ IsSum(of(rest(s)), f, rest(s)) /\ IsFiniteSet(s)
          BY <1>3, <1>4, <1>7, <2>2
        <4> HIDE DEF rest
        <4> QED BY <4>1, SumUnique
      <3>2. of(s)[s] = f[AnyOf(s)] + of(s)[rest(s)]
        <4>1. IsSum(of(s), f, s)
          BY <1>3, <1>7
        <4> QED BY <4>1, <2>2, IsSumApplied
      <3> QED
        BY <3>1, <3>2, <2>2, <1>5
    <2> QED
      BY <2>1, <2>2
  <1>8. ASSUME NEW s \in SUBSET U, s # {} PROVE h[s] = f[AnyOf(s)] + h[rest(s)]
    <2> HIDE DEF of, h, rest
    <2> QED BY <1>4, <1>5, <1>7, <1>8
  <1>9. IsSum(h, f, U)
    <2>1. h = [s \in SUBSET U |-> h[s]]
      OBVIOUS
    <2> HIDE DEF h
    <2>2. h = [s \in SUBSET U |-> IF s = {} THEN 0 ELSE f[AnyOf(s)] + h[rest(s)]]
      <3> HIDE DEF rest
      <3> QED BY <2>1, <1>6, <1>8
    <2> QED
      BY <2>2 DEF IsSum
  <1> QED
    <2> HIDE DEF h
    <2> QED BY <1>2, <1>9

LEMMA SumOfRest ==
    ASSUME NEW f, NEW S, IsFiniteSet(S), S # {}
    PROVE  \E x \in S : SumFunctionOnSet(f, S) = f[x] + SumFunctionOnSet(f, S \ {x})
  <1> DEFINE of(V) == CHOOSE g : IsSum(g, f, V)
             x == AnyOf(S)
  <1>1. x \in S /\ IsFiniteSet(S \ {x})
    BY AnyOfIn, FS_RemoveElement
  <1>2. IsSum(of(S), f, S) /\ IsSum(of(S \ {x}), f, S \ {x})
    BY <1>1, SumExists
  <1>3. SumFunctionOnSet(f, S) = of(S)[S] /\ SumFunctionOnSet(f, S \ {x}) = of(S \ {x})[S \ {x}]
    BY SumIsFold
  <1> HIDE DEF of
  <1>4. of(S)[S] = f[x] + of(S)[S \ {x}]
    BY <1>2, IsSumApplied
  <1> HIDE DEF x
  <1>5. of(S)[S \ {x}] = of(S \ {x})[S \ {x}]
    BY <1>1, <1>2, SumUnique
  <1> QED
    BY <1>1, <1>3, <1>4, <1>5

-----------------------------------------------------------------------------
(* The facts the models need *)

LEMMA SumEmpty == ASSUME NEW f PROVE SumFunctionOnSet(f, {}) = 0
  <1> DEFINE g == CHOOSE g : IsSum(g, f, {})
  <1>1. IsSum(g, f, {})
    BY SumExists, FS_EmptySet
  <1> HIDE DEF g
  <1>2. g[{}] = 0
    BY <1>1, IsSumApplied
  <1> QED
    BY <1>2, SumIsFold DEF g

\* The order of the summands does not matter.
LEMMA SumTakeOut ==
    ASSUME NEW S, IsFiniteSet(S), NEW f, \A x \in S : f[x] \in Int
    PROVE  /\ SumFunctionOnSet(f, S) \in Int
           /\ \A x \in S : SumFunctionOnSet(f, S) = f[x] + SumFunctionOnSet(f, S \ {x})
  <1> DEFINE Good(U) == /\ SumFunctionOnSet(f, U) \in Int
                        /\ \A x \in U : SumFunctionOnSet(f, U) = f[x] + SumFunctionOnSet(f, U \ {x})
             Bad == {U \in SUBSET S : ~ Good(U)}
  <1> SUFFICES ASSUME Bad # {} PROVE FALSE
    OBVIOUS
  <1>1. Bad \subseteq SUBSET S
    OBVIOUS
  <1>2. PICK U \in Bad : \A V \in SUBSET U : V # U => V \notin Bad
    <2> HIDE DEF Bad
    <2> QED BY <1>1, LeastSubset
  <1>3. \A V \in SUBSET U : V # U => Good(V)
    <2> HIDE DEF Good
    <2> QED BY <1>2
  <1>4. U \in SUBSET S /\ ~ Good(U) /\ IsFiniteSet(U) /\ \A x \in U : f[x] \in Int
    BY <1>2, FS_Subset
  <1>5. U # {}
    <2> SUFFICES ASSUME U = {} PROVE Good(U)
      BY <1>4
    <2>1. SumFunctionOnSet(f, U) = 0
      BY SumEmpty
    <2> QED BY <2>1
  <1>6. PICK y \in U : SumFunctionOnSet(f, U) = f[y] + SumFunctionOnSet(f, U \ {y})
    BY <1>4, <1>5, SumOfRest
  <1>7. Good(U \ {y})
    BY <1>3
  <1>8. ASSUME NEW x \in U PROVE SumFunctionOnSet(f, U) = f[x] + SumFunctionOnSet(f, U \ {x})
    <2>1. CASE x = y
      BY <2>1, <1>6
    <2>2. CASE x # y
      <3> DEFINE both == (U \ {y}) \ {x}
      <3>1. SumFunctionOnSet(f, U \ {y}) = f[x] + SumFunctionOnSet(f, both)
        BY <1>7, <2>2
      <3>2. SumFunctionOnSet(f, U \ {x}) = f[y] + SumFunctionOnSet(f, both)
        <4>1. (U \ {x}) \ {y} = both
          OBVIOUS
        <4>2. Good(U \ {x})
          BY <1>3
        <4> QED BY <4>1, <4>2, <2>2
      <3>3. SumFunctionOnSet(f, both) \in Int
        BY <1>3
      <3>4. f[x] \in Int /\ f[y] \in Int
        BY <1>4
      <3> HIDE DEF both, Good
      <3> QED
        BY <3>1, <3>2, <3>3, <3>4, <1>6
    <2> QED
      BY <2>1, <2>2
  <1>9. SumFunctionOnSet(f, U) \in Int
    BY <1>6, <1>7, <1>4
  <1> QED
    BY <1>4, <1>8, <1>9

\* Only the summands matter.
LEMMA SumEqual ==
    ASSUME NEW S, IsFiniteSet(S), NEW f, NEW g, \A x \in S : f[x] = g[x]
    PROVE  SumFunctionOnSet(f, S) = SumFunctionOnSet(g, S)
  <1> DEFINE F == CHOOSE h : IsSum(h, f, S)
             G == CHOOSE h : IsSum(h, g, S)
             Bad == {U \in SUBSET S : F[U] # G[U]}
  <1>1. IsSum(F, f, S) /\ IsSum(G, g, S)
    BY SumExists
  <1>2. SumFunctionOnSet(f, S) = F[S] /\ SumFunctionOnSet(g, S) = G[S]
    BY SumIsFold
  <1> HIDE DEF F, G
  <1> SUFFICES ASSUME Bad # {} PROVE FALSE
    BY <1>2
  <1>3. Bad \subseteq SUBSET S
    OBVIOUS
  <1>4. PICK U \in Bad : \A V \in SUBSET U : V # U => V \notin Bad
    <2> HIDE DEF Bad
    <2> QED BY <1>3, LeastSubset
  <1>5. \A V \in SUBSET U : V # U => F[V] = G[V]
    BY <1>4
  <1>6. U \in SUBSET S /\ F[U] # G[U]
    BY <1>4
  <1>7. U # {}
    BY <1>1, <1>6, IsSumApplied
  <1>8. F[U] = f[AnyOf(U)] + F[U \ {AnyOf(U)}] /\ G[U] = g[AnyOf(U)] + G[U \ {AnyOf(U)}]
    BY <1>1, <1>6, <1>7, IsSumApplied
  <1>9. F[U \ {AnyOf(U)}] = G[U \ {AnyOf(U)}] /\ AnyOf(U) \in S
    BY <1>5, <1>6, <1>7, AnyOfIn
  <1> QED
    BY <1>6, <1>8, <1>9

\* A sum of natural numbers up to n.
LEMMA SumBounds ==
    ASSUME NEW S, IsFiniteSet(S), NEW f, NEW n \in Nat, \A x \in S : f[x] \in 0 .. n
    PROVE  SumFunctionOnSet(f, S) \in Nat /\ SumFunctionOnSet(f, S) <= Cardinality(S) * n
  <1> DEFINE Good(U) == SumFunctionOnSet(f, U) \in Nat /\ SumFunctionOnSet(f, U) <= Cardinality(U) * n
             Bad == {U \in SUBSET S : ~ Good(U)}
  <1> SUFFICES ASSUME Bad # {} PROVE FALSE
    OBVIOUS
  <1>1. Bad \subseteq SUBSET S
    OBVIOUS
  <1>2. PICK U \in Bad : \A V \in SUBSET U : V # U => V \notin Bad
    <2> HIDE DEF Bad
    <2> QED BY <1>1, LeastSubset
  <1>3. \A V \in SUBSET U : V # U => Good(V)
    <2> HIDE DEF Good
    <2> QED BY <1>2
  <1>4. U \in SUBSET S /\ ~ Good(U) /\ IsFiniteSet(U)
    BY <1>2, FS_Subset
  <1>5. U # {}
    <2> SUFFICES ASSUME U = {} PROVE Good(U)
      BY <1>4
    <2>1. SumFunctionOnSet(f, U) = 0
      BY SumEmpty
    <2>2. Cardinality(U) = 0
      BY FS_EmptySet
    <2> QED BY <2>1, <2>2
  <1>6. PICK y \in U : SumFunctionOnSet(f, U) = f[y] + SumFunctionOnSet(f, U \ {y})
    BY <1>4, <1>5, SumOfRest
  <1>7. Good(U \ {y}) /\ f[y] \in 0 .. n
    BY <1>3, <1>4
  <1>8. Cardinality(U) - 1 = Cardinality(U \ {y}) /\ Cardinality(U) \in Nat
    BY <1>4, FS_RemoveElement, FS_CardinalityType
  <1>9. Cardinality(U \ {y}) * n + n = Cardinality(U) * n
    <2>1. \A c, d \in Int : c - 1 = d => d * n + n = c * n
      OBVIOUS
    <2> QED
      BY <1>8, <2>1
  <1>10. Cardinality(U) * n \in Nat
    BY <1>8
  <1> DEFINE bound == Cardinality(U) * n
             below == Cardinality(U \ {y}) * n
             rest == SumFunctionOnSet(f, U \ {y})
  <1>11. rest \in Nat /\ rest <= below /\ below + n = bound /\ bound \in Nat /\ below \in Int
    BY <1>7, <1>8, <1>9, <1>10
  <1>12. SumFunctionOnSet(f, U) = f[y] + rest /\ f[y] \in 0 .. n
    BY <1>6, <1>7
  <1>13. ~ (SumFunctionOnSet(f, U) \in Nat /\ SumFunctionOnSet(f, U) <= bound)
    BY <1>4
  <1> HIDE DEF bound, below, rest
  <1> QED
    BY <1>11, <1>12, <1>13

\* One summand changes.
LEMMA SumChange ==
    ASSUME NEW S, IsFiniteSet(S), NEW f, NEW g, NEW x \in S,
           \A y \in S : f[y] \in Int /\ g[y] \in Int,
           \A y \in S \ {x} : f[y] = g[y]
    PROVE  SumFunctionOnSet(g, S) = SumFunctionOnSet(f, S) + (g[x] - f[x])
  <1>1. SumFunctionOnSet(f, S) = f[x] + SumFunctionOnSet(f, S \ {x})
    BY SumTakeOut
  <1>2. SumFunctionOnSet(g, S) = g[x] + SumFunctionOnSet(g, S \ {x})
    BY SumTakeOut
  <1>3. IsFiniteSet(S \ {x})
    BY FS_RemoveElement
  <1>4. SumFunctionOnSet(f, S \ {x}) = SumFunctionOnSet(g, S \ {x})
    BY <1>3, SumEqual
  <1>5. SumFunctionOnSet(f, S \ {x}) \in Int
    BY <1>3, SumTakeOut
  <1> QED
    BY <1>1, <1>2, <1>4, <1>5

\* A sum of natural numbers is one, and no less than any of its summands.
LEMMA SumMember ==
    ASSUME NEW S, IsFiniteSet(S), NEW f, \A x \in S : f[x] \in Nat
    PROVE  SumFunctionOnSet(f, S) \in Nat /\ \A x \in S : f[x] <= SumFunctionOnSet(f, S)
  <1> DEFINE Good(U) == SumFunctionOnSet(f, U) \in Nat
             Bad == {U \in SUBSET S : ~ Good(U)}
  <1>1. Bad = {}
    <2> SUFFICES ASSUME Bad # {} PROVE FALSE
      OBVIOUS
    <2>1. Bad \subseteq SUBSET S
      OBVIOUS
    <2>2. PICK U \in Bad : \A V \in SUBSET U : V # U => V \notin Bad
      <3> HIDE DEF Bad
      <3> QED BY <2>1, LeastSubset
    <2>3. U \in SUBSET S /\ ~ Good(U) /\ IsFiniteSet(U)
      BY <2>2, FS_Subset
    <2>4. U # {}
      BY <2>3, SumEmpty
    <2>5. PICK y \in U : SumFunctionOnSet(f, U) = f[y] + SumFunctionOnSet(f, U \ {y})
      BY <2>3, <2>4, SumOfRest
    <2>6. SumFunctionOnSet(f, U \ {y}) \in Nat /\ f[y] \in Nat
      BY <2>2, <2>3
    <2> QED
      BY <2>3, <2>5, <2>6
  <1>2. \A U \in SUBSET S : SumFunctionOnSet(f, U) \in Nat
    BY <1>1
  <1>3. ASSUME NEW x \in S PROVE f[x] <= SumFunctionOnSet(f, S)
    <2>1. SumFunctionOnSet(f, S) = f[x] + SumFunctionOnSet(f, S \ {x})
      BY SumTakeOut
    <2>2. SumFunctionOnSet(f, S \ {x}) \in Nat
      BY <1>2
    <2> QED
      BY <2>1, <2>2
  <1> QED
    BY <1>2, <1>3

\* The image of a finite set under a function.
LEMMA ImageFinite ==
    ASSUME NEW S, IsFiniteSet(S), NEW f
    PROVE  IsFiniteSet({f[x] : x \in S})
  <1> DEFINE T == {f[x] : x \in S}
             g == [x \in S |-> f[x]]
  <1>1. g \in Surjection(S, T)
    BY DEF Surjection
  <1> HIDE DEF T, g
  <1>2. IsFiniteSet(T)
    BY <1>1, FS_Surjection
  <1> QED
    BY <1>2 DEF T

\* A finite set of integers has a maximum, and it is the one Max names.
LEMMA MaxOf ==
    ASSUME NEW S, S \subseteq Int, IsFiniteSet(S), S # {}
    PROVE  Max(S) \in S /\ \A y \in S : y <= Max(S)
  <1> DEFINE Bad == {U \in SUBSET S : U # {} /\ ~ \E x \in U : \A y \in U : x >= y}
  <1>1. Bad = {}
    <2> SUFFICES ASSUME Bad # {} PROVE FALSE
      OBVIOUS
    <2>1. Bad \subseteq SUBSET S
      OBVIOUS
    <2>2. PICK U \in Bad : \A V \in SUBSET U : V # U => V \notin Bad
      <3> HIDE DEF Bad
      <3> QED BY <2>1, LeastSubset
    <2>3. PICK z \in U : z \in Int
      BY <2>2
    <2>4. U \ {z} = {} \/ \E x \in U \ {z} : \A y \in U \ {z} : x >= y
      BY <2>2
    <2>5. CASE U \ {z} = {}
      BY <2>2, <2>3, <2>5
    <2>6. CASE \E x \in U \ {z} : \A y \in U \ {z} : x >= y
      <3>1. PICK x \in U \ {z} : \A y \in U \ {z} : x >= y
        BY <2>6
      <3>2. \A y \in U : y \in Int
        BY <2>2
      <3>3. \E w \in U : \A y \in U : w >= y
        BY <2>3, <3>1, <3>2
      <3> QED
        BY <2>2, <3>3
    <2> QED
      BY <2>4, <2>5, <2>6
  <1>2. \E x \in S : \A y \in S : x >= y
    BY <1>1
  <1>3. Max(S) \in S /\ \A y \in S : Max(S) >= y
    BY <1>2 DEF Max
  <1> QED
    BY <1>3
=============================================================================
