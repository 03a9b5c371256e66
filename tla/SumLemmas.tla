------------------------------ MODULE SumLemmas ------------------------------
(***************************************************************************)
(* Facts about SumFunctionOnSet of the community module Functions, by which *)
(* the models add up quantities, amounts and requests.                      *)
(*                                                                          *)
(* The sum is a recursive function on the subsets of a finite set.  Every   *)
(* induction here is on those subsets, as a smallest counterexample.        *)
(***************************************************************************)
EXTENDS FiniteSetsExt, FiniteSetTheorems, WellFoundedInduction, TLAPS

\* A nonempty set of natural numbers has a least element.
LEMMA LeastElement ==
  ASSUME NEW S \in SUBSET Nat, S # {} PROVE \E x \in S : \A y \in S : x <= y
<1>1. PICK x \in S : \A y \in S : <<y, x>> \notin OpToRel(<, Nat)
  BY NatLessThanWellFounded, WFMin
<1>2. \A y \in S : ~ (y < x)
  BY <1>1 DEF OpToRel
<1> QED BY <1>2

\* Among subsets of a finite set there is one that contains no other of them.
LEMMA SmallestSubset ==
  ASSUME NEW S, IsFiniteSet(S), NEW C \in SUBSET SUBSET S, C # {}
  PROVE  \E T \in C : \A U \in SUBSET T : U # T => U \notin C
<1>1. FiniteSubsetsOf(S) = SUBSET S
  BY FS_FiniteSubsetsOfFinite
<1>2. IsWellFoundedOn(StrictSubsetOrdering(S), SUBSET S)
  BY <1>1, FS_StrictSubsetOrderingWellFounded
<1>3. PICK T \in C : \A U \in C : <<U, T>> \notin StrictSubsetOrdering(S)
  BY <1>2, WFMin, Zenon
<1>4. ASSUME NEW U \in SUBSET T, U # T, U \in C PROVE FALSE
  <2>1. <<U, T>> \in StrictSubsetOrdering(S)
    BY <1>4 DEF StrictSubsetOrdering
  <2> QED BY <1>3, <1>4, <2>1
<1> QED BY <1>3, <1>4

-----------------------------------------------------------------------------
(* The recursive function exists, is unique, and does not depend on the set *)
(* it is defined over.                                                      *)

Pick(T) == CHOOSE x \in T : TRUE

SumsUp(g, f, S) ==
  g = [T \in SUBSET S |-> IF T = {} THEN 0 ELSE f[Pick(T)] + g[T \ {Pick(T)}]]

LEMMA PickIsMember == \A T : T # {} => Pick(T) \in T
BY DEF Pick

LEMMA SumsUpAgree ==
  ASSUME NEW f, NEW h, NEW S, NEW R, NEW g, NEW k, NEW T \in SUBSET S, T \subseteq R,
         IsFiniteSet(T), \A x \in T : f[x] = h[x], SumsUp(g, f, S), SumsUp(k, h, R)
  PROVE  g[T] = k[T]
<1> DEFINE C == {U \in SUBSET T : g[U] # k[U]}
<1> SUFFICES ASSUME C # {} PROVE FALSE
  OBVIOUS
<1>1. PICK U \in C : \A V \in SUBSET U : V # U => V \notin C
  <2>1. C \in SUBSET SUBSET T
    OBVIOUS
  <2> HIDE DEF C
  <2> QED BY <2>1, SmallestSubset, Zenon
<1>2. U \in SUBSET T /\ g[U] # k[U]
  OBVIOUS
<1>3. /\ g[U] = IF U = {} THEN 0 ELSE f[Pick(U)] + g[U \ {Pick(U)}]
      /\ k[U] = IF U = {} THEN 0 ELSE h[Pick(U)] + k[U \ {Pick(U)}]
  <2>1. U \in SUBSET S /\ U \in SUBSET R
    BY <1>2
  <2> QED BY <2>1 DEF SumsUp
<1>4. U # {}
  BY <1>2, <1>3
<1>5. Pick(U) \in U
  BY <1>4, PickIsMember
<1> DEFINE V == U \ {Pick(U)}
<1>6. V \in SUBSET U /\ V # U /\ V \in SUBSET T
  BY <1>2, <1>5
<1>7. g[V] = k[V]
  BY <1>1, <1>6
<1> QED BY <1>2, <1>3, <1>4, <1>5, <1>7

LEMMA SumsUpExists ==
  ASSUME NEW f, NEW S, IsFiniteSet(S) PROVE \E g : SumsUp(g, f, S)
<1> DEFINE C == {T \in SUBSET S : ~ \E g : SumsUp(g, f, T)}
<1> SUFFICES ASSUME C # {} PROVE FALSE
  OBVIOUS
<1>1. PICK T \in C : \A U \in SUBSET T : U # T => U \notin C
  <2>1. C \in SUBSET SUBSET S
    OBVIOUS
  <2> HIDE DEF C
  <2> QED BY <2>1, SmallestSubset, Zenon
<1>2. T \in SUBSET S /\ ~ \E g : SumsUp(g, f, T)
  OBVIOUS
<1> DEFINE of(U) == CHOOSE g : SumsUp(g, f, U)
<1>3. \A U \in SUBSET T : U # T => SumsUp(of(U), f, U)
  <2> TAKE U \in SUBSET T
  <2> HAVE U # T
  <2>1. \E g : SumsUp(g, f, U)
    BY <1>1, <1>2
  <2> QED BY <2>1
<1> DEFINE below(U) == of(U)[U]
           total(U) == IF U = {} THEN 0 ELSE f[Pick(U)] + below(U \ {Pick(U)})
           g == [U \in SUBSET T |-> total(U)]
<1>4. ASSUME NEW U \in SUBSET T, U # T PROVE total(U) = below(U)
  <2>1. SumsUp(of(U), f, U)
    BY <1>3, <1>4
  <2>2. of(U)[U] = IF U = {} THEN 0 ELSE f[Pick(U)] + of(U)[U \ {Pick(U)}]
    <3> HIDE DEF of
    <3> QED BY <2>1 DEF SumsUp
  <2>3. ASSUME U # {} PROVE of(U)[U \ {Pick(U)}] = below(U \ {Pick(U)})
    <3> DEFINE V == U \ {Pick(U)}
    <3>1. Pick(U) \in U
      BY <2>3, PickIsMember
    <3>2. V \in SUBSET U /\ V \in SUBSET V /\ V \in SUBSET T /\ V # T
      BY <3>1
    <3>3. SumsUp(of(V), f, V)
      BY <1>3, <3>2
    <3>4. IsFiniteSet(V)
      BY <1>2, <3>2, FS_Subset
    <3> HIDE DEF of, V
    <3>5. of(U)[V] = of(V)[V]
      BY <2>1, <3>2, <3>3, <3>4, SumsUpAgree
    <3> QED BY <3>5 DEF V
  <2> HIDE DEF of
  <2> QED BY <2>2, <2>3
<1>5. SumsUp(g, f, T)
  <2>1. ASSUME NEW U \in SUBSET T, U # {} PROVE below(U \ {Pick(U)}) = g[U \ {Pick(U)}]
    <3> DEFINE V == U \ {Pick(U)}
    <3>1. Pick(U) \in U
      BY <2>1, PickIsMember
    <3>2. V \in SUBSET T /\ V # T
      BY <3>1
    <3> HIDE DEF V, below
    <3>3. g[V] = total(V) /\ total(V) = below(V)
      BY <1>4, <3>2
    <3> QED BY <3>3 DEF V
  <2> HIDE DEF below
  <2>2. \A U \in SUBSET T : g[U] = IF U = {} THEN 0 ELSE f[Pick(U)] + g[U \ {Pick(U)}]
    BY <2>1
  <2>3. g = [U \in SUBSET T |-> g[U]]
    OBVIOUS
  <2> HIDE DEF g
  <2>4. g = [U \in SUBSET T |-> IF U = {} THEN 0 ELSE f[Pick(U)] + g[U \ {Pick(U)}]]
    BY <2>2, <2>3
  <2> QED BY <2>4 DEF SumsUp
<1> QED BY <1>2, <1>5

LEMMA SumIsRecursive ==
  ASSUME NEW f, NEW S, IsFiniteSet(S)
  PROVE  \E g : SumsUp(g, f, S) /\ SumFunctionOnSet(f, S) = g[S]
<1> DEFINE g == CHOOSE g : SumsUp(g, f, S)
<1>1. SumsUp(g, f, S)
  BY SumsUpExists
<1>2. SumFunctionOnSet(f, S) = g[S]
  BY DEF SumFunctionOnSet, FoldFunctionOnSet, MapThenFoldSet, SumsUp, Pick
<1> QED BY <1>1, <1>2

-----------------------------------------------------------------------------
(* What the sum is.                                                         *)

LEMMA SumEmpty == \A f : SumFunctionOnSet(f, {}) = 0
<1> TAKE f
<1>1. PICK g : SumsUp(g, f, {}) /\ SumFunctionOnSet(f, {}) = g[{}]
  BY SumIsRecursive, FS_EmptySet
<1> QED BY <1>1 DEF SumsUp

\* Only the values on the set count.
LEMMA SumEqual ==
  ASSUME NEW S, IsFiniteSet(S), NEW f, NEW h, \A x \in S : f[x] = h[x]
  PROVE  SumFunctionOnSet(f, S) = SumFunctionOnSet(h, S)
<1>1. PICK g : SumsUp(g, f, S) /\ SumFunctionOnSet(f, S) = g[S]
  BY SumIsRecursive
<1>2. PICK k : SumsUp(k, h, S) /\ SumFunctionOnSet(h, S) = k[S]
  BY SumIsRecursive
<1>3. S \in SUBSET S
  OBVIOUS
<1>4. g[S] = k[S]
  BY <1>1, <1>2, <1>3, SumsUpAgree
<1> QED BY <1>1, <1>2, <1>4

LEMMA SumPicked ==
  ASSUME NEW f, NEW S, IsFiniteSet(S), S # {}
  PROVE  SumFunctionOnSet(f, S) = f[Pick(S)] + SumFunctionOnSet(f, S \ {Pick(S)})
<1> DEFINE R == S \ {Pick(S)}
<1>1. R \in SUBSET S /\ R \in SUBSET R /\ S \in SUBSET S
  OBVIOUS
<1>2. IsFiniteSet(R)
  BY FS_Subset
<1>3. PICK g : SumsUp(g, f, S) /\ SumFunctionOnSet(f, S) = g[S]
  BY SumIsRecursive
<1> HIDE DEF R
<1>4. PICK k : SumsUp(k, f, R) /\ SumFunctionOnSet(f, R) = k[R]
  BY <1>2, SumIsRecursive
<1>5. g[R] = k[R]
  BY <1>1, <1>2, <1>3, <1>4, SumsUpAgree
<1>6. g[S] = f[Pick(S)] + g[R]
  BY <1>1, <1>3 DEF SumsUp, R
<1> QED BY <1>3, <1>4, <1>5, <1>6 DEF R

LEMMA SumInt ==
  ASSUME NEW S, IsFiniteSet(S), NEW f, \A x \in S : f[x] \in Int
  PROVE  SumFunctionOnSet(f, S) \in Int
<1> DEFINE C == {T \in SUBSET S : SumFunctionOnSet(f, T) \notin Int}
<1> SUFFICES ASSUME C # {} PROVE FALSE
  BY Zenon
<1>1. PICK T \in C : \A U \in SUBSET T : U # T => U \notin C
  <2>1. C \in SUBSET SUBSET S
    OBVIOUS
  <2> HIDE DEF C
  <2> QED BY <2>1, SmallestSubset, Zenon
<1>2. T \in SUBSET S /\ SumFunctionOnSet(f, T) \notin Int
  OBVIOUS
<1>3. T # {}
  BY <1>2, SumEmpty
<1> DEFINE p == Pick(T)
<1>4. p \in T
  BY <1>3, PickIsMember
<1>5. IsFiniteSet(T)
  BY <1>2, FS_Subset
<1>6. SumFunctionOnSet(f, T) = f[p] + SumFunctionOnSet(f, T \ {p})
  BY <1>3, <1>5, SumPicked
<1>7. SumFunctionOnSet(f, T \ {p}) \in Int
  BY <1>1, <1>2, <1>4
<1>8. f[p] \in Int
  BY <1>2, <1>4
<1> HIDE DEF p
<1> QED BY <1>2, <1>6, <1>7, <1>8

\* Any element may be taken out of the sum.
LEMMA SumRemove ==
  ASSUME NEW S, IsFiniteSet(S), NEW f, \A x \in S : f[x] \in Int, NEW e \in S
  PROVE  SumFunctionOnSet(f, S) = f[e] + SumFunctionOnSet(f, S \ {e})
<1> DEFINE C == {T \in SUBSET S :
                   \E x \in T : SumFunctionOnSet(f, T) # f[x] + SumFunctionOnSet(f, T \ {x})}
<1> SUFFICES ASSUME C # {} PROVE FALSE
  <2>1. S \in SUBSET S
    OBVIOUS
  <2> QED BY <2>1
<1>1. PICK T \in C : \A U \in SUBSET T : U # T => U \notin C
  <2>1. C \in SUBSET SUBSET S
    OBVIOUS
  <2> HIDE DEF C
  <2> QED BY <2>1, SmallestSubset, Zenon
<1>2. T \in SUBSET S
  OBVIOUS
<1>3. PICK x \in T : SumFunctionOnSet(f, T) # f[x] + SumFunctionOnSet(f, T \ {x})
  OBVIOUS
<1> DEFINE p == Pick(T)
           V == T \ {x, p}
<1>4. p \in T
  BY <1>3, PickIsMember
<1>5. IsFiniteSet(T) /\ IsFiniteSet(T \ {x}) /\ IsFiniteSet(T \ {p}) /\ IsFiniteSet(V)
  BY <1>2, FS_Subset
<1>6. SumFunctionOnSet(f, T) = f[p] + SumFunctionOnSet(f, T \ {p})
  BY <1>3, <1>5, SumPicked
<1>7. p # x
  BY <1>3, <1>6
<1>8. SumFunctionOnSet(f, T \ {p}) = f[x] + SumFunctionOnSet(f, V)
  <2>1. T \ {p} \notin C /\ x \in T \ {p} /\ T \ {p} \in SUBSET S
    BY <1>1, <1>2, <1>4, <1>7
  <2>2. (T \ {p}) \ {x} = V
    OBVIOUS
  <2> HIDE DEF p, V
  <2> QED BY <2>1, <2>2
<1>9. SumFunctionOnSet(f, T \ {x}) = f[p] + SumFunctionOnSet(f, V)
  <2>1. T \ {x} \notin C /\ p \in T \ {x} /\ T \ {x} \in SUBSET S
    BY <1>1, <1>2, <1>3, <1>4, <1>7
  <2>2. (T \ {x}) \ {p} = V
    OBVIOUS
  <2> HIDE DEF p, V
  <2> QED BY <2>1, <2>2
<1>10. f[p] \in Int /\ f[x] \in Int /\ SumFunctionOnSet(f, V) \in Int
  <2>1. \A y \in V : f[y] \in Int
    BY <1>2
  <2>2. p \in S /\ x \in S
    BY <1>2, <1>3, <1>4
  <2> HIDE DEF p, V
  <2> QED BY <2>1, <2>2, <1>5, SumInt
<1> HIDE DEF p, V
<1> QED BY <1>3, <1>6, <1>8, <1>9, <1>10

LEMMA SumAdd ==
  ASSUME NEW S, IsFiniteSet(S), NEW f, NEW e, e \notin S, \A x \in S \cup {e} : f[x] \in Int
  PROVE  SumFunctionOnSet(f, S \cup {e}) = f[e] + SumFunctionOnSet(f, S)
<1>1. IsFiniteSet(S \cup {e}) /\ (S \cup {e}) \ {e} = S
  BY FS_AddElement
<1> QED BY <1>1, SumRemove

-----------------------------------------------------------------------------
(* How sums compare.                                                        *)

\* One value changes.
LEMMA SumChange ==
  ASSUME NEW S, IsFiniteSet(S), NEW f, NEW h, NEW e \in S,
         \A x \in S : f[x] \in Int /\ h[x] \in Int,
         \A x \in S : x # e => h[x] = f[x]
  PROVE  SumFunctionOnSet(h, S) = SumFunctionOnSet(f, S) - f[e] + h[e]
<1> DEFINE R == S \ {e}
<1>1. IsFiniteSet(R)
  BY FS_Subset
<1>2. SumFunctionOnSet(f, R) \in Int
  BY <1>1, SumInt
<1>3. SumFunctionOnSet(f, R) = SumFunctionOnSet(h, R)
  BY <1>1, SumEqual
<1>4. SumFunctionOnSet(f, S) = f[e] + SumFunctionOnSet(f, R)
  BY SumRemove
<1>5. SumFunctionOnSet(h, S) = h[e] + SumFunctionOnSet(h, R)
  BY SumRemove
<1> HIDE DEF R
<1> QED BY <1>2, <1>3, <1>4, <1>5

LEMMA SumPlus ==
  ASSUME NEW S, IsFiniteSet(S), NEW f, NEW g, NEW h,
         \A x \in S : f[x] \in Int /\ g[x] \in Int /\ h[x] = f[x] + g[x]
  PROVE  SumFunctionOnSet(h, S) = SumFunctionOnSet(f, S) + SumFunctionOnSet(g, S)
<1> DEFINE C == {T \in SUBSET S : SumFunctionOnSet(h, T)
                                    # SumFunctionOnSet(f, T) + SumFunctionOnSet(g, T)}
<1> SUFFICES ASSUME C # {} PROVE FALSE
  BY Zenon
<1>1. PICK T \in C : \A U \in SUBSET T : U # T => U \notin C
  <2>1. C \in SUBSET SUBSET S
    OBVIOUS
  <2> HIDE DEF C
  <2> QED BY <2>1, SmallestSubset, Zenon
<1>2. T \in SUBSET S
      /\ SumFunctionOnSet(h, T) # SumFunctionOnSet(f, T) + SumFunctionOnSet(g, T)
  OBVIOUS
<1>3. T # {}
  <2>1. /\ SumFunctionOnSet(f, {}) = 0 /\ SumFunctionOnSet(g, {}) = 0
        /\ SumFunctionOnSet(h, {}) = 0
    BY SumEmpty
  <2>2. ASSUME T = {} PROVE SumFunctionOnSet(h, T)
                              = SumFunctionOnSet(f, T) + SumFunctionOnSet(g, T)
    BY <2>1, <2>2
  <2> QED BY <1>2, <2>2
<1>4. PICK e \in T : TRUE
  BY <1>3
<1> DEFINE R == T \ {e}
<1>5. IsFiniteSet(T) /\ IsFiniteSet(R)
  BY <1>2, FS_Subset
<1>6. /\ SumFunctionOnSet(f, T) = f[e] + SumFunctionOnSet(f, R)
      /\ SumFunctionOnSet(g, T) = g[e] + SumFunctionOnSet(g, R)
      /\ SumFunctionOnSet(h, T) = h[e] + SumFunctionOnSet(h, R)
  <2>1. \A x \in T : f[x] \in Int /\ g[x] \in Int /\ h[x] \in Int
    BY <1>2
  <2> QED BY <1>4, <1>5, <2>1, SumRemove
<1>7. SumFunctionOnSet(h, R) = SumFunctionOnSet(f, R) + SumFunctionOnSet(g, R)
  BY <1>1, <1>2, <1>4
<1>8. SumFunctionOnSet(f, R) \in Int /\ SumFunctionOnSet(g, R) \in Int
  BY <1>2, <1>5, SumInt
<1>9. f[e] \in Int /\ g[e] \in Int /\ h[e] = f[e] + g[e]
  BY <1>2, <1>4
<1> HIDE DEF R
<1> QED BY <1>2, <1>6, <1>7, <1>8, <1>9

LEMMA SumZero ==
  ASSUME NEW S, IsFiniteSet(S), NEW f, \A x \in S : f[x] = 0
  PROVE  SumFunctionOnSet(f, S) = 0
<1> DEFINE total == SumFunctionOnSet(f, S)
<1>1. total \in Int
  BY SumInt
<1>2. total = total + total
  BY SumPlus
<1> HIDE DEF total
<1>3. total = 0
  BY <1>1, <1>2
<1> QED
  BY <1>3 DEF total

LEMMA SumNat ==
  ASSUME NEW S, IsFiniteSet(S), NEW f, \A x \in S : f[x] \in Nat
  PROVE  SumFunctionOnSet(f, S) \in Nat
<1> DEFINE C == {T \in SUBSET S : SumFunctionOnSet(f, T) \notin Nat}
<1> SUFFICES ASSUME C # {} PROVE FALSE
  BY Zenon
<1>1. PICK T \in C : \A U \in SUBSET T : U # T => U \notin C
  <2>1. C \in SUBSET SUBSET S
    OBVIOUS
  <2> HIDE DEF C
  <2> QED BY <2>1, SmallestSubset, Zenon
<1>2. T \in SUBSET S /\ SumFunctionOnSet(f, T) \notin Nat
  OBVIOUS
<1>3. T # {}
  BY <1>2, SumEmpty
<1>4. PICK e \in T : TRUE
  BY <1>3
<1> DEFINE R == T \ {e}
<1>5. IsFiniteSet(T)
  BY <1>2, FS_Subset
<1>6. SumFunctionOnSet(f, T) = f[e] + SumFunctionOnSet(f, R)
  BY <1>2, <1>4, <1>5, SumRemove
<1>7. SumFunctionOnSet(f, R) \in Nat
  BY <1>1, <1>2, <1>4
<1>8. f[e] \in Nat
  BY <1>2, <1>4
<1> HIDE DEF R
<1> QED BY <1>2, <1>6, <1>7, <1>8

LEMMA SumMonotonic ==
  ASSUME NEW S, IsFiniteSet(S), NEW f, NEW h,
         \A x \in S : f[x] \in Int /\ h[x] \in Int /\ f[x] <= h[x]
  PROVE  SumFunctionOnSet(f, S) <= SumFunctionOnSet(h, S)
<1> DEFINE d == [x \in S |-> h[x] - f[x]]
<1>1. \A x \in S : d[x] \in Nat /\ h[x] = f[x] + d[x]
  OBVIOUS
<1> HIDE DEF d
<1>2. SumFunctionOnSet(d, S) \in Nat
  BY <1>1, SumNat
<1>3. SumFunctionOnSet(h, S) = SumFunctionOnSet(f, S) + SumFunctionOnSet(d, S)
  BY <1>1, SumPlus
<1>4. SumFunctionOnSet(f, S) \in Int
  BY SumInt
<1> QED BY <1>2, <1>3, <1>4

LEMMA SumUnion ==
  ASSUME NEW S, NEW R, IsFiniteSet(S), IsFiniteSet(R), S \cap R = {},
         NEW f, \A x \in S \cup R : f[x] \in Int
  PROVE  SumFunctionOnSet(f, S \cup R) = SumFunctionOnSet(f, S) + SumFunctionOnSet(f, R)
<1> DEFINE C == {T \in SUBSET R : SumFunctionOnSet(f, S \cup T)
                                    # SumFunctionOnSet(f, S) + SumFunctionOnSet(f, T)}
<1> SUFFICES ASSUME C # {} PROVE FALSE
  BY Zenon
<1>1. PICK T \in C : \A U \in SUBSET T : U # T => U \notin C
  <2>1. C \in SUBSET SUBSET R
    OBVIOUS
  <2> HIDE DEF C
  <2> QED BY <2>1, SmallestSubset, Zenon
<1>2. T \in SUBSET R
      /\ SumFunctionOnSet(f, S \cup T) # SumFunctionOnSet(f, S) + SumFunctionOnSet(f, T)
  OBVIOUS
<1>3. SumFunctionOnSet(f, S) \in Int
  BY SumInt
<1>4. T # {}
  <2>1. SumFunctionOnSet(f, {}) = 0
    BY SumEmpty
  <2>2. ASSUME T = {} PROVE SumFunctionOnSet(f, S \cup T)
                              = SumFunctionOnSet(f, S) + SumFunctionOnSet(f, T)
    <3>1. S \cup T = S
      BY <2>2
    <3> QED BY <1>3, <2>1, <2>2, <3>1
  <2> QED BY <1>2, <2>2
<1>5. PICK e \in T : TRUE
  BY <1>4
<1> DEFINE U == T \ {e}
<1>6. IsFiniteSet(T) /\ IsFiniteSet(U) /\ IsFiniteSet(S \cup T)
  BY <1>2, FS_Subset, FS_Union
<1>7. SumFunctionOnSet(f, T) = f[e] + SumFunctionOnSet(f, U)
  BY <1>2, <1>5, <1>6, SumRemove
<1>8. SumFunctionOnSet(f, S \cup T) = f[e] + SumFunctionOnSet(f, S \cup U)
  <2>1. (S \cup T) \ {e} = S \cup U
    BY <1>2, <1>5
  <2>2. e \in S \cup T /\ \A x \in S \cup T : f[x] \in Int
    BY <1>2, <1>5
  <2> HIDE DEF U
  <2> QED BY <2>1, <2>2, <1>6, SumRemove
<1>9. SumFunctionOnSet(f, S \cup U) = SumFunctionOnSet(f, S) + SumFunctionOnSet(f, U)
  BY <1>1, <1>2, <1>5
<1>10. SumFunctionOnSet(f, U) \in Int
  BY <1>2, <1>6, SumInt
<1>11. f[e] \in Int
  BY <1>2, <1>5
<1> HIDE DEF U
<1> QED BY <1>2, <1>3, <1>7, <1>8, <1>9, <1>10, <1>11

\* What is summed over part of a set of natural numbers is at most the whole.
LEMMA SumSubset ==
  ASSUME NEW S, IsFiniteSet(S), NEW f, \A x \in S : f[x] \in Nat, NEW T \in SUBSET S
  PROVE  SumFunctionOnSet(f, T) <= SumFunctionOnSet(f, S)
<1> DEFINE R == S \ T
<1>1. T \cup R = S /\ T \cap R = {}
  OBVIOUS
<1>2. IsFiniteSet(T) /\ IsFiniteSet(R)
  BY FS_Subset
<1>3. \A x \in T \cup R : f[x] \in Nat /\ f[x] \in Int
  OBVIOUS
<1> HIDE DEF R
<1>4. SumFunctionOnSet(f, T) \in Nat /\ SumFunctionOnSet(f, R) \in Nat
  BY <1>2, <1>3, SumNat
<1>5. SumFunctionOnSet(f, T \cup R) = SumFunctionOnSet(f, T) + SumFunctionOnSet(f, R)
  BY <1>1, <1>2, <1>3, SumUnion
<1>6. SumFunctionOnSet(f, S) = SumFunctionOnSet(f, T) + SumFunctionOnSet(f, R)
  BY <1>1, <1>5, Zenon
<1> QED BY <1>4, <1>6

\* A sum over part of a set is a sum over the whole, with nothing for the rest.
LEMMA SumOfPart ==
  ASSUME NEW S, IsFiniteSet(S), NEW T \in SUBSET S, NEW f, NEW g,
         \A x \in S : f[x] \in Int,
         \A x \in S : g[x] = IF x \in T THEN f[x] ELSE 0
  PROVE  SumFunctionOnSet(f, T) = SumFunctionOnSet(g, S)
<1> DEFINE R == S \ T
<1>1. T \cup R = S /\ T \cap R = {}
  OBVIOUS
<1>2. IsFiniteSet(T) /\ IsFiniteSet(R)
  BY FS_Subset
<1>3. \A x \in T \cup R : g[x] \in Int
  OBVIOUS
<1>4. \A x \in R : g[x] = 0
  OBVIOUS
<1> HIDE DEF R
<1>5. SumFunctionOnSet(g, T \cup R) = SumFunctionOnSet(g, T) + SumFunctionOnSet(g, R)
  BY <1>1, <1>2, <1>3, SumUnion
<1>6. SumFunctionOnSet(g, R) = 0
  BY <1>2, <1>4, SumZero
<1>7. SumFunctionOnSet(f, T) = SumFunctionOnSet(g, T)
  BY <1>2, SumEqual
<1>8. SumFunctionOnSet(g, T) \in Int
  BY <1>1, <1>2, <1>3, SumInt
<1>9. SumFunctionOnSet(g, S) = SumFunctionOnSet(g, T) + SumFunctionOnSet(g, R)
  BY <1>1, <1>5, Zenon
<1> QED BY <1>6, <1>7, <1>8, <1>9
==============================================================================
