----------------------------- MODULE FiniteSums -----------------------------
(***************************************************************************)
(* Sums over finite sets.  MapThenSumSet of the community modules is a     *)
(* recursive function on the subsets of a set that takes an arbitrary      *)
(* element out first.  These lemmas say that such a function exists, that  *)
(* the choice makes no difference, and what adding or removing an element  *)
(* does to a sum.  Each is shown by looking at a smallest subset where it  *)
(* fails.                                                                  *)
(***************************************************************************)
EXTENDS Integers, FiniteSets, FiniteSetTheorems, WellFoundedInduction, TLAPS

Pick(U) == CHOOSE x \in U : TRUE

(* h adds up the values of f over every subset of S.                        *)
Adds(h, f, S) ==
  h = [U \in SUBSET S |-> IF U = {} THEN 0 ELSE f[Pick(U)] + h[U \ {Pick(U)}]]

(* Among some subsets of a finite set one has no other inside it.           *)
LEMMA Smallest ==
  ASSUME NEW S, IsFiniteSet(S), NEW Bad \in SUBSET SUBSET S, Bad # {}
  PROVE  \E U \in Bad : \A V \in Bad : ~ (V \subseteq U /\ V # U)
<1>1. IsWellFoundedOn(StrictSubsetOrdering(S), SUBSET S)
  BY FS_StrictSubsetOrderingWellFounded, FS_FiniteSubsetsOfFinite
<1>2. PICK U \in Bad : \A V \in Bad : ~ (<<V, U>> \in StrictSubsetOrdering(S))
  BY <1>1, WFMin
<1> QED
  BY <1>2 DEF StrictSubsetOrdering

LEMMA PickFacts ==
  ASSUME NEW U, U # {}
  PROVE  Pick(U) \in U /\ U \ {Pick(U)} \subseteq U /\ U \ {Pick(U)} # U
<1>1. Pick(U) \in U
  BY DEF Pick
<1> QED
  BY <1>1

LEMMA AddsFacts ==
  ASSUME NEW h, NEW f, NEW S, Adds(h, f, S)
  PROVE  /\ h[{}] = 0
         /\ \A U \in SUBSET S : U # {} => h[U] = f[Pick(U)] + h[U \ {Pick(U)}]
<1> DEFINE g == [U \in SUBSET S |-> IF U = {} THEN 0 ELSE f[Pick(U)] + h[U \ {Pick(U)}]]
<1>1. h = g
  BY DEF Adds
<1>2. g[{}] = 0 /\ \A U \in SUBSET S : U # {} => g[U] = f[Pick(U)] + h[U \ {Pick(U)}]
  OBVIOUS
<1> HIDE DEF g
<1> QED
  BY <1>1, <1>2

(* Two sums agree where the values do.                                      *)
LEMMA SumsAgree ==
  ASSUME NEW h, NEW f, NEW S, Adds(h, f, S),
         NEW k, NEW g, NEW T, Adds(k, g, T),
         NEW W, W \subseteq S, W \subseteq T, IsFiniteSet(W), \A x \in W : f[x] = g[x]
  PROVE  h[W] = k[W]
<1> SUFFICES ASSUME h[W] # k[W] PROVE FALSE
  OBVIOUS
<1> DEFINE Bad == {U \in SUBSET W : h[U] # k[U]}
<1>1. PICK U \in Bad : \A V \in Bad : ~ (V \subseteq U /\ V # U)
  <2>1. Bad # {} /\ Bad \in SUBSET SUBSET W
    OBVIOUS
  <2> HIDE DEF Bad
  <2> QED
    BY <2>1, Smallest
<1>2. U # {}
  BY <1>1, AddsFacts
<1> DEFINE V == U \ {Pick(U)}
<1>3. Pick(U) \in W /\ V \in SUBSET W /\ h[V] = k[V]
  BY <1>1, <1>2, PickFacts
<1>4. h[U] = f[Pick(U)] + h[V] /\ k[U] = g[Pick(U)] + k[V]
  BY <1>1, <1>2, AddsFacts
<1> QED
  BY <1>1, <1>3, <1>4

(* A sum over part of the set.                                              *)
LEMMA AddsRestrict ==
  ASSUME NEW h, NEW f, NEW S, Adds(h, f, S), NEW T, T \subseteq S
  PROVE  Adds([U \in SUBSET T |-> h[U]], f, T)
<1> DEFINE k == [U \in SUBSET T |-> h[U]]
           g == [U \in SUBSET T |-> IF U = {} THEN 0 ELSE f[Pick(U)] + k[U \ {Pick(U)}]]
<1>1. ASSUME NEW U \in SUBSET T
      PROVE  k[U] = g[U]
  <2>1. CASE U = {}
    BY <2>1, AddsFacts
  <2>2. CASE U # {}
    <3>1. h[U] = f[Pick(U)] + h[U \ {Pick(U)}]
      BY <2>2, AddsFacts
    <3>2. U \ {Pick(U)} \in SUBSET T
      OBVIOUS
    <3>3. k[U \ {Pick(U)}] = h[U \ {Pick(U)}]
      BY <3>2
    <3> QED
      BY <2>2, <3>1, <3>3
  <2> QED
    BY <2>1, <2>2
<1> QED
  BY <1>1 DEF Adds

(* A sum over a finite set exists.                                          *)
LEMMA SumExists ==
  ASSUME NEW f, NEW S, IsFiniteSet(S)
  PROVE  \E h : Adds(h, f, S)
<1> SUFFICES ASSUME ~ \E h : Adds(h, f, S) PROVE FALSE
  OBVIOUS
<1> DEFINE Bad == {U \in SUBSET S : ~ \E h : Adds(h, f, U)}
<1>1. PICK T \in Bad : \A V \in Bad : ~ (V \subseteq T /\ V # T)
  <2>1. Bad # {} /\ Bad \in SUBSET SUBSET S
    OBVIOUS
  <2> HIDE DEF Bad
  <2> QED
    BY <2>1, Smallest
<1>2. T \in SUBSET S /\ ~ \E h : Adds(h, f, T)
  BY <1>1
<1>3. \A V \in SUBSET T : V # T => \E h : Adds(h, f, V)
  BY <1>1, <1>2
<1> HIDE DEF Bad
<1> DEFINE Total(V) == (CHOOSE h : Adds(h, f, V))[V]
           sum == [U \in SUBSET T |-> IF U = {} THEN 0 ELSE f[Pick(U)] + Total(U \ {Pick(U)})]
           again == [U \in SUBSET T |-> IF U = {} THEN 0 ELSE f[Pick(U)] + sum[U \ {Pick(U)}]]
<1>4. ASSUME NEW U \in SUBSET T, U # {}
      PROVE  sum[U \ {Pick(U)}] = Total(U \ {Pick(U)})
  <2> DEFINE V == U \ {Pick(U)}
             h == CHOOSE h : Adds(h, f, V)
  <2>1. V \in SUBSET T /\ V # T
    BY <1>4, PickFacts
  <2>2. Adds(h, f, V)
    BY <1>3, <2>1
  <2> HIDE DEF h
  <2>3. CASE V = {}
    <3>1. h[V] = 0
      BY <2>2, <2>3, AddsFacts
    <3>2. sum[V] = 0
      BY <2>3
    <3> QED
      BY <3>1, <3>2 DEF h
  <2>4. CASE V # {}
    <3> DEFINE R == V \ {Pick(V)}
               k == CHOOSE k : Adds(k, f, R)
    <3>1. h[V] = f[Pick(V)] + h[R]
      <4>1. V \in SUBSET V
        OBVIOUS
      <4> HIDE DEF V
      <4> QED
        BY <2>2, <2>4, <4>1, AddsFacts
    <3>2. sum[V] = f[Pick(V)] + k[R]
      BY <2>1, <2>4
    <3>3. R \in SUBSET T /\ R # T /\ R \subseteq V
      BY <2>1, <2>4, PickFacts
    <3>4. Adds(k, f, R)
      BY <1>3, <3>3
    <3>5. IsFiniteSet(R)
      BY <1>2, <3>3, FS_Subset
    <3> HIDE DEF k, R
    <3>6. h[R] = k[R]
      BY <2>2, <3>3, <3>4, <3>5, SumsAgree
    <3> QED
      BY <3>1, <3>2, <3>6 DEF h
  <2> QED
    BY <2>3, <2>4
<1>5. sum = again
  <2>1. ASSUME NEW U \in SUBSET T
        PROVE  sum[U] = again[U]
    <3>1. CASE U = {}
      BY <3>1
    <3>2. CASE U # {}
      <4>1. sum[U] = f[Pick(U)] + Total(U \ {Pick(U)})
        BY <3>2
      <4>2. again[U] = f[Pick(U)] + sum[U \ {Pick(U)}]
        BY <3>2
      <4> QED
        BY <3>2, <4>1, <4>2, <1>4
    <3> QED
      BY <3>1, <3>2
  <2> QED
    BY <2>1
<1>6. Adds(sum, f, T)
  BY <1>5 DEF Adds
<1> QED
  BY <1>2, <1>6
-----------------------------------------------------------------------------
(* What is summed is natural, and so are the sums.                          *)
LEMMA SumType ==
  ASSUME NEW h, NEW f, NEW S, Adds(h, f, S), IsFiniteSet(S), \A x \in S : f[x] \in Nat
  PROVE  \A U \in SUBSET S : h[U] \in Nat
<1> SUFFICES ASSUME NEW W \in SUBSET S, h[W] \notin Nat PROVE FALSE
  OBVIOUS
<1> DEFINE Bad == {U \in SUBSET S : h[U] \notin Nat}
<1>1. PICK U \in Bad : \A V \in Bad : ~ (V \subseteq U /\ V # U)
  <2>1. Bad # {} /\ Bad \in SUBSET SUBSET S
    OBVIOUS
  <2> HIDE DEF Bad
  <2> QED
    BY <2>1, Smallest
<1>2. U \in SUBSET S /\ h[U] \notin Nat /\ \A V \in SUBSET U : V # U => h[V] \in Nat
  BY <1>1
<1> HIDE DEF Bad
<1>3. U # {}
  <2> SUFFICES ASSUME U = {} PROVE h[U] \in Nat
    BY <1>2
  <2>1. h[{}] = 0
    BY AddsFacts
  <2>2. h[U] = 0
    BY <2>1
  <2> QED
    BY <2>2
<1>4. Pick(U) \in S /\ h[U \ {Pick(U)}] \in Nat
  BY <1>2, <1>3, PickFacts
<1>5. h[U] = f[Pick(U)] + h[U \ {Pick(U)}]
  BY <1>2, <1>3, AddsFacts
<1> QED
  BY <1>2, <1>4, <1>5

(* Any element may be taken out first.                                      *)
LEMMA SumRemove ==
  ASSUME NEW h, NEW f, NEW S, Adds(h, f, S), IsFiniteSet(S), \A x \in S : f[x] \in Nat,
         NEW W \in SUBSET S, NEW x \in W
  PROVE  h[W] = f[x] + h[W \ {x}]
<1> SUFFICES ASSUME h[W] # f[x] + h[W \ {x}] PROVE FALSE
  OBVIOUS
<1> DEFINE Bad == {U \in SUBSET S : \E y \in U : h[U] # f[y] + h[U \ {y}]}
<1>1. PICK U \in Bad : \A V \in Bad : ~ (V \subseteq U /\ V # U)
  <2>1. Bad # {} /\ Bad \in SUBSET SUBSET S
    OBVIOUS
  <2> HIDE DEF Bad
  <2> QED
    BY <2>1, Smallest
<1>2. PICK y \in U : h[U] # f[y] + h[U \ {y}]
  BY <1>1
<1>3. U \in SUBSET S /\ U # {}
  BY <1>1
<1>4. ASSUME NEW V \in SUBSET U, V # U, NEW z \in V
      PROVE  h[V] = f[z] + h[V \ {z}]
  BY <1>1, <1>3, <1>4
<1> HIDE DEF Bad
<1> DEFINE z == Pick(U)
           R == (U \ {y}) \ {z}
<1>5. z \in U /\ h[U] = f[z] + h[U \ {z}]
  <2>1. z \in U
    BY <1>3, PickFacts
  <2>2. h[U] = f[z] + h[U \ {z}]
    BY <1>3, AddsFacts
  <2> QED
    BY <2>1, <2>2
<1> HIDE DEF z
<1>6. y # z
  BY <1>2, <1>5
<1>7. h[U \ {z}] = f[y] + h[(U \ {z}) \ {y}]
  BY <1>4, <1>5, <1>6
<1>8. h[U \ {y}] = f[z] + h[R]
  BY <1>4, <1>5, <1>6
<1>9. (U \ {z}) \ {y} = R
  OBVIOUS
<1>10. h[R] \in Nat /\ f[y] \in Nat /\ f[z] \in Nat
  BY <1>3, <1>5, SumType
<1> HIDE DEF R
<1>11. h[U \ {z}] = f[y] + h[R]
  BY <1>7, <1>9
<1>12. h[U] = f[y] + h[U \ {y}]
  BY <1>5, <1>8, <1>10, <1>11
<1> QED
  BY <1>2, <1>12

(* A sum is at most the number of the summands times the largest of them.    *)
LEMMA SumBound ==
  ASSUME NEW h, NEW f, NEW S, Adds(h, f, S), IsFiniteSet(S), \A x \in S : f[x] \in Nat,
         NEW q \in Nat, \A x \in S : f[x] <= q
  PROVE  \A U \in SUBSET S : h[U] <= q * Cardinality(U)
<1> SUFFICES ASSUME NEW W \in SUBSET S, ~ (h[W] <= q * Cardinality(W)) PROVE FALSE
  OBVIOUS
<1> DEFINE Bad == {U \in SUBSET S : ~ (h[U] <= q * Cardinality(U))}
<1>1. PICK U \in Bad : \A V \in Bad : ~ (V \subseteq U /\ V # U)
  <2>1. Bad # {} /\ Bad \in SUBSET SUBSET S
    OBVIOUS
  <2> HIDE DEF Bad
  <2> QED
    BY <2>1, Smallest
<1>2. /\ U \in SUBSET S /\ ~ (h[U] <= q * Cardinality(U))
      /\ \A V \in SUBSET U : V # U => h[V] <= q * Cardinality(V)
  BY <1>1
<1> HIDE DEF Bad
<1>3. U # {}
  <2> SUFFICES ASSUME U = {} PROVE h[U] <= q * Cardinality(U)
    BY <1>2
  <2>1. h[{}] = 0 /\ Cardinality({}) = 0
    BY AddsFacts, FS_EmptySet
  <2> QED
    BY <2>1
<1> DEFINE x == Pick(U)
           V == U \ {x}
<1>4. x \in U /\ V \in SUBSET U /\ V # U
  BY <1>3, PickFacts
<1>5. h[U] = f[x] + h[V]
  BY <1>2, <1>3, AddsFacts
<1>6. h[V] <= q * Cardinality(V) /\ h[V] \in Nat /\ f[x] \in Nat /\ f[x] <= q
  BY <1>2, <1>4, SumType
<1>7. IsFiniteSet(U) /\ IsFiniteSet(V)
  BY <1>2, <1>4, FS_Subset
<1>8. Cardinality(V) = Cardinality(U) - 1 /\ Cardinality(U) \in Nat /\ Cardinality(V) \in Nat
  BY <1>4, <1>7, FS_RemoveElement, FS_CardinalityType
<1> HIDE DEF V, x
<1>9. q * Cardinality(U) = q * Cardinality(V) + q
  <2>1. ASSUME NEW m \in Nat, NEW n \in Nat, m = n - 1 PROVE q * n = q * m + q
    BY <2>1
  <2> QED
    BY <1>8, <2>1
<1>10. q * Cardinality(V) \in Nat
  BY <1>8
<1> QED
  BY <1>2, <1>5, <1>6, <1>9, <1>10

(* A finite set of integers has a largest.                                   *)
LEMMA Largest ==
  ASSUME NEW S, IsFiniteSet(S)
  PROVE  S # {} /\ S \subseteq Int => \E m \in S : \A x \in S : x <= m
<1>0. SUFFICES ASSUME S # {}, S \subseteq Int
               PROVE  \E m \in S : \A x \in S : x <= m
  OBVIOUS
<1> DEFINE Bad == {U \in SUBSET S : \E x \in S : U = {y \in S : y > x}}
<1>1. ASSUME NEW x \in S PROVE {y \in S : y > x} \in Bad
  OBVIOUS
<1>3. PICK U \in Bad : \A V \in Bad : ~ (V \subseteq U /\ V # U)
  <2>1. Bad # {} /\ Bad \in SUBSET SUBSET S
    BY <1>0, <1>1
  <2> HIDE DEF Bad
  <2> QED
    BY <2>1, Smallest
<1>4. PICK m \in S : U = {y \in S : y > m}
  BY <1>3
<1>5. \A x \in S : x <= m
  <2> SUFFICES ASSUME NEW x \in S, x > m PROVE FALSE
    BY <1>0, <1>4
  <2> DEFINE V == {y \in S : y > x}
  <2>1. V \in Bad
    BY <1>1
  <2>2. V \subseteq U /\ x \in U /\ x \notin V
    <3>1. \A y \in S : y \in Int
      BY <1>0
    <3>2. \A y \in S : y > x => y > m
      BY <3>1
    <3>3. ~ (x > x)
      BY <3>1
    <3> QED
      BY <1>4, <3>2, <3>3
  <2> HIDE DEF V, Bad
  <2> QED
    BY <1>3, <2>1, <2>2
<1> QED
  BY <1>5
=============================================================================
