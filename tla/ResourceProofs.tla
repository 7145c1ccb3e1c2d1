--------------------------- MODULE ResourceProofs ---------------------------
(***************************************************************************)
(* Sums over finite sets of guests, for any guests and amounts.            *)
(*                                                                         *)
(* The fold that SumFunctionOnSet stands for is a recursive function on    *)
(* the subsets of its index set.  Inductions over finite sets are done     *)
(* with a minimal counterexample: the subsets for which a claim fails are  *)
(* a set, and a nonempty set of subsets of a finite set has a minimal one. *)
(***************************************************************************)
EXTENDS Resource, FiniteSetTheorems, TLAPS

Sum(f, S) == SumFunctionOnSet(f, S)

\* The element that the fold takes first.
First(s) == CHOOSE x \in s : TRUE

\* g is the fold of f on every subset of S.
Folds(g, f, S) ==
    g = [s \in SUBSET S |-> IF s = {} THEN 0 ELSE f[First(s)] + g[s \ {First(s)}]]

-----------------------------------------------------------------------------
\* Among the sets in Bad, all subsets of a finite set, one contains no other.
LEMMA MinimalSet ==
  ASSUME NEW S, IsFiniteSet(S), NEW Bad \in SUBSET SUBSET S, Bad # {}
  PROVE  \E U \in Bad : \A T \in Bad : T \subseteq U => T = U
<1>wf. IsWellFoundedOn(StrictSubsetOrdering(S), SUBSET S)
  BY FS_StrictSubsetOrderingWellFounded, FS_FiniteSubsetsOfFinite
<1>min. PICK U \in Bad : \A T \in Bad : ~ (<<T, U>> \in StrictSubsetOrdering(S))
  BY <1>wf, WFMin
<1> QED
  BY <1>min DEF StrictSubsetOrdering

\* The first element of a nonempty set is one of its elements.
LEMMA FirstFacts ==
  ASSUME NEW S, S # {}
  PROVE  First(S) \in S /\ S \ {First(S)} \in SUBSET S /\ S \ {First(S)} # S
  BY DEF First

\* On the subsets of W, F obeys the recursion of the fold of f.
Steps(F, f, W) ==
    \A V \in SUBSET W : F[V] = IF V = {} THEN 0 ELSE f[First(V)] + F[V \ {First(V)}]

\* The fold on a set obeys the recursion on each part of it.
LEMMA FoldSteps ==
  ASSUME NEW S, NEW W, W \subseteq S, NEW f, NEW F, Folds(F, f, S)
  PROVE  Steps(F, f, W)
  BY DEF Folds, Steps

\* The fold of a function on a set depends only on the values there.
LEMMA FoldAgrees ==
  ASSUME NEW W, IsFiniteSet(W), NEW f, NEW g, NEW F, NEW G, Steps(F, f, W), Steps(G, g, W),
         \A x \in W : f[x] = g[x]
  PROVE  F[W] = G[W]
<1> SUFFICES ASSUME F[W] # G[W] PROVE FALSE
  OBVIOUS
<1> DEFINE Bad == {U \in SUBSET W : F[U] # G[U]}
<1>min. PICK U \in Bad : \A V \in Bad : V \subseteq U => V = U
  <2> Bad \in SUBSET SUBSET W /\ Bad # {}
    OBVIOUS
  <2> HIDE DEF Bad
  <2> QED
    BY MinimalSet
<1>some. U # {}
  BY DEF Steps
<1>less. F[U \ {First(U)}] = G[U \ {First(U)}]
  BY <1>min, <1>some, FirstFacts
<1>same. F[U] = f[First(U)] + F[U \ {First(U)}] /\ G[U] = g[First(U)] + G[U \ {First(U)}]
  BY <1>some DEF Steps
<1>first. f[First(U)] = g[First(U)]
  BY <1>some, FirstFacts
<1> QED
  BY <1>same, <1>first, <1>less

\* The fold on a set is the fold on each part of it.
LEMMA FoldOfPart ==
  ASSUME NEW S, NEW R, IsFiniteSet(R), R \subseteq S,
         NEW f, NEW F, NEW G, Folds(F, f, S), Folds(G, f, R)
  PROVE  F[R] = G[R]
<1>1. Steps(F, f, R) /\ Steps(G, f, R)
  BY FoldSteps
<1>2. \A x \in R : f[x] = f[x]
  OBVIOUS
<1> QED
  BY <1>1, <1>2, FoldAgrees

\* Every function has a fold on a finite set.
LEMMA FoldExists ==
  ASSUME NEW S, IsFiniteSet(S), NEW f
  PROVE  \E F : Folds(F, f, S)
<1> SUFFICES ASSUME ~ \E F : Folds(F, f, S) PROVE FALSE
  OBVIOUS
<1> DEFINE Bad == {U \in SUBSET S : ~ \E F : Folds(F, f, U)}
<1>min. PICK U \in Bad : \A V \in Bad : V \subseteq U => V = U
  <2> Bad \in SUBSET SUBSET S /\ Bad # {}
    OBVIOUS
  <2> HIDE DEF Bad
  <2> QED
    BY MinimalSet
<1> DEFINE Of(V) == CHOOSE F : Folds(F, f, V)
           rest(s) == s \ {First(s)}
           H == [s \in SUBSET U |-> IF s = {} THEN 0 ELSE f[First(s)] + Of(rest(s))[rest(s)]]
<1>of. \A V \in SUBSET U : V # U => Folds(Of(V), f, V)
  BY <1>min
<1> HIDE DEF Of
<1>rest. \A s \in SUBSET U : s # {} => rest(s) \in SUBSET U /\ rest(s) # U /\ rest(s) # s /\ rest(s) \subseteq s
  BY FirstFacts
<1>fin. \A s \in SUBSET U : IsFiniteSet(s)
  BY FS_Subset
<1>agree. \A V \in SUBSET U : V # U => H[V] = Of(V)[V]
  <2> SUFFICES ASSUME NEW V \in SUBSET U, V # U PROVE H[V] = Of(V)[V]
    OBVIOUS
  <2>1. Folds(Of(V), f, V)
    BY <1>of
  <2>2. CASE V = {}
    BY <2>1, <2>2 DEF Folds
  <2>3. CASE V # {}
    <3>1. rest(V) \in SUBSET U /\ rest(V) # U /\ rest(V) \subseteq V
      BY <1>rest, <2>3
    <3>2. Folds(Of(rest(V)), f, rest(V)) /\ IsFiniteSet(rest(V))
      BY <3>1, <1>of, <1>fin
    <3>3. Of(V)[rest(V)] = Of(rest(V))[rest(V)]
      BY <2>1, <3>1, <3>2, FoldOfPart
    <3>4. Of(V)[V] = f[First(V)] + Of(V)[rest(V)]
      BY <2>1, <2>3 DEF Folds
    <3>5. H[V] = f[First(V)] + Of(rest(V))[rest(V)]
      BY <2>3
    <3> QED
      BY <3>3, <3>4, <3>5
  <2> QED
    BY <2>2, <2>3
<1>fold. Folds(H, f, U)
  <2>1. \A s \in SUBSET U : s # {} => H[rest(s)] = Of(rest(s))[rest(s)]
    BY <1>rest, <1>agree
  <2>2. \A s \in SUBSET U : H[s] = IF s = {} THEN 0 ELSE f[First(s)] + H[rest(s)]
    BY <2>1
  <2>3. H = [s \in SUBSET U |-> H[s]]
    OBVIOUS
  <2> HIDE DEF H
  <2> QED
    BY <2>2, <2>3 DEF Folds
<1> QED
  BY <1>fold

\* SumFunctionOnSet is the fold it is defined by.
LEMMA SumFolds ==
  ASSUME NEW S, IsFiniteSet(S), NEW f
  PROVE  \E F : Folds(F, f, S) /\ Sum(f, S) = F[S]
<1> DEFINE F == CHOOSE g : g = [s \in SUBSET S |-> IF s = {} THEN 0
                                ELSE f[CHOOSE x \in s : TRUE] + g[s \ {CHOOSE x \in s : TRUE}]]
<1>1. Sum(f, S) = F[S]
  BY DEF Sum, SumFunctionOnSet, FoldFunctionOnSet, MapThenFoldSet
<1>2. F = CHOOSE g : Folds(g, f, S)
  BY DEF Folds, First
<1>3. Folds(F, f, S)
  BY <1>2, FoldExists
<1> QED
  BY <1>1, <1>3

\* A sum depends only on the summands.
LEMMA SumAgrees ==
  ASSUME NEW S, IsFiniteSet(S), NEW f, NEW g, \A x \in S : f[x] = g[x]
  PROVE  Sum(f, S) = Sum(g, S)
<1>1. PICK F : Folds(F, f, S) /\ Sum(f, S) = F[S]
  BY SumFolds
<1>2. PICK G : Folds(G, g, S) /\ Sum(g, S) = G[S]
  BY SumFolds
<1>3. Steps(F, f, S) /\ Steps(G, g, S)
  BY <1>1, <1>2, FoldSteps
<1> QED
  BY <1>1, <1>2, <1>3, FoldAgrees

\* The empty sum, and one step of the fold.
LEMMA SumStep ==
  ASSUME NEW S, IsFiniteSet(S), NEW f
  PROVE  Sum(f, S) = IF S = {} THEN 0 ELSE f[First(S)] + Sum(f, S \ {First(S)})
<1>1. PICK F : Folds(F, f, S) /\ Sum(f, S) = F[S]
  BY SumFolds
<1>2. F[S] = IF S = {} THEN 0 ELSE f[First(S)] + F[S \ {First(S)}]
  BY <1>1 DEF Folds
<1>3. S # {} => F[S \ {First(S)}] = Sum(f, S \ {First(S)})
  <2> SUFFICES ASSUME S # {} PROVE F[S \ {First(S)}] = Sum(f, S \ {First(S)})
    OBVIOUS
  <2> DEFINE R == S \ {First(S)}
  <2>1. IsFiniteSet(R) /\ R \subseteq S
    BY FS_Subset
  <2> HIDE DEF R
  <2>2. PICK G : Folds(G, f, R) /\ Sum(f, R) = G[R]
    BY <2>1, SumFolds
  <2>3. F[R] = G[R]
    BY <1>1, <2>1, <2>2, FoldOfPart
  <2> QED
    BY <2>2, <2>3 DEF R
<1> QED
  BY <1>1, <1>2, <1>3

-----------------------------------------------------------------------------
\* Sums of integers are integers.
LEMMA SumType ==
  ASSUME NEW S, IsFiniteSet(S), NEW f, \A x \in S : f[x] \in Int
  PROVE  Sum(f, S) \in Int
<1> SUFFICES ASSUME Sum(f, S) \notin Int PROVE FALSE
  OBVIOUS
<1> DEFINE Bad == {U \in SUBSET S : Sum(f, U) \notin Int}
<1>min. PICK U \in Bad : \A V \in Bad : V \subseteq U => V = U
  <2> Bad \in SUBSET SUBSET S /\ Bad # {}
    OBVIOUS
  <2> HIDE DEF Bad
  <2> QED
    BY MinimalSet
<1>step. Sum(f, U) = IF U = {} THEN 0 ELSE f[First(U)] + Sum(f, U \ {First(U)})
  BY SumStep, FS_Subset
<1>some. U # {}
  BY <1>step
<1>less. Sum(f, U \ {First(U)}) \in Int
  BY <1>min, <1>some, FirstFacts
<1> QED
  BY <1>step, <1>some, <1>less, FirstFacts

\* Any element may be split off a sum, not only the first.
LEMMA SumSplit ==
  ASSUME NEW S, IsFiniteSet(S), NEW f, \A x \in S : f[x] \in Int, NEW a \in S
  PROVE  Sum(f, S) = f[a] + Sum(f, S \ {a})
<1> SUFFICES ASSUME Sum(f, S) # f[a] + Sum(f, S \ {a}) PROVE FALSE
  OBVIOUS
<1> DEFINE Bad == {U \in SUBSET S : \E b \in U : Sum(f, U) # f[b] + Sum(f, U \ {b})}
<1>min. PICK U \in Bad : \A V \in Bad : V \subseteq U => V = U
  <2> Bad \in SUBSET SUBSET S /\ Bad # {}
    OBVIOUS
  <2> HIDE DEF Bad
  <2> QED
    BY MinimalSet
<1>sub. U \in SUBSET S
  OBVIOUS
<1>b. PICK b \in U : Sum(f, U) # f[b] + Sum(f, U \ {b})
  OBVIOUS
<1>less. \A V \in SUBSET U : V # U => \A d \in V : Sum(f, V) = f[d] + Sum(f, V \ {d})
  BY <1>min
<1> HIDE DEF Bad
<1>fin. \A V \in SUBSET U : IsFiniteSet(V) /\ Sum(f, V) \in Int
  BY <1>sub, SumType, FS_Subset
<1> DEFINE c == First(U)
<1>c. c \in U /\ Sum(f, U) = f[c] + Sum(f, U \ {c})
  BY <1>b, <1>fin, SumStep, FirstFacts
<1> HIDE DEF c
<1>1. b # c
  BY <1>b, <1>c
<1>2. Sum(f, U \ {c}) = f[b] + Sum(f, (U \ {c}) \ {b})
  BY <1>less, <1>1, <1>c, <1>b
<1>3. Sum(f, U \ {b}) = f[c] + Sum(f, (U \ {b}) \ {c})
  BY <1>less, <1>1, <1>c, <1>b
<1>4. Sum(f, (U \ {c}) \ {b}) = Sum(f, (U \ {b}) \ {c})
  <2> (U \ {c}) \ {b} = (U \ {b}) \ {c}
    OBVIOUS
  <2> QED
    OBVIOUS
<1>5. Sum(f, (U \ {b}) \ {c}) \in Int /\ f[b] \in Int /\ f[c] \in Int
  BY <1>fin, <1>sub, <1>b, <1>c
<1>6. Sum(f, U) = f[c] + (f[b] + Sum(f, (U \ {b}) \ {c}))
  BY <1>2, <1>4, <1>c
<1>7. Sum(f, U) = f[b] + Sum(f, U \ {b})
  BY <1>3, <1>5, <1>6
<1> QED
  BY <1>7, <1>b

\* A sum over fewer summands, none of them larger, is not larger, if what is
\* left out is not negative.
LEMMA SumMonotone ==
  ASSUME NEW S, IsFiniteSet(S), NEW T \in SUBSET S, NEW f, NEW g,
         \A x \in S : g[x] \in Nat, \A x \in T : f[x] \in Int /\ f[x] <= g[x]
  PROVE  Sum(f, T) <= Sum(g, S)
<1> SUFFICES ASSUME ~ (Sum(f, T) <= Sum(g, S)) PROVE FALSE
  OBVIOUS
<1> DEFINE Bad == {U \in SUBSET S : ~ (Sum(f, T \cap U) <= Sum(g, U))}
<1>min. PICK U \in Bad : \A V \in Bad : V \subseteq U => V = U
  <2> T \cap S = T
    OBVIOUS
  <2> Bad \in SUBSET SUBSET S /\ Bad # {}
    OBVIOUS
  <2> HIDE DEF Bad
  <2> QED
    BY MinimalSet
<1>fin. \A V \in SUBSET S : /\ IsFiniteSet(V) /\ Sum(g, V) \in Int
                            /\ IsFiniteSet(T \cap V) /\ Sum(f, T \cap V) \in Int
  <2> SUFFICES ASSUME NEW V \in SUBSET S
               PROVE  /\ IsFiniteSet(V) /\ Sum(g, V) \in Int
                      /\ IsFiniteSet(T \cap V) /\ Sum(f, T \cap V) \in Int
    OBVIOUS
  <2>1. IsFiniteSet(V) /\ IsFiniteSet(T \cap V)
    BY FS_Subset
  <2>2. (\A x \in V : g[x] \in Int) /\ \A x \in T \cap V : f[x] \in Int
    OBVIOUS
  <2> QED
    BY <2>1, <2>2, SumType
<1>sub. U \in SUBSET S /\ ~ (Sum(f, T \cap U) <= Sum(g, U))
  OBVIOUS
<1>some. U # {}
  <2> SUFFICES ASSUME U = {} PROVE FALSE
    OBVIOUS
  <2>1. Sum(g, U) = 0 /\ T \cap U = {} /\ Sum(f, T \cap U) = 0
    BY SumStep, FS_EmptySet
  <2> QED
    BY <2>1, <1>sub
<1> DEFINE a == First(U)
           V == U \ {a}
<1>a. a \in U /\ V \in SUBSET U /\ V # U
  BY <1>some, FirstFacts
<1>less. Sum(f, T \cap V) <= Sum(g, V)
  BY <1>min, <1>a, <1>sub
<1> HIDE DEF Bad, a
<1>g. Sum(g, U) = g[a] + Sum(g, V) /\ g[a] \in Nat
  <2> \A x \in U : g[x] \in Int
    BY <1>sub
  <2> QED
    BY <1>fin, <1>a, <1>sub, SumSplit
<1>1. CASE a \in T
  <2>1. (T \cap U) \ {a} = T \cap V
    OBVIOUS
  <2>2. Sum(f, T \cap U) = f[a] + Sum(f, (T \cap U) \ {a})
    <3>1. a \in T \cap U /\ IsFiniteSet(T \cap U) /\ \A x \in T \cap U : f[x] \in Int
      BY <1>1, <1>a, <1>fin, <1>sub
    <3> HIDE DEF V
    <3> QED
      BY <3>1, SumSplit
  <2>3. f[a] \in Int /\ f[a] <= g[a] /\ Sum(f, T \cap V) \in Int /\ Sum(g, V) \in Int
    BY <1>1, <1>a, <1>fin, <1>sub
  <2> HIDE DEF V
  <2> QED
    BY <2>1, <2>2, <2>3, <1>g, <1>less, <1>sub
<1>2. CASE a \notin T
  <2>1. Sum(f, T \cap U) = Sum(f, T \cap V)
    <3> T \cap U = T \cap V
      BY <1>2
    <3> QED
      OBVIOUS
  <2>2. Sum(f, T \cap V) \in Int /\ Sum(g, V) \in Int
    BY <1>a, <1>fin, <1>sub
  <2> HIDE DEF V
  <2> QED
    BY <2>1, <2>2, <1>g, <1>less, <1>sub
<1> QED
  BY <1>1, <1>2

\* The sum of a pointwise sum.
LEMMA SumAdds ==
  ASSUME NEW S, IsFiniteSet(S), NEW f, NEW g, NEW h,
         \A x \in S : f[x] \in Int /\ g[x] \in Int /\ h[x] = f[x] + g[x]
  PROVE  Sum(h, S) = Sum(f, S) + Sum(g, S)
<1> SUFFICES ASSUME Sum(h, S) # Sum(f, S) + Sum(g, S) PROVE FALSE
  OBVIOUS
<1> DEFINE Bad == {U \in SUBSET S : Sum(h, U) # Sum(f, U) + Sum(g, U)}
<1>min. PICK U \in Bad : \A V \in Bad : V \subseteq U => V = U
  <2> Bad \in SUBSET SUBSET S /\ Bad # {}
    OBVIOUS
  <2> HIDE DEF Bad
  <2> QED
    BY MinimalSet
<1>sub. U \in SUBSET S /\ Sum(h, U) # Sum(f, U) + Sum(g, U)
  OBVIOUS
<1>fin. IsFiniteSet(U)
  BY <1>sub, FS_Subset
<1>some. U # {}
  BY <1>sub, <1>fin, SumStep
<1> DEFINE a == First(U)
           V == U \ {a}
<1>a. a \in U /\ V \in SUBSET U /\ V # U
  BY <1>some, FirstFacts
<1>less. Sum(h, V) = Sum(f, V) + Sum(g, V)
  BY <1>min, <1>a, <1>sub
<1>steps. /\ Sum(f, U) = f[a] + Sum(f, V) /\ Sum(g, U) = g[a] + Sum(g, V)
          /\ Sum(h, U) = h[a] + Sum(h, V)
  BY <1>fin, <1>some, SumStep
<1>type. Sum(f, V) \in Int /\ Sum(g, V) \in Int /\ f[a] \in Int /\ g[a] \in Int /\ h[a] = f[a] + g[a]
  <2>1. IsFiniteSet(V) /\ \A x \in V : f[x] \in Int /\ g[x] \in Int
    BY <1>fin, <1>a, <1>sub, FS_Subset
  <2> HIDE DEF V
  <2> QED
    BY <1>a, <1>sub, <2>1, SumType
<1> HIDE DEF Bad, a, V
<1> QED
  BY <1>less, <1>steps, <1>type, <1>sub

\* Terms that are zero may be left out.
LEMMA SumOnPart ==
  ASSUME NEW S, IsFiniteSet(S), NEW T \in SUBSET S, NEW f, NEW g,
         \A x \in T : f[x] \in Int, \A x \in S : g[x] = IF x \in T THEN f[x] ELSE 0
  PROVE  Sum(g, S) = Sum(f, T)
<1> SUFFICES ASSUME Sum(g, S) # Sum(f, T) PROVE FALSE
  OBVIOUS
<1> DEFINE Bad == {U \in SUBSET S : Sum(g, U) # Sum(f, T \cap U)}
<1>min. PICK U \in Bad : \A V \in Bad : V \subseteq U => V = U
  <2> T \cap S = T
    OBVIOUS
  <2> Bad \in SUBSET SUBSET S /\ Bad # {}
    OBVIOUS
  <2> HIDE DEF Bad
  <2> QED
    BY MinimalSet
<1>sub. U \in SUBSET S /\ Sum(g, U) # Sum(f, T \cap U)
  OBVIOUS
<1>fin. IsFiniteSet(U) /\ IsFiniteSet(T \cap U)
  BY <1>sub, FS_Subset
<1>some. U # {}
  <2> SUFFICES ASSUME U = {} PROVE FALSE
    OBVIOUS
  <2>1. Sum(g, U) = 0 /\ T \cap U = {} /\ Sum(f, T \cap U) = 0
    BY SumStep, FS_EmptySet
  <2> QED
    BY <2>1, <1>sub
<1> DEFINE a == First(U)
           V == U \ {a}
<1>a. a \in U /\ V \in SUBSET U /\ V # U
  BY <1>some, FirstFacts
<1>less. Sum(g, V) = Sum(f, T \cap V)
  BY <1>min, <1>a, <1>sub
<1>g. Sum(g, U) = g[a] + Sum(g, V)
  BY <1>fin, <1>some, SumStep
<1>int. Sum(f, T \cap V) \in Int
  <2>1. IsFiniteSet(T \cap V) /\ \A x \in T \cap V : f[x] \in Int
    BY <1>fin, <1>a, FS_Subset
  <2> QED
    BY <2>1, SumType
<1> HIDE DEF Bad, a
<1>in. CASE a \in T
  <2>1. (T \cap U) \ {a} = T \cap V
    OBVIOUS
  <2>2. Sum(f, T \cap U) = f[a] + Sum(f, (T \cap U) \ {a})
    <3>1. a \in T \cap U /\ \A x \in T \cap U : f[x] \in Int
      BY <1>in, <1>a
    <3> HIDE DEF V
    <3> QED
      BY <3>1, <1>fin, SumSplit
  <2>3. g[a] = f[a]
    BY <1>in, <1>a, <1>sub
  <2> HIDE DEF V
  <2> QED
    BY <2>1, <2>2, <2>3, <1>g, <1>less, <1>sub
<1>out. CASE a \notin T
  <2>1. Sum(f, T \cap U) = Sum(f, T \cap V)
    <3> T \cap U = T \cap V
      BY <1>out
    <3> QED
      OBVIOUS
  <2>2. g[a] = 0
    BY <1>out, <1>a, <1>sub
  <2> HIDE DEF V
  <2> QED
    BY <2>1, <2>2, <1>int, <1>g, <1>less, <1>sub
<1> QED
  BY <1>in, <1>out

\* The sum of a function that is zero.
LEMMA SumZero ==
  ASSUME NEW S, IsFiniteSet(S), NEW g, \A x \in S : g[x] = 0
  PROVE  Sum(g, S) = 0
<1>1. {} \in SUBSET S /\ \A x \in S : g[x] = IF x \in {} THEN g[x] ELSE 0
  OBVIOUS
<1>2. \A x \in {} : g[x] \in Int
  OBVIOUS
<1>3. Sum(g, S) = Sum(g, {})
  BY <1>1, <1>2, SumOnPart
<1>4. Sum(g, {}) = 0
  BY SumStep, FS_EmptySet
<1> QED
  BY <1>3, <1>4

\* The sum of a function that is zero but at one place.
LEMMA SumPoint ==
  ASSUME NEW S, IsFiniteSet(S), NEW a \in S, NEW n \in Int, NEW g,
         \A x \in S : g[x] = IF x = a THEN n ELSE 0
  PROVE  Sum(g, S) = n
<1> DEFINE R == S \ {a}
<1>1. \A x \in S : g[x] \in Int
  OBVIOUS
<1>2. Sum(g, S) = g[a] + Sum(g, R)
  BY <1>1, SumSplit
<1>3. IsFiniteSet(R) /\ \A x \in R : g[x] = 0
  BY FS_Subset
<1>4. Sum(g, R) = 0
  BY <1>3, SumZero
<1> QED
  BY <1>2, <1>4

\* S falls into classes: G[c] is f where the class is c and zero elsewhere, and
\* F[c] its sum.
Classified(S, C, cls, f, G, F) ==
    /\ IsFiniteSet(S) /\ IsFiniteSet(C)
    /\ \A x \in S : f[x] \in Int /\ cls[x] \in C
    /\ \A c \in C : \A x \in S : G[c][x] = IF cls[x] = c THEN f[x] ELSE 0
    /\ \A c \in C : F[c] = Sum(G[c], S)

\* The classes together have the whole sum.
LEMMA SumByClass ==
  ASSUME NEW S, NEW C, NEW cls, NEW f, NEW G, NEW F, Classified(S, C, cls, f, G, F)
  PROVE  Sum(F, C) = Sum(f, S)
<1> USE DEF Classified
<1> DEFINE Of(D) == [x \in S |-> IF cls[x] \in D THEN f[x] ELSE 0]
           Bad == {D \in SUBSET C : Sum(F, D) # Sum(Of(D), S)}
<1>whole. Sum(Of(C), S) = Sum(f, S)
  <2>1. \A x \in S : Of(C)[x] = f[x]
    OBVIOUS
  <2> HIDE DEF Of
  <2> QED
    BY <2>1, SumAgrees
<1> SUFFICES ASSUME Sum(F, C) # Sum(Of(C), S) PROVE FALSE
  BY <1>whole
<1>min. PICK D \in Bad : \A E \in Bad : E \subseteq D => E = D
  <2> Bad \in SUBSET SUBSET C /\ Bad # {}
    OBVIOUS
  <2> HIDE DEF Bad
  <2> QED
    BY MinimalSet
<1>sub. D \in SUBSET C /\ Sum(F, D) # Sum(Of(D), S)
  OBVIOUS
<1>fin. IsFiniteSet(D)
  BY <1>sub, FS_Subset
<1>some. D # {}
  <2> SUFFICES ASSUME D = {} PROVE FALSE
    OBVIOUS
  <2>1. Sum(F, D) = 0
    BY <1>fin, SumStep
  <2>2. Sum(Of(D), S) = Sum(f, {})
    <3>1. {} \in SUBSET S /\ (\A x \in {} : f[x] \in Int)
          /\ \A x \in S : Of(D)[x] = IF x \in {} THEN f[x] ELSE 0
      OBVIOUS
    <3> HIDE DEF Of
    <3> QED
      BY <3>1, SumOnPart
  <2>3. Sum(f, {}) = 0
    BY SumStep, FS_EmptySet
  <2> QED
    BY <1>sub, <2>1, <2>2, <2>3
<1> DEFINE a == First(D)
           E == D \ {a}
           one == G[a]
<1>a. a \in D /\ E \in SUBSET D /\ E # D
  BY <1>some, FirstFacts
<1>less. Sum(F, E) = Sum(Of(E), S)
  BY <1>min, <1>a, <1>sub
<1>step. Sum(F, D) = F[a] + Sum(F, E)
  BY <1>fin, <1>some, SumStep
<1>one. F[a] = Sum(one, S)
  BY <1>a, <1>sub
<1>adds. Sum(Of(D), S) = Sum(one, S) + Sum(Of(E), S)
  <2>1. \A x \in S : one[x] = IF cls[x] = a THEN f[x] ELSE 0
    BY <1>a, <1>sub
  <2>2. \A x \in S : one[x] \in Int /\ Of(E)[x] \in Int /\ Of(D)[x] = one[x] + Of(E)[x]
    <3> HIDE DEF one, a
    <3> QED
      BY <1>a, <2>1
  <2> HIDE DEF Of, one, E, a
  <2> QED
    BY <2>2, SumAdds
<1> HIDE DEF Bad, Of, one, E, a
<1> QED
  BY <1>less, <1>step, <1>one, <1>adds, <1>sub

-----------------------------------------------------------------------------
(* The same for vectors.                                                   *)

\* A component of a total is the sum of that component.
LEMMA TotalAt ==
  ASSUME NEW S, IsFiniteSet(S), NEW f, NEW k \in Dims
  PROVE  \A c : (\A x \in S : c[x] = f[x][k]) => Total(f, S)[k] = Sum(c, S)
<1> SUFFICES ASSUME NEW c, \A x \in S : c[x] = f[x][k]
             PROVE  Total(f, S)[k] = Sum(c, S)
  OBVIOUS
<1> DEFINE d == [x \in S |-> f[x][k]]
<1>1. Total(f, S)[k] = Sum(d, S)
  BY DEF Total, Sum
<1>2. \A x \in S : d[x] = c[x]
  OBVIOUS
<1> HIDE DEF d
<1> QED
  BY <1>1, <1>2, SumAgrees

\* A total of vectors is a vector.
LEMMA TotalType ==
  ASSUME NEW S, IsFiniteSet(S), NEW f, \A x \in S : f[x] \in Vec
  PROVE  Total(f, S) \in Vec
<1>1. \A k \in Dims : Total(f, S)[k] \in Int
  <2> SUFFICES ASSUME NEW k \in Dims PROVE Total(f, S)[k] \in Int
    OBVIOUS
  <2> DEFINE d == [x \in S |-> f[x][k]]
  <2>1. \A x \in S : d[x] = f[x][k] /\ d[x] \in Int
    BY DEF Vec
  <2> HIDE DEF d
  <2> QED
    BY <2>1, TotalAt, SumType
<1>2. Total(f, S) = [k \in Dims |-> Total(f, S)[k]]
  BY DEF Total
<1> QED
  BY <1>1, <1>2 DEF Vec

\* The total of nothing.
LEMMA TotalEmpty ==
  ASSUME NEW f
  PROVE  Total(f, {}) = Zero
<1>1. \A k \in Dims : Total(f, {})[k] = 0
  <2> SUFFICES ASSUME NEW k \in Dims PROVE Total(f, {})[k] = 0
    OBVIOUS
  <2> DEFINE d == [x \in {} |-> f[x][k]]
  <2>1. Total(f, {})[k] = Sum(d, {})
    BY DEF Total, Sum
  <2> QED
    BY <2>1, SumStep, FS_EmptySet
<1> QED
  BY <1>1 DEF Total, Zero

\* A total depends only on what is added.
LEMMA TotalAgrees ==
  ASSUME NEW S, IsFiniteSet(S), NEW f, NEW g, \A x \in S : f[x] = g[x]
  PROVE  Total(f, S) = Total(g, S)
<1>1. \A k \in Dims : Total(f, S)[k] = Total(g, S)[k]
  <2> SUFFICES ASSUME NEW k \in Dims PROVE Total(f, S)[k] = Total(g, S)[k]
    OBVIOUS
  <2> DEFINE d == [x \in S |-> f[x][k]]
  <2>1. (\A x \in S : d[x] = f[x][k]) /\ \A x \in S : d[x] = g[x][k]
    OBVIOUS
  <2> HIDE DEF d
  <2> QED
    BY <2>1, TotalAt
<1> QED
  BY <1>1 DEF Total

\* One guest may be split off a total.
LEMMA TotalSplit ==
  ASSUME NEW S, IsFiniteSet(S), NEW f, \A x \in S : f[x] \in Vec, NEW a \in S
  PROVE  Total(f, S) = Plus(f[a], Total(f, S \ {a}))
<1>1. \A k \in Dims : Total(f, S)[k] = f[a][k] + Total(f, S \ {a})[k]
  <2> SUFFICES ASSUME NEW k \in Dims PROVE Total(f, S)[k] = f[a][k] + Total(f, S \ {a})[k]
    OBVIOUS
  <2> DEFINE d == [x \in S |-> f[x][k]]
  <2>1. \A x \in S : d[x] = f[x][k] /\ d[x] \in Int
    BY DEF Vec
  <2>2. \A x \in S \ {a} : d[x] = f[x][k]
    OBVIOUS
  <2> HIDE DEF d
  <2>3. Total(f, S)[k] = Sum(d, S)
    BY <2>1, TotalAt
  <2>4. Total(f, S \ {a})[k] = Sum(d, S \ {a})
    <3>1. IsFiniteSet(S \ {a})
      BY FS_RemoveElement
    <3> QED
      BY <2>2, <3>1, TotalAt
  <2> QED
    BY <2>1, <2>3, <2>4, SumSplit
<1> QED
  BY <1>1 DEF Total, Plus

\* A total over fewer guests, none of them larger, is not larger.
LEMMA TotalMonotone ==
  ASSUME NEW S, IsFiniteSet(S), NEW T \in SUBSET S, NEW f, NEW g,
         \A x \in S : g[x] \in Amounts, \A x \in T : f[x] \in Vec /\ Leq(f[x], g[x])
  PROVE  Leq(Total(f, T), Total(g, S))
<1> SUFFICES ASSUME NEW k \in Dims PROVE Total(f, T)[k] <= Total(g, S)[k]
  BY DEF Leq
<1> DEFINE c == [x \in T |-> f[x][k]]
           d == [x \in S |-> g[x][k]]
<1>1. \A x \in S : d[x] = g[x][k] /\ d[x] \in Nat
  BY DEF Amounts
<1>2. \A x \in T : c[x] = f[x][k] /\ c[x] \in Int /\ c[x] <= d[x]
  BY DEF Vec, Leq
<1> HIDE DEF c, d
<1>3. Total(g, S)[k] = Sum(d, S)
  BY <1>1, TotalAt
<1>4. Total(f, T)[k] = Sum(c, T)
  <2>1. IsFiniteSet(T)
    BY FS_Subset
  <2> QED
    BY <1>2, <2>1, TotalAt
<1> QED
  BY <1>1, <1>2, <1>3, <1>4, SumMonotone

\* Vectors may be added in any order.
LEMMA PlusOrder ==
  ASSUME NEW a \in Vec, NEW b \in Vec, NEW c \in Vec
  PROVE  /\ Plus(a, Plus(b, c)) = Plus(Plus(a, b), c)
         /\ Plus(a, Plus(b, c)) = Plus(b, Plus(a, c))
  BY DEF Plus, Vec

\* Sums are ordered as their terms are.
LEMMA PlusMonotone ==
  ASSUME NEW a \in Vec, NEW b \in Vec, NEW c \in Vec, NEW d \in Vec, Leq(a, c), Leq(b, d)
  PROVE  Leq(Plus(a, b), Plus(c, d))
  BY DEF Plus, Leq, Vec

\* A set may be summed up in two parts.
LEMMA TotalParts ==
  ASSUME NEW S, IsFiniteSet(S), NEW T, NEW f, \A x \in S : f[x] \in Vec
  PROVE  Total(f, S) = Plus(Total(f, S \ T), Total(f, S \cap T))
<1> SUFFICES ASSUME Total(f, S) # Plus(Total(f, S \ T), Total(f, S \cap T)) PROVE FALSE
  OBVIOUS
<1> DEFINE Bad == {U \in SUBSET S : Total(f, U) # Plus(Total(f, U \ T), Total(f, U \cap T))}
<1>min. PICK U \in Bad : \A V \in Bad : V \subseteq U => V = U
  <2> Bad \in SUBSET SUBSET S /\ Bad # {}
    OBVIOUS
  <2> HIDE DEF Bad
  <2> QED
    BY MinimalSet
<1>sub. U \in SUBSET S /\ Total(f, U) # Plus(Total(f, U \ T), Total(f, U \cap T))
  OBVIOUS
<1>less. \A V \in SUBSET U : V # U => Total(f, V) = Plus(Total(f, V \ T), Total(f, V \cap T))
  BY <1>min
<1> HIDE DEF Bad
<1>part. \A V \in SUBSET S : /\ IsFiniteSet(V) /\ Total(f, V) \in Vec
                             /\ \A a \in V : Total(f, V) = Plus(f[a], Total(f, V \ {a}))
  <2> SUFFICES ASSUME NEW V \in SUBSET S
               PROVE  /\ IsFiniteSet(V) /\ Total(f, V) \in Vec
                      /\ \A a \in V : Total(f, V) = Plus(f[a], Total(f, V \ {a}))
    OBVIOUS
  <2>1. IsFiniteSet(V) /\ \A x \in V : f[x] \in Vec
    BY FS_Subset
  <2> QED
    BY <2>1, TotalType, TotalSplit
<1>some. U # {}
  <2> SUFFICES ASSUME U = {} PROVE FALSE
    OBVIOUS
  <2>1. U \ T = {} /\ U \cap T = {}
    OBVIOUS
  <2>2. Total(f, U) = Zero /\ Total(f, U \ T) = Zero /\ Total(f, U \cap T) = Zero
    BY <2>1, TotalEmpty
  <2> QED
    BY <2>2, <1>sub DEF Plus, Zero
<1>a. PICK a : a \in U
  BY <1>some
<1> DEFINE V == U \ {a}
<1>1. Total(f, U) = Plus(f[a], Total(f, V)) /\ f[a] \in Vec
  BY <1>a, <1>part, <1>sub
<1>2. Total(f, V) = Plus(Total(f, V \ T), Total(f, V \cap T))
  BY <1>a, <1>less
<1>3. Total(f, V \ T) \in Vec /\ Total(f, V \cap T) \in Vec
  BY <1>part, <1>sub
<1>4. CASE a \in T
  <2>1. Total(f, U \ T) = Total(f, V \ T)
    <3> U \ T = V \ T
      BY <1>4
    <3> QED
      OBVIOUS
  <2>2. Total(f, U \cap T) = Plus(f[a], Total(f, V \cap T))
    <3>1. (U \cap T) \ {a} = V \cap T /\ a \in U \cap T /\ U \cap T \in SUBSET S
      BY <1>4, <1>a, <1>sub
    <3> HIDE DEF V
    <3> QED
      BY <3>1, <1>part
  <2> HIDE DEF V
  <2> QED
    BY <1>1, <1>2, <1>3, <1>sub, <2>1, <2>2, PlusOrder
<1>5. CASE a \notin T
  <2>1. Total(f, U \cap T) = Total(f, V \cap T)
    <3> U \cap T = V \cap T
      BY <1>5
    <3> QED
      OBVIOUS
  <2>2. Total(f, U \ T) = Plus(f[a], Total(f, V \ T))
    <3>1. (U \ T) \ {a} = V \ T /\ a \in U \ T /\ U \ T \in SUBSET S
      BY <1>5, <1>a, <1>sub
    <3> HIDE DEF V
    <3> QED
      BY <3>1, <1>part
  <2> HIDE DEF V
  <2> QED
    BY <1>1, <1>2, <1>3, <1>sub, <2>1, <2>2, PlusOrder
<1> QED
  BY <1>4, <1>5
=============================================================================
