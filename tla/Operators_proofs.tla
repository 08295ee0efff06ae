--------------------------- MODULE Operators_proofs ---------------------------
(***************************************************************************)
(* Facts about the operators that several components are built from, for   *)
(* every value of their parameters: sums over finite sets, the arithmetic  *)
(* of the EVM rate limiter, and the token buckets of the Solana OFT.  The  *)
(* modules with the theorems cite them by name.                            *)
(***************************************************************************)
EXTENDS SkyRateLimits, SolanaRateLimits, FiniteSetsExt, FiniteSetTheorems,
        WellFoundedInduction, TLAPS

-----------------------------------------------------------------------------
\* Induction over finite sets.

\* A set of natural numbers that is not empty has a least element.
LEMMA LeastOfNat ==
    ASSUME NEW T \in SUBSET Nat, T # {}
    PROVE  \E n \in T : \A m \in T : n <= m
<1> DEFINE R == OpToRel(<, Nat)
<1>1. IsWellFoundedOn(R, Nat)
  BY NatLessThanWellFounded, Zenon
<1>2. PICK n \in T : \A m \in T : ~ (<<m, n>> \in R)
  <2> HIDE DEF R
  <2> QED
    BY <1>1, WFMin
<1>3. \A m \in Nat, k \in Nat : ~(m < k) => k <= m
  OBVIOUS
<1>4. \A m \in Nat, k \in Nat : m < k => <<m, k>> \in R
  BY Zenon DEF OpToRel
<1> QED
  BY <1>2, <1>3, <1>4

\* Induction over the subsets of a finite set: what passes from the sets with one
\* element less to the set itself holds of all of them.
LEMMA SubsetInduction ==
    ASSUME NEW S, IsFiniteSet(S), NEW Good,
           \A T \in SUBSET S : (\A x \in T : T \ {x} \in Good) => T \in Good
    PROVE  S \in Good /\ \A T \in SUBSET S : T \in Good
<1> DEFINE Bad == {T \in SUBSET S : T \notin Good}
           Sizes == {Cardinality(T) : T \in Bad}
<1> SUFFICES ASSUME Bad # {} PROVE FALSE
  OBVIOUS
<1>1. \A T \in SUBSET S : IsFiniteSet(T) /\ Cardinality(T) \in Nat
  BY FS_Subset, FS_CardinalityType
<1>2. Sizes \in SUBSET Nat /\ Sizes # {}
  BY <1>1
<1>3. PICK n \in Sizes : \A m \in Sizes : n <= m
  <2> HIDE DEF Sizes
  <2> QED
    BY <1>2, LeastOfNat
<1>4. PICK T \in Bad : Cardinality(T) = n
  BY <1>3
<1>5. ASSUME NEW x \in T PROVE T \ {x} \in Good
  <2>1. T \ {x} \in SUBSET S /\ IsFiniteSet(T) /\ Cardinality(T) \in Nat
    BY <1>1
  <2>2. Cardinality(T \ {x}) = Cardinality(T) - 1
    BY <2>1, FS_RemoveElement
  <2>3. Cardinality(T \ {x}) < n
    BY <1>4, <2>1, <2>2
  <2>4. Cardinality(T \ {x}) \notin Sizes
    <3>1. n \in Nat /\ Cardinality(T \ {x}) \in Nat
      BY <1>1, <1>2, <2>1
    <3> HIDE DEF Sizes
    <3> QED
      BY <1>3, <2>3, <3>1
  <2> QED
    BY <2>1, <2>4
<1> QED
  BY <1>4, <1>5

-----------------------------------------------------------------------------
\* The sum of a function over a finite set, as Functions defines it: a table of
\* the sums over all subsets, each with one picked element taken out.

Pick(s) == CHOOSE x \in s : TRUE

IsSumTable(g, f, S) ==
    g = [s \in SUBSET S |-> IF s = {} THEN 0 ELSE f[Pick(s)] + g[s \ {Pick(s)}]]

\* The sum is read off a table, if there is one.
LEMMA SumIsChosen ==
    ASSUME NEW f, NEW S
    PROVE  SumFunctionOnSet(f, S) = (CHOOSE g : IsSumTable(g, f, S))[S]
  BY DEF SumFunctionOnSet, FoldFunctionOnSet, MapThenFoldSet, IsSumTable, Pick

\* An element can be picked from a set that is not empty.
LEMMA PickFacts == \A s : s # {} => Pick(s) \in s
  BY DEF Pick

\* Two tables agree where both have an entry.
LEMMA TablesAgree ==
    ASSUME NEW f, NEW S, NEW T, NEW g, NEW h, IsFiniteSet(T), T \subseteq S,
           IsSumTable(g, f, S), IsSumTable(h, f, T)
    PROVE  \A s \in SUBSET T : g[s] = h[s]
<1> DEFINE Good == {s \in SUBSET T : g[s] = h[s]}
<1>1. /\ \A s \in SUBSET S : g[s] = IF s = {} THEN 0 ELSE f[Pick(s)] + g[s \ {Pick(s)}]
      /\ \A s \in SUBSET T : h[s] = IF s = {} THEN 0 ELSE f[Pick(s)] + h[s \ {Pick(s)}]
  BY DEF IsSumTable
<1>2. ASSUME NEW s \in SUBSET T, \A x \in s : s \ {x} \in Good
      PROVE  s \in Good
  <2>1. CASE s = {}
    BY <1>1, <2>1
  <2>2. CASE s # {}
    <3>1. Pick(s) \in s
      BY <2>2, PickFacts
    <3>2. g[s \ {Pick(s)}] = h[s \ {Pick(s)}]
      BY <1>2, <3>1
    <3> QED
      BY <1>1, <2>2, <3>2
  <2> QED
    BY <2>1, <2>2
<1> HIDE DEF Good
<1>3. \A s \in SUBSET T : s \in Good
  BY <1>2, SubsetInduction
<1> QED
  BY <1>3 DEF Good

\* A finite set has a table.
LEMMA TableExists ==
    ASSUME NEW f, NEW S, IsFiniteSet(S)
    PROVE  \E g : IsSumTable(g, f, S)
<1> DEFINE Has(T) == \E g : IsSumTable(g, f, T)
           V(T) == SumFunctionOnSet(f, T)
           Good == {T \in SUBSET S : \A u \in SUBSET T : Has(u)}
<1>1. ASSUME NEW T \in SUBSET S, \A x \in T : T \ {x} \in Good
      PROVE  T \in Good
  <2>1. \A u \in SUBSET T : u # T => Has(u)
    <3> SUFFICES ASSUME NEW u \in SUBSET T, u # T PROVE Has(u)
      OBVIOUS
    <3>1. PICK x \in T : x \notin u
      OBVIOUS
    <3>2. u \in SUBSET (T \ {x}) /\ T \ {x} \in Good
      BY <1>1, <3>1
    <3> QED
      BY <3>2
  <2>2. \A u \in SUBSET T : u # T =>
            V(u) = IF u = {} THEN 0 ELSE f[Pick(u)] + V(u \ {Pick(u)})
    <3> SUFFICES ASSUME NEW u \in SUBSET T, u # T
                 PROVE  V(u) = IF u = {} THEN 0 ELSE f[Pick(u)] + V(u \ {Pick(u)})
      OBVIOUS
    <3> DEFINE h == CHOOSE g : IsSumTable(g, f, u)
               rest == u \ {Pick(u)}
               k == CHOOSE g : IsSumTable(g, f, rest)
    <3>1. IsSumTable(h, f, u) /\ V(u) = h[u]
      BY <2>1, SumIsChosen
    <3>2. h[u] = IF u = {} THEN 0 ELSE f[Pick(u)] + h[rest]
      <4> HIDE DEF h
      <4> QED
        BY <3>1 DEF IsSumTable
    <3>3. IsSumTable(k, f, rest) /\ V(rest) = k[rest]
      <4>1. Has(rest)
        BY <2>1
      <4> QED
        BY <4>1, SumIsChosen
    <3>4. h[rest] = k[rest]
      <4>1. IsFiniteSet(rest)
        BY FS_Subset
      <4> HIDE DEF h, k
      <4>2. rest \subseteq u
        OBVIOUS
      <4> HIDE DEF rest
      <4> QED
        BY <3>1, <3>3, <4>1, <4>2, TablesAgree
    <3> QED
      BY <3>1, <3>2, <3>3, <3>4
  <2> DEFINE g == [s \in SUBSET T |-> IF s = {} THEN 0 ELSE f[Pick(s)] + V(s \ {Pick(s)})]
  <2> HIDE DEF V
  <2>3. \A s \in SUBSET T : s # {} => g[s \ {Pick(s)}] = V(s \ {Pick(s)})
    <3> SUFFICES ASSUME NEW s \in SUBSET T, s # {}
                 PROVE  g[s \ {Pick(s)}] = V(s \ {Pick(s)})
      OBVIOUS
    <3>1. s \ {Pick(s)} \in SUBSET T /\ s \ {Pick(s)} # T
      BY PickFacts
    <3> DEFINE u == s \ {Pick(s)}
    <3>2. u \in SUBSET T /\ u # T
      BY <3>1
    <3> HIDE DEF u
    <3>3. g[u] = IF u = {} THEN 0 ELSE f[Pick(u)] + V(u \ {Pick(u)})
      BY <3>2
    <3>4. g[u] = V(u)
      BY <2>2, <3>2, <3>3
    <3> QED
      BY <3>4 DEF u
  <2>4. g = [s \in SUBSET T |-> IF s = {} THEN 0 ELSE f[Pick(s)] + g[s \ {Pick(s)}]]
    BY <2>3
  <2> HIDE DEF g
  <2>5. Has(T)
    BY <2>4 DEF IsSumTable
  <2> QED
    BY <2>1, <2>5
<1> HIDE DEF Good
<1>2. \A T \in SUBSET S : T \in Good
  BY <1>1, SubsetInduction
<1>3. S \in Good
  BY <1>2
<1> QED
  BY <1>3 DEF Good

\* So the sum satisfies its recursion.
LEMMA SumRecursion ==
    ASSUME NEW f, NEW S, IsFiniteSet(S)
    PROVE  SumFunctionOnSet(f, S) =
             IF S = {} THEN 0
             ELSE f[Pick(S)] + SumFunctionOnSet(f, S \ {Pick(S)})
<1> DEFINE rest == S \ {Pick(S)}
           h == CHOOSE g : IsSumTable(g, f, S)
           k == CHOOSE g : IsSumTable(g, f, rest)
<1>1. IsFiniteSet(rest) /\ rest \subseteq S
  BY FS_Subset
<1>2. IsSumTable(h, f, S) /\ SumFunctionOnSet(f, S) = h[S]
  BY TableExists, SumIsChosen
<1> HIDE DEF rest
<1>3. IsSumTable(k, f, rest) /\ SumFunctionOnSet(f, rest) = k[rest]
  BY <1>1, TableExists, SumIsChosen
<1> HIDE DEF h, k
<1>4. h[rest] = k[rest]
  BY <1>1, <1>2, <1>3, TablesAgree
<1>5. h[S] = IF S = {} THEN 0 ELSE f[Pick(S)] + h[rest]
  BY <1>2 DEF IsSumTable, rest
<1> QED
  BY <1>2, <1>3, <1>4, <1>5 DEF rest

\* A sum of integers is an integer.
LEMMA SumInt ==
    ASSUME NEW S, IsFiniteSet(S), NEW f, \A x \in S : f[x] \in Int
    PROVE  SumFunctionOnSet(f, S) \in Int
<1> DEFINE Good == {T \in SUBSET S : SumFunctionOnSet(f, T) \in Int}
<1>1. ASSUME NEW T \in SUBSET S, \A x \in T : T \ {x} \in Good
      PROVE  T \in Good
  <2>1. IsFiniteSet(T)
    BY FS_Subset
  <2>2. CASE T = {}
    <3>1. SumFunctionOnSet(f, T) = 0
      BY <2>1, <2>2, SumRecursion
    <3> QED
      BY <3>1
  <2>3. CASE T # {}
    <3>1. f[Pick(T)] \in Int /\ SumFunctionOnSet(f, T \ {Pick(T)}) \in Int
      BY <1>1, <2>3, PickFacts
    <3>2. SumFunctionOnSet(f, T) = f[Pick(T)] + SumFunctionOnSet(f, T \ {Pick(T)})
      BY <2>1, <2>3, SumRecursion
    <3> QED
      BY <3>1, <3>2
  <2> QED
    BY <2>2, <2>3
<1> HIDE DEF Good
<1>2. S \in Good
  BY <1>1, SubsetInduction
<1> QED
  BY <1>2 DEF Good

\* A sum of natural numbers is a natural number.
LEMMA SumNat ==
    ASSUME NEW S, IsFiniteSet(S), NEW f, \A x \in S : f[x] \in Nat
    PROVE  SumFunctionOnSet(f, S) \in Nat
<1> DEFINE Good == {T \in SUBSET S : SumFunctionOnSet(f, T) \in Nat}
<1>1. ASSUME NEW T \in SUBSET S, \A x \in T : T \ {x} \in Good
      PROVE  T \in Good
  <2>1. IsFiniteSet(T)
    BY FS_Subset
  <2>2. T # {} => f[Pick(T)] \in Nat /\ T \ {Pick(T)} \in Good
    BY <1>1, PickFacts
  <2> QED
    BY <2>1, <2>2, SumRecursion
<1> HIDE DEF Good
<1>2. S \in Good
  BY <1>1, SubsetInduction
<1> QED
  BY <1>2 DEF Good

\* A sum depends on what is summed only.
LEMMA SumAgree ==
    ASSUME NEW S, IsFiniteSet(S), NEW f, NEW g, \A x \in S : f[x] = g[x]
    PROVE  SumFunctionOnSet(f, S) = SumFunctionOnSet(g, S)
<1> DEFINE Good == {T \in SUBSET S : SumFunctionOnSet(f, T) = SumFunctionOnSet(g, T)}
<1>1. ASSUME NEW T \in SUBSET S, \A x \in T : T \ {x} \in Good
      PROVE  T \in Good
  <2>1. IsFiniteSet(T)
    BY FS_Subset
  <2>2. T # {} => f[Pick(T)] = g[Pick(T)] /\ T \ {Pick(T)} \in Good
    BY <1>1, PickFacts
  <2> QED
    BY <2>1, <2>2, SumRecursion
<1> HIDE DEF Good
<1>2. S \in Good
  BY <1>1, SubsetInduction
<1> QED
  BY <1>2 DEF Good

\* Any element may be taken out of a sum, not only the one picked.
LEMMA SumSplit ==
    ASSUME NEW S, IsFiniteSet(S), NEW f, \A x \in S : f[x] \in Int, NEW x \in S
    PROVE  SumFunctionOnSet(f, S) = f[x] + SumFunctionOnSet(f, S \ {x})
<1> DEFINE Sum(T) == SumFunctionOnSet(f, T)
           Good == {T \in SUBSET S : \A y \in T : Sum(T) = f[y] + Sum(T \ {y})}
<1>1. \A T \in SUBSET S : IsFiniteSet(T) /\ Sum(T) \in Int
  BY FS_Subset, SumInt
<1>2. ASSUME NEW T \in SUBSET S, \A y \in T : T \ {y} \in Good
      PROVE  T \in Good
  <2> SUFFICES ASSUME NEW y \in T PROVE Sum(T) = f[y] + Sum(T \ {y})
    BY DEF Good
  <2> DEFINE p == Pick(T)
  <2>1. p \in T /\ Sum(T) = f[p] + Sum(T \ {p})
    BY <1>1, PickFacts, SumRecursion
  <2> HIDE DEF p, Sum
  <2>2. CASE y = p
    BY <2>1, <2>2
  <2>3. CASE y # p
    <3>1. Sum(T \ {p}) = f[y] + Sum((T \ {p}) \ {y})
      BY <1>2, <2>1, <2>3
    <3>2. Sum(T \ {y}) = f[p] + Sum((T \ {y}) \ {p})
      BY <1>2, <2>1, <2>3
    <3>3. (T \ {p}) \ {y} = (T \ {y}) \ {p}
      OBVIOUS
    <3>4. f[p] \in Int /\ f[y] \in Int /\ Sum((T \ {y}) \ {p}) \in Int
      BY <1>1, <2>1
    <3>5. Sum(T) = f[p] + (f[y] + Sum((T \ {y}) \ {p}))
      BY <2>1, <3>1, <3>3
    <3>6. \A a, b, c \in Int : a + (b + c) = b + (a + c)
      OBVIOUS
    <3>7. Sum(T) = f[y] + (f[p] + Sum((T \ {y}) \ {p}))
      BY <3>4, <3>5, <3>6
    <3> QED
      BY <3>2, <3>7
  <2> QED
    BY <2>2, <2>3
<1> HIDE DEF Good
<1>3. S \in Good
  BY <1>2, SubsetInduction
<1> QED
  BY <1>3 DEF Good

-----------------------------------------------------------------------------
\* The total of a function: the sum over its whole domain.

\* The total of integers is an integer.
LEMMA TotalInt ==
    ASSUME NEW S, IsFiniteSet(S), NEW f \in [S -> Int]
    PROVE  SumFunction(f) \in Int
  BY SumInt DEF SumFunction

\* The total of natural numbers is a natural number.
LEMMA TotalNat ==
    ASSUME NEW S, IsFiniteSet(S), NEW f \in [S -> Nat]
    PROVE  SumFunction(f) \in Nat
  BY SumNat DEF SumFunction

\* Zeros amount to zero.
LEMMA TotalOfNothing ==
    ASSUME NEW S, IsFiniteSet(S), NEW f \in [S -> {0}]
    PROVE  SumFunction(f) = 0
<1> DEFINE Good == {T \in SUBSET S : SumFunctionOnSet(f, T) = 0}
<1>1. ASSUME NEW T \in SUBSET S, \A x \in T : T \ {x} \in Good
      PROVE  T \in Good
  <2>1. IsFiniteSet(T)
    BY FS_Subset
  <2>2. CASE T = {}
    <3>1. SumFunctionOnSet(f, T) = 0
      BY <2>1, <2>2, SumRecursion
    <3> QED
      BY <3>1
  <2>3. CASE T # {}
    <3>1. f[Pick(T)] = 0 /\ SumFunctionOnSet(f, T \ {Pick(T)}) = 0
      BY <1>1, <2>3, PickFacts
    <3>2. SumFunctionOnSet(f, T) = f[Pick(T)] + SumFunctionOnSet(f, T \ {Pick(T)})
      BY <2>1, <2>3, SumRecursion
    <3> QED
      BY <3>1, <3>2
  <2> QED
    BY <2>2, <2>3
<1> HIDE DEF Good
<1>2. S \in Good
  BY <1>1, SubsetInduction
<1> QED
  BY <1>2 DEF Good, SumFunction

\* One more summand.
LEMMA TotalJoined ==
    ASSUME NEW S, IsFiniteSet(S), NEW x, x \notin S,
           NEW f \in [S -> Int], NEW g \in [S \cup {x} -> Int],
           \A y \in S : g[y] = f[y]
    PROVE  SumFunction(g) = SumFunction(f) + g[x]
<1>1. IsFiniteSet(S \cup {x}) /\ (S \cup {x}) \ {x} = S
  BY FS_AddElement
<1>2. SumFunctionOnSet(g, S \cup {x}) = g[x] + SumFunctionOnSet(g, S)
  <2>1. x \in S \cup {x} /\ \A y \in S \cup {x} : g[y] \in Int
    OBVIOUS
  <2> QED
    BY <1>1, <2>1, SumSplit
<1>3. SumFunctionOnSet(g, S) = SumFunctionOnSet(f, S)
  BY SumAgree
<1>4. g[x] \in Int /\ SumFunctionOnSet(f, S) \in Int
  BY SumInt
<1> QED
  BY <1>2, <1>3, <1>4 DEF SumFunction

\* One summand changes.
LEMMA TotalUpdated ==
    ASSUME NEW S, IsFiniteSet(S), NEW x \in S,
           NEW f \in [S -> Int], NEW g \in [S -> Int],
           \A y \in S : y # x => g[y] = f[y]
    PROVE  SumFunction(g) = SumFunction(f) + (g[x] - f[x])
<1>1. /\ SumFunctionOnSet(g, S) = g[x] + SumFunctionOnSet(g, S \ {x})
      /\ SumFunctionOnSet(f, S) = f[x] + SumFunctionOnSet(f, S \ {x})
  BY SumSplit
<1>2. IsFiniteSet(S \ {x})
  BY FS_Subset
<1>3. SumFunctionOnSet(g, S \ {x}) = SumFunctionOnSet(f, S \ {x})
  BY <1>2, SumAgree
<1>4. g[x] \in Int /\ f[x] \in Int /\ SumFunctionOnSet(f, S \ {x}) \in Int
  BY <1>2, SumInt
<1> QED
  BY <1>1, <1>3, <1>4 DEF SumFunction

\* No part exceeds the total.
LEMMA PartOfTotal ==
    ASSUME NEW S, IsFiniteSet(S), NEW f \in [S -> Nat], NEW x \in S
    PROVE  f[x] <= SumFunction(f)
<1>1. SumFunctionOnSet(f, S) = f[x] + SumFunctionOnSet(f, S \ {x})
  BY SumSplit
<1>2. SumFunctionOnSet(f, S \ {x}) \in Nat
  <2>1. IsFiniteSet(S \ {x})
    BY FS_Subset
  <2> QED
    BY <2>1, SumNat
<1> QED
  BY <1>1, <1>2 DEF SumFunction

-----------------------------------------------------------------------------
\* Division, and the decay of the EVM rate limiter.

\* A quotient is the number of whole divisors that fit.
LEMMA DivFacts ==
    ASSUME NEW n \in Nat, NEW w \in Nat, w > 0
    PROVE  /\ n \div w \in Nat
           /\ w * (n \div w) <= n
           /\ n < w * (n \div w) + w
  BY Z3

\* A quotient is at least any q whose product with w fits.
LEMMA DivLower ==
    ASSUME NEW n \in Nat, NEW w \in Nat, w > 0, NEW q \in Nat, w * q <= n
    PROVE  q <= n \div w
<1> DEFINE d == n \div w
<1>1. d \in Nat /\ n < w * d + w
  BY DivFacts
<1>2. SUFFICES ASSUME d < q PROVE FALSE
  BY <1>1
<1>3. w * q >= w * (d + 1)
  BY <1>1, <1>2
<1>4. w * (d + 1) = w * d + w
  BY <1>1
<1> QED
  BY <1>1, <1>3, <1>4

\* Rounding at a checkpoint in between never adds decay.
LEMMA DecaySuperadditive ==
    ASSUME NEW l \in Nat, NEW e1 \in Nat, NEW e2 \in Nat, NEW w \in Nat, w > 0
    PROVE  Decay(l, e1, w) + Decay(l, e2, w) <= Decay(l, e1 + e2, w)
<1> DEFINE a == (l * e1) \div w
           b == (l * e2) \div w
<1>1. l * e1 \in Nat /\ l * e2 \in Nat /\ l * (e1 + e2) \in Nat
  OBVIOUS
<1>2. a \in Nat /\ b \in Nat /\ w * a <= l * e1 /\ w * b <= l * e2
  BY <1>1, DivFacts
<1>3. w * (a + b) <= l * (e1 + e2)
  <2>1. w * (a + b) = w * a + w * b
    BY <1>2
  <2>2. l * (e1 + e2) = l * e1 + l * e2
    OBVIOUS
  <2> QED
    BY <1>1, <1>2, <2>1, <2>2
<1>4. a + b \in Nat
  BY <1>2
<1> QED
  BY <1>1, <1>3, <1>4, DivLower DEF Decay

-----------------------------------------------------------------------------
\* A whole window of decay covers the limit.
LEMMA DecayOfAWindow ==
    ASSUME NEW l \in Nat, NEW e \in Nat, NEW w \in Nat, w > 0, e >= w
    PROVE  l <= Decay(l, e, w)
<1>1. w * l <= l * e
  BY Z3
<1>2. l * e \in Nat
  OBVIOUS
<1> QED
  BY <1>1, <1>2, DivLower DEF Decay

\* A decay is a natural number.
LEMMA DecayNat ==
    ASSUME NEW l \in Nat, NEW e \in Nat, NEW w \in Nat, w > 0
    PROVE  Decay(l, e, w) \in Nat
<1>1. l * e \in Nat
  OBVIOUS
<1> QED
  BY <1>1, DivFacts DEF Decay

\* Decay grows with time.
LEMMA DecayMonotone ==
    ASSUME NEW l \in Nat, NEW e1 \in Nat, NEW e2 \in Nat, NEW w \in Nat, w > 0,
           e1 <= e2
    PROVE  Decay(l, e1, w) <= Decay(l, e2, w)
<1>1. e2 - e1 \in Nat /\ e1 + (e2 - e1) = e2
  OBVIOUS
<1>2. Decay(l, e1, w) + Decay(l, e2 - e1, w) <= Decay(l, e2, w)
  BY <1>1, DecaySuperadditive
<1> QED
  BY <1>1, <1>2, DecayNat

-----------------------------------------------------------------------------
\* One rate limit of the EVM rate limiter.

\* What is in flight now is at most what was stored.
LEMMA CurrentBound ==
    ASSUME NEW rl \in RateLimit, NEW t \in Nat, rl.lastUpdated <= t
    PROVE  /\ Elapsed(rl, t) \in Nat
           /\ CurrentAmountInFlight(rl, t) \in Nat
           /\ CurrentAmountInFlight(rl, t) <= rl.amountInFlight
<1>1. rl.amountInFlight \in Nat /\ rl.limit \in Nat /\ rl.window \in Nat
      /\ rl.lastUpdated \in Nat
  BY MaxUintAssumption DEF RateLimit
<1>2. Elapsed(rl, t) \in Nat
  BY <1>1 DEF Elapsed
<1>3. CASE Elapsed(rl, t) >= rl.window
  BY <1>1, <1>2, <1>3 DEF CurrentAmountInFlight
<1>4. CASE ~(Elapsed(rl, t) >= rl.window)
  <2>1. rl.window > 0
    BY <1>1, <1>2, <1>4
  <2>2. Decay(rl.limit, Elapsed(rl, t), rl.window) \in Nat
    BY <1>1, <1>2, <2>1, DecayNat
  <2> QED
    BY <1>1, <1>2, <1>4, <2>2 DEF CurrentAmountInFlight, Monus
<1> QED
  BY <1>3, <1>4

\* What left the in-flight amount is covered by the decay of the elapsed time.
LEMMA InFlightDecays ==
    ASSUME NEW rl \in RateLimit, NEW t \in Nat, rl.lastUpdated <= t,
           rl.window > 0, rl.amountInFlight <= rl.limit
    PROVE  rl.amountInFlight <= CurrentAmountInFlight(rl, t)
                                  + Decay(rl.limit, Elapsed(rl, t), rl.window)
<1>1. rl.amountInFlight \in Nat /\ rl.limit \in Nat /\ rl.window \in Nat
  BY MaxUintAssumption DEF RateLimit
<1>2. Elapsed(rl, t) \in Nat
  BY CurrentBound
<1>3. Decay(rl.limit, Elapsed(rl, t), rl.window) \in Nat
  BY <1>1, <1>2, DecayNat
<1>4. CASE Elapsed(rl, t) >= rl.window
  <2>1. rl.limit <= Decay(rl.limit, Elapsed(rl, t), rl.window)
    BY <1>1, <1>2, <1>4, DecayOfAWindow
  <2> QED
    BY <1>1, <1>3, <1>4, <2>1 DEF CurrentAmountInFlight
<1>5. CASE ~(Elapsed(rl, t) >= rl.window)
  BY <1>1, <1>3, <1>5 DEF CurrentAmountInFlight, Monus
<1> QED
  BY <1>4, <1>5

\* A charge within the capacity: well-typed, dated, and not over the limit.
LEMMA ChargeFacts ==
    ASSUME NEW rl \in RateLimit, NEW t \in Nat, rl.lastUpdated <= t,
           NEW amount \in Nat, amount <= AvailableCapacity(rl, t)
    PROVE  /\ Charge(rl, amount, t) \in RateLimit
           /\ Charge(rl, amount, t).amountInFlight = CurrentAmountInFlight(rl, t) + amount
           /\ Charge(rl, amount, t).lastUpdated = t
           /\ Charge(rl, amount, t).limit = rl.limit
           /\ Charge(rl, amount, t).window = rl.window
           /\ \/ Charge(rl, amount, t).amountInFlight <= rl.limit
              \/ amount = 0
<1>1. CurrentAmountInFlight(rl, t) \in Nat
      /\ CurrentAmountInFlight(rl, t) <= rl.amountInFlight
  BY CurrentBound
<1>2. rl.amountInFlight \in 0..MaxUint /\ rl.limit \in 0..MaxUint /\ MaxUint \in Nat
  BY MaxUintAssumption DEF RateLimit
<1>3. \/ CurrentAmountInFlight(rl, t) + amount <= rl.limit
      \/ amount = 0
  BY <1>1, <1>2 DEF AvailableCapacity, Monus
<1>4. CurrentAmountInFlight(rl, t) + amount \in 0..MaxUint
  BY <1>1, <1>2, <1>3
<1> QED
  BY <1>3, <1>4 DEF Charge, RateLimit

\* A relief: well-typed, dated, and cut off at zero.
LEMMA RelieveFacts ==
    ASSUME NEW rl \in RateLimit, NEW t \in Nat, rl.lastUpdated <= t, NEW amount \in Nat
    PROVE  /\ Relieve(rl, amount, t) \in RateLimit
           /\ Relieve(rl, amount, t).amountInFlight
                 = Monus(CurrentAmountInFlight(rl, t), amount)
           /\ Relieve(rl, amount, t).lastUpdated = t
           /\ Relieve(rl, amount, t).limit = rl.limit
           /\ Relieve(rl, amount, t).window = rl.window
<1>1. CurrentAmountInFlight(rl, t) \in Nat
      /\ CurrentAmountInFlight(rl, t) <= rl.amountInFlight
  BY CurrentBound
<1>2. rl.amountInFlight \in 0..MaxUint /\ MaxUint \in Nat
  BY MaxUintAssumption DEF RateLimit
<1>3. Monus(CurrentAmountInFlight(rl, t), amount) \in 0..MaxUint
  BY <1>1, <1>2 DEF Monus
<1> QED
  BY <1>3 DEF Relieve, RateLimit

-----------------------------------------------------------------------------
\* The two rate limits of one eid at time t.

PairOK(pair, t) ==
    pair \in RateLimitPair /\ \A d \in Directions : pair[d].lastUpdated <= t

\* There are two directions, each the opposite of the other.
LEMMA Opposites ==
    \A d \in Directions : /\ Opposite(d) \in Directions
                          /\ Opposite(d) # d
                          /\ Directions = {d, Opposite(d)}
  BY DEF Directions, Opposite

\* _checkAndUpdateRateLimit charges one direction and may relieve the other.
LEMMA CheckAndUpdateFacts ==
    ASSUME NEW pair, NEW t \in Nat, PairOK(pair, t), NEW d \in Directions,
           NEW amount \in Nat, NEW accounting,
           ~CheckAndUpdateReverts(pair, d, amount, accounting, t)
    PROVE  LET new == CheckAndUpdateRateLimit(pair, d, amount, accounting, t)
           IN /\ PairOK(new, t)
              /\ new[d] = Charge(pair[d], amount, t)
              /\ new[Opposite(d)] = IF accounting = "Net"
                                     THEN Relieve(pair[Opposite(d)], amount, t)
                                     ELSE pair[Opposite(d)]
<1> DEFINE new == CheckAndUpdateRateLimit(pair, d, amount, accounting, t)
<1>1. /\ pair \in [Directions -> RateLimit]
      /\ pair[d] \in RateLimit /\ pair[Opposite(d)] \in RateLimit
      /\ pair[d].lastUpdated <= t /\ pair[Opposite(d)].lastUpdated <= t
  BY Opposites DEF PairOK, RateLimitPair
<1>2. amount <= AvailableCapacity(pair[d], t)
  <2>1. AvailableCapacity(pair[d], t) \in Nat
    BY <1>1, CurrentBound, MaxUintAssumption DEF AvailableCapacity, Monus, RateLimit
  <2> QED
    BY <2>1 DEF CheckAndUpdateReverts
<1>3. /\ Charge(pair[d], amount, t) \in RateLimit
      /\ Charge(pair[d], amount, t).lastUpdated = t
  BY <1>1, <1>2, ChargeFacts
<1>4. /\ Relieve(pair[Opposite(d)], amount, t) \in RateLimit
      /\ Relieve(pair[Opposite(d)], amount, t).lastUpdated = t
  BY <1>1, RelieveFacts
<1>5. /\ new[d] = Charge(pair[d], amount, t)
      /\ new[Opposite(d)] = IF accounting = "Net"
                             THEN Relieve(pair[Opposite(d)], amount, t)
                             ELSE pair[Opposite(d)]
      /\ new \in [Directions -> RateLimit]
  BY <1>1, <1>3, <1>4, Opposites DEF CheckAndUpdateRateLimit
<1>6. new[d].lastUpdated <= t /\ new[Opposite(d)].lastUpdated <= t
  BY <1>1, <1>3, <1>4, <1>5
<1>7. \A e \in Directions : new[e].lastUpdated <= t
  BY <1>6, Opposites
<1> HIDE DEF new
<1>8. PairOK(new, t)
  BY <1>5, <1>7 DEF PairOK, RateLimitPair
<1> QED
  BY <1>5, <1>8 DEF new

\* A checkpoint leaves the opposite rate limit alone or relieves it by 0.
LEMMA SetRateLimitFacts ==
    ASSUME NEW pair, NEW t \in Nat, PairOK(pair, t), NEW d \in Directions,
           NEW config \in [limit : 0..MaxUint, window : Nat], NEW accounting,
           ~CheckAndUpdateReverts(pair, d, 0, accounting, t)
    PROVE  LET new == SetRateLimit(pair, d, config, accounting, t)
           IN /\ PairOK(new, t)
              /\ new[d] = Configured(Charge(pair[d], 0, t), config)
              /\ new[Opposite(d)] = IF accounting = "Net"
                                     THEN Relieve(pair[Opposite(d)], 0, t)
                                     ELSE pair[Opposite(d)]
<1> DEFINE mid == CheckAndUpdateRateLimit(pair, d, 0, accounting, t)
           new == SetRateLimit(pair, d, config, accounting, t)
<1>1. /\ PairOK(mid, t)
      /\ mid[d] = Charge(pair[d], 0, t)
      /\ mid[Opposite(d)] = IF accounting = "Net"
                             THEN Relieve(pair[Opposite(d)], 0, t)
                             ELSE pair[Opposite(d)]
  BY CheckAndUpdateFacts
<1> HIDE DEF mid
<1>2. mid \in [Directions -> RateLimit] /\ \A e \in Directions : mid[e].lastUpdated <= t
  BY <1>1 DEF PairOK, RateLimitPair
<1>3. mid[d] \in RateLimit /\ mid[d].lastUpdated <= t
  BY <1>2
<1>4. Configured(mid[d], config) \in RateLimit
      /\ Configured(mid[d], config).lastUpdated = mid[d].lastUpdated
  BY <1>3 DEF Configured, RateLimit
<1>5. new = [mid EXCEPT ![d] = Configured(@, config)]
  BY DEF new, mid, SetRateLimit
<1> HIDE DEF new
<1>6. /\ new \in [Directions -> RateLimit]
      /\ new[d] = Configured(mid[d], config)
      /\ new[Opposite(d)] = mid[Opposite(d)]
  BY <1>2, <1>4, <1>5, Opposites
<1>7. \A e \in Directions : new[e].lastUpdated <= t
  BY <1>2, <1>3, <1>4, <1>6, Opposites
<1>8. PairOK(new, t)
  BY <1>6, <1>7 DEF PairOK, RateLimitPair
<1> QED
  BY <1>1, <1>6, <1>8 DEF new

\* A reset leaves the opposite direction alone.
LEMMA ResetRateLimitFacts ==
    ASSUME NEW pair, NEW t \in Nat, PairOK(pair, t), NEW d \in Directions
    PROVE  LET new == ResetRateLimit(pair, d, t)
           IN /\ PairOK(new, t)
              /\ new[Opposite(d)] = pair[Opposite(d)]
<1> DEFINE new == ResetRateLimit(pair, d, t)
<1>1. pair \in [Directions -> RateLimit] /\ \A e \in Directions : pair[e].lastUpdated <= t
  BY DEF PairOK, RateLimitPair
<1> DEFINE rl == [pair[d] EXCEPT !.amountInFlight = 0, !.lastUpdated = t]
<1>2. rl \in RateLimit /\ rl.lastUpdated = t
  <2>1. pair[d] \in RateLimit /\ 0 \in 0..MaxUint
    BY <1>1, MaxUintAssumption
  <2> QED
    BY <2>1 DEF RateLimit
<1>3. new = [pair EXCEPT ![d] = rl]
  BY DEF ResetRateLimit
<1> HIDE DEF rl, new
<1>4. /\ new \in [Directions -> RateLimit]
      /\ new[d] = rl
      /\ new[Opposite(d)] = pair[Opposite(d)]
  BY <1>1, <1>2, <1>3, Opposites
<1>5. \A e \in Directions : new[e].lastUpdated <= t
  BY <1>1, <1>2, <1>4, Opposites
<1> QED
  BY <1>4, <1>5 DEF PairOK, RateLimitPair, new

-----------------------------------------------------------------------------
\* setRateLimits and resetRateLimits, first on one eid, then on all of them.

ConfigsOK(configs) ==
    \A eid \in DOMAIN configs : configs[eid] \in [limit : 0..MaxUint, window : Nat]


\* One iteration of _setRateLimits: a checkpoint, then the new configuration.
LEMMA ListedFacts ==
    ASSUME NEW t \in Nat, NEW pair, PairOK(pair, t), NEW d \in Directions,
           NEW eid, NEW configs, ConfigsOK(configs), NEW accounting,
           ~SetIfListedReverts(pair, eid, d, configs, accounting, t)
    PROVE  LET new == SetIfListed(pair, eid, d, configs, accounting, t)
           IN /\ PairOK(new, t)
              /\ eid \notin DOMAIN configs => new = pair
              /\ eid \in DOMAIN configs =>
                    new[d] = Configured(Charge(pair[d], 0, t), configs[eid])
              /\ \/ new[Opposite(d)] = pair[Opposite(d)]
                 \/ new[Opposite(d)] = Relieve(pair[Opposite(d)], 0, t)
<1>1. CASE eid \notin DOMAIN configs
  BY <1>1 DEF SetIfListed
<1>2. CASE eid \in DOMAIN configs
  <2>1. configs[eid] \in [limit : 0..MaxUint, window : Nat]
    BY <1>2 DEF ConfigsOK
  <2>2. ~CheckAndUpdateReverts(pair, d, 0, accounting, t)
    BY <1>2 DEF SetIfListedReverts
  <2>3. SetIfListed(pair, eid, d, configs, accounting, t)
          = SetRateLimit(pair, d, configs[eid], accounting, t)
    BY <1>2 DEF SetIfListed
  <2>4. LET new == SetRateLimit(pair, d, configs[eid], accounting, t)
        IN /\ PairOK(new, t)
           /\ new[d] = Configured(Charge(pair[d], 0, t), configs[eid])
           /\ new[Opposite(d)] = IF accounting = "Net"
                                  THEN Relieve(pair[Opposite(d)], 0, t)
                                  ELSE pair[Opposite(d)]
    BY <2>1, <2>2, SetRateLimitFacts
  <2> QED
    BY <1>2, <2>3, <2>4
<1> QED
  BY <1>1, <1>2

\* One iteration of _resetRateLimits.
LEMMA ResetListedFacts ==
    ASSUME NEW t \in Nat, NEW pair, PairOK(pair, t), NEW d \in Directions,
           NEW eid, NEW eids
    PROVE  LET new == ResetIfListed(pair, eid, d, eids, t)
           IN /\ PairOK(new, t)
              /\ eid \notin eids => new = pair
              /\ new[Opposite(d)] = pair[Opposite(d)]
  BY ResetRateLimitFacts DEF ResetIfListed

\* setRateLimits keeps every pair well-typed and dated in the past.
LEMMA SetAllFacts ==
    ASSUME NEW t \in Nat, NEW E, NEW limits \in [E -> RateLimitPair],
           \A eid \in E : PairOK(limits[eid], t), NEW accounting,
           NEW inbound, ConfigsOK(inbound), NEW outbound, ConfigsOK(outbound),
           ~SetReverts(limits, inbound, outbound, accounting, t)
    PROVE  LET new == SetAll(limits, inbound, outbound, accounting, t)
           IN new \in [E -> RateLimitPair] /\ \A eid \in E : PairOK(new[eid], t)
<1> DEFINE new == SetAll(limits, inbound, outbound, accounting, t)
<1>1. ASSUME NEW eid \in E
      PROVE  PairOK(new[eid], t)
  <2> DEFINE mid == SetIfListed(limits[eid], eid, "Inbound", inbound, accounting, t)
  <2>1. /\ ~SetIfListedReverts(limits[eid], eid, "Inbound", inbound, accounting, t)
        /\ ~SetIfListedReverts(mid, eid, "Outbound", outbound, accounting, t)
        /\ new[eid] = SetIfListed(mid, eid, "Outbound", outbound, accounting, t)
    BY DEF SetReverts, SetAll
  <2>2. PairOK(mid, t)
    BY <2>1, ListedFacts DEF Directions
  <2> HIDE DEF mid, new
  <2>3. "Outbound" \in Directions
    BY DEF Directions
  <2>4. PairOK(SetIfListed(mid, eid, "Outbound", outbound, accounting, t), t)
    BY <2>1, <2>2, <2>3, ListedFacts
  <2> QED
    BY <2>1, <2>4
<1>2. new \in [E -> RateLimitPair]
  BY <1>1 DEF SetAll, PairOK
<1> QED
  BY <1>1, <1>2

\* resetRateLimits keeps every pair well-typed and dated in the past.
LEMMA ResetAllFacts ==
    ASSUME NEW t \in Nat, NEW E, NEW limits \in [E -> RateLimitPair],
           \A eid \in E : PairOK(limits[eid], t), NEW inbound, NEW outbound
    PROVE  LET new == ResetAll(limits, inbound, outbound, t)
           IN new \in [E -> RateLimitPair] /\ \A eid \in E : PairOK(new[eid], t)
<1> DEFINE new == ResetAll(limits, inbound, outbound, t)
<1>1. ASSUME NEW eid \in E
      PROVE  PairOK(new[eid], t)
  <2> DEFINE mid == ResetIfListed(limits[eid], eid, "Inbound", inbound, t)
  <2>1. new[eid] = ResetIfListed(mid, eid, "Outbound", outbound, t)
    BY DEF ResetAll
  <2>2. PairOK(mid, t)
    BY ResetListedFacts DEF Directions
  <2> HIDE DEF mid, new
  <2> QED
    BY <2>1, <2>2, ResetListedFacts DEF Directions
<1>2. new \in [E -> RateLimitPair]
  BY <1>1 DEF ResetAll, PairOK
<1> QED
  BY <1>1, <1>2

\* What is well-typed now is well-typed later.
LEMMA PairLater ==
    ASSUME NEW pair, NEW t \in Nat, NEW u \in Nat, t <= u, PairOK(pair, t)
    PROVE  PairOK(pair, u)
  BY DEF PairOK, RateLimitPair, RateLimit

-----------------------------------------------------------------------------
\* The current in-flight amount over time and over a checkpoint.

\* What is in flight only falls as time passes.
LEMMA CurrentFalls ==
    ASSUME NEW rl \in RateLimit, NEW t \in Nat, NEW u \in Nat,
           rl.lastUpdated <= t, t <= u
    PROVE  CurrentAmountInFlight(rl, u) <= CurrentAmountInFlight(rl, t)
<1>1. rl.amountInFlight \in Nat /\ rl.limit \in Nat /\ rl.window \in Nat
      /\ rl.lastUpdated \in Nat
  BY MaxUintAssumption DEF RateLimit
<1>2. /\ Elapsed(rl, t) \in Nat /\ Elapsed(rl, u) \in Nat
      /\ Elapsed(rl, t) <= Elapsed(rl, u)
  BY <1>1 DEF Elapsed
<1>3. CurrentAmountInFlight(rl, t) \in Nat
  BY CurrentBound
<1>4. CASE Elapsed(rl, u) >= rl.window
  BY <1>3, <1>4 DEF CurrentAmountInFlight
<1>5. CASE ~(Elapsed(rl, u) >= rl.window)
  <2>1. rl.window > 0 /\ ~(Elapsed(rl, t) >= rl.window)
    BY <1>1, <1>2, <1>5
  <2>2. /\ Decay(rl.limit, Elapsed(rl, t), rl.window) \in Nat
        /\ Decay(rl.limit, Elapsed(rl, u), rl.window) \in Nat
        /\ Decay(rl.limit, Elapsed(rl, t), rl.window)
             <= Decay(rl.limit, Elapsed(rl, u), rl.window)
    BY <1>1, <1>2, <2>1, DecayNat, DecayMonotone
  <2> QED
    BY <1>1, <1>5, <2>1, <2>2 DEF CurrentAmountInFlight, Monus
<1> QED
  BY <1>4, <1>5

\* At the time of a checkpoint nothing has decayed yet.
LEMMA FreshCurrent ==
    ASSUME NEW rl \in RateLimit, NEW t \in Nat, rl.lastUpdated = t, rl.window > 0
    PROVE  CurrentAmountInFlight(rl, t) = rl.amountInFlight
<1>1. rl.amountInFlight \in Nat /\ rl.limit \in Nat /\ rl.window \in Nat
  BY MaxUintAssumption DEF RateLimit
<1>2. Elapsed(rl, t) = 0
  BY DEF Elapsed
<1>3. Decay(rl.limit, 0, rl.window) = 0
  <2>1. rl.limit * 0 = 0
    BY <1>1
  <2>2. 0 \div rl.window \in Nat /\ rl.window * (0 \div rl.window) <= 0
    BY <1>1, DivFacts
  <2>3. 0 \div rl.window = 0
    BY <1>1, <2>2, Z3
  <2> QED
    BY <2>1, <2>3 DEF Decay
<1> QED
  BY <1>1, <1>2, <1>3 DEF CurrentAmountInFlight, Monus

\* A checkpoint, charged or relieved by 0, leaves what is in flight as it is.
LEMMA CheckpointKeepsCurrent ==
    ASSUME NEW rl \in RateLimit, NEW t \in Nat, rl.lastUpdated <= t
    PROVE  /\ CurrentAmountInFlight(Charge(rl, 0, t), t) = CurrentAmountInFlight(rl, t)
           /\ CurrentAmountInFlight(Relieve(rl, 0, t), t) = CurrentAmountInFlight(rl, t)
<1>1. rl.window \in Nat /\ rl.limit \in Nat
  BY MaxUintAssumption DEF RateLimit
<1>2. CurrentAmountInFlight(rl, t) \in Nat /\ Elapsed(rl, t) \in Nat
  BY CurrentBound
<1>3. 0 <= AvailableCapacity(rl, t)
  BY <1>1, <1>2 DEF AvailableCapacity, Monus
<1> DEFINE c == Charge(rl, 0, t)
           r == Relieve(rl, 0, t)
<1>4. /\ c \in RateLimit /\ c.lastUpdated = t /\ c.window = rl.window
      /\ c.amountInFlight = CurrentAmountInFlight(rl, t) + 0
  BY <1>3, ChargeFacts
<1>5. /\ r \in RateLimit /\ r.lastUpdated = t /\ r.window = rl.window
      /\ r.amountInFlight = Monus(CurrentAmountInFlight(rl, t), 0)
  BY RelieveFacts
<1> HIDE DEF c, r
<1>6. /\ c.amountInFlight = CurrentAmountInFlight(rl, t)
      /\ r.amountInFlight = CurrentAmountInFlight(rl, t)
  BY <1>2, <1>4, <1>5 DEF Monus
<1>7. CASE rl.window > 0
  BY <1>4, <1>5, <1>6, <1>7, FreshCurrent DEF c, r
<1>8. CASE rl.window = 0
  <2>1. CurrentAmountInFlight(rl, t) = 0
    BY <1>2, <1>8 DEF CurrentAmountInFlight
  <2>2. Elapsed(c, t) = 0 /\ Elapsed(r, t) = 0
    BY <1>4, <1>5 DEF Elapsed
  <2>3. CurrentAmountInFlight(c, t) = 0 /\ CurrentAmountInFlight(r, t) = 0
    BY <1>4, <1>5, <1>8, <2>2 DEF CurrentAmountInFlight
  <2> QED
    BY <2>1, <2>3 DEF c, r
<1> QED
  BY <1>1, <1>7, <1>8

\* So does a checkpoint followed by a new configuration.
LEMMA ConfiguredKeepsCurrent ==
    ASSUME NEW rl \in RateLimit, NEW t \in Nat, rl.lastUpdated <= t,
           NEW config \in [limit : 0..MaxUint, window : Nat], config.window > 0
    PROVE  LET new == Configured(Charge(rl, 0, t), config)
           IN /\ new \in RateLimit /\ new.lastUpdated = t /\ new.window = config.window
              /\ CurrentAmountInFlight(new, t) = CurrentAmountInFlight(rl, t)
<1>1. CurrentAmountInFlight(rl, t) \in Nat
  BY CurrentBound
<1>2. 0 <= AvailableCapacity(rl, t)
  BY <1>1, MaxUintAssumption DEF AvailableCapacity, Monus, RateLimit
<1> DEFINE c == Charge(rl, 0, t)
           new == Configured(c, config)
<1>3. /\ c \in RateLimit /\ c.lastUpdated = t
      /\ c.amountInFlight = CurrentAmountInFlight(rl, t)
  BY <1>1, <1>2, ChargeFacts
<1> HIDE DEF c
<1>4. /\ new \in RateLimit /\ new.lastUpdated = t /\ new.window = config.window
      /\ new.amountInFlight = CurrentAmountInFlight(rl, t)
  BY <1>3 DEF Configured, RateLimit
<1> HIDE DEF new
<1>5. CurrentAmountInFlight(new, t) = CurrentAmountInFlight(rl, t)
  BY <1>4, FreshCurrent
<1> QED
  BY <1>4, <1>5 DEF new, c

-----------------------------------------------------------------------------
\* One token bucket of the Solana OFT.

\* What a bucket may be: it holds no more than its capacity.
Sound(rl, t) ==
    /\ rl \in RateLimiter
    /\ rl.available_capacity <= rl.capacity
    /\ rl.last_refill_time <= t

\* Saturation never matters, for the capacity is a u64 itself.
LEMMA RefillFacts ==
    ASSUME NEW rl, NEW t \in U64, Sound(rl, t), NEW extra \in U64
    PROVE  /\ Refill(rl, extra, t) =
                [rl EXCEPT !.available_capacity =
                    Least(rl.capacity, rl.available_capacity + extra
                            + (t - rl.last_refill_time) * rl.refill_per_second),
                           !.last_refill_time = t]
           /\ Sound(Refill(rl, extra, t), t)
<1> DEFINE elapsed == t - rl.last_refill_time
           gain == elapsed * rl.refill_per_second
<1>1. /\ MaxU64 \in Nat
      /\ rl \in RateLimiter
      /\ rl.capacity \in 0..MaxU64 /\ rl.available_capacity \in 0..MaxU64
      /\ rl.refill_per_second \in Nat /\ rl.last_refill_time \in Nat
      /\ rl.rate_limiter_type \in RateLimiterType
      /\ t \in Nat /\ extra \in 0..MaxU64 /\ elapsed \in Nat
  BY U64Assumption DEF Sound, RateLimiter, U64
<1>2. gain \in Nat
  <2>1. \A a, b \in Nat : a * b \in Nat
    OBVIOUS
  <2> QED
    BY <1>1, <2>1
<1> HIDE DEF gain
<1>3. Gained(rl, t) = Saturated(gain)
  <2>1. CASE t > rl.last_refill_time
    BY <2>1 DEF Gained, gain
  <2>2. CASE elapsed = 0
    <3>1. gain = 0
      BY <1>1, <2>2 DEF gain
    <3> QED
      BY <1>1, <2>2, <3>1 DEF Gained, Saturated, Least
  <2> QED
    BY <1>1, <2>1, <2>2
<1> DEFINE level == Least(rl.capacity, rl.available_capacity + extra + gain)
<1>4. Least(rl.capacity, Saturated(rl.available_capacity
                                     + Saturated(extra + Saturated(gain)))) = level
  BY <1>1, <1>2 DEF Least, Saturated
<1>5. Refill(rl, extra, t) =
        [rl EXCEPT !.available_capacity = level, !.last_refill_time = t]
  BY <1>1, <1>3, <1>4 DEF Refill, RateLimiter
<1>6. level \in 0..MaxU64 /\ level <= rl.capacity
  BY <1>1, <1>2 DEF Least
<1> HIDE DEF level
<1>7. Sound(Refill(rl, extra, t), t)
  <2>1. /\ level \in U64 /\ t \in U64 /\ rl \in RateLimiter
        /\ t <= t
    BY <1>1, <1>6 DEF U64
  <2>2. [rl EXCEPT !.available_capacity = level, !.last_refill_time = t] \in RateLimiter
    BY <2>1 DEF RateLimiter
  <2>3. /\ Refill(rl, extra, t).available_capacity = level
        /\ Refill(rl, extra, t).capacity = rl.capacity
        /\ Refill(rl, extra, t).last_refill_time = t
    BY <1>5, <2>1 DEF RateLimiter
  <2> QED
    BY <1>5, <1>6, <2>1, <2>2, <2>3 DEF Sound
<1> QED
  BY <1>5, <1>7 DEF gain, level

\* What a limiter would let pass is the level of its bucket.
LEMMA LevelFacts ==
    ASSUME NEW rl, NEW t \in U64, Sound(rl, t)
    PROVE  /\ FetchAvailableCapacity(rl, t) =
                Least(rl.capacity, rl.available_capacity
                        + (t - rl.last_refill_time) * rl.refill_per_second)
           /\ FetchAvailableCapacity(rl, t) \in 0..rl.capacity
<1>1. 0 \in U64
  BY U64Assumption DEF U64
<1>2. /\ Refill(rl, 0, t) =
            [rl EXCEPT !.available_capacity =
                Least(rl.capacity, rl.available_capacity + 0
                        + (t - rl.last_refill_time) * rl.refill_per_second),
                       !.last_refill_time = t]
      /\ Sound(Refill(rl, 0, t), t)
  BY <1>1, RefillFacts
<1>3. rl.available_capacity \in Nat /\ rl \in RateLimiter
  BY U64Assumption DEF Sound, RateLimiter, U64
<1>4. rl.available_capacity + 0 = rl.available_capacity
  BY <1>3
<1>5. FetchAvailableCapacity(rl, t) =
        Least(rl.capacity, rl.available_capacity
                + (t - rl.last_refill_time) * rl.refill_per_second)
  BY <1>2, <1>3, <1>4 DEF FetchAvailableCapacity, RateLimiter
<1>6. Refill(rl, 0, t).capacity = rl.capacity
  BY <1>2, <1>3 DEF RateLimiter
<1>7. FetchAvailableCapacity(rl, t) \in 0..rl.capacity
  BY <1>2, <1>6, U64Assumption DEF FetchAvailableCapacity, Sound, RateLimiter, U64
<1> QED
  BY <1>5, <1>7

\* A limiter refilled just now holds its level.
LEMMA FreshLevel ==
    ASSUME NEW rl, NEW t \in U64, Sound(rl, t), rl.last_refill_time = t
    PROVE  FetchAvailableCapacity(rl, t) = rl.available_capacity
<1>1. /\ rl.available_capacity \in Nat /\ rl.capacity \in Nat
      /\ rl.refill_per_second \in Nat /\ t \in Nat
  BY U64Assumption DEF Sound, RateLimiter, U64
<1>2. (t - rl.last_refill_time) * rl.refill_per_second = 0
  BY <1>1
<1> QED
  BY <1>1, <1>2, LevelFacts DEF Least, Sound

\* A refill raises the level by what is given back, up to the capacity.
LEMMA RefillLevel ==
    ASSUME NEW rl, NEW t \in U64, Sound(rl, t), NEW extra \in U64
    PROVE  /\ Refill(rl, extra, t).available_capacity =
                Least(rl.capacity, FetchAvailableCapacity(rl, t) + extra)
           /\ Refill(rl, extra, t).last_refill_time = t
           /\ Refill(rl, extra, t).capacity = rl.capacity
           /\ Refill(rl, extra, t).refill_per_second = rl.refill_per_second
           /\ Refill(rl, extra, t).rate_limiter_type = rl.rate_limiter_type
<1> DEFINE gain == (t - rl.last_refill_time) * rl.refill_per_second
<1>1. /\ rl \in RateLimiter
      /\ rl.available_capacity \in Nat /\ rl.capacity \in Nat /\ extra \in Nat
      /\ t - rl.last_refill_time \in Nat /\ rl.refill_per_second \in Nat
  BY U64Assumption DEF Sound, RateLimiter, U64
<1>2. gain \in Nat
  <2>1. \A a, b \in Nat : a * b \in Nat
    OBVIOUS
  <2> QED
    BY <1>1, <2>1
<1>3. FetchAvailableCapacity(rl, t) = Least(rl.capacity, rl.available_capacity + gain)
  BY LevelFacts
<1>4. Refill(rl, extra, t) =
        [rl EXCEPT !.available_capacity =
                Least(rl.capacity, rl.available_capacity + extra + gain),
            !.last_refill_time = t]
  BY RefillFacts
<1> HIDE DEF gain
<1>5. Least(rl.capacity, rl.available_capacity + extra + gain)
        = Least(rl.capacity, FetchAvailableCapacity(rl, t) + extra)
  BY <1>1, <1>2, <1>3 DEF Least
<1> QED
  BY <1>1, <1>4, <1>5 DEF RateLimiter

\* A consumption that succeeds takes its amount from the level.
LEMMA ConsumeLevel ==
    ASSUME NEW rl, NEW t \in U64, Sound(rl, t), NEW amount \in U64,
           ~ TryConsumeFails(rl, amount, t)
    PROVE  /\ Sound(TryConsume(rl, amount, t), t)
           /\ FetchAvailableCapacity(TryConsume(rl, amount, t), t)
                = FetchAvailableCapacity(rl, t) - amount
           /\ TryConsume(rl, amount, t).capacity = rl.capacity
           /\ TryConsume(rl, amount, t).refill_per_second = rl.refill_per_second
           /\ TryConsume(rl, amount, t).rate_limiter_type = rl.rate_limiter_type
<1> DEFINE full == Refill(rl, 0, t)
           spent == TryConsume(rl, amount, t)
           level == FetchAvailableCapacity(rl, t)
<1>1. 0 \in U64
  BY U64Assumption DEF U64
<1>2. Sound(full, t) /\ full.last_refill_time = t /\ full.available_capacity = level
  <2>1. Sound(full, t)
    BY <1>1, RefillFacts
  <2>2. full.last_refill_time = t
    BY <1>1, RefillLevel
  <2> QED
    BY <2>1, <2>2 DEF FetchAvailableCapacity
<1>3. /\ full.capacity = rl.capacity
      /\ full.refill_per_second = rl.refill_per_second
      /\ full.rate_limiter_type = rl.rate_limiter_type
  BY <1>1, RefillLevel
<1>4. full \in RateLimiter /\ level \in 0..rl.capacity /\ rl.capacity \in 0..MaxU64
  BY <1>2, LevelFacts DEF Sound, RateLimiter, U64
<1>5. amount \in Nat /\ amount <= level
  BY <1>4, U64Assumption DEF U64, TryConsumeFails
<1>6. level - amount \in U64 /\ level - amount <= rl.capacity
  BY <1>4, <1>5, U64Assumption DEF U64
<1>7. spent = [full EXCEPT !.available_capacity = level - amount]
  BY <1>2, <1>4 DEF TryConsume, RateLimiter
<1> HIDE DEF full, spent, level
<1>8. /\ spent \in RateLimiter
      /\ spent.available_capacity = level - amount
      /\ spent.capacity = full.capacity
      /\ spent.last_refill_time = full.last_refill_time
      /\ spent.refill_per_second = full.refill_per_second
      /\ spent.rate_limiter_type = full.rate_limiter_type
  BY <1>4, <1>6, <1>7 DEF RateLimiter
<1>9. Sound(spent, t)
  BY <1>2, <1>3, <1>6, <1>8 DEF Sound
<1>10. FetchAvailableCapacity(spent, t) = level - amount
  BY <1>2, <1>8, <1>9, FreshLevel
<1> QED
  BY <1>3, <1>8, <1>9, <1>10 DEF spent, level

\* One second raises the level by the rate, up to the capacity.
LEMMA SecondLevel ==
    ASSUME NEW rl, NEW t \in U64, Sound(rl, t), t + 1 \in U64
    PROVE  /\ Sound(rl, t + 1)
           /\ FetchAvailableCapacity(rl, t + 1) =
                Least(rl.capacity, FetchAvailableCapacity(rl, t) + rl.refill_per_second)
<1> DEFINE elapsed == t - rl.last_refill_time
           rate == rl.refill_per_second
           gain == elapsed * rate
<1>1. /\ rl.available_capacity \in Nat /\ rl.capacity \in Nat /\ rate \in Nat
      /\ rl.last_refill_time \in Nat /\ t \in Nat /\ elapsed \in Nat
  BY U64Assumption DEF Sound, RateLimiter, U64
<1>2. Sound(rl, t + 1)
  BY <1>1 DEF Sound
<1>3. FetchAvailableCapacity(rl, t) = Least(rl.capacity, rl.available_capacity + gain)
  BY LevelFacts
<1>4. FetchAvailableCapacity(rl, t + 1) =
        Least(rl.capacity, rl.available_capacity + ((t + 1) - rl.last_refill_time) * rate)
  BY <1>2, LevelFacts
<1>5. (t + 1) - rl.last_refill_time = elapsed + 1
  BY <1>1
<1> HIDE DEF elapsed, rate
<1>6. (elapsed + 1) * rate = gain + rate /\ gain \in Nat
  <2>1. \A a, b \in Nat : (a + 1) * b = a * b + b /\ a * b \in Nat
    OBVIOUS
  <2> QED
    BY <1>1, <2>1
<1> HIDE DEF gain
<1>7. FetchAvailableCapacity(rl, t + 1) = Least(rl.capacity, rl.available_capacity + (gain + rate))
  BY <1>4, <1>5, <1>6 DEF rate
<1>8. FetchAvailableCapacity(rl, t + 1)
        = Least(rl.capacity, FetchAvailableCapacity(rl, t) + rate)
  BY <1>1, <1>3, <1>6, <1>7 DEF Least
<1> QED
  BY <1>2, <1>8 DEF rate

\* What update_rate_limiter makes of a limiter: an absent one stays absent or
\* starts empty; a capacity that is given fills it; otherwise the capacity and
\* the level are kept.
LEMMA UpdateFacts ==
    ASSUME NEW limiter \in Option(RateLimiter), NEW t \in U64,
           limiter # NONE => Sound(limiter, t),
           NEW params \in RateLimitParams, params # NONE
    PROVE  LET new == UpdateRateLimiter(limiter, params, t)
           IN  /\ new # NONE
               /\ Sound(new, t)
               /\ \/ FetchAvailableCapacity(new, t) = new.capacity
                  \/ /\ limiter # NONE
                     /\ new.capacity = limiter.capacity
                     /\ FetchAvailableCapacity(new, t) = FetchAvailableCapacity(limiter, t)
<1> DEFINE old == IF limiter = NONE THEN DefaultRateLimiter ELSE limiter
           sized == IF params.capacity = NONE THEN old
                    ELSE SetCapacity(old, params.capacity, t)
           rated == IF params.refill_per_second = NONE THEN sized
                    ELSE SetRate(sized, params.refill_per_second, t)
           typed == IF params.rate_limiter_type = NONE THEN rated
                    ELSE [rated EXCEPT !.rate_limiter_type = params.rate_limiter_type]
           new == UpdateRateLimiter(limiter, params, t)
           Full(rl) == FetchAvailableCapacity(rl, t) = rl.capacity
           Same(rl) == /\ rl.capacity = old.capacity
                       /\ FetchAvailableCapacity(rl, t) = FetchAvailableCapacity(old, t)
<1>1. MaxU64 \in Nat /\ 0 \in U64 /\ t \in Nat
  BY U64Assumption DEF U64
<1>2. /\ params.capacity # NONE => params.capacity \in U64
      /\ params.refill_per_second # NONE => params.refill_per_second \in U64
      /\ params.rate_limiter_type # NONE => params.rate_limiter_type \in RateLimiterType
  BY DEF RateLimitParams, Option
<1>3. Sound(old, t) /\ (limiter = NONE => Full(old))
  <2>1. CASE limiter = NONE
    <3>1. /\ old = DefaultRateLimiter
          /\ Sound(old, t) /\ old.capacity = 0
      BY <1>1, <2>1 DEF Sound, DefaultRateLimiter, RateLimiter, RateLimiterType
    <3> HIDE DEF old
    <3>2. FetchAvailableCapacity(old, t) \in 0..0
      BY <3>1, LevelFacts
    <3> QED
      BY <3>1, <3>2
  <2>2. CASE limiter # NONE
    BY <2>2
  <2> QED
    BY <2>1, <2>2
<1> HIDE DEF old
<1>4. Sound(sized, t) /\ (sized = old \/ Full(sized))
  <2>1. CASE params.capacity = NONE
    BY <1>3, <2>1
  <2>2. CASE params.capacity # NONE
    <3> DEFINE c == params.capacity
    <3>1. sized = [old EXCEPT !.capacity = c, !.available_capacity = c,
                              !.last_refill_time = t]
      BY <2>2 DEF SetCapacity
    <3>2. c \in U64 /\ t \in U64 /\ c <= c /\ t <= t /\ old \in RateLimiter
      BY <1>1, <1>2, <1>3, <2>2 DEF Sound, U64
    <3> HIDE DEF c, sized
    <3>3. /\ sized \in RateLimiter /\ sized.capacity = c
          /\ sized.available_capacity = c /\ sized.last_refill_time = t
      BY <3>1, <3>2 DEF RateLimiter
    <3>4. Sound(sized, t)
      BY <3>2, <3>3 DEF Sound
    <3>5. Full(sized)
      BY <3>3, <3>4, FreshLevel
    <3> QED
      BY <3>4, <3>5
  <2> QED
    BY <2>1, <2>2
<1> HIDE DEF sized
<1>5. /\ Sound(rated, t)
      /\ rated.capacity = sized.capacity
      /\ FetchAvailableCapacity(rated, t) = FetchAvailableCapacity(sized, t)
  <2>1. CASE params.refill_per_second = NONE
    BY <1>4, <2>1
  <2>2. CASE params.refill_per_second # NONE
    <3> DEFINE r == params.refill_per_second
               full == Refill(sized, 0, t)
    <3>1. rated = [full EXCEPT !.refill_per_second = r]
      BY <2>2 DEF SetRate
    <3>2. Sound(full, t)
      BY <1>1, <1>4, RefillFacts
    <3>3. full.last_refill_time = t /\ full.capacity = sized.capacity
      BY <1>1, <1>4, RefillLevel
    <3>4. full.available_capacity = FetchAvailableCapacity(sized, t)
      BY DEF FetchAvailableCapacity
    <3>5. r \in U64 /\ full \in RateLimiter
      BY <1>2, <2>2, <3>2 DEF Sound
    <3> HIDE DEF r, full, rated
    <3>6. /\ rated \in RateLimiter /\ rated.capacity = full.capacity
          /\ rated.available_capacity = full.available_capacity
          /\ rated.last_refill_time = full.last_refill_time
      BY <3>1, <3>5 DEF RateLimiter
    <3>7. Sound(rated, t)
      BY <3>2, <3>6 DEF Sound
    <3>8. FetchAvailableCapacity(rated, t) = rated.available_capacity
      BY <3>3, <3>6, <3>7, FreshLevel
    <3> QED
      BY <3>3, <3>4, <3>6, <3>7, <3>8
  <2> QED
    BY <2>1, <2>2
<1> HIDE DEF rated
<1>6. /\ Sound(typed, t)
      /\ typed.capacity = rated.capacity
      /\ FetchAvailableCapacity(typed, t) = FetchAvailableCapacity(rated, t)
  <2>1. CASE params.rate_limiter_type = NONE
    BY <1>5, <2>1
  <2>2. CASE params.rate_limiter_type # NONE
    <3>1. rated \in RateLimiter /\ params.rate_limiter_type \in RateLimiterType
      BY <1>2, <1>5, <2>2 DEF Sound
    <3>2. typed = [rated EXCEPT !.rate_limiter_type = params.rate_limiter_type]
      BY <2>2
    <3> HIDE DEF typed
    <3>3. /\ typed \in RateLimiter /\ typed.capacity = rated.capacity
          /\ typed.available_capacity = rated.available_capacity
          /\ typed.last_refill_time = rated.last_refill_time
          /\ typed.refill_per_second = rated.refill_per_second
      BY <3>1, <3>2 DEF RateLimiter
    <3>4. Sound(typed, t)
      BY <1>5, <3>3 DEF Sound
    <3>5. FetchAvailableCapacity(typed, t) = FetchAvailableCapacity(rated, t)
      BY <1>5, <3>3, <3>4, LevelFacts
    <3> QED
      BY <3>3, <3>4, <3>5
  <2> QED
    BY <2>1, <2>2
<1>7. new = typed
  BY DEF UpdateRateLimiter, typed, rated, sized, old
<1>8. new # NONE
  BY <1>6, <1>7, U64Assumption DEF Sound
<1>9. Full(new) \/ Same(new)
  BY <1>4, <1>5, <1>6, <1>7
<1>10. Full(new) \/ (limiter # NONE /\ Same(new))
  <2>1. CASE limiter = NONE
    <3>1. Full(old)
      BY <1>3, <2>1
    <3> QED
      BY <1>9, <3>1
  <2> QED
    BY <1>9, <2>1
<1>11. limiter # NONE => old = limiter
  BY DEF old
<1> QED
  BY <1>6, <1>7, <1>8, <1>10, <1>11

-----------------------------------------------------------------------------
\* What a passing amount does to the two limiters.
LEMMA PassFacts ==
    ASSUME NEW pair \in [Flows -> Option(RateLimiter)], NEW t \in U64,
           \A e \in Flows : pair[e] # NONE => Sound(pair[e], t),
           NEW d \in Flows, NEW amount \in U64,
           ~ PassFails(pair, d, amount, t)
    PROVE  LET new == Pass(pair, d, amount, t)
               o == Reversed(d)
               isNet == pair[o] # NONE /\ pair[o].rate_limiter_type = "Net"
           IN  /\ o \in Flows /\ o # d /\ Flows = {d, o}
               /\ new \in [Flows -> Option(RateLimiter)]
               /\ pair[d] # NONE /\ new[d] = TryConsume(pair[d], amount, t)
               /\ Sound(new[d], t)
               /\ isNet => new[o] = Refill(pair[o], amount, t) /\ Sound(new[o], t)
               /\ ~ isNet => new[o] = pair[o]
<1> DEFINE new == Pass(pair, d, amount, t)
           o == Reversed(d)
           isNet == pair[o] # NONE /\ pair[o].rate_limiter_type = "Net"
           given == IF isNet THEN Refill(pair[o], amount, t) ELSE pair[o]
<1>1. o \in Flows /\ o # d /\ Flows = {d, o}
  BY DEF Reversed, Flows
<1>2. /\ pair \in [Flows -> Option(RateLimiter)] /\ t \in U64
      /\ pair[d] # NONE
      /\ \A e \in Flows : pair[e] # NONE => Sound(pair[e], t)
  BY DEF PassFails
<1>3. Sound(TryConsume(pair[d], amount, t), t)
  <2>1. Sound(pair[d], t) /\ ~ TryConsumeFails(pair[d], amount, t)
    BY <1>2 DEF PassFails
  <2> QED
    BY <1>2, <2>1, ConsumeLevel
<1>4. isNet => Sound(Refill(pair[o], amount, t), t)
  BY <1>1, <1>2, RefillFacts
<1>5. TryConsume(pair[d], amount, t) \in Option(RateLimiter)
  BY <1>3 DEF Sound, Option
<1>6. given \in Option(RateLimiter)
  BY <1>1, <1>2, <1>4 DEF Sound, Option
<1>7. new = [pair EXCEPT ![d] = TryConsume(@, amount, t), ![o] = given]
  BY <1>1 DEF Pass
<1> HIDE DEF new, given, o
<1>8. /\ new \in [Flows -> Option(RateLimiter)]
      /\ new[d] = TryConsume(pair[d], amount, t) /\ new[o] = given
  BY <1>1, <1>2, <1>5, <1>6, <1>7
<1> QED
  BY <1>1, <1>2, <1>3, <1>4, <1>8 DEF new, given, o
===============================================================================
