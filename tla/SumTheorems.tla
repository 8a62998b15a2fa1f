---------------------------- MODULE SumTheorems ----------------------------
(***************************************************************************)
(* Facts about SumFunctionOnSet of the module Functions, the sum of f[x]   *)
(* over the x in a finite set S, which the properties about money, stock   *)
(* and fabric are stated with.  The sum is a fold: a recursive function on *)
(* the subsets of S, so its existence is shown first.  Every induction     *)
(* here takes a smallest subset that breaks the claim.                     *)
(***************************************************************************)
EXTENDS Functions, Integers, FiniteSets, FiniteSetTheorems, WellFoundedInduction, TLAPS

-----------------------------------------------------------------------------
(* The recursion                                                           *)

Pick(s) == CHOOSE x \in s : TRUE

\* h is the recursive function the fold is defined by, on the subsets of S.
IsFold(h, f, S) ==
    h = [s \in SUBSET S |-> IF s = {} THEN 0 ELSE f[Pick(s)] + h[s \ {Pick(s)}]]

Fold(f, S) == CHOOSE h : IsFold(h, f, S)

\* Among subsets of a finite set, one contains no other.
LEMMA LeastSubset ==
    ASSUME NEW S, IsFiniteSet(S), NEW T, T \subseteq SUBSET S, T # {}
    PROVE  \E s \in T : \A t \in T : ~ (t \subseteq s /\ t # s)
<1>1. T \subseteq FiniteSubsetsOf(S) BY FS_Subset DEF FiniteSubsetsOf
<1>2. PICK s \in T : \A t \in T : ~ (<<t, s>> \in StrictSubsetOrdering(S))
    BY <1>1, FS_StrictSubsetOrderingWellFounded, WFMin
<1> QED BY <1>2 DEF StrictSubsetOrdering

\* The sum is the value of that function at S.
LEMMA SumIsFold == ASSUME NEW f, NEW S PROVE SumFunctionOnSet(f, S) = Fold(f, S)[S]
BY DEF SumFunctionOnSet, FoldFunctionOnSet, MapThenFoldSet, Pick, Fold, IsFold

\* The element picked is one of the set.
LEMMA PickIn == ASSUME NEW s, s # {} PROVE Pick(s) \in s
BY DEF Pick

\* One step of the recursion.
LEMMA FoldStep ==
    ASSUME NEW h, NEW f, NEW S, IsFold(h, f, S), NEW s \in SUBSET S
    PROVE  h[s] = IF s = {} THEN 0 ELSE f[Pick(s)] + h[s \ {Pick(s)}]
BY DEF IsFold

\* Two such functions agree where both are defined.
LEMMA FoldsAgree ==
    ASSUME NEW A, IsFiniteSet(A), NEW B, NEW f, NEW h, NEW k,
           IsFold(h, f, A), IsFold(k, f, B)
    PROVE  \A u \in SUBSET (A \cap B) : h[u] = k[u]
<1> DEFINE Bad == {u \in SUBSET (A \cap B) : h[u] # k[u]}
<1> SUFFICES ASSUME Bad # {} PROVE FALSE OBVIOUS
<1>1. Bad \subseteq SUBSET A OBVIOUS
<1>2. PICK u \in Bad : \A t \in Bad : ~ (t \subseteq u /\ t # u)
  <2> HIDE DEF Bad
  <2> QED BY <1>1, LeastSubset
<1>3. u \in SUBSET A /\ u \in SUBSET B /\ h[u] # k[u] OBVIOUS
<1>4. u # {} BY <1>3, FoldStep
<1> DEFINE w == u \ {Pick(u)}
<1>5. w \subseteq u /\ w # u BY <1>4, PickIn
<1>6. h[w] = k[w] BY <1>2, <1>3, <1>5
<1> QED BY <1>3, <1>4, <1>6, FoldStep

\* There is such a function on the subsets of every finite set.
LEMMA FoldExists ==
    ASSUME NEW S, IsFiniteSet(S), NEW f
    PROVE  \A T \in SUBSET S : \E h : IsFold(h, f, T)
<1> DEFINE Bad == {T \in SUBSET S : ~ \E h : IsFold(h, f, T)}
<1> SUFFICES ASSUME Bad # {} PROVE FALSE OBVIOUS
<1>1. PICK T \in Bad : \A t \in Bad : ~ (t \subseteq T /\ t # T)
  <2>1. Bad \subseteq SUBSET S OBVIOUS
  <2> HIDE DEF Bad
  <2> QED BY <2>1, LeastSubset
<1>2. T \subseteq S /\ IsFiniteSet(T) BY FS_Subset
<1>3. ASSUME NEW u, u \subseteq T, u # T PROVE IsFold(Fold(f, u), f, u)
  <2>1. u \notin Bad BY <1>1, <1>3
  <2>2. \E h : IsFold(h, f, u) BY <2>1, <1>2, <1>3
  <2> QED BY <2>2 DEF Fold
<1> DEFINE Rest(u) == u \ {Pick(u)}
           k == [u \in SUBSET T |-> IF u = {} THEN 0
                                    ELSE f[Pick(u)] + Fold(f, Rest(u))[Rest(u)]]
<1>4. ASSUME NEW u, u \subseteq T, u # {} PROVE k[Rest(u)] = Fold(f, Rest(u))[Rest(u)]
  <2> DEFINE w == Rest(u)
             r == Fold(f, w)
  <2>1. w \subseteq T /\ w # T BY <1>4, PickIn
  <2>2. IsFold(r, f, w) BY <1>3, <2>1
  <2>3. CASE w = {} BY <2>1, <2>2, <2>3, FoldStep
  <2>4. CASE w # {}
    <3>1. Rest(w) \subseteq w /\ Rest(w) \subseteq T /\ Rest(w) # T BY <2>1, <2>4, PickIn
    <3>2. IsFold(Fold(f, Rest(w)), f, Rest(w)) BY <1>3, <3>1
    <3>3. IsFiniteSet(w) BY <1>2, <2>1, FS_Subset
    <3>4. r[Rest(w)] = Fold(f, Rest(w))[Rest(w)]
      <4> HIDE DEF r
      <4>1. Rest(w) \in SUBSET (w \cap Rest(w)) BY <3>1
      <4> HIDE DEF Rest, w
      <4> QED BY <2>2, <3>2, <3>3, <4>1, FoldsAgree
    <3>5. r[w] = f[Pick(w)] + r[Rest(w)] BY <2>2, <2>4, FoldStep
    <3>6. k[w] = f[Pick(w)] + Fold(f, Rest(w))[Rest(w)] BY <2>1, <2>4
    <3> QED BY <3>4, <3>5, <3>6
  <2> QED BY <2>3, <2>4
<1>5. IsFold(k, f, T) BY <1>4 DEF IsFold
<1> QED BY <1>5

-----------------------------------------------------------------------------
(* Laws of the sum                                                         *)

\* The sum over no index.
LEMMA SumEmpty == ASSUME NEW f PROVE SumFunctionOnSet(f, {}) = 0
<1>1. IsFiniteSet({}) BY FS_EmptySet
<1>2. \E h : IsFold(h, f, {}) BY <1>1, FoldExists
<1>3. IsFold(Fold(f, {}), f, {}) BY <1>2 DEF Fold
<1> QED BY <1>3, SumIsFold, FoldStep

\* The sum takes one index out of the set, and then the others.
LEMMA SumPick ==
    ASSUME NEW S, IsFiniteSet(S), S # {}, NEW f
    PROVE  SumFunctionOnSet(f, S) = f[Pick(S)] + SumFunctionOnSet(f, S \ {Pick(S)})
<1> DEFINE w == S \ {Pick(S)}
<1>1. IsFold(Fold(f, S), f, S) BY FoldExists DEF Fold
<1>2. IsFold(Fold(f, w), f, w) BY FoldExists DEF Fold
<1>3. w \in SUBSET (S \cap w) OBVIOUS
<1>4. Fold(f, S)[w] = Fold(f, w)[w]
  <2> HIDE DEF w
  <2> QED BY <1>1, <1>2, <1>3, FoldsAgree
<1>5. Fold(f, S)[S] = f[Pick(S)] + Fold(f, S)[w] BY <1>1, FoldStep
<1> QED BY <1>4, <1>5, SumIsFold

\* A sum of integers is an integer.
LEMMA SumType ==
    ASSUME NEW S, IsFiniteSet(S), NEW f, \A x \in S : f[x] \in Int
    PROVE  SumFunctionOnSet(f, S) \in Int
<1> DEFINE Bad == {u \in SUBSET S : SumFunctionOnSet(f, u) \notin Int}
<1> SUFFICES ASSUME Bad # {} PROVE FALSE OBVIOUS
<1>1. PICK u \in Bad : \A t \in Bad : ~ (t \subseteq u /\ t # u)
  <2>1. Bad \subseteq SUBSET S OBVIOUS
  <2> HIDE DEF Bad
  <2> QED BY <2>1, LeastSubset
<1>2. u \subseteq S /\ IsFiniteSet(u) BY FS_Subset
<1>3. u # {} BY SumEmpty
<1>4. Pick(u) \in u BY <1>3, PickIn
<1>5. u \ {Pick(u)} \notin Bad BY <1>1, <1>4
<1>6. SumFunctionOnSet(f, u \ {Pick(u)}) \in Int BY <1>2, <1>5
<1>7. SumFunctionOnSet(f, u) = f[Pick(u)] + SumFunctionOnSet(f, u \ {Pick(u)}) BY <1>2, <1>3, SumPick
<1>8. f[Pick(u)] \in Int BY <1>2, <1>4
<1>9. SumFunctionOnSet(f, u) \in Int BY <1>6, <1>7, <1>8
<1> QED BY <1>9

\* Whichever index is taken out, the sum is its value and the rest.
LEMMA SumRemove ==
    ASSUME NEW S, IsFiniteSet(S), NEW f, \A y \in S : f[y] \in Int, NEW x \in S
    PROVE  SumFunctionOnSet(f, S) = f[x] + SumFunctionOnSet(f, S \ {x})
<1> DEFINE Bad == {u \in SUBSET S : \E y \in u : SumFunctionOnSet(f, u) # f[y] + SumFunctionOnSet(f, u \ {y})}
<1> SUFFICES ASSUME Bad # {} PROVE FALSE OBVIOUS
<1>1. PICK u \in Bad : \A t \in Bad : ~ (t \subseteq u /\ t # u)
  <2>1. Bad \subseteq SUBSET S OBVIOUS
  <2> HIDE DEF Bad
  <2> QED BY <2>1, LeastSubset
<1>2. u \subseteq S /\ IsFiniteSet(u) BY FS_Subset
<1>3. PICK y \in u : SumFunctionOnSet(f, u) # f[y] + SumFunctionOnSet(f, u \ {y}) OBVIOUS
<1> DEFINE p == Pick(u)
<1>4. p \in u BY <1>3, PickIn
<1>5. SumFunctionOnSet(f, u) = f[p] + SumFunctionOnSet(f, u \ {p}) BY <1>2, <1>4, SumPick
<1>6. p # y BY <1>3, <1>5
<1>7. SumFunctionOnSet(f, u \ {p}) = f[y] + SumFunctionOnSet(f, (u \ {p}) \ {y})
  <2>1. u \ {p} \notin Bad BY <1>1, <1>4
  <2> QED BY <2>1, <1>2, <1>6
<1>8. SumFunctionOnSet(f, u \ {y}) = f[p] + SumFunctionOnSet(f, (u \ {y}) \ {p})
  <2>1. u \ {y} \notin Bad BY <1>1
  <2> QED BY <2>1, <1>2, <1>4, <1>6
<1>9. (u \ {p}) \ {y} = (u \ {y}) \ {p} OBVIOUS
<1>10. SumFunctionOnSet(f, (u \ {p}) \ {y}) \in Int /\ f[p] \in Int /\ f[y] \in Int
  <2>1. IsFiniteSet((u \ {p}) \ {y}) BY <1>2, FS_Subset
  <2> QED BY <1>2, <1>4, <2>1, SumType
<1> HIDE DEF p, Bad
<1>11. SumFunctionOnSet(f, u) = f[p] + (f[y] + SumFunctionOnSet(f, (u \ {p}) \ {y})) BY <1>5, <1>7
<1>12. SumFunctionOnSet(f, u \ {y}) = f[p] + SumFunctionOnSet(f, (u \ {p}) \ {y}) BY <1>8, <1>9
<1>13. SumFunctionOnSet(f, u) = f[y] + SumFunctionOnSet(f, u \ {y}) BY <1>10, <1>11, <1>12
<1> QED BY <1>3, <1>13

\* A new index adds its value.
LEMMA SumAdd ==
    ASSUME NEW S, IsFiniteSet(S), NEW f, \A y \in S : f[y] \in Int,
           NEW x, x \notin S, f[x] \in Int
    PROVE  SumFunctionOnSet(f, S \cup {x}) = SumFunctionOnSet(f, S) + f[x]
<1>1. IsFiniteSet(S \cup {x}) BY FS_AddElement
<1>2. (S \cup {x}) \ {x} = S OBVIOUS
<1>3. SumFunctionOnSet(f, S \cup {x}) = f[x] + SumFunctionOnSet(f, S)
    BY <1>1, <1>2, SumRemove
<1>4. SumFunctionOnSet(f, S) \in Int BY SumType
<1> QED BY <1>3, <1>4

\* Only the values on S matter.
LEMMA SumSame ==
    ASSUME NEW S, IsFiniteSet(S), NEW f, NEW g, \A x \in S : f[x] = g[x]
    PROVE  SumFunctionOnSet(f, S) = SumFunctionOnSet(g, S)
<1> DEFINE Bad == {u \in SUBSET S : SumFunctionOnSet(f, u) # SumFunctionOnSet(g, u)}
<1> SUFFICES ASSUME Bad # {} PROVE FALSE OBVIOUS
<1>1. PICK u \in Bad : \A t \in Bad : ~ (t \subseteq u /\ t # u)
  <2>1. Bad \subseteq SUBSET S OBVIOUS
  <2> HIDE DEF Bad
  <2> QED BY <2>1, LeastSubset
<1>2. u \subseteq S /\ IsFiniteSet(u) BY FS_Subset
<1>3. u # {} BY SumEmpty
<1>4. Pick(u) \in u BY <1>3, PickIn
<1>5. SumFunctionOnSet(f, u \ {Pick(u)}) = SumFunctionOnSet(g, u \ {Pick(u)})
  <2>1. u \ {Pick(u)} \notin Bad BY <1>1, <1>4
  <2> QED BY <1>2, <2>1
<1>6. SumFunctionOnSet(f, u) = f[Pick(u)] + SumFunctionOnSet(f, u \ {Pick(u)})
    BY <1>2, <1>3, SumPick
<1>7. SumFunctionOnSet(g, u) = g[Pick(u)] + SumFunctionOnSet(g, u \ {Pick(u)})
    BY <1>2, <1>3, SumPick
<1>8. f[Pick(u)] = g[Pick(u)] BY <1>2, <1>4
<1>9. SumFunctionOnSet(f, u) = SumFunctionOnSet(g, u) BY <1>5, <1>6, <1>7, <1>8
<1> QED BY <1>9

\* When one value changes, the sum changes with it.
LEMMA SumUpdate ==
    ASSUME NEW S, IsFiniteSet(S), NEW f, NEW g, NEW x \in S,
           \A y \in S : f[y] \in Int /\ g[y] \in Int,
           \A y \in S : y # x => g[y] = f[y]
    PROVE  SumFunctionOnSet(g, S) = SumFunctionOnSet(f, S) + g[x] - f[x]
<1> DEFINE R == S \ {x}
<1>1. IsFiniteSet(R) BY FS_Subset
<1>2. SumFunctionOnSet(f, S) = f[x] + SumFunctionOnSet(f, R) BY SumRemove
<1>3. SumFunctionOnSet(g, S) = g[x] + SumFunctionOnSet(g, R) BY SumRemove
<1>4. SumFunctionOnSet(g, R) = SumFunctionOnSet(f, R)
  <2>1. \A y \in R : g[y] = f[y] OBVIOUS
  <2> HIDE DEF R
  <2> QED BY <1>1, <2>1, SumSame
<1>5. SumFunctionOnSet(f, R) \in Int /\ f[x] \in Int /\ g[x] \in Int BY <1>1, SumType
<1> HIDE DEF R
<1> QED BY <1>2, <1>3, <1>4, <1>5

\* Two such functions whose values are ordered have ordered sums.
LEMMA SumMonotone ==
    ASSUME NEW S, IsFiniteSet(S), NEW f, NEW g,
           \A x \in S : f[x] \in Int /\ g[x] \in Int /\ f[x] <= g[x]
    PROVE  SumFunctionOnSet(f, S) <= SumFunctionOnSet(g, S)
<1> DEFINE Bad == {u \in SUBSET S : ~ (SumFunctionOnSet(f, u) <= SumFunctionOnSet(g, u))}
<1> SUFFICES ASSUME Bad # {} PROVE FALSE OBVIOUS
<1>1. PICK u \in Bad : \A t \in Bad : ~ (t \subseteq u /\ t # u)
  <2>1. Bad \subseteq SUBSET S OBVIOUS
  <2> HIDE DEF Bad
  <2> QED BY <2>1, LeastSubset
<1>2. u \subseteq S /\ IsFiniteSet(u) BY FS_Subset
<1>3. u # {} BY SumEmpty
<1> DEFINE p == Pick(u)
           R == u \ {p}
<1>4. p \in u BY <1>3, PickIn
<1>5. SumFunctionOnSet(f, R) <= SumFunctionOnSet(g, R)
  <2>1. R \notin Bad BY <1>1, <1>4
  <2> QED BY <1>2, <2>1
<1>6. /\ SumFunctionOnSet(f, u) = f[p] + SumFunctionOnSet(f, R)
      /\ SumFunctionOnSet(g, u) = g[p] + SumFunctionOnSet(g, R)
    BY <1>2, <1>3, SumPick
<1>7. SumFunctionOnSet(f, R) \in Int /\ SumFunctionOnSet(g, R) \in Int
  <2>1. IsFiniteSet(R) /\ \A y \in R : f[y] \in Int /\ g[y] \in Int BY <1>2, FS_Subset
  <2> HIDE DEF R
  <2> QED BY <2>1, SumType
<1>8. f[p] \in Int /\ g[p] \in Int /\ f[p] <= g[p] BY <1>2, <1>4
<1>9. SumFunctionOnSet(f, u) <= SumFunctionOnSet(g, u)
  <2> HIDE DEF p, R
  <2> QED BY <1>5, <1>6, <1>7, <1>8
<1> QED BY <1>9

\* A sum of amounts is an amount.
LEMMA SumNat ==
    ASSUME NEW S, IsFiniteSet(S), NEW f, \A x \in S : f[x] \in Nat
    PROVE  SumFunctionOnSet(f, S) \in Nat
<1> DEFINE Bad == {u \in SUBSET S : SumFunctionOnSet(f, u) \notin Nat}
<1> SUFFICES ASSUME Bad # {} PROVE FALSE OBVIOUS
<1>1. PICK u \in Bad : \A t \in Bad : ~ (t \subseteq u /\ t # u)
  <2>1. Bad \subseteq SUBSET S OBVIOUS
  <2> HIDE DEF Bad
  <2> QED BY <2>1, LeastSubset
<1>2. u \subseteq S /\ IsFiniteSet(u) BY FS_Subset
<1>3. u # {} BY SumEmpty
<1>4. Pick(u) \in u BY <1>3, PickIn
<1>5. SumFunctionOnSet(f, u \ {Pick(u)}) \in Nat
  <2>1. u \ {Pick(u)} \notin Bad BY <1>1, <1>4
  <2> QED BY <1>2, <2>1
<1>6. SumFunctionOnSet(f, u) = f[Pick(u)] + SumFunctionOnSet(f, u \ {Pick(u)})
    BY <1>2, <1>3, SumPick
<1>7. f[Pick(u)] \in Nat BY <1>2, <1>4
<1>8. SumFunctionOnSet(f, u) \in Nat BY <1>5, <1>6, <1>7
<1> QED BY <1>8

\* Where every value is 0, so is the sum.
LEMMA SumZero ==
    ASSUME NEW S, IsFiniteSet(S), NEW f, \A x \in S : f[x] = 0
    PROVE  SumFunctionOnSet(f, S) = 0
<1> DEFINE Bad == {u \in SUBSET S : SumFunctionOnSet(f, u) # 0}
<1> SUFFICES ASSUME Bad # {} PROVE FALSE OBVIOUS
<1>1. PICK u \in Bad : \A t \in Bad : ~ (t \subseteq u /\ t # u)
  <2>1. Bad \subseteq SUBSET S OBVIOUS
  <2> HIDE DEF Bad
  <2> QED BY <2>1, LeastSubset
<1>2. u \subseteq S /\ IsFiniteSet(u) BY FS_Subset
<1>3. u # {} BY SumEmpty
<1>4. Pick(u) \in u BY <1>3, PickIn
<1>5. SumFunctionOnSet(f, u \ {Pick(u)}) = 0
  <2>1. u \ {Pick(u)} \notin Bad BY <1>1, <1>4
  <2> QED BY <1>2, <2>1
<1>6. SumFunctionOnSet(f, u) = f[Pick(u)] + SumFunctionOnSet(f, u \ {Pick(u)})
    BY <1>2, <1>3, SumPick
<1>7. f[Pick(u)] = 0 BY <1>2, <1>4
<1>8. SumFunctionOnSet(f, u) = 0 BY <1>5, <1>6, <1>7
<1> QED BY <1>8

\* A sum over a part of S is the sum over S of the values inside the part.
LEMMA SumPart ==
    ASSUME NEW S, IsFiniteSet(S), NEW T, T \subseteq S, NEW f, \A x \in T : f[x] \in Int
    PROVE  SumFunctionOnSet(f, T) =
             SumFunctionOnSet([x \in S |-> IF x \in T THEN f[x] ELSE 0], S)
<1> DEFINE g == [x \in S |-> IF x \in T THEN f[x] ELSE 0]
           Bad == {u \in SUBSET S : SumFunctionOnSet(g, u) # SumFunctionOnSet(f, u \cap T)}
<1> SUFFICES ASSUME Bad # {} PROVE FALSE
  <2>1. S \notin Bad => SumFunctionOnSet(g, S) = SumFunctionOnSet(f, S \cap T) OBVIOUS
  <2>2. S \cap T = T OBVIOUS
  <2>3. SumFunctionOnSet(g, S) = SumFunctionOnSet(f, T)
    <3> HIDE DEF g
    <3> QED BY <2>1, <2>2
  <2> QED BY <2>3
<1>1. PICK u \in Bad : \A t \in Bad : ~ (t \subseteq u /\ t # u)
  <2>1. Bad \subseteq SUBSET S OBVIOUS
  <2> HIDE DEF Bad
  <2> QED BY <2>1, LeastSubset
<1>2. u \subseteq S /\ IsFiniteSet(u) BY FS_Subset
<1>3. u # {}
  <2>1. {} \cap T = {} OBVIOUS
  <2> HIDE DEF g
  <2> QED BY <2>1, SumEmpty
<1> DEFINE p == Pick(u)
           R == u \ {p}
<1>4. p \in u BY <1>3, PickIn
<1>5. SumFunctionOnSet(g, R) = SumFunctionOnSet(f, R \cap T)
  <2>1. R \notin Bad BY <1>1, <1>4
  <2> HIDE DEF g
  <2> QED BY <1>2, <2>1
<1>6. SumFunctionOnSet(g, u) = g[p] + SumFunctionOnSet(g, R) BY <1>2, <1>3, SumPick
<1>7. IsFiniteSet(R \cap T) /\ \A y \in R \cap T : f[y] \in Int BY <1>2, FS_Subset
<1>8. SumFunctionOnSet(f, R \cap T) \in Int
  <2> HIDE DEF R
  <2> QED BY <1>7, SumType
<1>9. SumFunctionOnSet(f, u \cap T) = g[p] + SumFunctionOnSet(f, R \cap T)
  <2>1. CASE p \in T
    <3>1. u \cap T = (R \cap T) \cup {p} /\ p \notin R \cap T /\ f[p] \in Int
        BY <1>4, <2>1
    <3>2. g[p] = f[p] BY <1>2, <1>4, <2>1
    <3>3. SumFunctionOnSet(f, (R \cap T) \cup {p}) = SumFunctionOnSet(f, R \cap T) + f[p]
      <4> HIDE DEF R, p
      <4> QED BY <1>7, <3>1, SumAdd
    <3>4. SumFunctionOnSet(f, u \cap T) = SumFunctionOnSet(f, R \cap T) + f[p]
        BY <3>1, <3>3
    <3>5. f[p] + SumFunctionOnSet(f, R \cap T) = SumFunctionOnSet(f, R \cap T) + f[p]
      <4> HIDE DEF R, p
      <4> QED BY <1>8, <3>1
    <3> HIDE DEF R, p, g, Bad
    <3> QED BY <3>2, <3>4, <3>5
  <2>2. CASE p \notin T
    <3>1. u \cap T = R \cap T BY <1>4, <2>2
    <3>2. g[p] = 0 BY <1>2, <1>4, <2>2
    <3>3. SumFunctionOnSet(f, R \cap T) = 0 + SumFunctionOnSet(f, R \cap T)
      <4> HIDE DEF R
      <4> QED BY <1>8
    <3> HIDE DEF R, p, g, Bad
    <3> QED BY <3>1, <3>2, <3>3
  <2> QED BY <2>1, <2>2
<1>10. SumFunctionOnSet(g, u) = SumFunctionOnSet(f, u \cap T)
  <2> HIDE DEF R, p, g
  <2> QED BY <1>5, <1>6, <1>9
<1> QED BY <1>10

\* The sum of two functions is the sum of their sums.
LEMMA SumPlus ==
    ASSUME NEW S, IsFiniteSet(S), NEW f, NEW g, NEW h,
           \A x \in S : f[x] \in Int /\ g[x] \in Int /\ h[x] = f[x] + g[x]
    PROVE  SumFunctionOnSet(h, S) = SumFunctionOnSet(f, S) + SumFunctionOnSet(g, S)
<1> DEFINE Bad == {u \in SUBSET S :
                     SumFunctionOnSet(h, u) # SumFunctionOnSet(f, u) + SumFunctionOnSet(g, u)}
<1> SUFFICES ASSUME Bad # {} PROVE FALSE OBVIOUS
<1>1. PICK u \in Bad : \A t \in Bad : ~ (t \subseteq u /\ t # u)
  <2>1. Bad \subseteq SUBSET S OBVIOUS
  <2> HIDE DEF Bad
  <2> QED BY <2>1, LeastSubset
<1>2. u \subseteq S /\ IsFiniteSet(u) BY FS_Subset
<1>3. u # {}
  <2>1. /\ SumFunctionOnSet(h, {}) = 0
        /\ SumFunctionOnSet(f, {}) = 0
        /\ SumFunctionOnSet(g, {}) = 0
      BY SumEmpty
  <2>2. SumFunctionOnSet(h, {}) = SumFunctionOnSet(f, {}) + SumFunctionOnSet(g, {})
    BY <2>1
  <2> QED BY <2>2
<1> DEFINE p == Pick(u)
           R == u \ {p}
<1>4. p \in u /\ p \in S BY <1>2, <1>3, PickIn
<1>5. SumFunctionOnSet(h, R) = SumFunctionOnSet(f, R) + SumFunctionOnSet(g, R)
  <2>1. R \notin Bad BY <1>1, <1>4
  <2> QED BY <1>2, <2>1
<1>6. /\ SumFunctionOnSet(f, u) = f[p] + SumFunctionOnSet(f, R)
      /\ SumFunctionOnSet(g, u) = g[p] + SumFunctionOnSet(g, R)
      /\ SumFunctionOnSet(h, u) = h[p] + SumFunctionOnSet(h, R)
    BY <1>2, <1>3, SumPick
<1>7. IsFiniteSet(R) /\ \A y \in R : f[y] \in Int /\ g[y] \in Int BY <1>2, FS_Subset
<1>8. SumFunctionOnSet(f, R) \in Int /\ SumFunctionOnSet(g, R) \in Int
  <2> HIDE DEF R
  <2> QED BY <1>7, SumType
<1>9. f[p] \in Int /\ g[p] \in Int /\ h[p] = f[p] + g[p] BY <1>4
<1>10. SumFunctionOnSet(h, u) = SumFunctionOnSet(f, u) + SumFunctionOnSet(g, u)
  <2> HIDE DEF R, p, Bad
  <2> QED BY <1>5, <1>6, <1>8, <1>9
<1> QED BY <1>10

\* The sum over two sets that share nothing.
LEMMA SumUnion ==
    ASSUME NEW S, IsFiniteSet(S), NEW T, IsFiniteSet(T), S \cap T = {},
           NEW f, \A x \in S \cup T : f[x] \in Int
    PROVE  SumFunctionOnSet(f, S \cup T) = SumFunctionOnSet(f, S) + SumFunctionOnSet(f, T)
<1> DEFINE U == S \cup T
           g == [x \in U |-> IF x \in S THEN f[x] ELSE 0]
           h == [x \in U |-> IF x \in T THEN f[x] ELSE 0]
<1>1. IsFiniteSet(U) /\ S \subseteq U /\ T \subseteq U BY FS_Union
<1>2. \A x \in U : g[x] \in Int /\ h[x] \in Int /\ f[x] = g[x] + h[x] OBVIOUS
<1>3. SumFunctionOnSet(f, S) = SumFunctionOnSet(g, U) /\ SumFunctionOnSet(f, T) = SumFunctionOnSet(h, U)
  <2>1. (\A x \in S : f[x] \in Int) /\ \A x \in T : f[x] \in Int OBVIOUS
  <2> HIDE DEF U
  <2> QED BY <1>1, <2>1, SumPart
<1> HIDE DEF U, g, h
<1>4. SumFunctionOnSet(f, U) = SumFunctionOnSet(g, U) + SumFunctionOnSet(h, U)
    BY ONLY <1>1, <1>2, SumPlus
<1> QED BY <1>3, <1>4 DEF U

\* The sum over sets that share nothing, one after the other.
LEMMA SumOfSums ==
    ASSUME NEW I, IsFiniteSet(I), NEW P, \A i \in I : IsFiniteSet(P[i]),
           \A i, j \in I : i # j => P[i] \cap P[j] = {},
           NEW f, \A i \in I : \A x \in P[i] : f[x] \in Int
    PROVE  SumFunctionOnSet(f, UNION {P[i] : i \in I}) =
             SumFunctionOnSet([i \in I |-> SumFunctionOnSet(f, P[i])], I)
<1> DEFINE g == [i \in I |-> SumFunctionOnSet(f, P[i])]
           All(u) == UNION {P[i] : i \in u}
           Good(u) == IsFiniteSet(All(u)) /\ SumFunctionOnSet(f, All(u)) = SumFunctionOnSet(g, u)
           Bad == {u \in SUBSET I : ~ Good(u)}
<1> SUFFICES ASSUME Bad # {} PROVE FALSE
  <2>1. I \notin Bad => Good(I) OBVIOUS
  <2> QED BY <2>1
<1>1. PICK u \in Bad : \A t \in Bad : ~ (t \subseteq u /\ t # u)
  <2>1. Bad \subseteq SUBSET I OBVIOUS
  <2> HIDE DEF Bad
  <2> QED BY <2>1, LeastSubset
<1>2. u \subseteq I /\ IsFiniteSet(u) /\ ~ Good(u) BY FS_Subset
<1>3. u # {}
  <2>1. ASSUME u = {} PROVE Good(u)
    <3>1. All(u) = {} BY <2>1
    <3>2. IsFiniteSet({}) BY FS_EmptySet
    <3>3. SumFunctionOnSet(f, {}) = 0 /\ SumFunctionOnSet(g, {}) = 0 BY SumEmpty
    <3> HIDE DEF All, g
    <3> QED BY <2>1, <3>1, <3>2, <3>3
  <2> QED BY <1>2, <2>1
<1> DEFINE p == Pick(u)
           R == u \ {p}
<1>4. p \in u /\ p \in I BY <1>2, <1>3, PickIn
<1>5. Good(R)
  <2>1. R \notin Bad BY <1>1, <1>4
  <2> QED BY <1>2, <2>1
<1>6. All(u) = All(R) \cup P[p] /\ All(R) \cap P[p] = {}
  <2>1. ASSUME NEW i \in R PROVE P[i] \cap P[p] = {}
    <3>1. i \in I /\ p \in I /\ i # p BY <1>2, <1>4
    <3> HIDE DEF p, R
    <3> QED BY <3>1
  <2>2. u = R \cup {p} BY <1>4
  <2>3. All(R) \cap P[p] = {}
    <3> HIDE DEF p, R
    <3> QED BY <2>1
  <2>4. All(u) = All(R) \cup P[p]
    <3> HIDE DEF R, p
    <3> QED BY <2>2
  <2> QED BY <2>3, <2>4
<1>7. \A x \in All(R) \cup P[p] : f[x] \in Int BY <1>2, <1>4
<1>8. IsFiniteSet(P[p]) BY <1>4
<1>9. SumFunctionOnSet(f, All(u)) = SumFunctionOnSet(f, All(R)) + SumFunctionOnSet(f, P[p])
  <2> DEFINE A == All(R)
             B == P[p]
  <2>1. IsFiniteSet(A) /\ IsFiniteSet(B) /\ A \cap B = {} /\ All(u) = A \cup B
      BY <1>5, <1>6, <1>8
  <2>2. \A x \in A \cup B : f[x] \in Int BY <1>7
  <2> HIDE DEF A, B, All, R, p
  <2>3. SumFunctionOnSet(f, A \cup B) = SumFunctionOnSet(f, A) + SumFunctionOnSet(f, B)
      BY ONLY <2>1, <2>2, SumUnion
  <2> QED BY <2>1, <2>3 DEF A, B
<1>10. SumFunctionOnSet(g, u) = g[p] + SumFunctionOnSet(g, R) BY <1>2, <1>3, SumPick
<1>11. g[p] = SumFunctionOnSet(f, P[p]) BY <1>4
<1>12. SumFunctionOnSet(f, All(R)) \in Int /\ SumFunctionOnSet(f, P[p]) \in Int
  <2>1. \A x \in All(R) : f[x] \in Int BY <1>7
  <2>2. \A x \in P[p] : f[x] \in Int BY <1>4
  <2>3. IsFiniteSet(All(R)) BY <1>5
  <2> HIDE DEF All, R, p
  <2> QED BY <1>8, <2>1, <2>2, <2>3, SumType
<1>13. IsFiniteSet(All(u))
  <2> DEFINE A == All(R)
             B == P[p]
  <2>1. IsFiniteSet(A) /\ IsFiniteSet(B) BY <1>5, <1>8
  <2>2. All(u) = A \cup B BY <1>6
  <2> HIDE DEF A, B, All
  <2>3. IsFiniteSet(A \cup B) BY ONLY <2>1, FS_Union
  <2> QED BY ONLY <2>2, <2>3
<1>14. SumFunctionOnSet(f, All(u)) = SumFunctionOnSet(g, u)
  <2>1. SumFunctionOnSet(f, All(R)) = SumFunctionOnSet(g, R) BY <1>5
  <2> HIDE DEF All, R, p, g, Good, Bad
  <2> QED BY <1>9, <1>10, <1>11, <1>12, <2>1
<1>15. ~ Good(u) BY <1>2
<1> HIDE DEF All, g, Bad, R, p
<1> QED BY <1>13, <1>14, <1>15
=============================================================================
