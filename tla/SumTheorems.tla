---------------------------- MODULE SumTheorems ----------------------------
(***************************************************************************)
(* Facts about SumFunctionOnSet, the sum of the community modules that the *)
(* ledgers of this project are written with.                               *)
(***************************************************************************)
EXTENDS Integers, FiniteSets, Functions, FiniteSetTheorems, WellFoundedInduction, TLAPS

\* A non-empty set of subsets of a finite set has a minimal element: the induction
\* principle of this module.
LEMMA MinimalSubset ==
    ASSUME NEW S, IsFiniteSet(S), NEW F \in SUBSET SUBSET S, F # {}
    PROVE  \E A \in F : \A B \in F : B \subseteq A => B = A
<1>1. IsWellFoundedOn(StrictSubsetOrdering(S), FiniteSubsetsOf(S))
  BY FS_StrictSubsetOrderingWellFounded
<1>2. FiniteSubsetsOf(S) = SUBSET S
  BY FS_FiniteSubsetsOfFinite
<1>3. PICK A \in F : \A B \in F : ~(<<B, A>> \in StrictSubsetOrdering(S))
  BY <1>1, <1>2, WFMin
<1>4. ASSUME NEW B \in F, B \subseteq A PROVE B = A
  BY Zenon, <1>3, <1>4 DEF StrictSubsetOrdering
<1> QED
  BY <1>4

\* A set of numbers that holds 0 and is closed under successor holds all numbers.
LEMMA SuccessorClosed ==
    ASSUME NEW G \in SUBSET Nat, 0 \in G, \A n \in G : n + 1 \in G
    PROVE  G = Nat
<1> DEFINE B == Nat \ G
<1> SUFFICES ASSUME B # {} PROVE FALSE
  BY Zenon
<1>1. PICK n \in B : \A m \in B : ~(<<m, n>> \in OpToRel(<, Nat))
  BY NatLessThanWellFounded, WFMin
<1>2. n # 0 /\ n - 1 \in Nat
  OBVIOUS
<1>3. <<n - 1, n>> \in OpToRel(<, Nat)
  BY <1>2 DEF OpToRel
<1>4. n - 1 \in G
  BY Zenon, <1>1, <1>2, <1>3
<1>5. (n - 1) + 1 = n
  OBVIOUS
<1> QED
  BY <1>4, <1>5
-----------------------------------------------------------------------------
Pick(s) == CHOOSE x \in s : TRUE

\* The body of the recursion, and what its fixed points are.
Term(f, g, s) == IF s = {} THEN 0 ELSE f[Pick(s)] + g[s \ {Pick(s)}]
Folds(f, S, g) == g = [s \in SUBSET S |-> Term(f, g, s)]

\* The element FoldFunctionOnSet takes first is one of the set.
LEMMA PickIn == ASSUME NEW s, s # {} PROVE Pick(s) \in s
  BY DEF Pick

\* SumFunctionOnSet with its definition expanded: a chosen fold, at the whole set.
LEMMA SumAsFold ==
    ASSUME NEW f, NEW S
    PROVE  SumFunctionOnSet(f, S) = (CHOOSE g : Folds(f, S, g))[S]
  BY DEF SumFunctionOnSet, FoldFunctionOnSet, MapThenFoldSet, Folds, Term, Pick

\* The recursion of the fold is well founded on a finite set.
LEMMA FoldExists ==
    ASSUME NEW f, NEW S, IsFiniteSet(S)
    PROVE  \E g : Folds(f, S, g)
<1> DEFINE Up(n) == {s \in SUBSET S : Cardinality(s) <= n}
           Good(n) == \E g : /\ g = [s \in SUBSET S |-> g[s]]
                             /\ \A s \in Up(n) : g[s] = Term(f, g, s)
           G == {n \in Nat : Good(n)}
<1>0. \A s \in SUBSET S : IsFiniteSet(s) /\ Cardinality(s) \in Nat
  BY FS_Subset, FS_CardinalityType
<1>1. 0 \in G
  <2> DEFINE g == [s \in SUBSET S |-> 0]
  <2>1. ASSUME NEW s \in Up(0) PROVE g[s] = Term(f, g, s)
    <3>1. s = {}
      BY <1>0, FS_EmptySet
    <3> QED
      BY <3>1 DEF Term
  <2>2. g = [s \in SUBSET S |-> g[s]]
    OBVIOUS
  <2> QED
    BY Zenon, <2>1, <2>2
<1>2. ASSUME NEW n \in G PROVE n + 1 \in G
  <2>1. PICK g : /\ g = [s \in SUBSET S |-> g[s]]
                 /\ \A s \in Up(n) : g[s] = Term(f, g, s)
    BY Zenon, <1>2
  <2> DEFINE h == [s \in SUBSET S |-> Term(f, g, s)]
  <2>2. ASSUME NEW s \in Up(n + 1) PROVE h[s] = Term(f, h, s)
    <3>1. CASE s = {}
      BY <3>1 DEF Term
    <3>2. CASE s # {}
      <4> DEFINE t == s \ {Pick(s)}
      <4>1. t \in SUBSET S /\ Cardinality(t) = Cardinality(s) - 1
        BY Zenon, <1>0, <3>2, PickIn, FS_RemoveElement
      <4>2. t \in Up(n)
        BY <4>1, <1>0
      <4>3. h[t] = g[t]
        BY Zenon, <4>1, <4>2, <2>1
      <4> QED
        BY <4>3, <3>2 DEF Term
    <3> QED
      BY <3>1, <3>2
  <2>3. h = [s \in SUBSET S |-> h[s]]
    OBVIOUS
  <2> HIDE DEF h
  <2>4. Good(n + 1)
    BY Zenon, <2>2, <2>3
  <2>5. n + 1 \in Nat
    OBVIOUS
  <2> QED
    BY Zenon, <2>4, <2>5
<1> HIDE DEF G
<1>3. G = Nat
  <2>1. G \in SUBSET Nat
    BY DEF G
  <2> QED
    BY <1>1, <1>2, <2>1, SuccessorClosed
<1>4. Good(Cardinality(S))
  BY Zenon, <1>0, <1>3 DEF G
<1>5. Up(Cardinality(S)) = SUBSET S
  BY FS_Subset, <1>0
<1>6. PICK g : /\ g = [s \in SUBSET S |-> g[s]]
               /\ \A s \in SUBSET S : g[s] = Term(f, g, s)
  BY Zenon, <1>4, <1>5
<1>7. Folds(f, S, g)
  BY Zenon, <1>6 DEF Folds
<1> QED
  BY <1>7

\* Two such folds, of functions that agree, agree on the subsets both are defined on.
LEMMA FoldUnique ==
    ASSUME NEW S, IsFiniteSet(S), NEW T \in SUBSET S, NEW f, NEW e,
           \A x \in T : f[x] = e[x],
           NEW g, Folds(f, S, g), NEW h, Folds(e, T, h)
    PROVE  \A s \in SUBSET T : g[s] = h[s]
<1> DEFINE F == {s \in SUBSET T : g[s] # h[s]}
<1>1. /\ \A s \in SUBSET S : g[s] = Term(f, g, s)
      /\ \A s \in SUBSET T : h[s] = Term(e, h, s)
  BY Zenon DEF Folds
<1> SUFFICES ASSUME F # {} PROVE FALSE
  OBVIOUS
<1>2. F \in SUBSET SUBSET S
  OBVIOUS
<1>3. PICK A \in F : \A B \in F : B \subseteq A => B = A
  <2> HIDE DEF F
  <2> QED
    BY <1>2, MinimalSubset
<1>4. A # {}
  BY Zenon, <1>1 DEF Term
<1> DEFINE B == A \ {Pick(A)}
<1>5. Pick(A) \in A
  BY <1>4, PickIn
<1>6. B \in SUBSET T /\ B # A /\ B \subseteq A
  BY <1>5
<1>7. g[B] = h[B]
  BY <1>3, <1>6
<1>8. g[A] = Term(f, g, A) /\ h[A] = Term(e, h, A)
  BY <1>1
<1>9. Pick(A) \in T
  BY <1>5
<1> QED
  BY <1>4, <1>7, <1>8, <1>9 DEF Term

\* Such a fold has all the sums over subsets of S.
Sums(f, S, g) == \A T \in SUBSET S : \A e : (\A x \in T : f[x] = e[x])
                    => SumFunctionOnSet(e, T) = g[T]

\* One fold on S gives the sums over all subsets of S.
LEMMA SumIsFold ==
    ASSUME NEW f, NEW S, IsFiniteSet(S)
    PROVE  \E g : Folds(f, S, g) /\ Sums(f, S, g)
<1>1. PICK g : Folds(f, S, g)
  BY FoldExists
<1>2. ASSUME NEW T \in SUBSET S, NEW e, \A x \in T : f[x] = e[x]
      PROVE  SumFunctionOnSet(e, T) = g[T]
  <2> DEFINE h == CHOOSE k : Folds(e, T, k)
  <2>1. IsFiniteSet(T)
    BY FS_Subset
  <2>2. Folds(e, T, h)
    BY <2>1, FoldExists
  <2>3. SumFunctionOnSet(e, T) = h[T]
    BY SumAsFold
  <2> HIDE DEF h
  <2>4. g[T] = h[T]
    BY <1>1, <1>2, <2>2, FoldUnique
  <2> QED
    BY <2>3, <2>4
<1> QED
  BY <1>1, <1>2 DEF Sums

\* The sum over no element.
LEMMA SumEmpty == \A f : SumFunctionOnSet(f, {}) = 0
<1> TAKE f
<1>1. PICK g : Folds(f, {}, g) /\ Sums(f, {}, g)
  BY SumIsFold, FS_EmptySet
<1>2. SumFunctionOnSet(f, {}) = g[{}]
  BY <1>1 DEF Sums
<1>3. g[{}] = Term(f, g, {})
  BY <1>1 DEF Folds
<1> QED
  BY <1>2, <1>3 DEF Term

\* Functions that agree on a set have the same sum over it.
LEMMA SumEqual ==
    ASSUME NEW S, IsFiniteSet(S), NEW f, NEW g, \A x \in S : f[x] = g[x]
    PROVE  SumFunctionOnSet(f, S) = SumFunctionOnSet(g, S)
<1>1. PICK h : Folds(f, S, h) /\ Sums(f, S, h)
  BY SumIsFold
<1>2. S \in SUBSET S
  OBVIOUS
<1>3. SumFunctionOnSet(f, S) = h[S]
  BY <1>1, <1>2 DEF Sums
<1>4. SumFunctionOnSet(g, S) = h[S]
  BY <1>1, <1>2 DEF Sums
<1> QED
  BY <1>3, <1>4

\* The sum taken apart at the element the fold takes first.
LEMMA SumPicked ==
    ASSUME NEW f, NEW S, IsFiniteSet(S), S # {}
    PROVE  SumFunctionOnSet(f, S) = f[Pick(S)] + SumFunctionOnSet(f, S \ {Pick(S)})
<1>1. PICK h : Folds(f, S, h) /\ Sums(f, S, h)
  BY SumIsFold
<1>2. S \in SUBSET S /\ S \ {Pick(S)} \in SUBSET S
  OBVIOUS
<1>3. SumFunctionOnSet(f, S) = h[S] /\ SumFunctionOnSet(f, S \ {Pick(S)}) = h[S \ {Pick(S)}]
  BY <1>1, <1>2 DEF Sums
<1>4. h[S] = Term(f, h, S)
  BY <1>1 DEF Folds
<1> QED
  BY <1>3, <1>4 DEF Term

\* The sum of integers is an integer.
LEMMA SumInt ==
    ASSUME NEW S, IsFiniteSet(S), NEW f, \A x \in S : f[x] \in Int
    PROVE  SumFunctionOnSet(f, S) \in Int
<1> DEFINE F == {T \in SUBSET S : SumFunctionOnSet(f, T) \notin Int}
<1> SUFFICES ASSUME F # {} PROVE FALSE
  OBVIOUS
<1>1. PICK A \in F : \A B \in F : B \subseteq A => B = A
  <2>1. F \in SUBSET SUBSET S
    OBVIOUS
  <2> HIDE DEF F
  <2> QED
    BY <2>1, MinimalSubset
<1>2. A # {}
  BY SumEmpty
<1> DEFINE B == A \ {Pick(A)}
<1>3. Pick(A) \in A
  BY <1>2, PickIn
<1>4. IsFiniteSet(A)
  BY FS_Subset
<1>5. SumFunctionOnSet(f, A) = f[Pick(A)] + SumFunctionOnSet(f, B)
  BY <1>2, <1>4, SumPicked
<1>6. B \in SUBSET S /\ B \subseteq A /\ B # A
  BY <1>3
<1>7. SumFunctionOnSet(f, B) \in Int
  BY <1>1, <1>6
<1>8. f[Pick(A)] \in Int
  BY <1>3
<1> QED
  BY <1>5, <1>7, <1>8

\* The sum taken apart at any element.
LEMMA SumRemove ==
    ASSUME NEW S, IsFiniteSet(S), NEW f, \A x \in S : f[x] \in Int, NEW x \in S
    PROVE  SumFunctionOnSet(f, S) = SumFunctionOnSet(f, S \ {x}) + f[x]
<1> DEFINE Sm(T) == SumFunctionOnSet(f, T)
           Good(T) == \A y \in T : Sm(T) = Sm(T \ {y}) + f[y]
           F == {T \in SUBSET S : ~Good(T)}
<1> SUFFICES ASSUME F # {} PROVE FALSE
  <2>1. S \in SUBSET S
    OBVIOUS
  <2> QED
    BY <2>1
<1>1. PICK A \in F : \A B \in F : B \subseteq A => B = A
  <2>1. F \in SUBSET SUBSET S
    OBVIOUS
  <2> HIDE DEF F
  <2> QED
    BY <2>1, MinimalSubset
<1>2. PICK y \in A : Sm(A) # Sm(A \ {y}) + f[y]
  BY Zenon
<1> DEFINE p == Pick(A)
<1>3. p \in A
  BY <1>2, PickIn
<1>4. /\ IsFiniteSet(A) /\ \A T \in SUBSET A : IsFiniteSet(T)
      /\ \A T \in SUBSET A : Sm(T) \in Int
  <2>1. ASSUME NEW T \in SUBSET A PROVE IsFiniteSet(T) /\ Sm(T) \in Int
    <3>1. IsFiniteSet(T)
      BY FS_Subset
    <3>2. \A z \in T : f[z] \in Int
      OBVIOUS
    <3> QED
      BY <3>1, <3>2, SumInt
  <2> QED
    BY <2>1
<1>5. Sm(A) = f[p] + Sm(A \ {p})
  BY <1>3, <1>4, SumPicked
<1> HIDE DEF p, Sm
<1>6. f[p] \in Int /\ f[y] \in Int
  BY <1>3
<1>7. p # y
  <2>1. A \ {p} \in SUBSET A
    OBVIOUS
  <2>2. Sm(A \ {p}) \in Int
    BY <2>1, <1>4
  <2>3. Sm(A) = Sm(A \ {p}) + f[p]
    BY <2>2, <1>5, <1>6
  <2> QED
    BY Zenon, <1>2, <2>3
<1>8. Sm(A \ {p}) = Sm((A \ {p}) \ {y}) + f[y]
  <2>1. A \ {p} \in SUBSET S /\ A \ {p} \subseteq A /\ A \ {p} # A
    BY <1>3
  <2>2. Good(A \ {p})
    BY <1>1, <2>1
  <2> QED
    BY Zenon, <2>2, <1>2, <1>7
<1>9. Sm(A \ {y}) = Sm((A \ {y}) \ {p}) + f[p]
  <2>1. A \ {y} \in SUBSET S /\ A \ {y} \subseteq A /\ A \ {y} # A
    BY <1>2
  <2>2. Good(A \ {y})
    BY <1>1, <2>1
  <2> QED
    BY <2>2, <1>3, <1>7
<1>10. (A \ {y}) \ {p} = (A \ {p}) \ {y} /\ (A \ {p}) \ {y} \in SUBSET A
  OBVIOUS
<1>11. Sm(A) = Sm(A \ {y}) + f[y]
  <2> DEFINE k == Sm((A \ {p}) \ {y})
  <2>1. k \in Int
    BY <1>4, <1>10
  <2>2. Sm(A) = f[p] + (k + f[y]) /\ Sm(A \ {y}) = k + f[p]
    BY Zenon, <1>5, <1>8, <1>9, <1>10
  <2> HIDE DEF k
  <2> QED
    BY <2>1, <2>2, <1>6
<1> QED
  BY <1>2, <1>11
-----------------------------------------------------------------------------
\* A set of subsets of S that is closed under adding an element has S.
LEMMA AddingElements ==
    ASSUME NEW S, IsFiniteSet(S), NEW F \in SUBSET SUBSET S, {} \in F,
           \A A \in F : \A x \in S \ A : A \cup {x} \in F
    PROVE  S \in F
<1> DEFINE B == (SUBSET S) \ F
<1> SUFFICES ASSUME B # {} PROVE FALSE
  OBVIOUS
<1>1. PICK A \in B : \A C \in B : C \subseteq A => C = A
  <2>1. B \in SUBSET SUBSET S
    OBVIOUS
  <2> HIDE DEF B
  <2> QED
    BY <2>1, MinimalSubset
<1>2. PICK x : x \in A
  OBVIOUS
<1> DEFINE C == A \ {x}
<1>3. C \in SUBSET S /\ C \subseteq A /\ C # A /\ C \cup {x} = A /\ x \in S \ C
  BY <1>2
<1> HIDE DEF C
<1>4. C \in F
  BY <1>1, <1>3
<1> QED
  BY <1>3, <1>4

\* One more element adds its value.
LEMMA SumAdd ==
    ASSUME NEW S, IsFiniteSet(S), NEW x, x \notin S, NEW T, T = S \cup {x},
           NEW f, \A y \in T : f[y] \in Int
    PROVE  SumFunctionOnSet(f, T) = SumFunctionOnSet(f, S) + f[x]
<1>1. IsFiniteSet(T)
  BY FS_AddElement
<1>2. T \ {x} = S /\ x \in T
  OBVIOUS
<1>3. SumFunctionOnSet(f, T) = SumFunctionOnSet(f, T \ {x}) + f[x]
  BY <1>1, <1>2, SumRemove
<1> QED
  BY <1>2, <1>3

\* The sum over one element.
LEMMA SumSingleton ==
    ASSUME NEW f, NEW x, f[x] \in Int
    PROVE  SumFunctionOnSet(f, {x}) = f[x]
<1>1. {x} = {} \cup {x} /\ x \notin {} /\ \A y \in {x} : f[y] \in Int
  OBVIOUS
<1>2. SumFunctionOnSet(f, {x}) = SumFunctionOnSet(f, {}) + f[x]
  BY <1>1, SumAdd, FS_EmptySet
<1> QED
  BY <1>2, SumEmpty

\* The sum over two sets that share no element.
LEMMA SumUnion ==
    ASSUME NEW S, IsFiniteSet(S), NEW T, IsFiniteSet(T), S \cap T = {},
           NEW U, U = S \cup T, NEW f, \A x \in U : f[x] \in Int
    PROVE  SumFunctionOnSet(f, U) = SumFunctionOnSet(f, S) + SumFunctionOnSet(f, T)
<1> DEFINE Sm(A) == SumFunctionOnSet(f, A)
           F == {A \in SUBSET T : Sm(S \cup A) = Sm(S) + Sm(A)}
<1>1. ASSUME NEW A \in SUBSET U PROVE IsFiniteSet(A) /\ Sm(A) \in Int
  <2>1. IsFiniteSet(U)
    BY Zenon, FS_Union
  <2>2. IsFiniteSet(A)
    BY <2>1, FS_Subset
  <2>3. \A x \in A : f[x] \in Int
    OBVIOUS
  <2> QED
    BY <2>2, <2>3, SumInt
<1>2. {} \in F
  <2>1. S \cup {} = S /\ S \in SUBSET U
    OBVIOUS
  <2>2. Sm(S) \in Int /\ Sm({}) = 0
    BY <2>1, <1>1, SumEmpty
  <2> QED
    BY <2>1, <2>2
<1>3. ASSUME NEW A \in F, NEW x \in T \ A PROVE A \cup {x} \in F
  <2> DEFINE C == A \cup {x}
             D == S \cup A
             E == S \cup C
  <2>1. /\ A \in SUBSET U /\ C \in SUBSET U /\ D \in SUBSET U /\ E \in SUBSET U
        /\ S \in SUBSET U /\ C \in SUBSET T
        /\ C = A \cup {x} /\ E = D \cup {x} /\ x \notin A /\ x \notin D
        /\ Sm(D) = Sm(S) + Sm(A)
    OBVIOUS
  <2>2. f[x] \in Int /\ \A y \in C : f[y] \in Int
    OBVIOUS
  <2>3. \A y \in E : f[y] \in Int
    OBVIOUS
  <2> HIDE DEF C, D, E, F
  <2>4. Sm(C) = Sm(A) + f[x]
    BY <2>1, <2>2, <1>1, SumAdd
  <2>5. Sm(E) = Sm(D) + f[x]
    BY <2>1, <2>3, <1>1, SumAdd
  <2>6. Sm(S) \in Int /\ Sm(A) \in Int
    BY <2>1, <1>1
  <2> HIDE DEF Sm
  <2>7. Sm(E) = Sm(S) + Sm(C)
    BY <2>1, <2>2, <2>4, <2>5, <2>6
  <2> QED
    BY <2>1, <2>7 DEF F, C, E
<1>4. F \in SUBSET SUBSET T
  OBVIOUS
<1>5. T \in F
  <2> HIDE DEF F
  <2> QED
    BY Zenon, <1>2, <1>3, <1>4, AddingElements
<1> QED
  BY <1>5

\* The sum of two functions.
LEMMA SumPlus ==
    ASSUME NEW S, IsFiniteSet(S), NEW f, NEW g, NEW h,
           \A x \in S : f[x] \in Int /\ g[x] \in Int /\ h[x] = f[x] + g[x]
    PROVE  SumFunctionOnSet(h, S) = SumFunctionOnSet(f, S) + SumFunctionOnSet(g, S)
<1> DEFINE Sm(k, A) == SumFunctionOnSet(k, A)
           F == {A \in SUBSET S : Sm(h, A) = Sm(f, A) + Sm(g, A)}
<1>1. {} \in F
  BY SumEmpty
<1>2. ASSUME NEW A \in F, NEW x \in S \ A PROVE A \cup {x} \in F
  <2>0. A \in SUBSET S /\ A \cup {x} \in SUBSET S /\ Sm(h, A) = Sm(f, A) + Sm(g, A)
    OBVIOUS
  <2> HIDE DEF F
  <2>1. IsFiniteSet(A) /\ x \notin A
    BY <2>0, FS_Subset
  <2>2. ASSUME NEW k, \A y \in S : k[y] \in Int
        PROVE  Sm(k, A \cup {x}) = Sm(k, A) + k[x] /\ Sm(k, A) \in Int /\ k[x] \in Int
    <3>1. \A y \in A \cup {x} : k[y] \in Int
      BY <2>0, <2>2
    <3>2. \A y \in A : k[y] \in Int
      BY <3>1
    <3>3. Sm(k, A) \in Int /\ k[x] \in Int
      BY <2>1, <3>1, <3>2, SumInt
    <3>4. Sm(k, A \cup {x}) = Sm(k, A) + k[x]
      BY <2>1, <3>1, SumAdd
    <3> QED
      BY <3>3, <3>4
  <2>3. Sm(f, A \cup {x}) = Sm(f, A) + f[x] /\ Sm(f, A) \in Int /\ f[x] \in Int
    BY Zenon, <2>2
  <2>4. Sm(g, A \cup {x}) = Sm(g, A) + g[x] /\ Sm(g, A) \in Int /\ g[x] \in Int
    BY Zenon, <2>2
  <2>5. Sm(h, A \cup {x}) = Sm(h, A) + h[x]
    <3>1. \A y \in S : h[y] \in Int
      OBVIOUS
    <3> QED
      BY Zenon, <3>1, <2>2
  <2> HIDE DEF Sm
  <2>8. Sm(h, A \cup {x}) = Sm(f, A \cup {x}) + Sm(g, A \cup {x})
    BY <2>0, <2>3, <2>4, <2>5
  <2> QED
    BY <2>0, <2>8 DEF F
<1>3. F \in SUBSET SUBSET S
  OBVIOUS
<1>4. S \in F
  <2> HIDE DEF F
  <2> QED
    BY Zenon, <1>1, <1>2, <1>3, AddingElements
<1> QED
  BY <1>4

\* A larger function has a larger sum.
LEMMA SumMonotone ==
    ASSUME NEW S, IsFiniteSet(S), NEW f, NEW g,
           \A x \in S : f[x] \in Int /\ g[x] \in Int /\ f[x] <= g[x]
    PROVE  SumFunctionOnSet(f, S) <= SumFunctionOnSet(g, S)
<1> DEFINE Sm(k, A) == SumFunctionOnSet(k, A)
           F == {A \in SUBSET S : Sm(f, A) <= Sm(g, A)}
<1>1. {} \in F
  BY SumEmpty
<1>2. ASSUME NEW A \in F, NEW x \in S \ A PROVE A \cup {x} \in F
  <2>1. IsFiniteSet(A) /\ x \notin A /\ A \cup {x} \in SUBSET S
    BY FS_Subset
  <2>2. \A y \in A \cup {x} : f[y] \in Int /\ g[y] \in Int
    OBVIOUS
  <2>3. Sm(f, A \cup {x}) = Sm(f, A) + f[x]
    BY <2>1, <2>2, SumAdd
  <2>4. Sm(g, A \cup {x}) = Sm(g, A) + g[x]
    BY <2>1, <2>2, SumAdd
  <2>5. Sm(f, A) \in Int /\ Sm(g, A) \in Int
    BY <2>1, <2>2, SumInt
  <2>6. Sm(f, A) <= Sm(g, A) /\ f[x] <= g[x] /\ f[x] \in Int /\ g[x] \in Int
    OBVIOUS
  <2> HIDE DEF Sm
  <2>7. Sm(f, A \cup {x}) <= Sm(g, A \cup {x})
    BY <2>3, <2>4, <2>5, <2>6
  <2> QED
    BY <2>1, <2>7
<1>3. F \in SUBSET SUBSET S
  OBVIOUS
<1>4. S \in F
  <2> HIDE DEF F
  <2> QED
    BY Zenon, <1>1, <1>2, <1>3, AddingElements
<1> QED
  BY <1>4

\* A sum of zeros.
LEMMA SumZero ==
    ASSUME NEW S, IsFiniteSet(S), NEW f, \A x \in S : f[x] = 0
    PROVE  SumFunctionOnSet(f, S) = 0
<1> DEFINE F == {A \in SUBSET S : SumFunctionOnSet(f, A) = 0}
<1>1. {} \in F
  BY SumEmpty
<1>2. ASSUME NEW A \in F, NEW x \in S \ A PROVE A \cup {x} \in F
  <2>0. A \in SUBSET S /\ SumFunctionOnSet(f, A) = 0
    OBVIOUS
  <2> HIDE DEF F
  <2>1. IsFiniteSet(A) /\ x \notin A /\ A \cup {x} \in SUBSET S
    BY <2>0, FS_Subset
  <2>2. \A y \in A \cup {x} : f[y] \in Int
    BY <2>0
  <2>3. SumFunctionOnSet(f, A \cup {x}) = SumFunctionOnSet(f, A) + f[x]
    BY <2>1, <2>2, SumAdd
  <2>4. f[x] = 0
    OBVIOUS
  <2> QED
    BY <2>0, <2>1, <2>3, <2>4 DEF F
<1>3. F \in SUBSET SUBSET S
  OBVIOUS
<1>4. S \in F
  <2> HIDE DEF F
  <2> QED
    BY Zenon, <1>1, <1>2, <1>3, AddingElements
<1> QED
  BY <1>4

\* The sum of natural numbers is one.
LEMMA SumNat ==
    ASSUME NEW S, IsFiniteSet(S), NEW f, \A x \in S : f[x] \in Nat
    PROVE  SumFunctionOnSet(f, S) \in Nat
<1> DEFINE z == [x \in S |-> 0]
<1>1. SumFunctionOnSet(z, S) = 0
  BY SumZero
<1>2. SumFunctionOnSet(z, S) <= SumFunctionOnSet(f, S)
  <2>1. \A x \in S : z[x] \in Int /\ f[x] \in Int /\ z[x] <= f[x]
    OBVIOUS
  <2> HIDE DEF z
  <2> QED
    BY <2>1, SumMonotone
<1>3. SumFunctionOnSet(f, S) \in Int
  BY SumInt
<1> HIDE DEF z
<1> QED
  BY <1>1, <1>2, <1>3

\* Natural numbers: a part is no more than the whole.
LEMMA SumSubset ==
    ASSUME NEW S, IsFiniteSet(S), NEW T \in SUBSET S, NEW f, \A x \in S : f[x] \in Nat
    PROVE  SumFunctionOnSet(f, T) <= SumFunctionOnSet(f, S)
<1> DEFINE R == S \ T
<1>1. IsFiniteSet(T) /\ IsFiniteSet(R)
  <2>1. T \in SUBSET S /\ R \in SUBSET S
    OBVIOUS
  <2> QED
    BY <2>1, FS_Subset
<1>2. T \cap R = {} /\ S = T \cup R /\ \A x \in S : f[x] \in Int
  OBVIOUS
<1>3. (\A x \in R : f[x] \in Nat) /\ (\A x \in T : f[x] \in Nat)
  OBVIOUS
<1> HIDE DEF R
<1>4. SumFunctionOnSet(f, S) = SumFunctionOnSet(f, T) + SumFunctionOnSet(f, R)
  BY <1>1, <1>2, SumUnion
<1>5. SumFunctionOnSet(f, T) \in Nat /\ SumFunctionOnSet(f, R) \in Nat
  BY <1>1, <1>3, SumNat
<1> QED
  BY <1>4, <1>5

\* Natural numbers: one value is no more than the sum.
LEMMA SumElement ==
    ASSUME NEW S, IsFiniteSet(S), NEW x \in S, NEW f, \A y \in S : f[y] \in Nat
    PROVE  f[x] <= SumFunctionOnSet(f, S)
<1>1. {x} \in SUBSET S /\ f[x] \in Int
  OBVIOUS
<1>2. SumFunctionOnSet(f, {x}) = f[x]
  BY <1>1, SumSingleton
<1>3. SumFunctionOnSet(f, {x}) <= SumFunctionOnSet(f, S)
  BY <1>1, SumSubset
<1> QED
  BY <1>2, <1>3

\* Two sums that differ at one element only, where an element outside of the set counts
\* for nothing.
At(f, T, x) == IF x \in T THEN f[x] ELSE 0

\* Sums of functions and sets that differ at x alone differ by what x counts.
LEMMA SumChange ==
    ASSUME NEW T, IsFiniteSet(T), NEW U, IsFiniteSet(U), NEW x, T \ {x} = U \ {x},
           NEW f, \A y \in T : f[y] \in Int,
           NEW g, \A y \in U : g[y] \in Int,
           \A y \in T \ {x} : f[y] = g[y]
    PROVE  SumFunctionOnSet(g, U) = SumFunctionOnSet(f, T) - At(f, T, x) + At(g, U, x)
<1> DEFINE R == T \ {x}
<1>1. ASSUME NEW V, IsFiniteSet(V), V \ {x} = R, NEW h, \A y \in V : h[y] \in Int
      PROVE  /\ SumFunctionOnSet(h, V) = SumFunctionOnSet(h, R) + At(h, V, x)
             /\ SumFunctionOnSet(h, R) \in Int /\ At(h, V, x) \in Int
             /\ SumFunctionOnSet(h, V) \in Int
  <2>0. R \in SUBSET V
    BY <1>1
  <2>0a. IsFiniteSet(R) /\ \A y \in R : h[y] \in Int
    BY <2>0, <1>1, FS_Subset
  <2>1. SumFunctionOnSet(h, R) \in Int /\ SumFunctionOnSet(h, V) \in Int
    BY <2>0a, <1>1, SumInt
  <2>2. CASE x \in V
    <3>1. V = R \cup {x} /\ x \notin R
      BY <1>1, <2>2
    <3>2. SumFunctionOnSet(h, V) = SumFunctionOnSet(h, R) + h[x]
      BY <2>0a, <3>1, <1>1, SumAdd
    <3> QED
      BY <2>1, <2>2, <3>2, <1>1 DEF At
  <2>3. CASE x \notin V
    <3>1. V = R
      BY <1>1, <2>3
    <3> QED
      BY <2>1, <2>3, <3>1 DEF At
  <2> QED
    BY <2>2, <2>3
<1>2. T \ {x} = R /\ U \ {x} = R /\ R \in SUBSET T /\ \A y \in R : f[y] = g[y]
  OBVIOUS
<1> HIDE DEF R
<1>3. /\ SumFunctionOnSet(f, T) = SumFunctionOnSet(f, R) + At(f, T, x)
      /\ SumFunctionOnSet(f, R) \in Int /\ At(f, T, x) \in Int
  BY <1>1, <1>2
<1>4. /\ SumFunctionOnSet(g, U) = SumFunctionOnSet(g, R) + At(g, U, x)
      /\ SumFunctionOnSet(g, R) \in Int /\ At(g, U, x) \in Int
  BY <1>1, <1>2
<1>5. IsFiniteSet(R)
  BY <1>2, FS_Subset
<1>6. SumFunctionOnSet(f, R) = SumFunctionOnSet(g, R)
  BY <1>2, <1>5, SumEqual
<1> QED
  BY <1>3, <1>4, <1>6

\* The sum over the image of a set under a one-to-one function.
OneToOne(m, S, T) ==
    /\ \A x, y \in S : m[x] = m[y] => x = y
    /\ \A x \in S : m[x] \in T
    /\ \A z \in T : \E x \in S : z = m[x]

\* A sum carried over to a set in one-to-one correspondence.
LEMMA SumImage ==
    ASSUME NEW S, IsFiniteSet(S), NEW T, NEW m, OneToOne(m, S, T),
           NEW f, NEW g, \A x \in S : f[x] \in Int /\ g[m[x]] = f[x]
    PROVE  SumFunctionOnSet(g, T) = SumFunctionOnSet(f, S) /\ IsFiniteSet(T)
<1> DEFINE Im(A) == {m[x] : x \in A}
           F == {A \in SUBSET S : /\ IsFiniteSet(Im(A))
                                  /\ SumFunctionOnSet(g, Im(A)) = SumFunctionOnSet(f, A)}
<1>1. {} \in F
  <2>1. Im({}) = {}
    OBVIOUS
  <2> QED
    BY <2>1, SumEmpty, FS_EmptySet
<1>2. ASSUME NEW A \in F, NEW x \in S \ A PROVE A \cup {x} \in F
  <2> DEFINE B == A \cup {x}
             I == Im(A)
             J == Im(B)
  <2>1. /\ A \in SUBSET S /\ B \in SUBSET S /\ x \notin A /\ x \in S /\ B = A \cup {x}
        /\ IsFiniteSet(I)
        /\ SumFunctionOnSet(g, I) = SumFunctionOnSet(f, A)
    OBVIOUS
  <2>2. J = I \cup {m[x]}
    OBVIOUS
  <2>3. m[x] \notin I
    BY <2>1 DEF OneToOne
  <2>4. \A y \in B : f[y] \in Int
    BY <2>1
  <2>5. \A z \in J : g[z] \in Int
    BY <2>1
  <2> HIDE DEF B, I, J, F
  <2>6. IsFiniteSet(A)
    BY <2>1, FS_Subset
  <2>7. SumFunctionOnSet(f, B) = SumFunctionOnSet(f, A) + f[x]
    BY <2>1, <2>4, <2>6, SumAdd
  <2>8. SumFunctionOnSet(g, J) = SumFunctionOnSet(g, I) + g[m[x]]
    BY <2>1, <2>2, <2>3, <2>5, SumAdd
  <2>9. IsFiniteSet(J)
    BY Zenon, <2>1, <2>2, FS_AddElement
  <2>10. g[m[x]] = f[x]
    BY <2>1
  <2> QED
    BY <2>1, <2>7, <2>8, <2>9, <2>10 DEF F, B, J
<1>3. F \in SUBSET SUBSET S
  OBVIOUS
<1>4. S \in F
  <2> HIDE DEF F
  <2> QED
    BY Zenon, <1>1, <1>2, <1>3, AddingElements
<1>5. T = Im(S)
  BY DEF OneToOne
<1> QED
  BY <1>4, <1>5

\* A sum over a part of S as one over S.
LEMMA SumPart ==
    ASSUME NEW S, IsFiniteSet(S), NEW T \in SUBSET S,
           NEW f, \A x \in T : f[x] \in Int,
           NEW g, \A x \in S : g[x] = IF x \in T THEN f[x] ELSE 0
    PROVE  SumFunctionOnSet(f, T) = SumFunctionOnSet(g, S)
<1> DEFINE R == S \ T
<1>1. IsFiniteSet(T) /\ IsFiniteSet(R)
  <2>1. T \in SUBSET S /\ R \in SUBSET S
    OBVIOUS
  <2> QED
    BY <2>1, FS_Subset
<1>2. T \cap R = {} /\ S = T \cup R
  OBVIOUS
<1>3. \A x \in S : g[x] \in Int
  OBVIOUS
<1>4. (\A x \in R : g[x] = 0) /\ (\A x \in T : f[x] = g[x])
  OBVIOUS
<1>5. \A x \in T : g[x] \in Int
  OBVIOUS
<1> HIDE DEF R
<1>6. SumFunctionOnSet(g, S) = SumFunctionOnSet(g, T) + SumFunctionOnSet(g, R)
  BY <1>1, <1>2, <1>3, SumUnion
<1>7. SumFunctionOnSet(g, R) = 0
  BY <1>1, <1>4, SumZero
<1>8. SumFunctionOnSet(f, T) = SumFunctionOnSet(g, T)
  BY <1>1, <1>4, SumEqual
<1>9. SumFunctionOnSet(g, T) \in Int
  BY <1>1, <1>5, SumInt
<1> QED
  BY <1>6, <1>7, <1>8, <1>9
=============================================================================
