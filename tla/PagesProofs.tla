------------------------------- MODULE PagesProofs -------------------------------
(***************************************************************************)
(* Proofs that the pages of the console agree with each other, for any     *)
(* table the steps of module Findings can build.                           *)
(***************************************************************************)
EXTENDS FindingsProofs

--------------------------------------------------------------------------------
(* Sums over finite sets.                                                    *)

Some(s) == CHOOSE x \in s : TRUE

(* h gives each subset of S the sum of f over it.                            *)
Sums(f, S, h) == h = [s \in SUBSET S |-> IF s = {} THEN 0 ELSE f[Some(s)] + h[s \ {Some(s)}]]

Sum(f, S) == (CHOOSE h : Sums(f, S, h))[S]

(* Among sets of subsets of a finite set, some have no smaller one.          *)
LEMMA SmallestExists ==
  ASSUME NEW S, IsFiniteSet(S), NEW B \in SUBSET SUBSET S, B # {}
  PROVE  \E s \in B : \A t \in SUBSET s : t # s => t \notin B
<1> DEFINE sizes == {Cardinality(s) : s \in B}
<1>1. \A s \in B : IsFiniteSet(s) /\ Cardinality(s) \in Nat
  BY FS_Subset, FS_CardinalityType
<1>2. sizes \in SUBSET Nat /\ sizes # {}
  BY <1>1
<1>3. PICK n \in sizes : \A m \in sizes : n <= m
  <2> HIDE DEF sizes
  <2> QED BY <1>2, LeastExists
<1>4. PICK s \in B : Cardinality(s) = n
  BY <1>3
<1>5. ASSUME NEW t \in SUBSET s, t # s, t \in B PROVE FALSE
  <2>1. Cardinality(t) <= Cardinality(s) /\ Cardinality(t) # Cardinality(s)
    BY <1>1, <1>5, FS_Subset
  <2>2. Cardinality(s) <= Cardinality(t)
    BY <1>3, <1>4, <1>5
  <2>3. Cardinality(s) \in Nat /\ Cardinality(t) \in Nat
    BY <1>1, <1>5
  <2> QED BY <2>1, <2>2, <2>3
<1> QED BY <1>5

LEMMA SmallerSet ==
  ASSUME NEW s, s # {}
  PROVE  Some(s) \in s /\ s \ {Some(s)} \in SUBSET s /\ s \ {Some(s)} # s
<1>1. Some(s) \in s
  BY DEF Some
<1> QED BY <1>1

LEMMA SumsAgree ==
  ASSUME NEW f, NEW S, IsFiniteSet(S), NEW T \in SUBSET S, NEW h, NEW k,
         Sums(f, S, h), Sums(f, T, k)
  PROVE  \A s \in SUBSET T : h[s] = k[s]
<1> DEFINE B == {s \in SUBSET T : h[s] # k[s]}
<1>1. SUFFICES ASSUME B # {} PROVE FALSE
  OBVIOUS
<1>2. IsFiniteSet(T)
  BY FS_Subset
<1>3. PICK s \in B : \A t \in SUBSET s : t # s => t \notin B
  <2>1. B \in SUBSET SUBSET T
    OBVIOUS
  <2> HIDE DEF B
  <2> QED BY <1>1, <1>2, <2>1, SmallestExists
<1>4. /\ h[s] = (IF s = {} THEN 0 ELSE f[Some(s)] + h[s \ {Some(s)}])
      /\ k[s] = (IF s = {} THEN 0 ELSE f[Some(s)] + k[s \ {Some(s)}])
  <2>1. s \in SUBSET T /\ s \in SUBSET S
    OBVIOUS
  <2> QED BY <2>1 DEF Sums
<1>5. s # {} => h[s \ {Some(s)}] = k[s \ {Some(s)}]
  BY <1>3, SmallerSet
<1>6. h[s] = k[s]
  BY <1>4, <1>5
<1> QED BY <1>6

LEMMA SumsExist ==
  ASSUME NEW f, NEW S, IsFiniteSet(S)
  PROVE  Sums(f, S, CHOOSE h : Sums(f, S, h))
<1> DEFINE The(T) == CHOOSE h : Sums(f, T, h)
           B == {T \in SUBSET S : ~Sums(f, T, The(T))}
<1>1. SUFFICES ASSUME B # {} PROVE FALSE
  OBVIOUS
<1>2. PICK T \in B : \A t \in SUBSET T : t # T => t \notin B
  <2>1. B \in SUBSET SUBSET S
    OBVIOUS
  <2> HIDE DEF B
  <2> QED BY <1>1, <2>1, SmallestExists
<1>3. \A t \in SUBSET T : t # T => IsFiniteSet(t) /\ Sums(f, t, The(t))
  <2>1. \A t \in SUBSET T : t \in SUBSET S
    OBVIOUS
  <2> QED BY <1>2, <2>1, FS_Subset
<1> HIDE DEF The
<1> DEFINE Below(s) == The(s \ {Some(s)})[s \ {Some(s)}]
           h == [s \in SUBSET T |-> IF s = {} THEN 0 ELSE f[Some(s)] + Below(s)]
<1>4. ASSUME NEW s \in SUBSET T, s # {} PROVE h[s \ {Some(s)}] = Below(s)
  <2> DEFINE r == s \ {Some(s)}
  <2>1. r \in SUBSET T /\ r # T /\ r \in SUBSET r
    BY <1>4, SmallerSet
  <2>2. IsFiniteSet(r) /\ Sums(f, r, The(r))
    BY <1>3, <2>1
  <2>3. The(r)[r] = (IF r = {} THEN 0 ELSE f[Some(r)] + The(r)[r \ {Some(r)}])
    BY <2>1, <2>2 DEF Sums
  <2>4. ASSUME r # {} PROVE The(r)[r \ {Some(r)}] = Below(r)
    <3> DEFINE q == r \ {Some(r)}
    <3>1. q \in SUBSET r /\ q \in SUBSET T /\ q # T /\ q \in SUBSET q
      BY <2>1, <2>4, SmallerSet
    <3>2. Sums(f, q, The(q))
      BY <1>3, <3>1
    <3> HIDE DEF q, r
    <3>3. The(r)[q] = The(q)[q]
      BY <2>2, <3>1, <3>2, SumsAgree
    <3> QED BY <3>3 DEF q
  <2>5. h[r] = (IF r = {} THEN 0 ELSE f[Some(r)] + Below(r))
    BY <2>1
  <2> QED BY <2>3, <2>4, <2>5
<1>5. Sums(f, T, h)
  BY <1>4 DEF Sums
<1>6. Sums(f, T, The(T))
  BY <1>5 DEF The
<1> QED BY <1>2, <1>6 DEF The

(* How the sum over a set relates to the sums over its subsets.              *)
LEMMA SumStep ==
  ASSUME NEW f, NEW S, IsFiniteSet(S)
  PROVE  /\ S = {} => Sum(f, S) = 0
         /\ S # {} => Sum(f, S) = f[Some(S)] + Sum(f, S \ {Some(S)})
<1> DEFINE The(T) == CHOOSE h : Sums(f, T, h)
           r == S \ {Some(S)}
<1>1. Sums(f, S, The(S))
  BY SumsExist
<1>2. S = {} => Sum(f, S) = 0
  BY <1>1 DEF Sum, Sums
<1>3. ASSUME S # {} PROVE Sum(f, S) = f[Some(S)] + Sum(f, r)
  <2>1. r \in SUBSET S /\ r \in SUBSET r
    OBVIOUS
  <2>2. Sums(f, r, The(r))
    BY <2>1, FS_Subset, SumsExist
  <2>3. Sum(f, S) = f[Some(S)] + The(S)[r]
    BY <1>1, <1>3 DEF Sum, Sums
  <2> HIDE DEF The, r
  <2>4. The(S)[r] = The(r)[r]
    BY <1>1, <2>1, <2>2, SumsAgree
  <2> QED BY <2>3, <2>4 DEF Sum, The
<1> QED BY <1>2, <1>3

LEMMA SumIsInt ==
  ASSUME NEW f, NEW S, IsFiniteSet(S), \A x \in S : f[x] \in Int
  PROVE  \A T \in SUBSET S : Sum(f, T) \in Int
<1> DEFINE B == {T \in SUBSET S : Sum(f, T) \notin Int}
<1>1. SUFFICES ASSUME B # {} PROVE FALSE
  OBVIOUS
<1>2. PICK T \in B : \A t \in SUBSET T : t # T => t \notin B
  <2>1. B \in SUBSET SUBSET S
    OBVIOUS
  <2> HIDE DEF B
  <2> QED BY <1>1, <2>1, SmallestExists
<1>3. IsFiniteSet(T) /\ T \in SUBSET S
  BY FS_Subset
<1>4. CASE T = {}
  <2>1. Sum(f, T) = 0
    BY <1>3, <1>4, SumStep
  <2>2. Sum(f, T) \in Int
    BY <2>1
  <2> QED BY <1>2, <2>2
<1>5. CASE T # {}
  <2>1. Some(T) \in T /\ T \ {Some(T)} \in SUBSET T /\ T \ {Some(T)} # T
    BY <1>5, SmallerSet
  <2>2. Sum(f, T \ {Some(T)}) \in Int
    BY <1>2, <1>3, <2>1
  <2>3. Sum(f, T) = f[Some(T)] + Sum(f, T \ {Some(T)})
    BY <1>3, <1>5, SumStep
  <2>4. f[Some(T)] \in Int
    BY <1>3, <2>1
  <2>5. Sum(f, T) \in Int
    BY <2>2, <2>3, <2>4
  <2> QED BY <1>2, <2>5
<1> QED BY <1>4, <1>5

(* Any element can be taken out first.                                       *)
LEMMA SumRemove ==
  ASSUME NEW f, NEW S, IsFiniteSet(S), \A x \in S : f[x] \in Int
  PROVE  \A T \in SUBSET S : \A x \in T : Sum(f, T) = f[x] + Sum(f, T \ {x})
<1> DEFINE B == {T \in SUBSET S : \E x \in T : Sum(f, T) # f[x] + Sum(f, T \ {x})}
<1>1. SUFFICES ASSUME B # {} PROVE FALSE
  OBVIOUS
<1>2. PICK T \in B : \A t \in SUBSET T : t # T => t \notin B
  <2>1. B \in SUBSET SUBSET S
    OBVIOUS
  <2> HIDE DEF B
  <2> QED BY <1>1, <2>1, SmallestExists
<1>3. IsFiniteSet(T) /\ T \in SUBSET S
  BY FS_Subset
<1>4. PICK x \in T : Sum(f, T) # f[x] + Sum(f, T \ {x})
  OBVIOUS
<1> DEFINE y == Some(T)
<1>5. y \in T /\ Sum(f, T) = f[y] + Sum(f, T \ {y})
  BY <1>3, <1>4, SmallerSet, SumStep
<1>6. x # y
  BY <1>4, <1>5
<1> HIDE DEF y
<1>7. /\ Sum(f, T \ {y}) = f[x] + Sum(f, (T \ {y}) \ {x})
      /\ Sum(f, T \ {x}) = f[y] + Sum(f, (T \ {x}) \ {y})
  <2>1. ASSUME NEW u \in T, NEW v \in T, u # v
        PROVE  Sum(f, T \ {u}) = f[v] + Sum(f, (T \ {u}) \ {v})
    <3>1. T \ {u} \in SUBSET T /\ T \ {u} # T /\ T \ {u} \in SUBSET S /\ v \in T \ {u}
      BY <1>3, <2>1
    <3>2. T \ {u} \notin B
      BY <1>2, <3>1
    <3> QED BY <3>1, <3>2
  <2> QED BY <1>4, <1>5, <1>6, <2>1
<1>8. (T \ {x}) \ {y} = (T \ {y}) \ {x}
  OBVIOUS
<1> DEFINE n == Sum(f, (T \ {y}) \ {x})
<1>9. n \in Int /\ f[x] \in Int /\ f[y] \in Int
  <2>1. (T \ {y}) \ {x} \in SUBSET S
    BY <1>3
  <2>2. \A U \in SUBSET S : Sum(f, U) \in Int
    BY SumIsInt
  <2>3. x \in S /\ y \in S
    BY <1>3, <1>5
  <2> QED BY <2>1, <2>2, <2>3
<1>10. Sum(f, T) = f[y] + (f[x] + n) /\ f[x] + Sum(f, T \ {x}) = f[x] + (f[y] + n)
  BY <1>5, <1>7, <1>8
<1> HIDE DEF n
<1> QED BY <1>4, <1>9, <1>10

LEMMA SumUnion ==
  ASSUME NEW f, NEW S, NEW T, IsFiniteSet(S), IsFiniteSet(T), S \cap T = {},
         \A x \in S \cup T : f[x] \in Int
  PROVE  Sum(f, S \cup T) = Sum(f, S) + Sum(f, T)
<1> DEFINE B == {t \in SUBSET T : Sum(f, S \cup t) # Sum(f, S) + Sum(f, t)}
<1>1. SUFFICES ASSUME B # {} PROVE FALSE
  <2>1. T \in SUBSET T
    OBVIOUS
  <2> QED BY <2>1
<1>2. PICK t \in B : \A u \in SUBSET t : u # t => u \notin B
  <2>1. B \in SUBSET SUBSET T
    OBVIOUS
  <2> HIDE DEF B
  <2> QED BY <1>1, <2>1, SmallestExists
<1>3. /\ t \in SUBSET T /\ IsFiniteSet(t) /\ IsFiniteSet(S \cup t) /\ IsFiniteSet(S \cup T)
      /\ S \cup t \in SUBSET (S \cup T) /\ t \in SUBSET (S \cup T) /\ S \in SUBSET (S \cup T)
  <2>1. IsFiniteSet(t)
    BY FS_Subset
  <2> QED BY <2>1, FS_Union
<1>4. \A U \in SUBSET (S \cup T) :
        Sum(f, U) \in Int /\ \A x \in U : Sum(f, U) = f[x] + Sum(f, U \ {x})
  BY <1>3, SumIsInt, SumRemove
<1>5. CASE t = {}
  <2>1. Sum(f, t) = 0 /\ Sum(f, S) \in Int
    BY <1>3, <1>4, <1>5, SumStep
  <2>2. Sum(f, S) = Sum(f, S) + Sum(f, t)
    BY <2>1
  <2>3. S \cup t = S
    BY <1>5
  <2> QED BY <2>2, <2>3
<1>6. CASE t # {}
  <2>1. PICK x \in t : TRUE
    BY <1>6
  <2> DEFINE u == t \ {x}
  <2>2. u \in SUBSET t /\ u # t /\ u \in SUBSET T /\ (S \cup t) \ {x} = S \cup u
    BY <1>3, <2>1
  <2>3. Sum(f, S \cup u) = Sum(f, S) + Sum(f, u)
    BY <1>2, <2>2
  <2>4. Sum(f, S \cup t) = f[x] + Sum(f, S \cup u) /\ Sum(f, t) = f[x] + Sum(f, u)
    BY <1>3, <1>4, <2>1, <2>2
  <2>5. f[x] \in Int /\ Sum(f, S) \in Int /\ Sum(f, u) \in Int
    <3>1. u \in SUBSET (S \cup T) /\ x \in S \cup T
      BY <1>3, <2>2
    <3> QED BY <1>3, <1>4, <3>1
  <2> HIDE DEF u
  <2>6. Sum(f, S \cup t) = Sum(f, S) + Sum(f, t)
    BY <2>3, <2>4, <2>5
  <2> QED BY <2>6
<1> QED BY <1>5, <1>6

LEMMA SumOfOnes ==
  ASSUME NEW f, NEW S, IsFiniteSet(S), \A x \in S : f[x] = 1
  PROVE  Sum(f, S) = Cardinality(S)
<1> DEFINE B == {T \in SUBSET S : Sum(f, T) # Cardinality(T)}
<1>1. SUFFICES ASSUME B # {} PROVE FALSE
  <2>1. S \in SUBSET S
    OBVIOUS
  <2> QED BY <2>1
<1>2. PICK T \in B : \A t \in SUBSET T : t # T => t \notin B
  <2>1. B \in SUBSET SUBSET S
    OBVIOUS
  <2> HIDE DEF B
  <2> QED BY <1>1, <2>1, SmallestExists
<1>3. IsFiniteSet(T) /\ T \in SUBSET S /\ Sum(f, T) # Cardinality(T)
  BY FS_Subset
<1>4. T # {}
  BY <1>3, SumStep, FS_EmptySet
<1> DEFINE x == Some(T)
           u == T \ {x}
<1>5. x \in T /\ u \in SUBSET T /\ u # T
  BY <1>4, SmallerSet
<1>6. Sum(f, T) = f[x] + Sum(f, u)
  BY <1>3, <1>4, SumStep
<1>7. f[x] = 1 /\ Sum(f, u) = Cardinality(u)
  BY <1>2, <1>3, <1>5
<1> HIDE DEF x
<1>8. Cardinality(u) = Cardinality(T) - 1 /\ Cardinality(T) \in Nat
  BY <1>3, <1>5, FS_RemoveElement, FS_CardinalityType
<1> HIDE DEF u
<1> QED BY <1>3, <1>6, <1>7, <1>8

LEMMA SumIsSame ==
  ASSUME NEW f, NEW g, NEW S, IsFiniteSet(S), \A x \in S : f[x] = g[x]
  PROVE  Sum(f, S) = Sum(g, S)
<1> DEFINE B == {T \in SUBSET S : Sum(f, T) # Sum(g, T)}
<1>1. SUFFICES ASSUME B # {} PROVE FALSE
  <2>1. S \in SUBSET S
    OBVIOUS
  <2> QED BY <2>1
<1>2. PICK T \in B : \A t \in SUBSET T : t # T => t \notin B
  <2>1. B \in SUBSET SUBSET S
    OBVIOUS
  <2> HIDE DEF B
  <2> QED BY <1>1, <2>1, SmallestExists
<1>3. IsFiniteSet(T) /\ T \in SUBSET S /\ Sum(f, T) # Sum(g, T)
  BY FS_Subset
<1>4. T # {}
  BY <1>3, SumStep
<1> DEFINE x == Some(T)
           u == T \ {x}
<1>5. x \in T /\ u \in SUBSET T /\ u # T
  BY <1>4, SmallerSet
<1>6. Sum(f, T) = f[x] + Sum(f, u) /\ Sum(g, T) = g[x] + Sum(g, u)
  BY <1>3, <1>4, SumStep
<1>7. f[x] = g[x] /\ Sum(f, u) = Sum(g, u)
  BY <1>2, <1>3, <1>5
<1> QED BY <1>3, <1>6, <1>7

(* g puts each element of X in a part, and F sums w over each part.          *)
SumsByPart(F, K, w, X, g) ==
  /\ \A x \in X : w[x] \in Int /\ g[x] \in K
  /\ \A k \in K : F[k] = Sum(w, {x \in X : g[x] = k})

(* The sums over the parts of a set, added up.                               *)
LEMMA SumOfParts ==
  ASSUME NEW X, IsFiniteSet(X), NEW K, IsFiniteSet(K), NEW w, NEW g, NEW F,
         SumsByPart(F, K, w, X, g)
  PROVE  Sum(F, K) = Sum(w, X)
<1>0. /\ \A x \in X : w[x] \in Int
      /\ \A x \in X : g[x] \in K
      /\ \A k \in K : F[k] = Sum(w, {x \in X : g[x] = k})
  BY DEF SumsByPart
<1> DEFINE Part(T) == {x \in X : g[x] \in T}
           Fibre(k) == {x \in X : g[x] = k}
           B == {T \in SUBSET K : Sum(F, T) # Sum(w, Part(T))}
<1>1. SUFFICES ASSUME B # {} PROVE FALSE
  <2>1. K \in SUBSET K /\ Part(K) = X
    BY <1>0
  <2> HIDE DEF Part
  <2> QED BY <2>1
<1>2. PICK T \in B : \A t \in SUBSET T : t # T => t \notin B
  <2>1. B \in SUBSET SUBSET K
    OBVIOUS
  <2> HIDE DEF B
  <2> QED BY <1>1, <2>1, SmallestExists
<1>3. IsFiniteSet(T) /\ T \in SUBSET K /\ Sum(F, T) # Sum(w, Part(T))
  BY FS_Subset
<1>4. T # {}
  <2>1. ASSUME T = {} PROVE FALSE
    <3>1. Part(T) = {}
      BY <2>1
    <3> HIDE DEF Part
    <3>2. Sum(F, T) = 0 /\ Sum(w, Part(T)) = 0
      BY <2>1, <3>1, SumStep, FS_EmptySet
    <3> QED BY <1>3, <3>2
  <2> QED BY <2>1
<1> DEFINE k == Some(T)
           u == T \ {k}
<1>5. k \in T /\ u \in SUBSET T /\ u # T
  BY <1>4, SmallerSet
<1>6. Sum(F, T) = F[k] + Sum(F, u)
  BY <1>3, <1>4, SumStep
<1>7. F[k] = Sum(w, Fibre(k)) /\ Sum(F, u) = Sum(w, Part(u))
  <2>1. k \in K
    BY <1>3, <1>5
  <2>2. u \in SUBSET K /\ u \notin B
    BY <1>2, <1>3, <1>5
  <2> HIDE DEF k, u
  <2> QED BY <1>0, <2>1, <2>2
<1> HIDE DEF k
<1>8. /\ Part(T) = Fibre(k) \cup Part(u) /\ Fibre(k) \cap Part(u) = {}
      /\ Fibre(k) \in SUBSET X /\ Part(u) \in SUBSET X
  BY <1>5
<1> HIDE DEF Part, Fibre, u
<1>9. Sum(w, Part(T)) = Sum(w, Fibre(k)) + Sum(w, Part(u))
  <2>1. IsFiniteSet(Fibre(k)) /\ IsFiniteSet(Part(u))
    BY <1>8, FS_Subset
  <2>2. \A x \in Fibre(k) \cup Part(u) : w[x] \in Int
    BY <1>0, <1>8
  <2>3. Sum(w, Fibre(k) \cup Part(u)) = Sum(w, Fibre(k)) + Sum(w, Part(u))
    BY <1>8, <2>1, <2>2, SumUnion
  <2> QED BY <1>8, <2>3
<1> QED BY <1>3, <1>6, <1>7, <1>9

(* The sizes of the parts of a set, added up.                                *)
LEMMA CountOfParts ==
  ASSUME NEW X, IsFiniteSet(X), NEW K, IsFiniteSet(K), NEW g, \A x \in X : g[x] \in K,
         NEW F, \A k \in K : F[k] = Cardinality({x \in X : g[x] = k})
  PROVE  Sum(F, K) = Cardinality(X)
<1>1. PICK w : \A x \in X : w[x] = 1
  <2>1. \A x \in X : [y \in X |-> 1][x] = 1
    OBVIOUS
  <2> QED BY <2>1
<1>2. (\A x \in X : w[x] \in Int) /\ \A Y \in SUBSET X : Sum(w, Y) = Cardinality(Y)
  <2>1. ASSUME NEW Y \in SUBSET X PROVE Sum(w, Y) = Cardinality(Y)
    <3>1. IsFiniteSet(Y) /\ \A x \in Y : w[x] = 1
      BY <1>1, FS_Subset
    <3> QED BY <3>1, SumOfOnes
  <2> QED BY <1>1, <2>1
<1>3. \A k \in K : F[k] = Sum(w, {x \in X : g[x] = k})
  <2> SUFFICES ASSUME NEW k \in K PROVE F[k] = Sum(w, {x \in X : g[x] = k})
    OBVIOUS
  <2>1. {x \in X : g[x] = k} \in SUBSET X
    OBVIOUS
  <2> QED BY <1>2, <2>1
<1>4. Sum(F, K) = Sum(w, X)
  <2>1. SumsByPart(F, K, w, X, g)
    BY <1>2, <1>3 DEF SumsByPart
  <2> QED BY <2>1, SumOfParts
<1>5. X \in SUBSET X
  OBVIOUS
<1> QED BY <1>2, <1>4, <1>5

(* The sums of the pages are these.                                          *)
LEMMA SumOfIs ==
  ASSUME NEW f
  PROVE  SumOf(f) = Sum(f, DOMAIN f)
BY DEF SumOf, MapThenSumSet, MapThenFoldSet, Sum, Sums, Some

LEMMA SumOfCounts ==
  ASSUME NEW X, IsFiniteSet(X), NEW g, NEW F, IsFiniteSet(DOMAIN F),
         \A x \in X : g[x] \in DOMAIN F,
         \A k \in DOMAIN F : F[k] = Cardinality({x \in X : g[x] = k})
  PROVE  SumOf(F) = Cardinality(X)
<1>1. Sum(F, DOMAIN F) = Cardinality(X)
  BY CountOfParts
<1> QED BY <1>1, SumOfIs

LEMMA ImageIsFinite ==
  ASSUME NEW S, IsFiniteSet(S), NEW g
  PROVE  IsFiniteSet({g[x] : x \in S})
<1> DEFINE f == [x \in S |-> g[x]]
           T == {g[x] : x \in S}
<1>1. f \in Surjection(S, T)
  BY DEF Surjection
<1> HIDE DEF f, T
<1>2. IsFiniteSet(T)
  BY <1>1, FS_Surjection
<1> QED BY <1>2 DEF T

LEMMA TwoParts ==
  ASSUME NEW A, NEW B, IsFiniteSet(A), IsFiniteSet(B), A \cap B = {}
  PROVE  Cardinality(A \cup B) = Cardinality(A) + Cardinality(B)
<1>1. Cardinality(A \cup B) = Cardinality(A) + Cardinality(B) - Cardinality(A \cap B)
  BY FS_Union
<1>2. Cardinality(A \cap B) = 0
  BY FS_EmptySet
<1>3. Cardinality(A) \in Nat /\ Cardinality(B) \in Nat
  BY FS_CardinalityType
<1> QED BY <1>1, <1>2, <1>3

(* A list that is cut keeps some keys, or all of them when it is not full.   *)
LEMMA TopKeysAre ==
  ASSUME NEW count, IsFiniteSet(DOMAIN count), NEW n, NEW shown \in TopKeys(count, n)
  PROVE  /\ shown \in SUBSET DOMAIN count
         /\ Cardinality(shown) <= Cardinality(DOMAIN count)
         /\ shown = DOMAIN count \/ Cardinality(shown) = n
<1>1. /\ shown \in SUBSET DOMAIN count
      /\ Cardinality(shown) = Cardinality(DOMAIN count) \/ Cardinality(shown) = n
  BY DEF TopKeys
<1>2. /\ Cardinality(shown) <= Cardinality(DOMAIN count)
      /\ Cardinality(DOMAIN count) = Cardinality(shown) => DOMAIN count = shown
  BY <1>1, FS_Subset
<1> QED BY <1>1, <1>2

LEMMA TopIs ==
  ASSUME NEW X, IsFiniteSet(X), NEW count, count = [k \in X |-> count[k]], NEW n,
         NEW top \in Tops(count, n)
  PROVE  /\ Cardinality(DOMAIN top) <= Cardinality(X)
         /\ top = count \/ Cardinality(DOMAIN top) = n
<1>1. PICK shown \in TopKeys(count, n) : top = Restrict(count, shown)
  BY DEF Tops
<1>2. DOMAIN count = X /\ DOMAIN top = shown
  BY <1>1 DEF Restrict
<1>3. Cardinality(shown) <= Cardinality(X) /\ (shown = X \/ Cardinality(shown) = n)
  BY <1>2, TopKeysAre
<1>4. ASSUME shown = X PROVE top = count
  <2>1. top = [k \in X |-> count[k]]
    BY <1>1, <1>4 DEF Restrict
  <2> QED BY <2>1
<1> QED BY <1>2, <1>3, <1>4

LEMMA LimitsAre ==
  /\ Limit.rules \in Nat \ {0} /\ Limit.cves \in Nat \ {0} /\ Limit.assets \in Nat \ {0}
  /\ Limit.prioritized \in Nat \ {0} /\ Limit.priority \in Nat \ {0}
  /\ Limit.prioritized <= Limit.priority
BY LimitAssumption

LEMMA SmallSetIsFinite ==
  ASSUME NEW a, NEW b, NEW c, NEW d, NEW e, NEW f, NEW g
  PROVE  IsFiniteSet({a, b, c, d, e, f, g})
<1>1. IsFiniteSet({} \cup {a})
  BY FS_AddElement, FS_EmptySet
<1>2. IsFiniteSet(({} \cup {a}) \cup {b})
  BY <1>1, FS_AddElement
<1>3. IsFiniteSet((({} \cup {a}) \cup {b}) \cup {c})
  BY <1>2, FS_AddElement
<1>4. IsFiniteSet(((({} \cup {a}) \cup {b}) \cup {c}) \cup {d})
  BY <1>3, FS_AddElement
<1>5. IsFiniteSet((((({} \cup {a}) \cup {b}) \cup {c}) \cup {d}) \cup {e})
  BY <1>4, FS_AddElement
<1>6. IsFiniteSet(((((({} \cup {a}) \cup {b}) \cup {c}) \cup {d}) \cup {e}) \cup {f})
  BY <1>5, FS_AddElement
<1>7. IsFiniteSet((((((({} \cup {a}) \cup {b}) \cup {c}) \cup {d}) \cup {e}) \cup {f}) \cup {g})
  BY <1>6, FS_AddElement
<1>8. {a, b, c, d, e, f, g}
        = (((((({} \cup {a}) \cup {b}) \cup {c}) \cup {d}) \cup {e}) \cup {f}) \cup {g}
  OBVIOUS
<1> QED BY <1>7, <1>8

--------------------------------------------------------------------------------
(* The columns.                                                              *)

LEMMA SeverityIs == Severity = {"critical", "high", "medium", "low", "info"}
BY DEF Severity, SEVERITIES

LEMMA ColumnsAreFinite ==
  /\ IsFiniteSet(Severity) /\ IsFiniteSet(FindingStatus) /\ IsFiniteSet(DOMAIN RISK_BANDS)
  /\ IsFiniteSet(ATTACK_TACTICS) /\ IsFiniteSet(DOMAIN EPSS_BUCKETS)
<1>1. IsFiniteSet(Severity)
  <2>1. Severity = {"critical", "high", "medium", "low", "info", "info", "info"}
    BY SeverityIs
  <2>2. IsFiniteSet({"critical", "high", "medium", "low", "info", "info", "info"})
    BY SmallSetIsFinite
  <2> QED BY <2>1, <2>2
<1>2. IsFiniteSet(FindingStatus)
  <2>1. FindingStatus = {"open", "in_progress", "fixed", "false_positive", "accepted", "accepted",
                         "accepted"}
    BY DEF FindingStatus
  <2>2. IsFiniteSet({"open", "in_progress", "fixed", "false_positive", "accepted", "accepted",
                   "accepted"})
    BY SmallSetIsFinite
  <2> QED BY <2>1, <2>2
<1>3. IsFiniteSet(DOMAIN RISK_BANDS)
  <2>1. DOMAIN RISK_BANDS = {"critical", "high", "medium", "low", "low", "low", "low"}
    BY DEF RISK_BANDS
  <2>2. IsFiniteSet({"critical", "high", "medium", "low", "low", "low", "low"})
    BY SmallSetIsFinite
  <2> QED BY <2>1, <2>2
<1>4. IsFiniteSet(DOMAIN EPSS_BUCKETS)
  <2>1. DOMAIN EPSS_BUCKETS = {"critique", "eleve", "moyen", "faible", "minime", "minime", "minime"}
    BY DEF EPSS_BUCKETS
  <2>2. IsFiniteSet({"critique", "eleve", "moyen", "faible", "minime", "minime", "minime"})
    BY SmallSetIsFinite
  <2> QED BY <2>1, <2>2
<1>5. IsFiniteSet(ATTACK_TACTICS)
  BY SmallSetIsFinite DEF ATTACK_TACTICS
<1> QED BY <1>1, <1>2, <1>3, <1>4, <1>5

LEMMA SetsAreFinite ==
  ASSUME TableInv
  PROVE  \A X \in SUBSET Ids : IsFiniteSet(X) /\ Cardinality(X) \in Nat
BY TableIsFinite, FS_Subset, FS_CardinalityType

LEMMA RowsHave ==
  ASSUME TableInv, NEW id \in Ids
  PROVE  /\ findings[id].severity \in Severity /\ findings[id].status \in FindingStatus
         /\ findings[id].asset \in Assets
         /\ findings[id].scanner \in {"trivy", "semgrep", "gitleaks", "nuclei"}
         /\ findings[id].scanner \in {"semgrep", "gitleaks"} => findings[id].cve = NoCve
         /\ findings[id].scanner = "semgrep" => findings[id].rule # ""
         /\ findings[id].epss # NoEpss \/ findings[id].kev => findings[id].cve # NoCve
         /\ findings[id].epss \in {NoEpss} \cup 0..100
         /\ findings[id].kev \in BOOLEAN
         /\ findings[id].firstSeen \in Nat /\ findings[id].lastSeen \in Nat
         /\ findings[id].lastSeen <= clock /\ findings[id].firstSeen <= findings[id].lastSeen
<1>1. IsRow(findings[id], clock) /\ IsSourced(findings[id])
  BY DEF TableInv, IsRow
<1> QED BY <1>1 DEF IsRow, IsSourced

LEMMA SeveritiesAddUp ==
  ASSUME TableInv, NEW X \in SUBSET Ids
  PROVE  SumOf(SevCounts(X)) = Cardinality(X)
<1>1. PICK g : \A x \in X : g[x] = findings[x].severity
  <2>1. \A x \in X : [y \in X |-> findings[y].severity][x] = findings[x].severity
    OBVIOUS
  <2> QED BY <2>1
<1>2. DOMAIN SevCounts(X) = Severity
  BY DEF SevCounts
<1>3. \A k \in Severity : SevCounts(X)[k] = Cardinality({x \in X : g[x] = k})
  <2>1. \A k : {x \in X : g[x] = k} = OfSeverity(X, k)
    BY <1>1 DEF OfSeverity
  <2> QED BY <2>1 DEF SevCounts
<1>4. \A x \in X : g[x] \in Severity
  BY <1>1, RowsHave
<1> QED BY <1>2, <1>3, <1>4, SetsAreFinite, ColumnsAreFinite, SumOfCounts

LEMMA BandsCover ==
  ASSUME NEW score \in 0..100
  PROVE  /\ risk_band(score) \in DOMAIN RISK_BANDS
         /\ RISK_BANDS[risk_band(score)] = IF score >= 75 THEN 75 ELSE IF score >= 50 THEN 50
                                           ELSE IF score >= 25 THEN 25 ELSE 0
<1> DEFINE Is(b) == /\ score >= RISK_BANDS[b]
                    /\ \A c \in DOMAIN RISK_BANDS : score >= RISK_BANDS[c] => RISK_BANDS[c] <= RISK_BANDS[b]
<1>1. /\ DOMAIN RISK_BANDS = {"critical", "high", "medium", "low"}
      /\ RISK_BANDS["critical"] = 75 /\ RISK_BANDS["high"] = 50
      /\ RISK_BANDS["medium"] = 25 /\ RISK_BANDS["low"] = 0
  BY DEF RISK_BANDS
<1>2. \E b \in DOMAIN RISK_BANDS : Is(b)
  <2>1. CASE score >= 75
    <3>1. Is("critical")
      BY <1>1, <2>1
    <3> QED BY <1>1, <3>1
  <2>2. CASE score < 75 /\ score >= 50
    <3>1. Is("high")
      BY <1>1, <2>2
    <3> QED BY <1>1, <3>1
  <2>3. CASE score < 50 /\ score >= 25
    <3>1. Is("medium")
      BY <1>1, <2>3
    <3> QED BY <1>1, <3>1
  <2>4. CASE score < 25
    <3>1. Is("low")
      BY <1>1, <2>4
    <3> QED BY <1>1, <3>1
  <2> QED BY <2>1, <2>2, <2>3, <2>4
<1>3. risk_band(score) = CHOOSE b \in DOMAIN RISK_BANDS : Is(b)
  BY DEF risk_band
<1>4. risk_band(score) \in DOMAIN RISK_BANDS /\ Is(risk_band(score))
  BY <1>2, <1>3
<1> DEFINE b == risk_band(score)
<1>5. b \in DOMAIN RISK_BANDS /\ Is(b)
  BY <1>4
<1> HIDE DEF b
<1>6. RISK_BANDS[b] = IF score >= 75 THEN 75 ELSE IF score >= 50 THEN 50
                      ELSE IF score >= 25 THEN 25 ELSE 0
  <2>1. /\ RISK_BANDS[b] \in {75, 50, 25, 0} /\ score >= RISK_BANDS[b]
        /\ \A n \in {75, 50, 25, 0} : score >= n => n <= RISK_BANDS[b]
    BY <1>1, <1>5
  <2> DEFINE m == RISK_BANDS[b]
  <2>2. /\ m \in {75, 50, 25, 0} /\ score >= m
        /\ (score >= 75 => 75 <= m) /\ (score >= 50 => 50 <= m) /\ (score >= 25 => 25 <= m)
    BY <2>1
  <2> HIDE DEF m
  <2>3. m = IF score >= 75 THEN 75 ELSE IF score >= 50 THEN 50 ELSE IF score >= 25 THEN 25 ELSE 0
    BY <2>2
  <2> QED BY <2>3 DEF m
<1> QED BY <1>5, <1>6 DEF b

LEMMA RiskIs ==
  ASSUME TableInv, NEW id \in Ids
  PROVE  /\ Risk(id) \in 0..100 /\ RiskSql(id) \in Int
         /\ risk_band(Risk(id)) \in DOMAIN RISK_BANDS
<1> DEFINE f == findings[id]
           c == criticality[findings[id].asset]
<1>1. IsRow(f, clock) /\ c \in Criticality
  BY DEF TableInv, IsRow
<1>2. Risk(id) = risk_score(f, c) /\ RiskSql(id) = risk_score_sql(f, c)
  BY DEF Risk, RiskSql
<1>3. f.epss \in Int
  BY <1>1 DEF IsRow, NoEpss
<1> HIDE DEF f, c
<1>4. CRITICALITY_BONUS[c] \in Int /\ risk_score_sql(f, c) \in Int
  BY <1>1, TermsAre
<1>5. risk_score(f, c) \in 0..100
  <2>1. risk_score_sql(f, c) <= risk_score_sql(f, c)
    BY <1>4
  <2> QED BY <1>4, <2>1, ScoreIsMonotone
<1> QED BY <1>2, <1>4, <1>5, BandsCover

LEMMA TacticsCover ==
  ASSUME NEW id
  PROVE  classify_attack(id)[1] \in ATTACK_TACTICS
<1>1. \A i \in 1..10 : ATTACK_RULES[i][1] \in ATTACK_TACTICS
  <2>1. /\ ATTACK_RULES[1][1] = "TA0006" /\ ATTACK_RULES[2][1] = "TA0001"
        /\ ATTACK_RULES[3][1] = "TA0002" /\ ATTACK_RULES[4][1] = "TA0007"
        /\ ATTACK_RULES[5][1] = "TA0002" /\ ATTACK_RULES[6][1] = "TA0004"
        /\ ATTACK_RULES[7][1] = "TA0007" /\ ATTACK_RULES[8][1] = "TA0040"
        /\ ATTACK_RULES[9][1] = "TA0005" /\ ATTACK_RULES[10][1] = "TA0001"
    BY DEF ATTACK_RULES
  <2>2. \A i \in 1..10 : i \in {1, 2, 3, 4, 5, 6, 7, 8, 9, 10}
    OBVIOUS
  <2> QED BY <2>1, <2>2 DEF ATTACK_TACTICS
<1>2. DOMAIN ATTACK_RULES = 1..10
  BY DEF ATTACK_RULES
<1>3. \A sc : ATTACK_FALLBACK(sc)[1] \in ATTACK_TACTICS
  BY DEF ATTACK_FALLBACK, ATTACK_TACTICS
<1> QED BY <1>1, <1>2, <1>3 DEF classify_attack

--------------------------------------------------------------------------------
(* The counts of the open findings.                                          *)

LEMMA OpenIsFinite ==
  ASSUME TableInv
  PROVE  /\ OpenIds \in SUBSET Ids /\ IsFiniteSet(OpenIds)
         /\ \A X \in SUBSET OpenIds : IsFiniteSet(X) /\ Cardinality(X) \in Nat
<1>1. OpenIds \in SUBSET Ids
  BY DEF OpenIds
<1> QED BY <1>1, SetsAreFinite

LEMMA BandsAddUp ==
  ASSUME TableInv
  PROVE  SumOf(risk_overview.bands) = Cardinality(OpenIds)
<1>1. PICK g : \A id \in OpenIds : g[id] = risk_band(Risk(id))
  <2>1. \A id \in OpenIds : [x \in OpenIds |-> risk_band(Risk(x))][id] = risk_band(Risk(id))
    OBVIOUS
  <2> QED BY <2>1
<1> DEFINE F == risk_overview.bands
<1>2. F = [b \in DOMAIN RISK_BANDS |-> Cardinality({id \in OpenIds : risk_band(Risk(id)) = b})]
  BY DEF risk_overview
<1> HIDE DEF F
<1>3. \A b : {id \in OpenIds : risk_band(Risk(id)) = b} = {id \in OpenIds : g[id] = b}
  BY <1>1
<1>4. DOMAIN F = DOMAIN RISK_BANDS /\ \A b \in DOMAIN F : F[b] = Cardinality({id \in OpenIds : g[id] = b})
  BY <1>2, <1>3
<1>5. \A id \in OpenIds : g[id] \in DOMAIN F
  BY <1>1, <1>4, RiskIs, OpenIsFinite
<1>6. SumOf(F) = Cardinality(OpenIds)
  BY <1>4, <1>5, ColumnsAreFinite, OpenIsFinite, SumOfCounts
<1> QED BY <1>6 DEF F

LEMMA ScannersAddUp ==
  ASSUME TableInv
  PROVE  SumOf(scanner_breakdown) = Cardinality(OpenIds)
<1>1. PICK g : \A id \in OpenIds : g[id] = findings[id].scanner
  <2>1. \A id \in OpenIds : [x \in OpenIds |-> findings[x].scanner][id] = findings[id].scanner
    OBVIOUS
  <2> QED BY <2>1
<1>2. DOMAIN scanner_breakdown = {g[id] : id \in OpenIds}
  BY <1>1 DEF scanner_breakdown
<1>3. \A k : {id \in OpenIds : findings[id].scanner = k} = {id \in OpenIds : g[id] = k}
  BY <1>1
<1>4. \A k \in DOMAIN scanner_breakdown : scanner_breakdown[k] = Cardinality({id \in OpenIds : g[id] = k})
  BY <1>3 DEF scanner_breakdown
<1>5. IsFiniteSet({g[id] : id \in OpenIds})
  BY OpenIsFinite, ImageIsFinite
<1> QED BY <1>2, <1>4, <1>5, OpenIsFinite, SumOfCounts

LEMMA TacticsAddUp ==
  ASSUME TableInv
  PROVE  attack_totals.mapped = Cardinality(OpenIds)
<1> DEFINE F == [t \in ATTACK_TACTICS |-> attack_matrix[t].count]
<1>1. PICK g : \A id \in OpenIds : g[id] = classify_attack(id)[1]
  <2>1. \A id \in OpenIds : [x \in OpenIds |-> classify_attack(x)[1]][id] = classify_attack(id)[1]
    OBVIOUS
  <2> QED BY <2>1
<1>2. \A t \in ATTACK_TACTICS :
        attack_matrix[t].count = Cardinality({id \in OpenIds : classify_attack(id)[1] = t})
  BY DEF attack_matrix
<1>3. \A t : {id \in OpenIds : classify_attack(id)[1] = t} = {id \in OpenIds : g[id] = t}
  BY <1>1
<1>4. DOMAIN F = ATTACK_TACTICS /\ \A t \in DOMAIN F : F[t] = Cardinality({id \in OpenIds : g[id] = t})
  BY <1>2, <1>3
<1>5. \A id \in OpenIds : g[id] \in ATTACK_TACTICS
  BY <1>1, TacticsCover
<1>6. attack_totals.mapped = SumOf(F)
  BY DEF attack_totals
<1> HIDE DEF F
<1> QED BY <1>4, <1>5, <1>6, ColumnsAreFinite, OpenIsFinite, SumOfCounts

LEMMA RulesAddUp ==
  ASSUME TableInv, NEW top \in sca_stats.top_rules, Cardinality(DOMAIN top) < Limit.rules
  PROVE  SumOf(top) = sca_stats.open
<1> DEFINE open == OfScanner("semgrep") \cap OpenIds
           rules == {findings[id].rule : id \in open} \ {""}
           F == [r \in rules |-> Cardinality({id \in open : findings[id].rule = r})]
<1>1. PICK g : \A id \in open : g[id] = findings[id].rule
  <2>1. \A id \in open : [x \in open |-> findings[x].rule][id] = findings[id].rule
    OBVIOUS
  <2> QED BY <2>1
<1>2. sca_stats.open = Cardinality(open) /\ sca_stats.top_rules = Tops(F, Limit.rules)
  BY DEF sca_stats
<1>3. open \in SUBSET OpenIds /\ open \in SUBSET Ids /\ \A id \in open : findings[id].scanner = "semgrep"
  BY DEF OfScanner, OpenIds
<1> HIDE DEF open
<1>4. \A id \in open : g[id] # ""
  BY <1>1, <1>3, RowsHave
<1>5. rules = {g[id] : id \in open}
  BY <1>1, <1>4
<1>6. \A r : {id \in open : findings[id].rule = r} = {id \in open : g[id] = r}
  BY <1>1
<1> HIDE DEF rules
<1>7. DOMAIN F = {g[id] : id \in open} /\ \A r \in DOMAIN F : F[r] = Cardinality({id \in open : g[id] = r})
  BY <1>5, <1>6
<1>8. IsFiniteSet(open)
  BY <1>3, OpenIsFinite
<1>9. IsFiniteSet({g[id] : id \in open})
  BY <1>8, ImageIsFinite
<1>10. SumOf(F) = Cardinality(open)
  <2> HIDE DEF F
  <2>1. IsFiniteSet(DOMAIN F) /\ \A id \in open : g[id] \in DOMAIN F
    BY <1>7, <1>9
  <2> QED BY <1>7, <1>8, <2>1, SumOfCounts
<1>11. top = F
  <2>1. F = [r \in rules |-> F[r]] /\ IsFiniteSet(rules)
    BY <1>5, <1>9
  <2> HIDE DEF F
  <2>2. top = F \/ Cardinality(DOMAIN top) = Limit.rules
    BY <1>2, <2>1, TopIs
  <2> QED BY <2>2, LimitsAre
<1> QED BY <1>2, <1>10, <1>11

LEMMA SecretsAddUp ==
  ASSUME TableInv
  PROVE  SumOf(secrets_stats.by_asset) = secrets_stats.open
<1> DEFINE F == secrets_stats.by_asset
           open == OfScanner("gitleaks") \cap OpenIds
<1>1. PICK g : \A id \in open : g[id] = findings[id].asset
  <2>1. \A id \in open : [x \in open |-> findings[x].asset][id] = findings[id].asset
    OBVIOUS
  <2> QED BY <2>1
<1>2. /\ secrets_stats.open = Cardinality(open)
      /\ F = [a \in {findings[id].asset : id \in open} |->
                Cardinality({id \in open : findings[id].asset = a})]
  BY DEF secrets_stats
<1>3. open \in SUBSET OpenIds
  OBVIOUS
<1> HIDE DEF F, open
<1>4. {findings[id].asset : id \in open} = {g[id] : id \in open}
  BY <1>1
<1>5. \A a : {id \in open : findings[id].asset = a} = {id \in open : g[id] = a}
  BY <1>1
<1>6. DOMAIN F = {g[id] : id \in open} /\ \A a \in DOMAIN F : F[a] = Cardinality({id \in open : g[id] = a})
  BY <1>2, <1>4, <1>5
<1>7. IsFiniteSet(open)
  BY <1>3, OpenIsFinite
<1>8. IsFiniteSet({g[id] : id \in open})
  BY <1>7, ImageIsFinite
<1>9. SumOf(F) = Cardinality(open)
  BY <1>6, <1>7, <1>8, SumOfCounts
<1> QED BY <1>2, <1>9 DEF F

(* The two statuses of an open finding.                                      *)
LEMMA StatusesAddUp ==
  ASSUME TableInv
  PROVE  dashboard_stats.by_status["open"] + dashboard_stats.by_status["in_progress"]
           = Cardinality(OpenIds)
<1> DEFINE A == {id \in Ids : findings[id].status = "open"}
           B == {id \in Ids : findings[id].status = "in_progress"}
<1>1. A \cup B = OpenIds /\ A \cap B = {} /\ A \in SUBSET Ids /\ B \in SUBSET Ids
  BY DEF OpenIds, OPEN_STATUSES
<1>2. /\ dashboard_stats.by_status["open"] = Cardinality(A)
      /\ dashboard_stats.by_status["in_progress"] = Cardinality(B)
  <2>1. dashboard_stats.by_status = [st \in FindingStatus |->
                                       Cardinality({id \in Ids : findings[id].status = st})]
    BY DEF dashboard_stats
  <2> QED BY <2>1, StatusesAre
<1> HIDE DEF A, B
<1>3. IsFiniteSet(A) /\ IsFiniteSet(B)
  BY <1>1, SetsAreFinite
<1>4. Cardinality(A \cup B) = Cardinality(A) + Cardinality(B)
  BY <1>1, <1>3, TwoParts
<1> QED BY <1>1, <1>2, <1>4

(* The modules share out the open findings.                                  *)
LEMMA ModulesAddUp ==
  ASSUME TableInv
  PROVE  vuln_detection_stats.open + sca_stats.open + secrets_stats.open
           + Cardinality({id \in OpenIds \ WithCve : findings[id].scanner \in {"trivy", "nuclei"}})
         = Cardinality(OpenIds)
<1> DEFINE A == WithCve \cap OpenIds
           B == OfScanner("semgrep") \cap OpenIds
           C == OfScanner("gitleaks") \cap OpenIds
           D == {id \in OpenIds \ WithCve : findings[id].scanner \in {"trivy", "nuclei"}}
<1>1. /\ vuln_detection_stats.open = Cardinality(A) /\ sca_stats.open = Cardinality(B)
      /\ secrets_stats.open = Cardinality(C)
  BY DEF vuln_detection_stats, sca_stats, secrets_stats
<1>2. \A id \in OpenIds :
        /\ id \in A <=> findings[id].cve # NoCve
        /\ id \in B <=> findings[id].scanner = "semgrep"
        /\ id \in C <=> findings[id].scanner = "gitleaks"
        /\ id \in D <=> findings[id].cve = NoCve /\ findings[id].scanner \in {"trivy", "nuclei"}
        /\ findings[id].scanner \in {"trivy", "semgrep", "gitleaks", "nuclei"}
        /\ findings[id].scanner \in {"semgrep", "gitleaks"} => findings[id].cve = NoCve
  <2> SUFFICES ASSUME NEW id \in OpenIds
               PROVE  /\ id \in A <=> findings[id].cve # NoCve
                      /\ id \in B <=> findings[id].scanner = "semgrep"
                      /\ id \in C <=> findings[id].scanner = "gitleaks"
                      /\ id \in D <=> findings[id].cve = NoCve /\ findings[id].scanner \in {"trivy", "nuclei"}
                      /\ findings[id].scanner \in {"trivy", "semgrep", "gitleaks", "nuclei"}
                      /\ findings[id].scanner \in {"semgrep", "gitleaks"} => findings[id].cve = NoCve
    OBVIOUS
  <2>1. id \in Ids
    BY OpenIsFinite
  <2> QED BY <2>1, RowsHave DEF WithCve, OfScanner
<1>3. A \in SUBSET OpenIds /\ B \in SUBSET OpenIds /\ C \in SUBSET OpenIds /\ D \in SUBSET OpenIds
  OBVIOUS
<1> HIDE DEF A, B, C, D
<1>4. /\ A \cap B = {} /\ (A \cup B) \cap C = {} /\ ((A \cup B) \cup C) \cap D = {}
      /\ ((A \cup B) \cup C) \cup D = OpenIds
  <2>1. A \cap B = {}
    BY <1>2, <1>3
  <2>2. (A \cup B) \cap C = {}
    BY <1>2, <1>3
  <2>3. ((A \cup B) \cup C) \cap D = {}
    BY <1>2, <1>3
  <2>4. \A id \in OpenIds : id \in A \/ id \in B \/ id \in C \/ id \in D
    BY <1>2
  <2> QED BY <1>3, <2>1, <2>2, <2>3, <2>4
<1>5. \A X \in SUBSET OpenIds : IsFiniteSet(X) /\ Cardinality(X) \in Nat
  BY OpenIsFinite
<1>6. /\ Cardinality(A \cup B) = Cardinality(A) + Cardinality(B)
      /\ Cardinality((A \cup B) \cup C) = Cardinality(A \cup B) + Cardinality(C)
      /\ Cardinality(((A \cup B) \cup C) \cup D) = Cardinality((A \cup B) \cup C) + Cardinality(D)
  <2>1. /\ IsFiniteSet(A) /\ IsFiniteSet(B) /\ IsFiniteSet(C) /\ IsFiniteSet(D)
        /\ IsFiniteSet(A \cup B) /\ IsFiniteSet((A \cup B) \cup C)
    <3>1. A \cup B \in SUBSET OpenIds /\ (A \cup B) \cup C \in SUBSET OpenIds
      BY <1>3
    <3> QED BY <1>3, <1>5, <3>1
  <2> QED BY <1>4, <2>1, TwoParts
<1>7. Cardinality(A) \in Nat /\ Cardinality(B) \in Nat /\ Cardinality(C) \in Nat /\ Cardinality(D) \in Nat
  BY <1>3, <1>5
<1>8. Cardinality(A) + Cardinality(B) + Cardinality(C) + Cardinality(D) = Cardinality(OpenIds)
  BY <1>4, <1>6, <1>7
<1> QED BY <1>1, <1>8 DEF D

LEMMA InventoryAgrees ==
  ASSUME TableInv, NEW a \in Assets
  PROVE  inventory_stats[a].open = IF a \in DOMAIN dashboard_stats.per_asset
                                   THEN dashboard_stats.per_asset[a].open ELSE 0
<1> DEFINE open == {id \in OpenIds : findings[id].asset = a}
           own == {id \in Ids : findings[id].asset = a}
           A == {findings[id].asset : id \in Ids}
<1>1. inventory_stats[a].open = Cardinality(open)
  BY DEF inventory_stats
<1>2. dashboard_stats.per_asset = [b \in A |-> asset_stats(b)]
  BY DEF dashboard_stats
<1>3. asset_stats(a).open = Cardinality(own \cap OpenIds)
  BY DEF asset_stats
<1>4. own \cap OpenIds = open
  BY DEF OpenIds
<1>5. CASE a \in A
  <2>1. dashboard_stats.per_asset[a].open = Cardinality(open)
    BY <1>2, <1>3, <1>4, <1>5
  <2> QED BY <1>1, <1>2, <1>5, <2>1
<1>6. CASE a \notin A
  <2>1. open = {}
    BY <1>6 DEF OpenIds
  <2>2. Cardinality(open) = 0
    BY <2>1, FS_EmptySet
  <2>3. a \notin DOMAIN dashboard_stats.per_asset
    BY <1>2, <1>6
  <2> QED BY <1>1, <2>2, <2>3
<1> QED BY <1>5, <1>6

(* Every page that counts the open findings finds the same number: the       *)
(* overview and its breakdowns, the posture's SLA and risk bands, ATT&CK,    *)
(* the inventory; the three modules share them out, leaving only those with  *)
(* no CVE of Trivy and Nuclei; and a list of rules that its limit did not    *)
(* cut accounts for all of them.                                             *)
THEOREM OpenCountsAreOne == Spec => []OpenCountsAgree
<1>1. ASSUME TableInv PROVE OpenCountsAgree
  <2>1. /\ dashboard_stats.total_open = Cardinality(OpenIds)
        /\ posture_stats.open_total = Cardinality(OpenIds) /\ report_figures.open = Cardinality(OpenIds)
        /\ risk_overview.open_total = Cardinality(OpenIds)
    BY DEF dashboard_stats, posture_stats, sla_status, report_figures, risk_overview
  <2>2. report_figures.fixed = dashboard_stats.by_status["fixed"]
    <3>1. dashboard_stats.by_status = [st \in FindingStatus |->
                                         Cardinality({id \in Ids : findings[id].status = st})]
      BY DEF dashboard_stats
    <3> QED BY <3>1, StatusesAre DEF report_figures, extra_totals
  <2>3. SumOf(dashboard_stats.open_by_severity) = Cardinality(OpenIds)
    <3>1. dashboard_stats.open_by_severity = SevCounts(OpenIds)
      BY DEF dashboard_stats
    <3> QED BY <1>1, <3>1, OpenIsFinite, SeveritiesAddUp
  <2>4. /\ SumOf(risk_overview.bands) = Cardinality(OpenIds)
        /\ SumOf(scanner_breakdown) = Cardinality(OpenIds)
        /\ attack_totals.mapped = Cardinality(OpenIds)
        /\ \A top \in sca_stats.top_rules :
             Cardinality(DOMAIN top) < Limit.rules => SumOf(top) = sca_stats.open
        /\ SumOf(secrets_stats.by_asset) = secrets_stats.open
    BY <1>1, BandsAddUp, ScannersAddUp, TacticsAddUp, RulesAddUp, SecretsAddUp
  <2>5. dashboard_stats.by_status["open"] + dashboard_stats.by_status["in_progress"]
          = Cardinality(OpenIds)
    BY <1>1, StatusesAddUp
  <2>6. vuln_detection_stats.open + sca_stats.open + secrets_stats.open
          + Cardinality({id \in OpenIds \ WithCve : findings[id].scanner \in {"trivy", "nuclei"}})
        = Cardinality(OpenIds)
    BY <1>1, ModulesAddUp
  <2>7. \A a \in Assets : inventory_stats[a].open =
          IF a \in DOMAIN dashboard_stats.per_asset THEN dashboard_stats.per_asset[a].open ELSE 0
    BY <1>1, InventoryAgrees
  <2> QED BY <2>1, <2>2, <2>3, <2>4, <2>5, <2>6, <2>7 DEF OpenCountsAgree
<1> QED BY <1>1, TableInvariant, PTL

--------------------------------------------------------------------------------
(* The counts of the exploitable and the exploited findings.                 *)

LEMMA BucketsAre ==
  /\ DOMAIN EPSS_BUCKETS = {"critique", "eleve", "moyen", "faible", "minime"}
  /\ \A id : /\ InBucket(id, "critique") <=> findings[id].epss >= 75 /\ findings[id].epss < 101
             /\ InBucket(id, "eleve") <=> findings[id].epss >= 50 /\ findings[id].epss < 75
             /\ InBucket(id, "moyen") <=> findings[id].epss >= 25 /\ findings[id].epss < 50
             /\ InBucket(id, "faible") <=> findings[id].epss >= 10 /\ findings[id].epss < 25
             /\ InBucket(id, "minime") <=> findings[id].epss >= 0 /\ findings[id].epss < 10
<1>1. /\ EPSS_BUCKETS["critique"] = <<75, 101>> /\ EPSS_BUCKETS["eleve"] = <<50, 75>>
      /\ EPSS_BUCKETS["moyen"] = <<25, 50>> /\ EPSS_BUCKETS["faible"] = <<10, 25>>
      /\ EPSS_BUCKETS["minime"] = <<0, 10>>
      /\ DOMAIN EPSS_BUCKETS = {"critique", "eleve", "moyen", "faible", "minime"}
  BY DEF EPSS_BUCKETS
<1> QED BY <1>1 DEF InBucket

(* Each published probability is in exactly one bucket.                      *)
LEMMA BucketIsUnique ==
  ASSUME NEW id, findings[id].epss \in 0..100
  PROVE  \E b \in DOMAIN EPSS_BUCKETS :
           InBucket(id, b) /\ \A c \in DOMAIN EPSS_BUCKETS : InBucket(id, c) => c = b
<1> DEFINE e == findings[id].epss
<1>1. e \in 0..100
  OBVIOUS
<1>2. CASE e >= 75
  <2>1. InBucket(id, "critique") /\ \A c \in DOMAIN EPSS_BUCKETS : InBucket(id, c) => c = "critique"
    BY <1>1, <1>2, BucketsAre
  <2> QED BY <2>1, BucketsAre
<1>3. CASE e >= 50 /\ e < 75
  <2>1. InBucket(id, "eleve") /\ \A c \in DOMAIN EPSS_BUCKETS : InBucket(id, c) => c = "eleve"
    BY <1>1, <1>3, BucketsAre
  <2> QED BY <2>1, BucketsAre
<1>4. CASE e >= 25 /\ e < 50
  <2>1. InBucket(id, "moyen") /\ \A c \in DOMAIN EPSS_BUCKETS : InBucket(id, c) => c = "moyen"
    BY <1>1, <1>4, BucketsAre
  <2> QED BY <2>1, BucketsAre
<1>5. CASE e >= 10 /\ e < 25
  <2>1. InBucket(id, "faible") /\ \A c \in DOMAIN EPSS_BUCKETS : InBucket(id, c) => c = "faible"
    BY <1>1, <1>5, BucketsAre
  <2> QED BY <2>1, BucketsAre
<1>6. CASE e < 10
  <2>1. InBucket(id, "minime") /\ \A c \in DOMAIN EPSS_BUCKETS : InBucket(id, c) => c = "minime"
    BY <1>1, <1>6, BucketsAre
  <2> QED BY <2>1, BucketsAre
<1> HIDE DEF e
<1> QED BY <1>1, <1>2, <1>3, <1>4, <1>5, <1>6

LEMMA BucketsAddUp ==
  ASSUME TableInv
  PROVE  SumOf(vuln_detection_stats.epss_dist) + vuln_detection_stats.inconnu
           = vuln_detection_stats.open
<1> DEFINE open == WithCve \cap OpenIds
           A == {id \in open : findings[id].epss # NoEpss}
           B == {id \in open : findings[id].epss = NoEpss}
           F == vuln_detection_stats.epss_dist
<1>1. /\ vuln_detection_stats.open = Cardinality(open) /\ vuln_detection_stats.inconnu = Cardinality(B)
      /\ F = [b \in DOMAIN EPSS_BUCKETS |-> Cardinality({id \in open : InBucket(id, b)})]
  BY DEF vuln_detection_stats
<1>2. /\ open = A \cup B /\ A \cap B = {} /\ A \in SUBSET OpenIds /\ B \in SUBSET OpenIds
      /\ \A id \in open : id \in OpenIds /\ id \in Ids
  BY DEF OpenIds
<1> HIDE DEF F
<1>3. \A id \in A : findings[id].epss \in 0..100
  BY <1>2, RowsHave
<1>4. \A b \in DOMAIN EPSS_BUCKETS : \A id \in open : InBucket(id, b) => id \in A
  <2>1. \A id \in B : ~(findings[id].epss >= 0)
    BY DEF NoEpss
  <2>2. \A b \in DOMAIN EPSS_BUCKETS : \A id \in B : ~InBucket(id, b)
    <3> SUFFICES ASSUME NEW b \in DOMAIN EPSS_BUCKETS, NEW id \in B PROVE ~InBucket(id, b)
      OBVIOUS
    <3>1. findings[id].epss = -1
      BY DEF NoEpss
    <3>2. b \in {"critique", "eleve", "moyen", "faible", "minime"}
      BY BucketsAre
    <3> HIDE DEF B
    <3> QED BY <3>1, <3>2, BucketsAre
  <2> HIDE DEF A, B, open
  <2> QED BY <1>2, <2>2
<1>5. PICK g : \A id \in A :
        /\ g[id] \in DOMAIN EPSS_BUCKETS
        /\ \A c \in DOMAIN EPSS_BUCKETS : InBucket(id, c) <=> g[id] = c
  <2> DEFINE h == [id \in A |-> CHOOSE b \in DOMAIN EPSS_BUCKETS : InBucket(id, b)]
  <2>1. ASSUME NEW id \in A
        PROVE  /\ h[id] \in DOMAIN EPSS_BUCKETS
               /\ \A c \in DOMAIN EPSS_BUCKETS : InBucket(id, c) <=> h[id] = c
    <3>1. h[id] = CHOOSE b \in DOMAIN EPSS_BUCKETS : InBucket(id, b)
      BY <2>1
    <3> HIDE DEF h, A
    <3>2. PICK b \in DOMAIN EPSS_BUCKETS :
            InBucket(id, b) /\ \A c \in DOMAIN EPSS_BUCKETS : InBucket(id, c) => c = b
      BY <1>3, <2>1, BucketIsUnique
    <3>3. h[id] \in DOMAIN EPSS_BUCKETS /\ InBucket(id, h[id])
      BY <3>1, <3>2
    <3> QED BY <3>2, <3>3
  <2> HIDE DEF h
  <2> QED BY <2>1
<1>6. \A b \in DOMAIN EPSS_BUCKETS : {id \in open : InBucket(id, b)} = {id \in A : g[id] = b}
  <2> HIDE DEF A, B, open
  <2>1. A \subseteq open
    BY <1>2
  <2> QED BY <1>4, <1>5, <2>1
<1> HIDE DEF A, B, open
<1>7. DOMAIN F = DOMAIN EPSS_BUCKETS /\ \A b \in DOMAIN F : F[b] = Cardinality({id \in A : g[id] = b})
  BY <1>1, <1>6
<1>8. IsFiniteSet(A) /\ IsFiniteSet(B)
  BY <1>2, OpenIsFinite
<1>9. SumOf(F) = Cardinality(A)
  BY <1>5, <1>7, <1>8, ColumnsAreFinite, SumOfCounts
<1>10. Cardinality(open) = Cardinality(A) + Cardinality(B)
  BY <1>2, <1>8, TwoParts
<1> QED BY <1>1, <1>9, <1>10 DEF F

(* What the explorer's filters select, by the columns they name.             *)
LEMMA QueryIs ==
  ASSUME NEW f, f.asset = {}, f.hasCve \in BOOLEAN, f.kev \in BOOLEAN, NEW id
  PROVE  id \in build_findings_query(f) <=>
           /\ id \in Ids
           /\ f.severity = {} \/ findings[id].severity \in f.severity
           /\ f.status = {} \/ findings[id].status \in f.status
           /\ f.scanner = {} \/ findings[id].scanner \in f.scanner
           /\ f.hasCve = FALSE \/ findings[id].cve # NoCve
           /\ f.kev = FALSE \/ findings[id].kev
           /\ f.minEpss = NoEpss \/ (findings[id].epss # NoEpss /\ findings[id].epss >= f.minEpss)
<1>1. CASE f.hasCve = FALSE /\ f.kev = FALSE
  BY <1>1 DEF build_findings_query, AnyOf
<1>2. CASE f.hasCve = TRUE /\ f.kev = FALSE
  BY <1>2 DEF build_findings_query, AnyOf
<1>3. CASE f.hasCve = FALSE /\ f.kev = TRUE
  BY <1>3 DEF build_findings_query, AnyOf
<1>4. CASE f.hasCve = TRUE /\ f.kev = TRUE
  BY <1>4 DEF build_findings_query, AnyOf
<1> QED BY <1>1, <1>2, <1>3, <1>4

LEMMA FiltersAre ==
  ASSUME NEW S
  PROVE  LET any(f) == f.severity = {} /\ f.scanner = {} /\ f.asset = {} /\ f.hasCve = FALSE
             open == [NoFilter EXCEPT !.status = S]
         IN  /\ NoFilter.status = {} /\ NoFilter.kev = FALSE /\ NoFilter.minEpss = NoEpss /\ any(NoFilter)
             /\ open.status = S /\ open.kev = FALSE /\ open.minEpss = NoEpss /\ any(open)
             /\ DOMAIN open = {"severity", "status", "scanner", "asset", "hasCve", "kev", "minEpss"}
             /\ DOMAIN NoFilter = DOMAIN open
BY DEF NoFilter, AnyOf

LEMMA QueriesAre ==
  /\ build_findings_query(NoFilter) = Ids
  /\ build_findings_query(StillOpen) = OpenIds
  /\ build_findings_query([StillOpen EXCEPT !.minEpss = 50]) = {id \in OpenIds : Exploitable(findings[id])}
  /\ build_findings_query([NoFilter EXCEPT !.hasCve = TRUE]) = WithCve
  /\ build_findings_query([StillOpen EXCEPT !.severity = {"critical", "high"}]) = Grave
<1>1. build_findings_query(NoFilter) = Ids
  <2> DEFINE f == NoFilter
  <2>1. /\ f.severity = {} /\ f.status = {} /\ f.scanner = {} /\ f.asset = {}
        /\ f.hasCve = FALSE /\ f.kev = FALSE /\ f.minEpss = NoEpss
    BY FiltersAre
  <2> HIDE DEF f
  <2>2. f.hasCve \in BOOLEAN /\ f.kev \in BOOLEAN
    BY <2>1
  <2>3. \A id : id \in build_findings_query(f) <=> id \in Ids
    BY <2>1, <2>2, QueryIs
  <2> QED BY <2>3 DEF f
<1>2. build_findings_query(StillOpen) = OpenIds
  <2>1. OPEN_STATUSES # {}
    BY StatusesAre
  <2> QED BY <2>1, FiltersAre, QueryIs DEF StillOpen, OpenIds
<1>3. build_findings_query([StillOpen EXCEPT !.minEpss = 50]) = {id \in OpenIds : Exploitable(findings[id])}
  <2> DEFINE f == [StillOpen EXCEPT !.minEpss = 50]
  <2>1. /\ f.severity = {} /\ f.status = OPEN_STATUSES /\ f.scanner = {} /\ f.asset = {}
        /\ f.hasCve = FALSE /\ f.kev = FALSE /\ f.minEpss = 50
    BY FiltersAre DEF StillOpen
  <2>2. OPEN_STATUSES # {} /\ 50 # NoEpss
    BY StatusesAre DEF NoEpss
  <2> HIDE DEF f
  <2>3. f.hasCve \in BOOLEAN /\ f.kev \in BOOLEAN
    BY <2>1
  <2>4. \A id : id \in build_findings_query(f) <=>
                 /\ id \in Ids /\ findings[id].status \in OPEN_STATUSES
                 /\ findings[id].epss # NoEpss /\ findings[id].epss >= 50
    BY <2>1, <2>2, <2>3, QueryIs
  <2>5. \A id : id \in build_findings_query(f) <=> id \in OpenIds /\ Exploitable(findings[id])
    BY <2>4 DEF OpenIds, Exploitable, EPSS_EXPLOITABLE
  <2> QED BY <2>5 DEF f
<1>4. build_findings_query([NoFilter EXCEPT !.hasCve = TRUE]) = WithCve
  <2> DEFINE f == [NoFilter EXCEPT !.hasCve = TRUE]
  <2>1. /\ f.severity = {} /\ f.status = {} /\ f.scanner = {} /\ f.asset = {}
        /\ f.hasCve = TRUE /\ f.kev = FALSE /\ f.minEpss = NoEpss
    BY FiltersAre
  <2> HIDE DEF f
  <2>2. f.hasCve \in BOOLEAN /\ f.kev \in BOOLEAN /\ f.hasCve # FALSE
    BY <2>1
  <2>3. \A id : id \in build_findings_query(f) <=> id \in Ids /\ findings[id].cve # NoCve
    BY <2>1, <2>2, QueryIs
  <2> QED BY <2>3 DEF f, WithCve
<1>5. build_findings_query([StillOpen EXCEPT !.severity = {"critical", "high"}]) = Grave
  <2> DEFINE f == [StillOpen EXCEPT !.severity = {"critical", "high"}]
  <2>1. /\ f.severity = {"critical", "high"} /\ f.status = OPEN_STATUSES /\ f.scanner = {} /\ f.asset = {}
        /\ f.hasCve = FALSE /\ f.kev = FALSE /\ f.minEpss = NoEpss
    BY FiltersAre DEF StillOpen
  <2>2. OPEN_STATUSES # {}
    BY StatusesAre
  <2> HIDE DEF f
  <2>3. f.hasCve \in BOOLEAN /\ f.kev \in BOOLEAN /\ f.severity # {}
    BY <2>1
  <2>4. \A id : id \in build_findings_query(f) <=>
                 /\ id \in Ids /\ findings[id].status \in OPEN_STATUSES
                 /\ findings[id].severity \in {"critical", "high"}
    BY <2>1, <2>2, <2>3, QueryIs
  <2> QED BY <2>4 DEF f, OpenIds, Grave
<1> QED BY <1>1, <1>2, <1>3, <1>4, <1>5

LEMMA CvesAddUp ==
  ASSUME TableInv, NEW top \in top_cves
  PROVE  /\ Cardinality(DOMAIN top) <= vuln_detection_stats.unique_cves
         /\ Cardinality(DOMAIN top) < Limit.cves => SumOf(top) = vuln_detection_stats.with_cve
<1> DEFINE F == [c \in Cves |-> Cardinality({id \in Ids : findings[id].cve = c})]
<1>1. PICK g : \A id \in WithCve : g[id] = findings[id].cve
  <2>1. \A id \in WithCve : [x \in WithCve |-> findings[x].cve][id] = findings[id].cve
    OBVIOUS
  <2> QED BY <2>1
<1>2. Cves = {findings[id].cve : id \in WithCve}
  BY DEF Cves, WithCve
<1>3. Cves = {g[id] : id \in WithCve}
  BY <1>1, <1>2
<1>4. /\ vuln_detection_stats.with_cve = Cardinality(WithCve)
      /\ vuln_detection_stats.unique_cves = Cardinality({findings[id].cve : id \in WithCve})
  BY DEF vuln_detection_stats
<1>5. top \in Tops(F, Limit.cves)
  BY DEF top_cves
<1>6. \A c \in Cves : {id \in Ids : findings[id].cve = c} = {id \in WithCve : g[id] = c}
  BY <1>1 DEF Cves, WithCve
<1>7. IsFiniteSet(WithCve)
  BY SetsAreFinite DEF WithCve
<1>8. IsFiniteSet(Cves)
  BY <1>3, <1>7, ImageIsFinite
<1>9. DOMAIN F = Cves /\ \A c \in DOMAIN F : F[c] = Cardinality({id \in WithCve : g[id] = c})
  BY <1>6
<1>10. F = [c \in Cves |-> F[c]]
  OBVIOUS
<1> HIDE DEF F
<1>11. SumOf(F) = Cardinality(WithCve)
  BY <1>3, <1>7, <1>8, <1>9, SumOfCounts
<1>12. Cardinality(DOMAIN top) <= Cardinality(Cves) /\ (top = F \/ Cardinality(DOMAIN top) = Limit.cves)
  BY <1>5, <1>8, <1>10, TopIs
<1>13. Cardinality(DOMAIN top) < Limit.cves => top = F
  BY <1>12, LimitsAre
<1> QED BY <1>2, <1>4, <1>11, <1>12, <1>13

(* The exploitable and the actively exploited findings are counted three     *)
(* times, over all findings or over those with a CVE: the numbers agree, the *)
(* EPSS histogram loses no finding, its two upper bars are the ones the      *)
(* exploitable threshold counts, and a list of CVEs that its limit did not   *)
(* cut accounts for every finding with one.                                  *)
THEOREM ThreatCountsAreOne == Spec => []ThreatCountsAgree
<1>1. ASSUME TableInv PROVE ThreatCountsAgree
  <2> DEFINE open == WithCve \cap OpenIds
             A == {id \in open : InBucket(id, "critique")}
             B == {id \in open : InBucket(id, "eleve")}
             E == {id \in OpenIds : Exploitable(findings[id])}
  <2>1. \A id \in OpenIds : (findings[id].epss # NoEpss \/ findings[id].kev) => id \in open
    BY <1>1, OpenIsFinite, RowsHave DEF WithCve
  <2>2. {id \in open : Exploitable(findings[id])} = E
    BY <2>1 DEF Exploitable
  <2>3. {id \in open : findings[id].kev} = {id \in OpenIds : findings[id].kev}
    BY <2>1
  <2>4. A \cup B = E /\ A \cap B = {}
    <3>1. ASSUME NEW id \in OpenIds
          PROVE  /\ Exploitable(findings[id]) <=> InBucket(id, "critique") \/ InBucket(id, "eleve")
                 /\ ~(InBucket(id, "critique") /\ InBucket(id, "eleve"))
      <4>1. findings[id].epss \in {-1} \cup 0..100
        BY <1>1, OpenIsFinite, RowsHave DEF NoEpss
      <4> QED BY <4>1, BucketsAre DEF Exploitable, EPSS_EXPLOITABLE, NoEpss
    <3>2. \A id \in OpenIds : Exploitable(findings[id]) => id \in open
      BY <2>1 DEF Exploitable
    <3> QED BY <3>1, <3>2
  <2>5. /\ vuln_detection_stats.exploitable = Cardinality({id \in open : Exploitable(findings[id])})
        /\ vuln_detection_stats.kev_open = Cardinality({id \in open : findings[id].kev})
        /\ vuln_detection_stats.with_cve = Cardinality(WithCve)
        /\ vuln_detection_stats.epss_dist = [b \in DOMAIN EPSS_BUCKETS |->
                                               Cardinality({id \in open : InBucket(id, b)})]
    BY DEF vuln_detection_stats
  <2>6. /\ vuln_detection_stats.epss_dist["critique"] = Cardinality(A)
        /\ vuln_detection_stats.epss_dist["eleve"] = Cardinality(B)
    BY <2>5, BucketsAre
  <2>7. Cardinality(E) = Cardinality(A) + Cardinality(B)
    <3>1. A \in SUBSET OpenIds /\ B \in SUBSET OpenIds
      OBVIOUS
    <3> HIDE DEF A, B, E
    <3>2. IsFiniteSet(A) /\ IsFiniteSet(B)
      BY <1>1, <3>1, OpenIsFinite
    <3> QED BY <2>4, <3>2, TwoParts
  <2>8. /\ extra_totals.exploitable_open = Cardinality(E)
        /\ extra_totals.kev_open = Cardinality({id \in OpenIds : findings[id].kev})
        /\ risk_overview.kev_open = Cardinality({id \in OpenIds : findings[id].kev})
    BY DEF extra_totals, risk_overview
  <2>9. /\ Cardinality(build_findings_query([StillOpen EXCEPT !.minEpss = 50])) = Cardinality(E)
        /\ Cardinality(build_findings_query([NoFilter EXCEPT !.hasCve = TRUE])) = Cardinality(WithCve)
    BY QueriesAre
  <2>10. /\ SumOf(vuln_detection_stats.epss_dist) + vuln_detection_stats.inconnu = vuln_detection_stats.open
         /\ \A top \in top_cves :
              /\ Cardinality(DOMAIN top) <= vuln_detection_stats.unique_cves
              /\ Cardinality(DOMAIN top) < Limit.cves => SumOf(top) = vuln_detection_stats.with_cve
    BY <1>1, BucketsAddUp, CvesAddUp
  <2> HIDE DEF A, B, E, open
  <2> QED BY <2>2, <2>3, <2>5, <2>6, <2>7, <2>8, <2>9, <2>10 DEF ThreatCountsAgree
<1> QED BY <1>1, TableInvariant, PTL

--------------------------------------------------------------------------------
(* Deadlines.                                                                *)

LEMMA DeadlinesAre ==
  ASSUME TableInv, NEW id \in Ids
  PROVE  /\ SLA_DAYS[findings[id].severity] \in Nat
         /\ due_date(findings[id]) \in Nat
<1>1. \A s \in {"critical", "high", "medium", "low", "info"} : SLA_DAYS[s] \in Nat
  BY DEF SLA_DAYS
<1>2. SLA_DAYS[findings[id].severity] \in Nat /\ findings[id].firstSeen \in Nat
  BY <1>1, RowsHave, SeverityIs
<1> QED BY <1>2 DEF due_date

(* The SLA tile of the overview, the posture page, the PDF and the badges of *)
(* the explorer's rows agree, and what is due soon is not counted as late.   *)
THEOREM OverdueIsOne == Spec => []OverdueAgree
<1>1. ASSUME TableInv PROVE OverdueAgree
  <2> DEFINE late == {id \in OpenIds : Overdue(id)}
             soon == {id \in OpenIds : DueSoon(id)}
  <2>1. /\ sla_status.overdue = Cardinality(late) /\ sla_status.overdue_by_severity = SevCounts(late)
        /\ sla_status.due_soon = Cardinality(soon)
        /\ sla_status.on_track = Cardinality(OpenIds) - Cardinality(late)
        /\ posture_stats.overdue = sla_status.overdue
    BY DEF sla_status, posture_stats
  <2>2. {id \in OpenIds : is_overdue(findings[id], clock)} = late
    BY DEF is_overdue, Overdue, OpenIds
  <2>3. extra_totals.overdue_open = Cardinality(late) /\ report_figures.overdue = sla_status.overdue
    BY <2>1, <2>2 DEF extra_totals, report_figures
  <2>4. {id \in build_findings_query(NoFilter) : finding_row(id).overdue} = late
    <3>1. \A id : finding_row(id).overdue = is_overdue(findings[id], clock)
      BY DEF finding_row
    <3>2. {id \in build_findings_query(NoFilter) : finding_row(id).overdue}
            = {id \in Ids : is_overdue(findings[id], clock)}
      BY <3>1, QueriesAre
    <3> QED BY <3>2 DEF is_overdue, Overdue, OpenIds
  <2>5. late \in SUBSET OpenIds /\ soon \in SUBSET OpenIds /\ late \cap soon = {}
    BY DEF DueSoon
  <2> HIDE DEF late, soon
  <2>6. SumOf(SevCounts(late)) = Cardinality(late)
    <3>1. late \in SUBSET Ids
      BY <1>1, <2>5, OpenIsFinite
    <3> QED BY <1>1, <3>1, SeveritiesAddUp
  <2>7. Cardinality(soon) <= Cardinality(OpenIds) - Cardinality(late)
    <3>1. /\ IsFiniteSet(late) /\ IsFiniteSet(soon) /\ IsFiniteSet(OpenIds)
          /\ Cardinality(late) \in Nat /\ Cardinality(soon) \in Nat
      BY <1>1, <2>5, OpenIsFinite
    <3>2. late \cup soon \in SUBSET OpenIds
      BY <2>5
    <3>3. Cardinality(late \cup soon) <= Cardinality(OpenIds) /\ Cardinality(OpenIds) \in Nat
      BY <3>1, <3>2, FS_Subset, FS_CardinalityType
    <3>4. Cardinality(late \cup soon) = Cardinality(late) + Cardinality(soon)
      BY <2>5, <3>1, TwoParts
    <3> QED BY <3>1, <3>3, <3>4
  <2> QED BY <2>1, <2>3, <2>4, <2>6, <2>7 DEF OverdueAgree
<1> QED BY <1>1, TableInvariant, PTL

--------------------------------------------------------------------------------
(* The gravest finding.                                                      *)

LEMMA OrderIs ==
  /\ SeverityOrder("critical") = 1 /\ SeverityOrder("high") = 2 /\ SeverityOrder("medium") = 3
  /\ SeverityOrder("low") = 4 /\ SeverityOrder("info") = 5
<1>1. /\ SEVERITIES[1] = "critical" /\ SEVERITIES[2] = "high" /\ SEVERITIES[3] = "medium"
      /\ SEVERITIES[4] = "low" /\ SEVERITIES[5] = "info"
  BY DEF SEVERITIES
<1>2. DOMAIN SEVERITIES = {1, 2, 3, 4, 5}
  BY DEF SEVERITIES
<1>3. ASSUME NEW i \in {1, 2, 3, 4, 5} PROVE SeverityOrder(SEVERITIES[i]) = i
  <2>1. \A j \in DOMAIN SEVERITIES : SEVERITIES[j] = SEVERITIES[i] => j = i
    BY <1>1, <1>2
  <2> QED BY <1>2, <2>1 DEF SeverityOrder
<1>4. \A i \in {1, 2, 3, 4, 5} : SeverityOrder(SEVERITIES[i]) = i
  BY <1>3
<1> QED BY <1>1, <1>4

LEMMA OrderIsStrict ==
  /\ \A s \in Severity : SeverityOrder(s) \in 1..5
  /\ \A s, t \in Severity : SeverityOrder(s) = SeverityOrder(t) => s = t
BY OrderIs, SeverityIs

(* The gravest of some severities is one of them, no other one is graver.    *)
LEMMA WorstIs ==
  ASSUME NEW S \in SUBSET Severity, S # {}
  PROVE  /\ Worst(S) \in S
         /\ \A t \in S : SeverityOrder(Worst(S)) <= SeverityOrder(t)
         /\ \A s \in S : (\A t \in S : SeverityOrder(s) <= SeverityOrder(t)) => Worst(S) = s
<1> DEFINE ranks == {SeverityOrder(s) : s \in S}
<1>1. ranks \in SUBSET Nat /\ ranks # {}
  BY OrderIsStrict
<1>2. PICK n \in ranks : \A m \in ranks : n <= m
  <2> HIDE DEF ranks
  <2> QED BY <1>1, LeastExists
<1>3. PICK s \in S : SeverityOrder(s) = n
  BY <1>2
<1>4. \A t \in S : SeverityOrder(s) <= SeverityOrder(t)
  BY <1>2, <1>3
<1>5. \A u, t \in S : ~WorseThan(t, u) <=> SeverityOrder(u) <= SeverityOrder(t)
  BY OrderIsStrict DEF WorseThan
<1>6. Worst(S) = CHOOSE u \in S : \A t \in S : ~WorseThan(t, u)
  BY DEF Worst
<1>7. \E u \in S : \A t \in S : ~WorseThan(t, u)
  BY <1>3, <1>4, <1>5
<1>8. Worst(S) \in S /\ \A t \in S : ~WorseThan(t, Worst(S))
  BY <1>6, <1>7
<1>9. \A t \in S : SeverityOrder(Worst(S)) <= SeverityOrder(t)
  BY <1>5, <1>8
<1>10. ASSUME NEW u \in S, \A t \in S : SeverityOrder(u) <= SeverityOrder(t) PROVE Worst(S) = u
  <2>1. SeverityOrder(Worst(S)) <= SeverityOrder(u) /\ SeverityOrder(u) <= SeverityOrder(Worst(S))
    BY <1>8, <1>9, <1>10
  <2> QED BY <1>8, <2>1, OrderIsStrict
<1> QED BY <1>8, <1>9, <1>10

(* W holds the gravest of each of the parts P of the severities S.           *)
IsWorstOfParts(W, S, P, K) ==
  /\ \A k \in K : P[k] \in SUBSET Severity
  /\ \A w : w \in W <=> w # "none" /\ \E k \in K : w = Worst(P[k])
  /\ \A s : s \in S <=> \E k \in K : s \in P[k]

(* The gravest of the gravest of some parts is the gravest of the whole.     *)
LEMMA WorstOfParts ==
  ASSUME NEW K, NEW P, NEW W, NEW S, IsWorstOfParts(W, S, P, K)
  PROVE  Worst(W) = Worst(S)
<1>0. /\ \A k \in K : P[k] \in SUBSET Severity
      /\ \A w : w \in W <=> w # "none" /\ \E k \in K : w = Worst(P[k])
      /\ \A s : s \in S <=> \E k \in K : s \in P[k]
  BY DEF IsWorstOfParts
<1>1. S \in SUBSET Severity
  BY <1>0
<1>2. "none" \notin Severity
  BY SeverityIs
<1>3. ASSUME NEW k \in K
      PROVE  /\ P[k] = {} => Worst(P[k]) = "none"
             /\ P[k] # {} => Worst(P[k]) \in P[k] /\ Worst(P[k]) \in W
  <2>1. P[k] = {} => Worst(P[k]) = "none"
    BY DEF Worst
  <2>2. P[k] # {} => Worst(P[k]) \in P[k]
    BY <1>0, <1>3, WorstIs
  <2>3. P[k] # {} => Worst(P[k]) # "none"
    BY <1>0, <1>2, <1>3, <2>2
  <2> QED BY <1>0, <1>3, <2>1, <2>2, <2>3
<1>4. \A w \in W : w \in S
  BY <1>0, <1>3
<1>5. CASE S = {}
  <2>1. W = {}
    BY <1>4, <1>5
  <2> QED BY <1>5, <2>1
<1>6. CASE S # {}
  <2>1. Worst(S) \in S /\ \A t \in S : SeverityOrder(Worst(S)) <= SeverityOrder(t)
    BY <1>1, <1>6, WorstIs
  <2>2. PICK k \in K : Worst(S) \in P[k]
    BY <1>0, <2>1
  <2>3. Worst(P[k]) = Worst(S)
    <3>1. \A t \in P[k] : t \in S
      BY <1>0
    <3>2. P[k] \in SUBSET Severity /\ P[k] # {}
      BY <1>0, <2>2
    <3>3. \A t \in P[k] : SeverityOrder(Worst(S)) <= SeverityOrder(t)
      BY <2>1, <3>1
    <3> QED BY <2>2, <3>2, <3>3, WorstIs
  <2>4. Worst(S) \in W
    BY <1>3, <2>2, <2>3
  <2>5. W \in SUBSET Severity /\ W # {} /\ \A t \in W : SeverityOrder(Worst(S)) <= SeverityOrder(t)
    BY <1>1, <1>4, <2>1, <2>4
  <2> QED BY <2>4, <2>5, WorstIs
<1> QED BY <1>5, <1>6

LEMMA GravestOfInventory ==
  ASSUME TableInv
  PROVE  Worst({inventory_stats[a].worst : a \in Assets} \ {"none"}) = Worst(Severities(OpenIds))
<1> DEFINE Of(a) == Severities({id \in OpenIds : findings[id].asset = a})
<1>1. PICK P : \A a \in Assets : P[a] = Of(a)
  <2>1. \A a \in Assets : [b \in Assets |-> Of(b)][a] = Of(a)
    OBVIOUS
  <2> QED BY <2>1
<1>2. \A a \in Assets : inventory_stats[a].worst = Worst(P[a])
  BY <1>1 DEF inventory_stats
<1>3. \A id \in OpenIds : findings[id].asset \in Assets /\ findings[id].severity \in Severity
  BY OpenIsFinite, RowsHave
<1>4. Severities(OpenIds) = UNION {P[a] : a \in Assets}
  BY <1>1, <1>3 DEF Severities
<1>5. \A a \in Assets : P[a] \in SUBSET Severity
  BY <1>1, <1>3 DEF Severities
<1> DEFINE W == {inventory_stats[a].worst : a \in Assets} \ {"none"}
           S == Severities(OpenIds)
<1>6. \A w : w \in W <=> w # "none" /\ \E a \in Assets : w = Worst(P[a])
  BY <1>2
<1> HIDE DEF W, S
<1>7. Worst(W) = Worst(S)
  <2>1. \A s : s \in S <=> \E a \in Assets : s \in P[a]
    BY <1>4 DEF S
  <2>2. IsWorstOfParts(W, S, P, Assets)
    BY <1>5, <1>6, <2>1 DEF IsWorstOfParts
  <2> QED BY <2>2, WorstOfParts
<1> QED BY <1>7 DEF W, S

LEMMA GravestOfTactics ==
  ASSUME TableInv
  PROVE  Worst({attack_matrix[t].worst : t \in ATTACK_TACTICS} \ {"none"}) = Worst(Severities(OpenIds))
<1> DEFINE Of(t) == Severities({id \in OpenIds : classify_attack(id)[1] = t})
<1>1. PICK P : \A t \in ATTACK_TACTICS : P[t] = Of(t)
  <2>1. \A t \in ATTACK_TACTICS : [u \in ATTACK_TACTICS |-> Of(u)][t] = Of(t)
    OBVIOUS
  <2> QED BY <2>1
<1>2. \A t \in ATTACK_TACTICS : attack_matrix[t].worst = Worst(P[t])
  BY <1>1 DEF attack_matrix
<1>3. \A id \in OpenIds : classify_attack(id)[1] \in ATTACK_TACTICS /\ findings[id].severity \in Severity
  BY OpenIsFinite, RowsHave, TacticsCover
<1>4. Severities(OpenIds) = UNION {P[t] : t \in ATTACK_TACTICS}
  BY <1>1, <1>3 DEF Severities
<1>5. \A t \in ATTACK_TACTICS : P[t] \in SUBSET Severity
  BY <1>1, <1>3 DEF Severities
<1> DEFINE W == {attack_matrix[t].worst : t \in ATTACK_TACTICS} \ {"none"}
           S == Severities(OpenIds)
<1>6. \A w : w \in W <=> w # "none" /\ \E t \in ATTACK_TACTICS : w = Worst(P[t])
  BY <1>2
<1> HIDE DEF W, S
<1>7. Worst(W) = Worst(S)
  <2>1. \A s : s \in S <=> \E t \in ATTACK_TACTICS : s \in P[t]
    BY <1>4 DEF S
  <2>2. IsWorstOfParts(W, S, P, ATTACK_TACTICS)
    BY <1>5, <1>6, <2>1 DEF IsWorstOfParts
  <2> QED BY <2>2, WorstOfParts
<1> QED BY <1>7 DEF W, S

(* The first row of the explorer sorted by severity.                         *)
LEMMA GravestOfExplorer ==
  ASSUME TableInv, NEW id \in search_items(StillOpen, "severity", "asc", 1, 1)
  PROVE  findings[id].severity = Worst(Severities(OpenIds))
<1> DEFINE before == {j \in OpenIds : Sorted(j, id, "severity", "asc")}
<1>1. id \in OpenIds /\ Cardinality(before) < 1
  <2>1. id \in OpenIds /\ Cardinality(before) < 1 * 1
    BY QueriesAre DEF search_items
  <2> QED BY <2>1
<1>2. before = {}
  <2>1. before \in SUBSET OpenIds
    OBVIOUS
  <2> HIDE DEF before
  <2>2. IsFiniteSet(before) /\ Cardinality(before) \in Nat
    BY <2>1, OpenIsFinite
  <2>3. Cardinality(before) = 0
    BY <1>1, <2>2
  <2> QED BY <2>2, <2>3, FS_EmptySet
<1>3. \A j \in OpenIds : ~(SeverityOrder(findings[j].severity) < SeverityOrder(findings[id].severity))
  BY <1>2 DEF Sorted, Ahead, SortKey
<1>4. \A j \in OpenIds : findings[j].severity \in Severity
  BY OpenIsFinite, RowsHave
<1>5. \A j \in OpenIds : SeverityOrder(findings[id].severity) <= SeverityOrder(findings[j].severity)
  <2>1. \A j \in OpenIds : SeverityOrder(findings[j].severity) \in Int
    BY <1>4, OrderIsStrict
  <2> QED BY <1>1, <1>3, <2>1
<1> DEFINE S == Severities(OpenIds)
           s == findings[id].severity
<1>6. S \in SUBSET Severity /\ s \in S /\ \A t \in S : SeverityOrder(s) <= SeverityOrder(t)
  BY <1>1, <1>4, <1>5 DEF Severities
<1> HIDE DEF S, s
<1>7. Worst(S) = s
  BY <1>6, WorstIs
<1> QED BY <1>7 DEF S, s

(* The rank of an asset in the overview.                                     *)
LEMMA GravestOfOverview ==
  ASSUME TableInv, NEW a \in Assets, inventory_stats[a].open > 0
  PROVE  /\ ~WorseThan(inventory_stats[a].worst, overview_assets[a].worst)
         /\ inventory_stats[a].worst # "info" => \A top \in top_assets_ranked :
              a \in top \/ Cardinality(top) = Limit.assets
<1> DEFINE open == {id \in OpenIds : findings[id].asset = a}
           own == {id \in Ids : findings[id].asset = a}
           n == SevCounts(own)
<1>1. /\ inventory_stats[a].open = Cardinality(open) /\ inventory_stats[a].worst = Worst(Severities(open))
      /\ asset_stats(a).by_severity = n
  BY DEF inventory_stats, asset_stats
<1>2. open \in SUBSET own /\ own \in SUBSET Ids
  BY DEF OpenIds
<1>3. open # {}
  <2>1. Cardinality(open) > 0
    BY <1>1
  <2>2. Cardinality({}) = 0
    BY FS_EmptySet
  <2> HIDE DEF open
  <2>3. open = {} => Cardinality(open) = 0
    BY <2>2
  <2> QED BY <2>1, <2>3
<1>4. \A id \in own : findings[id].severity \in Severity /\ findings[id].asset = a
  BY RowsHave
<1> HIDE DEF open
<1>5. \A s \in Severity : n[s] \in Nat /\ (n[s] > 0 <=> \E id \in own : findings[id].severity = s)
  <2> SUFFICES ASSUME NEW s \in Severity
               PROVE  n[s] \in Nat /\ (n[s] > 0 <=> \E id \in own : findings[id].severity = s)
    OBVIOUS
  <2> DEFINE X == OfSeverity(own, s)
  <2>1. n[s] = Cardinality(X)
    BY DEF SevCounts
  <2>2. X \in SUBSET Ids
    BY <1>2 DEF OfSeverity
  <2>3. IsFiniteSet(X) /\ Cardinality(X) \in Nat
    BY <2>2, SetsAreFinite
  <2>4. Cardinality(X) > 0 <=> X # {}
    <3> HIDE DEF X
    <3>1. Cardinality(X) = 0 <=> X = {}
      BY <2>3, FS_EmptySet
    <3> QED BY <2>3, <3>1
  <2>5. X # {} <=> \E id \in own : findings[id].severity = s
    BY DEF OfSeverity
  <2> QED BY <2>1, <2>3, <2>4, <2>5
<1>6. {sev \in Severity : n[sev] > 0} = Severities(own)
  BY <1>4, <1>5 DEF Severities
<1>7. overview_assets[a].worst = Worst(Severities(own))
  BY <1>1, <1>6 DEF overview_assets
<1>8. /\ Severities(own) \in SUBSET Severity /\ Severities(open) \in SUBSET Severities(own)
      /\ Severities(open) # {} /\ \A s \in Severities(own) : \E id \in own : findings[id].severity = s
  BY <1>2, <1>3, <1>4 DEF Severities
<1> HIDE DEF own
<1>9. Worst(Severities(open)) \in Severities(own)
  BY <1>8, WorstIs
<1>10. SeverityOrder(Worst(Severities(own))) <= SeverityOrder(Worst(Severities(open)))
  BY <1>8, <1>9, WorstIs
<1>11. ~WorseThan(inventory_stats[a].worst, overview_assets[a].worst)
  <2>1. Worst(Severities(own)) \in Severity /\ Worst(Severities(open)) \in Severity
    BY <1>8, <1>9, WorstIs
  <2>2. \A s, t \in Severity : SeverityOrder(s) <= SeverityOrder(t) => ~(SeverityOrder(t) < SeverityOrder(s))
    BY OrderIsStrict
  <2> QED BY <1>1, <1>7, <1>10, <2>1, <2>2 DEF WorseThan
<1>12. ASSUME inventory_stats[a].worst # "info" PROVE a \in WeightedAssets
  <2>1. PICK id \in own : findings[id].severity = Worst(Severities(open))
    BY <1>8, <1>9
  <2>2. findings[id].severity \in {"critical", "high", "medium", "low"}
    BY <1>1, <1>4, <1>12, <2>1, SeverityIs
  <2>3. n[findings[id].severity] > 0
    BY <1>4, <1>5, <2>1
  <2> DEFINE crit == n["critical"]
             high == n["high"]
             medium == n["medium"]
             low == n["low"]
  <2>4. crit \in Nat /\ high \in Nat /\ medium \in Nat /\ low \in Nat
    BY <1>5, SeverityIs
  <2>5. crit > 0 \/ high > 0 \/ medium > 0 \/ low > 0
    BY <2>2, <2>3
  <2>6. AssetWeight(a) = 1000 * crit + 100 * high + 10 * medium + low
    BY <1>1 DEF AssetWeight
  <2> HIDE DEF crit, high, medium, low
  <2>7. AssetWeight(a) > 0
    BY <2>4, <2>5, <2>6
  <2>8. id \in Ids /\ findings[id].asset = a
    BY <1>2, <1>4, <2>1
  <2> QED BY <2>7, <2>8 DEF WeightedAssets
<1>13. IsFiniteSet(WeightedAssets)
  <2>1. PICK g : \A id \in Ids : g[id] = findings[id].asset
    <3>1. \A id \in Ids : [x \in Ids |-> findings[x].asset][id] = findings[id].asset
      OBVIOUS
    <3> QED BY <3>1
  <2>2. WeightedAssets \in SUBSET {g[id] : id \in Ids}
    BY <2>1 DEF WeightedAssets
  <2>3. IsFiniteSet({g[id] : id \in Ids})
    BY TableIsFinite, ImageIsFinite
  <2> QED BY <2>2, <2>3, FS_Subset
<1>14. ASSUME NEW top \in top_assets_ranked PROVE top = WeightedAssets \/ Cardinality(top) = Limit.assets
  <2> DEFINE weights == [b \in WeightedAssets |-> AssetWeight(b)]
  <2>1. top \in TopKeys(weights, Limit.assets) /\ DOMAIN weights = WeightedAssets
    BY DEF top_assets_ranked
  <2> HIDE DEF weights
  <2> QED BY <1>13, <2>1, TopKeysAre
<1> QED BY <1>11, <1>12, <1>14

(* The gravest open finding is the gravest everywhere: in the inventory, in  *)
(* the ATT&CK matrix, on top of the explorer; the overview, where a resolved *)
(* finding may make an asset look worse, never shows it better, and leaves   *)
(* it out of its ranking (a mere "info" excepted) only if that one is full.  *)
THEOREM GravestIsOne == Spec => []GravestAgree
<1>1. ASSUME TableInv PROVE GravestAgree
  BY <1>1, GravestOfInventory, GravestOfTactics, GravestOfExplorer, GravestOfOverview DEF GravestAgree
<1> QED BY <1>1, TableInvariant, PTL

--------------------------------------------------------------------------------
(* Rankings.                                                                 *)

LEMMA RiskOrdersAgree ==
  ASSUME TableInv, NEW i \in OpenIds, NEW j \in OpenIds, Sorted(i, j, "risk", "desc")
  PROVE  /\ ~RiskierInReport(j, i)
         /\ RISK_BANDS[finding_row(i).risk_band] >= RISK_BANDS[finding_row(j).risk_band]
<1>1. i \in Ids /\ j \in Ids
  BY OpenIsFinite
<1>2. /\ Risk(i) \in 0..100 /\ Risk(j) \in 0..100 /\ RiskSql(i) \in Int /\ RiskSql(j) \in Int
  BY <1>1, RiskIs
<1>3. RiskSql(j) <= RiskSql(i)
  <2>1. SortKey(i, "risk") = RiskSql(i) /\ SortKey(j, "risk") = RiskSql(j)
    BY DEF SortKey
  <2>2. RiskSql(i) > RiskSql(j) \/ ~(RiskSql(j) > RiskSql(i))
    BY <2>1 DEF Sorted, Ahead
  <2> QED BY <1>2, <2>2
<1>4. Risk(j) <= Risk(i)
  <2> DEFINE f == findings[j]
             g == findings[i]
             c == criticality[findings[j].asset]
             d == criticality[findings[i].asset]
  <2>1. /\ RiskSql(j) = risk_score_sql(f, c) /\ RiskSql(i) = risk_score_sql(g, d)
        /\ Risk(j) = risk_score(f, c) /\ Risk(i) = risk_score(g, d)
    BY DEF Risk, RiskSql
  <2> HIDE DEF f, g, c, d
  <2>2. /\ risk_score_sql(f, c) \in Int /\ risk_score_sql(g, d) \in Int
        /\ risk_score_sql(f, c) <= risk_score_sql(g, d)
    BY <1>2, <1>3, <2>1
  <2> QED BY <2>1, <2>2, ScoreIsMonotone
<1>5. ~RiskierInReport(j, i)
  BY <1>2, <1>4 DEF RiskierInReport
<1>6. finding_row(i).risk_band = risk_band(Risk(i)) /\ finding_row(j).risk_band = risk_band(Risk(j))
  BY DEF finding_row
<1> DEFINE p == Risk(i)
           q == Risk(j)
<1>7. p \in 0..100 /\ q \in 0..100 /\ q <= p
  BY <1>2, <1>4
<1> HIDE DEF p, q
<1>8. RISK_BANDS[risk_band(p)] >= RISK_BANDS[risk_band(q)]
  BY <1>7, BandsCover
<1> QED BY <1>5, <1>6, <1>8 DEF p, q

LEMMA ScoresAreIntegers ==
  ASSUME TableInv, NEW id \in Ids
  PROVE  findings[id].epss \in Int /\ SortKey(id, "epss") = findings[id].epss /\ id \in Int
<1>1. findings[id].epss \in {NoEpss} \cup 0..100
  BY RowsHave
<1>2. findings[id].epss \in Int
  BY <1>1 DEF NoEpss
<1>3. SortKey(id, "epss") = findings[id].epss
  BY DEF SortKey
<1>4. id \in Int
  <2>1. Len(findings) \in Nat /\ Ids = 1..Len(findings)
    BY DEF TableInv
  <2> QED BY <2>1
<1> QED BY <1>2, <1>3, <1>4

(* A list of the first ones by EPSS hides no row that is strictly ahead of   *)
(* one it shows: what is before the hidden row is before the shown one too.  *)
LEMMA FirstAreAhead ==
  ASSUME TableInv, NEW rows \in SUBSET Ids, NEW n \in Nat,
         NEW shown \in FirstByEpss(rows, n), NEW hidden \in rows \ FirstByEpss(rows, n)
  PROVE  ~Ahead(hidden, shown, "epss", "desc")
<1>1. SUFFICES ASSUME Ahead(hidden, shown, "epss", "desc") PROVE FALSE
  OBVIOUS
<1> DEFINE before(id) == {j \in rows : PrioritizedBefore(j, id)}
<1>2. shown \in rows /\ hidden \in rows /\ Cardinality(before(shown)) < n
  BY DEF FirstByEpss
<1>3. ~(Cardinality(before(hidden)) < n)
  BY DEF FirstByEpss
<1>4. findings[hidden].epss > findings[shown].epss
  BY <1>1, <1>2, ScoresAreIntegers DEF Ahead
<1>5. before(hidden) \in SUBSET before(shown)
  <2> SUFFICES ASSUME NEW j \in rows, PrioritizedBefore(j, hidden) PROVE PrioritizedBefore(j, shown)
    OBVIOUS
  <2>1. /\ findings[j].epss \in Int /\ findings[hidden].epss \in Int /\ findings[shown].epss \in Int
    BY <1>2, ScoresAreIntegers
  <2>2. findings[j].epss >= findings[hidden].epss
    BY <2>1 DEF PrioritizedBefore
  <2> QED BY <1>4, <2>1, <2>2 DEF PrioritizedBefore
<1>6. before(shown) \in SUBSET Ids /\ before(hidden) \in SUBSET Ids
  OBVIOUS
<1> HIDE DEF before
<1>7. /\ IsFiniteSet(before(shown)) /\ Cardinality(before(shown)) \in Nat
      /\ Cardinality(before(hidden)) \in Nat
  BY <1>6, SetsAreFinite
<1>8. Cardinality(before(hidden)) <= Cardinality(before(shown))
  BY <1>5, <1>7, FS_Subset
<1> QED BY <1>2, <1>3, <1>7, <1>8

(* A longer list of fewer rows shows the ones of theirs a shorter one shows. *)
LEMMA FirstAreFirst ==
  ASSUME TableInv, NEW rows \in SUBSET Ids, NEW some \in SUBSET rows, NEW m \in Nat, NEW n \in Nat, m <= n,
         NEW id \in some \cap FirstByEpss(rows, m)
  PROVE  id \in FirstByEpss(some, n)
<1> DEFINE before(S) == {j \in S : PrioritizedBefore(j, id)}
<1>1. Cardinality(before(rows)) < m
  BY DEF FirstByEpss
<1>2. before(some) \in SUBSET before(rows) /\ before(rows) \in SUBSET Ids /\ before(some) \in SUBSET Ids
  OBVIOUS
<1> HIDE DEF before
<1>3. /\ IsFiniteSet(before(rows)) /\ Cardinality(before(rows)) \in Nat
      /\ Cardinality(before(some)) \in Nat
  BY <1>2, SetsAreFinite
<1>4. Cardinality(before(some)) <= Cardinality(before(rows))
  BY <1>2, <1>3, FS_Subset
<1>5. Cardinality(before(some)) < n
  BY <1>1, <1>3, <1>4
<1> QED BY <1>5 DEF FirstByEpss, before

(* The explorer sorts by an SQL expression that is neither rounded nor       *)
(* bounded, the posture and its PDF by the Python score: neither ever puts   *)
(* a finding above one the other puts strictly above it; the two lists of    *)
(* the gravest by EPSS, whatever their lengths, agree with each other and    *)
(* with the explorer's order.                                                *)
THEOREM RankingsAreOne == Spec => []RankingsAgree
<1>1. ASSUME TableInv PROVE RankingsAgree
  <2> DEFINE some == Grave \cap WithCve
             priority == vuln_detection_stats.priority
  <2>1. priority = FirstByEpss(some, Limit.priority)
    <3>1. WithCve \cap Grave = some
      OBVIOUS
    <3>2. priority = FirstByEpss(WithCve \cap Grave, Limit.priority)
      BY DEF vuln_detection_stats
    <3> QED BY <3>1, <3>2
  <2>2. /\ Grave \in SUBSET Ids /\ some \in SUBSET Ids /\ some \in SUBSET Grave
        /\ \A id \in Grave : findings[id].cve # NoCve => id \in some
    BY DEF Grave, OpenIds, WithCve
  <2> HIDE DEF some, priority
  <2>3. ASSUME NEW id \in prioritized_findings, findings[id].cve # NoCve PROVE id \in priority
    <3>1. id \in FirstByEpss(Grave, Limit.prioritized) /\ id \in Grave
      BY DEF prioritized_findings, FirstByEpss
    <3> QED BY <1>1, <2>1, <2>2, <2>3, <3>1, LimitsAre, FirstAreFirst
  <2>4. \A shown \in prioritized_findings, hidden \in Grave \ prioritized_findings :
          ~Ahead(hidden, shown, "epss", "desc")
    BY <1>1, <2>2, LimitsAre, FirstAreAhead DEF prioritized_findings
  <2>5. \A shown \in priority, hidden \in some \ priority : ~Ahead(hidden, shown, "epss", "desc")
    BY <1>1, <2>1, <2>2, LimitsAre, FirstAreAhead
  <2> QED BY <1>1, <2>3, <2>4, <2>5, QueriesAre, RiskOrdersAgree DEF RankingsAgree, some, priority
<1> QED BY <1>1, TableInvariant, PTL

--------------------------------------------------------------------------------
(* Instants of discovery and of correction.                                      *)

LEMMA ResolvedIsFinite ==
  ASSUME TableInv
  PROVE  /\ DOMAIN fix_dates \in SUBSET Ids /\ IsFiniteSet(DOMAIN fix_dates)
         /\ \A X \in SUBSET DOMAIN fix_dates : IsFiniteSet(X) /\ Cardinality(X) \in Nat
<1>1. DOMAIN fix_dates \in SUBSET Ids
  BY FixDatesAreInstants
<1> QED BY <1>1, SetsAreFinite

(* The corrections of the window and those before it.                        *)
LEMMA CorrectionsAddUp ==
  ASSUME TableInv
  PROVE  SumOf([d \in DOMAIN remediation_flow |-> remediation_flow[d].closed])
           + Cardinality({id \in DOMAIN fix_dates : fix_dates[id] < FlowStart})
         = mttr_stats.resolved
<1> DEFINE W == Day(FlowStart)..Day(clock)
           R == DOMAIN fix_dates
           A == {id \in R : fix_dates[id] >= FlowStart}
           B == {id \in R : fix_dates[id] < FlowStart}
           F == [d \in DOMAIN remediation_flow |-> remediation_flow[d].closed]
<1>1. /\ DOMAIN remediation_flow = W /\ \A d \in W : remediation_flow[d].closed = Closed(d)
      /\ mttr_stats.resolved = Cardinality(R)
  BY DEF remediation_flow, mttr_stats
<1>2. clock \in Int /\ FlowStart \in Int
  BY TimesAreIntegers
<1>3. \A id \in R : fix_dates[id] \in Int /\ fix_dates[id] <= clock
  BY FixDatesAreInstants
<1>4. R = A \cup B /\ A \cap B = {} /\ A \in SUBSET R /\ B \in SUBSET R
  BY <1>2, <1>3
<1>5. PICK g : \A id \in R : g[id] = Day(fix_dates[id])
  <2>1. \A id \in R : [x \in R |-> Day(fix_dates[x])][id] = Day(fix_dates[id])
    OBVIOUS
  <2> QED BY <2>1
<1>6. \A id \in A : g[id] \in W
  <2> SUFFICES ASSUME NEW id \in A PROVE g[id] \in W
    OBVIOUS
  <2>1. fix_dates[id] \in Int /\ FlowStart <= fix_dates[id] /\ fix_dates[id] <= clock
    BY <1>2, <1>3
  <2>2. /\ Day(FlowStart) \in Int /\ Day(clock) \in Int /\ Day(fix_dates[id]) \in Int
        /\ Day(FlowStart) <= Day(fix_dates[id]) /\ Day(fix_dates[id]) <= Day(clock)
    BY <1>2, <2>1, DayIsMonotone
  <2> QED BY <1>5, <2>2
<1>7. \A d \in W : Closed(d) = Cardinality({id \in A : g[id] = d})
  <2> SUFFICES ASSUME NEW d \in W PROVE Closed(d) = Cardinality({id \in A : g[id] = d})
    OBVIOUS
  <2>1. {id \in R : fix_dates[id] >= FlowStart /\ Day(fix_dates[id]) = d} = {id \in A : g[id] = d}
    BY <1>5
  <2> QED BY <2>1 DEF Closed
<1>8. DOMAIN F = W /\ \A d \in DOMAIN F : F[d] = Cardinality({id \in A : g[id] = d})
  BY <1>1, <1>7
<1>9. IsFiniteSet(A) /\ IsFiniteSet(B)
  BY <1>4, ResolvedIsFinite
<1>10. IsFiniteSet(W)
  <2>1. Day(FlowStart) \in Int /\ Day(clock) \in Int
    BY <1>2, DayIsMonotone
  <2> QED BY <2>1, FS_Interval
<1> HIDE DEF A, B, R, F, W
<1>11. SumOf(F) = Cardinality(A)
  BY <1>6, <1>8, <1>9, <1>10, SumOfCounts
<1>12. Cardinality(R) = Cardinality(A) + Cardinality(B)
  BY <1>4, <1>9, TwoParts
<1> QED BY <1>1, <1>11, <1>12 DEF F, B, R

(* The hours to repair, by severity.                                         *)
LEMMA RepairHoursAddUp ==
  ASSUME TableInv
  PROVE  SumOf(mttr_stats.by_severity) = mttr_stats.total_hours
<1> DEFINE R == DOMAIN fix_dates
           w == [id \in R |-> RepairHours(id)]
           F == mttr_stats.by_severity
           K == Severities(R)
<1>1. PICK g : \A id \in R : g[id] = findings[id].severity
  <2>1. \A id \in R : [x \in R |-> findings[x].severity][id] = findings[id].severity
    OBVIOUS
  <2> QED BY <2>1
<1>2. /\ mttr_stats.total_hours = SumOf(w)
      /\ F = [sev \in K |-> SumOf([id \in OfSeverity(R, sev) |-> RepairHours(id)])]
  BY DEF mttr_stats
<1>3. K = {g[id] : id \in R}
  BY <1>1 DEF Severities
<1>4. IsFiniteSet(R) /\ \A X \in SUBSET R : IsFiniteSet(X)
  BY ResolvedIsFinite
<1>5. DOMAIN w = R /\ \A id \in R : w[id] = RepairHours(id) /\ w[id] \in Int
  BY FixDatesAreInstants
<1> HIDE DEF F, K, w
<1>6. \A k \in K : F[k] = Sum(w, {id \in R : g[id] = k})
  <2> SUFFICES ASSUME NEW k \in K PROVE F[k] = Sum(w, {id \in R : g[id] = k})
    OBVIOUS
  <2> DEFINE X == OfSeverity(R, k)
             v == [id \in X |-> RepairHours(id)]
  <2>1. X = {id \in R : g[id] = k} /\ X \in SUBSET R
    BY <1>1 DEF OfSeverity
  <2>2. F[k] = SumOf(v)
    BY <1>2
  <2>3. DOMAIN v = X /\ \A id \in X : v[id] = w[id]
    BY <1>5, <2>1
  <2>4. IsFiniteSet(X)
    BY <1>4, <2>1
  <2> HIDE DEF X, v
  <2>5. Sum(v, X) = Sum(w, X)
    BY <2>3, <2>4, SumIsSame
  <2>6. SumOf(v) = Sum(v, X)
    BY <2>3, SumOfIs
  <2> QED BY <2>1, <2>2, <2>5, <2>6
<1>7. IsFiniteSet(K) /\ \A id \in R : g[id] \in K
  BY <1>3, <1>4, ImageIsFinite
<1> HIDE DEF R
<1>8. Sum(F, K) = Sum(w, R)
  <2>1. IsFiniteSet(R) /\ IsFiniteSet(K)
    BY <1>4, <1>7
  <2>2. SumsByPart(F, K, w, R, g)
    BY <1>5, <1>6, <1>7 DEF SumsByPart
  <2> QED BY <2>1, <2>2, SumOfParts
<1>9. SumOf(F) = Sum(F, K) /\ SumOf(w) = Sum(w, R)
  <2>1. DOMAIN F = K
    BY <1>2
  <2> QED BY <1>5, <2>1, SumOfIs
<1> QED BY <1>2, <1>8, <1>9 DEF F

LEMMA TimelinesNest ==
  ASSUME TableInv
  PROVE  LastDays(24) \subseteq LastDays(30)
<1>1. PICK g : \A id \in Ids : g[id] = Day(findings[id].firstSeen)
  <2>1. \A id \in Ids : [x \in Ids |-> Day(findings[x].firstSeen)][id] = Day(findings[id].firstSeen)
    OBVIOUS
  <2> QED BY <2>1
<1>2. DiscoveryDays = {g[id] : id \in Ids}
  BY <1>1 DEF DiscoveryDays
<1>3. IsFiniteSet(DiscoveryDays)
  BY <1>2, TableIsFinite, ImageIsFinite
<1> SUFFICES ASSUME NEW d \in LastDays(24) PROVE d \in LastDays(30)
  OBVIOUS
<1> DEFINE later == {e \in DiscoveryDays : e > d}
<1>4. d \in DiscoveryDays /\ Cardinality(later) < 24
  BY DEF LastDays
<1>5. later \in SUBSET DiscoveryDays
  OBVIOUS
<1>6. Cardinality(later) \in Nat
  BY <1>3, <1>5, FS_Subset, FS_CardinalityType
<1> HIDE DEF later
<1>7. Cardinality(later) < 30
  BY <1>4, <1>6
<1> QED BY <1>4, <1>7 DEF LastDays, later

(* The discoveries of the posture's flow are those of the overview's two     *)
(* timelines, except on the flow's first day, of which it may show a part;   *)
(* and the corrections it shows, with those before it, are those of the MTTR.*)
THEOREM DatesAreOne == Spec => []DatesAgree
<1>1. ASSUME TableInv PROVE DatesAgree
  <2>1. ASSUME NEW d \in DOMAIN remediation_flow
        PROVE  /\ d \in DOMAIN timeline =>
                    /\ remediation_flow[d].opened <= timeline[d]
                    /\ d # Day(FlowStart) => remediation_flow[d].opened = timeline[d]
               /\ remediation_flow[d].opened > 0 => d \in DiscoveryDays
    <3> DEFINE opened == {id \in Ids : findings[id].firstSeen >= FlowStart
                                       /\ Day(findings[id].firstSeen) = d}
    <3>1. remediation_flow[d].opened = Cardinality(opened)
      BY <2>1 DEF remediation_flow, Opened
    <3>2. d \in DOMAIN timeline => timeline[d] = Cardinality(FoundOn(d))
      BY DEF timeline
    <3>3. opened \in SUBSET FoundOn(d) /\ FoundOn(d) \in SUBSET Ids
      BY DEF FoundOn
    <3>4. d \notin DiscoveryDays => opened = {}
      BY DEF DiscoveryDays
    <3>5. ASSUME d # Day(FlowStart) PROVE opened = FoundOn(d)
      <4>1. d \in Day(FlowStart)..Day(clock)
        BY <2>1 DEF remediation_flow
      <4>2. clock \in Int /\ FlowStart \in Int
        BY <1>1, TimesAreIntegers
      <4>3. d \in Int /\ Day(FlowStart) \in Int /\ Day(FlowStart) < d
        BY <3>5, <4>1, <4>2, DayIsMonotone
      <4>4. ASSUME NEW id \in FoundOn(d) PROVE id \in opened
        <5>1. id \in Ids /\ findings[id].firstSeen \in Int /\ Day(findings[id].firstSeen) = d
          BY <1>1, TimesAreIntegers DEF FoundOn
        <5>2. findings[id].firstSeen >= FlowStart
          BY <4>2, <4>3, <5>1, DayIsMonotone
        <5> QED BY <5>1, <5>2
      <4> QED BY <3>3, <4>4
    <3> HIDE DEF opened
    <3>6. /\ IsFiniteSet(FoundOn(d)) /\ Cardinality(FoundOn(d)) \in Nat
          /\ Cardinality(opened) <= Cardinality(FoundOn(d))
      BY <1>1, <3>3, SetsAreFinite, FS_Subset
    <3>7. Cardinality(opened) > 0 => opened # {}
      <4>1. Cardinality({}) = 0
        BY FS_EmptySet
      <4>2. opened = {} => Cardinality(opened) = 0
        BY <4>1
      <4> QED BY <4>2
    <3> QED BY <3>1, <3>2, <3>4, <3>5, <3>6, <3>7
  <2>2. ASSUME NEW d \in DOMAIN timeline_by_severity
        PROVE  SumOf(timeline_by_severity[d]) = timeline[d]
    <3>1. d \in LastDays(24) /\ timeline_by_severity[d] = SevCounts(FoundOn(d))
      BY <2>2 DEF timeline_by_severity
    <3>2. timeline[d] = Cardinality(FoundOn(d))
      BY <1>1, <3>1, TimelinesNest DEF timeline
    <3>3. FoundOn(d) \in SUBSET Ids
      BY DEF FoundOn
    <3> QED BY <1>1, <3>1, <3>2, <3>3, SeveritiesAddUp
  <2> QED BY <1>1, <2>1, <2>2, CorrectionsAddUp, RepairHoursAddUp DEF DatesAgree
<1> QED BY <1>1, TableInvariant, PTL

--------------------------------------------------------------------------------
(* The pages of the explorer.                                                *)

(* The order of the rows by a key, ties by the newest id, and the place of   *)
(* a row in it.                                                              *)
Precedes(k, i, j) == k[i] > k[j] \/ (k[i] = k[j] /\ i > j)

Place(k, rows, id) == Cardinality({j \in rows : Precedes(k, j, id)})

LEMMA PlacesGrow ==
  ASSUME NEW rows \in SUBSET Int, IsFiniteSet(rows), NEW k, \A x \in rows : k[x] \in Int,
         NEW i \in rows, NEW j \in rows, Precedes(k, i, j)
  PROVE  Place(k, rows, i) < Place(k, rows, j)
<1> DEFINE A == {x \in rows : Precedes(k, x, i)}
           B == {x \in rows : Precedes(k, x, j)}
<1>1. \A x \in rows : Precedes(k, x, i) => Precedes(k, x, j)
  <2> SUFFICES ASSUME NEW x \in rows, Precedes(k, x, i) PROVE Precedes(k, x, j)
    OBVIOUS
  <2>1. k[x] \in Int /\ k[i] \in Int /\ k[j] \in Int /\ x \in Int /\ i \in Int /\ j \in Int
    OBVIOUS
  <2> QED BY <2>1 DEF Precedes
<1>2. ~Precedes(k, i, i)
  BY DEF Precedes
<1>3. A \in SUBSET B /\ B \in SUBSET rows /\ i \in B /\ i \notin A
  BY <1>1, <1>2
<1> HIDE DEF A, B
<1>4. IsFiniteSet(B) /\ Cardinality(B) \in Nat
  BY <1>3, FS_Subset, FS_CardinalityType
<1>5. Cardinality(A) <= Cardinality(B) /\ Cardinality(A) # Cardinality(B) /\ Cardinality(A) \in Nat
  BY <1>3, <1>4, FS_Subset, FS_CardinalityType
<1>6. Cardinality(A) < Cardinality(B)
  BY <1>4, <1>5
<1> QED BY <1>6 DEF Place, A, B

(* The places are the numbers from 0 to one less than the number of rows,    *)
(* one row on each.                                                          *)
LEMMA Places ==
  ASSUME NEW rows \in SUBSET Int, IsFiniteSet(rows), NEW k, \A x \in rows : k[x] \in Int
  PROVE  /\ Cardinality(rows) \in Nat
         /\ \A i \in rows : Place(k, rows, i) \in 0..(Cardinality(rows) - 1)
         /\ \A i, j \in rows : Place(k, rows, i) = Place(k, rows, j) => i = j
         /\ \A n \in 0..(Cardinality(rows) - 1) : \E i \in rows : Place(k, rows, i) = n
<1>1. Cardinality(rows) \in Nat
  BY FS_CardinalityType
<1>2. ASSUME NEW i \in rows PROVE Place(k, rows, i) \in 0..(Cardinality(rows) - 1)
  <2> DEFINE A == {x \in rows : Precedes(k, x, i)}
  <2>1. A \in SUBSET rows /\ i \notin A
    BY DEF Precedes
  <2>2. i \in rows
    BY <1>2
  <2> HIDE DEF A
  <2>3. Cardinality(A) <= Cardinality(rows) /\ Cardinality(A) # Cardinality(rows) /\ Cardinality(A) \in Nat
    BY <2>1, <2>2, FS_Subset, FS_CardinalityType
  <2>4. Cardinality(A) \in 0..(Cardinality(rows) - 1)
    BY <1>1, <2>3
  <2> QED BY <2>4 DEF Place, A
<1>3. \A i, j \in rows : Place(k, rows, i) = Place(k, rows, j) => i = j
  <2> SUFFICES ASSUME NEW i \in rows, NEW j \in rows, Place(k, rows, i) = Place(k, rows, j)
               PROVE  i = j
    OBVIOUS
  <2>1. Precedes(k, i, j) \/ Precedes(k, j, i) \/ i = j
    <3>1. k[i] \in Int /\ k[j] \in Int /\ i \in Int /\ j \in Int
      OBVIOUS
    <3> QED BY <3>1 DEF Precedes
  <2>2. Place(k, rows, i) \in Int
    BY <1>1, <1>2
  <2>3. ~(Place(k, rows, i) < Place(k, rows, j)) /\ ~(Place(k, rows, j) < Place(k, rows, i))
    BY <2>2
  <2> QED BY <2>1, <2>3, PlacesGrow
<1>4. \A n \in 0..(Cardinality(rows) - 1) : \E i \in rows : Place(k, rows, i) = n
  <2> DEFINE f == [i \in rows |-> Place(k, rows, i)]
             T == 0..(Cardinality(rows) - 1)
  <2>1. f \in Injection(rows, T)
    BY <1>2, <1>3 DEF Injection, IsInjective
  <2>2. IsFiniteSet(T) /\ Cardinality(T) = Cardinality(rows)
    <3> DEFINE last == Cardinality(rows) - 1
    <3>1. last \in Int /\ last >= -1 /\ Cardinality(rows) = last + 1
      BY <1>1
    <3> HIDE DEF last
    <3>2. IsFiniteSet(0..last) /\ Cardinality(0..last) = IF 0 > last THEN 0 ELSE last - 0 + 1
      BY <3>1, FS_Interval
    <3>3. Cardinality(0..last) = last + 1
      BY <3>1, <3>2
    <3> QED BY <3>1, <3>2, <3>3 DEF last
  <2>3. f \in Surjection(rows, T)
    <3> HIDE DEF f, T
    <3> QED BY <2>1, <2>2, FS_Injection
  <2> QED BY <2>3 DEF Surjection
<1> QED BY <1>1, <1>2, <1>3, <1>4

(* The page of a place, and how many pages there are.                        *)
LEMMA PageIs ==
  ASSUME NEW o \in Nat, NEW size \in Nat \ {0}
  PROVE  LET p == o \div size + 1
         IN  p \in Nat \ {0} /\ (p - 1) * size <= o /\ o < p * size
<1> DEFINE q == o \div size
           r == o % size
<1>1. q \in Int /\ r \in 0..(size - 1) /\ o = size * q + r
  OBVIOUS
<1>2. q >= 0
  BY <1>1
<1> HIDE DEF q, r
<1>3. q * size <= o /\ o < (q + 1) * size
  BY <1>1, <1>2
<1>4. q + 1 \in Nat \ {0} /\ (q + 1) - 1 = q
  BY <1>1, <1>2
<1> QED BY <1>3, <1>4 DEF q

LEMMA PageIsUnique ==
  ASSUME NEW o \in Nat, NEW size \in Nat \ {0}, NEW p \in Nat, NEW q \in Nat,
         (p - 1) * size <= o, o < q * size
  PROVE  p <= q
<1>1. SUFFICES ASSUME p >= q + 1 PROVE FALSE
  OBVIOUS
<1>2. (p - 1) * size >= q * size
  BY <1>1
<1> DEFINE a == (p - 1) * size
           b == q * size
<1>3. a \in Int /\ b \in Int /\ a >= b /\ a <= o /\ o < b
  BY <1>2
<1> HIDE DEF a, b
<1> QED BY <1>3

LEMMA PagesAre ==
  ASSUME NEW n \in Nat \ {0}, NEW size \in Nat \ {0}
  PROVE  LET pages == (n + size - 1) \div size
         IN  pages \in Nat \ {0} /\ (pages - 1) * size < n /\ n <= pages * size
<1> DEFINE m == n + size - 1
           q == m \div size
           r == m % size
<1>1. m \in Nat /\ m >= size
  OBVIOUS
<1>2. q \in Int /\ r \in 0..(size - 1) /\ m = size * q + r
  <2> HIDE DEF m
  <2> QED BY <1>1
<1>3. n = m - size + 1
  OBVIOUS
<1> HIDE DEF m, q, r
<1>4. q >= 1
  BY <1>1, <1>2
<1>5. (q - 1) * size = size * q - size /\ q * size = size * q
  BY <1>2
<1>6. (q - 1) * size < n /\ n <= q * size
  <2> DEFINE t == size * q
  <2>1. t \in Int /\ m = t + r /\ (q - 1) * size = t - size /\ q * size = t
    BY <1>2, <1>5
  <2> HIDE DEF t
  <2> QED BY <1>2, <1>3, <2>1
<1> QED BY <1>2, <1>4, <1>6 DEF q, m

(* Rows with the places o, cut into pages of a size: the pairs shown of a    *)
(* page and a row on it.                                                     *)
IsShown(shown, rows, o, pages, size) ==
  \A row : row \in shown <=>
    \E p \in 1..(pages + 1) : \E id \in rows :
      row = <<p, id>> /\ (p - 1) * size <= o[id] /\ o[id] < p * size

(* Places that are the numbers from 0 to n - 1, one row on each.             *)
IsOrder(o, rows, n) ==
  /\ \A i \in rows : o[i] \in 0..(n - 1)
  /\ \A i, j \in rows : o[i] = o[j] => i = j
  /\ \A m \in 0..(n - 1) : \E i \in rows : o[i] = m

(* The place of a row is on one of the pages, and the last one is not empty. *)
LEMMA RowOnOnePage ==
  ASSUME NEW rows, NEW o, NEW n \in Nat \ {0}, NEW size \in Nat \ {0}, NEW pages \in Nat \ {0},
         (pages - 1) * size < n, n <= pages * size, IsOrder(o, rows, n),
         NEW shown, IsShown(shown, rows, o, pages, size)
  PROVE  /\ \A id \in rows : Cardinality({row \in shown : row[2] = id}) = 1
         /\ {row[1] : row \in shown} = 1..pages
<1>1. ASSUME NEW id \in rows
      PROVE  \E p \in 1..pages :
               /\ (p - 1) * size <= o[id] /\ o[id] < p * size
               /\ \A q \in Nat : (q - 1) * size <= o[id] /\ o[id] < q * size => q = p
  <2>1. o[id] \in Nat /\ o[id] < n
    BY DEF IsOrder
  <2>2. PICK p \in Nat \ {0} : (p - 1) * size <= o[id] /\ o[id] < p * size
    BY <2>1, PageIs
  <2>3. \A q \in Nat : (q - 1) * size <= o[id] /\ o[id] < q * size => q = p
    <3> SUFFICES ASSUME NEW q \in Nat, (q - 1) * size <= o[id], o[id] < q * size PROVE q = p
      OBVIOUS
    <3>1. q <= p /\ p <= q
      BY <2>1, <2>2, PageIsUnique
    <3> QED BY <3>1
  <2>4. o[id] < pages * size
    <3> DEFINE a == pages * size
    <3>1. a \in Int /\ n <= a
      OBVIOUS
    <3> HIDE DEF a
    <3>2. o[id] < a
      BY <2>1, <3>1
    <3> QED BY <3>2 DEF a
  <2>5. p <= pages
    BY <2>1, <2>2, <2>4, PageIsUnique
  <2>6. p \in 1..pages
    BY <2>2, <2>5
  <2> QED BY <2>2, <2>3, <2>6, Zenon
<1>2. ASSUME NEW id \in rows PROVE Cardinality({row \in shown : row[2] = id}) = 1
  <2>1. PICK p \in 1..pages :
          /\ (p - 1) * size <= o[id] /\ o[id] < p * size
          /\ \A q \in Nat : (q - 1) * size <= o[id] /\ o[id] < q * size => q = p
    BY <1>1
  <2>2. <<p, id>> \in shown
    BY <2>1 DEF IsShown
  <2>3. ASSUME NEW row \in shown, row[2] = id PROVE row = <<p, id>>
    <3>1. PICK q \in 1..(pages + 1), j \in rows :
            row = <<q, j>> /\ (q - 1) * size <= o[j] /\ o[j] < q * size
      BY <2>3 DEF IsShown
    <3>2. j = id
      BY <2>3, <3>1
    <3>3. q = p
      BY <2>1, <3>1, <3>2
    <3> QED BY <3>1, <3>2, <3>3
  <2>4. {row \in shown : row[2] = id} = {<<p, id>>}
    BY <2>2, <2>3
  <2> QED BY <2>4, FS_Singleton
<1>3. ASSUME NEW p \in 1..pages PROVE \E row \in shown : row[1] = p
  <2> DEFINE m == (p - 1) * size
             a == (pages - 1) * size
  <2>1. m \in Nat /\ a \in Nat /\ m <= a /\ a < n
    OBVIOUS
  <2>2. m < p * size
    OBVIOUS
  <2>3. m \in 0..(n - 1)
    <3> HIDE DEF m, a
    <3> QED BY <2>1
  <2>4. PICK i \in rows : o[i] = m
    BY <2>3 DEF IsOrder
  <2>5. m <= m
    BY <2>1
  <2>6. <<p, i>> \in shown
    BY <2>2, <2>4, <2>5 DEF IsShown
  <2> QED BY <2>6
<1>4. ASSUME NEW row \in shown PROVE row[1] \in 1..pages
  <2>1. PICK q \in 1..(pages + 1), j \in rows :
          row = <<q, j>> /\ (q - 1) * size <= o[j] /\ o[j] < q * size
    BY DEF IsShown
  <2>2. PICK p \in 1..pages :
          \A r \in Nat : (r - 1) * size <= o[j] /\ o[j] < r * size => r = p
    BY <1>1
  <2> QED BY <2>1, <2>2
<1> QED BY <1>2, <1>3, <1>4

LEMMA PageFits ==
  ASSUME NEW rows, NEW o, NEW n \in Nat, NEW size \in Nat \ {0}, NEW pages \in Nat \ {0},
         IsOrder(o, rows, n), NEW shown, IsShown(shown, rows, o, pages, size), NEW p \in 1..pages
  PROVE  Cardinality({row \in shown : row[1] = p}) <= size
<1> DEFINE X == {row \in shown : row[1] = p}
           a == (p - 1) * size
           b == p * size - 1
           g == [row \in X |-> o[row[2]]]
<1>1. a \in Int /\ b \in Int /\ b = a + size - 1
  OBVIOUS
<1>2. \A row \in X : \E id \in rows : row = <<p, id>> /\ a <= o[id] /\ o[id] < p * size /\ o[id] \in Int
  <2> SUFFICES ASSUME NEW row \in X
               PROVE  \E id \in rows : row = <<p, id>> /\ a <= o[id] /\ o[id] < p * size /\ o[id] \in Int
    OBVIOUS
  <2>1. PICK q \in 1..(pages + 1), id \in rows :
          row = <<q, id>> /\ (q - 1) * size <= o[id] /\ o[id] < q * size
    BY DEF IsShown
  <2>2. q = p
    BY <2>1
  <2>3. o[id] \in Int
    BY DEF IsOrder
  <2> QED BY <2>1, <2>2, <2>3
<1> HIDE DEF X
<1>3. \A row \in X : g[row] \in a..b
  <2> SUFFICES ASSUME NEW row \in X PROVE g[row] \in a..b
    OBVIOUS
  <2>1. PICK id \in rows : row = <<p, id>> /\ a <= o[id] /\ o[id] < p * size /\ o[id] \in Int
    BY <1>2
  <2>2. g[row] = o[id]
    BY <2>1
  <2> DEFINE c == p * size
  <2>3. c \in Int /\ b = c - 1 /\ o[id] < c
    BY <2>1
  <2> HIDE DEF a, b, c
  <2> QED BY <1>1, <2>1, <2>2, <2>3
<1>4. \A r, s \in X : g[r] = g[s] => r = s
  <2> SUFFICES ASSUME NEW r \in X, NEW s \in X, g[r] = g[s] PROVE r = s
    OBVIOUS
  <2>1. PICK i \in rows : r = <<p, i>>
    BY <1>2
  <2>2. PICK j \in rows : s = <<p, j>>
    BY <1>2
  <2>3. o[i] = o[j]
    BY <2>1, <2>2
  <2> QED BY <2>1, <2>2, <2>3 DEF IsOrder
<1> HIDE DEF a, b
<1>5. g \in Injection(X, a..b)
  BY <1>3, <1>4 DEF Injection, IsInjective
<1>6. IsFiniteSet(a..b) /\ Cardinality(a..b) = size
  <2>1. IsFiniteSet(a..b) /\ Cardinality(a..b) = IF a > b THEN 0 ELSE b - a + 1
    BY <1>1, FS_Interval
  <2> QED BY <1>1, <2>1
<1> HIDE DEF g
<1>7. Cardinality(X) <= Cardinality(a..b)
  BY <1>5, <1>6, FS_Injection
<1> QED BY <1>6, <1>7 DEF X

(* Each column the explorer sorts by orders the rows by some number.         *)
LEMMA SortedByKey ==
  ASSUME TableInv, NEW sort \in SORT_COLUMNS, NEW order \in {"asc", "desc"}
  PROVE  \E k : /\ \A id \in Ids : k[id] \in Int
                /\ \A i, j \in Ids : Sorted(i, j, sort, order) <=> Precedes(k, i, j)
<1>1. \A id \in Ids : SortKey(id, sort) \in Int
  <2> SUFFICES ASSUME NEW id \in Ids PROVE SortKey(id, sort) \in Int
    OBVIOUS
  <2>1. SortKey(id, "severity") \in Int
    <3>1. SortKey(id, "severity") = SeverityOrder(findings[id].severity)
      BY DEF SortKey
    <3>2. SeverityOrder(findings[id].severity) \in 1..5
      BY RowsHave, OrderIsStrict
    <3> QED BY <3>1, <3>2
  <2>2. SortKey(id, "epss") \in Int
    <3>1. SortKey(id, "epss") = findings[id].epss
      BY DEF SortKey
    <3>2. findings[id].epss \in {NoEpss} \cup 0..100
      BY RowsHave
    <3> QED BY <3>1, <3>2 DEF NoEpss
  <2>3. SortKey(id, "risk") \in Int
    BY RiskIs DEF SortKey
  <2>4. SortKey(id, "last_seen") \in Int
    <3>1. SortKey(id, "last_seen") = findings[id].lastSeen
      BY DEF SortKey
    <3>2. findings[id].lastSeen \in Nat
      BY RowsHave
    <3> QED BY <3>1, <3>2
  <2> QED BY <2>1, <2>2, <2>3, <2>4 DEF SORT_COLUMNS
<1>2. \A i \in Ids : i \in Int
  BY DEF TableInv
<1>3. CASE order = "desc"
  <2>1. PICK k : \A id \in Ids : k[id] = SortKey(id, sort)
    <3>1. \A id \in Ids : [x \in Ids |-> SortKey(x, sort)][id] = SortKey(id, sort)
      OBVIOUS
    <3> QED BY <3>1
  <2>2. \A i, j \in Ids : Sorted(i, j, sort, order) <=> Precedes(k, i, j)
    <3> SUFFICES ASSUME NEW i \in Ids, NEW j \in Ids
                 PROVE  Sorted(i, j, sort, order) <=> Precedes(k, i, j)
      OBVIOUS
    <3>1. /\ Ahead(i, j, sort, order) <=> k[i] > k[j]
          /\ Ahead(j, i, sort, order) <=> k[j] > k[i]
      BY <1>3, <2>1 DEF Ahead
    <3>2. k[i] \in Int /\ k[j] \in Int /\ i \in Int /\ j \in Int
      BY <1>1, <1>2, <2>1
    <3> QED BY <3>1, <3>2 DEF Sorted, Precedes
  <2>3. \A id \in Ids : k[id] \in Int
    BY <1>1, <2>1
  <2> QED BY <2>2, <2>3
<1>4. CASE order = "asc"
  <2>1. PICK k : \A id \in Ids : k[id] = -SortKey(id, sort)
    <3>1. \A id \in Ids : [x \in Ids |-> -SortKey(x, sort)][id] = -SortKey(id, sort)
      OBVIOUS
    <3> QED BY <3>1
  <2>2. \A i, j \in Ids : Sorted(i, j, sort, order) <=> Precedes(k, i, j)
    <3> SUFFICES ASSUME NEW i \in Ids, NEW j \in Ids
                 PROVE  Sorted(i, j, sort, order) <=> Precedes(k, i, j)
      OBVIOUS
    <3>1. SortKey(i, sort) \in Int /\ SortKey(j, sort) \in Int /\ i \in Int /\ j \in Int
      BY <1>1, <1>2
    <3>2. /\ Ahead(i, j, sort, order) <=> k[i] > k[j]
          /\ Ahead(j, i, sort, order) <=> k[j] > k[i]
      BY <1>4, <2>1, <3>1 DEF Ahead
    <3>3. k[i] \in Int /\ k[j] \in Int
      BY <2>1, <3>1
    <3> QED BY <3>1, <3>2, <3>3 DEF Sorted, Precedes
  <2>3. \A id \in Ids : k[id] \in Int
    BY <1>1, <2>1
  <2> QED BY <2>2, <2>3
<1> QED BY <1>3, <1>4

(* The rows of the pages, and of the one after the last.                     *)
Shown(f, sort, order, size) ==
  UNION {{p} \X search_items(f, sort, order, p, size) : p \in 1..(search_pages(f, size) + 1)}

(* The pages show each row once, none shows too many, and they are counted.  *)
CutInPages(rows, pages, size, shown) ==
  /\ \A id \in rows : Cardinality({row \in shown : row[2] = id}) = 1
  /\ \A p \in 1..pages : Cardinality({row \in shown : row[1] = p}) <= size
  /\ {row[1] : row \in shown} = IF rows = {} THEN {} ELSE 1..pages

LEMMA ExplorerPages ==
  ASSUME TableInv, NEW f, NEW sort \in SORT_COLUMNS, NEW order \in {"asc", "desc"},
         NEW size \in Nat \ {0}
  PROVE  CutInPages(build_findings_query(f), search_pages(f, size), size,
                    Shown(f, sort, order, size))
<1> DEFINE rows == build_findings_query(f)
           n == Cardinality(rows)
           pages == search_pages(f, size)
           shown == Shown(f, sort, order, size)
<1>1. rows \in SUBSET Ids
  BY DEF build_findings_query
<1>2. IsFiniteSet(rows) /\ n \in Nat /\ rows \in SUBSET Int
  <2>1. Ids \in SUBSET Int
    BY DEF TableInv
  <2> HIDE DEF rows
  <2> QED BY <1>1, <2>1, SetsAreFinite
<1>3. PICK k : /\ \A id \in Ids : k[id] \in Int
               /\ \A i, j \in Ids : Sorted(i, j, sort, order) <=> Precedes(k, i, j)
  BY SortedByKey
<1>4. PICK o : \A id \in rows : o[id] = Place(k, rows, id)
  <2>1. \A id \in rows : [x \in rows |-> Place(k, rows, x)][id] = Place(k, rows, id)
    OBVIOUS
  <2> QED BY <2>1
<1>5. IsOrder(o, rows, n)
  <2>1. \A x \in rows : k[x] \in Int
    BY <1>1, <1>3
  <2> HIDE DEF rows
  <2>2. /\ \A i \in rows : Place(k, rows, i) \in 0..(Cardinality(rows) - 1)
        /\ \A i, j \in rows : Place(k, rows, i) = Place(k, rows, j) => i = j
        /\ \A m \in 0..(Cardinality(rows) - 1) : \E i \in rows : Place(k, rows, i) = m
    BY <1>2, <2>1, Places
  <2> QED BY <1>4, <2>2 DEF IsOrder
<1>6. ASSUME NEW p, NEW id
      PROVE  id \in search_items(f, sort, order, p, size) <=>
               id \in rows /\ (p - 1) * size <= o[id] /\ o[id] < p * size
  <2>1. id \in rows => {j \in rows : Sorted(j, id, sort, order)} = {j \in rows : Precedes(k, j, id)}
    BY <1>1, <1>3
  <2>2. id \in rows => Cardinality({j \in rows : Sorted(j, id, sort, order)}) = o[id]
    BY <1>4, <2>1 DEF Place
  <2>3. search_items(f, sort, order, p, size) =
          {x \in rows : LET at == Cardinality({j \in rows : Sorted(j, x, sort, order)})
                        IN  at >= (p - 1) * size /\ at < p * size}
    BY DEF search_items
  <2> HIDE DEF rows
  <2> QED BY <2>2, <2>3
<1>7. IsShown(shown, rows, o, pages, size)
  <2> HIDE DEF rows, pages, shown
  <2>1. ASSUME NEW row
        PROVE  row \in shown <=> \E p \in 1..(pages + 1) : \E id \in rows :
                 row = <<p, id>> /\ (p - 1) * size <= o[id] /\ o[id] < p * size
    <3>1. row \in shown <=> \E p \in 1..(pages + 1) : row \in {p} \X search_items(f, sort, order, p, size)
      BY DEF pages, shown, Shown
    <3>2. \A p : row \in {p} \X search_items(f, sort, order, p, size) <=>
                   \E id \in search_items(f, sort, order, p, size) : row = <<p, id>>
      OBVIOUS
    <3> QED BY <1>6, <3>1, <3>2
  <2> QED BY <2>1 DEF IsShown
<1>8. pages = IF n = 0 THEN 1 ELSE (n + size - 1) \div size
  BY DEF search_pages
<1>9. CASE n = 0
  <2>1. rows = {}
    BY <1>2, <1>9, FS_EmptySet
  <2>2. shown = {}
    BY <1>7, <2>1 DEF IsShown
  <2>3. pages = 1
    BY <1>8, <1>9
  <2> HIDE DEF rows, pages, shown, n
  <2>4. \A p : {row \in shown : row[1] = p} = {}
    BY <2>2
  <2>5. \A p : Cardinality({row \in shown : row[1] = p}) <= size
    BY <2>4, FS_EmptySet
  <2>6. {row[1] : row \in shown} = {}
    BY <2>2
  <2>7. CutInPages(rows, pages, size, shown)
    BY <2>1, <2>5, <2>6 DEF CutInPages
  <2> QED BY <2>7 DEF rows, pages, shown
<1>10. CASE n # 0
  <2>1. n \in Nat \ {0} /\ rows # {}
    <3>1. Cardinality({}) = 0
      BY FS_EmptySet
    <3> QED BY <1>2, <1>10, <3>1
  <2> HIDE DEF rows, pages, shown, n
  <2>2. pages \in Nat \ {0} /\ (pages - 1) * size < n /\ n <= pages * size
    BY <1>8, <1>10, <2>1, PagesAre
  <2>3. /\ \A id \in rows : Cardinality({row \in shown : row[2] = id}) = 1
        /\ {row[1] : row \in shown} = 1..pages
    BY <1>5, <1>7, <2>1, <2>2, RowOnOnePage
  <2>4. \A p \in 1..pages : Cardinality({row \in shown : row[1] = p}) <= size
    BY <1>2, <1>5, <1>7, <2>2, PageFits
  <2>5. CutInPages(rows, pages, size, shown)
    BY <2>1, <2>3, <2>4 DEF CutInPages
  <2> QED BY <2>5 DEF rows, pages, shown
<1> QED BY <1>9, <1>10

LEMMA FacetsAddUp ==
  ASSUME TableInv, NEW f
  PROVE  /\ SumOf(search_facets(f).severity) = Cardinality(build_findings_query(f))
         /\ SumOf(search_facets(f).status) = Cardinality(build_findings_query(f))
<1> DEFINE rows == build_findings_query(f)
           F == search_facets(f).status
<1>1. rows \in SUBSET Ids
  BY DEF build_findings_query
<1>2. /\ search_facets(f).severity = SevCounts(rows)
      /\ F = [st \in FindingStatus |-> Cardinality({id \in rows : findings[id].status = st})]
  BY DEF search_facets
<1> HIDE DEF rows, F
<1>3. PICK g : \A id \in rows : g[id] = findings[id].status
  <2>1. \A id \in rows : [x \in rows |-> findings[x].status][id] = findings[id].status
    OBVIOUS
  <2> QED BY <2>1
<1>4. \A st : {id \in rows : findings[id].status = st} = {id \in rows : g[id] = st}
  BY <1>3
<1>5. DOMAIN F = FindingStatus /\ \A st \in DOMAIN F : F[st] = Cardinality({id \in rows : g[id] = st})
  BY <1>2, <1>4
<1>6. IsFiniteSet(rows) /\ \A id \in rows : g[id] \in FindingStatus
  BY <1>1, <1>3, SetsAreFinite, RowsHave
<1>7. SumOf(F) = Cardinality(rows)
  BY <1>5, <1>6, ColumnsAreFinite, SumOfCounts
<1>8. SumOf(SevCounts(rows)) = Cardinality(rows)
  BY <1>1, SeveritiesAddUp
<1> QED BY <1>2, <1>7, <1>8 DEF rows, F

(* With no write in between, the pages of the explorer show each matching    *)
(* finding once, for every order and filter: no row is on two pages or on    *)
(* none, no page is too long, and the counted pages are the ones with rows.  *)
THEOREM PagesCutTheTable == Spec => []PagesPartition
<1>1. ASSUME TableInv PROVE PagesPartition
  <2> SUFFICES ASSUME NEW q \in {NoFilter} \X SORT_COLUMNS \X {"desc"}
                                  \cup {StillOpen, [NoFilter EXCEPT !.hasCve = TRUE]} \X {"severity"} \X {"asc"},
                      NEW size \in PageSizes
               PROVE  LET rows == build_findings_query(q[1])
                          pages == search_pages(q[1], size)
                          shown == UNION {{p} \X search_items(q[1], q[2], q[3], p, size) : p \in 1..(pages + 1)}
                          facets == search_facets(q[1])
                      IN  /\ \A id \in rows : Cardinality({row \in shown : row[2] = id}) = 1
                          /\ \A p \in 1..pages : Cardinality({row \in shown : row[1] = p}) <= size
                          /\ {row[1] : row \in shown} = IF rows = {} THEN {} ELSE 1..pages
                          /\ SumOf(facets.severity) = Cardinality(rows)
                          /\ SumOf(facets.status) = Cardinality(rows)
    BY DEF PagesPartition
  <2>1. size \in Nat \ {0}
    BY PagesAssumption
  <2>2. q[2] \in SORT_COLUMNS /\ q[3] \in {"asc", "desc"}
    BY DEF SORT_COLUMNS
  <2>3. CutInPages(build_findings_query(q[1]), search_pages(q[1], size), size,
                   Shown(q[1], q[2], q[3], size))
    BY <1>1, <2>1, <2>2, ExplorerPages
  <2>4. /\ SumOf(search_facets(q[1]).severity) = Cardinality(build_findings_query(q[1]))
        /\ SumOf(search_facets(q[1]).status) = Cardinality(build_findings_query(q[1]))
    BY <1>1, FacetsAddUp
  <2> QED BY <2>3, <2>4 DEF CutInPages, Shown
<1> QED BY <1>1, TableInvariant, PTL
================================================================================
