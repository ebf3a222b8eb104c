----------------------------- MODULE SumTheorems -----------------------------
(***************************************************************************)
(* Sums over finite sets, as the components' invariants state them with    *)
(* MapThenSumSet: what money was paid, what quantity came back.  The fold  *)
(* behind MapThenSumSet is a recursive function on the subsets of the set  *)
(* it sums over; these lemmas show that there is such a function, and from *)
(* it what adding, removing or changing one summand does to a sum.         *)
(*                                                                         *)
(* Induction is by a smallest counterexample among the subsets of a finite *)
(* set, which is a statement about sets only.                              *)
(***************************************************************************)
EXTENDS Integers, FiniteSetsExt, FiniteSetTheorems, WellFoundedInduction, TLAPS

\* The sum of f[x] over the x of S.
Sum(f, S) == MapThenSumSet(LAMBDA x : f[x], S)

\* The element a fold takes next.
Pick(s) == CHOOSE x \in s : TRUE

\* h is the recursive function of the fold of f over the subsets of T.
Folds(h, T, f) ==
    h = [s \in SUBSET T |-> IF s = {} THEN 0 ELSE f[Pick(s)] + h[s \ {Pick(s)}]]

(* Among some subsets of a finite set one has no other of them inside it.   *)
(* The induction of every lemma below rests on it.                         *)
LEMMA SmallestSubset ==
    ASSUME NEW S, IsFiniteSet(S), NEW B, B \subseteq SUBSET S, B # {}
    PROVE  \E V \in B : \A U \in B : U \subseteq V => U = V
<1>1. IsWellFoundedOn(StrictSubsetOrdering(S), FiniteSubsetsOf(S))
  BY FS_StrictSubsetOrderingWellFounded
<1>2. B \subseteq FiniteSubsetsOf(S)
  BY FS_Subset DEF FiniteSubsetsOf
<1>3. PICK V \in B : \A U \in B : <<U, V>> \notin StrictSubsetOrdering(S)
  BY <1>1, <1>2, WFMin
<1>4. ASSUME NEW U \in B, U \subseteq V PROVE U = V
  BY <1>3, <1>4 DEF StrictSubsetOrdering
<1> QED
  BY <1>4

(* Two functions of the fold agree where both are defined. *)
LEMMA FoldsAgree ==
    ASSUME NEW S, IsFiniteSet(S), NEW T, NEW U, S \subseteq T, S \subseteq U, NEW f,
           NEW g, Folds(g, T, f), NEW h, Folds(h, U, f)
    PROVE  g[S] = h[S]
<1> DEFINE B == {V \in SUBSET S : g[V] # h[V]}
<1> SUFFICES ASSUME B # {} PROVE FALSE
  OBVIOUS
<1>0. B \subseteq SUBSET S
  OBVIOUS
<1>1. PICK V \in B : \A W \in B : W \subseteq V => W = V
  <2> HIDE DEF B
  <2> QED
    BY <1>0, SmallestSubset
<1>2. V \in SUBSET T /\ V \in SUBSET U
  OBVIOUS
<1>3. V # {}
  BY <1>2 DEF Folds
<1>4. Pick(V) \in V
  BY <1>3 DEF Pick
<1>5. V \ {Pick(V)} \notin B
  BY <1>1, <1>4
<1>6. g[V \ {Pick(V)}] = h[V \ {Pick(V)}]
  BY <1>5
<1> HIDE DEF B
<1>7. g[V] = f[Pick(V)] + g[V \ {Pick(V)}]
  BY <1>2, <1>3 DEF Folds
<1>8. h[V] = f[Pick(V)] + h[V \ {Pick(V)}]
  BY <1>2, <1>3 DEF Folds
<1> QED
  BY <1>6, <1>7, <1>8 DEF B

(* There is a function of the fold over every finite set. *)
LEMMA FoldExists ==
    ASSUME NEW T, IsFiniteSet(T), NEW f
    PROVE  \E h : Folds(h, T, f)
<1> DEFINE B == {V \in SUBSET T : ~ \E h : Folds(h, V, f)}
<1> SUFFICES ASSUME B # {} PROVE FALSE
  OBVIOUS
<1>0. B \subseteq SUBSET T
  OBVIOUS
<1>1. PICK V \in B : \A W \in B : W \subseteq V => W = V
  <2> HIDE DEF B
  <2> QED
    BY <1>0, SmallestSubset
<1>2. IsFiniteSet(V)
  BY FS_Subset
<1> DEFINE Of(s) == CHOOSE k : Folds(k, s, f)
           part == [s \in SUBSET V |-> Of(s)[s]]
           h == [s \in SUBSET V |-> IF s = {} THEN 0 ELSE f[Pick(s)] + part[s \ {Pick(s)}]]
<1>3. ASSUME NEW s \in SUBSET V, s # V PROVE Folds(Of(s), s, f)
  <2>1. s \notin B
    BY <1>1, <1>3
  <2>2. \E k : Folds(k, s, f)
    BY <2>1
  <2> QED
    BY <2>2
<1>4. ASSUME NEW s \in SUBSET V, s # V PROVE h[s] = part[s]
  <2>1. Folds(Of(s), s, f)
    BY <1>3, <1>4
  <2> DEFINE k == Of(s)
  <2>2. Folds(k, s, f)
    BY <2>1
  <2>3. part[s] = k[s]
    OBVIOUS
  <2> HIDE DEF k
  <2>4. CASE s = {}
    BY <2>2, <2>3, <2>4 DEF Folds
  <2>5. CASE s # {}
    <3> DEFINE u == s \ {Pick(s)}
    <3>1. Pick(s) \in s
      BY <2>5 DEF Pick
    <3>2. u \in SUBSET V /\ u # V /\ u \subseteq s
      BY <3>1
    <3>3. Folds(Of(u), u, f)
      BY <1>3, <3>2
    <3>4. IsFiniteSet(u)
      BY <1>2, <3>2, FS_Subset
    <3>5. Of(u)[u] = k[u]
      BY <2>2, <3>2, <3>3, <3>4, FoldsAgree
    <3>6. part[u] = k[u]
      BY <3>2, <3>5
    <3>7. k[s] = f[Pick(s)] + k[u]
      BY <2>2, <2>5 DEF Folds
    <3>8. h[s] = f[Pick(s)] + part[u]
      BY <2>5
    <3> QED
      BY <2>3, <3>6, <3>7, <3>8
  <2> QED
    BY <2>4, <2>5
<1>5. ASSUME NEW s \in SUBSET V
      PROVE  h[s] = IF s = {} THEN 0 ELSE f[Pick(s)] + h[s \ {Pick(s)}]
  <2>1. CASE s # {}
    <3>1. Pick(s) \in s
      BY <2>1 DEF Pick
    <3>2. s \ {Pick(s)} \in SUBSET V /\ s \ {Pick(s)} # V
      BY <3>1
    <3>3. h[s \ {Pick(s)}] = part[s \ {Pick(s)}]
      BY <1>4, <3>2
    <3>4. h[s] = f[Pick(s)] + part[s \ {Pick(s)}]
      BY <2>1
    <3> QED
      BY <2>1, <3>3, <3>4
  <2>2. CASE s = {}
    BY <2>2
  <2> QED
    BY <2>1, <2>2
<1>6. h = [s \in SUBSET V |-> h[s]]
  OBVIOUS
<1>7. Folds(h, V, f)
  <2> HIDE DEF h
  <2> QED
    BY <1>5, <1>6 DEF Folds
<1> QED
  BY <1>7

-----------------------------------------------------------------------------
(* A sum is the value of any function of its fold. *)
LEMMA SumIsFold ==
    ASSUME NEW S, IsFiniteSet(S), NEW f, NEW T, S \subseteq T, NEW h, Folds(h, T, f)
    PROVE  Sum(f, S) = h[S]
<1> DEFINE P(k) == k = [s \in SUBSET S |->
                            IF s = {} THEN 0
                            ELSE LET x == CHOOSE x \in s : TRUE IN f[x] + k[s \ {x}]]
<1>1. \A k : P(k) <=> Folds(k, S, f)
  BY DEF Folds, Pick
<1>2. \E k : P(k)
  BY <1>1, FoldExists
<1>3. P(CHOOSE k : P(k))
  BY <1>2
<1>4. Folds(CHOOSE k : P(k), S, f)
  BY <1>1, <1>3
<1>5. Sum(f, S) = (CHOOSE k : P(k))[S]
  BY DEF Sum, MapThenSumSet, MapThenFoldSet
<1> QED
  BY <1>4, <1>5, FoldsAgree

(* Nothing sums to zero. *)
LEMMA SumEmpty ==
    ASSUME NEW f
    PROVE  Sum(f, {}) = 0
<1>1. IsFiniteSet({})
  BY FS_EmptySet
<1>2. PICK h : Folds(h, {}, f)
  BY <1>1, FoldExists
<1>3. h[{}] = 0
  BY <1>2 DEF Folds
<1> QED
  BY <1>1, <1>2, <1>3, SumIsFold

(* A sum is its first summand and the sum of the rest. *)
LEMMA SumUnfolds ==
    ASSUME NEW S, IsFiniteSet(S), S # {}, NEW f
    PROVE  Pick(S) \in S /\ Sum(f, S) = f[Pick(S)] + Sum(f, S \ {Pick(S)})
<1>1. Pick(S) \in S
  BY DEF Pick
<1>2. PICK h : Folds(h, S, f)
  BY FoldExists
<1>3. h[S] = f[Pick(S)] + h[S \ {Pick(S)}]
  BY <1>2 DEF Folds
<1>4. IsFiniteSet(S \ {Pick(S)})
  BY FS_RemoveElement
<1>5. Sum(f, S \ {Pick(S)}) = h[S \ {Pick(S)}]
  BY <1>2, <1>4, SumIsFold
<1>6. Sum(f, S) = h[S]
  BY <1>2, SumIsFold
<1> QED
  BY <1>1, <1>3, <1>5, <1>6

(* A sum of integers is an integer. *)
LEMMA SumInt ==
    ASSUME NEW S, IsFiniteSet(S), NEW f, \A x \in S : f[x] \in Int
    PROVE  Sum(f, S) \in Int
<1> DEFINE B == {V \in SUBSET S : Sum(f, V) \notin Int}
<1> SUFFICES ASSUME B # {} PROVE FALSE
  OBVIOUS
<1>0. B \subseteq SUBSET S
  OBVIOUS
<1>1. PICK V \in B : \A W \in B : W \subseteq V => W = V
  <2> HIDE DEF B
  <2> QED
    BY <1>0, SmallestSubset
<1>2. IsFiniteSet(V)
  BY FS_Subset
<1>3. V # {}
  BY SumEmpty
<1>4. Pick(V) \in V /\ Sum(f, V) = f[Pick(V)] + Sum(f, V \ {Pick(V)})
  BY <1>2, <1>3, SumUnfolds
<1>5. Sum(f, V \ {Pick(V)}) \in Int
  BY <1>1, <1>4
<1>6. f[Pick(V)] \in Int
  BY <1>4
<1>7. Sum(f, V) \in Int
  BY <1>4, <1>5, <1>6
<1> QED
  BY <1>7

(* Any summand may be taken out of a sum, not only its first. *)
LEMMA SumRemove ==
    ASSUME NEW S, IsFiniteSet(S), NEW f, \A x \in S : f[x] \in Int, NEW x \in S
    PROVE  /\ Sum(f, S) = f[x] + Sum(f, S \ {x})
           /\ Sum(f, S \ {x}) \in Int
<1>a. \A V \in SUBSET S : Sum(f, V) \in Int /\ IsFiniteSet(V)
  BY FS_Subset, SumInt
<1> DEFINE B == {V \in SUBSET S : \E y \in V : Sum(f, V) # f[y] + Sum(f, V \ {y})}
<1> SUFFICES ASSUME B # {} PROVE FALSE
  BY <1>a
<1>0. B \subseteq SUBSET S
  OBVIOUS
<1>1. PICK V \in B : \A W \in B : W \subseteq V => W = V
  <2> HIDE DEF B
  <2> QED
    BY <1>0, SmallestSubset
<1>2. PICK y \in V : Sum(f, V) # f[y] + Sum(f, V \ {y})
  BY <1>1
<1> DEFINE p == Pick(V)
<1>3. p \in V /\ Sum(f, V) = f[p] + Sum(f, V \ {p})
  BY <1>2, <1>a, SumUnfolds
<1> HIDE DEF p
<1>4. p # y
  BY <1>2, <1>3
<1>5. y \in V \ {p} /\ p \in V \ {y}
  BY <1>3, <1>4
<1>6. V \ {p} \notin B /\ V \ {y} \notin B
  BY <1>1, <1>5
<1>7. Sum(f, V \ {p}) = f[y] + Sum(f, (V \ {p}) \ {y})
  BY <1>5, <1>6
<1>8. Sum(f, V \ {y}) = f[p] + Sum(f, (V \ {y}) \ {p})
  BY <1>5, <1>6
<1>9. (V \ {p}) \ {y} = (V \ {y}) \ {p}
  OBVIOUS
<1> DEFINE rest == Sum(f, (V \ {y}) \ {p})
<1>10. rest \in Int /\ f[p] \in Int /\ f[y] \in Int
  <2>1. (V \ {y}) \ {p} \in SUBSET S
    OBVIOUS
  <2> QED
    BY <2>1, <1>a, <1>3
<1>11. Sum(f, V) = f[p] + (f[y] + rest)
  BY <1>3, <1>7, <1>9
<1>12. Sum(f, V \ {y}) = f[p] + rest
  BY <1>8
<1> HIDE DEF rest
<1> QED
  BY <1>2, <1>10, <1>11, <1>12

(* A summand more. *)
LEMMA SumAdd ==
    ASSUME NEW S, IsFiniteSet(S), NEW f, \A y \in S : f[y] \in Int,
           NEW x, x \notin S, f[x] \in Int
    PROVE  Sum(f, S \cup {x}) = Sum(f, S) + f[x]
<1>1. IsFiniteSet(S \cup {x})
  BY FS_AddElement
<1>2. (S \cup {x}) \ {x} = S
  OBVIOUS
<1>3. Sum(f, S \cup {x}) = f[x] + Sum(f, S)
  BY <1>1, <1>2, SumRemove
<1> QED
  BY <1>3, SumInt

(* One summand is its own sum. *)
LEMMA SumOne ==
    ASSUME NEW f, NEW x, f[x] \in Int
    PROVE  Sum(f, {x}) = f[x]
<1>1. IsFiniteSet({}) /\ {} \cup {x} = {x}
  BY FS_EmptySet
<1>2. Sum(f, {x}) = 0 + f[x]
  BY <1>1, SumAdd, SumEmpty
<1> QED
  BY <1>2

(* A sum reads its function only on the set it sums over. *)
LEMMA SumAgrees ==
    ASSUME NEW S, IsFiniteSet(S), NEW f, NEW g, \A x \in S : f[x] = g[x]
    PROVE  Sum(f, S) = Sum(g, S)
<1> DEFINE B == {V \in SUBSET S : Sum(f, V) # Sum(g, V)}
<1> SUFFICES ASSUME B # {} PROVE FALSE
  OBVIOUS
<1>0. B \subseteq SUBSET S
  OBVIOUS
<1>1. PICK V \in B : \A W \in B : W \subseteq V => W = V
  <2> HIDE DEF B
  <2> QED
    BY <1>0, SmallestSubset
<1>2. IsFiniteSet(V)
  BY FS_Subset
<1>3. V # {}
  BY SumEmpty
<1>4. /\ Pick(V) \in V
      /\ Sum(f, V) = f[Pick(V)] + Sum(f, V \ {Pick(V)})
      /\ Sum(g, V) = g[Pick(V)] + Sum(g, V \ {Pick(V)})
  BY <1>2, <1>3, SumUnfolds
<1>5. Sum(f, V \ {Pick(V)}) = Sum(g, V \ {Pick(V)})
  BY <1>1, <1>4
<1>6. Sum(f, V) = Sum(g, V)
  BY <1>4, <1>5
<1> QED
  BY <1>6

(* Changing one summand changes the sum by as much. *)
LEMMA SumChange ==
    ASSUME NEW S, IsFiniteSet(S), NEW f, \A y \in S : f[y] \in Int,
           NEW g, NEW x \in S, \A y \in S \ {x} : g[y] = f[y], g[x] \in Int
    PROVE  Sum(g, S) = Sum(f, S) - f[x] + g[x]
<1>1. Sum(f, S) = f[x] + Sum(f, S \ {x}) /\ Sum(f, S \ {x}) \in Int
  BY SumRemove
<1>2. Sum(g, S) = g[x] + Sum(g, S \ {x})
  <2>1. \A y \in S : g[y] \in Int
    OBVIOUS
  <2> QED
    BY <2>1, SumRemove
<1>3. Sum(g, S \ {x}) = Sum(f, S \ {x})
  BY FS_RemoveElement, SumAgrees
<1>4. f[x] \in Int /\ g[x] \in Int
  OBVIOUS
<1> QED
  BY <1>1, <1>2, <1>3, <1>4

(* A sum of naturals is at least every one of its summands. *)
LEMMA SumNat ==
    ASSUME NEW S, IsFiniteSet(S), NEW f, \A y \in S : f[y] \in Nat
    PROVE  Sum(f, S) \in Nat /\ \A x \in S : f[x] <= Sum(f, S)
<1> DEFINE B == {V \in SUBSET S : Sum(f, V) \notin Nat}
<1>a. \A y \in S : f[y] \in Int
  OBVIOUS
<1>b. B = {}
  <2> SUFFICES ASSUME B # {} PROVE FALSE
    OBVIOUS
  <2>0. B \subseteq SUBSET S
    OBVIOUS
  <2>1. PICK V \in B : \A W \in B : W \subseteq V => W = V
    <3> HIDE DEF B
    <3> QED
      BY <2>0, SmallestSubset
  <2>2. IsFiniteSet(V)
    BY FS_Subset
  <2>3. V # {}
    BY SumEmpty
  <2>4. Pick(V) \in V /\ Sum(f, V) = f[Pick(V)] + Sum(f, V \ {Pick(V)})
    BY <2>2, <2>3, SumUnfolds
  <2>5. Sum(f, V \ {Pick(V)}) \in Nat
    BY <2>1, <2>4
  <2>6. f[Pick(V)] \in Nat
    BY <2>4
  <2>7. Sum(f, V) \in Nat
    BY <2>4, <2>5, <2>6
  <2> QED
    BY <2>7
<1>1. \A V \in SUBSET S : Sum(f, V) \in Nat
  BY <1>b
<1>2. ASSUME NEW x \in S PROVE f[x] <= Sum(f, S)
  <2>1. Sum(f, S) = f[x] + Sum(f, S \ {x})
    BY <1>a, SumRemove
  <2>2. Sum(f, S \ {x}) \in Nat /\ f[x] \in Nat
    BY <1>1
  <2> QED
    BY <2>1, <2>2
<1> QED
  BY <1>1, <1>2

(* Summing over a part is summing over the whole with zeros elsewhere. *)
LEMMA SumFiltered ==
    ASSUME NEW S, IsFiniteSet(S), NEW f, NEW T, T \subseteq S, \A x \in T : f[x] \in Int,
           NEW g, \A x \in S : g[x] = IF x \in T THEN f[x] ELSE 0
    PROVE  Sum(f, T) = Sum(g, S)
<1> DEFINE B == {V \in SUBSET S : Sum(f, V \cap T) # Sum(g, V)}
<1> SUFFICES ASSUME B # {} PROVE FALSE
  <2>1. Sum(f, S \cap T) = Sum(g, S)
    OBVIOUS
  <2>2. S \cap T = T
    OBVIOUS
  <2> QED
    BY <2>1, <2>2
<1>0. B \subseteq SUBSET S
  OBVIOUS
<1>1. PICK V \in B : \A W \in B : W \subseteq V => W = V
  <2> HIDE DEF B
  <2> QED
    BY <1>0, SmallestSubset
<1>2. IsFiniteSet(V)
  BY FS_Subset
<1>3. V # {}
  <2>1. {} \cap T = {}
    OBVIOUS
  <2> QED
    BY <2>1, SumEmpty
<1>4. Pick(V) \in V /\ Sum(g, V) = g[Pick(V)] + Sum(g, V \ {Pick(V)})
  BY <1>2, <1>3, SumUnfolds
<1> DEFINE p == Pick(V)
           rest == (V \ {p}) \cap T
<1>5. Sum(f, rest) = Sum(g, V \ {p})
  BY <1>1, <1>4
<1>6. IsFiniteSet(rest) /\ \A x \in rest : f[x] \in Int
  BY <1>2, FS_Subset
<1>7. Sum(f, rest) \in Int
  BY <1>6, SumInt
<1>8. CASE p \in T
  <2>1. V \cap T = rest \cup {p}
    BY <1>4, <1>8
  <2>2. Sum(f, rest \cup {p}) = Sum(f, rest) + f[p]
    BY <1>6, <1>8, SumAdd
  <2>3. g[p] = f[p] /\ f[p] \in Int
    BY <1>4, <1>8
  <2>4. Sum(f, rest) + f[p] = g[p] + Sum(g, V \ {p})
    <3> HIDE DEF rest, p
    <3> QED
      BY <1>5, <1>7, <2>3
  <2>5. Sum(f, V \cap T) = Sum(g, V)
    BY <1>4, <2>1, <2>2, <2>4
  <2> QED
    BY <2>5
<1>9. CASE p \notin T
  <2>1. V \cap T = rest
    BY <1>4, <1>9
  <2>2. g[p] = 0
    BY <1>4, <1>9
  <2>3. Sum(f, rest) = g[p] + Sum(g, V \ {p})
    <3> HIDE DEF rest, p
    <3> QED
      BY <1>5, <1>7, <2>2
  <2>4. Sum(f, V \cap T) = Sum(g, V)
    BY <1>4, <2>1, <2>3
  <2> QED
    BY <2>4
<1> QED
  BY <1>8, <1>9

-----------------------------------------------------------------------------
(* A finite set of numbers has a highest one. *)
LEMMA HasHighest ==
    ASSUME NEW S, IsFiniteSet(S)
    PROVE  S \subseteq Nat /\ S # {} => \E n \in S : \A m \in S : m <= n
<1> DEFINE B == {V \in SUBSET S : V # {} /\ ~ \E n \in V : \A m \in V : m <= n}
<1>0. B \subseteq SUBSET S
  OBVIOUS
<1>1. B # {} => \E V \in B : \A W \in B : W \subseteq V => W = V
  <2> HIDE DEF B
  <2> QED
    BY <1>0, SmallestSubset
<1> SUFFICES ASSUME S \subseteq Nat, B # {} PROVE FALSE
  OBVIOUS
<1>2. PICK V \in B : \A W \in B : W \subseteq V => W = V
  BY <1>1
<1>3. PICK x \in V : TRUE
  OBVIOUS
<1>4. CASE V \ {x} = {}
  BY <1>3, <1>4
<1>5. CASE V \ {x} # {}
  <2>1. V \ {x} \notin B /\ V \ {x} \in SUBSET S
    BY <1>0, <1>2, <1>3
  <2>2. PICK n \in V \ {x} : \A m \in V \ {x} : m <= n
    BY <1>5, <2>1
  <2>3. n \in Nat /\ x \in Nat /\ \A m \in V : m \in Nat
    BY <1>3
  <2>4. CASE x <= n
    BY <2>2, <2>3, <2>4
  <2>5. CASE n <= x
    <3>1. \A m \in V : m <= x
      BY <2>2, <2>3, <2>5
    <3> QED
      BY <1>3, <3>1
  <2> QED
    BY <2>3, <2>4, <2>5
<1> QED
  BY <1>4, <1>5
=============================================================================
