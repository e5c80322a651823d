----------------------------- MODULE SumTheorems -----------------------------
(***************************************************************************)
(* What holds of sums over finite sets, SumFunctionOnSet of the community  *)
(* modules: the level pass's counters and the books' statements are such   *)
(* sums.  A fold is what a set's subsets have in common; what holds of     *)
(* every finite set is shown by its least counterexample.                  *)
(***************************************************************************)
EXTENDS Integers, Functions, FiniteSetTheorems, WellFoundedInduction, TLAPS

\* Of subsets of a finite set, one contains no other.
LEMMA SmallestSet ==
  ASSUME NEW S, IsFiniteSet(S), NEW Family \in SUBSET (SUBSET S), Family # {}
  PROVE  \E T \in Family : \A U \in SUBSET T : U # T => U \notin Family
<1> DEFINE R == StrictSubsetOrdering(S)
<1>1. IsWellFoundedOn(R, SUBSET S)
  BY FS_StrictSubsetOrderingWellFounded, FS_FiniteSubsetsOfFinite
<1>2. \A T, U \in SUBSET S : U \subseteq T /\ U # T => <<U, T>> \in R
  BY DEF StrictSubsetOrdering
<1> HIDE DEF R
<1>3. PICK T \in Family : \A U \in Family : ~ (<<U, T>> \in R)
  BY <1>1, WFMin
<1> QED BY <1>2, <1>3

\* The sums a fold over a set is made of: one for every part of the set.
Part(T) == CHOOSE x \in T : TRUE
Parts(f, S) ==
  CHOOSE iter : iter = [ s \in SUBSET S |-> IF s = {} THEN 0
                                            ELSE LET x == Part(s) IN f[x] + iter[s \ {x}] ]
Folds(f, S, g) ==
  /\ g = [ s \in SUBSET S |-> g[s] ]
  /\ S \in SUBSET S /\ g[{}] = 0
  /\ \A s \in SUBSET S : s # {} => g[s] = f[Part(s)] + g[s \ {Part(s)}]

LEMMA Unfold == ASSUME NEW f, NEW S PROVE SumFunctionOnSet(f, S) = Parts(f, S)[S]
BY DEF SumFunctionOnSet, FoldFunctionOnSet, MapThenFoldSet, Parts, Part

LEMMA PartOf == ASSUME NEW T, T # {} PROVE Part(T) \in T
BY DEF Part

\* Two folds agree on what both have.
LEMMA FoldsAgree ==
  ASSUME NEW S, IsFiniteSet(S), NEW f, NEW A \in SUBSET S, NEW B \in SUBSET S,
         NEW g, Folds(f, A, g), NEW h, Folds(f, B, h)
  PROVE  \A T \in SUBSET (A \cap B) : g[T] = h[T]
<1> DEFINE Family == { T \in SUBSET (A \cap B) : g[T] # h[T] }
<1>1. SUFFICES ASSUME Family # {} PROVE FALSE
  OBVIOUS
<1>2. Family \in SUBSET (SUBSET S)
  OBVIOUS
<1>3. PICK T \in Family : \A U \in SUBSET T : U # T => U \notin Family
  <2> HIDE DEF Family
  <2> QED BY <1>1, <1>2, SmallestSet
<1>4. T # {}
  BY DEF Folds
<1>5. T \ {Part(T)} \notin Family /\ T \ {Part(T)} \in SUBSET (A \cap B)
  BY <1>3, <1>4, PartOf
<1>6. g[T \ {Part(T)}] = h[T \ {Part(T)}]
  BY <1>5
<1>7. g[T] = f[Part(T)] + g[T \ {Part(T)}] /\ h[T] = f[Part(T)] + h[T \ {Part(T)}]
  BY <1>4 DEF Folds
<1> QED BY <1>6, <1>7

\* Every finite set has a fold.
LEMMA FoldsExist ==
  ASSUME NEW S, IsFiniteSet(S), NEW f
  PROVE  \E g : Folds(f, S, g)
<1> DEFINE Family == { T \in SUBSET S : ~ \E g : Folds(f, T, g) }
<1>1. SUFFICES ASSUME Family # {} PROVE FALSE
  OBVIOUS
<1>2. PICK T \in Family : \A U \in SUBSET T : U # T => U \notin Family
  <2>1. Family \in SUBSET (SUBSET S)
    OBVIOUS
  <2> HIDE DEF Family
  <2> QED BY <1>1, <2>1, SmallestSet
<1>3. \A U \in SUBSET T : U # T => \E g : Folds(f, U, g)
  BY <1>2
<1> DEFINE Fold(U) == CHOOSE g : Folds(f, U, g)
           below(U) == IF U = {} THEN 0 ELSE f[Part(U)] + Fold(U \ {Part(U)})[U \ {Part(U)}]
           new == [ U \in SUBSET T |-> below(U) ]
<1>4. ASSUME NEW U \in SUBSET T, U # T PROVE Folds(f, U, Fold(U))
  BY <1>3, <1>4
<1>5. ASSUME NEW U \in SUBSET T, U # T, NEW W \in SUBSET U PROVE Fold(W)[W] = Fold(U)[W]
  <2>1. Folds(f, U, Fold(U)) /\ Folds(f, W, Fold(W))
    BY <1>4, <1>5
  <2>2. U \in SUBSET S /\ W \in SUBSET S
    BY <1>2, <1>5
  <2> HIDE DEF Fold
  <2>3. \A V \in SUBSET (W \cap U) : Fold(W)[V] = Fold(U)[V]
    BY <2>1, <2>2, FoldsAgree
  <2>4. W \in SUBSET (W \cap U)
    BY <1>5
  <2> QED BY <2>3, <2>4
<1> HIDE DEF Fold
<1>6. ASSUME NEW U \in SUBSET T, U # T PROVE below(U) = Fold(U)[U]
  <2>1. Folds(f, U, Fold(U))
    BY <1>4, <1>6
  <2>2. CASE U = {}
    BY <2>1, <2>2 DEF Folds
  <2>3. CASE U # {}
    <3>1. U \ {Part(U)} \in SUBSET U /\ U \in SUBSET U
      OBVIOUS
    <3>2. Fold(U \ {Part(U)})[U \ {Part(U)}] = Fold(U)[U \ {Part(U)}]
      BY <1>5, <1>6, <3>1
    <3>3. Fold(U)[U] = f[Part(U)] + Fold(U)[U \ {Part(U)}]
      BY <2>1, <2>3, <3>1 DEF Folds
    <3> QED BY <2>3, <3>2, <3>3
  <2> QED BY <2>2, <2>3
<1>7. Folds(f, T, new)
  <2>1. new = [ U \in SUBSET T |-> new[U] ] /\ T \in SUBSET T /\ new[{}] = 0
    OBVIOUS
  <2>2. ASSUME NEW U \in SUBSET T, U # {} PROVE new[U] = f[Part(U)] + new[U \ {Part(U)}]
    <3>1. U \ {Part(U)} \in SUBSET T /\ U \ {Part(U)} # T
      BY <2>2, PartOf
    <3>2. new[U \ {Part(U)}] = Fold(U \ {Part(U)})[U \ {Part(U)}]
      BY <1>6, <3>1
    <3> QED BY <2>2, <3>2
  <2> HIDE DEF new
  <2> QED BY <2>1, <2>2 DEF Folds
<1> QED BY <1>2, <1>7

\* The fold is the one the sum is defined by.
LEMMA PartsFold ==
  ASSUME NEW S, IsFiniteSet(S), NEW f
  PROVE  Folds(f, S, Parts(f, S))
<1> DEFINE next(g) == [ s \in SUBSET S |-> IF s = {} THEN 0
                                           ELSE f[Part(s)] + g[s \ {Part(s)}] ]
<1>1. PICK g : Folds(f, S, g)
  BY FoldsExist
<1>2. g = next(g)
  BY <1>1 DEF Folds
<1>3. Parts(f, S) = CHOOSE h : h = next(h)
  BY DEF Parts
<1>4. Parts(f, S) = next(Parts(f, S))
  <2> HIDE DEF next
  <2> QED BY <1>2, <1>3
<1> HIDE DEF next
<1>5. ASSUME NEW h, h = next(h) PROVE Folds(f, S, h)
  <2> USE DEF next
  <2>1. h = [ s \in SUBSET S |-> h[s] ] /\ S \in SUBSET S /\ h[{}] = 0
    BY <1>5
  <2>2. \A s \in SUBSET S : s # {} => h[s] = f[Part(s)] + h[s \ {Part(s)}]
    BY <1>5
  <2> QED BY <2>1, <2>2 DEF Folds
<1> QED BY <1>4, <1>5

LEMMA SumOfNothing == ASSUME NEW f PROVE SumFunctionOnSet(f, {}) = 0
BY Unfold, PartsFold, FS_EmptySet DEF Folds

LEMMA SumOfParts ==
  ASSUME NEW S, IsFiniteSet(S), S # {}, NEW f
  PROVE  SumFunctionOnSet(f, S) = f[Part(S)] + SumFunctionOnSet(f, S \ {Part(S)})
<1> DEFINE T == S \ {Part(S)}
<1>1. IsFiniteSet(T) /\ T \in SUBSET S /\ S \in SUBSET S
  BY FS_Subset
<1>2. Folds(f, S, Parts(f, S)) /\ Folds(f, T, Parts(f, T))
  BY <1>1, PartsFold
<1>3. Parts(f, S)[T] = Parts(f, T)[T]
  <2>1. \A U \in SUBSET (S \cap T) : Parts(f, S)[U] = Parts(f, T)[U]
    BY <1>1, <1>2, FoldsAgree
  <2> QED BY <2>1
<1>4. Parts(f, S)[S] = f[Part(S)] + Parts(f, S)[T]
  BY <1>1, <1>2 DEF Folds
<1> QED BY <1>3, <1>4, Unfold

\* What holds of the empty set, and of a set if it holds of the set without
\* some element, holds of every finite set.
LEMMA SetsReached ==
  ASSUME NEW S, IsFiniteSet(S), NEW Good \in SUBSET (SUBSET S), {} \in Good,
         \A T \in SUBSET S : T # {} /\ (\A U \in SUBSET T : U # T => U \in Good) => T \in Good
  PROVE  S \in Good
<1> DEFINE Family == (SUBSET S) \ Good
<1>1. SUFFICES ASSUME Family # {} PROVE FALSE
  OBVIOUS
<1>2. PICK T \in Family : \A U \in SUBSET T : U # T => U \notin Family
  <2>1. Family \in SUBSET (SUBSET S)
    OBVIOUS
  <2> HIDE DEF Family
  <2> QED BY <1>1, <2>1, SmallestSet
<1>3. T # {} /\ \A U \in SUBSET T : U # T => U \in Good
  BY <1>2
<1> QED BY <1>2, <1>3

LEMMA SumTypes ==
  ASSUME NEW S, IsFiniteSet(S), NEW f, \A x \in S : f[x] \in Int
  PROVE  /\ SumFunctionOnSet(f, S) \in Int
         /\ (\A x \in S : f[x] \in Nat) => SumFunctionOnSet(f, S) \in Nat
<1> DEFINE Good == { T \in SUBSET S :
                       /\ SumFunctionOnSet(f, T) \in Int
                       /\ (\A x \in S : f[x] \in Nat) => SumFunctionOnSet(f, T) \in Nat }
<1>1. {} \in Good
  BY SumOfNothing
<1>2. ASSUME NEW T \in SUBSET S, T # {}, \A U \in SUBSET T : U # T => U \in Good
      PROVE  T \in Good
  <2>1. Part(T) \in T /\ T \ {Part(T)} \in Good
    BY <1>2, PartOf
  <2>2. SumFunctionOnSet(f, T) = f[Part(T)] + SumFunctionOnSet(f, T \ {Part(T)})
    BY <1>2, SumOfParts, FS_Subset
  <2>3. f[Part(T)] \in Int
    BY <2>1
  <2> QED BY <2>1, <2>2, <2>3
<1>3. S \in Good
  <2>1. Good \in SUBSET (SUBSET S)
    OBVIOUS
  <2> HIDE DEF Good
  <2> QED BY <1>1, <1>2, <2>1, SetsReached
<1> QED BY <1>3

\* Which element goes first does not matter.
LEMMA SumSplits ==
  ASSUME NEW S, IsFiniteSet(S), NEW f, \A x \in S : f[x] \in Int, NEW a \in S
  PROVE  SumFunctionOnSet(f, S) = f[a] + SumFunctionOnSet(f, S \ {a})
<1> DEFINE Splits(T, x) == SumFunctionOnSet(f, T) = f[x] + SumFunctionOnSet(f, T \ {x})
           Good == { T \in SUBSET S : \A x \in T : Splits(T, x) }
<1>1. \A T \in SUBSET S : IsFiniteSet(T) /\ SumFunctionOnSet(f, T) \in Int
  BY FS_Subset, SumTypes
<1>2. ASSUME NEW T \in SUBSET S, T # {}, \A U \in SUBSET T : U # T => U \in Good
      PROVE  T \in Good
  <2> DEFINE r == Part(T)
  <2>1. r \in T /\ T \ {r} \in Good /\ Splits(T, r)
    BY <1>1, <1>2, PartOf, SumOfParts
  <2>2. ASSUME NEW x \in T, x # r PROVE Splits(T, x)
    <3>1. T \ {x} \in Good /\ r \in T \ {x} /\ x \in T \ {r}
      BY <1>2, <2>1, <2>2
    <3>2. Splits(T \ {x}, r) /\ Splits(T \ {r}, x)
      BY <2>1, <3>1
    <3>3. (T \ {x}) \ {r} = (T \ {r}) \ {x}
      OBVIOUS
    <3>4. PICK m, n, s : /\ m = f[r] /\ n = f[x]
                         /\ s = SumFunctionOnSet(f, (T \ {r}) \ {x})
      OBVIOUS
    <3>5. m \in Int /\ n \in Int /\ s \in Int
      BY <1>1, <2>1, <3>4
    <3>6. /\ SumFunctionOnSet(f, T) = m + (n + s)
          /\ SumFunctionOnSet(f, T \ {x}) = m + s
      BY <2>1, <3>2, <3>3, <3>4
    <3>7. m + (n + s) = n + (m + s)
      BY <3>5
    <3> QED BY <3>4, <3>6, <3>7
  <2> QED BY <2>1, <2>2
<1>3. S \in Good
  <2>1. Good \in SUBSET (SUBSET S) /\ {} \in Good
    OBVIOUS
  <2> HIDE DEF Good
  <2> QED BY <1>2, <2>1, SetsReached
<1> QED BY <1>3

\* Equal columns have equal sums.
LEMMA SumsEqual ==
  ASSUME NEW S, IsFiniteSet(S), NEW f, NEW g, \A x \in S : f[x] = g[x]
  PROVE  SumFunctionOnSet(f, S) = SumFunctionOnSet(g, S)
<1> DEFINE Good == { T \in SUBSET S : SumFunctionOnSet(f, T) = SumFunctionOnSet(g, T) }
<1>1. {} \in Good
  BY SumOfNothing
<1>2. ASSUME NEW T \in SUBSET S, T # {}, \A U \in SUBSET T : U # T => U \in Good
      PROVE  T \in Good
  <2>1. Part(T) \in T /\ T \ {Part(T)} \in Good /\ IsFiniteSet(T)
    BY <1>2, PartOf, FS_Subset
  <2>2. /\ SumFunctionOnSet(f, T) = f[Part(T)] + SumFunctionOnSet(f, T \ {Part(T)})
        /\ SumFunctionOnSet(g, T) = g[Part(T)] + SumFunctionOnSet(g, T \ {Part(T)})
    BY <1>2, <2>1, SumOfParts
  <2>3. f[Part(T)] = g[Part(T)]
    BY <2>1
  <2> QED BY <2>1, <2>2, <2>3
<1>3. S \in Good
  <2>1. Good \in SUBSET (SUBSET S)
    OBVIOUS
  <2> HIDE DEF Good
  <2> QED BY <1>1, <1>2, <2>1, SetsReached
<1> QED BY <1>3

\* One cell of a column changes.
LEMMA SumMoves ==
  ASSUME NEW S, IsFiniteSet(S), NEW f, NEW g, NEW a \in S,
         \A x \in S : f[x] \in Int /\ g[x] \in Int, \A x \in S \ {a} : f[x] = g[x]
  PROVE  SumFunctionOnSet(g, S) = (SumFunctionOnSet(f, S) - f[a]) + g[a]
<1>1. /\ SumFunctionOnSet(f, S) = f[a] + SumFunctionOnSet(f, S \ {a})
      /\ SumFunctionOnSet(g, S) = g[a] + SumFunctionOnSet(g, S \ {a})
  BY SumSplits
<1>2. IsFiniteSet(S \ {a})
  BY FS_Subset
<1>3. SumFunctionOnSet(f, S \ {a}) = SumFunctionOnSet(g, S \ {a})
  BY <1>2, SumsEqual
<1>4. SumFunctionOnSet(f, S \ {a}) \in Int
  BY <1>2, SumTypes
<1>5. f[a] \in Int /\ g[a] \in Int
  OBVIOUS
<1> QED BY <1>1, <1>3, <1>4, <1>5

\* A row more.
LEMMA SumGains ==
  ASSUME NEW S, IsFiniteSet(S), NEW T, NEW a \in T, S = T \ {a}, NEW f, NEW g,
         \A x \in S : f[x] \in Int, \A x \in S : g[x] = f[x], g[a] \in Int
  PROVE  SumFunctionOnSet(g, T) = SumFunctionOnSet(f, S) + g[a]
<1>1. IsFiniteSet(T)
  <2>1. T = S \cup {a}
    OBVIOUS
  <2> QED BY <2>1, FS_AddElement
<1>2. \A x \in T : g[x] \in Int
  OBVIOUS
<1>3. SumFunctionOnSet(g, T) = g[a] + SumFunctionOnSet(g, S)
  BY <1>1, <1>2, SumSplits
<1>4. SumFunctionOnSet(f, S) = SumFunctionOnSet(g, S) /\ SumFunctionOnSet(f, S) \in Int
  BY SumsEqual, SumTypes
<1> QED BY <1>3, <1>4

\* A row less; of a column of naturals, no row is more than the sum.
LEMMA SumLoses ==
  ASSUME NEW S, IsFiniteSet(S), NEW f, NEW g, NEW a \in S,
         \A x \in S : f[x] \in Nat, \A x \in S \ {a} : g[x] = f[x]
  PROVE  /\ SumFunctionOnSet(g, S \ {a}) = SumFunctionOnSet(f, S) - f[a]
         /\ f[a] <= SumFunctionOnSet(f, S) /\ SumFunctionOnSet(f, S) \in Nat
<1>1. IsFiniteSet(S \ {a})
  BY FS_Subset
<1>2. SumFunctionOnSet(g, S \ {a}) = SumFunctionOnSet(f, S \ {a})
  BY <1>1, SumsEqual
<1>3. SumFunctionOnSet(f, S) = f[a] + SumFunctionOnSet(f, S \ {a})
  BY SumSplits
<1>4. SumFunctionOnSet(f, S \ {a}) \in Nat /\ f[a] \in Nat
  BY <1>1, SumTypes
<1> QED BY <1>2, <1>3, <1>4

\* A column of zeros.
LEMMA SumOfZeros ==
  ASSUME NEW S, IsFiniteSet(S), NEW f, \A x \in S : f[x] = 0
  PROVE  SumFunctionOnSet(f, S) = 0
<1> DEFINE Good == { T \in SUBSET S : SumFunctionOnSet(f, T) = 0 }
<1>1. {} \in Good
  BY SumOfNothing
<1>2. ASSUME NEW T \in SUBSET S, T # {}, \A U \in SUBSET T : U # T => U \in Good
      PROVE  T \in Good
  <2>1. Part(T) \in T /\ T \ {Part(T)} \in Good /\ IsFiniteSet(T)
    BY <1>2, PartOf, FS_Subset
  <2>2. SumFunctionOnSet(f, T) = f[Part(T)] + SumFunctionOnSet(f, T \ {Part(T)})
    BY <1>2, <2>1, SumOfParts
  <2>3. f[Part(T)] = 0
    BY <2>1
  <2> QED BY <2>1, <2>2, <2>3
<1>3. S \in Good
  <2>1. Good \in SUBSET (SUBSET S)
    OBVIOUS
  <2> HIDE DEF Good
  <2> QED BY <1>1, <1>2, <2>1, SetsReached
<1> QED BY <1>3

\* The sum over all rows is the sum over their owners.
LEMMA SumByOwner ==
  ASSUME NEW R, IsFiniteSet(R), NEW Q, IsFiniteSet(Q), NEW f, \A x \in R : f[x] \in Int,
         NEW own \in [R -> Q]
  PROVE  SumFunctionOnSet(f, R)
           = SumFunctionOnSet([ q \in Q |-> SumFunctionOnSet(f, { x \in R : own[x] = q }) ], Q)
<1> DEFINE Of(T, q) == { x \in T : own[x] = q }
           by(T) == [ q \in Q |-> SumFunctionOnSet(f, Of(T, q)) ]
           Good == { T \in SUBSET R : SumFunctionOnSet(f, T) = SumFunctionOnSet(by(T), Q) }
<1>1. \A T \in SUBSET R : IsFiniteSet(T) /\ SumFunctionOnSet(f, T) \in Int
  BY FS_Subset, SumTypes
<1>2. {} \in Good
  <2>1. \A q \in Q : by({})[q] = 0
    <3>1. \A q \in Q : Of({}, q) = {}
      OBVIOUS
    <3> QED BY <3>1, SumOfNothing
  <2> HIDE DEF by
  <2> QED BY <2>1, SumOfZeros, SumOfNothing
<1>3. ASSUME NEW T \in SUBSET R, T # {}, \A U \in SUBSET T : U # T => U \in Good
      PROVE  T \in Good
  <2>1. PICK a : a \in T
    BY <1>3
  <2>2. T \ {a} \in Good
    BY <1>3, <2>1
  <2>3. own[a] \in Q
    BY <2>1
  <2>4. \A q \in Q : by(T)[q] \in Int /\ by(T \ {a})[q] \in Int
    BY <1>1
  <2>5. \A q \in Q \ {own[a]} : by(T \ {a})[q] = by(T)[q]
    <3>1. \A q \in Q \ {own[a]} : Of(T \ {a}, q) = Of(T, q)
      OBVIOUS
    <3> QED BY <3>1
  <2>6. by(T)[own[a]] = f[a] + by(T \ {a})[own[a]]
    <3>1. Of(T, own[a]) \ {a} = Of(T \ {a}, own[a]) /\ a \in Of(T, own[a])
      BY <2>1
    <3>2. IsFiniteSet(Of(T, own[a])) /\ \A x \in Of(T, own[a]) : f[x] \in Int
      BY <1>1
    <3>3. SumFunctionOnSet(f, Of(T, own[a])) = f[a] + SumFunctionOnSet(f, Of(T, own[a]) \ {a})
      BY <3>1, <3>2, SumSplits
    <3> QED BY <2>3, <3>1, <3>3
  <2>7. SumFunctionOnSet(by(T), Q)
          = (SumFunctionOnSet(by(T \ {a}), Q) - by(T \ {a})[own[a]]) + by(T)[own[a]]
    <3>1. PICK g, h, b : g = by(T) /\ h = by(T \ {a}) /\ b = own[a]
      OBVIOUS
    <3>2. b \in Q
      BY <2>3, <3>1
    <3>3. \A q \in Q : h[q] \in Int /\ g[q] \in Int
      BY <2>4, <3>1
    <3>4. \A q \in Q \ {b} : h[q] = g[q]
      BY <2>5, <3>1
    <3>5. SumFunctionOnSet(g, Q) = (SumFunctionOnSet(h, Q) - h[b]) + g[b]
      BY ONLY <3>2, <3>3, <3>4, IsFiniteSet(Q), SumMoves
    <3> QED BY <3>1, <3>5
  <2>8. SumFunctionOnSet(f, T) = f[a] + SumFunctionOnSet(f, T \ {a})
    BY <1>1, <2>1, SumSplits
  <2>9. SumFunctionOnSet(f, T \ {a}) = SumFunctionOnSet(by(T \ {a}), Q)
    BY <2>2
  <2>10. PICK m, n, s : /\ m = f[a] /\ n = by(T \ {a})[own[a]]
                        /\ s = SumFunctionOnSet(f, T \ {a})
    OBVIOUS
  <2>11. m \in Int /\ n \in Int /\ s \in Int
    BY <1>1, <2>1, <2>3, <2>4, <2>10
  <2>12. (s - n) + (m + n) = m + s
    BY <2>11
  <2>13. SumFunctionOnSet(f, T) = SumFunctionOnSet(by(T), Q)
    <3> HIDE DEF by
    <3> QED BY <2>6, <2>7, <2>8, <2>9, <2>10, <2>12
  <2> QED BY <2>13
<1>4. R \in Good
  <2>1. Good \in SUBSET (SUBSET R)
    OBVIOUS
  <2> HIDE DEF Good
  <2> QED BY <1>2, <1>3, <2>1, SetsReached
<1> QED BY <1>4

\* Two sets that have nothing in common.
LEMMA SumOfUnion ==
  ASSUME NEW S, IsFiniteSet(S), NEW T, IsFiniteSet(T), S \cap T = {},
         NEW f, \A x \in S \cup T : f[x] \in Int
  PROVE  SumFunctionOnSet(f, S \cup T) = SumFunctionOnSet(f, S) + SumFunctionOnSet(f, T)
<1> DEFINE Adds(U) == SumFunctionOnSet(f, S \cup U) = SumFunctionOnSet(f, S) + SumFunctionOnSet(f, U)
           Good == { U \in SUBSET T : Adds(U) }
<1>1. \A U \in SUBSET T : /\ IsFiniteSet(U) /\ IsFiniteSet(S \cup U)
                          /\ SumFunctionOnSet(f, U) \in Int /\ SumFunctionOnSet(f, S) \in Int
  <2> SUFFICES ASSUME NEW U \in SUBSET T
               PROVE  /\ IsFiniteSet(U) /\ IsFiniteSet(S \cup U)
                      /\ SumFunctionOnSet(f, U) \in Int /\ SumFunctionOnSet(f, S) \in Int
    OBVIOUS
  <2>1. IsFiniteSet(U)
    BY FS_Subset
  <2>2. IsFiniteSet(S \cup U)
    BY <2>1, FS_Union
  <2>3. (\A x \in U : f[x] \in Int) /\ (\A x \in S : f[x] \in Int)
    OBVIOUS
  <2> QED BY <2>1, <2>2, <2>3, SumTypes
<1>2. {} \in Good
  <2>1. S \cup {} = S /\ SumFunctionOnSet(f, {}) = 0 /\ SumFunctionOnSet(f, S) \in Int
    BY <1>1, SumOfNothing
  <2> QED BY <2>1
<1>3. ASSUME NEW U \in SUBSET T, U # {}, \A V \in SUBSET U : V # U => V \in Good
      PROVE  U \in Good
  <2>1. PICK a : a \in U
    BY <1>3
  <2>2. U \ {a} \in Good
    BY <1>3, <2>1
  <2>3. (S \cup U) \ {a} = S \cup (U \ {a})
    BY <2>1
  <2>4. \A x \in S \cup U : f[x] \in Int
    OBVIOUS
  <2>5. SumFunctionOnSet(f, S \cup U) = f[a] + SumFunctionOnSet(f, (S \cup U) \ {a})
    BY <1>1, <2>1, <2>4, SumSplits
  <2>6. SumFunctionOnSet(f, U) = f[a] + SumFunctionOnSet(f, U \ {a})
    BY <1>1, <2>1, <2>4, SumSplits
  <2>7. PICK n, s, t : /\ n = f[a] /\ s = SumFunctionOnSet(f, S)
                       /\ t = SumFunctionOnSet(f, U \ {a})
    OBVIOUS
  <2>8. n \in Int /\ s \in Int /\ t \in Int
    BY <1>1, <2>1, <2>4, <2>7
  <2>9. n + (s + t) = s + (n + t)
    BY <2>8
  <2> QED BY <2>2, <2>3, <2>5, <2>6, <2>7, <2>9
<1>4. T \in Good
  <2>1. Good \in SUBSET (SUBSET T)
    OBVIOUS
  <2> HIDE DEF Good
  <2> QED BY <1>2, <1>3, <2>1, SetsReached
<1> QED BY <1>4

\* A column and its negative.
LEMMA SumNegates ==
  ASSUME NEW S, IsFiniteSet(S), NEW f, NEW g, \A x \in S : f[x] \in Int /\ g[x] = -f[x]
  PROVE  SumFunctionOnSet(g, S) = -SumFunctionOnSet(f, S)
<1> DEFINE Good == { T \in SUBSET S : SumFunctionOnSet(g, T) = -SumFunctionOnSet(f, T) }
<1>1. \A T \in SUBSET S : IsFiniteSet(T) /\ SumFunctionOnSet(f, T) \in Int
  BY FS_Subset, SumTypes
<1>2. {} \in Good
  BY SumOfNothing
<1>3. ASSUME NEW T \in SUBSET S, T # {}, \A U \in SUBSET T : U # T => U \in Good
      PROVE  T \in Good
  <2>1. Part(T) \in T /\ T \ {Part(T)} \in Good
    BY <1>3, PartOf
  <2>2. /\ SumFunctionOnSet(f, T) = f[Part(T)] + SumFunctionOnSet(f, T \ {Part(T)})
        /\ SumFunctionOnSet(g, T) = g[Part(T)] + SumFunctionOnSet(g, T \ {Part(T)})
    BY <1>1, <1>3, SumOfParts
  <2>3. PICK n, s : n = f[Part(T)] /\ s = SumFunctionOnSet(f, T \ {Part(T)})
    OBVIOUS
  <2>4. n \in Int /\ s \in Int /\ g[Part(T)] = -n
    BY <1>1, <2>1, <2>3
  <2>5. SumFunctionOnSet(g, T \ {Part(T)}) = -s
    BY <2>1, <2>3
  <2>6. (-n) + (-s) = -(n + s)
    BY <2>4
  <2> QED BY <2>2, <2>3, <2>4, <2>5, <2>6
<1>4. S \in Good
  <2>1. Good \in SUBSET (SUBSET S)
    OBVIOUS
  <2> HIDE DEF Good
  <2> QED BY <1>2, <1>3, <2>1, SetsReached
<1> QED BY <1>4

\* Two columns whose rows match one to one.
LEMMA SumsMatch ==
  ASSUME NEW S, IsFiniteSet(S), NEW T, IsFiniteSet(T), NEW h \in [S -> T],
         \A x, y \in S : h[x] = h[y] => x = y, \A q \in T : \E x \in S : h[x] = q,
         NEW f, NEW g, \A x \in S : f[x] \in Int /\ f[x] = g[h[x]]
  PROVE  SumFunctionOnSet(f, S) = SumFunctionOnSet(g, T)
<1> DEFINE by == [ q \in T |-> SumFunctionOnSet(f, { x \in S : h[x] = q }) ]
<1>1. SumFunctionOnSet(f, S) = SumFunctionOnSet(by, T)
  BY SumByOwner
<1>2. ASSUME NEW q \in T PROVE by[q] = g[q]
  <2>1. PICK x \in S : h[x] = q
    OBVIOUS
  <2>2. { y \in S : h[y] = q } = {x}
    BY <2>1
  <2>3. IsFiniteSet({x}) /\ {x} \ {x} = {}
    BY FS_Singleton
  <2>4. \A y \in {x} : f[y] \in Int
    OBVIOUS
  <2>5. SumFunctionOnSet(f, {x}) = f[x] + SumFunctionOnSet(f, {x} \ {x})
    BY <2>3, <2>4, SumSplits
  <2>6. SumFunctionOnSet(f, {x}) = f[x] + 0
    BY <2>3, <2>5, SumOfNothing
  <2>7. SumFunctionOnSet(f, {x}) = f[x]
    BY <2>4, <2>6
  <2> QED BY <2>1, <2>2, <2>7
<1>3. SumFunctionOnSet(by, T) = SumFunctionOnSet(g, T)
  <2> HIDE DEF by
  <2> QED BY <1>2, SumsEqual
<1> QED BY <1>1, <1>3

\* Finitely many numbers have a greatest, and some least.
LEMMA FiniteHasMax ==
  ASSUME NEW S \in SUBSET Int, IsFiniteSet(S), S # {}
  PROVE  \E x \in S : \A y \in S : y <= x
<1> DEFINE Tops(T) == T = {} \/ \E x \in T : \A y \in T : y <= x
           Good == { T \in SUBSET S : Tops(T) }
<1>1. ASSUME NEW T \in SUBSET S, T # {}, \A U \in SUBSET T : U # T => U \in Good
      PROVE  T \in Good
  <2>1. PICK a : a \in T
    BY <1>1
  <2>2. Tops(T \ {a})
    <3>1. T \ {a} \in SUBSET T /\ T \ {a} # T
      BY <2>1
    <3>2. T \ {a} \in Good
      BY <1>1, <3>1
    <3> QED BY <3>2
  <2>3. CASE T \ {a} = {}
    BY <2>1, <2>3
  <2>4. CASE T \ {a} # {}
    <3>1. PICK x \in T \ {a} : \A y \in T \ {a} : y <= x
      BY <2>2, <2>4
    <3>2. x \in Int /\ a \in Int /\ \A y \in T : y \in Int
      BY <2>1, <3>1
    <3>3. CASE a <= x
      BY <3>1, <3>2, <3>3
    <3>4. CASE x <= a
      BY <2>1, <3>1, <3>2, <3>4
    <3> QED BY <3>2, <3>3, <3>4
  <2> QED BY <2>3, <2>4
<1>2. S \in Good
  <2>1. Good \in SUBSET (SUBSET S) /\ {} \in Good
    OBVIOUS
  <2> HIDE DEF Good
  <2> QED BY <1>1, <2>1, SetsReached
<1> QED BY <1>2

LEMMA FiniteHasMin ==
  ASSUME NEW S \in SUBSET Int, IsFiniteSet(S), S # {}
  PROVE  \E x \in S : \A y \in S : x <= y
<1> DEFINE N == { -x : x \in S }
           minus == [ x \in S |-> -x ]
<1>1. minus \in Surjection(S, N)
  BY DEF Surjection
<1>2. N \in SUBSET Int /\ IsFiniteSet(N) /\ N # {}
  <2>1. N \in SUBSET Int /\ N # {}
    <3>1. PICK x : x \in S
      OBVIOUS
    <3>2. -x \in N
      BY <3>1
    <3>3. \A y \in S : -y \in Int
      OBVIOUS
    <3> QED BY <3>2, <3>3
  <2>2. IsFiniteSet(N)
    <3> HIDE DEF N, minus
    <3> QED BY <1>1, FS_Surjection
  <2> QED BY <2>1, <2>2
<1>3. PICK m \in N : \A n \in N : n <= m
  <2> HIDE DEF N
  <2> QED BY <1>2, FiniteHasMax
<1>4. PICK x \in S : m = -x
  BY <1>3
<1>5. ASSUME NEW y \in S PROVE x <= y
  <2>1. -y \in N /\ -y <= -x /\ x \in Int /\ y \in Int
    BY <1>3, <1>4
  <2> QED BY <2>1
<1> QED BY <1>5
==============================================================================
