------------------------- MODULE LoanHistory_proofs -------------------------
(***************************************************************************)
(* What the payment history of a loan says about its row, for every        *)
(* principal, rate, calendar, amount and number of payments.  The argument *)
(* is about the book's steps: LoanServicing_proofs shows that a step of    *)
(* LoanServicing is one of these or changes nothing.                       *)
(***************************************************************************)
EXTENDS LoanServicing_proofs

---------------------------------------------------------------------------
(* Sums.  SumFunction of the community modules is a fold, a recursive      *)
(* function on the subsets of the set summed over.  Induction over finite  *)
(* sets is done with MinimalSubset: among the subsets for which a claim    *)
(* fails there is one all of whose subsets satisfy it.                     *)

\* it solves the equation of a fold that adds the values of f on S.
IsFold(it, f, S) ==
  it = [s \in SUBSET S |->
          IF s = {} THEN 0
          ELSE f[CHOOSE x \in s : TRUE] + it[s \ {CHOOSE x \in s : TRUE}]]

\* SumFunctionOnSet is a fold of this equation.
LEMMA SumChooses == ASSUME NEW f, NEW S
  PROVE SumFunctionOnSet(f, S) = (CHOOSE it : IsFold(it, f, S))[S]
BY DEF SumFunctionOnSet, FoldFunctionOnSet, MapThenFoldSet, IsFold

\* Every non-empty family of subsets of a finite set has a minimal member.
LEMMA MinimalSubset ==
  ASSUME NEW S, IsFiniteSet(S), NEW B \in SUBSET (SUBSET S), B # {}
  PROVE  \E T \in B : \A U \in B : U \subseteq T => U = T
<1>1. IsWellFoundedOn(StrictSubsetOrdering(S), SUBSET S)
  BY FS_StrictSubsetOrderingWellFounded, FS_FiniteSubsetsOfFinite
<1>2. PICK T \in B : \A U \in B : ~ (<<U, T>> \in StrictSubsetOrdering(S))
  BY <1>1, WFMin
<1>3. \A U \in B : U \subseteq T /\ U # T => <<U, T>> \in StrictSubsetOrdering(S)
  BY DEF StrictSubsetOrdering
<1>4. \A U \in B : U \subseteq T => U = T
  BY <1>2, <1>3
<1> QED
  BY <1>4

\* Two solutions of the fold's equation agree.
LEMMA FoldUnique ==
  ASSUME NEW S, IsFiniteSet(S), NEW g, NEW h, NEW f, IsFold(g, f, S), IsFold(h, f, S)
  PROVE  g = h
<1> DEFINE B == {T \in SUBSET S : g[T] # h[T]}
<1>1. /\ DOMAIN g = SUBSET S /\ DOMAIN h = SUBSET S
      /\ \A T \in SUBSET S :
           /\ T = {} => g[T] = 0 /\ h[T] = 0
           /\ T # {} => /\ g[T] = f[CHOOSE x \in T : TRUE] + g[T \ {CHOOSE x \in T : TRUE}]
                       /\ h[T] = f[CHOOSE x \in T : TRUE] + h[T \ {CHOOSE x \in T : TRUE}]
  BY DEF IsFold
<1>2. B = {}
  <2> SUFFICES ASSUME B # {} PROVE FALSE
    OBVIOUS
  <2>0. B \in SUBSET (SUBSET S)
    OBVIOUS
  <2>1. PICK T \in B : \A U \in B : U \subseteq T => U = T
    <3> HIDE DEF B
    <3> QED
      BY <2>0, MinimalSubset
  <2>2. T \in SUBSET S /\ g[T] # h[T] /\ T # {}
    BY <1>1
  <2> DEFINE c == CHOOSE x \in T : TRUE
  <2>3. c \in T
    BY <2>2
  <2>4. T \ {c} \in SUBSET S /\ T \ {c} \subseteq T /\ T \ {c} # T
    BY <2>2, <2>3
  <2>5. g[T \ {c}] = h[T \ {c}]
    BY <2>1, <2>4
  <2> QED
    BY <1>1, <2>2, <2>5
<1>3. \A T \in SUBSET S : g[T] = h[T]
  BY <1>2
<1>4. g = [T \in SUBSET S |-> g[T]] /\ h = [T \in SUBSET S |-> h[T]]
  BY DEF IsFold
<1> QED
  BY <1>3, <1>4

\* A solution solves the equation on every subset.
LEMMA FoldRestricts ==
  ASSUME NEW S, NEW f, NEW it, IsFold(it, f, S), NEW W \in SUBSET S
  PROVE  IsFold([s \in SUBSET W |-> it[s]], f, W)
<1> DEFINE g == [s \in SUBSET W |-> it[s]]
<1>1. \A s \in SUBSET W : s \in SUBSET S
  OBVIOUS
<1>2. \A s \in SUBSET S :
        it[s] = IF s = {} THEN 0
                ELSE f[CHOOSE x \in s : TRUE] + it[s \ {CHOOSE x \in s : TRUE}]
  BY DEF IsFold
<1>3. \A s \in SUBSET W : s \ {CHOOSE x \in s : TRUE} \in SUBSET W
  OBVIOUS
<1>4. \A s \in SUBSET W : g[s] = it[s]
  OBVIOUS
<1>5. \A s \in SUBSET W :
        g[s] = IF s = {} THEN 0
               ELSE f[CHOOSE x \in s : TRUE] + g[s \ {CHOOSE x \in s : TRUE}]
  BY <1>1, <1>2, <1>3, <1>4
<1>6. g = [s \in SUBSET W |-> g[s]]
  OBVIOUS
<1>7. IsFold(g, f, W)
  <2> HIDE DEF g
  <2> QED
    BY <1>5, <1>6 DEF IsFold
<1> QED
  BY <1>7

\* The fold's equation has a solution.
LEMMA FoldExists ==
  ASSUME NEW S, IsFiniteSet(S), NEW f
  PROVE  \E it : IsFold(it, f, S)
<1> DEFINE B == {T \in SUBSET S : ~ \E it : IsFold(it, f, T)}
           F(T) == CHOOSE it : IsFold(it, f, T)
           V(T) == F(T)[T]
           c(T) == CHOOSE x \in T : TRUE
<1>1. ASSUME B # {} PROVE FALSE
  <2>0. B \in SUBSET (SUBSET S)
    OBVIOUS
  <2>1. PICK T \in B : \A U \in B : U \subseteq T => U = T
    <3> HIDE DEF B
    <3> QED
      BY <1>1, <2>0, MinimalSubset
  <2>2. T \in SUBSET S /\ ~ \E it : IsFold(it, f, T)
    OBVIOUS
  <2>3. \A U \in SUBSET T : U # T => \E it : IsFold(it, f, U)
    BY <2>1, <2>2
  <2>4. \A U \in SUBSET T : U # T => IsFold(F(U), f, U)
    BY <2>3
  <2> HIDE DEF F
  <2>5. ASSUME NEW U \in SUBSET T, U # T, U # {}
        PROVE  V(U) = f[c(U)] + V(U \ {c(U)})
    <3> DEFINE W == U \ {c(U)}
    <3>1. c(U) \in U
      BY <2>5
    <3>2. W \in SUBSET U /\ W \in SUBSET T /\ W # T /\ U \in SUBSET U
      BY <2>5, <3>1
    <3>3. F(U)[U] = f[c(U)] + F(U)[W]
      BY <2>4, <2>5 DEF IsFold
    <3> HIDE DEF W
    <3> DEFINE g == [s \in SUBSET W |-> F(U)[s]]
    <3>4. IsFold(g, f, W)
      BY <2>4, <2>5, <3>2, FoldRestricts
    <3>5. IsFiniteSet(W)
      BY <2>2, <3>2, FS_Subset
    <3>6. g = F(W)
      BY <2>4, <3>2, <3>4, <3>5, FoldUnique
    <3>7. F(U)[W] = F(W)[W]
      <4>1. g[W] = F(U)[W]
        OBVIOUS
      <4> HIDE DEF g
      <4> QED
        BY <3>6, <4>1
    <3> QED
      BY <3>3, <3>7 DEF W
  <2>6. ~ {} = T => V({}) = 0
    <3>1. ASSUME {} # T PROVE F({})[{}] = 0
      <4>1. IsFold(F({}), f, {})
        BY <2>4, <3>1
      <4> QED
        BY <4>1 DEF IsFold
    <3> QED
      BY <3>1
  <2> HIDE DEF V
  <2> DEFINE it == [s \in SUBSET T |-> IF s = {} THEN 0 ELSE f[c(s)] + V(s \ {c(s)})]
  <2>7. ASSUME NEW s \in SUBSET T, s # {}
        PROVE  it[s \ {c(s)}] = V(s \ {c(s)})
    <3> DEFINE u == s \ {c(s)}
    <3>1. c(s) \in s
      BY <2>7
    <3>2. u \in SUBSET T /\ u # T
      BY <2>7, <3>1
    <3> HIDE DEF u
    <3>3. it[u] = IF u = {} THEN 0 ELSE f[c(u)] + V(u \ {c(u)})
      BY <3>2
    <3>4. u = {} => V(u) = 0
      BY <2>6, <3>2
    <3>5. u # {} => V(u) = f[c(u)] + V(u \ {c(u)})
      BY <2>5, <3>2
    <3> HIDE DEF it
    <3>6. it[u] = V(u)
      BY <3>3, <3>4, <3>5
    <3> QED
      BY <3>6 DEF u
  <2>8. \A s \in SUBSET T : it[s] = IF s = {} THEN 0 ELSE f[c(s)] + it[s \ {c(s)}]
    <3>1. \A s \in SUBSET T : it[s] = IF s = {} THEN 0 ELSE f[c(s)] + V(s \ {c(s)})
      OBVIOUS
    <3> HIDE DEF it, c
    <3> QED
      BY <2>7, <3>1
  <2>9. it = [s \in SUBSET T |-> it[s]]
    OBVIOUS
  <2> HIDE DEF it
  <2>10. IsFold(it, f, T)
    BY <2>8, <2>9 DEF IsFold
  <2> QED
    BY <2>2, <2>10
<1> QED
  BY <1>1

\* The sum's defining equation, at every subset of a finite set.
LEMMA SumEquation ==
  ASSUME NEW S, IsFiniteSet(S), NEW f
  PROVE  /\ S = {} => SumFunctionOnSet(f, S) = 0
         /\ S # {} => SumFunctionOnSet(f, S)
                        = f[CHOOSE x \in S : TRUE]
                            + SumFunctionOnSet(f, S \ {CHOOSE x \in S : TRUE})
<1> DEFINE it == CHOOSE i : IsFold(i, f, S)
           c == CHOOSE x \in S : TRUE
           W == S \ {c}
           iw == CHOOSE i : IsFold(i, f, W)
<1>1. SumFunctionOnSet(f, S) = it[S] /\ SumFunctionOnSet(f, W) = iw[W]
  BY SumChooses
<1>2. IsFiniteSet(W)
  BY FS_RemoveElement
<1>3. IsFold(it, f, S)
  BY FoldExists
<1>4. IsFold(iw, f, W)
  BY <1>2, FoldExists
<1> HIDE DEF it, iw
<1>5. CASE S = {}
  BY <1>1, <1>3, <1>5 DEF IsFold
<1>6. CASE S # {}
  <2>1. it[S] = f[c] + it[W]
    BY <1>3, <1>6 DEF IsFold
  <2>2. W \in SUBSET S
    OBVIOUS
  <2> HIDE DEF c, W
  <2> DEFINE g == [s \in SUBSET W |-> it[s]]
  <2>3. IsFold(g, f, W)
    BY <1>3, <2>2, FoldRestricts
  <2>4. g = iw
    BY <1>2, <1>4, <2>3, FoldUnique
  <2>5. g[W] = it[W]
    OBVIOUS
  <2> HIDE DEF g
  <2>6. SumFunctionOnSet(f, S) = f[c] + SumFunctionOnSet(f, W)
    BY <1>1, <2>1, <2>4, <2>5
  <2> QED
    BY <1>6, <2>6 DEF W, c
<1> QED
  BY <1>5, <1>6

\* A sum of whole numbers is one.
LEMMA SumInt ==
  ASSUME NEW S, IsFiniteSet(S), NEW f, \A x \in S : f[x] \in Int
  PROVE  SumFunctionOnSet(f, S) \in Int
<1> DEFINE B == {T \in SUBSET S : SumFunctionOnSet(f, T) \notin Int}
<1>1. B \in SUBSET (SUBSET S)
  OBVIOUS
<1>2. ASSUME B # {} PROVE FALSE
  <2>1. PICK T \in B : \A U \in B : U \subseteq T => U = T
    <3> HIDE DEF B
    <3> QED
      BY <1>1, <1>2, MinimalSubset
  <2>2. IsFiniteSet(T) /\ T \subseteq S
    BY FS_Subset
  <2> DEFINE c == CHOOSE x \in T : TRUE
  <2>3. T # {}
    BY <2>2, SumEquation
  <2>4. c \in T /\ T \ {c} \in SUBSET S /\ T \ {c} # T
    BY <2>2, <2>3
  <2>5. SumFunctionOnSet(f, T \ {c}) \in Int
    BY <2>1, <2>4
  <2>6. f[c] \in Int
    BY <2>2, <2>4
  <2>7. SumFunctionOnSet(f, T) = f[c] + SumFunctionOnSet(f, T \ {c})
    BY <2>2, <2>3, SumEquation
  <2>8. SumFunctionOnSet(f, T) \notin Int
    OBVIOUS
  <2> HIDE DEF c, B
  <2> QED
    BY <2>5, <2>6, <2>7, <2>8
<1> QED
  BY <1>2

\* A sum can be taken in any order.
LEMMA SumRemove ==
  ASSUME NEW S, IsFiniteSet(S), NEW f, \A x \in S : f[x] \in Int, NEW x \in S
  PROVE  SumFunctionOnSet(f, S) = f[x] + SumFunctionOnSet(f, S \ {x})
<1> DEFINE Splits(T) == \A y \in T : SumFunctionOnSet(f, T)
                                        = f[y] + SumFunctionOnSet(f, T \ {y})
           B == {T \in SUBSET S : ~Splits(T)}
<1>1. B \in SUBSET (SUBSET S)
  OBVIOUS
<1>2. ASSUME B # {} PROVE FALSE
  <2>1. PICK T \in B : \A U \in B : U \subseteq T => U = T
    <3> HIDE DEF B
    <3> QED
      BY <1>1, <1>2, MinimalSubset
  <2>2. PICK y \in T : SumFunctionOnSet(f, T) # f[y] + SumFunctionOnSet(f, T \ {y})
    OBVIOUS
  <2> DEFINE c == CHOOSE z \in T : TRUE
             R == T \ {c, y}
  <2>3. T \subseteq S /\ IsFiniteSet(T) /\ c \in T
    BY <2>2, FS_Subset
  <2>4. SumFunctionOnSet(f, T) = f[c] + SumFunctionOnSet(f, T \ {c})
    BY <2>2, <2>3, SumEquation
  <2> HIDE DEF c
  <2>5. c # y
    BY <2>2, <2>4
  <2>6. /\ T \ {c} \in SUBSET S /\ T \ {c} \subseteq T /\ T \ {c} # T
        /\ T \ {y} \in SUBSET S /\ T \ {y} \subseteq T /\ T \ {y} # T
        /\ y \in T \ {c} /\ c \in T \ {y}
        /\ (T \ {c}) \ {y} = R /\ (T \ {y}) \ {c} = R
    BY <2>2, <2>3, <2>5
  <2>7. Splits(T \ {c}) /\ Splits(T \ {y})
    BY <2>1, <2>6
  <2>8. /\ SumFunctionOnSet(f, T \ {c}) = f[y] + SumFunctionOnSet(f, R)
        /\ SumFunctionOnSet(f, T \ {y}) = f[c] + SumFunctionOnSet(f, R)
    BY <2>6, <2>7
  <2>9. IsFiniteSet(R) /\ R \subseteq S
    BY <2>3, FS_Subset
  <2> HIDE DEF R, B
  <2>10. SumFunctionOnSet(f, R) \in Int
    BY <2>9, SumInt
  <2>11. f[c] \in Int /\ f[y] \in Int
    BY <2>2, <2>3
  <2> QED
    BY <2>2, <2>4, <2>8, <2>10, <2>11
<1> HIDE DEF Splits
<1>3. Splits(S)
  BY <1>2
<1> QED
  BY <1>3 DEF Splits

\* A sum depends on the values summed only.
LEMMA SumSame ==
  ASSUME NEW S, IsFiniteSet(S), NEW f, NEW g, \A x \in S : f[x] = g[x]
  PROVE  SumFunctionOnSet(f, S) = SumFunctionOnSet(g, S)
<1> DEFINE B == {T \in SUBSET S : SumFunctionOnSet(f, T) # SumFunctionOnSet(g, T)}
<1>1. B \in SUBSET (SUBSET S)
  OBVIOUS
<1>2. ASSUME B # {} PROVE FALSE
  <2>1. PICK T \in B : \A U \in B : U \subseteq T => U = T
    <3> HIDE DEF B
    <3> QED
      BY <1>1, <1>2, MinimalSubset
  <2>2. IsFiniteSet(T) /\ T \subseteq S
    BY FS_Subset
  <2> DEFINE c == CHOOSE x \in T : TRUE
  <2>3. T # {}
    <3>1. SumFunctionOnSet(f, T) # SumFunctionOnSet(g, T)
      OBVIOUS
    <3> QED
      BY <2>2, <3>1, SumEquation
  <2>4. c \in T /\ T \ {c} \in SUBSET S /\ T \ {c} # T
    BY <2>2, <2>3
  <2>5. SumFunctionOnSet(f, T \ {c}) = SumFunctionOnSet(g, T \ {c})
    BY <2>1, <2>4
  <2>6. f[c] = g[c]
    BY <2>2, <2>4
  <2>7. /\ SumFunctionOnSet(f, T) = f[c] + SumFunctionOnSet(f, T \ {c})
        /\ SumFunctionOnSet(g, T) = g[c] + SumFunctionOnSet(g, T \ {c})
    BY <2>2, <2>3, SumEquation
  <2>8. SumFunctionOnSet(f, T) # SumFunctionOnSet(g, T)
    OBVIOUS
  <2> HIDE DEF c, B
  <2> QED
    BY <2>5, <2>6, <2>7, <2>8
<1> QED
  BY <1>2

\* The sum of the sums is the sum of what both add up to.
LEMMA SumPlus ==
  ASSUME NEW S, IsFiniteSet(S), NEW f, NEW g, NEW h,
         \A x \in S : f[x] \in Int /\ g[x] \in Int /\ h[x] = f[x] + g[x]
  PROVE  SumFunctionOnSet(h, S) = SumFunctionOnSet(f, S) + SumFunctionOnSet(g, S)
<1> DEFINE Adds(T) == SumFunctionOnSet(h, T)
                        = SumFunctionOnSet(f, T) + SumFunctionOnSet(g, T)
           B == {T \in SUBSET S : ~Adds(T)}
<1>1. B \in SUBSET (SUBSET S)
  OBVIOUS
<1>2. ASSUME B # {} PROVE FALSE
  <2>1. PICK T \in B : \A U \in B : U \subseteq T => U = T
    <3> HIDE DEF B
    <3> QED
      BY <1>1, <1>2, MinimalSubset
  <2>2. IsFiniteSet(T) /\ T \subseteq S /\ ~Adds(T)
    BY FS_Subset
  <2>3. T # {}
    <3>1. SumFunctionOnSet(h, {}) = 0 /\ SumFunctionOnSet(f, {}) = 0
          /\ SumFunctionOnSet(g, {}) = 0
      BY FS_EmptySet, SumEquation
    <3> QED
      BY <2>2, <3>1
  <2> DEFINE c == CHOOSE x \in T : TRUE
             W == T \ {c}
  <2>4. c \in T /\ W \in SUBSET S /\ W # T /\ W \subseteq T
    BY <2>2, <2>3
  <2>5. Adds(W)
    BY <2>1, <2>4
  <2>6. /\ SumFunctionOnSet(h, T) = h[c] + SumFunctionOnSet(h, W)
        /\ SumFunctionOnSet(f, T) = f[c] + SumFunctionOnSet(f, W)
        /\ SumFunctionOnSet(g, T) = g[c] + SumFunctionOnSet(g, W)
    BY <2>2, <2>3, SumEquation
  <2>7. f[c] \in Int /\ g[c] \in Int /\ h[c] = f[c] + g[c]
    BY <2>2, <2>4
  <2>8. IsFiniteSet(W)
    BY <2>2, FS_RemoveElement
  <2> HIDE DEF c, B, W
  <2>9. SumFunctionOnSet(f, W) \in Int /\ SumFunctionOnSet(g, W) \in Int
    BY <2>4, <2>8, SumInt
  <2> QED
    BY <2>2, <2>5, <2>6, <2>7, <2>9
<1> HIDE DEF Adds
<1>3. Adds(S)
  BY <1>2
<1> QED
  BY <1>3 DEF Adds

\* Equal values add up to a product.
LEMMA SumConstant ==
  ASSUME NEW S, IsFiniteSet(S), NEW f, NEW v \in Int, \A x \in S : f[x] = v
  PROVE  SumFunctionOnSet(f, S) = Cardinality(S) * v
<1> DEFINE Multiple(T) == SumFunctionOnSet(f, T) = Cardinality(T) * v
           B == {T \in SUBSET S : ~Multiple(T)}
<1>1. B \in SUBSET (SUBSET S)
  OBVIOUS
<1>2. ASSUME B # {} PROVE FALSE
  <2>1. PICK T \in B : \A U \in B : U \subseteq T => U = T
    <3> HIDE DEF B
    <3> QED
      BY <1>1, <1>2, MinimalSubset
  <2>2. IsFiniteSet(T) /\ T \subseteq S /\ ~Multiple(T)
    BY FS_Subset
  <2>3. T # {}
    <3>1. SumFunctionOnSet(f, {}) = 0 /\ Cardinality({}) = 0
      BY FS_EmptySet, SumEquation
    <3>2. 0 * v = 0
      OBVIOUS
    <3> QED
      BY <2>2, <3>1, <3>2
  <2> DEFINE c == CHOOSE x \in T : TRUE
             W == T \ {c}
  <2>4. c \in T /\ W \in SUBSET S /\ W # T /\ W \subseteq T
    BY <2>2, <2>3
  <2>5. Multiple(W)
    BY <2>1, <2>4
  <2>6. SumFunctionOnSet(f, T) = f[c] + SumFunctionOnSet(f, W)
    BY <2>2, <2>3, SumEquation
  <2>7. f[c] = v
    BY <2>2, <2>4
  <2>8. IsFiniteSet(W) /\ Cardinality(W) = Cardinality(T) - 1 /\ Cardinality(T) \in Nat
    BY <2>2, <2>4, FS_RemoveElement, FS_CardinalityType
  <2>9. PICK n \in Nat : n = Cardinality(T)
    BY <2>8
  <2>10. v + (n - 1) * v = n * v
    OBVIOUS
  <2> HIDE DEF c, B, W
  <2> QED
    BY <2>2, <2>5, <2>6, <2>7, <2>8, <2>9, <2>10
<1> HIDE DEF Multiple
<1>3. Multiple(S)
  BY <1>2
<1> QED
  BY <1>3 DEF Multiple

\* The sum over two disjoint sets.
LEMMA SumUnion ==
  ASSUME NEW S, IsFiniteSet(S), NEW R, IsFiniteSet(R), S \cap R = {},
         NEW f, \A x \in S \cup R : f[x] \in Int
  PROVE  SumFunctionOnSet(f, S \cup R) = SumFunctionOnSet(f, S) + SumFunctionOnSet(f, R)
<1> DEFINE Joins(T) == SumFunctionOnSet(f, T \cup R)
                         = SumFunctionOnSet(f, T) + SumFunctionOnSet(f, R)
           B == {T \in SUBSET S : ~Joins(T)}
<1>1. B \in SUBSET (SUBSET S)
  OBVIOUS
<1>2. ASSUME B # {} PROVE FALSE
  <2>1. PICK T \in B : \A U \in B : U \subseteq T => U = T
    <3> HIDE DEF B
    <3> QED
      BY <1>1, <1>2, MinimalSubset
  <2>2. IsFiniteSet(T) /\ T \subseteq S /\ ~Joins(T)
    BY FS_Subset
  <2>r. SumFunctionOnSet(f, R) \in Int
    BY SumInt
  <2>3. T # {}
    <3> SUFFICES ASSUME T = {} PROVE FALSE
      OBVIOUS
    <3>1. SumFunctionOnSet(f, T) = 0
      BY FS_EmptySet, SumEquation
    <3>2. T \cup R = R
      OBVIOUS
    <3> HIDE DEF B
    <3> QED
      BY <2>2, <2>r, <3>1, <3>2
  <2>4. PICK c \in T : TRUE
    BY <2>3
  <2> DEFINE W == T \ {c}
  <2>5. W \in SUBSET S /\ W # T /\ W \subseteq T
    BY <2>2
  <2>6. Joins(W)
    BY <2>1, <2>5
  <2>7. f[c] \in Int /\ \A x \in T : f[x] \in Int
    BY <2>2
  <2>8. SumFunctionOnSet(f, T) = f[c] + SumFunctionOnSet(f, W)
    BY <2>2, <2>7, SumRemove
  <2>9. (T \cup R) \ {c} = W \cup R /\ c \in T \cup R /\ T \cup R \subseteq S \cup R
    BY <2>2
  <2>10. IsFiniteSet(T \cup R) /\ IsFiniteSet(W)
    BY <2>2, FS_Union, FS_RemoveElement
  <2>11. \A x \in T \cup R : f[x] \in Int
    BY <2>9
  <2>12. SumFunctionOnSet(f, T \cup R) = f[c] + SumFunctionOnSet(f, W \cup R)
    BY <2>9, <2>10, <2>11, SumRemove
  <2>13. SumFunctionOnSet(f, W) \in Int
    BY <2>2, <2>5, <2>7, <2>10, SumInt
  <2> HIDE DEF B, W
  <2> QED
    BY <2>2, <2>6, <2>7, <2>8, <2>12, <2>13, <2>r
<1> HIDE DEF Joins
<1>3. Joins(S)
  BY <1>2
<1> QED
  BY <1>3 DEF Joins

\* What does not count can be left out of a sum.
LEMMA SumOfNonzero ==
  ASSUME NEW S, IsFiniteSet(S), NEW T \in SUBSET S, NEW f,
         \A x \in T : f[x] \in Int, \A x \in S \ T : f[x] = 0
  PROVE  SumFunctionOnSet(f, S) = SumFunctionOnSet(f, T)
<1>1. IsFiniteSet(T) /\ IsFiniteSet(S \ T) /\ T \cap (S \ T) = {} /\ T \cup (S \ T) = S
  BY FS_Subset
<1>2. \A x \in T \cup (S \ T) : f[x] \in Int
  OBVIOUS
<1>3. SumFunctionOnSet(f, T \cup (S \ T))
        = SumFunctionOnSet(f, T) + SumFunctionOnSet(f, S \ T)
  BY <1>1, <1>2, SumUnion
<1>4. SumFunctionOnSet(f, S \ T) = Cardinality(S \ T) * 0
  BY <1>1, SumConstant
<1>5. Cardinality(S \ T) \in Nat
  BY <1>1, FS_CardinalityType
<1>6. SumFunctionOnSet(f, T) \in Int
  BY <1>1, SumInt
<1>7. SumFunctionOnSet(f, S \ T) = 0
  BY <1>4, <1>5
<1> QED
  BY <1>1, <1>3, <1>6, <1>7

\* A difference adds up to the difference of the sums.
LEMMA SumMinus ==
  ASSUME NEW S, IsFiniteSet(S), NEW f, NEW g, NEW h,
         \A x \in S : f[x] \in Int /\ g[x] \in Int /\ h[x] = f[x] - g[x]
  PROVE  SumFunctionOnSet(h, S) = SumFunctionOnSet(f, S) - SumFunctionOnSet(g, S)
<1>1. \A x \in S : h[x] \in Int /\ g[x] \in Int /\ f[x] = h[x] + g[x]
  OBVIOUS
<1>2. SumFunctionOnSet(f, S) = SumFunctionOnSet(h, S) + SumFunctionOnSet(g, S)
  BY <1>1, SumPlus
<1>3. SumFunctionOnSet(h, S) \in Int /\ SumFunctionOnSet(g, S) \in Int
  BY <1>1, SumInt
<1> QED
  BY <1>2, <1>3

\* Opposite numbers add up to the opposite sum.
LEMMA SumOpposite ==
  ASSUME NEW S, IsFiniteSet(S), NEW f, NEW g, \A x \in S : f[x] \in Int /\ g[x] = -f[x]
  PROVE  SumFunctionOnSet(g, S) = -SumFunctionOnSet(f, S)
<1> DEFINE z == [x \in S |-> 0]
<1>1. \A x \in S : z[x] = 0
  OBVIOUS
<1> HIDE DEF z
<1>2. \A x \in S : z[x] \in Int /\ f[x] \in Int /\ g[x] = z[x] - f[x]
  BY <1>1
<1>3. SumFunctionOnSet(g, S) = SumFunctionOnSet(z, S) - SumFunctionOnSet(f, S)
  BY <1>2, SumMinus
<1>4. SumFunctionOnSet(z, S) = Cardinality(S) * 0
  BY <1>1, SumConstant
<1>5. Cardinality(S) \in Nat /\ SumFunctionOnSet(f, S) \in Int
  BY <1>2, SumInt, FS_CardinalityType
<1> QED
  BY <1>3, <1>4, <1>5

\* g extends the m numbers of f by n times the number v;
Extends(f, g, m, n, v) ==
  /\ m \in Nat /\ n \in Nat /\ v \in Int
  /\ \A i \in 1 .. m : f[i] \in Int /\ g[i] = f[i]
  /\ \A i \in m + 1 .. m + n : g[i] = v

\* this adds n * v to the sum.
LEMMA SumExtended ==
  ASSUME NEW f, NEW g, NEW m, NEW n, NEW v, Extends(f, g, m, n, v)
  PROVE  SumFunctionOnSet(g, 1 .. m + n) = SumFunctionOnSet(f, 1 .. m) + n * v
<1> /\ m \in Nat /\ n \in Nat /\ v \in Int
    /\ \A i \in 1 .. m : f[i] \in Int /\ g[i] = f[i]
    /\ \A i \in m + 1 .. m + n : g[i] = v
  BY DEF Extends
<1>1. /\ IsFiniteSet(1 .. m) /\ IsFiniteSet(m + 1 .. m + n)
      /\ Cardinality(m + 1 .. m + n) = n
  <2>1. m + 1 \in Int /\ m + n \in Int /\ 1 \in Int /\ m \in Int
    OBVIOUS
  <2>2. Cardinality(m + 1 .. m + n) = IF m + 1 > m + n THEN 0 ELSE (m + n) - (m + 1) + 1
    BY <2>1, FS_Interval
  <2> QED
    BY <2>1, <2>2, FS_Interval
<1>2. (1 .. m) \cap (m + 1 .. m + n) = {} /\ (1 .. m) \cup (m + 1 .. m + n) = 1 .. m + n
  OBVIOUS
<1>3. \A i \in (1 .. m) \cup (m + 1 .. m + n) : g[i] \in Int
  OBVIOUS
<1>4. SumFunctionOnSet(g, 1 .. m + n)
        = SumFunctionOnSet(g, 1 .. m) + SumFunctionOnSet(g, m + 1 .. m + n)
  BY <1>1, <1>2, <1>3, SumUnion
<1>5. SumFunctionOnSet(g, 1 .. m) = SumFunctionOnSet(f, 1 .. m)
  BY <1>1, SumSame
<1>6. SumFunctionOnSet(g, m + 1 .. m + n) = n * v
  BY <1>1, SumConstant
<1> QED
  BY <1>4, <1>5, <1>6

---------------------------------------------------------------------------
(* Histories: sequences that grow at their end.                            *)

\* Appending one payment or charge keeps the old entries and adds the new one.
LEMMA AppendOne ==
  ASSUME NEW S, NEW q \in Seq(S), NEW e \in S
  PROVE  /\ q \o <<e>> \in Seq(S)
         /\ Len(q \o <<e>>) = Len(q) + 1
         /\ DOMAIN (q \o <<e>>) = 1 .. Len(q) + 1
         /\ DOMAIN q = 1 .. Len(q)
         /\ \A i \in 1 .. Len(q) : (q \o <<e>>)[i] = q[i]
         /\ (q \o <<e>>)[Len(q) + 1] = e
  OBVIOUS

\* Appending nothing leaves a sequence as it is.
LEMMA AppendNone ==
  ASSUME NEW S, NEW q \in Seq(S)
  PROVE  q \o << >> = q
  OBVIOUS

\* n periods are charged on the principal outstanding, and the interest so far
\* accrued grows by theirs and shrinks by what is paid in the same step.
ChargedPeriods(l, n, paid) ==
  /\ n \in Nat
  /\ loans'[l].period = loans[l].period + n
  /\ charges'[l] = charges[l] \o [i \in 1 .. n |-> loans[l].outstanding]
  /\ loans'[l].accrued + paid
       = loans[l].accrued + n * PeriodInterest(loans[l].outstanding)

Unrecorded(l) == journals'[l] = journals[l] /\ outbox'[l] = outbox[l]

\* What one step makes of one loan: nothing, its disbursement, its
\* cancellation, an accrual, or the posting of one payment to an active row.
Untouched(l) ==
  /\ loans'[l] = loans[l]
  /\ payments'[l] = payments[l]
  /\ charges'[l] = charges[l]
  /\ Unrecorded(l)

Disbursed(l) ==
  /\ loans[l].status = "pending_disbursement"
  /\ loans'[l].status = "active"
  /\ loans'[l].outstanding = loans[l].outstanding
  /\ loans'[l].accrued = 0
  /\ loans'[l].period = loans[l].period
  /\ loans'[l].disbursed # NoDay
  /\ payments'[l] = payments[l]
  /\ charges'[l] = charges[l]
  /\ journals'[l] = journals[l] \cup {DisbursementJournal(l)}
  /\ outbox'[l] = outbox[l] \cup {DisbursedIntent}

Cancelled(l) ==
  /\ loans[l].status = "pending_disbursement"
  /\ loans'[l] = [loans[l] EXCEPT !.status = "cancelled"]
  /\ payments'[l] = payments[l]
  /\ charges'[l] = charges[l]
  /\ Unrecorded(l)

Charged(l) ==
  /\ loans[l].status = "active"
  /\ loans'[l].status = "active"
  /\ loans'[l].outstanding = loans[l].outstanding
  /\ loans'[l].accrued >= loans[l].accrued
  /\ loans'[l].disbursed = loans[l].disbursed
  /\ \E n : ChargedPeriods(l, n, 0)
  /\ payments'[l] = payments[l]
  /\ Unrecorded(l)

Posted(l, p) ==
  /\ p \in Payment
  /\ loans[l].status = "active"
  /\ Book!Unused(l, p.key)
  /\ loans[l].disbursed <= p.date
  /\ p.date <= today
  /\ \A i \in DOMAIN payments[l] : payments[l][i].date <= p.date
  /\ p.remaining_principal + p.principal = loans[l].outstanding
  /\ p.amount = p.interest + p.principal + p.credit
  /\ p.credit > 0 => p.remaining_principal = 0 /\ p.remaining_interest = 0
  /\ loans'[l].outstanding = p.remaining_principal
  /\ loans'[l].accrued = p.remaining_interest
  /\ loans'[l].disbursed = loans[l].disbursed
  /\ loans'[l].status = IF p.remaining_principal = 0 /\ p.remaining_interest = 0
                        THEN "paid" ELSE "active"
  /\ \E n : ChargedPeriods(l, n, p.interest)
  /\ payments'[l] = payments[l] \o <<p>>
  /\ journals'[l] = journals[l] \cup {PaymentJournal(p)}
  /\ outbox'[l] = outbox[l] \cup {ReceivedIntent(p)}

\* What w, the writes of a posting of p to a row, say about that row.
PostsTo(w, row, p) ==
  /\ w.posted = <<p>>
  /\ p.remaining_principal + p.principal = row.outstanding
  /\ p.amount = p.interest + p.principal + p.credit
  /\ p.credit > 0 => p.remaining_principal = 0 /\ p.remaining_interest = 0
  /\ w.row.outstanding = p.remaining_principal
  /\ w.row.accrued = p.remaining_interest
  /\ w.row.disbursed = row.disbursed
  /\ w.row.status = IF p.remaining_principal = 0 /\ p.remaining_interest = 0
                    THEN "paid" ELSE row.status
  /\ \E n \in Nat :
       /\ w.row.period = row.period + n
       /\ w.charged = [i \in 1 .. n |-> row.outstanding]
       /\ p.remaining_interest + p.interest
            = row.accrued + n * PeriodInterest(row.outstanding)
  /\ w.journals = {PaymentJournal(p)}
  /\ w.intents = {ReceivedIntent(p)}

\* A posting's payment splits its amount over what the row owed.
LEMMA PostingPosts ==
  ASSUME NEW l \in Loan, NEW row \in Row, NEW key \in Key, NEW cents \in Nat,
         NEW date \in Day,
         NEW w, w = Posting(l, row, key, cents, date)
  PROVE  \E p \in Payment :
           /\ p.key = key /\ p.date = date /\ p.amount = cents
           /\ PostsTo(w, row, p)
<1> DEFINE due == Accrued(l, row, date)
           a   == Allocate(cents, due.accrued, due.outstanding)
           p   == PaymentRow(due, key, cents, date)
           n   == Cardinality(DuePeriods(l, row, date))
<1>1. /\ due \in Row /\ due.outstanding = row.outstanding
      /\ due.status = row.status /\ due.disbursed = row.disbursed
  BY AccruedRow
<1>2. /\ w.posted = <<p>> /\ w.row = Settled(due, p)
      /\ w.journals = {PaymentJournal(p)} /\ w.intents = {ReceivedIntent(p)}
  BY DEF Posting
<1>n. /\ n \in Nat
      /\ due.period = row.period + n
      /\ due.accrued = row.accrued + n * PeriodInterest(row.outstanding)
      /\ w.charged = [i \in 1 .. n |-> row.outstanding]
  BY AccruedRow, DuePeriodsCount DEF Posting, Charges
<1> HIDE DEF due, n
<1>3. due.accrued \in Nat /\ due.outstanding \in Nat
  BY <1>1 DEF Row
<1>4. p \in Payment
  BY <1>1, PaymentJournalBalances
<1>5. /\ p.key = key /\ p.date = date /\ p.amount = cents
      /\ p.interest = a.interest /\ p.principal = a.principal /\ p.credit = a.credit
      /\ p.remaining_interest = a.remaining_interest
      /\ p.remaining_principal = a.remaining_principal
  <2> HIDE DEF a
  <2> QED
    BY DEF PaymentRow, a
<1>6. /\ a \in Allocation
      /\ a.interest + a.principal + a.credit = cents
      /\ a.interest + a.remaining_interest = due.accrued
      /\ a.principal + a.remaining_principal = due.outstanding
      /\ a.credit > 0 => a.remaining_interest = 0 /\ a.remaining_principal = 0
  <2>1. a = Allocate(cents, due.accrued, due.outstanding)
    OBVIOUS
  <2> HIDE DEF a
  <2> QED
    BY <1>3, <2>1, AllocateSplits
<1> HIDE DEF a, p
<1>7. /\ p.remaining_principal + p.principal = row.outstanding
      /\ p.amount = p.interest + p.principal + p.credit
      /\ p.credit > 0 => p.remaining_principal = 0 /\ p.remaining_interest = 0
  BY <1>1, <1>5, <1>6 DEF Allocation
<1>8. /\ w.row.outstanding = p.remaining_principal
      /\ w.row.accrued = p.remaining_interest
      /\ w.row.disbursed = row.disbursed
      /\ w.row.status = IF p.remaining_principal = 0 /\ p.remaining_interest = 0
                        THEN "paid" ELSE row.status
      /\ w.row.period = due.period
  BY <1>1, <1>2, <1>4, SettledRow
<1>9. p.remaining_interest + p.interest = due.accrued
  BY <1>5, <1>6 DEF Allocation
<1>10. \E k \in Nat :
         /\ w.row.period = row.period + k
         /\ w.charged = [i \in 1 .. k |-> row.outstanding]
         /\ p.remaining_interest + p.interest
              = row.accrued + k * PeriodInterest(row.outstanding)
  BY <1>n, <1>8, <1>9
<1>11. PostsTo(w, row, p)
  BY <1>2, <1>7, <1>8, <1>10 DEF PostsTo
<1> QED
  BY <1>4, <1>5, <1>11

\* What one step of the system can do to one loan: nothing, or exactly one
\* disbursement, cancellation, accrual or posting by the rules of its handler.
LEMMA LoanStep ==
  ASSUME IInv, [Next]_vars, NEW l \in Loan
  PROVE  /\ \/ Untouched(l) \/ Disbursed(l) \/ Cancelled(l) \/ Charged(l)
            \/ \E p : Posted(l, p)
         /\ today' >= today
<1> DEFINE Step == Untouched(l) \/ Disbursed(l) \/ Cancelled(l) \/ Charged(l)
                     \/ \E p : Posted(l, p)
<1>0. TablesOK /\ today \in Day
  BY TypeOKParts DEF IInv
<1>1. loans[l] \in Row /\ payments[l] \in Seq(Payment) /\ charges[l] \in Seq(Nat)
  BY <1>0 DEF TablesOK
<1>2. Book!Next \/ UNCHANGED <<tables, today>>
  BY StepIsBookStep DEF Book!book, Book!tables, tables
<1>3. ASSUME NEW w, Book!Apply(w)
      PROVE  /\ l \notin DOMAIN w => Untouched(l)
             /\ l \in DOMAIN w => /\ loans'[l] = w[l].row
                                  /\ payments'[l] = payments[l] \o w[l].posted
                                  /\ charges'[l] = charges[l] \o w[l].charged
                                  /\ journals'[l] = journals[l] \cup w[l].journals
                                  /\ outbox'[l] = outbox[l] \cup w[l].intents
  BY <1>3 DEF Book!Apply, Untouched, Unrecorded
<1>4. CASE UNCHANGED <<tables, today>>
  BY <1>0, <1>4 DEF tables, Untouched, Unrecorded, Day
<1>5. ASSUME Book!Tick
      PROVE  Step /\ today' >= today
  BY <1>0, <1>5 DEF Book!Tick, Book!tables, Untouched, Unrecorded, Day
<1>6. ASSUME NEW x \in Loan, Book!Cancel(x)
      PROVE  Step /\ today' = today
  <2> DEFINE v == [y \in {x} |-> Book!Cancellation(loans[x])]
  <2>1. /\ loans[x].status = "pending_disbursement"
        /\ Book!Apply(v)
        /\ today' = today
    BY <1>6 DEF Book!Cancel
  <2>2. DOMAIN v = {x} /\ v[x] = Cancellation(loans[x])
    BY SameDisbursement
  <2> HIDE DEF v
  <2>3. CASE x # l
    BY <1>3, <2>1, <2>2, <2>3
  <2>4. CASE x = l
    <3> DEFINE w == Cancellation(loans[l])
    <3>1. /\ loans'[l] = w.row
          /\ payments'[l] = payments[l] \o w.posted
          /\ charges'[l] = charges[l] \o w.charged
          /\ journals'[l] = journals[l] \cup w.journals
          /\ outbox'[l] = outbox[l] \cup w.intents
      BY <1>3, <2>1, <2>2, <2>4
    <3>w. /\ w.row = [loans[l] EXCEPT !.status = "cancelled"]
          /\ w.posted = << >> /\ w.charged = << >>
          /\ w.journals = {} /\ w.intents = {}
      BY DEF Cancellation
    <3> HIDE DEF w
    <3>2. /\ loans'[l] = [loans[l] EXCEPT !.status = "cancelled"]
          /\ payments'[l] = payments[l] /\ charges'[l] = charges[l]
          /\ Unrecorded(l)
      BY <1>1, <3>1, <3>w, AppendNone DEF Unrecorded
    <3> QED
      BY <2>1, <2>4, <3>2 DEF Cancelled
  <2> QED
    BY <2>3, <2>4
<1>7. ASSUME NEW x \in Loan, NEW day \in Day, Book!Disburse(x, day)
      PROVE  Step /\ today' = today
  <2> DEFINE v == [y \in {x} |-> Book!Disbursement(x, loans[x], day)]
  <2>1. /\ loans[x].status = "pending_disbursement"
        /\ Book!Apply(v)
        /\ today' = today
    BY <1>7 DEF Book!Disburse
  <2>2. DOMAIN v = {x} /\ v[x] = Disbursement(x, loans[x], day)
    BY SameDisbursement
  <2> HIDE DEF v
  <2>3. CASE x # l
    BY <1>3, <2>1, <2>2, <2>3
  <2>4. CASE x = l
    <3> DEFINE w == Disbursement(l, loans[l], day)
    <3>1. /\ loans'[l] = w.row
          /\ payments'[l] = payments[l] \o w.posted
          /\ charges'[l] = charges[l] \o w.charged
          /\ journals'[l] = journals[l] \cup w.journals
          /\ outbox'[l] = outbox[l] \cup w.intents
      BY <1>3, <2>1, <2>2, <2>4
    <3>w. /\ w.row.status = "active" /\ w.row.outstanding = loans[l].outstanding
          /\ w.row.accrued = 0 /\ w.row.period = loans[l].period
          /\ w.row.disbursed = day
          /\ w.posted = << >> /\ w.charged = << >>
          /\ w.journals = {DisbursementJournal(l)} /\ w.intents = {DisbursedIntent}
      BY <1>1 DEF Disbursement, Row
    <3> HIDE DEF w
    <3>2. day # NoDay
      BY DEF Day, NoDay
    <3> QED
      BY <1>1, <2>1, <2>4, <3>1, <3>2, <3>w, AppendNone DEF Disbursed
  <2> QED
    BY <2>3, <2>4
<1>8. ASSUME NEW S \in SUBSET Loan, NEW d \in Day, Book!AccrueDue(S, d)
      PROVE  Step /\ today' = today
  <2> DEFINE v == [x \in S |-> Book!Accrual(x, loans[x], d)]
  <2>1. /\ \A x \in S : loans[x].status = "active"
        /\ Book!Apply(v)
        /\ today' = today
    BY <1>8 DEF Book!AccrueDue, Book!AccrualDue
  <2>2. DOMAIN v = S /\ \A x \in S : v[x] = Accrual(x, loans[x], d)
    BY SameAccrued
  <2> HIDE DEF v
  <2>3. CASE l \notin S
    BY <1>3, <2>1, <2>2, <2>3
  <2>4. CASE l \in S
    <3> DEFINE w == Accrual(l, loans[l], d)
               n == Cardinality(DuePeriods(l, loans[l], d))
    <3>1. /\ loans'[l] = w.row
          /\ payments'[l] = payments[l] \o w.posted
          /\ charges'[l] = charges[l] \o w.charged
          /\ journals'[l] = journals[l] \cup w.journals
          /\ outbox'[l] = outbox[l] \cup w.intents
      BY <1>3, <2>1, <2>2, <2>4
    <3>w. /\ w.row = Accrued(l, loans[l], d) /\ w.posted = << >>
          /\ w.charged = [i \in 1 .. n |-> loans[l].outstanding]
          /\ w.journals = {} /\ w.intents = {}
      BY DEF Accrual, Charges
    <3> HIDE DEF w
    <3>2. /\ payments'[l] = payments[l] /\ Unrecorded(l)
          /\ loans'[l] = Accrued(l, loans[l], d)
      BY <1>1, <3>1, <3>w, AppendNone DEF Unrecorded
    <3>3. /\ n \in Nat
          /\ Accrued(l, loans[l], d).accrued \in Nat
          /\ Accrued(l, loans[l], d).period = loans[l].period + n
          /\ Accrued(l, loans[l], d).accrued
               = loans[l].accrued + n * PeriodInterest(loans[l].outstanding)
      BY <1>1, DuePeriodsCount, AccruedRow DEF Row
    <3> HIDE DEF n
    <3>4. ChargedPeriods(l, n, 0)
      BY <3>1, <3>w, <3>2, <3>3 DEF ChargedPeriods
    <3> QED
      BY <1>1, <2>1, <2>4, <3>2, <3>4, AccruedRow DEF Charged
  <2> QED
    BY <2>3, <2>4
<1>9. ASSUME NEW x \in Loan, NEW key \in Key, NEW amount \in Amounts, NEW date \in Day,
             Book!Pay(x, key, QuantizeMoney(amount), date)
      PROVE  Step /\ today' = today
  <2> DEFINE cents == QuantizeMoney(amount)
             v == [y \in {x} |-> Book!Posting(x, loans[x], key, cents, date)]
  <2>0. cents \in Nat
    BY ServicingAssumption, QuantizeMoneyNat
  <2>3. /\ Book!Payable(x, loans[x], key, cents, date)
        /\ Book!Apply(v)
        /\ today' = today
    BY <1>9 DEF Book!Pay
  <2>4. DOMAIN v = {x} /\ v[x] = Posting(x, loans[x], key, cents, date)
    BY SamePayment
  <2> HIDE DEF v, cents
  <2>1. CASE x # l
    BY <1>3, <2>1, <2>3, <2>4
  <2>2. CASE x = l
    <3> DEFINE w == Posting(l, loans[l], key, cents, date)
    <3>2. /\ Book!Payable(l, loans[l], key, cents, date)
          /\ loans'[l] = w.row
          /\ payments'[l] = payments[l] \o w.posted
          /\ charges'[l] = charges[l] \o w.charged
          /\ journals'[l] = journals[l] \cup w.journals
          /\ outbox'[l] = outbox[l] \cup w.intents
      BY <1>3, <2>2, <2>3, <2>4
    <3>3. /\ loans[l].status = "active"
          /\ Book!Unused(l, key)
          /\ loans[l].disbursed <= date
          /\ date <= today
          /\ \A i \in DOMAIN payments[l] : payments[l][i].date <= date
      BY <3>2 DEF Book!Payable
    <3>4. w = Posting(l, loans[l], key, cents, date)
      OBVIOUS
    <3> HIDE DEF w
    <3>5. PICK p \in Payment : /\ p.key = key /\ p.date = date
                               /\ PostsTo(w, loans[l], p)
      BY <1>1, <2>0, <3>4, PostingPosts
    <3>6. \E n : ChargedPeriods(l, n, p.interest)
      BY <3>2, <3>5 DEF ChargedPeriods, PostsTo
    <3> QED
      BY <2>3, <3>2, <3>3, <3>5, <3>6 DEF Posted, PostsTo
  <2> QED
    BY <2>1, <2>2
<1> HIDE DEF Step
<1>10. CASE Book!Next
  <2> USE DEF Book!Next, Book!Day
  <2> SUFFICES Step /\ today' >= today
    BY DEF Step
  <2>0. today \in Nat /\ (today' = today => today' >= today)
    BY <1>0 DEF Day
  <2>1. CASE Book!Tick
    BY <1>5, <2>1
  <2>2. CASE \E x \in Loan : Book!Cancel(x)
    BY <1>6, <2>0, <2>2
  <2>3. CASE \E x \in Loan, day \in Book!Day : Book!Disburse(x, day)
    BY <1>7, <2>0, <2>3 DEF Day
  <2>4. CASE \E x \in Loan, key \in Key, amount \in Amounts, date \in Book!Day :
               Book!Pay(x, key, Book!QuantizeMoney(amount), date)
    BY <1>9, <2>0, <2>4, SameAmounts DEF Day
  <2>5. CASE \E S \in SUBSET Loan, d \in Book!Day : Book!AccrueDue(S, d)
    BY <1>8, <2>0, <2>5 DEF Day
  <2> QED
    BY <1>10, <2>1, <2>2, <2>3, <2>4, <2>5
<1> QED
  BY <1>2, <1>4, <1>10 DEF Step

---------------------------------------------------------------------------
(* The invariants, loan by loan.                                           *)

Fresh(l) ==
  loans[l].status = "pending_disbursement" =>
     payments[l] = << >> /\ loans[l].outstanding > 0

Settles(l) ==
  loans[l].status = "paid" <=> loans[l].outstanding = 0 /\ loans[l].accrued = 0

Balanced(l) ==
  /\ \A i \in DOMAIN payments[l] :
        LET p == payments[l][i] IN
        /\ p.remaining_principal + p.principal = PrincipalBeforePayment(l, i)
        /\ p.amount = p.interest + p.principal + p.credit
  /\ loans[l].outstanding = PrincipalBeforePayment(l, Len(payments[l]) + 1)

Uncredited(l) ==
  \A i \in DOMAIN payments[l] :
     payments[l][i].credit > 0 =>
        i = Len(payments[l]) /\ loans[l].status = "paid"

Ordered(l) ==
  \A i \in DOMAIN payments[l] :
     /\ loans[l].disbursed <= payments[l][i].date
     /\ payments[l][i].date <= today
     /\ \A j \in 1 .. i : payments[l][j].date <= payments[l][i].date

DistinctKeys(l) ==
  \A i, j \in DOMAIN payments[l] : payments[l][i].key = payments[l][j].key => i = j

HInv ==
  IInv /\ \A l \in Loan : /\ Fresh(l) /\ Settles(l) /\ Balanced(l)
                          /\ Uncredited(l) /\ Ordered(l) /\ DistinctKeys(l)

\* Loans start with no history, which is consistent.
LEMMA InitHInv == Init => HInv
<1> SUFFICES ASSUME Init, NEW l \in Loan
             PROVE  /\ Fresh(l) /\ Settles(l) /\ Balanced(l)
                    /\ Uncredited(l) /\ Ordered(l) /\ DistinctKeys(l)
  BY InitIInv DEF HInv
<1>1. /\ loans[l].status = "pending_disbursement"
      /\ loans[l].outstanding = Principal[l] /\ payments[l] = << >>
  BY DEF Init, Book!Init, Book!NewLoan
<1>2. Principal[l] \in Nat \ {0} /\ DOMAIN payments[l] = {} /\ Len(payments[l]) = 0
  BY <1>1, ContractAssumption
<1>3. Balanced(l)
  BY <1>1, <1>2 DEF Balanced, PrincipalBeforePayment
<1>4. Fresh(l) /\ Settles(l)
  BY <1>1, <1>2 DEF Fresh, Settles
<1>5. Uncredited(l) /\ Ordered(l) /\ DistinctKeys(l)
  BY <1>2 DEF Uncredited, Ordered, DistinctKeys
<1> QED
  BY <1>3, <1>4, <1>5

\* The types a step's facts are about.
LEMMA RowTypes ==
  ASSUME IInv, NEW l \in Loan
  PROVE  /\ loans[l] \in Row /\ payments[l] \in Seq(Payment) /\ today \in Int
         /\ loans[l].outstanding \in Nat /\ loans[l].accrued \in Nat
         /\ loans[l].disbursed \in Int
         /\ \A i \in DOMAIN payments[l] :
               /\ payments[l][i] \in Payment
               /\ payments[l][i].date \in Int
               /\ payments[l][i].credit \in Nat
<1>1. loans[l] \in Row /\ payments[l] \in Seq(Payment) /\ today \in Day
  BY TypeOKParts DEF IInv, TablesOK
<1>2. \A i \in DOMAIN payments[l] : payments[l][i] \in Payment
  BY <1>1
<1>3. \A p \in Payment : p.date \in Int /\ p.credit \in Nat
  BY DEF Payment, Day
<1>4. /\ loans[l].outstanding \in Nat /\ loans[l].accrued \in Nat
      /\ loans[l].disbursed \in Day \cup {NoDay}
  BY <1>1 DEF Row
<1>5. \A d \in Day \cup {NoDay} : d \in Int
  BY DEF Day, NoDay
<1>6. today \in Int
  BY <1>1, <1>5
<1> QED
  BY <1>1, <1>2, <1>3, <1>4, <1>5, <1>6

\* Every step keeps the two facts about a row and its status, Fresh and Settles.
LEMMA FreshKept ==
  ASSUME HInv, [Next]_vars, NEW l \in Loan
  PROVE  Fresh(l)' /\ Settles(l)'
<1>1. Fresh(l) /\ Settles(l) /\ IInv
  BY DEF HInv
<1>2. IInv'
  BY NextIInv, <1>1
<1>3. /\ loans[l].outstanding \in Nat /\ loans[l].accrued \in Nat
      /\ loans[l] \in Row
  BY <1>1, RowTypes
<1>4. loans'[l].outstanding \in Nat /\ loans'[l].accrued \in Nat
  <2>1. (loans[l].outstanding \in Nat /\ loans[l].accrued \in Nat)'
    BY <1>2, NextType, TypeOKParts DEF IInv, TypeOK, Row
  <2> QED
    BY <2>1
<1>5. CASE Untouched(l)
  BY <1>1, <1>5 DEF Untouched, Fresh, Settles
<1>6. CASE Disbursed(l)
  BY <1>1, <1>4, <1>6 DEF Disbursed, Fresh, Settles
<1>7. CASE Cancelled(l)
  <2>1. /\ loans'[l].status = "cancelled"
        /\ loans'[l].outstanding = loans[l].outstanding
        /\ loans'[l].accrued = loans[l].accrued
    BY <1>3, <1>7 DEF Cancelled, Row
  <2> QED
    BY <1>1, <1>3, <1>7, <2>1 DEF Cancelled, Fresh, Settles
<1>8. CASE Charged(l)
  BY <1>1, <1>3, <1>4, <1>8 DEF Charged, Fresh, Settles
<1>9. CASE \E p : Posted(l, p)
  BY <1>9 DEF Posted, Fresh, Settles
<1> QED
  BY <1>1, <1>5, <1>6, <1>7, <1>8, <1>9, LoanStep

\* The properties of the payments: untouched ones keep them, a posted one
\* extends them.
LEMMA HistoryKept ==
  ASSUME HInv, [Next]_vars, NEW l \in Loan
  PROVE  Balanced(l)' /\ Uncredited(l)' /\ Ordered(l)' /\ DistinctKeys(l)'
<1>1. /\ IInv /\ Fresh(l) /\ Balanced(l) /\ Uncredited(l) /\ Ordered(l)
      /\ DistinctKeys(l)
  BY DEF HInv
<1>2. /\ loans[l] \in Row /\ payments[l] \in Seq(Payment) /\ today \in Int
      /\ loans[l].disbursed \in Int
      /\ \A i \in DOMAIN payments[l] :
            /\ payments[l][i] \in Payment
            /\ payments[l][i].date \in Int
            /\ payments[l][i].credit \in Nat
  BY <1>1, RowTypes
<1>3. today' >= today /\ today' \in Int
  <2>1. today' \in Day
    BY <1>1, NextType DEF IInv, TypeOK
  <2> QED
    BY <1>1, <2>1, LoanStep DEF Day
<1>4. ASSUME payments'[l] = payments[l], loans'[l].outstanding = loans[l].outstanding,
             payments[l] # << >> => loans'[l].disbursed = loans[l].disbursed,
             loans[l].status = "paid" => loans'[l].status = "paid"
      PROVE  Balanced(l)' /\ Uncredited(l)' /\ Ordered(l)' /\ DistinctKeys(l)'
  <2>1. Balanced(l)'
    BY <1>1, <1>4 DEF Balanced, PrincipalBeforePayment
  <2>2. Uncredited(l)' /\ DistinctKeys(l)'
    BY <1>1, <1>4 DEF Uncredited, DistinctKeys
  <2>3. Ordered(l)'
    BY <1>1, <1>2, <1>3, <1>4 DEF Ordered
  <2> QED
    BY <2>1, <2>2, <2>3
<1>5. CASE Untouched(l)
  BY <1>4, <1>5 DEF Untouched
<1>6. CASE Disbursed(l)
  BY <1>1, <1>4, <1>6 DEF Disbursed, Fresh
<1>7. CASE Cancelled(l)
  <2>1. /\ loans'[l].outstanding = loans[l].outstanding
        /\ loans'[l].disbursed = loans[l].disbursed
    BY <1>2, <1>7 DEF Cancelled, Row
  <2> QED
    BY <1>4, <1>7, <2>1 DEF Cancelled
<1>8. CASE Charged(l)
  BY <1>4, <1>8 DEF Charged
<1>9. CASE \E p : Posted(l, p)
  <2>1. PICK p : Posted(l, p)
    BY <1>9
  <2>n. PICK n : n = Len(payments[l])
    OBVIOUS
  <2> DEFINE q == payments'[l]
  <2>2. /\ n \in Nat /\ Len(q) = n + 1
        /\ DOMAIN q = 1 .. n + 1 /\ DOMAIN payments[l] = 1 .. n
        /\ \A i \in 1 .. n : q[i] = payments[l][i]
        /\ q[n + 1] = p
    BY <1>2, <2>1, <2>n, AppendOne DEF Posted
  <2>3. \A i \in DOMAIN q : i \in 1 .. n \/ i = n + 1
    BY <2>2
  <2>4. p \in Payment /\ p.date \in Int /\ p.credit \in Nat
    BY <2>1 DEF Posted, Payment, Day
  <2>5. Balanced(l)'
    <3>1. \A i \in 1 .. n + 1 :
             PrincipalBeforePayment(l, i)' = PrincipalBeforePayment(l, i)
      <4> SUFFICES ASSUME NEW i \in 1 .. n + 1
                   PROVE  PrincipalBeforePayment(l, i)' = PrincipalBeforePayment(l, i)
        OBVIOUS
      <4>1. CASE i = 1
        BY <4>1 DEF PrincipalBeforePayment
      <4>2. CASE i # 1
        <5>1. i - 1 \in 1 .. n
          BY <2>2, <4>2
        <5> QED
          BY <2>2, <4>2, <5>1 DEF PrincipalBeforePayment
      <4> QED
        BY <4>1, <4>2
    <3>2. loans[l].outstanding = PrincipalBeforePayment(l, n + 1)
      BY <1>1, <2>n DEF Balanced
    <3>3. PrincipalBeforePayment(l, Len(payments[l]) + 1)' = p.remaining_principal
      <4>1. Len(q) + 1 # 1 /\ Len(q) + 1 - 1 = n + 1
        BY <2>2
      <4> QED
        BY <2>2, <4>1 DEF PrincipalBeforePayment
    <3>4. loans'[l].outstanding = PrincipalBeforePayment(l, Len(payments[l]) + 1)'
      BY <2>1, <3>3 DEF Posted
    <3>5. ASSUME NEW i \in DOMAIN q
          PROVE  /\ q[i].remaining_principal + q[i].principal
                      = PrincipalBeforePayment(l, i)'
                 /\ q[i].amount = q[i].interest + q[i].principal + q[i].credit
      <4>1. CASE i \in 1 .. n
        <5>1. i \in 1 .. n + 1 /\ i \in DOMAIN payments[l] /\ q[i] = payments[l][i]
          BY <2>2, <4>1
        <5> QED
          BY <1>1, <3>1, <5>1 DEF Balanced
      <4>2. CASE i = n + 1
        <5>1. n + 1 \in 1 .. n + 1
          BY <2>2
        <5> QED
          BY <2>1, <2>2, <3>1, <3>2, <4>2, <5>1 DEF Posted
      <4> QED
        BY <2>3, <4>1, <4>2
    <3> QED
      BY <3>4, <3>5 DEF Balanced
  <2>6. Uncredited(l)'
    <3>1. ASSUME NEW i \in DOMAIN q, q[i].credit > 0
          PROVE  i = Len(q) /\ loans'[l].status = "paid"
      <4>1. CASE i \in 1 .. n
        BY <1>1, <2>1, <2>2, <3>1, <4>1 DEF Uncredited, Posted
      <4>2. CASE i = n + 1
        BY <2>1, <2>2, <3>1, <4>2 DEF Posted
      <4> QED
        BY <2>3, <4>1, <4>2
    <3> QED
      BY <3>1 DEF Uncredited
  <2>7. Ordered(l)'
    <3>1. ASSUME NEW i \in DOMAIN q
          PROVE  /\ loans'[l].disbursed <= q[i].date
                 /\ q[i].date <= today'
                 /\ \A j \in 1 .. i : q[j].date <= q[i].date
      <4>1. CASE i \in 1 .. n
        <5>1. \A j \in 1 .. i : j \in 1 .. n
          BY <2>2, <4>1
        <5>2. /\ q[i] = payments[l][i] /\ i \in DOMAIN payments[l]
              /\ \A j \in 1 .. i : q[j] = payments[l][j]
          BY <2>2, <4>1, <5>1
        <5>3. /\ loans[l].disbursed <= q[i].date
              /\ q[i].date <= today
              /\ \A j \in 1 .. i : q[j].date <= q[i].date
          BY <1>1, <5>2 DEF Ordered
        <5>4. q[i].date <= today'
          BY <1>2, <1>3, <5>2, <5>3
        <5> QED
          BY <2>1, <5>3, <5>4 DEF Posted
      <4>2. CASE i = n + 1
        <5>1. \A j \in 1 .. i : j \in 1 .. n \/ j = n + 1
          BY <2>2, <4>2
        <5>2. q[i] = p /\ \A j \in 1 .. n : q[j] = payments[l][j] /\ j \in DOMAIN payments[l]
          BY <2>2, <4>2
        <5>3. \A j \in 1 .. n : q[j].date <= p.date
          BY <2>1, <5>2 DEF Posted
        <5>4. p.date <= p.date
          BY <2>4
        <5>5. \A j \in 1 .. i : q[j].date <= q[i].date
          BY <4>2, <5>1, <5>2, <5>3, <5>4
        <5>6. p.date <= today'
          BY <1>2, <1>3, <2>1, <2>4 DEF Posted
        <5> QED
          BY <2>1, <5>2, <5>5, <5>6 DEF Posted
      <4> QED
        BY <2>3, <4>1, <4>2
    <3> QED
      BY <3>1 DEF Ordered
  <2>8. DistinctKeys(l)'
    <3>1. ASSUME NEW i \in DOMAIN q, NEW j \in DOMAIN q, q[i].key = q[j].key
          PROVE  i = j
      BY <1>1, <2>1, <2>2, <2>3, <3>1 DEF DistinctKeys, Posted, Book!Unused
    <3> QED
      BY <3>1 DEF DistinctKeys
  <2> QED
    BY <2>5, <2>6, <2>7, <2>8
<1> QED
  BY <1>1, <1>5, <1>6, <1>7, <1>8, <1>9, LoanStep

\* Rows and payment histories of every loan stay consistent for ever.
THEOREM HistoryInvariant == Spec => []HInv
<1>1. HInv /\ [Next]_vars => HInv'
  BY NextIInv, FreshKept, HistoryKept DEF HInv
<1> QED
  BY <1>1, InitHInv, PTL DEF Spec

---------------------------------------------------------------------------

\* A loan is paid exactly while nothing is owed on it.
THEOREM PaidExactlyWhenSettled == Spec => []PaidIffSettled
<1>1. HInv => PaidIffSettled
  BY DEF HInv, PaidIffSettled, Settles
<1> QED
  BY <1>1, HistoryInvariant, PTL

\* The payments on record explain the outstanding principal, centavo by centavo.
THEOREM PaymentsExplainBalances == Spec => []BalancesFollowPayments
<1>1. HInv => BalancesFollowPayments
  BY DEF HInv, BalancesFollowPayments, Balanced
<1> QED
  BY <1>1, HistoryInvariant, PTL

\* Only the payment that settles a loan leaves credit, and it is the last one.
THEOREM CreditOnlyAtPayoff == Spec => []NoCreditWhileOwing
<1>1. HInv => NoCreditWhileOwing
  BY DEF HInv, NoCreditWhileOwing, Uncredited
<1> QED
  BY <1>1, HistoryInvariant, PTL

\* Payments are posted in date order, between the disbursement and today.
THEOREM PostedInDateOrder == Spec => []PaymentsInDateOrder
<1>1. HInv => PaymentsInDateOrder
  BY DEF HInv, PaymentsInDateOrder, Ordered
<1> QED
  BY <1>1, HistoryInvariant, PTL

\* What a session has flushed never carries a key that is already on record:
\* the unique index is a second line of defence behind the row lock.
LEMMA NoCollision ==
  ASSUME IInv, NEW s \in Session
  PROVE  ~Collides(s)
<1> SUFFICES ASSUME NEW l \in DOMAIN written[s],
                    NEW i \in DOMAIN written[s][l].posted,
                    ~Book!Unused(l, written[s][l].posted[i].key)
             PROVE  FALSE
  BY DEF Collides
<1>1. Effect(s)
  <2>1. written[s] # Nothing
    BY DEF Nothing
  <2> QED
    BY <2>1 DEF IInv, StagedWritesAreSound
<1>2. Held(s) \subseteq Loan /\ asOf[s] \in Day
  BY TypeOKParts DEF IInv, RowsOK, SessionsOK
<1>3. \A x \in Held(s) : loans[x] \in Row
  BY <1>2 DEF IInv, TypeOK
<1>4. CASE DisbursementEffect(s) \/ CancellationEffect(s) \/ AccrualEffect(s)
  <2>1. /\ \A x, r, d : Disbursement(x, r, d).posted = << >>
        /\ \A r : Cancellation(r).posted = << >>
        /\ \A x, r, d : Accrual(x, r, d).posted = << >>
    BY DEF Disbursement, Cancellation, Accrual
  <2>2. CASE DisbursementEffect(s)
    <3>1. PICK x, day : written[s] = [y \in {x} |-> Disbursement(x, loans[x], day)]
      BY <2>2 DEF DisbursementEffect
    <3> QED
      BY <2>1, <3>1
  <2>3. CASE CancellationEffect(s)
    <3>1. PICK x : written[s] = [y \in {x} |-> Cancellation(loans[x])]
      BY <2>3 DEF CancellationEffect
    <3> QED
      BY <2>1, <3>1
  <2>4. CASE AccrualEffect(s)
    <3>1. PICK S : written[s] = [x \in S |-> Accrual(x, loans[x], asOf[s])]
      BY <2>4 DEF AccrualEffect
    <3> QED
      BY <2>1, <3>1
  <2> QED
    BY <1>4, <2>2, <2>3, <2>4
<1>5. CASE PaymentEffect(s)
  <2>1. PICK x \in Held(s), key \in Key, amount \in Amounts, date \in Day :
          /\ Book!Payable(x, loans[x], key, QuantizeMoney(amount), date)
          /\ written[s] = [y \in {x} |->
                             Posting(x, loans[x], key, QuantizeMoney(amount), date)]
    BY <1>5 DEF PaymentEffect
  <2> DEFINE cents == QuantizeMoney(amount)
             w == Posting(x, loans[x], key, cents, date)
  <2>2. cents \in Nat
    BY ServicingAssumption, QuantizeMoneyNat
  <2>3. l = x /\ written[s][l] = w /\ Book!Unused(x, key)
    BY <2>1 DEF Book!Payable
  <2>4. w = Posting(x, loans[x], key, cents, date)
    OBVIOUS
  <2> HIDE DEF w, cents
  <2>5. PICK p \in Payment : w.posted = <<p>> /\ p.key = key
    BY <1>2, <1>3, <2>2, <2>4, PostingPosts DEF PostsTo
  <2> QED
    BY <2>3, <2>5
<1> QED
  BY <1>1, <1>4, <1>5 DEF Effect

\* Retries and races leave one payment per idempotency key.
THEOREM KeysPostOnce == Spec => []OnePaymentPerKey
<1>1. HInv => OnePaymentPerKey
  BY NoCollision DEF HInv, OnePaymentPerKey, DistinctKeys
<1> QED
  BY <1>1, HistoryInvariant, PTL

---------------------------------------------------------------------------
(* Events, interest and the ledger.  These need the sums of LoanContract_   *)
(* proofs; LInv is the joint invariant, again loan by loan.                 *)

Columns  == {"amount", "interest", "principal", "credit"}
Accounts == {"cash", "receivable", "credit", "income"}

\* What payments add up to is a whole number of centavos.
LEMMA PaidInt ==
  ASSUME NEW q \in Seq(Payment), NEW c \in Columns
  PROVE  SumFunction([i \in DOMAIN q |-> q[i][c]]) \in Int
<1> DEFINE n == Len(q)
           f == [i \in DOMAIN q |-> q[i][c]]
<1>1. n \in Nat /\ DOMAIN q = 1 .. n /\ \A i \in 1 .. n : q[i] \in Payment
  OBVIOUS
<1>2. \A x \in Payment : x[c] \in Int
  BY DEF Payment, Columns
<1> HIDE DEF n
<1>3. DOMAIN f = 1 .. n /\ \A i \in 1 .. n : f[i] \in Int
  BY <1>1, <1>2
<1> HIDE DEF f
<1>4. SumFunctionOnSet(f, 1 .. n) \in Int
  BY <1>1, <1>3, SumInt, FS_Interval
<1> QED
  BY <1>3, <1>4 DEF SumFunction, f

\* A posted payment adds its amounts to what the payments add up to.
LEMMA PaidAppended ==
  ASSUME NEW q \in Seq(Payment), NEW p \in Payment, NEW c \in Columns,
         NEW r, r = q \o <<p>>
  PROVE  /\ SumFunction([i \in DOMAIN q |-> q[i][c]]) \in Int
         /\ SumFunction([i \in DOMAIN r |-> r[i][c]])
              = SumFunction([i \in DOMAIN q |-> q[i][c]]) + p[c]
<1> DEFINE n == Len(q)
           f == [i \in DOMAIN q |-> q[i][c]]
           g == [i \in DOMAIN r |-> r[i][c]]
<1>1. /\ n \in Nat /\ DOMAIN q = 1 .. n /\ DOMAIN r = 1 .. n + 1
      /\ \A i \in 1 .. n : r[i] = q[i] /\ q[i] \in Payment
      /\ r[n + 1] = p
  BY AppendOne
<1>2. \A x \in Payment : x[c] \in Int
  BY DEF Payment, Columns
<1> HIDE DEF n
<1>3. /\ DOMAIN f = 1 .. n /\ DOMAIN g = 1 .. n + 1
      /\ \A i \in 1 .. n : f[i] \in Int /\ g[i] = f[i]
      /\ \A i \in n + 1 .. n + 1 : g[i] = p[c]
      /\ p[c] \in Int
  BY <1>1, <1>2
<1> HIDE DEF f, g
<1>4. SumFunctionOnSet(f, 1 .. n) \in Int
  <2>1. IsFiniteSet(1 .. n)
    BY <1>1, FS_Interval
  <2>2. \A i \in 1 .. n : f[i] \in Int
    BY <1>3
  <2> QED
    BY <2>1, <2>2, SumInt
<1>5. SumFunctionOnSet(g, 1 .. n + 1) = SumFunctionOnSet(f, 1 .. n) + p[c]
  <2>1. PICK v \in Int : v = p[c]
    BY <1>3
  <2>2. Extends(f, g, n, 1, v)
    BY <1>1, <1>3, <2>1 DEF Extends
  <2> QED
    BY <2>1, <2>2, SumExtended
<1>6. SumFunction(f) \in Int /\ SumFunction(g) = SumFunction(f) + p[c]
  BY <1>3, <1>4, <1>5 DEF SumFunction
<1> QED
  BY <1>6 DEF f, g

\* The interest of the charges q.
InterestOn(q) == SumFunction([i \in DOMAIN q |-> PeriodInterest(q[i])])

\* r is q with n more periods, charged on the principal v;
Recharged(q, r, n, v) ==
  q \in Seq(Nat) /\ n \in Nat /\ v \in Nat /\ r = q \o [i \in 1 .. n |-> v]

\* this adds n times the interest on v.
LEMMA ChargesAppended ==
  ASSUME NEW q, NEW r, NEW n, NEW v, Recharged(q, r, n, v)
  PROVE  /\ Len(r) = Len(q) + n
         /\ InterestOn(q) \in Int
         /\ InterestOn(r) = InterestOn(q) + n * PeriodInterest(v)
<1> /\ q \in Seq(Nat) /\ n \in Nat /\ v \in Nat /\ r = q \o [i \in 1 .. n |-> v]
  BY DEF Recharged
<1> DEFINE m == Len(q)
           e == [i \in 1 .. n |-> v]
           f == [i \in DOMAIN q |-> PeriodInterest(q[i])]
           g == [i \in DOMAIN r |-> PeriodInterest(r[i])]
<1>1. /\ e \in Seq(Nat) /\ Len(e) = n /\ \A i \in 1 .. n : e[i] = v
  OBVIOUS
<1>2. r = q \o e
  OBVIOUS
<1> HIDE DEF e
<1>3. /\ m \in Nat /\ DOMAIN q = 1 .. m
      /\ Len(r) = m + n /\ DOMAIN r = 1 .. m + n
      /\ \A i \in 1 .. m : r[i] = q[i] /\ q[i] \in Nat
      /\ \A i \in m + 1 .. m + n : r[i] = v
  BY <1>1, <1>2
<1> HIDE DEF m
<1>4. /\ DOMAIN f = 1 .. m /\ DOMAIN g = 1 .. m + n
      /\ \A i \in 1 .. m : f[i] \in Int /\ g[i] = f[i]
      /\ \A i \in m + 1 .. m + n : g[i] = PeriodInterest(v)
      /\ PeriodInterest(v) \in Int
  <2>1. \A x \in Nat : PeriodInterest(x) \in Int
    BY PeriodInterestNat
  <2>2. \A i \in m + 1 .. m + n : i \in 1 .. m + n
    BY <1>3
  <2>3. \A i \in 1 .. m : i \in 1 .. m + n
    BY <1>3
  <2> QED
    BY <1>3, <2>1, <2>2, <2>3
<1> HIDE DEF f, g
<1>5. SumFunctionOnSet(g, 1 .. m + n)
        = SumFunctionOnSet(f, 1 .. m) + n * PeriodInterest(v)
  <2>1. PICK w \in Int : w = PeriodInterest(v)
    BY <1>4
  <2>2. Extends(f, g, m, n, w)
    BY <1>3, <1>4, <2>1 DEF Extends
  <2> QED
    BY <2>1, <2>2, SumExtended
<1>6. SumFunction(g) = SumFunction(f) + n * PeriodInterest(v)
  BY <1>4, <1>5 DEF SumFunction
<1>7. SumFunction(f) \in Int
  <2>1. IsFiniteSet(1 .. m)
    BY <1>3, FS_Interval
  <2>2. \A i \in 1 .. m : f[i] \in Int
    BY <1>4
  <2> QED
    BY <1>4, <2>1, <2>2, SumInt DEF SumFunction
<1> QED
  BY <1>3, <1>6, <1>7 DEF f, g, m, InterestOn

\* The balance of an account over the journals J.
BalanceOf(J, a) == SumFunction([j \in J |-> j[a]])

\* K is J with the new journal j;
Entered(J, K, j) ==
  IsFiniteSet(J) /\ J \subseteq Journal /\ j \in Journal /\ j \notin J /\ K = J \cup {j}

\* this adds the entries of j to the balances.
LEMMA BalanceGrows ==
  ASSUME NEW J, NEW K, NEW j, Entered(J, K, j), NEW a \in Accounts
  PROVE  /\ IsFiniteSet(K)
         /\ BalanceOf(J, a) \in Int
         /\ BalanceOf(K, a) = BalanceOf(J, a) + j[a]
<1> /\ IsFiniteSet(J) /\ J \subseteq Journal /\ j \in Journal
    /\ j \notin J /\ K = J \cup {j}
  BY DEF Entered
<1> DEFINE f == [x \in J |-> x[a]]
           g == [x \in K |-> x[a]]
<1>1. \A x \in Journal : x[a] \in Int
  BY DEF Journal, Accounts
<1>2. /\ DOMAIN f = J /\ DOMAIN g = K /\ j \in K /\ K \ {j} = J
      /\ \A x \in J : f[x] \in Int /\ g[x] = f[x]
      /\ \A x \in K : g[x] \in Int
      /\ g[j] = j[a] /\ j[a] \in Int
  BY <1>1
<1>3. IsFiniteSet(K)
  BY FS_AddElement
<1> HIDE DEF f, g
<1>4. SumFunctionOnSet(g, K) = g[j] + SumFunctionOnSet(g, J)
  BY <1>2, <1>3, SumRemove
<1>5. SumFunctionOnSet(g, J) = SumFunctionOnSet(f, J)
  BY <1>2, SumSame
<1>6. SumFunctionOnSet(f, J) \in Int
  BY <1>2, SumInt
<1>7. SumFunction(f) \in Int /\ SumFunction(g) = SumFunction(f) + j[a]
  BY <1>2, <1>4, <1>5, <1>6 DEF SumFunction
<1> QED
  BY <1>3, <1>7 DEF f, g, BalanceOf

\* Sums of nothing.
LEMMA SumsOfNothing ==
  ASSUME NEW f, DOMAIN f = {}
  PROVE  SumFunction(f) = 0
  BY FS_EmptySet, SumEquation DEF SumFunction

\* A loan's status tells whether it was disbursed; one that was not has neither
\* payments nor interest.
Dated(l) ==
  /\ loans[l].status \in {"active", "paid"} <=> loans[l].disbursed # NoDay
  /\ loans[l].disbursed = NoDay => payments[l] = << >> /\ loans[l].accrued = 0

\* Exactly the journals and intents of the disbursement and of each payment.
Together(l) ==
  LET disbursed == loans[l].disbursed # NoDay
      posted    == {payments[l][i] : i \in DOMAIN payments[l]}
  IN /\ journals[l] = (IF disbursed THEN {DisbursementJournal(l)} ELSE {})
                         \cup {PaymentJournal(p) : p \in posted}
     /\ outbox[l] = (IF disbursed THEN {DisbursedIntent} ELSE {})
                         \cup {ReceivedIntent(p) : p \in posted}

\* One charge for each period the due date has passed, paid or still owed.
ChargedOnce(l) ==
  /\ Len(charges[l]) = loans[l].period - 1
  /\ loans[l].accrued + Paid(l, "interest") = InterestOn(charges[l])

\* The journals of one loan, added up.
InLedger(l) ==
  /\ IsFiniteSet(journals[l])
  /\ BalanceOf(journals[l], "receivable")
       = IF loans[l].disbursed # NoDay THEN loans[l].outstanding ELSE 0
  /\ BalanceOf(journals[l], "income") = -Paid(l, "interest")
  /\ BalanceOf(journals[l], "credit") = -Paid(l, "credit")
  /\ BalanceOf(journals[l], "cash")
       = Paid(l, "amount") - IF loans[l].disbursed # NoDay THEN Principal[l] ELSE 0

LInv == HInv /\ \A l \in Loan : Dated(l) /\ Together(l) /\ ChargedOnce(l) /\ InLedger(l)

\* Loans start with empty books.
LEMMA InitLInv == Init => LInv
<1> SUFFICES ASSUME Init, NEW l \in Loan
             PROVE  Dated(l) /\ Together(l) /\ ChargedOnce(l) /\ InLedger(l)
  BY InitHInv DEF LInv
<1>1. /\ loans[l].status = "pending_disbursement" /\ loans[l].disbursed = NoDay
      /\ loans[l].accrued = 0 /\ loans[l].period = 1
      /\ payments[l] = << >> /\ charges[l] = << >>
      /\ journals[l] = {} /\ outbox[l] = {}
  BY DEF Init, Book!Init, Book!NewLoan, Book!NoDay, NoDay
<1>2. DOMAIN payments[l] = {} /\ DOMAIN charges[l] = {} /\ Len(charges[l]) = 0
  BY <1>1
<1>3. \A c : Paid(l, c) = 0
  <2> TAKE c
  <2> DEFINE f == [i \in DOMAIN payments[l] |-> payments[l][i][c]]
  <2>1. DOMAIN f = {}
    BY <1>2
  <2> HIDE DEF f
  <2>2. SumFunction(f) = 0
    BY <2>1, SumsOfNothing
  <2> QED
    BY <2>2 DEF Paid, f
<1>4. \A a : BalanceOf(journals[l], a) = 0
  <2> TAKE a
  <2> DEFINE f == [j \in journals[l] |-> j[a]]
  <2>1. DOMAIN f = {}
    BY <1>1
  <2> HIDE DEF f
  <2>2. SumFunction(f) = 0
    BY <2>1, SumsOfNothing
  <2> QED
    BY <2>2 DEF BalanceOf, f
<1>5. InterestOn(charges[l]) = 0
  <2> DEFINE f == [i \in DOMAIN charges[l] |-> PeriodInterest(charges[l][i])]
  <2>1. DOMAIN f = {}
    BY <1>2
  <2> HIDE DEF f
  <2>2. SumFunction(f) = 0
    BY <2>1, SumsOfNothing
  <2> QED
    BY <2>2 DEF InterestOn, f
<1>6. Dated(l) /\ ChargedOnce(l)
  BY <1>1, <1>2, <1>3, <1>5 DEF Dated, ChargedOnce
<1>7. Together(l)
  BY <1>1, <1>2 DEF Together
<1>8. InLedger(l)
  BY <1>1, <1>3, <1>4, FS_EmptySet DEF InLedger
<1> QED
  BY <1>6, <1>7, <1>8

\* Disbursement is dated, and nothing else sets or clears the date.
LEMMA DatedKept ==
  ASSUME LInv, [Next]_vars, NEW l \in Loan
  PROVE  Dated(l)'
<1>1. Dated(l) /\ Fresh(l) /\ IInv
  BY DEF LInv, HInv
<1>2. loans[l] \in Row
  BY <1>1, RowTypes
<1>3. CASE Untouched(l)
  BY <1>1, <1>3 DEF Untouched, Dated
<1>4. CASE Disbursed(l)
  BY <1>1, <1>4 DEF Disbursed, Dated
<1>5. CASE Cancelled(l)
  <2>1. /\ loans'[l].status = "cancelled"
        /\ loans'[l].disbursed = loans[l].disbursed
        /\ loans'[l].accrued = loans[l].accrued
    BY <1>2, <1>5 DEF Cancelled, Row
  <2> QED
    BY <1>1, <1>5, <2>1 DEF Cancelled, Dated
<1>6. CASE Charged(l)
  BY <1>1, <1>6 DEF Charged, Dated
<1>7. CASE \E p : Posted(l, p)
  BY <1>1, <1>7 DEF Posted, Dated
<1> QED
  BY <1>1, <1>3, <1>4, <1>5, <1>6, <1>7, LoanStep

\* A journal and an intent come with every disbursement and every payment, and
\* with nothing else.
LEMMA TogetherKept ==
  ASSUME LInv, [Next]_vars, NEW l \in Loan
  PROVE  Together(l)'
<1>1. Together(l) /\ Dated(l) /\ IInv
  BY DEF LInv, HInv
<1>2. loans[l] \in Row /\ payments[l] \in Seq(Payment)
  BY <1>1, RowTypes
<1>3. ASSUME payments'[l] = payments[l], loans'[l].disbursed = loans[l].disbursed,
             Unrecorded(l)
      PROVE  Together(l)'
  BY <1>1, <1>3 DEF Together, Unrecorded
<1>4. CASE Untouched(l)
  BY <1>3, <1>4 DEF Untouched
<1>5. CASE Disbursed(l)
  BY <1>1, <1>5 DEF Disbursed, Dated, Together
<1>6. CASE Cancelled(l)
  <2>1. loans'[l].disbursed = loans[l].disbursed
    BY <1>2, <1>6 DEF Cancelled, Row
  <2> QED
    BY <1>3, <1>6, <2>1 DEF Cancelled
<1>7. CASE Charged(l)
  BY <1>3, <1>7 DEF Charged
<1>8. CASE \E p : Posted(l, p)
  <2>1. PICK p : Posted(l, p)
    BY <1>8
  <2> DEFINE posted == {payments[l][i] : i \in DOMAIN payments[l]}
  <2>2. {payments'[l][i] : i \in DOMAIN payments'[l]} = posted \cup {p}
    <3> DEFINE q == payments'[l]
               n == Len(payments[l])
    <3>1. /\ n \in Nat /\ DOMAIN q = 1 .. n + 1 /\ DOMAIN payments[l] = 1 .. n
          /\ \A i \in 1 .. n : q[i] = payments[l][i]
          /\ q[n + 1] = p
      BY <1>2, <2>1, AppendOne DEF Posted
    <3> HIDE DEF q, n
    <3>2. 1 .. n + 1 = (1 .. n) \cup {n + 1}
      BY <3>1
    <3>3. {q[i] : i \in DOMAIN q} = posted \cup {p}
      BY <3>1, <3>2
    <3> QED
      BY <3>3 DEF q
  <2>3. /\ loans'[l].disbursed = loans[l].disbursed
        /\ journals'[l] = journals[l] \cup {PaymentJournal(p)}
        /\ outbox'[l] = outbox[l] \cup {ReceivedIntent(p)}
    BY <2>1 DEF Posted
  <2>4. /\ {PaymentJournal(x) : x \in posted \cup {p}}
              = {PaymentJournal(x) : x \in posted} \cup {PaymentJournal(p)}
        /\ {ReceivedIntent(x) : x \in posted \cup {p}}
              = {ReceivedIntent(x) : x \in posted} \cup {ReceivedIntent(p)}
    OBVIOUS
  <2> QED
    BY <1>1, <2>2, <2>3, <2>4 DEF Together
<1> QED
  BY <1>1, <1>4, <1>5, <1>6, <1>7, <1>8, LoanStep

\* Interest is charged by whole periods, and paid or still owed.
LEMMA ChargedOnceKept ==
  ASSUME LInv, [Next]_vars, NEW l \in Loan
  PROVE  ChargedOnce(l)'
<1>1. ChargedOnce(l) /\ Dated(l) /\ Fresh(l) /\ IInv /\ IInv'
  BY NextIInv DEF LInv, HInv
<1>2. /\ loans[l] \in Row /\ payments[l] \in Seq(Payment) /\ charges[l] \in Seq(Nat)
      /\ loans[l].accrued \in Nat /\ loans[l].outstanding \in Nat
      /\ loans[l].period \in Int
  <2>1. loans[l] \in Row /\ charges[l] \in Seq(Nat)
    BY <1>1, TypeOKParts DEF IInv, TablesOK
  <2> QED
    BY <1>1, <2>1, RowTypes DEF Row
<1>3. loans'[l].accrued \in Nat
  <2>1. (loans[l] \in Row)'
    BY <1>1 DEF IInv, TypeOK
  <2> QED
    BY <2>1 DEF Row
<1> DEFINE Interest == InterestOn(charges[l])
<1>4. Interest' = InterestOn(charges'[l])
  BY DEF InterestOn
<1>5. Len(charges[l]) = loans[l].period - 1 /\ loans[l].accrued + Paid(l, "interest") = Interest
  BY <1>1 DEF ChargedOnce
<1>6. ASSUME NEW n, NEW paid \in Nat, ChargedPeriods(l, n, paid),
             Paid(l, "interest") \in Int, Paid(l, "interest")' = Paid(l, "interest") + paid
      PROVE  ChargedOnce(l)'
  <2> DEFINE more == n * PeriodInterest(loans[l].outstanding)
  <2>1. /\ n \in Nat
        /\ loans'[l].period = loans[l].period + n
        /\ loans'[l].accrued + paid = loans[l].accrued + more
    BY <1>6 DEF ChargedPeriods
  <2>2. /\ Len(charges'[l]) = Len(charges[l]) + n
        /\ Interest \in Int /\ Interest' = Interest + more
    <3>1. Recharged(charges[l], charges'[l], n, loans[l].outstanding)
      BY <1>2, <1>6, <2>1 DEF ChargedPeriods, Recharged
    <3> HIDE DEF more
    <3>2. more = n * PeriodInterest(loans[l].outstanding)
      BY DEF more
    <3> QED
      BY <1>4, <3>1, <3>2, ChargesAppended
  <2>3. more \in Nat
    BY <1>2, <2>1, PeriodInterestNat, ProductNat
  <2> HIDE DEF more, Interest
  <2>4. Len(charges'[l]) = loans'[l].period - 1
    BY <1>2, <1>5, <2>1, <2>2
  <2>5. loans'[l].accrued + Paid(l, "interest")' = Interest'
    <3>1. PICK i0, i1 : i0 \in Int /\ i0 = Interest /\ i1 = Interest'
      BY <2>2
    <3>2. PICK p0, p1 : p0 \in Int /\ p0 = Paid(l, "interest") /\ p1 = Paid(l, "interest")'
      BY <1>6
    <3>3. PICK a0 \in Nat, a1 \in Nat : a0 = loans[l].accrued /\ a1 = loans'[l].accrued
      BY <1>2, <1>3
    <3>4. /\ i0 \in Int /\ p0 \in Int
          /\ i1 = i0 + more /\ p1 = p0 + paid /\ a1 + paid = a0 + more /\ a0 + p0 = i0
      BY <1>5, <1>6, <2>1, <2>2, <3>1, <3>2, <3>3
    <3>5. a1 + p1 = i1
      BY <1>6, <2>3, <3>4
    <3> QED
      BY <3>1, <3>2, <3>3, <3>5
  <2> QED
    BY <2>4, <2>5 DEF ChargedOnce, Interest
<1>7. ASSUME charges'[l] = charges[l], payments'[l] = payments[l],
             loans'[l].period = loans[l].period, loans'[l].accrued = loans[l].accrued
      PROVE  ChargedOnce(l)'
  BY <1>1, <1>7 DEF ChargedOnce, Paid, InterestOn
<1>8. Paid(l, "interest") \in Int
  BY <1>2, PaidInt DEF Paid, Columns
<1>9. CASE Untouched(l)
  BY <1>7, <1>9 DEF Untouched
<1>10. CASE Disbursed(l)
  <2>1. loans[l].accrued = 0
    BY <1>1, <1>10 DEF Disbursed, Dated
  <2> QED
    BY <1>7, <1>10, <2>1 DEF Disbursed
<1>11. CASE Cancelled(l)
  <2>1. loans'[l].period = loans[l].period /\ loans'[l].accrued = loans[l].accrued
    BY <1>2, <1>11 DEF Cancelled, Row
  <2> QED
    BY <1>7, <1>11, <2>1 DEF Cancelled
<1>12. CASE Charged(l)
  <2>1. PICK n : ChargedPeriods(l, n, 0)
    BY <1>12 DEF Charged
  <2>2. Paid(l, "interest")' = Paid(l, "interest") + 0
    BY <1>12, <1>8 DEF Charged, Paid
  <2> QED
    BY <1>6, <1>8, <2>1, <2>2
<1>13. CASE \E p : Posted(l, p)
  <2>1. PICK p : Posted(l, p)
    BY <1>13
  <2>2. PICK n : ChargedPeriods(l, n, p.interest)
    BY <2>1 DEF Posted
  <2>3. p \in Payment /\ p.interest \in Nat /\ payments'[l] = payments[l] \o <<p>>
    BY <2>1 DEF Posted, Payment
  <2>4. Paid(l, "interest")' = Paid(l, "interest") + p["interest"]
    BY <1>2, <2>3, PaidAppended DEF Paid, Columns
  <2> QED
    BY <1>6, <1>8, <2>2, <2>3, <2>4
<1> QED
  BY <1>1, <1>9, <1>10, <1>11, <1>12, <1>13, LoanStep

\* The balances of a loan's journals follow its row and its payments.
LEMMA InLedgerKept ==
  ASSUME LInv, [Next]_vars, NEW l \in Loan
  PROVE  InLedger(l)'
<1>1. /\ InLedger(l) /\ Together(l) /\ Dated(l) /\ Fresh(l) /\ Balanced(l) /\ IInv
  BY DEF LInv, HInv
<1>2. /\ loans[l] \in Row /\ loans[l].outstanding \in Nat /\ payments[l] \in Seq(Payment)
      /\ Principal[l] \in Nat /\ journals[l] \subseteq Journal
  BY <1>1, RowTypes, TypeOKParts, ContractAssumption DEF IInv, TablesOK
<1>3. \A c \in Columns : Paid(l, c) \in Int
  BY <1>2, PaidInt DEF Paid
<1>4. /\ IsFiniteSet(journals[l])
      /\ BalanceOf(journals[l], "receivable")
           = IF loans[l].disbursed # NoDay THEN loans[l].outstanding ELSE 0
      /\ BalanceOf(journals[l], "income") = -Paid(l, "interest")
      /\ BalanceOf(journals[l], "credit") = -Paid(l, "credit")
      /\ BalanceOf(journals[l], "cash")
           = Paid(l, "amount") - IF loans[l].disbursed # NoDay THEN Principal[l] ELSE 0
  BY <1>1 DEF InLedger
<1>5. ASSUME journals'[l] = journals[l], payments'[l] = payments[l],
             loans'[l].disbursed = loans[l].disbursed,
             loans'[l].outstanding = loans[l].outstanding
      PROVE  InLedger(l)'
  BY <1>1, <1>5 DEF InLedger, Paid
<1>6. CASE Untouched(l)
  BY <1>5, <1>6 DEF Untouched, Unrecorded
<1>7. CASE Disbursed(l)
  <2> DEFINE j == DisbursementJournal(l)
  <2>1. loans[l].disbursed = NoDay /\ payments[l] = << >>
    BY <1>1, <1>7 DEF Disbursed, Dated
  <2>2. journals[l] = {}
    BY <1>1, <2>1 DEF Together
  <2>3. loans[l].outstanding = Principal[l]
    <3>1. Len(payments[l]) + 1 = 1
      BY <2>1
    <3> QED
      BY <1>1, <3>1 DEF Balanced, PrincipalBeforePayment
  <2>4. /\ j.cash = -Principal[l] /\ j.receivable = Principal[l]
        /\ j.credit = 0 /\ j.income = 0
    BY DEF DisbursementJournal
  <2>5. j \in Journal
    <3>1. Principal[l] \in Int /\ -Principal[l] \in Int
      BY <1>2
    <3> QED
      BY <3>1 DEF DisbursementJournal, Journal
  <2> HIDE DEF j
  <2>6. Entered(journals[l], journals'[l], j)
    BY <1>4, <1>7, <2>2, <2>5 DEF Disbursed, Entered, j
  <2>7. /\ IsFiniteSet(journals'[l])
        /\ \A a \in Accounts :
              BalanceOf(journals'[l], a) = BalanceOf(journals[l], a) + j[a]
    BY <2>6, BalanceGrows DEF Accounts
  <2>8. \A c : Paid(l, c)' = Paid(l, c)
    BY <1>7 DEF Disbursed, Paid
  <2> QED
    BY <1>2, <1>3, <1>4, <1>7, <2>1, <2>3, <2>4, <2>7, <2>8
       DEF Disbursed, Accounts, Columns, InLedger
<1>8. CASE Cancelled(l)
  <2>1. /\ loans'[l].outstanding = loans[l].outstanding
        /\ loans'[l].disbursed = loans[l].disbursed
    BY <1>2, <1>8 DEF Cancelled, Row
  <2> QED
    BY <1>5, <1>8, <2>1 DEF Cancelled, Unrecorded
<1>9. CASE Charged(l)
  BY <1>5, <1>9 DEF Charged, Unrecorded
<1>10. CASE \E p : Posted(l, p)
  <2>1. PICK p : Posted(l, p)
    BY <1>10
  <2> DEFINE j == PaymentJournal(p)
  <2>2. /\ p \in Payment /\ p.amount \in Nat /\ p.interest \in Nat
        /\ p.principal \in Nat /\ p.credit \in Nat /\ p.remaining_principal \in Nat
    BY <2>1 DEF Posted, Payment
  <2>3. loans[l].disbursed # NoDay /\ loans'[l].disbursed # NoDay
    BY <1>1, <2>1 DEF Posted, Dated
  <2>4. /\ j.cash = p.amount /\ j.receivable = -p.principal
        /\ j.credit = -p.credit /\ j.income = -p.interest
        /\ j.event = "payment" /\ j.key = p.key
    BY DEF PaymentJournal
  <2>5. j \in Journal
    BY <2>2 DEF PaymentJournal, Payment, Journal
  <2>6. j \notin journals[l]
    <3>1. journals[l] \subseteq {DisbursementJournal(l)}
                                 \cup {PaymentJournal(payments[l][i]) : i \in DOMAIN payments[l]}
      BY <1>1 DEF Together
    <3>2. DisbursementJournal(l).event # "payment"
      BY DEF DisbursementJournal
    <3>3. \A i \in DOMAIN payments[l] : PaymentJournal(payments[l][i]).key # p.key
      BY <2>1 DEF Posted, Book!Unused, PaymentJournal
    <3> HIDE DEF j
    <3> QED
      BY <2>4, <3>1, <3>2, <3>3
  <2> HIDE DEF j
  <2>7. Entered(journals[l], journals'[l], j)
    BY <1>2, <1>4, <2>1, <2>5, <2>6 DEF Posted, Entered, j
  <2>8. /\ IsFiniteSet(journals'[l])
        /\ \A a \in Accounts :
              BalanceOf(journals'[l], a) = BalanceOf(journals[l], a) + j[a]
    BY <2>7, BalanceGrows DEF Accounts
  <2>9. \A c \in Columns : Paid(l, c)' = Paid(l, c) + p[c]
    BY <1>2, <2>1, <2>2, PaidAppended DEF Paid, Posted
  <2>10. BalanceOf(journals'[l], "receivable") = loans'[l].outstanding
    <3>1. BalanceOf(journals'[l], "receivable") = loans[l].outstanding + (-p.principal)
      BY <1>4, <2>3, <2>4, <2>8 DEF Accounts
    <3> QED
      BY <1>2, <2>1, <2>2, <3>1 DEF Posted
  <2>11. BalanceOf(journals'[l], "income") = -Paid(l, "interest")'
    BY <1>3, <1>4, <2>2, <2>4, <2>8, <2>9 DEF Accounts, Columns
  <2>12. BalanceOf(journals'[l], "credit") = -Paid(l, "credit")'
    BY <1>3, <1>4, <2>2, <2>4, <2>8, <2>9 DEF Accounts, Columns
  <2>13. BalanceOf(journals'[l], "cash") = Paid(l, "amount")' - Principal[l]
    <3>1. BalanceOf(journals'[l], "cash") = Paid(l, "amount") - Principal[l] + p.amount
      BY <1>4, <2>3, <2>4, <2>8 DEF Accounts
    <3>2. Paid(l, "amount")' = Paid(l, "amount") + p.amount /\ Paid(l, "amount") \in Int
      BY <1>3, <2>9 DEF Columns
    <3> QED
      BY <1>2, <2>2, <3>1, <3>2
  <2> QED
    BY <2>3, <2>8, <2>10, <2>11, <2>12, <2>13 DEF InLedger
<1> QED
  BY <1>1, <1>6, <1>7, <1>8, <1>9, <1>10, LoanStep

\* Rows, payments, charges, journals and intents of every loan agree for ever.
THEOREM LedgerInvariant == Spec => []LInv
<1>1. HInv /\ [Next]_vars => HInv'
  BY NextIInv, FreshKept, HistoryKept DEF HInv
<1>2. LInv /\ [Next]_vars => LInv'
  BY <1>1, DatedKept, TogetherKept, ChargedOnceKept, InLedgerKept DEF LInv
<1> QED
  BY <1>2, InitLInv, PTL DEF Spec

\* No disbursement or payment is on record without its journal and its intent,
\* nor the other way round, whichever session failed or was retried when.
THEOREM EventsComplete == Spec => []EventsRecordedTogether
<1>1. LInv => EventsRecordedTogether
  BY DEF LInv, EventsRecordedTogether, Together
<1> QED
  BY <1>1, LedgerInvariant, PTL

\* Each due date is charged once, by payments and accrual runs together, and
\* every centavo charged is paid or still accrued.
THEOREM EachPeriodChargedOnce == Spec => []InterestChargedOnce
<1>1. LInv => InterestChargedOnce
  BY DEF LInv, InterestChargedOnce, ChargedOnce, InterestOn
<1> QED
  BY <1>1, LedgerInvariant, PTL

\* The general ledger agrees with the loan book for any number of loans: the sum
\* of the loans' ledgers is the ledger of their sums.
LEMMA LoansAddUp == LInv => LedgerAgreesWithLoans
<1> SUFFICES ASSUME LInv
             PROVE  LedgerAgreesWithLoans
  OBVIOUS
<1> DEFINE D == {l \in Loan : loans[l].disbursed # NoDay}
           balance(a)  == [l \in Loan |-> LoanBalance(l, a)]
           received(c) == [l \in Loan |-> Paid(l, c)]
           owed == [l \in D |-> loans[l].outstanding]
           lent == [l \in D |-> Principal[l]]
<1>1. IsFiniteSet(Loan) /\ D \in SUBSET Loan
  BY ContractAssumption
<1>2. IsFiniteSet(D)
  BY <1>1, FS_Subset
<1>3. ASSUME NEW l \in Loan
      PROVE  /\ loans[l].outstanding \in Int /\ Principal[l] \in Int
             /\ \A c \in Columns : Paid(l, c) \in Int
             /\ LoanBalance(l, "receivable") = IF l \in D THEN loans[l].outstanding ELSE 0
             /\ LoanBalance(l, "income") = -Paid(l, "interest")
             /\ LoanBalance(l, "credit") = -Paid(l, "credit")
             /\ LoanBalance(l, "cash")
                  = Paid(l, "amount") - IF l \in D THEN Principal[l] ELSE 0
  <2>1. InLedger(l) /\ IInv
    BY DEF LInv, HInv
  <2>2. loans[l].outstanding \in Nat /\ Principal[l] \in Nat /\ payments[l] \in Seq(Payment)
    BY <2>1, RowTypes, ContractAssumption
  <2>3. \A c \in Columns : Paid(l, c) \in Int
    BY <2>2, PaidInt DEF Paid
  <2>4. \A a : LoanBalance(l, a) = BalanceOf(journals[l], a)
    BY DEF LoanBalance, BalanceOf
  <2> QED
    BY <2>1, <2>2, <2>3, <2>4 DEF InLedger
<1>4. Balance("receivable") = SumFunction(owed)
  <2> DEFINE f == balance("receivable")
  <2>1. /\ DOMAIN f = Loan /\ DOMAIN owed = D
        /\ \A l \in D : f[l] \in Int /\ f[l] = owed[l]
        /\ \A l \in Loan \ D : f[l] = 0
    BY <1>3
  <2> HIDE DEF f, owed, D
  <2>2. SumFunctionOnSet(f, Loan) = SumFunctionOnSet(f, D)
    BY <1>1, <2>1, SumOfNonzero
  <2>3. SumFunctionOnSet(f, D) = SumFunctionOnSet(owed, D)
    BY <1>2, <2>1, SumSame
  <2> QED
    BY <2>1, <2>2, <2>3 DEF Balance, SumFunction, f
<1>5. ASSUME NEW a, NEW c \in Columns, \A l \in Loan : LoanBalance(l, a) = -Paid(l, c)
      PROVE  Balance(a) = -SumFunction(received(c))
  <2> DEFINE f == received(c)
             g == balance(a)
  <2>1. /\ DOMAIN f = Loan /\ DOMAIN g = Loan
        /\ \A l \in Loan : f[l] \in Int /\ g[l] = -f[l]
    BY <1>3, <1>5
  <2> HIDE DEF f, g
  <2>2. SumFunctionOnSet(g, Loan) = -SumFunctionOnSet(f, Loan)
    BY <1>1, <2>1, SumOpposite
  <2> QED
    BY <2>1, <2>2 DEF Balance, SumFunction, f, g
<1>6. Balance("cash") = SumFunction(received("amount")) - SumFunction(lent)
  <2> DEFINE f == received("amount")
             g == [l \in Loan |-> IF l \in D THEN Principal[l] ELSE 0]
             h == balance("cash")
  <2>1. /\ DOMAIN f = Loan /\ DOMAIN h = Loan /\ DOMAIN lent = D
        /\ \A l \in Loan : f[l] \in Int /\ g[l] \in Int /\ h[l] = f[l] - g[l]
        /\ \A l \in D : g[l] \in Int /\ g[l] = lent[l]
        /\ \A l \in Loan \ D : g[l] = 0
    BY <1>3 DEF Columns
  <2> HIDE DEF f, g, h, lent, D
  <2>2. SumFunctionOnSet(h, Loan) = SumFunctionOnSet(f, Loan) - SumFunctionOnSet(g, Loan)
    BY <1>1, <2>1, SumMinus
  <2>3. SumFunctionOnSet(g, Loan) = SumFunctionOnSet(g, D)
    BY <1>1, <2>1, SumOfNonzero
  <2>4. SumFunctionOnSet(g, D) = SumFunctionOnSet(lent, D)
    BY <1>2, <2>1, SumSame
  <2> QED
    BY <2>1, <2>2, <2>3, <2>4 DEF Balance, SumFunction, f, h
<1>7. /\ Balance("income") = -SumFunction(received("interest"))
      /\ Balance("credit") = -SumFunction(received("credit"))
  BY <1>3, <1>5 DEF Columns
<1> QED
  BY <1>4, <1>6, <1>7 DEF LedgerAgreesWithLoans

\* Receivables, income, customer credit and cash are what the loans and their
\* payments say, after any interleaving, failure and retry.
THEOREM LedgerAgrees == Spec => []LedgerAgreesWithLoans
  BY LoansAddUp, LedgerInvariant, PTL

---------------------------------------------------------------------------
(* History is only added to, and answers are about what is on record.      *)

\* q is the beginning of r,
Begins(q, r) == \E n \in 0 .. Len(r) : q = SubSeq(r, 1, n)

\* as it is when r is q extended.
LEMMA Prefix ==
  ASSUME NEW S, NEW q \in Seq(S), NEW e \in Seq(S)
  PROVE  Begins(q, q \o e)
<1> DEFINE r == q \o e
<1>1. Len(q) \in 0 .. Len(r) /\ q = SubSeq(r, 1, Len(q))
  OBVIOUS
<1> HIDE DEF r
<1>2. Begins(q, r)
  BY <1>1 DEF Begins
<1> QED
  BY <1>2 DEF r

\* What a step does to one loan only adds to its history, and nothing is done to
\* a loan that is paid or cancelled.
LEMMA HistoryGrows ==
  ASSUME IInv, [Next]_vars, NEW l \in Loan
  PROVE  /\ Begins(payments[l], payments'[l])
         /\ Begins(charges[l], charges'[l])
         /\ journals[l] \subseteq journals'[l]
         /\ outbox[l] \subseteq outbox'[l]
         /\ loans[l].status \in {"paid", "cancelled"} => loans'[l] = loans[l]
<1>1. /\ payments[l] \in Seq(Payment) /\ charges[l] \in Seq(Nat)
      /\ loans[l].outstanding \in Nat
  BY RowTypes, TypeOKParts DEF IInv, TablesOK
<1>2. /\ payments'[l] = payments[l] => Begins(payments[l], payments'[l])
      /\ charges'[l] = charges[l] => Begins(charges[l], charges'[l])
  <2>1. payments[l] = payments[l] \o << >> /\ charges[l] = charges[l] \o << >>
    BY <1>1
  <2>2. << >> \in Seq(Payment) /\ << >> \in Seq(Nat)
    OBVIOUS
  <2>3. /\ Begins(payments[l], payments[l] \o << >>)
        /\ Begins(charges[l], charges[l] \o << >>)
    BY <1>1, <2>2, Prefix
  <2> QED
    BY <2>1, <2>3
<1>3. ASSUME NEW n, NEW paid, ChargedPeriods(l, n, paid)
      PROVE  Begins(charges[l], charges'[l])
  <2> DEFINE e == [i \in 1 .. n |-> loans[l].outstanding]
  <2>1. n \in Nat /\ charges'[l] = charges[l] \o e
    BY <1>3 DEF ChargedPeriods
  <2>2. e \in Seq(Nat)
    BY <1>1, <2>1
  <2> HIDE DEF e
  <2>3. Begins(charges[l], charges[l] \o e)
    BY <1>1, <2>2, Prefix
  <2> QED
    BY <2>1, <2>3
<1>4. CASE Untouched(l)
  BY <1>2, <1>4 DEF Untouched, Unrecorded
<1>5. CASE Disbursed(l)
  BY <1>2, <1>5 DEF Disbursed
<1>6. CASE Cancelled(l)
  BY <1>2, <1>6 DEF Cancelled, Unrecorded
<1>7. CASE Charged(l)
  BY <1>2, <1>3, <1>7 DEF Charged, Unrecorded
<1>8. CASE \E p : Posted(l, p)
  <2>1. PICK p : Posted(l, p)
    BY <1>8
  <2>2. p \in Payment /\ payments'[l] = payments[l] \o <<p>>
    BY <2>1 DEF Posted
  <2>3. <<p>> \in Seq(Payment)
    BY <2>2
  <2>4. Begins(payments[l], payments[l] \o <<p>>)
    BY <1>1, <2>3, Prefix
  <2> QED
    BY <1>3, <2>1, <2>2, <2>4 DEF Posted
<1> QED
  BY <1>4, <1>5, <1>6, <1>7, <1>8, LoanStep

\* No step rewrites history, and a paid or cancelled loan's row is final,
\* whatever arrives for it.
THEOREM HistoryNeverRewritten == Spec => HistoryIsFinal
<1> DEFINE Grows ==
      \A l \in Loan :
        /\ \E n \in 0 .. Len(payments'[l]) : payments[l] = SubSeq(payments'[l], 1, n)
        /\ \E n \in 0 .. Len(charges'[l]) : charges[l] = SubSeq(charges'[l], 1, n)
        /\ journals[l] \subseteq journals'[l]
        /\ outbox[l] \subseteq outbox'[l]
        /\ loans[l].status \in {"paid", "cancelled"} => loans'[l] = loans[l]
<1>1. IInv /\ [Next]_vars => [Grows]_tables
  BY HistoryGrows DEF Begins
<1> QED
  BY <1>1, InductiveInvariant, PTL DEF Spec, HistoryIsFinal

\* The payment x of loan l is on record.
OnRecord(l, x) == \E i \in DOMAIN payments[l] : payments[l][i] = x

\* What sessions hold ready to post is posted by sessions that post payments.
PostedByPayers ==
  \A s \in Session : kind[s] # "pay" =>
     \A l \in DOMAIN written[s] : written[s][l].posted = << >>

\* Only post_payment's session ever carries a payment.
LEMMA PostedByPayersKept ==
  ASSUME IInv, PostedByPayers, [Next]_vars
  PROVE  PostedByPayers'
<1> USE DEF PostedByPayers
<1>1. /\ phase \in [Session -> {"idle", "locking", "flushed"}]
      /\ kind \in [Session -> Kind] /\ DOMAIN written = Session
  BY TypeOKParts DEF IInv, SessionsOK, RowsOK
<1>2. ASSUME NEW s \in Session, NEW w, Flush(s, w),
             kind[s] # "pay" => \A l \in DOMAIN w : w[l].posted = << >>
      PROVE  PostedByPayers'
  BY <1>1, <1>2 DEF Flush
<1>3. ASSUME NEW s \in Session, Closed(s)
      PROVE  PostedByPayers'
  <2>1. /\ \A t \in Session \ {s} : kind'[t] = kind[t] /\ written'[t] = written[t]
        /\ kind'[s] = "pay"
    BY <1>1, <1>3 DEF Closed
  <2> QED
    BY <2>1
<1>4. CASE UNCHANGED <<kind, written>>
  BY <1>4
<1>5. ASSUME NEW s \in Session, SessionStep(s)
      PROVE  PostedByPayers'
  <2> USE DEF SessionStep
  <2>1. ASSUME NEW k, NEW day, NEW scan, Open(s, k, day, scan)
        PROVE  PostedByPayers'
    <3>1. written[s] = Nothing
      BY <2>1 DEF Open, IInv, StagedWritesAreSound
    <3>2. DOMAIN written[s] = {}
      BY <3>1 DEF Nothing
    <3>3. written' = written /\ \A t \in Session \ {s} : kind'[t] = kind[t]
      BY <1>1, <2>1 DEF Open
    <3> QED
      BY <3>2, <3>3
  <2>2. CASE \E k \in Kind, l \in Loan : OpenOnLoan(s, k, l)
    BY <2>1, <2>2 DEF OpenOnLoan
  <2>3. CASE OpenAccrual(s)
    BY <2>1, <2>3 DEF OpenAccrual
  <2>4. CASE LockRow(s)
    BY <1>4, <2>4 DEF LockRow
  <2>5. CASE DisburseLoan(s)
    <3>1. PICK l : Flush(s, [x \in {l} |-> Disbursement(l, read[s][l], today)]) \/ Refused(s)
      BY <2>5 DEF DisburseLoan
    <3> DEFINE w == [x \in {l} |-> Disbursement(l, read[s][l], today)]
    <3>2. \A x \in DOMAIN w : w[x].posted = << >>
      BY DEF Disbursement
    <3> HIDE DEF w
    <3>3. Flush(s, w) \/ Refused(s)
      BY <3>1 DEF w
    <3> QED
      BY <1>2, <1>3, <3>2, <3>3 DEF Refused
  <2>6. CASE CancelLoan(s)
    <3>1. PICK l : Flush(s, [x \in {l} |-> Cancellation(read[s][l])]) \/ Refused(s)
      BY <2>6 DEF CancelLoan
    <3> DEFINE w == [x \in {l} |-> Cancellation(read[s][l])]
    <3>2. \A x \in DOMAIN w : w[x].posted = << >>
      BY DEF Cancellation
    <3> HIDE DEF w
    <3>3. Flush(s, w) \/ Refused(s)
      BY <3>1 DEF w
    <3> QED
      BY <1>2, <1>3, <3>2, <3>3 DEF Refused
  <2>7. CASE ReplayPayment(s)
    BY <1>3, <2>7 DEF ReplayPayment
  <2>8. CASE PostPayment(s)
    <3>1. kind[s] = "pay" /\ (Refused(s) \/ \E w : Flush(s, w))
      BY <2>8 DEF PostPayment, Running
    <3> QED
      BY <1>2, <1>3, <3>1 DEF Refused
  <2>9. CASE AccrueInterest(s)
    <3>1. PICK S : Flush(s, [l \in S |-> Accrual(l, read[s][l], asOf[s])])
      BY <2>9 DEF AccrueInterest
    <3> DEFINE w == [l \in S |-> Accrual(l, read[s][l], asOf[s])]
    <3>2. \A x \in DOMAIN w : w[x].posted = << >>
      BY DEF Accrual
    <3> HIDE DEF w
    <3>3. Flush(s, w)
      BY <3>1 DEF w
    <3> QED
      BY <1>2, <3>2, <3>3
  <2>10. CASE Respond(s) \/ LoseAnswer(s)
    BY <1>3, <2>10 DEF Respond, LoseAnswer
  <2>11. CASE Fail(s) \/ DeadlockVictim(s)
    BY <1>3, <2>11 DEF Fail, DeadlockVictim, Refused
  <2> QED
    BY <1>5, <2>2, <2>3, <2>4, <2>5, <2>6, <2>7, <2>8, <2>9, <2>10, <2>11
<1>6. CASE Tick
  BY <1>4, <1>6 DEF Tick, sessions
<1>7. CASE UNCHANGED vars
  BY <1>4, <1>7 DEF vars, sessions
<1> QED
  BY <1>5, <1>6, <1>7 DEF Next

\* A payment on record stays on record.
LEMMA StaysOnRecord ==
  ASSUME IInv, [Next]_vars, NEW l \in Loan, NEW x, OnRecord(l, x)
  PROVE  OnRecord(l, x)'
<1>1. payments[l] \in Seq(Payment)
  BY RowTypes
<1>2. CASE payments'[l] = payments[l]
  BY <1>2 DEF OnRecord
<1>3. CASE \E p : Posted(l, p)
  <2>1. PICK p \in Payment : payments'[l] = payments[l] \o <<p>>
    BY <1>3 DEF Posted
  <2>2. PICK i \in DOMAIN payments[l] : payments[l][i] = x
    BY DEF OnRecord
  <2>3. i \in DOMAIN payments'[l] /\ payments'[l][i] = x
    BY <1>1, <2>1, <2>2, AppendOne
  <2> QED
    BY <2>3 DEF OnRecord
<1> QED
  BY <1>2, <1>3, LoanStep DEF Untouched, Disbursed, Cancelled, Charged

\* An answer is about a payment that is on record when it is given, if the
\* caller of post_payment commits.
LEMMA AnswerOnRecord ==
  ASSUME "pay" \in Committing, IInv, PostedByPayers, [Next]_vars,
         NEW a \in acked', a \notin acked
  PROVE  a.loan \in Loan /\ OnRecord(a.loan, a.payment)'
<1>1. PICK s \in Session : ReplayPayment(s) \/ Respond(s)
  <2>1. ~ UNCHANGED acked
    OBVIOUS
  <2>2. ASSUME NEW s \in Session, SessionStep(s)
        PROVE  ReplayPayment(s) \/ Respond(s)
    BY <2>1, <2>2 DEF SessionStep, OpenOnLoan, OpenAccrual, Open, LockRow, DisburseLoan,
       CancelLoan, PostPayment, AccrueInterest, Flush, LoseAnswer, Fail, DeadlockVictim,
       Refused
  <2> QED
    BY <2>1, <2>2 DEF Next, Tick, vars
<1>2. TablesOK /\ RowsOK
  BY TypeOKParts DEF IInv
<1>3. CASE ReplayPayment(s)
  <2>1. PICK l \in Held(s), key \in Key : \E i \in FindIdempotent(l, read[s][l], key) :
           /\ acked' = acked \/ acked' = acked \cup {[loan |-> l, payment |-> payments[l][i]]}
           /\ UNCHANGED <<tables, today>>
    BY <1>3 DEF ReplayPayment
  <2>2. PICK i \in DOMAIN payments[l] :
           /\ acked' = acked \/ acked' = acked \cup {[loan |-> l, payment |-> payments[l][i]]}
           /\ payments' = payments
    BY <2>1 DEF FindIdempotent, tables
  <2>3. a = [loan |-> l, payment |-> payments[l][i]]
    BY <2>2
  <2>4. l \in Loan
    BY <1>2 DEF RowsOK
  <2> QED
    BY <2>2, <2>3, <2>4 DEF OnRecord
<1>4. CASE Respond(s)
  <2>1. ~Collides(s)
    BY NoCollision
  <2>2. a \in NewlyPosted(s) /\ Commit(s)
    BY <1>4, <2>1 DEF Respond
  <2>3. PICK l \in DOMAIN written[s] : \E i \in DOMAIN written[s][l].posted :
           a = [loan |-> l, payment |-> written[s][l].posted[i]]
    BY <2>2 DEF NewlyPosted
  <2>4. PICK i \in DOMAIN written[s][l].posted :
           a = [loan |-> l, payment |-> written[s][l].posted[i]]
    BY <2>3
  <2>5. kind[s] = "pay"
    <3>1. written[s][l].posted # << >>
      BY <2>4
    <3> QED
      BY <3>1 DEF PostedByPayers
  <2>6. Book!Apply(written[s])
    BY <2>1, <2>2, <2>5 DEF Commit
  <2>7. /\ l \in Loan /\ payments[l] \in Seq(Payment)
        /\ written[s][l] \in LoanWrite
    BY <1>2 DEF RowsOK, TablesOK
  <2>8. written[s][l].posted \in Seq(Payment)
    BY <2>7 DEF LoanWrite
  <2>9. payments'[l] = payments[l] \o written[s][l].posted
    BY <2>6, <2>7 DEF Book!Apply
  <2>10. /\ Len(payments[l]) + i \in DOMAIN payments'[l]
         /\ payments'[l][Len(payments[l]) + i] = written[s][l].posted[i]
    <3>1. PICK q \in Seq(Payment), e \in Seq(Payment) :
             q = payments[l] /\ e = written[s][l].posted
      BY <2>7, <2>8
    <3>2. i \in 1 .. Len(e) /\ payments'[l] = q \o e
      BY <2>9, <3>1
    <3>3. Len(q) + i \in DOMAIN (q \o e) /\ (q \o e)[Len(q) + i] = e[i]
      BY <3>2
    <3> QED
      BY <3>1, <3>2, <3>3
  <2> QED
    BY <2>4, <2>7, <2>10 DEF OnRecord
<1> QED
  BY <1>1, <1>3, <1>4

\* No payment is put on record if the caller of post_payment does not commit.
LEMMA NothingPosted ==
  ASSUME "pay" \notin Committing, IInv, PostedByPayers, [Next]_vars,
         NEW l \in Loan, payments[l] = << >>
  PROVE  payments'[l] = << >>
<1>1. ASSUME NEW s \in Session, Commit(s)
      PROVE  payments'[l] = << >>
  <2>1. CASE UNCHANGED tables
    BY <2>1 DEF tables
  <2>2. CASE kind[s] \in Committing /\ Book!Apply(written[s])
    <3>1. l \in DOMAIN written[s] => written[s][l].posted = << >>
      BY <2>2 DEF PostedByPayers
    <3>2. payments'[l] = IF l \in DOMAIN written[s]
                         THEN payments[l] \o written[s][l].posted ELSE payments[l]
      BY <2>2 DEF Book!Apply
    <3> QED
      BY <3>1, <3>2
  <2> QED
    BY <1>1, <2>1, <2>2 DEF Commit
<1>2. CASE UNCHANGED payments
  BY <1>2
<1>3. ASSUME NEW s \in Session, SessionStep(s)
      PROVE  UNCHANGED payments \/ Commit(s)
  BY <1>3 DEF SessionStep, OpenOnLoan, OpenAccrual, Open, LockRow, DisburseLoan, CancelLoan,
     ReplayPayment, PostPayment, AccrueInterest, Flush, Respond, LoseAnswer, Fail,
     DeadlockVictim, Refused, tables
<1>4. UNCHANGED payments \/ \E s \in Session : Commit(s)
  BY <1>3 DEF Next, Tick, Book!Tick, Book!tables, vars, tables
<1> QED
  BY <1>1, <1>2, <1>4

\* Whether a payment the owner was told is recorded stays on record, through
\* races, retries, failures and crashes, is decided by the caller of
\* post_payment alone: if it commits, every such payment does; if it does not,
\* as the endpoint is written, no payment is ever on record.
THEOREM CommitDecidesAnswers ==
  Spec => [](IF "pay" \in Committing THEN AnsweredPaymentsOnRecord
             ELSE \A l \in Loan : payments[l] = << >>)
<1> DEFINE AInv == PostedByPayers /\
                     IF "pay" \in Committing
                     THEN \A a \in acked : a.loan \in Loan /\ OnRecord(a.loan, a.payment)
                     ELSE \A l \in Loan : payments[l] = << >>
<1>1. Init => AInv
  <2> SUFFICES ASSUME Init
               PROVE  AInv
    OBVIOUS
  <2>1. \A s \in Session : DOMAIN written[s] = {}
    BY DEF Init, Nothing
  <2>2. acked = {} /\ \A l \in Loan : payments[l] = << >>
    BY DEF Init, Book!Init
  <2> QED
    BY <2>1, <2>2 DEF PostedByPayers
<1>2. IInv /\ AInv /\ [Next]_vars => AInv'
  <2> SUFFICES ASSUME IInv, AInv, [Next]_vars
               PROVE  AInv'
    OBVIOUS
  <2>1. PostedByPayers'
    BY PostedByPayersKept
  <2>2. CASE "pay" \in Committing
    <3>1. ASSUME NEW a \in acked'
          PROVE  a.loan \in Loan /\ OnRecord(a.loan, a.payment)'
      BY <2>2, <3>1, StaysOnRecord, AnswerOnRecord
    <3> QED
      BY <2>1, <2>2, <3>1
  <2>3. CASE "pay" \notin Committing
    <3>1. \A l \in Loan : payments'[l] = << >>
      BY <2>3, NothingPosted
    <3> QED
      BY <2>1, <2>3, <3>1
  <2> QED
    BY <2>2, <2>3
<1>3. AInv => IF "pay" \in Committing THEN AnsweredPaymentsOnRecord
              ELSE \A l \in Loan : payments[l] = << >>
  BY DEF OnRecord, AnsweredPaymentsOnRecord
<1> HIDE DEF AInv
<1> QED
  BY <1>1, <1>2, <1>3, InductiveInvariant, PTL DEF Spec
=============================================================================
