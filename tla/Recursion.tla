----------------------------- MODULE Recursion -----------------------------
(***************************************************************************)
(* Definitions over finite sets that take one element after the other, and *)
(* the sum the modules define so (MapThenSumSet): what they are worth, for *)
(* every finite set.                                                       *)
(*                                                                         *)
(* An induction over the subsets of a finite set is had from a smallest    *)
(* counterexample (SmallestSubset): being a proper subset is well founded  *)
(* on them.  That a recursive definition has a value is then shown by      *)
(* writing the function down (UnfoldsAlways), that it has one only by      *)
(* looking at a smallest set on which two of them differ (UnfoldsOnce).    *)
(***************************************************************************)
EXTENDS Integers, FiniteSetTheorems, WellFoundedInduction, SequencesExt, SequenceTheorems, TLAPS

\* Of the subsets of a finite set that have a property, one is smallest: none
\* of its own subsets has it.
LEMMA SmallestSubset ==
    ASSUME NEW S, IsFiniteSet(S), NEW D, D \subseteq SUBSET S, D # {}
    PROVE  \E s \in D : \A t \in SUBSET s : t # s => t \notin D
<1> DEFINE R == StrictSubsetOrdering(S)
<1>1. IsWellFoundedOn(R, FiniteSubsetsOf(S)) /\ FiniteSubsetsOf(S) = SUBSET S
  BY FS_StrictSubsetOrderingWellFounded, FS_FiniteSubsetsOfFinite
<1>2. \A x, y \in SUBSET S : <<y, x>> \in R <=> (y \subseteq x /\ y # x)
  BY DEF StrictSubsetOrdering
<1> HIDE DEF R
<1>3. PICK s \in D : \A t \in D : ~ (<<t, s>> \in R)
  BY <1>1, WFMin
<1>4. ASSUME NEW t \in SUBSET s, t # s PROVE t \notin D
  <2>1. t \in SUBSET S /\ s \in SUBSET S
    OBVIOUS
  <2> QED
    BY <1>2, <1>3, <1>4, <2>1
<1> QED
  BY <1>4

\* g is what F makes of the subsets of T, the element c chooses at a time.
Unfolds(g, T, base, c, F) == 
    \A s \in SUBSET T : g[s] = IF s = {} THEN base ELSE F[<<c[s], g[s \ {c[s]}]>>]

\* There is at most one such g: two of them agree where both are defined.
LEMMA UnfoldsOnce ==
    ASSUME NEW S, IsFiniteSet(S), NEW T \in SUBSET S, NEW U \in SUBSET S, NEW base, NEW F, NEW g, NEW h,
           NEW c, \A s \in SUBSET S : s # {} => c[s] \in s,
           Unfolds(g, T, base, c, F), Unfolds(h, U, base, c, F)
    PROVE  \A s \in SUBSET (T \cap U) : g[s] = h[s]
<1> DEFINE D == {s \in SUBSET (T \cap U) : g[s] # h[s]}
<1>1. SUFFICES ASSUME D # {} PROVE FALSE
  OBVIOUS
<1>2. PICK s \in D : \A t \in SUBSET s : t # s => t \notin D
  <2>1. D \subseteq SUBSET S
    OBVIOUS
  <2> HIDE DEF D
  <2> QED
    BY <1>1, <2>1, SmallestSubset
<1>3. s \subseteq T /\ s \subseteq U /\ g[s] # h[s]
  OBVIOUS
<1>4. s # {} /\ c[s] \in s
  BY <1>3 DEF Unfolds
<1>5. g[s \ {c[s]}] = h[s \ {c[s]}]
  <2>1. s \ {c[s]} \in SUBSET s /\ s \ {c[s]} # s
    BY <1>4
  <2>2. s \ {c[s]} \notin D
    BY <1>2, <2>1
  <2> QED
    BY <1>3, <2>1, <2>2
<1>6. g[s] = F[<<c[s], g[s \ {c[s]}]>>] /\ h[s] = F[<<c[s], h[s \ {c[s]}]>>]
  BY <1>3, <1>4 DEF Unfolds
<1> QED
  BY <1>3, <1>5, <1>6

\* And there is one, on every finite set.
LEMMA UnfoldsAlways ==
    ASSUME NEW S, IsFiniteSet(S), NEW V, NEW base \in V, NEW F \in [S \X V -> V],
           NEW c, \A s \in SUBSET S : s # {} => c[s] \in s
    PROVE  \E g \in [SUBSET S -> V] : Unfolds(g, S, base, c, F)
<1> DEFINE Good(T, g) == g \in [SUBSET T -> V] /\ Unfolds(g, T, base, c, F)
<1> DEFINE D == {T \in SUBSET S : ~\E g : Good(T, g)}
<1>1. SUFFICES ASSUME D # {} PROVE FALSE
  <2>1. S \in SUBSET S
    OBVIOUS
  <2> QED
    BY <1>1, <2>1
<1>2. PICK T \in D : \A t \in SUBSET T : t # T => t \notin D
  <2>1. D \subseteq SUBSET S
    OBVIOUS
  <2> HIDE DEF D
  <2> QED
    BY <1>1, <2>1, SmallestSubset
<1>3. T \in SUBSET S /\ ~\E g : Good(T, g)
  OBVIOUS
<1>4. \A t \in SUBSET T : t # T => \E g : Good(t, g)
  BY <1>2, <1>3
<1> DEFINE Of(t) == CHOOSE g : Good(t, g)
<1> DEFINE v == [t \in SUBSET T |-> IF t # T THEN Of(t)[t]
                                     ELSE IF T = {} THEN base ELSE F[<<c[T], Of(T \ {c[T]})[T \ {c[T]}]>>]]
<1>5. \A t \in SUBSET T : t # T => Good(t, Of(t))
  BY <1>4
<1>6. \A t \in SUBSET T : t # T => Of(t)[t] \in V
  BY <1>5
<1>7. v \in [SUBSET T -> V]
  <2>1. ASSUME NEW t \in SUBSET T PROVE v[t] \in V
    <3>1. CASE t # T
      BY <1>6, <3>1
    <3>2. CASE t = T /\ T = {}
      BY <3>2
    <3>3. CASE t = T /\ T # {}
      <4>1. c[T] \in T
        BY <1>3, <3>3
      <4>2. Of(T \ {c[T]})[T \ {c[T]}] \in V
        BY <1>6, <4>1
      <4> HIDE DEF Of
      <4>3. F[<<c[T], Of(T \ {c[T]})[T \ {c[T]}]>>] \in V
        BY <1>3, <4>1, <4>2
      <4> QED
        BY <3>3, <4>3
    <3> QED
      BY <3>1, <3>2, <3>3
  <2> HIDE DEF Of
  <2> QED
    BY <2>1
<1>8. Unfolds(v, T, base, c, F)
  <2>1. ASSUME NEW s \in SUBSET T PROVE v[s] = IF s = {} THEN base ELSE F[<<c[s], v[s \ {c[s]}]>>]
    <3>1. CASE s = {}
      <4>1. CASE s # T
        <5>1. Unfolds(Of(s), s, base, c, F)
          BY <1>5, <4>1
        <5>2. Of(s)[s] = base
          BY <3>1, <5>1 DEF Unfolds
        <5> HIDE DEF Of
        <5> QED
          BY <3>1, <4>1, <5>2
      <4>2. CASE s = T
        BY <3>1, <4>2
      <4> QED
        BY <4>1, <4>2
    <3>2. CASE s # {}
      <4> DEFINE r == s \ {c[s]}
      <4>1. c[s] \in s /\ r \in SUBSET T /\ r # T /\ r # s
        BY <1>3, <3>2
      <4>2. v[r] = Of(r)[r]
        <5> HIDE DEF Of, r
        <5> QED
          BY <4>1
      <4>3. CASE s = T
        <5> HIDE DEF Of
        <5> QED
          BY <3>2, <4>2, <4>3
      <4>4. CASE s # T
        <5>1. Unfolds(Of(s), s, base, c, F) /\ Unfolds(Of(r), r, base, c, F)
          BY <1>5, <4>1, <4>4
        <5>2. s \in SUBSET S /\ r \in SUBSET S /\ r \in SUBSET (s \cap r)
          BY <1>3
        <5> HIDE DEF Of
        <5>3. Of(s)[r] = Of(r)[r]
          <6> HIDE DEF r
          <6> QED
            BY <5>1, <5>2, UnfoldsOnce
        <5>4. Of(s)[s] = F[<<c[s], Of(s)[r]>>]
          BY <3>2, <5>1 DEF Unfolds
        <5> HIDE DEF r
        <5>5. v[s] = Of(s)[s]
          BY <4>4
        <5> HIDE DEF v
        <5> QED
          BY <3>2, <4>2, <5>3, <5>4, <5>5 DEF r
      <4> QED
        BY <4>3, <4>4
    <3> QED
      BY <3>1, <3>2, SMTT(30)
  <2> HIDE DEF v, Of
  <2> QED
    BY <2>1, SMTT(30) DEF Unfolds
<1> QED
  BY <1>3, <1>7, <1>8

-----------------------------------------------------------------------------
(***************************************************************************)
(* The sum of the community modules.                                       *)
(***************************************************************************)
\* What the modules write as MapThenSumSet, for a function.
SumOf(w, S) == MapThenSumSet(LAMBDA x : w[x], S)

\* A function that takes an element at a time, as a sum does.
Takes(g, w, S) ==
    /\ g \in [SUBSET S -> Int] /\ g[{}] = 0
    /\ \A T \in SUBSET S : T # {} => \E x \in T : g[T] = w[x] + g[T \ {x}]

\* The fold that MapThenSumSet is takes the elements in an order that CHOOSE
\* settles: it is one of the functions that unfold.
LEMMA SumUnfolds ==
    ASSUME NEW S, IsFiniteSet(S), NEW w \in [S -> Int]
    PROVE  \E g : Takes(g, w, S) /\ \A T \in SUBSET S : SumOf(w, T) = g[T]
<1> DEFINE c == [s \in SUBSET S |-> CHOOSE x \in s : TRUE]
<1> DEFINE F == [p \in S \X Int |-> w[p[1]] + p[2]]
<1>1. \A s \in SUBSET S : s # {} => c[s] \in s
  OBVIOUS
<1>2. F \in [S \X Int -> Int]
  OBVIOUS
<1>3. PICK g \in [SUBSET S -> Int] : Unfolds(g, S, 0, c, F)
  <2> DEFINE V == Int
  <2> DEFINE zero == 0
  <2>1. zero \in V /\ F \in [S \X V -> V]
    BY <1>2
  <2> HIDE DEF c, F, V, zero
  <2>2. \E g \in [SUBSET S -> V] : Unfolds(g, S, zero, c, F)
    BY <1>1, <2>1, UnfoldsAlways
  <2> QED
    BY <2>2 DEF V, zero
<1>4. \A s \in SUBSET S : s # {} => F[<<c[s], g[s \ {c[s]}]>>] = w[c[s]] + g[s \ {c[s]}]
  <2>1. ASSUME NEW s \in SUBSET S, s # {} PROVE F[<<c[s], g[s \ {c[s]}]>>] = w[c[s]] + g[s \ {c[s]}]
    <3>1. c[s] \in S /\ g[s \ {c[s]}] \in Int
      BY <1>1, <2>1
    <3> HIDE DEF c
    <3> QED
      BY <3>1
  <2> QED
    BY <2>1
<1>5. ASSUME NEW T \in SUBSET S PROVE SumOf(w, T) = g[T]
  <2> DEFINE Step(it) == [s \in SUBSET T |-> IF s = {} THEN 0 ELSE w[CHOOSE x \in s : TRUE] + it[s \ {CHOOSE x \in s : TRUE}]]
  <2> DEFINE it == CHOOSE it : it = Step(it)
  <2> DEFINE h == [s \in SUBSET T |-> g[s]]
  <2>1. SumOf(w, T) = it[T]
    BY DEF SumOf, MapThenSumSet, MapThenFoldSet
  <2>2. h = Step(h)
    <3>1. ASSUME NEW s \in SUBSET T, s # {} PROVE h[s] = w[CHOOSE x \in s : TRUE] + h[s \ {CHOOSE x \in s : TRUE}]
      <4>1. s \in SUBSET S /\ c[s] = CHOOSE x \in s : TRUE
        OBVIOUS
      <4>2. g[s] = w[c[s]] + g[s \ {c[s]}]
        BY <1>3, <1>4, <3>1, <4>1 DEF Unfolds
      <4>3. s \ {c[s]} \in SUBSET T
        OBVIOUS
      <4> HIDE DEF c
      <4> QED
        BY <4>1, <4>2, <4>3
    <3>2. h[{}] = 0
      BY <1>3 DEF Unfolds
    <3>3. \A s \in SUBSET T : h[s] = Step(h)[s]
      <4> HIDE DEF h
      <4> QED
        BY <3>1, <3>2
    <3>4. h = [s \in SUBSET T |-> h[s]]
      OBVIOUS
    <3>5. Step(h) = [s \in SUBSET T |-> Step(h)[s]]
      <4> HIDE DEF h
      <4> QED
        OBVIOUS
    <3> HIDE DEF h, Step
    <3> QED
      BY <3>3, <3>4, <3>5
  <2>3. it = Step(it)
    <3> HIDE DEF h, Step
    <3> QED
      BY <2>2
  <2>4. ASSUME NEW s \in SUBSET T, s # {} PROVE g[s] = w[CHOOSE x \in s : TRUE] + g[s \ {CHOOSE x \in s : TRUE}]
    <3>1. s \in SUBSET S /\ c[s] = CHOOSE x \in s : TRUE
      OBVIOUS
    <3> HIDE DEF c
    <3> QED
      BY <1>3, <1>4, <2>4, <3>1 DEF Unfolds
  <2> DEFINE D == {s \in SUBSET T : it[s] # g[s]}
  <2>5. D = {}
    <3>1. SUFFICES ASSUME D # {} PROVE FALSE
      OBVIOUS
    <3>2. PICK s \in D : \A t \in SUBSET s : t # s => t \notin D
      <4>1. D \subseteq SUBSET T /\ IsFiniteSet(T)
        BY FS_Subset
      <4> HIDE DEF D
      <4> QED
        BY <3>1, <4>1, SmallestSubset
    <3>3. s \in SUBSET T /\ it[s] # g[s]
      OBVIOUS
    <3> DEFINE x == CHOOSE x \in s : TRUE
    <3>4. s # {}
      <4>1. it[{}] = 0
        <5> HIDE DEF it
        <5> QED
          BY <2>3
      <4> HIDE DEF it
      <4> QED
        BY <1>3, <3>3, <4>1 DEF Unfolds
    <3>5. x \in s
      BY <3>4
    <3>6. it[s] = w[x] + it[s \ {x}]
      <4> HIDE DEF it
      <4> QED
        BY <2>3, <3>3, <3>4
    <3>7. it[s \ {x}] = g[s \ {x}]
      <4> HIDE DEF it, x
      <4>1. s \ {x} \in SUBSET s /\ s \ {x} # s /\ s \ {x} \in SUBSET T
        BY <3>3, <3>5
      <4>2. s \ {x} \notin D
        BY <3>2, <4>1
      <4> QED
        BY <4>1, <4>2
    <3> HIDE DEF it
    <3> QED
      BY <2>4, <3>3, <3>4, <3>6, <3>7
  <2>6. it[T] = g[T]
    <3>1. T \in SUBSET T
      OBVIOUS
    <3> HIDE DEF it
    <3> QED
      BY <2>5, <3>1
  <2> QED
    BY <2>1, <2>6
<1>6. g[{}] = 0
  BY <1>3 DEF Unfolds
<1>7. ASSUME NEW T \in SUBSET S, T # {} PROVE \E x \in T : g[T] = w[x] + g[T \ {x}]
  <2>1. g[T] = w[c[T]] + g[T \ {c[T]}] /\ c[T] \in T
    <3> HIDE DEF c
    <3> QED
      BY <1>1, <1>3, <1>4, <1>7 DEF Unfolds
  <2> HIDE DEF c
  <2> QED
    BY <2>1
<1>8. Takes(g, w, S)
  <2> HIDE DEF c, F
  <2> QED
    BY <1>3, <1>6, <1>7 DEF Takes
<1> QED
  BY <1>5, <1>8

\* The sum of nothing is 0, and whichever element is taken out, its weight is
\* what the sum loses.
LEMMA SumTakes ==
    ASSUME NEW S, IsFiniteSet(S), NEW w \in [S -> Int]
    PROVE  /\ SumOf(w, {}) = 0
           /\ \A T \in SUBSET S : SumOf(w, T) \in Int
           /\ \A T \in SUBSET S : \A x \in T : SumOf(w, T) = w[x] + SumOf(w, T \ {x})
<1>1. PICK g \in [SUBSET S -> Int] :
         /\ \A T \in SUBSET S : SumOf(w, T) = g[T]
         /\ g[{}] = 0
         /\ \A T \in SUBSET S : T # {} => \E x \in T : g[T] = w[x] + g[T \ {x}]
  <2>1. PICK g : Takes(g, w, S) /\ \A T \in SUBSET S : SumOf(w, T) = g[T]
    BY SumUnfolds
  <2> QED
    BY <2>1 DEF Takes
<1> DEFINE D == {T \in SUBSET S : \E x \in T : g[T] # w[x] + g[T \ {x}]}
<1>2. D = {}
  <2>1. SUFFICES ASSUME D # {} PROVE FALSE
    OBVIOUS
  <2>2. PICK T \in D : \A t \in SUBSET T : t # T => t \notin D
    <3>1. D \subseteq SUBSET S
      OBVIOUS
    <3> HIDE DEF D
    <3> QED
      BY <2>1, <3>1, SmallestSubset
  <2>3. PICK x \in T : g[T] # w[x] + g[T \ {x}]
    OBVIOUS
  <2>4. PICK y \in T : g[T] = w[y] + g[T \ {y}]
    BY <1>1
  <2>5. x # y
    BY <2>3, <2>4
  <2> DEFINE r == T \ {x, y}
  <2>6. g[T \ {x}] = w[y] + g[r]
    <3>1. T \ {x} \in SUBSET T /\ T \ {x} # T /\ y \in T \ {x} /\ (T \ {x}) \ {y} = r
      BY <2>3, <2>4, <2>5
    <3>2. T \ {x} \notin D
      BY <2>2, <3>1
    <3> HIDE DEF r
    <3> QED
      BY <3>1, <3>2
  <2>7. g[T \ {y}] = w[x] + g[r]
    <3>1. T \ {y} \in SUBSET T /\ T \ {y} # T /\ x \in T \ {y} /\ (T \ {y}) \ {x} = r
      BY <2>3, <2>4, <2>5
    <3>2. T \ {y} \notin D
      BY <2>2, <3>1
    <3> HIDE DEF r
    <3> QED
      BY <3>1, <3>2
  <2>8. w[x] \in Int /\ w[y] \in Int /\ g[r] \in Int
    BY <1>1, <2>3, <2>4
  <2> HIDE DEF r, D
  <2> QED
    BY <2>3, <2>4, <2>6, <2>7, <2>8
<1>3. ASSUME NEW T \in SUBSET S, NEW x \in T PROVE SumOf(w, T) = w[x] + SumOf(w, T \ {x})
  <2>1. g[T] = w[x] + g[T \ {x}]
    BY <1>2
  <2>2. T \ {x} \in SUBSET S
    OBVIOUS
  <2> QED
    BY <1>1, <2>1, <2>2
<1>4. {} \in SUBSET S
  OBVIOUS
<1> QED
  BY <1>1, <1>3, <1>4

\* What takes an element at a time as the sum does is the sum.
LEMMA SumIs ==
    ASSUME NEW S, IsFiniteSet(S), NEW w \in [S -> Int], NEW h, Takes(h, w, S)
    PROVE  \A T \in SUBSET S : SumOf(w, T) = h[T]
<1> DEFINE D == {T \in SUBSET S : SumOf(w, T) # h[T]}
<1>1. SUFFICES ASSUME D # {} PROVE FALSE
  OBVIOUS
<1>2. PICK T \in D : \A t \in SUBSET T : t # T => t \notin D
  <2>1. D \subseteq SUBSET S
    OBVIOUS
  <2> HIDE DEF D
  <2> QED
    BY <1>1, <2>1, SmallestSubset
<1>3. T \in SUBSET S /\ SumOf(w, T) # h[T]
  OBVIOUS
<1>4. T # {}
  BY <1>3, SumTakes DEF Takes
<1>5. PICK x \in T : h[T] = w[x] + h[T \ {x}]
  BY <1>3, <1>4 DEF Takes
<1>6. SumOf(w, T) = w[x] + SumOf(w, T \ {x})
  BY <1>3, SumTakes
<1>7. SumOf(w, T \ {x}) = h[T \ {x}]
  <2>1. T \ {x} \in SUBSET T /\ T \ {x} # T /\ T \ {x} \in SUBSET S
    BY <1>3, <1>5
  <2>2. T \ {x} \notin D
    BY <1>2, <2>1
  <2> QED
    BY <2>1, <2>2
<1> QED
  BY <1>3, <1>5, <1>6, <1>7

\* A sum depends only on what is summed.
LEMMA SumSame ==
    ASSUME NEW S, IsFiniteSet(S), NEW w \in [S -> Int], NEW T \in SUBSET S, NEW v \in [T -> Int],
           \A x \in T : v[x] = w[x]
    PROVE  SumOf(v, T) = SumOf(w, T)
<1> DEFINE h == [t \in SUBSET T |-> SumOf(w, t)]
<1>1. IsFiniteSet(T) /\ \A t \in SUBSET T : t \in SUBSET S
  BY FS_Subset
<1>2. h \in [SUBSET T -> Int] /\ h[{}] = 0
  BY <1>1, SumTakes
<1>3. ASSUME NEW t \in SUBSET T, t # {} PROVE \E x \in t : h[t] = v[x] + h[t \ {x}]
  <2>1. PICK x \in t : TRUE
    BY <1>3
  <2>2. SumOf(w, t) = w[x] + SumOf(w, t \ {x})
    BY <1>1, SumTakes
  <2> QED
    BY <2>1, <2>2
<1>4. \A t \in SUBSET T : SumOf(v, t) = h[t]
  <2>1. Takes(h, v, T)
    <3> HIDE DEF h
    <3> QED
      BY <1>2, <1>3 DEF Takes
  <2> HIDE DEF h
  <2> QED
    BY <1>1, <2>1, SumIs
<1> QED
  BY <1>4

\* What a function makes of finitely many is finite.
LEMMA ImageFinite ==
    ASSUME NEW S, IsFiniteSet(S), NEW f
    PROVE  IsFiniteSet({f[x] : x \in S})
<1> DEFINE T == {f[x] : x \in S}
<1> DEFINE h == [x \in S |-> f[x]]
<1>1. h \in Surjection(S, T)
  BY DEF Surjection
<1> HIDE DEF h, T
<1> QED
  BY <1>1, FS_Surjection DEF T

\* A sum of what is nowhere negative is not negative.
LEMMA SumNatural ==
    ASSUME NEW S, IsFiniteSet(S), NEW w \in [S -> Int], \A x \in S : w[x] >= 0
    PROVE  SumOf(w, S) >= 0
<1> DEFINE D == {T \in SUBSET S : ~ (SumOf(w, T) >= 0)}
<1>1. SUFFICES ASSUME D # {} PROVE FALSE
  <2>1. S \in SUBSET S
    OBVIOUS
  <2> QED
    BY <1>1, <2>1
<1>2. PICK T \in D : \A t \in SUBSET T : t # T => t \notin D
  <2>1. D \subseteq SUBSET S
    OBVIOUS
  <2> HIDE DEF D
  <2> QED
    BY <1>1, <2>1, SmallestSubset
<1>3. T \in SUBSET S /\ ~ (SumOf(w, T) >= 0)
  OBVIOUS
<1>4. T # {}
  BY <1>3, SumTakes
<1>5. PICK x \in T : TRUE
  BY <1>4
<1>6. /\ T \ {x} \in SUBSET T /\ T \ {x} # T /\ T \ {x} \in SUBSET S /\ w[x] \in Int /\ w[x] >= 0
  BY <1>3, <1>5
<1>7. SumOf(w, T \ {x}) >= 0
  <2>1. T \ {x} \notin D
    BY <1>2, <1>6
  <2> QED
    BY <1>6, <2>1
<1>8. SumOf(w, T) = w[x] + SumOf(w, T \ {x}) /\ SumOf(w, T \ {x}) \in Int
  BY <1>3, <1>5, <1>6, SumTakes
<1> QED
  BY <1>3, <1>6, <1>7, <1>8

\* A table of |A| rows that are all of them w: its sum, row by row.
Grid(at, A, B) == {at[p] : p \in A \X B}

\* A row of the table, all of it new: the sum grows by that of the row.
LEMMA SumRow ==
    ASSUME NEW S, IsFiniteSet(S), NEW v \in [S -> Int],
           NEW B, IsFiniteSet(B), NEW w \in [B -> Int], NEW X \in SUBSET S,
           NEW r \in [B -> S], \A b \in B : r[b] \notin X /\ v[r[b]] = w[b],
           \A b, c \in B : r[b] = r[c] => b = c
    PROVE  SumOf(v, X \cup {r[b] : b \in B}) = SumOf(v, X) + SumOf(w, B)
<1> DEFINE Row(T) == X \cup {r[b] : b \in T}
<1> DEFINE D == {T \in SUBSET B : SumOf(v, Row(T)) # SumOf(v, X) + SumOf(w, T)}
<1>1. SUFFICES ASSUME D # {} PROVE FALSE
  <2>1. B \in SUBSET B
    OBVIOUS
  <2> QED
    BY <1>1, <2>1
<1>2. PICK T \in D : \A t \in SUBSET T : t # T => t \notin D
  <2>1. D \subseteq SUBSET B
    OBVIOUS
  <2> HIDE DEF D
  <2> QED
    BY <1>1, <2>1, SmallestSubset
<1>3. T \in SUBSET B /\ SumOf(v, Row(T)) # SumOf(v, X) + SumOf(w, T)
  OBVIOUS
<1>4. T # {}
  <2>1. ASSUME T = {} PROVE FALSE
    <3>1. Row(T) = X
      BY <2>1
    <3>2. SumOf(v, X) \in Int /\ SumOf(w, {}) = 0
      BY SumTakes
    <3> HIDE DEF Row
    <3> QED
      BY <1>3, <2>1, <3>1, <3>2
  <2> QED
    BY <2>1
<1>5. PICK b \in T : TRUE
  BY <1>4
<1> DEFINE U == T \ {b}
<1>6. U \in SUBSET T /\ U # T /\ U \in SUBSET B /\ b \in B
  BY <1>3, <1>5
<1>7. Row(T) \ {r[b]} = Row(U) /\ r[b] \in Row(T) /\ Row(T) \in SUBSET S /\ Row(U) \in SUBSET S
  BY <1>3, <1>5
<1>8. SumOf(v, Row(U)) = SumOf(v, X) + SumOf(w, U)
  <2>1. U \notin D
    BY <1>2, <1>6
  <2> HIDE DEF U, Row
  <2> QED
    BY <1>6, <2>1
<1> HIDE DEF Row, U
<1>9. SumOf(v, Row(T)) = v[r[b]] + SumOf(v, Row(U))
  BY <1>7, SumTakes
<1>10. SumOf(w, T) = w[b] + SumOf(w, U)
  BY <1>3, <1>5, SumTakes DEF U
<1>11. SumOf(v, X) \in Int /\ SumOf(w, U) \in Int /\ w[b] \in Int /\ v[r[b]] = w[b]
  BY <1>6, SumTakes
<1> QED
  BY <1>3, <1>8, <1>9, <1>10, <1>11

\* at lays S out as A rows, and v says in each of them what w says.
Table(S, v, A, B, w, at) ==
    /\ v \in [S -> Int] /\ w \in [B -> Int] /\ at \in [A \X B -> S]
    /\ \A p, q \in A \X B : at[p] = at[q] => p = q
    /\ \A p \in A \X B : v[at[p]] = w[p[2]]

\* The sum of the whole table is its number of rows times that of a row.
LEMMA SumGrid ==
    ASSUME NEW S, IsFiniteSet(S), NEW A, IsFiniteSet(A), NEW B, IsFiniteSet(B), NEW v, NEW w, NEW at,
           Table(S, v, A, B, w, at)
    PROVE  SumOf(v, Grid(at, A, B)) = Cardinality(A) * SumOf(w, B)
<1> USE DEF Table
<1> DEFINE s == SumOf(w, B)
<1> DEFINE D == {T \in SUBSET A : SumOf(v, Grid(at, T, B)) # Cardinality(T) * s}
<1>1. SUFFICES ASSUME D # {} PROVE FALSE
  <2>1. A \in SUBSET A
    OBVIOUS
  <2> QED
    BY <1>1, <2>1
<1>2. PICK T \in D : \A t \in SUBSET T : t # T => t \notin D
  <2>1. D \subseteq SUBSET A
    OBVIOUS
  <2> HIDE DEF D
  <2> QED
    BY <1>1, <2>1, SmallestSubset
<1>3. T \in SUBSET A /\ SumOf(v, Grid(at, T, B)) # Cardinality(T) * s
  OBVIOUS
<1>4. s \in Int
  <2>1. B \in SUBSET B
    OBVIOUS
  <2> QED
    BY <2>1, SumTakes
<1>5. T # {}
  <2>1. ASSUME T = {} PROVE FALSE
    <3>1. Grid(at, T, B) = {}
      BY <2>1 DEF Grid
    <3>2. SumOf(v, {}) = 0 /\ Cardinality(T) = 0
      BY <2>1, SumTakes, FS_EmptySet
    <3> HIDE DEF s
    <3> QED
      BY <1>3, <1>4, <3>1, <3>2
  <2> QED
    BY <2>1
<1>6. PICK a \in T : TRUE
  BY <1>5
<1> DEFINE U == T \ {a}
<1> DEFINE r == [b \in B |-> at[<<a, b>>]]
<1> DEFINE X == Grid(at, U, B)
<1>7. U \in SUBSET T /\ U # T /\ U \in SUBSET A /\ a \in A
  BY <1>3, <1>6
<1>8. IsFiniteSet(T) /\ Cardinality(T) = Cardinality(U) + 1 /\ Cardinality(U) \in Nat
  <2>1. IsFiniteSet(T) /\ IsFiniteSet(U)
    BY <1>3, <1>7, FS_Subset
  <2>2. Cardinality(U) = Cardinality(T) - 1 /\ Cardinality(U) \in Nat /\ Cardinality(T) \in Nat
    BY <1>6, <2>1, FS_RemoveElement, FS_CardinalityType
  <2> QED
    BY <2>1, <2>2
<1>9. SumOf(v, X) = Cardinality(U) * s
  <2>1. U \notin D
    BY <1>2, <1>7
  <2> HIDE DEF U, s
  <2> QED
    BY <1>7, <2>1
<1>10. r \in [B -> S] /\ \A b \in B : r[b] = at[<<a, b>>] /\ <<a, b>> \in A \X B
  BY <1>7
<1>11. X \in SUBSET S
  <2>1. \A p \in U \X B : p \in A \X B
    BY <1>7
  <2> HIDE DEF U
  <2> QED
    BY <2>1 DEF Grid
<1>12. \A b \in B : r[b] \notin X
  <2>1. ASSUME NEW b \in B, NEW c \in U, NEW d \in B, r[b] = at[<<c, d>>] PROVE FALSE
    <3>1. <<c, d>> \in A \X B /\ <<a, b>> \in A \X B /\ c # a
      BY <1>7
    <3>2. <<c, d>> = <<a, b>>
      BY <1>10, <2>1, <3>1
    <3> QED
      BY <3>1, <3>2
  <2> HIDE DEF r, U
  <2>2. \A p \in U \X B : p = <<p[1], p[2]>> /\ p[1] \in U /\ p[2] \in B
    OBVIOUS
  <2> QED
    BY <2>1, <2>2 DEF Grid
<1>13. \A b, c \in B : r[b] = r[c] => b = c
  <2>1. ASSUME NEW b \in B, NEW c \in B, r[b] = r[c] PROVE b = c
    <3>1. <<a, b>> = <<a, c>>
      BY <1>10, <2>1
    <3> QED
      BY <3>1
  <2> QED
    BY <2>1
<1>14. \A b \in B : v[r[b]] = w[b]
  BY <1>7, <1>10
<1>15. Grid(at, T, B) = X \cup {r[b] : b \in B}
  <2>1. T = U \cup {a}
    BY <1>6
  <2> HIDE DEF U
  <2>2. \A p \in T \X B : p \in U \X B \/ (p = <<a, p[2]>> /\ p[2] \in B)
    BY <2>1
  <2>3. \A p \in U \X B : p \in T \X B
    BY <2>1
  <2>4. \A b \in B : <<a, b>> \in T \X B /\ r[b] = at[<<a, b>>]
    BY <1>10, <1>6
  <2> HIDE DEF r
  <2>5. Grid(at, T, B) \subseteq X \cup {r[b] : b \in B}
    <3>1. ASSUME NEW p \in T \X B PROVE at[p] \in X \cup {r[b] : b \in B}
      BY <2>2, <2>4 DEF Grid
    <3> QED
      BY <3>1 DEF Grid
  <2>6. X \subseteq Grid(at, T, B)
    BY <2>3 DEF Grid
  <2>7. {r[b] : b \in B} \subseteq Grid(at, T, B)
    <3>1. ASSUME NEW b \in B PROVE r[b] \in Grid(at, T, B)
      <4> DEFINE p == <<a, b>>
      <4>1. p \in T \X B /\ r[b] = at[p]
        BY <2>4
      <4> HIDE DEF p
      <4> QED
        BY <4>1 DEF Grid
    <3> QED
      BY <3>1
  <2> HIDE DEF X
  <2> QED
    BY <2>5, <2>6, <2>7
<1> HIDE DEF r, X, U
<1>16. SumOf(v, X \cup {r[b] : b \in B}) = SumOf(v, X) + SumOf(w, B)
  BY <1>10, <1>11, <1>12, <1>13, <1>14, SumRow
<1> HIDE DEF s
<1>17. (Cardinality(U) + 1) * s = Cardinality(U) * s + s
  BY <1>4, <1>8
<1> QED
  BY <1>3, <1>4, <1>8, <1>9, <1>15, <1>16, <1>17 DEF s

-----------------------------------------------------------------------------
(***************************************************************************)
(* Numbers and sequences.                                                  *)
(***************************************************************************)
\* Of the natural numbers that have a property, one is least.
LEMMA LeastNatural ==
    ASSUME NEW D, D \subseteq Nat, D # {}
    PROVE  \E k \in D : \A j \in Nat : j < k => j \notin D
<1> DEFINE R == {p \in Nat \X Nat : p[1] < p[2]}
<1>1. IsWellFoundedOn(R, Nat)
  BY NatLessThanWellFounded DEF OpToRel
<1>2. \A i, j \in Nat : i < j => <<i, j>> \in R
  OBVIOUS
<1> HIDE DEF R
<1>3. PICK k \in D : \A j \in D : ~ (<<j, k>> \in R)
  BY <1>1, WFMin
<1> QED
  BY <1>2, <1>3

\* A set of numbers up to a bound has a largest.
LEMMA LargestNatural ==
    ASSUME NEW n \in Nat, NEW D, D \subseteq 0 .. n, D # {}
    PROVE  \E k \in D : \A m \in D : m <= k
<1> DEFINE R == {d \in 0 .. n : n - d \in D}
<1>1. R \subseteq Nat /\ R # {}
  <2>1. PICK d \in D : TRUE
    OBVIOUS
  <2>2. d \in 0 .. n /\ n - d \in 0 .. n /\ n - (n - d) = d
    BY <2>1
  <2>3. n - d \in R
    BY <2>1, <2>2
  <2> QED
    BY <2>3
<1>2. PICK r \in R : \A j \in Nat : j < r => j \notin R
  <2> HIDE DEF R
  <2> QED
    BY <1>1, LeastNatural
<1>3. ASSUME NEW m \in D PROVE m <= n - r
  <2>1. m \in 0 .. n /\ n - m \in 0 .. n /\ n - (n - m) = m /\ r \in 0 .. n
    BY <1>2
  <2>2. n - m \in R
    BY <1>3, <2>1
  <2>3. ~ (n - m < r)
    BY <1>2, <2>1, <2>2
  <2> QED
    BY <2>1, <2>3
<1> QED
  BY <1>2, <1>3

\* What holds at 0 and at each number if it does at the one before holds up to n.
LEMMA UpTo ==
    ASSUME NEW n \in Nat, NEW D, 0 \in D, \A i \in 1 .. n : i - 1 \in D => i \in D
    PROVE  \A i \in 0 .. n : i \in D
<1> DEFINE bad == {i \in 0 .. n : i \notin D}
<1>1. SUFFICES ASSUME bad # {} PROVE FALSE
  OBVIOUS
<1>2. PICK k \in bad : \A j \in Nat : j < k => j \notin bad
  <2>1. bad \subseteq Nat
    OBVIOUS
  <2> HIDE DEF bad
  <2> QED
    BY <1>1, <2>1, LeastNatural
<1>3. k \in 1 .. n /\ k - 1 \in Nat /\ k - 1 < k /\ k - 1 \in 0 .. n
  OBVIOUS
<1>4. k - 1 \in D
  BY <1>2, <1>3
<1> QED
  BY <1>2, <1>3, <1>4

\* g starts at base and goes on from one number to the next by F, up to n.
StepsBy(g, n, V, base, F) ==
    g \in [0 .. n -> V] /\ g[0] = base /\ \A i \in 1 .. n : g[i] = F[<<i, g[i - 1]>>]

\* There is such a g.
LEMMA StepsAlways ==
    ASSUME NEW n \in Nat, NEW V, NEW base \in V, NEW F \in [(1 .. n) \X V -> V]
    PROVE  \E g : StepsBy(g, n, V, base, F)
<1> DEFINE D == {k \in 0 .. n : \E g : StepsBy(g, k, V, base, F)}
<1>1. 0 \in D
  <2>1. StepsBy([i \in 0 .. 0 |-> base], 0, V, base, F)
    BY DEF StepsBy
  <2> QED
    BY <2>1
<1>2. ASSUME NEW k \in 1 .. n, k - 1 \in D PROVE k \in D
  <2>1. PICK g : StepsBy(g, k - 1, V, base, F)
    BY <1>2
  <2> DEFINE h == [i \in 0 .. k |-> IF i < k THEN g[i] ELSE F[<<k, g[k - 1]>>]]
  <2>2. g[k - 1] \in V /\ F[<<k, g[k - 1]>>] \in V
    BY <2>1 DEF StepsBy
  <2>3. h \in [0 .. k -> V]
    BY <2>1, <2>2 DEF StepsBy
  <2>4. \A i \in 1 .. k : h[i] = F[<<i, h[i - 1]>>]
    <3> SUFFICES ASSUME NEW i \in 1 .. k PROVE h[i] = F[<<i, h[i - 1]>>]
      OBVIOUS
    <3>1. i - 1 \in 0 .. k /\ i - 1 < k /\ i \in 0 .. k
      OBVIOUS
    <3>2. h[i - 1] = g[i - 1]
      BY <3>1
    <3>3. i < k => i \in 1 .. k - 1 /\ h[i] = g[i]
      BY <3>1
    <3>4. i < k => g[i] = F[<<i, g[i - 1]>>]
      BY <2>1, <3>3 DEF StepsBy
    <3>5. ~(i < k) => i = k /\ h[i] = F[<<k, g[k - 1]>>]
      BY <3>1
    <3> QED
      BY <3>2, <3>3, <3>4, <3>5
  <2>5. h[0] = base
    BY <2>1 DEF StepsBy
  <2> HIDE DEF h
  <2>6. StepsBy(h, k, V, base, F)
    BY <2>3, <2>4, <2>5 DEF StepsBy
  <2> QED
    BY <2>6
<1>3. n \in D
  <2> HIDE DEF D
  <2> QED
    BY <1>1, <1>2, UpTo
<1> QED
  BY <1>3

\* Multiples of a step are at least its number and go up by it.
LEMMA Multiples ==
    ASSUME NEW s \in Nat \ {0}
    PROVE  \A k \in Nat : k * s \in Nat /\ k <= k * s /\ (k + 1) * s = k * s + s /\ (k > 0 => s <= k * s)
<1>1. ASSUME NEW k \in Nat PROVE k * s \in Nat /\ (k + 1) * s = k * s + s
  OBVIOUS
<1>2. ASSUME NEW k \in Nat PROVE k <= k * s
  <2>1. s - 1 \in Nat /\ k * s = k + k * (s - 1) /\ k * (s - 1) \in Nat
    OBVIOUS
  <2> QED
    BY <2>1
<1>3. ASSUME NEW k \in Nat, k > 0 PROVE s <= k * s
  <2>1. k - 1 \in Nat /\ k * s = s + (k - 1) * s /\ (k - 1) * s \in Nat
    BY <1>3
  <2> QED
    BY <2>1
<1> QED
  BY <1>1, <1>2, <1>3

\* What the first part of a sequence is.
LEMMA FirstPart ==
    ASSUME NEW S, NEW s \in Seq(S), NEW k \in 0 .. Len(s)
    PROVE  /\ SubSeq(s, 1, k) \in Seq(S) /\ Len(SubSeq(s, 1, k)) = k
           /\ \A i \in 1 .. k : SubSeq(s, 1, k)[i] = s[i]
           /\ \A m \in 0 .. k : SubSeq(SubSeq(s, 1, k), 1, m) = SubSeq(s, 1, m)
<1> DEFINE t == SubSeq(s, 1, k)
<1>1. t \in Seq(S) /\ Len(t) = k /\ \A i \in 1 .. k : t[i] = s[i]
  OBVIOUS
<1>2. ASSUME NEW m \in 0 .. k PROVE SubSeq(t, 1, m) = SubSeq(s, 1, m)
  <2>1. m \in 0 .. Len(s)
    OBVIOUS
  <2> HIDE DEF t
  <2>2. SubSeq(t, 1, m) \in Seq(S) /\ Len(SubSeq(t, 1, m)) = m /\ \A i \in 1 .. m : SubSeq(t, 1, m)[i] = t[i]
    BY <1>1, <1>2
  <2>3. SubSeq(s, 1, m) \in Seq(S) /\ Len(SubSeq(s, 1, m)) = m /\ \A i \in 1 .. m : SubSeq(s, 1, m)[i] = s[i]
    BY <2>1
  <2>4. \A i \in 1 .. m : SubSeq(t, 1, m)[i] = SubSeq(s, 1, m)[i]
    BY <1>1, <2>2, <2>3
  <2> DEFINE a == SubSeq(t, 1, m)
  <2> DEFINE b == SubSeq(s, 1, m)
  <2> HIDE DEF a, b
  <2>5. a \in Seq(S) /\ b \in Seq(S) /\ Len(a) = Len(b) /\ \A i \in 1 .. Len(a) : a[i] = b[i]
    BY <2>2, <2>3, <2>4 DEF a, b
  <2>6. a = b
    BY <2>5, SeqEqual
  <2> QED
    BY <2>6 DEF a, b
<1> QED
  BY <1>1, <1>2

\* What sequences put together are, from what adding one of them does: P holds
\* pairs of how many are put together, and the result.
LEMMA FlattenThrough ==
    ASSUME NEW n \in Nat, NEW E, NEW s \in [1 .. n -> Seq(E)], NEW P, <<0, <<>>>> \in P,
           \A k \in 0 .. n - 1 : \A m : <<k, m>> \in P => <<k + 1, m \o s[k + 1]>> \in P
    PROVE  <<n, FlattenSeq(s)>> \in P
<1> DEFINE Joins(f, k) == f = [i \in 1 .. k |-> IF i = 1 THEN s[i] ELSE f[i - 1] \o s[i]]
<1> DEFINE flatten == CHOOSE f : Joins(f, n)
<1>1. Len(s) = n /\ DOMAIN s = 1 .. n
  OBVIOUS
<1>2. FlattenSeq(s) = IF n = 0 THEN s ELSE flatten[n]
  BY <1>1 DEF FlattenSeq
<1>3. CASE n = 0
  BY <1>2, <1>3, s = <<>>
<1>4. CASE n # 0
  <2>1. \E f : Joins(f, n)
    <3> DEFINE Has(k) == \E f : Joins(f, k)
    <3> DEFINE D == {k \in 0 .. n : ~ Has(k)}
    <3> SUFFICES ASSUME D # {} PROVE FALSE
      <4> HIDE DEF Joins
      <4>1. ~ Has(n) => n \in D
        OBVIOUS
      <4> QED
        BY <4>1
    <3>1. PICK k \in D : \A j \in Nat : j < k => j \notin D
      <4> HIDE DEF Has
      <4>1. D \subseteq Nat
        OBVIOUS
      <4> HIDE DEF D
      <4> QED
        BY <4>1, LeastNatural
    <3>2. k \in 0 .. n /\ ~ \E f : Joins(f, k)
      OBVIOUS
    <3>3. k # 0
      <4>1. Joins(<<>>, 0)
        OBVIOUS
      <4> HIDE DEF Joins
      <4> QED
        BY <3>2, <4>1
    <3>4. PICK f : Joins(f, k - 1)
      <4>1. k - 1 \in 0 .. n /\ k - 1 < k
        BY <3>2, <3>3
      <4> HIDE DEF Has
      <4>2. Has(k - 1)
        BY <3>1, <4>1
      <4> QED
        BY <4>2 DEF Has
    <3> DEFINE g == [i \in 1 .. k |-> IF i < k THEN f[i] ELSE IF k = 1 THEN s[k] ELSE f[k - 1] \o s[k]]
    <3>5. \A i \in 1 .. k : g[i] = IF i = 1 THEN s[i] ELSE g[i - 1] \o s[i]
      <4>1. \A i \in 1 .. k - 1 : f[i] = IF i = 1 THEN s[i] ELSE f[i - 1] \o s[i]
        BY <3>2, <3>3, <3>4
      <4>2. \A i \in 1 .. k : i - 1 \in Int /\ (i # 1 => i - 1 \in 1 .. k /\ i - 1 < k)
        BY <3>2
      <4> HIDE DEF Joins
      <4> QED
        BY <3>2, <3>3, <4>1, <4>2
    <3>6. Joins(g, k)
      <4>1. g = [i \in 1 .. k |-> g[i]]
        OBVIOUS
      <4> HIDE DEF g
      <4> QED
        BY <3>5, <4>1
    <3> QED
      BY <3>2, <3>6
  <2>2. Joins(flatten, n)
    <3> HIDE DEF Joins
    <3> QED
      BY <2>1
  <2> HIDE DEF flatten
  <2>3. \A i \in 1 .. n : flatten[i] = IF i = 1 THEN s[i] ELSE flatten[i - 1] \o s[i]
    BY <2>2
  <2> DEFINE D == {k \in 1 .. n : <<k, flatten[k]>> \notin P}
  <2>4. D = {}
    <3> SUFFICES ASSUME D # {} PROVE FALSE
      OBVIOUS
    <3>1. PICK k \in D : \A j \in Nat : j < k => j \notin D
      <4>1. D \subseteq Nat
        OBVIOUS
      <4> HIDE DEF D
      <4> QED
        BY <4>1, LeastNatural
    <3>2. k \in 1 .. n /\ <<k, flatten[k]>> \notin P
      OBVIOUS
    <3>3. CASE k = 1
      <4> DEFINE none == <<>>
      <4>0. 0 \in 0 .. n - 1 /\ <<0, none>> \in P
        BY <1>4
      <4> HIDE DEF none
      <4>1. <<0 + 1, none \o s[0 + 1]>> \in P
        BY <4>0
      <4>2. 0 + 1 = 1 /\ none \o s[1] = s[1]
        BY <3>2, <3>3 DEF none
      <4>3. <<1, s[1]>> \in P
        BY <4>1, <4>2
      <4> QED
        BY <2>3, <3>2, <3>3, <4>3
    <3>4. CASE k # 1
      <4>1. k - 1 \in 1 .. n /\ k - 1 \in 0 .. n - 1 /\ k - 1 < k /\ (k - 1) + 1 = k
        BY <3>2, <3>4
      <4>2. <<k - 1, flatten[k - 1]>> \in P
        BY <3>1, <4>1
      <4>3. <<(k - 1) + 1, flatten[k - 1] \o s[(k - 1) + 1]>> \in P
        BY <4>1, <4>2
      <4>4. flatten[k] = flatten[k - 1] \o s[k]
        BY <2>3, <3>2, <3>4
      <4> QED
        BY <3>2, <4>1, <4>3, <4>4
    <3> QED
      BY <3>3, <3>4
  <2> QED
    BY <1>2, <1>4, <2>4
<1> QED
  BY <1>3, <1>4

\* They are in every set that the parts are in and that is closed under joining.
LEMMA FlattenIn ==
    ASSUME NEW n \in Nat, NEW E, NEW G, G \subseteq Seq(E), <<>> \in G, \A a, b \in G : a \o b \in G,
           NEW s \in [1 .. n -> G]
    PROVE  FlattenSeq(s) \in G
<1> DEFINE P == (0 .. n) \X G
<1>1. s \in [1 .. n -> Seq(E)]
  OBVIOUS
<1>2. <<0, <<>>>> \in P
  OBVIOUS
<1>3. ASSUME NEW k \in 0 .. n - 1, NEW m, <<k, m>> \in P PROVE <<k + 1, m \o s[k + 1]>> \in P
  <2>1. k + 1 \in 1 .. n /\ k + 1 \in 0 .. n /\ m \in G
    BY <1>3
  <2> QED
    BY <2>1
<1> HIDE DEF P
<1>4. <<n, FlattenSeq(s)>> \in P
  BY <1>1, <1>2, <1>3, FlattenThrough
<1> QED
  BY <1>4 DEF P

\* m is what is left of rows when some of them, those not in K, are left out: each
\* that stays is there once, and nothing else is.
Leaves(rows, K, k, m, at) ==
    /\ m \in Seq(Range(rows)) /\ at \in [1 .. Len(m) -> K \cap (1 .. k)]
    /\ \A i \in 1 .. Len(m) : m[i] = rows[at[i]]
    /\ \A i, j \in 1 .. Len(m) : at[i] = at[j] => i = j
    /\ \A j \in K \cap (1 .. k) : \E i \in 1 .. Len(m) : at[i] = j

\* Leaving rows out, written as joining the others.
LEMMA LeavesOthers ==
    ASSUME NEW E, NEW rows \in Seq(E), NEW K \in SUBSET (DOMAIN rows)
    PROVE  \E at : Leaves(rows, K, Len(rows), FlattenSeq([i \in DOMAIN rows |-> IF i \in K THEN <<rows[i]>> ELSE <<>>]), at)
<1> DEFINE n == Len(rows)
<1> DEFINE R == Range(rows)
<1> DEFINE s == [i \in 1 .. n |-> IF i \in K THEN <<rows[i]>> ELSE <<>>]
<1> DEFINE P == {p \in (0 .. n) \X Seq(R) : \E at : Leaves(rows, K, p[1], p[2], at)}
<1>1. n \in Nat /\ DOMAIN rows = 1 .. n /\ \A i \in 1 .. n : rows[i] \in R
  BY DEF Range
<1>2. s \in [1 .. n -> Seq(R)]
  <2> HIDE DEF R
  <2> QED
    BY <1>1
<1>3. <<0, <<>>>> \in P
  <2>1. Leaves(rows, K, 0, <<>>, <<>>)
    <3>1. K \cap (1 .. 0) = {} /\ 1 .. Len(<<>>) = {} /\ <<>> \in [{} -> {}] /\ <<>> \in Seq(R)
      OBVIOUS
    <3> QED
      BY <3>1 DEF Leaves
  <2>2. <<>> \in Seq(R) /\ 0 \in 0 .. n
    BY <1>1
  <2> HIDE DEF n, R
  <2> QED
    BY <2>1, <2>2
<1>4. ASSUME NEW k \in 0 .. n - 1, NEW m, <<k, m>> \in P PROVE <<k + 1, m \o s[k + 1]>> \in P
  <2>1. PICK at : Leaves(rows, K, k, m, at)
    BY <1>4
  <2>2. m \in Seq(R) /\ Len(m) \in Nat /\ k + 1 \in 1 .. n /\ k \in Nat
    BY <1>1, <2>1 DEF Leaves
  <2>3. CASE k + 1 \notin K
    <3>1. m \o s[k + 1] = m
      BY <2>2, <2>3, ConcatEmptySeq
    <3>2. K \cap (1 .. k + 1) = K \cap (1 .. k)
      BY <2>2, <2>3
    <3>3. Leaves(rows, K, k + 1, m, at)
      BY <2>1, <3>2 DEF Leaves
    <3> HIDE DEF R, s, n
    <3> QED
      BY <2>2, <3>1, <3>3
  <2>4. CASE k + 1 \in K
    <3> DEFINE more == m \o s[k + 1]
    <3> DEFINE then == [i \in 1 .. Len(m) + 1 |-> IF i <= Len(m) THEN at[i] ELSE k + 1]
    <3>1. s[k + 1] = <<rows[k + 1]>> /\ rows[k + 1] \in R
      BY <1>1, <2>2, <2>4
    <3>2. more = Append(m, rows[k + 1])
      <4> HIDE DEF s, R
      <4> QED
        BY <2>2, <3>1, AppendIsConcat
    <3>3. /\ more \in Seq(R) /\ Len(more) = Len(m) + 1 /\ more[Len(m) + 1] = rows[k + 1]
          /\ \A i \in 1 .. Len(m) : more[i] = m[i]
      <4> HIDE DEF R, more, s
      <4> QED
        BY <2>2, <3>1, <3>2, AppendProperties
    <3> HIDE DEF more, s
    <3>4. \A i \in 1 .. Len(m) : then[i] = at[i] /\ at[i] \in K \cap (1 .. k) /\ m[i] = rows[at[i]]
      BY <2>1, <2>2 DEF Leaves
    <3>5. then[Len(m) + 1] = k + 1
      BY <2>2
    <3>6. \A i \in 1 .. Len(m) + 1 : i \in 1 .. Len(m) \/ i = Len(m) + 1
      BY <2>2
    <3>7. then \in [1 .. Len(m) + 1 -> K \cap (1 .. k + 1)]
      <4>1. ASSUME NEW i \in 1 .. Len(m) + 1 PROVE then[i] \in K \cap (1 .. k + 1)
        <5>1. CASE i \in 1 .. Len(m)
          <6>1. then[i] \in K /\ then[i] \in 1 .. k
            BY <3>4, <5>1
          <6> HIDE DEF then
          <6> QED
            BY <2>2, <6>1
        <5>2. CASE i = Len(m) + 1
          <6> HIDE DEF then
          <6> QED
            BY <2>2, <2>4, <3>5, <5>2
        <5> QED
          BY <3>6, <5>1, <5>2
      <4> QED
        BY <4>1
    <3> HIDE DEF then
    <3>8. \A i \in 1 .. Len(m) + 1 : more[i] = rows[then[i]]
      BY <3>3, <3>4, <3>5, <3>6
    <3>9. \A i, j \in 1 .. Len(m) + 1 : then[i] = then[j] => i = j
      <4>1. \A i \in 1 .. Len(m) : then[i] # k + 1
        BY <2>2, <3>4
      <4>2. \A i, j \in 1 .. Len(m) : at[i] = at[j] => i = j
        BY <2>1 DEF Leaves
      <4> QED
        BY <3>4, <3>5, <3>6, <4>1, <4>2
    <3>10. \A j \in K \cap (1 .. k + 1) : \E i \in 1 .. Len(m) + 1 : then[i] = j
      <4>1. \A j \in K \cap (1 .. k + 1) : j \in K \cap (1 .. k) \/ j = k + 1
        BY <2>2
      <4>2. \A j \in K \cap (1 .. k) : \E i \in 1 .. Len(m) : at[i] = j
        BY <2>1 DEF Leaves
      <4>3. Len(m) + 1 \in 1 .. Len(m) + 1 /\ \A i \in 1 .. Len(m) : i \in 1 .. Len(m) + 1
        BY <2>2
      <4> QED
        BY <3>4, <3>5, <4>1, <4>2, <4>3
    <3>11. Leaves(rows, K, k + 1, more, then)
      BY <3>3, <3>7, <3>8, <3>9, <3>10 DEF Leaves
    <3>12. k + 1 \in 0 .. n
      BY <2>2
    <3> HIDE DEF R, n
    <3> QED
      BY <3>3, <3>11, <3>12 DEF more
  <2> QED
    BY <2>3, <2>4
<1> HIDE DEF P
<1>5. <<n, FlattenSeq(s)>> \in P
  <2> HIDE DEF s, n, R
  <2> QED
    BY <1>1, <1>2, <1>3, <1>4, FlattenThrough
<1> HIDE DEF s
<1>6. \E at : Leaves(rows, K, n, FlattenSeq(s), at)
  BY <1>5 DEF P
<1> QED
  BY <1>1, <1>6 DEF s

\* SetToSeq lists every member of a finite set, once.
LEMMA ListsEach ==
    ASSUME NEW S, IsFiniteSet(S)
    PROVE  /\ SetToSeq(S) \in Seq(S)
           /\ \A i, j \in DOMAIN SetToSeq(S) : SetToSeq(S)[i] = SetToSeq(S)[j] => i = j
           /\ \A x \in S : \E i \in DOMAIN SetToSeq(S) : SetToSeq(S)[i] = x
<1> DEFINE n == Cardinality(S)
<1>1. n \in Nat /\ IsFiniteSet(1 .. n) /\ Cardinality(1 .. n) = n
  BY FS_CardinalityType, FS_Interval
<1>2. \E f \in [1 .. n -> S] : IsInjective(f)
  <2>1. ExistsBijection(1 .. n, S)
    BY <1>1, FS_SameCardinalityBij
  <2> QED
    BY <2>1 DEF ExistsBijection, Bijection, Injection
<1>3. SetToSeq(S) \in [1 .. n -> S] /\ IsInjective(SetToSeq(S))
  BY <1>2 DEF SetToSeq
<1>4. SetToSeq(S) \in Surjection(1 .. n, S)
  <2>1. SetToSeq(S) \in Injection(1 .. n, S)
    BY <1>3 DEF Injection
  <2> QED
    BY <1>1, <2>1, FS_Injection
<1> QED
  BY <1>1, <1>3, <1>4 DEF Surjection, IsInjective
=============================================================================
