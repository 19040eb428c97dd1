------------------------------- MODULE Folding -------------------------------
(***************************************************************************)
(* What a fold over a sequence keeps, for any operator. The operator is a  *)
(* parameter of the module: a proof about a fold instantiates the module   *)
(* with the fold's operator and cites FoldKeeps.                           *)
(***************************************************************************)
EXTENDS Integers, Sequences, Folds, FiniteSetTheorems, TLAPS

CONSTANT Op(_, _, _)  \* what is fixed during the fold, the value so far, the next element

\* FoldLeft of SequencesExt with this operator, and Max of FiniteSetsExt, written
\* out: an instance then has nothing of these modules but what it needs.
Max(S) == CHOOSE x \in S : \A y \in S : x >= y

Folded(c, base, t) ==
    MapThenFoldSet(LAMBDA x, y : Op(c, y, x), base, LAMBDA i : t[i], LAMBDA S : Max(S),
                   DOMAIN t)

-----------------------------------------------------------------------------
(* Induction, from the least number of a set.                              *)

\* A set of numbers that is not empty has a least one.
LEMMA LeastNumber ==
    ASSUME NEW S \in SUBSET Nat, S # {}
    PROVE  \E i \in S : \A j \in S : i <= j
<1> DEFINE R == OpToRel(<, Nat)
<1>1. PICK i \in S : \A j \in S : ~ (<<j, i>> \in R)
  <2> HIDE DEF R
  <2>1. IsWellFoundedOn(R, Nat)
    BY NatLessThanWellFounded DEF R
  <2>. QED BY <2>1, WFMin, Zenon
<1>2. \A j \in S : ~ (j < i)
  BY <1>1 DEF OpToRel
<1>. QED BY <1>2

\* A set of numbers with 0 and the successor of each of its members up to n
\* reaches n.
LEMMA CountUp ==
    ASSUME NEW n \in Nat, NEW G, 0 \in G,
           \A k \in 0 .. n - 1 : k \in G => k + 1 \in G
    PROVE  n \in G
<1> SUFFICES ASSUME n \notin G PROVE FALSE
  OBVIOUS
<1> DEFINE B == {k \in 0 .. n : k \notin G}
<1>1. B \subseteq Nat /\ n \in B
  OBVIOUS
<1>2. PICK k \in B : \A j \in B : k <= j
  BY <1>1, LeastNumber
<1>3. k # 0 /\ k - 1 \in 0 .. n - 1
  <2>1. k \in 0 .. n /\ k \notin G
    OBVIOUS
  <2>2. k # 0
    BY <2>1, Zenon
  <2>. QED BY <2>1, <2>2
<1>4. k - 1 \in G
  BY <1>2, <1>3
<1>5. (k - 1) + 1 \in G
  BY <1>3, <1>4
<1>. QED BY <1>5

\* A set of numbers up to n that is not empty has a largest one.
LEMMA MaxIsIn ==
    ASSUME NEW n \in Nat, NEW S \in SUBSET (0 .. n), S # {}
    PROVE  Max(S) \in S /\ \A y \in S : Max(S) >= y
<1> DEFINE T == {k \in 0 .. n : n - k \in S}
<1>1. T \subseteq Nat /\ T # {}
  <2>1. PICK s \in S : TRUE
    OBVIOUS
  <2>2. n - s \in T
    OBVIOUS
  <2>. QED BY <2>2
<1>2. PICK k \in T : \A j \in T : k <= j
  BY <1>1, LeastNumber
<1>3. n - k \in S /\ \A y \in S : n - k >= y
  <2>1. n - k \in S
    OBVIOUS
  <2>2. ASSUME NEW y \in S PROVE n - k >= y
    <3>1. n - y \in T
      OBVIOUS
    <3>. QED BY <3>1, <1>2
  <2>. QED BY <2>1, <2>2
<1>4. \E x \in S : \A y \in S : x >= y
  BY <1>3
<1>5. Max(S) = CHOOSE x \in S : \A y \in S : x >= y
  BY DEF Max
<1> HIDE DEF T
<1>. QED BY <1>4, <1>5, Zenon

\* The numbers from 1 to n without the largest.
LEMMA ButLast ==
    ASSUME NEW n \in Nat, n > 0
    PROVE  Max(1 .. n) = n /\ (1 .. n) \ {n} = 1 .. n - 1 /\ 1 .. n # {}
<1>1. 1 .. n \in SUBSET (0 .. n) /\ n \in 1 .. n
  OBVIOUS
<1>2. Max(1 .. n) \in 1 .. n /\ \A y \in 1 .. n : Max(1 .. n) >= y
  BY <1>1, MaxIsIn
<1>. QED BY <1>1, <1>2

\* A set of positions is finite.
LEMMA PositionsFinite ==
    ASSUME NEW n \in Nat
    PROVE  \A S \in SUBSET (1 .. n) :
              IsFiniteSet(S) /\ Cardinality(S) \in Nat /\ Cardinality(S) <= n
<1>1. IsFiniteSet(1 .. n) /\ Cardinality(1 .. n) = n
  BY FS_Interval
<1>2. ASSUME NEW S \in SUBSET (1 .. n)
      PROVE  IsFiniteSet(S) /\ Cardinality(S) \in Nat /\ Cardinality(S) <= n
  <2>1. IsFiniteSet(S) /\ Cardinality(S) <= Cardinality(1 .. n)
    BY <1>1, FS_Subset
  <2>. QED BY <1>1, <2>1, FS_CardinalityType
<1>. QED BY <1>2

-----------------------------------------------------------------------------
(* Folds. FoldLeft is a recursive function on the sets of positions.       *)

\* The same fold with a function op for the operator: f gives its value for each
\* set of positions, pick the position that is taken next.
FoldsOver(X, n, t, base, op, pick, f) ==
    /\ f \in [SUBSET (1 .. n) -> X]
    /\ f = [S \in SUBSET (1 .. n) |->
              IF S = {} THEN base ELSE op[<<f[S \ {pick[S]}], t[pick[S]]>>]]

\* Such a function exists ...
LEMMA FoldExists ==
    ASSUME NEW X, NEW Y, NEW n \in Nat, NEW t \in [1 .. n -> Y], NEW base \in X,
           NEW op \in [X \X Y -> X],
           NEW pick, \A S \in SUBSET (1 .. n) : S # {} => pick[S] \in S
    PROVE  \E f : FoldsOver(X, n, t, base, op, pick, f)
<1> DEFINE Step(f, S) == IF S = {} THEN base ELSE op[<<f[S \ {pick[S]}], t[pick[S]]>>]
           G == {k \in Nat : \E f \in [SUBSET (1 .. n) -> X] :
                    \A S \in SUBSET (1 .. n) : Cardinality(S) <= k => f[S] = Step(f, S)}
<1>1. \A S \in SUBSET (1 .. n) : IsFiniteSet(S) /\ Cardinality(S) \in Nat /\ Cardinality(S) <= n
  BY PositionsFinite
<1>2. \A S \in SUBSET (1 .. n) :
        S # {} => /\ pick[S] \in S
                  /\ Cardinality(S \ {pick[S]}) = Cardinality(S) - 1
  <2> SUFFICES ASSUME NEW S \in SUBSET (1 .. n), S # {}
               PROVE  pick[S] \in S /\ Cardinality(S \ {pick[S]}) = Cardinality(S) - 1
    OBVIOUS
  <2>1. pick[S] \in S
    OBVIOUS
  <2>2. IsFiniteSet(S)
    BY <1>1
  <2>. QED BY <2>1, <2>2, FS_RemoveElement
<1>3. \A f \in [SUBSET (1 .. n) -> X], S \in SUBSET (1 .. n) : Step(f, S) \in X
  BY <1>2
<1>4. 0 \in G
  <2> DEFINE f == [S \in SUBSET (1 .. n) |-> base]
  <2>1. f \in [SUBSET (1 .. n) -> X]
    OBVIOUS
  <2>2. ASSUME NEW S \in SUBSET (1 .. n), Cardinality(S) <= 0 PROVE f[S] = Step(f, S)
    <3>1. S = {}
      BY <1>1, <2>2, FS_EmptySet
    <3>. QED BY <3>1
  <2>3. \A S \in SUBSET (1 .. n) : Cardinality(S) <= 0 => f[S] = Step(f, S)
    BY <2>2
  <2> HIDE DEF f
  <2>. QED BY <2>1, <2>3
<1>5. ASSUME NEW k \in 0 .. n - 1, k \in G PROVE k + 1 \in G
  <2>1. PICK f \in [SUBSET (1 .. n) -> X] :
          \A S \in SUBSET (1 .. n) : Cardinality(S) <= k => f[S] = Step(f, S)
    BY <1>5
  <2> DEFINE g == [S \in SUBSET (1 .. n) |-> Step(f, S)]
  <2>2. g \in [SUBSET (1 .. n) -> X]
    BY <1>3
  <2>3. \A S \in SUBSET (1 .. n) : Cardinality(S) <= k => g[S] = f[S]
    BY <2>1
  <2>4. ASSUME NEW S \in SUBSET (1 .. n), Cardinality(S) <= k + 1 PROVE g[S] = Step(g, S)
    <3>1. CASE S = {}
      BY <3>1
    <3>2. CASE S # {}
      <4>1. Cardinality(S \ {pick[S]}) <= k
        <5> HIDE DEF g, Step, G
        <5>1. Cardinality(S) \in Nat
          BY <1>1
        <5>2. Cardinality(S \ {pick[S]}) = Cardinality(S) - 1
          BY <1>2, <3>2
        <5>. QED BY <2>4, <5>1, <5>2
      <4>2. g[S \ {pick[S]}] = f[S \ {pick[S]}]
        BY <2>3, <4>1
      <4>3. g[S] = Step(f, S) /\ Step(f, S) = Step(g, S)
        <5> HIDE DEF g
        <5>1. g[S] = Step(f, S)
          BY DEF g
        <5>. QED BY <4>2, <3>2, <5>1
      <4>. QED BY <4>3
    <3>. QED BY <3>1, <3>2
  <2>5. \A S \in SUBSET (1 .. n) : Cardinality(S) <= k + 1 => g[S] = Step(g, S)
    BY <2>4
  <2> HIDE DEF g, Step
  <2>6. \E h \in [SUBSET (1 .. n) -> X] :
          \A S \in SUBSET (1 .. n) : Cardinality(S) <= k + 1 => h[S] = Step(h, S)
    BY <2>2, <2>5, Zenon
  <2>7. k + 1 \in Nat
    OBVIOUS
  <2>. QED BY <2>6, <2>7, Zenon
<1>6. n \in G
  <2> HIDE DEF G
  <2>. QED BY <1>4, <1>5, CountUp
<1>7. PICK f \in [SUBSET (1 .. n) -> X] :
        \A S \in SUBSET (1 .. n) : Cardinality(S) <= n => f[S] = Step(f, S)
  BY <1>6
<1>8. \A S \in SUBSET (1 .. n) : f[S] = Step(f, S)
  BY <1>1, <1>7
<1>9. f = [S \in SUBSET (1 .. n) |-> Step(f, S)]
  BY <1>8
<1>. QED BY <1>9 DEF FoldsOver

\* The values of a fold, from the one before it to the last.
IsRun(c, X, base, t, v) ==
    /\ v \in [0 .. Len(t) -> X]
    /\ v[0] = base
    /\ \A i \in 1 .. Len(t) : v[i] = Op(c, v[i - 1], t[i])
    /\ Folded(c, base, t) = v[Len(t)]

\* A fold takes the elements of the sequence one by one.
THEOREM FoldRun ==
    ASSUME NEW c, NEW X, NEW Y, NEW base \in X, NEW t \in Seq(Y),
           \A x \in X, y \in Y : Op(c, x, y) \in X
    PROVE  \E v : IsRun(c, X, base, t, v)
<1> DEFINE n == Len(t)
           Pos == SUBSET (1 .. n)
           Step(f, S) == IF S = {} THEN base ELSE Op(c, f[S \ {Max(S)}], t[Max(S)])
           op == [p \in X \X Y |-> Op(c, p[1], p[2])]
           pick == [S \in Pos |-> Max(S)]
           it == CHOOSE f : f = [S \in Pos |-> Step(f, S)]
<1>1. n \in Nat /\ DOMAIN t = 1 .. n /\ t \in [1 .. n -> Y]
  OBVIOUS
<1>2. op \in [X \X Y -> X]
  OBVIOUS
<1>3. \A S \in Pos : pick[S] = Max(S) /\ (S # {} => Max(S) \in S)
  <2>1. \A S \in Pos : S \in SUBSET (0 .. n)
    OBVIOUS
  <2> HIDE DEF n
  <2>. QED BY <1>1, <2>1, MaxIsIn
<1>4. PICK f : FoldsOver(X, n, t, base, op, pick, f)
  <2> HIDE DEF op, n, pick
  <2>. QED BY <1>1, <1>2, <1>3, FoldExists
<1>5. f = [S \in Pos |-> Step(f, S)]
  <2>1. ASSUME NEW S \in Pos, S # {}
        PROVE  op[<<f[S \ {pick[S]}], t[pick[S]]>>] = Step(f, S)
    <3>1. pick[S] = Max(S) /\ Max(S) \in S
      BY <1>3, <2>1
    <3>2. f[S \ {Max(S)}] \in X /\ t[Max(S)] \in Y
      BY <1>1, <1>4, <3>1 DEF FoldsOver
    <3> HIDE DEF pick
    <3>. QED BY <2>1, <3>1, <3>2
  <2> HIDE DEF op, pick, Step
  <2>2. \A S \in Pos :
           (IF S = {} THEN base ELSE op[<<f[S \ {pick[S]}], t[pick[S]]>>]) = Step(f, S)
    BY <2>1 DEF Step
  <2>. QED BY <1>4, <2>2 DEF FoldsOver
<1>6. it = [S \in Pos |-> Step(it, S)]
  <2> HIDE DEF Step, Pos
  <2>. QED BY <1>5, Zenon
<1>7. Folded(c, base, t) = it[1 .. n]
  BY <1>1, Zenon DEF Folded, MapThenFoldSet
<1> DEFINE v == [k \in 0 .. n |-> it[1 .. k]]
<1>8. v[0] = base
  <2>1. 1 .. 0 = {} /\ {} \in Pos
    OBVIOUS
  <2> HIDE DEF it
  <2>. QED BY <1>1, <1>6, <2>1
<1>9. ASSUME NEW i \in 1 .. n PROVE v[i] = Op(c, v[i - 1], t[i])
  <2>1. Max(1 .. i) = i /\ (1 .. i) \ {i} = 1 .. i - 1 /\ 1 .. i # {}
    BY ButLast
  <2>2. 1 .. i \in Pos /\ i \in 0 .. n /\ i - 1 \in 0 .. n
    BY <1>1
  <2> HIDE DEF it, n, Pos
  <2>3. it[1 .. i] = Op(c, it[1 .. i - 1], t[i])
    BY <1>6, <2>1, <2>2
  <2>. QED BY <2>2, <2>3
<1>10. v \in [0 .. n -> X]
  <2> DEFINE T == {k \in 0 .. n : v[k] \in X}
  <2> HIDE DEF v
  <2>1. 0 \in T
    BY <1>1, <1>8
  <2>2. ASSUME NEW k \in 0 .. n - 1, k \in T PROVE k + 1 \in T
    <3>1. k + 1 \in 1 .. n /\ (k + 1) - 1 = k /\ t[k + 1] \in Y
      BY <1>1
    <3>2. v[k + 1] = Op(c, v[k], t[k + 1])
      BY <1>9, <3>1
    <3>3. v[k + 1] \in X
      BY <2>2, <3>1, <3>2
    <3>. QED BY <1>1, <3>1, <3>3
  <2>3. ASSUME NEW k \in 0 .. n PROVE v[k] \in X
    <3> DEFINE U == {j \in 0 .. k : v[j] \in X}
    <3>1. 0 \in U
      BY <2>1
    <3>2. ASSUME NEW j \in 0 .. k - 1, j \in U PROVE j + 1 \in U
      <4>1. j \in 0 .. n - 1 /\ j \in T /\ j + 1 \in 0 .. k
        BY <1>1, <3>2
      <4>2. j + 1 \in T
        BY <2>2, <4>1
      <4>. QED BY <4>1, <4>2
    <3>3. k \in U
      <4> HIDE DEF U
      <4>. QED BY <3>1, <3>2, CountUp, k \in Nat
    <3>. QED BY <3>3
  <2>. QED BY <2>3 DEF v
<1>11. IsRun(c, X, base, t, v)
  <2>1. Folded(c, base, t) = v[n]
    BY <1>1, <1>7
  <2> HIDE DEF v
  <2>. QED BY <1>8, <1>9, <1>10, <2>1 DEF IsRun
<1> HIDE DEF v
<1>. QED BY <1>11

\* What is so of the value before a fold, and stays so with each element, is so
\* after the fold.
THEOREM FoldKeeps ==
    ASSUME NEW c, NEW X, NEW Y, NEW base \in X, NEW t \in Seq(Y),
           \A x \in X, y \in Y : Op(c, x, y) \in X
    PROVE  Folded(c, base, t) \in X
<1>1. PICK v : IsRun(c, X, base, t, v)
  BY FoldRun
<1>2. Len(t) \in 0 .. Len(t)
  OBVIOUS
<1>. QED BY <1>1, <1>2 DEF IsRun

-----------------------------------------------------------------------------
(* Functions on 1 .. n that are defined by the value before.               *)

\* The only solution of the equations of a recursive function on 1 .. n.
Chain(c, base, n) ==
    CHOOSE h : h = [i \in 1 .. n |-> IF i = 1 THEN base ELSE Op(c, h[i - 1], i)]

\* Such a function exists, has values of their kind, and is found by CHOOSE.
THEOREM ChainDef ==
    ASSUME NEW c, NEW X, NEW base \in X, NEW n \in Nat,
           \A x \in X, i \in 2 .. n : Op(c, x, i) \in X
    PROVE  /\ Chain(c, base, n) \in [1 .. n -> X]
           /\ \A i \in 1 .. n :
                 Chain(c, base, n)[i] =
                    IF i = 1 THEN base ELSE Op(c, Chain(c, base, n)[i - 1], i)
<1> DEFINE Step(h, i) == IF i = 1 THEN base ELSE Op(c, h[i - 1], i)
           G == {k \in Nat : \E h \in [1 .. n -> X] :
                    \A i \in 1 .. n : i <= k => h[i] = Step(h, i)}
<1>1. \A h \in [1 .. n -> X], i \in 1 .. n : Step(h, i) \in X
  <2> SUFFICES ASSUME NEW h \in [1 .. n -> X], NEW i \in 1 .. n, i # 1
               PROVE  Op(c, h[i - 1], i) \in X
    OBVIOUS
  <2>1. h[i - 1] \in X /\ i \in 2 .. n
    OBVIOUS
  <2>. QED BY <2>1
<1>2. 0 \in G
  <2> DEFINE h == [i \in 1 .. n |-> base]
  <2>1. h \in [1 .. n -> X]
    OBVIOUS
  <2> HIDE DEF h, Step
  <2>2. \A i \in 1 .. n : i <= 0 => h[i] = Step(h, i)
    OBVIOUS
  <2>3. \E f \in [1 .. n -> X] : \A i \in 1 .. n : i <= 0 => f[i] = Step(f, i)
    BY <2>1, <2>2, Zenon
  <2>. QED BY <2>3, 0 \in Nat, Zenon
<1>3. ASSUME NEW k \in 0 .. n - 1, k \in G PROVE k + 1 \in G
  <2>1. PICK h \in [1 .. n -> X] : \A i \in 1 .. n : i <= k => h[i] = Step(h, i)
    BY <1>3
  <2> DEFINE g == [i \in 1 .. n |-> Step(h, i)]
  <2>2. g \in [1 .. n -> X]
    BY <1>1
  <2>3. ASSUME NEW i \in 1 .. n, i <= k + 1 PROVE g[i] = Step(g, i)
    <3>1. CASE i = 1
      BY <3>1
    <3>2. CASE i # 1
      <4>1. i - 1 \in 1 .. n /\ i - 1 <= k
        BY <2>3, <3>2
      <4>2. g[i - 1] = h[i - 1]
        BY <2>1, <4>1
      <4> HIDE DEF g
      <4>3. g[i] = Step(h, i)
        BY DEF g
      <4>. QED BY <3>2, <4>2, <4>3
    <3>. QED BY <3>1, <3>2
  <2> HIDE DEF g, Step
  <2>4. \E f \in [1 .. n -> X] : \A i \in 1 .. n : i <= k + 1 => f[i] = Step(f, i)
    BY <2>2, <2>3, Zenon
  <2>5. k + 1 \in Nat
    OBVIOUS
  <2>. QED BY <2>4, <2>5, Zenon
<1>4. n \in G
  <2> HIDE DEF G
  <2>. QED BY <1>2, <1>3, CountUp
<1>5. PICK h \in [1 .. n -> X] : \A i \in 1 .. n : i <= n => h[i] = Step(h, i)
  BY <1>4
<1>6. h = [i \in 1 .. n |-> Step(h, i)]
  <2> HIDE DEF Step
  <2>. QED BY <1>5
<1> DEFINE it == Chain(c, base, n)
<1>7. it = [i \in 1 .. n |-> Step(it, i)]
  <2>1. it = CHOOSE f : f = [i \in 1 .. n |-> Step(f, i)]
    BY DEF Chain
  <2> HIDE DEF it, Step
  <2>. QED BY <1>6, <2>1, Zenon
<1>8. it \in [1 .. n -> X]
  <2> DEFINE T == {k \in 0 .. n : \A i \in 1 .. k : it[i] \in X}
  <2> HIDE DEF it
  <2>1. 0 \in T
    OBVIOUS
  <2>2. ASSUME NEW k \in 0 .. n - 1, k \in T PROVE k + 1 \in T
    <3>1. it[k + 1] = Step(it, k + 1)
      <4>1. k + 1 \in 1 .. n
        OBVIOUS
      <4> HIDE DEF Step
      <4>. QED BY <1>7, <4>1
    <3>2. k = 0 \/ it[k] \in X
      BY <2>2
    <3>3. it[k + 1] \in X
      <4>1. CASE k = 0
        BY <3>1, <4>1
      <4>2. CASE k # 0
        <5>1. it[k] \in X /\ k + 1 \in 2 .. n /\ (k + 1) - 1 = k /\ k + 1 # 1
          BY <3>2, <4>2
        <5>2. Op(c, it[k], k + 1) \in X
          BY <5>1
        <5>. QED BY <3>1, <5>1, <5>2
      <4>. QED BY <4>1, <4>2
    <3>4. \A i \in 1 .. k + 1 : i \in 1 .. k \/ i = k + 1
      OBVIOUS
    <3>. QED BY <2>2, <3>3, <3>4
  <2>3. n \in T
    <3> HIDE DEF T
    <3>. QED BY <2>1, <2>2, CountUp
  <2>4. \A i \in 1 .. n : it[i] \in X
    BY <2>3
  <2>5. it = [i \in 1 .. n |-> it[i]]
    <3> HIDE DEF Step
    <3>. QED BY <1>7
  <2>. QED BY <2>4, <2>5
<1>9. \A i \in 1 .. n : it[i] = Step(it, i)
  <2> HIDE DEF it, Step
  <2>. QED BY <1>7
<1>. QED BY <1>8, <1>9

-----------------------------------------------------------------------------
(* Sums over sets of numbers.                                              *)

\* What a sum is for no position, and each further one keeps, it is for all.
LEMMA SumStays ==
    ASSUME NEW n \in Nat, NEW X, NEW sum, NEW pick, sum[{}] \in X,
           \A S \in SUBSET (1 .. n) : S # {} => pick[S] \in S,
           \A S \in SUBSET (1 .. n) :
              S # {} /\ sum[S \ {pick[S]}] \in X => sum[S] \in X
    PROVE  \A S \in SUBSET (1 .. n) : sum[S] \in X
<1> DEFINE G == {k \in Nat : \A S \in SUBSET (1 .. n) : Cardinality(S) <= k => sum[S] \in X}
<1>1. \A S \in SUBSET (1 .. n) : IsFiniteSet(S) /\ Cardinality(S) \in Nat /\ Cardinality(S) <= n
  BY PositionsFinite
<1>2. 0 \in G
  <2>1. ASSUME NEW S \in SUBSET (1 .. n), Cardinality(S) <= 0 PROVE S = {}
    BY <1>1, <2>1, FS_EmptySet
  <2>. QED BY <2>1
<1>3. ASSUME NEW k \in 0 .. n - 1, k \in G PROVE k + 1 \in G
  <2>1. ASSUME NEW S \in SUBSET (1 .. n), Cardinality(S) <= k + 1, S # {} PROVE sum[S] \in X
    <3> DEFINE x == pick[S]
    <3>1. x \in S
      BY <2>1
    <3> HIDE DEF x
    <3>2. Cardinality(S \ {x}) = Cardinality(S) - 1
      BY <1>1, <3>1, FS_RemoveElement
    <3>3. Cardinality(S) \in Nat
      BY <1>1
    <3>4. Cardinality(S \ {x}) <= k
      BY <2>1, <3>2, <3>3
    <3>5. S \ {x} \in SUBSET (1 .. n)
      OBVIOUS
    <3>6. sum[S \ {x}] \in X
      BY <1>3, <3>4, <3>5
    <3>. QED BY <2>1, <3>6 DEF x
  <2>2. \A S \in SUBSET (1 .. n) : Cardinality(S) <= k + 1 => sum[S] \in X
    BY <2>1
  <2>3. k + 1 \in Nat
    OBVIOUS
  <2>. QED BY <2>2, <2>3
<1>4. n \in G
  <2> HIDE DEF G
  <2>. QED BY <1>2, <1>3, CountUp
<1>. QED BY <1>1, <1>4

\* The sums of P over the sets of positions, each of which begins with some term.
IsSum(n, P, sum) ==
    /\ P \in [1 .. n -> Nat] /\ sum \in [SUBSET (1 .. n) -> Nat]
    /\ \A S \in SUBSET (1 .. n) : S # {} => \E x \in S : sum[S] = P[x] + sum[S \ {x}]

AnyFirst(n, P, sum) ==
    \A S \in SUBSET (1 .. n), y \in 1 .. n : y \in S => sum[S] = P[y] + sum[S \ {y}]

\* A sum that takes its terms in some order may take any of them first.
LEMMA AnyTermFirst ==
    ASSUME NEW n \in Nat, NEW P, NEW sum, IsSum(n, P, sum)
    PROVE  AnyFirst(n, P, sum)
<1> USE DEF IsSum, AnyFirst
<1> DEFINE G == {k \in Nat : \A S \in SUBSET (1 .. n), y \in 1 .. n :
                    Cardinality(S) <= k /\ y \in S => sum[S] = P[y] + sum[S \ {y}]}
<1>1. \A S \in SUBSET (1 .. n) : IsFiniteSet(S) /\ Cardinality(S) \in Nat /\ Cardinality(S) <= n
  BY PositionsFinite
<1>2. 0 \in G
  <2>1. ASSUME NEW S \in SUBSET (1 .. n), Cardinality(S) <= 0 PROVE S = {}
    BY <1>1, <2>1, FS_EmptySet
  <2>. QED BY <2>1
<1>3. ASSUME NEW k \in 0 .. n - 1, k \in G PROVE k + 1 \in G
  <2>1. ASSUME NEW S \in SUBSET (1 .. n), NEW y \in 1 .. n, Cardinality(S) <= k + 1, y \in S
        PROVE  sum[S] = P[y] + sum[S \ {y}]
    <3>1. PICK x \in S : sum[S] = P[x] + sum[S \ {x}]
      BY <2>1
    <3>2. CASE x = y
      BY <3>1, <3>2
    <3>3. CASE x # y
      <4>1. /\ Cardinality(S \ {x}) = Cardinality(S) - 1
            /\ Cardinality(S \ {y}) = Cardinality(S) - 1
        BY <1>1, <2>1, <3>1, FS_RemoveElement
      <4>2. Cardinality(S \ {x}) <= k /\ Cardinality(S \ {y}) <= k
        <5>1. Cardinality(S) \in Nat
          BY <1>1
        <5> HIDE DEF G
        <5>. QED BY <2>1, <4>1, <5>1
      <4>3. sum[S \ {x}] = P[y] + sum[(S \ {x}) \ {y}]
        BY <1>3, <2>1, <3>3, <4>2
      <4>4. sum[S \ {y}] = P[x] + sum[(S \ {y}) \ {x}]
        BY <1>3, <2>1, <3>1, <3>3, <4>2
      <4>5. (S \ {x}) \ {y} = (S \ {y}) \ {x}
        OBVIOUS
      <4>6. /\ sum[(S \ {y}) \ {x}] \in Nat /\ P[x] \in Nat /\ P[y] \in Nat
            /\ sum[S \ {x}] \in Nat /\ sum[S \ {y}] \in Nat
        BY <2>1, <3>1
      <4> DEFINE rest == sum[(S \ {y}) \ {x}]
                 a == sum[S \ {x}]
                 b == sum[S \ {y}]
      <4>7. sum[S] = P[x] + a /\ a = P[y] + rest /\ b = P[x] + rest
        BY <3>1, <4>3, <4>4, <4>5
      <4>8. a \in Nat /\ b \in Nat /\ rest \in Nat
        BY <4>6
      <4> HIDE DEF G, a, b, rest
      <4>9. sum[S] = P[y] + b
        BY <4>6, <4>7, <4>8
      <4>. QED BY <4>9 DEF b
    <3>. QED BY <3>2, <3>3
  <2>2. k + 1 \in Nat
    OBVIOUS
  <2>. QED BY <2>1, <2>2
<1>4. n \in G
  <2> HIDE DEF G
  <2>. QED BY <1>2, <1>3, CountUp
<1>. QED BY <1>1, <1>4
==============================================================================
