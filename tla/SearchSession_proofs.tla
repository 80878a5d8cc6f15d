------------------------- MODULE SearchSession_proofs -------------------------
(****************************************************************************)
(* What dim search shows, for any index, any changes of it meanwhile, any   *)
(* flags and any cells.                                                     *)
(****************************************************************************)
EXTENDS SearchSession, DataLemmas

------------------------------------------------------------------------------
(* The table                                                                *)

\* p holds the sums of the first cells of a line.
PartialSums(p, s) ==
    /\ p[0] = 0
    /\ \A k \in 0 .. Len(s) : p[k] \in Int
    /\ \A k \in 1 .. Len(s) : p[k] = p[k - 1] + s[k]

\* The length of a line adds its cells from left to right.
LEMMA TotalLengthUnfolds ==
    ASSUME NEW s \in Seq(Int)
    PROVE  \E p : PartialSums(p, s) /\ TotalLength(s) = p[Len(s)]
<1> DEFINE D == 1 .. Len(s)
           c == [T \in SUBSET D |-> Max(T)]
           Solves(f) == f = [T \in SUBSET D |->
                                IF T = {} THEN 0
                                ELSE LET x == Max(T) IN f[T \ {x}] + s[x]]
           F == CHOOSE f : Solves(f)
           p == [k \in 0 .. Len(s) |-> F[1 .. k]]
<1>1. Len(s) \in Nat /\ DOMAIN s = D /\ \A k \in D : s[k] \in Int
    BY LenProperties, ElementOfSeq
<1>2. ASSUME NEW T \in SUBSET D, T # {}
      PROVE  Max(T) \in T /\ \A y \in T : Max(T) >= y
    <2>1. T \subseteq 0 .. Len(s)
        BY <1>1
    <2>2. \E x \in T : \A y \in T : x >= y
        BY <1>1, <1>2, <2>1, GreatestExists
    <2> QED
        BY <2>2 DEF Max
<1>3. IsFiniteSet(D)
    BY <1>1, FS_Interval
<1>4. Chooses(c, D)
    BY <1>2 DEF Chooses
<1>5. ClosedUnderSum(Int)
    BY DEF ClosedUnderSum
<1> HIDE DEF D
<1>6. PICK f \in [SUBSET D -> Int] : Sums(f, D, c, s)
    <2>1. \A k \in D : s[k] \in Int
        BY <1>1
    <2> HIDE DEF c
    <2> QED
        BY <1>3, <1>4, <1>5, <2>1, SumExists
<1>7. Solves(f)
    <2>1. \A T \in SUBSET D : f[T] = IF T = {} THEN 0
                                    ELSE LET x == Max(T) IN f[T \ {x}] + s[x]
        BY <1>6 DEF Sums
    <2> QED
        BY <2>1
<1>8. Solves(F)
    <2> HIDE DEF Solves
    <2> QED
        BY <1>7
<1>9. TotalLength(s) = F[D]
    BY <1>1 DEF TotalLength, FoldLeft, MapThenFoldSet
<1>10. F[{}] = 0 /\ \A k \in 1 .. Len(s) : F[1 .. k] = F[1 .. k - 1] + s[k]
    <2>1. \A T \in SUBSET D : F[T] = IF T = {} THEN 0
                                    ELSE LET x == Max(T) IN F[T \ {x}] + s[x]
        <3> HIDE DEF F
        <3> QED
            BY <1>8
    <2> HIDE DEF F
    <2>2. ASSUME NEW k \in 1 .. Len(s)
          PROVE  F[1 .. k] = F[1 .. k - 1] + s[k]
        <3>1. k \in 1 .. k /\ 1 .. k # {}
            <4>1. k \in Int /\ 1 <= k
                BY <1>1
            <4>2. k \in 1 .. k
                BY <4>1
            <4> QED
                BY <4>2
        <3>a. (1 .. k) \in SUBSET D
            BY <1>1 DEF D
        <3>2. Max(1 .. k) = k
            <4>1. Max(1 .. k) \in 1 .. k /\ Max(1 .. k) >= k
                BY <1>2, <3>1, <3>a
            <4> QED
                BY <1>1, <4>1
        <3>3. (1 .. k) \ {k} = 1 .. k - 1
            BY <1>1
        <3> QED
            BY <2>1, <3>1, <3>a, <3>2, <3>3
    <2> QED
        BY <2>1, <2>2
<1>11. \A k \in 0 .. Len(s) : F[1 .. k] \in Int
    <2> DEFINE N == {k \in Nat : k <= Len(s) => F[1 .. k] \in Int}
    <2> HIDE DEF F
    <2>1. 0 \in N
        <3>1. 1 .. 0 = {}
            OBVIOUS
        <3> QED
            BY <1>10, <3>1
    <2>2. ASSUME NEW k \in Nat, k \in N
          PROVE  k + 1 \in N
        <3> SUFFICES ASSUME k + 1 <= Len(s)
                     PROVE  F[1 .. k + 1] \in Int
            OBVIOUS
        <3>1. k + 1 \in 1 .. Len(s) /\ (k + 1) - 1 = k
            BY <1>1
        <3>2. F[1 .. k + 1] = F[1 .. k] + s[k + 1]
            BY <1>10, <3>1
        <3> QED
            BY <1>1, <2>2, <3>1, <3>2 DEF D
    <2> HIDE DEF N
    <2>3. Nat \subseteq N
        BY <2>1, <2>2, SetInduction
    <2> QED
        BY <1>1, <2>3 DEF N
<1> HIDE DEF F
<1>12. p[0] = 0 /\ p[Len(s)] = TotalLength(s)
    <2>1. 1 .. 0 = {}
        OBVIOUS
    <2>2. 0 \in 0 .. Len(s) /\ Len(s) \in 0 .. Len(s)
        BY <1>1
    <2> QED
        BY <1>9, <1>10, <2>1, <2>2 DEF D
<1>13. \A k \in 1 .. Len(s) : p[k] = p[k - 1] + s[k]
    <2>1. \A k \in 1 .. Len(s) : k \in 0 .. Len(s) /\ k - 1 \in 0 .. Len(s)
        BY <1>1
    <2> QED
        BY <1>10, <2>1
<1>14. \A k \in 0 .. Len(s) : p[k] \in Int
    BY <1>11
<1> HIDE DEF p
<1> QED
    BY <1>12, <1>13, <1>14 DEF PartialSums

LEMMA FlatMapType ==
    ASSUME NEW S, IsFiniteSet(S), NEW length, \A e \in S : length[e] \in Nat
    PROVE  FlatMap(S, length) \in Nat
<1> DEFINE c == [T \in SUBSET S |-> CHOOSE x \in T : TRUE]
           Solves(f) == f = [T \in SUBSET S |->
                                IF T = {} THEN 0
                                ELSE LET x == CHOOSE x \in T : TRUE
                                     IN  length[x] + f[T \ {x}]]
           F == CHOOSE f : Solves(f)
<1>1. Chooses(c, S)
    BY DEF Chooses
<1>2. ClosedUnderSum(Nat)
    BY DEF ClosedUnderSum
<1>3. PICK f \in [SUBSET S -> Nat] : Sums(f, S, c, length)
    <2> HIDE DEF c
    <2> QED
        BY <1>1, <1>2, SumExists
<1>4. Solves(f)
    <2>1. ASSUME NEW T \in SUBSET S
          PROVE  f[T] = IF T = {} THEN 0
                        ELSE LET x == CHOOSE x \in T : TRUE IN length[x] + f[T \ {x}]
        <3>1. CASE T = {}
            BY <1>3, <3>1 DEF Sums
        <3>2. CASE T # {}
            <4> DEFINE x == CHOOSE x \in T : TRUE
            <4>1. x \in S /\ c[T] = x
                BY <3>2
            <4> HIDE DEF x
            <4>2. f[T] = f[T \ {x}] + length[x]
                BY <1>3, <3>2, <4>1 DEF Sums
            <4>3. f[T \ {x}] \in Nat /\ length[x] \in Nat
                BY <1>3, <4>1
            <4>4. f[T] = length[x] + f[T \ {x}]
                BY <4>2, <4>3
            <4> QED
                BY <3>2, <4>4 DEF x
        <3> QED
            BY <3>1, <3>2
    <2> QED
        BY <2>1
<1>5. Solves(F)
    <2> HIDE DEF Solves
    <2> QED
        BY <1>4
<1>6. S # {} => FlatMap(S, length) = F[S] + 2 * (Cardinality(S) - 1)
    BY DEF FlatMap, MapThenSumSet, MapThenFoldSet
<1>7. F[S] \in Nat
    <2> DEFINE N == {n \in Nat : \A T \in SUBSET S : Cardinality(T) <= n => F[T] \in Nat}
    <2>1. \A T \in SUBSET S : F[T] = IF T = {} THEN 0
                    ELSE LET x == CHOOSE x \in T : TRUE IN length[x] + F[T \ {x}]
        <3> HIDE DEF F
        <3> QED
            BY <1>5
    <2> HIDE DEF F
    <2>2. \A T \in SUBSET S : IsFiniteSet(T) /\ Cardinality(T) \in Nat
        BY FS_Subset, FS_CardinalityType
    <2>0. \A T \in SUBSET S : T = {} => F[T] \in Nat
        BY <2>1
    <2>3. 0 \in N
        <3>1. \A T \in SUBSET S : Cardinality(T) <= 0 => Cardinality(T) = 0
            BY <2>2
        <3>2. \A T \in SUBSET S : Cardinality(T) <= 0 => T = {}
            BY <2>2, <3>1, FS_EmptySet
        <3> QED
            BY <2>0, <3>2
    <2>4. ASSUME NEW n \in Nat, n \in N
          PROVE  n + 1 \in N
        <3> SUFFICES ASSUME NEW T \in SUBSET S, Cardinality(T) <= n + 1, T # {}
                     PROVE  F[T] \in Nat
            BY <2>0
        <3> DEFINE x == CHOOSE x \in T : TRUE
        <3>1. x \in T
            OBVIOUS
        <3>2. F[T] = length[x] + F[T \ {x}]
            BY <2>1
        <3> HIDE DEF x
        <3>3. T \ {x} \in SUBSET S /\ Cardinality(T \ {x}) = Cardinality(T) - 1
            BY <2>2, <3>1, FS_RemoveElement
        <3>4. Cardinality(T \ {x}) <= n
            BY <2>2, <3>3
        <3>5. F[T \ {x}] \in Nat /\ length[x] \in Nat
            BY <2>4, <3>1, <3>3, <3>4
        <3> QED
            BY <3>2, <3>5
    <2> HIDE DEF N
    <2>5. Cardinality(S) \in N
        BY <2>2, <2>3, <2>4, SetInduction
    <2> QED
        BY <2>2, <2>5 DEF N
<1> QED
    BY <1>6, <1>7, FS_CardinalityType, FS_EmptySet DEF FlatMap

\* The mean of the first rows is defined for one row after another.
LEMMA AverageType ==
    ASSUME NEW lines, Len(lines) \in Nat, NEW i, \A k \in 1 .. Len(lines) : lines[k][i] \in Nat
    PROVE  /\ Average(lines, i) \in Nat
           /\ Len(lines) > 0 /\ lines[1][i] > 0 => Average(lines, i) > 0
<1> DEFINE Mean(f, k) ==
              IF k = 0 THEN [entries |-> 0, width |-> 0]
              ELSE LET mean == f[k - 1]
                       cell == lines[k][i]
                   IN  IF cell = 0 THEN mean
                       ELSE [entries |-> mean.entries + 1,
                             width |-> (mean.width * mean.entries + cell)
                                           \div (mean.entries + 1)]
           Solves(f, n) == f = [k \in 0 .. n |-> Mean(f, k)]
           S == {n \in Nat : \E f : Solves(f, n)}
           F == CHOOSE f : Solves(f, Len(lines))
<1>1. 0 \in S
    <2>1. Solves([k \in 0 .. 0 |-> [entries |-> 0, width |-> 0]], 0)
        OBVIOUS
    <2> QED
        BY <2>1
<1>2. ASSUME NEW n \in Nat, n \in S
      PROVE  n + 1 \in S
    <2>1. PICK f : Solves(f, n)
        BY <1>2
    <2> DEFINE h == [k \in 0 .. n + 1 |-> IF k \in 0 .. n THEN f[k] ELSE Mean(f, k)]
    <2>2. \A k \in 0 .. n : h[k] = f[k] /\ f[k] = Mean(f, k)
        <3> HIDE DEF Mean
        <3>1. \A k \in 0 .. n : f[k] = Mean(f, k)
            BY <2>1
        <3> QED
            BY <3>1
    <2>3. h[n + 1] = Mean(f, n + 1)
        <3> HIDE DEF Mean
        <3> QED
            OBVIOUS
    <2>4. h = [k \in 0 .. n + 1 |-> h[k]]
        OBVIOUS
    <2> HIDE DEF h
    <2>5. ASSUME NEW k \in 0 .. n + 1
          PROVE  Mean(f, k) = Mean(h, k)
        <3>1. CASE k = 0
            BY <3>1
        <3>2. CASE k # 0
            <4>1. k - 1 \in 0 .. n
                BY <3>2
            <4>2. h[k - 1] = f[k - 1]
                BY <2>2, <4>1
            <4> QED
                BY <4>2
        <3> QED
            BY <3>1, <3>2
    <2> HIDE DEF Mean
    <2>6. \A k \in 0 .. n + 1 : h[k] = Mean(h, k)
        <3>1. \A k \in 0 .. n + 1 : k \in 0 .. n \/ k = n + 1
            OBVIOUS
        <3> QED
            BY <2>2, <2>3, <2>5, <3>1
    <2>7. Solves(h, n + 1)
        BY <2>4, <2>6
    <2> HIDE DEF Solves
    <2> QED
        BY <2>7
<1> HIDE DEF S, Solves
<1>3. Solves(F, Len(lines))
    <2>1. Len(lines) \in S
        BY <1>1, <1>2, SetInduction
    <2> QED
        BY <2>1 DEF S
<1>4. Average(lines, i) = F[Len(lines)].width
    BY DEF Average, Solves
<1> HIDE DEF F
<1>5. \A k \in 0 .. Len(lines) : F[k] = Mean(F, k)
    <2> HIDE DEF Mean
    <2> QED
        BY <1>3 DEF Solves
<1>a. F[0] = [entries |-> 0, width |-> 0]
    <2>1. 0 \in 0 .. Len(lines)
        OBVIOUS
    <2>2. F[0] = Mean(F, 0)
        BY <1>5, <2>1
    <2> QED
        BY <2>2
<1> DEFINE T == {n \in Nat : n <= Len(lines) =>
                    /\ F[n].entries \in Nat /\ F[n].width \in Nat
                    /\ n > 0 /\ lines[1][i] > 0 => F[n].width > 0}
<1>6. 0 \in T
    BY <1>a
<1>7. ASSUME NEW n \in Nat, n \in T
      PROVE  n + 1 \in T
    <2> SUFFICES ASSUME n + 1 <= Len(lines)
                 PROVE  /\ F[n + 1].entries \in Nat /\ F[n + 1].width \in Nat
                        /\ lines[1][i] > 0 => F[n + 1].width > 0
        OBVIOUS
    <2> DEFINE e == F[n].entries
               w == F[n].width
               cell == lines[n + 1][i]
    <2>1. n + 1 \in 0 .. Len(lines) /\ n + 1 \in 1 .. Len(lines) /\ (n + 1) - 1 = n
        OBVIOUS
    <2>2. F[n + 1] = IF cell = 0 THEN F[n]
                     ELSE [entries |-> e + 1, width |-> (w * e + cell) \div (e + 1)]
        BY <1>5, <2>1
    <2>3. /\ e \in Nat /\ w \in Nat /\ cell \in Nat
          /\ n > 0 /\ lines[1][i] > 0 => w > 0
        BY <1>7, <2>1
    <2>4. n = 0 => e = 0 /\ cell = lines[1][i]
        BY <1>a
    <2> HIDE DEF e, w, cell
    <2>5. ASSUME cell # 0
          PROVE  /\ (w * e + cell) \div (e + 1) \in Nat
                 /\ w > 0 \/ e = 0 => (w * e + cell) \div (e + 1) > 0
        <3>1. w * e \in Nat
            BY <2>3
        <3>2. w > 0 \/ e = 0 => w * e >= e
            BY <2>3
        <3> DEFINE a == w * e + cell
        <3>3. a \in Nat /\ (w > 0 \/ e = 0 => a >= e + 1)
            BY <2>3, <2>5, <3>1, <3>2
        <3> HIDE DEF a
        <3>4. a \div (e + 1) \in Nat /\ (a >= e + 1 => a \div (e + 1) >= 1)
            BY <2>3, <3>3
        <3> QED
            BY <3>3, <3>4 DEF a
    <2>6. CASE cell = 0
        <3>1. F[n + 1] = F[n] /\ (lines[1][i] > 0 => n > 0)
            BY <2>2, <2>4, <2>6
        <3> QED
            BY <2>3, <2>6, <3>1 DEF e, w
    <2>7. CASE cell # 0
        <3>1. F[n + 1].entries = e + 1 /\ F[n + 1].width = (w * e + cell) \div (e + 1)
            BY <2>2, <2>7
        <3>2. lines[1][i] > 0 => w > 0 \/ e = 0
            BY <2>3, <2>4
        <3> QED
            BY <2>3, <2>5, <2>7, <3>1, <3>2
    <2> QED
        BY <2>6, <2>7
<1> HIDE DEF T
<1>8. Len(lines) \in T
    BY <1>6, <1>7, SetInduction
<1> QED
    BY <1>4, <1>8 DEF T

LEMMA QuotientType ==
    ASSUME NEW n \in Int, NEW d \in Nat \ {0}
    PROVE  /\ Quotient(n, d) \in Int
           /\ n >= 0 => d * Quotient(n, d) <= n
           /\ n <= 0 => Quotient(n, d) <= 0
<1>1. CASE n < 0
    <2>1. -n \in Nat
        BY <1>1
    <2> DEFINE q == (-n) \div d
    <2>2. q \in Nat
        BY <2>1
    <2>3. Quotient(n, d) = -q
        BY <1>1 DEF Quotient
    <2> HIDE DEF q
    <2> QED
        BY <1>1, <2>2, <2>3
<1>2. CASE ~(n < 0)
    <2> DEFINE q == n \div d
    <2>1. q \in Int /\ d * q <= n /\ (n = 0 => q = 0)
        BY <1>2
    <2>2. Quotient(n, d) = q
        BY <1>2 DEF Quotient
    <2> HIDE DEF q
    <2> QED
        BY <1>2, <2>1, <2>2
<1> QED
    BY <1>1, <1>2

\* A line of titles and rows as long as it.
IsTable(lines) ==
    /\ lines \in Seq(Seq(Nat)) /\ lines # <<>>
    /\ \A k \in DOMAIN lines : Len(lines[k]) = 6
    /\ \A i \in 1 .. 6 : lines[1][i] > 0

\* The shares of the columns are rounded down: together they are at most the room
\* there is, unless there is none.
LEMMA WidthsFit ==
    ASSUME NEW lines, IsTable(lines), NEW width \in Int
    PROVE  /\ ComputeWidths(lines, width) \in Seq(Int)
           /\ Len(ComputeWidths(lines, width)) = 6
           /\ ComputeWidths(lines, width)[1] > 0 =>
                 TotalLength(ComputeWidths(lines, width)) <= Room(width, 6)
<1> DEFINE a == [i \in 1 .. 6 |-> Average(lines, i)]
           full == TotalLength(a)
           R == Room(width, 6)
           w == [i \in 1 .. 6 |-> Quotient(a[i] * R, full)]
<1>1. /\ Len(lines) \in Nat /\ Len(lines) > 0 /\ DOMAIN lines = 1 .. Len(lines)
      /\ \A k \in 1 .. Len(lines) : lines[k] \in Seq(Nat) /\ Len(lines[k]) = 6
    BY LenProperties, ElementOfSeq, EmptySeq, IsTable(lines) DEF IsTable
<1>2. /\ DOMAIN lines[1] = 1 .. 6
      /\ \A k \in 1 .. Len(lines) : \A i \in 1 .. 6 : lines[k][i] \in Nat
    <2>1. ASSUME NEW k \in 1 .. Len(lines)
          PROVE  DOMAIN lines[k] = 1 .. 6 /\ \A i \in 1 .. 6 : lines[k][i] \in Nat
        BY <1>1, LenProperties, ElementOfSeq
    <2>2. 1 \in 1 .. Len(lines)
        BY <1>1
    <2> QED
        BY <2>1, <2>2
<1>3. \A i \in 1 .. 6 : Average(lines, i) \in Nat /\ Average(lines, i) > 0
    BY <1>1, <1>2, AverageType, IsTable(lines) DEF IsTable
<1>4. ComputeWidths(lines, width) = w
    <2>1. DOMAIN lines[1] = 1 .. 6 /\ Len(lines[1]) = 6
        BY <1>1, <1>2
    <2> QED
        BY <2>1 DEF ComputeWidths
<1>5. a \in Seq(Int) /\ Len(a) = 6 /\ \A i \in 1 .. 6 : a[i] \in Nat /\ a[i] > 0
    BY <1>3
<1>6. R \in Int
    BY DEF Room
<1> HIDE DEF a, R
<1>p. PICK p : PartialSums(p, a) /\ full = p[6]
    BY <1>5, TotalLengthUnfolds
<1>7. /\ p[0] = 0 /\ full = p[6]
      /\ \A k \in 0 .. 6 : p[k] \in Int
      /\ \A k \in 1 .. 6 : p[k] = p[k - 1] + a[k]
    BY <1>5, <1>p DEF PartialSums
<1>8. full \in Nat \ {0}
    <2> DEFINE S == {k \in Nat : k <= 6 => p[k] >= k}
    <2>1. 0 \in S
        BY <1>7
    <2>2. ASSUME NEW k \in Nat, k \in S
          PROVE  k + 1 \in S
        <3> SUFFICES ASSUME k + 1 <= 6
                     PROVE  p[k + 1] >= k + 1
            OBVIOUS
        <3>1. k + 1 \in 1 .. 6 /\ k \in 0 .. 6 /\ (k + 1) - 1 = k
            OBVIOUS
        <3>2. p[k + 1] = p[k] + a[k + 1] /\ p[k] \in Int
            BY <1>7, <3>1
        <3>3. a[k + 1] \in Nat /\ a[k + 1] > 0
            BY <1>5, <3>1
        <3> QED
            BY <2>2, <3>2, <3>3
    <2> HIDE DEF S
    <2>3. 6 \in S
        BY <2>1, <2>2, SetInduction
    <2>4. 6 \in 0 .. 6
        OBVIOUS
    <2>5. p[6] \in Int /\ p[6] >= 6
        BY <1>7, <2>3, <2>4 DEF S
    <2> QED
        BY <1>7, <2>5
<1> HIDE DEF full
<1>9. ASSUME NEW i \in 1 .. 6
      PROVE  /\ w[i] \in Int
             /\ R >= 0 => full * w[i] <= a[i] * R
             /\ R <= 0 => w[i] <= 0
    <2>1. a[i] * R \in Int
        BY <1>5, <1>6
    <2>2. (R >= 0 => a[i] * R >= 0) /\ (R <= 0 => a[i] * R <= 0)
        <3>1. a[i] \in Nat
            BY <1>5
        <3> DEFINE b == a[i]
        <3> HIDE DEF b
        <3>2. (R >= 0 => b * R >= 0) /\ (R <= 0 => b * R <= 0)
            BY <1>6, <3>1 DEF b
        <3> QED
            BY <3>2 DEF b
    <2> DEFINE n == a[i] * R
    <2>3. w[i] = Quotient(n, full)
        OBVIOUS
    <2> HIDE DEF n, w
    <2> QED
        BY <1>8, <2>1, <2>2, <2>3, QuotientType DEF n
<1>10. w \in Seq(Int) /\ Len(w) = 6
    BY <1>9
<1> HIDE DEF w
<1>11. ASSUME w[1] > 0
       PROVE  TotalLength(w) <= R
    <2>1. R > 0
        BY <1>6, <1>9, <1>11
    <2>t. PICK t : PartialSums(t, w) /\ TotalLength(w) = t[6]
        BY <1>10, TotalLengthUnfolds
    <2>2. /\ t[0] = 0 /\ TotalLength(w) = t[6]
          /\ \A k \in 0 .. 6 : t[k] \in Int
          /\ \A k \in 1 .. 6 : t[k] = t[k - 1] + w[k]
        BY <1>10, <2>t DEF PartialSums
    <2> DEFINE S == {k \in Nat : k <= 6 => full * t[k] <= p[k] * R}
    <2>3. 0 \in S
        BY <1>6, <1>7, <1>8, <2>2
    <2>4. ASSUME NEW k \in Nat, k \in S
          PROVE  k + 1 \in S
        <3> SUFFICES ASSUME k + 1 <= 6
                     PROVE  full * t[k + 1] <= p[k + 1] * R
            OBVIOUS
        <3>1. k + 1 \in 1 .. 6 /\ k \in 0 .. 6 /\ (k + 1) - 1 = k
            OBVIOUS
        <3>2. /\ t[k + 1] = t[k] + w[k + 1] /\ t[k] \in Int
              /\ p[k + 1] = p[k] + a[k + 1] /\ p[k] \in Int
            BY <1>7, <2>2, <3>1
        <3>a. R >= 0
            BY <1>6, <2>1
        <3>b. w[k + 1] \in Int /\ full * w[k + 1] <= a[k + 1] * R
            BY <1>9, <3>1, <3>a
        <3>3. w[k + 1] \in Int /\ full * w[k + 1] <= a[k + 1] * R /\ a[k + 1] \in Int
            BY <1>5, <3>1, <3>b
        <3>4. /\ full * t[k + 1] = full * t[k] + full * w[k + 1]
              /\ p[k + 1] * R = p[k] * R + a[k + 1] * R
            BY <1>6, <1>8, <3>2, <3>3
        <3>5. /\ full * t[k] \in Int /\ full * w[k + 1] \in Int
              /\ p[k] * R \in Int /\ a[k + 1] * R \in Int
            BY <1>6, <1>8, <3>2, <3>3
        <3>6. full * t[k] <= p[k] * R
            BY <2>4
        <3> QED
            BY <3>3, <3>4, <3>5, <3>6
    <2> HIDE DEF S
    <2>5. 6 \in S
        BY <2>3, <2>4, SetInduction
    <2>6. 6 \in 0 .. 6
        OBVIOUS
    <2>7. full * t[6] <= full * R /\ t[6] \in Int
        BY <1>7, <2>2, <2>5, <2>6 DEF S
    <2> QED
        BY <1>6, <1>8, <2>2, <2>7
<1> QED
    BY <1>4, <1>10, <1>11 DEF R

------------------------------------------------------------------------------
(* The invariants                                                           *)

\* The table holds the titles and a line for each row, the template one line each;
\* the widths are known when a row is printed.
Tabular ==
    /\ options.template => /\ Len(table) = Len(rows) /\ widths = <<>>
                           /\ \A k \in DOMAIN table : table[k] # <<>>
    /\ ~options.template => /\ Len(table) = (IF rows = <<>> THEN 0 ELSE Len(rows) + 1)
                            /\ table # <<>> => IsTable(table)
                            /\ pc = "print" /\ table # <<>> => widths # <<>>
                            /\ position > 0 => widths # <<>>

\* A page that is empty is the last; one with hits is found whole before it is
\* appended, and shown whole before the next is asked for.
Paging ==
    /\ pc = "search" => position = Len(table)
    /\ pc = "details" => position = Len(table) /\ (hits = <<>> => total <= fetched)
    /\ pc \in {"append", "print"} =>
          Len(found) <= Len(rows) /\ (found = <<>> => total <= fetched)
    /\ pc = "append" => position = Len(table) <=> found = <<>>
    /\ pc = "over" => position = Len(table) /\ total <= fetched

\* Between a line and the next there is the end of one.
Alternates == \A k \in DOMAIN output : output[k] = EndOfLine <=> k % 2 = 0

\* Is an end of line due before the next row?
Ends ==
    LET printed == IF position = 0 THEN 0 ELSE 2 * position - 1
    IN  /\ pc \in {"search", "details"} \/ (pc = "append" /\ position = Len(table)) =>
              Len(output) = IF options.unlimited THEN 2 * position ELSE printed
        /\ pc \in {"append", "print"} /\ position < Len(table) =>
              /\ Waits => position > 0
              /\ Len(output) = IF Waits THEN printed ELSE 2 * position
        /\ pc = "print" /\ position = Len(table) /\ MoreToFetch =>
              Len(output) = printed

\* Each line is as wide as the columns, whatever is in it.
Aligned ==
    ~options.template =>
        /\ \A k \in DOMAIN output : output[k] # EndOfLine => output[k] = widths
        /\ widths # <<>> /\ widths[1] > 0 => TotalLength(widths) <= Room(options.width, 6)
        /\ output # <<>> => position > 0
        /\ position > 0 => widths[1] > 0

Printing == Tabular /\ Paging /\ Alternates /\ Ends /\ Aligned

\* A result in row n shows the labels of its image; some lack if the document changed
\* between its two queries.
Complete(result, n) ==
    /\ result.labels \subseteq Labels[result.image]
    /\ result.labels = Labels[result.image] \/ n \in replaced

Labelled ==
    /\ \A k \in Pending :
          \/ fetched + k \in replaced
          \/ index[hits[k].name] \in Images /\ hits[k].labels = Labels[index[hits[k].name]]
    /\ \A k \in DOMAIN found :
          /\ found[k].labels \subseteq Labels[found[k].image]
          /\ pc = "details" => Complete(found[k], fetched + k)
    /\ \A k \in DOMAIN rows : Complete(rows[k], k)

\* The details are those of the hits, in their order.
Detailed == pc = "details" => \A k \in DOMAIN found : found[k].name = hits[k].name

\* Without new matches and with matches in the same order, no row that still matches
\* has moved down, and a page brings no row again.
Distinct ==
    /\ pc = "details" => \A k, l \in DOMAIN hits : hits[k].name = hits[l].name => k = l
    /\ ~grown /\ ~reordered =>
          /\ \A k \in DOMAIN rows : rows[k].name \in Matches => Place(rows[k].name) <= k
          /\ \A k, l \in DOMAIN rows : rows[k].name = rows[l].name => k = l
          /\ pc = "details" => \A l \in DOMAIN hits :
                /\ hits[l].name \in Matches => Place(hits[l].name) <= fetched + l
                /\ \A k \in DOMAIN rows : rows[k].name # hits[l].name

Listed(F, results) == \E k \in DOMAIN results : results[k].name = F

\* Unless a match disappeared or matches changed places, a name that matched all along
\* is among the rows, or the hits, up to its place; and it has a place that the last
\* page reaches.
Covered ==
    /\ kept \subseteq Matches
    /\ ~shrunk /\ ~reordered => \A F \in kept :
          /\ Place(F) <= fetched => Listed(F, rows)
          /\ pc = "details" /\ (Place(F) <= fetched + Len(hits)
                                  \/ total <= fetched + Len(hits)) =>
                Listed(F, rows) \/ Listed(F, hits)
          /\ pc \in {"append", "print", "over"} /\ total <= fetched => Listed(F, rows)

SearchInv == TypeOK /\ Printing /\ Labelled /\ Detailed /\ Distinct /\ Covered

------------------------------------------------------------------------------
(* Ranks and places                                                         *)

\* As many documents as ranks.
LEMMA RanksCount ==
    ASSUME NEW r \in Rankings, NEW S, S \subseteq Names
    PROVE  /\ IsFiniteSet(S) /\ Cardinality(S) \in Nat
           /\ Cardinality({r[F] : F \in S}) = Cardinality(S)
<1>1. IsFiniteSet(S)
    BY RankingsAssumption, FS_Subset DEF RankingsAssumption
<1> DEFINE T == {r[F] : F \in S}
           f == [F \in S |-> r[F]]
<1>2. f \in Bijection(S, T)
    <2>1. f \in [S -> T] /\ \A F, G \in S : f[F] = f[G] => F = G
        BY RankingsAssumption DEF RankingsAssumption
    <2>2. \A t \in T : \E F \in S : f[F] = t
        OBVIOUS
    <2> QED
        BY <2>1, <2>2 DEF Bijection, Injection, Surjection, IsInjective
<1>3. ExistsBijection(S, T)
    BY <1>2 DEF ExistsBijection
<1> QED
    BY <1>1, <1>3, FS_Bijection, FS_CardinalityType

\* The ranks of the documents that match: the place of a document is the number of
\* those up to its own.
Ranks == {rank[F] : F \in Matches}

LEMMA RankProperties ==
    ASSUME rank \in Rankings
    PROVE  /\ Cardinality(Names) \in Nat /\ Ranks \subseteq 1 .. Cardinality(Names)
           /\ \A F \in Names : rank[F] \in 1 .. Cardinality(Names)
           /\ \A F, G \in Names : rank[F] = rank[G] => F = G
           /\ Cardinality(Ranks) = Cardinality(Matches)
           /\ \A F \in Names : Place(F) = CountUpTo(Ranks, rank[F])
<1>1. /\ \A F \in Names : rank[F] \in 1 .. Cardinality(Names)
      /\ \A F, G \in Names : rank[F] = rank[G] => F = G
    BY RankingsAssumption DEF RankingsAssumption
<1>2. Cardinality(Names) \in Nat
    BY RankingsAssumption, FS_CardinalityType DEF RankingsAssumption
<1>3. Ranks \subseteq 1 .. Cardinality(Names)
    BY <1>1 DEF Ranks, Matches
<1>4. Cardinality(Ranks) = Cardinality(Matches)
    BY RanksCount DEF Ranks, Matches
<1>5. ASSUME NEW F \in Names
      PROVE  Place(F) = CountUpTo(Ranks, rank[F])
    <2> DEFINE S == {G \in Matches : rank[G] <= rank[F]}
    <2>1. {j \in Ranks : j <= rank[F]} = {rank[G] : G \in S}
        BY DEF Ranks
    <2>2. S \subseteq Names
        BY DEF Matches
    <2>3. Cardinality({rank[G] : G \in S}) = Cardinality(S)
        BY <2>2, RanksCount
    <2> QED
        BY <2>1, <2>3 DEF Place, CountUpTo
<1> QED
    BY <1>1, <1>2, <1>3, <1>4, <1>5

\* The names that match follow one another, each at its place.
LEMMA MatchingProperties ==
    ASSUME rank \in Rankings
    PROVE  /\ Matching \in Seq(Names) /\ Len(Matching) \in Nat
           /\ \A n \in 1 .. Len(Matching) : /\ Matching[n] \in Names /\ Matching[n] \in Matches
                                            /\ Place(Matching[n]) = n
           /\ \A F \in Matches : Place(F) \in 1 .. Len(Matching) /\ Matching[Place(F)] = F
           /\ \A F \in Names : Place(F) \in Nat
<1> DEFINE N == Cardinality(Names)
<1>1. /\ N \in Nat /\ Ranks \subseteq 1 .. N /\ Cardinality(Ranks) = Cardinality(Matches)
      /\ \A F \in Names : rank[F] \in 1 .. N /\ Place(F) = CountUpTo(Ranks, rank[F])
      /\ \A F, G \in Names : rank[F] = rank[G] => F = G
      /\ Matches \subseteq Names
    BY RankProperties DEF Matches
<1> HIDE DEF N
<1>2. /\ Cardinality(Matches) \in Nat
      /\ \A r : CountUpTo(Ranks, r) \in 0 .. Cardinality(Matches)
    <2>1. /\ Cardinality(Ranks) \in 0 .. N
          /\ \A r : CountUpTo(Ranks, r) \in 0 .. Cardinality(Ranks)
        BY <1>1, CountType
    <2> QED
        BY <1>1, <2>1
<1>3. \A F \in Names : Place(F) \in Nat
    BY <1>1, <1>2
<1>4. Len(Matching) = Cardinality(Matches) /\ DOMAIN Matching = 1 .. Cardinality(Matches)
    BY <1>2 DEF Matching
<1>5. ASSUME NEW F \in Matches
      PROVE  /\ Place(F) \in 1 .. Cardinality(Matches)
             /\ \A G \in Matches : Place(G) = Place(F) => G = F
    <2>1. rank[F] \in Ranks /\ 0 \in Int /\ rank[F] \in Int /\ 0 < rank[F] /\ 0 <= rank[F]
        BY <1>1 DEF Ranks
    <2>2. CountUpTo(Ranks, 0) < CountUpTo(Ranks, rank[F])
        BY <1>1, <2>1, CountGrows
    <2>3. Place(F) \in 1 .. Cardinality(Matches)
        BY <1>1, <1>2, <2>2
    <2>4. ASSUME NEW G \in Matches, Place(G) = Place(F)
          PROVE  rank[G] = rank[F]
        <3>1. /\ rank[G] \in Int /\ rank[G] \in Ranks
              /\ CountUpTo(Ranks, rank[G]) = CountUpTo(Ranks, rank[F])
              /\ CountUpTo(Ranks, rank[G]) \in Int
            <4>1. rank[G] \in Ranks
                BY DEF Ranks
            <4> QED
                BY <1>1, <1>2, <2>4, <4>1
        <3>2. ~(rank[G] < rank[F])
            <4> SUFFICES ASSUME rank[G] < rank[F]
                         PROVE  FALSE
                OBVIOUS
            <4>1. rank[G] <= rank[F]
                BY <2>1, <3>1
            <4>2. CountUpTo(Ranks, rank[G]) < CountUpTo(Ranks, rank[F])
                BY <1>1, <2>1, <3>1, <4>1, CountGrows
            <4> QED
                BY <3>1, <4>2
        <3>3. ~(rank[F] < rank[G])
            <4> SUFFICES ASSUME rank[F] < rank[G]
                         PROVE  FALSE
                OBVIOUS
            <4>1. rank[F] <= rank[G]
                BY <2>1, <3>1
            <4>2. CountUpTo(Ranks, rank[F]) < CountUpTo(Ranks, rank[G])
                BY <1>1, <2>1, <3>1, <4>1, CountGrows
            <4> QED
                BY <3>1, <4>2
        <3> QED
            BY <2>1, <3>1, <3>2, <3>3
    <2> QED
        BY <1>1, <2>3, <2>4
<1>6. ASSUME NEW n \in 1 .. Cardinality(Matches)
      PROVE  Matching[n] \in Matches /\ Place(Matching[n]) = n
    <2>1. \E r \in Ranks : CountUpTo(Ranks, r) = n
        <3>1. n \in 1 .. Cardinality(Ranks)
            BY <1>1
        <3> QED
            <4>1. N \in Nat /\ Ranks \subseteq 1 .. N
                BY <1>1
            <4> QED
                BY <3>1, <4>1, CountReaches, Zenon
    <2>2. \E F \in Matches : Place(F) = n
        BY <1>1, <2>1 DEF Ranks
    <2>3. Matching[n] = CHOOSE F \in Matches : Place(F) = n
        BY DEF Matching
    <2> QED
        BY <2>2, <2>3
<1>7. Matching \in Seq(Names)
    <2>1. Matching = [n \in 1 .. Cardinality(Matches) |-> Matching[n]]
        BY DEF Matching
    <2> HIDE DEF Matching
    <2>2. \A n \in 1 .. Cardinality(Matches) : Matching[n] \in Names
        BY <1>1, <1>6
    <2> QED
        BY <1>2, <2>1, <2>2, FunctionIsSeq
<1>8. \A F \in Matches : Matching[Place(F)] = F
    BY <1>5, <1>6
<1> QED
    BY <1>1, <1>2, <1>3, <1>4, <1>5, <1>6, <1>7, <1>8

\* A page takes the matches after the offset, and leaves none when it is empty.
LEMMA PageProperties ==
    ASSUME fetched \in Nat, options \in Options, rank \in Rankings
    PROVE  /\ Page \in Seq(Names)
           /\ \A k \in 1 .. Len(Page) :
                 Page[k] = Matching[fetched + k] /\ fetched + k \in 1 .. Len(Matching)
           /\ Page = <<>> => Len(Matching) <= fetched
<1> DEFINE M == Matching
           m == fetched + 1
           n == IF fetched + 1 + Size <= Len(M) + 1 THEN fetched + 1 + Size - 1 ELSE Len(M)
<1>1. M \in Seq(Names) /\ Len(M) \in Nat
    BY MatchingProperties, LenProperties
<1>2. Size \in Nat \ {0}
    <2>1. options.bulk \in Nat
        BY SizeAssumption DEF SizeAssumption
    <2> QED
        BY <2>1, SizeAssumption DEF Size, SizeAssumption
<1>3. Page = SubSeq(M, m, n)
    BY DEF Page, PageFrom
<1> HIDE DEF M
<1>4. m \in Nat \ {0} /\ n \in 0 .. Len(M) /\ (Len(M) > fetched => m <= n)
    BY <1>1, <1>2
<1> HIDE DEF n
<1>5. Page \in Seq(Names)
    BY <1>1, <1>3, <1>4, PartOfSeq
<1>6. m <= n => /\ Len(Page) = n - m + 1
                /\ \A k \in 1 .. n - m + 1 : Page[k] = M[m + k - 1]
    BY <1>1, <1>3, <1>4, SubSeqProperties
<1>7. m > n => Len(Page) = 0
    BY <1>1, <1>3, <1>4, SubSeqProperties
<1>8. \A k \in 1 .. Len(Page) : Page[k] = M[fetched + k] /\ fetched + k \in 1 .. Len(M)
    BY <1>1, <1>4, <1>6, <1>7
<1>9. Page = <<>> => Len(M) <= fetched
    BY <1>1, <1>4, <1>6
<1> QED
    BY <1>5, <1>8, <1>9 DEF M

------------------------------------------------------------------------------
(* Steps                                                                    *)

\* What every way to fail does to the pages.
Fails ==
    /\ pc' = "failed"
    /\ UNCHANGED <<index, rank, options, total, fetched, server, printer, history>>

PageStep ==
    \/ Query \/ Details \/ Answer \/ PrintAll \/ PrintRow \/ Loop
    \/ \E F \in Names, i \in Images \cup {None} : Change(F, i)
    \/ Fails
    \/ UNCHANGED vars

LEMMA StepCases ==
    ASSUME [SessionNext]_sessionVars
    PROVE  PageStep
<1>1. CASE LoginStep
    BY <1>1 DEF LoginStep, Accept, Reject, Prompt, PageStep
<1>2. CASE ConnectFails
    BY <1>2 DEF ConnectFails, PageStep, Fails
<1>3. CASE PagesStep
    BY <1>3 DEF PagesStep, SearchStep, PageStep, Fails, DetailsPanic, PrintPanics
<1>4. CASE Refuse
    BY <1>4 DEF Refuse, PageStep, Fails
<1>5. CASE Outside
    <2>1. CASE QueryFails \/ TemplateFails
        BY <2>1 DEF QueryFails, TemplateFails, PageStep, Fails
    <2>2. CASE \E F \in Names, i \in Images \cup {None} : Change(F, i)
        BY <2>2 DEF PageStep
    <2> QED
        BY <1>5, <2>1, <2>2 DEF Outside, Disturbance
<1>6. CASE Ended /\ UNCHANGED sessionVars
    BY <1>6 DEF sessionVars, PageStep
<1>7. CASE UNCHANGED sessionVars
    BY <1>7 DEF sessionVars, PageStep
<1> QED
    BY <1>1, <1>2, <1>3, <1>4, <1>5, <1>6, <1>7 DEF SessionNext

------------------------------------------------------------------------------
(* Types                                                                    *)

LEMMA LabelsType ==
    ASSUME NEW i \in Images
    PROVE  /\ Labels[i] \subseteq AllLabels /\ IsFiniteSet(Labels[i])
           /\ \A l \in Labels[i] : Config[i][l] \in Nat
<1>1. Labels[i] \subseteq DOMAIN Config[i]
    BY DEF Labels
<1>2. \A l \in DOMAIN Config[i] : Config[i][l] \in Nat
    BY CellsAssumption DEF CellsAssumption
<1>3. IsFiniteSet(DOMAIN Config[i])
    BY CellsAssumption DEF CellsAssumption
<1>4. DOMAIN Config[i] \subseteq AllLabels
    BY DEF AllLabels
<1>5. IsFiniteSet(Labels[i])
    BY <1>1, <1>3, FS_Subset
<1> QED
    BY <1>1, <1>2, <1>4, <1>5

\* A result with labels of its image makes a row of natural numbers.
LEMMA CellsType ==
    ASSUME options \in Options, NEW result \in Results, result.labels \subseteq Labels[result.image]
    PROVE  /\ Cells(result) \in Seq(Nat)
           /\ Len(Cells(result)) = IF options.template THEN 1 ELSE 6
<1> DEFINE name == NameCells[result.name]
           cells == OtherCells[result.image]
           length == [l \in result.labels |-> KeyLength[l] + 1 + Config[result.image][l]]
           labels == FlatMap(result.labels, length)
<1>1. result.name \in Names /\ result.image \in Images
    BY DEF Results
<1>2. /\ name \in Nat \X Nat /\ cells \in Nat \X Nat \X Nat
    BY <1>1, CellsAssumption DEF CellsAssumption
<1>3. name[1] \in Nat /\ name[2] \in Nat /\ cells[1] \in Nat /\ cells[2] \in Nat /\ cells[3] \in Nat
    BY <1>2
<1>4. labels \in Nat
    <2>1. IsFiniteSet(result.labels)
        BY <1>1, LabelsType, FS_Subset
    <2>2. ASSUME NEW l \in result.labels
          PROVE  length[l] \in Nat
        <3>1. l \in AllLabels /\ Config[result.image][l] \in Nat
            BY <1>1, LabelsType
        <3>2. KeyLength[l] \in Nat
            BY <3>1, CellsAssumption DEF CellsAssumption
        <3> QED
            BY <3>1, <3>2
    <2> HIDE DEF length
    <2> QED
        BY <2>1, <2>2, FlatMapType
<1>5. Cells(result) = IF options.template THEN <<name[1] + 1 + name[2]>>
                      ELSE <<name[1], name[2], cells[1], labels, cells[2], cells[3]>>
    BY DEF Cells
<1> HIDE DEF labels, name, cells
<1>6. CASE options.template
    BY <1>3, <1>5, <1>6
<1>7. CASE ~options.template
    BY <1>3, <1>4, <1>5, <1>7
<1> QED
    BY <1>6, <1>7

\* The lines a page adds.
Lines == [k \in DOMAIN found |-> Cells(found[k])]

LEMMA LinesType ==
    ASSUME TypeOK, Labelled
    PROVE  /\ Lines \in Seq(Seq(Nat)) /\ Len(Lines) = Len(found)
           /\ \A k \in 1 .. Len(Lines) : Len(Lines[k]) = IF options.template THEN 1 ELSE 6
<1>1. /\ Len(found) \in Nat /\ DOMAIN found = 1 .. Len(found)
      /\ \A k \in 1 .. Len(found) : found[k] \in Results
    BY LenProperties, ElementOfSeq DEF TypeOK
<1>2. \A k \in 1 .. Len(found) : found[k].labels \subseteq Labels[found[k].image]
    BY <1>1 DEF Labelled, Complete
<1>3. ASSUME NEW k \in 1 .. Len(found)
      PROVE  /\ Cells(found[k]) \in Seq(Nat)
             /\ Len(Cells(found[k])) = IF options.template THEN 1 ELSE 6
    <2>1. options \in Options
        BY DEF TypeOK
    <2> QED
        BY <1>1, <1>2, <2>1, CellsType
<1>4. Lines = [k \in 1 .. Len(found) |-> Lines[k]] /\ \A k \in 1 .. Len(found) : Lines[k] = Cells(found[k])
    BY <1>1 DEF Lines
<1>5. Lines \in Seq(Seq(Nat)) /\ Len(Lines) = Len(found)
    <2>1. \A k \in 1 .. Len(found) : Lines[k] \in Seq(Nat)
        BY <1>3, <1>4
    <2> QED
        BY <1>1, <1>4, <2>1, FunctionIsSeq
<1> QED
    BY <1>3, <1>4, <1>5

LEMMA TitlesType == Titles \in Seq(Seq(Nat))
<1>1. Header \in Seq(Nat)
    <2>1. Header \in Seq(Nat \ {0}) /\ Nat \ {0} \subseteq Nat
        BY CellsAssumption DEF CellsAssumption
    <2> QED
        BY <2>1, SeqMonotonic
<1>2. <<Header>> \in Seq(Seq(Nat))
    BY <1>1
<1> QED
    BY <1>2, EmptySeq DEF Titles

\* A row that does not panic makes a line.
LEMMA LineType ==
    ASSUME TypeOK, Tabular, pc = "print", position < Len(table), ~RowPanics
    PROVE  Line(table[position + 1]) \in Seq(Nat)
<1> DEFINE row == table[position + 1]
<1>1. row \in Seq(Nat) /\ position + 1 \in DOMAIN table /\ table # <<>>
    <2>1. position + 1 \in 1 .. Len(table) /\ DOMAIN table = 1 .. Len(table)
        BY LenProperties DEF TypeOK
    <2>2. table # <<>>
        BY <2>1
    <2> QED
        BY <2>1, <2>2, ElementOfSeq DEF TypeOK
<1>2. CASE options.template
    BY <1>1, <1>2 DEF Line
<1>3. CASE ~options.template
    <2>1. Len(row) = 6 /\ DOMAIN row = 1 .. 6 /\ \A i \in 1 .. 6 : row[i] \in Nat
        <3>1. Len(row) = 6
            BY <1>1, <1>3 DEF Tabular, IsTable
        <3> HIDE DEF row
        <3> QED
            BY <1>1, <3>1, LenProperties, ElementOfSeq
    <2>2. \A i \in 1 .. 6 : widths[i] \in Int
        <3>1. Len(widths) = 6
            <4>1. widths # <<>> /\ widths \in Seq(Int) /\ Len(widths) \in {0, Len(Header)}
                BY <1>1, <1>3 DEF Tabular, TypeOK
            <4>2. Len(Header) = 6
                BY CellsAssumption DEF CellsAssumption
            <4> QED
                BY <4>1, <4>2, EmptySeq
        <3> QED
            BY <3>1, ElementOfSeq DEF TypeOK
    <2>3. \A i \in 1 .. 6 : ~FormatPanics(row[i], widths[i])
        <3>1. DOMAIN Header = 1 .. 6
            BY CellsAssumption, LenProperties DEF CellsAssumption
        <3> QED
            BY <1>3, <3>1 DEF RowPanics
    <2> DEFINE line == [i \in 1 .. 6 |-> Format(row[i], widths[i])]
    <2>4. Line(row) = line
        BY <1>3, <2>1 DEF Line
    <2> HIDE DEF row
    <2>5. ASSUME NEW i \in 1 .. 6
          PROVE  Format(row[i], widths[i]) \in Nat
        <3> DEFINE c == row[i]
                   w == widths[i]
        <3>1. c \in Nat /\ w \in Int /\ ~(c > w /\ w < 3)
            BY <2>1, <2>2, <2>3 DEF FormatPanics
        <3> HIDE DEF c, w
        <3>2. Format(c, w) \in Nat
            BY <3>1 DEF Format
        <3> QED
            BY <3>2 DEF c, w
    <2>6. line \in Seq(Nat)
        BY <2>5
    <2> QED
        BY <2>4, <2>6 DEF row
<1> QED
    BY <1>2, <1>3

LEMMA TypeStep ==
    ASSUME TypeOK, Tabular, Labelled, PageStep
    PROVE  TypeOK'
<1>1. CASE Query
    <2>1. fetched \in Nat /\ options \in Options /\ rank \in Rankings
        BY LenProperties DEF TypeOK
    <2>2. Page \in Seq(Names) /\ Len(Page) \in Nat /\ DOMAIN Page = 1 .. Len(Page)
        BY <2>1, PageProperties, LenProperties
    <2>3. total' \in Nat
        BY <1>1, <2>1, MatchingProperties DEF Query
    <2>4. ASSUME NEW k \in 1 .. Len(Page)
          PROVE  hits'[k] \in [name : Names, labels : SUBSET AllLabels]
        <3>1. Page[k] \in Names /\ index[Page[k]] \in Images
            <4>1. Page[k] = Matching[fetched + k] /\ fetched + k \in 1 .. Len(Matching)
                BY <2>1, PageProperties
            <4>2. Page[k] \in Names /\ index[Page[k]] \in Wanted
                BY <2>1, <4>1, MatchingProperties DEF Matches
            <4> QED
                BY <4>2, WantedAssumption DEF WantedAssumption
        <3>2. Labels[index[Page[k]]] \subseteq AllLabels
            BY <3>1, LabelsType
        <3>3. hits'[k] = [name |-> Page[k], labels |-> Labels[index[Page[k]]]]
            BY <1>1, <2>2 DEF Query
        <3> QED
            BY <3>1, <3>2, <3>3
    <2>5. hits' \in Seq([name : Names, labels : SUBSET AllLabels])
        <3> DEFINE S == [name : Names, labels : SUBSET AllLabels]
                   n == Len(Page)
        <3>1. hits' = [k \in 1 .. n |-> hits'[k]]
            BY <1>1, <2>2 DEF Query
        <3>2. n \in Nat /\ \A k \in 1 .. n : hits'[k] \in S
            BY <2>2, <2>4
        <3> HIDE DEF S, n
        <3>3. hits' \in Seq(S)
            BY <3>1, <3>2, FunctionIsSeq
        <3> QED
            BY <3>3 DEF S
    <2>6. found' \in Seq(Results) /\ Len(found') <= Len(hits')
        <3>1. found' = <<>> /\ Len(hits') \in Nat
            BY <1>1, <2>5, LenProperties DEF Query
        <3> QED
            BY <3>1, EmptySeq
    <2> QED
        BY <1>1, <2>3, <2>5, <2>6 DEF Query, TypeOK, printer, history
<1>2. CASE Details
    <2>1. /\ Len(found) \in Nat /\ Len(hits) \in Nat /\ Len(found) < Len(hits)
        BY <1>2, LenProperties DEF Details, TypeOK
    <2>2. Hit \in [name : Names, labels : SUBSET AllLabels]
        <3>1. Len(found) + 1 \in 1 .. Len(hits)
            BY <2>1
        <3> QED
            BY <3>1, ElementOfSeq DEF TypeOK, Hit
    <2> DEFINE r == [name |-> Hit.name, image |-> index[Hit.name],
                     labels |-> Asked \cap Labels[index[Hit.name]]]
    <2>3. r \in Results
        <3>1. Hit.name \in Names /\ Hit.labels \subseteq AllLabels
            BY <2>2
        <3>2. index[Hit.name] \in Images
            BY <1>2, <3>1 DEF Details, TypeOK
        <3> QED
            BY <3>1, <3>2 DEF Results, Asked
    <2>4. found' = Append(found, r)
        BY <1>2 DEF Details
    <2> HIDE DEF r
    <2>5. found' \in Seq(Results) /\ Len(found') = Len(found) + 1
        BY <2>3, <2>4, AppendProperties DEF TypeOK
    <2>6. Len(found') <= Len(hits')
        BY <1>2, <2>1, <2>5 DEF Details
    <2> QED
        BY <1>2, <2>5, <2>6 DEF Details, TypeOK, printer, history
<1>3. CASE Answer
    <2>1. rows' \in Seq(Results) /\ fetched' = Len(rows')
        <3>1. rows \in Seq(Results) /\ found \in Seq(Results) /\ fetched = Len(rows)
            BY DEF TypeOK
        <3>2. rows' = rows \o found /\ fetched' = fetched + Len(found)
            BY <1>3 DEF Answer
        <3> QED
            BY <3>1, <3>2, ConcatProperties
    <2>2. table' = (table \o Titles) \o Lines
        BY <1>3 DEF Answer, Lines
    <2>3. /\ table \o Titles \in Seq(Seq(Nat))
          /\ Len(table \o Titles) = Len(table) + Len(Titles)
        BY TitlesType, ConcatProperties DEF TypeOK
    <2>4. table' \in Seq(Seq(Nat)) /\ Len(table') = Len(table) + Len(Titles) + Len(Lines)
        BY <2>2, <2>3, LinesType, ConcatProperties
    <2>5. position' \in 0 .. Len(table')
        <3>1. Len(table) \in Nat /\ Len(Titles) \in Nat /\ Len(Lines) \in Nat
            BY TitlesType, LinesType, LenProperties DEF TypeOK
        <3>2. position' = position /\ position \in 0 .. Len(table)
            BY <1>3 DEF Answer, TypeOK
        <3> QED
            BY <2>4, <3>1, <3>2
    <2> QED
        BY <1>3, <2>1, <2>4, <2>5 DEF Answer, TypeOK, server, history
<1>4. CASE PrintAll
    <2>1. widths' \in Seq(Int) /\ Len(widths') \in {0, Len(Header)}
        <3>1. CASE options.template \/ table = <<>> \/ widths # <<>>
            BY <1>4, <3>1 DEF PrintAll, TypeOK
        <3>2. CASE ~(options.template \/ table = <<>> \/ widths # <<>>)
            <4>1. IsTable(table) /\ options.width \in Int
                BY <3>2, SizeAssumption DEF Tabular, TypeOK, SizeAssumption
            <4>2. widths' = ComputeWidths(table, options.width)
                BY <1>4, <3>2 DEF PrintAll
            <4>3. Len(Header) = 6
                BY CellsAssumption DEF CellsAssumption
            <4> QED
                BY <4>1, <4>2, <4>3, WidthsFit
        <3> QED
            BY <3>1, <3>2
    <2> QED
        BY <1>4, <2>1 DEF PrintAll, TypeOK, server, history
<1>5. CASE PrintRow
    <2>1. Enter \in Seq(Seq(Nat)) /\ EndOfRow \in Seq(Seq(Nat))
        BY DEF Enter, EndOfRow, EndOfLine
    <2>2. <<Line(table[position + 1])>> \in Seq(Seq(Nat))
        <3>1. Line(table[position + 1]) \in Seq(Nat)
            BY <1>5, LineType DEF PrintRow
        <3> QED
            BY <3>1
    <2>3. output \o Enter \in Seq(Seq(Nat))
        BY <2>1, ConcatProperties DEF TypeOK
    <2>4. output \o Enter \o <<Line(table[position + 1])>> \in Seq(Seq(Nat))
        BY <2>2, <2>3, ConcatProperties
    <2>5. output' \in Seq(Seq(Nat))
        BY <1>5, <2>1, <2>4, ConcatProperties DEF PrintRow
    <2>6. position' \in 0 .. Len(table')
        <3>1. Len(table) \in Nat
            BY LenProperties DEF TypeOK
        <3> QED
            BY <1>5, <3>1 DEF PrintRow, TypeOK
    <2> QED
        BY <1>5, <2>5, <2>6 DEF PrintRow, TypeOK, server, history
<1>6. CASE Loop
    <2>1. output' \in Seq(Seq(Nat))
        <3>1. EndOfLine \in Seq(Nat)
            BY DEF EndOfLine
        <3>2. Append(output, EndOfLine) \in Seq(Seq(Nat))
            BY <3>1, AppendProperties DEF TypeOK
        <3> QED
            BY <1>6, <3>2 DEF Loop, TypeOK
    <2> QED
        BY <1>6, <2>1 DEF Loop, TypeOK, server, history
<1>7. ASSUME NEW F \in Names, NEW i \in Images \cup {None}, Change(F, i)
      PROVE  TypeOK'
    <2>1. index' \in [Names -> Images \cup {None}]
        BY <1>7 DEF Change, TypeOK
    <2>2. changes' \in 0 .. MaxChanges
        BY <1>7, SizeAssumption DEF Change, TypeOK, SizeAssumption
    <2>3. {grown', shrunk', reordered'} \subseteq BOOLEAN /\ rank' \in Rankings
        BY <1>7 DEF Change, TypeOK
    <2>4. kept' \subseteq Names /\ replaced' \subseteq Nat
        <3>1. fetched \in Nat /\ Len(found) \in Nat
            BY LenProperties DEF TypeOK
        <3>2. \A k \in Pending : k \in Nat
            BY <3>1 DEF Pending
        <3>3. replaced' = replaced \cup {fetched + k : k \in {l \in Pending : hits[l].name = F}}
            BY <1>7 DEF Change
        <3>4. {fetched + k : k \in {l \in Pending : hits[l].name = F}} \subseteq Nat
            BY <3>1, <3>2
        <3>5. replaced' \subseteq Nat
            BY <3>3, <3>4 DEF TypeOK
        <3>6. kept' \subseteq Names
            BY <1>7 DEF Change, TypeOK
        <3> QED
            BY <3>5, <3>6
    <2> QED
        BY <1>7, <2>1, <2>2, <2>3, <2>4 DEF Change, TypeOK, server, printer
<1>8. CASE Fails
    BY <1>8 DEF Fails, TypeOK, server, printer, history
<1>9. CASE UNCHANGED vars
    BY <1>9 DEF vars, TypeOK, server, printer, history
<1> QED
    BY <1>1, <1>2, <1>3, <1>4, <1>5, <1>6, <1>7, <1>8, <1>9 DEF PageStep

------------------------------------------------------------------------------
(* Labels                                                                   *)

LEMMA LabelledStep ==
    ASSUME TypeOK, Labelled, PageStep
    PROVE  Labelled'
<1>0. /\ DOMAIN found = 1 .. Len(found) /\ Len(found) \in Nat
      /\ DOMAIN rows = 1 .. Len(rows) /\ Len(rows) \in Nat
      /\ DOMAIN hits = 1 .. Len(hits) /\ Len(hits) \in Nat
    BY LenProperties DEF TypeOK
<1>1. CASE Query
    <2>1. DOMAIN Page = 1 .. Len(Page)
        BY <1>0, PageProperties, LenProperties DEF TypeOK
    <2>2. ASSUME NEW k \in DOMAIN hits'
          PROVE  /\ index'[hits'[k].name] \in Images
                 /\ hits'[k].labels = Labels[index'[hits'[k].name]]
        <3>1. k \in 1 .. Len(Page) /\ index' = index
              /\ hits'[k] = [name |-> Page[k], labels |-> Labels[index[Page[k]]]]
            BY <1>1, <2>1 DEF Query
        <3>2. Page[k] = Matching[fetched + k] /\ fetched + k \in 1 .. Len(Matching)
            BY <1>0, <3>1, PageProperties DEF TypeOK
        <3>3. index[Page[k]] \in Images
            BY <1>0, <3>2, MatchingProperties, WantedAssumption DEF WantedAssumption, Matches, TypeOK
        <3> QED
            BY <3>1, <3>3
    <2>3. found' = <<>> /\ rows' = rows /\ replaced' = replaced
        BY <1>1 DEF Query, printer, history
    <2>4. \A k \in Pending' : k \in DOMAIN hits'
        <3>1. Len(found') = 0 /\ DOMAIN hits' = 1 .. Len(hits')
            BY <1>1, <2>1, <2>3, LenProperties DEF Query
        <3> QED
            BY <3>1 DEF Pending
    <2> QED
        BY <2>2, <2>3, <2>4 DEF Labelled, Complete
<1>2. CASE Details
    <2> DEFINE r == [name |-> Hit.name, image |-> index[Hit.name],
                     labels |-> Asked \cap Labels[index[Hit.name]]]
    <2>1. Len(found) + 1 \in DOMAIN hits
        BY <1>0, <1>2 DEF Details
    <2>2. Complete(r, fetched + (Len(found) + 1))
        <3>1. \/ fetched + (Len(found) + 1) \in replaced
              \/ Hit.labels = Labels[index[Hit.name]]
            <4>1. Len(found) + 1 \in Pending
                BY <1>0, <1>2 DEF Details, Pending
            <4> QED
                BY <4>1 DEF Labelled, Hit
        <3> QED
            BY <3>1 DEF Complete, Asked
    <2>3. r \in Results
        <3>1. Hit.name \in Names /\ Hit.labels \subseteq AllLabels
            <4>1. Hit \in [name : Names, labels : SUBSET AllLabels]
                BY <1>0, <2>1, ElementOfSeq DEF TypeOK, Hit
            <4> QED
                BY <4>1
        <3>2. index[Hit.name] \in Images
            BY <1>2, <3>1 DEF Details, TypeOK
        <3> QED
            BY <3>1, <3>2 DEF Results, Asked
    <2>4. found' = Append(found, r)
        BY <1>2 DEF Details
    <2> HIDE DEF r
    <2>5. /\ \A k \in DOMAIN found' : \/ k \in DOMAIN found /\ found'[k] = found[k]
                                      \/ k = Len(found) + 1 /\ found'[k] = r
          /\ Len(found') = Len(found) + 1
        <3>1. /\ found' \in Seq(Results) /\ Len(found') = Len(found) + 1
              /\ \A i \in 1 .. Len(found) : found'[i] = found[i]
              /\ found'[Len(found) + 1] = r
            BY <2>3, <2>4, AppendProperties DEF TypeOK
        <3>2. DOMAIN found' = 1 .. Len(found) + 1
            BY <3>1, LenProperties
        <3> QED
            BY <1>0, <3>1, <3>2
    <2>6. \A k \in DOMAIN found' : Complete(found'[k], fetched + k)
        BY <1>2, <2>2, <2>5 DEF Labelled, Details
    <2>7. UNCHANGED <<pc, hits, index, rows, fetched, replaced>>
        BY <1>2 DEF Details, printer, history
    <2>8. Pending' \subseteq Pending
        BY <1>0, <2>5, <2>7 DEF Pending
    <2> QED
        BY <2>6, <2>7, <2>8 DEF Labelled, Complete
<1>3. CASE Answer
    <2>1. \A k \in DOMAIN rows' :
              \/ k \in DOMAIN rows /\ rows'[k] = rows[k]
              \/ \E l \in DOMAIN found : rows'[k] = found[l] /\ k = fetched + l
        <3>1. rows' = rows \o found
            BY <1>3 DEF Answer
        <3>2. /\ rows' \in Seq(Results) /\ Len(rows') = Len(rows) + Len(found)
              /\ \A k \in 1 .. Len(rows) + Len(found) :
                    rows'[k] = IF k <= Len(rows) THEN rows[k] ELSE found[k - Len(rows)]
            BY <3>1, ConcatProperties DEF TypeOK
        <3>3. DOMAIN rows' = 1 .. Len(rows) + Len(found)
            BY <3>2, LenProperties
        <3>4. ASSUME NEW k \in 1 .. Len(rows) + Len(found)
              PROVE  \/ k \in 1 .. Len(rows) /\ k <= Len(rows)
                     \/ /\ k - Len(rows) \in 1 .. Len(found) /\ ~(k <= Len(rows))
                        /\ k = fetched + (k - Len(rows))
            BY <1>0 DEF TypeOK
        <3> QED
            BY <1>0, <3>2, <3>3, <3>4
    <2>2. \A k \in DOMAIN rows' : Complete(rows'[k], k)
        BY <1>3, <2>1 DEF Labelled, Answer
    <2>3. pc' = "append" /\ found' = found /\ replaced' = replaced
        BY <1>3 DEF Answer, server, history
    <2> QED
        BY <2>2, <2>3 DEF Labelled, Complete, Pending
<1>4. CASE PrintAll
    BY <1>4 DEF PrintAll, Labelled, Complete, Pending, server, history
<1>5. CASE PrintRow
    BY <1>5 DEF PrintRow, Labelled, Complete, Pending, server, history
<1>6. CASE Loop
    BY <1>6 DEF Loop, Labelled, Complete, Pending, server, history
<1>7. ASSUME NEW F \in Names, NEW i \in Images \cup {None}, Change(F, i)
      PROVE  Labelled'
    <2>1. /\ UNCHANGED <<pc, hits, found, rows, fetched>>
          /\ replaced \subseteq replaced'
          /\ \A k \in Pending : hits[k].name = F => fetched + k \in replaced'
          /\ \A G \in Names \ {F} : index'[G] = index[G]
        BY <1>7 DEF Change, server, printer, TypeOK
    <2>2. \A r, n : Complete(r, n) => Complete(r, n)'
        BY <2>1 DEF Complete
    <2>3. \A k \in DOMAIN hits : hits[k].name \in Names
        <3>1. \A k \in 1 .. Len(hits) : hits[k] \in [name : Names, labels : SUBSET AllLabels]
            BY ElementOfSeq DEF TypeOK
        <3> QED
            BY <1>0, <3>1
    <2>4. ASSUME NEW k \in Pending
          PROVE  \/ fetched + k \in replaced'
                 \/ /\ index'[hits[k].name] \in Images
                    /\ hits[k].labels = Labels[index'[hits[k].name]]
        <3>1. k \in DOMAIN hits
            BY <1>0, <2>4 DEF Pending
        <3> QED
            BY <2>1, <2>3, <2>4, <3>1 DEF Labelled
    <2>5. Pending' = Pending
        BY <2>1 DEF Pending
    <2> QED
        BY <2>1, <2>2, <2>4, <2>5 DEF Labelled, Complete
<1>8. CASE Fails
    BY <1>8 DEF Fails, Labelled, Complete, Pending, server, printer, history
<1>9. CASE UNCHANGED vars
    BY <1>9 DEF vars, Labelled, Complete, Pending, server, printer, history
<1> QED
    BY <1>1, <1>2, <1>3, <1>4, <1>5, <1>6, <1>7, <1>8, <1>9 DEF PageStep

------------------------------------------------------------------------------
(* The printer                                                              *)

\* Rows added to a table leave its titles in place.
LEMMA TableGrows ==
    ASSUME NEW lines, NEW more \in Seq(Seq(Nat)), \A k \in 1 .. Len(more) : Len(more[k]) = 6,
           IsTable(lines)
    PROVE  IsTable(lines \o more)
<1>1. /\ lines \in Seq(Seq(Nat)) /\ Len(lines) \in Nat /\ Len(lines) > 0
      /\ DOMAIN lines = 1 .. Len(lines) /\ Len(more) \in Nat
    BY LenProperties, EmptySeq DEF IsTable
<1>2. /\ lines \o more \in Seq(Seq(Nat)) /\ Len(lines \o more) = Len(lines) + Len(more)
      /\ \A k \in 1 .. Len(lines) + Len(more) :
            (lines \o more)[k] = IF k <= Len(lines) THEN lines[k] ELSE more[k - Len(lines)]
    BY <1>1, ConcatProperties
<1>3. DOMAIN (lines \o more) = 1 .. Len(lines) + Len(more) /\ lines \o more # <<>>
    <2>1. DOMAIN (lines \o more) = 1 .. Len(lines) + Len(more)
        BY <1>2, LenProperties
    <2>2. lines \o more # <<>>
        BY <1>1, <1>2, EmptySeq
    <2> QED
        BY <2>1, <2>2
<1>4. ASSUME NEW k \in 1 .. Len(lines) + Len(more)
      PROVE  Len((lines \o more)[k]) = 6
    <2>1. CASE k <= Len(lines)
        <3>1. (lines \o more)[k] = lines[k] /\ k \in DOMAIN lines
            BY <1>1, <1>2, <2>1
        <3> QED
            BY <3>1 DEF IsTable
    <2>2. CASE ~(k <= Len(lines))
        <3>1. (lines \o more)[k] = more[k - Len(lines)] /\ k - Len(lines) \in 1 .. Len(more)
            BY <1>1, <1>2, <2>2
        <3> QED
            BY <3>1
    <2> QED
        BY <2>1, <2>2
<1>5. (lines \o more)[1] = lines[1]
    BY <1>1, <1>2
<1> QED
    BY <1>2, <1>3, <1>4, <1>5 DEF IsTable

LEMMA HeaderIsTable == IsTable(<<Header>>)
<1>1. Header \in Seq(Nat \ {0}) /\ Len(Header) = 6
    BY CellsAssumption DEF CellsAssumption
<1>2. Header \in Seq(Nat)
    <2>1. Nat \ {0} \subseteq Nat
        OBVIOUS
    <2> QED
        BY <1>1, <2>1, SeqMonotonic
<1>3. \A i \in 1 .. 6 : Header[i] > 0
    <2>1. \A i \in 1 .. 6 : Header[i] \in Nat \ {0}
        BY <1>1, ElementOfSeq
    <2> QED
        BY <2>1
<1>4. <<Header>> \in Seq(Seq(Nat)) /\ Len(<<Header>>) = 1 /\ <<Header>>[1] = Header
    BY <1>2
<1>5. DOMAIN <<Header>> = {1} /\ <<Header>> # <<>>
    BY <1>4
<1> QED
    BY <1>1, <1>3, <1>4, <1>5 DEF IsTable

LEMMA TabularStep ==
    ASSUME TypeOK, Tabular, Labelled, PageStep
    PROVE  Tabular'
<1>0. /\ Len(found) \in Nat /\ Len(rows) \in Nat /\ Len(table) \in Nat
      /\ (rows = <<>> <=> Len(rows) = 0) /\ (found = <<>> <=> Len(found) = 0)
      /\ (table = <<>> <=> Len(table) = 0)
    BY LenProperties, EmptySeq DEF TypeOK
<1>1. CASE Query
    BY <1>1 DEF Query, Tabular, printer
<1>2. CASE Details
    BY <1>2 DEF Details, Tabular, printer
<1>3. CASE Answer
    <2>1. /\ rows' = rows \o found /\ table' = (table \o Titles) \o Lines
          /\ UNCHANGED <<options, widths, position>> /\ pc' = "append"
        BY <1>3 DEF Answer, Lines
    <2>2. /\ Lines \in Seq(Seq(Nat)) /\ Len(Lines) = Len(found)
          /\ \A k \in 1 .. Len(Lines) : Len(Lines[k]) = IF options.template THEN 1 ELSE 6
        BY LinesType
    <2>3. Len(rows') = Len(rows) + Len(found) /\ (rows' = <<>> <=> Len(rows') = 0)
        <3>1. rows' \in Seq(Results) /\ Len(rows') = Len(rows) + Len(found)
            BY <2>1, ConcatProperties DEF TypeOK
        <3> QED
            BY <3>1, EmptySeq
    <2>t. table \in Seq(Seq(Nat))
        BY DEF TypeOK
    <2>4. CASE Titles = <<>>
        <3>1. table' = table \o Lines
            BY <2>1, <2>4, <2>t, ConcatEmptySeq
        <3>2. /\ table' \in Seq(Seq(Nat)) /\ Len(table') = Len(table) + Len(Lines)
              /\ DOMAIN table' = 1 .. Len(table) + Len(Lines)
              /\ \A k \in 1 .. Len(table) : table'[k] = table[k]
              /\ \A k \in 1 .. Len(table) + Len(Lines) : k > Len(table) =>
                    k - Len(table) \in 1 .. Len(Lines) /\ table'[k] = Lines[k - Len(table)]
            <4> DEFINE S == Seq(Nat)
            <4>1. table \in Seq(S) /\ Lines \in Seq(S)
                BY <2>2, <2>t
            <4> HIDE DEF S
            <4>2. /\ table' \in Seq(S) /\ Len(table') = Len(table) + Len(Lines)
                  /\ DOMAIN table' = 1 .. Len(table) + Len(Lines)
                  /\ \A k \in 1 .. Len(table) : table'[k] = table[k]
                  /\ \A k \in 1 .. Len(table) + Len(Lines) : k > Len(table) =>
                        k - Len(table) \in 1 .. Len(Lines) /\ table'[k] = Lines[k - Len(table)]
                BY <3>1, <4>1, Joined
            <4> QED
                BY <4>2 DEF S
        <3>3. CASE options.template
            <4>1. DOMAIN table' = 1 .. Len(table) + Len(Lines) /\ DOMAIN table = 1 .. Len(table)
                BY <2>t, <3>2, LenProperties
            <4>2. ASSUME NEW k \in 1 .. Len(table) + Len(Lines)
                  PROVE  table'[k] # <<>>
                <5>1. CASE k <= Len(table)
                    <6>1. k \in DOMAIN table /\ table'[k] = table[k]
                        BY <1>0, <3>2, <4>1, <5>1
                    <6> QED
                        BY <3>3, <6>1 DEF Tabular
                <5>2. CASE ~(k <= Len(table))
                    <6>1. k - Len(table) \in 1 .. Len(Lines) /\ table'[k] = Lines[k - Len(table)]
                        BY <1>0, <2>2, <3>2, <5>2
                    <6>2. Len(table'[k]) = 1
                        BY <2>2, <3>3, <6>1
                    <6> QED
                        BY <6>2, EmptySeq
                <5> QED
                    BY <5>1, <5>2
            <4> QED
                BY <1>0, <2>1, <2>2, <2>3, <3>2, <3>3, <4>1, <4>2 DEF Tabular
        <3>4. CASE ~options.template
            <4>1. rows # <<>> \/ found = <<>>
                BY <2>4, <3>4 DEF Titles
            <4>2. table # <<>> => IsTable(table')
                <5>1. table # <<>> => IsTable(table)
                    BY <3>4 DEF Tabular
                <5> QED
                    BY <2>2, <3>1, <3>4, <5>1, TableGrows
            <4>3. table = <<>> => rows = <<>> /\ found = <<>> /\ Len(table') = 0
                BY <1>0, <2>2, <3>2, <3>4, <4>1 DEF Tabular
            <4>4. table' # <<>> => table # <<>>
                BY <3>2, <4>3, EmptySeq
            <4>5. Len(table') = (IF rows' = <<>> THEN 0 ELSE Len(rows') + 1)
                <5>1. Len(table) = (IF rows = <<>> THEN 0 ELSE Len(rows) + 1)
                    BY <3>4 DEF Tabular
                <5>2. /\ Len(table') = Len(table) + Len(found)
                      /\ Len(rows') = Len(rows) + Len(found)
                    BY <2>2, <2>3, <3>2
                <5>3. CASE rows = <<>>
                    BY <1>0, <2>3, <4>1, <5>1, <5>2, <5>3
                <5>4. CASE rows # <<>>
                    BY <1>0, <2>3, <5>1, <5>2, <5>4
                <5> QED
                    BY <5>3, <5>4
            <4>6. position' > 0 => widths' # <<>>
                BY <2>1, <3>4 DEF Tabular
            <4> QED
                BY <2>1, <3>4, <4>2, <4>4, <4>5, <4>6 DEF Tabular
        <3> QED
            BY <3>3, <3>4
    <2>5. CASE Titles # <<>>
        <3>1. ~options.template /\ rows = <<>> /\ found # <<>> /\ Titles = <<Header>>
            BY <2>5 DEF Titles
        <3>2. table = <<>>
            BY <1>0, <3>1 DEF Tabular
        <3>3. table' = <<Header>> \o Lines
            <4>1. <<>> \o Titles = Titles
                BY TitlesType, ConcatEmptySeq
            <4> QED
                BY <2>1, <3>1, <3>2, <4>1
        <3>4. IsTable(table')
            BY <2>2, <3>1, <3>3, HeaderIsTable, TableGrows
        <3>5. Len(table') = 1 + Len(found)
            <4>1. <<Header>> \in Seq(Seq(Nat)) /\ Len(<<Header>>) = 1
                BY <3>1, TitlesType
            <4> QED
                BY <2>2, <3>3, <4>1, ConcatProperties
        <3>6. Len(table') = (IF rows' = <<>> THEN 0 ELSE Len(rows') + 1)
            BY <1>0, <2>3, <3>1, <3>5
        <3>7. position' > 0 => widths' # <<>>
            BY <2>1, <3>1 DEF Tabular
        <3> QED
            BY <2>1, <3>1, <3>4, <3>6, <3>7 DEF Tabular
    <2> QED
        BY <2>4, <2>5
<1>4. CASE PrintAll
    <2>1. /\ UNCHANGED <<options, rows, table, position>>
          /\ widths' = IF options.template \/ table = <<>> \/ widths # <<>> THEN widths
                       ELSE ComputeWidths(table, options.width)
        BY <1>4 DEF PrintAll
    <2>2. ~options.template /\ table # <<>> => widths' # <<>>
        <3> SUFFICES ASSUME ~options.template, table # <<>>, widths = <<>>
                     PROVE  widths' # <<>>
            BY <2>1
        <3>1. IsTable(table) /\ options.width \in Int
            BY SizeAssumption DEF Tabular, TypeOK, SizeAssumption
        <3>2. Len(widths') = 6
            BY <2>1, <3>1, WidthsFit
        <3> QED
            BY <3>2, EmptySeq
    <2>3. widths # <<>> => widths' = widths
        BY <2>1
    <2>4. options.template => widths' = widths
        BY <2>1
    <2> QED
        BY <2>1, <2>2, <2>3, <2>4 DEF Tabular
<1>5. CASE PrintRow
    <2>1. table # <<>> /\ pc = "print"
        BY <1>0, <1>5 DEF PrintRow, TypeOK
    <2> QED
        BY <1>5, <2>1 DEF PrintRow, Tabular
<1>6. CASE Loop
    BY <1>6 DEF Loop, Tabular
<1>7. ASSUME NEW F \in Names, NEW i \in Images \cup {None}, Change(F, i)
      PROVE  Tabular'
    BY <1>7 DEF Change, Tabular, printer
<1>8. CASE Fails
    BY <1>8 DEF Fails, Tabular, printer
<1>9. CASE UNCHANGED vars
    BY <1>9 DEF vars, Tabular, printer
<1> QED
    BY <1>1, <1>2, <1>3, <1>4, <1>5, <1>6, <1>7, <1>8, <1>9 DEF PageStep

\* A page adds its lines, and the titles if it is the first with results.
LEMMA AnswerLengths ==
    ASSUME TypeOK, Labelled, Answer
    PROVE  /\ Len(rows') = Len(rows) + Len(found)
           /\ Len(table') = Len(table) + Len(Titles) + Len(found)
           /\ Len(Titles) \in Nat /\ (found = <<>> => Len(Titles) = 0)
<1>1. table' = (table \o Titles) \o Lines /\ rows' = rows \o found
    BY DEF Answer, Lines
<1>2. Len(rows') = Len(rows) + Len(found)
    BY <1>1, ConcatProperties DEF TypeOK
<1>3. /\ table \o Titles \in Seq(Seq(Nat))
      /\ Len(table \o Titles) = Len(table) + Len(Titles)
    BY TitlesType, ConcatProperties DEF TypeOK
<1>4. Len(table') = Len(table) + Len(Titles) + Len(Lines)
    BY <1>1, <1>3, LinesType, ConcatProperties
<1>5. Len(Titles) \in Nat
    BY TitlesType, LenProperties
<1>6. found = <<>> => Len(Titles) = 0
    BY EmptySeq DEF Titles
<1> QED
    BY <1>2, <1>4, <1>5, <1>6, LinesType

LEMMA PagingStep ==
    ASSUME TypeOK, Paging, Labelled, PageStep
    PROVE  Paging'
<1>0. /\ Len(found) \in Nat /\ Len(rows) \in Nat /\ Len(table) \in Nat /\ Len(hits) \in Nat
      /\ (found = <<>> <=> Len(found) = 0) /\ (hits = <<>> <=> Len(hits) = 0)
      /\ fetched = Len(rows) /\ total \in Nat /\ position \in Nat /\ options \in Options
      /\ rank \in Rankings
    BY LenProperties, EmptySeq DEF TypeOK
<1>1. CASE Query
    <2>1. hits' = <<>> => total' <= fetched
        <3>1. hits' = <<>> => Page = <<>>
            <4>1. DOMAIN hits' = DOMAIN Page
                BY <1>1 DEF Query
            <4>2. Page \in Seq(Names)
                BY <1>0, PageProperties
            <4>3. hits' = <<>> => DOMAIN Page = {}
                BY <4>1
            <4> QED
                BY <4>2, <4>3, EmptySeq, LenProperties
        <3> QED
            BY <1>0, <1>1, <3>1, PageProperties DEF Query
    <2> QED
        BY <1>1, <2>1 DEF Query, Paging, printer
<1>2. CASE Details
    BY <1>2 DEF Details, Paging, printer
<1>3. CASE Answer
    <2>1. /\ pc' = "append" /\ UNCHANGED <<found, total, position>>
          /\ position = Len(table) /\ Len(found) = Len(hits)
          /\ fetched' = fetched + Len(found)
          /\ (hits = <<>> => total <= fetched)
        BY <1>3 DEF Answer, Paging, server
    <2>2. Len(found) <= Len(rows')
        BY <1>0, <1>3, AnswerLengths
    <2>3. found = <<>> => total <= fetched'
        BY <1>0, <2>1
    <2>4. position' = Len(table') <=> found = <<>>
        BY <1>0, <1>3, <2>1, AnswerLengths
    <2> QED
        BY <2>1, <2>2, <2>3, <2>4 DEF Paging
<1>4. CASE PrintAll
    BY <1>4 DEF PrintAll, Paging, server
<1>5. CASE PrintRow
    BY <1>5 DEF PrintRow, Paging, server
<1>6. CASE Loop
    <2>1. ~MoreToFetch => total <= fetched
        BY <1>0 DEF MoreToFetch
    <2> QED
        BY <1>6, <2>1 DEF Loop, Paging, server
<1>7. ASSUME NEW F \in Names, NEW i \in Images \cup {None}, Change(F, i)
      PROVE  Paging'
    BY <1>7 DEF Change, Paging, server, printer
<1>8. CASE Fails
    BY <1>8 DEF Fails, Paging, server, printer
<1>9. CASE UNCHANGED vars
    BY <1>9 DEF vars, Paging, server, printer
<1> QED
    BY <1>1, <1>2, <1>3, <1>4, <1>5, <1>6, <1>7, <1>8, <1>9 DEF PageStep

\* A row is printed as wide as the columns, and its title shows that the first has
\* a width.
LEMMA LineShape ==
    ASSUME TypeOK, Tabular, PrintRow
    PROVE  /\ Line(table[position + 1]) # EndOfLine
           /\ ~options.template => /\ Line(table[position + 1]) = widths
                                   /\ position = 0 => widths[1] > 0
<1> DEFINE row == table[position + 1]
<1>1. /\ row \in Seq(Nat) /\ position + 1 \in DOMAIN table /\ table # <<>>
      /\ pc = "print" /\ ~RowPanics
    <2>1. position + 1 \in 1 .. Len(table) /\ DOMAIN table = 1 .. Len(table)
        BY LenProperties DEF TypeOK, PrintRow
    <2>2. table # <<>>
        BY <2>1
    <2> QED
        BY <2>1, <2>2, ElementOfSeq DEF TypeOK, PrintRow
<1>2. CASE options.template
    BY <1>1, <1>2 DEF Line, Tabular, EndOfLine
<1>3. CASE ~options.template
    <2>1. DOMAIN row = 1 .. 6 /\ \A i \in 1 .. 6 : row[i] \in Nat
        <3>1. Len(row) = 6
            BY <1>1, <1>3 DEF Tabular, IsTable
        <3> HIDE DEF row
        <3> QED
            BY <1>1, <3>1, LenProperties, ElementOfSeq
    <2>2. /\ widths # <<>> /\ DOMAIN widths = 1 .. 6 /\ \A i \in 1 .. 6 : widths[i] \in Int
          /\ widths = [i \in 1 .. 6 |-> widths[i]]
        <3>1. widths # <<>> /\ Len(widths) = 6 /\ widths \in Seq(Int)
            <4>1. widths # <<>> /\ widths \in Seq(Int) /\ Len(widths) \in {0, Len(Header)}
                BY <1>1, <1>3 DEF Tabular, TypeOK
            <4>2. Len(Header) = 6
                BY CellsAssumption DEF CellsAssumption
            <4> QED
                BY <4>1, <4>2, EmptySeq
        <3> QED
            BY <3>1, ElementOfSeq, LenProperties
    <2>3. \A i \in 1 .. 6 : Format(row[i], widths[i]) = widths[i]
        <3> TAKE i \in 1 .. 6
        <3> DEFINE c == row[i]
                   w == widths[i]
        <3>1. c \in Int /\ w \in Int
            <4>1. c \in Nat
                BY <2>1
            <4>2. w \in Int
                BY <2>2
            <4> HIDE DEF c
            <4> QED
                BY <4>1, <4>2
        <3> HIDE DEF c, w
        <3>2. Format(c, w) = w
            BY <3>1 DEF Format
        <3> QED
            BY <3>2 DEF c, w
    <2> DEFINE line == [i \in 1 .. 6 |-> Format(row[i], widths[i])]
    <2>4. Line(row) = line
        BY <1>3, <2>1 DEF Line
    <2> HIDE DEF row
    <2>5. line = [i \in 1 .. 6 |-> widths[i]]
        BY <2>3
    <2>6. Line(row) = widths
        BY <2>2, <2>4, <2>5
    <2>7. position = 0 => widths[1] > 0
        <3> SUFFICES ASSUME position = 0
                     PROVE  widths[1] > 0
            OBVIOUS
        <3>1. row[1] > 0 /\ row[1] \in Nat /\ widths[1] \in Int
            <4>1. table[1][1] > 0
                BY <1>1, <1>3 DEF Tabular, IsTable
            <4>2. row = table[1]
                BY DEF row
            <4> QED
                BY <2>1, <2>2, <4>1, <4>2
        <3>2. ~FormatPanics(row[1], widths[1])
            <4>1. 1 \in DOMAIN Header
                BY CellsAssumption, LenProperties DEF CellsAssumption
            <4> QED
                BY <1>1, <1>3, <4>1 DEF RowPanics, row
        <3> DEFINE c == row[1]
                   w == widths[1]
        <3>3. c > 0 /\ c \in Nat /\ w \in Int /\ ~(c > w /\ w < 3)
            BY <3>1, <3>2 DEF FormatPanics
        <3> HIDE DEF c, w
        <3>4. w > 0
            BY <3>3
        <3> QED
            BY <3>4 DEF w
    <2> QED
        BY <1>3, <2>2, <2>6, <2>7 DEF row, EndOfLine
<1> QED
    BY <1>2, <1>3

\* What printing a row adds to the output.
LEMMA RowPrinted ==
    ASSUME TypeOK, Tabular, PrintRow
    PROVE  LET n == Len(output)
               line == Line(table[position + 1])
           IN  /\ n \in Nat /\ DOMAIN output = 1 .. n /\ DOMAIN output' = 1 .. Len(output')
               /\ \A k \in 1 .. n : output'[k] = output[k]
               /\ Waits => /\ Len(output') = n + 2
                           /\ output'[n + 1] = EndOfLine /\ output'[n + 2] = line
               /\ ~Waits /\ position' = Len(table) =>
                     Len(output') = n + 1 /\ output'[n + 1] = line
               /\ ~Waits /\ position' # Len(table) =>
                     /\ Len(output') = n + 2
                     /\ output'[n + 1] = line /\ output'[n + 2] = EndOfLine
<1> DEFINE S == Seq(Nat)
           n == Len(output)
           line == Line(table[position + 1])
           begun == output \o Enter
           shown == begun \o <<line>>
<1>1. output \in Seq(S) /\ n \in Nat /\ DOMAIN output = 1 .. n
    BY LenProperties DEF TypeOK
<1>2. EndOfLine \in S /\ line \in S
    BY LineType DEF EndOfLine, PrintRow
<1>3. Enter \in Seq(S) /\ EndOfRow \in Seq(S) /\ <<line>> \in Seq(S)
    BY <1>2 DEF Enter, EndOfRow
<1>4. output' = shown \o EndOfRow
    BY DEF PrintRow
<1> HIDE DEF S, n, line
<1>5. begun \in Seq(S)
    BY <1>1, <1>3, ConcatProperties
<1>6. shown \in Seq(S)
    <2> HIDE DEF begun
    <2> QED
        BY <1>3, <1>5, ConcatProperties
<1>7. output' \in Seq(S) /\ DOMAIN output' = 1 .. Len(output')
    <2> HIDE DEF shown
    <2>1. output' \in Seq(S)
        BY <1>3, <1>4, <1>6, ConcatProperties
    <2> QED
        BY <2>1, LenProperties
<1>8. /\ Len(<<line>>) = 1 /\ <<line>>[1] = line
      /\ Len(<<EndOfLine>>) = 1 /\ <<EndOfLine>>[1] = EndOfLine
    OBVIOUS
<1>9. CASE Waits
    <2>1. Enter = <<EndOfLine>> /\ EndOfRow = <<>>
        BY <1>9 DEF Enter, EndOfRow
    <2>2. Len(begun) = n + 1 /\ begun[n + 1] = EndOfLine /\ \A k \in 1 .. n : begun[k] = output[k]
        <3>1. /\ Len(begun) = n + 1
              /\ \A k \in 1 .. n + 1 : begun[k] = IF k <= n THEN output[k] ELSE Enter[k - n]
            BY <1>1, <1>3, <1>8, <2>1, ConcatProperties DEF n
        <3> HIDE DEF begun
        <3>2. n + 1 \in 1 .. n + 1 /\ ~(n + 1 <= n) /\ (n + 1) - n = 1
            BY <1>1
        <3>3. begun[n + 1] = Enter[1]
            BY <3>1, <3>2
        <3> QED
            BY <1>1, <1>8, <2>1, <3>1, <3>3
    <2> HIDE DEF begun
    <2>3. /\ Len(shown) = n + 2
          /\ \A k \in 1 .. n + 2 : shown[k] = IF k <= n + 1 THEN begun[k] ELSE <<line>>[k - (n + 1)]
        BY <1>1, <1>3, <1>5, <1>8, <2>2, ConcatProperties
    <2>4. output' = shown
        <3> HIDE DEF shown
        <3> QED
            BY <1>4, <1>6, <2>1, ConcatEmptySeq
    <2> HIDE DEF shown
    <2>5. shown[n + 2] = line
        <3>1. n + 2 \in 1 .. n + 2 /\ ~(n + 2 <= n + 1) /\ (n + 2) - (n + 1) = 1
            BY <1>1
        <3> QED
            BY <1>8, <2>3, <3>1
    <2>6. shown[n + 1] = EndOfLine /\ \A k \in 1 .. n : shown[k] = output[k]
        BY <1>1, <2>2, <2>3
    <2> QED
        BY <1>1, <1>7, <1>9, <2>3, <2>4, <2>5, <2>6 DEF n, line
<1>10. CASE ~Waits
    <2>1. Enter = <<>> /\ EndOfRow = IF position' = Len(table) THEN <<>> ELSE <<EndOfLine>>
        BY <1>10 DEF Enter, EndOfRow
    <2>2. begun = output
        BY <1>1, <2>1, ConcatEmptySeq
    <2>3. Len(shown) = n + 1 /\ shown[n + 1] = line /\ \A k \in 1 .. n : shown[k] = output[k]
        <3>1. /\ Len(shown) = n + 1
              /\ \A k \in 1 .. n + 1 : shown[k] = IF k <= n THEN output[k] ELSE <<line>>[k - n]
            <4> HIDE DEF begun
            <4> QED
                BY <1>1, <1>3, <1>8, <2>2, ConcatProperties DEF n
        <3> HIDE DEF shown
        <3>2. n + 1 \in 1 .. n + 1 /\ ~(n + 1 <= n) /\ (n + 1) - n = 1
            BY <1>1
        <3>3. shown[n + 1] = <<line>>[1]
            BY <3>1, <3>2
        <3> QED
            BY <1>1, <1>8, <3>1, <3>3
    <2> HIDE DEF shown
    <2>4. CASE position' = Len(table)
        <3>1. output' = shown
            BY <1>4, <1>6, <2>1, <2>4, ConcatEmptySeq
        <3> QED
            BY <1>1, <1>7, <1>10, <2>3, <2>4, <3>1 DEF n, line
    <2>5. CASE position' # Len(table)
        <3>1. EndOfRow = <<EndOfLine>>
            BY <2>1, <2>5
        <3>2. /\ Len(output') = n + 2
              /\ \A k \in 1 .. n + 2 :
                    output'[k] = IF k <= n + 1 THEN shown[k] ELSE EndOfRow[k - (n + 1)]
            BY <1>1, <1>3, <1>4, <1>6, <1>8, <2>3, <3>1, ConcatProperties
        <3>3. n + 2 \in 1 .. n + 2 /\ ~(n + 2 <= n + 1) /\ (n + 2) - (n + 1) = 1
            BY <1>1
        <3>4. output'[n + 2] = EndOfLine
            BY <1>8, <3>1, <3>2, <3>3
        <3>5. output'[n + 1] = line /\ \A k \in 1 .. n : output'[k] = output[k]
            BY <1>1, <2>3, <3>2
        <3> QED
            BY <1>1, <1>7, <1>10, <2>5, <3>2, <3>4, <3>5 DEF n, line
    <2> QED
        BY <2>4, <2>5
<1> QED
    BY <1>9, <1>10

\* A table without rows has no titles either.
LEMMA TableEmpty ==
    ASSUME TypeOK, Tabular
    PROVE  /\ Len(table) \in Nat /\ Len(rows) \in Nat /\ Len(found) \in Nat
           /\ Len(table) = 0 <=> Len(rows) = 0
<1>1. /\ Len(table) \in Nat /\ Len(rows) \in Nat /\ Len(found) \in Nat
      /\ rows = <<>> <=> Len(rows) = 0
    BY LenProperties, EmptySeq DEF TypeOK
<1> QED
    BY <1>1 DEF Tabular

\* More is only fetched after some rows.
LEMMA MoreAfterRows ==
    ASSUME TypeOK, Tabular, Paging, pc = "print", position = Len(table), MoreToFetch
    PROVE  position > 0
<1>1. /\ Len(found) \in Nat /\ Len(rows) \in Nat /\ Len(table) \in Nat
      /\ (Len(table) = 0 <=> Len(rows) = 0)
      /\ (found = <<>> <=> Len(found) = 0)
      /\ fetched \in Nat /\ total \in Nat
    BY TableEmpty, EmptySeq, RankProperties DEF TypeOK
<1>2. Len(found) <= Len(rows) /\ found # <<>>
    BY <1>1 DEF Paging, MoreToFetch
<1> QED
    BY <1>1, <1>2

\* Each row and each end of a line is printed in its turn.
LEMMA OutputStep ==
    ASSUME TypeOK, Tabular, Paging, Alternates, Ends, Labelled, PageStep
    PROVE  Alternates' /\ Ends'
<1> USE DEF TypeOK
<1>0. /\ Len(found) \in Nat /\ Len(rows) \in Nat /\ Len(table) \in Nat
      /\ (Len(table) = 0 <=> Len(rows) = 0)
      /\ (found = <<>> <=> Len(found) = 0)
      /\ fetched = Len(rows) /\ total \in Nat /\ position \in 0 .. Len(table)
    <2>1. found = <<>> <=> Len(found) = 0
        BY LenProperties, EmptySeq DEF TypeOK
    <2>2. total \in Nat
        BY RankProperties
    <2> QED
        BY TableEmpty, <2>1, <2>2
<1> HIDE DEF TypeOK
<1>1. CASE Query
    BY <1>1 DEF Query, Alternates, Ends, printer
<1>2. CASE Details
    BY <1>2 DEF Details, Alternates, Ends, printer
<1>3. CASE Answer
    <2>1. /\ pc = "details" /\ pc' = "append"
          /\ UNCHANGED <<options, found, position, output>>
          /\ fetched' = fetched + Len(found)
          /\ position = Len(table)
        BY <1>3 DEF Answer, Paging, server
    <2>2. position' = Len(table') <=> found = <<>>
        BY <1>0, <1>3, <2>1, AnswerLengths
    <2>3. Len(output) = IF options.unlimited THEN 2 * position
                        ELSE IF position = 0 THEN 0 ELSE 2 * position - 1
        BY <2>1 DEF Ends
    <2>4. Waits' <=> ~options.unlimited /\ fetched > 0
        BY <1>0, <2>1 DEF Waits
    <2>5. (fetched > 0 <=> position > 0)
        BY <1>0, <2>1
    <2>6. Alternates'
        BY <2>1 DEF Alternates
    <2> QED
        BY <1>0, <2>1, <2>2, <2>3, <2>4, <2>5, <2>6 DEF Ends
<1>4. CASE PrintAll
    <2>1. /\ pc = "append" /\ pc' = "print"
          /\ UNCHANGED <<options, total, fetched, found, table, position, output>>
        BY <1>4 DEF PrintAll, server
    <2>2. position = Len(table) => ~MoreToFetch
        BY <1>0, <2>1 DEF Paging, MoreToFetch
    <2>3. Waits' <=> Waits
        BY <2>1 DEF Waits
    <2>4. MoreToFetch' <=> MoreToFetch
        BY <2>1 DEF MoreToFetch
    <2> QED
        BY <1>0, <2>1, <2>2, <2>3, <2>4 DEF Ends, Alternates
<1>5. CASE PrintRow
    <2> DEFINE n == Len(output)
               line == Line(table[position + 1])
    <2>1. /\ pc = "print" /\ position < Len(table) /\ position' = position + 1
          /\ UNCHANGED <<options, pc, total, fetched, found, table>>
        BY <1>5 DEF PrintRow, server
    <2>2. line # EndOfLine
        BY <1>5, LineShape
    <2>3. /\ n \in Nat /\ DOMAIN output = 1 .. n /\ DOMAIN output' = 1 .. Len(output')
          /\ \A k \in 1 .. n : output'[k] = output[k]
          /\ Waits => /\ Len(output') = n + 2
                      /\ output'[n + 1] = EndOfLine /\ output'[n + 2] = line
          /\ ~Waits /\ position' = Len(table) =>
                Len(output') = n + 1 /\ output'[n + 1] = line
          /\ ~Waits /\ position' # Len(table) =>
                /\ Len(output') = n + 2
                /\ output'[n + 1] = line /\ output'[n + 2] = EndOfLine
        BY <1>5, RowPrinted
    <2>4. /\ Waits => position > 0 /\ n = 2 * position - 1
          /\ ~Waits => n = 2 * position
        BY <1>0, <2>1 DEF Ends
    <2>5. Waits' <=> Waits
        BY <2>1 DEF Waits
    <2> HIDE DEF n, line
    <2>6. Ends'
        <3>1. pc' = "print" /\ Len(table') = Len(table) /\ position \in Nat
            BY <1>0, <2>1
        <3>2. CASE Waits
            <4>1. Len(output') = 2 * position' - 1 /\ position' > 0
                BY <2>1, <2>3, <2>4, <3>1, <3>2
            <4> QED
                BY <2>5, <3>1, <3>2, <4>1 DEF Ends
        <3>3. CASE ~Waits /\ position' = Len(table)
            <4>1. Len(output') = 2 * position' - 1 /\ position' > 0
                <5>1. Len(output') = n + 1
                    BY <2>3, <3>3
                <5>2. n = 2 * position
                    BY <2>4, <3>3
                <5> QED
                    BY <2>1, <3>1, <5>1, <5>2
            <4> QED
                BY <1>0, <2>5, <3>1, <3>3, <4>1 DEF Ends
        <3>4. CASE ~Waits /\ position' # Len(table)
            <4>1. Len(output') = 2 * position'
                BY <2>1, <2>3, <2>4, <3>1, <3>4
            <4> QED
                BY <2>5, <3>1, <3>4, <4>1 DEF Ends
        <3> QED
            BY <3>2, <3>3, <3>4
    <2>7. Alternates'
        <3>1. \A k \in 1 .. n : output'[k] = EndOfLine <=> k % 2 = 0
            BY <2>3 DEF Alternates
        <3>2. CASE Waits
            <4>1. (n + 1) % 2 = 0 /\ (n + 2) % 2 # 0
                BY <1>0, <2>4, <3>2
            <4>2. \A k \in 1 .. n + 2 : k \in 1 .. n \/ k = n + 1 \/ k = n + 2
                BY <2>3
            <4> QED
                BY <2>2, <2>3, <3>1, <3>2, <4>1, <4>2 DEF Alternates
        <3>3. CASE ~Waits
            <4>1. (n + 1) % 2 # 0 /\ (n + 2) % 2 = 0
                BY <1>0, <2>4, <3>3
            <4>2. \A k \in 1 .. n + 2 : k \in 1 .. n \/ k = n + 1 \/ k = n + 2
                BY <2>3
            <4>3. \A k \in 1 .. n + 1 : k \in 1 .. n \/ k = n + 1
                BY <2>3
            <4>4. CASE position' = Len(table)
                BY <2>2, <2>3, <3>1, <3>3, <4>1, <4>3, <4>4 DEF Alternates
            <4>5. CASE position' # Len(table)
                BY <2>2, <2>3, <3>1, <3>3, <4>1, <4>2, <4>5 DEF Alternates
            <4> QED
                BY <4>4, <4>5
        <3> QED
            BY <3>2, <3>3
    <2> QED
        BY <2>6, <2>7
<1>6. CASE Loop
    <2>1. /\ pc = "print" /\ position = Len(table)
          /\ pc' = (IF MoreToFetch THEN "search" ELSE "over")
          /\ output' = (IF MoreToFetch /\ options.unlimited THEN Append(output, EndOfLine)
                                                          ELSE output)
          /\ UNCHANGED <<options, total, fetched, found, table, position>>
        BY <1>6 DEF Loop, server
    <2>2. MoreToFetch => /\ position > 0 /\ Len(output) = 2 * position - 1
        <3> SUFFICES ASSUME MoreToFetch
                     PROVE  position > 0 /\ Len(output) = 2 * position - 1
            OBVIOUS
        <3>1. position > 0
            BY <2>1, MoreAfterRows
        <3> QED
            BY <1>0, <2>1, <3>1 DEF Ends
    <2>3. CASE MoreToFetch /\ options.unlimited
        <3>1. output \in Seq(Seq(Nat)) /\ EndOfLine \in Seq(Nat)
            BY DEF TypeOK, EndOfLine
        <3>2. output' = Append(output, EndOfLine)
            BY <2>1, <2>3
        <3>3. /\ Len(output') = Len(output) + 1 /\ output'[Len(output) + 1] = EndOfLine
              /\ \A k \in 1 .. Len(output) : output'[k] = output[k]
              /\ output' \in Seq(Seq(Nat))
            BY <3>1, <3>2, AppendProperties
        <3>4. DOMAIN output' = 1 .. Len(output) + 1 /\ DOMAIN output = 1 .. Len(output)
            BY <3>1, <3>3, LenProperties
        <3>5. Len(output) = 2 * position - 1 /\ position \in Nat
            BY <1>0, <2>2, <2>3
        <3>6. Ends'
            BY <2>1, <2>3, <3>3, <3>5 DEF Ends
        <3>7. Alternates'
            <4>1. (Len(output) + 1) % 2 = 0
                BY <3>5
            <4>2. \A k \in 1 .. Len(output) + 1 : k \in 1 .. Len(output) \/ k = Len(output) + 1
                BY <3>5
            <4> QED
                BY <3>3, <3>4, <4>1, <4>2 DEF Alternates
        <3> QED
            BY <3>6, <3>7
    <2>4. CASE MoreToFetch /\ ~options.unlimited
        BY <1>0, <2>1, <2>2, <2>4 DEF Ends, Alternates
    <2>5. CASE ~MoreToFetch
        BY <2>1, <2>5 DEF Ends, Alternates
    <2> QED
        BY <2>3, <2>4, <2>5
<1>7. ASSUME NEW F \in Names, NEW i \in Images \cup {None}, Change(F, i)
      PROVE  Alternates' /\ Ends'
    BY <1>7 DEF Change, Ends, Alternates, Waits, MoreToFetch, server, printer
<1>8. CASE Fails
    BY <1>8 DEF Fails, Ends, Alternates, server, printer
<1>9. CASE UNCHANGED vars
    BY <1>9 DEF vars, Ends, Alternates, Waits, MoreToFetch, server, printer
<1> QED
    BY <1>1, <1>2, <1>3, <1>4, <1>5, <1>6, <1>7, <1>8, <1>9 DEF PageStep

\* Lines are as wide as the columns, and these fit.
LEMMA AlignedStep ==
    ASSUME TypeOK, Tabular, Paging, Aligned, PageStep
    PROVE  Aligned'
<1>1. CASE Query
    BY <1>1 DEF Query, Aligned, printer
<1>2. CASE Details
    BY <1>2 DEF Details, Aligned, printer
<1>3. CASE Answer
    BY <1>3 DEF Answer, Aligned
<1>4. CASE PrintAll
    <2>1. /\ UNCHANGED <<options, position, output>>
          /\ widths' = IF options.template \/ table = <<>> \/ widths # <<>> THEN widths
                       ELSE ComputeWidths(table, options.width)
        BY <1>4 DEF PrintAll
    <2> SUFFICES ASSUME ~options.template
                 PROVE  Aligned'
        BY <2>1 DEF Aligned
    <2>2. CASE table = <<>> \/ widths # <<>>
        BY <2>1, <2>2 DEF Aligned
    <2>3. CASE table # <<>> /\ widths = <<>>
        <3>1. position = 0 /\ output = <<>>
            BY <2>3 DEF Tabular, Aligned, TypeOK
        <3>2. widths' = ComputeWidths(table, options.width)
            BY <2>1, <2>3
        <3>3. IsTable(table) /\ options.width \in Int
            BY <2>3, SizeAssumption DEF Tabular, TypeOK, SizeAssumption
        <3>4. widths'[1] > 0 => TotalLength(widths') <= Room(options.width, 6)
            BY <3>2, <3>3, WidthsFit
        <3>5. DOMAIN output' = {}
            BY <2>1, <3>1
        <3> QED
            BY <2>1, <3>1, <3>4, <3>5 DEF Aligned
    <2> QED
        BY <2>2, <2>3
<1>5. CASE PrintRow
    <2> DEFINE n == Len(output)
               line == Line(table[position + 1])
    <2>1. UNCHANGED <<options, widths, table>> /\ position' = position + 1 /\ position \in Nat
        BY <1>5 DEF PrintRow, TypeOK
    <2> SUFFICES ASSUME ~options.template
                 PROVE  Aligned'
        BY <2>1 DEF Aligned
    <2>2. line = widths /\ (position = 0 => widths[1] > 0)
        BY <1>5, LineShape
    <2>3. /\ n \in Nat /\ DOMAIN output = 1 .. n /\ DOMAIN output' = 1 .. Len(output')
          /\ \A k \in 1 .. n : output'[k] = output[k]
          /\ Waits => /\ Len(output') = n + 2
                      /\ output'[n + 1] = EndOfLine /\ output'[n + 2] = line
          /\ ~Waits /\ position' = Len(table) =>
                Len(output') = n + 1 /\ output'[n + 1] = line
          /\ ~Waits /\ position' # Len(table) =>
                /\ Len(output') = n + 2
                /\ output'[n + 1] = line /\ output'[n + 2] = EndOfLine
        BY <1>5, RowPrinted
    <2> HIDE DEF n, line
    <2>4. position' > 0 /\ widths'[1] > 0
        <3>1. position > 0 => widths[1] > 0
            BY DEF Aligned
        <3> QED
            BY <2>1, <2>2, <3>1
    <2>5. ASSUME NEW k \in DOMAIN output', output'[k] # EndOfLine
          PROVE  output'[k] = widths
        <3>1. CASE k \in 1 .. n
            BY <2>3, <2>5, <3>1 DEF Aligned
        <3>2. CASE k \notin 1 .. n
            <4>1. k = n + 1 \/ (k = n + 2 /\ Len(output') = n + 2)
                BY <2>3, <3>2
            <4>2. output'[k] \in {line, EndOfLine}
                BY <2>3, <4>1
            <4> QED
                BY <2>2, <2>5, <4>2
        <3> QED
            BY <3>1, <3>2
    <2>6. widths' # <<>> /\ widths'[1] > 0 => TotalLength(widths') <= Room(options.width, 6)
        BY <2>1 DEF Aligned
    <2> QED
        BY <2>1, <2>4, <2>5, <2>6 DEF Aligned
<1>6. CASE Loop
    <2>1. /\ position = Len(table) /\ UNCHANGED <<options, table, widths, position>>
          /\ output' = (IF MoreToFetch /\ options.unlimited THEN Append(output, EndOfLine)
                                                          ELSE output)
        BY <1>6 DEF Loop
    <2>2. CASE ~(MoreToFetch /\ options.unlimited)
        BY <2>1, <2>2 DEF Aligned
    <2>3. CASE MoreToFetch /\ options.unlimited
        <3>1. output \in Seq(Seq(Nat)) /\ EndOfLine \in Seq(Nat)
            BY DEF TypeOK, EndOfLine
        <3>2. output' = Append(output, EndOfLine)
            BY <2>1, <2>3
        <3>3. /\ Len(output') = Len(output) + 1 /\ output'[Len(output) + 1] = EndOfLine
              /\ \A k \in 1 .. Len(output) : output'[k] = output[k]
              /\ output' \in Seq(Seq(Nat)) /\ Len(output) \in Nat
            BY <3>1, <3>2, AppendProperties, LenProperties
        <3>4. DOMAIN output' = 1 .. Len(output) + 1 /\ DOMAIN output = 1 .. Len(output)
            BY <3>1, <3>3, LenProperties
        <3>5. \A k \in 1 .. Len(output) + 1 : k \in 1 .. Len(output) \/ k = Len(output) + 1
            BY <3>3
        <3>6. ~options.template => \A k \in DOMAIN output' : output'[k] # EndOfLine => output'[k] = widths
            BY <3>3, <3>4, <3>5 DEF Aligned
        <3>7. ~options.template => position > 0
            BY <1>6, <2>3, MoreAfterRows DEF Loop
        <3> QED
            BY <2>1, <3>6, <3>7 DEF Aligned
    <2> QED
        BY <2>2, <2>3
<1>7. ASSUME NEW F \in Names, NEW i \in Images \cup {None}, Change(F, i)
      PROVE  Aligned'
    BY <1>7 DEF Change, Aligned, printer
<1>8. CASE Fails
    BY <1>8 DEF Fails, Aligned, printer
<1>9. CASE UNCHANGED vars
    BY <1>9 DEF vars, Aligned, printer
<1> QED
    BY <1>1, <1>2, <1>3, <1>4, <1>5, <1>6, <1>7, <1>8, <1>9 DEF PageStep

------------------------------------------------------------------------------
(* Pages                                                                    *)

LEMMA DetailedStep ==
    ASSUME TypeOK, Detailed, PageStep
    PROVE  Detailed'
<1>1. CASE Query
    BY <1>1 DEF Query, Detailed
<1>2. CASE Details
    <2> DEFINE r == [name |-> Hit.name, image |-> index[Hit.name],
                     labels |-> Asked \cap Labels[index[Hit.name]]]
    <2>1. /\ pc = "details" /\ hits' = hits /\ found' = Append(found, r)
          /\ Len(found) < Len(hits) /\ index[Hit.name] # None
        BY <1>2 DEF Details
    <2>2. Len(found) \in Nat /\ DOMAIN found = 1 .. Len(found) /\ r.name = Hit.name
        BY LenProperties DEF TypeOK
    <2>3. r \in Results
        <3>1. Len(found) + 1 \in 1 .. Len(hits)
            BY <2>1, LenProperties DEF TypeOK
        <3>2. Hit \in [name : Names, labels : SUBSET AllLabels]
            BY <3>1, ElementOfSeq DEF TypeOK, Hit
        <3>3. Hit.name \in Names /\ Hit.labels \subseteq AllLabels
            BY <3>2
        <3>4. index[Hit.name] \in Images
            BY <2>1, <3>3 DEF TypeOK
        <3> QED
            BY <3>3, <3>4 DEF Results, Asked
    <2> HIDE DEF r
    <2>4. /\ found' \in Seq(Results) /\ Len(found') = Len(found) + 1
          /\ \A i \in 1 .. Len(found) : found'[i] = found[i]
          /\ found'[Len(found) + 1] = r
        BY <2>1, <2>3, AppendProperties DEF TypeOK
    <2>5. DOMAIN found' = 1 .. Len(found) + 1
        BY <2>4, LenProperties
    <2>6. \A k \in 1 .. Len(found) + 1 : k \in 1 .. Len(found) \/ k = Len(found) + 1
        BY <2>2
    <2> QED
        BY <2>1, <2>2, <2>4, <2>5, <2>6 DEF Detailed, Hit
<1>3. CASE Answer
    BY <1>3 DEF Answer, Detailed
<1>4. CASE PrintAll
    BY <1>4 DEF PrintAll, Detailed
<1>5. CASE PrintRow
    BY <1>5 DEF PrintRow, Detailed
<1>6. CASE Loop
    BY <1>6 DEF Loop, Detailed
<1>7. ASSUME NEW F \in Names, NEW i \in Images \cup {None}, Change(F, i)
      PROVE  Detailed'
    BY <1>7 DEF Change, Detailed, server
<1>8. CASE Fails
    BY <1>8 DEF Fails, Detailed
<1>9. CASE UNCHANGED vars
    BY <1>9 DEF vars, Detailed, server
<1> QED
    BY <1>1, <1>2, <1>3, <1>4, <1>5, <1>6, <1>7, <1>8, <1>9 DEF PageStep

\* Without new matches places only come nearer, and without matches that disappear
\* Unless matches change places, one that stays moves down only behind new ones, and up
\* only past those that disappeared.
LEMMA PlacesMove ==
    ASSUME TypeOK, NEW F \in Names, NEW i \in Images \cup {None}, Change(F, i)
    PROVE  /\ \A G \in Names : Place(G) \in Int /\ Place(G)' \in Int
           /\ ~reordered' => ~reordered
           /\ ~grown' => ~grown /\ Matches' \subseteq Matches
           /\ ~shrunk' => ~shrunk
           /\ ~grown' /\ ~reordered' => \A G \in Matches' : Place(G)' <= Place(G)
           /\ ~shrunk' /\ ~reordered' =>
                 \A G \in Matches \cap Matches' : Place(G) <= Place(G)'
<1>1. /\ index \in [Names -> Images \cup {None}] /\ rank \in Rankings /\ rank' \in Rankings
      /\ index' = [index EXCEPT ![F] = i]
      /\ grown' = (grown \/ (i \in Wanted /\ index[F] \notin Wanted))
      /\ shrunk' = (shrunk \/ (i \notin Wanted /\ index[F] \in Wanted))
      /\ reordered' = (reordered \/ ~SameOrder)
    BY DEF TypeOK, Change
<1>2. ~grown' => ~grown /\ Matches' \subseteq Matches
    BY <1>1 DEF Matches
<1>3. ~shrunk' => ~shrunk /\ Matches \subseteq Matches'
    BY <1>1 DEF Matches
<1>4. \A G \in Names : rank[G] \in Nat /\ rank'[G] \in Nat
    BY <1>1, RankingsAssumption DEF RankingsAssumption
<1> DEFINE B(G) == {H \in Matches : rank[H] <= rank[G]}
           A(G) == {H \in Matches' : rank'[H] <= rank'[G]}
<1>5. \A G : Place(G) = Cardinality(B(G)) /\ Place(G)' = Cardinality(A(G))
    BY DEF Place
<1>6. \A G : B(G) \subseteq Names /\ A(G) \subseteq Names
    BY DEF Matches
<1>7. Matches \subseteq Names /\ Matches' \subseteq Names
    BY DEF Matches
<1>8. \A G \in Names : Place(G) \in Int /\ Place(G)' \in Int
    <2> SUFFICES ASSUME NEW G \in Names
                 PROVE  Place(G) \in Int /\ Place(G)' \in Int
        OBVIOUS
    <2> HIDE DEF A, B
    <2>1. Cardinality(B(G)) \in Nat
        BY <1>1, <1>6, RanksCount
    <2>2. Cardinality(A(G)) \in Nat
        BY <1>1, <1>6, RanksCount
    <2> QED
        BY <1>5, <2>1, <2>2
<1>9. ASSUME ~grown', ~reordered', NEW G \in Matches'
      PROVE  Place(G)' <= Place(G)
    <2>1. SameOrder /\ G \in Matches
        BY <1>1, <1>2, <1>9
    <2>2. ASSUME NEW H \in A(G)
          PROVE  H \in B(G)
        <3>1. /\ H \in Matches /\ H \in Matches' /\ rank'[H] <= rank'[G]
              /\ H \in Names /\ G \in Names
            BY <1>2, <1>7, <1>9, <2>2
        <3>2. ~(rank[G] < rank[H])
            <4> SUFFICES ASSUME rank[G] < rank[H]
                         PROVE  FALSE
                OBVIOUS
            <4>1. rank'[G] < rank'[H]
                BY <1>9, <2>1, <3>1 DEF SameOrder
            <4> QED
                BY <1>4, <3>1, <4>1
        <3>3. rank[H] <= rank[G]
            BY <1>4, <3>1, <3>2
        <3> QED
            BY <3>1, <3>3
    <2>3. A(G) \in SUBSET B(G)
        BY <2>2
    <2> HIDE DEF A, B
    <2>4. IsFiniteSet(B(G))
        BY <1>1, <1>6, RanksCount
    <2> QED
        BY <1>5, <2>3, <2>4, FS_Subset
<1>10. ASSUME ~shrunk', ~reordered', NEW G \in Matches \cap Matches'
       PROVE  Place(G) <= Place(G)'
    <2>1. SameOrder
        BY <1>1, <1>10
    <2>2. ASSUME NEW H \in B(G)
          PROVE  H \in A(G)
        <3>1. /\ H \in Matches /\ H \in Matches' /\ rank[H] <= rank[G]
              /\ H \in Names /\ G \in Names
            BY <1>3, <1>7, <1>10, <2>2
        <3>2. H = G \/ rank[H] < rank[G]
            <4>1. rank[H] = rank[G] => H = G
                BY <1>1, <3>1, RankingsAssumption DEF RankingsAssumption
            <4> QED
                BY <1>4, <3>1, <4>1
        <3>3. rank'[H] <= rank'[G]
            <4>1. rank[H] < rank[G] => rank'[H] < rank'[G]
                BY <1>10, <2>1, <3>1 DEF SameOrder
            <4> QED
                BY <1>4, <3>1, <3>2, <4>1
        <3> QED
            BY <3>1, <3>3
    <2>3. B(G) \in SUBSET A(G)
        BY <2>2
    <2> HIDE DEF A, B
    <2>4. IsFiniteSet(A(G))
        BY <1>1, <1>6, RanksCount
    <2> QED
        BY <1>5, <2>3, <2>4, FS_Subset
<1> QED
    BY <1>1, <1>2, <1>3, <1>8, <1>9, <1>10

\* The names of the hits are those of the page.
LEMMA QueryNames ==
    ASSUME TypeOK, Query
    PROVE  /\ DOMAIN hits' = 1 .. Len(hits') /\ Len(hits') \in Nat /\ fetched \in Nat
           /\ \A k \in 1 .. Len(hits') :
                 /\ hits'[k].name \in Matches /\ hits'[k].name = Matching[fetched + k]
                 /\ fetched + k \in 1 .. Len(Matching)
                 /\ Place(hits'[k].name) = fetched + k
           /\ \A n \in 1 .. Len(Matching) :
                 n > fetched /\ (n <= fetched + Len(hits') \/ total' <= fetched + Len(hits')) =>
                    n - fetched \in 1 .. Len(hits') /\ hits'[n - fetched].name = Matching[n]
<1>1. fetched \in Nat /\ options \in Options /\ rank \in Rankings
    BY LenProperties DEF TypeOK
<1>2. /\ Page \in Seq(Names) /\ Len(Page) \in Nat /\ DOMAIN Page = 1 .. Len(Page)
    BY <1>1, PageProperties, LenProperties
<1>3. /\ DOMAIN hits' = 1 .. Len(Page)
      /\ \A k \in 1 .. Len(Page) : hits'[k].name = Page[k]
      /\ total' = Len(Matching)
    BY <1>2 DEF Query
<1>4. Len(hits') = Len(Page)
    BY <1>2, <1>3, LenProperties DEF Query
<1>5. ASSUME NEW k \in 1 .. Len(Page)
      PROVE  /\ hits'[k].name \in Matches /\ hits'[k].name = Matching[fetched + k]
             /\ fetched + k \in 1 .. Len(Matching)
             /\ Place(hits'[k].name) = fetched + k
    <2>1. Page[k] = Matching[fetched + k] /\ fetched + k \in 1 .. Len(Matching)
        BY <1>1, PageProperties
    <2>2. Page[k] \in Matches /\ Place(Matching[fetched + k]) = fetched + k
        BY <1>1, <2>1, MatchingProperties
    <2> QED
        BY <1>3, <2>1, <2>2
<1>6. ASSUME NEW n \in 1 .. Len(Matching), n > fetched,
             n <= fetched + Len(hits') \/ total' <= fetched + Len(hits')
      PROVE  n - fetched \in 1 .. Len(hits') /\ hits'[n - fetched].name = Matching[n]
    <2>1. Len(Matching) \in Nat
        BY <1>1, MatchingProperties
    <2>2. n - fetched \in 1 .. Len(Page) /\ fetched + (n - fetched) = n
        BY <1>1, <1>2, <1>3, <1>4, <1>6, <2>1
    <2> QED
        BY <1>4, <1>5, <2>2
<1> QED
    BY <1>1, <1>2, <1>3, <1>4, <1>5, <1>6

\* Each row was there before, or is a hit of the page.
LEMMA AnswerNames ==
    ASSUME TypeOK, Detailed, Answer
    PROVE  /\ DOMAIN rows' = 1 .. Len(rows) + Len(hits) /\ DOMAIN rows = 1 .. Len(rows)
           /\ DOMAIN hits = 1 .. Len(hits)
           /\ Len(rows) \in Nat /\ Len(hits) \in Nat /\ fetched' = Len(rows) + Len(hits)
           /\ \A k \in 1 .. Len(rows) : rows'[k].name = rows[k].name
           /\ \A k \in 1 .. Len(rows) + Len(hits) : k > Len(rows) =>
                 k - Len(rows) \in 1 .. Len(hits) /\ rows'[k].name = hits[k - Len(rows)].name
           /\ \A k \in 1 .. Len(hits) : rows'[Len(rows) + k].name = hits[k].name
<1>1. /\ rows \in Seq(Results) /\ found \in Seq(Results) /\ rows' = rows \o found
      /\ Len(found) = Len(hits) /\ DOMAIN hits = 1 .. Len(hits)
      /\ fetched' = Len(rows) + Len(found)
    BY LenProperties DEF TypeOK, Answer
<1>2. /\ Len(rows) \in Nat /\ Len(found) \in Nat
      /\ DOMAIN rows' = 1 .. Len(rows) + Len(found)
      /\ \A k \in 1 .. Len(rows) : rows'[k] = rows[k]
      /\ \A k \in 1 .. Len(rows) + Len(found) : k > Len(rows) =>
            k - Len(rows) \in 1 .. Len(found) /\ rows'[k] = found[k - Len(rows)]
    BY <1>1, Joined
<1>3. DOMAIN rows = 1 .. Len(rows) /\ DOMAIN found = 1 .. Len(found)
    BY <1>1, LenProperties
<1>4. \A k \in 1 .. Len(found) : found[k].name = hits[k].name
    BY <1>3 DEF Detailed, Answer
<1>5. \A k \in 1 .. Len(hits) :
          Len(rows) + k \in 1 .. Len(rows) + Len(found) /\ (Len(rows) + k) - Len(rows) = k
              /\ Len(rows) + k > Len(rows)
    BY <1>1, <1>2
<1>6. \A k \in 1 .. Len(hits) : rows'[Len(rows) + k].name = hits[k].name
    BY <1>1, <1>2, <1>4, <1>5
<1> QED
    BY <1>1, <1>2, <1>3, <1>4, <1>6

LEMMA NamesType ==
    ASSUME TypeOK
    PROVE  /\ \A k \in DOMAIN rows : k \in Nat /\ rows[k].name \in Names
           /\ \A k \in DOMAIN hits : k \in Nat /\ hits[k].name \in Names
<1>1. /\ DOMAIN rows = 1 .. Len(rows) /\ DOMAIN hits = 1 .. Len(hits)
    BY LenProperties DEF TypeOK
<1>2. /\ \A k \in 1 .. Len(rows) : rows[k] \in Results
      /\ \A k \in 1 .. Len(hits) : hits[k] \in [name : Names, labels : SUBSET AllLabels]
    BY ElementOfSeq DEF TypeOK
<1> QED
    BY <1>1, <1>2 DEF Results

LEMMA DistinctStep ==
    ASSUME TypeOK, Detailed, Distinct, PageStep
    PROVE  Distinct'
<1>0. UNCHANGED <<index, rank>> =>
         Matches' = Matches /\ \A F : Place(F)' = Place(F)
    BY DEF Place, Matches
<1>1. CASE Query
    <2>1. UNCHANGED <<index, rank, fetched, rows, grown, reordered>>
        BY <1>1 DEF Query, printer, history
    <2>2. /\ DOMAIN hits' = 1 .. Len(hits') /\ Len(hits') \in Nat /\ fetched \in Nat
          /\ \A k \in 1 .. Len(hits') :
                /\ hits'[k].name \in Matches
                /\ Place(hits'[k].name) = fetched + k
        BY <1>1, QueryNames
    <2>3. ASSUME NEW k \in DOMAIN hits', NEW l \in DOMAIN hits', hits'[k].name = hits'[l].name
          PROVE  k = l
        <3>1. fetched + k = fetched + l /\ k \in Nat /\ l \in Nat
            BY <2>2, <2>3
        <3> QED
            BY <2>2, <3>1
    <2>4. ASSUME ~grown, ~reordered, NEW l \in DOMAIN hits', NEW k \in DOMAIN rows
          PROVE  rows[k].name # hits'[l].name
        <3>1. k \in 1 .. fetched
            BY LenProperties DEF TypeOK
        <3>2. rows[k].name \in Matches => Place(rows[k].name) <= k
            BY <2>4 DEF Distinct
        <3>3. hits'[l].name \in Matches /\ Place(hits'[l].name) = fetched + l /\ l \in 1 .. Len(hits')
            BY <2>2
        <3>4. ~(fetched + l <= k)
            BY <2>2, <3>1, <3>3
        <3> QED
            BY <3>2, <3>3, <3>4
    <2>5. \A l \in DOMAIN hits' : Place(hits'[l].name) <= fetched + l
        BY <2>2
    <2> QED
        BY <1>0, <2>1, <2>3, <2>4, <2>5 DEF Distinct
<1>2. CASE Details
    <2>1. UNCHANGED <<index, rank, pc, fetched, hits, rows, grown, reordered>>
        BY <1>2 DEF Details, printer, history
    <2> QED
        BY <1>0, <2>1 DEF Distinct
<1>3. CASE Answer
    <2>1. /\ pc = "details" /\ pc' = "append" /\ UNCHANGED <<index, rank, grown, reordered>>
          /\ fetched = Len(rows)
        BY <1>3 DEF Answer, history, TypeOK
    <2>2. /\ DOMAIN rows' = 1 .. Len(rows) + Len(hits) /\ DOMAIN rows = 1 .. Len(rows)
          /\ DOMAIN hits = 1 .. Len(hits)
          /\ Len(rows) \in Nat /\ Len(hits) \in Nat
          /\ \A k \in 1 .. Len(rows) : rows'[k].name = rows[k].name
          /\ \A k \in 1 .. Len(rows) + Len(hits) : k > Len(rows) =>
                k - Len(rows) \in 1 .. Len(hits) /\ rows'[k].name = hits[k - Len(rows)].name
        BY <1>3, AnswerNames
    <2>3. ASSUME ~grown, ~reordered
          PROVE  /\ \A k \in DOMAIN rows : rows[k].name \in Matches => Place(rows[k].name) <= k
                 /\ \A k, l \in DOMAIN rows : rows[k].name = rows[l].name => k = l
                 /\ \A k, l \in DOMAIN hits : hits[k].name = hits[l].name => k = l
                 /\ \A l \in DOMAIN hits :
                       /\ hits[l].name \in Matches => Place(hits[l].name) <= fetched + l
                       /\ \A k \in DOMAIN rows : rows[k].name # hits[l].name
        BY <2>1, <2>3 DEF Distinct
    <2>4. ASSUME ~grown, ~reordered, NEW k \in DOMAIN rows', rows'[k].name \in Matches
          PROVE  Place(rows'[k].name) <= k
        <3>1. CASE k <= Len(rows)
            <4>1. k \in DOMAIN rows /\ rows'[k].name = rows[k].name
                BY <2>2, <3>1
            <4> QED
                BY <2>3, <2>4, <4>1
        <3>2. CASE k > Len(rows)
            <4>1. k - Len(rows) \in DOMAIN hits /\ rows'[k].name = hits[k - Len(rows)].name
                BY <2>2, <3>2
            <4>2. Place(hits[k - Len(rows)].name) <= fetched + (k - Len(rows))
                BY <2>3, <2>4, <4>1
            <4>3. fetched + (k - Len(rows)) = k
                BY <2>1, <2>2
            <4> QED
                BY <4>1, <4>2, <4>3
        <3> QED
            BY <2>2, <3>1, <3>2
    <2>5. ASSUME ~grown, ~reordered, NEW k \in DOMAIN rows', NEW l \in DOMAIN rows',
                 rows'[k].name = rows'[l].name
          PROVE  k = l
        <3>0. k \in Int /\ l \in Int
            BY <2>2
        <3>1. CASE k <= Len(rows) /\ l <= Len(rows)
            BY <2>2, <2>3, <2>5, <3>1
        <3>2. CASE k <= Len(rows) /\ l > Len(rows)
            BY <2>2, <2>3, <2>5, <3>2
        <3>3. CASE k > Len(rows) /\ l <= Len(rows)
            BY <2>2, <2>3, <2>5, <3>3
        <3>4. CASE k > Len(rows) /\ l > Len(rows)
            <4>1. k - Len(rows) \in DOMAIN hits /\ l - Len(rows) \in DOMAIN hits
                BY <2>2, <3>4
            <4>2. hits[k - Len(rows)].name = hits[l - Len(rows)].name
                BY <2>2, <2>5, <3>4
            <4>3. k - Len(rows) = l - Len(rows)
                BY <2>3, <2>5, <4>1, <4>2
            <4> QED
                BY <2>2, <3>0, <4>3
        <3> QED
            BY <2>2, <3>0, <3>1, <3>2, <3>3, <3>4
    <2> QED
        BY <1>0, <2>1, <2>4, <2>5 DEF Distinct
<1>4. CASE PrintAll
    <2>1. pc' # "details" /\ UNCHANGED <<index, rank, fetched, hits, rows, grown, reordered>>
        BY <1>4 DEF PrintAll, server, history
    <2> QED
        BY <1>0, <2>1 DEF Distinct
<1>5. CASE PrintRow
    <2>1. UNCHANGED <<index, rank, pc, fetched, hits, rows, grown, reordered>>
        BY <1>5 DEF PrintRow, server, history
    <2> QED
        BY <1>0, <2>1 DEF Distinct
<1>6. CASE Loop
    <2>1. pc' # "details" /\ UNCHANGED <<index, rank, fetched, hits, rows, grown, reordered>>
        BY <1>6 DEF Loop, server, history
    <2> QED
        BY <1>0, <2>1 DEF Distinct
<1>7. ASSUME NEW F \in Names, NEW i \in Images \cup {None}, Change(F, i)
      PROVE  Distinct'
    <2>1. UNCHANGED <<pc, fetched, hits, rows>>
        BY <1>7 DEF Change, server, printer
    <2>2. CASE grown' \/ reordered'
        BY <2>1, <2>2 DEF Distinct
    <2>3. CASE ~grown' /\ ~reordered'
        <3>1. /\ ~grown /\ ~reordered /\ Matches' \subseteq Matches
              /\ \A G \in Names : Place(G) \in Int /\ Place(G)' \in Int
              /\ \A G \in Matches' : Place(G)' <= Place(G)
            BY <1>7, <2>3, PlacesMove
        <3>2. ASSUME NEW k \in DOMAIN rows, rows[k].name \in Matches'
              PROVE  Place(rows[k].name)' <= k
            <4>1. Place(rows[k].name) <= k
                BY <3>1, <3>2 DEF Distinct
            <4>2. rows[k].name \in Names /\ k \in Nat /\ rows' = rows
                BY <2>1, NamesType
            <4>3. Place(rows[k].name)' <= Place(rows[k].name)
                BY <3>1, <3>2, <4>2
            <4> QED
                BY <3>1, <4>1, <4>2, <4>3
        <3>3. ASSUME pc = "details", NEW l \in DOMAIN hits, hits[l].name \in Matches'
              PROVE  Place(hits[l].name)' <= fetched + l
            <4>1. Place(hits[l].name) <= fetched + l
                BY <3>1, <3>3 DEF Distinct
            <4>2. hits[l].name \in Names /\ fetched + l \in Int /\ hits' = hits
                <5>1. fetched \in Nat
                    BY LenProperties DEF TypeOK
                <5> QED
                    BY <2>1, <5>1, NamesType
            <4>3. Place(hits[l].name)' <= Place(hits[l].name)
                BY <3>1, <3>3, <4>2
            <4> QED
                BY <3>1, <4>1, <4>2, <4>3
        <3> QED
            BY <2>1, <2>3, <3>1, <3>2, <3>3 DEF Distinct
    <2> QED
        BY <2>2, <2>3
<1>8. CASE Fails
    <2>1. pc' # "details" /\ UNCHANGED <<index, rank, fetched, hits, rows, grown, reordered>>
        BY <1>8 DEF Fails, server, printer, history
    <2> QED
        BY <1>0, <2>1 DEF Distinct
<1>9. CASE UNCHANGED vars
    <2>1. UNCHANGED <<index, rank, pc, fetched, hits, rows, grown, reordered>>
        BY <1>9 DEF vars, server, printer, history
    <2> QED
        BY <1>0, <2>1 DEF Distinct
<1> QED
    BY <1>1, <1>2, <1>3, <1>4, <1>5, <1>6, <1>7, <1>8, <1>9 DEF PageStep

LEMMA CoveredStep ==
    ASSUME TypeOK, Detailed, Covered, PageStep
    PROVE  Covered'
<1>0. UNCHANGED <<index, rank, rank>> =>
         Matches' = Matches /\ \A F : Place(F)' = Place(F)
    BY DEF Place, Matches
<1>n. kept \subseteq Names /\ fetched = Len(rows) /\ total \in Nat /\ rank \in Rankings
    BY DEF TypeOK
<1>1. CASE Query
    <2>1. /\ UNCHANGED <<index, rank, fetched, rows, shrunk, reordered, kept>> /\ pc' = "details"
        BY <1>1 DEF Query, printer, history
    <2>2. /\ DOMAIN hits' = 1 .. Len(hits') /\ Len(hits') \in Nat /\ fetched \in Nat
          /\ \A n \in 1 .. Len(Matching) :
                n > fetched /\ (n <= fetched + Len(hits') \/ total' <= fetched + Len(hits')) =>
                   n - fetched \in 1 .. Len(hits') /\ hits'[n - fetched].name = Matching[n]
        BY <1>1, QueryNames
    <2>3. ASSUME ~shrunk, ~reordered, NEW F \in kept,
                 Place(F) <= fetched + Len(hits') \/ total' <= fetched + Len(hits')
          PROVE  Listed(F, rows) \/ Listed(F, hits')
        <3>1. F \in Names /\ F \in Matches
            BY <1>n, <2>3 DEF Covered
        <3>2. Place(F) \in 1 .. Len(Matching) /\ Matching[Place(F)] = F
            BY <1>n, <3>1, MatchingProperties
        <3>3. CASE Place(F) <= fetched
            BY <2>3, <3>3 DEF Covered
        <3>4. CASE Place(F) > fetched
            <4>1. /\ Place(F) - fetched \in DOMAIN hits'
                  /\ hits'[Place(F) - fetched].name = F
                BY <2>2, <2>3, <3>2, <3>4
            <4> QED
                BY <4>1 DEF Listed
        <3>5. Place(F) \in Int
            BY <1>n, <3>1, MatchingProperties
        <3> QED
            BY <2>2, <3>3, <3>4, <3>5
    <2> QED
        BY <1>0, <2>1, <2>3 DEF Covered
<1>2. CASE Details
    <2>1. UNCHANGED <<index, rank, pc, total, fetched, hits, rows, shrunk, reordered, kept>>
        BY <1>2 DEF Details, printer, history
    <2> QED
        BY <1>0, <2>1 DEF Covered
<1>3. CASE Answer
    <2>1. /\ pc = "details" /\ pc' = "append" /\ UNCHANGED <<index, rank, total, shrunk, reordered, kept>>
        BY <1>3 DEF Answer, history
    <2>2. /\ DOMAIN rows' = 1 .. Len(rows) + Len(hits) /\ DOMAIN rows = 1 .. Len(rows)
          /\ DOMAIN hits = 1 .. Len(hits)
          /\ Len(rows) \in Nat /\ Len(hits) \in Nat /\ fetched' = Len(rows) + Len(hits)
          /\ \A k \in 1 .. Len(rows) : rows'[k].name = rows[k].name
          /\ \A k \in 1 .. Len(hits) : rows'[Len(rows) + k].name = hits[k].name
        BY <1>3, AnswerNames
    <2>3. ASSUME NEW F, Listed(F, rows) \/ Listed(F, hits)
          PROVE  Listed(F, rows')
        <3>1. CASE Listed(F, rows)
            <4>1. PICK k \in DOMAIN rows : rows[k].name = F
                BY <3>1 DEF Listed
            <4>2. k \in DOMAIN rows' /\ rows'[k].name = F
                BY <2>2, <4>1
            <4> QED
                BY <4>2 DEF Listed
        <3>2. CASE Listed(F, hits)
            <4>1. PICK k \in DOMAIN hits : hits[k].name = F
                BY <3>2 DEF Listed
            <4>2. Len(rows) + k \in DOMAIN rows' /\ rows'[Len(rows) + k].name = F
                BY <2>2, <4>1
            <4> QED
                BY <4>2 DEF Listed
        <3> QED
            BY <2>3, <3>1, <3>2
    <2>4. ASSUME ~shrunk, ~reordered, NEW F \in kept, Place(F) <= fetched' \/ total <= fetched'
          PROVE  Listed(F, rows')
        <3>1. Place(F) <= fetched + Len(hits) \/ total <= fetched + Len(hits)
            BY <1>n, <2>2, <2>4
        <3>2. Listed(F, rows) \/ Listed(F, hits)
            BY <2>1, <2>4, <3>1 DEF Covered
        <3> QED
            BY <2>3, <3>2
    <2> QED
        BY <1>0, <2>1, <2>4 DEF Covered
<1>4. CASE PrintAll
    <2>1. /\ pc = "append" /\ pc' = "print"
          /\ UNCHANGED <<index, rank, total, fetched, hits, rows, shrunk, reordered, kept>>
        BY <1>4 DEF PrintAll, server, history
    <2> QED
        BY <1>0, <2>1 DEF Covered
<1>5. CASE PrintRow
    <2>1. UNCHANGED <<index, rank, pc, total, fetched, hits, rows, shrunk, reordered, kept>>
        BY <1>5 DEF PrintRow, server, history
    <2> QED
        BY <1>0, <2>1 DEF Covered
<1>6. CASE Loop
    <2>1. /\ pc = "print" /\ pc' \in {"search", "over"}
          /\ UNCHANGED <<index, rank, total, fetched, hits, rows, shrunk, reordered, kept>>
        BY <1>6 DEF Loop, server, history
    <2> QED
        BY <1>0, <2>1 DEF Covered
<1>7. ASSUME NEW F \in Names, NEW i \in Images \cup {None}, Change(F, i)
      PROVE  Covered'
    <2>1. /\ UNCHANGED <<pc, total, fetched, hits, rows>>
          /\ index' = [index EXCEPT ![F] = i]
          /\ kept' = IF i \in Wanted THEN kept ELSE kept \ {F}
        BY <1>7 DEF Change, server, printer
    <2>2. kept' \subseteq Matches'
        <3>1. index \in [Names -> Images \cup {None}]
            BY DEF TypeOK
        <3> QED
            BY <1>n, <2>1, <3>1 DEF Covered, Matches
    <2>3. CASE shrunk' \/ reordered'
        BY <2>2, <2>3 DEF Covered
    <2>4. CASE ~shrunk' /\ ~reordered'
        <3>1. /\ ~shrunk /\ ~reordered
              /\ \A G \in Names : Place(G) \in Int /\ Place(G)' \in Int
              /\ \A G \in Matches \cap Matches' : Place(G) <= Place(G)'
            BY <1>7, <2>4, PlacesMove
        <3>2. kept' \subseteq kept /\ kept' \subseteq Matches \cap Matches'
            BY <2>1, <2>2 DEF Covered
        <3>3. ASSUME NEW G \in kept', NEW n \in Int, Place(G)' <= n
              PROVE  Place(G) <= n
            BY <1>n, <3>1, <3>2, <3>3
        <3>4. fetched \in Int /\ fetched + Len(hits) \in Int
            BY <1>n, LenProperties DEF TypeOK
        <3>5. \A G \in kept' : Place(G)' <= fetched => Listed(G, rows)
            BY <3>1, <3>2, <3>3, <3>4 DEF Covered
        <3>6. ASSUME NEW G \in kept', pc = "details",
                     Place(G)' <= fetched + Len(hits) \/ total <= fetched + Len(hits)
              PROVE  Listed(G, rows) \/ Listed(G, hits)
            BY <3>1, <3>2, <3>3, <3>4, <3>6 DEF Covered
        <3>7. \A G \in kept' : pc \in {"append", "print", "over"} /\ total <= fetched => Listed(G, rows)
            BY <3>1, <3>2 DEF Covered
        <3> QED
            BY <2>1, <2>2, <3>5, <3>6, <3>7 DEF Covered
    <2> QED
        BY <2>3, <2>4
<1>8. CASE Fails
    <2>1. pc' = "failed" /\ UNCHANGED <<index, rank, total, fetched, hits, rows, shrunk, reordered, kept>>
        BY <1>8 DEF Fails, server, printer, history
    <2> QED
        BY <1>0, <2>1 DEF Covered
<1>9. CASE UNCHANGED vars
    <2>1. UNCHANGED <<index, rank, pc, total, fetched, hits, rows, shrunk, reordered, kept>>
        BY <1>9 DEF vars, server, printer, history
    <2> QED
        BY <1>0, <2>1 DEF Covered
<1> QED
    BY <1>1, <1>2, <1>3, <1>4, <1>5, <1>6, <1>7, <1>8, <1>9 DEF PageStep

------------------------------------------------------------------------------
(* The theorems                                                             *)

LEMMA InitSearch == Init => SearchInv
<1> SUFFICES ASSUME Init
             PROVE  SearchInv
    OBVIOUS
<1>1. /\ hits = <<>> /\ found = <<>> /\ rows = <<>> /\ table = <<>> /\ widths = <<>>
      /\ output = <<>> /\ position = 0 /\ fetched = 0 /\ total = 0 /\ pc = "search"
      /\ options \in Options /\ index \in [Names -> Images \cup {None}]
      /\ kept = Matches /\ changes = 0 /\ grown = FALSE /\ shrunk = FALSE
      /\ reordered = FALSE /\ replaced = {} /\ rank \in Rankings
    BY DEF Init
<1>2. /\ Len(hits) = 0 /\ Len(found) = 0 /\ Len(rows) = 0 /\ Len(table) = 0
      /\ Len(widths) = 0 /\ Len(output) = 0
      /\ DOMAIN hits = {} /\ DOMAIN found = {} /\ DOMAIN rows = {} /\ DOMAIN table = {}
      /\ DOMAIN output = {}
    BY <1>1
<1>4. kept \subseteq Names /\ \A F \in kept : F \in Names
    BY <1>1 DEF Matches
<1>5. TypeOK
    <2>1. total \in Nat
        BY <1>1
    <2>2. changes \in 0 .. MaxChanges
        BY <1>1, SizeAssumption DEF SizeAssumption
    <2>3. position \in 0 .. Len(table) /\ Len(found) <= Len(hits) /\ fetched = Len(rows)
        BY <1>1, <1>2
    <2>4. /\ hits \in Seq([name : Names, labels : SUBSET AllLabels])
          /\ found \in Seq(Results) /\ rows \in Seq(Results)
          /\ table \in Seq(Seq(Nat)) /\ output \in Seq(Seq(Nat)) /\ widths \in Seq(Int)
        BY <1>1, EmptySeq
    <2> QED
        BY <1>1, <1>2, <1>4, <2>1, <2>2, <2>3, <2>4 DEF TypeOK
<1>6. Printing
    BY <1>1, <1>2 DEF Printing, Tabular, Paging, Alternates, Ends, Aligned
<1>7. Labelled /\ Detailed /\ Distinct
    BY <1>1, <1>2 DEF Labelled, Pending, Detailed, Distinct
<1>8. Covered
    <2>1. \A F \in kept : ~(Place(F) <= fetched)
        <3>1. \A F \in kept : Place(F) \in 1 .. Len(Matching)
            BY <1>1, MatchingProperties
        <3>2. \A F \in kept : Place(F) \in Int /\ Place(F) >= 1
            BY <1>1, <3>1, MatchingProperties
        <3> QED
            BY <1>1, <3>2
    <2> QED
        BY <1>1, <1>4, <2>1 DEF Covered
<1> QED
    BY <1>5, <1>6, <1>7, <1>8 DEF SearchInv

LEMMA SearchStepInv == SearchInv /\ [SessionNext]_sessionVars => SearchInv'
<1> SUFFICES ASSUME SearchInv, [SessionNext]_sessionVars
             PROVE  SearchInv'
    OBVIOUS
<1>1. PageStep
    BY StepCases
<1>2. /\ TypeOK /\ Tabular /\ Paging /\ Alternates /\ Ends /\ Aligned
      /\ Labelled /\ Detailed /\ Distinct /\ Covered
    BY DEF SearchInv, Printing
<1>3. TypeOK' /\ Tabular' /\ Paging' /\ Alternates' /\ Ends' /\ Aligned'
    BY <1>1, <1>2, TypeStep, TabularStep, PagingStep, OutputStep, AlignedStep
<1>4. Labelled' /\ Detailed' /\ Distinct' /\ Covered'
    BY <1>1, <1>2, LabelledStep, DetailedStep, DistinctStep, CoveredStep
<1> QED
    BY <1>3, <1>4 DEF SearchInv, Printing

LEMMA Invariance == SessionSpec => []SearchInv
<1>1. SessionInit => SearchInv
    BY InitSearch DEF SessionInit
<1> QED
    BY <1>1, SearchStepInv, PTL DEF SessionSpec

\* The loop of runSearch skips nothing: when it ends, each name that matched since the
\* first query has been printed, unless some match disappeared meanwhile or the scores
\* moved two matches past each other, for any orders bleve may rank documents in.
THEOREM SearchMissesNothing == SessionSpec => []NothingMissed
<1>1. SearchInv => NothingMissed
    <2> SUFFICES ASSUME SearchInv, pc = "over", ~shrunk, ~reordered
                 PROVE  kept \subseteq Shown
        BY DEF NothingMissed
    <2>1. position = Len(table) /\ total <= fetched
        BY DEF SearchInv, Printing, Paging
    <2>2. /\ DOMAIN rows = 1 .. Len(rows) /\ Len(rows) \in Nat /\ Len(table) \in Nat
        BY LenProperties DEF SearchInv, TypeOK
    <2>3. position - (Len(table) - Len(rows)) = Len(rows)
        BY <2>1, <2>2
    <2>4. \A F \in kept : Listed(F, rows)
        BY <2>1 DEF SearchInv, Covered
    <2> QED
        BY <2>2, <2>3, <2>4 DEF Shown, Listed
<1> QED
    BY <1>1, Invariance, PTL

\* Nor does it repeat anything: the pages it appends share no name unless some name
\* began to match meanwhile or the scores moved two matches past each other.
THEOREM SearchRepeatsNothing == SessionSpec => []NothingTwice
<1>1. SearchInv => NothingTwice
    <2> SUFFICES ASSUME SearchInv, ~grown, ~reordered
                 PROVE  \A k, l \in DOMAIN rows : rows[k].name = rows[l].name => k = l
        BY DEF NothingTwice
    <2> QED
        BY DEF SearchInv, Distinct
<1> QED
    BY <1>1, Invariance, PTL

\* SearchImages and searchDetails show all labels of an image, and those of no other:
\* only a row whose document changed between its own two queries lacks some, however
\* often the document changed before.
THEOREM SearchShowsAllLabels == SessionSpec => []AllLabelsShown
<1>1. SearchInv => AllLabelsShown
    BY DEF SearchInv, Labelled, Complete, AllLabelsShown
<1> QED
    BY <1>1, Invariance, PTL

\* PrintAll puts each row on a line of its own and aligns its columns with those of
\* the first line, on the pages printed after a key was pressed too.
THEOREM SearchAlignsLines == SessionSpec => []LinesAlign
<1>1. SearchInv => LinesAlign
    <2> SUFFICES ASSUME SearchInv, NEW k \in DOMAIN output
                 PROVE  /\ output[k] = EndOfLine <=> k % 2 = 0
                        /\ output[k] # EndOfLine /\ ~options.template =>
                              output[k] = output[1]
        BY DEF LinesAlign
    <2>1. Alternates /\ Aligned /\ TypeOK
        BY DEF SearchInv, Printing
    <2>2. 1 \in DOMAIN output
        <3>1. DOMAIN output = 1 .. Len(output) /\ Len(output) \in Nat
            BY <2>1, LenProperties DEF TypeOK
        <3> QED
            BY <3>1
    <2>3. output[1] # EndOfLine
        BY <2>1, <2>2 DEF Alternates
    <2> QED
        BY <2>1, <2>2, <2>3 DEF Alternates, Aligned
<1> QED
    BY <1>1, Invariance, PTL

\* computeWidths shares out what the separators leave: whatever the lengths of the
\* cells, no line is longer than --width, or the command died before it.
THEOREM SearchFitsWidth == SessionSpec => []FitsWidth
<1>1. SearchInv => FitsWidth
    <2> SUFFICES ASSUME SearchInv, NEW k \in DOMAIN output, ~options.template,
                        output[k] # EndOfLine
                 PROVE  TotalLength(output[k]) + Len(output[k]) - 1 <= options.width
        BY DEF FitsWidth
    <2>1. Aligned /\ TypeOK /\ Tabular
        BY DEF SearchInv, Printing
    <2>2. position > 0
        BY <2>1 DEF Aligned
    <2>3. /\ output[k] = widths /\ widths # <<>>
          /\ TotalLength(widths) <= Room(options.width, 6)
        BY <2>1, <2>2 DEF Aligned, Tabular
    <2>4. widths \in Seq(Int) /\ Len(widths) = 6 /\ options.width \in Int
        <3>1. Len(Header) = 6
            BY CellsAssumption DEF CellsAssumption
        <3>2. widths \in Seq(Int) /\ Len(widths) \in {0, 6}
            BY <2>1, <3>1 DEF TypeOK
        <3>3. options.width \in Int
            BY <2>1, SizeAssumption DEF TypeOK, SizeAssumption
        <3> QED
            BY <2>3, <3>2, <3>3, EmptySeq
    <2>5. TotalLength(widths) \in Int
        <3>1. PICK p : PartialSums(p, widths) /\ TotalLength(widths) = p[Len(widths)]
            BY <2>4, TotalLengthUnfolds
        <3> QED
            BY <2>4, <3>1 DEF PartialSums
    <2> QED
        BY <2>3, <2>4, <2>5 DEF Room
<1> QED
    BY <1>1, Invariance, PTL

------------------------------------------------------------------------------
(* The login                                                                *)

\* Once the login is done, the registry accepted what dim forwards, and it still
\* sends the same.
LoggedIn ==
    /\ options \in Options /\ login \in {"connect", "prompt", "done"}
    /\ credentials \in Credentials \cup {NoCredentials}
    /\ login = "done" => Forwarded \in Site[options].accepted
    /\ login # "done" => pc \in {"search", "failed"} /\ rows = <<>>

LEMMA LoginInvariance == SessionSpec => []LoggedIn
<1>1. SessionInit => LoggedIn
    BY DEF SessionInit, Init, LoggedIn
<1>2. LoggedIn /\ [SessionNext]_sessionVars => LoggedIn'
    <2> SUFFICES ASSUME LoggedIn, [SessionNext]_sessionVars
                 PROVE  LoggedIn'
        OBVIOUS
    <2>1. UNCHANGED <<options, pc, rows, login, credentials>> => LoggedIn'
        BY DEF LoggedIn, Forwarded
    <2>2. CASE Accept
        BY <2>2 DEF Accept, Accepted, LoggedIn, Forwarded, vars, printer
    <2>3. CASE Reject
        BY <2>3 DEF Reject, LoggedIn, Forwarded, vars, printer
    <2>4. CASE Prompt
        BY <2>4 DEF Prompt, LoggedIn, Forwarded, vars, printer
    <2>5. CASE ConnectFails
        BY <2>5 DEF ConnectFails, LoggedIn, Forwarded, session, printer
    <2>6. CASE Refuse
        BY <2>6 DEF Refuse, LoggedIn, Forwarded, session, printer
    <2>7. ASSUME login = "done", UNCHANGED <<options, session>>
          PROVE  LoggedIn'
        BY <2>7 DEF LoggedIn, Forwarded, session
    <2>8. CASE PagesStep
        <3>1. UNCHANGED options
            BY <2>8 DEF PagesStep, SearchStep, Query, Details, DetailsPanic, Answer, PrintAll,
                        PrintRow, PrintPanics, Loop
        <3> QED
            BY <2>7, <2>8, <3>1 DEF PagesStep
    <2>9. CASE Outside
        <3>1. UNCHANGED options
            BY <2>9 DEF Outside, Disturbance, QueryFails, TemplateFails, Change
        <3> QED
            BY <2>7, <2>9, <3>1 DEF Outside
    <2>10. CASE UNCHANGED sessionVars
        BY <2>1, <2>10 DEF sessionVars, session, vars, printer
    <2> QED
        BY <2>2, <2>3, <2>4, <2>5, <2>6, <2>8, <2>9, <2>10 DEF SessionNext, LoginStep
<1> QED
    BY <1>1, <1>2, PTL DEF SessionSpec

\* What runSearch, the printer and the server hold is of its type, however the index
\* changes between the requests: the offset of the next one is the number of results
\* received (opts.Offset of cmd/search.go), and nothing is asked before tryNew is done.
THEOREM SessionTypeCorrect == SessionSpec => []SessionTypeOK
<1>1. SearchInv /\ LoggedIn => SessionTypeOK
    BY DEF SearchInv, LoggedIn, SessionTypeOK
<1> QED
    BY <1>1, Invariance, LoginInvariance, PTL

\* securityFilter, Forwards and tryNew together: a page of results is only ever sent
\* to credentials that the first rule for searches lets in, after a login that the
\* registry accepted, for any rules and any users.
THEOREM SessionSearchesAreGranted == SessionSpec => SearchesAreGranted
<1>1. LoggedIn /\ [SessionNext]_sessionVars => [SearchIsGranted]_sessionVars
    <2> SUFFICES ASSUME LoggedIn, [SessionNext]_sessionVars, pc = "search", pc' = "details"
                 PROVE  /\ \E sent \in {credentials, Site[options].proxy} :
                              sent \in Site[options].accepted
                        /\ \A k \in DOMAIN Site[options].rules :
                              \/ "search" \notin Site[options].rules[k].requests
                              \/ Site[options].rules[k].everyone
                              \/ credentials \in Site[options].rules[k].users
                              \/ \E j \in 1 .. k - 1 :
                                    "search" \in Site[options].rules[j].requests
        BY DEF SearchIsGranted
    <2>1. login = "done" /\ Granted("search")
        <3>1. PagesStep
            BY DEF SessionNext, LoginStep, Accept, Reject, Prompt, ConnectFails, Refuse, Outside,
                   Disturbance, QueryFails, TemplateFails, Change, Ended, sessionVars, vars
        <3> QED
            BY <3>1 DEF PagesStep
    <2>2. Forwarded \in Site[options].accepted /\ Forwarded \in {credentials, Site[options].proxy}
        BY <2>1 DEF LoggedIn, Forwarded
    <2> DEFINE rules == Site[options].rules
               A == Applying("search")
    <2>3. DOMAIN rules = 1 .. Len(rules) /\ A = {k \in DOMAIN rules : "search" \in rules[k].requests}
        <3>1. rules \in Seq(Rules)
            BY SiteAssumption DEF LoggedIn, SiteAssumption
        <3> QED
            BY <3>1, LenProperties DEF Applying
    <2>4. ASSUME NEW k \in A
          PROVE  \/ rules[k].everyone
                 \/ credentials \in rules[k].users
                 \/ \E j \in 1 .. k - 1 : "search" \in rules[j].requests
        <3>1. A \subseteq Nat /\ A # {}
            BY <2>3, <2>4
        <3>2. \E x \in A : \A y \in A : x <= y
            BY <3>1, LeastExists
        <3>3. Min(A) \in A /\ Min(A) <= k
            BY <3>2 DEF Min
        <3>4. GrantAccess(rules[Min(A)])
            BY <2>1, <3>1 DEF Granted, GetAuthorization
        <3> DEFINE m == Min(A)
        <3> HIDE DEF m, A
        <3>5. CASE m = k
            BY <3>4, <3>5 DEF GrantAccess, m
        <3>6. CASE m # k
            <4>1. m \in 1 .. k - 1 /\ "search" \in rules[m].requests
                BY <2>3, <3>1, <3>3, <3>6 DEF m
            <4> QED
                BY <4>1
        <3> QED
            BY <3>5, <3>6
    <2>5. ASSUME NEW k \in DOMAIN rules
          PROVE  \/ "search" \notin rules[k].requests
                 \/ rules[k].everyone
                 \/ credentials \in rules[k].users
                 \/ \E j \in 1 .. k - 1 : "search" \in rules[j].requests
        BY <2>3, <2>4
    <2> QED
        BY <2>2, <2>5
<1> QED
    BY <1>1, LoginInvariance, PTL DEF SessionSpec, SearchesAreGranted
==============================================================================
