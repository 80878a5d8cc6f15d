------------------------------ MODULE DataLemmas -------------------------------
(****************************************************************************)
(* What the proofs about several components use of numbers, sequences and   *)
(* finite sets.                                                             *)
(****************************************************************************)
EXTENDS Integers, FiniteSetTheorems, SequenceTheorems, TLAPS

------------------------------------------------------------------------------
(* Numbers                                                                  *)

\* Induction over a set of numbers.  A number that is missing would bound the
\* members below it, whose successors are members: a finite set would have an
\* injection to a smaller one.
LEMMA SetInduction ==
    ASSUME NEW S, 0 \in S, \A k \in Nat : k \in S => k + 1 \in S
    PROVE  Nat \subseteq S
<1> SUFFICES ASSUME NEW n \in Nat, n \notin S
             PROVE  FALSE
    OBVIOUS
<1> DEFINE T == {k \in 0 .. n : k \in S}
           next == [k \in T |-> k + 1]
<1>1. /\ T \in SUBSET (0 .. n) /\ 0 \in T
      /\ \A k \in T : k + 1 \in T
    <2>1. \A k \in T : k # n
        OBVIOUS
    <2> QED
        BY <2>1
<1> HIDE DEF T
<1>2. IsFiniteSet(T)
    <2>1. IsFiniteSet(0 .. n)
        BY FS_Interval
    <2> QED
        BY <1>1, <2>1, FS_Subset
<1>3. Cardinality(T) \in Nat
    BY <1>2, FS_CardinalityType
<1>4. /\ IsFiniteSet(T \ {0})
      /\ Cardinality(T \ {0}) < Cardinality(T)
    <2>1. /\ IsFiniteSet(T \ {0})
          /\ Cardinality(T \ {0}) = IF 0 \in T THEN Cardinality(T) - 1 ELSE Cardinality(T)
        BY <1>2, FS_RemoveElement
    <2> QED
        BY <1>1, <1>3, <2>1
<1>5. next \in [T -> T \ {0}]
    BY <1>1
<1> HIDE DEF next
<1>6. PICK x, y \in T : x # y /\ next[x] = next[y]
    BY <1>2, <1>4, <1>5, FS_PigeonHole
<1> QED
    BY <1>1, <1>6 DEF next

\* A set of numbers that is not empty has a least one, and below a bound a greatest.
LEMMA LeastExists ==
    ASSUME NEW T, T \subseteq Nat, T # {}
    PROVE  \E x \in T : \A y \in T : x <= y
<1> SUFFICES ASSUME \A x \in T : \E y \in T : ~(x <= y)
             PROVE  FALSE
    OBVIOUS
<1> DEFINE S == {n \in Nat : \A x \in T : ~(x <= n)}
<1>1. ASSUME NEW x \in T
      PROVE  \E y \in T : y < x
    <2>1. PICK y \in T : ~(x <= y)
        OBVIOUS
    <2> QED
        BY <2>1
<1>2. 0 \in S
    BY <1>1
<1>3. ASSUME NEW n \in Nat, n \in S
      PROVE  n + 1 \in S
    <2>1. ASSUME NEW x \in T, x <= n + 1
          PROVE  FALSE
        <3>1. PICK y \in T : y < x
            BY <1>1
        <3>2. ~(y <= n)
            BY <1>3
        <3> QED
            BY <2>1, <3>1, <3>2
    <2> QED
        BY <2>1
<1> HIDE DEF S
<1>4. Nat \subseteq S
    BY <1>2, <1>3, SetInduction
<1>5. PICK x \in T : TRUE
    OBVIOUS
<1>6. x \in S /\ x <= x
    BY <1>4
<1> QED
    BY <1>6 DEF S

LEMMA GreatestExists ==
    ASSUME NEW N \in Nat, NEW T, T \subseteq 0 .. N, T # {}
    PROVE  \E x \in T : \A y \in T : x >= y
<1> DEFINE U == {n \in Nat : \A y \in T : n >= y}
<1>1. N \in U
    OBVIOUS
<1>2. PICK n \in U : \A m \in U : n <= m
    BY <1>1, LeastExists
<1>3. \A y \in T : n >= y
    OBVIOUS
<1>4. SUFFICES ASSUME n \notin T
               PROVE  FALSE
    BY <1>3
<1>5. PICK t \in T : TRUE
    OBVIOUS
<1>6. \A y \in T : y \in Nat /\ n >= y /\ n # y
    BY <1>3, <1>4
<1>7. \A y \in T : n - 1 >= y
    BY <1>6
<1>8. n - 1 \in Nat
    BY <1>5, <1>6
<1>9. n - 1 \in U
    BY <1>7, <1>8
<1> QED
    BY <1>2, <1>8, <1>9

------------------------------------------------------------------------------
(* Places in a set of numbers                                               *)

CountUpTo(M, r) == Cardinality({j \in M : j <= r})

LEMMA CountType ==
    ASSUME NEW N \in Nat, NEW M, M \subseteq 1 .. N
    PROVE  /\ IsFiniteSet(M) /\ Cardinality(M) \in 0 .. N
           /\ \A r : IsFiniteSet({j \in M : j <= r}) /\ CountUpTo(M, r) \in 0 .. Cardinality(M)
<1>1. IsFiniteSet(1 .. N) /\ Cardinality(1 .. N) = N
    BY FS_Interval
<1>2. IsFiniteSet(M) /\ Cardinality(M) \in Nat /\ Cardinality(M) <= N
    BY <1>1, FS_Subset, FS_CardinalityType
<1>3. ASSUME NEW r
      PROVE  IsFiniteSet({j \in M : j <= r}) /\ CountUpTo(M, r) \in 0 .. Cardinality(M)
    <2>1. {j \in M : j <= r} \in SUBSET M
        OBVIOUS
    <2>2. /\ IsFiniteSet({j \in M : j <= r})
          /\ Cardinality({j \in M : j <= r}) <= Cardinality(M)
        BY <1>2, <2>1, FS_Subset
    <2>3. Cardinality({j \in M : j <= r}) \in Nat
        BY <2>2, FS_CardinalityType
    <2> QED
        BY <1>2, <2>2, <2>3 DEF CountUpTo
<1> QED
    BY <1>2, <1>3

\* A set that has more has no fewer up to any number.
LEMMA CountOfSubset ==
    ASSUME NEW N \in Nat, NEW M, M \subseteq 1 .. N, NEW L, L \subseteq M, NEW r
    PROVE  CountUpTo(L, r) <= CountUpTo(M, r)
<1>1. {j \in L : j <= r} \in SUBSET {j \in M : j <= r}
    OBVIOUS
<1> QED
    BY <1>1, CountType, FS_Subset DEF CountUpTo

LEMMA CountGrows ==
    ASSUME NEW N \in Nat, NEW M, M \subseteq 1 .. N, NEW r \in Int, NEW s \in Int, r <= s
    PROVE  /\ CountUpTo(M, r) <= CountUpTo(M, s)
           /\ s \in M /\ r < s => CountUpTo(M, r) < CountUpTo(M, s)
<1> DEFINE A == {j \in M : j <= r}
           B == {j \in M : j <= s}
<1>0. \A j \in M : j <= r => j <= s
    OBVIOUS
<1>1. IsFiniteSet(A) /\ IsFiniteSet(B) /\ A \in SUBSET B
    <2>1. IsFiniteSet(A) /\ IsFiniteSet(B)
        BY CountType
    <2>2. A \subseteq B
        BY <1>0
    <2> QED
        BY <2>1, <2>2
<1>2. s \in M /\ r < s => s \in B /\ s \notin A
    OBVIOUS
<1>3. CountUpTo(M, r) = Cardinality(A) /\ CountUpTo(M, s) = Cardinality(B)
    BY DEF CountUpTo
<1> HIDE DEF A, B
<1>4. Cardinality(A) <= Cardinality(B) /\ (A # B => Cardinality(A) < Cardinality(B))
    BY <1>1, FS_Subset, FS_CardinalityType
<1> QED
    BY <1>2, <1>3, <1>4

\* Each number up to that of its members is the place of one of them.
LEMMA CountReaches ==
    ASSUME NEW N \in Nat, NEW M, M \subseteq 1 .. N, NEW n \in 1 .. Cardinality(M)
    PROVE  \E r \in M : CountUpTo(M, r) = n
<1> DEFINE T == {k \in Nat : \A m \in 1 .. CountUpTo(M, k) : \E r \in M : CountUpTo(M, r) = m}
<1>1. 0 \in T
    <2>1. \A j \in M : ~(j <= 0)
        OBVIOUS
    <2>2. {j \in M : j <= 0} = {}
        BY <2>1
    <2>3. CountUpTo(M, 0) = 0
        BY <2>2, FS_EmptySet DEF CountUpTo
    <2> QED
        BY <2>3
<1>2. ASSUME NEW k \in Nat, k \in T
      PROVE  k + 1 \in T
    <2>0. CountUpTo(M, k) \in Nat
        <3>1. CountUpTo(M, k) \in 0 .. Cardinality(M)
            BY CountType
        <3>2. Cardinality(M) \in 0 .. N
            BY CountType
        <3> QED
            BY <3>1, <3>2
    <2>1. CASE k + 1 \in M
        <3>0. \A j \in M : j <= k + 1 <=> j <= k \/ j = k + 1
            OBVIOUS
        <3>1. {j \in M : j <= k + 1} = {j \in M : j <= k} \cup {k + 1}
            BY <2>1, <3>0
        <3>2. k + 1 \notin {j \in M : j <= k}
            OBVIOUS
        <3>3. CountUpTo(M, k + 1) = CountUpTo(M, k) + 1
            BY <3>1, <3>2, CountType, FS_AddElement DEF CountUpTo
        <3> QED
            BY <1>2, <2>0, <2>1, <3>3
    <2>2. CASE k + 1 \notin M
        <3>0. \A j \in M : j <= k + 1 <=> j <= k
            BY <2>2
        <3>1. {j \in M : j <= k + 1} = {j \in M : j <= k}
            BY <3>0
        <3> QED
            BY <1>2, <3>1 DEF CountUpTo
    <2> QED
        BY <2>1, <2>2
<1> HIDE DEF T
<1>3. N \in T
    BY <1>1, <1>2, SetInduction
<1>4. {j \in M : j <= N} = M
    <2>1. \A j \in M : j <= N
        OBVIOUS
    <2> QED
        BY <2>1
<1> QED
    BY <1>3, <1>4 DEF T, CountUpTo

------------------------------------------------------------------------------
(* Sums over a finite set                                                   *)

Chooses(c, S) == \A T \in SUBSET S : T # {} => c[T] \in T
ClosedUnderSum(V) == 0 \in V /\ \A x, y \in V : x + y \in V

\* f sums g over each part of S, whose elements it takes away as c chooses them.
Sums(f, S, c, g) ==
    \A T \in SUBSET S : f[T] = IF T = {} THEN 0 ELSE f[T \ {c[T]}] + g[c[T]]

\* There is such a sum: one for the sets of at most n elements extends to those of
\* n + 1.
LEMMA SumExists ==
    ASSUME NEW S, IsFiniteSet(S), NEW c, Chooses(c, S), NEW V, ClosedUnderSum(V),
           NEW g, \A x \in S : g[x] \in V
    PROVE  \E f \in [SUBSET S -> V] : Sums(f, S, c, g)
<1> DEFINE D(n) == {T \in SUBSET S : Cardinality(T) <= n}
           Solves(f, n) == \A T \in D(n) :
                              /\ f[T] \in V
                              /\ f[T] = IF T = {} THEN 0 ELSE f[T \ {c[T]}] + g[c[T]]
           N == {n \in Nat : \E f : Solves(f, n)}
<1>1. \A T \in SUBSET S : IsFiniteSet(T) /\ Cardinality(T) \in Nat
                           /\ Cardinality(T) <= Cardinality(S)
    BY FS_Subset, FS_CardinalityType
<1>2. ASSUME NEW T \in SUBSET S, T # {}
      PROVE  /\ c[T] \in T /\ T \ {c[T]} \in SUBSET S
             /\ Cardinality(T \ {c[T]}) = Cardinality(T) - 1
    <2>1. c[T] \in T
        BY <1>2 DEF Chooses
    <2> QED
        BY <1>1, <2>1, FS_RemoveElement
<1>3. 0 \in N
    <2>1. \A T \in D(0) : T = {}
        BY <1>1, FS_EmptySet
    <2>2. Solves([T \in D(0) |-> 0], 0)
        BY <2>1 DEF ClosedUnderSum
    <2> QED
        BY <2>2
<1>4. ASSUME NEW n \in Nat, n \in N
      PROVE  n + 1 \in N
    <2>1. PICK f : Solves(f, n)
        BY <1>4
    <2> DEFINE h == [T \in D(n + 1) |->
                        IF T \in D(n) THEN f[T] ELSE f[T \ {c[T]}] + g[c[T]]]
    <2>2. ASSUME NEW T \in D(n + 1), T # {}
          PROVE  /\ T \ {c[T]} \in D(n) /\ T \ {c[T]} \in D(n + 1)
                 /\ h[T \ {c[T]}] = f[T \ {c[T]}]
        <3>1. /\ T \in SUBSET S /\ T \ {c[T]} \in SUBSET S
              /\ Cardinality(T \ {c[T]}) = Cardinality(T) - 1
            BY <1>2, <2>2
        <3>2. Cardinality(T) \in Nat /\ Cardinality(T) <= n + 1
            BY <1>1, <3>1
        <3>3. T \ {c[T]} \in D(n) /\ T \ {c[T]} \in D(n + 1)
            BY <3>1, <3>2
        <3> QED
            BY <3>3
    <2>3. ASSUME NEW T \in D(n + 1)
          PROVE  /\ h[T] \in V
                 /\ h[T] = IF T = {} THEN 0 ELSE h[T \ {c[T]}] + g[c[T]]
        <3>1. CASE T \in D(n)
            <4>1. h[T] = f[T]
                BY <3>1
            <4>2. /\ f[T] \in V
                  /\ f[T] = IF T = {} THEN 0 ELSE f[T \ {c[T]}] + g[c[T]]
                BY <2>1, <3>1
            <4> HIDE DEF h
            <4> QED
                BY <2>2, <4>1, <4>2
        <3>2. CASE T \notin D(n)
            <4>1. h[T] = f[T \ {c[T]}] + g[c[T]]
                BY <3>2
            <4>2. T # {}
                <5>1. Cardinality({}) <= n /\ {} \in SUBSET S
                    BY FS_EmptySet
                <5> QED
                    BY <3>2, <5>1
            <4>3. c[T] \in S
                BY <1>2, <4>2
            <4>4. f[T \ {c[T]}] \in V
                BY <2>1, <2>2, <4>2
            <4> HIDE DEF h
            <4> QED
                BY <2>2, <4>1, <4>2, <4>3, <4>4 DEF ClosedUnderSum
        <3> QED
            BY <3>1, <3>2
    <2> HIDE DEF h
    <2>4. Solves(h, n + 1)
        BY <2>3
    <2> HIDE DEF Solves
    <2> QED
        BY <2>4
<1> HIDE DEF N
<1>5. Cardinality(S) \in N
    BY <1>1, <1>3, <1>4, SetInduction
<1>6. PICK f : Solves(f, Cardinality(S))
    BY <1>5 DEF N
<1>7. \A T \in SUBSET S : T \in D(Cardinality(S))
    BY <1>1
<1> DEFINE h == [T \in SUBSET S |-> f[T]]
<1>8. h \in [SUBSET S -> V]
    BY <1>6, <1>7
<1>9. ASSUME NEW T \in SUBSET S
      PROVE  h[T] = IF T = {} THEN 0 ELSE h[T \ {c[T]}] + g[c[T]]
    BY <1>2, <1>6, <1>7
<1> HIDE DEF h
<1> QED
    BY <1>8, <1>9 DEF Sums

------------------------------------------------------------------------------
(* Sequences, and where an element is in one                                *)

LEMMA FunctionIsSeq ==
    ASSUME NEW n \in Nat, NEW S, NEW f, f = [k \in 1 .. n |-> f[k]], \A k \in 1 .. n : f[k] \in S
    PROVE  f \in Seq(S) /\ Len(f) = n
<1> DEFINE h == [k \in 1 .. n |-> f[k]]
<1>1. h \in Seq(S) /\ Len(h) = n
    OBVIOUS
<1> QED
    BY <1>1

\* Any part of a sequence is a sequence of the same elements.
LEMMA PartOfSeq ==
    ASSUME NEW S, NEW s \in Seq(S), NEW m \in Nat \ {0}, NEW n \in 0 .. Len(s)
    PROVE  SubSeq(s, m, n) \in Seq(S)
<1>1. \A i \in m .. n : i \in 1 .. Len(s)
    BY LenProperties
<1>2. \A i \in m .. n : s[i] \in S
    BY <1>1, ElementOfSeq
<1> QED
    BY <1>2, SubSeqProperties, LenProperties

\* What two sequences joined hold, from each of them.
LEMMA Joined ==
    ASSUME NEW S, NEW s \in Seq(S), NEW t \in Seq(S), NEW u, u = s \o t
    PROVE  /\ u \in Seq(S) /\ Len(s) \in Nat /\ Len(t) \in Nat
           /\ Len(u) = Len(s) + Len(t)
           /\ DOMAIN u = 1 .. Len(s) + Len(t)
           /\ \A k \in 1 .. Len(s) : u[k] = s[k]
           /\ \A k \in 1 .. Len(s) + Len(t) : k > Len(s) =>
                 k - Len(s) \in 1 .. Len(t) /\ u[k] = t[k - Len(s)]
<1>1. /\ s \o t \in Seq(S) /\ Len(s \o t) = Len(s) + Len(t)
      /\ \A k \in 1 .. Len(s) + Len(t) :
            (s \o t)[k] = IF k <= Len(s) THEN s[k] ELSE t[k - Len(s)]
    BY ConcatProperties
<1>2. Len(s) \in Nat /\ Len(t) \in Nat /\ DOMAIN u = 1 .. Len(u)
    BY <1>1, LenProperties
<1>3. \A k \in 1 .. Len(s) : u[k] = s[k]
    BY <1>1, <1>2
<1>4. \A k \in 1 .. Len(s) + Len(t) : k > Len(s) =>
         k - Len(s) \in 1 .. Len(t) /\ u[k] = t[k - Len(s)]
    BY <1>1, <1>2
<1> QED
    BY <1>1, <1>2, <1>3, <1>4

Positions(s, t) == {i \in DOMAIN s : s[i] = t}

LEMMA PositionsAppend ==
    ASSUME NEW S, NEW s \in Seq(S), NEW e \in S, NEW t
    PROVE  Positions(Append(s, e), t) =
              Positions(s, t) \cup (IF e = t THEN {Len(s) + 1} ELSE {})
<1>1. /\ DOMAIN s = 1 .. Len(s) /\ Len(s) \in Nat
      /\ DOMAIN Append(s, e) = 1 .. Len(s) + 1
      /\ \A i \in 1 .. Len(s) : Append(s, e)[i] = s[i]
      /\ Append(s, e)[Len(s) + 1] = e
    BY AppendProperties, LenProperties
<1>2. 1 .. Len(s) + 1 = (1 .. Len(s)) \cup {Len(s) + 1}
    BY <1>1
<1> QED
    BY <1>1, <1>2 DEF Positions

\* The first element leaves, the others move up by one.
LEMMA PositionsTail ==
    ASSUME NEW S, NEW s \in Seq(S), s # <<>>, NEW t
    PROVE  /\ Positions(s, t) = {} => Head(s) # t /\ Positions(Tail(s), t) = {}
           /\ \A n : Positions(s, t) = {n} =>
                 IF Head(s) = t
                 THEN Positions(Tail(s), t) = {}
                 ELSE n - 1 \in DOMAIN Tail(s) /\ Positions(Tail(s), t) = {n - 1}
<1>1. /\ DOMAIN s = 1 .. Len(s) /\ Len(s) \in Nat /\ Len(s) >= 1 /\ Head(s) = s[1]
      /\ DOMAIN Tail(s) = 1 .. Len(s) - 1
      /\ \A i \in 1 .. Len(s) - 1 : Tail(s)[i] = s[i + 1]
    BY HeadTailProperties, LenProperties, EmptySeq
<1>2. \A i : i \in Positions(Tail(s), t) <=>
                i \in 1 .. Len(s) - 1 /\ i + 1 \in Positions(s, t)
    BY <1>1 DEF Positions
<1>3. 1 \in Positions(s, t) <=> Head(s) = t
    BY <1>1 DEF Positions
<1>4. Positions(s, t) \subseteq 1 .. Len(s)
    BY <1>1 DEF Positions
<1>5. ASSUME Positions(s, t) = {}
      PROVE  Head(s) # t /\ Positions(Tail(s), t) = {}
    BY <1>2, <1>3, <1>5
<1>6. ASSUME NEW n, Positions(s, t) = {n}
      PROVE  IF Head(s) = t
             THEN Positions(Tail(s), t) = {}
             ELSE n - 1 \in DOMAIN Tail(s) /\ Positions(Tail(s), t) = {n - 1}
    <2>1. n \in 1 .. Len(s)
        BY <1>4, <1>6
    <2>2. CASE Head(s) = t
        BY <1>1, <1>2, <1>3, <1>6, <2>2
    <2>3. CASE Head(s) # t
        <3>1. n # 1
            BY <1>3, <1>6, <2>3
        <3>2. n - 1 \in 1 .. Len(s) - 1
            BY <1>1, <2>1, <3>1
        <3>3. \A i : i \in Positions(Tail(s), t) <=> i = n - 1
            BY <1>1, <1>2, <1>6, <2>1, <3>2
        <3> QED
            BY <1>1, <2>3, <3>2, <3>3
    <2> QED
        BY <2>2, <2>3
<1> QED
    BY <1>5, <1>6
================================================================================
