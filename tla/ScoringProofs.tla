---------------------------- MODULE ScoringProofs ----------------------------
(***************************************************************************)
(* Proofs about module Scoring: the standings of a game and the board of a *)
(* session add up the rows however these are grouped, the ranks are those  *)
(* of the totals, and the results that are recorded keep what the          *)
(* standings said.                                                         *)
(***************************************************************************)
EXTENDS Scoring, FiniteSetTheorems, TLAPS

(***************************************************************************)
(* Sums.  The model adds with a fold that picks the elements one by one;   *)
(* the sum is the value of any function on the subsets that is 0 for the   *)
(* empty one and grows by f[x] with x.                                     *)
(***************************************************************************)

\* h has the sum of f over every subset of S.
Additive(h, f, S) ==
    /\ h \in [SUBSET S -> Int]
    /\ h[{}] = 0
    /\ \A T \in SUBSET S, x \in S : x \notin T => h[T \cup {x}] = f[x] + h[T]

SumOf(f, S) == MapThenSumSet(LAMBDA x : f[x], S)

\* A nonempty collection of finite sets has a member no other is within.
LEMMA LeastSet ==
    ASSUME NEW S, IsFiniteSet(S), NEW C \in SUBSET (SUBSET S), C # {}
    PROVE  \E T \in C : \A U \in C : U \subseteq T => U = T
<1>1. C \subseteq FiniteSubsetsOf(S)
    BY FS_Subset DEF FiniteSubsetsOf
<1>2. IsWellFoundedOn(StrictSubsetOrdering(S), FiniteSubsetsOf(S))
    BY FS_StrictSubsetOrderingWellFounded
<1>3. \E T \in C : \A U \in C : ~ (<<U, T>> \in StrictSubsetOrdering(S))
    BY <1>1, <1>2, WFMin, Zenon
<1>4. PICK T \in C : \A U \in C : ~ (<<U, T>> \in StrictSubsetOrdering(S))
    BY <1>3, Zenon
<1>5. \A U \in C : U \subseteq T => U = T
    <2> SUFFICES ASSUME NEW U \in C, U \subseteq T, U # T PROVE FALSE
        OBVIOUS
    <2>1. <<U, T>> \in StrictSubsetOrdering(S)
        BY DEF StrictSubsetOrdering
    <2> QED BY <2>1, <1>4
<1> QED BY <1>5, Zenon

\* There is such a function: leave one element out, and add it where it is.
LEMMA AdditiveExists ==
    ASSUME NEW S, IsFiniteSet(S), NEW f, \A x \in S : f[x] \in Int
    PROVE  \E h : Additive(h, f, S)
<1> DEFINE C == {T \in SUBSET S : ~ \E h : Additive(h, f, T)}
<1> SUFFICES ASSUME C # {} PROVE FALSE
    OBVIOUS
<1>0. C \in SUBSET (SUBSET S)
    OBVIOUS
<1>1. PICK T \in C : \A U \in C : U \subseteq T => U = T
    <2> HIDE DEF C
    <2> QED BY <1>0, LeastSet
<1>2. CASE T = {}
    <2>1. Additive([U \in SUBSET T |-> 0], f, T)
        BY <1>2 DEF Additive
    <2> QED BY <2>1
<1>3. CASE T # {}
    <2>1. PICK x \in T : TRUE
        BY <1>3
    <2>2. T \ {x} \in SUBSET S /\ T \ {x} # T /\ T \subseteq S
        BY <2>1
    <2>3. PICK h : Additive(h, f, T \ {x})
        BY <2>2, <1>1
    <2> DEFINE k == [U \in SUBSET T |-> IF x \in U THEN f[x] + h[U \ {x}] ELSE h[U]]
    <2>4. f[x] \in Int /\ \A y \in T : f[y] \in Int
        BY <2>2
    <2>5. \A U \in SUBSET T : U \ {x} \in SUBSET (T \ {x}) /\ (x \notin U => U \in SUBSET (T \ {x}))
        OBVIOUS
    <2>6. \A U \in SUBSET (T \ {x}) : h[U] \in Int
        BY <2>3 DEF Additive
    <2>7. k \in [SUBSET T -> Int]
        BY <2>4, <2>5, <2>6
    <2>8. k[{}] = 0
        BY <2>3 DEF Additive
    <2>9. ASSUME NEW U \in SUBSET T, NEW y \in T, y \notin U
          PROVE  k[U \cup {y}] = f[y] + k[U]
        <3>1. U \cup {y} \in SUBSET T
            OBVIOUS
        <3>2. CASE y = x
            <4>1. (U \cup {y}) \ {x} = U /\ x \in U \cup {y} /\ x \notin U
                BY <2>9, <3>2
            <4> QED BY <4>1, <3>1, <3>2
        <3>3. CASE y # x /\ x \in U
            <4>1. (U \cup {y}) \ {x} = (U \ {x}) \cup {y} /\ x \in U \cup {y}
                BY <3>3
            <4>2. U \ {x} \in SUBSET (T \ {x}) /\ y \in T \ {x} /\ y \notin U \ {x}
                BY <2>9, <3>3
            <4>3. h[(U \ {x}) \cup {y}] = f[y] + h[U \ {x}]
                BY <4>2, <2>3 DEF Additive
            <4>4. k[U \cup {y}] = f[x] + h[(U \ {x}) \cup {y}] /\ k[U] = f[x] + h[U \ {x}]
                BY <4>1, <3>1, <3>3
            <4> HIDE DEF k
            <4> QED BY <4>3, <4>4, <2>4, <4>2, <2>6
        <3>4. CASE y # x /\ x \notin U
            <4>1. U \in SUBSET (T \ {x}) /\ y \in T \ {x} /\ x \notin U \cup {y}
                BY <2>9, <3>4
            <4>2. h[U \cup {y}] = f[y] + h[U]
                BY <4>1, <2>9, <2>3 DEF Additive
            <4> QED BY <4>1, <4>2, <3>1
        <3> QED BY <3>2, <3>3, <3>4
    <2> HIDE DEF k
    <2>10. Additive(k, f, T)
        BY <2>7, <2>8, <2>9 DEF Additive
    <2> QED BY <2>10
<1> QED BY <1>2, <1>3

\* What the fold computes is what an additive function says.
LEMMA FoldIsAdditive ==
    ASSUME NEW S, IsFiniteSet(S), NEW f, NEW h, Additive(h, f, S)
    PROVE  SumOf(f, S) = h[S]
<1> DEFINE step(g, s) == IF s = {} THEN 0
                         ELSE f[CHOOSE x \in s : TRUE] + g[s \ {CHOOSE x \in s : TRUE}]
           P(g) == g = [s \in SUBSET S |-> step(g, s)]
<1>1. SumOf(f, S) = (CHOOSE g : P(g))[S]
    BY DEF SumOf, MapThenSumSet, MapThenFoldSet
<1>2. P(h)
    <2>1. ASSUME NEW s \in SUBSET S PROVE h[s] = step(h, s)
        <3>1. CASE s = {}
            BY <3>1 DEF Additive
        <3>2. CASE s # {}
            <4> DEFINE x == CHOOSE x \in s : TRUE
            <4>1. x \in s
                BY <3>2
            <4> HIDE DEF x
            <4>2. x \in S /\ s \ {x} \in SUBSET S /\ x \notin s \ {x} /\ (s \ {x}) \cup {x} = s
                BY <4>1
            <4>3. h[(s \ {x}) \cup {x}] = f[x] + h[s \ {x}]
                BY <4>2 DEF Additive
            <4>4. h[s] = f[x] + h[s \ {x}]
                BY <4>3, <4>2
            <4> QED BY <4>4, <3>2 DEF x
        <3> QED BY <3>1, <3>2
    <2>2. h = [s \in SUBSET S |-> h[s]]
        BY DEF Additive
    <2> HIDE DEF step
    <2> QED BY <2>1, <2>2
<1>3. ASSUME NEW g, P(g) PROVE g[S] = h[S]
    <2> DEFINE C == {s \in SUBSET S : g[s] # h[s]}
    <2> SUFFICES ASSUME C # {} PROVE FALSE
        OBVIOUS
    <2>0. C \in SUBSET (SUBSET S)
        OBVIOUS
    <2>1. PICK s \in C : \A u \in C : u \subseteq s => u = s
        <3> HIDE DEF C, P
        <3> QED BY <2>0, LeastSet
    <2>2. g[s] = step(g, s) /\ h[s] = step(h, s)
        <3> HIDE DEF step
        <3> QED BY <1>2, <1>3
    <2>3. s # {}
        BY <2>2, <2>1
    <2> DEFINE x == CHOOSE x \in s : TRUE
    <2>4. x \in s
        BY <2>3
    <2>5. g[s] = f[x] + g[s \ {x}] /\ h[s] = f[x] + h[s \ {x}]
        BY <2>2, <2>3
    <2> HIDE DEF x, P
    <2>6. s \ {x} \in SUBSET S /\ s \ {x} # s /\ s \ {x} \subseteq s
        BY <2>4
    <2>7. g[s \ {x}] = h[s \ {x}]
        BY <2>6, <2>1
    <2> QED BY <2>5, <2>7, <2>1
<1> HIDE DEF P
<1>4. P(CHOOSE g : P(g))
    BY <1>2
<1> QED BY <1>1, <1>3, <1>4

\* The sum is one additive function, whatever subset is summed.
LEMMA SumsAreAdditive ==
    ASSUME NEW S, IsFiniteSet(S), NEW f, \A x \in S : f[x] \in Int
    PROVE  \E h : Additive(h, f, S) /\ \A T \in SUBSET S : SumOf(f, T) = h[T]
<1>1. PICK h : Additive(h, f, S)
    BY AdditiveExists
<1>2. ASSUME NEW T \in SUBSET S PROVE SumOf(f, T) = h[T]
    <2> DEFINE k == [U \in SUBSET T |-> h[U]]
    <2>1. Additive(k, f, T)
        <3>1. k \in [SUBSET T -> Int] /\ k[{}] = 0
            BY <1>1 DEF Additive
        <3>2. ASSUME NEW U \in SUBSET T, NEW x \in T, x \notin U
              PROVE  k[U \cup {x}] = f[x] + k[U]
            <4>1. U \in SUBSET S /\ x \in S /\ U \cup {x} \in SUBSET T
                OBVIOUS
            <4>2. h[U \cup {x}] = f[x] + h[U]
                BY <4>1, <3>2, <1>1 DEF Additive
            <4> QED BY <4>1, <4>2
        <3> HIDE DEF k
        <3> QED BY <3>1, <3>2 DEF Additive
    <2>2. IsFiniteSet(T)
        BY FS_Subset
    <2>3. SumOf(f, T) = k[T]
        <3> HIDE DEF k
        <3> QED BY <2>1, <2>2, FoldIsAdditive
    <2> QED BY <2>3
<1> QED BY <1>1, <1>2

\* A sum is a number, 0 of nothing, and grows by what comes in.
LEMMA SumFacts ==
    ASSUME NEW S, IsFiniteSet(S), NEW f, \A x \in S : f[x] \in Int
    PROVE  /\ SumOf(f, S) \in Int
           /\ SumOf(f, {}) = 0
           /\ \A x \in S, T \in SUBSET S :
                x \notin T => SumOf(f, T \cup {x}) = f[x] + SumOf(f, T)
<1>1. PICK h : Additive(h, f, S) /\ \A T \in SUBSET S : SumOf(f, T) = h[T]
    BY SumsAreAdditive
<1>2. h \in [SUBSET S -> Int] /\ h[{}] = 0
    BY <1>1 DEF Additive
<1>3. SumOf(f, S) \in Int /\ SumOf(f, {}) = 0
    BY <1>1, <1>2
<1>4. ASSUME NEW x \in S, NEW T \in SUBSET S, x \notin T
      PROVE  SumOf(f, T \cup {x}) = f[x] + SumOf(f, T)
    <2>1. h[T \cup {x}] = f[x] + h[T]
        BY <1>1, <1>4 DEF Additive
    <2>2. T \cup {x} \in SUBSET S
        OBVIOUS
    <2> QED BY <2>1, <2>2, <1>1
<1> QED BY <1>3, <1>4

\* The sums of two sets that have nothing in common add up.
LEMMA SumOfUnion ==
    ASSUME NEW S, IsFiniteSet(S), NEW f, \A x \in S : f[x] \in Int,
           NEW A \in SUBSET S, NEW B \in SUBSET S, A \cap B = {}
    PROVE  SumOf(f, A \cup B) = SumOf(f, A) + SumOf(f, B)
<1> DEFINE C == {T \in SUBSET B : SumOf(f, A \cup T) # SumOf(f, A) + SumOf(f, T)}
<1>a. \A T \in SUBSET S : SumOf(f, T) \in Int
    <2> TAKE T \in SUBSET S
    <2>1. IsFiniteSet(T) /\ \A x \in T : f[x] \in Int
        BY FS_Subset
    <2> QED BY <2>1, SumFacts
<1> SUFFICES ASSUME C # {} PROVE FALSE
    <2>1. B \in SUBSET B
        OBVIOUS
    <2> QED BY <2>1
<1>0. C \in SUBSET (SUBSET B) /\ IsFiniteSet(B)
    BY FS_Subset
<1>1. PICK T \in C : \A U \in C : U \subseteq T => U = T
    <2> HIDE DEF C
    <2> QED BY <1>0, LeastSet
<1>2. CASE T = {}
    <2>1. SumOf(f, {}) = 0 /\ A \cup T = A
        BY <1>2, SumFacts
    <2> QED BY <2>1, <1>1, <1>2, <1>a
<1>3. CASE T # {}
    <2>1. PICK x \in T : TRUE
        BY <1>3
    <2>2. /\ x \in S /\ x \notin T \ {x} /\ (T \ {x}) \cup {x} = T /\ T \ {x} \in SUBSET S
          /\ A \cup (T \ {x}) \in SUBSET S /\ x \notin A \cup (T \ {x})
          /\ (A \cup (T \ {x})) \cup {x} = A \cup T
        BY <2>1
    <2>3. SumOf(f, T) = f[x] + SumOf(f, T \ {x})
        BY <2>2, SumFacts
    <2>4. SumOf(f, A \cup T) = f[x] + SumOf(f, A \cup (T \ {x}))
        <3>1. \A y \in S, U \in SUBSET S : y \notin U => SumOf(f, U \cup {y}) = f[y] + SumOf(f, U)
            BY SumFacts
        <3>2. SumOf(f, (A \cup (T \ {x})) \cup {x}) = f[x] + SumOf(f, A \cup (T \ {x}))
            BY <3>1, <2>2, Zenon
        <3> QED BY <3>2, <2>2, Zenon
    <2>5. SumOf(f, A \cup (T \ {x})) = SumOf(f, A) + SumOf(f, T \ {x})
        <3>1. T \ {x} \in SUBSET B /\ T \ {x} \subseteq T /\ T \ {x} # T
            BY <2>1
        <3> QED BY <3>1, <1>1
    <2>6. /\ f[x] \in Int /\ SumOf(f, A) \in Int /\ SumOf(f, T \ {x}) \in Int
        BY <2>2, <1>a
    <2>7. SumOf(f, A \cup T) # SumOf(f, A) + SumOf(f, T)
        BY <1>1
    <2> HIDE DEF C
    <2> QED BY <2>3, <2>4, <2>5, <2>6, <2>7
<1> QED BY <1>2, <1>3

Group(S, key, k) == {x \in S : key[x] = k}

\* of has the sums of f over the elements of S with the same key.
Grouped(S, f, K, key, of) ==
    /\ IsFiniteSet(S) /\ \A x \in S : f[x] \in Int
    /\ IsFiniteSet(K) /\ key \in [S -> K]
    /\ \A k \in K : of[k] = SumOf(f, Group(S, key, k))

\* Summed group by group, or all at once.
LEMMA SumOfGroups ==
    ASSUME NEW S, NEW f, NEW K, NEW key, NEW of, Grouped(S, f, K, key, of)
    PROVE  SumOf(of, K) = SumOf(f, S)
<1> USE DEF Grouped
<1> DEFINE In(L) == {x \in S : key[x] \in L}
           C == {L \in SUBSET K : SumOf(of, L) # SumOf(f, In(L))}
<1>a. \A T \in SUBSET S : SumOf(f, T) \in Int
    <2> TAKE T \in SUBSET S
    <2>1. IsFiniteSet(T) /\ \A x \in T : f[x] \in Int
        BY FS_Subset
    <2> QED BY <2>1, SumFacts
<1>b. \A k \in K : of[k] \in Int
    BY <1>a DEF Group
<1> SUFFICES ASSUME C # {} PROVE FALSE
    <2>1. K \in SUBSET K /\ In(K) = S
        OBVIOUS
    <2> QED BY <2>1
<1>0. C \in SUBSET (SUBSET K)
    OBVIOUS
<1>1. PICK L \in C : \A U \in C : U \subseteq L => U = L
    <2> HIDE DEF C
    <2> QED BY <1>0, LeastSet
<1>c. L \in SUBSET K /\ SumOf(of, L) # SumOf(f, In(L))
    BY <1>1
<1>2. CASE L = {}
    <2>1. SumOf(f, {}) = 0 /\ SumOf(of, {}) = 0 /\ In(L) = {}
        BY <1>2, <1>b, SumFacts
    <2> QED BY <2>1, <1>2, <1>c
<1>3. CASE L # {}
    <2>1. PICK k \in L : TRUE
        BY <1>3
    <2> DEFINE M == L \ {k}
    <2>2. k \in K /\ k \notin M /\ M \in SUBSET K /\ M \cup {k} = L /\ M \subseteq L /\ M # L
        BY <2>1
    <2>3. SumOf(of, L) = of[k] + SumOf(of, M)
        <3>1. \A y \in K, U \in SUBSET K : y \notin U => SumOf(of, U \cup {y}) = of[y] + SumOf(of, U)
            BY <1>b, SumFacts
        <3>2. SumOf(of, M \cup {k}) = of[k] + SumOf(of, M)
            BY <3>1, <2>2, Zenon
        <3> QED BY <3>2, <2>2, Zenon
    <2>4. SumOf(of, M) = SumOf(f, In(M))
        BY <2>2, <1>1
    <2>5. /\ In(L) = In({k}) \cup In(M) /\ In({k}) \cap In(M) = {}
          /\ In({k}) \in SUBSET S /\ In(M) \in SUBSET S
          /\ In({k}) = Group(S, key, k)
        BY <2>2 DEF Group
    <2>6. SumOf(f, In(L)) = SumOf(f, In({k})) + SumOf(f, In(M))
        <3>1. \A A, B \in SUBSET S : A \cap B = {} => SumOf(f, A \cup B) = SumOf(f, A) + SumOf(f, B)
            BY SumOfUnion
        <3> HIDE DEF In
        <3>2. SumOf(f, In({k}) \cup In(M)) = SumOf(f, In({k})) + SumOf(f, In(M))
            BY <3>1, <2>5, Zenon
        <3> QED BY <3>2, <2>5, Zenon
    <2>7. SumOf(f, In({k})) = of[k]
        BY <2>5, <2>2
    <2> HIDE DEF In, C, M
    <2> QED BY <2>3, <2>4, <2>6, <2>7, <1>c
<1> QED BY <1>2, <1>3

-----------------------------------------------------------------------------
(* Ranks.                                                                    *)

\* Totals of finitely many entrants.
AreTotals(total) ==
    /\ IsFiniteSet(DOMAIN total)
    /\ \A e \in DOMAIN total : total[e] \in Int

\* The entrants with more points than e.
Better(total, e) == {f \in DOMAIN total : total[f] > total[e]}

\* A nonempty set of numbers has a least one.
LEMMA LeastNat ==
    ASSUME NEW C \in SUBSET Nat, C # {}
    PROVE  \E n \in C : \A m \in C : n <= m
<1>1. PICK k \in C : TRUE
    OBVIOUS
<1> DEFINE D == {U \in SUBSET (0..k) : \E m \in C : U = 0..m}
<1>2. D \in SUBSET (SUBSET (0..k)) /\ 0..k \in D /\ IsFiniteSet(0..k)
    BY <1>1, FS_Interval
<1>3. PICK T \in D : \A U \in D : U \subseteq T => U = T
    <2> DEFINE S == 0..k
    <2>1. D \in SUBSET (SUBSET S) /\ D # {} /\ IsFiniteSet(S)
        BY <1>2
    <2> HIDE DEF D, S
    <2> QED BY <2>1, LeastSet
<1>4. PICK n \in C : T = 0..n
    BY <1>3
<1>5. n <= k
    <2>1. n \in 0..n /\ 0..n \subseteq 0..k
        BY <1>3, <1>4
    <2> QED BY <2>1
<1>6. ASSUME NEW m \in C PROVE n <= m
    <2> SUFFICES ASSUME m < n PROVE FALSE
        OBVIOUS
    <2>1. 0..m \subseteq 0..n /\ 0..m \in SUBSET (0..k) /\ n \in 0..n /\ n \notin 0..m
        BY <1>5
    <2>2. 0..m \in D
        BY <2>1
    <2> QED BY <2>1, <2>2, <1>3, <1>4
<1> QED BY <1>6

\* Sorting lists every entrant once.
LEMMA SortedFacts ==
    ASSUME NEW total, AreTotals(total), NEW s \in Sorted(total)
    PROVE  LET n == Cardinality(DOMAIN total) IN
           /\ n \in Nat /\ DOMAIN s = 1..n
           /\ s \in [1..n -> DOMAIN total]
           /\ \A i, j \in 1..n : i # j => s[i] # s[j]
           /\ \A e \in DOMAIN total : \E i \in 1..n : s[i] = e
           /\ \A i, j \in 1..n : i < j => total[s[i]] >= total[s[j]]
<1> DEFINE n == Cardinality(DOMAIN total)
<1>1. n \in Nat /\ IsFiniteSet(DOMAIN total)
    BY FS_CardinalityType DEF AreTotals
<1>2. s \in [1..n -> DOMAIN total] /\ \A i, j \in 1..n : i # j => s[i] # s[j]
    BY DEF Sorted, SetToSeqs
<1>3. DOMAIN s = 1..n
    BY <1>2
<1>4. \A i, j \in 1..n : i < j => total[s[i]] >= total[s[j]]
    BY <1>3 DEF Sorted
<1>5. s \in Injection(1..n, DOMAIN total)
    BY <1>2 DEF Injection, IsInjective
<1>6. Cardinality(1..n) = n
    <2>1. 1 \in Int /\ n \in Int
        BY <1>1
    <2>2. Cardinality(1..n) = IF 1 > n THEN 0 ELSE n - 1 + 1
        BY <2>1, FS_Interval
    <2> HIDE DEF n
    <2> QED BY <2>2, <1>1
<1>7. s \in Surjection(1..n, DOMAIN total)
    BY <1>1, <1>5, <1>6, FS_Injection
<1>8. \A e \in DOMAIN total : \E i \in 1..n : s[i] = e
    BY <1>7 DEF Surjection
<1> QED BY <1>1, <1>2, <1>3, <1>4, <1>8

\* The positions of those with more points than the one at i are as many.
LEMMA AheadIsBetter ==
    ASSUME NEW total, AreTotals(total), NEW s \in Sorted(total), NEW i \in DOMAIN s
    PROVE  LET A == {j \in DOMAIN s : total[s[j]] > total[s[i]]} IN
           /\ IsFiniteSet(A)
           /\ Cardinality(A) = Cardinality(Better(total, s[i]))
<1> DEFINE n == Cardinality(DOMAIN total)
           A == {j \in DOMAIN s : total[s[j]] > total[s[i]]}
           B == Better(total, s[i])
           f == [j \in A |-> s[j]]
<1>1. /\ n \in Nat /\ DOMAIN s = 1..n /\ s \in [1..n -> DOMAIN total]
      /\ \A j, k \in 1..n : j # k => s[j] # s[k]
      /\ \A e \in DOMAIN total : \E j \in 1..n : s[j] = e
    BY SortedFacts
<1>2. IsFiniteSet(A)
    <2>1. IsFiniteSet(1..n)
        BY <1>1, FS_Interval
    <2>2. A \in SUBSET (1..n)
        BY <1>1
    <2> QED BY <2>1, <2>2, FS_Subset
<1>3. f \in [A -> B]
    BY <1>1 DEF Better
<1>4. f \in Injection(A, B)
    BY <1>3, <1>1 DEF Injection, IsInjective
<1>5. \A e \in B : \E j \in A : f[j] = e
    <2> TAKE e \in B
    <2>1. e \in DOMAIN total /\ total[e] > total[s[i]]
        BY DEF Better
    <2>2. PICK j \in 1..n : s[j] = e
        BY <2>1, <1>1
    <2>3. j \in A
        BY <2>1, <2>2, <1>1
    <2> QED BY <2>2, <2>3
<1>6. f \in Surjection(A, B)
    BY <1>3, <1>5 DEF Surjection
<1>7. Cardinality(B) = Cardinality(A)
    <2> HIDE DEF f, A, B
    <2> QED BY <1>2, <1>4, <1>6, FS_Surjection
<1> QED BY <1>2, <1>7

\* The loop that gives the ranks counts who is better.
LEMMA RanksCountBetter ==
    ASSUME NEW total, AreTotals(total), NEW s \in Sorted(total)
    PROVE  Ranks(total, s) = [i \in DOMAIN s |-> Cardinality(Better(total, s[i])) + 1]
<1> DEFINE step(g, i) == IF i > 1 /\ total[s[i]] = total[s[i - 1]] THEN g[i - 1] ELSE i
           P(g) == g = [i \in DOMAIN s |-> step(g, i)]
           n == Cardinality(DOMAIN total)
           r == [i \in DOMAIN s |-> Cardinality(Better(total, s[i])) + 1]
<1>1. Ranks(total, s) = [i \in DOMAIN s |-> (CHOOSE g : P(g))[i]]
    BY DEF Ranks
<1>2. /\ n \in Nat /\ DOMAIN s = 1..n /\ s \in [1..n -> DOMAIN total]
      /\ \A i, j \in 1..n : i < j => total[s[i]] >= total[s[j]]
      /\ \A e \in DOMAIN total : total[e] \in Int
    BY SortedFacts DEF AreTotals
<1>3. ASSUME NEW i \in DOMAIN s PROVE r[i] = step(r, i)
    <2> DEFINE A == {j \in DOMAIN s : total[s[j]] > total[s[i]]}
    <2>0. i \in 1..n /\ r[i] = Cardinality(Better(total, s[i])) + 1
        BY <1>2
    <2>1. CASE i > 1 /\ total[s[i]] = total[s[i - 1]]
        <3>1. i - 1 \in DOMAIN s
            BY <2>0, <2>1, <1>2
        <3>2. Better(total, s[i - 1]) = Better(total, s[i])
            BY <2>1 DEF Better
        <3>3. r[i - 1] = r[i]
            BY <3>1, <3>2
        <3> QED BY <2>1, <3>3
    <2>2. CASE ~ (i > 1 /\ total[s[i]] = total[s[i - 1]])
        <3>1. ASSUME NEW j \in 1..n PROVE total[s[j]] > total[s[i]] <=> j \in 1..(i - 1)
            <4>1. total[s[j]] \in Int /\ total[s[i]] \in Int
                BY <2>0, <1>2
            <4>2. CASE j >= i
                <5>1. total[s[i]] >= total[s[j]]
                    BY <4>2, <2>0, <1>2, <4>1
                <5> QED BY <5>1, <4>1, <4>2, <2>0, <1>2
            <4>3. CASE j < i
                <5>1. i > 1 /\ i - 1 \in 1..n
                    BY <4>3, <2>0, <1>2
                <5>2. /\ total[s[j]] >= total[s[i - 1]] /\ total[s[i - 1]] >= total[s[i]]
                      /\ total[s[i - 1]] \in Int
                    <6>1. j = i - 1 \/ j < i - 1
                        BY <4>3, <2>0, <1>2
                    <6>2. i - 1 < i
                        BY <2>0, <1>2
                    <6>3. total[s[i - 1]] \in Int
                        BY <5>1, <1>2
                    <6> QED BY <6>1, <6>2, <6>3, <5>1, <1>2, <2>0, <4>1
                <5>3. total[s[i - 1]] # total[s[i]]
                    BY <5>1, <2>2
                <5> QED BY <5>1, <5>2, <5>3, <4>1, <4>3, <2>0, <1>2
            <4> QED BY <4>2, <4>3, <2>0, <1>2
        <3>2. A = 1..(i - 1)
            <4>1. 1..(i - 1) \subseteq 1..n
                BY <2>0, <1>2
            <4> QED BY <3>1, <4>1, <1>2
        <3>3. Cardinality(1..(i - 1)) = i - 1
            <4>1. 1 \in Int /\ i - 1 \in Int /\ i \in Nat /\ i >= 1
                BY <2>0, <1>2
            <4>2. Cardinality(1..(i - 1)) = IF 1 > i - 1 THEN 0 ELSE i - 1 - 1 + 1
                BY <4>1, FS_Interval
            <4> QED BY <4>1, <4>2
        <3>4. Cardinality(Better(total, s[i])) = i - 1
            BY <3>2, <3>3, AheadIsBetter
        <3>5. r[i] = i
            BY <3>4, <2>0, <1>2
        <3> QED BY <3>5, <2>2
    <2> QED BY <2>1, <2>2
<1>4. P(r)
    <2>1. r = [i \in DOMAIN s |-> r[i]]
        OBVIOUS
    <2> HIDE DEF r, step
    <2> QED BY <2>1, <1>3
<1>5. ASSUME NEW g, P(g), NEW i \in DOMAIN s PROVE g[i] = r[i]
    <2> DEFINE C == {j \in DOMAIN s : g[j] # r[j]}
    <2> SUFFICES ASSUME C # {} PROVE FALSE
        OBVIOUS
    <2>0. C \in SUBSET Nat
        BY <1>2
    <2>1. PICK j \in C : \A k \in C : j <= k
        <3> HIDE DEF C, P
        <3> QED BY <2>0, LeastNat
    <2>2. j \in DOMAIN s /\ g[j] # r[j]
        BY <2>1
    <2>3. g[j] = step(g, j) /\ r[j] = step(r, j)
        <3> HIDE DEF step, r
        <3> QED BY <1>5, <1>3, <2>2
    <2>4. j > 1 /\ g[j - 1] # r[j - 1]
        <3> HIDE DEF r, P, C
        <3> QED BY <2>2, <2>3
    <2>5. j - 1 \in DOMAIN s /\ ~ (j <= j - 1)
        BY <2>4, <2>2, <1>2
    <2>6. j - 1 \in C
        BY <2>4, <2>5
    <2> HIDE DEF C, P, r
    <2> QED BY <2>1, <2>5, <2>6
<1> HIDE DEF P
<1>6. P(CHOOSE g : P(g))
    BY <1>4
<1>7. \A i \in DOMAIN s : (CHOOSE g : P(g))[i] = r[i]
    <2> HIDE DEF r
    <2> QED BY <1>6, <1>5
<1> QED BY <1>1, <1>7

\* Fewer are better than who has more points.
LEMMA BetterFacts ==
    ASSUME NEW total, AreTotals(total), NEW e \in DOMAIN total, NEW f \in DOMAIN total
    PROVE  /\ IsFiniteSet(Better(total, e))
           /\ Cardinality(Better(total, e)) \in 0..(Cardinality(DOMAIN total) - 1)
           /\ Cardinality(Better(total, e)) = 0 <=> Better(total, e) = {}
           /\ total[e] = total[f] => Better(total, e) = Better(total, f)
           /\ total[e] > total[f] => Cardinality(Better(total, e)) < Cardinality(Better(total, f))
<1> DEFINE E == DOMAIN total
<1>1. IsFiniteSet(E) /\ Cardinality(E) \in Nat /\ \A x \in E : total[x] \in Int
    BY FS_CardinalityType DEF AreTotals
<1>2. \A x \in E : /\ Better(total, x) \in SUBSET E /\ x \notin Better(total, x)
                   /\ IsFiniteSet(Better(total, x)) /\ Cardinality(Better(total, x)) \in Nat
                   /\ (Cardinality(Better(total, x)) = 0 <=> Better(total, x) = {})
                   /\ Cardinality(Better(total, x)) < Cardinality(E)
    <2> TAKE x \in E
    <2>1. Better(total, x) \in SUBSET E /\ x \notin Better(total, x)
        BY <1>1 DEF Better
    <2>2. IsFiniteSet(Better(total, x)) /\ Cardinality(Better(total, x)) <= Cardinality(E)
          /\ Cardinality(Better(total, x)) # Cardinality(E)
        BY <2>1, <1>1, FS_Subset
    <2>3. Cardinality(Better(total, x)) \in Nat
        BY <2>2, FS_CardinalityType
    <2>4. Cardinality(Better(total, x)) = 0 <=> Better(total, x) = {}
        BY <2>2, FS_EmptySet
    <2> QED BY <2>1, <2>2, <2>3, <2>4, <1>1
<1>3. total[e] = total[f] => Better(total, e) = Better(total, f)
    BY DEF Better
<1>4. ASSUME total[e] > total[f]
      PROVE  Cardinality(Better(total, e)) < Cardinality(Better(total, f))
    <2>1. Better(total, e) \in SUBSET Better(total, f)
        BY <1>1, <1>4 DEF Better
    <2>2. e \in Better(total, f) /\ e \notin Better(total, e)
        BY <1>1, <1>4 DEF Better
    <2>3. Cardinality(Better(total, e)) <= Cardinality(Better(total, f))
          /\ Cardinality(Better(total, e)) # Cardinality(Better(total, f))
        BY <2>1, <2>2, <1>2, FS_Subset
    <2> QED BY <2>3, <1>2
<1> QED BY <1>1, <1>2, <1>3, <1>4

\* Two have the same rank if they have the same points, and the first rank if nobody
\* has more.
LEMMA RankFacts ==
    ASSUME NEW total, AreTotals(total), NEW s \in Sorted(total)
    PROVE  LET r == Ranks(total, s) IN
           /\ DOMAIN r = DOMAIN s
           /\ \A i \in DOMAIN s : /\ r[i] = Cardinality(Better(total, s[i])) + 1
                                  /\ r[i] \in DOMAIN s
                                  /\ r[i] = 1 <=> Better(total, s[i]) = {}
           /\ \A i, j \in DOMAIN s : r[i] = r[j] <=> total[s[i]] = total[s[j]]
<1> DEFINE n == Cardinality(DOMAIN total)
           r == Ranks(total, s)
<1>1. /\ n \in Nat /\ DOMAIN s = 1..n /\ s \in [1..n -> DOMAIN total]
      /\ \A e \in DOMAIN total : total[e] \in Int
    BY SortedFacts DEF AreTotals
<1>2. DOMAIN r = DOMAIN s /\ \A i \in DOMAIN s : r[i] = Cardinality(Better(total, s[i])) + 1
    BY RanksCountBetter
<1> HIDE DEF r
<1>3. ASSUME NEW i \in DOMAIN s
      PROVE  r[i] \in DOMAIN s /\ (r[i] = 1 <=> Better(total, s[i]) = {})
    <2>1. s[i] \in DOMAIN total
        BY <1>1
    <2>2. /\ Cardinality(Better(total, s[i])) \in 0..(n - 1)
          /\ Cardinality(Better(total, s[i])) = 0 <=> Better(total, s[i]) = {}
        BY <2>1, BetterFacts
    <2> HIDE DEF n
    <2> QED BY <2>2, <1>1, <1>2
<1>4. ASSUME NEW i \in DOMAIN s, NEW j \in DOMAIN s
      PROVE  r[i] = r[j] <=> total[s[i]] = total[s[j]]
    <2>1. s[i] \in DOMAIN total /\ s[j] \in DOMAIN total
        BY <1>1
    <2>2. total[s[i]] \in Int /\ total[s[j]] \in Int
        BY <1>1, <2>1
    <2>3. /\ Cardinality(Better(total, s[i])) \in 0..(n - 1)
          /\ Cardinality(Better(total, s[j])) \in 0..(n - 1)
          /\ total[s[i]] = total[s[j]] => Better(total, s[i]) = Better(total, s[j])
          /\ total[s[i]] > total[s[j]]
                => Cardinality(Better(total, s[i])) < Cardinality(Better(total, s[j]))
          /\ total[s[j]] > total[s[i]]
                => Cardinality(Better(total, s[j])) < Cardinality(Better(total, s[i]))
        BY <2>1, BetterFacts
    <2>4. r[i] = Cardinality(Better(total, s[i])) + 1 /\ r[j] = Cardinality(Better(total, s[j])) + 1
        BY <1>2
    <2> HIDE DEF n
    <2> QED BY <2>2, <2>3, <2>4, <1>1
<1> QED BY <1>2, <1>3, <1>4 DEF r

\* What the standings say, in terms of the totals.
StandingsOf(st, total) ==
    /\ Cardinality(DOMAIN total) \in Nat /\ DOMAIN st = 1..Cardinality(DOMAIN total)
    /\ st = [i \in DOMAIN st |-> st[i]]
    /\ \A i \in DOMAIN st :
        /\ st[i].id \in DOMAIN total /\ st[i].total = total[st[i].id]
        /\ st[i].rank = Cardinality(Better(total, st[i].id)) + 1 /\ st[i].rank \in DOMAIN st
        /\ st[i].rank = 1 <=> Better(total, st[i].id) = {}
        /\ st[i].tied <=> \E j \in DOMAIN st \ {i} : st[j].total = st[i].total
        /\ \A j \in DOMAIN st : /\ i # j => st[i].id # st[j].id
                                /\ i < j => st[i].total >= st[j].total
    /\ \A e \in DOMAIN total : \E i \in DOMAIN st : st[i].id = e

LEMMA StandingsFacts ==
    ASSUME NEW total, AreTotals(total), NEW s \in Sorted(total)
    PROVE  StandingsOf(Standings(total, s), total)
<1> DEFINE n == Cardinality(DOMAIN total)
           r == Ranks(total, s)
           st == Standings(total, s)
<1>1. /\ n \in Nat /\ DOMAIN s = 1..n /\ s \in [1..n -> DOMAIN total]
      /\ \A i, j \in 1..n : i # j => s[i] # s[j]
      /\ \A e \in DOMAIN total : \E i \in 1..n : s[i] = e
      /\ \A i, j \in 1..n : i < j => total[s[i]] >= total[s[j]]
    BY SortedFacts
<1>2. /\ \A i \in DOMAIN s : /\ r[i] = Cardinality(Better(total, s[i])) + 1
                             /\ r[i] \in DOMAIN s
                             /\ r[i] = 1 <=> Better(total, s[i]) = {}
      /\ \A i, j \in DOMAIN s : r[i] = r[j] <=> total[s[i]] = total[s[j]]
    BY RankFacts
<1> HIDE DEF r
<1>3. /\ DOMAIN st = DOMAIN s /\ st = [i \in DOMAIN st |-> st[i]]
      /\ \A i \in DOMAIN s : /\ st[i].id = s[i] /\ st[i].total = total[s[i]] /\ st[i].rank = r[i]
                             /\ st[i].tied <=> \E j \in DOMAIN s \ {i} : r[j] = r[i]
    BY DEF Standings, r
<1> HIDE DEF st, n
<1>4. ASSUME NEW i \in DOMAIN st
      PROVE  /\ st[i].id \in DOMAIN total /\ st[i].total = total[st[i].id]
             /\ st[i].rank = Cardinality(Better(total, st[i].id)) + 1 /\ st[i].rank \in DOMAIN st
             /\ st[i].rank = 1 <=> Better(total, st[i].id) = {}
             /\ st[i].tied <=> \E j \in DOMAIN st \ {i} : st[j].total = st[i].total
             /\ \A j \in DOMAIN st : /\ i # j => st[i].id # st[j].id
                                     /\ i < j => st[i].total >= st[j].total
    <2>1. /\ st[i].id \in DOMAIN total /\ st[i].total = total[st[i].id]
          /\ st[i].rank = Cardinality(Better(total, st[i].id)) + 1 /\ st[i].rank \in DOMAIN st
          /\ st[i].rank = 1 <=> Better(total, st[i].id) = {}
        BY <1>1, <1>2, <1>3
    <2>2. st[i].tied <=> \E j \in DOMAIN st \ {i} : st[j].total = st[i].total
        BY <1>2, <1>3
    <2>3. \A j \in DOMAIN st : /\ i # j => st[i].id # st[j].id
                               /\ i < j => st[i].total >= st[j].total
        BY <1>1, <1>3
    <2> QED BY <2>1, <2>2, <2>3
<1>5. \A e \in DOMAIN total : \E i \in DOMAIN st : st[i].id = e
    BY <1>1, <1>3
<1> QED BY <1>1, <1>3, <1>4, <1>5 DEF StandingsOf, st, n

\* Two have the first rank: the set has more than one element.
LEMMA MoreThanOne ==
    ASSUME NEW S, IsFiniteSet(S)
    PROVE  Cardinality(S) > 1 <=> \E x, y \in S : x # y
<1>1. Cardinality(S) \in Nat /\ (Cardinality(S) = 0 <=> S = {})
    BY FS_CardinalityType, FS_EmptySet
<1>2. Cardinality(S) = 1 <=> \E x : S = {x}
    BY FS_Singleton
<1>3. (\E x, y \in S : x # y) <=> S # {} /\ ~ \E x : S = {x}
    <2>1. ASSUME S # {}, ~ \E x : S = {x} PROVE \E x, y \in S : x # y
        <3>1. PICK x \in S : TRUE
            BY <2>1
        <3>2. S # {x}
            BY <2>1
        <3> QED BY <3>1, <3>2
    <2>2. ASSUME NEW x \in S, NEW y \in S, x # y PROVE S # {} /\ ~ \E z : S = {z}
        BY <2>2
    <2> QED BY <2>1, <2>2
<1> QED BY <1>1, <1>2, <1>3

\* The winner is who has more points than everybody else; without one the first place
\* is shared, or nobody is there.
LEMMA WinnerFacts ==
    ASSUME NEW total, NEW st, AreTotals(total), StandingsOf(st, total), None \notin DOMAIN total
    PROVE  /\ st = <<>> <=> DOMAIN total = {}
           /\ TiedForFirst(st) <=> \E i, j \in DOMAIN st : i # j /\ st[i].rank = 1 /\ st[j].rank = 1
           /\ \A e \in DOMAIN total :
                Winner(st) = e <=> \A f \in DOMAIN total \ {e} : total[f] < total[e]
           /\ Winner(st) = None <=> (DOMAIN total = {} \/ TiedForFirst(st))
           /\ Winner(st) # None => \E i \in DOMAIN st : st[i].id = Winner(st) /\ st[i].rank = 1
<1> DEFINE n == Cardinality(DOMAIN total)
<1>1. /\ n \in Nat /\ DOMAIN st = 1..n
      /\ \A i \in DOMAIN st :
          /\ st[i].id \in DOMAIN total /\ st[i].total = total[st[i].id]
          /\ st[i].rank = 1 <=> Better(total, st[i].id) = {}
          /\ \A j \in DOMAIN st : /\ i # j => st[i].id # st[j].id
                                  /\ i < j => st[i].total >= st[j].total
      /\ \A e \in DOMAIN total : \E i \in DOMAIN st : st[i].id = e
    BY DEF StandingsOf
<1>2. IsFiniteSet(DOMAIN total) /\ (n = 0 <=> DOMAIN total = {}) /\ \A e \in DOMAIN total : total[e] \in Int
    BY FS_EmptySet DEF AreTotals
<1> HIDE DEF n
<1>3. st = <<>> <=> DOMAIN total = {}
    <2>1. st = <<>> => DOMAIN total = {}
        <3>1. st = <<>> => DOMAIN st = {}
            OBVIOUS
        <3> QED BY <3>1, <1>1
    <2>2. DOMAIN total = {} => st = <<>>
        <3>1. DOMAIN total = {} => DOMAIN st = {} /\ st = [i \in {} |-> st[i]]
            BY <1>1, <1>2 DEF StandingsOf
        <3> QED BY <3>1
    <2> QED BY <2>1, <2>2
<1>4. TiedForFirst(st) <=> \E i, j \in DOMAIN st : i # j /\ st[i].rank = 1 /\ st[j].rank = 1
    <2> DEFINE F == {i \in DOMAIN st : st[i].rank = 1}
    <2>1. IsFiniteSet(F)
        <3>1. IsFiniteSet(1..n) /\ F \in SUBSET (1..n)
            BY <1>1, FS_Interval
        <3> QED BY <3>1, FS_Subset
    <2>2. Cardinality(F) > 1 <=> \E i, j \in F : i # j
        BY <2>1, MoreThanOne
    <2> QED BY <2>2 DEF TiedForFirst
<1>5. CASE DOMAIN total = {}
    <2>1. Winner(st) = None
        BY <1>3, <1>5 DEF Winner
    <2> QED BY <2>1, <1>3, <1>4, <1>5
<1>6. CASE DOMAIN total # {}
    <2>1. 1 \in DOMAIN st /\ st # <<>>
        BY <1>1, <1>2, <1>3, <1>6
    <2>2. \A i \in DOMAIN st : st[i].total \in Int /\ st[1].total >= st[i].total
        <3> TAKE i \in DOMAIN st
        <3>1. st[i].total \in Int /\ st[1].total \in Int
            BY <2>1, <1>1, <1>2
        <3>2. i = 1 \/ 1 < i
            BY <1>1
        <3>3. 1 < i => st[1].total >= st[i].total
            BY <2>1, <1>1
        <3> QED BY <3>1, <3>2, <3>3
    <2>3. \A i \in DOMAIN st : st[i].rank = 1 <=> st[i].total = st[1].total
        <3> TAKE i \in DOMAIN st
        <3>1. ASSUME st[i].total = st[1].total PROVE Better(total, st[i].id) = {}
            <4> SUFFICES ASSUME NEW f \in Better(total, st[i].id) PROVE FALSE
                OBVIOUS
            <4>1. f \in DOMAIN total /\ total[f] > total[st[i].id]
                BY DEF Better
            <4>2. PICK j \in DOMAIN st : st[j].id = f
                BY <4>1, <1>1
            <4>3. st[j].total = total[f] /\ st[i].total = total[st[i].id]
                BY <4>2, <1>1
            <4> QED BY <4>1, <4>3, <3>1, <2>1, <2>2
        <3>2. ASSUME Better(total, st[i].id) = {} PROVE st[i].total = st[1].total
            <4>1. st[1].id \in DOMAIN total /\ ~ (total[st[1].id] > total[st[i].id])
                BY <3>2, <2>1, <1>1 DEF Better
            <4>2. st[1].total = total[st[1].id] /\ st[i].total = total[st[i].id]
                BY <2>1, <1>1
            <4> QED BY <4>1, <4>2, <2>1, <2>2
        <3>3. st[i].rank = 1 <=> Better(total, st[i].id) = {}
            BY <1>1
        <3> QED BY <3>1, <3>2, <3>3
    <2>4. TiedForFirst(st) <=> \E i \in DOMAIN st \ {1} : st[i].total = st[1].total /\ st[i].rank = 1
        BY <1>4, <2>1, <2>3
    <2>5. Winner(st) = IF TiedForFirst(st) THEN None ELSE st[1].id
        BY <2>1, <2>4 DEF Winner
    <2>6. st[1].id \in DOMAIN total /\ st[1].id # None
        BY <2>1, <1>1
    <2>7. Winner(st) = None <=> TiedForFirst(st)
        BY <2>5, <2>6
    <2>8. Winner(st) # None => \E i \in DOMAIN st : st[i].id = Winner(st) /\ st[i].rank = 1
        BY <2>5, <2>1, <2>3
    <2>9. ASSUME NEW e \in DOMAIN total
          PROVE  Winner(st) = e <=> \A f \in DOMAIN total \ {e} : total[f] < total[e]
        <3>0. PICK i \in DOMAIN st : st[i].id = e
            BY <1>1
        <3>1. e # None /\ st[i].total = total[e] /\ st[1].total = total[st[1].id]
            BY <3>0, <2>1, <1>1
        <3>2. ASSUME ~ TiedForFirst(st), st[1].id = e, NEW f \in DOMAIN total \ {e}
              PROVE  total[f] < total[e]
            <4>1. PICK j \in DOMAIN st : st[j].id = f
                BY <1>1
            <4>2. j # 1 /\ st[j].total = total[f]
                BY <4>1, <3>2, <1>1
            <4>3. st[j].total # st[1].total
                BY <4>2, <3>2, <2>3, <2>4
            <4> QED BY <4>2, <4>3, <2>2, <2>1, <3>1, <3>2
        <3>3. ASSUME \A f \in DOMAIN total \ {e} : total[f] < total[e]
              PROVE  ~ TiedForFirst(st) /\ st[1].id = e
            <4>1. st[1].id = e
                <5>1. total[st[1].id] >= total[e] /\ total[e] \in Int /\ total[st[1].id] \in Int
                    BY <3>1, <2>2, <2>1
                <5> QED BY <5>1, <3>3, <2>6
            <4>2. ASSUME NEW j \in DOMAIN st \ {1}, st[j].total = st[1].total PROVE FALSE
                <5>1. st[j].id \in DOMAIN total \ {e} /\ st[j].total = total[st[j].id]
                    BY <4>1, <2>1, <1>1
                <5>2. total[st[j].id] < total[e]
                    BY <5>1, <3>3
                <5> QED BY <5>1, <5>2, <4>1, <4>2, <2>1, <2>2, <3>1
            <4> QED BY <4>1, <4>2, <2>4
        <3> QED BY <3>1, <3>2, <3>3, <2>5
    <2> QED BY <1>3, <1>4, <1>6, <2>7, <2>8, <2>9
<1> QED BY <1>5, <1>6

-----------------------------------------------------------------------------
(* The sums of the model.                                                    *)

RowsOK == rows \in [Ids -> Row \cup {None}]

PointsOf == [i \in Ids |-> rows[i].points]
Existing == {i \in Ids : Exists(i)}

\* What Sum adds up is the points of the rows.
LEMMA SumOfRows ==
    ASSUME RowsOK, NEW is \in SUBSET Existing
    PROVE  /\ IsFiniteSet(is) /\ \A i \in is : PointsOf[i] \in Int
           /\ Sum(is) = SumOf(PointsOf, is)
<1>1. is \in SUBSET Ids /\ IsFiniteSet(is)
    BY ConstantsAssumption, FS_Subset DEF Existing
<1>2. \A i \in is : PointsOf[i] = rows[i].points /\ PointsOf[i] \in Int
    BY DEF RowsOK, Row, PointsOf, Existing, Exists
<1> DEFINE one(s) == CHOOSE x \in s : TRUE
           P(g) == g = [s \in SUBSET is |-> IF s = {} THEN 0 ELSE PointsOf[one(s)] + g[s \ {one(s)}]]
           Q(g) == g = [s \in SUBSET is |-> IF s = {} THEN 0 ELSE rows[one(s)].points + g[s \ {one(s)}]]
<1>3. Sum(is) = (CHOOSE g : Q(g))[is]
    BY DEF Sum, MapThenSumSet, MapThenFoldSet
<1>4. SumOf(PointsOf, is) = (CHOOSE g : P(g))[is]
    BY DEF SumOf, MapThenSumSet, MapThenFoldSet
<1>5. \A g : P(g) <=> Q(g)
    <2> TAKE g
    <2>1. \A s \in SUBSET is : s # {} => PointsOf[one(s)] = rows[one(s)].points
        <3> TAKE s \in SUBSET is
        <3>1. s # {} => one(s) \in s
            OBVIOUS
        <3> QED BY <3>1, <1>2
    <2> HIDE DEF one
    <2>2. [s \in SUBSET is |-> IF s = {} THEN 0 ELSE PointsOf[one(s)] + g[s \ {one(s)}]]
          = [s \in SUBSET is |-> IF s = {} THEN 0 ELSE rows[one(s)].points + g[s \ {one(s)}]]
        BY <2>1
    <2> QED BY <2>2
<1> HIDE DEF P, Q
<1>6. (CHOOSE g : P(g)) = (CHOOSE g : Q(g))
    BY <1>5
<1> QED BY <1>1, <1>2, <1>3, <1>4, <1>6

\* The rows of an entrant exist.
LEMMA RowsOfFacts ==
    ASSUME NEW g, NEW e
    PROVE  RowsOf(g, e) \in SUBSET Existing
BY DEF RowsOf, Existing

\* The image of the rows under one of their fields.
LEMMA KeysAreFinite ==
    ASSUME NEW S, IsFiniteSet(S), NEW K, NEW key \in [S -> K], \A k \in K : \E x \in S : key[x] = k
    PROVE  IsFiniteSet(K)
<1>1. key \in Surjection(S, K)
    BY DEF Surjection
<1> QED BY <1>1, FS_Surjection

\* Adding an entrant's rounds is adding his rows.
LEMMA TotalIsScored ==
    ASSUME RowsOK, NEW g, NEW e
    PROVE  Total(g, e) = Scored(g, e) /\ Total(g, e) \in Int
<1> DEFINE S == RowsOf(g, e)
           K == RoundsOf(g, e)
           key == [i \in S |-> rows[i].round]
           of == [r \in K |-> RoundPoints(g, e, r)]
           one(s) == CHOOSE x \in s : TRUE
           P(h) == h = [s \in SUBSET K |-> IF s = {} THEN 0 ELSE of[one(s)] + h[s \ {one(s)}]]
           Q(h) == h = [s \in SUBSET K |->
                          IF s = {} THEN 0 ELSE RoundPoints(g, e, one(s)) + h[s \ {one(s)}]]
<1>1. S \in SUBSET Existing /\ IsFiniteSet(S) /\ \A i \in S : PointsOf[i] \in Int
    BY RowsOfFacts, SumOfRows
<1>2. Scored(g, e) = SumOf(PointsOf, S) /\ SumOf(PointsOf, S) \in Int
    BY <1>1, SumOfRows, SumFacts DEF Scored
<1>3. key \in [S -> K] /\ \A r \in K : \E i \in S : key[i] = r
    BY DEF RoundsOf
<1>4. IsFiniteSet(K)
    <2> HIDE DEF key, K, S
    <2> QED BY <1>1, <1>3, KeysAreFinite
<1>5. ASSUME NEW r \in K PROVE of[r] = SumOf(PointsOf, {i \in S : key[i] = r})
    <2>1. {i \in S : key[i] = r} = {i \in RowsOf(g, e) : rows[i].round = r}
        OBVIOUS
    <2>2. {i \in RowsOf(g, e) : rows[i].round = r} \in SUBSET Existing
        BY <1>1
    <2>3. of[r] = Sum({i \in RowsOf(g, e) : rows[i].round = r})
        BY DEF RoundPoints
    <2> HIDE DEF of, key, S, K
    <2> QED BY <2>1, <2>2, <2>3, SumOfRows
<1>6. SumOf(of, K) = SumOf(PointsOf, S)
    <2> HIDE DEF S, K, key, of
    <2>1. \A r \in K : of[r] = SumOf(PointsOf, Group(S, key, r))
        BY <1>5 DEF Group
    <2>2. IsFiniteSet(S) /\ (\A i \in S : PointsOf[i] \in Int) /\ key \in [S -> K]
        BY <1>1, <1>3
    <2>3. Grouped(S, PointsOf, K, key, of)
        BY <2>1, <2>2, <1>4 DEF Grouped
    <2> QED BY <2>3, SumOfGroups
<1>7. Total(g, e) = (CHOOSE h : Q(h))[K]
    BY DEF Total, MapThenSumSet, MapThenFoldSet
<1>8. SumOf(of, K) = (CHOOSE h : P(h))[K]
    BY DEF SumOf, MapThenSumSet, MapThenFoldSet
<1>9. \A h : P(h) <=> Q(h)
    <2> TAKE h
    <2>1. \A s \in SUBSET K : s # {} => of[one(s)] = RoundPoints(g, e, one(s))
        <3> TAKE s \in SUBSET K
        <3>1. s # {} => one(s) \in K
            OBVIOUS
        <3> HIDE DEF one, K
        <3> QED BY <3>1
    <2> HIDE DEF one, of
    <2>2. [s \in SUBSET K |-> IF s = {} THEN 0 ELSE of[one(s)] + h[s \ {one(s)}]]
          = [s \in SUBSET K |-> IF s = {} THEN 0 ELSE RoundPoints(g, e, one(s)) + h[s \ {one(s)}]]
        BY <2>1
    <2> QED BY <2>2
<1> HIDE DEF P, Q
<1>10. (CHOOSE h : P(h)) = (CHOOSE h : Q(h))
    BY <1>9
<1> QED BY <1>2, <1>6, <1>7, <1>8, <1>10

\* The totals of a game are of its entrants, who are finitely many.
LEMMA TotalsFacts ==
    ASSUME RowsOK, NEW g \in Games
    PROVE  /\ AreTotals(Totals(g)) /\ None \notin DOMAIN Totals(g)
           /\ DOMAIN Totals(g) = EntrantsOf(g) /\ EntrantsOf(g) \subseteq Entrants
           /\ \A e \in EntrantsOf(g) : Totals(g)[e] = Scored(g, e)
<1>1. DOMAIN Totals(g) = EntrantsOf(g) /\ \A e \in EntrantsOf(g) : Totals(g)[e] = Total(g, e)
    BY DEF Totals
<1>2. EntrantsOf(g) \subseteq Entrants
    BY DEF EntrantsOf, TeamsOf, Entrants
<1>3. IsFiniteSet(Entrants) /\ None \notin Entrants
    BY ConstantsAssumption, FS_Union DEF Entrants
<1>4. IsFiniteSet(EntrantsOf(g))
    BY <1>2, <1>3, FS_Subset
<1> QED BY <1>1, <1>2, <1>3, <1>4, TotalIsScored DEF AreTotals

\* The standings of any score rows are fair.
LEMMA RowsAreRankedFairly == RowsOK => RankedFairly
<1> SUFFICES ASSUME RowsOK PROVE RankedFairly
    OBVIOUS
<1> SUFFICES ASSUME NEW g \in Games, NEW s \in Sorted(Totals(g))
             PROVE  LET total     == Totals(g)
                        scored    == [e \in EntrantsOf(g) |-> Scored(g, e)]
                        better(e) == {f \in DOMAIN scored : scored[f] > scored[e]}
                        level(e)  == {f \in DOMAIN scored \ {e} : scored[f] = scored[e]}
                        st        == Standings(total, s)
                    IN /\ \A i \in DOMAIN st :
                           /\ st[i].rank = Cardinality(better(st[i].id)) + 1
                           /\ st[i].tied <=> level(st[i].id) # {}
                       /\ \A e \in DOMAIN scored :
                           Winner(st) = e <=> better(e) = {} /\ level(e) = {}
                       /\ Winner(st) = None => scored = <<>> \/ TiedForFirst(st)
    BY DEF RankedFairly
<1> DEFINE total     == Totals(g)
           scored    == [e \in EntrantsOf(g) |-> Scored(g, e)]
           better(e) == {f \in DOMAIN scored : scored[f] > scored[e]}
           level(e)  == {f \in DOMAIN scored \ {e} : scored[f] = scored[e]}
           st        == Standings(total, s)
<1>1. /\ AreTotals(total) /\ None \notin DOMAIN total
      /\ DOMAIN total = EntrantsOf(g) /\ \A e \in EntrantsOf(g) : total[e] = Scored(g, e)
    BY TotalsFacts
<1>2. scored = total
    BY <1>1 DEF Totals
<1>3. StandingsOf(st, total)
    BY <1>1, StandingsFacts
<1> HIDE DEF scored, st, total
<1>4. \A e : better(e) = Better(total, e)
    BY <1>2 DEF Better
<1>5. ASSUME NEW i \in DOMAIN st
      PROVE  /\ st[i].rank = Cardinality(better(st[i].id)) + 1
             /\ st[i].tied <=> level(st[i].id) # {}
    <2>1. st[i].rank = Cardinality(better(st[i].id)) + 1
        <3> HIDE DEF better
        <3> QED BY <1>3, <1>4 DEF StandingsOf
    <2>2. ASSUME NEW j \in DOMAIN st \ {i}, st[j].total = st[i].total
          PROVE  st[j].id \in level(st[i].id)
        BY <1>2, <1>3, <2>2 DEF StandingsOf
    <2>3. ASSUME NEW f \in level(st[i].id)
          PROVE  \E j \in DOMAIN st \ {i} : st[j].total = st[i].total
        BY <1>2, <1>3, <2>3 DEF StandingsOf
    <2>4. st[i].tied <=> \E j \in DOMAIN st \ {i} : st[j].total = st[i].total
        BY <1>3 DEF StandingsOf
    <2> HIDE DEF level
    <2> QED BY <2>1, <2>2, <2>3, <2>4
<1>6. /\ \A e \in DOMAIN total : Winner(st) = e <=> \A f \in DOMAIN total \ {e} : total[f] < total[e]
      /\ Winner(st) = None <=> (DOMAIN total = {} \/ TiedForFirst(st))
    BY <1>1, <1>3, WinnerFacts
<1>7. ASSUME NEW e \in DOMAIN scored
      PROVE  Winner(st) = e <=> better(e) = {} /\ level(e) = {}
    <2>1. \A f \in DOMAIN total : total[f] \in Int
        BY <1>1 DEF AreTotals
    <2> QED BY <1>2, <1>6, <2>1
<1>8. DOMAIN total = {} => scored = <<>>
    BY <1>2 DEF scored
<1> QED BY <1>5, <1>6, <1>7, <1>8 DEF scored, st, total

-----------------------------------------------------------------------------
(* The leaderboard.                                                          *)

RowsOfTeam(t) == {i \in Ids : Exists(i) /\ rows[i].team = t}

\* The points of a team in a game are those of its rows.
LEMMA TeamRowsFacts ==
    ASSUME RowsOK, NEW t, NEW g
    PROVE  /\ RowsOfTeam(t) \in SUBSET Existing /\ TeamRows(t, g) \in SUBSET Existing
           /\ GamePoints(t, g) = SumOf(PointsOf, TeamRows(t, g)) /\ GamePoints(t, g) \in Int
<1>1. RowsOfTeam(t) \in SUBSET Existing /\ TeamRows(t, g) \in SUBSET Existing
    BY DEF RowsOfTeam, TeamRows, Existing
<1>2. /\ IsFiniteSet(TeamRows(t, g)) /\ \A i \in TeamRows(t, g) : PointsOf[i] \in Int
      /\ Sum(TeamRows(t, g)) = SumOf(PointsOf, TeamRows(t, g))
    BY <1>1, SumOfRows
<1>3. SumOf(PointsOf, TeamRows(t, g)) \in Int
    BY <1>2, SumFacts
<1> QED BY <1>1, <1>2, <1>3 DEF GamePoints

\* Adding a team's games is adding its rows, whatever their modes.
LEMMA BoardTotalIsAll ==
    ASSUME RowsOK, NEW t \in Teams
    PROVE  /\ t \in BoardTeams <=> RowsOfTeam(t) # {}
           /\ t \in BoardTeams => BoardTotal[t] = Sum(RowsOfTeam(t)) /\ BoardTotal[t] \in Int
<1> DEFINE S == RowsOfTeam(t)
           K == GamesOf(t)
           key == [i \in S |-> rows[i].game]
           of == [g \in K |-> GamePoints(t, g)]
           one(s) == CHOOSE x \in s : TRUE
           P(h) == h = [s \in SUBSET K |-> IF s = {} THEN 0 ELSE of[one(s)] + h[s \ {one(s)}]]
           Q(h) == h = [s \in SUBSET K |->
                          IF s = {} THEN 0 ELSE GamePoints(t, one(s)) + h[s \ {one(s)}]]
<1>1. S \in SUBSET Existing /\ IsFiniteSet(S) /\ \A i \in S : PointsOf[i] \in Int
    BY TeamRowsFacts, SumOfRows
<1>2. Sum(S) = SumOf(PointsOf, S) /\ SumOf(PointsOf, S) \in Int
    <2>1. Sum(S) = SumOf(PointsOf, S)
        BY <1>1, SumOfRows
    <2> QED BY <2>1, <1>1, SumFacts
<1>3. key \in [S -> K] /\ \A g \in K : \E i \in S : key[i] = g
    <2>1. ASSUME NEW i \in S PROVE rows[i].game \in K
        <3>1. rows[i].game \in Games /\ i \in TeamRows(t, rows[i].game)
            BY DEF RowsOfTeam, TeamRows, RowsOK, Row, Exists
        <3> QED BY <3>1 DEF GamesOf
    <2>2. ASSUME NEW g \in K PROVE \E i \in S : key[i] = g
        <3>1. PICK i \in TeamRows(t, g) : TRUE
            BY DEF GamesOf
        <3>2. i \in S /\ rows[i].game = g
            BY DEF TeamRows, RowsOfTeam
        <3> QED BY <3>2
    <2> QED BY <2>1, <2>2
<1>4. IsFiniteSet(K)
    <2> HIDE DEF key, K, S
    <2> QED BY <1>1, <1>3, KeysAreFinite
<1>5. Grouped(S, PointsOf, K, key, of)
    <2>1. ASSUME NEW g \in K PROVE of[g] = SumOf(PointsOf, Group(S, key, g))
        <3>1. Group(S, key, g) = TeamRows(t, g)
            BY DEF Group, RowsOfTeam, TeamRows
        <3>2. of[g] = GamePoints(t, g)
            OBVIOUS
        <3> HIDE DEF of, key, S, K
        <3> QED BY <3>1, <3>2, TeamRowsFacts
    <2> HIDE DEF S, K, key, of
    <2> QED BY <1>1, <1>3, <1>4, <2>1 DEF Grouped
<1>6. SumOf(of, K) = SumOf(PointsOf, S)
    <2> HIDE DEF S, K, key, of
    <2> QED BY <1>5, SumOfGroups
<1>7. t \in BoardTeams => BoardTotal[t] = (CHOOSE h : Q(h))[K]
    BY DEF BoardTotal, MapThenSumSet, MapThenFoldSet
<1>8. SumOf(of, K) = (CHOOSE h : P(h))[K]
    BY DEF SumOf, MapThenSumSet, MapThenFoldSet
<1>9. \A h : P(h) <=> Q(h)
    <2> TAKE h
    <2>1. \A s \in SUBSET K : s # {} => of[one(s)] = GamePoints(t, one(s))
        <3> TAKE s \in SUBSET K
        <3>1. s # {} => one(s) \in K
            OBVIOUS
        <3> HIDE DEF one, K
        <3> QED BY <3>1
    <2> HIDE DEF one, of
    <2>2. [s \in SUBSET K |-> IF s = {} THEN 0 ELSE of[one(s)] + h[s \ {one(s)}]]
          = [s \in SUBSET K |-> IF s = {} THEN 0 ELSE GamePoints(t, one(s)) + h[s \ {one(s)}]]
        BY <2>1
    <2> QED BY <2>2
<1> HIDE DEF P, Q
<1>10. (CHOOSE h : P(h)) = (CHOOSE h : Q(h))
    BY <1>9
<1>11. t \in BoardTeams <=> S # {}
    <2>1. t \in BoardTeams <=> K # {}
        BY DEF BoardTeams
    <2> HIDE DEF S, K
    <2> QED BY <2>1, <1>3
<1> QED BY <1>2, <1>6, <1>7, <1>8, <1>10, <1>11

\* One of finitely many has the most points.
LEMMA BestExists ==
    ASSUME NEW S, IsFiniteSet(S), S # {}, NEW p, \A x \in S : p[x] \in Int
    PROVE  \E x \in S : \A y \in S : p[x] >= p[y]
<1> DEFINE above(x) == {y \in S : p[y] > p[x]}
           C == {T \in SUBSET S : \E x \in S : T = above(x)}
<1>1. C \in SUBSET (SUBSET S) /\ C # {}
    <2>1. PICK x \in S : TRUE
        OBVIOUS
    <2>2. above(x) \in C
        BY <2>1
    <2> QED BY <2>2
<1>2. PICK T \in C : \A U \in C : U \subseteq T => U = T
    <2> HIDE DEF C
    <2> QED BY <1>1, LeastSet
<1>3. PICK x \in S : T = above(x)
    BY <1>2
<1>4. ASSUME NEW y \in S, ~ (p[x] >= p[y]) PROVE FALSE
    <2>1. p[x] \in Int /\ p[y] \in Int /\ p[y] > p[x]
        BY <1>4
    <2>2. above(y) \in C /\ above(y) \subseteq T /\ y \in T /\ y \notin above(y)
        BY <1>3, <2>1
    <2> HIDE DEF above, C
    <2> QED BY <1>2, <2>2
<1> QED BY <1>4

\* Max is the points of one who has the most.
LEMMA MaxOfValues ==
    ASSUME NEW S, IsFiniteSet(S), S # {}, NEW p, \A x \in S : p[x] \in Int
    PROVE  LET best == Max({p[x] : x \in S}) IN
           \E x \in S : best = p[x] /\ \A y \in S : p[x] >= p[y]
<1> DEFINE V == {p[x] : x \in S}
<1>1. PICK x \in S : \A y \in S : p[x] >= p[y]
    BY BestExists
<1>2. p[x] \in V /\ \A v \in V : p[x] >= v
    BY <1>1
<1>3. Max(V) \in V /\ \A v \in V : Max(V) >= v
    <2> HIDE DEF V
    <2> QED BY <1>2 DEF Max
<1>4. PICK z \in S : Max(V) = p[z]
    BY <1>3
<1>5. \A y \in S : p[z] >= p[y]
    BY <1>3, <1>4
<1> QED BY <1>4, <1>5

\* The winner of a game on the board.
LEMMA BoardWinnerFacts ==
    ASSUME RowsOK, NEW g \in Games
    PROVE  /\ BoardWinner(g) \in Teams \cup {None}
           /\ \A t \in Teams :
                BoardWinner(g) = t <=>
                    /\ g \in GamesOf(t)
                    /\ \A u \in Teams \ {t} : g \in GamesOf(u) => GamePoints(t, g) > GamePoints(u, g)
<1> DEFINE entries == {t \in BoardTeams : g \in GamesOf(t)}
           p == [t \in entries |-> GamePoints(t, g)]
           best == Max({GamePoints(t, g) : t \in entries})
           leaders == {t \in entries : GamePoints(t, g) = best}
<1>1. /\ entries = {t \in Teams : g \in GamesOf(t)} /\ entries \in SUBSET Teams
      /\ \A t \in entries : p[t] = GamePoints(t, g) /\ p[t] \in Int
    <2>1. \A t : GamePoints(t, g) \in Int
        BY TeamRowsFacts
    <2>2. entries = {t \in Teams : g \in GamesOf(t)}
        BY DEF BoardTeams
    <2> QED BY <2>1, <2>2
<1>2. IsFiniteSet(entries) /\ IsFiniteSet(leaders) /\ None \notin Teams
    <2>1. IsFiniteSet(Teams) /\ leaders \in SUBSET Teams /\ None \notin Teams
        BY <1>1, ConstantsAssumption
    <2> HIDE DEF entries, leaders
    <2> QED BY <1>1, <2>1, FS_Subset
<1>3. BoardWinner(g) = IF entries # {} /\ Cardinality(leaders) = 1
                       THEN CHOOSE t \in leaders : TRUE ELSE None
    BY DEF BoardWinner
<1>4. Cardinality(leaders) = 1 <=> \E x : leaders = {x}
    BY <1>2, FS_Singleton
<1>5. ASSUME entries # {}
      PROVE  \E x \in entries : best = p[x] /\ \A y \in entries : p[x] >= p[y]
    <2>1. {GamePoints(t, g) : t \in entries} = {p[t] : t \in entries}
        OBVIOUS
    <2>2. \E x \in entries : Max({p[t] : t \in entries}) = p[x] /\ \A y \in entries : p[x] >= p[y]
        <3> HIDE DEF entries, p
        <3> QED BY <1>1, <1>2, <1>5, MaxOfValues
    <2> QED BY <2>1, <2>2
<1>6. \A t \in Teams : BoardWinner(g) = t <=> entries # {} /\ leaders = {t}
    <2> TAKE t \in Teams
    <2>1. t # None
        BY <1>2
    <2> HIDE DEF leaders, entries
    <2> QED BY <2>1, <1>3, <1>4
<1>7. BoardWinner(g) \in Teams \cup {None}
    <2>1. leaders \subseteq Teams
        BY <1>1
    <2> HIDE DEF leaders, entries
    <2> QED BY <2>1, <1>3, <1>4
<1>8. ASSUME NEW t \in Teams, entries # {}, leaders = {t}
      PROVE  /\ g \in GamesOf(t)
             /\ \A u \in Teams \ {t} : g \in GamesOf(u) => GamePoints(t, g) > GamePoints(u, g)
    <2>1. PICK x \in entries : best = p[x] /\ \A y \in entries : p[x] >= p[y]
        BY <1>5, <1>8
    <2> HIDE DEF best
    <2>2. x \in leaders
        BY <2>1
    <2>3. x = t
        BY <2>2, <1>8
    <2>4. ASSUME NEW u \in Teams \ {t}, g \in GamesOf(u) PROVE GamePoints(t, g) > GamePoints(u, g)
        <3>1. u \in entries /\ u \notin leaders
            BY <2>4, <1>1, <1>8
        <3>2. GamePoints(u, g) # GamePoints(t, g)
            BY <3>1, <2>1, <2>3
        <3> QED BY <3>1, <3>2, <2>1, <2>3, <1>1
    <2> QED BY <1>1, <2>3, <2>4
<1>9. ASSUME NEW t \in Teams, g \in GamesOf(t),
             \A u \in Teams \ {t} : g \in GamesOf(u) => GamePoints(t, g) > GamePoints(u, g)
      PROVE  entries # {} /\ leaders = {t}
    <2>1. t \in entries
        BY <1>1, <1>9
    <2>2. PICK x \in entries : best = p[x] /\ \A y \in entries : p[x] >= p[y]
        BY <1>5, <2>1
    <2> HIDE DEF best
    <2>3. x = t
        <3>1. p[x] >= p[t] /\ x \in Teams /\ g \in GamesOf(x) /\ p[x] \in Int /\ p[t] \in Int
            BY <2>1, <2>2, <1>1
        <3>2. x # t => p[t] > p[x]
            BY <3>1, <2>1, <1>1, <1>9
        <3> HIDE DEF p
        <3> QED BY <3>1, <3>2
    <2>4. t \in leaders
        BY <2>1, <2>2, <2>3
    <2>5. ASSUME NEW u \in leaders, u # t PROVE FALSE
        <3>1. u \in Teams \ {t} /\ g \in GamesOf(u) /\ GamePoints(u, g) = GamePoints(t, g)
            BY <1>1, <2>2, <2>3, <2>5
        <3>2. GamePoints(t, g) > GamePoints(u, g) /\ GamePoints(t, g) \in Int
            BY <3>1, <1>9, <1>1, <2>1
        <3> QED BY <3>1, <3>2
    <2> QED BY <2>1, <2>4, <2>5
<1> QED BY <1>6, <1>7, <1>8, <1>9

\* The points of a team game are those of its teams on the board.
LEMMA TeamGameTotals ==
    ASSUME RowsOK, NEW g \in TeamGames
    PROVE  /\ g \in Games /\ DOMAIN Totals(g) \subseteq Teams
           /\ \A t \in DOMAIN Totals(g) : Totals(g)[t] = GamePoints(t, g)
           /\ \A t \in Teams : g \in GamesOf(t) => t \in DOMAIN Totals(g)
<1>1. g \in Games /\ Teams \cap Players = {} /\ None \notin Entrants
    BY ConstantsAssumption DEF Entrants
<1>2. \A e : RowsOf(g, e) = TeamRows(e, g)
    BY DEF RowsOf, EntrantOf, TeamRows
<1>3. \A e \in Entrants : RowsOf(g, e) # {} => e \in Teams
    BY <1>1, <1>2 DEF TeamRows, RowsOK, Row, Exists
<1>4. EntrantsOf(g) \subseteq Teams
    BY <1>3 DEF EntrantsOf, TeamsOf
<1>5. DOMAIN Totals(g) = EntrantsOf(g) /\ \A e \in EntrantsOf(g) : Totals(g)[e] = Scored(g, e)
    BY <1>1, TotalsFacts
<1>6. \A e : Scored(g, e) = GamePoints(e, g)
    BY <1>2 DEF Scored, GamePoints
<1>7. \A t \in Teams : g \in GamesOf(t) => t \in EntrantsOf(g)
    BY <1>2 DEF GamesOf, EntrantsOf, Entrants
<1> QED BY <1>1, <1>4, <1>5, <1>6, <1>7

\* The board and the standings have the same winner of a team game whose best teams
\* have all scored.
LEMMA BoardAgreesWithStandings ==
    ASSUME RowsOK, NEW g \in TeamGames, NEW s \in Sorted(Totals(g)),
           \A t \in DOMAIN Totals(g) :
                g \in GamesOf(t) \/ ~ \A u \in DOMAIN Totals(g) : Totals(g)[u] <= Totals(g)[t]
    PROVE  BoardWinner(g) = Winner(Standings(Totals(g), s))
<1> DEFINE total == Totals(g)
           st == Standings(total, s)
<1>1. /\ g \in Games /\ DOMAIN total \subseteq Teams
      /\ \A t \in DOMAIN total : total[t] = GamePoints(t, g)
      /\ \A t \in Teams : g \in GamesOf(t) => t \in DOMAIN total
    BY TeamGameTotals
<1>2. AreTotals(total) /\ None \notin DOMAIN total /\ StandingsOf(st, total)
    BY <1>1, TotalsFacts, StandingsFacts
<1>3. /\ TiedForFirst(st) <=> \E i, j \in DOMAIN st : i # j /\ st[i].rank = 1 /\ st[j].rank = 1
      /\ \A e \in DOMAIN total : Winner(st) = e <=> \A f \in DOMAIN total \ {e} : total[f] < total[e]
      /\ Winner(st) = None <=> (DOMAIN total = {} \/ TiedForFirst(st))
      /\ Winner(st) # None => \E i \in DOMAIN st : st[i].id = Winner(st) /\ st[i].rank = 1
    BY <1>2, WinnerFacts
<1>4. /\ BoardWinner(g) \in Teams \cup {None}
      /\ \A t \in Teams :
           BoardWinner(g) = t <=>
               /\ g \in GamesOf(t)
               /\ \A u \in Teams \ {t} : g \in GamesOf(u) => GamePoints(t, g) > GamePoints(u, g)
    BY <1>1, BoardWinnerFacts
<1>5. \A e \in DOMAIN total : total[e] \in Int
    BY <1>2 DEF AreTotals
<1>6. \A t \in DOMAIN total : (\A u \in DOMAIN total : total[u] <= total[t]) => g \in GamesOf(t)
    OBVIOUS
<1>7. \A i \in DOMAIN st : st[i].id \in DOMAIN total /\ (st[i].rank = 1 <=> Better(total, st[i].id) = {})
    BY <1>2 DEF StandingsOf
<1>8. \A i, j \in DOMAIN st : i # j => st[i].id # st[j].id
    BY <1>2 DEF StandingsOf
<1>9. \A e \in DOMAIN total : Better(total, e) = {} => \A u \in DOMAIN total : total[u] <= total[e]
    BY <1>5 DEF Better
<1> HIDE DEF st, total
<1>10. CASE Winner(st) # None
    <2>1. PICK i \in DOMAIN st : st[i].id = Winner(st) /\ st[i].rank = 1
        BY <1>3, <1>10
    <2>2. PICK e \in DOMAIN total : Winner(st) = e
        BY <2>1, <1>7
    <2>3. \A f \in DOMAIN total \ {e} : total[f] < total[e]
        BY <2>2, <1>3
    <2>4. \A u \in DOMAIN total : total[u] <= total[e]
        BY <2>3, <1>5
    <2>5. g \in GamesOf(e) /\ e \in Teams
        BY <2>4, <1>6, <1>1
    <2>6. ASSUME NEW u \in Teams \ {e}, g \in GamesOf(u) PROVE GamePoints(e, g) > GamePoints(u, g)
        <3>1. u \in DOMAIN total
            BY <2>6, <1>1
        <3>2. total[u] < total[e] /\ total[u] \in Int /\ total[e] \in Int
            BY <3>1, <2>3, <2>6, <1>5
        <3> QED BY <3>1, <3>2, <1>1
    <2> QED BY <2>2, <2>5, <2>6, <1>4 DEF st, total
<1>11. CASE Winner(st) = None
    <2> SUFFICES ASSUME BoardWinner(g) # None PROVE FALSE
        BY <1>11 DEF st, total
    <2>1. PICK t \in Teams : BoardWinner(g) = t
        BY <1>4
    <2>2. /\ g \in GamesOf(t) /\ t \in DOMAIN total
          /\ \A u \in Teams \ {t} : g \in GamesOf(u) => GamePoints(t, g) > GamePoints(u, g)
        BY <2>1, <1>4, <1>1
    <2>3. PICK i, j \in DOMAIN st : i # j /\ st[i].rank = 1 /\ st[j].rank = 1
        BY <2>2, <1>3, <1>11
    <2>4. PICK x \in DOMAIN total : x # t /\ Better(total, x) = {}
        BY <2>3, <1>7, <1>8
    <2>5. (\A u \in DOMAIN total : total[u] <= total[x]) /\ x \in Teams
        BY <2>4, <1>9, <1>1
    <2>6. g \in GamesOf(x)
        BY <2>5, <1>6
    <2>7. GamePoints(t, g) > GamePoints(x, g)
        BY <2>2, <2>4, <2>5, <2>6
    <2>8. total[t] > total[x] /\ total[t] <= total[x] /\ total[t] \in Int /\ total[x] \in Int
        BY <2>2, <2>5, <2>7, <1>1, <1>5
    <2> QED BY <2>8
<1> QED BY <1>10, <1>11

\* The board of any score rows adds up.
LEMMA BoardOfRowsAddsUp == RowsOK => BoardAddsUp
<1> SUFFICES ASSUME RowsOK PROVE BoardAddsUp
    OBVIOUS
<1>1. ASSUME NEW t \in Teams
      PROVE  LET all == {i \in Ids : Exists(i) /\ rows[i].team = t} IN
             /\ t \in BoardTeams <=> all # {}
             /\ all # {} => BoardTotal[t] = Sum(all)
    BY BoardTotalIsAll DEF RowsOfTeam
<1>2. ASSUME NEW c \in Champions, c # None, NEW t \in BoardTeams
      PROVE  BoardTotal[c] >= BoardTotal[t]
    <2>1. PICK s \in Sorted(BoardTotal) : c = IF s = <<>> THEN None ELSE s[1]
        BY DEF Champions
    <2>2. AreTotals(BoardTotal) /\ DOMAIN BoardTotal = BoardTeams
        <3>1. DOMAIN BoardTotal = BoardTeams /\ BoardTeams \in SUBSET Teams /\ IsFiniteSet(Teams)
            BY ConstantsAssumption DEF BoardTotal, BoardTeams
        <3>2. \A u \in BoardTeams : BoardTotal[u] \in Int
            BY <3>1, BoardTotalIsAll
        <3> QED BY <3>1, <3>2, FS_Subset DEF AreTotals
    <2> DEFINE n == Cardinality(DOMAIN BoardTotal)
    <2>3. /\ n \in Nat /\ DOMAIN s = 1..n /\ s \in [1..n -> DOMAIN BoardTotal]
          /\ \A e \in DOMAIN BoardTotal : \E i \in 1..n : s[i] = e
          /\ \A i, j \in 1..n : i < j => BoardTotal[s[i]] >= BoardTotal[s[j]]
        BY <2>2, SortedFacts
    <2> HIDE DEF n
    <2>4. PICK i \in 1..n : s[i] = t
        BY <2>2, <2>3
    <2>5. c = s[1] /\ 1 \in 1..n
        BY <2>1, <2>3, <2>4, <1>2
    <2>6. BoardTotal[t] \in Int
        BY <2>2 DEF AreTotals
    <2>7. i = 1 \/ 1 < i
        BY <2>4
    <2> QED BY <2>3, <2>4, <2>5, <2>6, <2>7
<1>3. ASSUME NEW g \in Games, NEW t \in Teams
      PROVE  BoardWinner(g) = t <=>
                 /\ g \in GamesOf(t)
                 /\ \A u \in Teams \ {t} :
                     g \in GamesOf(u) => Sum(TeamRows(t, g)) > Sum(TeamRows(u, g))
    BY BoardWinnerFacts DEF GamePoints
<1>4. ASSUME NEW g \in TeamGames, NEW s \in Sorted(Totals(g)),
             ~ \E t \in DOMAIN Totals(g) :
                 g \notin GamesOf(t) /\ \A u \in DOMAIN Totals(g) : Totals(g)[u] <= Totals(g)[t]
      PROVE  BoardWinner(g) = Winner(Standings(Totals(g), s))
    BY <1>4, BoardAgreesWithStandings
<1> QED BY <1>1, <1>2, <1>3, <1>4 DEF BoardAddsUp

-----------------------------------------------------------------------------
(* What the requests keep.                                                   *)

\* What a recorded result says of its final scores.
FinalOK(final, tied) ==
    /\ \E n \in Nat : DOMAIN final = 1..n
    /\ \A i \in DOMAIN final :
        /\ final[i].id \in Entrants /\ final[i].total \in Int /\ final[i].rank \in DOMAIN final
        /\ final[i].rank = 1 <=> \A j \in DOMAIN final : final[j].total <= final[i].total
        /\ \A j \in DOMAIN final : i # j => final[i].id # final[j].id
    /\ tied <=> \E i, j \in DOMAIN final : i # j /\ final[i].rank = 1 /\ final[j].rank = 1

\* The winner of a result is a team that exists and is first by itself.
WinnerOK(r, of) ==
    r.winner # None =>
        /\ of[r.winner] # None /\ ~ r.tied
        /\ \E i \in DOMAIN r.final : r.final[i].id = r.winner /\ r.final[i].rank = 1

ResultOK(r, of) ==
    /\ r \in [final : {r.final}, winner : Teams \cup {None}, tied : BOOLEAN]
    /\ FinalOK(r.final, r.tied) /\ WinnerOK(r, of)

ResultsOK == DOMAIN result = Games /\ \A g \in Games : result[g] # None => ResultOK(result[g], gameOf)

\* Who is first by himself is the winner, if a team that still exists and that was in
\* the game, one of line, when it was completed.
LeaderOK(r, of, line) ==
    ~ r.tied => \A i \in DOMAIN r.final :
                    r.final[i].rank = 1 /\ r.final[i].id \in line /\ of[r.final[i].id] # None
                        => r.winner = r.final[i].id

LeadersOK ==
    /\ lineup \in [Games -> SUBSET Teams]
    /\ \A g \in Games : result[g] # None => LeaderOK(result[g], gameOf, lineup[g])

TeamsExist == \A i \in Ids : Exists(i) /\ rows[i].team # None => gameOf[rows[i].team] # None

RoundsOK == round \in [Games -> Nat] /\ \A g \in Games : round[g] <= MaxRounds[g]

\* The invariant: each row and each result refers to teams that exist, and a result
\* still says of its final scores what the standings said of the totals.
ScoringInv ==
    /\ RowsOK /\ RoundsOK /\ gameOf \in [Teams -> Games \cup {None}]
    /\ TeamsExist /\ ResultsOK /\ LeadersOK

\* A result stays right while the teams that existed do.
LEMMA ResultStays ==
    ASSUME NEW r, NEW of, NEW now, ResultOK(r, of), \A t \in Teams : of[t] # None => now[t] # None
    PROVE  ResultOK(r, now)
<1>1. r \in [final : {r.final}, winner : Teams \cup {None}, tied : BOOLEAN]
    BY DEF ResultOK
<1>2. FinalOK(r.final, r.tied) /\ WinnerOK(r, of)
    BY DEF ResultOK
<1>3. WinnerOK(r, now)
    BY <1>1, <1>2 DEF WinnerOK
<1> QED BY <1>1, <1>2, <1>3 DEF ResultOK

\* Nothing is scored or recorded at first.
LEMMA InitHolds == Init => ScoringInv
<1> SUFFICES ASSUME Init PROVE ScoringInv
    OBVIOUS
<1> USE DEF Init
<1>1. RowsOK /\ RoundsOK /\ TeamsExist /\ ResultsOK
    BY ConstantsAssumption DEF RowsOK, RoundsOK, TeamsExist, ResultsOK, Exists
<1>2. gameOf \in [Teams -> Games \cup {None}]
    BY ConstantsAssumption
<1>3. LeadersOK
    BY DEF LeadersOK
<1> QED BY <1>1, <1>2, <1>3 DEF ScoringInv

\* A new row has the round that is played and refers to teams that exist.
LEMMA InsertHolds ==
    ASSUME ScoringInv, NEW g \in Games, NEW team \in TeamsOf(g) \cup {None},
           NEW player \in Players \cup {None}, NEW pts \in Points, Insert(g, team, player, pts)
    PROVE  ScoringInv'
<1>1. PICK i \in Ids : /\ ~Exists(i)
                       /\ rows' = [rows EXCEPT ![i] =
                            [game |-> g, round |-> round[g], points |-> pts,
                             team |-> team, player |-> player]]
    BY DEF Insert
<1>2. UNCHANGED <<gameOf, round, result, lineup>>
    BY DEF Insert
<1> DEFINE row == [game |-> g, round |-> round[g], points |-> pts, team |-> team, player |-> player]
<1>3. row \in Row /\ row.team = team
    <2>1. pts \in Int /\ team \in Teams \cup {None} /\ round[g] \in Nat
        BY ConstantsAssumption DEF TeamsOf, ScoringInv, RoundsOK
    <2> QED BY <2>1 DEF Row
<1>4. team # None => gameOf[team] # None
    BY ConstantsAssumption DEF TeamsOf
<1>5. rows \in [Ids -> Row \cup {None}] /\ rows' = [rows EXCEPT ![i] = row]
    BY <1>1 DEF ScoringInv, RowsOK
<1> HIDE DEF row
<1>6. RowsOK'
    BY <1>3, <1>5 DEF RowsOK
<1>7. TeamsExist'
    <2> SUFFICES ASSUME NEW j \in Ids, Exists(j)', rows'[j].team # None
                 PROVE  gameOf'[rows'[j].team] # None
        BY DEF TeamsExist
    <2>1. CASE j = i
        BY <2>1, <1>2, <1>3, <1>4, <1>5
    <2>2. CASE j # i
        <3>1. rows'[j] = rows[j]
            BY <2>2, <1>5
        <3> QED BY <3>1, <1>2 DEF ScoringInv, TeamsExist, Exists
    <2> QED BY <2>1, <2>2
<1>8. (RoundsOK /\ gameOf \in [Teams -> Games \cup {None}] /\ ResultsOK /\ LeadersOK)'
    BY <1>2 DEF ScoringInv, RoundsOK, ResultsOK, LeadersOK
<1> QED BY <1>6, <1>7, <1>8 DEF ScoringInv

\* Rows that are removed, or changed in their points, leave the others valid.
LEMMA RowsHold ==
    ASSUME ScoringInv, RowsOK', UNCHANGED <<gameOf, result, lineup>>,
           \A i \in Ids : Exists(i)' => Exists(i) /\ rows'[i].team = rows[i].team
    PROVE  TeamsExist' /\ ResultsOK' /\ LeadersOK' /\ (gameOf \in [Teams -> Games \cup {None}])'
<1>1. TeamsExist'
    BY DEF ScoringInv, TeamsExist
<1>2. ResultsOK' /\ LeadersOK'
    BY DEF ScoringInv, ResultsOK, LeadersOK
<1> QED BY <1>1, <1>2 DEF ScoringInv

\* The result that is recorded says what the standings say.
LEMMA ResultIsOK ==
    ASSUME ScoringInv, NEW g \in Games, NEW s \in Sorted(Totals(g))
    PROVE  /\ ResultOK(ResultOf(g, Standings(Totals(g), s)), gameOf)
           /\ LeaderOK(ResultOf(g, Standings(Totals(g), s)), gameOf, TeamsOf(g))
<1> DEFINE total == Totals(g)
           st == Standings(total, s)
           r == ResultOf(g, st)
           final == FinalScores(st)
<1>1. /\ AreTotals(total) /\ None \notin DOMAIN total /\ DOMAIN total \subseteq Entrants
    BY TotalsFacts DEF ScoringInv
<1>2. StandingsOf(st, total)
    BY <1>1, StandingsFacts
<1>3. /\ TiedForFirst(st) <=> \E i, j \in DOMAIN st : i # j /\ st[i].rank = 1 /\ st[j].rank = 1
      /\ Winner(st) = None <=> (DOMAIN total = {} \/ TiedForFirst(st))
      /\ Winner(st) # None => \E i \in DOMAIN st : st[i].id = Winner(st) /\ st[i].rank = 1
    BY <1>1, <1>2, WinnerFacts
<1>4. \A e \in DOMAIN total : total[e] \in Int
    BY <1>1 DEF AreTotals
<1> HIDE DEF total, st
<1>5. /\ DOMAIN final = DOMAIN st
      /\ \A i \in DOMAIN st : /\ final[i].id = st[i].id /\ final[i].total = st[i].total
                              /\ final[i].rank = st[i].rank
    BY DEF FinalScores
<1>6. r = [final |-> final,
           winner |-> IF ~TiedForFirst(st) /\ Winner(st) \in TeamsOf(g) THEN Winner(st) ELSE None,
           tied |-> TiedForFirst(st)]
    BY DEF ResultOf
<1> HIDE DEF final, r
<1>7. /\ r.final = final /\ r.tied = TiedForFirst(st) /\ r.tied \in BOOLEAN
      /\ r.winner = IF ~TiedForFirst(st) /\ Winner(st) \in TeamsOf(g) THEN Winner(st) ELSE None
    BY <1>6 DEF TiedForFirst
<1>8. r \in [final : {r.final}, winner : Teams \cup {None}, tied : BOOLEAN]
    <2>1. r.winner \in Teams \cup {None}
        BY <1>7 DEF TeamsOf
    <2>2. r = [final |-> r.final, winner |-> r.winner, tied |-> r.tied]
        BY <1>6, <1>7
    <2> QED BY <2>1, <2>2, <1>7
<1>9. FinalOK(final, r.tied)
    <2>1. \E n \in Nat : DOMAIN final = 1..n
        BY <1>2, <1>5 DEF StandingsOf
    <2>2. ASSUME NEW i \in DOMAIN final
          PROVE  /\ final[i].id \in Entrants /\ final[i].total \in Int /\ final[i].rank \in DOMAIN final
                 /\ \A j \in DOMAIN final : i # j => final[i].id # final[j].id
        BY <1>1, <1>2, <1>4, <1>5 DEF StandingsOf
    <2>3. ASSUME NEW i \in DOMAIN final
          PROVE  final[i].rank = 1 <=> \A j \in DOMAIN final : final[j].total <= final[i].total
        <3>1. /\ st[i].id \in DOMAIN total /\ st[i].total = total[st[i].id]
              /\ st[i].rank = 1 <=> Better(total, st[i].id) = {}
              /\ \A j \in DOMAIN st : st[j].id \in DOMAIN total /\ st[j].total = total[st[j].id]
              /\ \A e \in DOMAIN total : \E j \in DOMAIN st : st[j].id = e
            BY <1>2, <1>5 DEF StandingsOf
        <3>2. ASSUME Better(total, st[i].id) = {}, NEW j \in DOMAIN st PROVE st[j].total <= st[i].total
            BY <3>1, <3>2, <1>4 DEF Better
        <3>3. ASSUME \A j \in DOMAIN st : st[j].total <= st[i].total, NEW f \in Better(total, st[i].id)
              PROVE  FALSE
            <4>1. f \in DOMAIN total /\ total[f] > total[st[i].id]
                BY DEF Better
            <4>2. PICK j \in DOMAIN st : st[j].id = f
                BY <4>1, <3>1
            <4>3. total[f] <= total[st[i].id]
                BY <4>2, <3>1, <3>3
            <4> QED BY <4>1, <4>3, <3>1, <1>4
        <3> QED BY <3>1, <3>2, <3>3, <1>5
    <2>4. r.tied <=> \E i, j \in DOMAIN final : i # j /\ final[i].rank = 1 /\ final[j].rank = 1
        BY <1>3, <1>5, <1>7
    <2> QED BY <2>1, <2>2, <2>3, <2>4 DEF FinalOK
<1>10. WinnerOK(r, gameOf)
    <2> SUFFICES ASSUME r.winner # None
                 PROVE  /\ gameOf[r.winner] # None /\ ~ r.tied
                        /\ \E i \in DOMAIN r.final : r.final[i].id = r.winner /\ r.final[i].rank = 1
        BY DEF WinnerOK
    <2>1. r.winner = Winner(st) /\ ~ TiedForFirst(st) /\ Winner(st) \in TeamsOf(g)
        BY <1>7
    <2>2. gameOf[r.winner] # None
        BY <2>1, ConstantsAssumption DEF TeamsOf
    <2> QED BY <2>1, <2>2, <1>3, <1>5, <1>7
<1>11. ResultOK(r, gameOf)
    BY <1>7, <1>8, <1>9, <1>10 DEF ResultOK
<1>12. LeaderOK(r, gameOf, TeamsOf(g))
    <2> SUFFICES ASSUME ~ r.tied, NEW i \in DOMAIN r.final,
                        r.final[i].rank = 1, r.final[i].id \in TeamsOf(g)
                 PROVE  r.winner = r.final[i].id
        BY DEF LeaderOK
    <2>1. i \in DOMAIN st /\ st[i].rank = 1 /\ st[i].id = r.final[i].id /\ ~ TiedForFirst(st)
        BY <1>5, <1>7
    <2>2. DOMAIN total # {}
        BY <2>1, <1>2 DEF StandingsOf
    <2>3. PICK j \in DOMAIN st : st[j].id = Winner(st) /\ st[j].rank = 1
        BY <2>1, <2>2, <1>3
    <2>4. j = i
        BY <2>1, <2>3, <1>3
    <2> QED BY <2>1, <2>3, <2>4, <1>7
<1> QED BY <1>11, <1>12 DEF r, st, total

\* Completing a game records what its standings say.
LEMMA CompleteHolds ==
    ASSUME ScoringInv, NEW g \in Games, Complete(g)
    PROVE  ScoringInv'
<1>1. PICK s \in Sorted(Totals(g)) :
        result' = [result EXCEPT ![g] = ResultOf(g, Standings(Totals(g), s))]
    BY DEF Complete
<1> DEFINE r == ResultOf(g, Standings(Totals(g), s))
<1>2. ResultOK(r, gameOf) /\ LeaderOK(r, gameOf, TeamsOf(g))
    BY ResultIsOK
<1>3. UNCHANGED <<rows, gameOf, round>> /\ lineup' = [lineup EXCEPT ![g] = TeamsOf(g)]
    BY DEF Complete
<1>4. DOMAIN result = Games /\ result' = [result EXCEPT ![g] = r]
    BY <1>1 DEF ScoringInv, ResultsOK
<1> HIDE DEF r
<1>5. ResultsOK'
    <2>1. DOMAIN result' = Games
        BY <1>4
    <2>2. ASSUME NEW h \in Games, result'[h] # None PROVE ResultOK(result'[h], gameOf)
        <3>1. CASE h = g
            BY <3>1, <1>2, <1>4
        <3>2. CASE h # g
            <4>1. result'[h] = result[h]
                BY <3>2, <1>4
            <4> QED BY <4>1, <2>2 DEF ScoringInv, ResultsOK
        <3> QED BY <3>1, <3>2
    <2> QED BY <2>1, <2>2, <1>3 DEF ResultsOK
<1>6. (RowsOK /\ RoundsOK /\ gameOf \in [Teams -> Games \cup {None}] /\ TeamsExist)'
    BY <1>3 DEF ScoringInv, RowsOK, RoundsOK, TeamsExist, Exists
<1>7. LeadersOK'
    <2>1. lineup \in [Games -> SUBSET Teams] /\ TeamsOf(g) \subseteq Teams
        BY DEF ScoringInv, LeadersOK, TeamsOf
    <2>2. lineup' \in [Games -> SUBSET Teams]
        BY <1>3, <2>1
    <2>3. ASSUME NEW h \in Games, result'[h] # None PROVE LeaderOK(result'[h], gameOf, lineup'[h])
        <3>1. CASE h = g
            BY <3>1, <1>2, <1>3, <1>4, <2>1
        <3>2. CASE h # g
            <4>1. result'[h] = result[h] /\ lineup'[h] = lineup[h]
                BY <3>2, <1>3, <1>4, <2>1
            <4> QED BY <4>1, <2>3 DEF ScoringInv, LeadersOK
        <3> QED BY <3>1, <3>2
    <2> QED BY <2>2, <2>3, <1>3 DEF LeadersOK
<1> QED BY <1>5, <1>6, <1>7 DEF ScoringInv

\* A team that moves still exists: nothing that refers to it is lost.
LEMMA MoveTeamHolds ==
    ASSUME ScoringInv, NEW t \in Teams, MoveTeam(t)
    PROVE  ScoringInv'
<1>1. PICK g \in Games : gameOf' = [gameOf EXCEPT ![t] = g]
    BY DEF MoveTeam
<1>2. UNCHANGED <<rows, round, result, lineup>> /\ gameOf \in [Teams -> Games \cup {None}] /\ g # None
    BY ConstantsAssumption DEF MoveTeam, ScoringInv
<1>3. gameOf' \in [Teams -> Games \cup {None}]
    BY <1>1, <1>2
<1>4. \A u \in Teams : gameOf[u] # None => gameOf'[u] # None
    BY <1>1, <1>2
<1>5. TeamsExist'
    <2> SUFFICES ASSUME NEW i \in Ids, Exists(i), rows[i].team # None PROVE gameOf'[rows[i].team] # None
        BY <1>2 DEF TeamsExist, Exists
    <2>1. rows[i].team \in Teams /\ gameOf[rows[i].team] # None
        BY DEF ScoringInv, RowsOK, Row, TeamsExist, Exists
    <2> QED BY <2>1, <1>4
<1>6. ResultsOK'
    <2>1. DOMAIN result = Games /\ \A h \in Games : result[h] # None => ResultOK(result[h], gameOf)
        BY DEF ScoringInv, ResultsOK
    <2>2. \A h \in Games : result[h] # None => ResultOK(result[h], gameOf')
        BY <2>1, <1>4, ResultStays
    <2> QED BY <2>1, <2>2, <1>2 DEF ResultsOK
<1>7. RowsOK' /\ RoundsOK'
    BY <1>2 DEF ScoringInv, RowsOK, RoundsOK
<1>8. LeadersOK'
    <2>1. \A u \in Teams : gameOf'[u] # None => gameOf[u] # None
        BY <1>1, <1>2 DEF MoveTeam, MayLeave
    <2>2. LeadersOK
        BY DEF ScoringInv
    <2> SUFFICES ASSUME NEW h \in Games, result[h] # None PROVE LeaderOK(result[h], gameOf', lineup[h])
        BY <1>2, <2>2 DEF LeadersOK
    <2>3. LeaderOK(result[h], gameOf, lineup[h]) /\ lineup[h] \subseteq Teams
        BY <2>2 DEF LeadersOK
    <2> QED BY <2>1, <2>3 DEF LeaderOK
<1> QED BY <1>3, <1>5, <1>6, <1>7, <1>8 DEF ScoringInv

\* With a team go its rows, and the results it won have no winner any more.
LEMMA DeleteTeamHolds ==
    ASSUME ScoringInv, NEW t \in Teams, DeleteTeam(t)
    PROVE  ScoringInv'
<1>1. /\ gameOf' = [gameOf EXCEPT ![t] = None] /\ round' = round /\ lineup' = lineup
      /\ rows' = [i \in Ids |-> IF Exists(i) /\ rows[i].team = t THEN None ELSE rows[i]]
      /\ result' = [g \in Games |->
                      IF result[g] # None /\ result[g].winner = t
                      THEN [result[g] EXCEPT !.winner = None] ELSE result[g]]
    BY DEF DeleteTeam
<1>2. gameOf \in [Teams -> Games \cup {None}] /\ None \notin Teams
    BY ConstantsAssumption DEF ScoringInv
<1>3. gameOf' \in [Teams -> Games \cup {None}] /\ \A u \in Teams \ {t} : gameOf'[u] = gameOf[u]
    BY <1>1, <1>2
<1>4. RowsOK' /\ RoundsOK'
    BY <1>1 DEF ScoringInv, RowsOK, RoundsOK
<1>5. TeamsExist'
    <2> SUFFICES ASSUME NEW i \in Ids, rows'[i] # None, rows'[i].team # None
                 PROVE  gameOf'[rows'[i].team] # None
        BY DEF TeamsExist, Exists
    <2>1. rows'[i] = rows[i] /\ Exists(i) /\ rows[i].team # t
        BY <1>1 DEF Exists
    <2>2. rows[i].team \in Teams /\ gameOf[rows[i].team] # None
        BY <2>1 DEF ScoringInv, RowsOK, Row, TeamsExist, Exists
    <2> QED BY <2>1, <2>2, <1>3
<1>6. ResultsOK'
    <2> SUFFICES ASSUME NEW h \in Games, result'[h] # None PROVE ResultOK(result'[h], gameOf')
        BY <1>1 DEF ResultsOK
    <2> DEFINE r == result[h]
               k == result'[h]
    <2>1. r # None => ResultOK(r, gameOf)
        BY DEF ScoringInv, ResultsOK
    <2>2. k = IF r # None /\ r.winner = t THEN [r EXCEPT !.winner = None] ELSE r
        BY <1>1
    <2>3. r # None
        BY <2>2
    <2>4. r \in [final : {r.final}, winner : Teams \cup {None}, tied : BOOLEAN]
        BY <2>1, <2>3 DEF ResultOK
    <2>5. /\ k \in [final : {k.final}, winner : Teams \cup {None}, tied : BOOLEAN]
          /\ k.final = r.final /\ k.tied = r.tied
          /\ k.winner # None => k.winner = r.winner /\ k.winner # t
        BY <2>2, <2>3, <2>4
    <2>6. FinalOK(r.final, r.tied) /\ WinnerOK(r, gameOf) /\ r.winner \in Teams \cup {None}
        BY <2>1, <2>3, <2>4 DEF ResultOK
    <2> HIDE DEF r, k
    <2>7. FinalOK(k.final, k.tied)
        BY <2>5, <2>6
    <2>8. k.winner # None =>
            /\ gameOf'[k.winner] # None /\ ~ k.tied
            /\ \E i \in DOMAIN k.final : k.final[i].id = k.winner /\ k.final[i].rank = 1
        BY <2>5, <2>6, <1>3 DEF WinnerOK
    <2>9. WinnerOK(k, gameOf')
        BY <2>8 DEF WinnerOK
    <2>10. (k \in [final : {k.final}, winner : Teams \cup {None}, tied : BOOLEAN]) /\ FinalOK(k.final, k.tied)
        BY <2>5, <2>7
    <2> QED BY <2>9, <2>10 DEF ResultOK, k
<1>7. LeadersOK'
    <2>1. LeadersOK /\ t \in Teams
        BY DEF ScoringInv
    <2> SUFFICES ASSUME NEW h \in Games, result'[h] # None PROVE LeaderOK(result'[h], gameOf', lineup[h])
        BY <1>1, <2>1 DEF LeadersOK
    <2> DEFINE r == result[h]
               k == result'[h]
    <2>2. r # None /\ (k = IF r.winner = t THEN [r EXCEPT !.winner = None] ELSE r)
        BY <1>1
    <2>3. LeaderOK(r, gameOf, lineup[h]) /\ lineup[h] \subseteq Teams
        BY <2>1, <2>2 DEF LeadersOK
    <2>4. r \in [final : {r.final}, winner : Teams \cup {None}, tied : BOOLEAN]
        BY <2>2 DEF ScoringInv, ResultsOK, ResultOK
    <2>5. k.final = r.final /\ k.tied = r.tied /\ (r.winner # t => k.winner = r.winner)
        BY <2>2, <2>4
    <2> HIDE DEF r, k
    <2> SUFFICES ASSUME ~ k.tied, NEW i \in DOMAIN k.final, k.final[i].rank = 1,
                        k.final[i].id \in lineup[h], gameOf'[k.final[i].id] # None
                 PROVE  k.winner = k.final[i].id
        BY DEF LeaderOK, k
    <2>6. k.final[i].id \in Teams /\ k.final[i].id # t
        BY <1>1, <1>2, <2>1, <2>3
    <2>7. gameOf[k.final[i].id] # None
        BY <1>3, <2>6
    <2>8. r.winner = k.final[i].id
        BY <2>3, <2>5, <2>7 DEF LeaderOK
    <2> QED BY <2>5, <2>6, <2>8
<1> QED BY <1>3, <1>4, <1>5, <1>6, <1>7 DEF ScoringInv

\* Every request keeps the invariant.
LEMMA StepHolds == ScoringInv /\ [Next]_vars => ScoringInv'
<1> SUFFICES ASSUME ScoringInv, [Next]_vars PROVE ScoringInv'
    OBVIOUS
<1>0. /\ rows \in [Ids -> Row \cup {None}] /\ round \in [Games -> Nat] /\ Points \subseteq Int
      /\ \A g \in Games : MaxRounds[g] \in Nat /\ round[g] <= MaxRounds[g]
    BY ConstantsAssumption DEF ScoringInv, RowsOK, RoundsOK
<1>1. ASSUME NEW g \in Games, SubmitGameScore(g) PROVE ScoringInv'
    <2>1. PICK pts \in Points :
            \/ g \notin TeamGames /\ \E p \in Players : Insert(g, None, p, pts)
            \/ g \in TeamGames /\ \E t \in TeamsOf(g) : Insert(g, t, None, pts)
        BY <1>1 DEF SubmitGameScore
    <2> QED BY <2>1, InsertHolds
<1>2. ASSUME NEW g \in Games, Create(g) PROVE ScoringInv'
    BY <1>2, InsertHolds DEF Create
<1>3. ASSUME NEW g \in Games, NextRound(g) PROVE ScoringInv'
    <2>1. round' = [round EXCEPT ![g] = @ + 1] /\ round[g] < MaxRounds[g] /\ UNCHANGED <<rows, gameOf, result, lineup>>
        BY <1>3 DEF NextRound
    <2>2. RoundsOK'
        BY <2>1, <1>0 DEF RoundsOK
    <2>3. RowsOK'
        BY <2>1, <1>0 DEF RowsOK
    <2>4. TeamsExist' /\ ResultsOK' /\ LeadersOK' /\ (gameOf \in [Teams -> Games \cup {None}])'
        BY <2>1, <2>3, RowsHold DEF Exists
    <2> QED BY <2>2, <2>3, <2>4 DEF ScoringInv
<1>4. ASSUME NEW g \in Games, Reset(g) PROVE ScoringInv'
    <2>1. /\ rows' = [i \in Ids |-> IF Exists(i) /\ rows[i].game = g THEN None ELSE rows[i]]
          /\ round' = [round EXCEPT ![g] = 0] /\ UNCHANGED <<gameOf, result, lineup>>
        BY <1>4 DEF Reset
    <2>2. RoundsOK'
        BY <2>1, <1>0 DEF RoundsOK
    <2>3. RowsOK' /\ \A i \in Ids : Exists(i)' => Exists(i) /\ rows'[i].team = rows[i].team
        BY <2>1, <1>0 DEF RowsOK, Exists
    <2>4. TeamsExist' /\ ResultsOK' /\ LeadersOK' /\ (gameOf \in [Teams -> Games \cup {None}])'
        BY <2>1, <2>3, RowsHold
    <2> QED BY <2>2, <2>3, <2>4 DEF ScoringInv
<1>5. ASSUME NEW g \in Games, Complete(g) PROVE ScoringInv'
    BY <1>5, CompleteHolds
<1>6. ASSUME NEW i \in Ids, Update(i) PROVE ScoringInv'
    <2>1. PICK pts \in Points : rows' = [rows EXCEPT ![i].points = pts]
        BY <1>6 DEF Update
    <2>2. Exists(i) /\ UNCHANGED <<gameOf, round, result, lineup>>
        BY <1>6 DEF Update
    <2> DEFINE r == [rows[i] EXCEPT !.points = pts]
    <2>3. rows' = [rows EXCEPT ![i] = r] /\ rows[i] \in Row
        BY <2>1, <2>2, <1>0 DEF Exists
    <2>4. r \in Row /\ r.team = rows[i].team
        BY <2>3, <1>0 DEF Row
    <2> HIDE DEF r
    <2>5. RowsOK' /\ \A j \in Ids : Exists(j)' => Exists(j) /\ rows'[j].team = rows[j].team
        BY <2>2, <2>3, <2>4, <1>0 DEF RowsOK, Exists
    <2>6. TeamsExist' /\ ResultsOK' /\ LeadersOK' /\ (gameOf \in [Teams -> Games \cup {None}])'
        BY <2>2, <2>5, RowsHold
    <2>7. RoundsOK'
        BY <2>2 DEF ScoringInv, RoundsOK
    <2> QED BY <2>5, <2>6, <2>7 DEF ScoringInv
<1>7. ASSUME NEW i \in Ids, Delete(i) PROVE ScoringInv'
    <2>1. rows' = [rows EXCEPT ![i] = None] /\ UNCHANGED <<gameOf, round, result, lineup>>
        BY <1>7 DEF Delete
    <2>2. RowsOK' /\ \A j \in Ids : Exists(j)' => Exists(j) /\ rows'[j].team = rows[j].team
        BY <2>1, <1>0 DEF RowsOK, Exists
    <2>3. TeamsExist' /\ ResultsOK' /\ LeadersOK' /\ (gameOf \in [Teams -> Games \cup {None}])'
        BY <2>1, <2>2, RowsHold
    <2>4. RoundsOK'
        BY <2>1 DEF ScoringInv, RoundsOK
    <2> QED BY <2>2, <2>3, <2>4 DEF ScoringInv
<1>8. ASSUME NEW t \in Teams, MoveTeam(t) PROVE ScoringInv'
    BY <1>8, MoveTeamHolds
<1>9. ASSUME NEW t \in Teams, DeleteTeam(t) PROVE ScoringInv'
    BY <1>9, DeleteTeamHolds
<1>10. CASE UNCHANGED vars
    BY <1>10 DEF vars, ScoringInv, RowsOK, RoundsOK, TeamsExist, Exists, ResultsOK, LeadersOK
<1> QED BY <1>1, <1>2, <1>3, <1>4, <1>5, <1>6, <1>7, <1>8, <1>9, <1>10 DEF Next

-----------------------------------------------------------------------------
(* The theorems.                                                             *)

\* Rows and results refer to what exists, and a recorded result goes on saying of its
\* final scores what the standings said when the game was completed.
THEOREM ScoringHolds == Spec => []ScoringInv
<1>1. Init => ScoringInv
    BY InitHolds
<1>2. ScoringInv /\ [Next]_vars => ScoringInv'
    BY StepHolds
<1> QED BY <1>1, <1>2, PTL DEF Spec

\* Rows refer to teams that exist; a result has its winning team among its entries.
THEOREM ScoringTypeCorrect == Spec => []TypeOK
<1>1. ScoringInv => TypeOK
    <2> SUFFICES ASSUME ScoringInv PROVE TypeOK
        OBVIOUS
    <2>1. /\ rows \in [Ids -> Row \cup {None}] /\ gameOf \in [Teams -> Games \cup {None}]
          /\ \A i \in Ids : Exists(i) /\ rows[i].team # None => gameOf[rows[i].team] # None
          /\ lineup \in [Games -> SUBSET Teams]
        BY DEF ScoringInv, RowsOK, TeamsExist, LeadersOK
    <2>2. \A g \in Games : round[g] \in 0..MaxRounds[g]
        BY ConstantsAssumption DEF ScoringInv, RoundsOK
    <2>3. ASSUME NEW g \in Games, result[g] # None
          PROVE  /\ \A i \in DOMAIN result[g].final :
                      /\ result[g].final[i].id \in Entrants /\ result[g].final[i].total \in Int
                      /\ result[g].final[i].rank \in DOMAIN result[g].final
                 /\ result[g].winner # None =>
                      /\ gameOf[result[g].winner] # None
                      /\ \E i \in DOMAIN result[g].final : result[g].final[i].id = result[g].winner
                 /\ result[g].tied \in BOOLEAN
        <3>1. ResultOK(result[g], gameOf)
            BY <2>3 DEF ScoringInv, ResultsOK
        <3> QED BY <3>1 DEF ResultOK, FinalOK, WinnerOK
    <2> QED BY <2>1, <2>2, <2>3 DEF TypeOK
<1> QED BY <1>1, ScoringHolds, PTL

\* However the sort leaves equal totals, each is ranked by who has more points.
THEOREM StandingsAreFair == Spec => []RankedFairly
<1>1. ScoringInv => RankedFairly
    BY RowsAreRankedFairly DEF ScoringInv
<1> QED BY <1>1, ScoringHolds, PTL

\* The leaderboard agrees with the score rows and with the standings.
THEOREM BoardAgrees == Spec => []BoardAddsUp
<1>1. ScoringInv => BoardAddsUp
    BY BoardOfRowsAddsUp DEF ScoringInv
<1> QED BY <1>1, ScoringHolds, PTL

\* Wins are those of who had alone the most points of the final scores, and whoever had
\* has won, but for a team that was not in the game when it was completed.
THEOREM StatisticsAreEarned == Spec => []WinsAreEarned
<1>1. ScoringInv => WinsAreEarned
    <2> SUFFICES ASSUME ScoringInv, NEW p \in Players, NEW of \in SUBSET {t \in Teams : gameOf[t] # None},
                        NEW g \in Games, result[g] # None,
                        NEW i \in {j \in DOMAIN result[g].final : result[g].final[j].id \in of \cup {p}},
                        Cardinality({j \in DOMAIN result[g].final : result[g].final[j].id \in of \cup {p}}) = 1
                 PROVE  LET final == result[g].final
                            alone == \A j \in DOMAIN final \ {i} : final[i].total > final[j].total
                        IN /\ g \in Won(p, of) => alone
                           /\ alone => g \in Won(p, of) \/ final[i].id \in Teams \ lineup[g]
        BY DEF WinsAreEarned
    <2> DEFINE r == result[g]
               final == r.final
               his == {j \in DOMAIN final : final[j].id \in of \cup {p}}
               alone == \A j \in DOMAIN final \ {i} : final[i].total > final[j].total
    <2>1. ResultOK(r, gameOf) /\ LeaderOK(r, gameOf, lineup[g])
        BY DEF ScoringInv, ResultsOK, LeadersOK
    <2>2. /\ FinalOK(final, r.tied)
          /\ r.winner # None =>
                ~ r.tied /\ \E j \in DOMAIN final : final[j].id = r.winner /\ final[j].rank = 1
          /\ r.winner \in Teams \cup {None} /\ r.tied \in BOOLEAN
        BY <2>1 DEF ResultOK, WinnerOK
    <2>3. /\ (\E n \in Nat : DOMAIN final = 1..n) /\ i \in DOMAIN final /\ final[i].id \in of \cup {p}
          /\ Teams \cap Players = {} /\ None \notin Entrants
        BY <2>2, ConstantsAssumption DEF FinalOK, Entrants
    <2>4. his = {i}
        <3>1. IsFiniteSet(his)
            <4>1. PICK n \in Nat : DOMAIN final = 1..n
                BY <2>3
            <4>2. his \subseteq 1..n
                BY <4>1
            <4>3. IsFiniteSet(1..n)
                <5>1. 1 \in Int /\ n \in Int
                    OBVIOUS
                <5> QED BY <5>1, FS_Interval
            <4> HIDE DEF his
            <4> QED BY <4>2, <4>3, FS_Subset
        <3>2. PICK x : his = {x}
            BY <3>1, FS_Singleton
        <3>3. i \in his
            OBVIOUS
        <3> HIDE DEF his
        <3> QED BY <3>2, <3>3
    <2>5. /\ Entry(p, of, final) = i /\ g \in Played(p, of)
          /\ g \in Won(p, of) <=>
                final[i].id = r.winner \/ (final[i].id = p /\ final[i].rank = 1 /\ ~ r.tied)
        <3>1. i \in Nat /\ i # 0
            BY <2>3
        <3>2. Min({i}) = i
            BY <3>1 DEF Min
        <3>3. Entry(p, of, final) = i
            BY <2>4, <3>2 DEF Entry
        <3>4. g \in Played(p, of)
            BY <3>1, <3>3 DEF Played
        <3> QED BY <3>3, <3>4 DEF Won
    <2> HIDE DEF r, his, final
    <2>6. /\ \A j \in DOMAIN final : final[j].total \in Int
          /\ \A j \in DOMAIN final :
                final[j].rank = 1 <=> \A k \in DOMAIN final : final[k].total <= final[j].total
          /\ \A j, k \in DOMAIN final : j # k => final[j].id # final[k].id
          /\ r.tied <=> \E j, k \in DOMAIN final : j # k /\ final[j].rank = 1 /\ final[k].rank = 1
          /\ \A j \in DOMAIN final : final[j].id \in Teams \cup Players
        BY <2>2 DEF FinalOK, Entrants
    <2>7. ASSUME g \in Won(p, of) PROVE alone
        <3>1. final[i].rank = 1 /\ ~ r.tied
            <4>1. CASE final[i].id = r.winner
                <5>1. r.winner # None
                    BY <4>1, <2>3, <2>6 DEF Entrants
                <5> QED BY <5>1, <4>1, <2>2, <2>3, <2>6
            <4> QED BY <4>1, <2>5, <2>7
        <3> SUFFICES ASSUME NEW j \in DOMAIN final \ {i} PROVE final[i].total > final[j].total
            OBVIOUS
        <3>2. final[j].total <= final[i].total
            BY <3>1, <2>3, <2>6
        <3>3. final[j].rank # 1
            BY <3>1, <2>3, <2>6
        <3>4. PICK k \in DOMAIN final : ~ (final[k].total <= final[j].total)
            BY <3>3, <2>6
        <3>5. final[k].total <= final[i].total
            BY <3>1, <2>3, <2>6
        <3> QED BY <3>2, <3>4, <3>5, <2>3, <2>6
    <2>8. ASSUME alone, ~ (final[i].id \in Teams \ lineup[g]) PROVE g \in Won(p, of)
        <3>1. \A j \in DOMAIN final : final[j].total <= final[i].total
            BY <2>3, <2>6, <2>8
        <3>2. final[i].rank = 1
            BY <3>1, <2>3, <2>6
        <3>3. ASSUME NEW j \in DOMAIN final, final[j].rank = 1 PROVE j = i
            <4>1. final[i].total <= final[j].total
                BY <3>3, <2>3, <2>6
            <4> QED BY <4>1, <2>3, <2>6, <2>8
        <3>4. ~ r.tied
            BY <3>3, <2>6
        <3>5. CASE final[i].id \in Players
            <4>1. final[i].id = p
                BY <3>5, <2>3
            <4> QED BY <4>1, <3>2, <3>4, <2>5
        <3>6. CASE final[i].id \in Teams
            <4>1. final[i].id \in lineup[g]
                BY <3>6, <2>8
            <4>2. final[i].id \in of
                BY <3>6, <2>3
            <4>3. gameOf[final[i].id] # None
                BY <4>2
            <4>4. r.winner = final[i].id
                BY <4>1, <4>3, <3>2, <3>4, <2>1, <2>3 DEF LeaderOK, final
            <4> QED BY <4>4, <2>5
        <3> QED BY <3>5, <3>6, <2>3, <2>6
    <2> QED BY <2>7, <2>8 DEF r, final
<1> QED BY <1>1, ScoringHolds, PTL

=============================================================================
