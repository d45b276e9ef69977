---------------------------- MODULE TeamsProofs ----------------------------
(***************************************************************************)
(* Theorems about Teams, for any number of players, games and teams.  The  *)
(* types, and that players are placed fairly, hold however many requests   *)
(* are served beside one another; the others if they are served one by one.*)
(***************************************************************************)
EXTENDS Teams, PlannerProofs, FiniteSetTheorems, SequenceTheorems

-----------------------------------------------------------------------------
(* Placing players, as sums: how many each team has got.  A count is the     *)
(* number of players in each of n parts, cur the part whose turn it is.      *)

Counts(n) == [1..n -> Nat]

\* The part whose turn it is gets one player.
OneMore(n, count, cur, count2) ==
    \A i \in 1..n : count2[i] = count[i] + (IF i = cur THEN 1 ELSE 0)

Dealt(n, count, cur) ==
    /\ cur \in 1..n
    /\ \E r \in Nat : \A i \in 1..n : count[i] = IF i < cur THEN r + 1 ELSE r

LEMMA DealGoesOn ==
    ASSUME NEW n \in Nat \ {0}, NEW count \in Counts(n), NEW count2 \in Counts(n),
           NEW cur, Dealt(n, count, cur), OneMore(n, count, cur, count2)
    PROVE  Dealt(n, count2, (cur % n) + 1)
  <1>1. PICK r \in Nat : \A i \in 1..n : count[i] = IF i < cur THEN r + 1 ELSE r
    BY DEF Dealt
  <1>2. cur \in 1..n
    BY DEF Dealt
  <1>3. CASE cur = n
    <2>1. (cur % n) + 1 = 1
      BY <1>3, Z3
    <2>2. \A i \in 1..n : count2[i] = IF i < 1 THEN (r + 1) + 1 ELSE r + 1
      BY <1>1, <1>2, <1>3 DEF OneMore
    <2>3. 1 \in 1..n /\ r + 1 \in Nat
      OBVIOUS
    <2> QED BY <2>1, <2>2, <2>3 DEF Dealt
  <1>4. CASE cur < n
    <2>1. (cur % n) + 1 = cur + 1
      BY <1>2, <1>4, Z3
    <2>2. \A i \in 1..n : count2[i] = IF i < cur + 1 THEN r + 1 ELSE r
      BY <1>1, <1>2, <1>4 DEF OneMore
    <2>3. cur + 1 \in 1..n
      BY <1>2, <1>4
    <2> QED BY <2>1, <2>2, <2>3 DEF Dealt
  <1> QED BY <1>2, <1>3, <1>4

Drafted(n, count, cur, dir) ==
    /\ cur \in 1..n /\ dir \in {1, -1}
    /\ \E r \in Nat : \A i \in 1..n :
        count[i] = IF dir = 1 THEN (IF i < cur THEN 2 * r + 1 ELSE 2 * r)
                   ELSE (IF i > cur THEN 2 * r + 2 ELSE 2 * r + 1)

LEMMA DraftGoesOn ==
    ASSUME NEW n \in Nat \ {0}, NEW count \in Counts(n), NEW count2 \in Counts(n),
           NEW cur, NEW dir, Drafted(n, count, cur, dir), OneMore(n, count, cur, count2)
    PROVE  LET turn == (dir = 1 /\ cur = n) \/ (dir = -1 /\ cur = 1) IN
           Drafted(n, count2, IF turn THEN cur ELSE cur + dir, IF turn THEN -dir ELSE dir)
  <1>1. PICK r \in Nat : \A i \in 1..n :
            count[i] = IF dir = 1 THEN (IF i < cur THEN 2 * r + 1 ELSE 2 * r)
                       ELSE (IF i > cur THEN 2 * r + 2 ELSE 2 * r + 1)
    BY DEF Drafted
  <1>2. cur \in 1..n /\ dir \in {1, -1}
    BY DEF Drafted
  <1>3. CASE dir = 1 /\ cur = n
    <2>1. \A i \in 1..n : count2[i] = IF i > cur THEN 2 * r + 2 ELSE 2 * r + 1
      BY <1>1, <1>2, <1>3 DEF OneMore
    <2> QED BY <1>2, <1>3, <2>1 DEF Drafted
  <1>4. CASE dir = 1 /\ cur # n
    <2>1. \A i \in 1..n : count2[i] = IF i < cur + 1 THEN 2 * r + 1 ELSE 2 * r
      BY <1>1, <1>2, <1>4 DEF OneMore
    <2>2. cur + 1 \in 1..n
      BY <1>2, <1>4
    <2> QED BY <1>2, <1>4, <2>1, <2>2 DEF Drafted
  <1>5. CASE dir = -1 /\ cur = 1
    <2>1. \A i \in 1..n : count2[i] = IF i < cur THEN 2 * (r + 1) + 1 ELSE 2 * (r + 1)
      BY <1>1, <1>2, <1>5 DEF OneMore
    <2> DEFINE q == r + 1
    <2>2. q \in Nat /\ \A i \in 1..n : count2[i] = IF i < cur THEN 2 * q + 1 ELSE 2 * q
      BY <2>1
    <2> HIDE DEF q
    <2>3. Drafted(n, count2, cur, 1)
      BY <1>2, <2>2 DEF Drafted
    <2> QED BY <1>5, <2>3
  <1>6. CASE dir = -1 /\ cur # 1
    <2>1. \A i \in 1..n : count2[i] = IF i > cur - 1 THEN 2 * r + 2 ELSE 2 * r + 1
      BY <1>1, <1>2, <1>6 DEF OneMore
    <2>2. cur - 1 \in 1..n /\ cur + dir = cur - 1
      BY <1>2, <1>6
    <2> QED BY <1>2, <1>6, <2>1, <2>2 DEF Drafted
  <1> QED BY <1>2, <1>3, <1>4, <1>5, <1>6

-----------------------------------------------------------------------------
(* Slices: how many players the slices before the c-th have.                 *)

Before(total, n, c) ==
    (c - 1) * (total \div n)
        + (IF c - 1 <= total % n THEN c - 1 ELSE total % n)

LEMMA SlicesAddUp ==
    ASSUME NEW total \in Nat, NEW n \in Nat \ {0}
    PROVE  /\ Before(total, n, 1) = 0 /\ Before(total, n, n + 1) = total
           /\ \A c \in 1..n :
                /\ Before(total, n, c) \in Nat
                /\ Before(total, n, c + 1)
                     = Before(total, n, c) + SplitEvenly(total, n)[c]
                /\ Before(total, n, c + 1) <= total
                /\ SplitEvenly(total, n)[c] \in Nat
  <1> DEFINE base == total \div n
             more == total % n
             P(c) == Before(total, n, c)
  <1>1. base \in Nat /\ more \in 0..n - 1 /\ total = n * base + more
    BY Division
  <1>2. \A c \in 1..n + 1 : P(c) = (c - 1) * base + (IF c - 1 <= more THEN c - 1 ELSE more)
    BY DEF Before
  <1>3. \A c \in 1..n : SplitEvenly(total, n)[c] = base + (IF c <= more THEN 1 ELSE 0)
    BY DEF SplitEvenly
  <1> HIDE DEF base, more, P
  <1>4. P(1) = 0
    BY <1>1, <1>2
  <1>5. P(n + 1) = total
    <2>1. (n + 1) - 1 = n /\ n + 1 \in 1..n + 1
      OBVIOUS
    <2>2. P(n + 1) = n * base + (IF n <= more THEN n ELSE more)
      BY <1>2, <2>1
    <2> QED BY <1>1, <2>2
  <1>6. ASSUME NEW c \in 1..n
        PROVE  /\ P(c) \in Nat /\ P(c + 1) <= total
               /\ P(c + 1) = P(c) + (base + (IF c <= more THEN 1 ELSE 0))
    <2>1. c - 1 \in Nat /\ n - c \in Nat /\ (c + 1) - 1 = c
      OBVIOUS
    <2>2. (c - 1) * base \in Nat /\ (n - c) * base \in Nat
      BY <1>1, <2>1, Z3
    <2>3. c * base = (c - 1) * base + base /\ n * base = c * base + (n - c) * base
      BY <1>1, Z3
    <2>4. P(c) = (c - 1) * base + (IF c - 1 <= more THEN c - 1 ELSE more)
      BY <1>2
    <2>5. P(c + 1) = c * base + (IF c <= more THEN c ELSE more)
      BY <1>2, <2>1
    <2> DEFINE a == (c - 1) * base
               b == (n - c) * base
               d == c * base
               e == n * base
    <2>6. a \in Nat /\ b \in Nat /\ d = a + base /\ e = d + b /\ total = e + more
      BY <1>1, <2>2, <2>3
    <2>7. P(c) = a + (IF c - 1 <= more THEN c - 1 ELSE more)
          /\ P(c + 1) = d + (IF c <= more THEN c ELSE more)
      BY <2>4, <2>5
    <2> HIDE DEF a, b, d, e
    <2> QED BY <1>1, <2>6, <2>7
  <1>7. \A c \in 1..n : SplitEvenly(total, n)[c] \in Nat
    BY <1>1, <1>3
  <1> QED BY <1>3, <1>4, <1>5, <1>6, <1>7 DEF P

Sliced(total, left, n, count, cur) ==
    LET size == SplitEvenly(total, n) IN
    /\ cur \in 1..n + 1
    /\ \A i \in 1..n : (i < cur => count[i] = size[i]) /\ (i > cur => count[i] = 0)
    /\ cur <= n => /\ count[cur] < size[cur] \/ (size[cur] = 0 /\ count[cur] = 0)
                   /\ left = total - Before(total, n, cur) - count[cur]
    /\ cur = n + 1 => left = 0

\* shufflePlayers places the players in slices that fit: nobody is left over, and
\* there is a slice for the next player.
LEMMA SlicesGoOn ==
    ASSUME NEW total \in Nat, NEW left \in Nat, left > 0, NEW n \in Nat \ {0},
           NEW count \in Counts(n), NEW count2 \in Counts(n),
           NEW cur, Sliced(total, left, n, count, cur), OneMore(n, count, cur, count2)
    PROVE  /\ cur \in 1..n
           /\ Sliced(total, left - 1, n, count2,
                     IF count2[cur] >= SplitEvenly(total, n)[cur] THEN cur + 1 ELSE cur)
  <1> DEFINE size == SplitEvenly(total, n)
             P(c) == Before(total, n, c)
  <1>1. cur \in 1..n
    BY DEF Sliced
  <1>2. /\ P(cur) \in Nat /\ P(cur + 1) = P(cur) + size[cur] /\ P(cur + 1) <= total
        /\ size[cur] \in Nat
    BY <1>1, SlicesAddUp
  <1>3. /\ \A i \in 1..n : (i < cur => count[i] = size[i]) /\ (i > cur => count[i] = 0)
        /\ count[cur] < size[cur] \/ (size[cur] = 0 /\ count[cur] = 0)
        /\ left = total - P(cur) - count[cur]
    BY <1>1 DEF Sliced
  <1>4. size = SplitEvenly(total, n) /\ \A i \in 1..n : size[i] \in Nat
    BY SlicesAddUp
  <1>5. /\ count2[cur] = count[cur] + 1 /\ count[cur] \in Nat
        /\ \A i \in 1..n : i # cur => count2[i] = count[i]
    BY <1>1 DEF OneMore, Counts
  <1> HIDE DEF size
  <1>6. CASE count2[cur] < size[cur]
    <2>1. \A i \in 1..n : (i < cur => count2[i] = size[i]) /\ (i > cur => count2[i] = 0)
      BY <1>1, <1>3, <1>5
    <2>2. left - 1 = total - P(cur) - count2[cur]
      BY <1>2, <1>3, <1>5
    <2>3. Sliced(total, left - 1, n, count2, cur)
      BY <1>1, <1>4, <1>6, <2>1, <2>2 DEF Sliced
    <2> QED BY <1>1, <1>2, <1>4, <1>5, <1>6, <2>3
  <1>7. CASE count2[cur] >= size[cur] /\ size[cur] = 0
    <2> DEFINE base == total \div n
               more == total % n
    <2>1. base \in Nat /\ more \in 0..n - 1 /\ total = n * base + more
      BY Division
    <2>2. size[cur] = base + (IF cur <= more THEN 1 ELSE 0)
      BY <1>1, <1>4 DEF SplitEvenly
    <2>3. base = 0 /\ cur > more
      BY <1>1, <1>7, <2>1, <2>2
    <2>4. P(cur) = (cur - 1) * base + (IF cur - 1 <= more THEN cur - 1 ELSE more)
      BY DEF Before
    <2> HIDE DEF base, more
    <2>5. total = more /\ P(cur) = (IF cur - 1 <= more THEN cur - 1 ELSE more)
      BY <1>1, <2>1, <2>3, <2>4
    <2>6. P(cur) = total
      BY <1>1, <2>1, <2>3, <2>5
    <2> QED BY <1>3, <1>5, <1>7, <2>6
  <1>8. CASE count2[cur] >= size[cur] /\ size[cur] # 0
    <2>1. count2[cur] = size[cur]
      BY <1>2, <1>3, <1>5, <1>8
    <2>2. left - 1 = total - P(cur + 1)
      BY <1>2, <1>3, <1>5, <2>1
    <2>3. \A i \in 1..n : /\ i < cur + 1 => count2[i] = size[i]
                          /\ i > cur + 1 => count2[i] = 0
      BY <1>1, <1>3, <1>5, <2>1
    <2>4. CASE cur = n
      <3>1. P(n + 1) = total
        BY SlicesAddUp
      <3>2. left - 1 = 0
        BY <2>2, <2>4, <3>1
      <3> QED BY <1>1, <1>4, <1>8, <2>3, <2>4, <3>2 DEF Sliced
    <2>5. CASE cur < n
      <3>1. cur + 1 \in 1..n
        BY <1>1, <2>5
      <3>2. count2[cur + 1] = 0
        BY <1>1, <1>3, <1>5, <2>5, <3>1
      <3>3. size[cur + 1] \in Nat
        BY <1>4, <3>1
      <3>4. left - 1 = total - P(cur + 1) - count2[cur + 1]
        BY <1>2, <2>2, <3>2
      <3>5. Sliced(total, left - 1, n, count2, cur + 1)
        BY <1>4, <2>3, <3>1, <3>2, <3>3, <3>4 DEF Sliced
      <3> QED BY <1>1, <1>4, <1>8, <3>5
    <2> QED BY <1>1, <2>4, <2>5
  <1> QED BY <1>1, <1>2, <1>5, <1>6, <1>7, <1>8

\* When nobody is left to place, every slice has its size.
LEMMA SlicesFull ==
    ASSUME NEW total \in Nat, NEW n \in Nat \ {0}, NEW count \in Counts(n),
           NEW cur, Sliced(total, 0, n, count, cur)
    PROVE  \A i \in 1..n : count[i] = SplitEvenly(total, n)[i]
  <1> DEFINE size == SplitEvenly(total, n)
             P(c) == Before(total, n, c)
  <1>1. \A i, j \in 1..n : i <= j => size[i] >= size[j]
    BY SplitIsEven
  <1>2. \A i \in 1..n : size[i] \in Nat
    BY SlicesAddUp
  <1>3. CASE cur = n + 1
    BY <1>3 DEF Sliced
  <1>4. CASE cur \in 1..n
    <2>1. /\ P(cur) \in Nat /\ P(cur + 1) = P(cur) + size[cur] /\ P(cur + 1) <= total
      BY <1>4, SlicesAddUp
    <2>2. /\ count[cur] < size[cur] \/ (size[cur] = 0 /\ count[cur] = 0)
          /\ 0 = total - P(cur) - count[cur] /\ count[cur] \in Nat
      BY <1>4 DEF Sliced, Counts
    <2>3. size[cur] = 0 /\ count[cur] = 0
      BY <1>2, <1>4, <2>1, <2>2
    <2>4. \A i \in 1..n : i > cur => size[i] = 0
      BY <1>1, <1>2, <1>4, <2>3
    <2>5. \A i \in 1..n : (i < cur => count[i] = size[i]) /\ (i > cur => count[i] = 0)
      BY DEF Sliced
    <2> QED BY <1>4, <2>3, <2>4, <2>5
  <1> QED BY <1>3, <1>4 DEF Sliced
-----------------------------------------------------------------------------
(* Placing players, as sets.                                                 *)

\* Everybody is either in one of the parts or still to be placed, and only once.
Tiled(all, pool, parts, n) ==
    /\ parts \in [1..n -> SUBSET all] /\ pool \subseteq all
    /\ \A p \in all : p \in pool \/ \E i \in 1..n : p \in parts[i]
    /\ \A i \in 1..n : parts[i] \cap pool = {}
    /\ \A i, j \in 1..n : i # j => parts[i] \cap parts[j] = {}

CountOf(parts, n) == [i \in 1..n |-> Cardinality(parts[i])]

LEMMA Finite ==
    ASSUME NEW S \in SUBSET Players
    PROVE  IsFiniteSet(S) /\ Cardinality(S) \in Nat
  BY ConstantsAssumption, FS_Subset, FS_CardinalityType

Added(parts, cur, p) == [parts EXCEPT ![cur] = @ \cup {p}]

LEMMA TileOneMore ==
    ASSUME NEW all \in SUBSET Players, NEW pool, NEW parts, NEW n \in Nat \ {0},
           Tiled(all, pool, parts, n), NEW cur \in 1..n, NEW p \in pool
    PROVE  LET parts2 == Added(parts, cur, p) IN
           /\ Tiled(all, pool \ {p}, parts2, n)
           /\ CountOf(parts, n) \in Counts(n) /\ CountOf(parts2, n) \in Counts(n)
           /\ OneMore(n, CountOf(parts, n), cur, CountOf(parts2, n))
           /\ Cardinality(pool) \in Nat /\ Cardinality(pool) > 0
           /\ Cardinality(pool \ {p}) = Cardinality(pool) - 1
  <1> DEFINE parts2 == Added(parts, cur, p)
  <1>0. parts2 = [parts EXCEPT ![cur] = @ \cup {p}]
    BY DEF Added
  <1> HIDE DEF parts2
  <1>1. parts \in [1..n -> SUBSET all] /\ pool \subseteq all /\ p \in all
    BY DEF Tiled
  <1>2. parts2 \in [1..n -> SUBSET all]
    BY <1>0, <1>1
  <1>3. parts2[cur] = parts[cur] \cup {p} /\ \A i \in 1..n : i # cur => parts2[i] = parts[i]
    BY <1>0, <1>1
  <1>4. Tiled(all, pool \ {p}, parts2, n)
    <2>1. \A q \in all : q \in pool \ {p} \/ \E i \in 1..n : q \in parts2[i]
      <3> SUFFICES ASSUME NEW q \in all, q \notin pool \ {p}
                   PROVE  \E i \in 1..n : q \in parts2[i]
        OBVIOUS
      <3>1. CASE q = p
        BY <1>3, <3>1
      <3>2. CASE q # p
        <4>1. PICK i \in 1..n : q \in parts[i]
          BY <3>2 DEF Tiled
        <4> QED BY <1>3, <4>1
      <3> QED BY <3>1, <3>2
    <2>2. \A i \in 1..n : parts2[i] \cap (pool \ {p}) = {}
      <3> SUFFICES ASSUME NEW i \in 1..n PROVE parts2[i] \cap (pool \ {p}) = {}
        OBVIOUS
      <3>1. parts[i] \cap pool = {}
        BY DEF Tiled
      <3> QED BY <1>3, <3>1
    <2>3. \A i, j \in 1..n : i # j => parts2[i] \cap parts2[j] = {}
      <3> SUFFICES ASSUME NEW i \in 1..n, NEW j \in 1..n, i # j
                   PROVE  parts2[i] \cap parts2[j] = {}
        OBVIOUS
      <3>1. parts[i] \cap parts[j] = {} /\ p \notin parts[i] /\ p \notin parts[j]
        BY DEF Tiled
      <3> QED BY <1>3, <3>1
    <2> QED BY <1>1, <1>2, <2>1, <2>2, <2>3 DEF Tiled
  <1>5. \A i \in 1..n : /\ Cardinality(parts[i]) \in Nat /\ Cardinality(parts2[i]) \in Nat
                         /\ IsFiniteSet(parts[i])
    <2> SUFFICES ASSUME NEW i \in 1..n
                 PROVE  /\ Cardinality(parts[i]) \in Nat /\ Cardinality(parts2[i]) \in Nat
                        /\ IsFiniteSet(parts[i])
      OBVIOUS
    <2>1. parts[i] \in SUBSET Players /\ parts2[i] \in SUBSET Players
      BY <1>1, <1>2
    <2> QED BY <2>1, Finite
  <1>6. CountOf(parts, n) \in Counts(n) /\ CountOf(parts2, n) \in Counts(n)
    BY <1>5 DEF CountOf, Counts
  <1>7. p \notin parts[cur]
    BY DEF Tiled
  <1>8. Cardinality(parts2[cur]) = Cardinality(parts[cur]) + 1
    BY <1>3, <1>5, <1>7, FS_AddElement
  <1>9. OneMore(n, CountOf(parts, n), cur, CountOf(parts2, n))
    <2> SUFFICES ASSUME NEW i \in 1..n
                 PROVE  Cardinality(parts2[i])
                            = Cardinality(parts[i]) + (IF i = cur THEN 1 ELSE 0)
      BY DEF OneMore, CountOf
    <2>1. CASE i = cur
      BY <1>8, <2>1
    <2>2. CASE i # cur
      <3>1. parts2[i] = parts[i] /\ Cardinality(parts[i]) \in Nat
        BY <1>3, <1>5, <2>2
      <3> QED BY <2>2, <3>1
    <2> QED BY <2>1, <2>2
  <1>10. /\ Cardinality(pool) \in Nat /\ Cardinality(pool) > 0
         /\ Cardinality(pool \ {p}) = Cardinality(pool) - 1
    <2>1. pool \in SUBSET Players /\ pool # {}
      BY <1>1
    <2>2. IsFiniteSet(pool) /\ Cardinality(pool) \in Nat
      BY <2>1, Finite
    <2> QED BY <2>1, <2>2, FS_EmptySet, FS_RemoveElement
  <1> QED BY <1>4, <1>6, <1>9, <1>10 DEF parts2

\* Nobody is placed yet.
LEMMA TileNobody ==
    ASSUME NEW all \in SUBSET Players, NEW n \in Nat \ {0}, NEW parts,
           parts \in [1..n -> {{}}]
    PROVE  /\ Tiled(all, all, parts, n)
           /\ CountOf(parts, n) \in Counts(n) /\ \A i \in 1..n : CountOf(parts, n)[i] = 0
           /\ Dealt(n, CountOf(parts, n), 1) /\ Drafted(n, CountOf(parts, n), 1, 1)
           /\ Sliced(Cardinality(all), Cardinality(all), n, CountOf(parts, n), 1)
  <1>1. \A i \in 1..n : parts[i] = {}
    OBVIOUS
  <1>2. Tiled(all, all, parts, n)
    BY <1>1 DEF Tiled
  <1>3. \A i \in 1..n : CountOf(parts, n)[i] = 0
    BY <1>1, FS_EmptySet DEF CountOf
  <1>4. CountOf(parts, n) \in Counts(n)
    BY <1>1, FS_EmptySet DEF CountOf, Counts
  <1> DEFINE c == CountOf(parts, n)
             total == Cardinality(all)
  <1>5. \A i \in 1..n : c[i] = 0
    BY <1>3
  <1>6. total \in Nat
    BY Finite
  <1>7. 1 \in 1..n /\ 1 \in 1..n + 1 /\ 1 # n + 1
    OBVIOUS
  <1> HIDE DEF c, total
  <1>8. Dealt(n, c, 1)
    <2>1. \A i \in 1..n : c[i] = IF i < 1 THEN 0 + 1 ELSE 0
      BY <1>5
    <2> QED BY <1>7, <2>1 DEF Dealt
  <1>9. Drafted(n, c, 1, 1)
    <2>1. \A i \in 1..n : c[i] = IF i < 1 THEN 2 * 0 + 1 ELSE 2 * 0
      BY <1>5
    <2> QED BY <1>7, <2>1 DEF Drafted
  <1>10. Sliced(total, total, n, c, 1)
    <2>1. SplitEvenly(total, n)[1] \in Nat /\ Before(total, n, 1) = 0
      BY <1>6, <1>7, SlicesAddUp
    <2>2. c[1] = 0 /\ (0 < SplitEvenly(total, n)[1] \/ SplitEvenly(total, n)[1] = 0)
      BY <1>5, <1>7, <2>1
    <2>3. total = total - Before(total, n, 1) - c[1]
      BY <1>6, <2>1, <2>2
    <2>4. \A i \in 1..n : (i < 1 => c[i] = SplitEvenly(total, n)[i]) /\ (i > 1 => c[i] = 0)
      BY <1>5
    <2> QED BY <1>7, <2>2, <2>3, <2>4 DEF Sliced
  <1> QED BY <1>2, <1>3, <1>4, <1>8, <1>9, <1>10 DEF c, total

-----------------------------------------------------------------------------
(* What a request holds.                                                     *)

Rows == UNION {[D -> TeamRow] : D \in SUBSET Teams}

Task == [op : Ops \cup {"none"},
         pc : {"idle", "clear", "remove", "insert", "players", "empty", "place", "reply",
               "one", "both", "leave", "again", "add"},
         game : Games \cup {None}, way : Ways, slots : Seq(Teams),
         all : SUBSET Players, pool : SUBSET Players, parts : Seq(SUBSET Players),
         cur : Nat \ {0}, dir : {1, -1}, next : Nat \ {0},
         who : Players \cup {None}, rows : Rows]

\* Which step belongs to which request.
Fits(k) ==
    /\ k.pc = "idle" => k = NoTask
    /\ k.pc = "clear" => k.op \in {"create", "clear"}
    /\ k.pc = "remove" => k.op \in {"create", "clear", "dissolve"}
    /\ k.pc = "insert" => k.op = "create"
    /\ k.pc \in {"players", "empty"} => k.op \in {"rebalance", "shuffle"}
    /\ k.pc \in {"place", "reply"} => k.op \in {"create", "rebalance", "shuffle"}
    /\ k.pc = "one" => k.op = "manual"
    /\ k.pc = "both" => k.op \in {"swap", "update"}
    /\ k.pc \in {"leave", "again", "add"} => k.op = "reassign"

\* There are teams to place players in, and nobody is placed yet.
Empty(k) ==
    /\ Len(k.parts) # 0 /\ k.parts \in [1..Len(k.parts) -> {{}}]
    /\ k.cur = 1 /\ k.dir = 1

Even(k) ==
    LET n == Len(k.parts)
        count == CountOf(k.parts, n)
    IN CASE k.way = "deal" -> Dealt(n, count, k.cur)
         [] k.way = "snake" -> Drafted(n, count, k.cur, k.dir)
         [] k.way = "slices" -> Sliced(Cardinality(k.all), Cardinality(k.pool), n, count, k.cur)
         [] OTHER -> TRUE

Placing(k) ==
    /\ Len(k.parts) # 0
    /\ k.way # "manual" => Tiled(k.all, k.pool, k.parts, Len(k.parts)) /\ Even(k)
    /\ k.way = "manual" => k.pool = {} /\ k.parts \in [1..Len(k.parts) -> {{}}]
    /\ k.next # 1 => k.pool = {}

TaskOK(k) ==
    /\ k \in Task /\ Fits(k)
    /\ k.pc \in {"clear", "insert", "players", "empty", "place", "reply"} \/ k.op = "create"
        => k.game \in Games
    /\ k.pc \in {"clear", "remove"} /\ k.op = "create" => Empty(k)
    /\ k.pc \in {"insert", "players", "empty"} => Empty(k)
    /\ k.pc \notin {"empty", "place", "reply"} => k.next = 1
    /\ k.pc \in {"players", "empty", "place", "reply"} =>
        Len(k.slots) = Len(k.parts) /\ k.next \in 1..Len(k.slots)
    /\ k.pc = "empty" => k.pool = IF k.way = "manual" THEN {} ELSE k.all
    /\ k.pc \in {"place", "reply"} => Placing(k)
    /\ k.pool \subseteq k.all

TasksOK == task \in [Handlers -> Task] /\ \A h \in Handlers : TaskOK(task[h])
TableOK == teams \in [Teams -> TeamRow \cup {None}]
IInv == TableOK /\ TasksOK /\ byHand \in BOOLEAN

LEMMA AsSeq ==
    ASSUME NEW n \in Nat, NEW S, NEW f \in [1..n -> S]
    PROVE  f \in Seq(S) /\ Len(f) = n /\ DOMAIN f = 1..n
  <1>1. f \in Seq(S)
    BY SeqDef
  <1> DEFINE q == Len(f)
  <1>2. q \in Nat /\ 1..n = 1..q
    BY <1>1, LenProperties
  <1> HIDE DEF q
  <1>3. ASSUME n < q PROVE FALSE
    <2>1. q \in 1..q /\ q \notin 1..n
      BY <1>2, <1>3
    <2> QED BY <1>2, <2>1
  <1>4. ASSUME q < n PROVE FALSE
    <2>1. n \in 1..n /\ n \notin 1..q
      BY <1>2, <1>4
    <2> QED BY <1>2, <2>1
  <1>5. q = n
    BY <1>2, <1>3, <1>4
  <1> QED BY <1>1, <1>5 DEF q

LEMMA RowsOf ==
    /\ \A D \in SUBSET Teams : \A f \in [D -> TeamRow] : f \in Rows
    /\ \A f \in Rows : DOMAIN f \subseteq Teams /\ \A t \in DOMAIN f : f[t] \in TeamRow
  BY DEF Rows

LEMMA NoTaskOK == TaskOK(NoTask)
  <1> DEFINE none == [t \in {} |-> None]
  <1>1. none \in [{} -> TeamRow]
    OBVIOUS
  <1>2. none \in Rows
    BY <1>1, RowsOf
  <1> HIDE DEF none
  <1>3. <<>> \in Seq(Teams) /\ <<>> \in Seq(SUBSET Players)
    BY EmptySeq
  <1>4. NoTask = [op |-> "none", pc |-> "idle", game |-> None, way |-> "manual",
           slots |-> <<>>, all |-> {}, pool |-> {}, parts |-> <<>>,
           cur |-> 1, dir |-> 1, next |-> 1,
           who |-> None, rows |-> none]
    BY DEF NoTask, none
  <1>5. NoTask \in Task
    BY <1>2, <1>3, <1>4 DEF Task, Ways
  <1>6. NoTask.pc = "idle" /\ NoTask.op = "none" /\ NoTask.pool = {} /\ NoTask.next = 1
    BY DEF NoTask
  <1> QED BY <1>5, <1>6 DEF TaskOK, Fits

-----------------------------------------------------------------------------
(* The steps of a request, by what they make of what it holds.               *)

\* One player is placed, and the turn goes on.
LEMMA PlaceOne ==
    ASSUME NEW k, TaskOK(k), k.pc = "place", NEW p \in k.pool,
           NEW m, m = [k EXCEPT !.parts = [k.parts EXCEPT ![k.cur] = @ \cup {p}], !.pool = @ \ {p}]
    PROVE  /\ TaskOK(Turned(m))
           /\ Turned(m).pc = "place" /\ Turned(m).op = k.op /\ Turned(m).game = k.game
           /\ Turned(m).slots = k.slots /\ Turned(m).next = k.next /\ k.next = 1
           /\ Len(Turned(m).parts) = Len(k.parts)
  <1> DEFINE n == Len(k.parts)
             parts2 == [k.parts EXCEPT ![k.cur] = @ \cup {p}]
             t == Turned(m)
  <1>1. k \in Task /\ Fits(k) /\ Placing(k) /\ k.game \in Games
    BY DEF TaskOK
  <1>2. k.parts \in Seq(SUBSET Players) /\ k.all \in SUBSET Players /\ k.way \in Ways
    BY <1>1 DEF Task
  <1>3. n \in Nat \ {0}
    BY <1>1, <1>2, LenProperties DEF Placing
  <1>4. k.way # "manual" /\ k.next = 1 /\ Tiled(k.all, k.pool, k.parts, n) /\ Even(k)
    BY <1>1 DEF Placing
  <1>5. k.way \in {"deal", "snake", "slices"}
    BY <1>2, <1>4 DEF Ways
  <1> DEFINE count == CountOf(k.parts, n)
             count2 == CountOf(parts2, n)
  <1>7. m = [k EXCEPT !.parts = parts2, !.pool = k.pool \ {p}]
    BY <1>1 DEF Task
  <1>8. /\ m \in [op : Ops \cup {"none"}, pc : {k.pc}, game : {k.game}, way : {k.way},
                  slots : {k.slots}, all : {k.all}, pool : {k.pool \ {p}}, parts : {parts2},
                  cur : {k.cur}, dir : {k.dir}, next : {k.next}, who : {k.who}, rows : {k.rows}]
        /\ m.op = k.op
    BY <1>1, <1>7 DEF Task
  <1>9. ASSUME k.cur \in 1..n
        PROVE  /\ parts2 \in Seq(SUBSET Players) /\ Len(parts2) = n
               /\ Tiled(k.all, k.pool \ {p}, parts2, n)
               /\ count \in Counts(n) /\ count2 \in Counts(n)
               /\ OneMore(n, count, k.cur, count2)
               /\ Cardinality(k.pool) \in Nat /\ Cardinality(k.pool) > 0
               /\ Cardinality(k.pool \ {p}) = Cardinality(k.pool) - 1
               /\ count2[k.cur] = Cardinality(parts2[k.cur])
    <2>1. k.parts[k.cur] \cup {p} \in SUBSET Players
      BY <1>1, <1>2, <1>9, ElementOfSeq DEF Task
    <2>2. parts2 \in Seq(SUBSET Players) /\ Len(parts2) = n
      BY <1>2, <1>9, <2>1, ExceptSeq
    <2>3. count2[k.cur] = Cardinality(parts2[k.cur])
      BY <1>9 DEF CountOf
    <2> HIDE DEF count2
    <2>4. parts2 = [k.parts EXCEPT ![k.cur] = @ \cup {p}]
      OBVIOUS
    <2> HIDE DEF parts2, n, count
    <2>5. /\ Tiled(k.all, k.pool \ {p}, parts2, n)
          /\ CountOf(k.parts, n) \in Counts(n) /\ CountOf(parts2, n) \in Counts(n)
          /\ OneMore(n, CountOf(k.parts, n), k.cur, CountOf(parts2, n))
          /\ Cardinality(k.pool) \in Nat /\ Cardinality(k.pool) > 0
          /\ Cardinality(k.pool \ {p}) = Cardinality(k.pool) - 1
      <3> DEFINE all == k.all
                 pool == k.pool
                 parts == k.parts
                 cur == k.cur
      <3>1. /\ all \in SUBSET Players /\ Tiled(all, pool, parts, n) /\ cur \in 1..n
            /\ p \in pool /\ parts2 = Added(parts, cur, p)
        BY <1>2, <1>4, <1>9, <2>4 DEF Added
      <3> HIDE DEF all, pool, parts, cur
      <3>2. /\ Tiled(all, pool \ {p}, parts2, n)
            /\ CountOf(parts, n) \in Counts(n) /\ CountOf(parts2, n) \in Counts(n)
            /\ OneMore(n, CountOf(parts, n), cur, CountOf(parts2, n))
            /\ Cardinality(pool) \in Nat /\ Cardinality(pool) > 0
            /\ Cardinality(pool \ {p}) = Cardinality(pool) - 1
        BY <1>3, <3>1, TileOneMore
      <3> QED BY <3>2 DEF all, pool, parts, cur
    <2> QED BY <2>2, <2>3, <2>5 DEF count, count2
  <1> HIDE DEF parts2, n, count, count2
  <1>10. ASSUME NEW c \in Nat \ {0}, NEW d \in {1, -1}, k.cur \in 1..n,
                t = [m EXCEPT !.cur = c, !.dir = d],
                CASE k.way = "deal" -> Dealt(n, count2, c)
                  [] k.way = "snake" -> Drafted(n, count2, c, d)
                  [] k.way = "slices" -> Sliced(Cardinality(k.all), Cardinality(k.pool \ {p}),
                                                n, count2, c)
                  [] OTHER -> TRUE
         PROVE  /\ TaskOK(t)
                /\ t.pc = "place" /\ t.op = k.op /\ t.game = k.game
                /\ t.slots = k.slots /\ t.next = k.next /\ Len(t.parts) = n
    <2> HIDE DEF t
    <2>1. /\ t.op = k.op /\ t.pc = k.pc /\ t.game = k.game /\ t.way = k.way
          /\ t.slots = k.slots /\ t.all = k.all /\ t.pool = k.pool \ {p} /\ t.parts = parts2
          /\ t.cur = c /\ t.dir = d /\ t.next = k.next
      BY <1>1, <1>8, <1>10 DEF Task
    <2>2. t \in Task
      <3>1. k.pool \ {p} \in SUBSET Players /\ parts2 \in Seq(SUBSET Players)
        BY <1>1, <1>9, <1>10 DEF Task
      <3> QED BY <1>1, <1>8, <1>10, <3>1 DEF Task
    <2>3. Len(t.parts) = n
      BY <1>9, <1>10, <2>1
    <2>4. Even(t)
      BY <1>10, <2>1, <2>3 DEF Even, count2
    <2>5. Placing(t)
      BY <1>3, <1>4, <1>9, <1>10, <2>1, <2>3, <2>4 DEF Placing
    <2>6. Fits(t)
      BY <1>1, <2>1 DEF Fits
    <2>7. Len(t.slots) = Len(t.parts) /\ t.next \in 1..Len(t.slots) /\ t.pool \subseteq t.all
      <3>1. Len(k.slots) = n /\ k.next \in 1..Len(k.slots) /\ k.pool \subseteq k.all
        BY DEF TaskOK, n
      <3> QED BY <2>1, <2>3, <3>1
    <2>8. t.game \in Games
      BY <1>1, <2>1
    <2> QED BY <2>1, <2>2, <2>3, <2>5, <2>6, <2>7, <2>8 DEF TaskOK
  <1>11. k.dir \in {1, -1} /\ k.cur \in Nat \ {0} /\ m.way = k.way /\ m.cur = k.cur
         /\ m.dir = k.dir /\ m.parts = parts2 /\ m.all = k.all
    BY <1>1, <1>8 DEF Task
  <1>12. CASE k.way = "deal"
    <2> DEFINE c == (k.cur % n) + 1
    <2>1. Dealt(n, count, k.cur) /\ k.cur \in 1..n
      BY <1>4, <1>12 DEF Even, Dealt, count, n
    <2>2. Dealt(n, count2, c)
      BY <1>3, <1>9, <2>1, DealGoesOn
    <2>3. c \in Nat \ {0}
      BY <2>2, <1>3 DEF Dealt
    <2>4. t = [m EXCEPT !.cur = c, !.dir = k.dir]
      <3>1. t = [m EXCEPT !.cur = c]
        BY <1>9, <1>11, <1>12, <2>1 DEF Turned, DealTurn
      <3> QED BY <1>8, <3>1
    <2> HIDE DEF t, c
    <2> QED BY <1>10, <1>11, <1>12, <2>1, <2>2, <2>3, <2>4, <1>4 DEF t, n
  <1>13. CASE k.way = "snake"
    <2> DEFINE turn == (k.dir = 1 /\ k.cur = n) \/ (k.dir = -1 /\ k.cur = 1)
               c == IF turn THEN k.cur ELSE k.cur + k.dir
               d == IF turn THEN -k.dir ELSE k.dir
    <2>1. Drafted(n, count, k.cur, k.dir) /\ k.cur \in 1..n
      BY <1>4, <1>13 DEF Even, Drafted, count, n
    <2>2. Drafted(n, count2, c, d)
      BY <1>3, <1>9, <2>1, DraftGoesOn
    <2>3. c \in Nat \ {0} /\ d \in {1, -1}
      BY <2>2, <1>3 DEF Drafted
    <2>4. t = [m EXCEPT !.cur = c, !.dir = d]
      <3>1. Len(m.parts) = n
        BY <1>9, <1>11, <2>1
      <3>2. SnakeTurn(m, n) = c /\ SnakeDir(m, n) = d
        BY <1>11 DEF SnakeTurn, SnakeDir, AtEnd
      <3> HIDE DEF c, d
      <3>3. t = [m EXCEPT !.cur = SnakeTurn(m, n), !.dir = SnakeDir(m, n)]
        BY <1>11, <1>13, <3>1 DEF Turned
      <3> QED BY <3>2, <3>3
    <2> HIDE DEF t, c, d
    <2> QED BY <1>10, <1>13, <2>1, <2>2, <2>3, <2>4, <1>4 DEF t, n
  <1>14. CASE k.way = "slices"
    <2> DEFINE total == Cardinality(k.all)
               left == Cardinality(k.pool)
               c == IF count2[k.cur] >= SplitEvenly(total, n)[k.cur] THEN k.cur + 1 ELSE k.cur
    <2>1. Sliced(total, left, n, count, k.cur)
      BY <1>4, <1>14 DEF Even, count, n
    <2>2. total \in Nat /\ left \in Nat /\ left > 0
      <3>1. k.pool \in SUBSET Players /\ k.pool # {}
        BY <1>1 DEF Task
      <3>2. IsFiniteSet(k.pool) /\ left \in Nat /\ total \in Nat
        BY <1>2, <3>1, Finite
      <3> QED BY <3>1, <3>2, FS_EmptySet
    <2>3. k.cur \in 1..n
      <3>1. k.cur \in 1..n + 1 /\ (k.cur = n + 1 => left = 0)
        BY <2>1 DEF Sliced
      <3> QED BY <1>3, <2>2, <3>1
    <2>4. Sliced(total, left - 1, n, count2, c)
      BY <1>3, <1>9, <2>1, <2>2, <2>3, SlicesGoOn
    <2>5. c \in Nat \ {0}
      BY <1>3, <2>3
    <2>6. t = [m EXCEPT !.cur = c, !.dir = k.dir]
      <3>1. t = [m EXCEPT !.cur = c]
        BY <1>9, <1>11, <1>14, <2>3 DEF Turned, SliceTurn, SliceSize
      <3> QED BY <1>8, <3>1
    <2>7. Sliced(Cardinality(k.all), Cardinality(k.pool \ {p}), n, count2, c)
      BY <1>9, <2>3, <2>4
    <2> HIDE DEF t, c
    <2> QED BY <1>10, <1>11, <1>14, <2>3, <2>5, <2>6, <2>7, <1>4 DEF t, n
  <1> QED BY <1>5, <1>12, <1>13, <1>14

\* What has been placed is fair.
LEMMA PlacedIsFair ==
    ASSUME NEW k, TaskOK(k), k.pc \in {"place", "reply"}, k.way # "manual", k.pool = {}
    PROVE  /\ UNION {k.parts[i] : i \in DOMAIN k.parts} = k.all
           /\ \A i, j \in DOMAIN k.parts : i # j => k.parts[i] \cap k.parts[j] = {}
           /\ \A a, b \in Sizes(k) : a <= b + 1
  <1> DEFINE n == Len(k.parts)
             count == CountOf(k.parts, n)
  <1>1. k \in Task /\ Placing(k)
    BY DEF TaskOK
  <1>2. k.parts \in Seq(SUBSET Players) /\ k.all \in SUBSET Players /\ k.way \in Ways
    BY <1>1 DEF Task
  <1>3. n \in Nat \ {0} /\ DOMAIN k.parts = 1..n
    BY <1>1, <1>2, LenProperties DEF Placing
  <1>4. Tiled(k.all, {}, k.parts, n) /\ Even(k)
    BY <1>1 DEF Placing
  <1>5. k.way \in {"deal", "snake", "slices"}
    BY <1>2 DEF Ways
  <1>6. UNION {k.parts[i] : i \in DOMAIN k.parts} = k.all
    <2>1. k.parts \in [1..n -> SUBSET k.all] /\ \A p \in k.all : \E i \in 1..n : p \in k.parts[i]
      BY <1>4 DEF Tiled
    <2>2. \A i \in 1..n : k.parts[i] \subseteq k.all
      BY <2>1
    <2> HIDE DEF n
    <2> QED BY <1>3, <2>1, <2>2
  <1>7. \A i, j \in DOMAIN k.parts : i # j => k.parts[i] \cap k.parts[j] = {}
    BY <1>3, <1>4 DEF Tiled
  <1>8. count \in Counts(n) /\ \A i \in 1..n : count[i] = Cardinality(k.parts[i])
    <2>1. \A i \in 1..n : k.parts[i] \in SUBSET Players
      BY <1>2, <1>3, ElementOfSeq
    <2>2. \A i \in 1..n : Cardinality(k.parts[i]) \in Nat
      BY <2>1, Finite
    <2> QED BY <2>2 DEF CountOf, Counts
  <1> HIDE DEF count, n
  <1>9. \A i, j \in 1..n : count[i] <= count[j] + 1
    <2>1. CASE k.way = "deal"
      <3>1. Dealt(n, count, k.cur)
        BY <1>4, <2>1 DEF Even, n, count
      <3>2. PICK r \in Nat : \A i \in 1..n : count[i] = IF i < k.cur THEN r + 1 ELSE r
        BY <3>1 DEF Dealt
      <3>3. \A i \in 1..n : count[i] \in {r, r + 1}
        BY <3>2
      <3> QED BY <3>3
    <2>2. CASE k.way = "snake"
      <3>1. Drafted(n, count, k.cur, k.dir)
        BY <1>4, <2>2 DEF Even, n, count
      <3>2. PICK r \in Nat : \A i \in 1..n :
                count[i] = IF k.dir = 1 THEN (IF i < k.cur THEN 2 * r + 1 ELSE 2 * r)
                           ELSE (IF i > k.cur THEN 2 * r + 2 ELSE 2 * r + 1)
        BY <3>1 DEF Drafted
      <3>3. CASE k.dir = 1
        <4>1. \A i \in 1..n : count[i] \in {2 * r, 2 * r + 1}
          BY <3>2, <3>3
        <4> QED BY <4>1
      <3>4. CASE k.dir # 1
        <4>1. \A i \in 1..n : count[i] \in {2 * r + 1, 2 * r + 2}
          BY <3>2, <3>4
        <4> QED BY <4>1
      <3> QED BY <3>3, <3>4
    <2>3. CASE k.way = "slices"
      <3> DEFINE total == Cardinality(k.all)
      <3>1. Sliced(total, 0, n, count, k.cur)
        BY <1>4, <2>3, FS_EmptySet DEF Even, n, count
      <3>2. total \in Nat
        BY <1>2, Finite
      <3> HIDE DEF total
      <3>3. \A i \in 1..n : count[i] = SplitEvenly(total, n)[i]
        BY <1>3, <1>8, <3>1, <3>2, SlicesFull
      <3>4. \A i, j \in 1..n : i <= j => /\ SplitEvenly(total, n)[i] >= SplitEvenly(total, n)[j]
                                         /\ SplitEvenly(total, n)[i] <= SplitEvenly(total, n)[j] + 1
        BY <1>3, <3>2, SplitIsEven
      <3> SUFFICES ASSUME NEW i \in 1..n, NEW j \in 1..n PROVE count[i] <= count[j] + 1
        OBVIOUS
      <3>5. count[i] \in Nat /\ count[j] \in Nat
        BY <1>8 DEF Counts
      <3>6. CASE i <= j
        <4>1. count[i] <= count[j] + 1
          BY <3>3, <3>4, <3>6
        <4> QED BY <4>1
      <3>7. CASE j <= i
        <4>1. count[j] >= count[i]
          BY <3>3, <3>4, <3>7
        <4> QED BY <3>5, <4>1
      <3> QED BY <3>6, <3>7, <1>3
    <2> QED BY <1>5, <2>1, <2>2, <2>3
  <1>10. \A a, b \in Sizes(k) : a <= b + 1
    <2> SUFFICES ASSUME NEW a \in Sizes(k), NEW b \in Sizes(k) PROVE a <= b + 1
      OBVIOUS
    <2>1. PICK i \in 1..n, j \in 1..n : a = Cardinality(k.parts[i]) /\ b = Cardinality(k.parts[j])
      BY <1>3 DEF Sizes
    <2>2. a = count[i] /\ b = count[j]
      BY <1>8, <2>1
    <2> QED BY <1>9, <2>2
  <1> QED BY <1>6, <1>7, <1>10

\* A request that loads rows and holds them, together with a player.
LEMMA HoldOK ==
    ASSUME NEW op \in Ops, NEW p \in Players \cup {None}, NEW rows \in Rows,
           NEW pc \in {"remove", "one", "both", "leave", "again", "add"},
           pc = "remove" => op = "dissolve", pc = "one" => op = "manual",
           pc = "both" => op \in {"swap", "update"},
           pc \in {"leave", "again", "add"} => op = "reassign",
           op # "create"
    PROVE  TaskOK([NoTask EXCEPT !.op = op, !.pc = pc, !.who = p, !.rows = rows])
  <1> DEFINE x == [NoTask EXCEPT !.op = op, !.pc = pc, !.who = p, !.rows = rows]
  <1>1. NoTask \in Task
    BY NoTaskOK DEF TaskOK
  <1>2. x \in Task /\ x.op = op /\ x.pc = pc /\ x.pool = NoTask.pool /\ x.next = NoTask.next
    BY <1>1 DEF Task
  <1>3. NoTask.pool = {} /\ NoTask.next = 1
    BY DEF NoTask
  <1> HIDE DEF x
  <1>4. Fits(x)
    BY <1>2 DEF Fits
  <1>5. x.pool \subseteq x.all
    BY <1>2, <1>3
  <1>6. /\ x.pc \notin {"clear", "insert", "players", "empty", "place", "reply"}
        /\ x.op # "create"
    BY <1>2
  <1>7. TaskOK(x)
    BY <1>2, <1>3, <1>4, <1>5, <1>6 DEF TaskOK
  <1> QED BY <1>7 DEF x

LEMMA PlacingStarts ==
    ASSUME NEW x \in Task, Empty(x), x.next = 1,
           x.pool = IF x.way = "manual" THEN {} ELSE x.all
    PROVE  Placing(x)
  <1> DEFINE n == Len(x.parts)
             parts == x.parts
             all == x.all
  <1>1. parts \in Seq(SUBSET Players) /\ all \in SUBSET Players
    BY DEF Task
  <1>2. n \in Nat \ {0}
    BY <1>1, LenProperties DEF Empty
  <1>3. parts \in [1..n -> {{}}] /\ x.cur = 1 /\ x.dir = 1
    BY DEF Empty
  <1> HIDE DEF n, parts, all
  <1>4. /\ Tiled(all, all, parts, n)
        /\ Dealt(n, CountOf(parts, n), 1) /\ Drafted(n, CountOf(parts, n), 1, 1)
        /\ Sliced(Cardinality(all), Cardinality(all), n, CountOf(parts, n), 1)
    BY <1>1, <1>2, <1>3, TileNobody
  <1>5. ASSUME x.way # "manual" PROVE Tiled(x.all, x.pool, x.parts, n) /\ Even(x)
    <2>1. x.pool = x.all
      BY <1>5
    <2>2. Tiled(x.all, x.pool, x.parts, n)
      BY <1>4, <2>1 DEF all, parts
    <2>3. Even(x)
      BY <1>3, <1>4, <2>1 DEF Even, all, parts, n
    <2> QED BY <2>2, <2>3
  <1> QED BY <1>2, <1>3, <1>5 DEF Placing, n, parts

-----------------------------------------------------------------------------
(* The invariant is kept.                                                    *)

LEMMA Kept ==
    ASSUME TasksOK, NEW h \in Handlers, NEW x, TaskOK(x), task' = [task EXCEPT ![h] = x]
    PROVE  TasksOK' /\ task'[h] = x
  <1>1. x \in Task
    BY DEF TaskOK
  <1>2. task' \in [Handlers -> Task] /\ task'[h] = x
        /\ \A j \in Handlers : j # h => task'[j] = task[j]
    BY <1>1 DEF TasksOK
  <1>3. \A j \in Handlers : TaskOK(task'[j])
    BY <1>2 DEF TasksOK
  <1> QED BY <1>2, <1>3 DEF TasksOK

LEMMA SavedOK ==
    ASSUME TableOK, NEW rows \in Rows
    PROVE  Saved(rows) \in [Teams -> TeamRow \cup {None}]
  BY RowsOf DEF TableOK, Saved

LEMMA DeletedOK ==
    ASSUME TableOK, NEW ts
    PROVE  Deleted(ts) \in [Teams -> TeamRow \cup {None}]
  BY DEF TableOK, Deleted

\* Copies of rows that exist.
LEMMA CopiesOK ==
    ASSUME TableOK, NEW D \in SUBSET Teams, \A t \in D : Exists(t)
    PROVE  [t \in D |-> teams[t]] \in Rows
  <1>1. \A t \in D : teams[t] \in TeamRow
    BY DEF TableOK, Exists
  <1>2. [t \in D |-> teams[t]] \in [D -> TeamRow]
    BY <1>1
  <1> QED BY <1>2, RowsOf

LEMMA IdleIsNone == \A k : TaskOK(k) /\ k.pc = "idle" => k = NoTask
  BY DEF TaskOK, Fits

\* Nothing is under way any more.
LEMMA DoneKept ==
    ASSUME IInv, NEW h \in Handlers, Done(h)
    PROVE  TasksOK' /\ task'[h] = NoTask
  BY NoTaskOK, Kept DEF Done, IInv

LEMMA CreateTeamsKept ==
    ASSUME IInv, NEW h \in Handlers, NEW g \in Games, NEW n \in 2..MaxTeams,
           NEW way \in Ways, NEW active \in SUBSET Players, CreateTeams(h, g, n, way, active)
    PROVE  TasksOK' /\ TableOK'
  <1> DEFINE parts == [i \in 1..n |-> {}]
             x == [NoTask EXCEPT !.op = "create", !.pc = "clear",
                    !.game = g, !.way = way, !.all = active, !.next = 1, !.parts = parts]
  <1>1. n \in Nat \ {0} /\ "create" \in Ops
    BY LimitsAssumption DEF CreateTeams, Request
  <1>2. parts \in [1..n -> {{}}] /\ parts \in [1..n -> SUBSET Players]
    OBVIOUS
  <1> HIDE DEF parts
  <1>3. parts \in Seq(SUBSET Players) /\ Len(parts) = n
    BY <1>1, <1>2, AsSeq
  <1>4. NoTask \in Task /\ NoTask.pool = {} /\ NoTask.cur = 1 /\ NoTask.dir = 1
    BY NoTaskOK DEF TaskOK, NoTask
  <1>5. /\ x \in Task /\ x.op = "create" /\ x.pc = "clear" /\ x.game = g /\ x.parts = parts
        /\ x.pool = {} /\ x.cur = 1 /\ x.dir = 1 /\ x.next = 1
    BY <1>1, <1>3, <1>4 DEF Task
  <1>6. task' = [task EXCEPT ![h] = x]
    BY DEF CreateTeams, parts
  <1> HIDE DEF x
  <1>7. Empty(x)
    BY <1>1, <1>2, <1>3, <1>5 DEF Empty
  <1>8. Fits(x) /\ x.pool \subseteq x.all /\ x.game \in Games
    BY <1>5 DEF Fits
  <1>9. TaskOK(x)
    BY <1>5, <1>7, <1>8 DEF TaskOK
  <1> QED BY <1>6, <1>9, Kept DEF IInv, CreateTeams, TableOK

LEMMA ClearTeamsKept ==
    ASSUME IInv, NEW h \in Handlers, NEW g \in Games, ClearTeams(h, g)
    PROVE  TasksOK' /\ TableOK'
  <1> DEFINE x == [NoTask EXCEPT !.op = "clear", !.pc = "clear", !.game = g]
  <1>1. "clear" \in Ops
    BY DEF ClearTeams, Request
  <1>2. NoTask \in Task /\ NoTask.pool = {} /\ NoTask.next = 1
    BY NoTaskOK DEF TaskOK, NoTask
  <1>3. /\ x \in Task /\ x.op = "clear" /\ x.pc = "clear" /\ x.game = g
        /\ x.pool = {} /\ x.next = 1
    BY <1>1, <1>2 DEF Task
  <1>4. task' = [task EXCEPT ![h] = x]
    BY DEF ClearTeams
  <1> HIDE DEF x
  <1>5. Fits(x) /\ x.pool \subseteq x.all /\ x.game \in Games
    BY <1>3 DEF Fits
  <1>6. TaskOK(x)
    BY <1>3, <1>5 DEF TaskOK
  <1> QED BY <1>4, <1>6, Kept DEF IInv, ClearTeams, TableOK

LEMMA FindExistingKept ==
    ASSUME IInv, NEW h \in Handlers, FindExisting(h)
    PROVE  TasksOK' /\ TableOK'
  <1> DEFINE k == task[h]
             rows == [t \in TeamsOf(k.game) |-> teams[t]]
             x == [k EXCEPT !.pc = "remove", !.rows = rows]
  <1>1. k \in Task /\ TaskOK(k) /\ k.pc = "clear"
    BY DEF IInv, TasksOK, FindExisting, At
  <1>2. rows \in Rows
    BY CopiesOK DEF IInv, TeamsOf
  <1>3. task' = [task EXCEPT ![h] = x]
    BY DEF FindExisting, IInv, TasksOK
  <1> HIDE DEF rows, k
  <1>4. /\ x \in Task /\ x.op = k.op /\ x.pc = "remove" /\ x.game = k.game /\ x.parts = k.parts
        /\ x.pool = k.pool /\ x.all = k.all /\ x.cur = k.cur /\ x.dir = k.dir /\ x.next = k.next
    BY <1>1, <1>2 DEF Task
  <1> HIDE DEF x
  <1>5. Fits(x) /\ (k.op = "create" => Empty(x)) /\ x.next = 1 /\ x.game \in Games
        /\ x.pool \subseteq x.all
    BY <1>1, <1>4 DEF Fits, TaskOK, Empty
  <1>6. TaskOK(x)
    BY <1>4, <1>5 DEF TaskOK
  <1> QED BY <1>3, <1>6, Kept DEF IInv, FindExisting, TableOK

LEMMA RemoveExistingKept ==
    ASSUME IInv, NEW h \in Handlers, RemoveExisting(h)
    PROVE  TasksOK' /\ TableOK'
  <1> DEFINE k == task[h]
             x == [k EXCEPT !.pc = "insert", !.rows = NoTask.rows]
  <1>1. k \in Task /\ TaskOK(k) /\ k.pc = "remove"
    BY DEF IInv, TasksOK, RemoveExisting, At
  <1>2. TableOK'
    BY DeletedOK DEF RemoveExisting, IInv, TableOK
  <1>3. CASE k.op = "create"
    <2>1. task' = [task EXCEPT ![h] = x]
      BY <1>3 DEF RemoveExisting, IInv, TasksOK
    <2>2. NoTask.rows \in Rows
      BY NoTaskOK DEF TaskOK, Task
    <2> HIDE DEF k
    <2>3. /\ x \in Task /\ x.op = k.op /\ x.pc = "insert" /\ x.game = k.game
          /\ x.parts = k.parts /\ x.pool = k.pool /\ x.all = k.all /\ x.cur = k.cur
          /\ x.dir = k.dir /\ x.next = k.next
      BY <1>1, <2>2 DEF Task
    <2> HIDE DEF x
    <2>4. Fits(x) /\ Empty(x) /\ x.next = 1 /\ x.game \in Games /\ x.pool \subseteq x.all
      BY <1>1, <1>3, <2>3 DEF Fits, TaskOK, Empty
    <2>5. TaskOK(x)
      BY <1>3, <2>3, <2>4 DEF TaskOK
    <2> QED BY <1>2, <2>1, <2>5, Kept DEF IInv
  <1>4. CASE k.op # "create"
    BY <1>2, <1>4, DoneKept DEF RemoveExisting
  <1> QED BY <1>3, <1>4

LEMMA OrdersAre ==
    ASSUME NEW ts \in SUBSET Teams, NEW s \in Orders(ts)
    PROVE  /\ Cardinality(ts) \in Nat /\ s \in Seq(Teams) /\ Len(s) = Cardinality(ts)
           /\ DOMAIN s = 1..Len(s) /\ \A i \in DOMAIN s : s[i] \in ts
           /\ \A i, j \in DOMAIN s : s[i] = s[j] => i = j
           /\ ts # {} => Len(s) # 0
  <1>1. IsFiniteSet(ts) /\ Cardinality(ts) \in Nat
    BY ConstantsAssumption, FS_Subset, FS_CardinalityType
  <1> DEFINE n == Cardinality(ts)
  <1>2. s \in [1..n -> ts] /\ \A i, j \in DOMAIN s : s[i] = s[j] => i = j
    BY DEF Orders
  <1>3. n = 0 <=> ts = {}
    BY <1>1, FS_EmptySet
  <1>4. n \in Nat
    BY <1>1
  <1> HIDE DEF n
  <1>5. s \in [1..n -> Teams]
    BY <1>2
  <1>6. s \in Seq(Teams) /\ Len(s) = n /\ DOMAIN s = 1..n
    BY <1>4, <1>5, AsSeq
  <1> QED BY <1>2, <1>3, <1>4, <1>6 DEF n

LEMMA InsertTeamsKept ==
    ASSUME IInv, NEW h \in Handlers, InsertTeams(h)
    PROVE  TasksOK' /\ TableOK'
  <1> DEFINE k == task[h]
             fresh == [game |-> k.game, members |-> {}]
  <1>1. k \in Task /\ TaskOK(k) /\ k.pc = "insert"
    BY DEF IInv, TasksOK, InsertTeams, At
  <1>2. PICK ts \in SUBSET Unused :
        /\ Cardinality(ts) = Len(k.parts)
        /\ teams' = Saved([t \in ts |-> [game |-> k.game, members |-> {}]])
        /\ \E s \in Orders(ts) :
            task' = [task EXCEPT ![h].pc = "place", ![h].slots = s,
                        ![h].pool = IF k.way = "manual" THEN {} ELSE k.all]
    BY DEF InsertTeams
  <1>3. PICK s \in Orders(ts) :
            task' = [task EXCEPT ![h].pc = "place", ![h].slots = s,
                        ![h].pool = IF k.way = "manual" THEN {} ELSE k.all]
    BY <1>2
  <1>4. ts \in SUBSET Teams
    BY <1>2 DEF Unused
  <1>5. s \in Seq(Teams) /\ Len(s) = Len(k.parts)
    BY <1>2, <1>4, OrdersAre
  <1>6. TableOK'
    <2>1. fresh \in TeamRow
      BY <1>1 DEF TeamRow, TaskOK
    <2>2. [t \in ts |-> fresh] \in [ts -> TeamRow]
      BY <2>1
    <2>3. [t \in ts |-> fresh] \in Rows
      BY <1>4, <2>2, RowsOf
    <2> QED BY <1>2, <2>3, SavedOK DEF IInv, TableOK
  <1> DEFINE pool == IF k.way = "manual" THEN {} ELSE k.all
             x == [k EXCEPT !.pc = "place", !.slots = s, !.pool = pool]
  <1>7. task' = [task EXCEPT ![h] = x]
    BY <1>3 DEF IInv, TasksOK
  <1> HIDE DEF k
  <1>8. pool \in SUBSET Players /\ pool \subseteq k.all
    BY <1>1 DEF Task
  <1>9. pool = IF k.way = "manual" THEN {} ELSE k.all
    OBVIOUS
  <1> HIDE DEF pool
  <1>10. /\ x \in Task /\ x.op = k.op /\ x.pc = "place" /\ x.game = k.game /\ x.way = k.way
         /\ x.parts = k.parts /\ x.pool = pool /\ x.all = k.all /\ x.cur = k.cur
         /\ x.dir = k.dir /\ x.next = k.next /\ x.slots = s
    BY <1>1, <1>5, <1>8 DEF Task
  <1> HIDE DEF x
  <1>11. k.op = "create" /\ Empty(k) /\ k.next = 1 /\ k.game \in Games
    BY <1>1 DEF TaskOK, Fits
  <1>12. Fits(x) /\ Empty(x) /\ x.next = 1 /\ x.game \in Games /\ x.pool \subseteq x.all
    BY <1>8, <1>10, <1>11 DEF Fits, Empty
  <1>13. Placing(x)
    BY <1>9, <1>10, <1>12, PlacingStarts
  <1>14. Len(x.slots) = Len(x.parts) /\ x.next \in 1..Len(x.slots)
    <2>1. Len(k.parts) \in Nat /\ Len(k.parts) # 0
      BY <1>1, <1>11, LenProperties DEF Task, Empty
    <2> QED BY <1>5, <1>10, <1>12, <2>1
  <1>15. TaskOK(x)
    BY <1>10, <1>12, <1>13, <1>14 DEF TaskOK
  <1> QED BY <1>6, <1>7, <1>15, Kept DEF IInv

LEMMA RedistributeKept ==
    ASSUME IInv, NEW h \in Handlers, NEW g \in Games, NEW op, NEW way \in Ways,
           Redistribute(h, g, op, way)
    PROVE  TasksOK' /\ TableOK'
  <1>1. /\ op \in Ops /\ TeamsOf(g) # {} /\ op \in {"rebalance", "shuffle"}
        /\ UNCHANGED teams
    BY DEF Redistribute, Request
  <1>2. PICK s \in Orders(TeamsOf(g)) :
        task' = [task EXCEPT ![h] = [NoTask EXCEPT !.op = op, !.pc = "players",
                    !.game = g, !.way = way, !.slots = s,
                    !.parts = [i \in DOMAIN s |-> {}]]]
    BY DEF Redistribute
  <1>3. TeamsOf(g) \in SUBSET Teams
    BY DEF TeamsOf
  <1>4. s \in Seq(Teams) /\ Len(s) \in Nat \ {0} /\ DOMAIN s = 1..Len(s)
    <2>1. s \in Seq(Teams) /\ Len(s) # 0 /\ DOMAIN s = 1..Len(s)
      BY <1>1, <1>3, OrdersAre
    <2> QED BY <2>1, LenProperties
  <1> DEFINE parts == [i \in DOMAIN s |-> {}]
             x == [NoTask EXCEPT !.op = op, !.pc = "players", !.game = g, !.way = way,
                                 !.slots = s, !.parts = parts]
  <1>5. parts \in [1..Len(s) -> {{}}] /\ parts \in [1..Len(s) -> SUBSET Players]
    BY <1>4
  <1>6. task' = [task EXCEPT ![h] = x]
    BY <1>2
  <1> HIDE DEF parts
  <1>7. parts \in Seq(SUBSET Players) /\ Len(parts) = Len(s)
    BY <1>4, <1>5, AsSeq
  <1>8. NoTask \in Task /\ NoTask.pool = {} /\ NoTask.cur = 1 /\ NoTask.dir = 1 /\ NoTask.next = 1
    BY NoTaskOK DEF TaskOK, NoTask
  <1>9. /\ x \in Task /\ x.op = op /\ x.pc = "players" /\ x.game = g /\ x.parts = parts
        /\ x.slots = s /\ x.pool = {} /\ x.cur = 1 /\ x.dir = 1 /\ x.next = 1
    BY <1>1, <1>4, <1>7, <1>8 DEF Task
  <1> HIDE DEF x
  <1>10. Empty(x)
    BY <1>4, <1>5, <1>7, <1>9 DEF Empty
  <1>11. Fits(x) /\ x.pool \subseteq x.all /\ x.game \in Games
         /\ Len(x.slots) = Len(x.parts) /\ x.next \in 1..Len(x.slots)
    BY <1>1, <1>4, <1>7, <1>9 DEF Fits
  <1>12. x.op # "create"
    BY <1>1, <1>9
  <1>13. TaskOK(x)
    BY <1>9, <1>10, <1>11, <1>12 DEF TaskOK
  <1> QED BY <1>1, <1>6, <1>13, Kept DEF IInv, TableOK

LEMMA FindPlayersKept ==
    ASSUME IInv, NEW h \in Handlers, NEW active \in SUBSET Players, FindPlayers(h, active)
    PROVE  TasksOK' /\ TableOK'
  <1> DEFINE k == task[h]
             pool == IF k.way = "manual" THEN {} ELSE active
             x == [k EXCEPT !.pc = "empty", !.all = active, !.pool = pool]
  <1>1. k \in Task /\ TaskOK(k) /\ k.pc = "players"
    BY DEF IInv, TasksOK, FindPlayers, At
  <1>2. task' = [task EXCEPT ![h] = x] /\ UNCHANGED teams
    BY DEF FindPlayers, IInv, TasksOK
  <1> HIDE DEF k
  <1>3. pool \in SUBSET Players /\ pool \subseteq active
        /\ pool = IF k.way = "manual" THEN {} ELSE active
    OBVIOUS
  <1> HIDE DEF pool
  <1>4. /\ x \in Task /\ x.op = k.op /\ x.pc = "empty" /\ x.game = k.game /\ x.way = k.way
        /\ x.parts = k.parts /\ x.pool = pool /\ x.all = active /\ x.cur = k.cur
        /\ x.dir = k.dir /\ x.next = k.next /\ x.slots = k.slots
    BY <1>1, <1>3 DEF Task
  <1> HIDE DEF x
  <1>5. /\ k.op \in {"rebalance", "shuffle"} /\ Empty(k) /\ k.next = 1 /\ k.game \in Games
        /\ Len(k.slots) = Len(k.parts) /\ k.next \in 1..Len(k.slots)
    BY <1>1 DEF TaskOK, Fits
  <1>6. Fits(x) /\ Empty(x) /\ x.op # "create"
    BY <1>4, <1>5 DEF Fits, Empty
  <1>7. /\ x.game \in Games /\ x.pool \subseteq x.all /\ Len(x.slots) = Len(x.parts)
        /\ x.next \in 1..Len(x.slots) /\ x.pool = IF x.way = "manual" THEN {} ELSE x.all
    BY <1>3, <1>4, <1>5
  <1>8. TaskOK(x)
    BY <1>4, <1>6, <1>7 DEF TaskOK
  <1> QED BY <1>2, <1>8, Kept DEF IInv, TableOK

\* The save of one of the teams that are filled.
LEMMA SaveSlotOK ==
    ASSUME IInv, NEW h \in Handlers, task[h].pc \in {"empty", "place"},
           NEW members \in SUBSET Players, SaveSlot(h, members)
    PROVE  TableOK'
  <1> DEFINE k == task[h]
             row == [game |-> k.game, members |-> members]
             t == k.slots[k.next]
  <1>1. k \in Task /\ TaskOK(k)
    BY DEF IInv, TasksOK
  <1>2. row \in TeamRow
    BY <1>1 DEF TaskOK, TeamRow
  <1>3. t \in Teams
    <2>1. k.slots \in Seq(Teams) /\ k.next \in 1..Len(k.slots)
      BY <1>1 DEF TaskOK, Task
    <2> QED BY <2>1, ElementOfSeq
  <1>4. teams' = Saved([u \in {t} |-> row])
    BY DEF SaveSlot
  <1> HIDE DEF t, row
  <1>5. [u \in {t} |-> row] \in [{t} -> TeamRow]
    BY <1>2
  <1>6. [u \in {t} |-> row] \in Rows
    BY <1>3, <1>5, RowsOf
  <1> QED BY <1>4, <1>6, SavedOK DEF IInv, TableOK

LEMMA EmptySlotKept ==
    ASSUME IInv, NEW h \in Handlers, EmptySlot(h)
    PROVE  TasksOK' /\ TableOK'
  <1> DEFINE k == task[h]
  <1>1. k \in Task /\ TaskOK(k) /\ k.pc = "empty"
    BY DEF IInv, TasksOK, EmptySlot, At
  <1>2. TableOK'
    BY <1>1, SaveSlotOK DEF EmptySlot
  <1>3. /\ k.op \in {"rebalance", "shuffle"} /\ Empty(k) /\ k.game \in Games
        /\ Len(k.slots) = Len(k.parts) /\ k.next \in 1..Len(k.slots)
        /\ k.pool = IF k.way = "manual" THEN {} ELSE k.all
        /\ k.pool \subseteq k.all
    BY <1>1 DEF TaskOK, Fits
  <1>4. Len(k.slots) \in Nat
    BY <1>1, LenProperties DEF Task
  <1>5. CASE k.next = Len(k.slots)
    <2> DEFINE x == [k EXCEPT !.pc = "place", !.next = 1]
    <2>1. task' = [task EXCEPT ![h] = x]
      BY <1>5 DEF EmptySlot, IInv, TasksOK
    <2> HIDE DEF k
    <2>2. /\ x \in Task /\ x.op = k.op /\ x.pc = "place" /\ x.game = k.game /\ x.way = k.way
          /\ x.parts = k.parts /\ x.pool = k.pool /\ x.all = k.all /\ x.cur = k.cur
          /\ x.dir = k.dir /\ x.next = 1 /\ x.slots = k.slots
      <3>1. "place" \in {"idle", "clear", "remove", "insert", "players", "empty", "place", "reply",
                          "one", "both", "leave", "again", "add"} /\ 1 \in Nat \ {0}
        OBVIOUS
      <3>2. x \in Task
        BY <1>1, <3>1 DEF Task
      <3> QED BY <1>1, <3>2 DEF Task
    <2> HIDE DEF x
    <2>3. Fits(x) /\ Empty(x) /\ x.op # "create"
      BY <1>3, <2>2 DEF Fits, Empty
    <2>4. /\ x.game \in Games /\ x.pool \subseteq x.all /\ Len(x.slots) = Len(x.parts)
          /\ x.next \in 1..Len(x.slots) /\ x.pool = IF x.way = "manual" THEN {} ELSE x.all
      BY <1>3, <1>4, <2>2
    <2>5. Placing(x)
      BY <2>2, <2>3, <2>4, PlacingStarts
    <2>6. TaskOK(x)
      BY <2>2, <2>3, <2>4, <2>5 DEF TaskOK
    <2> QED BY <1>2, <2>1, <2>6, Kept DEF IInv
  <1>6. CASE k.next # Len(k.slots)
    <2> DEFINE x == [k EXCEPT !.next = k.next + 1]
    <2>1. task' = [task EXCEPT ![h] = x]
      BY <1>6 DEF EmptySlot, IInv, TasksOK
    <2> HIDE DEF k
    <2>2. /\ x \in Task /\ x.op = k.op /\ x.pc = "empty" /\ x.game = k.game /\ x.way = k.way
          /\ x.parts = k.parts /\ x.pool = k.pool /\ x.all = k.all /\ x.cur = k.cur
          /\ x.dir = k.dir /\ x.next = k.next + 1 /\ x.slots = k.slots
      BY <1>1 DEF Task
    <2> HIDE DEF x
    <2>3. Fits(x) /\ Empty(x) /\ x.op # "create"
      BY <1>3, <2>2 DEF Fits, Empty
    <2>4. /\ x.game \in Games /\ x.pool \subseteq x.all /\ Len(x.slots) = Len(x.parts)
          /\ x.next \in 1..Len(x.slots) /\ x.pool = IF x.way = "manual" THEN {} ELSE x.all
      BY <1>3, <1>4, <1>6, <2>2
    <2>5. TaskOK(x)
      BY <2>2, <2>3, <2>4 DEF TaskOK
    <2> QED BY <1>2, <2>1, <2>5, Kept DEF IInv
  <1> QED BY <1>5, <1>6

LEMMA PlaceKept ==
    ASSUME IInv, NEW h \in Handlers, NEW p \in Players, Place(h, p)
    PROVE  TasksOK' /\ TableOK'
  <1> DEFINE k == task[h]
             m == [k EXCEPT !.parts = [k.parts EXCEPT ![k.cur] = @ \cup {p}], !.pool = @ \ {p}]
  <1>1. TaskOK(k) /\ k.pc = "place" /\ p \in k.pool
    BY DEF IInv, TasksOK, Place, At
  <1>2. task' = [task EXCEPT ![h] = Turned(m)] /\ UNCHANGED teams
    BY DEF Place
  <1> HIDE DEF k
  <1>3. TaskOK(Turned(m))
    BY <1>1, PlaceOne
  <1> HIDE DEF m
  <1> QED BY <1>2, <1>3, Kept DEF IInv, TableOK

LEMMA NextInTask ==
    ASSUME NEW k \in Task, NEW n \in Nat \ {0}
    PROVE  [k EXCEPT !.next = n] \in Task
  BY DEF Task

LEMMA SavePartKept ==
    ASSUME IInv, NEW h \in Handlers, SavePart(h)
    PROVE  TasksOK' /\ TableOK'
  <1> DEFINE k == task[h]
             members == k.parts[k.next]
  <1>1. k \in Task /\ TaskOK(k) /\ k.pc = "place" /\ k.pool = {}
    BY DEF IInv, TasksOK, SavePart, At
  <1>2. /\ k.op \in {"create", "rebalance", "shuffle"} /\ Placing(k) /\ k.game \in Games
        /\ Len(k.slots) = Len(k.parts) /\ k.next \in 1..Len(k.slots) /\ k.pool \subseteq k.all
    BY <1>1 DEF TaskOK, Fits
  <1>3. Len(k.slots) \in Nat
    BY <1>1, LenProperties DEF Task
  <1>4. members \in SUBSET Players
    <2>1. k.parts \in Seq(SUBSET Players) /\ k.next \in 1..Len(k.parts)
      BY <1>1, <1>2 DEF Task
    <2> QED BY <2>1, ElementOfSeq
  <1>5. TableOK'
    <2>1. SaveSlot(h, members) /\ task[h].pc \in {"empty", "place"}
      BY <1>1 DEF SavePart
    <2> QED BY <1>4, <2>1, SaveSlotOK
  <1>6. ASSUME NEW x, x = [k EXCEPT !.pc = "reply"] \/ x = [k EXCEPT !.next = k.next + 1],
               k.next # Len(k.slots) \/ x.next = k.next
        PROVE  TaskOK(x)
    <2> HIDE DEF k
    <2>1. /\ x \in Task /\ x.op = k.op /\ x.pc \in {"place", "reply"} /\ x.game = k.game
          /\ x.way = k.way /\ x.parts = k.parts /\ x.pool = k.pool /\ x.all = k.all
          /\ x.cur = k.cur /\ x.dir = k.dir /\ x.slots = k.slots
          /\ x.next \in {k.next, k.next + 1}
      <3>1. CASE x = [k EXCEPT !.pc = "reply"]
        BY <1>1, <3>1 DEF Task
      <3>2. CASE x = [k EXCEPT !.next = k.next + 1]
        <4>1. x \in Task
          <5>1. k.next + 1 \in Nat \ {0}
            BY <1>1 DEF Task
          <5> QED BY <1>1, <3>2, <5>1, NextInTask
        <4>2. x.next = k.next + 1 /\ x.pc = "place"
          BY <1>1, <3>2 DEF Task
        <4>3. /\ x.op = k.op /\ x.game = k.game
              /\ x.way = k.way /\ x.parts = k.parts /\ x.pool = k.pool /\ x.all = k.all
              /\ x.cur = k.cur /\ x.dir = k.dir /\ x.slots = k.slots
          BY <1>1, <3>2 DEF Task
        <4> QED BY <4>1, <4>2, <4>3
      <3> QED BY <1>6, <3>1, <3>2
    <2>2. Fits(x)
      BY <1>2, <2>1 DEF Fits
    <2>3. Placing(x)
      <3>1. Even(k) => Even(x)
        BY <2>1 DEF Even
      <3> QED BY <1>1, <1>2, <2>1, <3>1 DEF Placing
    <2>4. x.next \in 1..Len(x.slots) /\ Len(x.slots) = Len(x.parts) /\ x.pool \subseteq x.all
      BY <1>2, <1>3, <1>6, <2>1
    <2> QED BY <1>2, <2>1, <2>2, <2>3, <2>4 DEF TaskOK
  <1>7. CASE k.next = Len(k.slots)
    <2> DEFINE x == [k EXCEPT !.pc = "reply"]
    <2>1. task' = [task EXCEPT ![h] = x] /\ x.next = k.next
      BY <1>1, <1>7 DEF SavePart, IInv, TasksOK, Task
    <2>2. TaskOK(x)
      BY <1>6, <2>1
    <2> HIDE DEF x
    <2> QED BY <1>5, <2>1, <2>2, Kept DEF IInv
  <1>8. CASE k.next # Len(k.slots)
    <2> DEFINE x == [k EXCEPT !.next = k.next + 1]
    <2>1. task' = [task EXCEPT ![h] = x]
      BY <1>8 DEF SavePart, IInv, TasksOK
    <2>2. TaskOK(x)
      BY <1>6, <1>8
    <2> HIDE DEF x
    <2> QED BY <1>5, <2>1, <2>2, Kept DEF IInv
  <1> QED BY <1>7, <1>8

\* Rows that a request which names teams or a player holds.
LEMMA HoldKept ==
    ASSUME IInv, NEW h \in Handlers, NEW op \in Ops, NEW p \in Players \cup {None},
           NEW rows \in Rows, NEW pc \in {"remove", "one", "both", "leave", "again", "add"},
           pc = "remove" => op = "dissolve", pc = "one" => op = "manual",
           pc = "both" => op \in {"swap", "update"},
           pc \in {"leave", "again", "add"} => op = "reassign",
           op # "create", Hold(h, op, pc, p, rows)
    PROVE  TasksOK' /\ TableOK'
  <1> DEFINE x == [NoTask EXCEPT !.op = op, !.pc = pc, !.who = p, !.rows = rows]
  <1>1. TaskOK(x)
    BY HoldOK
  <1>2. task' = [task EXCEPT ![h] = x] /\ UNCHANGED teams
    BY DEF Hold
  <1> HIDE DEF x
  <1> QED BY <1>1, <1>2, Kept DEF IInv, TableOK

\* A copy of a row with other members.
LEMMA WithOK ==
    ASSUME TableOK, NEW t \in Teams, Exists(t), NEW members \in SUBSET Players
    PROVE  With(t, members) \in TeamRow /\ teams[t].members \in SUBSET Players
           /\ teams[t].game \in Games /\ teams[t] \in TeamRow
  <1>1. teams[t] \in TeamRow
    BY DEF TableOK, Exists
  <1> QED BY <1>1 DEF With, TeamRow

LEMMA ManualAssignKept ==
    ASSUME IInv, NEW h \in Handlers, NEW g \in Games, NEW ts \in SUBSET Teams,
           NEW f \in [ts -> SUBSET Players], ManualAssign(h, g, f)
    PROVE  TasksOK' /\ TableOK'
  <1> DEFINE rows == [t \in DOMAIN f |-> With(t, f[t])]
  <1>1. "manual" \in Ops /\ Hold(h, "manual", "one", None, rows) /\ ts \subseteq TeamsOf(g)
    BY DEF ManualAssign, Request
  <1>2. rows \in [ts -> TeamRow]
    <2>1. \A t \in ts : With(t, f[t]) \in TeamRow
      BY <1>1, WithOK DEF IInv, TeamsOf
    <2> QED BY <2>1
  <1>3. rows \in Rows
    BY <1>2, RowsOf
  <1> HIDE DEF rows
  <1> QED BY <1>1, <1>3, HoldKept

LEMMA SwapPlayerKept ==
    ASSUME IInv, NEW h \in Handlers, NEW p \in Players, NEW from \in Teams, NEW to \in Teams,
           SwapPlayer(h, p, from, to)
    PROVE  TasksOK' /\ TableOK'
  <1> DEFINE rows == [t \in {from, to} |-> IF t = to THEN With(to, teams[to].members \cup {p})
                                          ELSE With(t, teams[t].members \ {p})]
  <1>1. "swap" \in Ops /\ Exists(from) /\ Exists(to)
    BY DEF SwapPlayer, Request
  <1>2. Hold(h, "swap", "both", p, rows)
    <2>1. rows = [t \in {from, to} |-> IF t = to THEN With(t, teams[t].members \cup {p})
                                      ELSE With(t, teams[t].members \ {p})]
      OBVIOUS
    <2> QED BY <2>1 DEF SwapPlayer
  <1>3. rows \in [{from, to} -> TeamRow]
    <2>1. \A t \in {from, to} : teams[t].members \in SUBSET Players
      BY <1>1, WithOK DEF IInv
    <2>2. \A t \in {from, to} : /\ With(t, teams[t].members \cup {p}) \in TeamRow
                                /\ With(t, teams[t].members \ {p}) \in TeamRow
      BY <1>1, <2>1, WithOK DEF IInv
    <2> QED BY <2>2
  <1>4. rows \in Rows
    BY <1>3, RowsOf
  <1> HIDE DEF rows
  <1> QED BY <1>1, <1>2, <1>4, HoldKept

LEMMA DissolveTeamKept ==
    ASSUME IInv, NEW h \in Handlers, NEW t \in Teams, DissolveTeam(h, t)
    PROVE  TasksOK' /\ TableOK'
  <1> DEFINE rows == [u \in {t} |-> teams[t]]
  <1>1. "dissolve" \in Ops /\ Exists(t) /\ Hold(h, "dissolve", "remove", None, rows)
    BY DEF DissolveTeam, Request
  <1>2. rows \in [{t} -> TeamRow]
    BY <1>1 DEF IInv, TableOK, Exists
  <1>3. rows \in Rows
    BY <1>2, RowsOf
  <1> HIDE DEF rows
  <1> QED BY <1>1, <1>3, HoldKept

LEMMA UpdateTeamKept ==
    ASSUME IInv, NEW h \in Handlers, NEW t \in Teams, NEW g \in Games, UpdateTeam(h, t, g)
    PROVE  TasksOK' /\ TableOK'
  <1> DEFINE row == [game |-> g, members |-> teams[t].members]
             rows == [u \in {t} |-> row]
  <1>1. "update" \in Ops /\ Exists(t) /\ Hold(h, "update", "both", None, rows)
    BY DEF UpdateTeam, Request
  <1>2. row \in TeamRow
    BY <1>1 DEF IInv, TableOK, Exists, TeamRow
  <1> HIDE DEF row
  <1>3. rows \in [{t} -> TeamRow]
    BY <1>2
  <1>4. rows \in Rows
    BY <1>3, RowsOf
  <1> HIDE DEF rows
  <1> QED BY <1>1, <1>4, HoldKept

LEMMA ReassignPlayerKept ==
    ASSUME IInv, NEW h \in Handlers, NEW p \in Players, NEW to \in Teams, ReassignPlayer(h, p, to)
    PROVE  TasksOK' /\ TableOK'
  <1> DEFINE game == teams[to].game
             row == [t \in {to} |-> With(to, teams[to].members \cup {p})]
             out == [t \in {to} |-> With(to, teams[to].members \ {p})]
             both(old) == [t \in {old, to} |->
                            IF t = to THEN row[t] ELSE With(t, teams[t].members \ {p})]
  <1>1. "reassign" \in Ops /\ Exists(to)
    BY DEF ReassignPlayer, Request
  <1>2. ASSUME NEW t \in Teams, Exists(t)
        PROVE  /\ With(t, teams[t].members \cup {p}) \in TeamRow
               /\ With(t, teams[t].members \ {p}) \in TeamRow
    <2>1. teams[t].members \in SUBSET Players
      BY <1>2, WithOK DEF IInv
    <2> QED BY <1>2, <2>1, WithOK DEF IInv
  <1>3. row \in Rows /\ out \in Rows
    <2>1. row \in [{to} -> TeamRow] /\ out \in [{to} -> TeamRow]
      BY <1>1, <1>2
    <2> QED BY <2>1, RowsOf
  <1>4. \/ Hold(h, "reassign", "add", p, row)
        \/ Hold(h, "reassign", "again", p, out)
        \/ \E old \in In(p, game) : old # to /\ Hold(h, "reassign", "leave", p, both(old))
    BY DEF ReassignPlayer
  <1>5. CASE Hold(h, "reassign", "add", p, row)
    <2> HIDE DEF row
    <2> QED BY <1>1, <1>3, <1>5, HoldKept
  <1>6. CASE Hold(h, "reassign", "again", p, out)
    <2> HIDE DEF out
    <2> QED BY <1>1, <1>3, <1>6, HoldKept
  <1>7. CASE \E old \in In(p, game) : old # to /\ Hold(h, "reassign", "leave", p, both(old))
    <2>1. PICK old \in In(p, game) : old # to /\ Hold(h, "reassign", "leave", p, both(old))
      BY <1>7
    <2>2. old \in Teams /\ Exists(old)
      BY DEF In, TeamsOf
    <2>3. row[to] \in TeamRow
      BY <1>1, <1>2
    <2>4. both(old) \in [{old, to} -> TeamRow]
      <3>1. With(old, teams[old].members \ {p}) \in TeamRow
        BY <1>2, <2>2
      <3> HIDE DEF row
      <3> QED BY <2>1, <2>3, <3>1
    <2>5. both(old) \in Rows
      BY <2>2, <2>4, RowsOf
    <2> HIDE DEF both
    <2> QED BY <1>1, <2>1, <2>5, HoldKept
  <1> QED BY <1>4, <1>5, <1>6, <1>7

\* What is held of rows that are still to be saved.
LEMMA LeftOK ==
    ASSUME NEW rows \in Rows, NEW t
    PROVE  /\ [u \in DOMAIN rows \ {t} |-> rows[u]] \in Rows
           /\ t \in DOMAIN rows => [u \in {t} |-> rows[t]] \in Rows
  <1>1. DOMAIN rows \in SUBSET Teams /\ \A u \in DOMAIN rows : rows[u] \in TeamRow
    BY RowsOf
  <1>2. [u \in DOMAIN rows \ {t} |-> rows[u]] \in [DOMAIN rows \ {t} -> TeamRow]
    BY <1>1
  <1>3. [u \in DOMAIN rows \ {t} |-> rows[u]] \in Rows
    <2>1. DOMAIN rows \ {t} \in SUBSET Teams
      BY <1>1
    <2> QED BY <1>2, <2>1, RowsOf
  <1>4. ASSUME t \in DOMAIN rows PROVE [u \in {t} |-> rows[t]] \in Rows
    <2>1. rows[t] \in TeamRow /\ {t} \in SUBSET Teams
      BY <1>1, <1>4
    <2>2. [u \in {t} |-> rows[t]] \in [{t} -> TeamRow]
      BY <2>1
    <2> QED BY <2>1, <2>2, RowsOf
  <1> QED BY <1>3, <1>4

LEMMA SaveOneKept ==
    ASSUME IInv, NEW h \in Handlers, NEW t \in Teams, SaveOne(h, t)
    PROVE  TasksOK' /\ TableOK'
  <1> DEFINE k == task[h]
             rows == k.rows
             left == [u \in DOMAIN rows \ {t} |-> rows[u]]
             x == [k EXCEPT !.rows = left]
  <1>1. k \in Task /\ TaskOK(k) /\ k.pc = "one" /\ t \in DOMAIN rows
    BY DEF IInv, TasksOK, SaveOne, At
  <1>2. rows \in Rows
    BY <1>1 DEF Task
  <1>3. teams' = Saved([u \in {t} |-> rows[t]])
    BY DEF SaveOne
  <1>4. DOMAIN rows \ {t} # {} => task' = [task EXCEPT ![h] = x]
    BY DEF SaveOne, IInv, TasksOK
  <1>5. DOMAIN rows \ {t} = {} => Done(h)
    BY DEF SaveOne
  <1> HIDE DEF k, rows
  <1>6. left \in Rows /\ [u \in {t} |-> rows[t]] \in Rows
    BY <1>1, <1>2, LeftOK
  <1>7. TableOK'
    BY <1>3, <1>6, SavedOK DEF IInv, TableOK
  <1> HIDE DEF left
  <1>8. /\ x \in Task /\ x.op = k.op /\ x.pc = "one" /\ x.pool = k.pool /\ x.all = k.all
        /\ x.next = k.next
    BY <1>1, <1>6 DEF Task
  <1> HIDE DEF x
  <1>9. k.op = "manual" /\ k.pool \subseteq k.all /\ k.next = 1
    BY <1>1 DEF TaskOK, Fits
  <1>10. Fits(x)
    BY <1>8, <1>9 DEF Fits
  <1>11. TaskOK(x)
    BY <1>8, <1>9, <1>10 DEF TaskOK
  <1>12. CASE DOMAIN rows \ {t} = {}
    BY <1>5, <1>7, <1>12, DoneKept
  <1>13. CASE DOMAIN rows \ {t} # {}
    BY <1>4, <1>7, <1>11, <1>13, Kept DEF IInv
  <1> QED BY <1>12, <1>13

LEMMA LeaveTeamKept ==
    ASSUME IInv, NEW h \in Handlers, NEW t \in Teams, LeaveTeam(h, t)
    PROVE  TasksOK' /\ TableOK'
  <1> DEFINE k == task[h]
             rows == k.rows
             left == [u \in DOMAIN rows \ {t} |-> rows[u]]
             x == [k EXCEPT !.pc = "add", !.rows = left]
  <1>1. k \in Task /\ TaskOK(k) /\ k.pc = "leave" /\ t \in DOMAIN rows
    BY DEF IInv, TasksOK, LeaveTeam, At
  <1>2. rows \in Rows
    BY <1>1 DEF Task
  <1>3. teams' = Saved([u \in {t} |-> rows[t]])
    BY DEF LeaveTeam
  <1>4. task' = [task EXCEPT ![h] = x]
    BY DEF LeaveTeam, IInv, TasksOK
  <1> HIDE DEF k, rows
  <1>6. left \in Rows /\ [u \in {t} |-> rows[t]] \in Rows
    BY <1>1, <1>2, LeftOK
  <1>7. TableOK'
    BY <1>3, <1>6, SavedOK DEF IInv, TableOK
  <1> HIDE DEF left
  <1>8. /\ x \in Task /\ x.op = k.op /\ x.pc = "add" /\ x.pool = k.pool /\ x.all = k.all
        /\ x.next = k.next
    BY <1>1, <1>6 DEF Task
  <1> HIDE DEF x
  <1>9. k.op = "reassign" /\ k.pool \subseteq k.all /\ k.next = 1
    BY <1>1 DEF TaskOK, Fits
  <1>10. Fits(x)
    BY <1>8, <1>9 DEF Fits
  <1>11. TaskOK(x)
    BY <1>8, <1>9, <1>10 DEF TaskOK
  <1> QED BY <1>4, <1>7, <1>11, Kept DEF IInv

\* All rows that are held are saved, and the request is done.
LEMMA SaveAllKept ==
    ASSUME IInv, NEW h \in Handlers, teams' = Saved(task[h].rows), Done(h)
    PROVE  TasksOK' /\ TableOK'
  <1>1. task[h].rows \in Rows
    BY DEF IInv, TasksOK, Task
  <1>2. TableOK'
    BY <1>1, SavedOK DEF IInv, TableOK
  <1> QED BY <1>2, DoneKept

LEMMA AddTeamKept ==
    ASSUME IInv, NEW h \in Handlers, NEW g \in Games, AddTeam(h, g)
    PROVE  TasksOK' /\ TableOK'
  <1> DEFINE row == [game |-> g, members |-> {}]
  <1>1. PICK t \in Unused : teams' = [teams EXCEPT ![t] = row]
    BY DEF AddTeam
  <1>2. row \in TeamRow
    BY DEF TeamRow
  <1> HIDE DEF row
  <1>3. TableOK'
    BY <1>1, <1>2 DEF IInv, TableOK
  <1> QED BY <1>3 DEF AddTeam, IInv, TasksOK

LEMMA BulkKept ==
    ASSUME IInv, NEW h \in Handlers, BulkStep(h)
    PROVE  TasksOK' /\ TableOK'
  <1>1. ASSUME NEW g \in Games, ClearTeams(h, g) PROVE TasksOK' /\ TableOK'
    BY <1>1, ClearTeamsKept
  <1>2. ASSUME NEW g \in Games, NEW n \in 2..MaxTeams, NEW way \in Ways,
               NEW active \in SUBSET Players, CreateTeams(h, g, n, way, active)
        PROVE  TasksOK' /\ TableOK'
    BY <1>2, CreateTeamsKept
  <1>3. ASSUME NEW g \in Games, NEW op \in {"rebalance", "shuffle"}, NEW way \in Ways,
               Redistribute(h, g, op, way)
        PROVE  TasksOK' /\ TableOK'
    BY <1>3, RedistributeKept
  <1>4. ASSUME NEW active \in SUBSET Players, FindPlayers(h, active) PROVE TasksOK' /\ TableOK'
    BY <1>4, FindPlayersKept
  <1>5. CASE FindExisting(h)
    BY <1>5, FindExistingKept
  <1>6. CASE RemoveExisting(h)
    BY <1>6, RemoveExistingKept
  <1>7. CASE InsertTeams(h)
    BY <1>7, InsertTeamsKept
  <1>8. CASE EmptySlot(h)
    BY <1>8, EmptySlotKept
  <1>9. CASE SavePart(h)
    BY <1>9, SavePartKept
  <1>10. CASE Reply(h)
    BY <1>10, DoneKept DEF Reply, Refused, IInv, TableOK
  <1>11. ASSUME NEW p \in Players, Place(h, p) PROVE TasksOK' /\ TableOK'
    BY <1>11, PlaceKept
  <1> QED BY <1>1, <1>2, <1>3, <1>4, <1>5, <1>6, <1>7, <1>8, <1>9, <1>10, <1>11 DEF BulkStep

LEMMA SingleKept ==
    ASSUME IInv, NEW h \in Handlers, SingleStep(h)
    PROVE  TasksOK' /\ TableOK'
  <1>1. ASSUME NEW g \in Games, AddTeam(h, g) PROVE TasksOK' /\ TableOK'
    BY <1>1, AddTeamKept
  <1>2. ASSUME NEW g \in Games, NEW ts \in SUBSET Teams, NEW f \in [ts -> SUBSET Players],
               ManualAssign(h, g, f)
        PROVE  TasksOK' /\ TableOK'
    BY <1>2, ManualAssignKept
  <1>3. ASSUME NEW t \in Teams, SaveOne(h, t) PROVE TasksOK' /\ TableOK'
    BY <1>3, SaveOneKept
  <1>4. ASSUME NEW t \in Teams, LeaveTeam(h, t) PROVE TasksOK' /\ TableOK'
    BY <1>4, LeaveTeamKept
  <1>5. ASSUME NEW t \in Teams, DissolveTeam(h, t) PROVE TasksOK' /\ TableOK'
    BY <1>5, DissolveTeamKept
  <1>6. ASSUME NEW t \in Teams, NEW g \in Games, UpdateTeam(h, t, g) PROVE TasksOK' /\ TableOK'
    BY <1>6, UpdateTeamKept
  <1>7. ASSUME NEW t \in Teams, NEW p \in Players, ReassignPlayer(h, p, t)
        PROVE  TasksOK' /\ TableOK'
    BY <1>7, ReassignPlayerKept
  <1>8. ASSUME NEW t \in Teams, NEW p \in Players, NEW u \in Teams, SwapPlayer(h, p, t, u)
        PROVE  TasksOK' /\ TableOK'
    BY <1>8, SwapPlayerKept
  <1>9. CASE SaveBoth(h) \/ LeaveSame(h) \/ JoinTeam(h)
    BY <1>9, SaveAllKept DEF SaveBoth, LeaveSame, JoinTeam
  <1> QED BY <1>1, <1>2, <1>3, <1>4, <1>5, <1>6, <1>7, <1>8, <1>9 DEF SingleStep

LEMMA NextKept == IInv /\ [Next]_vars => IInv'
  <1> SUFFICES ASSUME IInv, [Next]_vars PROVE IInv'
    OBVIOUS
  <1>1. CASE UNCHANGED vars
    BY <1>1 DEF vars, IInv, TableOK, TasksOK
  <1>2. CASE Next
    <2>1. PICK h \in Handlers : /\ BulkStep(h) \/ SingleStep(h) \/ Fail(h)
                                /\ byHand' = (byHand \/ task[h].op \in {"manual", "update"})
      BY <1>2 DEF Next
    <2>2. byHand' \in BOOLEAN
      BY <2>1
    <2>3. CASE BulkStep(h)
      BY <2>2, <2>3, BulkKept DEF IInv
    <2>4. CASE SingleStep(h)
      BY <2>2, <2>4, SingleKept DEF IInv
    <2>5. CASE Fail(h)
      <3>1. TasksOK' /\ TableOK'
        BY <2>5, DoneKept DEF Fail, Refused, IInv, TableOK
      <3> QED BY <2>2, <3>1 DEF IInv
    <2> QED BY <2>1, <2>3, <2>4, <2>5
  <1> QED BY <1>1, <1>2

LEMMA InitOK == Init => IInv
  <1> SUFFICES ASSUME Init PROVE IInv
    OBVIOUS
  <1>1. TableOK /\ byHand \in BOOLEAN
    BY DEF Init, TableOK
  <1>2. NoTask \in Task
    BY NoTaskOK DEF TaskOK
  <1>3. task \in [Handlers -> Task]
    BY <1>2 DEF Init
  <1>4. \A h \in Handlers : TaskOK(task[h])
    BY NoTaskOK DEF Init
  <1> QED BY <1>1, <1>3, <1>4 DEF IInv, TasksOK

THEOREM TasksHold == Spec => []IInv
  BY InitOK, NextKept, PTL DEF Spec

-----------------------------------------------------------------------------
(* What follows from it.                                                     *)

\* TypeOK: in particular the loops of rebalancing and shuffling never run past the
\* last team, and only active players are placed.
THEOREM TeamsTypeCorrect == Spec => []TypeOK
  <1>1. IInv => TypeOK
    <2> SUFFICES ASSUME IInv PROVE TypeOK
      OBVIOUS
    <2>1. ASSUME NEW h \in Handlers
          PROVE LET k == task[h] IN
            /\ k.op \in Ops \cup {"none"} /\ k.game \in Games \cup {None} /\ k.way \in Ways
            /\ k.slots \in Seq(Teams) /\ k.parts \in Seq(SUBSET Players)
            /\ k.all \subseteq Players /\ k.pool \subseteq k.all
            /\ k.cur \in Nat \ {0} /\ k.dir \in {1, -1}
            /\ k.next = 1 \/ k.next \in DOMAIN k.slots
            /\ k.who \in Players \cup {None}
            /\ DOMAIN k.rows \subseteq Teams
            /\ \A t \in DOMAIN k.rows : k.rows[t] \in TeamRow
      <3> DEFINE k == task[h]
      <3>1. k \in Task /\ TaskOK(k)
        BY DEF IInv, TasksOK
      <3> HIDE DEF k
      <3>2. /\ k.op \in Ops \cup {"none"} /\ k.game \in Games \cup {None} /\ k.way \in Ways
            /\ k.slots \in Seq(Teams) /\ k.parts \in Seq(SUBSET Players)
            /\ k.all \in SUBSET Players /\ k.rows \in Rows
            /\ k.cur \in Nat \ {0} /\ k.dir \in {1, -1} /\ k.who \in Players \cup {None}
        BY <3>1 DEF Task
      <3>3. DOMAIN k.rows \subseteq Teams /\ \A t \in DOMAIN k.rows : k.rows[t] \in TeamRow
        BY <3>2, RowsOf
      <3>4. k.pool \subseteq k.all /\ (k.next = 1 \/ k.next \in 1..Len(k.slots))
        BY <3>1 DEF TaskOK
      <3>5. DOMAIN k.slots = 1..Len(k.slots)
        BY <3>2, LenProperties
      <3> QED BY <3>2, <3>3, <3>4, <3>5 DEF k
    <2> QED BY <2>1 DEF TypeOK, IInv, TableOK
  <1> QED BY <1>1, TasksHold, PTL

\* PlacedFairly: every player is placed once, and no team gets two more than another,
\* whatever the strategy, the number of players and teams, and the order in which
\* the players come.
THEOREM PlacingIsFair == Spec => []PlacedFairly
  <1>1. IInv => PlacedFairly
    <2> SUFFICES ASSUME IInv, NEW h \in Handlers,
                        task[h].pc \in {"place", "reply"}, task[h].way # "manual",
                        task[h].pool = {}
                 PROVE  LET k == task[h] IN
                    /\ UNION {k.parts[i] : i \in DOMAIN k.parts} = k.all
                    /\ \A i, j \in DOMAIN k.parts : i # j => k.parts[i] \cap k.parts[j] = {}
                    /\ \A a, b \in Sizes(k) : a <= b + 1
      BY DEF PlacedFairly
    <2> DEFINE k == task[h]
    <2>1. TaskOK(k) /\ k.pc \in {"place", "reply"} /\ k.way # "manual" /\ k.pool = {}
      BY DEF IInv, TasksOK
    <2> HIDE DEF k
    <2>2. /\ UNION {k.parts[i] : i \in DOMAIN k.parts} = k.all
          /\ \A i, j \in DOMAIN k.parts : i # j => k.parts[i] \cap k.parts[j] = {}
          /\ \A a, b \in Sizes(k) : a <= b + 1
      BY <2>1, PlacedIsFair
    <2> QED BY <2>2 DEF k
  <1> QED BY <1>1, TasksHold, PTL
-----------------------------------------------------------------------------
(* Requests served one by one: what is saved is what is there.               *)

OneAtATime == \A h, j \in Handlers : h = j

Listed(s) == {s[i] : i \in 1..Len(s)}
Distinct(s) == \A i, j \in 1..Len(s) : s[i] = s[j] => i = j

\* The slots before the next have been emptied; or they have been saved, and the
\* others are empty.
EmptiedTo(s, next) == \A i \in 1..Len(s) : i < next => teams[s[i]].members = {}
FilledTo(s, parts, next) ==
    \A i \in 1..Len(s) : teams[s[i]].members = IF i < next THEN parts[i] ELSE {}
AllFilled(s, parts) == \A i \in 1..Len(s) : teams[s[i]].members = parts[i]

\* Of a request that forms, clears or refills the teams of a game.
FilledOK(k) ==
    /\ k.pc = "remove" /\ k.op \in {"create", "clear"} => DOMAIN k.rows = TeamsOf(k.game)
    /\ k.pc = "insert" => TeamsOf(k.game) = {}
    /\ k.pc \in {"players", "empty", "place", "reply"} =>
        Distinct(k.slots) /\ TeamsOf(k.game) = Listed(k.slots)
    /\ k.pc = "empty" => EmptiedTo(k.slots, k.next)
    /\ k.pc = "place" => FilledTo(k.slots, k.parts, k.next)
    /\ k.pc = "reply" => AllFilled(k.slots, k.parts)

\* The rows of teams from and to, with p in to and not in from.
Moved(p, from, to) ==
    [t \in {from, to} |-> IF t = to THEN With(t, teams[t].members \cup {p})
                          ELSE With(t, teams[t].members \ {p})]
Joined(p, to) == [t \in {to} |-> With(t, teams[t].members \cup {p})]
Left(p, to) == [t \in {to} |-> With(t, teams[t].members \ {p})]

\* p can go from one team to the other.
Movable(p, from, to) ==
    /\ Exists(from) /\ Exists(to) /\ teams[from].game = teams[to].game
    /\ p \in teams[from].members

\* Of a request that moves one player.
HeldOK(k) ==
    /\ k.pc = "both" /\ k.op = "swap" =>
        \E from, to \in Teams : Movable(k.who, from, to) /\ k.rows = Moved(k.who, from, to)
    /\ k.pc = "leave" =>
        \E old, to \in Teams :
            old # to /\ Movable(k.who, old, to) /\ k.rows = Moved(k.who, old, to)
    /\ k.pc = "add" =>
        \E to \in Teams :
            /\ Exists(to) /\ k.rows = Joined(k.who, to)
            /\ ~byHand => In(k.who, teams[to].game) = {}
    /\ k.pc = "again" =>
        \E to \in Teams : Exists(to) /\ k.rows = Left(k.who, to)

\* Two teams of a game have nobody in common.
Apart == \A t, u \in Teams :
    t # u /\ Exists(t) /\ Exists(u) /\ teams[t].game = teams[u].game
        => teams[t].members \cap teams[u].members = {}

HoldsOK(h) == \A k \in {task[h]} : FilledOK(k) /\ HeldOK(k)
SInv == IInv /\ (~byHand => Apart) /\ \A h \in Handlers : HoldsOK(h)

\* What a step of h has to leave.
ByHand(h) == byHand' = (byHand \/ task[h].op \in {"manual", "update"})
StepOK(h) == (~byHand' => Apart') /\ HoldsOK(h)'

LEMMA HoldsNow ==
    ASSUME SInv, NEW h \in Handlers, NEW k, k = task[h]
    PROVE  /\ k \in Task /\ TaskOK(k) /\ Fits(k) /\ FilledOK(k) /\ HeldOK(k)
           /\ task \in [Handlers -> Task] /\ TableOK /\ (~byHand => Apart)
  BY DEF SInv, IInv, TasksOK, HoldsOK, TaskOK

LEMMA HoldsNext ==
    ASSUME NEW h \in Handlers, NEW k, k = task'[h], FilledOK(k)', HeldOK(k)'
    PROVE  HoldsOK(h)'
  BY DEF HoldsOK

LEMMA Same ==
    ASSUME UNCHANGED teams, byHand => byHand'
    PROVE  /\ (~byHand => Apart) => (~byHand' => Apart')
           /\ \A g : TeamsOf(g)' = TeamsOf(g)
  BY DEF Apart, Exists, TeamsOf

\* A step that leaves the teams alone, and the request without a claim on them.
LEMMA QuietStep ==
    ASSUME SInv, NEW h \in Handlers, UNCHANGED teams, ByHand(h), NEW k, k = task'[h],
           \/ k.pc \in {"idle", "clear", "one"}
           \/ k.pc = "remove" /\ k.op = "dissolve"
           \/ k.pc = "both" /\ k.op = "update"
    PROVE  StepOK(h)
  <1>1. ~byHand' => Apart'
    BY Same, HoldsNow DEF SInv, ByHand
  <1>2. FilledOK(k)'
    BY DEF FilledOK
  <1>3. HeldOK(k)'
    BY DEF HeldOK
  <1> QED BY <1>1, <1>2, <1>3, HoldsNext DEF StepOK

LEMMA NoTaskHolds ==
    ASSUME NEW h \in Handlers, task'[h] = NoTask
    PROVE  HoldsOK(h)'
  <1>0. PICK k : k = task'[h]
    OBVIOUS
  <1>1. k.pc = "idle"
    BY <1>0 DEF NoTask
  <1>2. FilledOK(k)'
    BY <1>1 DEF FilledOK
  <1>3. HeldOK(k)'
    BY <1>1 DEF HeldOK
  <1> QED BY <1>0, <1>2, <1>3, HoldsNext

\* The request holds a list of teams, which are those of the game.
LEMMA FilledNext ==
    ASSUME NEW h \in Handlers, NEW k, k = task'[h],
           k.pc \in {"players", "empty", "place", "reply"},
           Distinct(k.slots), TeamsOf(k.game)' = Listed(k.slots),
           k.pc = "empty" => EmptiedTo(k.slots, k.next)',
           k.pc = "place" => FilledTo(k.slots, k.parts, k.next)',
           k.pc = "reply" => AllFilled(k.slots, k.parts)'
    PROVE  HoldsOK(h)'
  <1>1. FilledOK(k)'
    BY DEF FilledOK
  <1>2. HeldOK(k)'
    BY DEF HeldOK
  <1> QED BY <1>1, <1>2, HoldsNext

LEMMA OrdersOnto ==
    ASSUME NEW ts \in SUBSET Teams, NEW s \in Orders(ts)
    PROVE  ts = Listed(s) /\ Distinct(s) /\ Len(s) \in Nat
           /\ \A i \in 1..Len(s) : s[i] \in ts
  <1> DEFINE n == Len(s)
             image == {s[i] : i \in 1..n}
  <1>1. /\ n \in Nat /\ n = Cardinality(ts) /\ DOMAIN s = 1..n
        /\ \A i \in 1..n : s[i] \in ts
        /\ \A i, j \in 1..n : s[i] = s[j] => i = j
        /\ s \in [1..n -> ts]
    <2>1. s \in Seq(Teams) /\ s \in [1..Cardinality(ts) -> ts]
      BY OrdersAre DEF Orders
    <2> QED BY <2>1, OrdersAre
  <1> HIDE DEF n
  <1>2. IsFiniteSet(ts)
    BY ConstantsAssumption, FS_Subset
  <1>3. image \in SUBSET ts
    BY <1>1
  <1>4. s \in [1..n -> image]
    BY <1>1
  <1>5. s \in Bijection(1..n, image)
    BY <1>1, <1>4 DEF Bijection, Injection, Surjection, IsInjective
  <1>6. Cardinality(image) = n
    BY <1>1, <1>5, FS_CountingElements DEF ExistsBijection
  <1>7. ts = image
    BY <1>1, <1>2, <1>3, <1>6, FS_Subset
  <1> QED BY <1>1, <1>7 DEF n, Listed, Distinct

LEMMA HeldQuiet ==
    ASSUME SInv, NEW h \in Handlers, ByHand(h), NEW op, NEW p, NEW rows,
           \/ Hold(h, op, "one", p, rows)
           \/ Hold(h, op, "remove", p, rows) /\ op = "dissolve"
           \/ Hold(h, op, "both", p, rows) /\ op = "update"
    PROVE  StepOK(h)
  <1>0. PICK k : k = task'[h]
    OBVIOUS
  <1>1. NoTask \in Task /\ task \in [Handlers -> Task] /\ UNCHANGED teams
    BY NoTaskOK DEF TaskOK, SInv, IInv, TasksOK, Hold
  <1>2. \A pc : Hold(h, op, pc, p, rows) => k.pc = pc /\ k.op = op
    BY <1>0, <1>1 DEF Hold, Task
  <1> QED BY <1>0, <1>1, <1>2, QuietStep

LEMMA RequestsStep ==
    ASSUME SInv, NEW h \in Handlers, ByHand(h),
           \/ \E g \in Games :
                \/ ClearTeams(h, g)
                \/ \E n \in 2..MaxTeams, way \in Ways, active \in SUBSET Players :
                        CreateTeams(h, g, n, way, active)
                \/ \E ts \in SUBSET Teams : \E ff \in [ts -> SUBSET Players] : ManualAssign(h, g, ff)
           \/ \E t \in Teams : DissolveTeam(h, t) \/ \E g \in Games : UpdateTeam(h, t, g)
    PROVE  StepOK(h)
  <1>0. PICK k : k = task'[h]
    OBVIOUS
  <1>1. NoTask \in Task /\ task \in [Handlers -> Task]
    BY NoTaskOK DEF TaskOK, SInv, IInv, TasksOK
  <1>2. ASSUME NEW g \in Games, ClearTeams(h, g) PROVE StepOK(h)
    <2>1. k.pc = "clear" /\ UNCHANGED teams
      BY <1>0, <1>1, <1>2 DEF ClearTeams, Task
    <2> QED BY <1>0, <2>1, QuietStep
  <1>3. ASSUME NEW g \in Games, NEW n \in 2..MaxTeams, NEW way \in Ways,
               NEW active \in SUBSET Players, CreateTeams(h, g, n, way, active)
        PROVE  StepOK(h)
    <2>1. k.pc = "clear" /\ UNCHANGED teams
      BY <1>0, <1>1, <1>3 DEF CreateTeams, Task
    <2> QED BY <1>0, <2>1, QuietStep
  <1>4. ASSUME NEW g \in Games, NEW ts \in SUBSET Teams, NEW ff \in [ts -> SUBSET Players],
               ManualAssign(h, g, ff)
        PROVE  StepOK(h)
    BY <1>4, HeldQuiet DEF ManualAssign
  <1>5. ASSUME NEW t \in Teams, DissolveTeam(h, t) PROVE StepOK(h)
    BY <1>5, HeldQuiet DEF DissolveTeam
  <1>6. ASSUME NEW t \in Teams, NEW g \in Games, UpdateTeam(h, t, g) PROVE StepOK(h)
    BY <1>6, HeldQuiet DEF UpdateTeam
  <1> QED BY <1>2, <1>3, <1>4, <1>5, <1>6

LEMMA FindExistingStep ==
    ASSUME SInv, NEW h \in Handlers, ByHand(h), FindExisting(h)
    PROVE  StepOK(h)
  <1>0. PICK k : k = task[h]
    OBVIOUS
  <1>00. PICK k2 : k2 = task'[h]
    OBVIOUS
  <1>1. k \in Task /\ task \in [Handlers -> Task]
    BY <1>0, HoldsNow
  <1>2. /\ k2.pc = "remove" /\ k2.game = k.game /\ UNCHANGED teams
        /\ k2.rows = [t \in TeamsOf(k.game) |-> teams[t]]
    BY <1>0, <1>00, <1>1 DEF FindExisting, Task
  <1>3. TeamsOf(k.game)' = TeamsOf(k.game)
    BY <1>2, Same DEF ByHand
  <1>4. FilledOK(k2)'
    BY <1>2, <1>3 DEF FilledOK
  <1>5. HeldOK(k2)'
    <2>1. k2.pc = "remove"
      BY <1>2
    <2> QED BY <2>1 DEF HeldOK
  <1>6. ~byHand' => Apart'
    BY <1>2, Same DEF SInv, ByHand
  <1> QED BY <1>00, <1>4, <1>5, <1>6, HoldsNext DEF StepOK

LEMMA RemoveExistingStep ==
    ASSUME SInv, NEW h \in Handlers, ByHand(h), RemoveExisting(h)
    PROVE  StepOK(h)
  <1>0. PICK k : k = task[h]
    OBVIOUS
  <1>00. PICK k2 : k2 = task'[h]
    OBVIOUS
  <1>1. k \in Task /\ task \in [Handlers -> Task] /\ k.pc = "remove" /\ FilledOK(k)
    BY <1>0, HoldsNow DEF RemoveExisting, At
  <1>2. /\ teams' = Deleted(DOMAIN k.rows)
        /\ k.op = "create" => k2.pc = "insert" /\ k2.game = k.game
        /\ k.op # "create" => k2 = NoTask
    BY <1>0, <1>00, <1>1 DEF RemoveExisting, Done, Task
  <1>3. ~byHand' => Apart'
    <2>1. \A t \in Teams : Exists(t)' => Exists(t) /\ teams'[t] = teams[t]
      BY <1>2 DEF Deleted, Exists
    <2>2. ~byHand' => Apart
      BY DEF SInv, ByHand
    <2> QED BY <2>1, <2>2 DEF Apart
  <1>4. CASE k.op # "create"
    BY <1>00, <1>2, <1>3, <1>4, NoTaskHolds DEF StepOK
  <1>5. CASE k.op = "create"
    <2>1. DOMAIN k.rows = TeamsOf(k.game)
      BY <1>1, <1>5 DEF FilledOK
    <2>2. \A t \in Teams : teams'[t] = IF t \in TeamsOf(k.game) THEN None ELSE teams[t]
      BY <1>2, <2>1 DEF Deleted
    <2>3. TeamsOf(k.game)' = {}
      BY <2>2 DEF TeamsOf, Exists
    <2>4. k2.pc = "insert" /\ k2.game = k.game
      BY <1>2, <1>5
    <2>5. FilledOK(k2)'
      BY <2>3, <2>4 DEF FilledOK
    <2>6. HeldOK(k2)'
      BY <2>4 DEF HeldOK
    <2> QED BY <1>00, <1>3, <2>5, <2>6, HoldsNext DEF StepOK
  <1> QED BY <1>4, <1>5

LEMMA InsertTeamsStep ==
    ASSUME SInv, NEW h \in Handlers, ByHand(h), InsertTeams(h)
    PROVE  StepOK(h)
  <1>0. PICK k : k = task[h]
    OBVIOUS
  <1>00. PICK k2 : k2 = task'[h]
    OBVIOUS
  <1>1. k \in Task /\ task \in [Handlers -> Task] /\ k.pc = "insert" /\ TaskOK(k) /\ FilledOK(k)
    BY <1>0, HoldsNow DEF InsertTeams, At
  <1>2. PICK ts \in SUBSET Unused :
        /\ teams' = Saved([t \in ts |-> [game |-> k.game, members |-> {}]])
        /\ \E s \in Orders(ts) :
            task' = [task EXCEPT ![h].pc = "place", ![h].slots = s,
                        ![h].pool = IF task[h].way = "manual" THEN {} ELSE task[h].all]
    BY <1>0 DEF InsertTeams
  <1>3. PICK s \in Orders(ts) :
            task' = [task EXCEPT ![h].pc = "place", ![h].slots = s,
                        ![h].pool = IF task[h].way = "manual" THEN {} ELSE task[h].all]
    BY <1>2
  <1>4. ts \in SUBSET Teams /\ \A t \in ts : ~Exists(t)
    BY <1>2 DEF Unused
  <1>5. /\ k2.pc = "place" /\ k2.game = k.game /\ k2.slots = s /\ k2.next = k.next
        /\ k2.parts = k.parts
    BY <1>0, <1>00, <1>1, <1>3 DEF Task
  <1>6. k.next = 1 /\ k.game \in Games /\ TeamsOf(k.game) = {}
    BY <1>1 DEF TaskOK, FilledOK
  <1>7. \A t \in Teams : teams'[t] = IF t \in ts THEN [game |-> k.game, members |-> {}] ELSE teams[t]
    BY <1>2 DEF Saved
  <1>8. ts = Listed(s) /\ Distinct(s) /\ Len(s) \in Nat /\ \A i \in 1..Len(s) : s[i] \in ts
    BY <1>4, OrdersOnto
  <1>9. \A t \in ts : Exists(t)'
    <2>1. [game |-> k.game, members |-> {}] \in TeamRow
      BY <1>6 DEF TeamRow
    <2> QED BY <1>4, <1>7, <2>1, NoneAssumption DEF Exists
  <1>10. TeamsOf(k.game)' = ts
    <2>1. \A t \in Teams : Exists(t)' /\ teams'[t].game = k.game => t \in ts
      BY <1>6, <1>7 DEF TeamsOf, Exists
    <2>2. \A t \in ts : teams'[t].game = k.game
      BY <1>4, <1>7
    <2> QED BY <1>4, <1>9, <2>1, <2>2 DEF TeamsOf
  <1>11. FilledTo(s, k.parts, 1)'
    <2>1. \A i \in 1..Len(s) : teams'[s[i]].members = {} /\ ~(i < 1)
      BY <1>4, <1>7, <1>8
    <2> QED BY <2>1 DEF FilledTo
  <1>12. HoldsOK(h)'
    BY <1>00, <1>5, <1>6, <1>8, <1>10, <1>11, FilledNext
  <1>13. ~byHand' => Apart'
    <2> SUFFICES ASSUME ~byHand', NEW t \in Teams, NEW u \in Teams, t # u, Exists(t)', Exists(u)',
                        teams'[t].game = teams'[u].game
                 PROVE  teams'[t].members \cap teams'[u].members = {}
      BY DEF Apart
    <2>1. CASE t \in ts \/ u \in ts
      BY <1>7, <2>1
    <2>2. CASE t \notin ts /\ u \notin ts
      <3>1. Apart
        BY DEF SInv, ByHand
      <3> QED BY <1>7, <2>2, <3>1 DEF Apart, Exists
    <2> QED BY <2>1, <2>2
  <1> QED BY <1>12, <1>13 DEF StepOK

LEMMA RedistributeStep ==
    ASSUME SInv, NEW h \in Handlers, ByHand(h), NEW g \in Games, NEW op, NEW way \in Ways,
           Redistribute(h, g, op, way)
    PROVE  StepOK(h)
  <1>00. PICK k2 : k2 = task'[h]
    OBVIOUS
  <1>1. NoTask \in Task /\ task \in [Handlers -> Task] /\ UNCHANGED teams
    BY NoTaskOK DEF TaskOK, SInv, IInv, TasksOK, Redistribute
  <1>2. PICK s \in Orders(TeamsOf(g)) :
        task' = [task EXCEPT ![h] = [NoTask EXCEPT !.op = op, !.pc = "players",
                    !.game = g, !.way = way, !.slots = s,
                    !.parts = [i \in DOMAIN s |-> {}]]]
    BY DEF Redistribute
  <1>3. k2.pc = "players" /\ k2.game = g /\ k2.slots = s
    BY <1>00, <1>1, <1>2 DEF Task
  <1>4. TeamsOf(g) = Listed(s) /\ Distinct(s)
    <2>1. TeamsOf(g) \in SUBSET Teams
      BY DEF TeamsOf
    <2> QED BY <2>1, OrdersOnto
  <1>5. TeamsOf(g)' = TeamsOf(g) /\ (~byHand' => Apart')
    BY <1>1, Same DEF SInv, ByHand
  <1>6. HoldsOK(h)'
    BY <1>00, <1>3, <1>4, <1>5, FilledNext
  <1> QED BY <1>5, <1>6 DEF StepOK

LEMMA FindPlayersStep ==
    ASSUME SInv, NEW h \in Handlers, ByHand(h), NEW active \in SUBSET Players,
           FindPlayers(h, active)
    PROVE  StepOK(h)
  <1>0. PICK k : k = task[h]
    OBVIOUS
  <1>00. PICK k2 : k2 = task'[h]
    OBVIOUS
  <1>1. /\ k \in Task /\ task \in [Handlers -> Task] /\ k.pc = "players" /\ TaskOK(k)
        /\ FilledOK(k)
    BY <1>0, HoldsNow DEF FindPlayers, At
  <1>2. /\ k2.pc = "empty" /\ k2.game = k.game /\ k2.slots = k.slots /\ k2.next = k.next
        /\ UNCHANGED teams
    BY <1>0, <1>00, <1>1 DEF FindPlayers, Task
  <1>3. k.next = 1
    BY <1>1 DEF TaskOK
  <1>4. TeamsOf(k.game)' = TeamsOf(k.game) /\ (~byHand' => Apart')
    BY <1>2, Same DEF SInv, ByHand
  <1>5. Distinct(k.slots) /\ TeamsOf(k.game) = Listed(k.slots)
    BY <1>1 DEF FilledOK
  <1>6. EmptiedTo(k.slots, 1)'
    BY DEF EmptiedTo
  <1>7. HoldsOK(h)'
    BY <1>00, <1>2, <1>3, <1>4, <1>5, <1>6, FilledNext
  <1> QED BY <1>4, <1>7 DEF StepOK

\* The save of a slot: the game keeps its teams, and only that one changes.
LEMMA SaveSlotDoes ==
    ASSUME SInv, NEW h \in Handlers, NEW k, k = task[h], k.pc \in {"empty", "place"},
           NEW members \in SUBSET Players, SaveSlot(h, members)
    PROVE  /\ k.next \in 1..Len(k.slots) /\ Len(k.slots) \in Nat
           /\ \A i \in 1..Len(k.slots) : k.slots[i] \in Teams
           /\ Distinct(k.slots) /\ TeamsOf(k.game) = Listed(k.slots)
           /\ TeamsOf(k.game)' = Listed(k.slots)
           /\ \A t \in Teams :
                /\ t # k.slots[k.next] => teams'[t] = teams[t]
                /\ t = k.slots[k.next] => teams'[t].members = members
                /\ Exists(t)' <=> Exists(t)
                /\ Exists(t) => teams'[t].game = teams[t].game
  <1> DEFINE row == [game |-> k.game, members |-> members]
  <1>1. k \in Task /\ TaskOK(k) /\ FilledOK(k)
    BY HoldsNow
  <1>2. k.next \in 1..Len(k.slots) /\ k.game \in Games
    BY <1>1 DEF TaskOK
  <1>3. Len(k.slots) \in Nat /\ \A i \in 1..Len(k.slots) : k.slots[i] \in Teams
    <2>1. k.slots \in Seq(Teams)
      BY <1>1 DEF Task
    <2> QED BY <2>1, LenProperties, ElementOfSeq
  <1>4. Distinct(k.slots) /\ TeamsOf(k.game) = Listed(k.slots)
    BY <1>1 DEF FilledOK
  <1>5. \A t \in Teams : teams'[t] = IF t = k.slots[k.next] THEN row ELSE teams[t]
    BY DEF SaveSlot, Saved
  <1>6. k.slots[k.next] \in TeamsOf(k.game)
    BY <1>2, <1>4 DEF Listed
  <1>7. row # None /\ row.game = k.game /\ row.members = members
    <2>1. row \in TeamRow
      BY <1>2 DEF TeamRow
    <2> QED BY <2>1, NoneAssumption
  <1> HIDE DEF row
  <1>8. \A t \in Teams : (Exists(t)' <=> Exists(t)) /\ (Exists(t) => teams'[t].game = teams[t].game)
    BY <1>5, <1>6, <1>7 DEF Exists, TeamsOf
  <1>9. TeamsOf(k.game)' = TeamsOf(k.game)
    BY <1>8 DEF TeamsOf
  <1>10. \A t \in Teams : /\ t # k.slots[k.next] => teams'[t] = teams[t]
                          /\ t = k.slots[k.next] => teams'[t].members = members
    BY <1>5, <1>7
  <1> QED BY <1>2, <1>3, <1>4, <1>8, <1>9, <1>10

LEMMA EmptySlotStep ==
    ASSUME SInv, NEW h \in Handlers, ByHand(h), EmptySlot(h)
    PROVE  StepOK(h)
  <1>0. PICK k : k = task[h]
    OBVIOUS
  <1>00. PICK k2 : k2 = task'[h]
    OBVIOUS
  <1>000. PICK s : s = k.slots
    OBVIOUS
  <1>0000. PICK n : n = k.next
    OBVIOUS
  <1>1. /\ k \in Task /\ task \in [Handlers -> Task] /\ k.pc = "empty" /\ FilledOK(k)
        /\ TaskOK(k)
    BY <1>0, HoldsNow DEF EmptySlot, At
  <1>2. SaveSlot(h, {}) /\ {} \in SUBSET Players
    BY DEF EmptySlot
  <1>3. /\ n \in 1..Len(s) /\ Len(s) \in Nat
        /\ \A i \in 1..Len(s) : s[i] \in Teams
        /\ Distinct(s) /\ TeamsOf(k.game)' = Listed(s)
        /\ \A t \in Teams :
            /\ t # s[n] => teams'[t] = teams[t]
            /\ t = s[n] => teams'[t].members = {}
            /\ Exists(t)' <=> Exists(t)
            /\ Exists(t) => teams'[t].game = teams[t].game
    BY <1>0, <1>000, <1>0000, <1>1, <1>2, SaveSlotDoes
  <1>4. \A i \in 1..Len(s) : i < n => teams[s[i]].members = {}
    BY <1>000, <1>0000, <1>1 DEF FilledOK, EmptiedTo
  <1>5. \A i \in 1..Len(s) : i < n + 1 => teams'[s[i]].members = {}
    <2> SUFFICES ASSUME NEW i \in 1..Len(s), i < n + 1 PROVE teams'[s[i]].members = {}
      OBVIOUS
    <2>1. CASE s[i] = s[n]
      BY <1>3, <2>1
    <2>2. CASE s[i] # s[n]
      <3>1. i < n
        BY <1>3, <2>2
      <3>2. teams'[s[i]] = teams[s[i]]
        BY <1>3, <2>2
      <3> QED BY <1>4, <3>1, <3>2
    <2> QED BY <2>1, <2>2
  <1>6. ~byHand' => Apart'
    <2> SUFFICES ASSUME ~byHand', NEW t \in Teams, NEW u \in Teams, t # u, Exists(t)', Exists(u)',
                        teams'[t].game = teams'[u].game
                 PROVE  teams'[t].members \cap teams'[u].members = {}
      BY DEF Apart
    <2>1. Exists(t) /\ Exists(u) /\ teams[t].game = teams[u].game
      BY <1>3
    <2>2. teams[t].members \cap teams[u].members = {}
      BY <2>1 DEF SInv, ByHand, Apart
    <2>3. teams'[t].members = {} \/ teams'[t].members = teams[t].members
      BY <1>3
    <2>4. teams'[u].members = {} \/ teams'[u].members = teams[u].members
      BY <1>3
    <2> QED BY <2>2, <2>3, <2>4
  <1>7. CASE n = Len(s)
    <2>1. /\ k2.pc = "place" /\ k2.next = 1 /\ k2.game = k.game /\ k2.slots = s
          /\ k2.parts = k.parts
      BY <1>0, <1>00, <1>000, <1>0000, <1>1, <1>7 DEF EmptySlot, Task
    <2>2. \A i \in 1..Len(s) : i < n + 1 /\ ~(i < 1)
      BY <1>3, <1>7
    <2>3. FilledTo(s, k.parts, 1)'
      BY <1>5, <2>2 DEF FilledTo
    <2>4. HoldsOK(h)'
      BY <1>00, <1>3, <2>1, <2>3, FilledNext
    <2> QED BY <1>6, <2>4 DEF StepOK
  <1>8. CASE n # Len(s)
    <2>1. k2.pc = "empty" /\ k2.next = n + 1 /\ k2.game = k.game /\ k2.slots = s
      BY <1>0, <1>00, <1>000, <1>0000, <1>1, <1>8 DEF EmptySlot, Task
    <2>2. EmptiedTo(s, n + 1)'
      BY <1>5 DEF EmptiedTo
    <2>3. HoldsOK(h)'
      BY <1>00, <1>3, <2>1, <2>2, FilledNext
    <2> QED BY <1>6, <2>3 DEF StepOK
  <1> QED BY <1>7, <1>8

LEMMA PlaceStep ==
    ASSUME SInv, NEW h \in Handlers, ByHand(h), NEW p \in Players, Place(h, p)
    PROVE  StepOK(h)
  <1>0. PICK k : k = task[h]
    OBVIOUS
  <1>00. PICK k2 : k2 = task'[h]
    OBVIOUS
  <1> DEFINE mm == [k EXCEPT !.parts = [k.parts EXCEPT ![k.cur] = @ \cup {p}], !.pool = @ \ {p}]
  <1>3. PICK m : m = mm
    OBVIOUS
  <1>1. /\ k \in Task /\ task \in [Handlers -> Task] /\ TaskOK(k) /\ k.pc = "place"
        /\ p \in k.pool /\ FilledOK(k)
    BY <1>0, HoldsNow DEF Place, At
  <1>2. task' = [task EXCEPT ![h] = Turned(m)] /\ UNCHANGED teams
    BY <1>0, <1>3 DEF Place
  <1>4. k2 = Turned(m)
    BY <1>00, <1>1, <1>2
  <1>5. /\ k2.pc = "place" /\ k2.game = k.game /\ k2.slots = k.slots /\ k2.next = 1
        /\ k.next = 1
    BY <1>1, <1>3, <1>4, PlaceOne
  <1>6. /\ Distinct(k.slots) /\ TeamsOf(k.game) = Listed(k.slots)
        /\ FilledTo(k.slots, k.parts, 1)
    BY <1>1, <1>5 DEF FilledOK
  <1>7. TeamsOf(k.game)' = TeamsOf(k.game) /\ (~byHand' => Apart')
    BY <1>2, Same DEF SInv, ByHand
  <1>8. FilledTo(k.slots, k2.parts, 1)'
    <2>1. \A i \in 1..Len(k.slots) : ~(i < 1) /\ teams'[k.slots[i]].members = {}
      BY <1>2, <1>6 DEF FilledTo
    <2> QED BY <2>1 DEF FilledTo
  <1>9. HoldsOK(h)'
    BY <1>00, <1>5, <1>6, <1>7, <1>8, FilledNext
  <1> QED BY <1>7, <1>9 DEF StepOK

LEMMA PartsApart ==
    ASSUME NEW k, k \in Task, TaskOK(k), k.pc = "place"
    PROVE  \A i, j \in 1..Len(k.parts) : i # j => k.parts[i] \cap k.parts[j] = {}
  <1>1. Placing(k)
    BY DEF TaskOK
  <1>2. CASE k.way = "manual"
    <2>1. k.parts \in [1..Len(k.parts) -> {{}}]
      BY <1>1, <1>2 DEF Placing
    <2>2. \A i \in 1..Len(k.parts) : k.parts[i] = {}
      BY <2>1
    <2> QED BY <2>2
  <1>3. CASE k.way # "manual"
    <2>1. Tiled(k.all, k.pool, k.parts, Len(k.parts))
      BY <1>1, <1>3 DEF Placing
    <2> QED BY <2>1 DEF Tiled
  <1> QED BY <1>2, <1>3

LEMMA SavePartStep ==
    ASSUME SInv, NEW h \in Handlers, ByHand(h), SavePart(h)
    PROVE  StepOK(h)
  <1>0. PICK k : k = task[h]
    OBVIOUS
  <1>00. PICK k2 : k2 = task'[h]
    OBVIOUS
  <1>000. PICK s : s = k.slots
    OBVIOUS
  <1>0000. PICK n : n = k.next
    OBVIOUS
  <1>00000. PICK parts : parts = k.parts
    OBVIOUS
  <1>1. k \in Task /\ task \in [Handlers -> Task] /\ k.pc = "place" /\ FilledOK(k) /\ TaskOK(k)
    BY <1>0, HoldsNow DEF SavePart, At
  <1>2. Len(s) = Len(parts) /\ n \in 1..Len(s) /\ parts \in Seq(SUBSET Players)
    BY <1>1, <1>000, <1>0000, <1>00000 DEF TaskOK, Task
  <1>3. SaveSlot(h, parts[n]) /\ parts[n] \in SUBSET Players
    BY <1>0, <1>0000, <1>00000, <1>2, ElementOfSeq DEF SavePart
  <1>4. /\ Len(s) \in Nat
        /\ \A i \in 1..Len(s) : s[i] \in Teams
        /\ Distinct(s) /\ TeamsOf(k.game) = Listed(s) /\ TeamsOf(k.game)' = Listed(s)
        /\ \A t \in Teams :
            /\ t # s[n] => teams'[t] = teams[t]
            /\ t = s[n] => teams'[t].members = parts[n]
            /\ Exists(t)' <=> Exists(t)
            /\ Exists(t) => teams'[t].game = teams[t].game
    BY <1>0, <1>000, <1>0000, <1>1, <1>3, SaveSlotDoes
  <1>5. \A i \in 1..Len(s) : teams[s[i]].members = IF i < n THEN parts[i] ELSE {}
    BY <1>000, <1>0000, <1>00000, <1>1 DEF FilledOK, FilledTo
  <1>6. \A i \in 1..Len(s) : teams'[s[i]].members = IF i < n + 1 THEN parts[i] ELSE {}
    <2> SUFFICES ASSUME NEW i \in 1..Len(s)
                 PROVE  teams'[s[i]].members = IF i < n + 1 THEN parts[i] ELSE {}
      OBVIOUS
    <2>1. CASE i = n
      BY <1>2, <1>4, <2>1
    <2>2. CASE i # n
      <3>1. s[i] # s[n]
        BY <1>2, <1>4, <2>2 DEF Distinct
      <3>2. teams'[s[i]] = teams[s[i]]
        BY <1>4, <3>1
      <3>3. i < n + 1 <=> i < n
        BY <1>2, <1>4, <2>2
      <3> QED BY <1>5, <3>2, <3>3
    <2> QED BY <2>1, <2>2
  <1>7. \A i, j \in 1..Len(s) : i # j => parts[i] \cap parts[j] = {}
    BY <1>1, <1>2, <1>00000, PartsApart
  <1>8. ~byHand' => Apart'
    <2> SUFFICES ASSUME ~byHand', NEW t \in Teams, NEW u \in Teams, t # u, Exists(t)', Exists(u)',
                        teams'[t].game = teams'[u].game
                 PROVE  teams'[t].members \cap teams'[u].members = {}
      BY DEF Apart
    <2>0. Apart
      BY DEF SInv, ByHand
    <2>1. Exists(t) /\ Exists(u) /\ teams[t].game = teams[u].game
      BY <1>4
    <2>2. CASE t \notin Listed(s) \/ u \notin Listed(s)
      <3>1. t \notin Listed(s) /\ u \notin Listed(s)
        BY <1>4, <2>1, <2>2 DEF TeamsOf
      <3>2. t # s[n] /\ u # s[n]
        BY <1>2, <3>1 DEF Listed
      <3>3. teams'[t] = teams[t] /\ teams'[u] = teams[u]
        BY <1>4, <3>2
      <3> QED BY <2>0, <2>1, <3>3 DEF Apart
    <2>3. CASE t \in Listed(s) /\ u \in Listed(s)
      <3>1. PICK i \in 1..Len(s), j \in 1..Len(s) : t = s[i] /\ u = s[j]
        BY <2>3 DEF Listed
      <3>2. parts[i] \cap parts[j] = {}
        BY <1>7, <3>1
      <3>3. teams'[t].members = parts[i] \/ teams'[t].members = {}
        BY <1>6, <3>1
      <3>4. teams'[u].members = parts[j] \/ teams'[u].members = {}
        BY <1>6, <3>1
      <3> QED BY <3>2, <3>3, <3>4
    <2> QED BY <2>2, <2>3
  <1>9. CASE n = Len(s)
    <2>1. k2.pc = "reply" /\ k2.game = k.game /\ k2.slots = s /\ k2.parts = parts
      BY <1>0, <1>00, <1>000, <1>0000, <1>00000, <1>1, <1>9 DEF SavePart, Task
    <2>2. \A i \in 1..Len(s) : i < n + 1
      BY <1>4, <1>9
    <2>3. AllFilled(s, parts)'
      BY <1>6, <2>2 DEF AllFilled
    <2>4. HoldsOK(h)'
      BY <1>00, <1>4, <2>1, <2>3, FilledNext
    <2> QED BY <1>8, <2>4 DEF StepOK
  <1>10. CASE n # Len(s)
    <2>1. /\ k2.pc = "place" /\ k2.game = k.game /\ k2.next = n + 1 /\ k2.slots = s
          /\ k2.parts = parts
      BY <1>0, <1>00, <1>000, <1>0000, <1>00000, <1>1, <1>10 DEF SavePart, Task
    <2>2. FilledTo(s, parts, n + 1)'
      BY <1>6 DEF FilledTo
    <2>3. HoldsOK(h)'
      BY <1>00, <1>4, <2>1, <2>2, FilledNext
    <2> QED BY <1>8, <2>3 DEF StepOK
  <1> QED BY <1>9, <1>10

-----------------------------------------------------------------------------
(* Moving one player, one step after the other.                              *)

LEMMA HoldGives ==
    ASSUME SInv, NEW h \in Handlers, NEW op, NEW pc, NEW p, NEW rows,
           Hold(h, op, pc, p, rows), NEW k, k = task'[h]
    PROVE  k.op = op /\ k.pc = pc /\ k.who = p /\ k.rows = rows /\ UNCHANGED teams
  <1>1. NoTask \in Task /\ task \in [Handlers -> Task]
    BY NoTaskOK DEF TaskOK, SInv, IInv, TasksOK
  <1> QED BY <1>1 DEF Hold, Task

LEMMA SameRows ==
    ASSUME UNCHANGED teams, NEW p, NEW t \in Teams, NEW u \in Teams
    PROVE  /\ Moved(p, t, u)' = Moved(p, t, u) /\ Joined(p, u)' = Joined(p, u)
           /\ Left(p, u)' = Left(p, u) /\ Exists(u)' = Exists(u)
           /\ Movable(p, t, u)' = Movable(p, t, u)
           /\ In(p, teams[u].game)' = In(p, teams[u].game)
  <1>1. Moved(p, t, u)' = Moved(p, t, u)
    BY DEF Moved, With
  <1>2. Joined(p, u)' = Joined(p, u)
    BY DEF Joined, With
  <1>3. Left(p, u)' = Left(p, u)
    BY DEF Left, With
  <1>4. Exists(u)' = Exists(u) /\ Movable(p, t, u)' = Movable(p, t, u)
    BY DEF Movable, Exists
  <1>5. In(p, teams[u].game)' = In(p, teams[u].game)
    BY DEF In, TeamsOf, Exists
  <1> QED BY <1>1, <1>2, <1>3, <1>4, <1>5

\* A row that is saved, with the members it gets.
LEMMA WithDoes ==
    ASSUME SInv, NEW t \in Teams, Exists(t), NEW members \in SUBSET Players
    PROVE  /\ With(t, members).members = members /\ With(t, members).game = teams[t].game
           /\ With(t, members) # None /\ teams[t].members \in SUBSET Players
           /\ teams[t].game \in Games
  <1>1. With(t, members) \in TeamRow /\ teams[t] \in TeamRow
    BY WithOK DEF SInv, IInv
  <1> QED BY <1>1, NoneAssumption DEF With, TeamRow

LEMMA SwapPlayerStep ==
    ASSUME SInv, NEW h \in Handlers, ByHand(h), NEW p \in Players,
           NEW from \in Teams, NEW to \in Teams, SwapPlayer(h, p, from, to)
    PROVE  StepOK(h)
  <1>00. PICK k2 : k2 = task'[h]
    OBVIOUS
  <1>1. Movable(p, from, to) /\ Hold(h, "swap", "both", p, Moved(p, from, to))
    BY DEF SwapPlayer, Movable, Moved
  <1>2. /\ k2.op = "swap" /\ k2.pc = "both" /\ k2.who = p
        /\ k2.rows = Moved(p, from, to) /\ UNCHANGED teams
    BY <1>00, <1>1, HoldGives
  <1>3. Movable(p, from, to)' /\ k2.rows = Moved(p, from, to)'
    BY <1>1, <1>2, SameRows
  <1>4. HeldOK(k2)'
    BY <1>2, <1>3 DEF HeldOK
  <1>5. FilledOK(k2)'
    BY <1>2 DEF FilledOK
  <1>6. ~byHand' => Apart'
    BY <1>2, Same DEF SInv, ByHand
  <1> QED BY <1>00, <1>4, <1>5, <1>6, HoldsNext DEF StepOK

LEMMA ReassignPlayerStep ==
    ASSUME SInv, NEW h \in Handlers, ByHand(h), NEW p \in Players, NEW to \in Teams,
           ReassignPlayer(h, p, to)
    PROVE  StepOK(h)
  <1>00. PICK k2 : k2 = task'[h]
    OBVIOUS
  <1> DEFINE row == [t \in {to} |-> With(to, teams[to].members \cup {p})]
  <1>1. Exists(to) /\ row = Joined(p, to)
    BY DEF ReassignPlayer, Joined
  <1>2. \/ In(p, teams[to].game) = {} /\ Hold(h, "reassign", "add", p, Joined(p, to))
        \/ \E old \in In(p, teams[to].game) :
            IF old = to
            THEN Hold(h, "reassign", "again", p,
                      [t \in {to} |-> With(to, teams[to].members \ {p})])
            ELSE Hold(h, "reassign", "leave", p,
                      [t \in {old, to} |->
                            IF t = to THEN row[t] ELSE With(t, teams[t].members \ {p})])
    BY <1>1 DEF ReassignPlayer
  <1>3. UNCHANGED teams /\ (~byHand' => Apart')
    <2>1. UNCHANGED teams
      BY <1>2 DEF Hold
    <2> QED BY <2>1, Same DEF SInv, ByHand
  <1>4. k2.pc \in {"add", "again", "leave"} /\ HeldOK(k2)'
    <2>1. CASE In(p, teams[to].game) = {} /\ Hold(h, "reassign", "add", p, Joined(p, to))
      <3>1. k2.pc = "add" /\ k2.who = p /\ k2.rows = Joined(p, to)
        BY <1>00, <2>1, HoldGives
      <3>2. Exists(to)' /\ k2.rows = Joined(p, to)' /\ In(p, teams[to].game)' = {}
        BY <1>1, <1>3, <2>1, <3>1, SameRows
      <3> QED BY <3>1, <3>2 DEF HeldOK
    <2>2. ASSUME NEW old \in In(p, teams[to].game), old = to,
                 Hold(h, "reassign", "again", p,
                      [t \in {to} |-> With(to, teams[to].members \ {p})])
          PROVE  k2.pc \in {"add", "again", "leave"} /\ HeldOK(k2)'
      <3>1. [t \in {to} |-> With(to, teams[to].members \ {p})] = Left(p, to)
        BY DEF Left
      <3>2. k2.pc = "again" /\ k2.who = p /\ k2.rows = Left(p, to)
        BY <1>00, <2>2, <3>1, HoldGives
      <3>3. Exists(to)' /\ k2.rows = Left(p, to)'
        BY <1>1, <1>3, <3>2, SameRows
      <3> QED BY <3>2, <3>3 DEF HeldOK
    <2>3. ASSUME NEW old \in In(p, teams[to].game), old # to,
                 Hold(h, "reassign", "leave", p,
                      [t \in {old, to} |->
                            IF t = to THEN row[t] ELSE With(t, teams[t].members \ {p})])
          PROVE  k2.pc \in {"add", "again", "leave"} /\ HeldOK(k2)'
      <3>1. [t \in {old, to} |-> IF t = to THEN row[t] ELSE With(t, teams[t].members \ {p})]
                = Moved(p, old, to)
        BY DEF Moved
      <3>2. old \in Teams /\ Movable(p, old, to)
        BY <1>1, <2>3 DEF In, TeamsOf, Movable
      <3>3. k2.pc = "leave" /\ k2.who = p /\ k2.rows = Moved(p, old, to)
        BY <1>00, <2>3, <3>1, HoldGives
      <3>4. Movable(p, old, to)' /\ k2.rows = Moved(p, old, to)'
        BY <1>3, <3>2, <3>3, SameRows
      <3> QED BY <2>3, <3>2, <3>3, <3>4 DEF HeldOK
    <2> QED BY <1>2, <2>1, <2>2, <2>3
  <1>5. FilledOK(k2)'
    BY <1>4 DEF FilledOK
  <1> QED BY <1>00, <1>3, <1>4, <1>5, HoldsNext DEF StepOK

\* Two teams are saved that p moved between: everything else is as it was.
LEMMA MovedSaved ==
    ASSUME SInv, NEW p \in Players, NEW from \in Teams, NEW to \in Teams,
           Movable(p, from, to), teams' = Saved(Moved(p, from, to))
    PROVE  \A t \in Teams :
            /\ Exists(t)' <=> Exists(t)
            /\ Exists(t) => teams'[t].game = teams[t].game
            /\ t \notin {from, to} => teams'[t] = teams[t]
            /\ t = to => teams'[t].members = teams[t].members \cup {p}
            /\ t = from /\ from # to => teams'[t].members = teams[t].members \ {p}
  <1>1. Exists(from) /\ Exists(to)
    BY DEF Movable
  <1>2. teams'[to] = With(to, teams[to].members \cup {p})
    BY DEF Saved, Moved
  <1>3. from # to => teams'[from] = With(from, teams[from].members \ {p})
    BY DEF Saved, Moved
  <1>4. \A t \in Teams : t \notin {from, to} => teams'[t] = teams[t]
    BY DEF Saved, Moved
  <1>5. /\ teams'[to].members = teams[to].members \cup {p}
        /\ teams'[to].game = teams[to].game /\ teams'[to] # None
    BY <1>1, <1>2, WithDoes
  <1>6. from # to => /\ teams'[from].members = teams[from].members \ {p}
                     /\ teams'[from].game = teams[from].game /\ teams'[from] # None
    BY <1>1, <1>3, WithDoes
  <1> QED BY <1>1, <1>4, <1>5, <1>6 DEF Exists

LEMMA SaveBothStep ==
    ASSUME SInv, NEW h \in Handlers, ByHand(h), SaveBoth(h)
    PROVE  StepOK(h)
  <1>0. PICK k : k = task[h]
    OBVIOUS
  <1>1. /\ k \in Task /\ task \in [Handlers -> Task] /\ k.pc = "both" /\ Fits(k) /\ HeldOK(k)
        /\ TaskOK(k)
    BY <1>0, HoldsNow DEF SaveBoth, At
  <1>2. task'[h] = NoTask
    BY <1>1 DEF SaveBoth, Done
  <1>3. CASE k.op = "update"
    BY <1>0, <1>2, <1>3, NoTaskHolds DEF ByHand, StepOK
  <1>4. CASE k.op = "swap"
    <2>1. PICK from \in Teams, to \in Teams :
            Movable(k.who, from, to) /\ k.rows = Moved(k.who, from, to)
      BY <1>1, <1>4 DEF HeldOK
    <2>2. PICK p \in Players : p = k.who
      <3>1. k.who \in teams[from].members /\ Exists(from)
        BY <2>1 DEF Movable
      <3>2. teams[from].members \in SUBSET Players
        BY <3>1, WithDoes
      <3> QED BY <3>1, <3>2
    <2>3. Movable(p, from, to) /\ teams' = Saved(Moved(p, from, to))
      BY <1>0, <2>1, <2>2 DEF SaveBoth
    <2>4. \A t \in Teams :
            /\ Exists(t)' <=> Exists(t)
            /\ Exists(t) => teams'[t].game = teams[t].game
            /\ t \notin {from, to} => teams'[t] = teams[t]
            /\ t = to => teams'[t].members = teams[t].members \cup {p}
            /\ t = from /\ from # to => teams'[t].members = teams[t].members \ {p}
      BY <2>3, MovedSaved
    <2>5. ~byHand' => Apart'
      <3> SUFFICES ASSUME ~byHand', NEW t \in Teams, NEW u \in Teams, t # u, Exists(t)',
                          Exists(u)', teams'[t].game = teams'[u].game
                   PROVE  teams'[t].members \cap teams'[u].members = {}
        BY DEF Apart
      <3>1. Apart
        BY DEF SInv, ByHand
      <3>2. Exists(t) /\ Exists(u) /\ teams[t].game = teams[u].game
        BY <2>4
      <3>3. \A v \in Teams : Exists(v) /\ teams[v].game = teams[from].game /\ v # from
                => p \notin teams[v].members
        BY <2>3, <3>1 DEF Apart, Movable
      <3>4. teams[t].members \cap teams[u].members = {}
        BY <3>1, <3>2 DEF Apart
      <3>5. \A v \in Teams : /\ v # to => \A q \in teams'[v].members : q \in teams[v].members
                             /\ v = to => \A q \in teams'[v].members : q \in teams[v].members \/ q = p
        BY <2>4
      <3>6. CASE t # to /\ u # to
        BY <3>4, <3>5, <3>6
      <3>7. ASSUME NEW v \in Teams, v # to, Exists(v), teams[v].game = teams[to].game
            PROVE  p \notin teams'[v].members
        <4>1. teams[v].game = teams[from].game
          BY <2>3, <3>7 DEF Movable
        <4>2. CASE v = from
          BY <2>4, <3>7, <4>2
        <4>3. CASE v # from
          BY <2>4, <3>3, <3>7, <4>1, <4>3
        <4> QED BY <4>2, <4>3
      <3>8. CASE t = to
        <4>1. p \notin teams'[u].members
          BY <3>2, <3>7, <3>8
        <4> QED BY <3>4, <3>5, <3>8, <4>1
      <3>9. CASE u = to
        <4>1. p \notin teams'[t].members
          BY <3>2, <3>7, <3>9
        <4> QED BY <3>4, <3>5, <3>9, <4>1
      <3> QED BY <3>6, <3>8, <3>9
    <2> QED BY <1>2, <2>5, NoTaskHolds DEF StepOK
  <1> QED BY <1>1, <1>3, <1>4 DEF Fits

LEMMA SaveOneStep ==
    ASSUME SInv, NEW h \in Handlers, ByHand(h), NEW t \in Teams, SaveOne(h, t)
    PROVE  StepOK(h)
  <1>0. PICK k : k = task[h]
    OBVIOUS
  <1>00. PICK k2 : k2 = task'[h]
    OBVIOUS
  <1>1. /\ k \in Task /\ task \in [Handlers -> Task] /\ k.pc = "one" /\ Fits(k)
    BY <1>0, HoldsNow DEF SaveOne, At
  <1>2. byHand'
    BY <1>0, <1>1 DEF Fits, ByHand
  <1>3. k2 = NoTask \/ k2.pc = "one"
    <2>1. CASE DOMAIN task[h].rows \ {t} = {}
      BY <1>00, <1>1, <2>1 DEF SaveOne, Done
    <2>2. CASE DOMAIN task[h].rows \ {t} # {}
      BY <1>0, <1>00, <1>1, <2>2 DEF SaveOne, Task
    <2> QED BY <2>1, <2>2
  <1>4. CASE k2 = NoTask
    BY <1>00, <1>2, <1>4, NoTaskHolds DEF StepOK
  <1>5. CASE k2.pc = "one"
    <2>1. FilledOK(k2)'
      BY <1>5 DEF FilledOK
    <2>2. HeldOK(k2)'
      BY <1>5 DEF HeldOK
    <2> QED BY <1>00, <1>2, <2>1, <2>2, HoldsNext DEF StepOK
  <1> QED BY <1>3, <1>4, <1>5

LEMMA LeaveTeamDoes ==
    ASSUME SInv, NEW h \in Handlers, NEW t \in Teams, LeaveTeam(h, t)
    PROVE  \E p \in Players, to \in Teams :
            /\ p = task[h].who /\ t # to /\ Movable(p, t, to)
            /\ task[h].rows = Moved(p, t, to)
            /\ teams'[t].members = teams[t].members \ {p}
            /\ teams'[t].game = teams[t].game /\ Exists(t)'
            /\ \A u \in Teams : u # t => teams'[u] = teams[u]
  <1>0. PICK k : k = task[h]
    OBVIOUS
  <1>1. k.pc = "leave" /\ HeldOK(k)
    BY <1>0, HoldsNow DEF LeaveTeam, At
  <1>2. PICK old \in Teams, to \in Teams :
            old # to /\ Movable(k.who, old, to) /\ k.rows = Moved(k.who, old, to)
    BY <1>1 DEF HeldOK
  <1>3. Exists(old) /\ Exists(to) /\ k.who \in teams[old].members
    BY <1>2 DEF Movable
  <1>4. PICK p \in Players : p = k.who
    <2>1. teams[old].members \in SUBSET Players
      BY <1>3, WithDoes
    <2> QED BY <1>3, <2>1
  <1>5. /\ DOMAIN k.rows = {old, to} /\ k.rows[to] = With(to, teams[to].members \cup {p})
        /\ k.rows[old] = With(old, teams[old].members \ {p})
    BY <1>2, <1>4 DEF Moved
  <1>6. t = old
    <2>1. k.rows[to].members = teams[to].members \cup {p}
      BY <1>3, <1>5, WithDoes
    <2>2. t \in DOMAIN k.rows /\ p \notin k.rows[t].members
      BY <1>0, <1>4 DEF LeaveTeam
    <2> QED BY <1>5, <2>1, <2>2
  <1>7. teams' = Saved([u \in {t} |-> k.rows[u]])
    <2>1. teams' = Saved([u \in {t} |-> task[h].rows[t]])
      BY DEF LeaveTeam
    <2>2. [u \in {t} |-> task[h].rows[t]] = [u \in {t} |-> k.rows[u]]
      BY <1>0
    <2> QED BY <2>1, <2>2
  <1>8. /\ teams'[t] = With(t, teams[t].members \ {p})
        /\ \A u \in Teams : u # t => teams'[u] = teams[u]
    BY <1>5, <1>6, <1>7 DEF Saved
  <1>9. /\ teams'[t].members = teams[t].members \ {p}
        /\ teams'[t].game = teams[t].game /\ teams'[t] # None
    BY <1>3, <1>6, <1>8, WithDoes
  <1> QED BY <1>0, <1>2, <1>4, <1>6, <1>8, <1>9 DEF Exists

LEMMA LeaveTeamStep ==
    ASSUME SInv, NEW h \in Handlers, ByHand(h), NEW t \in Teams, LeaveTeam(h, t)
    PROVE  StepOK(h)
  <1>0. PICK k : k = task[h]
    OBVIOUS
  <1>00. PICK k2 : k2 = task'[h]
    OBVIOUS
  <1>1. k \in Task /\ task \in [Handlers -> Task]
    BY <1>0, HoldsNow
  <1>2. PICK p \in Players, to \in Teams :
            /\ p = k.who /\ t # to /\ Movable(p, t, to) /\ k.rows = Moved(p, t, to)
            /\ teams'[t].members = teams[t].members \ {p}
            /\ teams'[t].game = teams[t].game /\ Exists(t)'
            /\ \A u \in Teams : u # t => teams'[u] = teams[u]
    BY <1>0, LeaveTeamDoes
  <1>3. Exists(t) /\ Exists(to) /\ teams[t].game = teams[to].game /\ p \in teams[t].members
    BY <1>2 DEF Movable
  <1>4. /\ k2.pc = "add" /\ k2.who = p
        /\ k2.rows = [u \in DOMAIN k.rows \ {t} |-> k.rows[u]]
    BY <1>0, <1>00, <1>1, <1>2 DEF LeaveTeam, Task
  <1>5. DOMAIN k.rows \ {t} = {to} /\ k.rows[to] = With(to, teams[to].members \cup {p})
    BY <1>2 DEF Moved
  <1>6. k2.rows = Joined(p, to)
    BY <1>4, <1>5 DEF Joined
  <1>7. Joined(p, to)' = Joined(p, to) /\ Exists(to)' /\ teams'[to] = teams[to]
    BY <1>2, <1>3 DEF Joined, With, Exists
  <1>8. ~byHand' => Apart'
    <2>1. ~byHand' => Apart
      BY DEF SInv, ByHand
    <2> QED BY <1>2, <1>3, <2>1 DEF Apart, Exists
  <1>9. ~byHand' => In(p, teams[to].game)' = {}
    <2> SUFFICES ASSUME ~byHand', NEW u \in Teams, Exists(u)', teams'[u].game = teams'[to].game,
                        p \in teams'[u].members
                 PROVE  FALSE
      BY DEF In, TeamsOf
    <2>1. Apart
      BY DEF SInv, ByHand
    <2>2. u # t /\ Exists(u) /\ teams'[u] = teams[u]
      BY <1>2 DEF Exists
    <2>3. teams[u].game = teams[t].game /\ p \in teams[u].members
      BY <1>3, <1>7, <2>2
    <2> QED BY <1>3, <2>1, <2>2, <2>3 DEF Apart
  <1>10. HeldOK(k2)'
    BY <1>4, <1>6, <1>7, <1>9 DEF HeldOK
  <1>11. FilledOK(k2)'
    BY <1>4 DEF FilledOK
  <1> QED BY <1>00, <1>8, <1>10, <1>11, HoldsNext DEF StepOK

LEMMA LeaveSameStep ==
    ASSUME SInv, NEW h \in Handlers, ByHand(h), LeaveSame(h)
    PROVE  StepOK(h)
  <1>0. PICK k : k = task[h]
    OBVIOUS
  <1>1. task \in [Handlers -> Task] /\ k.pc = "again" /\ HeldOK(k)
    BY <1>0, HoldsNow DEF LeaveSame, At
  <1>2. task'[h] = NoTask /\ teams' = Saved(k.rows)
    BY <1>0, <1>1 DEF LeaveSame, Done
  <1>3. PICK to \in Teams : Exists(to) /\ k.rows = Left(k.who, to)
    BY <1>1 DEF HeldOK
  <1>4. /\ teams'[to] = With(to, teams[to].members \ {k.who})
        /\ \A u \in Teams : u # to => teams'[u] = teams[u]
    BY <1>2, <1>3 DEF Left, Saved
  <1>5. /\ teams'[to].members = teams[to].members \ {k.who}
        /\ teams'[to].game = teams[to].game
    BY <1>3, <1>4, WithDoes
  <1>6. ~byHand' => Apart'
    <2>1. ~byHand' => Apart
      BY DEF SInv, ByHand
    <2>2. \A t \in Teams : Exists(t)' => /\ Exists(t) /\ teams'[t].game = teams[t].game
                                        /\ teams'[t].members \subseteq teams[t].members
      BY <1>3, <1>4, <1>5 DEF Exists
    <2> QED BY <2>1, <2>2 DEF Apart
  <1> QED BY <1>2, <1>6, NoTaskHolds DEF StepOK

LEMMA JoinTeamDoes ==
    ASSUME SInv, NEW h \in Handlers, JoinTeam(h)
    PROVE  \E p \in Players, to \in Teams :
            /\ p = task[h].who /\ Exists(to)
            /\ ~byHand => In(p, teams[to].game) = {}
            /\ teams'[to].members = teams[to].members \cup {p}
            /\ teams'[to].game = teams[to].game /\ Exists(to)'
            /\ \A u \in Teams : u # to => teams'[u] = teams[u]
  <1>0. PICK k : k = task[h]
    OBVIOUS
  <1>1. k \in Task /\ k.pc = "add" /\ HeldOK(k) /\ teams' = Saved(k.rows)
    BY <1>0, HoldsNow DEF JoinTeam, At
  <1>2. PICK to \in Teams :
            /\ Exists(to) /\ k.rows = Joined(k.who, to)
            /\ ~byHand => In(k.who, teams[to].game) = {}
    BY <1>1 DEF HeldOK
  <1>3. /\ teams'[to] = With(to, teams[to].members \cup {k.who})
        /\ \A u \in Teams : u # to => teams'[u] = teams[u]
    BY <1>1, <1>2 DEF Joined, Saved
  <1>4. /\ teams'[to].members = teams[to].members \cup {k.who}
        /\ teams'[to].game = teams[to].game
    BY <1>3 DEF With
  <1>5. teams'[to] \in TeamRow
    <2>1. \A t \in DOMAIN k.rows : k.rows[t] \in TeamRow
      BY <1>1, RowsOf DEF Task
    <2>2. to \in DOMAIN k.rows /\ teams'[to] = k.rows[to]
      BY <1>1, <1>2 DEF Joined, Saved
    <2> QED BY <2>1, <2>2
  <1>6. Exists(to)' /\ k.who \in Players
    <2>1. teams'[to].members \in SUBSET Players
      BY <1>5 DEF TeamRow
    <2> QED BY <1>4, <1>5, <2>1, NoneAssumption DEF Exists
  <1> QED BY <1>0, <1>2, <1>3, <1>4, <1>5, <1>6

LEMMA JoinTeamStep ==
    ASSUME SInv, NEW h \in Handlers, ByHand(h), JoinTeam(h)
    PROVE  StepOK(h)
  <1>1. PICK p \in Players, to \in Teams :
            /\ p = task[h].who /\ Exists(to)
            /\ ~byHand => In(p, teams[to].game) = {}
            /\ teams'[to].members = teams[to].members \cup {p}
            /\ teams'[to].game = teams[to].game /\ Exists(to)'
            /\ \A u \in Teams : u # to => teams'[u] = teams[u]
    BY JoinTeamDoes
  <1>2. task'[h] = NoTask
    BY DEF JoinTeam, Done, SInv, IInv, TasksOK
  <1>3. ~byHand' => Apart'
    <2> SUFFICES ASSUME ~byHand', NEW t \in Teams, NEW u \in Teams, t # u, Exists(t)',
                        Exists(u)', teams'[t].game = teams'[u].game
                 PROVE  teams'[t].members \cap teams'[u].members = {}
      BY DEF Apart
    <2>1. Apart /\ In(p, teams[to].game) = {}
      BY <1>1 DEF SInv, ByHand
    <2>2. Exists(t) /\ Exists(u) /\ teams[t].game = teams[u].game
      BY <1>1 DEF Exists
    <2>3. teams[t].members \cap teams[u].members = {}
      BY <2>1, <2>2 DEF Apart
    <2>4. \A v \in Teams : Exists(v) /\ teams[v].game = teams[to].game => p \notin teams[v].members
      BY <2>1 DEF In, TeamsOf
    <2>5. CASE t = to
      BY <1>1, <2>2, <2>3, <2>4, <2>5
    <2>6. CASE u = to
      BY <1>1, <2>2, <2>3, <2>4, <2>6
    <2>7. CASE t # to /\ u # to
      BY <1>1, <2>3, <2>7
    <2> QED BY <2>5, <2>6, <2>7
  <1> QED BY <1>2, <1>3, NoTaskHolds DEF StepOK

LEMMA AddTeamStep ==
    ASSUME SInv, NEW h \in Handlers, ByHand(h), NEW g \in Games, AddTeam(h, g)
    PROVE  StepOK(h)
  <1>1. task[h] = NoTask /\ task'[h] = NoTask
    BY DEF AddTeam, Request
  <1>2. PICK t \in Unused : teams' = [teams EXCEPT ![t] = [game |-> g, members |-> {}]]
    BY DEF AddTeam
  <1>3. t \in Teams /\ teams \in [Teams -> TeamRow \cup {None}]
    BY <1>2 DEF Unused, SInv, IInv, TableOK
  <1>4. teams'[t].members = {} /\ \A u \in Teams : u # t => teams'[u] = teams[u]
    BY <1>2, <1>3
  <1>5. ~byHand' => Apart'
    <2>1. ~byHand' => Apart
      BY DEF SInv, ByHand
    <2> QED BY <1>4, <2>1 DEF Apart, Exists
  <1> QED BY <1>1, <1>5, NoTaskHolds DEF StepOK

LEMMA EndsStep ==
    ASSUME SInv, NEW h \in Handlers, ByHand(h), Reply(h) \/ Fail(h)
    PROVE  StepOK(h)
  <1>1. task' = [task EXCEPT ![h] = NoTask] /\ UNCHANGED teams
    BY DEF Reply, Fail, Refused, Done
  <1>2. task'[h] = NoTask
    BY <1>1 DEF SInv, IInv, TasksOK
  <1>3. ~byHand' => Apart'
    BY <1>1, Same DEF SInv, ByHand
  <1> QED BY <1>2, <1>3, NoTaskHolds DEF StepOK

LEMMA SInvInit == ASSUME Init PROVE SInv
  <1>1. IInv
    BY InitOK
  <1>2. Apart
    BY DEF Init, Apart, Exists
  <1>3. ASSUME NEW h \in Handlers PROVE HoldsOK(h)
    <2>0. PICK k : k = task[h]
      OBVIOUS
    <2>1. k.pc = "idle"
      BY <2>0 DEF Init, NoTask
    <2> QED BY <2>0, <2>1 DEF HoldsOK, FilledOK, HeldOK
  <1> QED BY <1>1, <1>2, <1>3 DEF SInv

LEMMA BulkHolds ==
    ASSUME SInv, NEW h \in Handlers, ByHand(h), BulkStep(h)
    PROVE  StepOK(h)
  <1>1. ASSUME NEW g \in Games,
               \/ ClearTeams(h, g)
               \/ \E n \in 2..MaxTeams, way \in Ways, active \in SUBSET Players :
                    CreateTeams(h, g, n, way, active)
        PROVE  StepOK(h)
    BY <1>1, RequestsStep
  <1>2. ASSUME NEW g \in Games, NEW op \in {"rebalance", "shuffle"}, NEW way \in Ways,
               Redistribute(h, g, op, way)
        PROVE  StepOK(h)
    BY <1>2, RedistributeStep
  <1>3. ASSUME NEW active \in SUBSET Players, FindPlayers(h, active) PROVE StepOK(h)
    BY <1>3, FindPlayersStep
  <1>4. CASE FindExisting(h) \/ RemoveExisting(h) \/ InsertTeams(h)
    BY <1>4, FindExistingStep, RemoveExistingStep, InsertTeamsStep
  <1>5. CASE EmptySlot(h) \/ SavePart(h) \/ Reply(h)
    BY <1>5, EmptySlotStep, SavePartStep, EndsStep
  <1>6. ASSUME NEW p \in Players, Place(h, p) PROVE StepOK(h)
    BY <1>6, PlaceStep
  <1> QED BY <1>1, <1>2, <1>3, <1>4, <1>5, <1>6 DEF BulkStep

LEMMA SingleHolds ==
    ASSUME SInv, NEW h \in Handlers, ByHand(h), SingleStep(h)
    PROVE  StepOK(h)
  <1>1. ASSUME NEW g \in Games, AddTeam(h, g) PROVE StepOK(h)
    BY <1>1, AddTeamStep
  <1>2. ASSUME NEW g \in Games, NEW ts \in SUBSET Teams, NEW ff \in [ts -> SUBSET Players],
               ManualAssign(h, g, ff)
        PROVE  StepOK(h)
    BY <1>2, RequestsStep
  <1>3. ASSUME NEW t \in Teams, SaveOne(h, t) \/ LeaveTeam(h, t) PROVE StepOK(h)
    BY <1>3, SaveOneStep, LeaveTeamStep
  <1>4. ASSUME NEW t \in Teams, DissolveTeam(h, t) \/ \E g \in Games : UpdateTeam(h, t, g)
        PROVE  StepOK(h)
    BY <1>4, RequestsStep
  <1>5. ASSUME NEW t \in Teams, NEW p \in Players, ReassignPlayer(h, p, t) PROVE StepOK(h)
    BY <1>5, ReassignPlayerStep
  <1>6. ASSUME NEW t \in Teams, NEW u \in Teams, NEW p \in Players, SwapPlayer(h, p, t, u)
        PROVE  StepOK(h)
    BY <1>6, SwapPlayerStep
  <1>7. CASE SaveBoth(h) \/ LeaveSame(h) \/ JoinTeam(h)
    BY <1>7, SaveBothStep, LeaveSameStep, JoinTeamStep
  <1> QED BY <1>1, <1>2, <1>3, <1>4, <1>5, <1>6, <1>7 DEF SingleStep

LEMMA SInvNext ==
    ASSUME OneAtATime, SInv, [Next]_vars
    PROVE  SInv'
  <1>1. IInv'
    BY NextKept DEF SInv
  <1>2. CASE Next
    <2>1. PICK h \in Handlers : (BulkStep(h) \/ SingleStep(h) \/ Fail(h)) /\ ByHand(h)
      BY <1>2 DEF Next, ByHand
    <2>2. StepOK(h)
      BY <2>1, BulkHolds, SingleHolds, EndsStep
    <2>3. ASSUME NEW j \in Handlers PROVE HoldsOK(j)'
      <3>1. j = h
        BY DEF OneAtATime
      <3>2. HoldsOK(h)'
        BY <2>2 DEF StepOK
      <3> QED BY <3>1, <3>2
    <2> QED BY <1>1, <2>2, <2>3 DEF SInv, StepOK
  <1>3. CASE UNCHANGED vars
    <2>1. UNCHANGED teams /\ UNCHANGED task /\ UNCHANGED byHand
      BY <1>3 DEF vars
    <2>2. ~byHand' => Apart'
      BY <2>1, Same DEF SInv
    <2>3. ASSUME NEW j \in Handlers PROVE HoldsOK(j)'
      <3>0. PICK k : k = task[j]
        OBVIOUS
      <3>1. FilledOK(k) /\ HeldOK(k)
        BY <3>0, HoldsNow
      <3>2. FilledOK(k)'
        BY <2>1, <3>1 DEF FilledOK, EmptiedTo, FilledTo, AllFilled, TeamsOf, Exists
      <3>3. HeldOK(k)'
        BY <2>1, <3>1, SameRows DEF HeldOK
      <3> QED BY <2>1, <3>0, <3>2, <3>3, HoldsNext
    <2> QED BY <1>1, <2>2, <2>3 DEF SInv
  <1> QED BY <1>2, <1>3

\* SInv: requests served one by one find the rows they save as they left them, and
\* unless a host has filled teams by hand no player is in two teams of a game.
THEOREM SerialHolds == ASSUME OneAtATime PROVE Spec => []SInv
  <1>1. Init => SInv
    BY SInvInit
  <1>2. SInv /\ [Next]_vars => SInv'
    BY SInvNext
  <1> QED BY <1>1, <1>2, PTL DEF Spec

\* FormedAsPlaced: when forming, rebalancing or shuffling is answered, the teams of
\* the game are the ones that were placed, with their players, and no others.
THEOREM FormingIsComplete == ASSUME OneAtATime PROVE Spec => []FormedAsPlaced
  <1>1. SInv => FormedAsPlaced
    <2> SUFFICES ASSUME SInv, NEW h \in Handlers, task[h].pc = "reply"
                 PROVE  LET k == task[h] IN
                    /\ TeamsOf(k.game) = {k.slots[i] : i \in DOMAIN k.slots}
                    /\ \A i \in DOMAIN k.slots : teams[k.slots[i]].members = k.parts[i]
      BY DEF FormedAsPlaced
    <2>0. PICK k : k = task[h]
      OBVIOUS
    <2>1. k \in Task /\ FilledOK(k) /\ k.pc = "reply"
      BY <2>0, HoldsNow
    <2>2. DOMAIN k.slots = 1..Len(k.slots)
      BY <2>1, LenProperties DEF Task
    <2>3. /\ TeamsOf(k.game) = {k.slots[i] : i \in DOMAIN k.slots}
          /\ \A i \in DOMAIN k.slots : teams[k.slots[i]].members = k.parts[i]
      BY <2>1, <2>2 DEF FilledOK, Listed, AllFilled
    <2> QED BY <2>0, <2>3
  <1> QED BY <1>1, SerialHolds, PTL

\* OneTeamEach: whichever step of a request fails, no player is in two teams of a
\* game, unless a host has filled teams by hand or moved one.
THEOREM NobodyInTwoTeams == ASSUME OneAtATime PROVE Spec => []OneTeamEach
  <1>1. SInv => OneTeamEach
    <2> SUFFICES ASSUME SInv, ~byHand, NEW p \in Players, NEW g \in Games
                 PROVE  Cardinality(In(p, g)) <= 1
      BY DEF OneTeamEach
    <2>1. \A t, u \in In(p, g) : t = u
      BY DEF SInv, Apart, In, TeamsOf
    <2>2. CASE In(p, g) = {}
      BY <2>2, FS_EmptySet
    <2>3. ASSUME NEW t \in In(p, g) PROVE Cardinality(In(p, g)) <= 1
      <3>1. In(p, g) = {t}
        BY <2>1, <2>3
      <3>2. Cardinality({t}) = 1
        BY FS_Singleton
      <3> QED BY <3>1, <3>2
    <2> QED BY <2>2, <2>3
  <1> QED BY <1>1, SerialHolds, PTL

-----------------------------------------------------------------------------
(* Who may be dropped from the teams of a game.                              *)

Dropped(p, g) == In(p, g) # {} /\ In(p, g)' = {}
MayDrop(h, p) ==
    /\ task[h] # task'[h]
    /\ task[h].op # "swap"
    /\ task[h].pc = "leave" => task'[h].pc = "add" /\ task'[h].who = p

\* Every member of a team finds one of the same game that has him.
LEMMA NoneDropped ==
    ASSUME \A t \in Teams : \A p \in Players :
                Exists(t) /\ p \in teams[t].members =>
                    \E u \in Teams : /\ Exists(u)' /\ teams'[u].game = teams[t].game
                                     /\ p \in teams'[u].members
    PROVE  \A p \in Players, g \in Games : ~Dropped(p, g)
  BY DEF Dropped, In, TeamsOf

LEMMA QuietDrop ==
    ASSUME UNCHANGED teams
    PROVE  \A p \in Players, g \in Games : ~Dropped(p, g)
  BY DEF Dropped, In, TeamsOf, Exists

LEMMA BulkDrops ==
    ASSUME SInv, NEW h \in Handlers, BulkStep(h), NEW p \in Players, NEW g \in Games,
           Dropped(p, g)
    PROVE  MayDrop(h, p)
  <1>0. PICK k : k = task[h]
    OBVIOUS
  <1>00. PICK k2 : k2 = task'[h]
    OBVIOUS
  <1>1. k \in Task /\ Fits(k) /\ task \in [Handlers -> Task]
    BY <1>0, HoldsNow
  <1>2. teams' # teams
    BY QuietDrop
  <1>3. RemoveExisting(h) \/ InsertTeams(h) \/ EmptySlot(h) \/ SavePart(h)
    BY <1>2 DEF BulkStep, ClearTeams, CreateTeams, Redistribute, FindPlayers, FindExisting,
                Place, Reply, Refused
  <1>4. k.pc \in {"remove", "insert", "empty", "place"}
    BY <1>0, <1>3 DEF RemoveExisting, InsertTeams, EmptySlot, SavePart, At
  <1>5. k.op # "swap" /\ k.pc # "leave"
    BY <1>1, <1>4 DEF Fits
  <1>6. k2 # k
    <2>1. CASE RemoveExisting(h)
      <3>1. k2.pc = "insert" \/ k2 = NoTask
        BY <1>0, <1>00, <1>1, <2>1 DEF RemoveExisting, Done, Task
      <3> QED BY <1>0, <2>1, <3>1 DEF RemoveExisting, At, NoTask
    <2>2. CASE InsertTeams(h)
      <3>1. k2.pc = "place"
        BY <1>0, <1>00, <1>1, <2>2 DEF InsertTeams, Task
      <3> QED BY <1>0, <2>2, <3>1 DEF InsertTeams, At
    <2>3. CASE EmptySlot(h)
      <3>1. k.pc = "empty" /\ (k2.pc = "place" \/ k2.next = k.next + 1)
        BY <1>0, <1>00, <1>1, <2>3 DEF EmptySlot, At, Task
      <3>2. k.next \in Nat
        BY <1>1 DEF Task
      <3> QED BY <3>1, <3>2
    <2>4. CASE SavePart(h)
      <3>1. k.pc = "place" /\ (k2.pc = "reply" \/ k2.next = k.next + 1)
        BY <1>0, <1>00, <1>1, <2>4 DEF SavePart, At, Task
      <3>2. k.next \in Nat
        BY <1>1 DEF Task
      <3> QED BY <3>1, <3>2
    <2> QED BY <1>3, <2>1, <2>2, <2>3, <2>4
  <1> QED BY <1>0, <1>00, <1>5, <1>6 DEF MayDrop

LEMMA SwapDropsNobody ==
    ASSUME SInv, NEW h \in Handlers, SaveBoth(h), task[h].op = "swap"
    PROVE  \A p \in Players, g \in Games : ~Dropped(p, g)
  <1>0. PICK k : k = task[h]
    OBVIOUS
  <1>1. k.pc = "both" /\ k.op = "swap" /\ HeldOK(k)
    BY <1>0, HoldsNow DEF SaveBoth, At
  <1>2. PICK from \in Teams, to \in Teams :
            Movable(k.who, from, to) /\ k.rows = Moved(k.who, from, to)
    BY <1>1 DEF HeldOK
  <1>3. PICK q \in Players : q = k.who
    <2>1. k.who \in teams[from].members /\ Exists(from)
      BY <1>2 DEF Movable
    <2>2. teams[from].members \in SUBSET Players
      BY <2>1, WithDoes
    <2> QED BY <2>1, <2>2
  <1>4. Movable(q, from, to) /\ teams' = Saved(Moved(q, from, to))
    BY <1>0, <1>2, <1>3 DEF SaveBoth
  <1>5. \A t \in Teams :
          /\ Exists(t)' <=> Exists(t)
          /\ Exists(t) => teams'[t].game = teams[t].game
          /\ t \notin {from, to} => teams'[t] = teams[t]
          /\ t = to => teams'[t].members = teams[t].members \cup {q}
          /\ t = from /\ from # to => teams'[t].members = teams[t].members \ {q}
    BY <1>4, MovedSaved
  <1>6. ASSUME NEW t \in Teams, NEW p \in Players, Exists(t), p \in teams[t].members
        PROVE  \E u \in Teams : /\ Exists(u)' /\ teams'[u].game = teams[t].game
                                /\ p \in teams'[u].members
    <2>1. CASE t = from /\ p = q
      <3>1. Exists(to) /\ teams[from].game = teams[to].game
        BY <1>4 DEF Movable
      <3> QED BY <1>5, <2>1, <3>1
    <2>2. CASE ~(t = from /\ p = q)
      BY <1>5, <1>6, <2>2
    <2> QED BY <2>1, <2>2
  <1> QED BY <1>6, NoneDropped

LEMMA LeaveDrops ==
    ASSUME SInv, NEW h \in Handlers, NEW t \in Teams, LeaveTeam(h, t),
           NEW p \in Players, NEW g \in Games, Dropped(p, g)
    PROVE  MayDrop(h, p)
  <1>1. PICK q \in Players, to \in Teams :
            /\ q = task[h].who /\ t # to /\ Movable(q, t, to)
            /\ task[h].rows = Moved(q, t, to)
            /\ teams'[t].members = teams[t].members \ {q}
            /\ teams'[t].game = teams[t].game /\ Exists(t)'
            /\ \A u \in Teams : u # t => teams'[u] = teams[u]
    BY LeaveTeamDoes
  <1>2. p = q
    <2> SUFFICES ASSUME p # q PROVE FALSE
      OBVIOUS
    <2>1. PICK u \in Teams : Exists(u) /\ teams[u].game = g /\ p \in teams[u].members
      BY DEF Dropped, In, TeamsOf
    <2>2. Exists(u)' /\ teams'[u].game = g /\ p \in teams'[u].members
      BY <1>1, <2>1 DEF Exists
    <2> QED BY <2>2 DEF Dropped, In, TeamsOf
  <1>3. task \in [Handlers -> Task] /\ task[h].pc = "leave" /\ Fits(task[h])
    BY HoldsNow DEF LeaveTeam, At
  <1>4. task'[h].pc = "add" /\ task'[h].who = task[h].who
    BY <1>3 DEF LeaveTeam, Task
  <1> QED BY <1>1, <1>2, <1>3, <1>4 DEF MayDrop, Fits

LEMMA SingleDrops ==
    ASSUME SInv, NEW h \in Handlers, SingleStep(h), NEW p \in Players, NEW g \in Games,
           Dropped(p, g)
    PROVE  MayDrop(h, p)
  <1>1. task \in [Handlers -> Task] /\ Fits(task[h]) /\ task[h] \in Task
    BY HoldsNow
  <1>2. teams' # teams
    BY QuietDrop
  <1>3. \/ \E gg \in Games : AddTeam(h, gg)
        \/ \E t \in Teams : SaveOne(h, t) \/ LeaveTeam(h, t)
        \/ SaveBoth(h) \/ LeaveSame(h) \/ JoinTeam(h)
    BY <1>2 DEF SingleStep, ManualAssign, SwapPlayer, DissolveTeam, ReassignPlayer, UpdateTeam, Hold
  <1>4. ASSUME NEW gg \in Games, AddTeam(h, gg) PROVE MayDrop(h, p)
    <2>1. PICK t \in Unused : teams' = [teams EXCEPT ![t] = [game |-> gg, members |-> {}]]
      BY <1>4 DEF AddTeam
    <2>2. t \in Teams /\ ~Exists(t) /\ teams \in [Teams -> TeamRow \cup {None}]
      BY <2>1 DEF Unused, SInv, IInv, TableOK
    <2>3. \A u \in Teams : Exists(u) => teams'[u] = teams[u] /\ Exists(u)'
      BY <2>1, <2>2 DEF Exists
    <2>4. ~Dropped(p, g)
      BY <2>3, NoneDropped
    <2> QED BY <2>4
  <1>5. ASSUME NEW t \in Teams, SaveOne(h, t) PROVE MayDrop(h, p)
    <2>1. task[h].pc = "one" /\ t \in DOMAIN task[h].rows
      BY <1>5 DEF SaveOne, At
    <2>2. CASE DOMAIN task[h].rows \ {t} = {}
      <3>1. task'[h] = NoTask
        BY <1>1, <1>5, <2>2 DEF SaveOne, Done
      <3> QED BY <1>1, <2>1, <3>1 DEF MayDrop, NoTask, Fits
    <2>3. CASE DOMAIN task[h].rows \ {t} # {}
      <3>1. task'[h].rows = [u \in DOMAIN task[h].rows \ {t} |-> task[h].rows[u]]
        BY <1>1, <1>5, <2>3 DEF SaveOne, Task
      <3>2. t \notin DOMAIN task'[h].rows
        BY <3>1
      <3> QED BY <1>1, <2>1, <3>2 DEF MayDrop, Fits
    <2> QED BY <2>2, <2>3
  <1>6. ASSUME NEW t \in Teams, LeaveTeam(h, t) PROVE MayDrop(h, p)
    BY <1>6, LeaveDrops
  <1>7. CASE SaveBoth(h)
    <2>1. task[h].pc = "both" /\ task'[h] = NoTask
      BY <1>1, <1>7 DEF SaveBoth, At, Done
    <2>2. task[h].op # "swap"
      BY <1>7, SwapDropsNobody
    <2> QED BY <2>1, <2>2 DEF MayDrop, NoTask
  <1>8. CASE LeaveSame(h) \/ JoinTeam(h)
    <2>1. task[h].pc \in {"again", "add"} /\ task'[h] = NoTask
      BY <1>1, <1>8 DEF LeaveSame, JoinTeam, At, Done
    <2> QED BY <1>1, <2>1 DEF MayDrop, NoTask, Fits
  <1> QED BY <1>3, <1>4, <1>5, <1>6, <1>7, <1>8

LEMMA StepDrops == ASSUME SInv, [Next]_vars, NEW p \in Players, NEW g \in Games, Dropped(p, g)
                   PROVE  \E h \in Handlers : MayDrop(h, p)
  <1>1. teams' # teams
    BY QuietDrop
  <1>2. PICK h \in Handlers : BulkStep(h) \/ SingleStep(h) \/ Fail(h)
    BY <1>1 DEF Next, vars
  <1>3. ~Fail(h)
    BY <1>1 DEF Fail, Refused
  <1> QED BY <1>2, <1>3, BulkDrops, SingleDrops

\* NobodyDropped: a step never takes a player out of the teams of a game in a swap, and
\* in a reassignment only until the handler goes on to add that player.
THEOREM SwapsLoseNobody == ASSUME OneAtATime PROVE Spec => NobodyDropped
  <1>1. SInv /\ [Next]_vars => \A p \in Players, g \in Games :
            In(p, g) # {} /\ In(p, g)' = {} =>
                \E h \in Handlers :
                    /\ task[h] # task'[h]
                    /\ task[h].op # "swap"
                    /\ task[h].pc = "leave" => task'[h].pc = "add" /\ task'[h].who = p
    BY StepDrops DEF Dropped, MayDrop
  <1> QED BY <1>1, SerialHolds, PTL DEF Spec, NobodyDropped
=============================================================================
