--------------------------- MODULE ScheduleProofs ---------------------------
(***************************************************************************)
(* Proofs about JobList, Schedule and Openings, for every number of        *)
(* engines, rounds, games and workers and every openings file: who meets   *)
(* whom, with which colours, and from which line of the file.              *)
(*                                                                         *)
(* The job list is made of nested loops.  UniformFlatten says where such a *)
(* loop puts its elements when all its turns are equally long, and         *)
(* JobSeqIs uses it for the rounds and for the pairs of a round.           *)
(*                                                                         *)
(* The last section is about the openings file.  The invariant OInv is     *)
(* inductive: a game gets the line of its own place because the position   *)
(* of the file is that of the worker that holds the mutex, and lines do    *)
(* not repeat because the shuffle keeps vecIndex injective and is over     *)
(* when the first worker starts.                                           *)
(***************************************************************************)
EXTENDS Schedule, Openings, FiniteSetTheorems, SequenceTheorems, WellFoundedInduction, TLAPS

-----------------------------------------------------------------------------
(* Numbers.                                                                *)

\* A non-empty set of naturals has a least element: induction by the least
\* counterexample.
LEMMA LeastNatural ==
    ASSUME NEW T \in SUBSET Nat, T # {}
    PROVE  \E m \in T : \A k \in T : m <= k
  <1>1. PICK m \in T : \A k \in T : ~(<<k, m>> \in OpToRel(<, Nat))
    BY WFMin, NatLessThanWellFounded, Zenon
  <1>2. ASSUME NEW k \in T, k < m PROVE FALSE
    <2>1. <<k, m>> \in Nat \X Nat
      BY Zenon
    <2>2. <<k, m>> \in OpToRel(<, Nat)
      BY <1>2, <2>1, Zenon DEF OpToRel
    <2> QED
      BY <1>1, <2>2, Zenon
  <1>3. \A k \in T : ~(k < m)
    BY ONLY <1>2, Zenon
  <1> QED
    BY <1>3

\* Rows of equal length: a later row begins behind an earlier one.
LEMMA RowsInOrder ==
    ASSUME NEW c \in Nat, NEW x \in Nat, NEW y \in Nat, x < y
    PROVE  x * c + c <= y * c /\ x * c \in Nat /\ y * c \in Nat
  <1>1. PICK z \in Nat : y = x + 1 + z
    <2>1. y - x - 1 \in Nat /\ y = x + 1 + (y - x - 1)
      OBVIOUS
    <2> QED
      BY <2>1
  <1>2. (x + 1 + z) * c = x * c + c + z * c /\ z * c \in Nat /\ x * c \in Nat
    OBVIOUS
  <1> QED
    BY <1>1, <1>2

\* The row and the column of a place, counted from 1.
Row(n, c) == (n - 1) \div c + 1
Column(n, c) == ((n - 1) % c) + 1

LEMMA PlaceIs ==
    ASSUME NEW m \in Nat, NEW c \in Nat \ {0}, NEW n \in 1..(m * c)
    PROVE  /\ Row(n, c) \in 1..m /\ Column(n, c) \in 1..c
           /\ n = (Row(n, c) - 1) * c + Column(n, c)
  <1> DEFINE q == (n - 1) \div c
             r == (n - 1) % c
  <1>1. n \in Nat /\ n - 1 \in Nat /\ n <= m * c
    OBVIOUS
  <1>2. q \in Nat /\ r \in 0..(c - 1) /\ n - 1 = q * c + r
    BY <1>1
  <1> HIDE DEF q, r
  <1>3. q < m
    <2>1. CASE m < q
      <3>1. m * c + c <= q * c
        BY <1>2, <2>1, RowsInOrder
      <3>2. m * c \in Nat /\ q * c \in Nat
        BY <1>2
      <3> QED
        BY <1>1, <1>2, <3>1, <3>2
    <2>2. CASE m = q
      <3>1. m * c \in Nat
        OBVIOUS
      <3> QED
        BY <1>1, <1>2, <2>2, <3>1
    <2> QED
      BY <1>2, <2>1, <2>2
  <1>4. n = q * c + (r + 1)
    <2>1. q * c \in Nat
      BY <1>2
    <2> QED
      BY <1>1, <1>2, <2>1
  <1>5. Row(n, c) = q + 1 /\ Column(n, c) = r + 1
    BY DEF Row, Column, q, r
  <1>6. q + 1 \in 1..m /\ r + 1 \in 1..c /\ (q + 1) - 1 = q
    BY <1>2, <1>3
  <1> QED
    BY ONLY <1>4, <1>5, <1>6

LEMMA PlaceUnique ==
    ASSUME NEW c \in Nat, NEW x \in Nat, NEW u \in 1..c, NEW y \in Nat, NEW v \in 1..c,
           x * c + u = y * c + v
    PROVE  x = y /\ u = v
  <1>1. ASSUME x < y PROVE FALSE
    BY <1>1, RowsInOrder
  <1>2. ASSUME y < x PROVE FALSE
    BY <1>2, RowsInOrder
  <1>3. x = y
    BY <1>1, <1>2
  <1>4. x * c \in Nat
    OBVIOUS
  <1> QED
    BY <1>3, <1>4

LEMMA Quotient ==
    ASSUME NEW n \in Nat, NEW c \in Nat \ {0}
    PROVE  n \div c \in Nat /\ n % c \in Nat /\ n = (n \div c) * c + (n % c)
  <1>1. n \div c \in Nat
    OBVIOUS
  <1>2. n % c \in 0..(c - 1)
    OBVIOUS
  <1>3. n = (n \div c) * c + (n % c)
    OBVIOUS
  <1> QED
    BY <1>1, <1>2, <1>3

\* A multiple leaves no rest.
LEMMA Multiple ==
    ASSUME NEW x \in Nat, NEW c \in Nat \ {0}
    PROVE  (x * c) % c = 0
  <1>1. PICK y \in Nat : y = x * c
    OBVIOUS
  <1>2. PICK q \in Nat, r \in 0..(c - 1) : r = y % c /\ y = q * c + r
    <2>1. y \div c \in Nat /\ y % c \in Nat /\ y = (y \div c) * c + (y % c)
      BY Quotient
    <2>2. y % c \in 0..(c - 1)
      BY <2>1
    <2> QED
      BY <2>1, <2>2
  <1>3. q * c + (r + 1) = x * c + 1
    <2>1. q * c \in Nat
      OBVIOUS
    <2> QED
      BY <1>1, <1>2, <2>1
  <1>4. c \in Nat /\ r + 1 \in 1..c /\ 1 \in 1..c
    OBVIOUS
  <1>5. q = x /\ r + 1 = 1
    BY ONLY <1>3, <1>4, q \in Nat, x \in Nat, PlaceUnique
  <1> QED
    BY <1>1, <1>2, <1>5

LEMMA PlaceInRange ==
    ASSUME NEW m \in Nat, NEW c \in Nat, NEW d \in 1..m, NEW k \in 1..c
    PROVE  (d - 1) * c + k \in 1..(m * c)
  <1>1. (d - 1) * c + c <= m * c /\ (d - 1) * c \in Nat /\ m * c \in Nat
    BY RowsInOrder
  <1> QED
    BY <1>1

-----------------------------------------------------------------------------
(* What the nested loops of job_queue_init put together.                   *)

LEMMA FunctionIsSeq ==
    ASSUME NEW S, NEW n \in Nat, NEW f \in [1..n -> S]
    PROVE  f \in Seq(S) /\ Len(f) = n
  OBVIOUS

\* f joins the first sequences of s, up to each one.
Joins(f, s, n) ==
    f = [d \in 1..n |-> IF d = 1 THEN s[d] ELSE f[d - 1] \o s[d]]

LEMMA JoinExists ==
    ASSUME NEW s, NEW n \in Nat
    PROVE  \E f : Joins(f, s, n)
  <1> DEFINE Bad == {m \in Nat : ~\E f : Joins(f, s, m)}
  <1>1. SUFFICES ASSUME Bad # {} PROVE FALSE
    OBVIOUS
  <1>2. PICK m \in Bad : \A k \in Bad : m <= k
    BY <1>1, LeastNatural
  <1>3. m # 0
    <2>1. Joins([d \in 1..0 |-> 0], s, 0)
      BY DEF Joins
    <2> QED
      BY <1>2, <2>1
  <1>4. PICK g : Joins(g, s, m - 1)
    BY <1>2, <1>3
  <1> DEFINE f == [d \in 1..m |-> IF d = m
                                  THEN IF m = 1 THEN s[1] ELSE g[m - 1] \o s[m]
                                  ELSE g[d]]
  <1>5. Joins(f, s, m)
    <2>1. g = [d \in 1..(m - 1) |-> IF d = 1 THEN s[d] ELSE g[d - 1] \o s[d]]
      BY <1>4 DEF Joins
    <2>2. ASSUME NEW d \in 1..m
          PROVE  f[d] = IF d = 1 THEN s[d] ELSE f[d - 1] \o s[d]
      <3>1. CASE d = m
        BY <1>3, <3>1
      <3>2. CASE d # m
        <4>1. d \in 1..(m - 1) /\ f[d] = g[d] /\ (d # 1 => d - 1 \in 1..m /\ d - 1 # m)
          BY <3>2
        <4>2. d # 1 => f[d - 1] = g[d - 1]
          BY <4>1
        <4> QED
          BY <2>1, <4>1, <4>2
      <3> QED
        BY <3>1, <3>2
    <2> HIDE DEF f
    <2>3. f = [d \in 1..m |-> f[d]]
      BY DEF f
    <2> QED
      BY <2>2, <2>3 DEF Joins
  <1> QED
    BY <1>2, <1>5

LEMMA FlattenIs ==
    ASSUME NEW S, NEW s \in Seq(Seq(S)), Len(s) # 0
    PROVE  \E f : Joins(f, s, Len(s)) /\ FlattenSeq(s) = f[Len(s)]
  <1>1. \E f : Joins(f, s, Len(s))
    <2>1. Len(s) \in Nat
      BY LenProperties
    <2> QED
      BY <2>1, JoinExists
  <1> DEFINE f == CHOOSE f : Joins(f, s, Len(s))
  <1>2. Joins(f, s, Len(s))
    BY <1>1
  <1>3. FlattenSeq(s) = f[Len(s)]
    BY DEF FlattenSeq, Joins
  <1> QED
    BY <1>2, <1>3

\* A loop whose turns are equally long, L each; and t, the n first turns of it, one
\* behind the other.
AllLong(s, L) == \A d \in 1..Len(s) : Len(s[d]) = L

InRows(t, S, s, L, n) ==
    /\ t \in Seq(S) /\ Len(t) = n * L
    /\ \A d \in 1..n, k \in 1..L : t[(d - 1) * L + k] = s[d][k]

LEMMA UniformJoin ==
    ASSUME NEW S, NEW s \in Seq(Seq(S)), NEW f, Joins(f, s, Len(s)),
           NEW L \in Nat, AllLong(s, L), NEW n \in 1..Len(s)
    PROVE  InRows(f[n], S, s, L, n)
  <1>a. \A d \in 1..Len(s) : Len(s[d]) = L
    BY DEF AllLong
  <1> DEFINE Good(m) ==
        /\ f[m] \in Seq(S) /\ Len(f[m]) = m * L
        /\ \A d \in 1..m, k \in 1..L : f[m][(d - 1) * L + k] = s[d][k]
  <1> DEFINE Bad == {m \in 1..Len(s) : ~Good(m)}
  <1>1. SUFFICES ASSUME Bad # {} PROVE FALSE
    <2>1. Bad = {} => Good(n)
      OBVIOUS
    <2> QED
      BY <2>1 DEF InRows
  <1>2. PICK m \in Bad : \A k \in Bad : m <= k
    <2>1. Bad \in SUBSET Nat
      OBVIOUS
    <2> HIDE DEF Bad
    <2> QED
      BY <1>1, <2>1, LeastNatural
  <1>3. /\ m \in 1..Len(s) /\ m \in Nat /\ Len(s) \in Nat
        /\ s[m] \in Seq(S) /\ Len(s[m]) = L
    BY <1>a, <1>2, LenProperties
  <1>j. f[m] = IF m = 1 THEN s[m] ELSE f[m - 1] \o s[m]
    <2>1. \A d \in 1..Len(s) : f[d] = IF d = 1 THEN s[d] ELSE f[d - 1] \o s[d]
      BY Zenon DEF Joins
    <2> QED
      BY ONLY <2>1, <1>3
  <1>4. CASE m = 1
    <2>1. f[1] = s[1]
      BY <1>4, <1>j
    <2>2. Len(f[1]) = 1 * L /\ f[1] \in Seq(S)
      BY <1>3, <1>4, <2>1
    <2>3. ASSUME NEW d \in 1..1, NEW k \in 1..L PROVE f[1][(d - 1) * L + k] = s[d][k]
      <3>1. d = 1 /\ (d - 1) * L + k = k
        OBVIOUS
      <3> QED
        BY <2>1, <3>1
    <2>4. Good(1)
      BY <2>2, <2>3
    <2> HIDE DEF Good
    <2> QED
      BY <1>2, <1>4, <2>4
  <1>5. CASE m # 1
    <2>1. f[m] = f[m - 1] \o s[m] /\ m - 1 \in 1..Len(s)
      <3>1. m - 1 \in 1..Len(s)
        BY <1>3, <1>5
      <3> QED
        BY ONLY <1>5, <1>j, <3>1, Zenon
    <2>2. Good(m - 1)
      <3>1. m - 1 \notin Bad
        <4>1. ~(m <= m - 1)
          BY <1>3
        <4> QED
          BY ONLY <1>2, <4>1, Zenon
      <3> HIDE DEF Good
      <3> QED
        BY <2>1, <3>1
    <2> DEFINE g == f[m - 1]
    <2>3. g \in Seq(S) /\ Len(g) = (m - 1) * L
      BY <2>2
    <2>4. \A d \in 1..(m - 1), k \in 1..L : g[(d - 1) * L + k] = s[d][k]
      BY <2>2
    <2> HIDE DEF g
    <2>5. (m - 1) * L \in Nat /\ m * L = (m - 1) * L + L
      <3>1. m - 1 \in Nat /\ m = (m - 1) + 1
        BY ONLY <1>3, <2>1
      <3> QED
        BY ONLY <3>1, L \in Nat
    <2>6. /\ g \o s[m] \in Seq(S) /\ Len(g \o s[m]) = Len(g) + L
          /\ \A j \in 1..(Len(g) + L) :
                (g \o s[m])[j] = IF j <= Len(g) THEN g[j] ELSE s[m][j - Len(g)]
      <3>1. /\ g \o s[m] \in Seq(S) /\ Len(g \o s[m]) = Len(g) + Len(s[m])
            /\ \A j \in 1..(Len(g) + Len(s[m])) :
                  (g \o s[m])[j] = IF j <= Len(g) THEN g[j] ELSE s[m][j - Len(g)]
        BY ONLY <1>3, <2>3, ConcatProperties, Zenon
      <3> QED
        BY ONLY <1>3, <3>1, Zenon
    <2>7. ASSUME NEW d \in 1..m, NEW k \in 1..L
          PROVE  (g \o s[m])[(d - 1) * L + k] = s[d][k]
      <3>1. CASE d = m
        <4>1. PICK x \in Nat : x = (d - 1) * L /\ x = Len(g)
          BY <2>3, <2>5, <3>1
        <4>2. x + k \in 1..(x + L) /\ ~(x + k <= x) /\ x + k - x = k
          OBVIOUS
        <4>3. (g \o s[m])[x + k] = s[m][k]
          <5>1. PICK y : y = x + k
            OBVIOUS
          <5>2. y \in 1..(Len(g) + L) /\ ~(y <= Len(g)) /\ y - Len(g) = k
            BY <4>1, <4>2, <5>1
          <5>3. (g \o s[m])[y] = s[m][y - Len(g)]
            BY ONLY <2>6, <5>2
          <5> QED
            BY ONLY <5>1, <5>2, <5>3, Zenon
        <4> QED
          BY <3>1, <4>1, <4>3
      <3>2. CASE d # m
        <4>1. d \in 1..(m - 1) /\ m - 1 \in Nat
          BY <1>3, <3>2
        <4>2. (d - 1) * L + k \in 1..((m - 1) * L)
          BY <4>1, PlaceInRange
        <4>3. (d - 1) * L + k \in 1..(Len(g) + L) /\ (d - 1) * L + k <= Len(g)
          BY <2>3, <2>5, <4>2
        <4> QED
          BY <2>4, <2>6, <4>1, <4>3
      <3> QED
        BY <3>1, <3>2
    <2>8. f[m] = g \o s[m]
      BY <2>1 DEF g
    <2>9. Len(f[m]) = m * L
      BY <2>3, <2>5, <2>6, <2>8
    <2>10. Good(m)
      BY <2>6, <2>7, <2>8, <2>9
    <2> HIDE DEF Good
    <2> QED
      BY <1>2, <2>10
  <1> QED
    BY <1>4, <1>5

LEMMA UniformFlatten ==
    ASSUME NEW S, NEW s \in Seq(Seq(S)), NEW n \in Nat \ {0}, Len(s) = n,
           NEW L \in Nat, AllLong(s, L)
    PROVE  InRows(FlattenSeq(s), S, s, L, n)
  <1>1. PICK f : Joins(f, s, n) /\ FlattenSeq(s) = f[n]
    BY FlattenIs
  <1>2. n \in 1..Len(s)
    OBVIOUS
  <1> QED
    <2>1. InRows(f[n], S, s, L, n)
      BY ONLY <1>1, <1>2, s \in Seq(Seq(S)), Len(s) = n, L \in Nat, AllLong(s, L),
              UniformJoin, Zenon
    <2> QED
      BY ONLY <1>1, <2>1, Zenon

-----------------------------------------------------------------------------
(* The pairs.                                                              *)

Pair == Nat \X Nat

\* The pairs that meet, for any options.
Meet(engines, gauntlet) ==
    {e \in (0..(engines - 1)) \X (0..(engines - 1)) :
        e[1] < e[2] /\ (gauntlet => e[1] = 0)}

\* s lists the set T: each element once.
Lists(s, T) ==
    /\ s \in Seq(Pair)
    /\ \A x \in Pair : x \in T <=> \E d \in 1..Len(s) : s[d] = x
    /\ \A d, j \in 1..Len(s) : s[d] = s[j] => d = j

LEMMA ListsJoin ==
    ASSUME NEW T \in SUBSET Pair, NEW U \in SUBSET Pair, NEW V \in SUBSET Pair,
           NEW s, NEW t, Lists(s, T), Lists(t, U), V = T \cup U, T \cap U = {}
    PROVE  Lists(s \o t, V)
  <1>1. s \in Seq(Pair) /\ t \in Seq(Pair) /\ Len(s) \in Nat /\ Len(t) \in Nat
    BY LenProperties DEF Lists
  <1>2. /\ s \o t \in Seq(Pair) /\ Len(s \o t) = Len(s) + Len(t)
        /\ \A d \in 1..(Len(s) + Len(t)) :
              (s \o t)[d] = IF d <= Len(s) THEN s[d] ELSE t[d - Len(s)]
    BY <1>1, ConcatProperties
  <1>3. \A d \in 1..Len(s) : (s \o t)[d] = s[d] /\ s[d] \in T
    BY <1>1, <1>2, ElementOfSeq DEF Lists
  <1>4. \A d \in 1..Len(t) : (s \o t)[Len(s) + d] = t[d] /\ t[d] \in U
    <2>1. ASSUME NEW d \in 1..Len(t) PROVE (s \o t)[Len(s) + d] = t[d]
      <3>1. PICK y : y = Len(s) + d
        OBVIOUS
      <3>2. y \in 1..(Len(s) + Len(t)) /\ ~(y <= Len(s)) /\ y - Len(s) = d
        BY <1>1, <3>1
      <3>3. (s \o t)[y] = t[y - Len(s)]
        BY ONLY <1>2, <3>2
      <3> QED
        BY ONLY <3>1, <3>2, <3>3, Zenon
    <2>2. \A d \in 1..Len(t) : t[d] \in U
      BY <1>1, ElementOfSeq DEF Lists
    <2> QED
      BY <2>1, <2>2
  <1>5. \A d \in 1..Len(s \o t) :
            d \in 1..Len(s) \/ \E j \in 1..Len(t) : d = Len(s) + j
    <2>1. ASSUME NEW d \in 1..Len(s \o t), d \notin 1..Len(s)
          PROVE  d - Len(s) \in 1..Len(t) /\ d = Len(s) + (d - Len(s))
      BY <1>1, <1>2, <2>1
    <2> QED
      BY <2>1
  <1>6. ASSUME NEW x \in Pair
        PROVE  x \in V <=> \E d \in 1..Len(s \o t) : (s \o t)[d] = x
    <2>1. ASSUME x \in T PROVE \E d \in 1..Len(s \o t) : (s \o t)[d] = x
      <3>1. PICK d \in 1..Len(s) : s[d] = x
        BY <2>1 DEF Lists
      <3>2. d \in 1..Len(s \o t)
        BY <1>1, <1>2
      <3> QED
        BY <1>3, <3>1, <3>2
    <2>2. ASSUME x \in U PROVE \E d \in 1..Len(s \o t) : (s \o t)[d] = x
      <3>1. PICK d \in 1..Len(t) : t[d] = x
        BY <2>2 DEF Lists
      <3>2. Len(s) + d \in 1..Len(s \o t)
        BY <1>1, <1>2
      <3> QED
        BY <1>4, <3>1, <3>2
    <2>3. ASSUME NEW d \in 1..Len(s \o t), (s \o t)[d] = x PROVE x \in V
      BY <1>3, <1>4, <1>5, <2>3
    <2> QED
      BY <2>1, <2>2, <2>3
  <1>7. ASSUME NEW d \in 1..Len(s \o t), NEW j \in 1..Len(s \o t), (s \o t)[d] = (s \o t)[j]
        PROVE  d = j
    <2>1. CASE d \in 1..Len(s) /\ j \in 1..Len(s)
      BY <1>3, <1>7, <2>1 DEF Lists
    <2>2. CASE d \notin 1..Len(s) /\ j \notin 1..Len(s)
      <3>1. PICK x \in 1..Len(t) : d = Len(s) + x
        BY <1>5, <2>2
      <3>2. PICK y \in 1..Len(t) : j = Len(s) + y
        BY <1>5, <2>2
      <3>3. t[x] = t[y]
        BY <1>4, <1>7, <3>1, <3>2
      <3> QED
        BY <3>1, <3>2, <3>3 DEF Lists
    <2>3. CASE d \in 1..Len(s) /\ j \notin 1..Len(s)
      BY <1>3, <1>4, <1>5, <1>7, <2>3
    <2>4. CASE d \notin 1..Len(s) /\ j \in 1..Len(s)
      BY <1>3, <1>4, <1>5, <1>7, <2>4
    <2> QED
      BY <2>1, <2>2, <2>3, <2>4
  <1> QED
    BY <1>2, <1>6, <1>7 DEF Lists

\* The pairs of the first engine are one loop, and so are those of a gauntlet.
RowOf(a, n) == [k \in 1..n |-> <<a, a + k>>]
RowPairs(a, n) == {x \in Pair : x[1] = a /\ a < x[2] /\ x[2] <= a + n}

LEMMA PairRow ==
    ASSUME NEW a \in Nat, NEW n \in Nat
    PROVE  Lists(RowOf(a, n), RowPairs(a, n)) /\ Len(RowOf(a, n)) = n
  <1>s. PICK s : s = RowOf(a, n) /\ s = [k \in 1..n |-> <<a, a + k>>]
    BY DEF RowOf
  <1>1. s \in [1..n -> Pair]
    BY <1>s DEF Pair
  <1>2. s \in Seq(Pair) /\ Len(s) = n
    BY <1>1, FunctionIsSeq
  <1>3. ASSUME NEW x \in Pair
        PROVE  x[1] = a /\ a < x[2] /\ x[2] <= a + n <=> \E d \in 1..Len(s) : s[d] = x
    <2>1. PICK y \in Nat, z \in Nat : x = <<y, z>>
      BY DEF Pair
    <2>2. ASSUME y = a, a < z, z <= a + n PROVE \E d \in 1..Len(s) : s[d] = x
      <3>1. z - a \in 1..n /\ a + (z - a) = z
        BY <2>2
      <3>2. s[z - a] = <<a, a + (z - a)>>
        BY <1>s, <3>1
      <3> QED
        BY <1>2, <2>1, <2>2, <3>1, <3>2
    <2>3. ASSUME NEW d \in 1..Len(s), s[d] = x PROVE y = a /\ a < z /\ z <= a + n
      <3>1. <<a, a + d>> = <<y, z>> /\ d \in 1..n
        BY <1>s, <1>2, <2>1, <2>3
      <3> QED
        BY <3>1
    <2> QED
      BY <2>1, <2>2, <2>3
  <1>4. ASSUME NEW d \in 1..Len(s), NEW j \in 1..Len(s), s[d] = s[j] PROVE d = j
    <2>1. <<a, a + d>> = <<a, a + j>>
      BY <1>s, <1>2, <1>4
    <2>2. a + d = a + j /\ d \in Nat /\ j \in Nat
      BY <1>2, <2>1
    <2> QED
      BY <2>2
  <1>5. RowPairs(a, n) \subseteq Pair
        /\ \A x \in Pair : x \in RowPairs(a, n) <=> \E d \in 1..Len(s) : s[d] = x
    BY <1>3 DEF RowPairs
  <1> QED
    <2>1. Lists(s, RowPairs(a, n))
      BY ONLY <1>2, <1>4, <1>5 DEF Lists
    <2> QED
      BY ONLY <1>s, <1>2, <2>1, Zenon

LEMMA GauntletListed ==
    ASSUME NEW engines \in Nat, engines >= 2
    PROVE  /\ Lists(GauntletPairs(engines), Meet(engines, TRUE))
           /\ Len(GauntletPairs(engines)) # 0
  <1> DEFINE s == GauntletPairs(engines)
  <1>1. s = RowOf(0, engines - 1)
    BY DEF GauntletPairs, RowOf
  <1> HIDE DEF s
  <1>2. Lists(s, RowPairs(0, engines - 1)) /\ Len(s) = engines - 1
    <2>1. engines - 1 \in Nat /\ 0 \in Nat
      OBVIOUS
    <2> QED
      BY ONLY <1>1, <2>1, PairRow, Zenon
  <1>3. RowPairs(0, engines - 1) = Meet(engines, TRUE)
    BY DEF Pair, Meet, RowPairs
  <1>4. Lists(s, Meet(engines, TRUE)) /\ Len(s) # 0
    <2>1. Lists(s, Meet(engines, TRUE))
      BY ONLY <1>2, <1>3, Zenon
    <2>2. engines - 1 # 0
      OBVIOUS
    <2> QED
      BY ONLY <1>2, <2>1, <2>2, Zenon
  <1> QED
    BY ONLY <1>4 DEF s

\* The pairs of the first m engines with those after them.
MeetUpTo(m, engines) ==
    {x \in Pair : x[1] < m /\ x[1] < x[2] /\ x[2] < engines}

LEMMA RoundRobinListed ==
    ASSUME NEW engines \in Nat, engines >= 2
    PROVE  /\ Lists(RoundRobinPairs(engines), Meet(engines, FALSE))
           /\ Len(RoundRobinPairs(engines)) # 0
  <1> DEFINE n == engines - 1
             row(a) == RowOf(a - 1, engines - a)
             s == [a \in 1..n |-> row(a)]
             RowSet(a) == {x \in Pair : x[1] = a - 1 /\ a - 1 < x[2] /\ x[2] < engines}
  <1>1. ASSUME NEW a \in 1..n PROVE Lists(row(a), RowSet(a)) /\ Len(row(a)) = engines - a
    <2>1. a - 1 \in Nat /\ engines - a \in Nat
      OBVIOUS
    <2>2. /\ Lists(row(a), RowPairs(a - 1, engines - a))
          /\ Len(row(a)) = engines - a
      BY ONLY <2>1, PairRow, Zenon
    <2>3. RowPairs(a - 1, engines - a) = RowSet(a)
      BY DEF Pair, RowPairs
    <2> QED
      BY ONLY <2>2, <2>3, Zenon
  <1>2. n \in Nat \ {0}
    OBVIOUS
  <1>3. s \in Seq(Seq(Pair)) /\ Len(s) = n
    <2>1. \A a \in 1..n : row(a) \in Seq(Pair)
      BY <1>1 DEF Lists
    <2> HIDE DEF n, row
    <2>2. s \in [1..n -> Seq(Pair)]
      BY <2>1
    <2> HIDE DEF s
    <2> QED
      BY <1>2, <2>2, FunctionIsSeq
  <1>4. \A a \in 1..n : s[a] = row(a)
    OBVIOUS
  <1>5. RoundRobinPairs(engines) = FlattenSeq(s)
    BY DEF RoundRobinPairs, RowOf
  <1> HIDE DEF n, row, s, RowSet
  <1>6. PICK f : Joins(f, s, n) /\ FlattenSeq(s) = f[n]
    <2>1. Len(s) # 0
      BY <1>2, <1>3
    <2> QED
      BY ONLY <1>3, <2>1, FlattenIs
  <1>7. \A m \in 1..n : f[m] = IF m = 1 THEN s[m] ELSE f[m - 1] \o s[m]
    BY <1>6, Zenon DEF Joins
  <1>8. \A m \in 1..n : Lists(f[m], MeetUpTo(m, engines))
    <2> DEFINE Bad == {m \in 1..n : ~Lists(f[m], MeetUpTo(m, engines))}
    <2>1. SUFFICES ASSUME Bad # {} PROVE FALSE
      OBVIOUS
    <2>2. PICK m \in Bad : \A k \in Bad : m <= k
      <3>1. Bad \in SUBSET Nat
        BY <1>2
      <3> HIDE DEF Bad
      <3> QED
        BY <2>1, <3>1, LeastNatural
    <2>3. m \in 1..n /\ m \in Nat
      BY <1>2, <2>2
    <2>4. Lists(s[m], RowSet(m))
      BY <1>1, <1>4, <2>3
    <2>5. CASE m = 1
      <3>1. RowSet(1) = MeetUpTo(1, engines)
        BY DEF RowSet, MeetUpTo, Pair
      <3>2. f[m] = s[m]
        BY <1>7, <2>3, <2>5
      <3> QED
        BY <2>2, <2>4, <2>5, <3>1, <3>2
    <2>6. CASE m # 1
      <3>1. m - 1 \in 1..n /\ m - 1 \notin Bad
        BY <1>2, <2>2, <2>3, <2>6
      <3>2. Lists(f[m - 1], MeetUpTo(m - 1, engines))
        BY <3>1
      <3>3. f[m] = f[m - 1] \o s[m]
        BY <1>7, <2>3, <2>6
      <3>4. /\ MeetUpTo(m, engines) = MeetUpTo(m - 1, engines) \cup RowSet(m)
            /\ MeetUpTo(m - 1, engines) \cap RowSet(m) = {}
        BY <2>3 DEF MeetUpTo, RowSet, Pair
      <3>5. /\ MeetUpTo(m, engines) \in SUBSET Pair /\ RowSet(m) \in SUBSET Pair
            /\ MeetUpTo(m - 1, engines) \in SUBSET Pair
        BY DEF MeetUpTo, RowSet
      <3>6. Lists(f[m - 1] \o s[m], MeetUpTo(m, engines))
        BY ONLY <2>4, <3>2, <3>4, <3>5, ListsJoin
      <3> QED
        BY <2>2, <3>3, <3>6
    <2> QED
      BY <2>5, <2>6
  <1>9. MeetUpTo(n, engines) = Meet(engines, FALSE)
    BY DEF n, MeetUpTo, Meet, Pair
  <1>10. Lists(f[n], Meet(engines, FALSE))
    <2>1. n \in 1..n
      BY <1>2
    <2> QED
      BY ONLY <1>8, <1>9, <2>1
  <1>11. Len(f[n]) # 0
    <2>1. <<0, 1>> \in Meet(engines, FALSE) /\ <<0, 1>> \in Pair
      BY DEF Meet, Pair
    <2>2. PICK d \in 1..Len(f[n]) : TRUE
      BY <1>10, <2>1 DEF Lists
    <2> QED
      BY <2>2
  <1> QED
    BY <1>5, <1>6, <1>10, <1>11

\* vecResults has one slot for each pair that meets.
LEMMA SlotsListed ==
    ASSUME NEW engines \in Nat, engines >= 2, NEW gauntlet \in BOOLEAN
    PROVE  /\ Lists(PairSlots(engines, gauntlet), Meet(engines, gauntlet))
           /\ PairSlots(engines, gauntlet) \in Seq(Pair)
           /\ Len(PairSlots(engines, gauntlet)) \in Nat \ {0}
  <1>1. /\ Lists(PairSlots(engines, gauntlet), Meet(engines, gauntlet))
        /\ Len(PairSlots(engines, gauntlet)) # 0
    <2>1. CASE gauntlet
      BY <2>1, GauntletListed DEF PairSlots
    <2>2. CASE ~gauntlet
      BY <2>2, RoundRobinListed DEF PairSlots
    <2> QED
      BY <2>1, <2>2
  <1> QED
    BY <1>1, LenProperties DEF Lists

-----------------------------------------------------------------------------
(* The jobs.                                                               *)

JobSet == [ei : Pair, pair : Nat, round : Nat, game : Nat, reverse : BOOLEAN]

\* The job of game g of an encounter, when so many games were added to the round
\* before; and the place of the job of round r, pair p and game g, all from 1, in a
\* list with so many pairs and so many games per encounter.
JobOf(e, added, round, pair, g) ==
    [ei |-> e, pair |-> pair, round |-> round, game |-> added + (g - 1),
     reverse |-> (g - 1) % 2 = 1]

PlaceOf(pairs, games, r, p, g) == (r - 1) * (pairs * games) + ((p - 1) * games + g)

LEMMA JobOfType ==
    ASSUME NEW e \in Pair, NEW added \in Nat, NEW round \in Nat, NEW pair \in Nat,
           NEW g \in Nat \ {0}
    PROVE  JobOf(e, added, round, pair, g) \in JobSet
  <1>1. added + (g - 1) \in Nat /\ ((g - 1) % 2 = 1) \in BOOLEAN
    OBVIOUS
  <1> QED
    BY <1>1 DEF JobOf, JobSet

\* What job_queue_init makes of the pairs in slots.
LaidOut(jobs, slots, rounds, games) ==
    /\ jobs \in Seq(JobSet) /\ Len(jobs) = rounds * (Len(slots) * games)
    /\ \A r \in 1..rounds, p \in 1..Len(slots), g \in 1..games :
          jobs[PlaceOf(Len(slots), games, r, p, g)]
             = JobOf(slots[p], (p - 1) * games, r - 1, p - 1, g)

LEMMA JobSeqIs ==
    ASSUME NEW engines \in Nat, engines >= 2, NEW gauntlet \in BOOLEAN,
           NEW rounds \in Nat \ {0}, NEW games \in Nat \ {0}
    PROVE  LaidOut(JobSeq(engines, rounds, games, gauntlet),
                   PairSlots(engines, gauntlet), rounds, games)
  <1>s. PICK slots : slots = PairSlots(engines, gauntlet)
    OBVIOUS
  <1>p. PICK pairs : pairs = Len(slots)
    OBVIOUS
  <1>q. PICK jobs : jobs = JobSeq(engines, rounds, games, gauntlet)
    OBVIOUS
  <1>1. slots \in Seq(Pair) /\ pairs \in Nat \ {0}
    BY <1>s, <1>p, SlotsListed
  <1> DEFINE Games(r, p) == PairGames(games, slots[p], p - 1, (p - 1) * games, r - 1)
             Turn(r) == [p \in 1..pairs |-> Games(r, p)]
             turns == [r \in 1..rounds |-> FlattenSeq(Turn(r))]
  <1>2. ASSUME NEW r \in 1..rounds, NEW p \in 1..pairs
        PROVE  /\ Games(r, p) \in Seq(JobSet) /\ Len(Games(r, p)) = games
               /\ \A g \in 1..games :
                     Games(r, p)[g] = JobOf(slots[p], (p - 1) * games, r - 1, p - 1, g)
    <2>1. PICK added \in Nat, pair \in Nat, round \in Nat :
            added = (p - 1) * games /\ pair = p - 1 /\ round = r - 1
      OBVIOUS
    <2>2. PICK e \in Pair : e = slots[p]
      BY <1>1, <1>p, ElementOfSeq
    <2>3. Games(r, p) = [g \in 1..games |-> JobOf(e, added, round, pair, g)]
      BY <2>1, <2>2 DEF PairGames, JobOf
    <2> HIDE DEF Games
    <2>4. \A g \in 1..games : JobOf(e, added, round, pair, g) \in JobSet
      BY JobOfType
    <2>5. Games(r, p) \in [1..games -> JobSet]
      BY ONLY <2>3, <2>4
    <2>6. Games(r, p) \in Seq(JobSet) /\ Len(Games(r, p)) = games
      BY ONLY <2>5, games \in Nat, FunctionIsSeq
    <2>7. \A g \in 1..games : Games(r, p)[g] = JobOf(e, added, round, pair, g)
      BY ONLY <2>3
    <2> QED
      BY ONLY <2>1, <2>2, <2>6, <2>7, Zenon
  <1>3. jobs = FlattenSeq(turns)
    BY <1>s, <1>p, <1>q DEF JobSeq
  <1> HIDE DEF Games
  <1>4. ASSUME NEW r \in 1..rounds
        PROVE  /\ FlattenSeq(Turn(r)) \in Seq(JobSet)
               /\ Len(FlattenSeq(Turn(r))) = pairs * games
               /\ \A p \in 1..pairs, g \in 1..games :
                     FlattenSeq(Turn(r))[(p - 1) * games + g]
                        = JobOf(slots[p], (p - 1) * games, r - 1, p - 1, g)
    <2>1. Turn(r) \in [1..pairs -> Seq(JobSet)]
      BY <1>2
    <2>2. \A p \in 1..pairs : Turn(r)[p] = Games(r, p)
      OBVIOUS
    <2> HIDE DEF Turn
    <2>3. Turn(r) \in Seq(Seq(JobSet)) /\ Len(Turn(r)) = pairs
      BY ONLY <1>1, <2>1, FunctionIsSeq
    <2>4. \A p \in 1..pairs : Len(Turn(r)[p]) = games
      BY ONLY <1>2, <2>2, Zenon
    <2>5. /\ FlattenSeq(Turn(r)) \in Seq(JobSet)
          /\ Len(FlattenSeq(Turn(r))) = pairs * games
          /\ \A p \in 1..pairs, g \in 1..games :
                FlattenSeq(Turn(r))[(p - 1) * games + g] = Turn(r)[p][g]
      <3>1. AllLong(Turn(r), games) /\ games \in Nat
        BY ONLY <2>3, <2>4, games \in Nat \ {0} DEF AllLong
      <3>2. InRows(FlattenSeq(Turn(r)), JobSet, Turn(r), games, pairs)
        BY ONLY <1>1, <2>3, <3>1, UniformFlatten, Zenon
      <3> QED
        BY ONLY <3>2, Zenon DEF InRows
    <2>6. ASSUME NEW p \in 1..pairs, NEW g \in 1..games
          PROVE  FlattenSeq(Turn(r))[(p - 1) * games + g]
                    = JobOf(slots[p], (p - 1) * games, r - 1, p - 1, g)
      <3>1. FlattenSeq(Turn(r))[(p - 1) * games + g] = Turn(r)[p][g]
        BY ONLY <2>5, p \in 1..pairs, g \in 1..games, Zenon
      <3>2. Turn(r)[p][g] = Games(r, p)[g]
        BY ONLY <2>2, p \in 1..pairs, Zenon
      <3>3. Games(r, p)[g] = JobOf(slots[p], (p - 1) * games, r - 1, p - 1, g)
        BY ONLY <1>2, r \in 1..rounds, p \in 1..pairs, g \in 1..games, Zenon
      <3> QED
        BY ONLY <3>1, <3>2, <3>3, Zenon
    <2> QED
      BY ONLY <2>5, <2>6, Zenon
  <1> HIDE DEF Turn
  <1>5. turns \in [1..rounds -> Seq(JobSet)]
    BY <1>4
  <1>6. \A r \in 1..rounds : turns[r] = FlattenSeq(Turn(r))
    OBVIOUS
  <1> HIDE DEF turns
  <1>7. turns \in Seq(Seq(JobSet)) /\ Len(turns) = rounds
    BY ONLY <1>5, rounds \in Nat, FunctionIsSeq
  <1>8. PICK c : c = pairs * games
    OBVIOUS
  <1>9. c \in Nat /\ \A r \in 1..rounds : Len(turns[r]) = c
    <2>1. c \in Nat
      BY <1>1, <1>8
    <2>2. \A r \in 1..rounds : Len(turns[r]) = c
      BY ONLY <1>4, <1>6, <1>8, Zenon
    <2> QED
      BY <2>1, <2>2
  <1>10. /\ jobs \in Seq(JobSet) /\ Len(jobs) = rounds * c
         /\ \A r \in 1..rounds, k \in 1..c : jobs[(r - 1) * c + k] = turns[r][k]
    <2>1. AllLong(turns, c)
      BY ONLY <1>7, <1>9, Zenon DEF AllLong
    <2>2. InRows(jobs, JobSet, turns, c, rounds)
      BY ONLY <1>3, <1>7, <1>9, <2>1, rounds \in Nat \ {0}, UniformFlatten, Zenon
    <2> QED
      BY ONLY <2>2, Zenon DEF InRows
  <1>11. ASSUME NEW r \in 1..rounds, NEW p \in 1..pairs, NEW g \in 1..games
         PROVE  jobs[PlaceOf(pairs, games, r, p, g)]
                   = JobOf(slots[p], (p - 1) * games, r - 1, p - 1, g)
    <2>1. (p - 1) * games + g \in 1..c
      BY <1>1, <1>8, PlaceInRange
    <2>2. jobs[PlaceOf(pairs, games, r, p, g)] = turns[r][(p - 1) * games + g]
      BY <1>8, <1>10, <2>1, Zenon DEF PlaceOf
    <2> QED
      BY <1>4, <1>6, <2>2
  <1> QED
    BY ONLY <1>s, <1>p, <1>q, <1>8, <1>10, <1>11, Zenon DEF LaidOut

\* The round, the pair and the game of a place in the list.
RoundAt(n, pairs, games) == Row(n, pairs * games)
PairAt(n, pairs, games) == Row(Column(n, pairs * games), games)
GameAt(n, pairs, games) == Column(Column(n, pairs * games), games)

HasPlace(n, rounds, pairs, games) ==
    /\ RoundAt(n, pairs, games) \in 1..rounds
    /\ PairAt(n, pairs, games) \in 1..pairs
    /\ GameAt(n, pairs, games) \in 1..games
    /\ n = PlaceOf(pairs, games, RoundAt(n, pairs, games),
                  PairAt(n, pairs, games), GameAt(n, pairs, games))

LEMMA PlaceOfJob ==
    ASSUME NEW rounds \in Nat, NEW pairs \in Nat \ {0}, NEW games \in Nat \ {0},
           NEW n, n \in 1..(rounds * (pairs * games))
    PROVE  HasPlace(n, rounds, pairs, games)
  <1>1. PICK c \in Nat \ {0} : c = pairs * games
    <2>1. PICK x \in Nat, y \in Nat : pairs = x + 1 /\ games = y + 1
      <3>1. pairs - 1 \in Nat /\ games - 1 \in Nat
        OBVIOUS
      <3> QED
        BY <3>1
    <2>2. (x + 1) * (y + 1) = x * y + x + y + 1 /\ x * y \in Nat
      OBVIOUS
    <2> QED
      BY <2>1, <2>2
  <1>2. /\ Row(n, c) \in 1..rounds /\ Column(n, c) \in 1..c
        /\ n = (Row(n, c) - 1) * c + Column(n, c)
    <2>1. n \in 1..(rounds * c)
      BY <1>1
    <2> QED
      BY ONLY <2>1, rounds \in Nat, c \in Nat \ {0}, PlaceIs, Zenon
  <1>3. PICK m \in 1..c : m = Column(n, c)
    BY <1>2
  <1>4. /\ Row(m, games) \in 1..pairs /\ Column(m, games) \in 1..games
        /\ m = (Row(m, games) - 1) * games + Column(m, games)
    <2>1. m \in 1..(pairs * games) /\ pairs \in Nat
      BY <1>1
    <2> QED
      BY ONLY <2>1, games \in Nat \ {0}, PlaceIs, Zenon
  <1> QED
    BY ONLY <1>1, <1>2, <1>3, <1>4, Zenon
    DEF HasPlace, RoundAt, PairAt, GameAt, PlaceOf

LEMMA PlaceRange ==
    ASSUME NEW rounds \in Nat, NEW pairs \in Nat, NEW games \in Nat,
           NEW r \in 1..rounds, NEW p \in 1..pairs, NEW g \in 1..games
    PROVE  PlaceOf(pairs, games, r, p, g) \in 1..(rounds * (pairs * games))
  <1>1. pairs * games \in Nat
    OBVIOUS
  <1>2. (p - 1) * games + g \in 1..(pairs * games)
    BY PlaceInRange
  <1> QED
    BY <1>1, <1>2, PlaceInRange DEF PlaceOf

\* Two games of one pair, and their places in the list.
SameGame(r, g, s, h) == r = s /\ g = h

SamePlace(pairs, games, p, r, g, s, h) ==
    PlaceOf(pairs, games, r + 1, p, g) = PlaceOf(pairs, games, s + 1, p, h)

LEMMA PlaceExact ==
    ASSUME NEW pairs \in Nat, NEW games \in Nat, NEW p \in 1..pairs,
           NEW r \in Nat, NEW g \in 1..games, NEW s \in Nat, NEW h \in 1..games,
           SamePlace(pairs, games, p, r, g, s, h)
    PROVE  SameGame(r, g, s, h)
  <1>1. /\ pairs * games \in Nat /\ (p - 1) * games \in Nat
        /\ (r + 1) - 1 = r /\ (s + 1) - 1 = s
    OBVIOUS
  <1>2. /\ (p - 1) * games + g \in 1..(pairs * games)
        /\ (p - 1) * games + h \in 1..(pairs * games)
    BY PlaceInRange
  <1>3. r * (pairs * games) + ((p - 1) * games + g)
           = s * (pairs * games) + ((p - 1) * games + h)
    <2>1. ((r + 1) - 1) * (pairs * games) + ((p - 1) * games + g)
             = ((s + 1) - 1) * (pairs * games) + ((p - 1) * games + h)
      BY Zenon DEF PlaceOf, SamePlace
    <2> QED
      BY ONLY <1>1, <2>1, Zenon
  <1>4. r = s /\ (p - 1) * games + g = (p - 1) * games + h
    BY <1>1, <1>2, <1>3, PlaceUnique
  <1> QED
    BY <1>1, <1>4 DEF SameGame

-----------------------------------------------------------------------------
(* Counting.                                                               *)

LEMMA ListedCount ==
    ASSUME NEW T \in SUBSET Pair, NEW s, Lists(s, T)
    PROVE  Cardinality(T) = Len(s) /\ {s[d] : d \in DOMAIN s} = T
  <1>1. s \in Seq(Pair) /\ Len(s) \in Nat /\ DOMAIN s = 1..Len(s)
    BY LenProperties DEF Lists
  <1>2. \A d \in 1..Len(s) : s[d] \in T
    BY <1>1, ElementOfSeq DEF Lists
  <1>3. \A x \in T : \E d \in 1..Len(s) : s[d] = x
    BY DEF Lists
  <1> DEFINE b == [d \in 1..Len(s) |-> s[d]]
  <1>4. b \in Bijection(1..Len(s), T)
    <2>1. b \in [1..Len(s) -> T]
      BY <1>2
    <2>2. IsInjective(b)
      BY DEF Lists, IsInjective
    <2>3. \A x \in T : \E d \in 1..Len(s) : b[d] = x
      BY <1>3
    <2> HIDE DEF b
    <2> QED
      BY <2>1, <2>2, <2>3 DEF Bijection, Injection, Surjection
  <1>5. IsFiniteSet(1..Len(s)) /\ Cardinality(1..Len(s)) = Len(s)
    BY <1>1, FS_Interval
  <1>6. Cardinality(T) = Len(s)
    <2>1. ExistsBijection(1..Len(s), T)
      BY <1>4 DEF ExistsBijection
    <2> QED
      BY <1>5, <2>1, FS_Bijection
  <1> QED
    BY <1>1, <1>2, <1>3, <1>6

\* T is the set of the places of pair p.
Encounters(T, rounds, pairs, games, p) ==
    \A n : n \in T <=> \E r \in 1..rounds, g \in 1..games :
                          n = PlaceOf(pairs, games, r, p, g)

\* The games of a pair: as many as there are rounds and games in an encounter.
LEMMA EncountersCount ==
    ASSUME NEW rounds \in Nat, NEW pairs \in Nat, NEW games \in Nat \ {0},
           NEW p \in 1..pairs, NEW T, Encounters(T, rounds, pairs, games, p)
    PROVE  Cardinality(T) = rounds * games
  <1>0. games \in Nat
    OBVIOUS
  <1> DEFINE N == rounds * games
             b == [n \in 1..N |->
                     PlaceOf(pairs, games, Row(n, games), p, Column(n, games))]
  <1>1. ASSUME NEW n \in 1..N
        PROVE  /\ Row(n, games) \in 1..rounds /\ Column(n, games) \in 1..games
               /\ n = (Row(n, games) - 1) * games + Column(n, games)
    BY PlaceIs
  <1>2. \A n \in 1..N : b[n] = PlaceOf(pairs, games, Row(n, games), p, Column(n, games))
    OBVIOUS
  <1>3. b \in [1..N -> T]
    BY <1>1 DEF Encounters
  <1>4. N \in Nat
    OBVIOUS
  <1> HIDE DEF N, b
  <1>5. ASSUME NEW n \in 1..N, NEW m \in 1..N, b[n] = b[m] PROVE n = m
    <2>1. PlaceOf(pairs, games, Row(n, games), p, Column(n, games))
             = PlaceOf(pairs, games, Row(m, games), p, Column(m, games))
      BY ONLY <1>2, <1>5, n \in 1..N, m \in 1..N, Zenon
    <2>2. Row(n, games) = Row(m, games) /\ Column(n, games) = Column(m, games)
      <3>1. PICK r \in Nat, g \in 1..games :
               r + 1 = Row(n, games) /\ g = Column(n, games)
        <4>1. Row(n, games) - 1 \in Nat /\ (Row(n, games) - 1) + 1 = Row(n, games)
          BY <1>1
        <4> QED
          BY <1>1, <4>1
      <3>2. PICK s \in Nat, h \in 1..games :
               s + 1 = Row(m, games) /\ h = Column(m, games)
        <4>1. Row(m, games) - 1 \in Nat /\ (Row(m, games) - 1) + 1 = Row(m, games)
          BY <1>1
        <4> QED
          BY <1>1, <4>1
      <3>3. SamePlace(pairs, games, p, r, g, s, h)
        BY ONLY <2>1, <3>1, <3>2, Zenon DEF SamePlace
      <3>4. r = s /\ g = h
        <4>1. SameGame(r, g, s, h)
          BY ONLY <3>3, <1>0, pairs \in Nat, p \in 1..pairs, r \in Nat, g \in 1..games,
                  s \in Nat, h \in 1..games, PlaceExact, Zenon
        <4> QED
          BY ONLY <4>1, Zenon DEF SameGame
      <3> QED
        BY ONLY <3>1, <3>2, <3>4, Zenon
    <2> QED
      BY ONLY <1>1, <2>2, n \in 1..N, m \in 1..N, Zenon
  <1>6. ASSUME NEW t \in T PROVE \E n \in 1..N : b[n] = t
    <2>1. PICK r \in 1..rounds, g \in 1..games : t = PlaceOf(pairs, games, r, p, g)
      BY DEF Encounters
    <2>2. PICK n \in 1..N : n = (r - 1) * games + g
      <3>1. (r - 1) * games + g \in 1..N
        BY PlaceInRange DEF N
      <3> QED
        BY <3>1
    <2>3. PICK s \in 1..rounds, h \in 1..games :
             s = Row(n, games) /\ h = Column(n, games) /\ n = (s - 1) * games + h
      BY <1>1
    <2>4. s - 1 = r - 1 /\ h = g
      <3>1. s - 1 \in Nat /\ r - 1 \in Nat
        OBVIOUS
      <3>2. (s - 1) * games + h = (r - 1) * games + g
        BY ONLY <2>2, <2>3, Zenon
      <3> QED
        BY <3>1, <3>2, PlaceUnique
    <2>5. s = r
      BY <2>4
    <2>6. b[n] = PlaceOf(pairs, games, s, p, h)
      BY ONLY <1>2, <2>3, n \in 1..N, Zenon
    <2> QED
      BY ONLY <2>1, <2>4, <2>5, <2>6, n \in 1..N, Zenon
  <1>7. ExistsBijection(1..N, T)
    <2>1. IsInjective(b)
      BY <1>3, <1>5 DEF IsInjective
    <2> QED
      BY <1>3, <1>6, <2>1 DEF ExistsBijection, Bijection, Injection, Surjection
  <1>8. IsFiniteSet(1..N) /\ Cardinality(1..N) = N
    BY <1>4, FS_Interval
  <1> QED
    BY <1>7, <1>8, FS_Bijection DEF N

-----------------------------------------------------------------------------
(* The two games of an opening that is repeated.                           *)

\* Two games of one pair, the second of them reversed.
Reversed(x, y) ==
    x.ei \in Pair /\ y.ei = x.ei /\ x.reverse = FALSE /\ y.reverse = TRUE

\* With an even number of games per encounter, the games 2k and 2k + 1 are one
\* pair's, and the second is reversed.
LEMMA Twins ==
    ASSUME NEW engines \in Nat, engines >= 2, NEW gauntlet \in BOOLEAN,
           NEW rounds \in Nat \ {0}, NEW games \in Nat \ {0}, games % 2 = 0,
           NEW jobs, jobs = JobSeq(engines, rounds, games, gauntlet),
           NEW k \in Nat, 2 * k + 2 <= Len(jobs)
    PROVE  Reversed(jobs[2 * k + 1], jobs[2 * k + 2])
  <1>1. PICK slots : slots = PairSlots(engines, gauntlet)
    OBVIOUS
  <1>2. PICK pairs \in Nat \ {0} : pairs = Len(slots)
    BY <1>1, SlotsListed
  <1>3. /\ Len(jobs) = rounds * (pairs * games)
        /\ \A r \in 1..rounds, p \in 1..pairs, g \in 1..games :
              jobs[PlaceOf(pairs, games, r, p, g)]
                 = JobOf(slots[p], (p - 1) * games, r - 1, p - 1, g)
    <2>1. LaidOut(jobs, slots, rounds, games)
      BY <1>1, JobSeqIs
    <2> QED
      BY ONLY <1>2, <2>1, Zenon DEF LaidOut
  <1>4. \A p \in 1..pairs : slots[p] \in Pair
    BY <1>1, <1>2, SlotsListed, ElementOfSeq
  <1>5. PICK n \in 1..(rounds * (pairs * games)) : n = 2 * k + 1
    BY <1>3
  <1>6. PICK r \in 1..rounds, p \in 1..pairs, g \in 1..games :
           n = PlaceOf(pairs, games, r, p, g)
    <2>1. rounds \in Nat
      OBVIOUS
    <2>2. HasPlace(n, rounds, pairs, games)
      BY <2>1, PlaceOfJob
    <2> QED
      BY ONLY <2>2, Zenon DEF HasPlace
  <1>7. PICK h \in Nat : games = 2 * h
    <2>1. games = 2 * (games \div 2) /\ games \div 2 \in Nat
      OBVIOUS
    <2> QED
      BY <2>1
  <1>8. PICK x \in Nat : n = 2 * x + g
    <2>1. (r - 1) * (pairs * (2 * h)) + ((p - 1) * (2 * h) + g)
             = 2 * ((r - 1) * (pairs * h) + (p - 1) * h) + g
      OBVIOUS
    <2>2. (r - 1) * (pairs * h) + (p - 1) * h \in Nat
      <3>1. pairs * h \in Nat /\ r - 1 \in Nat /\ p - 1 \in Nat
        OBVIOUS
      <3>2. PICK c \in Nat : c = pairs * h
        BY <3>1
      <3>3. (r - 1) * c \in Nat /\ (p - 1) * h \in Nat
        BY <3>1
      <3> QED
        BY <3>2, <3>3
    <2> QED
      BY <1>6, <1>7, <2>1, <2>2 DEF PlaceOf
  <1>9. (g - 1) % 2 = 0 /\ g % 2 = 1 /\ g + 1 \in 1..games /\ (g + 1) - 1 = g
    BY <1>5, <1>7, <1>8
  <1>10. 2 * k + 2 = PlaceOf(pairs, games, r, p, g + 1)
    <2>1. PICK u : u = (r - 1) * (pairs * games)
      OBVIOUS
    <2>2. PICK v \in Nat : v = (p - 1) * games
      OBVIOUS
    <2>3. u \in Nat
      <3>1. pairs * games \in Nat /\ r - 1 \in Nat
        OBVIOUS
      <3> QED
        BY <2>1, <3>1
    <2>4. 2 * k + 1 = u + (v + g)
      BY ONLY <1>5, <1>6, <2>1, <2>2, Zenon DEF PlaceOf
    <2>5. 2 * k + 2 = u + (v + (g + 1))
      BY <2>3, <2>4
    <2> QED
      BY ONLY <2>1, <2>2, <2>5, Zenon DEF PlaceOf
  <1>11. jobs[2 * k + 1] = JobOf(slots[p], (p - 1) * games, r - 1, p - 1, g)
    BY ONLY <1>3, <1>5, <1>6, Zenon
  <1>12. jobs[2 * k + 2] = JobOf(slots[p], (p - 1) * games, r - 1, p - 1, g + 1)
    BY ONLY <1>3, <1>9, <1>10, r \in 1..rounds, p \in 1..pairs, Zenon
  <1>13. /\ jobs[2 * k + 1].ei = slots[p] /\ jobs[2 * k + 2].ei = slots[p]
         /\ jobs[2 * k + 1].reverse = ((g - 1) % 2 = 1)
         /\ jobs[2 * k + 2].reverse = (((g + 1) - 1) % 2 = 1)
    BY ONLY <1>11, <1>12 DEF JobOf
  <1>14. jobs[2 * k + 1].reverse = FALSE /\ jobs[2 * k + 2].reverse = TRUE
    <2>1. ((g - 1) % 2 = 1) = FALSE /\ (((g + 1) - 1) % 2 = 1) = TRUE
      BY <1>9
    <2> QED
      BY ONLY <1>13, <2>1, Zenon
  <1>15. slots[p] \in Pair
    BY ONLY <1>4, p \in 1..pairs, Zenon
  <1> QED
    BY ONLY <1>13, <1>14, <1>15, Zenon DEF Reversed

-----------------------------------------------------------------------------
(* The invariant.                                                          *)

GameStart == [pair : Nat, opening : Nat, white : Nat, black : Nat]

JobsFilled ==
    /\ vecJobs = JobSeq(options.engines, options.rounds, options.games,
                        options.gauntlet)
    /\ vecResults = PairSlots(options.engines, options.gauntlet)

\* The queue is empty or filled for good, and each game has started from its own
\* index and job.
SInv ==
    /\ options \in Options
    /\ (vecJobs = <<>> /\ vecResults = <<>>) \/ JobsFilled
    /\ starts \in Seq(GameStart) /\ Len(starts) <= Len(vecJobs)
    /\ \A k \in 1..Len(starts) : starts[k] = Start(k - 1, vecJobs[k])

LEMMA OptionTypes ==
    ASSUME options \in Options
    PROVE  /\ options.engines \in Nat /\ options.engines >= 2
           /\ options.rounds \in Nat \ {0} /\ options.games \in Nat \ {0}
           /\ options.gauntlet \in BOOLEAN /\ options.repeat \in BOOLEAN
           /\ options.openings \in Seq({"white", "black"})
           /\ Len(options.openings) \in Nat \ {0}
  <1>1. options.openings \in Seq({"white", "black"}) \ {<<>>}
    BY ScheduleAssumption DEF Options
  <1>2. Len(options.openings) \in Nat \ {0}
    BY <1>1, EmptySeq
  <1>3. /\ options.engines \in 2..MaxEngines /\ options.rounds \in 1..MaxRounds
        /\ options.games \in 1..MaxGames
        /\ options.gauntlet \in BOOLEAN /\ options.repeat \in BOOLEAN
    BY DEF Options
  <1> QED
    BY <1>1, <1>2, <1>3, ScheduleAssumption

LEMMA JobsLaidOut ==
    ASSUME options \in Options, JobsFilled
    PROVE  /\ LaidOut(vecJobs, vecResults, options.rounds, options.games)
           /\ Lists(vecResults, Meet(options.engines, options.gauntlet))
           /\ vecResults \in Seq(Pair) /\ Len(vecResults) \in Nat \ {0}
  <1>1. PICK engines \in Nat, rounds \in Nat \ {0}, games \in Nat \ {0},
             gauntlet \in BOOLEAN :
          /\ engines = options.engines /\ rounds = options.rounds
          /\ games = options.games /\ gauntlet = options.gauntlet
    BY OptionTypes
  <1>2. engines >= 2
    BY <1>1, OptionTypes
  <1>3. /\ vecJobs = JobSeq(engines, rounds, games, gauntlet)
        /\ vecResults = PairSlots(engines, gauntlet)
    BY <1>1 DEF JobsFilled
  <1>4. /\ LaidOut(vecJobs, vecResults, rounds, games)
        /\ Lists(vecResults, Meet(engines, gauntlet))
        /\ vecResults \in Seq(Pair) /\ Len(vecResults) \in Nat \ {0}
    BY <1>2, <1>3, JobSeqIs, SlotsListed
  <1> QED
    BY ONLY <1>1, <1>4, Zenon

LEMMA StartType ==
    ASSUME options \in Options, NEW game \in Nat, NEW j \in JobSet
    PROVE  /\ Start(game, j) \in GameStart
           /\ OpeningIndex(game) + 1 \in 1..Len(options.openings)
  <1>1. OpeningIndex(game) \in 0..(Len(options.openings) - 1)
    <2>1. PICK n \in Nat : n = IF options.repeat THEN game \div 2 ELSE game
      OBVIOUS
    <2>2. PICK c \in Nat \ {0} : c = Len(options.openings)
      BY OptionTypes
    <2>3. n % c \in 0..(c - 1)
      OBVIOUS
    <2>4. OpeningIndex(game) = n % c
      BY <2>1, <2>2 DEF OpeningIndex
    <2> QED
      BY <2>2, <2>3, <2>4
  <1>2. PICK w \in 0..1 :
          w = WhiteSide(options.openings[OpeningIndex(game) + 1], j.reverse)
    BY DEF WhiteSide
  <1>3. /\ Start(game, j).pair = j.pair
        /\ Start(game, j) = [pair |-> j.pair, opening |-> OpeningIndex(game),
                            white |-> j.ei[w + 1], black |-> j.ei[2 - w]]
    BY <1>2 DEF Start
  <1>4. j.pair \in Nat /\ j.ei[w + 1] \in Nat /\ j.ei[2 - w] \in Nat
    <2>1. j.pair \in Nat /\ j.ei \in Nat \X Nat
      BY DEF JobSet, Pair
    <2>2. j.ei[1] \in Nat /\ j.ei[2] \in Nat
      BY <2>1
    <2>3. w = 0 \/ w = 1
      OBVIOUS
    <2> QED
      BY <2>1, <2>2, <2>3
  <1>5. OpeningIndex(game) \in Nat
    BY <1>1, OptionTypes
  <1>6. OpeningIndex(game) + 1 \in 1..Len(options.openings)
    BY <1>1, OptionTypes
  <1> QED
    BY <1>3, <1>4, <1>5, <1>6 DEF GameStart

LEMMA ScheduleInit == SchedInit => SInv
  <1> SUFFICES ASSUME SchedInit PROVE SInv
    OBVIOUS
  <1>1. <<>> \in Seq(GameStart) /\ Len(<<>>) = 0
    OBVIOUS
  <1> QED
    BY <1>1 DEF SchedInit, SInv

LEMMA ScheduleStep == SInv /\ [SchedNext]_schedVars => SInv'
  <1> SUFFICES ASSUME SInv, [SchedNext]_schedVars PROVE SInv'
    OBVIOUS
  <1>1. CASE job_queue_init
    <2>1. starts = <<>>
      BY <1>1, EmptySeq DEF SInv, job_queue_init
    <2>2. options' = options /\ starts' = starts
      BY <1>1 DEF job_queue_init
    <2>3. JobsFilled'
      BY <1>1, <2>2 DEF job_queue_init, JobsFilled
    <2>4. vecJobs' \in Seq(JobSet)
      <3>1. PICK engines \in Nat, rounds \in Nat \ {0}, games \in Nat \ {0},
                 gauntlet \in BOOLEAN :
              /\ engines = options.engines /\ rounds = options.rounds
              /\ games = options.games /\ gauntlet = options.gauntlet
        BY OptionTypes DEF SInv
      <3>2. engines >= 2
        BY <3>1, OptionTypes DEF SInv
      <3>3. vecJobs' = JobSeq(engines, rounds, games, gauntlet)
        BY <1>1, <3>1 DEF job_queue_init
      <3>4. PICK slots : slots = PairSlots(engines, gauntlet)
        OBVIOUS
      <3>5. LaidOut(vecJobs', slots, rounds, games)
        BY <3>2, <3>3, <3>4, JobSeqIs
      <3> QED
        BY <3>5 DEF LaidOut
    <2>5. Len(starts') <= Len(vecJobs')
      BY <2>1, <2>2, <2>4, LenProperties
    <2>6. \A k \in 1..Len(starts') : FALSE
      BY <2>1, <2>2
    <2> QED
      BY <2>2, <2>3, <2>5, <2>6 DEF SInv
  <1>2. CASE StartGame
    <2>1. JobsFilled
      <3>1. Len(starts) \in Nat
        BY LenProperties DEF SInv
      <3>2. vecJobs # <<>>
        BY <1>2, <3>1 DEF StartGame
      <3> QED
        BY <3>2 DEF SInv
    <2>2. options' = options /\ vecJobs' = vecJobs /\ vecResults' = vecResults
      BY <1>2 DEF StartGame
    <2>3. PICK n \in Nat : n = Len(starts)
      BY LenProperties DEF SInv
    <2>4. vecJobs \in Seq(JobSet) /\ Len(vecJobs) \in Nat
      BY <2>1, JobsLaidOut, LenProperties DEF SInv, LaidOut
    <2>5. n + 1 \in 1..Len(vecJobs)
      BY <1>2, <2>3, <2>4 DEF StartGame
    <2>6. PICK s : s = Start(n, vecJobs[n + 1])
      OBVIOUS
    <2>7. s \in GameStart
      <3>1. vecJobs[n + 1] \in JobSet
        BY <2>4, <2>5, ElementOfSeq
      <3> QED
        BY <2>6, <3>1, StartType DEF SInv
    <2>8. starts' = Append(starts, s)
      BY <1>2, <2>3, <2>6 DEF StartGame
    <2>9. /\ starts' \in Seq(GameStart) /\ Len(starts') = n + 1
          /\ \A k \in 1..n : starts'[k] = starts[k]
          /\ starts'[n + 1] = s
      BY <2>3, <2>7, <2>8 DEF SInv
    <2>10. ASSUME NEW k \in 1..Len(starts')
           PROVE  starts'[k] = Start(k - 1, vecJobs[k])'
      <3>1. Start(k - 1, vecJobs[k])' = Start(k - 1, vecJobs[k])
        BY <2>2 DEF Start, OpeningIndex, WhiteSide
      <3>2. CASE k \in 1..n
        BY <2>3, <2>9, <3>1, <3>2 DEF SInv
      <3>3. CASE k = n + 1
        <4>1. k - 1 = n
          BY <3>3
        <4> QED
          BY <2>6, <2>9, <3>1, <3>3, <4>1
      <3> QED
        BY <2>9, <3>2, <3>3
    <2>11. JobsFilled'
      BY <2>1, <2>2 DEF JobsFilled
    <2> QED
      BY <2>2, <2>5, <2>9, <2>10, <2>11 DEF SInv
  <1>3. CASE UNCHANGED schedVars
    BY <1>3 DEF schedVars, SInv, JobsFilled, Start, OpeningIndex, WhiteSide
  <1> QED
    BY <1>1, <1>2, <1>3 DEF SchedNext

\* Each game of a tournament starts from its own index: the opening, the pair and
\* the colours depend on nothing else.
THEOREM GamesStartByIndex == SchedSpec => []SInv
  <1>1. SchedInit => SInv
    BY ScheduleInit
  <1>2. SInv /\ [SchedNext]_schedVars => SInv'
    BY ScheduleStep
  <1> QED
    BY <1>1, <1>2, PTL DEF SchedSpec

-----------------------------------------------------------------------------
(* Who meets whom.                                                         *)

\* The games of the pair in slot p.
LEMMA GamesOfPair ==
    ASSUME NEW rounds \in Nat \ {0}, NEW games \in Nat \ {0}, NEW jobs, NEW slots,
           NEW T \in SUBSET Pair, Lists(slots, T), Len(slots) \in Nat \ {0},
           LaidOut(jobs, slots, rounds, games)
    PROVE  /\ \A j \in DOMAIN jobs : slots[jobs[j].pair + 1] = jobs[j].ei
           /\ \A e \in T : Cardinality({j \in DOMAIN jobs : jobs[j].ei = e}) = rounds * games
  <1>1. PICK pairs \in Nat \ {0} : pairs = Len(slots)
    OBVIOUS
  <1>2. /\ jobs \in Seq(JobSet) /\ Len(jobs) = rounds * (pairs * games)
        /\ DOMAIN jobs = 1..(rounds * (pairs * games))
    BY <1>1, LenProperties DEF LaidOut
  <1>3. \A r \in 1..rounds, p \in 1..pairs, g \in 1..games :
           /\ PlaceOf(pairs, games, r, p, g) \in DOMAIN jobs
           /\ jobs[PlaceOf(pairs, games, r, p, g)].ei = slots[p]
           /\ jobs[PlaceOf(pairs, games, r, p, g)].pair = p - 1
    <2>1. ASSUME NEW r \in 1..rounds, NEW p \in 1..pairs, NEW g \in 1..games
          PROVE  /\ PlaceOf(pairs, games, r, p, g) \in DOMAIN jobs
                 /\ jobs[PlaceOf(pairs, games, r, p, g)].ei = slots[p]
                 /\ jobs[PlaceOf(pairs, games, r, p, g)].pair = p - 1
      <3>1. jobs[PlaceOf(pairs, games, r, p, g)]
               = JobOf(slots[p], (p - 1) * games, r - 1, p - 1, g)
        BY <1>1, Zenon DEF LaidOut
      <3>2. PlaceOf(pairs, games, r, p, g) \in 1..(rounds * (pairs * games))
        BY PlaceRange
      <3>3. /\ JobOf(slots[p], (p - 1) * games, r - 1, p - 1, g).ei = slots[p]
            /\ JobOf(slots[p], (p - 1) * games, r - 1, p - 1, g).pair = p - 1
        BY DEF JobOf
      <3> QED
        BY ONLY <1>2, <3>1, <3>2, <3>3, Zenon
    <2> QED
      BY ONLY <2>1, Zenon
  <1>4. \A n \in DOMAIN jobs : \E r \in 1..rounds, p \in 1..pairs, g \in 1..games :
           n = PlaceOf(pairs, games, r, p, g)
    <2>1. ASSUME NEW n \in DOMAIN jobs PROVE HasPlace(n, rounds, pairs, games)
      <3>1. n \in 1..(rounds * (pairs * games)) /\ rounds \in Nat
        BY <1>2
      <3> QED
        BY <3>1, PlaceOfJob
    <2> QED
      BY ONLY <2>1, Zenon DEF HasPlace
  <1>5. ASSUME NEW j \in DOMAIN jobs PROVE slots[jobs[j].pair + 1] = jobs[j].ei
    <2>1. PICK r \in 1..rounds, p \in 1..pairs, g \in 1..games :
             j = PlaceOf(pairs, games, r, p, g)
      BY <1>4
    <2>2. jobs[j].ei = slots[p] /\ jobs[j].pair = p - 1
      BY ONLY <1>3, <2>1, Zenon
    <2>3. (p - 1) + 1 = p
      OBVIOUS
    <2> QED
      BY ONLY <2>2, <2>3, Zenon
  <1>6. ASSUME NEW e \in T
        PROVE  Cardinality({j \in DOMAIN jobs : jobs[j].ei = e}) = rounds * games
    <2>1. PICK p \in 1..pairs : slots[p] = e
      BY <1>1 DEF Lists
    <2>2. \A q \in 1..pairs : slots[q] = e => q = p
      BY <1>1, <2>1 DEF Lists
    <2>3. PICK S : S = {j \in DOMAIN jobs : jobs[j].ei = e}
      OBVIOUS
    <2>4. ASSUME NEW n
          PROVE  n \in S <=> \E r \in 1..rounds, g \in 1..games :
                                n = PlaceOf(pairs, games, r, p, g)
      <3>1. ASSUME NEW r \in 1..rounds, NEW g \in 1..games, n = PlaceOf(pairs, games, r, p, g)
            PROVE  n \in S
        BY ONLY <1>3, <2>1, <2>3, <3>1, p \in 1..pairs, Zenon
      <3>2. ASSUME n \in S
            PROVE  \E r \in 1..rounds, g \in 1..games : n = PlaceOf(pairs, games, r, p, g)
        <4>1. n \in DOMAIN jobs /\ jobs[n].ei = e
          BY ONLY <2>3, <3>2, Zenon
        <4>2. PICK r \in 1..rounds, q \in 1..pairs, g \in 1..games :
                 n = PlaceOf(pairs, games, r, q, g)
          BY ONLY <1>4, <4>1, Zenon
        <4>3. q = p
          BY ONLY <1>3, <2>2, <4>1, <4>2, Zenon
        <4> QED
          BY ONLY <4>2, <4>3, Zenon
      <3> QED
        BY <3>1, <3>2
    <2>5. Cardinality(S) = rounds * games
      <3>1. rounds \in Nat /\ pairs \in Nat
        OBVIOUS
      <3>2. Encounters(S, rounds, pairs, games, p)
        BY ONLY <2>4, Zenon DEF Encounters
      <3> QED
        BY ONLY <3>1, <3>2, games \in Nat \ {0}, p \in 1..pairs, EncountersCount, Zenon
    <2> QED
      BY ONLY <2>3, <2>5, Zenon
  <1> QED
    BY ONLY <1>5, <1>6, Zenon

\* The list that job_queue_init makes ends with a whole encounter, and the games
\* counted in one slot are between the same two engines: what the theorem about the
\* last standings (TournamentProofs) supposes of the jobs.
THEOREM JobsFillEncounters ==
    ASSUME NEW engines \in Nat, engines >= 2, NEW gauntlet \in BOOLEAN,
           NEW rounds \in Nat \ {0}, NEW games \in Nat \ {0},
           NEW jobs, jobs = JobSeq(engines, rounds, games, gauntlet)
    PROVE  /\ jobs \in Seq(JobSet) /\ Len(jobs) % games = 0
           /\ \A j, k \in DOMAIN jobs : jobs[j].pair = jobs[k].pair => jobs[j].ei = jobs[k].ei
  <1>1. PICK slots : slots = PairSlots(engines, gauntlet)
    OBVIOUS
  <1>2. PICK T : T = Meet(engines, gauntlet)
    OBVIOUS
  <1>3. LaidOut(jobs, slots, rounds, games)
    BY <1>1, JobSeqIs
  <1>4. T \in SUBSET Pair /\ Lists(slots, T) /\ Len(slots) \in Nat \ {0}
    BY <1>1, <1>2, SlotsListed DEF Meet, Pair
  <1>5. \A j \in DOMAIN jobs : slots[jobs[j].pair + 1] = jobs[j].ei
    BY <1>3, <1>4, GamesOfPair
  <1>6. jobs \in Seq(JobSet) /\ Len(jobs) = rounds * (Len(slots) * games)
    BY ONLY <1>3, Zenon DEF LaidOut
  <1>7. PICK x \in Nat : rounds * (Len(slots) * games) = x * games
    <2>1. rounds * Len(slots) \in Nat
      BY <1>4
    <2>2. rounds * (Len(slots) * games) = (rounds * Len(slots)) * games
      BY <1>4
    <2> QED
      BY <2>1, <2>2
  <1>8. Len(jobs) % games = 0
    <2>1. (x * games) % games = 0
      BY Multiple
    <2> QED
      BY ONLY <1>6, <1>7, <2>1, Zenon
  <1> QED
    BY ONLY <1>5, <1>6, <1>8, Zenon

LEMMA PairsMeet == SInv => EveryPairMeets
  <1> SUFFICES ASSUME SInv, Built PROVE EveryPairMeets
    BY DEF EveryPairMeets
  <1>1. JobsFilled
    BY DEF SInv, Built
  <1>2. PICK engines \in Nat, rounds \in Nat \ {0}, games \in Nat \ {0},
             gauntlet \in BOOLEAN :
          /\ engines = options.engines /\ rounds = options.rounds
          /\ games = options.games /\ gauntlet = options.gauntlet
    BY OptionTypes DEF SInv
  <1>3. PICK T : T = Meet(engines, gauntlet)
    OBVIOUS
  <1>4. Opponents = T /\ T \in SUBSET Pair
    BY <1>2, <1>3 DEF Opponents, Meet, Pair
  <1>5. /\ LaidOut(vecJobs, vecResults, rounds, games) /\ Lists(vecResults, T)
        /\ Len(vecResults) \in Nat \ {0}
    BY <1>1, <1>2, <1>3, JobsLaidOut DEF SInv
  <1>6. Cardinality(T) = Len(vecResults) /\ {vecResults[p] : p \in DOMAIN vecResults} = T
    BY <1>4, <1>5, ListedCount
  <1>7. /\ \A j \in DOMAIN vecJobs : vecResults[vecJobs[j].pair + 1] = vecJobs[j].ei
        /\ \A e \in T : Cardinality({j \in DOMAIN vecJobs : vecJobs[j].ei = e}) = rounds * games
    BY <1>4, <1>5, GamesOfPair
  <1> QED
    BY ONLY <1>2, <1>4, <1>6, <1>7, Zenon DEF EveryPairMeets

\* Every two engines that should meet meet in rounds * games games, counted in one
\* slot of vecResults, for every number of engines, rounds and games.
THEOREM PairsAlwaysMeet == SchedSpec => []EveryPairMeets
  <1>1. SInv => EveryPairMeets
    BY PairsMeet
  <1> QED
    BY <1>1, GamesStartByIndex, PTL

-----------------------------------------------------------------------------
(* The colours.                                                            *)

SameSide ==
    \A o, p \in DOMAIN options.openings : options.openings[o] = options.openings[p]

\* The two games of an opening that is repeated begin from the same line.
LEMMA TwinOpenings ==
    ASSUME options \in Options, options.repeat, NEW k \in Nat
    PROVE  OpeningIndex(2 * k) = OpeningIndex(2 * k + 1)
  <1>1. (2 * k) \div 2 = k /\ (2 * k + 1) \div 2 = k
    OBVIOUS
  <1> QED
    BY <1>1 DEF OpeningIndex

\* The first engine of the pair has the one colour in one of the two games and
\* the other colour in the other.
LEMMA TwinStarts ==
    ASSUME SInv, options.games % 2 = 0, options.repeat \/ SameSide,
           NEW k \in Nat, 2 * k + 2 <= Len(starts)
    PROVE  /\ starts[2 * k + 1].white = starts[2 * k + 2].black
           /\ starts[2 * k + 1].black = starts[2 * k + 2].white
           /\ starts[2 * k + 1].opening = OpeningIndex(2 * k)
           /\ starts[2 * k + 2].opening = OpeningIndex(2 * k + 1)
  <1>1. options \in Options /\ Len(starts) \in Nat
    BY LenProperties DEF SInv
  <1>2. JobsFilled
    BY <1>1 DEF SInv
  <1>3. PICK engines \in Nat, rounds \in Nat \ {0}, games \in Nat \ {0},
             gauntlet \in BOOLEAN :
          /\ engines = options.engines /\ rounds = options.rounds
          /\ games = options.games /\ gauntlet = options.gauntlet
    BY <1>1, OptionTypes
  <1>4. vecJobs \in Seq(JobSet) /\ Len(vecJobs) \in Nat
    BY <1>1, <1>2, JobsLaidOut, LenProperties DEF LaidOut
  <1>5. PICK a \in JobSet, b \in JobSet : a = vecJobs[2 * k + 1] /\ b = vecJobs[2 * k + 2]
    <2>1. 2 * k + 1 \in 1..Len(vecJobs) /\ 2 * k + 2 \in 1..Len(vecJobs)
      BY <1>1, <1>4 DEF SInv
    <2> QED
      BY <1>4, <2>1, ElementOfSeq
  <1>6. a.ei \in Pair /\ b.ei = a.ei /\ a.reverse = FALSE /\ b.reverse = TRUE
    <2>1. engines >= 2 /\ games % 2 = 0
      BY <1>1, <1>3, OptionTypes
    <2>2. PICK jobs : jobs = JobSeq(engines, rounds, games, gauntlet)
      OBVIOUS
    <2>3. jobs = vecJobs
      BY <1>2, <1>3, <2>2 DEF JobsFilled
    <2>4. 2 * k + 2 <= Len(jobs)
      BY <1>1, <1>4, <2>3 DEF SInv
    <2>5. Reversed(jobs[2 * k + 1], jobs[2 * k + 2])
      BY ONLY <2>1, <2>2, <2>4, engines \in Nat, rounds \in Nat \ {0}, games \in Nat \ {0},
              gauntlet \in BOOLEAN, k \in Nat, Twins, Zenon
    <2> QED
      BY ONLY <1>5, <2>3, <2>5, Zenon DEF Reversed
  <1>7. /\ starts[2 * k + 1] = Start(2 * k, a)
        /\ starts[2 * k + 2] = Start(2 * k + 1, b)
    <2>1. /\ 2 * k + 1 \in 1..Len(starts) /\ 2 * k + 2 \in 1..Len(starts)
          /\ (2 * k + 1) - 1 = 2 * k /\ (2 * k + 2) - 1 = 2 * k + 1
      BY <1>1
    <2>2. /\ starts[2 * k + 1] = Start((2 * k + 1) - 1, a)
          /\ starts[2 * k + 2] = Start((2 * k + 2) - 1, b)
      BY <1>5, <2>1 DEF SInv
    <2> QED
      BY <2>1, <2>2
  <1>8. PICK c : /\ c = options.openings[OpeningIndex(2 * k) + 1]
                 /\ c = options.openings[OpeningIndex(2 * k + 1) + 1]
    <2>1. CASE options.repeat
      BY <1>1, <2>1, TwinOpenings
    <2>2. CASE SameSide
      <3>1. /\ OpeningIndex(2 * k) + 1 \in DOMAIN options.openings
            /\ OpeningIndex(2 * k + 1) + 1 \in DOMAIN options.openings
        <4>1. 2 * k \in Nat /\ 2 * k + 1 \in Nat
          OBVIOUS
        <4>2. /\ OpeningIndex(2 * k) + 1 \in 1..Len(options.openings)
              /\ OpeningIndex(2 * k + 1) + 1 \in 1..Len(options.openings)
          BY <1>1, <1>5, <4>1, StartType
        <4> QED
          BY <1>1, <4>2, OptionTypes, LenProperties
      <3> QED
        BY <2>2, <3>1 DEF SameSide
    <2> QED
      BY <2>1, <2>2
  <1>9. PICK v \in 0..1, w \in 0..1 :
          v = WhiteSide(c, a.reverse) /\ w = WhiteSide(c, b.reverse)
    BY DEF WhiteSide
  <1>10. v = 1 - w
    <2>1. WhiteSide(c, TRUE) = 1 - WhiteSide(c, FALSE)
      BY DEF WhiteSide
    <2>2. w = 1 - v
      BY ONLY <1>6, <1>9, <2>1, Zenon
    <2> QED
      BY <2>2
  <1>11. /\ starts[2 * k + 1].white = a.ei[v + 1] /\ starts[2 * k + 1].black = a.ei[2 - v]
         /\ starts[2 * k + 1].opening = OpeningIndex(2 * k)
    BY <1>7, <1>8, <1>9 DEF Start
  <1>12. /\ starts[2 * k + 2].white = b.ei[w + 1] /\ starts[2 * k + 2].black = b.ei[2 - w]
         /\ starts[2 * k + 2].opening = OpeningIndex(2 * k + 1)
    BY <1>7, <1>8, <1>9 DEF Start
  <1>13. v + 1 = 2 - w /\ 2 - v = w + 1
    BY <1>10
  <1> QED
    BY ONLY <1>6, <1>11, <1>12, <1>13, Zenon

LEMMA RepeatedPairs == SInv => RepeatPairsColours
  <1> SUFFICES ASSUME SInv, options.repeat, options.games % 2 = 0,
                      NEW k \in 0..((Len(starts) \div 2) - 1)
               PROVE  PlayedFromBothSides(k)
    BY DEF RepeatPairsColours
  <1>1. Len(starts) \in Nat
    BY LenProperties DEF SInv
  <1>2. k \in Nat /\ 2 * k + 2 <= Len(starts)
    BY <1>1
  <1>3. OpeningIndex(2 * k) = OpeningIndex(2 * k + 1)
    BY <1>2, TwinOpenings DEF SInv
  <1> QED
    BY <1>2, <1>3, TwinStarts DEF PlayedFromBothSides

\* With -repeat, the games 2k and 2k + 1 are one opening played by one pair from
\* both sides, for every openings file and every even number of games.
THEOREM RepeatedOpeningsArePaired == SchedSpec => []RepeatPairsColours
  <1>1. SInv => RepeatPairsColours
    BY RepeatedPairs
  <1> QED
    BY <1>1, GamesStartByIndex, PTL

\* The other game of the two with the same opening, counted from 1.
Twin(k) == IF k % 2 = 1 THEN k + 1 ELSE k - 1

LEMMA TwinIs ==
    ASSUME NEW x \in Nat, NEW k \in 1..(2 * x)
    PROVE  /\ Twin(k) \in 1..(2 * x) /\ Twin(Twin(k)) = k
           /\ \E n \in Nat : /\ 2 * n + 2 <= 2 * x
                            /\ \/ k = 2 * n + 1 /\ Twin(k) = 2 * n + 2
                               \/ k = 2 * n + 2 /\ Twin(k) = 2 * n + 1
  <1>1. PICK n \in Nat : k = 2 * n + 1 \/ k = 2 * n + 2
    <2>1. (k - 1) \div 2 \in Nat
      OBVIOUS
    <2>2. k = 2 * ((k - 1) \div 2) + 1 \/ k = 2 * ((k - 1) \div 2) + 2
      OBVIOUS
    <2> QED
      BY <2>1, <2>2
  <1>2. /\ (2 * n + 1) % 2 = 1 /\ (2 * n + 2) % 2 = 0
        /\ 2 * n + 2 <= 2 * x
    BY <1>1
  <1>3. Twin(2 * n + 1) = 2 * n + 2 /\ Twin(2 * n + 2) = 2 * n + 1
    BY <1>2 DEF Twin
  <1> QED
    BY <1>1, <1>2, <1>3

\* The games of the encounters that are over are an even number.
LEMMA OverIsEven ==
    ASSUME NEW n \in Nat, NEW games \in Nat \ {0}, games % 2 = 0
    PROVE  \E x \in Nat : (n \div games) * games = 2 * x /\ 2 * x <= n
  <1>1. PICK q \in Nat, r \in Nat : q = n \div games /\ n = q * games + r
    <2>1. /\ n \div games \in Nat /\ n % games \in Nat
          /\ n = (n \div games) * games + (n % games)
      BY Quotient
    <2> QED
      BY <2>1
  <1>2. PICK h \in Nat : games = 2 * h
    <2>1. games = 2 * (games \div 2) /\ games \div 2 \in Nat
      OBVIOUS
    <2> QED
      BY <2>1
  <1>3. PICK x \in Nat : x = q * h
    OBVIOUS
  <1>4. q * games = 2 * x
    BY <1>2, <1>3
  <1>5. 2 * x <= n
    BY <1>1, <1>4
  <1> QED
    BY <1>1, <1>4, <1>5

LEMMA ColoursAreEven == SInv => ColoursEven
  <1> SUFFICES ASSUME SInv, options.games % 2 = 0, options.repeat \/ SameSide,
                      NEW e \in 0..(options.engines - 1)
               PROVE  GamesAs("white", e) = GamesAs("black", e)
    BY DEF ColoursEven, SameSide
  <1>1. Len(starts) \in Nat /\ options.games \in Nat \ {0}
    BY LenProperties, OptionTypes DEF SInv
  <1>2. PICK x \in Nat :
          (Len(starts) \div options.games) * options.games = 2 * x /\ 2 * x <= Len(starts)
    BY <1>1, OverIsEven
  <1>3. PICK W : W = {k \in 1..(2 * x) : starts[k].white = e}
    OBVIOUS
  <1>4. PICK B : B = {k \in 1..(2 * x) : starts[k].black = e}
    OBVIOUS
  <1>5. ASSUME NEW k \in 1..(2 * x)
        PROVE  /\ Twin(k) \in 1..(2 * x) /\ Twin(Twin(k)) = k
               /\ starts[k].white = starts[Twin(k)].black
               /\ starts[k].black = starts[Twin(k)].white
    <2>1. /\ Twin(k) \in 1..(2 * x) /\ Twin(Twin(k)) = k
          /\ \E n \in Nat : /\ 2 * n + 2 <= 2 * x
                           /\ \/ k = 2 * n + 1 /\ Twin(k) = 2 * n + 2
                              \/ k = 2 * n + 2 /\ Twin(k) = 2 * n + 1
      BY TwinIs
    <2>2. PICK n \in Nat : /\ 2 * n + 2 <= 2 * x
                           /\ \/ k = 2 * n + 1 /\ Twin(k) = 2 * n + 2
                              \/ k = 2 * n + 2 /\ Twin(k) = 2 * n + 1
      BY <2>1
    <2>3. 2 * n + 2 <= Len(starts)
      BY <1>1, <1>2, <2>2
    <2>4. /\ starts[2 * n + 1].white = starts[2 * n + 2].black
          /\ starts[2 * n + 1].black = starts[2 * n + 2].white
      BY <2>3, TwinStarts
    <2>5. /\ starts[k].white = starts[Twin(k)].black
          /\ starts[k].black = starts[Twin(k)].white
      BY ONLY <2>2, <2>4, Zenon
    <2> QED
      BY ONLY <2>1, <2>5, Zenon
  <1>6. PICK f : f = [k \in W |-> Twin(k)]
    OBVIOUS
  <1>7. f \in [W -> B] /\ \A k \in W : f[k] = Twin(k)
    BY ONLY <1>3, <1>4, <1>5, <1>6, Zenon
  <1>8. ExistsBijection(W, B)
    <2>1. \A k, n \in W : f[k] = f[n] => k = n
      <3>1. \A k \in W : Twin(f[k]) = k
        BY ONLY <1>3, <1>5, <1>7, Zenon
      <3> QED
        BY ONLY <3>1, Zenon
    <2>2. \A b \in B : Twin(b) \in W /\ f[Twin(b)] = b
      BY ONLY <1>3, <1>4, <1>5, <1>7, Zenon
    <2> QED
      BY <1>7, <2>1, <2>2
      DEF ExistsBijection, Bijection, Injection, Surjection, IsInjective
  <1>9. IsFiniteSet(W)
    <2>1. IsFiniteSet(1..(2 * x))
      BY FS_Interval
    <2> QED
      BY <1>3, <2>1, FS_Subset
  <1>10. Cardinality(W) = Cardinality(B)
    BY <1>8, <1>9, FS_Bijection
  <1>11. GamesAs("white", e) = Cardinality(W) /\ GamesAs("black", e) = Cardinality(B)
    BY <1>2, <1>3, <1>4 DEF GamesAs
  <1> QED
    BY <1>10, <1>11

\* With an even number of games per encounter each engine has white and black
\* equally often, if the openings agree on the side to move or are repeated.
THEOREM ColoursAlwaysEven == SchedSpec => []ColoursEven
  <1>1. SInv => ColoursEven
    BY ColoursAreEven
  <1> QED
    BY <1>1, GamesStartByIndex, PTL

-----------------------------------------------------------------------------
(* The openings file.                                                      *)

Injective == \A k, l \in Line : vecIndex[k] = vecIndex[l] => k = l

\* Workers start when the shuffle is over (openings_init returns in main_init).
ShuffledFirst ==
    i = 0 \/ ((\A w \in Workers : pc[w] = "pop") /\ (\A n \in Game : opening[n] = NoLine))

\* The worker between the lock and the unlock holds the mutex.
Exclusive == \A w \in Workers : pc[w] \in {"seek", "read"} => mtx = w

\* What it has found there is the line of its game, and stays so.
OwnLine ==
    \A w \in Workers :
        /\ pc[w] = "read" => offset = vecIndex[Place(idx[w])]
        /\ pc[w] = "load" => fen[w] = vecIndex[Place(idx[w])]

OInv == TypeOK /\ Injective /\ ShuffledFirst /\ Exclusive /\ OwnLine /\ OwnOpening

-----------------------------------------------------------------------------
\* The place of a game is a place of the index, however long the tournament.
LEMMA PlaceInIndex == ASSUME NEW n \in Nat PROVE Place(n) \in Line
<1>1. NLines \in Nat /\ NLines > 0
  BY OpeningsAssumption
<1>2. n \div 2 \in Nat
  OBVIOUS
<1>3. ASSUME NEW m \in Nat PROVE m % NLines \in Line
  BY <1>1 DEF Line
<1> QED
  BY <1>2, <1>3 DEF Place

LEMMA GameIsNatural == Game \subseteq Nat
BY OpeningsAssumption DEF Game

LEMMA OpeningsInit == Init => OInv
<1> SUFFICES ASSUME Init PROVE OInv
  OBVIOUS
<1> USE OpeningsAssumption DEF Init
<1>1. TypeOK
  BY DEF TypeOK, Line, Game
<1>2. Injective /\ ShuffledFirst /\ Exclusive /\ OwnLine /\ OwnOpening
  BY DEF Injective, ShuffledFirst, Exclusive, OwnLine, OwnOpening
<1> QED
  BY <1>1, <1>2 DEF OInv

-----------------------------------------------------------------------------
\* A swap keeps the index injective, and no worker looks at it before the end.
LEMMA ShuffleStep == OInv /\ Shuffle => OInv'
<1> SUFFICES ASSUME OInv, Shuffle PROVE OInv'
  OBVIOUS
<1>1. TypeOK /\ Injective /\ i > 0 /\ i \in Line
  BY OpeningsAssumption DEF OInv, TypeOK, Shuffle, Line
<1>2. PICK j \in 0..i :
        vecIndex' = [vecIndex EXCEPT ![i] = vecIndex[j], ![j] = vecIndex[i]]
  BY DEF Shuffle
<1>3. j \in Line /\ vecIndex \in [Line -> Line]
  BY <1>1, OpeningsAssumption DEF TypeOK, Line
<1>4. \A k \in Line : vecIndex'[k] = IF k = j THEN vecIndex[i]
                                    ELSE IF k = i THEN vecIndex[j] ELSE vecIndex[k]
  BY <1>1, <1>2, <1>3
<1>5. vecIndex' \in [Line -> Line]
  BY <1>1, <1>2, <1>3
<1>6. i' \in Line
  BY <1>1, OpeningsAssumption DEF Shuffle, Line
<1>7. TypeOK'
  BY <1>1, <1>5, <1>6 DEF TypeOK, Shuffle, fileVars
<1>8. Injective'
  BY <1>1, <1>3, <1>4 DEF Injective
<1>9. (\A w \in Workers : pc[w] = "pop") /\ (\A n \in Game : opening[n] = NoLine)
  BY <1>1 DEF OInv, ShuffledFirst
<1>10. ShuffledFirst' /\ Exclusive' /\ OwnLine' /\ OwnOpening'
  BY <1>9 DEF ShuffledFirst, Exclusive, OwnLine, OwnOpening, Shuffle
<1> QED
  BY <1>7, <1>8, <1>10 DEF OInv

\* What the steps of a worker leave alone.
LEMMA WorkerLeavesIndex ==
    ASSUME NEW w \in Workers, OInv, Worker(w)
    PROVE  vecIndex' = vecIndex /\ i' = i /\ i = 0
<1>1. i = 0
  BY DEF OInv, ShuffledFirst, Worker, PopJob, Lock, Seek, ReadLine, LoadFen
<1>2. UNCHANGED shuffleVars
  BY DEF Worker, PopJob, Lock, Seek, ReadLine, LoadFen
<1> QED
  BY <1>1, <1>2 DEF shuffleVars

LEMMA WorkerTypes ==
    ASSUME NEW w \in Workers, OInv, Worker(w)
    PROVE  TypeOK'
<1>1. TypeOK /\ vecIndex' = vecIndex /\ i' = i
  BY WorkerLeavesIndex DEF OInv
<1>2. CASE PopJob(w)
  <2>1. next < NGames => next \in Game /\ next + 1 \in 0..NGames
    BY <1>1, OpeningsAssumption DEF TypeOK, Game
  <2> QED
    BY <1>1, <1>2, <2>1, GameIsNatural DEF TypeOK, PopJob, Goto, fileVars
<1>3. CASE Lock(w)
  BY <1>1, <1>3 DEF TypeOK, Lock, Goto
<1>4. CASE Seek(w)
  <2>1. Place(idx[w]) \in Line
    BY <1>1, <1>4, PlaceInIndex DEF TypeOK, Seek
  <2>2. vecIndex[Place(idx[w])] \in 0..NLines
    BY <1>1, <2>1, OpeningsAssumption DEF TypeOK, Line
  <2> QED
    BY <1>1, <1>4, <2>2 DEF TypeOK, Seek, Goto
<1>5. CASE ReadLine(w)
  <2>1. Place(idx[w]) \in Line
    BY <1>1, <1>5, PlaceInIndex DEF TypeOK, ReadLine
  <2>2. offset \in Line
    BY <1>1, <1>5, <2>1 DEF OInv, OwnLine, TypeOK, ReadLine
  <2>3. offset + 1 \in 0..NLines
    BY <2>2, OpeningsAssumption DEF Line
  <2> QED
    BY <1>1, <1>5, <2>2, <2>3 DEF TypeOK, ReadLine, Goto
<1>6. CASE LoadFen(w)
  <2>1. idx[w] \in Game
    BY <1>1, <1>6 DEF TypeOK, LoadFen
  <2>2. Place(idx[w]) \in Line
    BY <2>1, GameIsNatural, PlaceInIndex
  <2>3. fen[w] \in Line
    BY <1>1, <1>6, <2>2 DEF OInv, OwnLine, TypeOK, LoadFen
  <2> QED
    BY <1>1, <1>6, <2>1, <2>3 DEF TypeOK, LoadFen, Goto, fileVars
<1> QED
  BY <1>2, <1>3, <1>4, <1>5, <1>6 DEF Worker

\* The position of the file is moved by the holder of the mutex only.
LEMMA WorkerKeepsLines ==
    ASSUME NEW w \in Workers, OInv, Worker(w)
    PROVE  Exclusive' /\ OwnLine' /\ OwnOpening'
<1>1. TypeOK /\ Exclusive /\ OwnLine /\ OwnOpening /\ vecIndex' = vecIndex
  BY WorkerLeavesIndex DEF OInv
<1>2. CASE PopJob(w)
  BY <1>1, <1>2 DEF TypeOK, Exclusive, OwnLine, OwnOpening, PopJob, Goto, fileVars
<1>3. CASE Lock(w)
  <2>1. \A v \in Workers : pc[v] \notin {"seek", "read"}
    BY <1>1, <1>3, OpeningsAssumption DEF Exclusive, Lock
  <2> QED
    BY <1>1, <1>3, <2>1 DEF TypeOK, Exclusive, OwnLine, OwnOpening, Lock, Goto
<1>4. CASE Seek(w)
  <2>1. \A v \in Workers : v # w => pc[v] \notin {"seek", "read"}
    BY <1>1, <1>4 DEF Exclusive, Seek
  <2> QED
    BY <1>1, <1>4, <2>1 DEF TypeOK, Exclusive, OwnLine, OwnOpening, Seek, Goto
<1>5. CASE ReadLine(w)
  <2>1. \A v \in Workers : v # w => pc[v] \notin {"seek", "read"}
    BY <1>1, <1>5 DEF Exclusive, ReadLine
  <2> QED
    BY <1>1, <1>5, <2>1 DEF TypeOK, Exclusive, OwnLine, OwnOpening, ReadLine, Goto
<1>6. CASE LoadFen(w)
  <2>1. fen[w] = vecIndex[Place(idx[w])]
    BY <1>1, <1>6 DEF OwnLine, LoadFen
  <2> QED
    BY <1>1, <1>6, <2>1 DEF TypeOK, Exclusive, OwnLine, OwnOpening, LoadFen, Goto,
                            fileVars
<1> QED
  BY <1>2, <1>3, <1>4, <1>5, <1>6 DEF Worker

LEMMA WorkerStep ==
    ASSUME NEW w \in Workers, OInv, Worker(w)
    PROVE  OInv'
<1>1. Injective' /\ ShuffledFirst'
  BY WorkerLeavesIndex DEF OInv, Injective, ShuffledFirst
<1> QED
  BY <1>1, WorkerTypes, WorkerKeepsLines DEF OInv

LEMMA OpeningsInvariance == Spec => []OInv
<1>1. ASSUME OInv, UNCHANGED vars
      PROVE  OInv'
  BY <1>1 DEF OInv, vars, shuffleVars, fileVars, TypeOK, Injective, ShuffledFirst,
              Exclusive, OwnLine, OwnOpening
<1>2. ASSUME OInv, [Next]_vars
      PROVE  OInv'
  <2>1. CASE Shuffle
    BY <1>2, <2>1, ShuffleStep
  <2>2. CASE \E w \in Workers : Worker(w)
    BY <1>2, <2>2, WorkerStep
  <2>3. CASE Ended \/ UNCHANGED vars
    BY <1>1, <1>2, <2>3 DEF Ended
  <2> QED
    BY <1>2, <2>1, <2>2, <2>3 DEF Next
<1> QED
  BY <1>2, OpeningsInit, PTL DEF Spec

-----------------------------------------------------------------------------
\* The index, the mutex and the workers stay well typed: the position of the
\* file never leaves it, and str_getline always finds a line.
THEOREM OpeningsTypeCorrect == Spec => []TypeOK
<1>1. OInv => TypeOK
  BY DEF OInv
<1> QED
  BY <1>1, OpeningsInvariance, PTL

\* openings_next gives each game the line of its own place, whatever other
\* workers do with the file in between.
THEOREM EachGameItsOpening == Spec => []OwnOpening
<1>1. OInv => OwnOpening
  BY DEF OInv
<1> QED
  BY <1>1, OpeningsInvariance, PTL

\* The comment of openings_init: the shuffle "guarantees no repetition".
THEOREM NoRepetitionInCycles == Spec => []NoEarlyRepetition
<1>1. OInv => NoEarlyRepetition
  <2> SUFFICES ASSUME OInv, NEW m \in Game, NEW n \in Game,
                      opening[m] # NoLine, opening[m] = opening[n]
               PROVE  Place(m) = Place(n)
    BY DEF NoEarlyRepetition
  <2>1. Place(m) \in Line /\ Place(n) \in Line
    BY GameIsNatural, PlaceInIndex
  <2>2. vecIndex[Place(m)] = vecIndex[Place(n)]
    BY DEF OInv, OwnOpening
  <2> QED
    BY <2>1, <2>2 DEF OInv, Injective
<1> QED
  BY <1>1, OpeningsInvariance, PTL
=============================================================================
