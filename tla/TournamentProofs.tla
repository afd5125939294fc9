-------------------------- MODULE TournamentProofs --------------------------
(***************************************************************************)
(* Theorems about SeqWriter and Tournament, for any number of workers,     *)
(* engines and games, any outcomes and any stopping rule.                  *)
(*                                                                         *)
(* First the sequential writer alone, for every number of games.  SeqInv   *)
(* is inductive: the order of the file depends on the queue being sorted   *)
(* and beyond the gap, and that every text is kept depends on both.  Two   *)
(* lemmas say what the scans of seq_writer_push find, one says what a push *)
(* does to the three variables, and the writer's theorems follow.          *)
(*                                                                         *)
(* The inductive invariant TInv then relates the queue, the workers and    *)
(* the writer: which games were handed out, who holds them, which of them  *)
(* the writer has.  The step lemma of SeqInv is used for the one action    *)
(* that pushes.  The theorems about the results of the pairs come last.    *)
(***************************************************************************)
EXTENDS Tournament, TLAPS, SequenceTheorems, WellFoundedInduction, FiniteSetTheorems

-----------------------------------------------------------------------------
(* The writer alone.                                                       *)

SeqInv == SeqTypeOK /\ FileInOrder /\ QueueBeyondGap /\ NothingLost

\* The elements of an array q of length n, and that it is strictly sorted.
Elems(n, q) == {q[k] : k \in 1..n}

Increasing(n, q) == \A j, k \in 1..n : j < k => q[j] < q[k]

Elements(q) == Elems(Len(q), q)

Sorted(q) == Increasing(Len(q), q)

-----------------------------------------------------------------------------
\* A non-empty set of naturals has a least element (the scans stop there).
LEMMA LeastNatural ==
    ASSUME NEW T \in SUBSET Nat, T # {}
    PROVE  \E m \in T : \A k \in T : m <= k
<1>1. PICK m \in T : \A k \in T : ~(<<k, m>> \in OpToRel(<, Nat))
  BY WFMin, NatLessThanWellFounded, Zenon
<1>2. ASSUME NEW k \in T, k < m
      PROVE  FALSE
  <2>1. <<k, m>> \in Nat \X Nat
    BY Zenon
  <2>2. <<k, m>> \in OpToRel(<, Nat)
    BY <1>2, <2>1, Zenon DEF OpToRel
  <2> QED
    BY <1>1, <2>2, Zenon
<1>3. \A k \in T : ~(k < m)
  BY ONLY <1>2, Zenon
<1> QED
  BY ONLY <1>3, T \in SUBSET Nat, m \in T, SMT

\* The insertion scan: seq_writer_push finds a place, with smaller or equal
\* indices before it and a larger one at it.
LEMMA InsertPosFound ==
    ASSUME NEW q \in Seq(Nat), NEW game \in Nat
    PROVE  /\ InsertPos(q, game) \in 1..(Len(q) + 1)
           /\ \A k \in 1..(InsertPos(q, game) - 1) : q[k] <= game
           /\ InsertPos(q, game) <= Len(q) => q[InsertPos(q, game)] > game
<1> DEFINE Stop == {p \in 1..(Len(q) + 1) : p <= Len(q) => q[p] > game}
<1>1. Len(q) + 1 \in Stop /\ Stop \in SUBSET Nat
  OBVIOUS
<1>2. PICK p \in Stop : \A k \in Stop : p <= k
  BY <1>1, LeastNatural
<1>3. \A k \in 1..(p - 1) : q[k] <= game
  <2> TAKE k \in 1..(p - 1)
  <2>1. k \notin Stop /\ k \in 1..Len(q)
    BY <1>2
  <2> QED
    BY <2>1
<1>4. /\ p \in 1..(Len(q) + 1)
      /\ p <= Len(q) => q[p] > game
  OBVIOUS
<1> QED
  BY <1>3, <1>4, Zenon DEF InsertPos

\* The chunk scan: ChunkLen is a length of the queue's head that continues
\* the file, and what follows the chunk does not continue it.
LEMMA ChunkLenFound ==
    ASSUME NEW q \in Seq(Nat), NEW next \in Nat
    PROVE  /\ ChunkLen(q, next) \in 0..Len(q)
           /\ \A k \in 1..ChunkLen(q, next) : q[k] = next + (k - 1)
           /\ ChunkLen(q, next) < Len(q)
                => q[ChunkLen(q, next) + 1] # next + ChunkLen(q, next)
<1> DEFINE Stop == {i \in 0..Len(q) : i < Len(q) => q[i + 1] # next + i}
<1>1. Len(q) \in Stop /\ Stop \in SUBSET Nat
  OBVIOUS
<1>2. PICK i \in Stop : \A k \in Stop : i <= k
  BY <1>1, LeastNatural
<1>3. \A k \in 1..i : q[k] = next + (k - 1)
  <2> TAKE k \in 1..i
  <2>1. k - 1 \in 0..(Len(q) - 1) /\ ~(i <= k - 1)
    OBVIOUS
  <2>2. k - 1 \notin Stop
    BY <1>2, <2>1
  <2>3. q[(k - 1) + 1] = next + (k - 1)
    BY <2>1, <2>2
  <2> QED
    BY <2>3
<1>4. /\ i \in 0..Len(q)
      /\ i < Len(q) => q[i + 1] # next + i
  OBVIOUS
<1> QED
  BY <1>3, <1>4, Zenon DEF ChunkLen

-----------------------------------------------------------------------------
\* InsertAt, element by element.
LEMMA InsertAtElements ==
    ASSUME NEW q \in Seq(Nat), NEW p \in 1..(Len(q) + 1), NEW x \in Nat
    PROVE  /\ InsertAt(q, p, x) \in Seq(Nat)
           /\ Len(InsertAt(q, p, x)) = Len(q) + 1
           /\ \A k \in 1..(Len(q) + 1) :
                InsertAt(q, p, x)[k] = IF k < p THEN q[k]
                                       ELSE IF k = p THEN x ELSE q[k - 1]
<1> DEFINE front == SubSeq(q, 1, p - 1)
           back  == SubSeq(q, p, Len(q))
           head  == front \o <<x>>
<1>1. /\ front \in Seq(Nat)
      /\ Len(front) = p - 1
      /\ \A k \in 1..(p - 1) : front[k] = q[k]
  <2>1. \A k \in 1..(p - 1) : q[k] \in Nat
    OBVIOUS
  <2> QED
    BY <2>1, SubSeqProperties
<1>2. /\ back \in Seq(Nat)
      /\ Len(back) = Len(q) - p + 1
      /\ \A k \in 1..(Len(q) - p + 1) : back[k] = q[p + k - 1]
  <2>1. \A k \in p..Len(q) : q[k] \in Nat
    OBVIOUS
  <2> QED
    BY <2>1, SubSeqProperties
<1>3. /\ head \in Seq(Nat)
      /\ Len(head) = p
      /\ \A k \in 1..p : head[k] = IF k < p THEN q[k] ELSE x
  <2>1. <<x>> \in Seq(Nat) /\ Len(<<x>>) = 1 /\ <<x>>[1] = x
    OBVIOUS
  <2> HIDE DEF front
  <2>2. /\ front \o <<x>> \in Seq(Nat)
        /\ Len(front \o <<x>>) = Len(front) + Len(<<x>>)
        /\ \A k \in 1..(Len(front) + Len(<<x>>)) :
             (front \o <<x>>)[k] = IF k <= Len(front) THEN front[k]
                                   ELSE <<x>>[k - Len(front)]
    BY <1>1, <2>1, ConcatProperties, Zenon
  <2>3. Len(front) + Len(<<x>>) = p
    BY <1>1, <2>1
  <2>4. \A k \in 1..p : k <= Len(front) <=> k < p
    BY <1>1
  <2>5. \A k \in 1..p : ~(k < p) => k - Len(front) = 1
    BY <1>1
  <2>6. \A k \in 1..p : head[k] = IF k < p THEN q[k] ELSE x
    <3> TAKE k \in 1..p
    <3>1. head[k] = IF k <= Len(front) THEN front[k] ELSE <<x>>[k - Len(front)]
      BY <2>2, <2>3
    <3>2. CASE k < p
      BY <1>1, <2>4, <3>1, <3>2
    <3>3. CASE ~(k < p)
      BY <2>1, <2>4, <2>5, <3>1, <3>3
    <3> QED
      BY <3>2, <3>3
  <2> QED
    BY <2>2, <2>3, <2>6, Zenon
<1>4. InsertAt(q, p, x) = head \o back
  BY DEF InsertAt
<1> HIDE DEF head, back
<1>5. /\ head \o back \in Seq(Nat)
      /\ Len(head \o back) = Len(q) + 1
      /\ \A k \in 1..(Len(q) + 1) :
           (head \o back)[k] = IF k <= p THEN head[k] ELSE back[k - p]
  <2>1. /\ head \o back \in Seq(Nat)
        /\ Len(head \o back) = Len(head) + Len(back)
        /\ \A k \in 1..(Len(head) + Len(back)) :
             (head \o back)[k] = IF k <= Len(head) THEN head[k]
                                                   ELSE back[k - Len(head)]
    BY ConcatProperties, <1>2, <1>3, Zenon
  <2>2. Len(head) = p /\ Len(head) + Len(back) = Len(q) + 1
    BY <1>2, <1>3
  <2> QED
    BY <2>1, <2>2
<1>6. ASSUME NEW k \in 1..(Len(q) + 1), k > p
      PROVE  back[k - p] = q[k - 1]
  <2>1. k - p \in 1..(Len(q) - p + 1) /\ p + (k - p) - 1 = k - 1
    BY <1>6
  <2> QED
    BY <1>2, <2>1
<1>7. ASSUME NEW k \in 1..(Len(q) + 1)
      PROVE  (head \o back)[k] = IF k < p THEN q[k]
                                 ELSE IF k = p THEN x ELSE q[k - 1]
  <2>1. CASE k <= p
    <3>1. (head \o back)[k] = head[k] /\ k \in 1..p
      BY <1>5, <2>1
    <3> QED
      BY <1>3, <2>1, <3>1
  <2>2. CASE k > p
    <3>1. (head \o back)[k] = back[k - p]
      BY <1>5, <2>2
    <3>2. back[k - p] = q[k - 1]
      BY <1>6, <2>2
    <3> QED
      BY <2>2, <3>1, <3>2
  <2>3. k <= p \/ k > p
    OBVIOUS
  <2> QED
    BY <2>1, <2>2, <2>3, Zenon
<1> QED
  BY <1>4, <1>5, <1>7, Zenon

\* Array r of length n + 1 is array q of length n with x put in at place p.
IsArrayInsert(n, q, x, p, r) ==
    /\ n \in Nat /\ x \in Nat /\ p \in 1..(n + 1)
    /\ q \in [1..n -> Nat]
    /\ r \in [1..(n + 1) -> Nat]
    /\ \A k \in 1..(n + 1) :
         r[k] = IF k < p THEN q[k] ELSE IF k = p THEN x ELSE q[k - 1]

\* Where x fits: smaller elements before place p, larger ones from p on.
Fits(n, q, x, p) ==
    /\ \A k \in 1..n : k < p => q[k] < x
    /\ \A k \in 1..n : k >= p => q[k] > x

\* Opening a place for x adds x to the elements and removes none.
LEMMA ArrayInsertElems ==
    ASSUME NEW n, NEW q, NEW x, NEW p, NEW r, IsArrayInsert(n, q, x, p, r)
    PROVE  Elems(n + 1, r) = Elems(n, q) \union {x}
<1> USE DEF IsArrayInsert
<1>1. ASSUME NEW k \in 1..n
      PROVE  \E m \in 1..(n + 1) : r[m] = q[k]
  <2>1. CASE k < p
    BY <2>1
  <2>2. CASE ~(k < p)
    <3>1. k + 1 \in 1..(n + 1) /\ r[k + 1] = q[k]
      BY <2>2
    <3> QED
      BY <3>1
  <2> QED
    BY <2>1, <2>2
<1>2. \A k \in 1..(n + 1) : r[k] = x \/ \E m \in 1..n : r[k] = q[m]
  <2> TAKE k \in 1..(n + 1)
  <2>1. CASE k < p
    BY <2>1
  <2>2. CASE k > p
    <3>1. k - 1 \in 1..n /\ r[k] = q[k - 1]
      BY <2>2
    <3> QED
      BY <3>1
  <2> QED
    BY <2>1, <2>2
<1>3. \E k \in 1..(n + 1) : r[k] = x
  <2>1. r[p] = x
    OBVIOUS
  <2> QED
    BY <2>1
<1> QED
  BY <1>1, <1>2, <1>3 DEF Elems

\* Opening a place where x fits keeps a strictly sorted array so.
LEMMA ArrayInsertSorted ==
    ASSUME NEW n, NEW q, NEW x, NEW p, NEW r, IsArrayInsert(n, q, x, p, r),
           Increasing(n, q), Fits(n, q, x, p)
    PROVE  Increasing(n + 1, r)
<1> USE DEF IsArrayInsert
<1> SUFFICES ASSUME NEW j \in 1..(n + 1), NEW k \in 1..(n + 1), j < k
             PROVE  r[j] < r[k]
  BY DEF Increasing
<1>0. /\ \A i, m \in 1..n : i < m => q[i] < q[m]
      /\ \A i \in 1..n : i < p => q[i] < x
      /\ \A i \in 1..n : i >= p => q[i] > x
      /\ j < k
  BY DEF Increasing, Fits
<1>1. CASE k < p
  <2>1. /\ r[j] = q[j] /\ r[k] = q[k]
        /\ j \in 1..n /\ k \in 1..n
    BY <1>0, <1>1
  <2> QED
    BY <1>0, <2>1
<1>2. CASE k = p
  <2>1. r[j] = q[j] /\ r[k] = x /\ j \in 1..n /\ j < p
    BY <1>0, <1>2
  <2>2. q[j] < x
    BY <1>0, <2>1
  <2> QED
    BY <2>1, <2>2
<1>3. CASE k > p
  <2>1. r[k] = q[k - 1] /\ k - 1 \in 1..n /\ q[k - 1] > x
    BY <1>0, <1>3
  <2>2. CASE j < p
    <3>1. r[j] = q[j] /\ j \in 1..n /\ q[j] < x
      BY <1>0, <2>2
    <3>2. q[j] \in Nat /\ q[k - 1] \in Nat
      BY <2>1, <3>1
    <3> QED
      BY <2>1, <3>1, <3>2
  <2>3. CASE j = p
    BY <2>1, <2>3
  <2>4. CASE j > p
    <3>1. r[j] = q[j - 1] /\ j - 1 \in 1..n /\ j - 1 < k - 1
      BY <1>0, <2>4
    <3> QED
      BY <1>0, <2>1, <3>1
  <2> QED
    BY <2>2, <2>3, <2>4
<1> QED
  BY <1>1, <1>2, <1>3

\* The insertion adds the index to the queue's elements and nothing else, and
\* keeps the queue strictly sorted when the index is new to it.
LEMMA InsertedFacts ==
    ASSUME NEW q \in Seq(Nat), NEW game \in Nat
    PROVE  /\ Inserted(q, game) \in Seq(Nat)
           /\ Elements(Inserted(q, game)) = Elements(q) \union {game}
           /\ Sorted(q) /\ game \notin Elements(q) => Sorted(Inserted(q, game))
<1>1. PICK p \in 1..(Len(q) + 1) :
        /\ p = InsertPos(q, game)
        /\ \A k \in 1..(p - 1) : q[k] <= game
        /\ p <= Len(q) => q[p] > game
  BY InsertPosFound
<1>2. PICK r \in Seq(Nat) :
        /\ r = Inserted(q, game)
        /\ Len(r) = Len(q) + 1
        /\ \A k \in 1..(Len(q) + 1) :
             r[k] = IF k < p THEN q[k] ELSE IF k = p THEN game ELSE q[k - 1]
  <2>1. Inserted(q, game) = InsertAt(q, p, game)
    BY <1>1 DEF Inserted
  <2>2. /\ InsertAt(q, p, game) \in Seq(Nat)
        /\ Len(InsertAt(q, p, game)) = Len(q) + 1
        /\ \A k \in 1..(Len(q) + 1) :
             InsertAt(q, p, game)[k] = IF k < p THEN q[k]
                                       ELSE IF k = p THEN game ELSE q[k - 1]
    BY InsertAtElements, ZenonT(40)
  <2> QED
    BY <2>1, <2>2, Zenon
<1>3. PICK n \in Nat : n = Len(q)
  OBVIOUS
<1>4. IsArrayInsert(n, q, game, p, r)
  <2>1. q \in [1..n -> Nat] /\ r \in [1..(n + 1) -> Nat]
    BY <1>2, <1>3, LenProperties
  <2>2. \A k \in 1..(n + 1) :
          r[k] = IF k < p THEN q[k] ELSE IF k = p THEN game ELSE q[k - 1]
    BY ONLY <1>2, <1>3, Zenon
  <2>3. p \in 1..(n + 1)
    BY <1>3
  <2> QED
    BY <2>1, <2>2, <2>3, Zenon DEF IsArrayInsert
<1>5. Elements(r) = Elements(q) \union {game}
  BY <1>2, <1>3, <1>4, ArrayInsertElems DEF Elements
<1>6. ASSUME Sorted(q), game \notin Elements(q)
      PROVE  Sorted(r)
  <2>1. \A k \in 1..n : q[k] # game
    BY <1>3, <1>6 DEF Elements, Elems
  <2>2. \A k \in 1..n : k < p => q[k] < game
    <3> TAKE k \in 1..n
    <3> HAVE k < p
    <3>1. q[k] \in Nat /\ q[k] <= game
      BY <1>1, <1>4 DEF IsArrayInsert
    <3> QED
      BY <2>1, <3>1
  <2>3. \A k \in 1..n : k >= p => q[k] > game
    <3> TAKE k \in 1..n
    <3> HAVE k >= p
    <3>0. p \in 1..n /\ p <= Len(q)
      BY <1>3
    <3>1. q[p] > game /\ q[p] \in Nat /\ q[k] \in Nat /\ p \in 1..n
      BY <1>1, <1>3, <3>0
    <3>2. k = p \/ q[p] < q[k]
      BY <1>3, <1>6, <3>1 DEF Sorted, Increasing
    <3> QED
      BY <3>1, <3>2
  <2>4. Increasing(n, q) /\ Fits(n, q, game, p)
    BY <1>3, <1>6, <2>2, <2>3 DEF Sorted, Fits
  <2>5. Increasing(n + 1, r)
    BY <1>4, <2>4, ArrayInsertSorted
  <2> QED
    BY <1>2, <1>3, <2>5 DEF Sorted
<1> QED
  BY <1>2, <1>5, <1>6

-----------------------------------------------------------------------------
\* What a push under the invariant does: the queue q with the new index loses
\* its first i elements, the run idxNext, ..., idxNext + i - 1, to the file.
LEMMA PushStep ==
    ASSUME SeqInv, NEW game \in GameIdx, game \notin pushed, seq_writer_push(game)
    PROVE  \E q \in Seq(Nat), i \in Nat :
             /\ i \in 0..Len(q)
             /\ Sorted(q)
             /\ Elements(q) = Elements(vecQueued) \union {game}
             /\ \A k \in 1..Len(q) : q[k] >= idxNext
             /\ \A k \in 1..i : q[k] = idxNext + (k - 1)
             /\ i < Len(q) => q[i + 1] > idxNext + i
             /\ out' = out \o SubSeq(q, 1, i)
             /\ vecQueued' = SubSeq(q, i + 1, Len(q))
             /\ idxNext' = idxNext + i
             /\ pushed' = pushed \union {game}
<1> DEFINE q == Inserted(vecQueued, game)
           i == ChunkLen(q, idxNext)
<1> USE DEF SeqInv, SeqTypeOK
<1>1. game \in Nat /\ vecQueued \in Seq(Nat) /\ idxNext \in Nat
  BY NGamesAssumption DEF GameIdx
<1>2. Sorted(vecQueued) /\ game \notin Elements(vecQueued)
  BY DEF QueueBeyondGap, NothingLost, Sorted, Increasing, Elements, Elems
<1>3. /\ q \in Seq(Nat)
      /\ Sorted(q)
      /\ Elements(q) = Elements(vecQueued) \union {game}
  BY <1>1, <1>2, InsertedFacts
<1> HIDE DEF q
<1>4. game >= idxNext
  BY <1>1 DEF NothingLost
<1>5. \A k \in 1..Len(q) : q[k] >= idxNext
  <2>1. \A x \in Elements(vecQueued) : x > idxNext
    BY DEF QueueBeyondGap, Elements, Elems
  <2>2. \A k \in 1..Len(q) : q[k] \in Elements(q)
    BY DEF Elements, Elems
  <2>3. \A k \in 1..Len(q) : q[k] \in Elements(vecQueued) \union {game}
    BY <1>3, <2>2, Zenon
  <2> TAKE k \in 1..Len(q)
  <2>4. q[k] = game \/ q[k] > idxNext
    BY <2>1, <2>3
  <2>5. q[k] \in Nat
    BY <1>3
  <2> QED
    BY <1>1, <1>4, <2>4, <2>5
<1>6. /\ i \in 0..Len(q)
      /\ \A k \in 1..i : q[k] = idxNext + (k - 1)
      /\ i < Len(q) => q[i + 1] # idxNext + i
  BY <1>1, <1>3, ChunkLenFound
<1> HIDE DEF i
<1>7. ASSUME i < Len(q)
      PROVE  q[i + 1] > idxNext + i
  <2>1. i + 1 \in 1..Len(q) /\ q[i + 1] \in Nat /\ q[i + 1] # idxNext + i
    BY <1>3, <1>6, <1>7
  <2>2. CASE i = 0
    BY <1>1, <1>5, <2>1, <2>2
  <2>3. CASE i > 0
    <3>1. i \in 1..i /\ i \in 1..Len(q) /\ q[i] = idxNext + (i - 1)
      BY <1>6, <2>3
    <3>2. q[i] < q[i + 1]
      BY <1>3, <1>6, <2>1, <3>1 DEF Sorted, Increasing
    <3>3. i \in Int /\ q[i + 1] \in Int
      BY <1>6, <2>1
    <3>4. q[i + 1] # idxNext + i /\ idxNext \in Int
      BY <1>1, <2>1
    <3> QED
      BY ONLY <3>1, <3>2, <3>3, <3>4
  <2> QED
    BY <1>6, <2>2, <2>3
<1>8. /\ out' = out \o SubSeq(q, 1, i)
      /\ vecQueued' = SubSeq(q, i + 1, Len(q))
      /\ idxNext' = idxNext + i
      /\ pushed' = pushed \union {game}
  BY DEF seq_writer_push, Appended, Dropped, q, i
<1>9. q \in Seq(Nat) /\ i \in Nat
  BY <1>3, <1>6
<1> QED
  BY <1>3, <1>5, <1>6, <1>7, <1>8, <1>9, Zenon

-----------------------------------------------------------------------------
\* The initial state satisfies the invariant.
LEMMA SeqInitInv == SeqInit => SeqInv
<1> SUFFICES ASSUME SeqInit
             PROVE  SeqInv
  OBVIOUS
<1> USE NGamesAssumption DEF SeqInit
<1>1. SeqTypeOK /\ FileInOrder /\ QueueBeyondGap
  BY DEF SeqTypeOK, FileInOrder, QueueBeyondGap
<1>2. NothingLost
  BY DEF NothingLost, GameIdx
<1> QED
  BY <1>1, <1>2 DEF SeqInv

\* A push keeps the invariant.
LEMMA PushKeepsInv ==
    ASSUME SeqInv, NEW game \in GameIdx, game \notin pushed, seq_writer_push(game)
    PROVE  SeqInv'
<1>1. PICK q \in Seq(Nat), i \in Nat :
        /\ i \in 0..Len(q)
        /\ Sorted(q)
        /\ Elements(q) = Elements(vecQueued) \union {game}
        /\ \A k \in 1..Len(q) : q[k] >= idxNext
        /\ \A k \in 1..i : q[k] = idxNext + (k - 1)
        /\ i < Len(q) => q[i + 1] > idxNext + i
        /\ out' = out \o SubSeq(q, 1, i)
        /\ vecQueued' = SubSeq(q, i + 1, Len(q))
        /\ idxNext' = idxNext + i
        /\ pushed' = pushed \union {game}
  BY PushStep
<1>2. /\ vecQueued \in Seq(Nat) /\ idxNext \in Nat /\ out \in Seq(Nat)
      /\ pushed \subseteq GameIdx /\ game \in Nat /\ game < NGames
  BY NGamesAssumption DEF SeqInv, SeqTypeOK, GameIdx
<1>3. PICK n \in Nat : n = Len(q) /\ i \in 0..n /\ q \in [1..n -> Nat]
  BY <1>1, LenProperties
<1>4. /\ vecQueued' \in Seq(Nat)
      /\ Len(vecQueued') = n - i
      /\ \A k \in 1..(n - i) : vecQueued'[k] = q[i + k]
  <2>1. \A k \in (i + 1)..n : q[k] \in Nat
    BY <1>3
  <2>2. /\ SubSeq(q, i + 1, n) \in Seq(Nat)
        /\ Len(SubSeq(q, i + 1, n)) = IF i + 1 <= n THEN n - (i + 1) + 1 ELSE 0
        /\ \A k \in 1..(n - (i + 1) + 1) :
             SubSeq(q, i + 1, n)[k] = q[(i + 1) + k - 1]
    <3>1. PICK a \in Int : a = i + 1
      OBVIOUS
    <3>2. n \in Int /\ \A k \in a..n : q[k] \in Nat
      BY <2>1, <3>1
    <3>3. /\ SubSeq(q, a, n) \in Seq(Nat)
          /\ Len(SubSeq(q, a, n)) = IF a <= n THEN n - a + 1 ELSE 0
          /\ \A k \in 1..(n - a + 1) : SubSeq(q, a, n)[k] = q[a + k - 1]
      BY <3>2, SubSeqProperties
    <3> QED
      BY <3>1, <3>3, Zenon
  <2>3. vecQueued' = SubSeq(q, i + 1, n)
    BY <1>1, <1>3
  <2>4. i <= n
    BY <1>3
  <2>5. (IF i + 1 <= n THEN n - (i + 1) + 1 ELSE 0) = n - i
    BY ONLY <2>4, n \in Nat, i \in Nat
  <2>6. /\ n - (i + 1) + 1 = n - i
        /\ \A k \in 1..(n - i) : (i + 1) + k - 1 = i + k
    OBVIOUS
  <2> QED
    BY <2>2, <2>3, <2>5, <2>6
<1>5. /\ out' \in Seq(Nat)
      /\ Len(out') = Len(out) + i
      /\ \A k \in 1..(Len(out) + i) :
           out'[k] = IF k <= Len(out) THEN out[k] ELSE q[k - Len(out)]
  <2> DEFINE chunk == SubSeq(q, 1, i)
  <2>1. \A k \in 1..i : q[k] \in Nat
    BY <1>3
  <2>2. /\ chunk \in Seq(Nat)
        /\ Len(chunk) = i
        /\ \A k \in 1..i : chunk[k] = q[k]
    BY <1>3, <2>1, SubSeqProperties
  <2>3. out' = out \o chunk
    BY <1>1
  <2> HIDE DEF chunk
  <2>4. /\ out \o chunk \in Seq(Nat)
        /\ Len(out \o chunk) = Len(out) + Len(chunk)
        /\ \A k \in 1..(Len(out) + Len(chunk)) :
             (out \o chunk)[k] = IF k <= Len(out) THEN out[k]
                                 ELSE chunk[k - Len(out)]
    BY <1>2, <2>2, ConcatProperties, Zenon
  <2>5. \A k \in 1..(Len(out) + i) : ~(k <= Len(out)) => k - Len(out) \in 1..i
    BY <1>2, <1>3
  <2> QED
    BY <2>2, <2>3, <2>4, <2>5
<1>6. SeqTypeOK'
  <2>1. idxNext' = idxNext + i /\ pushed' = pushed \union {game}
    BY <1>1
  <2>2. idxNext' \in Nat /\ pushed' \subseteq GameIdx
    BY <1>2, <2>1
  <2> QED
    BY <1>4, <1>5, <2>2 DEF SeqTypeOK
<1>7. \A k \in 1..n : q[k] < NGames
  <2>1. \A x \in Elements(vecQueued) \union {game} : x \in GameIdx
    BY <1>2 DEF SeqInv, NothingLost, Elements, Elems
  <2>2. \A k \in 1..n : q[k] \in Elements(vecQueued) \union {game}
    BY <1>1, <1>3 DEF Elements, Elems
  <2> QED
    BY <1>3, <2>1, <2>2, NGamesAssumption DEF GameIdx
<1>8. FileInOrder'
  <2>1. Len(out) = idxNext /\ \A k \in 1..Len(out) : out[k] = k - 1
    BY DEF SeqInv, FileInOrder
  <2>2. Len(out') = idxNext'
    BY <1>1, <1>5, <2>1
  <2>3. \A k \in 1..(Len(out) + i) : out'[k] = k - 1
    <3> TAKE k \in 1..(Len(out) + i)
    <3>1. CASE k <= Len(out)
      BY <1>2, <1>5, <2>1, <3>1
    <3>2. CASE ~(k <= Len(out))
      <4>1. k - Len(out) \in 1..i /\ out'[k] = q[k - Len(out)]
        BY <1>2, <1>3, <1>5, <3>2
      <4>2. q[k - Len(out)] = idxNext + ((k - Len(out)) - 1)
        BY <1>1, <4>1
      <4> QED
        BY <1>2, <2>1, <4>1, <4>2
    <3> QED
      BY <3>1, <3>2
  <2>4. idxNext' <= NGames
    <3>1. CASE i = 0
      BY <1>1, <1>2, <3>1 DEF SeqInv, FileInOrder
    <3>2. CASE i > 0
      <4>1. i \in 1..i /\ i \in 1..n
        BY <1>3, <3>2
      <4>2. q[i] = idxNext + (i - 1) /\ q[i] < NGames
        BY <1>1, <1>7, <4>1
      <4> QED
        BY <1>1, <1>2, <1>3, <4>2, NGamesAssumption
    <3> QED
      BY <1>3, <3>1, <3>2
  <2> QED
    BY <1>5, <2>2, <2>3, <2>4 DEF FileInOrder
<1>9. QueueBeyondGap'
  <2>1. \A k \in 1..(n - i) : i + k \in 1..n /\ vecQueued'[k] = q[i + k]
    BY <1>3, <1>4
  <2>2. \A j, k \in 1..n : j < k => q[j] < q[k]
    BY <1>1, <1>3 DEF Sorted, Increasing
  <2>3. ASSUME NEW k \in 1..(n - i)
        PROVE  vecQueued'[k] > idxNext'
    <3>1. i + 1 \in 1..n /\ q[i + 1] > idxNext + i /\ i + k \in 1..n
      BY <1>1, <1>3
    <3>2. k = 1 \/ q[i + 1] < q[i + k]
      <4>1. k = 1 \/ i + 1 < i + k
        BY <1>3
      <4> QED
        BY <2>2, <3>1, <4>1
    <3>3. q[i + 1] \in Nat /\ q[i + k] \in Nat
      BY <1>3, <3>1
    <3>4. q[i + k] > idxNext + i
      BY <1>2, <1>3, <3>1, <3>2, <3>3
    <3> QED
      BY <1>1, <2>1, <3>4
  <2>4. ASSUME NEW j \in 1..(n - i), NEW k \in 1..(n - i), j < k
        PROVE  vecQueued'[j] < vecQueued'[k]
    <3>1. i + j < i + k
      BY <1>3, <2>4
    <3> QED
      BY <2>1, <2>2, <3>1
  <2> QED
    BY <1>4, <2>3, <2>4 DEF QueueBeyondGap
<1>10. NothingLost'
  <2> DEFINE Waiting == {vecQueued'[k] : k \in 1..(n - i)}
             Written(m) == {k \in GameIdx : k < m}
  <2>1. pushed' = Written(idxNext) \union Elements(q)
    BY <1>1 DEF SeqInv, NothingLost, Elements, Elems
  <2>2. Elements(q) = {q[k] : k \in 1..n}
    BY <1>3 DEF Elements, Elems
  <2>3. ASSUME NEW k \in 1..n
        PROVE  q[k] \in Written(idxNext + i) \union Waiting
    <3>1. CASE k <= i
      <4>1. k \in 1..i /\ q[k] = idxNext + (k - 1)
        BY <1>1, <1>3, <3>1
      <4>2. q[k] \in GameIdx /\ q[k] < idxNext + i
        BY <1>2, <1>3, <1>7, <4>1, NGamesAssumption DEF GameIdx
      <4> QED
        BY <4>2
    <3>2. CASE ~(k <= i)
      <4>1. k - i \in 1..(n - i) /\ vecQueued'[k - i] = q[k]
        BY <1>3, <1>4, <3>2
      <4> QED
        BY <4>1
    <3> QED
      BY <3>1, <3>2
  <2>4. ASSUME NEW x \in Waiting
        PROVE  x \in Elements(q)
    <3>1. PICK k \in 1..(n - i) : x = vecQueued'[k]
      OBVIOUS
    <3>2. i + k \in 1..n /\ x = q[i + k]
      BY <1>3, <1>4, <3>1
    <3> QED
      BY <2>2, <3>2
  <2>5. ASSUME NEW x \in Written(idxNext + i), x >= idxNext
        PROVE  x \in Elements(q)
    <3>1. (x - idxNext) + 1 \in 1..i /\ (x - idxNext) + 1 \in 1..n
      BY <1>2, <1>3, <2>5, NGamesAssumption DEF GameIdx
    <3>2. q[(x - idxNext) + 1] = idxNext + (((x - idxNext) + 1) - 1)
      BY <1>1, <3>1
    <3>3. q[(x - idxNext) + 1] = x
      BY <1>2, <3>2, NGamesAssumption DEF GameIdx
    <3> QED
      BY <2>2, <3>1, <3>3
  <2>6. Written(idxNext) \subseteq Written(idxNext + i)
    BY <1>2, <1>3, NGamesAssumption DEF GameIdx
  <2>7. \A x \in Written(idxNext + i) :
          x \in Written(idxNext) \/ x \in Elements(q)
    BY <1>2, <1>3, <2>5, NGamesAssumption DEF GameIdx
  <2>8. Written(idxNext) \union Elements(q)
          = Written(idxNext + i) \union Waiting
    BY <2>2, <2>3, <2>4, <2>6, <2>7
  <2>9. Len(vecQueued') = n - i /\ idxNext' = idxNext + i
    BY <1>1, <1>4
  <2> QED
    BY <2>1, <2>8, <2>9 DEF NothingLost
<1> QED
  BY <1>6, <1>8, <1>9, <1>10 DEF SeqInv

\* Every step keeps the invariant.
LEMMA SeqNextInv == SeqInv /\ [SeqNext]_seqVars => SeqInv'
<1> SUFFICES ASSUME SeqInv, [SeqNext]_seqVars
             PROVE  SeqInv'
  OBVIOUS
<1>1. CASE SeqNext
  BY <1>1, PushKeepsInv DEF SeqNext
<1>2. CASE UNCHANGED seqVars
  BY <1>2 DEF seqVars, SeqInv, SeqTypeOK, FileInOrder, QueueBeyondGap,
              NothingLost
<1> QED
  BY <1>1, <1>2

\* The writer's invariant holds of every behaviour: the four parts below are
\* corollaries of it.
THEOREM SeqInvariance == SeqSpec => []SeqInv
  BY SeqInitInv, SeqNextInv, PTL DEF SeqSpec

\* seq_writer_push keeps its state well typed.
THEOREM SeqTypeCorrect == SeqSpec => []SeqTypeOK
<1>1. SeqInv => SeqTypeOK
  BY DEF SeqInv
<1> QED
  BY <1>1, SeqInvariance, PTL

\* The PGN file is always the run 0, 1, ..., idxNext - 1 of the games.
THEOREM SeqFileInOrder == SeqSpec => []FileInOrder
<1>1. SeqInv => FileInOrder
  BY DEF SeqInv
<1> QED
  BY <1>1, SeqInvariance, PTL

\* No text is lost between the queue and the file, and none is held back when
\* its turn has come.
THEOREM SeqKeepsTexts == SeqSpec => [](QueueBeyondGap /\ NothingLost)
<1>1. SeqInv => QueueBeyondGap /\ NothingLost
  BY DEF SeqInv
<1> QED
  BY <1>1, SeqInvariance, PTL

-----------------------------------------------------------------------------
\* The writer implements the abstract log: a push of the writer is a push of
\* the log, whatever the order in which the games end.
THEOREM SeqImplementsLog == SeqSpec => ImplementsLog
<1>1. SeqInit => Log!LogInit
  BY DEF SeqInit, Log!LogInit
<1>2. SeqInv => Log!IsFileOf(out, pushed)
  <2> SUFFICES ASSUME SeqInv
               PROVE  Log!IsFileOf(out, pushed)
    OBVIOUS
  <2>1. /\ out \in Seq(Nat) /\ idxNext \in Nat /\ Len(out) = idxNext
        /\ idxNext <= NGames
        /\ \A k \in 1..Len(out) : out[k] = k - 1
    BY DEF SeqInv, SeqTypeOK, FileInOrder
  <2>2. out = [k \in 1..Len(out) |-> k - 1]
    BY <2>1
  <2>3. \A k \in 0..(Len(out) - 1) : k \in pushed
    BY <2>1, NGamesAssumption DEF SeqInv, NothingLost, GameIdx
  <2>4. Len(out) \notin pushed
    BY <2>1 DEF SeqInv, NothingLost, QueueBeyondGap
  <2> QED
    BY <2>2, <2>3, <2>4 DEF Log!IsFileOf
<1>3. SeqInv' => Log!IsFileOf(out, pushed)'
  BY <1>2, PTL
<1>4. SeqInv /\ SeqInv' /\ [SeqNext]_seqVars => [Log!LogNext]_(Log!logVars)
  <2> SUFFICES ASSUME SeqInv, SeqInv', [SeqNext]_seqVars
               PROVE  [Log!LogNext]_(Log!logVars)
    OBVIOUS
  <2>1. ASSUME NEW game \in GameIdx, game \notin pushed, seq_writer_push(game)
        PROVE  Log!LogNext
    <3>1. pushed' = pushed \union {game}
      BY <2>1 DEF seq_writer_push
    <3>2. out' \in Seq(Nat)
      BY DEF SeqInv, SeqTypeOK
    <3>3. Log!IsFileOf(out', pushed')
      BY <1>3
    <3> QED
      BY <2>1, <3>1, <3>2, <3>3 DEF Log!LogNext, Log!LogPush
  <2>2. CASE UNCHANGED seqVars
    BY <2>2 DEF seqVars, Log!logVars
  <2> QED
    BY <2>1, <2>2 DEF SeqNext
<1> QED
  BY <1>1, <1>4, SeqInvariance, PTL DEF SeqSpec, ImplementsLog, Log!LogSpec

-----------------------------------------------------------------------------
(* Queue, workers and writer.                                              *)

\* A game in the hands of a worker was handed out, and its text is not
\* written before the worker has written it.
JobsInHand ==
    \A w \in Workers :
        /\ Uncounted(w) => job[w] \in GameIdx /\ job[w] < handed
        /\ Unwritten(w) => job[w] \notin pushed

\* The slots are filled in order, with the engines of the job.
SlotsFilled ==
    \A w \in Workers :
        /\ pc[w] \in {"engine", "name"} => slot[w] \in 0..1
        /\ pc[w] \in {"play", "pgn", "result"} => slot[w] = 2
        /\ Uncounted(w) =>
             \A i \in 0..1 :
                i < slot[w] \/ (i = slot[w] /\ pc[w] = "name")
                    => ei[w][i] = Jobs[job[w]].ei[i]

\* The process exits when every worker has.
JoinedAll == main = "exited" => \A w \in Workers : pc[w] = "done"

\* What relates games, workers and writer.
GamesInv ==
    SeqInv /\ HandedInOrder /\ NoneForgotten /\ OneWorkerPerGame /\ JobsInHand

TInv == TypeOK /\ GamesInv /\ SlotsFilled /\ JoinedAll

-----------------------------------------------------------------------------
(* Types.                                                                  *)

LEMMA TypeInit == Init => TypeOK
<1> SUFFICES ASSUME Init
             PROVE  TypeOK
  OBVIOUS
<1>1. SeqTypeOK
  BY SeqInitInv DEF Init, SeqInv
<1>2. idx \in 0..NGames /\ completed \in Nat /\ handed \in 0..NGames
  BY NGamesAssumption DEF Init
<1> QED
  BY <1>1, <1>2 DEF Init, TypeOK, Zero, Outcome, Location

\* Every step keeps the types, given what TInv says of jobs and slots.
LEMMA TypeStep ==
    ASSUME TInv, SeqTypeOK', [Next]_vars
    PROVE  TypeOK'
<1> USE NGamesAssumption, TournamentAssumption
<1>1. TypeOK /\ HandedInOrder /\ JobsInHand /\ SlotsFilled
  BY DEF TInv, GamesInv
<1>2. ASSUME NEW w \in Workers, PopJob(w)
      PROVE  TypeOK'
  BY <1>1, <1>2
     DEF TypeOK, PopJob, At, Goto, Location, HandedInOrder, mainVars
<1>3. ASSUME NEW w \in Workers, PopNone(w)
      PROVE  TypeOK'
  BY <1>1, <1>3 DEF TypeOK, PopNone, At, Goto, Location, mainVars, jqVars
<1>4. ASSUME NEW w \in Workers, KeepEngine(w)
      PROVE  TypeOK'
  <2>1. slot[w] \in 0..1
    BY <1>1, <1>4 DEF KeepEngine, At, SlotsFilled
  <2> QED
    BY <1>1, <1>4, <2>1
       DEF TypeOK, KeepEngine, NextSlot, Goto, Location, mainVars, jqVars
<1>5. ASSUME NEW w \in Workers, ReplaceEngine(w)
      PROVE  TypeOK'
  <2>1. slot[w] \in 0..1 /\ job[w] \in GameIdx
    BY <1>1, <1>5
       DEF ReplaceEngine, At, SlotsFilled, JobsInHand, Uncounted, Unwritten
  <2>2. Jobs[job[w]].ei[slot[w]] \in Engines
    BY <2>1
  <2>3. ei' \in [Workers -> [0..1 -> Engines \union {NoEngine}]]
    BY <1>1, <1>5, <2>1, <2>2 DEF TypeOK, ReplaceEngine
  <2> QED
    BY <1>1, <1>5, <2>3
       DEF TypeOK, ReplaceEngine, Goto, Location, mainVars, jqVars
<1>6. ASSUME NEW w \in Workers, SetName(w)
      PROVE  TypeOK'
  <2>1. slot[w] \in 0..1 /\ job[w] \in GameIdx
        /\ ei[w][slot[w]] = Jobs[job[w]].ei[slot[w]]
    BY <1>1, <1>6
       DEF SetName, At, SlotsFilled, JobsInHand, Uncounted, Unwritten
  <2>2. ei[w][slot[w]] \in Engines
    BY <2>1
  <2> QED
    BY <1>1, <1>6, <2>1, <2>2
       DEF TypeOK, SetName, NextSlot, Goto, Location, mainVars
<1>7. ASSUME NEW w \in Workers, Play(w)
      PROVE  TypeOK'
  <2>1. wld' \in [Workers -> Outcome] /\ outcome' \in [GameIdx -> Outcome]
    <3>1. PICK o \in Outcomes : /\ wld' = [wld EXCEPT ![w] = o]
                                /\ outcome' = [outcome EXCEPT ![job[w]] = o]
      BY <1>7 DEF Play
    <3>2. o \in Outcome
      OBVIOUS
    <3>3. wld \in [Workers -> Outcome] /\ outcome \in [GameIdx -> Outcome]
      BY <1>1 DEF TypeOK
    <3> QED
      BY <3>1, <3>2, <3>3
  <2> QED
    BY <1>1, <1>7, <2>1 DEF TypeOK, Play, Goto, Location, mainVars, jqVars
<1>8. ASSUME NEW w \in Workers, WritePgn(w)
      PROVE  TypeOK'
  BY <1>1, <1>8 DEF TypeOK, WritePgn, Goto, Location, mainVars, jqVars
<1>9. ASSUME NEW w \in Workers, AddResult(w)
      PROVE  TypeOK'
  <2>1. PICK p \in Pairs : p = Jobs[job[w]].pair
    BY <1>1, <1>9 DEF AddResult, At, JobsInHand, Uncounted
  <2>2. [results[p] EXCEPT ![wld[w]] = @ + 1] \in [Outcome -> Nat]
    BY <1>1 DEF TypeOK
  <2> QED
    BY <1>1, <1>9, <2>1, <2>2
       DEF TypeOK, AddResult, Counts, Goto, Location, mainVars
<1>10. ASSUME NEW w \in Workers, CheckSprt(w)
       PROVE  TypeOK'
  BY <1>1, <1>10 DEF TypeOK, CheckSprt, Stopped, Goto, Location, mainVars
<1>11. ASSUME NEW w \in Workers, PrintResults(w)
       PROVE  TypeOK'
  BY <1>1, <1>11 DEF TypeOK, PrintResults, Goto, Location, mainVars, jqVars
<1>12. ASSUME NEW w \in Workers, Quit(w)
       PROVE  TypeOK'
  BY <1>1, <1>12 DEF TypeOK, Quit, Goto, Location, mainVars, jqVars
<1>13. ASSUME NEW w \in Workers, EngineHangs(w)
       PROVE  TypeOK'
  BY <1>1, <1>13 DEF TypeOK, EngineHangs, workerVars, jqVars
<1>14. ASSUME NEW w \in Workers, DeadlinePasses(w)
       PROVE  TypeOK'
  BY <1>1, <1>14 DEF TypeOK, DeadlinePasses, workerVars, jqVars
<1>15. CASE Main
  BY <1>1, <1>15
     DEF TypeOK, Main, Watch, CheckDone, Join, workerVars, jqVars
<1>16. CASE UNCHANGED vars
  BY <1>1, <1>16 DEF TypeOK, vars, workerVars, jqVars, mainVars
<1> QED
  BY <1>2, <1>3, <1>4, <1>5, <1>6, <1>7, <1>8, <1>9, <1>10, <1>11, <1>12,
     <1>13, <1>14, <1>15, <1>16 DEF Next, Worker, Ended

-----------------------------------------------------------------------------
(* Games, workers and writer.                                              *)

LEMMA GamesInit == Init => GamesInv /\ SlotsFilled /\ JoinedAll
<1> SUFFICES ASSUME Init
             PROVE  GamesInv /\ SlotsFilled /\ JoinedAll
  OBVIOUS
<1> USE NGamesAssumption DEF Init
<1>1. SeqInv
  BY SeqInitInv
<1>2. \A w \in Workers : ~Unwritten(w) /\ ~Uncounted(w)
  BY DEF Unwritten, Uncounted
<1>3. HandedInOrder
  BY DEF HandedInOrder
<1>4. NoneForgotten
  BY <1>2 DEF NoneForgotten, SeqInit, GameIdx
<1>5. OneWorkerPerGame /\ JobsInHand
  BY <1>2 DEF OneWorkerPerGame, JobsInHand
<1>6. SlotsFilled /\ JoinedAll
  BY <1>2 DEF SlotsFilled, JoinedAll
<1> QED
  BY <1>1, <1>3, <1>4, <1>5, <1>6 DEF GamesInv

\* A step that moves no worker into or out of a game keeps the whole relation.
LEMMA GamesUntouched ==
    ASSUME GamesInv, UNCHANGED <<seqVars, job, handed>>, HandedInOrder',
           \A w \in Workers : (Unwritten(w)' <=> Unwritten(w))
                            /\ (Uncounted(w)' <=> Uncounted(w))
    PROVE  GamesInv'
<1> USE DEF seqVars
<1>1. SeqInv'
  BY DEF GamesInv, SeqInv, SeqTypeOK, FileInOrder, QueueBeyondGap, NothingLost
<1>2. {w \in Workers : Unwritten(w)}' = {w \in Workers : Unwritten(w)}
  OBVIOUS
<1>3. NoneForgotten'
  BY <1>2 DEF GamesInv, NoneForgotten
<1>4. OneWorkerPerGame'
  BY DEF GamesInv, OneWorkerPerGame
<1>5. JobsInHand'
  BY DEF GamesInv, JobsInHand
<1> QED
  BY <1>1, <1>3, <1>4, <1>5 DEF GamesInv

\* Handing out a game: its index is larger than every index handed out.
LEMMA GamesPop ==
    ASSUME TypeOK, GamesInv, NEW w \in Workers, PopJob(w)
    PROVE  GamesInv'
<1> USE NGamesAssumption
<1>1. /\ idx \in Nat /\ handed \in Nat /\ idx < NGames /\ handed = idx
      /\ job \in [Workers -> Nat] /\ pc \in [Workers -> Location]
      /\ pc[w] = "pop"
  BY DEF TypeOK, GamesInv, HandedInOrder, PopJob, At
<1>2. /\ idx' = idx + 1 /\ handed' = handed + 1
      /\ job' = [job EXCEPT ![w] = idx] /\ pc' = [pc EXCEPT ![w] = "engine"]
      /\ UNCHANGED seqVars
  BY DEF PopJob, Goto
<1>3. SeqInv'
  BY <1>2 DEF GamesInv, SeqInv, SeqTypeOK, FileInOrder, QueueBeyondGap,
              NothingLost, seqVars
<1>4. HandedInOrder'
  BY <1>1, <1>2 DEF HandedInOrder
<1>5. /\ job'[w] = handed /\ Unwritten(w)' /\ Uncounted(w)'
      /\ ~Unwritten(w) /\ ~Uncounted(w)
  BY <1>1, <1>2 DEF Unwritten, Uncounted
<1>6. \A v \in Workers \ {w} : /\ job'[v] = job[v]
                               /\ Unwritten(v)' <=> Unwritten(v)
                               /\ Uncounted(v)' <=> Uncounted(v)
  BY <1>1, <1>2 DEF Unwritten, Uncounted
<1>7. \A v \in Workers : Uncounted(v) => job[v] < handed
  BY DEF GamesInv, JobsInHand
<1>8. OneWorkerPerGame'
  <2> SUFFICES ASSUME NEW u \in Workers, NEW v \in Workers, u # v,
                      Uncounted(u)', Uncounted(v)'
               PROVE  job'[u] # job'[v]
    BY DEF OneWorkerPerGame
  <2>1. CASE u # w /\ v # w
    BY <1>6, <2>1 DEF GamesInv, OneWorkerPerGame
  <2>2. CASE u = w
    BY <1>1, <1>5, <1>6, <1>7, <2>2
  <2>3. CASE v = w
    BY <1>1, <1>5, <1>6, <1>7, <2>3
  <2> QED
    BY <2>1, <2>2, <2>3
<1>9. handed \in GameIdx /\ handed \notin pushed /\ pushed' = pushed
  <2>1. handed \notin {k \in GameIdx : k < handed}
    BY <1>1
  <2> QED
    BY <1>1, <1>2, <2>1 DEF GamesInv, NoneForgotten, GameIdx, seqVars
<1>10. JobsInHand'
  <2> SUFFICES ASSUME NEW v \in Workers
               PROVE  /\ Uncounted(v)' => job'[v] \in GameIdx
                                          /\ job'[v] < handed'
                      /\ Unwritten(v)' => job'[v] \notin pushed'
    BY DEF JobsInHand
  <2>1. CASE v = w
    BY <1>1, <1>2, <1>5, <1>9, <2>1
  <2>2. CASE v # w
    BY <1>1, <1>2, <1>6, <1>9, <2>2 DEF GamesInv, JobsInHand, GameIdx
  <2> QED
    BY <2>1, <2>2
<1>11. NoneForgotten'
  <2>1. {k \in GameIdx : k < handed'}
          = {k \in GameIdx : k < handed} \union {handed}
    BY <1>1, <1>2, <1>9 DEF GameIdx
  <2>2. {v \in Workers : Unwritten(v)}'
          = {v \in Workers : Unwritten(v)} \union {w}
    BY <1>5, <1>6
  <2>3. {job'[v] : v \in {v \in Workers : Unwritten(v)}'}
          = {job[v] : v \in {v \in Workers : Unwritten(v)}} \union {handed}
    BY <1>5, <1>6, <2>2
  <2> QED
    BY <1>9, <2>1, <2>3 DEF GamesInv, NoneForgotten
<1> QED
  BY <1>3, <1>4, <1>8, <1>10, <1>11 DEF GamesInv

\* The push of a game keeps the writer's own invariant, because no index is
\* pushed twice; the text moves from the worker to the writer.
LEMMA GamesWrite ==
    ASSUME TypeOK, GamesInv, NEW w \in Workers, WritePgn(w)
    PROVE  GamesInv' /\ job[w] \in GameIdx \ pushed
<1> USE NGamesAssumption
<1>1. /\ job \in [Workers -> Nat] /\ pc \in [Workers -> Location]
      /\ pc[w] = "pgn" /\ Unwritten(w) /\ Uncounted(w)
  BY DEF TypeOK, WritePgn, At, Unwritten, Uncounted
<1>2. /\ seq_writer_push(job[w]) /\ pc' = [pc EXCEPT ![w] = "result"]
      /\ job' = job /\ handed' = handed /\ idx' = idx
  BY DEF WritePgn, Goto, jqVars
<1>3. job[w] \in GameIdx /\ job[w] \notin pushed
  BY <1>1 DEF GamesInv, JobsInHand
<1>4. SeqInv'
  BY <1>2, <1>3, PushKeepsInv DEF GamesInv
<1>5. HandedInOrder'
  BY <1>2 DEF GamesInv, HandedInOrder
<1>6. ~Unwritten(w)' /\ Uncounted(w)'
  BY <1>1, <1>2 DEF Unwritten, Uncounted
<1>7. \A v \in Workers \ {w} : /\ Unwritten(v)' <=> Unwritten(v)
                               /\ Uncounted(v)' <=> Uncounted(v)
  BY <1>1, <1>2 DEF Unwritten, Uncounted
<1>8. OneWorkerPerGame'
  BY <1>1, <1>2, <1>6, <1>7 DEF GamesInv, OneWorkerPerGame
<1>9. pushed' = pushed \union {job[w]}
  BY <1>2 DEF seq_writer_push
<1>10. JobsInHand'
  <2> SUFFICES ASSUME NEW v \in Workers
               PROVE  /\ Uncounted(v)' => job'[v] \in GameIdx
                                          /\ job'[v] < handed'
                      /\ Unwritten(v)' => job'[v] \notin pushed'
    BY DEF JobsInHand
  <2>1. CASE v = w
    BY <1>1, <1>2, <1>6, <2>1 DEF GamesInv, JobsInHand
  <2>2. CASE v # w
    <3>1. Unwritten(v) => job[v] # job[w]
      BY <1>1, <2>2 DEF GamesInv, OneWorkerPerGame, Uncounted
    <3> QED
      BY <1>2, <1>7, <1>9, <2>2, <3>1 DEF GamesInv, JobsInHand
  <2> QED
    BY <2>1, <2>2
<1>11. NoneForgotten'
  <2>1. {v \in Workers : Unwritten(v)}
          = {v \in Workers : Unwritten(v)}' \union {w}
    BY <1>1, <1>6, <1>7
  <2>2. {job[v] : v \in {v \in Workers : Unwritten(v)}}
          = {job[v] : v \in {v \in Workers : Unwritten(v)}'} \union {job[w]}
    BY <2>1
  <2> QED
    BY <1>2, <1>9, <2>2 DEF GamesInv, NoneForgotten
<1> QED
  BY <1>3, <1>4, <1>5, <1>8, <1>10, <1>11 DEF GamesInv

\* A worker that counts its result leaves its game; its text is written.
LEMMA GamesCount ==
    ASSUME TypeOK, GamesInv, NEW w \in Workers, AddResult(w)
    PROVE  GamesInv'
<1>1. /\ pc \in [Workers -> Location] /\ pc[w] = "result"
      /\ pc' = [pc EXCEPT ![w] = "sprt"]
      /\ UNCHANGED <<seqVars, job, handed, idx>>
  BY DEF TypeOK, AddResult, At, Goto
<1>2. \A v \in Workers : /\ Unwritten(v)' <=> Unwritten(v)
                         /\ Uncounted(v)' => Uncounted(v)
  BY <1>1 DEF Unwritten, Uncounted
<1>3. SeqInv'
  BY <1>1 DEF GamesInv, SeqInv, SeqTypeOK, FileInOrder, QueueBeyondGap,
              NothingLost, seqVars
<1>4. HandedInOrder'
  BY <1>1 DEF GamesInv, HandedInOrder
<1>5. {v \in Workers : Unwritten(v)}' = {v \in Workers : Unwritten(v)}
  BY <1>2
<1>6. NoneForgotten'
  BY <1>1, <1>5 DEF GamesInv, NoneForgotten, seqVars
<1>7. OneWorkerPerGame' /\ JobsInHand'
  BY <1>1, <1>2 DEF GamesInv, OneWorkerPerGame, JobsInHand, seqVars
<1> QED
  BY <1>3, <1>4, <1>6, <1>7 DEF GamesInv

LEMMA GamesStep ==
    ASSUME TypeOK, GamesInv, [Next]_vars
    PROVE  GamesInv'
<1> USE NGamesAssumption
<1>1. /\ pc \in [Workers -> Location] /\ idx \in 0..NGames
      /\ handed \in 0..NGames
      /\ HandedInOrder
  BY DEF TypeOK, GamesInv
<1>2. ASSUME NEW w \in Workers, PopNone(w)
      PROVE  GamesInv'
  BY <1>1, <1>2, GamesUntouched
     DEF PopNone, At, Goto, jqVars, HandedInOrder, Unwritten, Uncounted
<1>3. ASSUME NEW w \in Workers, KeepEngine(w) \/ SetName(w)
      PROVE  GamesInv'
  BY <1>1, <1>3, GamesUntouched
     DEF KeepEngine, SetName, NextSlot, At, Goto, jqVars, HandedInOrder,
         Unwritten, Uncounted
<1>4. ASSUME NEW w \in Workers, ReplaceEngine(w) \/ Play(w)
      PROVE  GamesInv'
  BY <1>1, <1>4, GamesUntouched
     DEF ReplaceEngine, Play, At, Goto, jqVars, HandedInOrder, Unwritten,
         Uncounted
<1>5. ASSUME NEW w \in Workers, CheckSprt(w)
      PROVE  GamesInv'
  <2>1. HandedInOrder'
    BY <1>1, <1>5 DEF CheckSprt, Stopped, HandedInOrder
  <2> QED
    BY <1>1, <1>5, <2>1, GamesUntouched
       DEF CheckSprt, At, Goto, Unwritten, Uncounted
<1>6. ASSUME NEW w \in Workers, PrintResults(w) \/ Quit(w)
      PROVE  GamesInv'
  BY <1>1, <1>6, GamesUntouched
     DEF PrintResults, Quit, At, Goto, jqVars, HandedInOrder, Unwritten,
         Uncounted
<1>7. ASSUME NEW w \in Workers, EngineHangs(w) \/ DeadlinePasses(w)
      PROVE  GamesInv'
  BY <1>1, <1>7, GamesUntouched
     DEF EngineHangs, DeadlinePasses, jqVars, workerVars, HandedInOrder,
         Unwritten, Uncounted
<1>8. CASE Main
  BY <1>1, <1>8, GamesUntouched
     DEF Main, Watch, CheckDone, Join, jqVars, workerVars, HandedInOrder,
         Unwritten, Uncounted
<1>9. CASE UNCHANGED vars
  BY <1>1, <1>9, GamesUntouched
     DEF vars, jqVars, workerVars, HandedInOrder, Unwritten, Uncounted
<1> QED
  BY <1>2, <1>3, <1>4, <1>5, <1>6, <1>7, <1>8, <1>9, GamesPop, GamesWrite,
     GamesCount
     DEF Next, Worker, Ended

-----------------------------------------------------------------------------
(* Engines, and the end.                                                   *)

\* Only the actions that fill a slot, or that start or end a game, touch what
\* SlotsFilled says; each is an action of the worker whose slots they are.
LEMMA SlotsStep ==
    ASSUME TInv, [Next]_vars
    PROVE  SlotsFilled'
<1> USE NGamesAssumption, TournamentAssumption
<1>1. /\ pc \in [Workers -> Location] /\ slot \in [Workers -> 0..2]
      /\ job \in [Workers -> Nat]
      /\ ei \in [Workers -> [0..1 -> Engines \union {NoEngine}]]
      /\ SlotsFilled
  BY DEF TInv, TypeOK
<1>2. ASSUME NEW w \in Workers, PopJob(w)
      PROVE  SlotsFilled'
  BY <1>1, <1>2 DEF SlotsFilled, PopJob, At, Goto, Uncounted, Unwritten
<1>3. ASSUME NEW w \in Workers, PopNone(w)
      PROVE  SlotsFilled'
  BY <1>1, <1>3 DEF SlotsFilled, PopNone, At, Goto, Uncounted, Unwritten
<1>4. ASSUME NEW w \in Workers, KeepEngine(w)
      PROVE  SlotsFilled'
  BY <1>1, <1>4
     DEF SlotsFilled, KeepEngine, RunsItsEngine, NextSlot, At, Goto, Uncounted, Unwritten
<1>5. ASSUME NEW w \in Workers, ReplaceEngine(w)
      PROVE  SlotsFilled'
  BY <1>1, <1>5 DEF SlotsFilled, ReplaceEngine, At, Goto, Uncounted, Unwritten
<1>6. ASSUME NEW w \in Workers, SetName(w)
      PROVE  SlotsFilled'
  BY <1>1, <1>6
     DEF SlotsFilled, SetName, NextSlot, At, Goto, Uncounted, Unwritten
<1>7. ASSUME NEW w \in Workers, Play(w) \/ WritePgn(w)
      PROVE  SlotsFilled'
  BY <1>1, <1>7
     DEF SlotsFilled, Play, WritePgn, At, Goto, Uncounted, Unwritten
<1>8. ASSUME NEW w \in Workers,
             AddResult(w) \/ CheckSprt(w) \/ PrintResults(w) \/ Quit(w)
      PROVE  SlotsFilled'
  BY <1>1, <1>8
     DEF SlotsFilled, AddResult, CheckSprt, PrintResults, Quit, At, Goto,
         Uncounted, Unwritten
<1>9. CASE UNCHANGED workerVars
  BY <1>1, <1>9 DEF SlotsFilled, workerVars, Uncounted, Unwritten
<1>10. ASSUME NEW w \in Workers, EngineHangs(w) \/ DeadlinePasses(w)
       PROVE  UNCHANGED workerVars
  BY <1>10 DEF EngineHangs, DeadlinePasses
<1>11. Main => UNCHANGED workerVars
  BY DEF Main, Watch, CheckDone, Join
<1>12. UNCHANGED vars => UNCHANGED workerVars
  BY DEF vars
<1> QED
  BY <1>2, <1>3, <1>4, <1>5, <1>6, <1>7, <1>8, <1>9, <1>10, <1>11, <1>12
     DEF Next, Worker, Ended

\* No worker moves once the process has exited.
LEMMA JoinStep ==
    ASSUME JoinedAll, [Next]_vars
    PROVE  JoinedAll'
<1>1. ASSUME NEW w \in Workers, Worker(w)
      PROVE  JoinedAll'
  BY <1>1
     DEF JoinedAll, Worker, PopJob, PopNone, KeepEngine, ReplaceEngine,
         SetName, Play, WritePgn, AddResult, CheckSprt, PrintResults, Quit, At,
         Alive, mainVars
<1>2. ASSUME NEW w \in Workers, EngineHangs(w) \/ DeadlinePasses(w)
      PROVE  JoinedAll'
  BY <1>2 DEF JoinedAll, EngineHangs, DeadlinePasses, workerVars
<1>3. CASE Main
  BY <1>3 DEF JoinedAll, Main, Watch, CheckDone, Join, Joined, workerVars
<1>4. CASE UNCHANGED vars
  BY <1>4 DEF JoinedAll, vars, workerVars, mainVars
<1> QED
  BY <1>1, <1>2, <1>3, <1>4 DEF Next, Ended

-----------------------------------------------------------------------------
(* The theorems.                                                           *)

LEMMA TournamentStep == TInv /\ [Next]_vars => TInv'
<1> SUFFICES ASSUME TInv, [Next]_vars
             PROVE  TInv'
  OBVIOUS
<1>1. GamesInv'
  BY GamesStep DEF TInv
<1>2. SeqTypeOK'
  BY <1>1 DEF GamesInv, SeqInv
<1>3. TypeOK'
  BY <1>2, TypeStep
<1>4. SlotsFilled' /\ JoinedAll'
  BY SlotsStep, JoinStep DEF TInv
<1> QED
  BY <1>1, <1>3, <1>4 DEF TInv

\* The invariant holds of every behaviour of the tournament, hanging engines
\* and early stops included.
THEOREM TournamentInvariance == Spec => []TInv
<1>1. Init => TInv
  BY TypeInit, GamesInit DEF TInv
<1> QED
  BY <1>1, TournamentStep, PTL DEF Spec

\* The state of queue, workers and main thread stays well typed: no index
\* leaves the job list, no slot its two engines.
THEOREM TournamentTypeCorrect == Spec => []TypeOK
<1>1. TInv => TypeOK
  BY DEF TInv
<1> QED
  BY <1>1, TournamentInvariance, PTL

\* job_queue_pop never gives one game to two workers, every game it gives out
\* is in a worker's hands or with the writer, and the numbering has no gap.
THEOREM GamesAreAccountedFor == Spec => []GamesAccounted
<1>1. TInv => GamesAccounted
  BY DEF TInv, GamesInv, GamesAccounted
<1> QED
  BY <1>1, TournamentInvariance, PTL

\* thread_start replaces the engines one slot at a time and keeps those it
\* can; the game is always played by the two engines of the job.
THEOREM RightEnginesAlwaysPlay == Spec => []RightEnginesPlay
<1>1. TInv => RightEnginesPlay
  <2> SUFFICES ASSUME TInv, NEW w \in Workers,
                      pc[w] \in {"play", "pgn", "result"}
               PROVE  ei[w] = Jobs[job[w]].ei
    BY DEF RightEnginesPlay
  <2>1. slot[w] = 2 /\ Uncounted(w)
    BY DEF TInv, SlotsFilled, Uncounted, Unwritten
  <2>2. job[w] \in GameIdx
    BY <2>1 DEF TInv, GamesInv, JobsInHand
  <2>3. Jobs[job[w]].ei \in [0..1 -> Engines]
    BY <2>2, TournamentAssumption
  <2>4. ei[w] \in [0..1 -> Engines \union {NoEngine}]
    BY DEF TInv, TypeOK
  <2>5. \A i \in 0..1 : ei[w][i] = Jobs[job[w]].ei[i]
    BY <2>1 DEF TInv, SlotsFilled
  <2> QED
    BY <2>3, <2>4, <2>5
<1> QED
  BY <1>1, TournamentInvariance, PTL

\* After a normal exit the PGN file holds the games handed out, all of them,
\* in order, whichever games were being played when the SPRT stopped the rest.
THEOREM PgnIsComplete == Spec => []PgnComplete
<1>1. TInv => PgnComplete
  <2> SUFFICES ASSUME TInv, main = "exited"
               PROVE  out = [k \in 1..handed |-> k - 1] /\ vecQueued = <<>>
    BY DEF PgnComplete
  <2> USE NGamesAssumption
  <2>1. \A w \in Workers : ~Unwritten(w)
    BY DEF TInv, JoinedAll, Unwritten
  <2>2. pushed = {k \in GameIdx : k < handed}
    BY <2>1 DEF TInv, GamesInv, NoneForgotten
  <2>3. /\ vecQueued \in Seq(Nat) /\ out \in Seq(Nat)
        /\ idxNext \in Nat /\ idxNext <= NGames /\ handed \in 0..NGames
        /\ Len(out) = idxNext /\ \A k \in 1..Len(out) : out[k] = k - 1
        /\ \A k \in 1..Len(vecQueued) : vecQueued[k] > idxNext
        /\ pushed = {k \in GameIdx : k < idxNext}
                       \union {vecQueued[k] : k \in 1..Len(vecQueued)}
    BY DEF TInv, TypeOK, GamesInv, SeqInv, SeqTypeOK, FileInOrder,
           QueueBeyondGap, NothingLost
  <2>4. idxNext \notin pushed
    BY <2>3
  <2>5. idxNext >= handed
    BY <2>2, <2>3, <2>4 DEF GameIdx
  <2>6. idxNext <= handed
    <3> SUFFICES ASSUME idxNext > handed
                 PROVE  FALSE
      BY <2>3
    <3>1. idxNext - 1 \in GameIdx /\ idxNext - 1 < idxNext
      BY <2>3 DEF GameIdx
    <3>2. idxNext - 1 \in pushed
      BY <2>3, <3>1
    <3> QED
      BY <2>2, <2>3, <3>2
  <2>7. Len(vecQueued) = 0
    <3> SUFFICES ASSUME Len(vecQueued) # 0
                 PROVE  FALSE
      OBVIOUS
    <3>1. 1 \in 1..Len(vecQueued)
      BY <2>3
    <3>2. vecQueued[1] \in pushed /\ vecQueued[1] > idxNext
      BY <2>3, <3>1
    <3> QED
      BY <2>2, <2>3, <2>5, <3>1, <3>2
  <2>8. Len(out) = handed
    BY <2>3, <2>5, <2>6
  <2>9. out = [k \in 1..handed |-> k - 1]
    BY <2>3, <2>8
  <2> QED
    BY <2>3, <2>7, <2>9
<1> QED
  BY <1>1, TournamentInvariance, PTL

\* Once job_queue_stop has run, or the last job is out, no game is handed out.
THEOREM StopStaysFinal == Spec => StopIsFinal
<1>1. ASSUME [Next]_vars
      PROVE  [idx = NGames => idx' = NGames /\ handed' = handed]_vars
  <2> SUFFICES ASSUME idx = NGames
               PROVE  idx' = NGames /\ handed' = handed
    OBVIOUS
  <2>1. ASSUME NEW w \in Workers, Worker(w)
        PROVE  idx' = NGames /\ handed' = handed
    <3>1. CASE PopJob(w)
      BY <3>1, NGamesAssumption DEF PopJob
    <3>2. CASE CheckSprt(w)
      BY <3>2 DEF CheckSprt, Stopped
    <3>3. CASE PopNone(w) \/ KeepEngine(w) \/ ReplaceEngine(w) \/ SetName(w)
      BY <3>3 DEF PopNone, KeepEngine, ReplaceEngine, SetName, jqVars
    <3>4. CASE Play(w) \/ WritePgn(w) \/ AddResult(w)
      BY <3>4 DEF Play, WritePgn, AddResult, jqVars
    <3>5. CASE PrintResults(w) \/ Quit(w)
      BY <3>5 DEF PrintResults, Quit, jqVars
    <3> QED
      BY <2>1, <3>1, <3>2, <3>3, <3>4, <3>5 DEF Worker
  <2>2. ASSUME NEW w \in Workers, EngineHangs(w) \/ DeadlinePasses(w)
        PROVE  idx' = NGames /\ handed' = handed
    BY <2>2 DEF EngineHangs, DeadlinePasses, jqVars
  <2>3. CASE Main
    BY <2>3 DEF Main, Watch, CheckDone, Join, jqVars
  <2>4. CASE UNCHANGED vars
    BY <2>4 DEF vars, jqVars
  <2> QED
    BY <1>1, <2>1, <2>2, <2>3, <2>4 DEF Next, Ended
<1> QED
  BY <1>1, PTL DEF Spec, StopIsFinal

-----------------------------------------------------------------------------
(* Composition: the workers use the writer as its specification assumes.   *)

\* Each step of the tournament is one push of an index not pushed before, or
\* leaves the writer alone.
LEMMA WriterStep ==
    ASSUME TInv, [Next]_vars
    PROVE  [SeqNext]_seqVars
<1>1. ASSUME NEW w \in Workers, WritePgn(w)
      PROVE  SeqNext
  <2>1. job[w] \in GameIdx \ pushed
    BY <1>1, GamesWrite DEF TInv
  <2> QED
    BY <1>1, <2>1 DEF WritePgn, SeqNext
<1>2. ASSUME NEW w \in Workers, Worker(w), ~WritePgn(w)
      PROVE  UNCHANGED seqVars
  BY <1>2
     DEF Worker, PopJob, PopNone, KeepEngine, ReplaceEngine, SetName, Play,
         AddResult, CheckSprt, PrintResults, Quit
<1>3. ASSUME NEW w \in Workers, EngineHangs(w) \/ DeadlinePasses(w)
      PROVE  UNCHANGED seqVars
  BY <1>3 DEF EngineHangs, DeadlinePasses
<1>4. Main => UNCHANGED seqVars
  BY DEF Main, Watch, CheckDone, Join
<1>5. UNCHANGED vars => UNCHANGED seqVars
  BY DEF vars
<1> QED
  BY <1>1, <1>2, <1>3, <1>4, <1>5 DEF Next, Ended

\* The tournament implements the writer's specification: what SeqImplementsLog
\* proves of the writer alone holds of it among the workers.
THEOREM WorkersKeepContract == Spec => WriterContract
<1>1. Init => SeqInit
  BY DEF Init
<1> QED
  BY <1>1, WriterStep, TournamentInvariance, PTL
     DEF Spec, WriterContract, SeqSpec

\* And so the tournament as a whole implements the abstract ordered log.
THEOREM TournamentImplementsLog == Spec => ImplementsLog
  BY WorkersKeepContract, SeqImplementsLog, PTL DEF WriterContract

-----------------------------------------------------------------------------
(* The scores that job_queue_add_result keeps, and the standings that      *)
(* job_queue_print_results prints.                                         *)
(*                                                                         *)
(* Both rest on TInv.  The scores are an invariant relative to it and to   *)
(* OutcomesKept, what a worker remembers of the game it has played.  For   *)
(* the standings one has to know besides where the last update can come    *)
(* from (LastUpdate), that no game is left when the workers are joined     *)
(* (QueueEmptied), and whose name is known (NamesKnown).                   *)

\* The workers that hold a game, and the games of pair p that count and ended
\* with outcome o.
Busy == {w \in Workers : Uncounted(w)}

GamesOf(p, o) ==
    {k \in 0..(handed - 1) : /\ Jobs[k].pair = p /\ outcome[k] = o
                             /\ \A w \in Workers : Uncounted(w) => job[w] # k}

\* The outcome a worker carries to the counts is that of the game it carries.
OutcomesKept ==
    \A w \in Workers : pc[w] \in {"pgn", "result"} => wld[w] = outcome[job[w]]

LEMMA ScoresMean ==
    ScoresMatchGames <=>
        /\ \A p \in Pairs, o \in Outcome :
              results[p][o] = Cardinality(GamesOf(p, o))
        /\ completed = handed - Cardinality(Busy)
  BY DEF ScoresMatchGames, GamesOf, Busy

LEMMA BusyFinite == IsFiniteSet(Busy) /\ Cardinality(Busy) \in Nat
<1>1. Busy \in SUBSET Workers
  BY DEF Busy
<1>2. IsFiniteSet(Busy)
  BY <1>1, FS_Subset, TournamentAssumption
<1> QED
  BY <1>2, FS_CardinalityType

LEMMA GamesOfFinite ==
    ASSUME handed \in Nat, NEW p, NEW o
    PROVE  IsFiniteSet(GamesOf(p, o)) /\ Cardinality(GamesOf(p, o)) \in Nat
<1>1. IsFiniteSet(0..(handed - 1))
  BY FS_Interval
<1>2. GamesOf(p, o) \in SUBSET (0..(handed - 1))
  BY DEF GamesOf
<1>3. IsFiniteSet(GamesOf(p, o))
  BY <1>1, <1>2, FS_Subset
<1> QED
  BY <1>3, FS_CardinalityType

LEMMA ScoresInit == Init => ScoresMatchGames
<1> SUFFICES ASSUME Init
             PROVE  ScoresMatchGames
  OBVIOUS
<1>1. Busy = {}
  BY DEF Init, Busy, Uncounted, Unwritten
<1>2. \A p, o : GamesOf(p, o) = {}
  BY DEF Init, GamesOf
<1>3. Cardinality(Busy) = 0 /\ \A p, o : Cardinality(GamesOf(p, o)) = 0
  BY <1>1, <1>2, FS_EmptySet
<1>4. \A p \in Pairs, o \in Outcome : results[p][o] = 0
  BY DEF Init, Zero
<1>5. completed = 0 /\ handed = 0
  BY DEF Init
<1> QED
  BY <1>3, <1>4, <1>5, ScoresMean

\* Handing out a game makes one worker busy with a game that does not count.
LEMMA ScoresPop ==
    ASSUME TypeOK, GamesInv, ScoresMatchGames, NEW w \in Workers, PopJob(w)
    PROVE  ScoresMatchGames'
<1> USE NGamesAssumption
<1>1. /\ handed \in Nat /\ handed = idx /\ completed \in Nat
      /\ job \in [Workers -> Nat] /\ pc \in [Workers -> Location]
      /\ pc[w] = "pop"
  BY DEF TypeOK, GamesInv, HandedInOrder, PopJob, At
<1>2. /\ handed' = handed + 1 /\ job' = [job EXCEPT ![w] = idx]
      /\ pc' = [pc EXCEPT ![w] = "engine"]
      /\ completed' = completed /\ results' = results /\ outcome' = outcome
  BY DEF PopJob, Goto
<1>3. ~Uncounted(w) /\ Uncounted(w)' /\ job'[w] = handed
  BY <1>1, <1>2 DEF Unwritten, Uncounted
<1>4. \A v \in Workers \ {w} : /\ Uncounted(v)' <=> Uncounted(v)
                               /\ job'[v] = job[v]
  BY <1>1, <1>2 DEF Unwritten, Uncounted
<1>5. Busy' = Busy \union {w} /\ w \notin Busy
  BY <1>3, <1>4 DEF Busy
<1>6. Cardinality(Busy') = Cardinality(Busy) + 1
  BY <1>5, BusyFinite, FS_AddElement
<1>7. ASSUME NEW p \in Pairs, NEW o \in Outcome
      PROVE  GamesOf(p, o)' = GamesOf(p, o)
  <2>1. ASSUME NEW k \in 0..(handed' - 1)
        PROVE  (\A v \in Workers : Uncounted(v)' => job'[v] # k)
                 <=> /\ k \in 0..(handed - 1)
                     /\ \A v \in Workers : Uncounted(v) => job[v] # k
    BY <1>1, <1>2, <1>3, <1>4
  <2>2. 0..(handed - 1) \subseteq 0..(handed' - 1)
    BY <1>1, <1>2
  <2> QED
    BY <1>2, <2>1, <2>2 DEF GamesOf
<1>8. \A p \in Pairs, o \in Outcome : results'[p][o] = Cardinality(GamesOf(p, o)')
  BY <1>2, <1>7, ScoresMean
<1>9. completed' = handed' - Cardinality(Busy')
  BY <1>1, <1>2, <1>6, ScoresMean, BusyFinite
<1> QED
  BY <1>8, <1>9 DEF ScoresMatchGames, GamesOf, Busy

\* Counting a game frees its worker, and adds one to its pair's score, under the
\* outcome the game had.
LEMMA ScoresCount ==
    ASSUME TypeOK, GamesInv, ScoresMatchGames, OutcomesKept,
           NEW w \in Workers, AddResult(w)
    PROVE  ScoresMatchGames'
<1> USE NGamesAssumption, TournamentAssumption
<1>1. /\ handed \in 0..NGames /\ completed \in Nat /\ wld[w] \in Outcome
      /\ results \in [Pairs -> [Outcome -> Nat]]
      /\ job \in [Workers -> Nat] /\ pc \in [Workers -> Location]
      /\ pc[w] = "result" /\ Uncounted(w)
  BY DEF TypeOK, AddResult, At, Uncounted
<1>2. /\ handed' = handed /\ job' = job /\ completed' = completed + 1
      /\ outcome' = outcome
      /\ pc' = [pc EXCEPT ![w] = "sprt"]
  BY DEF AddResult, Goto
<1>3. ~Uncounted(w)' /\ \A v \in Workers \ {w} : Uncounted(v)' <=> Uncounted(v)
  BY <1>1, <1>2 DEF Unwritten, Uncounted
<1>4. job[w] \in GameIdx /\ job[w] \in 0..(handed - 1)
  BY <1>1 DEF GamesInv, JobsInHand
<1>5. PICK q \in Pairs, r \in Outcome :
         q = Jobs[job[w]].pair /\ r = outcome[job[w]] /\ r = wld[w]
  BY <1>1, <1>4 DEF OutcomesKept
<1>6. Busy' = Busy \ {w} /\ w \in Busy
  BY <1>1, <1>3 DEF Busy
<1>7. Cardinality(Busy') = Cardinality(Busy) - 1
  BY <1>6, BusyFinite, FS_RemoveElement
<1>8. completed' = handed' - Cardinality(Busy')
  BY <1>1, <1>2, <1>7, ScoresMean, BusyFinite
<1>9. \A k \in 0..(handed - 1) :
         (\A v \in Workers : Uncounted(v)' => job'[v] # k)
           <=> \/ k = job[w]
               \/ \A v \in Workers : Uncounted(v) => job[v] # k
  <2>1. \A v \in Workers \ {w} : Uncounted(v) => job[v] # job[w]
    BY <1>1 DEF GamesInv, OneWorkerPerGame
  <2> QED
    BY <1>1, <1>2, <1>3, <2>1
<1>10. job[w] \notin GamesOf(q, r)
  BY <1>1 DEF GamesOf
<1>11. GamesOf(q, r)' = GamesOf(q, r) \union {job[w]}
  BY <1>2, <1>4, <1>5, <1>9 DEF GamesOf
<1>12. ASSUME NEW p \in Pairs, NEW o \in Outcome, p # q \/ o # r
       PROVE  GamesOf(p, o)' = GamesOf(p, o)
  BY <1>2, <1>5, <1>9, <1>12 DEF GamesOf
<1>13. Cardinality(GamesOf(q, r)') = Cardinality(GamesOf(q, r)) + 1
  <2>1. IsFiniteSet(GamesOf(q, r))
    BY <1>1, GamesOfFinite
  <2>2. Cardinality(GamesOf(q, r) \union {job[w]}) = Cardinality(GamesOf(q, r)) + 1
    BY <1>10, <2>1, FS_AddElement
  <2> QED
    BY <1>11, <2>2
<1>14. results' = [results EXCEPT ![q] = [results[q] EXCEPT ![r] = @ + 1]]
  BY <1>5 DEF AddResult, Counts
<1>15. results'[q][r] = results[q][r] + 1
  BY <1>1, <1>14
<1>16. ASSUME NEW p \in Pairs, NEW o \in Outcome, p # q \/ o # r
       PROVE  results'[p][o] = results[p][o]
  BY <1>1, <1>14, <1>16
<1>17. ASSUME NEW p \in Pairs, NEW o \in Outcome
       PROVE  results'[p][o] = Cardinality(GamesOf(p, o)')
  <2>1. results[p][o] = Cardinality(GamesOf(p, o))
    BY ScoresMean
  <2>2. CASE p = q /\ o = r
    BY <1>13, <1>15, <2>1, <2>2
  <2>3. CASE p # q \/ o # r
    BY <1>12, <1>16, <2>1, <2>3
  <2> QED
    BY <2>2, <2>3
<1> QED
  BY <1>8, <1>17 DEF ScoresMatchGames, GamesOf, Busy

\* A game that is being played does not count yet, so its outcome disturbs no
\* score.
LEMMA ScoresPlay ==
    ASSUME TypeOK, GamesInv, ScoresMatchGames, NEW w \in Workers, Play(w)
    PROVE  ScoresMatchGames'
<1>1. /\ pc \in [Workers -> Location] /\ outcome \in [GameIdx -> Outcome]
      /\ pc[w] = "play" /\ Uncounted(w) /\ handed \in 0..NGames
  BY DEF TypeOK, Play, At, Uncounted, Unwritten
<1>2. /\ UNCHANGED <<results, completed, handed, job>>
      /\ \A v \in Workers : Uncounted(v)' <=> Uncounted(v)
  BY <1>1 DEF Play, Goto, jqVars, Uncounted, Unwritten
<1>3. \A k \in 0..(handed - 1) : k # job[w] => outcome'[k] = outcome[k]
  BY <1>1, NGamesAssumption DEF Play
<1>4. \A p, o : GamesOf(p, o)' = GamesOf(p, o)
  BY <1>1, <1>2, <1>3 DEF GamesOf
<1>5. Busy' = Busy
  BY <1>2 DEF Busy
<1>6. \A p \in Pairs, o \in Outcome : results'[p][o] = Cardinality(GamesOf(p, o)')
  BY <1>2, <1>4, ScoresMean
<1>7. completed' = handed' - Cardinality(Busy')
  BY <1>2, <1>5, ScoresMean
<1> QED
  BY <1>6, <1>7 DEF ScoresMatchGames, GamesOf, Busy

\* A step that moves no worker into or out of a game keeps the scores.
LEMMA ScoresUntouched ==
    ASSUME ScoresMatchGames, UNCHANGED <<results, completed, handed, outcome, job>>,
           \A w \in Workers : Uncounted(w)' <=> Uncounted(w)
    PROVE  ScoresMatchGames'
<1>1. Busy' = Busy
  BY DEF Busy
<1>2. \A p, o : GamesOf(p, o)' = GamesOf(p, o)
  BY DEF GamesOf
<1>3. \A p \in Pairs, o \in Outcome : results'[p][o] = Cardinality(GamesOf(p, o)')
  BY <1>2, ScoresMean
<1>4. completed' = handed' - Cardinality(Busy')
  BY <1>1, ScoresMean
<1> QED
  BY <1>3, <1>4 DEF ScoresMatchGames, GamesOf, Busy

LEMMA ScoresStep ==
    ASSUME TypeOK, GamesInv, ScoresMatchGames, OutcomesKept, [Next]_vars
    PROVE  ScoresMatchGames'
<1>1. pc \in [Workers -> Location]
  BY DEF TypeOK
<1>2. ASSUME NEW w \in Workers,
             PopNone(w) \/ KeepEngine(w) \/ ReplaceEngine(w) \/ SetName(w)
      PROVE  ScoresMatchGames'
  BY <1>1, <1>2, ScoresUntouched
     DEF PopNone, KeepEngine, ReplaceEngine, SetName, NextSlot, At, Goto,
         jqVars, Unwritten, Uncounted
<1>3. ASSUME NEW w \in Workers,
             WritePgn(w) \/ CheckSprt(w) \/ PrintResults(w) \/ Quit(w)
      PROVE  ScoresMatchGames'
  BY <1>1, <1>3, ScoresUntouched
     DEF WritePgn, CheckSprt, PrintResults, Quit, At, Goto, jqVars,
         Unwritten, Uncounted
<1>4. ASSUME NEW w \in Workers, EngineHangs(w) \/ DeadlinePasses(w)
      PROVE  ScoresMatchGames'
  BY <1>4, ScoresUntouched
     DEF EngineHangs, DeadlinePasses, jqVars, workerVars, Unwritten, Uncounted
<1>5. CASE Main
  BY <1>5, ScoresUntouched
     DEF Main, Watch, CheckDone, Join, jqVars, workerVars, Unwritten, Uncounted
<1>6. CASE UNCHANGED vars
  BY <1>6, ScoresUntouched DEF vars, jqVars, workerVars, Unwritten, Uncounted
<1> QED
  BY <1>2, <1>3, <1>4, <1>5, <1>6, ScoresPop, ScoresPlay, ScoresCount
     DEF Next, Worker, Ended

\* The game a worker has played is no other worker's, so no other worker can
\* change its outcome.
LEMMA OutcomesKeptStep ==
    ASSUME TypeOK, GamesInv, OutcomesKept, [Next]_vars
    PROVE  OutcomesKept'
<1>1. /\ pc \in [Workers -> Location] /\ wld \in [Workers -> Outcome]
      /\ outcome \in [GameIdx -> Outcome] /\ job \in [Workers -> Nat]
  BY DEF TypeOK
<1>2. ASSUME NEW w \in Workers, Play(w)
      PROVE  OutcomesKept'
  <2>1. PICK o \in Outcomes : /\ wld' = [wld EXCEPT ![w] = o]
                              /\ outcome' = [outcome EXCEPT ![job[w]] = o]
    BY <1>2 DEF Play
  <2>2. /\ job' = job /\ pc' = [pc EXCEPT ![w] = "pgn"]
        /\ Uncounted(w) /\ job[w] \in GameIdx
    BY <1>2 DEF Play, At, Goto, Uncounted, Unwritten, GamesInv, JobsInHand
  <2>3. \A v \in Workers \ {w} : pc[v] \in {"pgn", "result"} =>
           job[v] # job[w] /\ job[v] \in GameIdx
    BY <2>2 DEF GamesInv, OneWorkerPerGame, JobsInHand, Uncounted, Unwritten
  <2> QED
    BY <1>1, <2>1, <2>2, <2>3 DEF OutcomesKept
<1>3. ASSUME NEW w \in Workers, Worker(w), ~Play(w)
      PROVE  OutcomesKept'
  <2>1. /\ UNCHANGED <<wld, outcome>>
        /\ \A v \in Workers : pc'[v] \in {"pgn", "result"} =>
              pc[v] \in {"pgn", "result"} /\ job'[v] = job[v]
    BY <1>1, <1>3
       DEF Worker, PopJob, PopNone, KeepEngine, ReplaceEngine, SetName, NextSlot,
           WritePgn, AddResult, CheckSprt, PrintResults, Quit, At, Goto
  <2> QED
    BY <2>1 DEF OutcomesKept
<1>4. ASSUME NEW w \in Workers, EngineHangs(w) \/ DeadlinePasses(w)
      PROVE  OutcomesKept'
  BY <1>4 DEF OutcomesKept, EngineHangs, DeadlinePasses, workerVars
<1>5. CASE Main
  BY <1>5 DEF OutcomesKept, Main, Watch, CheckDone, Join, workerVars
<1>6. CASE UNCHANGED vars
  BY <1>6 DEF OutcomesKept, vars, workerVars
<1> QED
  BY <1>2, <1>3, <1>4, <1>5, <1>6 DEF Next, Ended

\* A pair's score counts, under each outcome, those of its games that ended so
\* and that a worker is done with, and jq.completed counts all of them, through
\* every interleaving of the workers.
THEOREM ScoresAlwaysMatch == Spec => []ScoresMatchGames
<1>1. TInv => TypeOK /\ GamesInv
  BY DEF TInv
<1>2. Init => ScoresMatchGames /\ OutcomesKept
  BY ScoresInit DEF Init, OutcomesKept
<1>3. TInv /\ ScoresMatchGames /\ OutcomesKept /\ [Next]_vars
        => ScoresMatchGames' /\ OutcomesKept'
  BY <1>1, ScoresStep, OutcomesKeptStep
<1> QED
  BY <1>2, <1>3, TournamentInvariance, PTL DEF Spec

-----------------------------------------------------------------------------
(* The standings.                                                          *)

\* The last result counted is printed, or will be: its worker has not come to
\* the end of its round.
LastUpdate ==
    /\ completed = 0 => standings = results
    /\ completed = NGames => \/ standings = results
                              \/ \E w \in Workers : pc[w] \in {"sprt", "print"}

\* The main thread leaves its loop when the queue is empty, and without a stop
\* it is empty when every game has been handed out.
QueueEmptied ==
    /\ idx = handed
    /\ main \in {"join", "exited"} => idx = NGames

\* The engines that run have given their names, but for one just started.
NamesKnown ==
    \A w \in Workers : \A i \in 0..1 :
        ei[w][i] # NoEngine => \/ ei[w][i] \in names
                               \/ pc[w] = "name" /\ slot[w] = i

\* A pair that has a score has the names of its engines.
ScoresHaveNames ==
    \A k \in GameIdx : results[Jobs[k].pair] # Zero =>
                        {Jobs[k].ei[0], Jobs[k].ei[1]} \subseteq names

\* What job_queue_init and the options give: more than two engines play rounds
\* of whole encounters, without a stop (options.c:296 has SPRT for two engines
\* only), and the games of a pair are between the same engines.
Rounds ==
    /\ Cardinality(Engines) > 2 /\ ~Sprt
    /\ NGames % Frequency = 0
    /\ \A k, l \in GameIdx : Jobs[k].pair = Jobs[l].pair => Jobs[k].ei = Jobs[l].ei

LEMMA StandingsInit == Init => LastUpdate /\ QueueEmptied /\ NamesKnown /\ ScoresHaveNames
<1> SUFFICES ASSUME Init
             PROVE  LastUpdate /\ QueueEmptied /\ NamesKnown /\ ScoresHaveNames
  OBVIOUS
<1>1. LastUpdate /\ QueueEmptied
  BY DEF Init, LastUpdate, QueueEmptied
<1>2. NamesKnown
  BY DEF Init, NamesKnown
<1>3. ScoresHaveNames
  BY TournamentAssumption DEF Init, ScoresHaveNames
<1> QED
  BY <1>1, <1>2, <1>3

\* Counting a result comes before printing it, and the update after the last
\* result is never left out: NGames is a multiple of the frequency.
LEMMA LastUpdateStep ==
    ASSUME Rounds, TypeOK, LastUpdate, [Next]_vars
    PROVE  LastUpdate'
<1> USE NGamesAssumption, TournamentAssumption
<1>1. pc \in [Workers -> Location] /\ completed \in Nat
  BY DEF TypeOK
<1>2. ASSUME NEW w \in Workers,
             \/ PopJob(w) \/ PopNone(w) \/ KeepEngine(w) \/ ReplaceEngine(w)
             \/ SetName(w) \/ Play(w) \/ WritePgn(w) \/ Quit(w)
      PROVE  LastUpdate'
  <2>1. /\ UNCHANGED <<completed, results, standings>>
        /\ \A v \in Workers : pc[v] \in {"sprt", "print"} => pc'[v] = pc[v]
    BY <1>1, <1>2
       DEF PopJob, PopNone, KeepEngine, ReplaceEngine, SetName, NextSlot, Play,
           WritePgn, Quit, At, Goto, jqVars
  <2> QED
    BY <2>1 DEF LastUpdate
<1>3. ASSUME NEW w \in Workers, AddResult(w)
      PROVE  LastUpdate'
  <2>1. completed' # 0 /\ pc'[w] = "sprt"
    BY <1>1, <1>3 DEF AddResult, Goto
  <2> QED
    BY <2>1 DEF LastUpdate
<1>4. ASSUME NEW w \in Workers, CheckSprt(w)
      PROVE  LastUpdate'
  <2>1. UNCHANGED <<completed, results, standings>> /\ pc'[w] = "print"
        /\ \A v \in Workers \ {w} : pc'[v] = pc[v]
    BY <1>1, <1>4 DEF CheckSprt, Goto
  <2> QED
    BY <2>1 DEF LastUpdate
<1>5. ASSUME NEW w \in Workers, PrintResults(w)
      PROVE  LastUpdate'
  <2>1. UNCHANGED <<completed, results>>
        /\ standings' = IF UpdateDue THEN results ELSE standings
    BY <1>5 DEF PrintResults, jqVars
  <2>2. completed = NGames /\ completed # 0 => UpdateDue
    BY DEF Rounds, UpdateDue
  <2> QED
    BY <2>1, <2>2 DEF LastUpdate
<1>6. ASSUME NEW w \in Workers, EngineHangs(w) \/ DeadlinePasses(w)
      PROVE  LastUpdate'
  BY <1>6 DEF LastUpdate, EngineHangs, DeadlinePasses, jqVars, workerVars
<1>7. CASE Main
  BY <1>7 DEF LastUpdate, Main, Watch, CheckDone, Join, jqVars, workerVars
<1>8. CASE UNCHANGED vars
  BY <1>8 DEF LastUpdate, vars, jqVars, workerVars
<1> QED
  BY <1>2, <1>3, <1>4, <1>5, <1>6, <1>7, <1>8 DEF Next, Worker, Ended

LEMMA QueueEmptiedStep ==
    ASSUME Rounds, TypeOK, QueueEmptied, [Next]_vars
    PROVE  QueueEmptied'
<1> USE NGamesAssumption
<1>1. idx \in 0..NGames /\ handed \in 0..NGames
  BY DEF TypeOK
<1>2. ASSUME NEW w \in Workers, PopJob(w)
      PROVE  QueueEmptied'
  BY <1>1, <1>2 DEF PopJob, QueueEmptied, mainVars
<1>3. ASSUME NEW w \in Workers, CheckSprt(w)
      PROVE  QueueEmptied'
  BY <1>3 DEF CheckSprt, QueueEmptied, Rounds, mainVars
<1>4. ASSUME NEW w \in Workers, Worker(w), ~PopJob(w), ~CheckSprt(w)
      PROVE  UNCHANGED <<idx, handed, main>>
  BY <1>4
     DEF Worker, PopNone, KeepEngine, ReplaceEngine, SetName, Play, WritePgn,
         AddResult, PrintResults, Quit, jqVars, mainVars
<1>5. ASSUME NEW w \in Workers, EngineHangs(w) \/ DeadlinePasses(w)
      PROVE  UNCHANGED <<idx, handed, main>>
  BY <1>5 DEF EngineHangs, DeadlinePasses, jqVars
<1>6. CASE Main
  BY <1>6 DEF QueueEmptied, Main, Watch, CheckDone, job_queue_done, Join, jqVars
<1>7. UNCHANGED vars => UNCHANGED <<idx, handed, main>>
  BY DEF vars, jqVars, mainVars
<1>8. UNCHANGED <<idx, handed, main>> => QueueEmptied'
  BY DEF QueueEmptied
<1> QED
  BY <1>2, <1>3, <1>4, <1>5, <1>6, <1>7, <1>8 DEF Next, Ended

\* An engine that is started is the one that gives its name next.
LEMMA NamesKnownStep ==
    ASSUME TInv, NamesKnown, [Next]_vars
    PROVE  NamesKnown' /\ names \subseteq names'
<1> USE NGamesAssumption, TournamentAssumption
<1>1. /\ pc \in [Workers -> Location] /\ slot \in [Workers -> 0..2]
      /\ ei \in [Workers -> [0..1 -> Engines \union {NoEngine}]]
      /\ SlotsFilled
  BY DEF TInv, TypeOK
<1>2. ASSUME NEW w \in Workers, ReplaceEngine(w)
      PROVE  NamesKnown' /\ names \subseteq names'
  <2>1. slot[w] \in 0..1
    BY <1>1, <1>2 DEF SlotsFilled, ReplaceEngine, At
  <2>2. /\ ei' = [ei EXCEPT ![w][slot[w]] = Jobs[job[w]].ei[slot[w]]]
        /\ pc[w] = "engine" /\ pc' = [pc EXCEPT ![w] = "name"]
        /\ UNCHANGED <<slot, names>>
    BY <1>2 DEF ReplaceEngine, At, Goto, jqVars
  <2> QED
    BY <1>1, <2>1, <2>2 DEF NamesKnown
<1>3. ASSUME NEW w \in Workers, SetName(w)
      PROVE  NamesKnown' /\ names \subseteq names'
  <2>1. slot[w] \in 0..1 /\ pc[w] = "name"
    BY <1>1, <1>3 DEF SlotsFilled, SetName, At
  <2>2. /\ names' = names \union {ei[w][slot[w]]} /\ ei' = ei
        /\ \A v \in Workers \ {w} : pc'[v] = pc[v] /\ slot'[v] = slot[v]
    BY <1>1, <1>3 DEF SetName, NextSlot, Goto
  <2> QED
    BY <1>1, <2>1, <2>2 DEF NamesKnown
<1>4. ASSUME NEW w \in Workers, Quit(w)
      PROVE  NamesKnown' /\ names \subseteq names'
  <2>1. /\ ei' = [ei EXCEPT ![w] = [i \in 0..1 |-> NoEngine]]
        /\ pc' = [pc EXCEPT ![w] = "done"] /\ UNCHANGED <<slot, names>>
    BY <1>4 DEF Quit, Goto, jqVars
  <2> QED
    BY <1>1, <2>1 DEF NamesKnown
<1>5. ASSUME NEW w \in Workers,
             \/ PopJob(w) \/ PopNone(w) \/ KeepEngine(w) \/ Play(w)
             \/ WritePgn(w) \/ AddResult(w) \/ CheckSprt(w) \/ PrintResults(w)
      PROVE  NamesKnown' /\ names \subseteq names'
  <2>1. UNCHANGED <<ei, names>>
        /\ \A v \in Workers : pc[v] = "name" => pc'[v] = pc[v] /\ slot'[v] = slot[v]
    BY <1>1, <1>5
       DEF PopJob, PopNone, KeepEngine, NextSlot, Play, WritePgn, AddResult,
           CheckSprt, PrintResults, At, Goto, jqVars
  <2> QED
    BY <2>1 DEF NamesKnown
<1>6. ASSUME NEW w \in Workers, EngineHangs(w) \/ DeadlinePasses(w)
      PROVE  NamesKnown' /\ names \subseteq names'
  BY <1>6 DEF NamesKnown, EngineHangs, DeadlinePasses, jqVars, workerVars
<1>7. CASE Main
  BY <1>7 DEF NamesKnown, Main, Watch, CheckDone, Join, jqVars, workerVars
<1>8. CASE UNCHANGED vars
  BY <1>8 DEF NamesKnown, vars, jqVars, workerVars
<1> QED
  BY <1>2, <1>3, <1>4, <1>5, <1>6, <1>7, <1>8 DEF Next, Worker, Ended

\* Only a game adds to a score, and its engines have given their names.
LEMMA ScoresHaveNamesStep ==
    ASSUME Rounds, TInv, NamesKnown, ScoresHaveNames, [Next]_vars
    PROVE  ScoresHaveNames'
<1> USE NGamesAssumption, TournamentAssumption
<1>1. names \subseteq names'
  BY NamesKnownStep
<1>2. ASSUME NEW w \in Workers, AddResult(w)
      PROVE  ScoresHaveNames'
  <2>1. /\ pc[w] = "result" /\ slot[w] = 2 /\ job[w] \in GameIdx
        /\ \A i \in 0..1 : ei[w][i] = Jobs[job[w]].ei[i]
    BY <1>2
       DEF TInv, GamesInv, JobsInHand, SlotsFilled, AddResult, At, Uncounted,
           Unwritten
  <2>2. \A i \in 0..1 : Jobs[job[w]].ei[i] \in names
    BY <2>1 DEF NamesKnown
  <2>3. \A p \in Pairs : p # Jobs[job[w]].pair => results'[p] = results[p]
    BY <1>2, <2>1 DEF AddResult, TInv, TypeOK
  <2> SUFFICES ASSUME NEW k \in GameIdx, results'[Jobs[k].pair] # Zero
               PROVE  {Jobs[k].ei[0], Jobs[k].ei[1]} \subseteq names'
    BY DEF ScoresHaveNames
  <2>4. CASE Jobs[k].pair = Jobs[job[w]].pair
    BY <1>1, <2>1, <2>2, <2>4 DEF Rounds
  <2>5. CASE Jobs[k].pair # Jobs[job[w]].pair
    BY <1>1, <2>3, <2>5 DEF ScoresHaveNames
  <2> QED
    BY <2>4, <2>5
<1>3. ASSUME NEW w \in Workers, Worker(w), ~AddResult(w)
      PROVE  results' = results
  BY <1>3
     DEF Worker, PopJob, PopNone, KeepEngine, ReplaceEngine, SetName, Play,
         WritePgn, CheckSprt, PrintResults, Quit, jqVars
<1>4. ASSUME NEW w \in Workers, EngineHangs(w) \/ DeadlinePasses(w)
      PROVE  results' = results
  BY <1>4 DEF EngineHangs, DeadlinePasses, jqVars
<1>5. Main \/ UNCHANGED vars => results' = results
  BY DEF Main, Watch, CheckDone, Join, vars, jqVars
<1>6. results' = results => ScoresHaveNames'
  BY <1>1 DEF ScoresHaveNames
<1> QED
  BY <1>2, <1>3, <1>4, <1>5, <1>6 DEF Next, Ended

\* With more than two engines, and without a stop, the last update printed is the
\* final one, and no update has a blank name, for every job list made of whole
\* encounters and every interleaving of counting and printing.
THEOREM LastStandingsAreFinal == ASSUME Rounds PROVE Spec => []FinalStandings
<1> DEFINE StInv == LastUpdate /\ QueueEmptied /\ NamesKnown /\ ScoresHaveNames
<1>1. Init => StInv
  BY StandingsInit
<1>2. TInv /\ StInv /\ [Next]_vars => StInv'
  <2> SUFFICES ASSUME TInv, StInv, [Next]_vars
               PROVE  StInv'
    OBVIOUS
  <2>1. TypeOK
    BY DEF TInv
  <2>2. LastUpdate' /\ QueueEmptied'
    BY <2>1, LastUpdateStep, QueueEmptiedStep
  <2>3. NamesKnown' /\ ScoresHaveNames'
    BY NamesKnownStep, ScoresHaveNamesStep
  <2> QED
    BY <2>2, <2>3
<1>3. TInv /\ ScoresMatchGames /\ StInv => FinalStandings
  <2> SUFFICES ASSUME TInv, ScoresMatchGames, StInv
               PROVE  FinalStandings
    OBVIOUS
  <2>1. ASSUME main = "exited"
        PROVE  standings = results
    <3>1. \A w \in Workers : pc[w] = "done"
      BY <2>1 DEF TInv, JoinedAll
    <3>2. Busy = {}
      BY <3>1 DEF Busy, Uncounted, Unwritten
    <3>3. Cardinality(Busy) = 0
      BY <3>2, FS_EmptySet
    <3>4. completed \in Nat /\ handed \in Nat
      BY NGamesAssumption DEF TInv, TypeOK
    <3>5. completed = handed
      BY <3>3, <3>4, ScoresMean
    <3>6. completed = NGames
      BY <2>1, <3>5 DEF QueueEmptied
    <3> QED
      BY <3>1, <3>6 DEF LastUpdate
  <2> QED
    BY <2>1 DEF FinalStandings, ScoresHaveNames
<1> HIDE DEF StInv
<1> QED
  BY <1>1, <1>2, <1>3, TournamentInvariance, ScoresAlwaysMatch, PTL DEF Spec
=============================================================================
