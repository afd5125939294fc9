---------------------------- MODULE MovesProofs ----------------------------
(***************************************************************************)
(* More proofs about Chess: the moves that are generated are the legal     *)
(* moves of chess, and what the program writes of positions, moves and     *)
(* games - FENs, samples, moves for engines, position commands, PGN - and  *)
(* what it reads says what it is to say.                                   *)
(***************************************************************************)
EXTENDS ChessProofs, WellFoundedInduction

-----------------------------------------------------------------------------
(* More of lines and leaps.                                                *)

\* Of two squares behind the same one, one is behind the other.
LEMMA OneBehind ==
    ASSUME NEW k \in Square, NEW u, Aligned(KingDir, k, u), NEW v, Aligned(KingDir, k, v), u # v,
           NEW s, s \in Between(k, u), s \in Between(k, v)
    PROVE  u \in Between(k, v) \/ v \in Between(k, u)
<1>1. PICK d \in KingDir, l \in 1..7 : Reached(k, u, d, l)
  BY DEF Aligned
<1>2. PICK e \in KingDir, n \in 1..7 : Reached(k, v, e, n)
  BY DEF Aligned
<1>3. PICK i \in 1..(l - 1) : s = Step(k, d, i)
  BY <1>1, SegmentOf DEF Between
<1>4. PICK j \in 1..(n - 1) : s = Step(k, e, j)
  BY <1>2, SegmentOf DEF Between
<1>5. i \in 1..7 /\ i \in 0..l /\ l \in 0..7 /\ j \in 1..7 /\ j \in 0..n /\ n \in 0..7
  OBVIOUS
<1>6. Reached(k, s, d, i) /\ Reached(k, s, e, j)
  BY <1>1, <1>2, <1>3, <1>4, <1>5, Convex
<1>7. d = e
  BY <1>5, <1>6, OneWay
<1>8. u = Step(k, d, l) /\ v = Step(k, d, n)
  BY <1>1, <1>2, <1>7 DEF Reached
<1>9. l # n
  BY <1>8
<1>10. CASE l < n
  <2>1. l \in 1..(n - 1)
    BY <1>10
  <2>2. QED
    BY <1>2, <1>7, <1>8, <2>1, SegmentOf DEF Between
<1>11. CASE n < l
  <2>1. n \in 1..(l - 1)
    BY <1>11
  <2>2. \A x : x \in Between(k, u) <=> \E h \in 1..(l - 1) : x = Step(k, d, h)
    BY <1>1, SegmentOf DEF Between
  <2>3. QED
    BY <1>8, <2>1, <2>2
<1>12. QED
  BY <1>9, <1>10, <1>11

\* The rest of a line.
LEMMA Beyond ==
    ASSUME NEW D, D \in {RookDir, BishopDir}, NEW s \in Square, NEW u, Aligned(D, s, u),
           NEW k \in Between(s, u)
    PROVE  k \in Square /\ Aligned(D, k, u) /\ Between(k, u) \subseteq Between(s, u)
<1>1. PICK d \in D, l \in 1..7 : Reached(s, u, d, l)
  BY DEF Aligned
<1>2. d \in KingDir
  BY DEF KingDir
<1>3. PICK i \in 1..(l - 1) : k = Step(s, d, i)
  BY <1>1, <1>2, SegmentOf DEF Between
<1>4. i \in 0..l /\ l \in 0..7 /\ i \in Int
  OBVIOUS
<1>5. Reached(s, k, d, i) /\ k \in Square
  BY <1>1, <1>2, <1>3, <1>4, Convex
<1>6. PICK n \in 1..7 : n = l - i /\ i + n = l
  OBVIOUS
<1>7. Reached(k, u, d, n)
  <2>1. n \in Int
    OBVIOUS
  <2>2. QED
    BY <1>1, <1>2, <1>4, <1>5, <1>6, <2>1, Onward
<1>8. ASSUME NEW x \in Between(k, u) PROVE x \in Between(s, u)
  <2>1. PICK j \in 1..(n - 1) : x = Step(k, d, j)
    BY <1>2, <1>5, <1>7, SegmentOf DEF Between
  <2>2. j \in 0..n /\ n \in 0..7 /\ j \in Int /\ i + j \in 1..(l - 1)
    BY <1>6
  <2>3. Reached(k, x, d, j)
    BY <1>2, <1>5, <1>7, <2>1, <2>2, Convex
  <2>4. Reached(s, x, d, i + j)
    BY <1>2, <1>4, <1>5, <2>2, <2>3, Onward
  <2>5. x = Step(s, d, i + j)
    BY <2>4 DEF Reached
  <2>6. QED
    BY <1>1, <1>2, <2>2, <2>5, SegmentOf DEF Between
<1>9. QED
  BY <1>1, <1>5, <1>7, <1>8 DEF Aligned

\* A knight's move leads to no line.
LEMMA KnightOffLine ==
    ASSUME NEW s \in Square, NEW t \in KnightAttacks[s]
    PROVE  ~Aligned(KingDir, s, t)
<1>1. SUFFICES ASSUME Aligned(KingDir, s, t) PROVE FALSE
  OBVIOUS
<1>2. t \in Square /\ Aligned(KingDir, t, s)
  BY <1>1, LookedAtBack
<1>3. t \notin Ray[t][s]
  BY <1>2, KnightOffRay
<1>4. PICK d \in KingDir, k \in 1..7 : Reached(t, s, d, k)
  BY <1>2 DEF Aligned
<1>5. t \in Ray[t][s]
  BY <1>2, <1>4, SegmentOf
<1>6. QED
  BY <1>3, <1>5

\* No piece attacks the square it stands on.
LEMMA NotItself ==
    ASSUME NEW p, BoardOK(p), NEW c \in Color, NEW u, NEW t \in Square, NEW occ, Hits(p, c, u, t, occ)
    PROVE  u \in p.byColor[c] /\ u \in Square /\ u # t
<1>1. u \in p.byColor[c]
  BY DEF Hits, pos_pieces_cp, pos_pieces_cpp
<1>2. u \in Square
  BY <1>1 DEF BoardOK
<1>3. SUFFICES ASSUME u = t PROVE FALSE
  BY <1>1, <1>2
<1>4. ~Aligned(KingDir, t, t)
  BY LookedAtBack
<1>5. ~SliderAt(p, c, t, u)
  BY <1>3, <1>4, HitsOrSlides
<1>6. t \notin KingAttacks[t]
  <2>1. SUFFICES ASSUME t \in KingAttacks[t] PROVE FALSE
    OBVIOUS
  <2>2. PICK d \in KingDir : OnBoard(t, d, 1) /\ t = Step(t, d, 1)
    BY <2>1 DEF KingAttacks, Leaps
  <2>3. 1 \in 1..7
    OBVIOUS
  <2>4. QED
    BY <1>4, <2>2, <2>3 DEF Aligned, Reached
<1>7. t \notin PawnAttacks[opposite(c)][t]
  <2>1. SUFFICES ASSUME t \in PawnAttacks[opposite(c)][t] PROVE FALSE
    OBVIOUS
  <2>2. PICK d \in PawnDir(opposite(c)) : OnBoard(t, d, 1) /\ t = Step(t, d, 1)
    BY <2>1, ColoredPieces DEF PawnAttacks, Leaps
  <2>3. d \in KingDir /\ 1 \in 1..7
    BY DEF PawnDir, KingDir, BishopDir
  <2>4. QED
    BY <1>4, <2>2, <2>3 DEF Aligned, Reached
<1>8. t \notin KnightAttacks[t]
  <2>1. SUFFICES ASSUME t \in KnightAttacks[t] PROVE FALSE
    OBVIOUS
  <2>2. PICK e \in KnightDir : t = Step(t, e, 1)
    BY <2>1 DEF KnightAttacks, Leaps
  <2>3. PICK x \in {-2, -1, 1, 2}, y \in {-2, -1, 1, 2} : x = e[1] /\ y = e[2]
    BY DEF KnightDir
  <2>4. t = t + 1 * (8 * x + y)
    BY <2>2, <2>3, Zenon DEF Step
  <2>5. t \in Int
    BY RankAndFile
  <2>6. QED
    BY <2>3, <2>4, <2>5
<1>9. QED
  BY <1>3, <1>5, <1>6, <1>7, <1>8, HitsOrSlides, Zenon

-----------------------------------------------------------------------------
(* What a move must do when the king is not to be attacked after it.       *)

\* A move that is no king's and no en passant capture: the squares.
LEMMA NormalSquares ==
    ASSUME NEW p, Ready(p), NEW m, Normal(p, m), NEW q, BoardOK(q), Replaces(p, q, m),
           NEW us, us = p.turn, NEW them, them = opposite(us)
    PROVE  /\ pos_pieces(q) = (pos_pieces(p) \ {m.from, m.to}) \union {m.to}
           /\ \A u, t, occ : Hits(q, them, u, t, occ) <=> Hits(p, them, u, t, occ) /\ u # m.to
<1>1. PICK from, to : from = m.from /\ to = m.to
  OBVIOUS
<1>2. /\ us \in Color /\ them \in Color /\ us # them /\ BoardOK(p)
      /\ p.byColor[us] \intersect p.byColor[them] = {} /\ p.byColor[us] \subseteq Square
      /\ pos_pieces(p) = p.byColor[us] \union p.byColor[them]
  BY Sides
<1>3. /\ from \in p.byColor[us] /\ to \in Square /\ to \notin p.byColor[us] /\ Taken(p, m) = to
  BY <1>1 DEF Normal
<1>4. \A u, t, occ : Hits(q, them, u, t, occ) <=> Hits(p, them, u, t, occ) /\ u # to
  BY <1>1, <1>2, <1>3, EnemyAfter
<1>5. pos_pieces(q) = q.byColor[us] \union q.byColor[them]
  BY <1>2, ColoredPieces
<1>6. /\ q.byColor[us] = (p.byColor[us] \ {from, to}) \union {to}
      /\ q.byColor[them] = p.byColor[them] \ {from, to}
  BY <1>1, <1>2, <1>3 DEF Replaces
<1>7. pos_pieces(q) = (pos_pieces(p) \ {from, to}) \union {to}
  BY <1>2, <1>5, <1>6
<1>8. QED
  BY <1>1, <1>4, <1>7

\* A move that leaves the king unattacked keeps a pin and answers a check.
LEMMA NormalMust ==
    ASSUME NEW p, Ready(p), NEW m, Normal(p, m), NEW q, BoardOK(q), Replaces(p, q, m),
           \A u : ~Hits(q, opposite(p.turn), u, King(p), pos_pieces(q))
    PROVE  Kept(p, m) /\ Answered(p, m)
<1>1. PICK us, them, king, from, to :
        us = p.turn /\ them = opposite(us) /\ king = King(p) /\ from = m.from /\ to = m.to
  OBVIOUS
<1>2. /\ us \in Color /\ them \in Color /\ us # them /\ BoardOK(p)
      /\ king \in Square /\ king \in p.byColor[us]
      /\ p.byColor[us] \intersect p.byColor[them] = {} /\ p.byColor[us] \subseteq Square
      /\ pos_pieces(p) = p.byColor[us] \union p.byColor[them]
      /\ p.byColor[them] \subseteq Square
      /\ \A u : ~(u \in pos_pieces_cp(p, them, "KING") /\ u \in KingAttacks[king])
  BY <1>1, Sides
<1>3. pos_pieces(q) = (pos_pieces(p) \ {from, to}) \union {to} /\ to \in Square /\ to \notin p.byColor[us]
  BY <1>1, NormalSquares DEF Normal
<1>4. \A u : Hits(p, them, u, king, pos_pieces(q)) => u = to
  BY <1>1, NormalSquares
<1>5. \A u, occ : Hits(p, them, u, king, occ) <=>
               \/ u \in pos_pieces_cp(p, them, "KING") /\ u \in KingAttacks[king]
               \/ u \in pos_pieces_cp(p, them, "KNIGHT") /\ u \in KnightAttacks[king]
               \/ u \in pos_pieces_cp(p, them, "PAWN") /\ u \in PawnAttacks[opposite(them)][king]
               \/ SliderAt(p, them, king, u) /\ Between(king, u) \intersect occ = {}
  BY <1>2, HitsOrSlides
<1>6. \A u : SliderAt(p, them, king, u) => /\ Aligned(KingDir, king, u) /\ u \in Square /\ u # king
                                          /\ u \in p.byColor[them]
                                          /\ pos_piece_on(p, u) \in {"BISHOP", "ROOK", "QUEEN"}
  BY <1>2, HitsOrSlides
<1>7. ASSUME NEW u, SliderAt(p, them, king, u), Between(king, u) \intersect pos_pieces(q) = {}
      PROVE  u = to
  BY <1>4, <1>5, <1>7
<1>8. Kept(p, m)
  <2>1. SUFFICES ASSUME from \in p.pins PROVE to \in Ray[king][from]
    BY <1>1 DEF Kept
  <2>2. PICK u : SliderAt(p, them, king, u) /\ Between(king, u) \intersect pos_pieces(p) = {from}
    BY <1>1, <2>1, WhatIsDerived
  <2>3. to \in Between(king, u) \union {u}
    <3>1. CASE to \in Between(king, u)
      BY <3>1
    <3>2. CASE to \notin Between(king, u)
      <4>1. Between(king, u) \intersect pos_pieces(q) = {}
        BY <1>3, <2>2, <3>2
      <4>2. QED
        BY <1>7, <2>2, <4>1
    <3>3. QED
      BY <3>1, <3>2
  <2>4. PICK d \in KingDir, l \in 1..7 : Reached(king, u, d, l)
    BY <1>6, <2>2 DEF Aligned
  <2>5. \A x : x \in Between(king, u) <=> \E j \in 1..(l - 1) : x = Step(king, d, j)
    BY <1>2, <2>4, SegmentOf DEF Between
  <2>6. from \in Between(king, u)
    BY <2>2
  <2>7. PICK i \in 1..(l - 1) : from = Step(king, d, i)
    BY <2>5, <2>6
  <2>8. i \in 1..7 /\ i \in 0..l /\ l \in 0..7
    OBVIOUS
  <2>9. Reached(king, from, d, i)
    BY <1>2, <2>4, <2>7, <2>8, Convex
  <2>10. Ray[king][from] = {king} \union Line(king, d)
    BY <1>2, <2>8, <2>9, SegmentOf
  <2>11. to \in Line(king, d)
    <3>1. CASE to = u
      BY <2>4, <3>1 DEF Line, Reached
    <3>2. CASE to \in Between(king, u)
      <4>1. PICK j \in 1..(l - 1) : to = Step(king, d, j)
        BY <2>5, <3>2
      <4>2. j \in 1..7 /\ j \in 0..l
        OBVIOUS
      <4>3. Reached(king, to, d, j)
        BY <1>2, <2>4, <2>8, <4>1, <4>2, Convex
      <4>4. QED
        BY <4>2, <4>3 DEF Line, Reached
    <3>3. QED
      BY <2>3, <3>1, <3>2
  <2>12. QED
    BY <2>10, <2>11
<1>9. \A u : u \in p.checkers <=> Hits(p, them, u, king, pos_pieces(p))
  BY <1>1, WhatIsDerived
<1>10. ASSUME NEW c \in p.checkers
       PROVE  /\ c \in p.byColor[them] /\ c \in pos_pieces(p)
              /\ \/ c = to
                 \/ /\ Aligned(KingDir, king, c) /\ Between(king, c) \intersect pos_pieces(p) = {}
                    /\ to \in Between(king, c)
              /\ to \in IF pos_piece_on(p, c) \in {"BISHOP", "ROOK", "QUEEN"}
                        THEN Segment[king][c] ELSE {c}
  <2>1. Hits(p, them, c, king, pos_pieces(p)) /\ c \in p.byColor[them] /\ c \in pos_pieces(p)
    BY <1>2, <1>9, NotItself
  <2>2. CASE SliderAt(p, them, king, c) /\ Between(king, c) \intersect pos_pieces(p) = {}
    <3>1. to \in Between(king, c) \/ c = to
      <4>1. to \notin Between(king, c) => Between(king, c) \intersect pos_pieces(q) = {}
        BY <1>3, <2>2
      <4>2. QED
        BY <1>7, <2>2, <4>1
    <3>2. c \in Segment[king][c]
      <4>1. PICK d \in KingDir, l \in 1..7 : Reached(king, c, d, l)
        BY <1>6, <2>2 DEF Aligned
      <4>2. Segment[king][c] = {king} \union {Step(king, d, j) : j \in 1..l}
        BY <1>2, <4>1, SegmentOf
      <4>3. l \in 1..l
        OBVIOUS
      <4>4. QED
        BY <4>1, <4>2, <4>3 DEF Reached
    <3>3. QED
      BY <1>6, <2>1, <2>2, <3>1, <3>2 DEF Between
  <2>3. CASE ~(SliderAt(p, them, king, c) /\ Between(king, c) \intersect pos_pieces(p) = {})
    <3>1. PICK k \in {"KNIGHT", "PAWN"} : c \in pos_pieces_cp(p, them, k)
      BY <1>2, <1>5, <2>1, <2>3
    <3>2. Hits(p, them, c, king, pos_pieces(q))
      BY <1>2, <1>5, <2>1, <2>3
    <3>3. c = to
      BY <1>4, <3>2
    <3>4. pos_piece_on(p, c) \notin {"BISHOP", "ROOK", "QUEEN"}
      BY <1>2, <3>1, Leapers
    <3>5. QED
      BY <2>1, <3>3, <3>4
  <2>4. QED
    BY <2>2, <2>3
<1>11. \A c, e \in p.checkers : c = e
  <2>1. SUFFICES ASSUME NEW c \in p.checkers, NEW e \in p.checkers, c # e PROVE FALSE
    OBVIOUS
  <2>2. to \in pos_pieces(p) => ~(to \in Between(king, c) /\ Between(king, c) \intersect pos_pieces(p) = {})
    OBVIOUS
  <2>3. /\ Aligned(KingDir, king, c) /\ Between(king, c) \intersect pos_pieces(p) = {} /\ to \in Between(king, c)
        /\ Aligned(KingDir, king, e) /\ Between(king, e) \intersect pos_pieces(p) = {} /\ to \in Between(king, e)
    BY <1>10, <2>1
  <2>4. c \in Between(king, e) \/ e \in Between(king, c)
    BY <1>2, <2>1, <2>3, OneBehind
  <2>5. QED
    BY <1>10, <2>1, <2>3, <2>4
<1>12. Answered(p, m)
  <2>1. CASE p.checkers = {}
    BY <2>1 DEF Answered
  <2>2. CASE p.checkers # {}
    <3>1. PICK c : c \in p.checkers
      BY <2>2
    <3>2. p.checkers = {c}
      BY <1>11, <3>1
    <3>3. QED
      BY <1>1, <1>10, <3>1, <3>2 DEF Answered
  <2>3. QED
    BY <2>1, <2>2
<1>13. QED
  BY <1>8, <1>12

\* A king that moves, not to castle, goes where no enemy aims at.
LEMMA KingMust ==
    ASSUME NEW p, Ready(p), NEW m, m.from = King(p), m.to \in Square \ p.byColor[p.turn],
           m.prom = NB_PIECE, NEW q, BoardOK(q), Replaces(p, q, m),
           \A u : ~Hits(q, opposite(p.turn), u, m.to, pos_pieces(q))
    PROVE  m.to \notin p.attacked
<1>1. PICK us, them, from, to :
        us = p.turn /\ them = opposite(us) /\ from = m.from /\ to = m.to /\ from = King(p)
  OBVIOUS
<1>2. /\ us \in Color /\ them \in Color /\ us # them /\ BoardOK(p) /\ from \in Square
      /\ pos_pieces_cp(p, us, "KING") = {from}
      /\ from \in p.byColor[us] /\ from \in p.byPiece["KING"]
      /\ p.byColor[us] \subseteq Square /\ p.byColor[them] \subseteq Square
      /\ p.byColor[us] \intersect p.byColor[them] = {}
      /\ pos_pieces(p) = p.byColor[us] \union p.byColor[them]
  BY <1>1, Sides
<1>3. Taken(p, m) = to /\ to \in Square /\ to \notin p.byColor[us]
  <2>1. from \notin p.byPiece["PAWN"]
    BY <1>2 DEF BoardOK, Piece
  <2>2. QED
    BY <1>1, <2>1 DEF Taken
<1>4. /\ q.byColor[us] = (p.byColor[us] \ {from, to}) \union {to}
      /\ q.byColor[them] = p.byColor[them] \ {from, to}
  BY <1>1, <1>2, <1>3 DEF Replaces
<1>5. pos_pieces(q) = q.byColor[us] \union q.byColor[them]
  BY <1>1, <1>2, ColoredPieces
<1>6. SeenThrough(p) = pos_pieces(p) \ {from}
  BY <1>1, <1>2 DEF SeenThrough
<1>7. pos_pieces(q) \ {to} = SeenThrough(p) \ {to}
  BY <1>2, <1>4, <1>5, <1>6
<1>8. SUFFICES ASSUME to \in p.attacked PROVE FALSE
  BY <1>1
<1>9. \A t \in Square : t \in p.attacked <=> \E v : Hits(p, them, v, t, SeenThrough(p))
  BY <1>1, WhatIsDerived
<1>10. PICK u : Hits(p, them, u, to, SeenThrough(p))
  BY <1>3, <1>8, <1>9
<1>11. Hits(p, them, u, to, pos_pieces(q))
  BY <1>2, <1>3, <1>7, <1>10, HitsThrough
<1>12. u # to
  BY <1>2, <1>3, <1>10, NotItself
<1>13. Hits(q, them, u, to, pos_pieces(q))
  BY <1>1, <1>2, <1>3, <1>11, <1>12, EnemyAfter
<1>14. QED
  BY <1>1, <1>13

\* Two squares before a pawn and one beside: a knight's move.
LEMMA PawnThenKnight ==
    ASSUME NEW c \in Color, NEW s \in Square, NEW e \in Square, e = s + push_inc(c), NEW t \in PawnAttacks[c][e]
    PROVE  t \in KnightAttacks[s]
<1>1. PICK d \in PawnDir(c) : OnBoard(e, d, 1) /\ t = Step(e, d, 1)
  BY DEF PawnAttacks, Leaps
<1>2. PICK up \in {1, -1}, side \in {1, -1} :
         d = <<up, side>> /\ up = (IF c = WHITE THEN 1 ELSE -1) /\ push_inc(c) = 8 * up
  BY <1>1 DEF PawnDir, push_inc
<1>3. PICK r \in 0..7, f \in 0..7 : r = rank_of(s) /\ f = file_of(s) /\ s = 8 * r + f
  BY RankAndFile
<1>4. PICK x \in 0..7, y \in 0..7 : x = rank_of(e) /\ y = file_of(e) /\ e = 8 * x + y
  BY RankAndFile
<1>5. x = r + up /\ y = f
  <2>1. 8 * x + y = (8 * r + f) + 8 * up
    BY <1>2, <1>3, <1>4, Zenon
  <2>2. QED
    BY <2>1
<1>6. d[1] = up /\ d[2] = side
  BY <1>2
<1>7. x + 1 * up \in 0..7 /\ y + 1 * side \in 0..7 /\ t = e + 1 * (8 * up + side)
  BY <1>1, <1>4, <1>6, Zenon DEF OnBoard, Step
<1>8. PICK k \in KnightDir : k[1] = 2 * up /\ k[2] = side
  <2>1. \A a, b \in {1, -1} : <<2 * a, b>> \in KnightDir
    BY DEF KnightDir
  <2>2. <<2 * up, side>> \in KnightDir
    BY <2>1
  <2>3. <<2 * up, side>>[1] = 2 * up /\ <<2 * up, side>>[2] = side
    OBVIOUS
  <2>4. QED
    BY <2>2, <2>3, Zenon
<1>9. r + 1 * (2 * up) \in 0..7 /\ f + 1 * side \in 0..7 /\ t = s + 1 * (8 * (2 * up) + side)
  <2>1. e = s + 8 * up /\ s \in Int
    BY <1>2, <1>3
  <2>2. QED
    BY <1>5, <1>7, <2>1
<1>10. OnBoard(s, k, 1) /\ t = Step(s, k, 1)
  BY <1>3, <1>8, <1>9, Zenon DEF OnBoard, Step
<1>11. QED
  BY <1>10 DEF KnightAttacks, Leaps

\* An en passant capture: the squares.
LEMMA EpSquares ==
    ASSUME NEW p, Ready(p), NEW m, EpMove(p, m), NEW q, BoardOK(q), Replaces(p, q, m),
           NEW us, us = p.turn, NEW them, them = opposite(us)
    PROVE  /\ pos_pieces(q) = ((pos_pieces(p) \ {m.from}) \union {m.to}) \ {m.to + push_inc(them)}
           /\ \A u, t, occ : Hits(q, them, u, t, occ) <=> Hits(p, them, u, t, occ) /\ u # m.to + push_inc(them)
           /\ m.to + push_inc(them) \in pos_pieces_cp(p, them, "PAWN")
           /\ m.to - push_inc(us) = m.to + push_inc(them)
           /\ m.to \in Square /\ m.to \notin pos_pieces(p)
<1>1. PICK from, to : from = m.from /\ to = m.to
  OBVIOUS
<1>2. /\ us \in Color /\ them \in Color /\ us # them /\ BoardOK(p)
      /\ p.byColor[us] \intersect p.byColor[them] = {} /\ p.byColor[us] \subseteq Square
      /\ pos_pieces(p) = p.byColor[us] \union p.byColor[them]
  BY Sides
<1>3. /\ p.epSquare # NB_SQUARE /\ to = p.epSquare /\ from \in pos_pieces_cp(p, us, "PAWN")
  BY <1>1 DEF EpMove
<1>4. /\ Taken(p, m) = to - push_inc(us) /\ to \in Square /\ to \notin pos_pieces(p)
      /\ to - push_inc(us) \in pos_pieces_cp(p, them, "PAWN")
      /\ from # to /\ from \in p.byColor[us]
  BY <1>1, <1>2, <1>3 DEF Taken, pos_pieces_cp, Ready, Sound, EpSound
<1>5. to - push_inc(us) = to + push_inc(them) /\ to - push_inc(us) # to
  BY <1>2, <1>4 DEF push_inc, opposite, Color, WHITE, BLACK, Square, NB_SQUARE
<1>6. PICK e : e = to + push_inc(them)
  OBVIOUS
<1>7. e \in p.byColor[them] /\ e # to /\ Taken(p, m) = e
  BY <1>4, <1>5, <1>6 DEF pos_pieces_cp
<1>8. /\ q.byColor[us] = (p.byColor[us] \ {from, e}) \union {to}
      /\ q.byColor[them] = p.byColor[them] \ {from, e}
  BY <1>1, <1>2, <1>7 DEF Replaces
<1>9. pos_pieces(q) = q.byColor[us] \union q.byColor[them]
  BY <1>2, ColoredPieces
<1>10. pos_pieces(q) = ((pos_pieces(p) \ {from}) \union {to}) \ {e}
  BY <1>2, <1>4, <1>7, <1>8, <1>9
<1>11. \A u, t, occ : Hits(q, them, u, t, occ) <=> Hits(p, them, u, t, occ) /\ u # e
  <2>1. m.from \in p.byColor[us] /\ m.to \notin p.byColor[them] \ {Taken(p, m)}
    BY <1>1, <1>2, <1>4
  <2>2. QED
    BY <1>2, <1>7, <2>1, EnemyAfter
<1>12. QED
  BY <1>1, <1>4, <1>5, <1>6, <1>10, <1>11

\* A capture en passant that leaves the king unattacked is generated.
LEMMA EpMust ==
    ASSUME NEW p, Ready(p), NEW m, m = move(m.from, m.to, m.prom), EpMove(p, m),
           NEW q, BoardOK(q), Replaces(p, q, m),
           \A u : ~Hits(q, opposite(p.turn), u, King(p), pos_pieces(q))
    PROVE  m \in EnPassant(p) /\ ~bb_several(p.checkers)
<1>1. PICK us, them, king, from, to, e :
        /\ us = p.turn /\ them = opposite(us) /\ king = King(p) /\ from = m.from /\ to = m.to
        /\ e = to + push_inc(them)
  OBVIOUS
<1>2. /\ us \in Color /\ them \in Color /\ us # them /\ BoardOK(p)
      /\ king \in Square /\ king \in p.byColor[us]
      /\ p.byColor[us] \intersect p.byColor[them] = {} /\ p.byColor[us] \subseteq Square
      /\ pos_pieces(p) = p.byColor[us] \union p.byColor[them]
      /\ p.byColor[them] \subseteq Square
      /\ \A u : ~(u \in pos_pieces_cp(p, them, "KING") /\ u \in KingAttacks[king])
  BY <1>1, Sides
<1>3. /\ pos_pieces(q) = ((pos_pieces(p) \ {from}) \union {to}) \ {e}
      /\ \A u, t, occ : Hits(q, them, u, t, occ) <=> Hits(p, them, u, t, occ) /\ u # e
      /\ e \in pos_pieces_cp(p, them, "PAWN") /\ to \in Square /\ to \notin pos_pieces(p)
      /\ to - push_inc(us) = e
  BY <1>1, EpSquares
<1>4. /\ p.epSquare # NB_SQUARE /\ to = p.epSquare /\ m.prom = NB_PIECE
      /\ from \in PawnAttacks[them][to]
      /\ from \in pos_pieces_cp(p, us, "PAWN") \ Rank(relative_rank(us, 6))
  BY <1>1 DEF EpMove
<1>5. \A u : Hits(p, them, u, king, pos_pieces(q)) => u = e
  BY <1>1, <1>3
<1>6. \A k \in Piece : e \in p.byPiece[k] => k = "PAWN"
  BY <1>2, <1>3 DEF BoardOK, pos_pieces_cp, Piece
<1>7. /\ bb_rook_attacks(king, pos_pieces(q)) \intersect pos_pieces_cpp(p, them, "ROOK", "QUEEN") = {}
      /\ bb_bishop_attacks(king, pos_pieces(q)) \intersect pos_pieces_cpp(p, them, "BISHOP", "QUEEN") = {}
  <2>1. \A u : /\ u \in pos_pieces_cpp(p, them, "ROOK", "QUEEN") /\ u \in bb_rook_attacks(king, pos_pieces(q))
                    => Hits(p, them, u, king, pos_pieces(q))
               /\ u \in pos_pieces_cpp(p, them, "BISHOP", "QUEEN") /\ u \in bb_bishop_attacks(king, pos_pieces(q))
                    => Hits(p, them, u, king, pos_pieces(q))
    BY <1>2, HitsBack
  <2>2. e \notin pos_pieces_cpp(p, them, "ROOK", "QUEEN") /\ e \notin pos_pieces_cpp(p, them, "BISHOP", "QUEEN")
    BY <1>6 DEF pos_pieces_cpp, Piece
  <2>3. QED
    BY <1>5, <2>1, <2>2
<1>8. m \in EnPassant(p)
  <2> DEFINE occ(s) == ((pos_pieces(p) \ {s}) \union {p.epSquare}) \ {p.epSquare + push_inc(them)}
             Free(s) == /\ bb_rook_attacks(king, occ(s)) \intersect pos_pieces_cpp(p, them, "ROOK", "QUEEN") = {}
                        /\ bb_bishop_attacks(king, occ(s)) \intersect pos_pieces_cpp(p, them, "BISHOP", "QUEEN") = {}
  <2>1. occ(from) = pos_pieces(q)
    BY <1>1, <1>3, <1>4
  <2>2. Free(from)
    BY <1>7, <2>1
  <2>3. m = move(from, p.epSquare, NB_PIECE)
    BY <1>1, <1>4
  <2>4. from \in PawnAttacks[them][p.epSquare] \intersect (pos_pieces_cp(p, us, "PAWN") \ Rank(relative_rank(us, 6)))
    BY <1>4
  <2>5. EnPassant(p) = {move(s, p.epSquare, NB_PIECE) : s \in
                {x \in PawnAttacks[them][p.epSquare]
                         \intersect (pos_pieces_cp(p, us, "PAWN") \ Rank(relative_rank(us, 6))) : Free(x)}}
    BY <1>1, <1>4, Zenon DEF EnPassant
  <2> HIDE DEF Free
  <2>6. QED
    BY <2>2, <2>3, <2>4, <2>5
<1>9. \A u, occ : Hits(p, them, u, king, occ) <=>
               \/ u \in pos_pieces_cp(p, them, "KING") /\ u \in KingAttacks[king]
               \/ u \in pos_pieces_cp(p, them, "KNIGHT") /\ u \in KnightAttacks[king]
               \/ u \in pos_pieces_cp(p, them, "PAWN") /\ u \in PawnAttacks[opposite(them)][king]
               \/ SliderAt(p, them, king, u) /\ Between(king, u) \intersect occ = {}
  BY <1>2, HitsOrSlides
<1>10. \A u : u \in p.checkers <=> Hits(p, them, u, king, pos_pieces(p))
  BY <1>1, WhatIsDerived
<1>11. ASSUME NEW c \in p.checkers
       PROVE  /\ c \in Square /\ c \in pos_pieces(p)
              /\ \/ c = e /\ e \in PawnAttacks[opposite(them)][king]
                 \/ /\ Aligned(KingDir, king, c) /\ Between(king, c) \intersect pos_pieces(p) = {}
                    /\ to \in Between(king, c)
  <2>1. Hits(p, them, c, king, pos_pieces(p)) /\ c \in p.byColor[them] /\ c \in pos_pieces(p) /\ c \in Square
    BY <1>2, <1>10, NotItself
  <2>2. CASE SliderAt(p, them, king, c) /\ Between(king, c) \intersect pos_pieces(p) = {}
    <3>1. Aligned(KingDir, king, c) /\ pos_piece_on(p, c) \in {"BISHOP", "ROOK", "QUEEN"}
      BY <1>2, <2>2, HitsOrSlides
    <3>2. c # e
      BY <1>2, <1>3, <3>1, Leapers
    <3>3. Between(king, c) \intersect pos_pieces(q) # {}
      BY <1>5, <1>9, <2>2, <3>2
    <3>4. to \in Between(king, c)
      BY <1>3, <2>2, <3>3
    <3>5. QED
      BY <2>1, <2>2, <3>1, <3>4
  <2>3. CASE ~(SliderAt(p, them, king, c) /\ Between(king, c) \intersect pos_pieces(p) = {})
    <3>1. Hits(p, them, c, king, pos_pieces(q))
      BY <1>9, <2>1, <2>3
    <3>2. c = e
      BY <1>5, <3>1
    <3>3. c \in pos_pieces_cp(p, them, "PAWN") /\ c \notin pos_pieces_cp(p, them, "KNIGHT")
            /\ c \notin pos_pieces_cp(p, them, "KING")
      BY <1>3, <1>6, <3>2 DEF pos_pieces_cp, Piece
    <3>4. e \in PawnAttacks[opposite(them)][king]
      BY <1>9, <2>1, <2>3, <3>2, <3>3
    <3>5. QED
      BY <2>1, <3>2, <3>4
  <2>4. QED
    BY <2>2, <2>3
<1>12. ASSUME e \in PawnAttacks[opposite(them)][king], NEW c, Aligned(KingDir, king, c), to \in Between(king, c)
       PROVE  FALSE
  <2>1. opposite(them) = us /\ e \in Square
    BY <1>1, <1>2, <1>3, ColoredPieces DEF pos_pieces_cp
  <2>2. king \in PawnAttacks[them][e]
    BY <1>1, <1>2, <1>12, <2>1, LeapsOneWay
  <2>3. king \in KnightAttacks[to]
    BY <1>1, <1>2, <1>3, <2>1, <2>2, PawnThenKnight
  <2>4. to \in KnightAttacks[king]
    BY <1>2, <1>3, <2>3, LeapsOneWay
  <2>5. Aligned(KingDir, king, to)
    <3>1. PICK d \in KingDir, l \in 1..7 : Reached(king, c, d, l)
      BY <1>12 DEF Aligned
    <3>2. PICK j \in 1..(l - 1) : to = Step(king, d, j)
      BY <1>2, <1>12, <3>1, SegmentOf DEF Between
    <3>3. j \in 1..7 /\ j \in 0..l /\ l \in 0..7
      OBVIOUS
    <3>4. Reached(king, to, d, j)
      BY <1>2, <3>1, <3>2, <3>3, Convex
    <3>5. QED
      BY <3>3, <3>4 DEF Aligned
  <2>6. QED
    BY <1>2, <2>4, <2>5, KnightOffLine
<1>13. ~bb_several(p.checkers)
  <2>1. \A c, x \in p.checkers : c = x
    <3>1. SUFFICES ASSUME NEW c \in p.checkers, NEW x \in p.checkers, c # x PROVE FALSE
      OBVIOUS
    <3>2. CASE c = e /\ e \in PawnAttacks[opposite(them)][king]
      BY <1>11, <1>12, <3>1, <3>2
    <3>3. CASE x = e /\ e \in PawnAttacks[opposite(them)][king]
      BY <1>11, <1>12, <3>1, <3>3
    <3>4. CASE /\ Aligned(KingDir, king, c) /\ Between(king, c) \intersect pos_pieces(p) = {}
               /\ to \in Between(king, c)
               /\ Aligned(KingDir, king, x) /\ Between(king, x) \intersect pos_pieces(p) = {}
               /\ to \in Between(king, x)
      <4>1. c \in Between(king, x) \/ x \in Between(king, c)
        BY <1>2, <3>1, <3>4, OneBehind
      <4>2. QED
        BY <1>11, <3>1, <3>4, <4>1
    <3>5. QED
      BY <1>11, <3>1, <3>2, <3>3, <3>4
  <2>2. p.checkers \subseteq Square
    BY <1>11
  <2>3. CASE p.checkers = {}
    BY <2>3, FS_EmptySet DEF bb_several
  <2>4. CASE p.checkers # {}
    BY <2>1, <2>2, <2>4, NotSeveral
  <2>5. QED
    BY <2>3, <2>4
<1>14. QED
  BY <1>8, <1>13

\* The squares of a rank, by the rules and by the tables.
LEMMA RanksWay ==
    ASSUME NEW s \in Square, NEW t \in Square, rank_of(s) = rank_of(t), NEW x
    PROVE  /\ x \in Rules!Path(s, t) <=> x \in Segment[s][t]
           /\ x \in Segment[s][t] => x \in Square
           /\ x \in Segment[s][t] <=> x \in Square /\ ((s <= x /\ x <= t) \/ (t <= x /\ x <= s))
<1>1. Rules!Square = Square
  BY DEF Rules!Square, Square, Rules!NB_SQUARE, NB_SQUARE
<1>2. x \in Rules!Path(s, t) <=> x \in Square /\ ((s <= x /\ x <= t) \/ (t <= x /\ x <= s))
  BY <1>1 DEF Rules!Path
<1>3. CASE s = t
  <2>1. Segment[s][t] = {s}
    BY <1>3 DEF Segment
  <2>2. s \in Int /\ (x \in Square => x \in Int)
    BY RankAndFile
  <2>3. QED
    BY <1>2, <1>3, <2>1, <2>2
<1>4. CASE s # t
  <2>1. /\ Aligned(RookDir, s, t) /\ t \in Segment[s][t] /\ s \in Segment[s][t]
        /\ \A y \in Square : y \in Between(s, t) <=> (s < y /\ y < t) \/ (t < y /\ y < s)
    BY <1>4, AlongRank
  <2>2. Between(s, t) \subseteq Square
    BY <2>1, LookedAtBack
  <2>3. x \in Segment[s][t] <=> x = s \/ x = t \/ x \in Between(s, t)
    BY <2>1 DEF Between
  <2>4. s \in Int /\ t \in Int /\ (x \in Square => x \in Int)
    BY RankAndFile
  <2>5. QED
    BY <1>2, <2>1, <2>2, <2>3, <2>4
<1>5. QED
  BY <1>3, <1>4

\* Two elements, as bb_count counts.
LEMMA TwoOfThem ==
    ASSUME NEW a, NEW b, a # b
    PROVE  bb_count({a, b}) = 2
<1>1. IsFiniteSet({a}) /\ Cardinality({a}) = 1
  BY FS_Singleton
<1>2. b \notin {a} /\ {a, b} = {a} \union {b}
  OBVIOUS
<1>3. Cardinality({a} \union {b}) = 1 + 1
  BY <1>1, <1>2, FS_AddElement
<1>4. QED
  BY <1>2, <1>3 DEF bb_count

\* The ways of king and rook are free.
CastlePaths(p, m) ==
    (Segment[m.from][Rules!KingTo(m.from, m.to)] \union Segment[m.to][Rules!RookTo(m.from, m.to)])
        \intersect pos_pieces(p) = {m.from, m.to}

\* What the generator asks of a castling move.
LEMMA CastlesAsked ==
    ASSUME NEW p, Ready(p), NEW r \in CastleRooks(p, p.turn), NEW m, m = move(King(p), r, NB_PIECE)
    PROVE  /\ CastlePaths(p, m) => Castles(p, m)
           /\ m \in gen_castling_moves(p) <=>
                /\ CastlePaths(p, m)
                /\ p.attacked \intersect Segment[m.from][Rules!KingTo(m.from, m.to)] = {}
                /\ m.to \notin p.pins
<1> DEFINE king == King(p)
           k(x) == square_from(rank_of(x), IF x > king THEN 6 ELSE 2)
           t(x) == square_from(rank_of(x), IF x > king THEN 5 ELSE 3)
           path(x) == (Segment[king][k(x)] \union Segment[x][t(x)]) \intersect pos_pieces(p)
           Free(x) == /\ bb_count(path(x)) = 2
                      /\ p.attacked \intersect Segment[king][k(x)] = {} /\ x \notin p.pins
<1>1. m.from = king /\ m.to = r /\ m.prom = NB_PIECE
  BY DEF move
<1>2. gen_castling_moves(p) = Plain(king, {x \in CastleRooks(p, p.turn) : Free(x)})
  BY DEF gen_castling_moves
<1>3. m \in gen_castling_moves(p) <=> Free(r)
  <2> HIDE DEF Free
  <2>1. \A x : move(king, x, NB_PIECE).to = x
    BY DEF move
  <2>2. QED
    BY <1>2, <2>1 DEF Plain
<1>4. Sound(p) /\ BoardOK(p) /\ p.turn \in Color
  BY Sides DEF Ready
<1>5. king \in pos_pieces_cp(p, p.turn, "KING") /\ king \in Square /\ king \in pos_pieces(p)
  BY Sides
<1>6. r \in Square /\ r \in p.byPiece["ROOK"] /\ r \in pos_pieces(p)
  BY <1>4 DEF Sound, RightsSound, CastleRooks, BoardOK, pos_pieces, Color, WHITE, BLACK, Piece
<1>7. r # king /\ rank_of(r) = rank_of(king)
  BY <1>4, <1>5, <1>6 DEF Sound, RightsSound, Rank, BoardOK, pos_pieces_cp, Piece
<1>8. k(r) = Rules!KingTo(m.from, m.to) /\ t(r) = Rules!RookTo(m.from, m.to)
  BY <1>1, <1>7 DEF square_from, Rules!KingTo, Rules!RookTo, Rules!rank_of, rank_of
<1>9. /\ k(r) \in Square /\ t(r) \in Square
      /\ rank_of(k(r)) = rank_of(r) /\ rank_of(t(r)) = rank_of(r)
  BY <1>6 DEF square_from, rank_of, Square, NB_SQUARE
<1>10. /\ king \in Segment[king][k(r)] /\ r \in Segment[r][t(r)]
       /\ k(r) \in Segment[king][k(r)] /\ t(r) \in Segment[r][t(r)]
  BY <1>5, <1>6, <1>7, <1>9, SegmentEnds
<1>11. CastlePaths(p, m) <=> path(r) = {king, r}
  BY <1>1, <1>8 DEF CastlePaths
<1>12. bb_count(path(r)) = 2 <=> path(r) = {king, r}
  <2>1. path(r) \subseteq Square /\ king \in path(r) /\ r \in path(r)
    BY <1>4, <1>5, <1>6, <1>10 DEF pos_pieces, BoardOK, Color, WHITE, BLACK
  <2>2. bb_count(path(r)) = 2 => path(r) = {king, r}
    BY <1>7, <2>1, Pair
  <2>3. path(r) = {king, r} => bb_count(path(r)) = 2
    <3>1. bb_count({king, r}) = 2
      BY <1>7, TwoOfThem
    <3>2. QED
      BY <3>1, Zenon
  <2>4. QED
    BY <2>2, <2>3
<1>13. CastlePaths(p, m) => Castles(p, m)
  <2>1. SUFFICES ASSUME CastlePaths(p, m) PROVE Castles(p, m)
    OBVIOUS
  <2>2. {k(r), t(r)} \intersect pos_pieces(p) \subseteq {king, r}
    BY <1>10, <1>11, <2>1
  <2>3. QED
    BY <1>1, <1>5, <1>8, <2>2 DEF Castles
<1>14. QED
  BY <1>1, <1>3, <1>8, <1>11, <1>12, <1>13

\* Where everything stands after castling.
LEMMA CastledBoard ==
    ASSUME NEW p, Ready(p), NEW m, Castles(p, m), NEW q, BoardOK(q), Castled(p, q, m),
           NEW kto, kto = Rules!KingTo(m.from, m.to), NEW rto, rto = Rules!RookTo(m.from, m.to)
    PROVE  /\ pos_pieces(q) = (pos_pieces(p) \ {m.from, m.to}) \union {kto, rto}
           /\ pos_pieces_cp(q, p.turn, "KING") = {kto}
<1>1. PICK us, them, king, r :
        us = p.turn /\ them = opposite(us) /\ king = m.from /\ r = m.to
  OBVIOUS
<1>2. /\ us \in Color /\ them \in Color /\ us # them /\ BoardOK(p)
      /\ p.byColor[us] \intersect p.byColor[them] = {}
      /\ pos_pieces(p) = p.byColor[us] \union p.byColor[them]
      /\ p.byColor[us] \subseteq Square /\ p.byColor[them] \subseteq Square
      /\ king = King(p) /\ pos_pieces_cp(p, us, "KING") = {king}
  BY <1>1, Sides DEF Castles
<1>3. /\ king \in Square /\ r \in Square /\ king # r /\ king \in p.byColor[us] /\ r \in p.byColor[us]
      /\ king \in p.byPiece["KING"] /\ r \in p.byPiece["ROOK"]
      /\ kto \in Square /\ rto \in Square /\ kto # rto
  BY <1>1, CastleSquares DEF Ready
<1>4. /\ q.byColor[us] = (p.byColor[us] \ {king, r}) \union {kto, rto}
      /\ q.byColor[them] = p.byColor[them]
      /\ q.byPiece["KING"] = (p.byPiece["KING"] \ {king, r}) \union {kto}
  <2>1. \A d \in Color : q.byColor[d] = (p.byColor[d] \ {king, r})
                                          \union (IF d = us THEN {kto, rto} ELSE {})
    BY <1>1, Zenon DEF Castled
  <2>2. \A l \in Piece : q.byPiece[l] = (p.byPiece[l] \ {king, r})
                              \union (IF l = "KING" THEN {kto} ELSE {})
                              \union (IF l = "ROOK" THEN {rto} ELSE {})
    BY <1>1, Zenon DEF Castled
  <2>3. q.byColor[them] = p.byColor[them] \ {king, r}
    BY <1>2, <2>1
  <2>4. QED
    BY <1>2, <1>3, <2>1, <2>2, <2>3 DEF Piece
<1>5. pos_pieces(q) = (pos_pieces(p) \ {king, r}) \union {kto, rto}
  <2>1. pos_pieces(q) = q.byColor[us] \union q.byColor[them]
    BY <1>1, <1>2, ColoredPieces
  <2>2. QED
    BY <1>2, <1>3, <1>4, <2>1
<1>6. pos_pieces_cp(q, us, "KING") = {kto}
  <2>1. p.byColor[us] \intersect p.byPiece["KING"] = {king}
    BY <1>2 DEF pos_pieces_cp
  <2>2. rto \in p.byPiece["KING"] => rto = king
    <3>1. ASSUME rto \in p.byPiece["KING"] PROVE rto \in pos_pieces(p)
      BY <1>2, <1>3, <3>1 DEF BoardOK, Piece
    <3>2. {kto, rto} \intersect pos_pieces(p) \subseteq {king, r}
      BY <1>1 DEF Castles
    <3>3. r \notin p.byPiece["KING"]
      BY <1>2, <1>3 DEF BoardOK, Piece
    <3>4. QED
      BY <3>1, <3>2, <3>3
  <2>3. QED
    BY <1>3, <1>4, <2>1, <2>2 DEF pos_pieces_cp
<1>7. QED
  BY <1>1, <1>5, <1>6

\* A king that castles captures nothing en passant.
LEMMA CastlesAside ==
    ASSUME NEW p, Sound(p), NEW m, Castles(p, m), NEW P, P = Placement(p)
    PROVE  Rules!After(P, p.turn, NB_SQUARE, m) = Rules!After(P, p.turn, p.epSquare, m)
<1>1. PICK x : x = CHOOSE y \in P : y[3] = m.from
  OBVIOUS
<1>2. x[2] # "PAWN"
  <2>1. BoardOK(p) /\ p.turn \in Color /\ m.from \in Square
          /\ m.from \in p.byColor[p.turn] \intersect p.byPiece["KING"]
    BY CastleSquares DEF Sound
  <2>2. PICK z : z = <<p.turn, "KING", m.from>>
    OBVIOUS
  <2>3. z \in P /\ z[3] = m.from
    BY <2>1, <2>2, Placed DEF Piece
  <2>4. x \in P /\ x[3] = m.from
    BY <1>1, <2>3
  <2>5. x[2] \in Piece /\ m.from \in p.byPiece[x[2]]
    BY <2>1, <2>4, Placed
  <2>6. QED
    BY <2>1, <2>5 DEF BoardOK, Piece
<1>3. ASSUME NEW ep
      PROVE  Rules!After(P, p.turn, ep, m) =
        LET rest == P \ (Rules!On(P, m.from) \union Rules!On(P, m.to))
        IN  IF Rules!Own(P, p.turn, m.to)
            THEN rest \union {<<p.turn, "KING", Rules!KingTo(m.from, m.to)>>,
                              <<p.turn, "ROOK", Rules!RookTo(m.from, m.to)>>}
            ELSE rest \union {<<p.turn, IF m.prom = Rules!NB_PIECE THEN x[2] ELSE m.prom, m.to>>}
  <2>1. Rules!After(P, p.turn, ep, m) =
        LET taken == IF x[2] = "PAWN" /\ m.to = ep
                     THEN 8 * Rules!rank_of(m.from) + Rules!file_of(m.to) ELSE m.to
            rest == P \ (Rules!On(P, m.from) \union Rules!On(P, taken))
        IN  IF Rules!Own(P, p.turn, m.to)
            THEN rest \union {<<p.turn, "KING", Rules!KingTo(m.from, m.to)>>,
                              <<p.turn, "ROOK", Rules!RookTo(m.from, m.to)>>}
            ELSE rest \union {<<p.turn, IF m.prom = Rules!NB_PIECE THEN x[2] ELSE m.prom, m.to>>}
    BY <1>1, Zenon DEF Rules!After
  <2>2. (IF x[2] = "PAWN" /\ m.to = ep
         THEN 8 * Rules!rank_of(m.from) + Rules!file_of(m.to) ELSE m.to) = m.to
    BY <1>2
  <2>3. QED
    BY <2>1, <2>2, Zenon
<1>4. QED
  BY <1>3, Zenon

\* A castling move that the rules allow is one that the generator makes: what looks
\* at a square of the way through the king gives check, and what pins the rook, from
\* the corner, attacks the king once the rook has gone.
LEMMA CastleMust ==
    ASSUME NEW p, Ready(p), NEW m, Castles(p, m), CastlePaths(p, m),
           NEW q, BoardOK(q), Castled(p, q, m), NEW kto, kto = Rules!KingTo(m.from, m.to),
           \A x \in Segment[m.from][kto] : \A u : ~Hits(p, opposite(p.turn), u, x, pos_pieces(p)),
           \A u : ~Hits(q, opposite(p.turn), u, kto, pos_pieces(q))
    PROVE  /\ p.checkers = {} /\ p.attacked \intersect Segment[m.from][kto] = {}
           /\ m.to \notin p.pins
<1>1. PICK us, them, king, r, rto :
        /\ us = p.turn /\ them = opposite(us) /\ king = m.from /\ r = m.to
        /\ rto = Rules!RookTo(king, r)
  OBVIOUS
<1>2. /\ us \in Color /\ them \in Color /\ us # them /\ BoardOK(p)
      /\ p.byColor[us] \intersect p.byColor[them] = {}
      /\ pos_pieces(p) = p.byColor[us] \union p.byColor[them]
      /\ p.byColor[us] \subseteq Square /\ p.byColor[them] \subseteq Square
      /\ king = King(p) /\ pos_pieces_cp(p, us, "KING") = {king}
  BY <1>1, Sides DEF Castles
<1>3. /\ king \in Square /\ r \in Square /\ king # r /\ king \in p.byColor[us] /\ r \in p.byColor[us]
      /\ rank_of(king) = 7 * us /\ rank_of(r) = 7 * us
      /\ kto \in Square /\ rto \in Square /\ kto # rto
      /\ rank_of(kto) = 7 * us /\ rank_of(rto) = 7 * us
  BY <1>1, CastleSquares DEF Ready
<1>4. {king, r} = (Segment[king][kto] \union Segment[r][rto]) \intersect pos_pieces(p)
  BY <1>1 DEF CastlePaths
<1>5. king \in Segment[king][kto]
  BY <1>3, SegmentEnds
<1>6. /\ \A t \in Square : t \in p.attacked <=> \E u : Hits(p, them, u, t, SeenThrough(p))
      /\ \A u : u \in p.checkers <=> Hits(p, them, u, king, pos_pieces(p))
  BY <1>1, <1>2, WhatIsDerived
<1>7. \A x : x \in p.pins <=>
                /\ x \in p.byColor[us]
                /\ \E u : /\ SliderAt(p, them, king, u)
                          /\ Between(king, u) \intersect pos_pieces(p) = {x}
  BY <1>1, <1>2, WhatIsDerived
<1>8. p.checkers = {}
  BY <1>1, <1>5, <1>6
<1>9. ASSUME NEW x \in Segment[king][kto], x \in p.attacked PROVE FALSE
  <2>1. x \in Square
    BY <1>3, RanksWay
  <2>2. PICK u : Hits(p, them, u, x, SeenThrough(p))
    BY <1>6, <1>9, <2>1
  <2>3. ~Hits(p, them, u, x, pos_pieces(p))
    BY <1>1, <1>9
  <2>4. SeenThrough(p) = pos_pieces(p) \ {king}
    BY <1>1, <1>2 DEF SeenThrough
  <2>5. \A occ : Hits(p, them, u, x, occ) <=>
               \/ u \in pos_pieces_cp(p, them, "KING") /\ u \in KingAttacks[x]
               \/ u \in pos_pieces_cp(p, them, "KNIGHT") /\ u \in KnightAttacks[x]
               \/ u \in pos_pieces_cp(p, them, "PAWN") /\ u \in PawnAttacks[opposite(them)][x]
               \/ SliderAt(p, them, x, u) /\ Between(x, u) \intersect occ = {}
    BY <1>2, <2>1, HitsOrSlides
  <2>6. /\ SliderAt(p, them, x, u) /\ Between(x, u) \intersect SeenThrough(p) = {}
        /\ Between(x, u) \intersect pos_pieces(p) # {}
    BY <2>2, <2>3, <2>5, Zenon
  <2>7. king \in Between(x, u)
    BY <2>4, <2>6
  <2>8. SliderAt(p, them, king, u) /\ Between(king, u) \subseteq Between(x, u)
    BY <2>1, <2>6, <2>7, Beyond DEF SliderAt
  <2>9. Between(king, u) \intersect pos_pieces(p) = {}
    BY <2>4, <2>6, <2>8 DEF Between
  <2>10. Hits(p, them, u, king, pos_pieces(p))
    BY <1>2, <1>3, <2>8, <2>9, HitsOrSlides
  <2>11. QED
    BY <1>1, <1>5, <2>10
<1>10. ASSUME r \in p.pins PROVE FALSE
  <2>1. PICK u : SliderAt(p, them, king, u) /\ Between(king, u) \intersect pos_pieces(p) = {r}
    BY <1>7, <1>10
  <2>2. Aligned(KingDir, king, u) /\ u \in Square /\ u # king /\ u \in p.byColor[them]
    BY <1>2, <1>3, <2>1, HitsOrSlides
  <2>3. r \in Between(king, u)
    BY <2>1
  <2>4. rank_of(u) = 7 * us /\ ~Aligned(BishopDir, king, u)
    BY <1>3, <2>2, <2>3, StaysOnRank
  <2>5. u \in pos_pieces_cpp(p, them, "ROOK", "QUEEN")
    BY <2>1, <2>4 DEF SliderAt
  <2>6. \A x \in Square : x \in Between(king, u) <=> (king < x /\ x < u) \/ (u < x /\ x < king)
    BY <1>3, <2>2, <2>4, AlongRank
  <2>7. u \notin Segment[king][kto]
    BY <1>2, <1>3, <1>4, <2>2
  <2>8. \A x : x \in Segment[king][kto] <=> x \in Square /\ ((king <= x /\ x <= kto) \/ (kto <= x /\ x <= king))
    BY <1>3, RanksWay
  <2>9. PICK b \in {0, 56}, kf \in 0..7, rf \in 0..7, uf \in 0..7 :
           /\ king = b + kf /\ r = b + rf /\ u = b + uf
           /\ kto = b + (IF r > king THEN 6 ELSE 2) /\ rto = b + (IF r > king THEN 5 ELSE 3)
    <3>1. PICK b \in {0, 56} : b = 8 * (7 * us)
      BY <1>2 DEF Color, WHITE, BLACK
    <3>2. king = b + file_of(king) /\ r = b + file_of(r) /\ u = b + file_of(u)
      <4>1. PICK z \in 0..7 : z = 7 * us
        BY <1>2 DEF Color, WHITE, BLACK
      <4>2. \A s \in Square : rank_of(s) = z => s = 8 * z + file_of(s)
        BY RankAndFile
      <4>3. QED
        BY <1>3, <2>2, <2>4, <3>1, <4>1, <4>2
    <3>3. file_of(king) \in 0..7 /\ file_of(r) \in 0..7 /\ file_of(u) \in 0..7
      BY <1>3, <2>2, RankAndFile
    <3>4. kto = b + (IF r > king THEN 6 ELSE 2) /\ rto = b + (IF r > king THEN 5 ELSE 3)
      BY <1>1, <1>3, <3>1 DEF Rules!KingTo, Rules!RookTo, Rules!rank_of, rank_of
    <3>5. QED
      BY <3>2, <3>3, <3>4
  <2>10. \/ r > king /\ u = b + 7 /\ kto = b + 6 /\ rto = b + 5
         \/ r < king /\ kto = b + 2 /\ rto = b + 3 /\ u \in {b, b + 1} /\ u < r
    <3>1. (king < r /\ r < u) \/ (u < r /\ r < king)
      BY <1>3, <2>3, <2>6
    <3>2. ~((king <= u /\ u <= kto) \/ (kto <= u /\ u <= king))
      BY <2>2, <2>7, <2>8
    <3>3. QED
      BY <2>9, <3>1, <3>2
  <2>11. kto # u /\ rank_of(kto) = rank_of(u)
    BY <1>3, <2>4, <2>9, <2>10
  <2>12. /\ Aligned(RookDir, kto, u) /\ Between(kto, u) \subseteq Square
         /\ \A x \in Square : x \in Between(kto, u) <=> (kto < x /\ x < u) \/ (u < x /\ x < kto)
    BY <1>3, <2>2, <2>11, AlongRank, LookedAtBack
  <2>13. pos_pieces(q) = (pos_pieces(p) \ {king, r}) \union {kto, rto}
    BY <1>1, CastledBoard
  <2>14. ASSUME NEW x \in Between(kto, u), x \in pos_pieces(q) PROVE FALSE
    <3>1. x \in Square /\ x \in Int /\ ((kto < x /\ x < u) \/ (u < x /\ x < kto))
      BY <2>12, <2>14, RankAndFile
    <3>2. u < x /\ x < kto /\ x < king /\ x # rto
      BY <2>9, <2>10, <3>1
    <3>3. x \in Between(king, u)
      BY <2>6, <3>1, <3>2
    <3>4. x \in pos_pieces(p) /\ x # r
      <4>1. kto \in Int
        BY <2>9
      <4>2. QED
        BY <2>13, <2>14, <3>2, <4>1
    <3>5. QED
      BY <2>1, <3>3, <3>4
  <2>15. SliderAt(p, them, kto, u) /\ Between(kto, u) \intersect pos_pieces(q) = {}
    BY <2>5, <2>12, <2>14 DEF SliderAt
  <2>16. Hits(p, them, u, kto, pos_pieces(q))
    BY <1>2, <1>3, <2>15, HitsOrSlides
  <2>17. Hits(q, them, u, kto, pos_pieces(q))
    BY <1>1, <2>16, EnemyCastled
  <2>18. QED
    BY <1>1, <2>17
<1>11. QED
  BY <1>1, <1>8, <1>9, <1>10

\* The placement of a position is its board.
LEMMA PlacesPlaced ==
    ASSUME NEW p, BoardOK(p)
    PROVE  Places(p, Placement(p))
BY Placed DEF Places

\* Castling, by the rules and by the generator.
LEMMA CastlingLegal ==
    ASSUME NEW p, Ready(p), Cells(p), NEW P, P = Placement(p),
           NEW r \in CastleRooks(p, p.turn), NEW m, m = move(King(p), r, NB_PIECE)
    PROVE  Rules!MayCastle(P, p.turn, r) <=> p.checkers = {} /\ m \in gen_castling_moves(p)
<1>1. PICK us, them, king, kto, rto :
        /\ us = p.turn /\ them = opposite(us) /\ king = King(p)
        /\ kto = Rules!KingTo(king, r) /\ rto = Rules!RookTo(king, r)
  OBVIOUS
<1>2. m.from = king /\ m.to = r /\ m.prom = NB_PIECE /\ m = move(m.from, m.to, m.prom)
  BY <1>1 DEF move
<1>3. /\ us \in Color /\ them \in Color /\ opposite(us) = them /\ us # them /\ BoardOK(p) /\ king \in Square
      /\ pos_pieces_cp(p, us, "KING") = {king} /\ Sound(p) /\ king = pos_king_square(p, us)
      /\ p.byColor[us] \subseteq Square /\ king \in p.byColor[us] /\ king \in p.byPiece["KING"]
      /\ pos_pieces(p) = p.byColor[us] \union p.byColor[them]
  BY <1>1, Sides DEF Ready
<1>4. Places(p, P)
  BY <1>3, PlacesPlaced
<1>5. /\ Rules!KingOf(P, us) = king
      /\ \A t : t \in Rules!AttackedBy(P, them) <=> \E u : Hits(p, them, u, t, pos_pieces(p))
  BY <1>3, <1>4, RulesCheck
<1>6. r \in Square /\ r \in p.byColor[us] /\ r # king /\ rank_of(r) = rank_of(king)
  <2>1. r \in p.castleRooks /\ r \in p.byColor[us] /\ r \in p.byPiece["ROOK"] /\ r \in Rank(7 * us)
    BY <1>1, <1>3 DEF Sound, RightsSound, CastleRooks
  <2>2. king \in Rank(7 * us)
    BY <1>1, <1>3 DEF Sound, RightsSound
  <2>3. QED
    BY <1>3, <2>1, <2>2 DEF Rank, BoardOK, Piece
<1>7. kto \in Square /\ rto \in Square /\ rank_of(kto) = rank_of(king) /\ rank_of(rto) = rank_of(r)
  <2>1. PICK z \in 0..7 : z = rank_of(king)
    BY <1>3, RankAndFile
  <2>2. kto \in {8 * z + 6, 8 * z + 2} /\ rto \in {8 * z + 5, 8 * z + 3}
    BY <1>1, <2>1 DEF Rules!KingTo, Rules!RookTo, Rules!rank_of, rank_of
  <2>3. \A f \in {2, 3, 5, 6} : 8 * z + f \in Square /\ rank_of(8 * z + f) = z
    <3>1. \A f \in {2, 3, 5, 6} : f \in 0..7
      OBVIOUS
    <3>2. QED
      BY <2>1, <3>1, RankAndFile
  <2>4. QED
    BY <1>6, <2>1, <2>2, <2>3
<1>8. /\ \A x : x \in Rules!Path(king, kto) <=> x \in Segment[king][kto]
      /\ \A x : x \in Rules!Path(r, rto) <=> x \in Segment[r][rto]
      /\ \A x : x \in Segment[king][kto] \union Segment[r][rto] => x \in Square
      /\ king \in Segment[king][kto] /\ r \in Segment[r][rto]
  <2>1. \A x : /\ x \in Rules!Path(king, kto) <=> x \in Segment[king][kto]
               /\ x \in Segment[king][kto] => x \in Square
    BY <1>3, <1>7, RanksWay
  <2>2. \A x : /\ x \in Rules!Path(r, rto) <=> x \in Segment[r][rto]
               /\ x \in Segment[r][rto] => x \in Square
    BY <1>6, <1>7, RanksWay
  <2>3. QED
    BY <1>3, <1>6, <1>7, <2>1, <2>2, SegmentEnds
<1>9. (\A s \in Rules!Path(king, kto) \union Rules!Path(r, rto) : Rules!Empty(P, s) \/ s \in {king, r})
        <=> CastlePaths(p, m)
  <2>1. \A s \in Square : Rules!Empty(P, s) <=> s \notin pos_pieces(p)
    BY <1>3, <1>4, EmptySquares
  <2>2. CastlePaths(p, m) <=> (Segment[king][kto] \union Segment[r][rto]) \intersect pos_pieces(p) = {king, r}
    BY <1>1, <1>2 DEF CastlePaths
  <2>3. king \in pos_pieces(p) /\ r \in pos_pieces(p)
    BY <1>3, <1>6
  <2>4. QED
    BY <1>8, <2>1, <2>2, <2>3
<1>10. /\ CastlePaths(p, m) => Castles(p, m)
       /\ m \in gen_castling_moves(p) <=>
                /\ CastlePaths(p, m)
                /\ p.attacked \intersect Segment[king][kto] = {}
                /\ r \notin p.pins
  BY <1>1, <1>2, CastlesAsked
<1>11. (Rules!Path(king, kto) \intersect Rules!AttackedBy(P, them) = {}) <=>
         \A x \in Segment[king][kto] : \A u : ~Hits(p, them, u, x, pos_pieces(p))
  <2>1. \A x : x \in Rules!Path(king, kto) \intersect Rules!AttackedBy(P, them) <=>
          x \in Segment[king][kto] /\ \E u : Hits(p, them, u, x, pos_pieces(p))
    BY <1>5, <1>8
  <2>2. QED
    BY <2>1
<1>12. Rules!MayCastle(P, us, r) <=>
         /\ CastlePaths(p, m)
         /\ \A x \in Segment[king][kto] : \A u : ~Hits(p, them, u, x, pos_pieces(p))
         /\ ~Rules!InCheck(Rules!After(P, us, NB_SQUARE, m), us)
  <2>1. m = [from |-> king, to |-> r, prom |-> Rules!NB_PIECE]
    BY <1>1 DEF move, NB_PIECE, Rules!NB_PIECE
  <2>2. Rules!opposite(us) = them /\ Rules!NB_SQUARE = NB_SQUARE
    BY <1>3, RulesBoard DEF Rules!NB_SQUARE, NB_SQUARE
  <2>3. Rules!MayCastle(P, us, r) <=>
         /\ \A s \in Rules!Path(king, kto) \union Rules!Path(r, rto) : Rules!Empty(P, s) \/ s \in {king, r}
         /\ Rules!Path(king, kto) \intersect Rules!AttackedBy(P, them) = {}
         /\ ~Rules!InCheck(Rules!After(P, us, NB_SQUARE, m), us)
    BY <1>1, <1>5, <2>1, <2>2, Zenon DEF Rules!MayCastle
  <2>4. QED
    BY <1>9, <1>11, <2>3, Zenon
<1>13. ASSUME CastlePaths(p, m)
       PROVE  /\ ~Rules!InCheck(Rules!After(P, us, NB_SQUARE, m), us) <=>
                   \A u : ~Hits(pos_move(p, m), them, u, kto, pos_pieces(pos_move(p, m)))
              /\ BoardOK(pos_move(p, m)) /\ Castled(p, pos_move(p, m), m) /\ Castles(p, m)
  <2>1. PICK q : q = pos_move(p, m)
    OBVIOUS
  <2>2. Castles(p, m) /\ Generated(p, m)
    BY <1>2, <1>10, <1>13 DEF Generated
  <2>3. BoardOK(q) /\ Played(p, q, m)
    BY <1>3, <2>1, <2>2, MoveBoard DEF Cells
  <2>4. Castled(p, q, m)
    BY <2>2, <2>3 DEF Played
  <2>5. Placement(q) = Rules!After(P, us, NB_SQUARE, m)
    BY <1>1, <1>3, <2>2, <2>3, PlacedByRules, CastlesAside
  <2>6. pos_pieces_cp(q, us, "KING") = {kto}
    BY <1>1, <1>2, <2>2, <2>3, <2>4, CastledBoard
  <2>7. Places(q, Placement(q))
    BY <2>3, PlacesPlaced
  <2>8. pos_king_square(q, us) = kto /\ (Rules!InCheck(Placement(q), us) <=> ~Unhit(q, us))
    BY <1>3, <1>7, <2>3, <2>6, <2>7, RulesCheck
  <2>9. Unhit(q, us) <=> \A u : ~Hits(q, them, u, kto, pos_pieces(q))
    BY <1>3, <2>8, Zenon DEF Unhit
  <2>10. QED
    BY <2>1, <2>2, <2>3, <2>4, <2>5, <2>8, <2>9, Zenon
<1>14. ASSUME Rules!MayCastle(P, us, r) PROVE p.checkers = {} /\ m \in gen_castling_moves(p)
  <2>1. PICK q : q = pos_move(p, m)
    OBVIOUS
  <2>2. /\ CastlePaths(p, m) /\ Castles(p, m) /\ BoardOK(q) /\ Castled(p, q, m)
        /\ \A x \in Segment[m.from][kto] : \A u : ~Hits(p, opposite(p.turn), u, x, pos_pieces(p))
        /\ \A u : ~Hits(q, opposite(p.turn), u, kto, pos_pieces(q))
        /\ kto = Rules!KingTo(m.from, m.to)
    BY <1>1, <1>2, <1>12, <1>13, <1>14, <2>1, Zenon
  <2>3. /\ p.checkers = {} /\ p.attacked \intersect Segment[m.from][kto] = {}
        /\ m.to \notin p.pins
    BY <2>2, CastleMust
  <2>4. QED
    BY <1>2, <1>10, <2>2, <2>3
<1>15. ASSUME p.checkers = {}, m \in gen_castling_moves(p) PROVE Rules!MayCastle(P, us, r)
  <2>1. PICK q : q = pos_move(p, m)
    OBVIOUS
  <2>2. /\ CastlePaths(p, m) /\ Castles(p, m) /\ BoardOK(q) /\ Castled(p, q, m)
        /\ p.attacked \intersect Segment[king][kto] = {}
    BY <1>10, <1>13, <1>15, <2>1, Zenon
  <2>3. \A u : ~Hits(q, them, u, kto, pos_pieces(q))
    <3>1. \A u : ~Hits(q, opposite(p.turn), u, Rules!KingTo(m.from, m.to), pos_pieces(q))
      BY <1>15, <2>2, CastleSafe
    <3>2. QED
      BY <1>1, <1>2, <3>1, Zenon
  <2>4. ASSUME NEW x \in Segment[king][kto], NEW u PROVE ~Hits(p, them, u, x, pos_pieces(p))
    <3>1. x \in Square /\ x \notin p.attacked
      BY <1>8, <2>2
    <3>2. ~Hits(p, them, u, x, SeenThrough(p))
      <4>1. \A t \in Square : t \in p.attacked <=> \E v : Hits(p, them, v, t, SeenThrough(p))
        BY <1>1, WhatIsDerived
      <4>2. QED
        BY <3>1, <4>1, Zenon
    <3>3. SeenThrough(p) \subseteq pos_pieces(p)
      BY DEF SeenThrough
    <3>4. \A occ : Hits(p, them, u, x, occ) <=>
               \/ u \in pos_pieces_cp(p, them, "KING") /\ u \in KingAttacks[x]
               \/ u \in pos_pieces_cp(p, them, "KNIGHT") /\ u \in KnightAttacks[x]
               \/ u \in pos_pieces_cp(p, them, "PAWN") /\ u \in PawnAttacks[opposite(them)][x]
               \/ SliderAt(p, them, x, u) /\ Between(x, u) \intersect occ = {}
      BY <1>3, <3>1, HitsOrSlides
    <3>5. Between(x, u) \intersect pos_pieces(p) = {} => Between(x, u) \intersect SeenThrough(p) = {}
      BY <3>3
    <3>6. QED
      BY <3>2, <3>4, <3>5, Zenon
  <2>5. QED
    BY <1>12, <1>13, <2>1, <2>2, <2>3, <2>4, Zenon
<1>16. QED
  BY <1>1, <1>14, <1>15, Zenon

\* The ranks of a pawn.
LEMMA PawnRanks ==
    ASSUME NEW c \in Color, NEW s \in Square, rank_of(s) \notin {0, 7}
    PROVE  /\ s + push_inc(c) \in Square
           /\ rank_of(s + push_inc(c)) \in {0, 7} <=> s \in Rank(relative_rank(c, 6))
           /\ \A t \in PawnAttacks[c][s] :
                t \in Square /\ (rank_of(t) \in {0, 7} <=> s \in Rank(relative_rank(c, 6)))
           /\ s \in Rank(relative_rank(c, 1)) =>
                /\ s + 2 * push_inc(c) \in Square /\ rank_of(s + 2 * push_inc(c)) \notin {0, 7}
                /\ s \notin Rank(relative_rank(c, 6))
<1>1. PICK r \in 1..6, f \in 0..7 : r = rank_of(s) /\ f = file_of(s) /\ s = 8 * r + f
  <2>1. PICK r \in 0..7, f \in 0..7 : r = rank_of(s) /\ f = file_of(s) /\ s = 8 * r + f
    BY RankAndFile
  <2>2. r \in 1..6
    BY <2>1
  <2>3. QED
    BY <2>1, <2>2
<1>2. PICK up \in {1, -1} : up = (IF c = WHITE THEN 1 ELSE -1) /\ push_inc(c) = 8 * up
  BY DEF push_inc
<1>3. /\ s \in Rank(relative_rank(c, 6)) <=> r + up \in {0, 7}
      /\ s \in Rank(relative_rank(c, 1)) <=> r = (IF up = 1 THEN 1 ELSE 6)
  BY <1>1, <1>2 DEF Rank, relative_rank, Color, WHITE, BLACK
<1>4. PICK x \in 0..7 : x = r + up
  BY <1>1, <1>2
<1>5. \A y, g \in 0..7 : 8 * y + g \in Square /\ rank_of(8 * y + g) = y
  BY RankAndFile
<1>6. s + push_inc(c) = 8 * x + f /\ s \in Int /\ push_inc(c) \in Int
  <2>1. s + push_inc(c) = (8 * r + f) + 8 * up /\ s \in Square /\ push_inc(c) = 8 * up
    BY <1>1, <1>2, Zenon
  <2>2. (8 * r + f) + 8 * up = 8 * x + f /\ 8 * up \in Int
    BY <1>4
  <2>3. QED
    BY <2>1, <2>2, RankAndFile
<1>7. s + push_inc(c) \in Square /\ rank_of(s + push_inc(c)) = r + up
  BY <1>4, <1>5, <1>6
<1>8. ASSUME NEW t \in PawnAttacks[c][s] PROVE t \in Square /\ rank_of(t) = r + up
  <2>1. t \in Square /\ \/ s % 8 # 0 /\ t = s + push_inc(c) - 1
                        \/ s % 8 # 7 /\ t = s + push_inc(c) + 1
    BY PawnCaptures
  <2>2. f = s % 8
    BY <1>1 DEF file_of
  <2>3. t \in Square /\ \/ f # 0 /\ t = (8 * x + f) - 1
                        \/ f # 7 /\ t = (8 * x + f) + 1
    BY <1>6, <2>1, <2>2
  <2>4. PICK g \in 0..7 : t = 8 * x + g
    <3>1. CASE f # 0 /\ t = (8 * x + f) - 1
      <4>1. f - 1 \in 0..7 /\ t = 8 * x + (f - 1)
        BY <3>1
      <4>2. QED
        BY <4>1
    <3>2. CASE f # 7 /\ t = (8 * x + f) + 1
      <4>1. f + 1 \in 0..7 /\ t = 8 * x + (f + 1)
        BY <3>2
      <4>2. QED
        BY <4>1
    <3>3. QED
      BY <2>3, <3>1, <3>2
  <2>5. QED
    BY <1>4, <1>5, <2>3, <2>4
<1>9. ASSUME r = (IF up = 1 THEN 1 ELSE 6)
      PROVE  /\ s + 2 * push_inc(c) \in Square /\ rank_of(s + 2 * push_inc(c)) \notin {0, 7}
             /\ r + up \notin {0, 7}
  <2>1. PICK y \in 1..6 : y = r + 2 * up
    BY <1>2, <1>9
  <2>2. s + 2 * push_inc(c) = 8 * y + f
    <3>1. s + 2 * push_inc(c) = (8 * r + f) + 2 * (8 * up)
      BY <1>1, <1>2, Zenon
    <3>2. QED
      BY <2>1, <3>1
  <2>3. y \in 0..7 /\ y \notin {0, 7} /\ r + up \notin {0, 7}
    BY <1>2, <1>9
  <2>4. QED
    BY <1>5, <2>2, <2>3
<1>10. QED
  BY <1>3, <1>7, <1>8, <1>9

\* What a pawn may do, en passant apart, check apart.
PawnGoes(p, m) ==
    /\ m.from \in pos_pieces_cp(p, p.turn, "PAWN")
    /\ m.prom \in IF rank_of(m.to) \in {0, 7} THEN {"KNIGHT", "BISHOP", "ROOK", "QUEEN"}
                  ELSE {NB_PIECE}
    /\ \/ m.to \in p.byColor[opposite(p.turn)] /\ m.to \in PawnAttacks[p.turn][m.from]
       \/ m.to \notin pos_pieces(p) /\ m.to = m.from + push_inc(p.turn)
       \/ /\ m.from \in Rank(relative_rank(p.turn, 1))
          /\ m.to \notin pos_pieces(p) /\ m.from + push_inc(p.turn) \notin pos_pieces(p)
          /\ m.to = m.from + 2 * push_inc(p.turn)

\* Where the rules let a pawn go, en passant apart.
LEMMA PawnGoesWhere ==
    ASSUME NEW p, Sound(p), NEW m, PawnGoes(p, m)
    PROVE  /\ m.from \in Square /\ rank_of(m.from) \notin {0, 7} /\ m.to \in Square
           /\ m.to \notin p.byColor[p.turn] /\ m.to # p.epSquare
           /\ rank_of(m.to) \in {0, 7} <=> m.from \in Rank(relative_rank(p.turn, 6))
           /\ PawnMove(p, m) \/ Promotion(p, m)
<1>1. PICK us, them, from, to, push :
        /\ us = p.turn /\ them = opposite(us) /\ from = m.from /\ to = m.to /\ push = push_inc(us)
  OBVIOUS
<1>2. /\ us \in Color /\ them \in Color /\ us # them /\ BoardOK(p)
      /\ p.byColor[us] \subseteq Square /\ p.byColor[us] \intersect p.byColor[them] = {}
      /\ pos_pieces(p) = p.byColor[us] \union p.byColor[them]
  BY <1>1, ColoredPieces DEF Sound, BoardOK
<1>3. from \in p.byColor[us] /\ from \in p.byPiece["PAWN"] /\ from \in Square
  BY <1>1, <1>2 DEF PawnGoes, pos_pieces_cp
<1>4. rank_of(from) \notin {0, 7}
  BY <1>3 DEF Sound, PawnsSound, Rank
<1>5. /\ from + push \in Square
      /\ rank_of(from + push) \in {0, 7} <=> from \in Rank(relative_rank(us, 6))
      /\ \A t \in PawnAttacks[us][from] :
                t \in Square /\ (rank_of(t) \in {0, 7} <=> from \in Rank(relative_rank(us, 6)))
      /\ from \in Rank(relative_rank(us, 1)) =>
                /\ from + 2 * push \in Square /\ rank_of(from + 2 * push) \notin {0, 7}
                /\ from \notin Rank(relative_rank(us, 6))
  BY <1>1, <1>2, <1>3, <1>4, PawnRanks
<1>6. \/ to \in p.byColor[them] /\ to \in PawnAttacks[us][from]
      \/ to \notin pos_pieces(p) /\ to = from + push
      \/ /\ from \in Rank(relative_rank(us, 1))
         /\ to \notin pos_pieces(p) /\ from + push \notin pos_pieces(p) /\ to = from + 2 * push
  BY <1>1 DEF PawnGoes
<1>7. /\ to \in Square /\ to \notin p.byColor[us]
      /\ rank_of(to) \in {0, 7} <=> from \in Rank(relative_rank(us, 6))
  BY <1>2, <1>5, <1>6
<1>8. to # p.epSquare
  <2>1. SUFFICES ASSUME to = p.epSquare PROVE FALSE
    OBVIOUS
  <2>2. p.epSquare # NB_SQUARE
    BY <1>7, <2>1 DEF Square, NB_SQUARE
  <2>3. to \notin pos_pieces(p) /\ to - push \in p.byColor[them]
    BY <1>1, <2>1, <2>2 DEF Sound, EpSound, pos_pieces_cp
  <2>4. from \in Int /\ push \in Int
    <3>1. push \in {8, -8}
      BY <1>1 DEF push_inc
    <3>2. QED
      BY <1>3, <3>1, RankAndFile
  <2>5. CASE to = from + push
    <3>1. to - push = from
      BY <2>4, <2>5
    <3>2. QED
      BY <1>2, <1>3, <2>3, <3>1
  <2>6. CASE to = from + 2 * push /\ from + push \notin pos_pieces(p)
    <3>1. to - push = from + push
      BY <2>4, <2>6
    <3>2. QED
      BY <1>2, <2>3, <2>6, <3>1
  <2>7. QED
    BY <1>2, <1>6, <2>3, <2>5, <2>6
<1>9. to = from + push \/ to \in PawnAttacks[us][from] => PawnStep(p, from, to)
  <2>1. CASE to = from + push
    BY <1>1, <2>1 DEF PawnStep
  <2>2. CASE to \in PawnAttacks[us][from]
    <3>1. \/ from % 8 # 0 /\ to = from + push - 1
          \/ from % 8 # 7 /\ to = from + push + 1
      BY <1>1, <1>2, <1>3, <2>2, PawnCaptures
    <3>2. QED
      BY <1>1, <1>3, <3>1 DEF PawnStep, File, file_of
  <2>3. QED
    BY <2>1, <2>2
<1>10. CASE from \in Rank(relative_rank(us, 6))
  <2>1. m.prom \in {"QUEEN", "ROOK", "BISHOP", "KNIGHT"}
    BY <1>1, <1>7, <1>10 DEF PawnGoes
  <2>2. PawnStep(p, from, to)
    BY <1>5, <1>6, <1>10, <1>9
  <2>3. QED
    BY <1>1, <1>3, <1>4, <1>7, <1>8, <1>10, <2>1, <2>2 DEF Promotion, pos_pieces_cp
<1>11. CASE from \notin Rank(relative_rank(us, 6))
  <2>1. m.prom = NB_PIECE
    BY <1>1, <1>7, <1>11 DEF PawnGoes
  <2>2. \/ PawnStep(p, from, to)
        \/ /\ from \in Rank(relative_rank(us, 1)) /\ from + push \in Square \ pos_pieces(p)
           /\ to = from + 2 * push
    BY <1>5, <1>6, <1>9
  <2>3. QED
    BY <1>1, <1>3, <1>4, <1>7, <1>8, <1>11, <2>1, <2>2 DEF PawnMove, pos_pieces_cp
<1>12. QED
  BY <1>1, <1>3, <1>4, <1>7, <1>8, <1>10, <1>11

\* What the generator makes of the pawns, en passant apart.
LEMMA PawnsServedOnly ==
    ASSUME NEW p, Sound(p), NEW filter, NEW m, m \in NormalPawnMoves(p, filter) \union Promotions(p, filter)
    PROVE  /\ m = move(m.from, m.to, m.prom) /\ PawnGoes(p, m)
           /\ m.to \in filter /\ m.to \in Allowed(p, m.from)
<1>1. PICK us, them, push : us = p.turn /\ them = opposite(us) /\ push = push_inc(us)
  OBVIOUS
<1>2. us \in Color /\ BoardOK(p) /\ push \in {8, -8} /\ p.byColor[us] \subseteq Square
  BY <1>1, ColoredPieces DEF Sound, BoardOK, push_inc
<1>3. CASE m \in NormalPawnMoves(p, filter)
  <2>1. /\ PawnMove(p, m) /\ m = move(m.from, m.to, m.prom)
        /\ m.to \in filter /\ m.to \in Allowed(p, m.from)
        /\ \/ m.to \in p.byColor[them] /\ m.to \in PawnAttacks[us][m.from]
           \/ m.to \notin pos_pieces(p) /\ m.to = m.from + push
           \/ /\ m.to \notin pos_pieces(p) /\ m.from + push \notin pos_pieces(p)
              /\ m.to = m.from + 2 * push
    BY <1>1, <1>3, PawnsGoTo
  <2>2. rank_of(m.to) \notin {0, 7}
    BY <2>1, PawnSquares DEF Promotion, PawnMove
  <2>3. m.from \in Int
    BY <2>1, PawnSquares, RankAndFile
  <2>4. m.to = m.from + 2 * push => m.from \in Rank(relative_rank(us, 1))
    BY <1>1, <1>2, <2>1, <2>3 DEF PawnMove, PawnStep
  <2>5. QED
    BY <1>1, <2>1, <2>2, <2>4 DEF PawnGoes, PawnMove
<1>4. CASE m \in Promotions(p, filter)
  <2> DEFINE targets(s) == (PawnAttacks[us][s] \intersect (p.byColor[them] \intersect filter))
                           \union ({s + push} \intersect filter \intersect (Square \ pos_pieces(p)))
  <2>1. PICK s \in pos_pieces_cp(p, us, "PAWN") \intersect Rank(relative_rank(us, 6)) :
          \E to \in targets(s) \intersect Allowed(p, s),
             prom \in {"QUEEN", "ROOK", "BISHOP", "KNIGHT"} : m = move(s, to, prom)
    BY <1>1, <1>4 DEF Promotions
  <2>2. PICK to \in targets(s) \intersect Allowed(p, s),
             prom \in {"QUEEN", "ROOK", "BISHOP", "KNIGHT"} : m = move(s, to, prom)
    BY <2>1
  <2>3. m.from = s /\ m.to = to /\ m.prom = prom /\ m = move(m.from, m.to, m.prom)
    BY <2>2 DEF move
  <2>4. s \in Square /\ rank_of(s) \notin {0, 7}
    BY <1>2 DEF pos_pieces_cp, Sound, PawnsSound, Rank
  <2>5. rank_of(to) \in {0, 7}
    BY <1>1, <1>2, <2>4, PawnRanks
  <2>6. QED
    BY <1>1, <2>2, <2>3, <2>5 DEF PawnGoes
<1>5. QED
  BY <1>3, <1>4

\* What is put into a shifted bitboard.
LEMMA ShiftedTo ==
    ASSUME NEW b, NEW i \in Int, NEW s \in Square, s + i \in b
    PROVE  s \in bb_shift(b, -i)
<1>1. s = (s + i) + (-i)
  BY RankAndFile
<1>2. QED
  BY <1>1 DEF bb_shift

\* Pawns are served what the rules and the pins let them do.
LEMMA PawnsServed ==
    ASSUME NEW p, Sound(p), NEW filter, NEW m
    PROVE  m \in NormalPawnMoves(p, filter) \union Promotions(p, filter) <=>
             /\ m = move(m.from, m.to, m.prom) /\ PawnGoes(p, m)
             /\ m.to \in filter /\ m.to \in Allowed(p, m.from)
<1>1. PICK us, them, push, from, to, prom :
        /\ us = p.turn /\ them = opposite(us) /\ push = push_inc(us)
        /\ from = m.from /\ to = m.to /\ prom = m.prom
  OBVIOUS
<1>2. SUFFICES ASSUME m = move(from, to, prom), PawnGoes(p, m), to \in filter, to \in Allowed(p, from)
               PROVE  m \in NormalPawnMoves(p, filter) \union Promotions(p, filter)
  BY <1>1, PawnsServedOnly
<1>3. us \in Color /\ push \in {8, -8} /\ push \in Int /\ p.byColor[them] \subseteq pos_pieces(p)
  BY <1>1, ColoredPieces DEF Sound, BoardOK, push_inc
<1>4. /\ from \in Square /\ rank_of(from) \notin {0, 7} /\ to \in Square
      /\ rank_of(to) \in {0, 7} <=> from \in Rank(relative_rank(us, 6))
  BY <1>1, <1>2, PawnGoesWhere
<1>5. /\ from \in pos_pieces_cp(p, us, "PAWN")
      /\ prom \in IF rank_of(to) \in {0, 7} THEN {"KNIGHT", "BISHOP", "ROOK", "QUEEN"} ELSE {NB_PIECE}
      /\ \/ to \in p.byColor[them] /\ to \in PawnAttacks[us][from]
         \/ to \notin pos_pieces(p) /\ to = from + push
         \/ /\ from \in Rank(relative_rank(us, 1))
            /\ to \notin pos_pieces(p) /\ from + push \notin pos_pieces(p) /\ to = from + 2 * push
  BY <1>1, <1>2 DEF PawnGoes
<1>6. CASE from \in Rank(relative_rank(us, 6))
  <2>1. from \notin Rank(relative_rank(us, 1))
    BY <1>3, <1>4, <1>6, PawnRanks
  <2>2. prom \in {"QUEEN", "ROOK", "BISHOP", "KNIGHT"}
    BY <1>4, <1>5, <1>6
  <2>3. to \in (PawnAttacks[us][from] \intersect (p.byColor[them] \intersect filter))
               \union ({from + push} \intersect filter \intersect (Square \ pos_pieces(p)))
    BY <1>2, <1>4, <1>5, <2>1
  <2>4. m \in Promotions(p, filter)
    BY <1>1, <1>2, <1>5, <1>6, <2>2, <2>3 DEF Promotions
  <2>5. QED
    BY <2>4
<1>7. CASE from \notin Rank(relative_rank(us, 6))
  <2> DEFINE pawns == pos_pieces_cp(p, us, "PAWN") \ Rank(relative_rank(us, 6))
             capturable == p.byColor[them] \intersect filter
             empty == Square \ pos_pieces(p)
  <2>1. from \in pawns /\ prom = NB_PIECE
    BY <1>4, <1>5, <1>7
  <2>2. ASSUME NEW x,
               \/ x \in serialize_pawn_moves(p, (pawns \ File(0)) \intersect bb_shift(capturable, -(push - 1)), push - 1)
               \/ x \in serialize_pawn_moves(p, (pawns \ File(7)) \intersect bb_shift(capturable, -(push + 1)), push + 1)
               \/ x \in serialize_pawn_moves(p, pawns \intersect bb_shift(empty \intersect filter, -push), push)
               \/ x \in serialize_pawn_moves(p, pawns \intersect Rank(relative_rank(us, 1))
                                                  \intersect bb_shift(empty, -push)
                                                  \intersect bb_shift(empty \intersect filter, -2 * push), 2 * push)
        PROVE  x \in NormalPawnMoves(p, filter)
    BY <1>1, <2>2 DEF NormalPawnMoves
  <2>3. ASSUME NEW S, from \in S, NEW i \in Int, to = from + i PROVE m \in serialize_pawn_moves(p, S, i)
    BY <1>2, <2>1, <2>3 DEF serialize_pawn_moves
  <2>4. CASE to \in p.byColor[them] /\ to \in PawnAttacks[us][from]
    <3>1. to \in capturable
      BY <1>2, <2>4
    <3>2. \/ from % 8 # 0 /\ to = from + push - 1
          \/ from % 8 # 7 /\ to = from + push + 1
      BY <1>1, <1>3, <1>4, <2>4, PawnCaptures
    <3>3. from \in Int /\ push - 1 \in Int /\ push + 1 \in Int
      <4>1. from \in Int
        BY <1>4, RankAndFile
      <4>2. QED
        BY <1>3, <4>1
    <3>4. \/ from \notin File(0) /\ to = from + (push - 1)
          \/ from \notin File(7) /\ to = from + (push + 1)
      BY <1>3, <1>4, <3>2, <3>3 DEF File, file_of
    <3> HIDE DEF pawns, capturable, empty
    <3>5. \/ /\ from \in (pawns \ File(0)) \intersect bb_shift(capturable, -(push - 1))
             /\ to = from + (push - 1)
          \/ /\ from \in (pawns \ File(7)) \intersect bb_shift(capturable, -(push + 1))
             /\ to = from + (push + 1)
      BY <1>4, <2>1, <3>1, <3>3, <3>4, ShiftedTo
    <3>6. QED
      BY <2>2, <2>3, <3>3, <3>5
  <2>5. CASE to \notin pos_pieces(p) /\ to = from + push
    <3>1. to \in empty \intersect filter
      BY <1>2, <1>4, <2>5
    <3> HIDE DEF pawns, capturable, empty
    <3>2. from \in pawns \intersect bb_shift(empty \intersect filter, -push)
      BY <1>3, <1>4, <2>1, <2>5, <3>1, ShiftedTo
    <3>3. QED
      BY <1>3, <2>2, <2>3, <2>5, <3>2
  <2>6. CASE /\ from \in Rank(relative_rank(us, 1))
             /\ to \notin pos_pieces(p) /\ from + push \notin pos_pieces(p) /\ to = from + 2 * push
    <3>1. to \in empty \intersect filter /\ from + push \in empty
      BY <1>1, <1>2, <1>3, <1>4, <2>6, PawnRanks
    <3>2. 2 * push \in Int /\ -2 * push = -(2 * push)
      BY <1>3
    <3> HIDE DEF pawns, capturable, empty
    <3>3. from \in bb_shift(empty, -push)
      BY <1>3, <1>4, <3>1, ShiftedTo
    <3>4. from \in bb_shift(empty \intersect filter, -(2 * push))
      BY <1>4, <2>6, <3>1, <3>2, ShiftedTo
    <3>5. from \in pawns \intersect Rank(relative_rank(us, 1))
                                                  \intersect bb_shift(empty, -push)
                                                  \intersect bb_shift(empty \intersect filter, -2 * push)
      BY <2>1, <2>6, <3>2, <3>3, <3>4
    <3>6. QED
      BY <2>2, <2>3, <2>6, <3>2, <3>5
  <2>7. QED
    BY <1>5, <2>4, <2>5, <2>6
<1>8. QED
  BY <1>6, <1>7

\* What a piece may do, check apart.
PieceGoes(p, m) ==
    /\ m.from \in p.byColor[p.turn] \ p.byPiece["PAWN"] /\ m.prom = NB_PIECE
    /\ m.to \in Square \ p.byColor[p.turn] /\ Hits(p, p.turn, m.from, m.to, pos_pieces(p))

\* So are knights, bishops, rooks and queens.
LEMMA PiecesServed ==
    ASSUME NEW p, BoardOK(p), NEW filter, filter \subseteq Square \ p.byColor[p.turn], NEW m
    PROVE  m \in gen_piece_moves(p, filter) <=>
             /\ m = move(m.from, m.to, m.prom) /\ PieceGoes(p, m) /\ m.from \notin p.byPiece["KING"]
             /\ m.to \in filter /\ m.to \in Allowed(p, m.from)
<1>1. PICK us, occ : us = p.turn /\ occ = pos_pieces(p)
  OBVIOUS
<1>2. ASSUME NEW s, NEW T
      PROVE  m \in serialize_piece_moves(p, s, T) <=>
               /\ m = move(m.from, m.to, m.prom) /\ m.prom = NB_PIECE /\ m.from = s
               /\ m.to \in T /\ m.to \in Allowed(p, s)
  BY DEF serialize_piece_moves, Plain, move
<1>3. m \in gen_piece_moves(p, filter) <=>
        \/ \E s \in pos_pieces_cp(p, us, "KNIGHT") :
             m \in serialize_piece_moves(p, s, KnightAttacks[s] \intersect filter)
        \/ \E s \in pos_pieces_cpp(p, us, "ROOK", "QUEEN") :
             m \in serialize_piece_moves(p, s, bb_rook_attacks(s, occ) \intersect filter)
        \/ \E s \in pos_pieces_cpp(p, us, "BISHOP", "QUEEN") :
             m \in serialize_piece_moves(p, s, bb_bishop_attacks(s, occ) \intersect filter)
  BY <1>1 DEF gen_piece_moves
<1> DEFINE Common == /\ m = move(m.from, m.to, m.prom) /\ m.prom = NB_PIECE
                     /\ m.to \in filter /\ m.to \in Allowed(p, m.from)
<1>4. \A s : m \in serialize_piece_moves(p, s, KnightAttacks[s] \intersect filter) <=>
               Common /\ m.from = s /\ m.to \in KnightAttacks[s]
  BY <1>2
<1>5. \A s : m \in serialize_piece_moves(p, s, bb_rook_attacks(s, occ) \intersect filter) <=>
               Common /\ m.from = s /\ m.to \in bb_rook_attacks(s, occ)
  BY <1>2
<1>6. \A s : m \in serialize_piece_moves(p, s, bb_bishop_attacks(s, occ) \intersect filter) <=>
               Common /\ m.from = s /\ m.to \in bb_bishop_attacks(s, occ)
  BY <1>2
<1> HIDE DEF Common
<1>7. m \in gen_piece_moves(p, filter) <=>
        /\ Common
        /\ \/ m.from \in pos_pieces_cp(p, us, "KNIGHT") /\ m.to \in KnightAttacks[m.from]
           \/ m.from \in pos_pieces_cpp(p, us, "ROOK", "QUEEN") /\ m.to \in bb_rook_attacks(m.from, occ)
           \/ m.from \in pos_pieces_cpp(p, us, "BISHOP", "QUEEN") /\ m.to \in bb_bishop_attacks(m.from, occ)
  BY <1>3, <1>4, <1>5, <1>6
<1> USE DEF Common
<1>8. \A s \in p.byColor[us] : s \in p.byPiece["PAWN"] \/ s \in p.byPiece["KING"]
        <=> /\ s \notin pos_pieces_cp(p, us, "KNIGHT") /\ s \notin pos_pieces_cpp(p, us, "ROOK", "QUEEN")
            /\ s \notin pos_pieces_cpp(p, us, "BISHOP", "QUEEN")
  <2>1. TAKE s \in p.byColor[us]
  <2>2. PICK k \in Piece : s \in p.byPiece[k]
    BY <1>1, ColoredPieces DEF BoardOK
  <2>3. \A l \in Piece : s \in p.byPiece[l] => l = k
    BY <2>2 DEF BoardOK
  <2>4. QED
    BY <2>2, <2>3 DEF pos_pieces_cp, pos_pieces_cpp, Piece
<1>9. \A s : /\ s \in pos_pieces_cp(p, us, "KNIGHT") => s \in p.byColor[us]
             /\ s \in pos_pieces_cpp(p, us, "ROOK", "QUEEN") => s \in p.byColor[us]
             /\ s \in pos_pieces_cpp(p, us, "BISHOP", "QUEEN") => s \in p.byColor[us]
             /\ s \in pos_pieces_cp(p, us, "PAWN") => s \in p.byPiece["PAWN"]
             /\ s \in pos_pieces_cp(p, us, "KING") => s \in p.byPiece["KING"]
  BY DEF pos_pieces_cp, pos_pieces_cpp
<1>10. \A s, t : Hits(p, us, s, t, occ) <=>
        \/ s \in pos_pieces_cp(p, us, "KING") /\ t \in KingAttacks[s]
        \/ s \in pos_pieces_cp(p, us, "KNIGHT") /\ t \in KnightAttacks[s]
        \/ s \in pos_pieces_cp(p, us, "PAWN") /\ t \in PawnAttacks[us][s]
        \/ s \in pos_pieces_cpp(p, us, "ROOK", "QUEEN") /\ t \in bb_rook_attacks(s, occ)
        \/ s \in pos_pieces_cpp(p, us, "BISHOP", "QUEEN") /\ t \in bb_bishop_attacks(s, occ)
  BY DEF Hits
<1>11. PieceGoes(p, m) <=>
        /\ m.from \in p.byColor[us] /\ m.from \notin p.byPiece["PAWN"] /\ m.prom = NB_PIECE
        /\ m.to \in Square \ p.byColor[us] /\ Hits(p, us, m.from, m.to, occ)
  BY <1>1 DEF PieceGoes
<1>12. m.to \in filter => m.to \in Square \ p.byColor[us]
  BY <1>1
<1>13. QED
  BY <1>7, <1>8, <1>9, <1>10, <1>11, <1>12, Zenon

\* So is the king.
LEMMA KingServed ==
    ASSUME NEW p, Ready(p), NEW m
    PROVE  m \in KingMoves(p, Square \ p.byColor[p.turn]) <=>
             m = move(m.from, m.to, m.prom) /\ KingStep(p, m)
<1>1. PICK king, us : king = King(p) /\ us = p.turn
  OBVIOUS
<1>2. king \notin p.pins
  <2>1. \A x : x \in p.pins => \E u : Between(king, u) \intersect pos_pieces(p) = {x}
    BY <1>1, WhatIsDerived
  <2>2. \A u : king \notin Between(king, u)
    BY DEF Between
  <2>3. QED
    BY <2>1, <2>2
<1>3. Allowed(p, king) = Square
  BY <1>1, <1>2 DEF Allowed
<1>4. KingMoves(p, Square \ p.byColor[us]) =
        {move(king, to, NB_PIECE) :
            to \in ((KingAttacks[king] \intersect (Square \ p.byColor[us])) \ p.attacked) \intersect Square}
  BY <1>1, <1>3 DEF KingMoves, serialize_piece_moves, Plain
<1>5. QED
  BY <1>1, <1>4 DEF KingStep, move

\* Segments stay on the board.
LEMMA SegmentOnBoard ==
    ASSUME NEW s \in Square, NEW t \in Square
    PROVE  Segment[s][t] \subseteq Square
<1>1. \A d \in KingDir : Line(s, d) \subseteq Square
  BY StepsOnBoard DEF Line
<1>2. QED
  BY <1>1 DEF Segment

\* What the generator makes.
LEMMA GeneratedMoves ==
    ASSUME NEW p, Ready(p), NEW m
    PROVE  m \in gen_all_moves(p) <=>
             \/ /\ m = move(m.from, m.to, m.prom) /\ PieceGoes(p, m) /\ m.from \notin p.byPiece["KING"]
                /\ Kept(p, m) /\ Answered(p, m)
             \/ m = move(m.from, m.to, m.prom) /\ PawnGoes(p, m) /\ Kept(p, m) /\ Answered(p, m)
             \/ m = move(m.from, m.to, m.prom) /\ KingStep(p, m)
             \/ m \in EnPassant(p) /\ ~bb_several(p.checkers)
             \/ p.checkers = {} /\ m \in gen_castling_moves(p)
<1> DEFINE ours == p.byColor[p.turn]
           checker == CHOOSE s \in p.checkers : TRUE
           targets == IF pos_piece_on(p, checker) \in {"BISHOP", "ROOK", "QUEEN"}
                      THEN Segment[King(p)][checker] ELSE p.checkers
           pawnTargets == IF /\ pos_piece_on(p, checker) = "PAWN" /\ p.epSquare # NB_SQUARE
                          THEN targets \union {p.epSquare} ELSE targets
           IsMove(n) == n = move(n.from, n.to, n.prom)
           Pieces(n) == IsMove(n) /\ PieceGoes(p, n) /\ n.from \notin p.byPiece["KING"]
           Pawn(n) == IsMove(n) /\ PawnGoes(p, n)
<1>1. Sound(p) /\ BoardOK(p)
  BY Sides DEF Ready
<1>2. m.to \in Square => (m.to \in Allowed(p, m.from) <=> Kept(p, m))
  BY DEF Allowed, Kept
<1>3. Pieces(m) => m.to \in Square /\ m.to \notin ours
  BY DEF PieceGoes
<1>4. Pawn(m) => m.to \in Square /\ m.to \notin ours /\ m.to # p.epSquare
  BY <1>1, PawnGoesWhere
<1>5. ASSUME NEW filter, filter \subseteq Square \ ours
      PROVE  m \in gen_piece_moves(p, filter) <=> Pieces(m) /\ m.to \in filter /\ Kept(p, m)
  <2>1. m \in gen_piece_moves(p, filter) <=>
             /\ m = move(m.from, m.to, m.prom) /\ PieceGoes(p, m) /\ m.from \notin p.byPiece["KING"]
             /\ m.to \in filter /\ m.to \in Allowed(p, m.from)
    BY <1>1, <1>5, PiecesServed
  <2> HIDE DEF ours
  <2>2. QED
    BY <1>2, <1>3, <2>1
<1>6. ASSUME NEW filter
      PROVE  m \in gen_pawn_moves(p, filter) <=>
               (Pawn(m) /\ m.to \in filter /\ Kept(p, m)) \/ m \in EnPassant(p)
  <2>1. m \in NormalPawnMoves(p, filter) \union Promotions(p, filter) <=>
             /\ m = move(m.from, m.to, m.prom) /\ PawnGoes(p, m)
             /\ m.to \in filter /\ m.to \in Allowed(p, m.from)
    BY <1>1, PawnsServed
  <2>2. m \in gen_pawn_moves(p, filter) <=>
          m \in NormalPawnMoves(p, filter) \union Promotions(p, filter) \/ m \in EnPassant(p)
    BY DEF gen_pawn_moves
  <2> HIDE DEF ours
  <2>3. QED
    BY <1>2, <1>4, <2>1, <2>2
<1>7. m \in KingMoves(p, Square \ ours) <=> IsMove(m) /\ KingStep(p, m)
  BY KingServed
<1>8. CASE p.checkers = {}
  <2>1. Answered(p, m) /\ ~bb_several(p.checkers)
    BY <1>8, FS_EmptySet DEF Answered, bb_several
  <2>2. m \in gen_all_moves(p) <=>
          \/ m \in gen_pawn_moves(p, Square \ ours) \/ m \in gen_piece_moves(p, Square \ ours)
          \/ m \in KingMoves(p, Square \ ours) \/ m \in gen_castling_moves(p)
    BY <1>8 DEF gen_all_moves
  <2>3. m \in gen_piece_moves(p, Square \ ours) <=>
          Pieces(m) /\ m.to \in Square \ ours /\ Kept(p, m)
    BY <1>5
  <2>4. m \in gen_pawn_moves(p, Square \ ours) <=>
          (Pawn(m) /\ m.to \in Square \ ours /\ Kept(p, m)) \/ m \in EnPassant(p)
    BY <1>6
  <2> HIDE DEF ours, Pieces, Pawn, IsMove
  <2>5. m \in gen_all_moves(p) <=>
          \/ (Pawn(m) /\ Kept(p, m)) \/ m \in EnPassant(p) \/ (Pieces(m) /\ Kept(p, m))
          \/ (IsMove(m) /\ KingStep(p, m)) \/ m \in gen_castling_moves(p)
    <3>1. (Pieces(m) => m.to \in Square \ ours) /\ (Pawn(m) => m.to \in Square \ ours)
      BY <1>3, <1>4
    <3>2. QED
      BY <1>7, <2>2, <2>3, <2>4, <3>1
  <2>6. m \in gen_all_moves(p) <=>
           \/ Pieces(m) /\ Kept(p, m) /\ Answered(p, m)
           \/ Pawn(m) /\ Kept(p, m) /\ Answered(p, m)
           \/ IsMove(m) /\ KingStep(p, m)
           \/ m \in EnPassant(p) /\ ~bb_several(p.checkers)
           \/ p.checkers = {} /\ m \in gen_castling_moves(p)
    BY <1>8, <2>1, <2>5
  <2> USE DEF Pieces, Pawn, IsMove
  <2>7. QED
    BY <2>6, Zenon
<1>9. CASE p.checkers # {}
  <2>1. gen_all_moves(p) = gen_check_escapes(p)
    BY <1>9 DEF gen_all_moves
  <2>2. gen_check_escapes(p) =
          KingMoves(p, Square \ ours) \union
            IF bb_several(p.checkers) THEN {}
            ELSE gen_piece_moves(p, targets \ ours) \union gen_pawn_moves(p, pawnTargets)
    BY Zenon DEF gen_check_escapes
  <2>3. checker \in p.checkers
    BY <1>9
  <2>4. p.checkers \subseteq Square
    <3>1. \A u : u \in p.checkers => Hits(p, opposite(p.turn), u, King(p), pos_pieces(p))
      BY WhatIsDerived
    <3>2. p.byColor[opposite(p.turn)] \subseteq Square /\ BoardOK(p) /\ opposite(p.turn) \in Color
      BY Sides
    <3>3. \A u : Hits(p, opposite(p.turn), u, King(p), pos_pieces(p)) => u \in p.byColor[opposite(p.turn)]
      BY <3>2 DEF Hits, pos_pieces_cp, pos_pieces_cpp
    <3>4. QED
      BY <3>1, <3>2, <3>3
  <2>5. ~bb_several(p.checkers) <=> p.checkers = {checker}
    BY <2>3, <2>4, NotSeveral
  <2>6. m.to \in Square => (Answered(p, m) <=> ~bb_several(p.checkers) /\ m.to \in targets)
    BY <1>9, <2>3, <2>5 DEF Answered
  <2>7. targets \subseteq Square
    <3>1. King(p) \in Square
      BY Sides
    <3>2. Segment[King(p)][checker] \subseteq Square
      BY <2>3, <2>4, <3>1, SegmentOnBoard
    <3>3. QED
      BY <2>4, <3>2
  <2>8. m.to # p.epSquare => (m.to \in pawnTargets <=> m.to \in targets)
    OBVIOUS
  <2> HIDE DEF ours, Pieces, Pawn, IsMove, targets, pawnTargets, checker
  <2>9. m \in gen_piece_moves(p, targets \ ours) <=> Pieces(m) /\ m.to \in targets /\ Kept(p, m)
    BY <1>3, <1>5, <2>7
  <2>10. m \in gen_pawn_moves(p, pawnTargets) <=>
           (Pawn(m) /\ m.to \in targets /\ Kept(p, m)) \/ m \in EnPassant(p)
    BY <1>4, <1>6, <2>8
  <2>11. m \in gen_all_moves(p) <=>
           \/ IsMove(m) /\ KingStep(p, m)
           \/ /\ ~bb_several(p.checkers)
              /\ \/ Pieces(m) /\ m.to \in targets /\ Kept(p, m)
                 \/ (Pawn(m) /\ m.to \in targets /\ Kept(p, m)) \/ m \in EnPassant(p)
    BY <1>7, <2>1, <2>2, <2>9, <2>10
  <2>12. (Pieces(m) \/ Pawn(m)) => m.to \in Square
    BY <1>3, <1>4
  <2>13. m \in gen_all_moves(p) <=>
           \/ Pieces(m) /\ Kept(p, m) /\ Answered(p, m)
           \/ Pawn(m) /\ Kept(p, m) /\ Answered(p, m)
           \/ IsMove(m) /\ KingStep(p, m)
           \/ m \in EnPassant(p) /\ ~bb_several(p.checkers)
    BY <2>6, <2>11, <2>12, Zenon
  <2> USE DEF Pieces, Pawn, IsMove
  <2>14. QED
    BY <1>9, <2>13, Zenon
<1>10. QED
  BY <1>8, <1>9

\* What stands on a square, by the rules and by the bitboards.
LEMMA OwnSquares ==
    ASSUME NEW p, BoardOK(p), NEW P, Places(p, P), NEW c \in Color, NEW s \in Square
    PROVE  Rules!Own(P, c, s) <=> s \in p.byColor[c]
<1>1. ASSUME s \in p.byColor[c] PROVE \E x \in P : x[3] = s /\ x[1] = c
  <2>1. s \in pos_pieces(p)
    BY <1>1, ColoredPieces
  <2>2. PICK k \in Piece : s \in p.byPiece[k]
    BY <2>1 DEF BoardOK
  <2>3. <<c, k, s>> \in P /\ <<c, k, s>>[3] = s /\ <<c, k, s>>[1] = c
    BY <1>1, <2>2 DEF Places
  <2>4. QED
    BY <2>3, Zenon
<1>2. ASSUME NEW x \in P, x[3] = s, x[1] = c PROVE s \in p.byColor[c]
  <2>1. PICK k \in Piece : x = <<c, k, s>>
    BY <1>2 DEF Places
  <2>2. QED
    BY <2>1 DEF Places
<1>3. QED
  BY <1>1, <1>2 DEF Rules!Own, Rules!On

\* What the rules say a piece reaches is what it attacks.
LEMMA PieceReach ==
    ASSUME NEW p, BoardOK(p), NEW P, Places(p, P), NEW c \in Color, NEW k \in Piece,
           NEW u \in p.byColor[c] \intersect p.byPiece[k], NEW t
    PROVE  /\ t \in Rules!Reach(P, <<c, k, u>>) <=> Hits(p, c, u, t, pos_pieces(p))
           /\ t \in Rules!Reach(P, <<c, k, u>>) => t \in Square
           /\ k = "PAWN" => (t \in Rules!Reach(P, <<c, k, u>>) <=> t \in PawnAttacks[c][u])
<1>1. u \in Square
  BY ColoredPieces
<1>2. t \in Rules!Reach(P, <<c, k, u>>) <=>
             \/ k = "KING" /\ t \in KingAttacks[u]
             \/ k = "KNIGHT" /\ t \in KnightAttacks[u]
             \/ k = "PAWN" /\ t \in PawnAttacks[c][u]
             \/ k \in {"ROOK", "QUEEN"} /\ t \in bb_rook_attacks(u, pos_pieces(p))
             \/ k \in {"BISHOP", "QUEEN"} /\ t \in bb_bishop_attacks(u, pos_pieces(p))
  BY <1>1, RulesReach
<1>3. \A l \in Piece : u \in p.byPiece[l] <=> l = k
  BY DEF BoardOK
<1>4. t \in Rules!Reach(P, <<c, k, u>>) <=> Hits(p, c, u, t, pos_pieces(p))
  BY <1>2, <1>3 DEF Hits, pos_pieces_cp, pos_pieces_cpp, Piece
<1>5. /\ KingAttacks[u] \subseteq Square /\ KnightAttacks[u] \subseteq Square
      /\ PawnAttacks[c][u] \subseteq Square /\ bb_rook_attacks(u, pos_pieces(p)) \subseteq Square
      /\ bb_bishop_attacks(u, pos_pieces(p)) \subseteq Square
  BY <1>1, AttacksOnBoard, PawnCaptures
<1>6. QED
  BY <1>2, <1>4, <1>5

\* Where the rules let a pawn go.
LEMMA PawnTargetsAre ==
    ASSUME NEW p, Sound(p), NEW P, Places(p, P), NEW us, us = p.turn,
           NEW u \in pos_pieces_cp(p, us, "PAWN"), NEW t
    PROVE  t \in Rules!PawnTargets(P, <<us, "PAWN", u>>, p.epSquare) <=>
             \/ t = p.epSquare /\ t \in PawnAttacks[us][u]
             \/ t \in p.byColor[opposite(us)] /\ t \in PawnAttacks[us][u]
             \/ t \notin pos_pieces(p) /\ t = u + push_inc(us)
             \/ /\ u \in Rank(relative_rank(us, 1))
                /\ t \notin pos_pieces(p) /\ u + push_inc(us) \notin pos_pieces(p)
                /\ t = u + 2 * push_inc(us)
<1>1. /\ BoardOK(p) /\ us \in Color /\ opposite(us) \in Color
      /\ pos_pieces(p) = p.byColor[us] \union p.byColor[opposite(us)]
      /\ p.byColor[us] \intersect p.byColor[opposite(us)] = {}
      /\ p.byColor[opposite(us)] \subseteq Square
  BY ColoredPieces DEF Sound, BoardOK
<1>2. /\ u \in p.byColor[us] \intersect p.byPiece["PAWN"] /\ "PAWN" \in Piece /\ u \in Square
      /\ rank_of(u) \notin {0, 7}
  BY <1>1 DEF pos_pieces_cp, BoardOK, Piece, Sound, PawnsSound, Rank
<1>3. PICK x, push : x = <<us, "PAWN", u>> /\ push = push_inc(us)
  OBVIOUS
<1>4. x[1] = us /\ x[3] = u
  BY <1>3
<1>5. \A s : s \in Rules!Reach(P, x) <=> s \in PawnAttacks[us][u]
  BY <1>1, <1>2, <1>3, PieceReach
<1>6. PawnAttacks[us][u] \subseteq Square /\ u + push \in Square
      /\ (u \in Rank(relative_rank(us, 1)) => u + 2 * push \in Square)
  BY <1>1, <1>2, <1>3, PawnRanks
<1>7. \A s \in Square : /\ Rules!Empty(P, s) <=> s \notin pos_pieces(p)
                        /\ Rules!Own(P, us, s) <=> s \in p.byColor[us]
  BY <1>1, EmptySquares, OwnSquares
<1>8. Rules!rank_of(u) = Rules!relative_rank(us, 1) <=> u \in Rank(relative_rank(us, 1))
  BY <1>2 DEF Rules!rank_of, Rules!relative_rank, rank_of, relative_rank, Rank, Rules!WHITE, WHITE
<1>9. t \in Rules!PawnTargets(P, x, p.epSquare) <=>
        \/ t \in Rules!Reach(P, x) /\ (t = p.epSquare \/ (~Rules!Empty(P, t) /\ ~Rules!Own(P, us, t)))
        \/ t = u + push /\ Rules!Empty(P, t)
        \/ /\ t = u + 2 * push /\ Rules!rank_of(u) = Rules!relative_rank(us, 1)
           /\ Rules!Empty(P, u + push) /\ Rules!Empty(P, t)
  BY <1>3, <1>4, RulesBoard DEF Rules!PawnTargets
<1>10. QED
  BY <1>1, <1>3, <1>5, <1>6, <1>7, <1>8, <1>9

\* What the rules allow, check apart.
LEMMA PseudoLegalMoves ==
    ASSUME NEW p, Sound(p), NEW P, Places(p, P), NEW m
    PROVE  m \in Rules!PseudoLegal(P, p.turn, p.epSquare) <=>
             m = move(m.from, m.to, m.prom) /\ (PieceGoes(p, m) \/ PawnGoes(p, m) \/ EpMove(p, m))
<1>1. PICK us, ep : us = p.turn /\ ep = p.epSquare
  OBVIOUS
<1>2. /\ BoardOK(p) /\ us \in Color /\ opposite(us) \in Color
      /\ p.byColor[us] \subseteq Square
  BY <1>1, ColoredPieces DEF Sound, BoardOK
<1> DEFINE proms(s) == IF rank_of(s) \in {0, 7} THEN {"KNIGHT", "BISHOP", "ROOK", "QUEEN"} ELSE {NB_PIECE}
           Of(x) == IF x[2] # "PAWN"
                    THEN {[from |-> x[3], to |-> s, prom |-> NB_PIECE] :
                            s \in {t \in Rules!Reach(P, x) : ~Rules!Own(P, us, t)}}
                    ELSE UNION {{[from |-> x[3], to |-> s, prom |-> k] : k \in proms(s)} :
                                  s \in Rules!PawnTargets(P, x, ep)}
           Goes(u, k) == /\ m = move(m.from, m.to, m.prom) /\ m.from = u
                         /\ IF k # "PAWN"
                            THEN /\ m.prom = NB_PIECE
                                 /\ m.to \in Rules!Reach(P, <<us, k, u>>) /\ ~Rules!Own(P, us, m.to)
                            ELSE /\ m.to \in Rules!PawnTargets(P, <<us, k, u>>, ep)
                                 /\ m.prom \in proms(m.to)
<1>3. m \in Rules!PseudoLegal(P, us, ep) <=> \E x \in P : x[1] = us /\ m \in Of(x)
  BY DEF Rules!PseudoLegal, Rules!NB_PIECE, NB_PIECE, Rules!rank_of, rank_of
<1>4. ASSUME NEW k, NEW u PROVE m \in Of(<<us, k, u>>) <=> Goes(u, k)
  <2>1. PICK x : x = <<us, k, u>>
    OBVIOUS
  <2>2. x[2] = k /\ x[3] = u
    BY <2>1
  <2> HIDE DEF proms
  <2>3. m \in Of(x) <=> Goes(u, k)
    BY <2>1, <2>2 DEF move
  <2>4. QED
    BY <2>1, <2>3
<1> HIDE DEF Of, Goes
<1>5. m \in Rules!PseudoLegal(P, us, ep) <=>
        \E k \in Piece : \E u \in p.byColor[us] \intersect p.byPiece[k] : Goes(u, k)
  <2>1. ASSUME NEW x \in P, x[1] = us, m \in Of(x)
        PROVE  \E k \in Piece : \E u \in p.byColor[us] \intersect p.byPiece[k] : Goes(u, k)
    <3>1. PICK k \in Piece, u \in Square : x = <<us, k, u>>
      BY <2>1 DEF Places
    <3>2. u \in p.byColor[us] /\ u \in p.byPiece[k]
      BY <1>2, <3>1 DEF Places
    <3>3. Goes(u, k)
      BY <1>4, <2>1, <3>1
    <3>4. QED
      BY <3>2, <3>3
  <2>2. ASSUME NEW k \in Piece, NEW u \in p.byColor[us] \intersect p.byPiece[k], Goes(u, k)
        PROVE  \E x \in P : x[1] = us /\ m \in Of(x)
    <3>1. <<us, k, u>> \in P /\ <<us, k, u>>[1] = us
      BY <1>2 DEF Places
    <3>2. m \in Of(<<us, k, u>>)
      BY <1>4, <2>2
    <3>3. QED
      BY <3>1, <3>2, Zenon
  <2>3. QED
    BY <1>3, <2>1, <2>2, Zenon
<1>6. ASSUME NEW k \in Piece, NEW u \in p.byColor[us] \intersect p.byPiece[k], k # "PAWN"
      PROVE  Goes(u, k) <=> m = move(m.from, m.to, m.prom) /\ m.from = u /\ PieceGoes(p, m)
  <2>1. m.to \in Rules!Reach(P, <<us, k, u>>) <=> Hits(p, us, u, m.to, pos_pieces(p))
    BY <1>2, PieceReach
  <2>2. m.to \in Rules!Reach(P, <<us, k, u>>) => m.to \in Square
    BY <1>2, PieceReach
  <2>3. m.to \in Square => (Rules!Own(P, us, m.to) <=> m.to \in p.byColor[us])
    BY <1>2, OwnSquares
  <2>4. u \notin p.byPiece["PAWN"]
    BY <1>2, <1>6 DEF BoardOK, Piece
  <2>5. Goes(u, k) <=> /\ m = move(m.from, m.to, m.prom) /\ m.from = u /\ m.prom = NB_PIECE
                       /\ m.to \in Rules!Reach(P, <<us, k, u>>) /\ ~Rules!Own(P, us, m.to)
    BY <1>6 DEF Goes
  <2>6. QED
    BY <1>1, <2>1, <2>2, <2>3, <2>4, <2>5 DEF PieceGoes
<1>7. ASSUME NEW u \in p.byColor[us] \intersect p.byPiece["PAWN"]
      PROVE  Goes(u, "PAWN") <=>
               m = move(m.from, m.to, m.prom) /\ m.from = u /\ (PawnGoes(p, m) \/ EpMove(p, m))
  <2>1. u \in pos_pieces_cp(p, us, "PAWN") /\ u \in Square /\ rank_of(u) \notin {0, 7}
    BY <1>2 DEF pos_pieces_cp, Sound, PawnsSound, Rank
  <2>2. m.to \in Rules!PawnTargets(P, <<us, "PAWN", u>>, ep) <=>
             \/ m.to = ep /\ m.to \in PawnAttacks[us][u]
             \/ m.to \in p.byColor[opposite(us)] /\ m.to \in PawnAttacks[us][u]
             \/ m.to \notin pos_pieces(p) /\ m.to = u + push_inc(us)
             \/ /\ u \in Rank(relative_rank(us, 1))
                /\ m.to \notin pos_pieces(p) /\ u + push_inc(us) \notin pos_pieces(p)
                /\ m.to = u + 2 * push_inc(us)
    BY <1>1, <2>1, PawnTargetsAre
  <2>3. m.from = u => (PawnGoes(p, m) <=>
             /\ m.prom \in proms(m.to)
             /\ \/ m.to \in p.byColor[opposite(us)] /\ m.to \in PawnAttacks[us][u]
                \/ m.to \notin pos_pieces(p) /\ m.to = u + push_inc(us)
                \/ /\ u \in Rank(relative_rank(us, 1))
                   /\ m.to \notin pos_pieces(p) /\ u + push_inc(us) \notin pos_pieces(p)
                   /\ m.to = u + 2 * push_inc(us))
    BY <1>1, <2>1 DEF PawnGoes
  <2>4. m.from = u =>
          (EpMove(p, m) <=> m.prom \in proms(m.to) /\ m.to = ep /\ m.to \in PawnAttacks[us][u])
    <3>1. ep \in Square /\ ep # NB_SQUARE =>
            /\ rank_of(ep) \notin {0, 7}
            /\ u \in PawnAttacks[opposite(us)][ep] <=> ep \in PawnAttacks[us][u]
      <4>1. HAVE ep \in Square /\ ep # NB_SQUARE
      <4>2. ep \in Rank(relative_rank(us, 5))
        BY <1>1, <4>1 DEF Sound, EpSound
      <4>3. rank_of(ep) \notin {0, 7}
        BY <1>2, <4>2 DEF Rank, relative_rank
      <4>4. opposite(opposite(us)) = us
        BY <1>2, ColoredPieces
      <4>5. QED
        BY <1>2, <2>1, <4>1, <4>3, <4>4, LeapsOneWay
    <3>2. ep = NB_SQUARE \/ ep \in Square
      BY <1>1 DEF Sound, EpSound
    <3>3. NB_SQUARE \notin Square
      BY DEF Square, NB_SQUARE
    <3>4. \A t \in PawnAttacks[us][u] :
             t \in Square /\ (rank_of(t) \in {0, 7} <=> u \in Rank(relative_rank(us, 6)))
      BY <1>2, <2>1, PawnRanks
    <3>5. m.to = ep /\ ep \in Square => (m.prom \in proms(m.to) <=> m.prom = NB_PIECE)
      BY <3>1, <3>3
    <3>6. QED
      BY <1>1, <2>1, <3>1, <3>2, <3>3, <3>4, <3>5 DEF EpMove
  <2>5. Goes(u, "PAWN") <=> /\ m = move(m.from, m.to, m.prom) /\ m.from = u
                            /\ m.to \in Rules!PawnTargets(P, <<us, "PAWN", u>>, ep)
                            /\ m.prom \in proms(m.to)
    BY DEF Goes
  <2> HIDE DEF proms
  <2>6. QED
    BY <2>2, <2>3, <2>4, <2>5
<1>8. ASSUME PieceGoes(p, m)
      PROVE  \E k \in Piece \ {"PAWN"} : m.from \in p.byColor[us] \intersect p.byPiece[k]
  <2>1. m.from \in p.byColor[us] /\ m.from \notin p.byPiece["PAWN"] /\ m.from \in pos_pieces(p)
    BY <1>1, <1>2, <1>8, ColoredPieces DEF PieceGoes
  <2>2. QED
    BY <1>2, <2>1 DEF BoardOK
<1>9. PawnGoes(p, m) \/ EpMove(p, m) => m.from \in p.byColor[us] \intersect p.byPiece["PAWN"]
  BY <1>1 DEF PawnGoes, EpMove, pos_pieces_cp
<1>10. "PAWN" \in Piece
  BY DEF Piece
<1>11. (\E k \in Piece : \E u \in p.byColor[us] \intersect p.byPiece[k] : Goes(u, k))
         <=> m = move(m.from, m.to, m.prom) /\ (PieceGoes(p, m) \/ PawnGoes(p, m) \/ EpMove(p, m))
  <2>1. ASSUME NEW k \in Piece, NEW u \in p.byColor[us] \intersect p.byPiece[k], Goes(u, k)
        PROVE  m = move(m.from, m.to, m.prom) /\ (PieceGoes(p, m) \/ PawnGoes(p, m) \/ EpMove(p, m))
    <3>1. CASE k = "PAWN"
      BY <1>7, <2>1, <3>1
    <3>2. CASE k # "PAWN"
      BY <1>6, <2>1, <3>2
    <3>3. QED
      BY <3>1, <3>2
  <2>2. ASSUME m = move(m.from, m.to, m.prom), PieceGoes(p, m)
        PROVE  \E k \in Piece : \E u \in p.byColor[us] \intersect p.byPiece[k] : Goes(u, k)
    <3>1. PICK k \in Piece \ {"PAWN"} : m.from \in p.byColor[us] \intersect p.byPiece[k]
      BY <1>8, <2>2
    <3>2. Goes(m.from, k)
      BY <1>6, <2>2, <3>1
    <3>3. QED
      BY <3>1, <3>2
  <2>3. ASSUME m = move(m.from, m.to, m.prom), PawnGoes(p, m) \/ EpMove(p, m)
        PROVE  \E k \in Piece : \E u \in p.byColor[us] \intersect p.byPiece[k] : Goes(u, k)
    <3>1. Goes(m.from, "PAWN")
      BY <1>7, <1>9, <2>3
    <3>2. QED
      BY <1>9, <1>10, <2>3, <3>1
  <2>4. QED
    BY <2>1, <2>2, <2>3, Zenon
<1>12. QED
  BY <1>1, <1>5, <1>11, Zenon

\* A piece that goes, but the king.
LEMMA PieceNormal ==
    ASSUME NEW p, Ready(p), NEW m, PieceGoes(p, m), m.from \notin p.byPiece["KING"]
    PROVE  Normal(p, m)
<1>1. BoardOK(p) /\ p.turn \in Color
  BY Sides
<1>2. /\ m.from \in p.byColor[p.turn] /\ m.from \notin p.byPiece["PAWN"] /\ m.from \in Square
      /\ m.to \in Square \ p.byColor[p.turn] /\ m.prom = NB_PIECE
      /\ Hits(p, p.turn, m.from, m.to, pos_pieces(p))
  BY <1>1, ColoredPieces DEF PieceGoes
<1>3. m.from \in p.byPiece[pos_piece_on(p, m.from)]
  BY <1>1, <1>2, ColoredPieces, PieceOn
<1>4. Taken(p, m) = m.to /\ Now(p, m) # "KING"
  BY <1>2, <1>3 DEF Taken, Now
<1>5. m.from \notin pos_pieces_cp(p, p.turn, "KING") /\ m.from \notin pos_pieces_cp(p, p.turn, "PAWN")
  BY <1>2 DEF pos_pieces_cp
<1>6. \/ m.to \in KnightAttacks[m.from] \/ m.to \in bb_rook_attacks(m.from, pos_pieces(p))
      \/ m.to \in bb_bishop_attacks(m.from, pos_pieces(p))
  BY <1>2, <1>5 DEF Hits
<1>7. m.to \in KnightAttacks[m.from] \/ Between(m.from, m.to) \intersect pos_pieces(p) = {}
  BY <1>2, <1>6, Sliding
<1>8. QED
  BY <1>2, <1>4, <1>7 DEF Normal

\* The moves that the rules allow, check apart, and those that leave no check.
LEMMA StepLegal ==
    ASSUME NEW p, Ready(p), Cells(p), NEW m, m = move(m.from, m.to, m.prom),
           PieceGoes(p, m) \/ PawnGoes(p, m) \/ EpMove(p, m)
    PROVE  /\ PieceGoes(p, m) /\ m.from \notin p.byPiece["KING"] =>
                (~Rules!InCheck(Rules!After(Placement(p), p.turn, p.epSquare, m), p.turn)
                   <=> Kept(p, m) /\ Answered(p, m))
           /\ PieceGoes(p, m) /\ m.from \in p.byPiece["KING"] =>
                (~Rules!InCheck(Rules!After(Placement(p), p.turn, p.epSquare, m), p.turn)
                   <=> m.to \notin p.attacked)
           /\ PawnGoes(p, m) =>
                (~Rules!InCheck(Rules!After(Placement(p), p.turn, p.epSquare, m), p.turn)
                   <=> Kept(p, m) /\ Answered(p, m))
           /\ EpMove(p, m) =>
                (~Rules!InCheck(Rules!After(Placement(p), p.turn, p.epSquare, m), p.turn)
                   <=> m \in EnPassant(p) /\ ~bb_several(p.checkers))
<1>1. PICK us, them, king, ep, P :
        /\ us = p.turn /\ them = opposite(us) /\ king = King(p) /\ ep = p.epSquare /\ P = Placement(p)
  OBVIOUS
<1>2. /\ us \in Color /\ them \in Color /\ BoardOK(p) /\ Sound(p) /\ king \in Square
      /\ pos_pieces_cp(p, us, "KING") = {king} /\ king \in p.byColor[us] /\ king \in p.byPiece["KING"]
      /\ p.byColor[us] \intersect p.byColor[them] = {}
      /\ pos_pieces(p) = p.byColor[us] \union p.byColor[them]
  BY <1>1, Sides DEF Ready
<1>3. PawnGoes(p, m) => PawnMove(p, m) \/ Promotion(p, m)
  BY <1>2, PawnGoesWhere
<1>4. EpMove(p, m) => /\ m.to \in Square /\ m.to \notin pos_pieces(p) /\ m.from \in p.byColor[us]
                      /\ m.from \in p.byPiece["PAWN"] /\ m.prom = NB_PIECE /\ m.to = ep
                      /\ m.to - push_inc(us) \in p.byColor[them]
  BY <1>1, <1>2 DEF EpMove, Sound, EpSound, pos_pieces_cp
<1>5. m.to \in Square /\ m.to \notin p.byColor[us]
  BY <1>1, <1>2, <1>4, PawnGoesWhere DEF PieceGoes
<1>6. Generated(p, m)
  BY <1>1, <1>3, <1>5 DEF Generated, PieceGoes, PieceMove
<1>7. ~Castles(p, m)
  BY <1>1, <1>5 DEF Castles, CastleRooks
<1>8. PICK q : q = pos_move(p, m)
  OBVIOUS
<1>9. BoardOK(q) /\ Played(p, q, m)
  BY <1>2, <1>6, <1>8, MoveBoard DEF Cells
<1>10. Replaces(p, q, m)
  BY <1>7, <1>9 DEF Played
<1>11. Rules!After(P, us, ep, m) = Placement(q) /\ Places(q, Placement(q))
  BY <1>1, <1>2, <1>6, <1>9, PlacedByRules, PlacesPlaced
<1>12. ASSUME NEW s \in Square, pos_pieces_cp(q, us, "KING") = {s}
       PROVE  ~Rules!InCheck(Rules!After(P, us, ep, m), us) <=> \A u : ~Hits(q, them, u, s, pos_pieces(q))
  <2>1. Rules!InCheck(Placement(q), us) <=> ~Unhit(q, us)
    BY <1>2, <1>9, <1>11, <1>12, RulesCheck
  <2>2. pos_king_square(q, us) = s
    BY <1>2, <1>9, <1>11, <1>12, RulesCheck
  <2>3. QED
    BY <1>1, <1>11, <2>1, <2>2 DEF Unhit
<1>13. ASSUME Normal(p, m)
       PROVE  ~Rules!InCheck(Rules!After(P, us, ep, m), us) <=> Kept(p, m) /\ Answered(p, m)
  <2>1. pos_pieces_cp(q, us, "KING") = {king}
    BY <1>1, <1>10, <1>13, KingAfter DEF Normal
  <2>2. ~Rules!InCheck(Rules!After(P, us, ep, m), us) <=> \A u : ~Hits(q, them, u, king, pos_pieces(q))
    BY <1>2, <1>12, <2>1
  <2>3. (\A u : ~Hits(q, them, u, king, pos_pieces(q))) => Kept(p, m) /\ Answered(p, m)
    BY <1>1, <1>9, <1>10, <1>13, NormalMust
  <2>4. Kept(p, m) /\ Answered(p, m) => \A u : ~Hits(q, them, u, king, pos_pieces(q))
    BY <1>1, <1>9, <1>10, <1>13, NormalSafe DEF Kept
  <2>5. QED
    BY <2>2, <2>3, <2>4
<1>14. PieceGoes(p, m) /\ m.from \notin p.byPiece["KING"] => Normal(p, m)
  BY PieceNormal
<1>15. PawnGoes(p, m) => Normal(p, m)
  BY <1>3, PawnNormal DEF PawnGoes
<1>16. ASSUME PieceGoes(p, m), m.from \in p.byPiece["KING"]
       PROVE  ~Rules!InCheck(Rules!After(P, us, ep, m), us) <=> m.to \notin p.attacked
  <2>1. m.from = king
    BY <1>1, <1>2, <1>16 DEF PieceGoes, pos_pieces_cp
  <2>2. m.prom = NB_PIECE
    BY <1>16 DEF PieceGoes
  <2>3. /\ pos_pieces_cp(q, us, "KING") = {m.to}
        /\ m.to \notin p.attacked => \A u : ~Hits(q, them, u, m.to, pos_pieces(q))
    BY <1>1, <1>5, <1>9, <1>10, <2>1, <2>2, KingSafe
  <2>4. (\A u : ~Hits(q, them, u, m.to, pos_pieces(q))) => m.to \notin p.attacked
    BY <1>1, <1>5, <1>9, <1>10, <2>1, <2>2, KingMust
  <2>5. ~Rules!InCheck(Rules!After(P, us, ep, m), us) <=> \A u : ~Hits(q, them, u, m.to, pos_pieces(q))
    BY <1>5, <1>12, <2>3
  <2>6. QED
    BY <2>3, <2>4, <2>5
<1>17. ASSUME EpMove(p, m)
       PROVE  ~Rules!InCheck(Rules!After(P, us, ep, m), us) <=> m \in EnPassant(p) /\ ~bb_several(p.checkers)
  <2>1. m.from \notin p.byPiece["KING"] /\ pos_piece_on(p, m.from) = "PAWN"
    BY <1>2, <1>4, <1>17, PieceOn DEF BoardOK, Piece
  <2>2. Now(p, m) # "KING" /\ Taken(p, m) \notin p.byColor[us]
    BY <1>1, <1>2, <1>4, <1>17, <2>1 DEF Now, Taken
  <2>3. pos_pieces_cp(q, us, "KING") = {king}
    BY <1>1, <1>4, <1>5, <1>10, <1>17, <2>1, <2>2, KingAfter
  <2>4. ~Rules!InCheck(Rules!After(P, us, ep, m), us) <=> \A u : ~Hits(q, them, u, king, pos_pieces(q))
    BY <1>2, <1>12, <2>3
  <2>5. (\A u : ~Hits(q, them, u, king, pos_pieces(q))) => m \in EnPassant(p) /\ ~bb_several(p.checkers)
    BY <1>1, <1>9, <1>10, <1>17, EpMust
  <2>6. m \in EnPassant(p) => \A u : ~Hits(q, them, u, king, pos_pieces(q))
    BY <1>1, <1>9, <1>10, EpSafe
  <2>7. QED
    BY <2>4, <2>5, <2>6
<1>18. QED
  BY <1>1, <1>13, <1>14, <1>15, <1>16, <1>17

\* The generator makes the legal moves, and no other.
LEMMA LegalGenerated ==
    ASSUME NEW p, Ready(p), Cells(p)
    PROVE  gen_all_moves(p) =
             Rules!LegalMoves(Placement(p), p.turn, p.epSquare, CastleRooks(p, p.turn))
<1>1. PICK us, king, ep, P : us = p.turn /\ king = King(p) /\ ep = p.epSquare /\ P = Placement(p)
  OBVIOUS
<1>2. /\ us \in Color /\ BoardOK(p) /\ Sound(p) /\ king \in Square
      /\ pos_pieces_cp(p, us, "KING") = {king} /\ Places(p, P)
  BY <1>1, Sides, PlacesPlaced DEF Ready
<1>3. Rules!KingOf(P, us) = king
  BY <1>2, RulesCheck
<1> DEFINE Safe(m) == ~Rules!InCheck(Rules!After(P, us, ep, m), us)
           IsMove(m) == m = move(m.from, m.to, m.prom)
<1>4. ASSUME NEW m
      PROVE  m \in Rules!LegalMoves(P, us, ep, CastleRooks(p, us)) <=>
               \/ m \in Rules!PseudoLegal(P, us, ep) /\ Safe(m)
               \/ \E r \in CastleRooks(p, us) : Rules!MayCastle(P, us, r) /\ m = move(king, r, NB_PIECE)
  BY <1>3 DEF Rules!LegalMoves, Rules!NB_PIECE, NB_PIECE, move
<1>5. ASSUME NEW m
      PROVE  (\E r \in CastleRooks(p, us) : Rules!MayCastle(P, us, r) /\ m = move(king, r, NB_PIECE))
               <=> p.checkers = {} /\ m \in gen_castling_moves(p)
  <2>1. m \in gen_castling_moves(p) => \E r \in CastleRooks(p, us) : m = move(king, r, NB_PIECE)
    BY <1>1 DEF gen_castling_moves, Plain
  <2>2. ASSUME NEW r \in CastleRooks(p, us), m = move(king, r, NB_PIECE)
        PROVE  Rules!MayCastle(P, us, r) <=> p.checkers = {} /\ m \in gen_castling_moves(p)
    BY <1>1, <2>2, CastlingLegal
  <2>3. QED
    BY <2>1, <2>2
<1>6. ASSUME NEW m
      PROVE  m \in Rules!PseudoLegal(P, us, ep) <=>
               IsMove(m) /\ (PieceGoes(p, m) \/ PawnGoes(p, m) \/ EpMove(p, m))
  BY <1>1, <1>2, PseudoLegalMoves
<1>7. ASSUME NEW m
      PROVE  m \in gen_all_moves(p) <=>
               \/ /\ IsMove(m) /\ PieceGoes(p, m) /\ m.from \notin p.byPiece["KING"]
                  /\ Kept(p, m) /\ Answered(p, m)
               \/ IsMove(m) /\ PawnGoes(p, m) /\ Kept(p, m) /\ Answered(p, m)
               \/ IsMove(m) /\ KingStep(p, m)
               \/ m \in EnPassant(p) /\ ~bb_several(p.checkers)
               \/ p.checkers = {} /\ m \in gen_castling_moves(p)
  BY GeneratedMoves
<1>8. ASSUME NEW m, IsMove(m)
      PROVE  /\ PieceGoes(p, m) /\ m.from \notin p.byPiece["KING"] =>
                  (Safe(m) <=> Kept(p, m) /\ Answered(p, m))
             /\ PieceGoes(p, m) /\ m.from \in p.byPiece["KING"] => (Safe(m) <=> m.to \notin p.attacked)
             /\ PawnGoes(p, m) => (Safe(m) <=> Kept(p, m) /\ Answered(p, m))
             /\ EpMove(p, m) => (Safe(m) <=> m \in EnPassant(p) /\ ~bb_several(p.checkers))
  BY <1>1, <1>8, StepLegal
<1>9. ASSUME NEW m PROVE m \in EnPassant(p) => IsMove(m) /\ EpMove(p, m)
  BY EpMoves DEF Generated
<1>10. ASSUME NEW m
       PROVE  KingStep(p, m) <=>
                PieceGoes(p, m) /\ m.from \in p.byPiece["KING"] /\ m.to \notin p.attacked
  <2>1. king \in p.byPiece["KING"] /\ king \notin p.byPiece["PAWN"] /\ king \in p.byColor[us]
        /\ \A l \in Piece : king \in p.byPiece[l] => l = "KING"
    BY <1>2 DEF BoardOK, Piece, pos_pieces_cp
  <2>2. PieceGoes(p, m) /\ m.from \in p.byPiece["KING"] => m.from = king
    BY <1>1, <1>2 DEF PieceGoes, pos_pieces_cp
  <2>3. Hits(p, us, king, m.to, pos_pieces(p)) <=> m.to \in KingAttacks[king]
    BY <1>2, <2>1 DEF Hits, pos_pieces_cp, pos_pieces_cpp, Piece
  <2>4. QED
    BY <1>1, <2>1, <2>2, <2>3 DEF PieceGoes, KingStep
<1> HIDE DEF Safe, IsMove
<1>11. ASSUME NEW m
       PROVE  m \in gen_all_moves(p) <=> m \in Rules!LegalMoves(P, us, ep, CastleRooks(p, us))
  <2>1. m \in Rules!PseudoLegal(P, us, ep) /\ Safe(m) <=>
               \/ /\ IsMove(m) /\ PieceGoes(p, m) /\ m.from \notin p.byPiece["KING"]
                  /\ Kept(p, m) /\ Answered(p, m)
               \/ IsMove(m) /\ PawnGoes(p, m) /\ Kept(p, m) /\ Answered(p, m)
               \/ IsMove(m) /\ KingStep(p, m)
               \/ m \in EnPassant(p) /\ ~bb_several(p.checkers)
    BY <1>6, <1>8, <1>9, <1>10
  <2>2. QED
    BY <1>4, <1>5, <1>7, <2>1
<1>12. QED
  BY <1>1, <1>11

\* gen_all_moves generates the legal moves of chess, all of them and no others,
\* in every position of every game: src/src/gen.c, gen_all_moves.
THEOREM MovesLegal == Spec => []MovesAreLegal
<1>1. History => MovesAreLegal
  <2>1. HAVE History
  <2>2. Ready(pos) /\ Cells(pos)
    <3>1. Len(vecPos) \in 1..Len(vecPos) /\ pos = vecPos[Len(vecPos)]
      BY <2>1, Lengths DEF History, WellFormed, pos, Last
    <3>2. QED
      BY <2>1, <3>1 DEF History, WellFormed
  <2>3. QED
    BY <2>2, LegalGenerated DEF MovesAreLegal
<1>2. QED
  BY <1>1, HistoryHolds, PTL

-----------------------------------------------------------------------------
(* What FENs say of castling.                                              *)

\* Rooks that may castle stand on both sides of their king, and in the corners
\* but in a game of Chess960.
RooksApart(p) ==
    \A c \in Color : CastleRooks(p, c) # {} =>
        LET king == pos_king_square(p, c)
        IN  /\ file_of(king) \in 1..6
            /\ \A a, b \in CastleRooks(p, c) : (a < king <=> b < king) => a = b
            /\ ~p.chess960 => /\ file_of(king) = 4
                              /\ \A r \in CastleRooks(p, c) : file_of(r) \in {0, 7}

\* The fields that pos_set sets.
LEMMA SetFields ==
    ASSUME NEW fen, NEW force, NEW p, p = pos_set(fen, force)
    PROVE  /\ IsPosition(p) /\ Derived(p)
           /\ p.byColor = [c \in Color |-> {x[3] : x \in {y \in fen.pieces : y[1] = c}}]
           /\ p.byPiece = [k \in Piece |-> {x[3] : x \in {y \in fen.pieces : y[2] = k}}]
           /\ p.castleRooks = {CastleRook(fen.pieces, x[1], x[2]) : x \in Range(fen.castling)}
           /\ p.key = UNION ({ZobristKey(x[1], x[2], x[3]) : x \in fen.pieces}
                          \union {zobrist_castling(p.castleRooks),
                                  ZobristEnPassant(fen.epSquare),
                                  IF fen.turn = BLACK THEN ZobristTurn ELSE {}})
           /\ p.turn = fen.turn /\ p.epSquare = fen.epSquare
           /\ p.rule50 = fen.rule50 /\ p.fullMove = fen.fullMove
           /\ p.chess960 = (force \/ Detected960(fen.pieces, p.castleRooks))
<1>1. PICK rooks : rooks = {CastleRook(fen.pieces, x[1], x[2]) : x \in Range(fen.castling)}
  OBVIOUS
<1>2. PICK key : key = UNION ({ZobristKey(x[1], x[2], x[3]) : x \in fen.pieces}
                          \union {zobrist_castling(rooks),
                                  ZobristEnPassant(fen.epSquare),
                                  IF fen.turn = BLACK THEN ZobristTurn ELSE {}})
  OBVIOUS
<1>3. PICK chess960 : chess960 = (force \/ Detected960(fen.pieces, rooks))
  OBVIOUS
<1>4. PICK byColor, byPiece :
        /\ byColor = [c \in Color |-> {x[3] : x \in {y \in fen.pieces : y[1] = c}}]
        /\ byPiece = [k \in Piece |-> {x[3] : x \in {y \in fen.pieces : y[2] = k}}]
  OBVIOUS
<1> DEFINE b == [byColor |-> byColor, byPiece |-> byPiece, castleRooks |-> rooks, key |-> key,
                 attacked |-> {}, checkers |-> {}, pins |-> {},
                 turn |-> fen.turn, epSquare |-> fen.epSquare,
                 rule50 |-> fen.rule50, fullMove |-> fen.fullMove, chess960 |-> chess960]
<1>5. p = finish(b)
  BY <1>1, <1>2, <1>3, <1>4, Zenon DEF pos_set
<1>6. IsPosition(b)
  BY DEF IsPosition
<1>7. /\ b.byColor = byColor /\ b.byPiece = byPiece
      /\ b.castleRooks = rooks /\ b.key = key /\ b.turn = fen.turn
      /\ b.epSquare = fen.epSquare /\ b.rule50 = fen.rule50 /\ b.fullMove = fen.fullMove
      /\ b.chess960 = chess960
  OBVIOUS
<1> HIDE DEF b
<1>8. /\ IsPosition(p) /\ p.byColor = b.byColor /\ p.byPiece = b.byPiece
      /\ p.castleRooks = b.castleRooks /\ p.key = b.key /\ p.turn = b.turn
      /\ p.epSquare = b.epSquare /\ p.rule50 = b.rule50 /\ p.fullMove = b.fullMove
      /\ p.chess960 = b.chess960 /\ Derived(p)
  BY <1>5, <1>6, Finished, FinishDerives, Zenon
<1>9. QED
  BY <1>1, <1>2, <1>3, <1>4, <1>7, <1>8, Zenon

\* A king between two rooks is not on the edge of the board.
LEMMA InnerFile ==
    ASSUME NEW a \in Square, NEW k \in Square, NEW b \in Square,
           rank_of(a) = rank_of(k), rank_of(b) = rank_of(k),
           (a < k /\ k < b) \/ (b < k /\ k < a)
    PROVE  file_of(k) \in 1..6 /\ ~(a < k <=> b < k)
<1>0. a \in 0..63 /\ b \in 0..63 /\ k \in 0..63
  BY DEF Square, NB_SQUARE
<1>1. PICK x \in 0..63, y \in 0..63, z \in 0..63 : x = a /\ y = b /\ z = k
  BY <1>0, Zenon
<1>2. /\ x \div 8 = z \div 8 /\ y \div 8 = z \div 8
      /\ (x < z /\ z < y) \/ (y < z /\ z < x)
  BY <1>1 DEF rank_of
<1>3. z % 8 \in 1..6 /\ ~(x < z <=> y < z)
  BY <1>2
<1>4. QED
  BY <1>1, <1>3 DEF file_of

\* What has been verified and detected.
LEMMA VerifiedApart ==
    ASSUME NEW p, Ready(p), Verified(p), NEW pieces,
           ~p.chess960 => ~Detected960(pieces, p.castleRooks),
           \A c \in Color, k \in Piece, s \in Square :
              <<c, k, s>> \in pieces <=> s \in p.byColor[c] /\ s \in p.byPiece[k]
    PROVE  RooksApart(p)
<1> SUFFICES ASSUME NEW c \in Color, CastleRooks(p, c) # {}, NEW king, king = pos_king_square(p, c)
             PROVE  /\ file_of(king) \in 1..6
                    /\ \A a, b \in CastleRooks(p, c) : (a < king <=> b < king) => a = b
                    /\ ~p.chess960 => /\ file_of(king) = 4
                                      /\ \A r \in CastleRooks(p, c) : file_of(r) \in {0, 7}
  BY Zenon DEF RooksApart
<1>1. king \in Square /\ pos_pieces_cp(p, c, "KING") = {king} /\ king \in Rank(7 * c)
  BY KingSquare DEF Ready, Sound, RightsSound
<1>2. p.byPiece["KING"] \intersect p.byPiece["ROOK"] = {}
  BY DEF Sound, Ready, BoardOK, Piece
<1>3. PICK rooks : rooks = CastleRooks(p, c)
  OBVIOUS
<1>4. /\ rooks \in SUBSET Square /\ rooks \subseteq Rank(7 * c) /\ rooks # {}
      /\ rooks \subseteq pos_pieces_cp(p, c, "ROOK")
      /\ \/ bb_count(rooks) = 1 /\ {king} \intersect (File(0) \union File(7)) = {}
         \/ /\ bb_count(rooks) = 2
            /\ \A a, b \in rooks : a # b => Segment[a][b] \intersect {king} # {}
  <2>1. CastleRooks(p, c) \subseteq Rank(7 * c)
        /\ CastleRooks(p, c) \subseteq pos_pieces_cp(p, c, "ROOK")
        /\ \/ CastleRooks(p, c) = {}
           \/ /\ bb_count(CastleRooks(p, c)) = 1
              /\ pos_pieces_cp(p, c, "KING") \intersect (File(0) \union File(7)) = {}
           \/ /\ bb_count(CastleRooks(p, c)) = 2
              /\ \A a, b \in CastleRooks(p, c) :
                    a # b => Segment[a][b] \intersect pos_pieces_cp(p, c, "KING") # {}
    BY Zenon DEF Verified
  <2>2. rooks \in SUBSET Square
    BY <1>3, <2>1 DEF Rank
  <2>3. rooks # {}
    BY <1>3
  <2>4. QED
    BY <1>1, <1>3, <2>1, <2>2, <2>3
<1>5. ASSUME NEW a \in rooks, NEW b \in rooks, a # b
      PROVE  file_of(king) \in 1..6 /\ ~(a < king <=> b < king)
  <2>1. ~(bb_count(rooks) = 1)
    <3>1. rooks \subseteq Square
      BY <1>4
    <3>2. QED
      BY <1>5, <3>1, OneOfThem, Zenon
  <2>2. king \in Segment[a][b]
    BY <1>4, <1>5, <2>1
  <2>3. rank_of(a) = rank_of(b) /\ a \in Square /\ b \in Square
    BY <1>4 DEF Rank
  <2>4. (a <= king /\ king <= b) \/ (b <= king /\ king <= a)
    BY <2>2, <2>3, RanksWay
  <2>5. king # a /\ king # b
    BY <1>1, <1>4, <1>2 DEF pos_pieces_cp
  <2>6. rank_of(king) = rank_of(a)
    BY <1>1, <1>4 DEF Rank
  <2>7. (a < king /\ king < b) \/ (b < king /\ king < a)
    <3>1. a \in Int /\ b \in Int /\ king \in Int
      BY <1>1, <2>3, SMTT(40) DEF Square, NB_SQUARE
    <3>2. QED
      BY <2>4, <2>5, <3>1
  <2>8. QED
    BY <1>1, <2>3, <2>6, <2>7, InnerFile
<1>6. file_of(king) \in 1..6
  <2>1. CASE \E a, b \in rooks : a # b
    BY <1>5, <2>1
  <2>2. CASE \A a, b \in rooks : a = b
    <3>1. PICK a : rooks = {a}
      <4>1. PICK a \in rooks : TRUE
        BY <1>4
      <4>2. rooks = {a}
        BY <2>2, <4>1
      <4>3. QED
        BY <4>2
    <3>2. bb_count(rooks) = 1
      BY <3>1, FS_Singleton DEF bb_count
    <3>3. file_of(king) \notin {0, 7}
      <4>1. {king} \intersect (File(0) \union File(7)) = {}
        BY <1>4, <3>2
      <4>2. QED
        BY <1>1, <4>1 DEF File
    <3>4. file_of(king) \in 0..7
      BY <1>1, RankAndFile
    <3>5. QED
      BY <3>3, <3>4
  <2>3. QED
    BY <2>1, <2>2
<1>7. ASSUME ~p.chess960, NEW r \in rooks
       PROVE  file_of(king) = 4 /\ file_of(r) \in {0, 7}
  <2>1. <<c, "KING", king>> \in pieces /\ <<c, "ROOK", r>> \in pieces
    BY <1>1, <1>4 DEF pos_pieces_cp, Piece
  <2>2. r \in p.castleRooks
    BY <1>4, <1>3 DEF CastleRooks
  <2>3. file_of(r) \notin 1..6 /\ file_of(king) = 4
    <3>1. PICK y : y = <<c, "KING", king>>
      OBVIOUS
    <3>2. y \in pieces /\ y[1] = c /\ y[2] = "KING" /\ y[3] = king
      BY <2>1, <3>1
    <3>3. QED
      BY <1>7, <2>1, <2>2, <3>2 DEF Detected960
  <2>4. r \in Square
    BY <1>4
  <2>5. file_of(r) \in 0..7
    BY <2>4, RankAndFile
  <2>6. QED
    BY <2>3, <2>5
<1>8. QED
  BY <1>4, <1>5, <1>6, <1>7, <1>3, Zenon

\* The opening has been verified, and is a game of Chess960 if its rooks say so.
LEMMA StartApart ==
    ASSUME NEW x \in Starts, NEW p, p = pos_set(x.fen, FALSE)
    PROVE  RooksApart(p)
<1>0. PICK fen : fen = x.fen
  OBVIOUS
<1>1. Accepted(fen) /\ IsFen(fen) /\ p = pos_set(fen, FALSE)
  <2>1. Accepted(x.fen) /\ IsFen(x.fen)
    BY ChessAssumption
  <2>2. QED
    BY <1>0, <2>1, Zenon
<1>2. Verified(p)
  BY <1>1 DEF Accepted
<1>3. Ready(p)
  BY StartReady
<1>4. ~p.chess960 => ~Detected960(fen.pieces, p.castleRooks)
  <2>1. p.chess960 = (FALSE \/ Detected960(fen.pieces, p.castleRooks))
    BY <1>1, SetFields, Zenon
  <2>2. QED
    BY <2>1
<1>5. \A c \in Color, k \in Piece, s \in Square :
           <<c, k, s>> \in fen.pieces <=> s \in p.byColor[c] /\ s \in p.byPiece[k]
  BY <1>1, StartBoard, Zenon
<1>6. QED
  BY ONLY <1>2, <1>3, <1>4, <1>5, VerifiedApart, Zenon

\* Rights only go, and go when the king moves.
LEMMA RightsOnly ==
    ASSUME NEW p, Ready(p), NEW m, Generated(p, m), NEW q, Ready(q), Played(p, q, m),
           NEW c \in Color, CastleRooks(q, c) # {}
    PROVE  /\ pos_king_square(q, c) = pos_king_square(p, c)
           /\ CastleRooks(q, c) \subseteq CastleRooks(p, c)
<1>1. PICK us, k : us = p.turn /\ k = pos_king_square(q, c)
  OBVIOUS
<1>2. /\ q.castleRooks \subseteq p.castleRooks \ {m.from, m.to}
      /\ m.from \in p.byPiece["KING"] => q.castleRooks \intersect Rank(7 * us) = {}
  BY <1>1 DEF Played
<1>3. /\ BoardOK(p) /\ BoardOK(q) /\ us \in Color
      /\ k \in Square /\ pos_pieces_cp(q, c, "KING") = {k}
      /\ \A s, t \in pos_pieces_cp(p, c, "KING") : s = t
      /\ pos_king_square(p, c) \in pos_pieces_cp(p, c, "KING")
      /\ p.castleRooks \subseteq pos_pieces(p) /\ CastleRooks(q, c) \subseteq Rank(7 * c)
  BY <1>1, KingSquare DEF Ready, Sound, BoardOK, OneKing, RightsSound
<1>4. /\ p.byColor[WHITE] \intersect p.byColor[BLACK] = {}
      /\ q.byColor[WHITE] \intersect q.byColor[BLACK] = {}
      /\ (us = WHITE \/ us = BLACK) /\ (c = WHITE \/ c = BLACK)
      /\ pos_pieces(p) = p.byColor[WHITE] \union p.byColor[BLACK]
      /\ \A s \in Square : s \in p.byPiece["KING"] => s \in pos_pieces(p)
      /\ k \in q.byColor[c] /\ k \in q.byPiece["KING"]
  BY <1>3 DEF BoardOK, Color, pos_pieces, pos_pieces_cp, Piece
<1>5. m.from \in p.byPiece["KING"] => us # c
  BY <1>2, <1>3 DEF CastleRooks
<1>6. CASE Castles(p, m)
  <2>1. PICK kto, rto : kto = Rules!KingTo(m.from, m.to) /\ rto = Rules!RookTo(m.from, m.to)
    OBVIOUS
  <2>2. /\ m.from \in p.byPiece["KING"] /\ {kto, rto} \intersect pos_pieces(p) \subseteq {m.from, m.to}
    BY <1>6, <2>1 DEF Castles, pos_pieces_cp
  <2>3. /\ \A d \in Color : q.byColor[d] = (p.byColor[d] \ {m.from, m.to})
                                \union (IF d = us THEN {kto, rto} ELSE {})
        /\ q.byPiece["KING"] = (p.byPiece["KING"] \ {m.from, m.to}) \union {kto}
    BY <1>1, <1>6, <2>1 DEF Played, Castled, Piece
  <2>4. us # c
    BY <1>5, <2>2
  <2>5. k \in p.byColor[c] /\ kto \in q.byColor[us] /\ k # kto
    BY <1>3, <1>4, <2>3, <2>4 DEF Color
  <2>6. k \in p.byPiece["KING"]
    BY <1>4, <2>3, <2>5
  <2>7. q.byColor[c] \subseteq p.byColor[c]
    BY <2>3, <2>4
  <2>8. QED
    BY <1>1, <1>2, <1>3, <2>5, <2>6, <2>7 DEF pos_pieces_cp, CastleRooks
<1>7. CASE ~Castles(p, m)
  <2>1. /\ \A d \in Color : q.byColor[d] = (p.byColor[d] \ {m.from, Taken(p, m)})
                                \union (IF d = us THEN {m.to} ELSE {})
        /\ q.byPiece["KING"] = (p.byPiece["KING"] \ {m.from, Taken(p, m)})
                                \union (IF "KING" = Now(p, m) THEN {m.to} ELSE {})
    BY <1>1, <1>7 DEF Played, Replaces, Piece
  <2>2. k # m.to
    <3> SUFFICES ASSUME k = m.to PROVE FALSE
      OBVIOUS
    <3>1. c = us
      BY <1>3, <1>4, <2>1 DEF Color
    <3>2. m.from \notin p.byPiece["KING"] /\ m.from \in pos_pieces(p)
      BY <1>1, <1>4, <1>5, <1>7, <3>1 DEF Generated, PieceMove, PawnMove, EpMove, Promotion, pos_pieces_cp
    <3>3. "KING" # Now(p, m)
      <4>1. pos_piece_on(p, m.from) # "KING"
        BY <1>3, <3>2, PieceOn
      <4>2. m.prom # "KING"
        BY <1>7 DEF Generated, PieceMove, PawnMove, EpMove, Promotion, NB_PIECE
      <4>3. QED
        BY <4>1, <4>2 DEF Now
    <3>4. m.to \in p.byPiece["KING"] /\ m.to # Taken(p, m)
      BY <1>4, <2>1, <3>3
    <3>5. m.to = p.epSquare /\ m.to \in Square /\ m.to \in pos_pieces(p)
      BY <1>3, <1>4, <3>4 DEF Taken
    <3>6. p.epSquare # NB_SQUARE
      BY <3>5 DEF Square, NB_SQUARE
    <3>7. QED
      BY <3>5, <3>6 DEF Ready, Sound, EpSound
  <2>3. k \in p.byColor[c] /\ k \in p.byPiece["KING"]
    BY <1>3, <1>4, <2>1, <2>2
  <2>4. \A r \in CastleRooks(q, c) : r \in CastleRooks(p, c)
    <3>1. TAKE r \in CastleRooks(q, c)
    <3>2. r \in q.byColor[c] /\ r \in p.castleRooks /\ r # m.to
      BY <1>2, <3>1 DEF CastleRooks
    <3>3. QED
      BY <2>1, <3>2 DEF CastleRooks
  <2>5. QED
    BY <1>1, <1>3, <2>3, <2>4 DEF pos_pieces_cp
<1>8. QED
  BY <1>6, <1>7

\* Rooks that may castle stay on either side of their king.
LEMMA StaysApart ==
    ASSUME NEW p, Ready(p), RooksApart(p), NEW m, Generated(p, m), NEW q, Ready(q), Played(p, q, m)
    PROVE  RooksApart(q)
<1>1. \A c \in Color : CastleRooks(q, c) # {} =>
        /\ pos_king_square(q, c) = pos_king_square(p, c)
        /\ CastleRooks(q, c) \subseteq CastleRooks(p, c)
  BY RightsOnly
<1>2. q.chess960 = p.chess960
  BY DEF Played
<1>3. QED
  BY <1>1, <1>2 DEF RooksApart

-----------------------------------------------------------------------------
(* Moves as text.                                                          *)

\* Own pieces move to free or enemy squares, but castling; and kings go one step.
LEMMA MoveKinds ==
    ASSUME NEW p, Ready(p), NEW m \in gen_all_moves(p)
    PROVE  /\ m = move(m.from, m.to, m.prom)
           /\ m.from \in p.byColor[p.turn] /\ m.from \in Square /\ m.to \in Square
           /\ m.to \in p.byColor[p.turn] =>
                m.from = King(p) /\ m.to \in CastleRooks(p, p.turn)
           /\ m.to \notin p.byColor[p.turn] /\ m.from = King(p) =>
                m.to \in KingAttacks[King(p)]
<1>1. PICK us, king : us = p.turn /\ king = King(p)
  OBVIOUS
<1>2. /\ Sound(p) /\ HasKing(p, us) /\ us \in Color /\ BoardOK(p)
      /\ king \in p.byPiece["KING"] /\ king \in p.byColor[us] /\ king \in Square
      /\ p.byColor[us] \subseteq pos_pieces(p) /\ p.byColor[us] \subseteq Square
      /\ pos_pieces_cp(p, us, "KING") = {king}
  BY <1>1, Sides DEF Ready
<1>3. Generated(p, m)
  BY <1>1, <1>2, AllMoves
<1>4. king \notin p.byPiece["PAWN"]
  BY <1>2 DEF BoardOK, Piece
<1>5. m.from \in p.byColor[us] /\ m.from \in Square
  BY <1>1, <1>2, <1>3 DEF Generated, PieceMove, PawnMove, EpMove, Promotion, Castles, pos_pieces_cp
<1>6. m.to \in Square
  <2>1. CastleRooks(p, us) \subseteq Square
    BY <1>2 DEF CastleRooks
  <2>2. p.epSquare # NB_SQUARE => p.epSquare \in Square
    BY <1>2 DEF Sound, EpSound
  <2>3. QED
    BY <1>1, <1>3, <2>1, <2>2 DEF Generated, PieceMove, PawnMove, EpMove, Promotion, Castles
<1>7. m.to \in p.byColor[us] => Castles(p, m)
  <2>1. p.epSquare # NB_SQUARE => p.epSquare \notin pos_pieces(p)
    BY <1>2 DEF Sound, EpSound
  <2>2. QED
    BY <1>1, <1>2, <1>3, <2>1 DEF Generated, PieceMove, PawnMove, EpMove, Promotion
<1>8. m.to \notin p.byColor[us] /\ m.from = king => m.to \in KingAttacks[king]
  <2>1. HAVE m.to \notin p.byColor[us] /\ m.from = king
  <2>2. ~PawnGoes(p, m)
    BY <1>1, <1>4, <2>1 DEF PawnGoes, pos_pieces_cp
  <2>3. m \notin EnPassant(p)
    <3>1. m \in EnPassant(p) => EpMove(p, m)
      BY <1>2, EpMoves
    <3>2. QED
      BY <1>4, <2>1, <3>1 DEF EpMove, pos_pieces_cp
  <2>4. m \notin gen_castling_moves(p)
    <3> SUFFICES ASSUME m \in gen_castling_moves(p) PROVE FALSE
      OBVIOUS
    <3>1. PICK r \in CastleRooks(p, us) : m = move(king, r, NB_PIECE)
      BY <1>1 DEF gen_castling_moves, Plain
    <3>2. QED
      BY <2>1, <3>1 DEF CastleRooks, move
  <2>5. m.from \in p.byPiece["KING"]
    BY <1>2, <2>1
  <2>6. KingStep(p, m)
    BY <2>2, <2>3, <2>4, <2>5, GeneratedMoves
  <2>7. QED
    BY <1>1, <2>6 DEF KingStep
<1>9. QED
  BY <1>1, <1>3, <1>5, <1>6, <1>7, <1>8 DEF Castles, Generated

\* A king's step is no step of two files, nor of three or four.
LEMMA StepsAreShort ==
    ASSUME NEW s \in Square, NEW t \in KingAttacks[s]
    PROVE  t \notin {s + 2, s - 2, s + 3, s - 4}
<1>1. PICK d \in KingDir : t = Step(s, d, 1)
  BY DEF KingAttacks, Leaps
<1>2. PICK a \in {-1, 0, 1}, b \in {-1, 0, 1} : a = d[1] /\ b = d[2]
  BY EightDirections
<1>3. s \in Int /\ t = s + (8 * a + b)
  BY <1>1, <1>2 DEF Step, Square, NB_SQUARE
<1>4. PICK n \in {-9, -8, -7, -1, 0, 1, 7, 8, 9} : n = 8 * a + b
  <2>1. CASE a = -1
    BY <1>2, <2>1
  <2>2. CASE a = 0
    BY <1>2, <2>2
  <2>3. CASE a = 1
    BY <1>2, <2>3
  <2>4. QED
    BY <1>2, <2>1, <2>2, <2>3
<1>5. QED
  BY <1>3, <1>4

\* Where kings and rooks of classical chess castle from.
LEMMA ClassicalRooks ==
    ASSUME NEW p, Ready(p), RooksApart(p), ~p.chess960, NEW c \in Color,
           NEW r \in CastleRooks(p, c), NEW king, king = pos_king_square(p, c)
    PROVE  king \in Square /\ (r = king + 3 \/ r = king - 4)
<1>1. /\ king \in Square /\ king \in Rank(7 * c)
      /\ r \in Square /\ r \in Rank(7 * c)
  <2>1. CastleRooks(p, c) \subseteq Rank(7 * c) /\ CastleRooks(p, c) # {}
    BY DEF Ready, Sound, RightsSound
  <2>2. pos_pieces_cp(p, c, "KING") = {king}
    BY KingSquare DEF Ready
  <2>3. pos_pieces_cp(p, c, "KING") \subseteq Rank(7 * c)
    BY <2>1 DEF Ready, Sound, RightsSound
  <2>4. QED
    BY <2>1, <2>2, <2>3 DEF Rank
<1>2. file_of(king) = 4 /\ file_of(r) \in {0, 7}
  BY DEF RooksApart
<1>3. PICK x \in 0..7 : x = rank_of(king) /\ x = rank_of(r)
  BY <1>1, RankAndFile DEF Rank
<1>4. PICK a \in 0..7, b \in 0..7 : a = file_of(king) /\ b = file_of(r)
  BY <1>1, RankAndFile
<1>5. king = 8 * x + a /\ r = 8 * x + b /\ a = 4 /\ b \in {0, 7}
  BY <1>1, <1>2, <1>3, <1>4, RankAndFile, Zenon
<1>6. QED
  BY <1>1, <1>3, <1>5

\* A move of an own piece, castling if it goes to an own piece, and of one step if
\* the king makes it.
Proper(p, m) ==
    /\ m = move(m.from, m.to, m.prom)
    /\ m.from \in p.byColor[p.turn] /\ m.from \in Square
    /\ m.to \in p.byColor[p.turn] => m.from = King(p) /\ m.to \in CastleRooks(p, p.turn)
    /\ m.to \notin p.byColor[p.turn] /\ m.from = King(p) => m.to \in KingAttacks[King(p)]

\* It is read from the text that is written for it.
LEMMA ProperRead ==
    ASSUME NEW p, Ready(p), RooksApart(p), NEW m, Proper(p, m)
    PROVE  pos_lan_to_move(p, pos_move_to_lan(p, m)) = m
<1>1. CASE p.chess960
  BY <1>1 DEF pos_lan_to_move, pos_move_to_lan
<1>2. CASE ~p.chess960
  <2>1. PICK from, to, prom, king : from = m.from /\ to = m.to /\ prom = m.prom /\ king = King(p)
    OBVIOUS
  <2>2. /\ m = move(from, to, prom) /\ from \in Square
        /\ from \in p.byColor[p.turn] /\ BoardOK(p) /\ p.turn \in Color
        /\ to \in p.byColor[p.turn] => from = king /\ to \in CastleRooks(p, p.turn)
        /\ to \notin p.byColor[p.turn] /\ from = king => to \in KingAttacks[king]
    BY <2>1, Sides DEF Proper
  <2>3. king \in p.byPiece["KING"] /\ pos_pieces_cp(p, p.turn, "KING") = {king} /\ king \in Square
    BY <2>1, Sides
  <2>4. pos_piece_on(p, from) = "KING" <=> from = king
    <3>1. pos_piece_on(p, king) = "KING"
      BY <2>2, <2>3, PieceOn DEF Piece
    <3>2. pos_piece_on(p, from) = "KING" => from \in p.byPiece["KING"]
      <4>1. from \in pos_pieces(p)
        BY <2>2, ColoredPieces
      <4>2. QED
        BY <2>2, <4>1, PieceOn
    <3>3. from \in p.byPiece["KING"] => from = king
      BY <2>2, <2>3 DEF pos_pieces_cp
    <3>4. QED
      BY <3>1, <3>2, <3>3
  <2>5. CASE to \in p.byColor[p.turn]
    <3>1. to = from + 3 \/ to = from - 4
      BY <1>2, <2>1, <2>2, <2>5, ClassicalRooks DEF King
    <3>2. PICK lan : lan = pos_move_to_lan(p, m)
      OBVIOUS
    <3>3. lan = [m EXCEPT !.to = IF to > from THEN from + 2 ELSE from - 2]
      BY <1>2, <2>1, <2>5, <3>2 DEF pos_move_to_lan, pos_move_is_castling
    <3>4. PICK x : x = IF to > from THEN from + 2 ELSE from - 2
      OBVIOUS
    <3>5. /\ lan = [from |-> from, to |-> x, prom |-> prom] /\ lan.from = from /\ lan.to = x
      BY <2>2, <3>3, <3>4 DEF move
    <3>6. pos_lan_to_move(p, lan) = [lan EXCEPT !.to = KingTarget(from, x)]
      BY <1>2, <2>2, <2>4, <2>5, <3>5 DEF pos_lan_to_move
    <3>7. KingTarget(from, x) = to
      <4>1. from \in Int /\ to \in Int
        BY <2>2, <3>1 DEF Square, NB_SQUARE
      <4>2. QED
        BY <3>1, <3>4, <4>1 DEF KingTarget
    <3>8. QED
      BY <2>2, <3>2, <3>5, <3>6, <3>7 DEF move
  <2>6. CASE to \notin p.byColor[p.turn]
    <3>1. pos_move_to_lan(p, m) = m
      BY <2>1, <2>6 DEF pos_move_to_lan, pos_move_is_castling
    <3>2. CASE from # king
      BY <2>1, <2>4, <3>1, <3>2 DEF pos_lan_to_move
    <3>3. CASE from = king
      <4>1. to \notin {from + 2, from - 2}
        BY <2>2, <2>3, <2>6, <3>3, StepsAreShort
      <4>2. KingTarget(from, to) = to
        BY <4>1 DEF KingTarget
      <4>3. pos_lan_to_move(p, m) = [m EXCEPT !.to = to]
        BY <1>2, <2>1, <2>4, <3>3, <4>2 DEF pos_lan_to_move
      <4>4. QED
        BY <2>2, <3>1, <4>3 DEF move
    <3>4. QED
      BY <3>2, <3>3
  <2>7. QED
    BY <2>5, <2>6
<1>3. QED
  BY <1>1, <1>2

\* A move is read from the text that is written for it.
LEMMA TextsAreRead ==
    ASSUME NEW p, Ready(p), RooksApart(p), NEW m \in gen_all_moves(p)
    PROVE  pos_lan_to_move(p, pos_move_to_lan(p, m)) = m
BY MoveKinds, ProperRead DEF Proper

\* Another text that is read as a move is castling, two files along.
LEMMA OnlyCastlingDiffers ==
    ASSUME NEW p, Ready(p), NEW from \in p.byColor[p.turn], NEW to \in Square, NEW prom,
           NEW x, x = [from |-> from, to |-> to, prom |-> prom],
           NEW m \in gen_all_moves(p), m = pos_lan_to_move(p, x), x # m
    PROVE  pos_move_is_castling(p, m) /\ x = pos_move_to_lan(p, m)
<1>1. x.from = from /\ x.to = to
  OBVIOUS
<1>2. ~p.chess960 /\ pos_piece_on(p, from) = "KING"
  BY <1>1 DEF pos_lan_to_move
<1>3. PICK t : t = KingTarget(from, to)
  OBVIOUS
<1>4. m = [from |-> from, to |-> t, prom |-> prom] /\ m.from = from /\ m.to = t
  BY <1>1, <1>2, <1>3 DEF pos_lan_to_move
<1>5. /\ BoardOK(p) /\ p.turn \in Color /\ King(p) \in Square
      /\ pos_pieces_cp(p, p.turn, "KING") = {King(p)}
  BY Sides
<1>6. from = King(p)
  <2>1. from \in pos_pieces(p)
    BY <1>5, ColoredPieces
  <2>2. from \in p.byPiece["KING"]
    BY <1>2, <1>5, <2>1, PieceOn
  <2>3. QED
    BY <1>5, <2>2 DEF pos_pieces_cp
<1>7. from \in Int /\ to \in Int
  BY <1>5, <1>6 DEF Square, NB_SQUARE
<1>8. (to = from + 2 /\ t = from + 3) \/ (to = from - 2 /\ t = from - 4)
  <2>1. t # to
    BY <1>4
  <2>2. QED
    BY <1>3, <1>7, <2>1 DEF KingTarget
<1>9. t \in p.byColor[p.turn]
  <2>1. t \notin KingAttacks[from]
    BY <1>5, <1>6, <1>8, StepsAreShort
  <2>2. QED
    BY <1>4, <1>6, <2>1, MoveKinds
<1>10. pos_move_is_castling(p, m)
  BY <1>4, <1>9 DEF pos_move_is_castling
<1>11. pos_move_to_lan(p, m) = [m EXCEPT !.to = to]
  <2>1. (IF t > from THEN from + 2 ELSE from - 2) = to
    BY <1>7, <1>8
  <2>2. QED
    BY <1>2, <1>4, <1>10, <2>1 DEF pos_move_to_lan
<1>12. QED
  BY <1>4, <1>10, <1>11

-----------------------------------------------------------------------------
(* The castling field of a FEN.                                            *)

\* The two directions of a rank.
LEMMA AlongRankLine ==
    ASSUME NEW s \in Square, NEW t \in Square, rank_of(s) = rank_of(t),
           NEW e \in {-1, 1}, NEW d, d = <<0, e>>
    PROVE  t \in Line(s, d) <=> IF e = 1 THEN s < t ELSE t < s
<1>1. d[1] = 0 /\ d[2] = e
  OBVIOUS
<1>2. PICK r \in 0..7, f \in 0..7, g \in 0..7 :
        /\ r = rank_of(s) /\ f = file_of(s) /\ g = file_of(t) /\ s = 8 * r + f /\ t = 8 * r + g
  BY RankAndFile, ZenonT(40)
<1>3. \A k \in 1..7 : OnBoard(s, d, k) <=> f + k * e \in 0..7
  <2>1. TAKE k \in 1..7
  <2>2. OnBoard(s, d, k) <=> r + k * 0 \in 0..7 /\ f + k * e \in 0..7
    BY <1>1, <1>2 DEF OnBoard
  <2>3. r + k * 0 \in 0..7
    BY <1>2
  <2>4. QED
    BY <2>2, <2>3
<1>4. \A k \in 1..7 : Step(s, d, k) = 8 * r + f + k * e
  <2>1. TAKE k \in 1..7
  <2>2. Step(s, d, k) = 8 * r + f + k * (8 * 0 + e)
    BY <1>1, <1>2 DEF Step
  <2>3. 8 * 0 + e = e
    OBVIOUS
  <2>4. QED
    BY <2>2, <2>3
<1>5. t \in Line(s, d) <=> \E k \in 1..7 : f + k * e \in 0..7 /\ 8 * r + g = 8 * r + f + k * e
  BY <1>2, <1>3, <1>4 DEF Line
<1>6. CASE e = 1
  <2>1. \A k \in 1..7 : k * 1 = k
    OBVIOUS
  <2>2. t \in Line(s, d) <=> \E k \in 1..7 : f + k \in 0..7 /\ 8 * r + g = 8 * r + f + k
    BY <1>5, <1>6, <2>1
  <2>3. f < g => g - f \in 1..7 /\ 8 * r + g = 8 * r + f + (g - f) /\ f + (g - f) \in 0..7
    OBVIOUS
  <2>4. (\E k \in 1..7 : f + k \in 0..7 /\ 8 * r + g = 8 * r + f + k) <=> 8 * r + f < 8 * r + g
    BY <2>3
  <2>5. QED
    BY <1>2, <1>6, <2>2, <2>4
<1>7. CASE e = -1
  <2>1. \A k \in 1..7 : f + k * (-1) = f - k /\ 8 * r + f + k * (-1) = 8 * r + f - k
    OBVIOUS
  <2>2. t \in Line(s, d) <=> \E k \in 1..7 : f - k \in 0..7 /\ 8 * r + g = 8 * r + f - k
    BY <1>5, <1>7, <2>1
  <2>3. g < f => f - g \in 1..7 /\ 8 * r + g = 8 * r + f - (f - g) /\ f - (f - g) \in 0..7
    OBVIOUS
  <2>4. (\E k \in 1..7 : f - k \in 0..7 /\ 8 * r + g = 8 * r + f - k) <=> 8 * r + g < 8 * r + f
    BY <2>3
  <2>5. QED
    BY <1>2, <1>7, <2>2, <2>4
<1>8. QED
  BY <1>6, <1>7

\* The rooks on one side of the king, and what the field says of them.
Sided(p, c, e) == CastleRooks(p, c) \intersect Line(pos_king_square(p, c), <<0, e>>)
Letters(p, c, e, side) ==
    IF Sided(p, c, e) = {} THEN <<>>
    ELSE << <<c, RightLetter(p, Min(Sided(p, c, e)), side)>> >>

\* The castling field, letter by letter.
LEMMA FieldIs ==
    ASSUME NEW p
    PROVE  CastlingField(p) = Letters(p, WHITE, 1, "K") \o Letters(p, WHITE, -1, "Q")
                                \o Letters(p, BLACK, 1, "K") \o Letters(p, BLACK, -1, "Q")
BY Zenon DEF CastlingField, Letters, Sided

\* Rooks that may castle, and their king, stand on the first rank of their side.
LEMMA RightsAt ==
    ASSUME NEW p, Ready(p), NEW c \in Color, NEW r \in CastleRooks(p, c),
           NEW king, king = pos_king_square(p, c)
    PROVE  /\ king \in Square /\ rank_of(king) = 7 * c /\ r \in Square /\ rank_of(r) = 7 * c
           /\ r # king /\ r \in p.byColor[c] /\ r \in p.byPiece["ROOK"]
           /\ king \in p.byColor[c] /\ king \in p.byPiece["KING"]
<1>1. CastleRooks(p, c) \subseteq Rank(7 * c) /\ r \in p.byPiece["ROOK"] /\ r \in p.byColor[c]
  BY DEF Ready, Sound, RightsSound, CastleRooks
<1>2. pos_pieces_cp(p, c, "KING") = {king} /\ king \in Square
  BY KingSquare DEF Ready
<1>3. pos_pieces_cp(p, c, "KING") \subseteq Rank(7 * c)
  BY DEF Ready, Sound, RightsSound
<1>4. p.byPiece["KING"] \intersect p.byPiece["ROOK"] = {}
  BY DEF Sound, Ready, BoardOK, Piece
<1>5. king \in p.byPiece["KING"] /\ king \in p.byColor[c]
  BY <1>2 DEF pos_pieces_cp
<1>6. QED
  BY <1>1, <1>2, <1>3, <1>4, <1>5 DEF Rank

\* The rooks of a side and a wing.
LEMMA SidedIs ==
    ASSUME NEW p, Ready(p), NEW c \in Color, NEW e \in {-1, 1}, NEW king, king = pos_king_square(p, c), NEW r
    PROVE  r \in Sided(p, c, e) <=> r \in CastleRooks(p, c) /\ IF e = 1 THEN king < r ELSE r < king
<1>1. r \in CastleRooks(p, c) =>
        (r \in Line(king, <<0, e>>) <=> IF e = 1 THEN king < r ELSE r < king)
  <2>1. HAVE r \in CastleRooks(p, c)
  <2>2. king \in Square /\ r \in Square /\ rank_of(king) = rank_of(r)
    BY <2>1, RightsAt
  <2>3. QED
    BY <2>2, AlongRankLine
<1>2. QED
  BY <1>1 DEF Sided

\* The files have eight names, none of them that of a side.
LEMMA FileNames ==
    /\ DOMAIN FileLabel = 1..8
    /\ \A i, j \in 1..8 : FileLabel[i] = FileLabel[j] => i = j
    /\ \A i \in 1..8 : FileLabel[i] \notin {"K", "Q"}
<1>1. DOMAIN FileLabel = 1..8
  BY DEF FileLabel
<1>2. /\ FileLabel[1] = "A" /\ FileLabel[2] = "B" /\ FileLabel[3] = "C" /\ FileLabel[4] = "D"
      /\ FileLabel[5] = "E" /\ FileLabel[6] = "F" /\ FileLabel[7] = "G" /\ FileLabel[8] = "H"
  BY DEF FileLabel
<1>3. \A i \in 1..8 : i = 1 \/ i = 2 \/ i = 3 \/ i = 4 \/ i = 5 \/ i = 6 \/ i = 7 \/ i = 8
  OBVIOUS
<1>4. \A i \in 1..8 : FileLabel[i] \notin {"K", "Q"}
  BY <1>2, <1>3
<1>5. \A i, j \in 1..8 : FileLabel[i] = FileLabel[j] => i = j
  BY <1>2, <1>3
<1>6. QED
  BY <1>1, <1>4, <1>5

\* The rook in the corner is the outermost one.
LEMMA Outermost ==
    ASSUME NEW c \in Color, NEW rooks, rooks \subseteq Rank(7 * c), NEW r \in rooks
    PROVE  /\ file_of(r) = 7 => Max(rooks) = r
           /\ file_of(r) = 0 => Min(rooks) = r
<1>1. PICK a : a = 7 * c /\ a \in 0..7
  BY DEF Color, WHITE, BLACK
<1>2. \A s \in rooks : s \in Int /\ 8 * a <= s /\ s <= 8 * a + 7 /\ s = 8 * a + file_of(s)
  <2>1. TAKE s \in rooks
  <2>2. s \in Square /\ rank_of(s) = a
    BY <1>1 DEF Rank
  <2>3. PICK f \in 0..7 : f = file_of(s) /\ s = 8 * a + f
    BY <2>2, RankAndFile
  <2>4. QED
    BY <1>1, <2>3
<1>3. file_of(r) = 7 => Max(rooks) = r
  <2>1. HAVE file_of(r) = 7
  <2>2. \A s \in rooks : r >= s
    BY <1>1, <1>2, <2>1
  <2>3. \A s \in rooks : (\A y \in rooks : s >= y) => s = r
    BY <1>2, <2>2
  <2>4. QED
    BY <2>2, <2>3 DEF Max
<1>4. file_of(r) = 0 => Min(rooks) = r
  <2>1. HAVE file_of(r) = 0
  <2>2. \A s \in rooks : r <= s
    BY <1>1, <1>2, <2>1
  <2>3. \A s \in rooks : (\A y \in rooks : s <= y) => s = r
    BY <1>2, <2>2
  <2>4. QED
    BY <2>2, <2>3 DEF Min
<1>5. QED
  BY <1>3, <1>4

\* A letter of the field names the rook that it was written for.
LEMMA LetterNamesRook ==
    ASSUME NEW p, Ready(p), RooksApart(p), NEW P, Places(p, P),
           NEW c \in Color, NEW e, NEW side, (e = 1 /\ side = "K") \/ (e = -1 /\ side = "Q"),
           NEW r \in Sided(p, c, e), NEW letter, letter = RightLetter(p, r, side)
    PROVE  /\ Sided(p, c, e) = {r} /\ CastleRook(P, c, letter) = r
           /\ letter \in {"K", "Q"} \union Range(FileLabel)
<1>1. PICK king : king = pos_king_square(p, c)
  OBVIOUS
<1>2. e \in {-1, 1}
  OBVIOUS
<1>3. \A s : s \in Sided(p, c, e) <=> s \in CastleRooks(p, c) /\ IF e = 1 THEN king < s ELSE s < king
  BY <1>1, <1>2, SidedIs
<1>4. \A s \in CastleRooks(p, c) :
        /\ king \in Square /\ s \in Square /\ rank_of(s) = 7 * c /\ s # king
        /\ s \in p.byColor[c] /\ s \in p.byPiece["ROOK"]
  BY <1>1, RightsAt
<1>5. r \in CastleRooks(p, c)
  BY <1>3
<1>6. Sided(p, c, e) = {r}
  <2>1. ASSUME NEW s \in Sided(p, c, e) PROVE s = r
    <3>1. s \in CastleRooks(p, c)
      BY <1>3, <2>1
    <3>2. r \in Int /\ s \in Int /\ king \in Int
      BY <1>4, <1>5, <3>1, RankAndFile
    <3>3. s < king <=> r < king
      BY <1>3, <2>1, <3>2
    <3>4. QED
      BY <1>1, <1>5, <3>1, <3>3 DEF RooksApart
  <2>2. QED
    BY <2>1
<1>7. PICK rooks : rooks = {s \in Rank(7 * c) : <<c, "ROOK", s>> \in P}
  OBVIOUS
<1>8. r \in rooks /\ rooks \subseteq Rank(7 * c)
  <2>1. r \in Rank(7 * c)
    BY <1>4, <1>5 DEF Rank
  <2>2. <<c, "ROOK", r>> \in P
    BY <1>4, <1>5 DEF Places, Piece
  <2>3. QED
    BY <1>7, <2>1, <2>2
<1>9. CASE p.chess960
  <2>1. PICK f \in 0..7 : f = file_of(r) /\ r = 8 * (7 * c) + f
    BY <1>4, <1>5, RankAndFile
  <2>2. letter = FileLabel[f + 1] /\ f + 1 \in 1..8
    BY <1>9, <2>1 DEF RightLetter
  <2>3. letter # "K" /\ letter # "Q"
    BY <2>2, FileNames
  <2>4. (CHOOSE i \in DOMAIN FileLabel : FileLabel[i] = letter) = f + 1
    BY <2>2, FileNames
  <2>5. CastleRook(P, c, letter) = 8 * 7 * c + (CHOOSE i \in DOMAIN FileLabel : FileLabel[i] = letter) - 1
    BY <2>3 DEF CastleRook
  <2>6. CastleRook(P, c, letter) = 8 * 7 * c + (f + 1) - 1
    BY <2>4, <2>5
  <2>7. CastleRook(P, c, letter) = r
    <3>1. \A i \in Color, j \in 0..7 : 8 * 7 * i + (j + 1) - 1 = 8 * (7 * i) + j
      BY DEF Color, WHITE, BLACK
    <3>2. QED
      BY <2>1, <2>6, <3>1
  <2>8. letter \in Range(FileLabel)
    BY <2>2, FileNames DEF Range
  <2>9. QED
    BY <1>6, <2>7, <2>8
<1>10. CASE ~p.chess960
  <2>1. letter = side
    BY <1>10 DEF RightLetter
  <2>2. r = king + 3 \/ r = king - 4
    BY <1>1, <1>5, <1>10, ClassicalRooks
  <2>3. file_of(king) = 4 /\ file_of(r) \in {0, 7} /\ rank_of(king) = 7 * c
    BY <1>1, <1>5, <1>10, RightsAt DEF RooksApart
  <2>4. file_of(r) = IF e = 1 THEN 7 ELSE 0
    <3>1. PICK x \in 0..63, y \in 0..63 : x = king /\ y = r
      BY <1>4, <1>5 DEF Square, NB_SQUARE
    <3>2. IF e = 1 THEN x < y ELSE y < x
      BY <1>3, <3>1
    <3>3. (e = 1 => y = x + 3) /\ (e = -1 => y = x - 4) /\ x % 8 = 4
      BY <2>2, <2>3, <3>1, <3>2 DEF file_of
    <3>4. y % 8 = IF e = 1 THEN 7 ELSE 0
      BY <3>3
    <3>5. QED
      BY <3>1, <3>4 DEF file_of
  <2>5. CASE e = 1
    <3>1. Max(rooks) = r /\ letter = "K"
      BY <1>8, <2>1, <2>4, <2>5, Outermost
    <3>2. QED
      BY <1>6, <1>7, <3>1 DEF CastleRook
  <2>6. CASE e = -1
    <3>1. Min(rooks) = r /\ letter = "Q"
      BY <1>8, <2>1, <2>4, <2>6, Outermost
    <3>2. QED
      BY <1>6, <1>7, <3>1 DEF CastleRook
  <2>7. QED
    BY <2>5, <2>6
<1>11. QED
  BY <1>9, <1>10

\* The letters of one side.
LEMMA LettersAre ==
    ASSUME NEW p, Ready(p), RooksApart(p), NEW P, Places(p, P),
           NEW c \in Color, NEW e, NEW side, (e = 1 /\ side = "K") \/ (e = -1 /\ side = "Q"),
           NEW s, s = Letters(p, c, e, side)
    PROVE  /\ s \in Seq(Color \X ({"K", "Q"} \union Range(FileLabel))) /\ Len(s) <= 1
           /\ {CastleRook(P, x[1], x[2]) : x \in Range(s)} = Sided(p, c, e)
<1>1. CASE Sided(p, c, e) = {}
  <2>1. s = <<>>
    BY <1>1 DEF Letters
  <2>2. Range(s) = {}
    BY <2>1 DEF Range
  <2>3. QED
    BY <1>1, <2>1, <2>2
<1>2. CASE Sided(p, c, e) # {}
  <2>1. PICK r : r \in Sided(p, c, e)
    BY <1>2
  <2>2. PICK letter : letter = RightLetter(p, r, side)
    OBVIOUS
  <2>3. /\ Sided(p, c, e) = {r} /\ CastleRook(P, c, letter) = r
        /\ letter \in {"K", "Q"} \union Range(FileLabel)
    BY <2>1, <2>2, LetterNamesRook
  <2>4. Min({r}) = r
    BY DEF Min
  <2>5. PICK x : x = <<c, letter>>
    OBVIOUS
  <2>6. s = <<x>> /\ x \in Color \X ({"K", "Q"} \union Range(FileLabel)) /\ x[1] = c /\ x[2] = letter
    BY <2>2, <2>3, <2>4, <2>5 DEF Letters
  <2>7. Range(s) = {x}
    BY <2>6 DEF Range
  <2>8. QED
    BY <2>3, <2>6, <2>7
<1>3. QED
  BY <1>1, <1>2

\* What a concatenation holds.
LEMMA RangeOfConcat ==
    ASSUME NEW S, NEW s \in Seq(S), NEW t \in Seq(S)
    PROVE  s \o t \in Seq(S) /\ Len(s \o t) = Len(s) + Len(t) /\ Range(s \o t) = Range(s) \union Range(t)
<1>1. PICK z : z = s \o t
  OBVIOUS
<1>2. /\ z \in Seq(S) /\ Len(z) = Len(s) + Len(t)
      /\ \A i \in 1..(Len(s) + Len(t)) : z[i] = IF i <= Len(s) THEN s[i] ELSE t[i - Len(s)]
  BY <1>1, ConcatProperties
<1>3. PICK m \in Nat, n \in Nat : m = Len(s) /\ n = Len(t)
  OBVIOUS
<1>4. DOMAIN z = 1..(m + n) /\ DOMAIN s = 1..m /\ DOMAIN t = 1..n
  BY <1>2, <1>3
<1>5. \A i \in 1..m : i \in 1..(m + n) /\ z[i] = s[i]
  BY <1>2, <1>3
<1>6. \A i \in 1..n : m + i \in 1..(m + n) /\ z[m + i] = t[i]
  <2>1. TAKE i \in 1..n
  <2>2. m + i \in 1..(m + n) /\ ~(m + i <= m) /\ (m + i) - m = i
    BY <1>3
  <2>3. QED
    BY <1>2, <1>3, <2>2
<1>7. \A i \in 1..(m + n) : i \in 1..m \/ (i - m \in 1..n /\ i = m + (i - m))
  BY <1>3
<1>8. \A x : x \in Range(z) => x \in Range(s) \/ x \in Range(t)
  <2>1. TAKE x
  <2>2. HAVE x \in Range(z)
  <2>3. PICK i \in 1..(m + n) : x = z[i]
    BY <1>4, <2>2 DEF Range
  <2>4. CASE i \in 1..m
    BY <1>4, <1>5, <2>3, <2>4 DEF Range
  <2>5. CASE i - m \in 1..n /\ i = m + (i - m)
    <3>1. PICK j \in 1..n : i = m + j
      BY <2>5
    <3>2. x = t[j]
      BY <1>6, <2>3, <3>1
    <3>3. QED
      BY <1>4, <3>2 DEF Range
  <2>6. QED
    BY <1>7, <2>4, <2>5
<1>9. \A x : x \in Range(s) \/ x \in Range(t) => x \in Range(z)
  BY <1>4, <1>5, <1>6 DEF Range
<1>10. Range(z) = Range(s) \union Range(t)
  BY <1>8, <1>9
<1>11. QED
  BY <1>1, <1>2, <1>10

\* Letters for different rooks, put together, name different rooks.
LEMMA OnceConcat ==
    ASSUME NEW S, NEW s \in Seq(S), NEW t \in Seq(S), NEW P,
           NamesOnce(P, s), NamesOnce(P, t),
           {CastleRook(P, x[1], x[2]) : x \in Range(s)}
             \intersect {CastleRook(P, x[1], x[2]) : x \in Range(t)} = {}
    PROVE  NamesOnce(P, s \o t)
<1>1. PICK z : z = s \o t
  OBVIOUS
<1>2. /\ z \in Seq(S) /\ Len(z) = Len(s) + Len(t)
      /\ \A i \in 1..(Len(s) + Len(t)) : z[i] = IF i <= Len(s) THEN s[i] ELSE t[i - Len(s)]
  BY <1>1, ConcatProperties
<1>3. PICK m \in Nat, n \in Nat : m = Len(s) /\ n = Len(t)
  OBVIOUS
<1>4. DOMAIN z = 1..(m + n) /\ DOMAIN s = 1..m /\ DOMAIN t = 1..n
  BY <1>2, <1>3
<1>5. ASSUME NEW i \in 1..(m + n)
      PROVE  \/ i \in 1..m /\ z[i] = s[i]
             \/ i - m \in 1..n /\ z[i] = t[i - m]
  BY <1>2, <1>3
<1>6. /\ \A i, j \in 1..m : CastleRook(P, s[i][1], s[i][2]) = CastleRook(P, s[j][1], s[j][2]) => i = j
      /\ \A i, j \in 1..n : CastleRook(P, t[i][1], t[i][2]) = CastleRook(P, t[j][1], t[j][2]) => i = j
  BY <1>4, Zenon DEF NamesOnce
<1>7. \A i \in 1..m, j \in 1..n :
         CastleRook(P, s[i][1], s[i][2]) # CastleRook(P, t[j][1], t[j][2])
  <2>1. TAKE i \in 1..m, j \in 1..n
  <2>2. s[i] \in Range(s) /\ t[j] \in Range(t)
    BY <1>4 DEF Range
  <2>3. QED
    BY <2>2
<1>8. ASSUME NEW i \in 1..(m + n), NEW j \in 1..(m + n),
             CastleRook(P, z[i][1], z[i][2]) = CastleRook(P, z[j][1], z[j][2])
      PROVE  i = j
  <2>1. CASE i \in 1..m /\ z[i] = s[i] /\ j \in 1..m /\ z[j] = s[j]
    BY <1>6, <1>8, <2>1
  <2>2. CASE i \in 1..m /\ z[i] = s[i] /\ j - m \in 1..n /\ z[j] = t[j - m]
    BY <1>7, <1>8, <2>2
  <2>3. CASE i - m \in 1..n /\ z[i] = t[i - m] /\ j \in 1..m /\ z[j] = s[j]
    BY <1>7, <1>8, <2>3
  <2>4. CASE i - m \in 1..n /\ z[i] = t[i - m] /\ j - m \in 1..n /\ z[j] = t[j - m]
    <3>1. i - m = j - m
      BY <1>6, <1>8, <2>4
    <3>2. QED
      BY <3>1
  <2>5. QED
    BY <1>5, <2>1, <2>2, <2>3, <2>4
<1>9. NamesOnce(P, z)
  BY <1>4, <1>8, Zenon DEF NamesOnce
<1>10. QED
  BY <1>1, <1>9

\* The rooks of different sides or wings are different.
LEMMA SidedApart ==
    ASSUME NEW p, Ready(p)
    PROVE  /\ \A c \in Color : Sided(p, c, 1) \intersect Sided(p, c, -1) = {}
           /\ \A d, e : Sided(p, WHITE, d) \intersect Sided(p, BLACK, e) = {}
<1>1. ASSUME NEW c \in Color, NEW r, r \in Sided(p, c, 1), r \in Sided(p, c, -1)
      PROVE  FALSE
  <2>1. PICK king : king = pos_king_square(p, c)
    OBVIOUS
  <2>2. r \in CastleRooks(p, c) /\ king < r /\ r < king
    BY <1>1, <2>1, SidedIs
  <2>3. king \in Int /\ r \in Int
    BY <2>1, <2>2, RightsAt, RankAndFile
  <2>4. QED
    BY <2>2, <2>3
<1>2. p.byColor[WHITE] \intersect p.byColor[BLACK] = {}
  BY DEF Ready, Sound, BoardOK
<1>3. \A d, e : Sided(p, WHITE, d) \intersect Sided(p, BLACK, e) = {}
  BY <1>2 DEF Sided, CastleRooks
<1>4. QED
  BY <1>1, <1>3

\* The castling field names the rooks that may castle, each once, and no other.
LEMMA FieldNamesRooks ==
    ASSUME NEW p, Ready(p), RooksApart(p), NEW P, Places(p, P), NEW s, s = CastlingField(p)
    PROVE  /\ s \in Seq(Color \X ({"K", "Q"} \union Range(FileLabel))) /\ Len(s) <= 4
           /\ {CastleRook(P, x[1], x[2]) : x \in Range(s)} = p.castleRooks
           /\ NamesOnce(P, s)
<1> DEFINE S == Color \X ({"K", "Q"} \union Range(FileLabel))
           rooks(q) == {CastleRook(P, x[1], x[2]) : x \in Range(q)}
<1>1. PICK a, b, c, d : /\ a = Letters(p, WHITE, 1, "K") /\ b = Letters(p, WHITE, -1, "Q")
                        /\ c = Letters(p, BLACK, 1, "K") /\ d = Letters(p, BLACK, -1, "Q")
  OBVIOUS
<1>2. s = a \o b \o c \o d
  BY <1>1, FieldIs
<1>3. WHITE \in Color /\ BLACK \in Color /\ Color = {WHITE, BLACK}
  BY DEF Color
<1>4. /\ a \in Seq(S) /\ Len(a) <= 1 /\ rooks(a) = Sided(p, WHITE, 1)
      /\ b \in Seq(S) /\ Len(b) <= 1 /\ rooks(b) = Sided(p, WHITE, -1)
      /\ c \in Seq(S) /\ Len(c) <= 1 /\ rooks(c) = Sided(p, BLACK, 1)
      /\ d \in Seq(S) /\ Len(d) <= 1 /\ rooks(d) = Sided(p, BLACK, -1)
  <2>1. a \in Seq(S) /\ Len(a) <= 1 /\ rooks(a) = Sided(p, WHITE, 1)
    BY <1>1, <1>3, LettersAre
  <2>2. b \in Seq(S) /\ Len(b) <= 1 /\ rooks(b) = Sided(p, WHITE, -1)
    BY <1>1, <1>3, LettersAre
  <2>3. c \in Seq(S) /\ Len(c) <= 1 /\ rooks(c) = Sided(p, BLACK, 1)
    BY <1>1, <1>3, LettersAre
  <2>4. d \in Seq(S) /\ Len(d) <= 1 /\ rooks(d) = Sided(p, BLACK, -1)
    BY <1>1, <1>3, LettersAre
  <2>5. QED
    BY <2>1, <2>2, <2>3, <2>4
<1> HIDE DEF S
<1>5. /\ s \in Seq(S) /\ Len(s) <= 4
      /\ Range(s) = Range(a) \union Range(b) \union Range(c) \union Range(d)
  <2>1. /\ a \o b \in Seq(S) /\ Len(a \o b) = Len(a) + Len(b)
        /\ Range(a \o b) = Range(a) \union Range(b)
    BY <1>4, RangeOfConcat
  <2>2. PICK ab : ab = a \o b
    OBVIOUS
  <2>3. ab \o c \in Seq(S) /\ Len(ab \o c) = Len(ab) + Len(c) /\ Range(ab \o c) = Range(ab) \union Range(c)
    <3>1. ab \in Seq(S) /\ c \in Seq(S)
      BY <1>4, <2>1, <2>2
    <3>2. QED
      BY ONLY <3>1, RangeOfConcat
  <2>4. PICK abc : abc = ab \o c
    OBVIOUS
  <2>5. abc \o d \in Seq(S) /\ Len(abc \o d) = Len(abc) + Len(d) /\ Range(abc \o d) = Range(abc) \union Range(d)
    <3>1. abc \in Seq(S) /\ d \in Seq(S)
      BY <1>4, <2>3, <2>4
    <3>2. QED
      BY ONLY <3>1, RangeOfConcat
  <2>6. s = abc \o d
    BY <1>2, <2>2, <2>4
  <2>7. PICK i \in Nat, j \in Nat, k \in Nat, l \in Nat : i = Len(a) /\ j = Len(b) /\ k = Len(c) /\ l = Len(d)
    BY <1>4
  <2>8. Len(s) = ((i + j) + k) + l /\ i <= 1 /\ j <= 1 /\ k <= 1 /\ l <= 1
    BY <1>4, <2>1, <2>2, <2>3, <2>4, <2>5, <2>6, <2>7, Zenon
  <2>9. Range(s) = Range(a) \union Range(b) \union Range(c) \union Range(d)
    BY <2>1, <2>2, <2>3, <2>4, <2>5, <2>6, Zenon
  <2>10. Len(s) <= 4
    BY <2>8
  <2>11. QED
    BY <2>5, <2>6, <2>9, <2>10
<1> HIDE DEF rooks
<1>6. \A q \in Seq(S) : Len(q) <= 1 => NamesOnce(P, q)
  <2>1. TAKE q \in Seq(S)
  <2>2. HAVE Len(q) <= 1
  <2>3. PICK n \in Nat : n = Len(q) /\ DOMAIN q = 1..n
    OBVIOUS
  <2>4. \A i, j \in DOMAIN q : i = j
    BY <2>2, <2>3
  <2>5. QED
    BY <2>4, Zenon DEF NamesOnce
<1>7. NamesOnce(P, s)
  <2>1. /\ Sided(p, WHITE, 1) \intersect Sided(p, WHITE, -1) = {}
        /\ Sided(p, BLACK, 1) \intersect Sided(p, BLACK, -1) = {}
        /\ \A d1, d2 : Sided(p, WHITE, d1) \intersect Sided(p, BLACK, d2) = {}
    BY <1>3, SidedApart
  <2>2. PICK ab, abc : ab = a \o b /\ abc = ab \o c
    OBVIOUS
  <2>3. \A q \in Seq(S), r \in Seq(S) :
           /\ q \o r \in Seq(S) /\ rooks(q \o r) = rooks(q) \union rooks(r)
           /\ NamesOnce(P, q) /\ NamesOnce(P, r) /\ rooks(q) \intersect rooks(r) = {}
                => NamesOnce(P, q \o r)
    <3>1. TAKE q \in Seq(S), r \in Seq(S)
    <3>2. q \o r \in Seq(S) /\ Range(q \o r) = Range(q) \union Range(r)
      BY RangeOfConcat
    <3>3. rooks(q \o r) = rooks(q) \union rooks(r)
      BY <3>2 DEF rooks
    <3>4. NamesOnce(P, q) /\ NamesOnce(P, r) /\ rooks(q) \intersect rooks(r) = {}
             => NamesOnce(P, q \o r)
      BY OnceConcat DEF rooks
    <3>5. QED
      BY <3>2, <3>3, <3>4
  <2>4. ab \in Seq(S) /\ NamesOnce(P, ab) /\ rooks(ab) = rooks(a) \union rooks(b)
    BY <1>4, <1>6, <2>1, <2>2, <2>3
  <2>5. abc \in Seq(S) /\ NamesOnce(P, abc) /\ rooks(abc) = rooks(ab) \union rooks(c)
    <3>1. rooks(ab) \intersect rooks(c) = {}
      BY <1>4, <2>1, <2>4
    <3>2. NamesOnce(P, c) /\ c \in Seq(S)
      BY <1>4, <1>6
    <3>3. QED
      BY <2>2, <2>3, <2>4, <3>1, <3>2
  <2>6. NamesOnce(P, abc \o d)
    <3>1. rooks(abc) \intersect rooks(d) = {}
      BY <1>4, <2>1, <2>4, <2>5
    <3>2. NamesOnce(P, d) /\ d \in Seq(S)
      BY <1>4, <1>6
    <3>3. QED
      BY <2>3, <2>5, <3>1, <3>2
  <2>7. QED
    BY <1>2, <2>2, <2>6
<1> USE DEF rooks
<1>8. rooks(s) = rooks(a) \union rooks(b) \union rooks(c) \union rooks(d)
  BY <1>5
<1>9. \A q \in Color : Sided(p, q, 1) \union Sided(p, q, -1) = CastleRooks(p, q)
  <2>1. TAKE q \in Color
  <2>2. PICK king : king = pos_king_square(p, q)
    OBVIOUS
  <2>3. \A r : r \in Sided(p, q, 1) <=> r \in CastleRooks(p, q) /\ king < r
    BY <2>2, SidedIs
  <2>4. \A r : r \in Sided(p, q, -1) <=> r \in CastleRooks(p, q) /\ r < king
    BY <2>2, SidedIs
  <2>5. \A r \in CastleRooks(p, q) : king < r \/ r < king
    <3>1. TAKE r \in CastleRooks(p, q)
    <3>2. king \in Square /\ r \in Square /\ r # king
      BY <2>2, RightsAt
    <3>3. r \in Int /\ king \in Int
      BY <3>2, RankAndFile
    <3>4. QED
      BY <3>2, <3>3
  <2>6. QED
    BY <2>3, <2>4, <2>5
<1>10. p.castleRooks = CastleRooks(p, WHITE) \union CastleRooks(p, BLACK)
  BY DEF Ready, Sound, RightsSound, CastleRooks, pos_pieces
<1>11. rooks(s) = p.castleRooks
  BY <1>3, <1>4, <1>8, <1>9, <1>10
<1>12. QED
  BY <1>5, <1>11, <1>7 DEF S

-----------------------------------------------------------------------------
(* FENs are read as the positions they were written for.                   *)

\* What finish computes is the same for the same board.
LEMMA SameDerived ==
    ASSUME NEW p, NEW q, SameBoard(p, q), Derived(p), Derived(q)
    PROVE  q.attacked = p.attacked /\ q.pins = p.pins /\ q.checkers = p.checkers
<1>1. Attacked(q) = Attacked(p)
  BY SameAttacked
<1>2. /\ q.byColor = p.byColor /\ q.byPiece = p.byPiece /\ q.turn = p.turn
      /\ pos_pieces(q) = pos_pieces(p)
      /\ \A e : pos_king_square(q, e) = pos_king_square(p, e)
      /\ \A e, k : pos_pieces_cp(q, e, k) = pos_pieces_cp(p, e, k)
      /\ \A e, k, l : pos_pieces_cpp(q, e, k, l) = pos_pieces_cpp(p, e, k, l)
  BY SamePieces DEF SameBoard
<1>3. Pins(q) = Pins(p)
  BY <1>2, SMT DEF Pins
<1>4. PICK a : a = Attacked(p)
  OBVIOUS
<1>5. Checkers(q, a) = Checkers(p, a)
  BY <1>2, SMT DEF Checkers
<1>6. QED
  BY <1>1, <1>3, <1>4, <1>5 DEF Derived

\* The bitboards that a placement gives.
LEMMA BoardRead ==
    ASSUME NEW p, BoardOK(p), NEW P, Places(p, P)
    PROVE  /\ [c \in Color |-> {x[3] : x \in {y \in P : y[1] = c}}] = p.byColor
           /\ [k \in Piece |-> {x[3] : x \in {y \in P : y[2] = k}}] = p.byPiece
<1>1. /\ p.byColor \in [Color -> SUBSET Square] /\ p.byPiece \in [Piece -> SUBSET Square]
      /\ \A s \in Square : (\E c \in Color : s \in p.byColor[c]) <=> (\E k \in Piece : s \in p.byPiece[k])
  BY DEF BoardOK, pos_pieces, Color
<1>2. ASSUME NEW c \in Color PROVE {x[3] : x \in {y \in P : y[1] = c}} = p.byColor[c]
  <2>1. ASSUME NEW s, s \in p.byColor[c] PROVE \E x \in P : x[1] = c /\ x[3] = s
    <3>1. PICK k \in Piece : s \in p.byPiece[k]
      BY <1>1, <2>1
    <3>2. PICK x : x = <<c, k, s>>
      OBVIOUS
    <3>3. x \in P /\ x[1] = c /\ x[3] = s
      BY <1>1, <2>1, <3>1, <3>2 DEF Places
    <3>4. QED
      BY <3>3
  <2>2. ASSUME NEW x \in P, x[1] = c PROVE x[3] \in p.byColor[c]
    BY <2>2 DEF Places
  <2>3. QED
    BY <2>1, <2>2
<1>3. ASSUME NEW k \in Piece PROVE {x[3] : x \in {y \in P : y[2] = k}} = p.byPiece[k]
  <2>1. ASSUME NEW s, s \in p.byPiece[k] PROVE \E x \in P : x[2] = k /\ x[3] = s
    <3>1. PICK c \in Color : s \in p.byColor[c]
      BY <1>1, <2>1
    <3>2. PICK x : x = <<c, k, s>>
      OBVIOUS
    <3>3. x \in P /\ x[2] = k /\ x[3] = s
      BY <1>1, <2>1, <3>1, <3>2 DEF Places
    <3>4. QED
      BY <3>3
  <2>2. ASSUME NEW x \in P, x[2] = k PROVE x[3] \in p.byPiece[k]
    BY <2>2 DEF Places
  <2>3. QED
    BY <2>1, <2>2
<1>4. QED
  BY <1>1, <1>2, <1>3

\* The key that a placement, a turn, rights and an en passant square give.
LEMMA KeyRead ==
    ASSUME NEW p, BoardOK(p), PieceKey(p), Keyed(p), NEW P, Places(p, P)
    PROVE  UNION ({ZobristKey(x[1], x[2], x[3]) : x \in P}
                     \union {zobrist_castling(p.castleRooks), ZobristEnPassant(p.epSquare),
                             IF p.turn = BLACK THEN ZobristTurn ELSE {}})
             = p.key
<1> DEFINE numbers == UNION {ZobristKey(x[1], x[2], x[3]) : x \in P}
           given == UNION ({ZobristKey(x[1], x[2], x[3]) : x \in P}
                     \union {zobrist_castling(p.castleRooks), ZobristEnPassant(p.epSquare),
                             IF p.turn = BLACK THEN ZobristTurn ELSE {}})
<1>1. given = numbers \union Others(p)
  BY DEF Others
<1>2. \A n : n \in numbers <=> \E x \in P : n = <<"piece", x[1], x[2], x[3]>>
  BY DEF ZobristKey
<1>3. p.key \ PieceNumbers = Others(p)
  BY DEF Keyed
<1> HIDE DEF numbers, given
<1>4. ASSUME NEW n \in numbers PROVE n \in p.key /\ n \in PieceNumbers
  <2>1. PICK x \in P : n = <<"piece", x[1], x[2], x[3]>>
    BY <1>2
  <2>2. PICK c \in Color, k \in Piece, s \in Square : x = <<c, k, s>>
    BY DEF Places
  <2>3. s \in p.byColor[c] /\ s \in p.byPiece[k] /\ n = <<"piece", c, k, s>>
    BY <2>1, <2>2 DEF Places
  <2>4. QED
    BY <2>3 DEF PieceKey, PieceNumbers
<1>5. ASSUME NEW n \in PieceNumbers, n \in p.key PROVE n \in numbers
  <2>1. PICK c \in Color, k \in Piece, s \in Square : n = <<"piece", c, k, s>>
    BY DEF PieceNumbers
  <2>2. s \in p.byColor[c] /\ s \in p.byPiece[k]
    BY <1>5, <2>1 DEF PieceKey
  <2>3. PICK x : x = <<c, k, s>>
    OBVIOUS
  <2>4. x \in P /\ x[1] = c /\ x[2] = k /\ x[3] = s
    BY <2>2, <2>3 DEF Places
  <2>5. QED
    BY <1>2, <2>1, <2>4
<1>6. given = p.key
  BY <1>1, <1>3, <1>4, <1>5
<1>7. QED
  BY <1>6 DEF given

\* The placement of classical chess is not taken for that of Chess960.
LEMMA NotDetected ==
    ASSUME NEW p, Ready(p), RooksApart(p), ~p.chess960, NEW P, Places(p, P)
    PROVE  ~Detected960(P, p.castleRooks)
<1> SUFFICES ASSUME NEW r \in p.castleRooks, NEW x \in P, x[2] = "KING", <<x[1], "ROOK", r>> \in P,
                    file_of(r) \in 1..6 \/ file_of(x[3]) # 4
             PROVE  FALSE
  BY DEF Detected960
<1>1. PICK c \in Color, s \in Square : x = <<c, "KING", s>>
  BY DEF Places
<1>2. s \in p.byColor[c] /\ s \in p.byPiece["KING"] /\ x[1] = c /\ x[3] = s
  BY <1>1 DEF Places, Piece
<1>3. pos_pieces_cp(p, c, "KING") = {pos_king_square(p, c)}
  BY KingSquare DEF Ready
<1>4. s = pos_king_square(p, c)
  BY <1>2, <1>3 DEF pos_pieces_cp
<1>5. r \in Square
  BY DEF Ready, Sound, RightsSound, BoardOK, pos_pieces, Color
<1>6. r \in CastleRooks(p, c)
  <2>1. PICK y : y = <<c, "ROOK", r>>
    OBVIOUS
  <2>2. y \in P
    BY <1>2, <2>1
  <2>3. r \in p.byColor[c]
    BY <1>5, <2>1, <2>2 DEF Places, Piece
  <2>4. QED
    BY <2>3 DEF CastleRooks
<1>7. file_of(s) = 4 /\ file_of(r) \in {0, 7}
  BY <1>4, <1>6 DEF RooksApart
<1>8. QED
  BY <1>2, <1>7

\* All of the position, but whether it is Chess960.
SameFields(p, q) ==
    /\ IsPosition(q) /\ q.byColor = p.byColor /\ q.byPiece = p.byPiece
    /\ q.castleRooks = p.castleRooks /\ q.key = p.key /\ q.attacked = p.attacked
    /\ q.checkers = p.checkers /\ q.pins = p.pins /\ q.turn = p.turn
    /\ q.epSquare = p.epSquare /\ q.rule50 = p.rule50 /\ q.fullMove = p.fullMove

\* A FEN is read as the position it was written for, if not as its mode.
LEMMA FenReadBack ==
    ASSUME NEW p, Ready(p), Cells(p), Keyed(p), RooksApart(p), NEW force,
           NEW q, q = pos_set(pos_get(p), force)
    PROVE  /\ SameFields(p, q)
           /\ q.chess960 = (force \/ Detected960(Placement(p), p.castleRooks))
<1>1. PICK fen : fen = pos_get(p)
  OBVIOUS
<1>2. PICK P : P = Placement(p)
  OBVIOUS
<1>3. /\ fen.pieces = P /\ fen.turn = p.turn /\ fen.castling = CastlingField(p)
      /\ fen.epSquare = p.epSquare /\ fen.rule50 = p.rule50 /\ fen.fullMove = p.fullMove
  BY <1>1, <1>2 DEF pos_get
<1>4. BoardOK(p) /\ PieceKey(p) /\ Derived(p) /\ Places(p, P)
  BY <1>2, PlacesPlaced DEF Ready, Sound, Cells
<1>5. /\ IsPosition(q) /\ Derived(q)
      /\ q.byColor = [c \in Color |-> {x[3] : x \in {y \in P : y[1] = c}}]
      /\ q.byPiece = [k \in Piece |-> {x[3] : x \in {y \in P : y[2] = k}}]
      /\ q.castleRooks = {CastleRook(P, x[1], x[2]) : x \in Range(CastlingField(p))}
      /\ q.key = UNION ({ZobristKey(x[1], x[2], x[3]) : x \in P}
                          \union {zobrist_castling(q.castleRooks),
                                  ZobristEnPassant(p.epSquare),
                                  IF p.turn = BLACK THEN ZobristTurn ELSE {}})
      /\ q.turn = p.turn /\ q.epSquare = p.epSquare
      /\ q.rule50 = p.rule50 /\ q.fullMove = p.fullMove
      /\ q.chess960 = (force \/ Detected960(P, q.castleRooks))
  <2>1. q = pos_set(fen, force)
    BY <1>1, Zenon
  <2>2. /\ IsPosition(q) /\ Derived(q)
        /\ q.byColor = [c \in Color |-> {x[3] : x \in {y \in fen.pieces : y[1] = c}}]
        /\ q.byPiece = [k \in Piece |-> {x[3] : x \in {y \in fen.pieces : y[2] = k}}]
        /\ q.castleRooks = {CastleRook(fen.pieces, x[1], x[2]) : x \in Range(fen.castling)}
        /\ q.key = UNION ({ZobristKey(x[1], x[2], x[3]) : x \in fen.pieces}
                          \union {zobrist_castling(q.castleRooks),
                                  ZobristEnPassant(fen.epSquare),
                                  IF fen.turn = BLACK THEN ZobristTurn ELSE {}})
        /\ q.turn = fen.turn /\ q.epSquare = fen.epSquare
        /\ q.rule50 = fen.rule50 /\ q.fullMove = fen.fullMove
        /\ q.chess960 = (force \/ Detected960(fen.pieces, q.castleRooks))
    BY <2>1, SetFields, Zenon
  <2>3. QED
    BY <1>3, <2>2, Zenon
<1>6. q.byColor = p.byColor /\ q.byPiece = p.byPiece
  <2>1. /\ [c \in Color |-> {x[3] : x \in {y \in P : y[1] = c}}] = p.byColor
        /\ [k \in Piece |-> {x[3] : x \in {y \in P : y[2] = k}}] = p.byPiece
    BY ONLY <1>4, BoardRead
  <2>2. QED
    BY <1>5, <2>1, Zenon
<1>7. q.castleRooks = p.castleRooks
  <2>1. PICK s : s = CastlingField(p)
    OBVIOUS
  <2>2. {CastleRook(P, x[1], x[2]) : x \in Range(s)} = p.castleRooks
    BY <1>4, <2>1, FieldNamesRooks, Zenon
  <2>3. QED
    BY <1>5, <2>1, <2>2, Zenon
<1>8. q.key = p.key
  BY <1>4, <1>5, <1>7, KeyRead, Zenon
<1>9. SameBoard(p, q)
  BY <1>5, <1>6, Zenon DEF SameBoard
<1>10. q.attacked = p.attacked /\ q.pins = p.pins /\ q.checkers = p.checkers
  BY <1>4, <1>5, <1>9, SameDerived, Zenon
<1>11. SameFields(p, q)
  BY <1>5, <1>6, <1>7, <1>8, <1>10, Zenon DEF SameFields
<1>12. QED
  BY <1>2, <1>5, <1>7, <1>11, Zenon

\* A position with the fields of another is that position.
LEMMA SamePosition ==
    ASSUME NEW p, IsPosition(p), NEW q, SameFields(p, q)
    PROVE  q = [p EXCEPT !.chess960 = q.chess960] /\ (q.chess960 = p.chess960 => q = p)
<1>1. PICK b, k, r, key, a, c, pins, t, e, n, f, x, y :
        /\ p = [byColor |-> b, byPiece |-> k, castleRooks |-> r, key |-> key, attacked |-> a,
                checkers |-> c, pins |-> pins, turn |-> t, epSquare |-> e, rule50 |-> n,
                fullMove |-> f, chess960 |-> x]
        /\ q = [byColor |-> b, byPiece |-> k, castleRooks |-> r, key |-> key, attacked |-> a,
                checkers |-> c, pins |-> pins, turn |-> t, epSquare |-> e, rule50 |-> n,
                fullMove |-> f, chess960 |-> y]
        /\ y = q.chess960 /\ x = p.chess960
  BY Zenon DEF IsPosition, SameFields
<1>2. q = [p EXCEPT !.chess960 = y]
  BY <1>1
<1>3. x = y => q = p
  BY <1>1
<1>4. QED
  BY <1>1, <1>2, <1>3, Zenon

\* Whether it is read as Chess960.
LEMMA ReadAs960 ==
    ASSUME NEW p, Ready(p), Cells(p), Keyed(p), RooksApart(p), NEW q, q = pos_set(pos_get(p), FALSE)
    PROVE  q = [p EXCEPT !.chess960 = q.chess960] /\ (q.chess960 => p.chess960)
<1>1. /\ SameFields(p, q)
      /\ q.chess960 = (FALSE \/ Detected960(Placement(p), p.castleRooks))
  <2>1. PICK force : force = FALSE
    OBVIOUS
  <2>2. q = pos_set(pos_get(p), force)
    BY <2>1, Zenon
  <2>3. /\ SameFields(p, q)
        /\ q.chess960 = (force \/ Detected960(Placement(p), p.castleRooks))
    BY <2>2, FenReadBack, Zenon
  <2>4. QED
    BY <2>1, <2>3, Zenon
<1>2. IsPosition(p) /\ Places(p, Placement(p))
  BY PlacesPlaced DEF Cells, BoardOK
<1>3. ~p.chess960 => ~Detected960(Placement(p), p.castleRooks)
  BY <1>2, NotDetected, Zenon
<1>4. q = [p EXCEPT !.chess960 = q.chess960]
  BY <1>1, <1>2, SamePosition, Zenon
<1>5. QED
  BY <1>1, <1>3, <1>4, Zenon

\* With its mode it is the same position, field by field.
LEMMA ReadAsItself ==
    ASSUME NEW p, Ready(p), Cells(p), Keyed(p), RooksApart(p), p.chess960 \in BOOLEAN,
           NEW q, q = pos_set(pos_get(p), p.chess960)
    PROVE  q = p
<1>1. /\ SameFields(p, q)
      /\ q.chess960 = (p.chess960 \/ Detected960(Placement(p), p.castleRooks))
  <2>1. PICK force : force = p.chess960
    OBVIOUS
  <2>2. q = pos_set(pos_get(p), force)
    BY <2>1, Zenon
  <2>3. /\ SameFields(p, q)
        /\ q.chess960 = (force \/ Detected960(Placement(p), p.castleRooks))
    BY <2>2, FenReadBack, Zenon
  <2>4. QED
    BY <2>1, <2>3, Zenon
<1>2. IsPosition(p) /\ Places(p, Placement(p))
  BY PlacesPlaced DEF Cells, BoardOK
<1>3. ~p.chess960 => ~Detected960(Placement(p), p.castleRooks)
  BY <1>2, NotDetected, Zenon
<1>4. q.chess960 = p.chess960
  <2>1. p.chess960 = TRUE \/ p.chess960 = FALSE
    OBVIOUS
  <2>2. QED
    BY <1>1, <1>3, <2>1, Zenon
<1>5. QED
  BY <1>1, <1>2, <1>4, SamePosition, Zenon

-----------------------------------------------------------------------------
(* Packed positions.                                                       *)

\* What the entry of a square says.
Packs(p, f) ==
    /\ DOMAIN f = pos_pieces(p)
    /\ \A s \in pos_pieces(p) :
         /\ f[s][2] = pos_color_on(p, s)
         /\ f[s][1] = IF pos_piece_on(p, s) = "ROOK" /\ s \in p.castleRooks THEN "ROOK_WITH_RIGHT"
                      ELSE IF pos_piece_on(p, s) = "PAWN" /\ Capturable(p, s) THEN "PAWN_CAPTURABLE"
                      ELSE pos_piece_on(p, s)

\* Pieces and colors are those of the square.
LEMMA OnSquare ==
    ASSUME NEW p, BoardOK(p), NEW s \in pos_pieces(p)
    PROVE  /\ s \in Square /\ pos_color_on(p, s) \in Color /\ s \in p.byColor[pos_color_on(p, s)]
           /\ pos_piece_on(p, s) \in Piece /\ s \in p.byPiece[pos_piece_on(p, s)]
           /\ \A c \in Color : s \in p.byColor[c] => c = pos_color_on(p, s)
           /\ \A k \in Piece : s \in p.byPiece[k] => k = pos_piece_on(p, s)
<1>1. pos_piece_on(p, s) \in Piece /\ s \in p.byPiece[pos_piece_on(p, s)]
      /\ \A k \in Piece : s \in p.byPiece[k] => k = pos_piece_on(p, s)
  BY PieceOn
<1>2. QED
  BY <1>1 DEF BoardOK, pos_pieces, pos_color_on, Color, WHITE, BLACK

\* Unpacking finds the pieces.
LEMMA UnpackedPieces ==
    ASSUME NEW p, Ready(p), NEW f, Packs(p, f)
    PROVE  {<<f[s][2], CASE f[s][1] = "ROOK_WITH_RIGHT" -> "ROOK"
                         [] f[s][1] = "PAWN_CAPTURABLE" -> "PAWN" [] OTHER -> f[s][1], s>> :
              s \in DOMAIN f} = Placement(p)
<1> DEFINE back(k) == CASE k = "ROOK_WITH_RIGHT" -> "ROOK" [] k = "PAWN_CAPTURABLE" -> "PAWN" [] OTHER -> k
<1>1. BoardOK(p) /\ Places(p, Placement(p))
  BY PlacesPlaced DEF Ready, Sound
<1>2. ASSUME NEW s \in pos_pieces(p)
      PROVE  f[s][2] = pos_color_on(p, s) /\ back(f[s][1]) = pos_piece_on(p, s)
  <2>1. pos_piece_on(p, s) \in Piece
    BY <1>1, OnSquare
  <2>2. pos_piece_on(p, s) # "ROOK_WITH_RIGHT" /\ pos_piece_on(p, s) # "PAWN_CAPTURABLE"
    BY <2>1 DEF Piece
  <2>3. QED
    BY <2>2 DEF Packs
<1> HIDE DEF back
<1>3. DOMAIN f = pos_pieces(p)
  BY DEF Packs
<1>4. \A s \in pos_pieces(p) : <<f[s][2], back(f[s][1]), s>> = <<pos_color_on(p, s), pos_piece_on(p, s), s>>
  BY <1>2
<1>5. ASSUME NEW s \in pos_pieces(p) PROVE <<pos_color_on(p, s), pos_piece_on(p, s), s>> \in Placement(p)
  BY <1>1, OnSquare DEF Places
<1>6. ASSUME NEW x \in Placement(p)
      PROVE  \E s \in pos_pieces(p) : x = <<pos_color_on(p, s), pos_piece_on(p, s), s>>
  <2>1. PICK c \in Color, k \in Piece, s \in Square : x = <<c, k, s>>
    BY <1>1 DEF Places
  <2>2. s \in p.byColor[c] /\ s \in p.byPiece[k]
    BY <1>1, <2>1 DEF Places
  <2>3. s \in pos_pieces(p)
    BY <1>1, <2>2 DEF BoardOK
  <2>4. c = pos_color_on(p, s) /\ k = pos_piece_on(p, s)
    BY <1>1, <2>2, <2>3, OnSquare
  <2>5. QED
    BY <2>1, <2>3, <2>4
<1>7. {<<f[s][2], back(f[s][1]), s>> : s \in DOMAIN f} = Placement(p)
  BY <1>3, <1>4, <1>5, <1>6
<1>8. QED
  BY <1>7 DEF back

\* The pawn that can be captured en passant, and the square behind it.
LEMMA CapturablePawn ==
    ASSUME NEW p, Ready(p), NEW s \in Square
    PROVE  /\ s \in p.byPiece["PAWN"] /\ Capturable(p, s)
                <=> p.epSquare # NB_SQUARE /\ s = p.epSquare - push_inc(p.turn)
           /\ p.epSquare # NB_SQUARE /\ s = p.epSquare - push_inc(p.turn)
                => /\ s \in pos_pieces(p) /\ s \in p.byColor[opposite(p.turn)]
                   /\ s - push_inc(opposite(p.turn)) = p.epSquare
<1>1. PICK ep, us : ep = p.epSquare /\ us = p.turn
  OBVIOUS
<1>2. us \in Color /\ EpSound(p) /\ PawnsSound(p) /\ BoardOK(p) /\ ep \in Square \union {NB_SQUARE}
  BY <1>1 DEF Ready, Sound, BoardOK, EpSound
<1>3. ep \in 0..64 /\ s \in 0..63
  BY <1>2 DEF Square, NB_SQUARE
<1>4. /\ push_inc(us) = (IF us = 0 THEN 8 ELSE -8)
      /\ push_inc(opposite(us)) = (IF us = 0 THEN -8 ELSE 8)
  BY <1>2, Directions DEF opposite, Color, WHITE, BLACK, push_inc
<1>5. Capturable(p, s) <=> ep = s + push_inc(us)
  BY <1>1 DEF Capturable
<1>6. (ep = s + push_inc(us)) <=> (s = ep - push_inc(us))
  BY <1>3, <1>4
<1>7. s \in p.byPiece["PAWN"] => rank_of(s) # 7
  BY <1>2 DEF PawnsSound, Rank
<1>8. ep = NB_SQUARE /\ s = ep - push_inc(us) => rank_of(s) = 7
  BY <1>3, <1>4 DEF NB_SQUARE, rank_of
<1>9. ep # NB_SQUARE => ep - push_inc(us) \in pos_pieces_cp(p, opposite(us), "PAWN")
  BY <1>1, <1>2 DEF EpSound
<1>10. s = ep - push_inc(us) => s - push_inc(opposite(us)) = ep
  BY <1>3, <1>4
<1>11. pos_pieces_cp(p, opposite(us), "PAWN") \subseteq p.byPiece["PAWN"] \intersect p.byColor[opposite(us)]
       /\ p.byColor[opposite(us)] \subseteq pos_pieces(p)
  BY <1>2, Directions, ColoredPieces DEF pos_pieces_cp
<1>12. QED
  BY <1>1, <1>5, <1>6, <1>7, <1>8, <1>9, <1>10, <1>11

\* Unpacking finds the rights and the en passant square.
LEMMA PackedMarks ==
    ASSUME NEW p, Ready(p), NEW f, Packs(p, f)
    PROVE  /\ \A s \in pos_pieces(p) : f[s][1] = "ROOK_WITH_RIGHT" <=> s \in p.castleRooks
           /\ \A s \in pos_pieces(p) : f[s][1] = "PAWN_CAPTURABLE" <=>
                p.epSquare # NB_SQUARE /\ s = p.epSquare - push_inc(p.turn)
<1>1. BoardOK(p) /\ p.castleRooks \subseteq p.byPiece["ROOK"]
  BY DEF Ready, Sound, RightsSound
<1> SUFFICES ASSUME NEW s \in pos_pieces(p)
             PROVE  /\ f[s][1] = "ROOK_WITH_RIGHT" <=> s \in p.castleRooks
                    /\ f[s][1] = "PAWN_CAPTURABLE" <=>
                         p.epSquare # NB_SQUARE /\ s = p.epSquare - push_inc(p.turn)
  OBVIOUS
<1>2. PICK k \in Piece : /\ k = pos_piece_on(p, s) /\ s \in p.byPiece[k]
                         /\ \A l \in Piece : s \in p.byPiece[l] => l = k
  BY <1>1, OnSquare
<1>3. s \in Square
  BY <1>1, OnSquare
<1>4. k # "ROOK_WITH_RIGHT" /\ k # "PAWN_CAPTURABLE" /\ "ROOK" \in Piece /\ "PAWN" \in Piece
  BY DEF Piece
<1>5. (s \in p.castleRooks => k = "ROOK") /\ (s \in p.byPiece["PAWN"] <=> k = "PAWN")
  BY <1>1, <1>2, <1>4
<1>6. k = "PAWN" /\ Capturable(p, s) <=> p.epSquare # NB_SQUARE /\ s = p.epSquare - push_inc(p.turn)
  BY <1>3, <1>5, CapturablePawn
<1>7. f[s][1] = IF k = "ROOK" /\ s \in p.castleRooks THEN "ROOK_WITH_RIGHT"
                ELSE IF k = "PAWN" /\ Capturable(p, s) THEN "PAWN_CAPTURABLE" ELSE k
  BY <1>2 DEF Packs
<1>8. QED
  BY <1>4, <1>5, <1>6, <1>7

\* A binary sample says all of the position but the number of the move.
LEMMA SampleSaysAll ==
    ASSUME NEW p, Ready(p), p.rule50 \in 0..100
    PROVE  Unpacked(pos_pack(p)) =
             [pieces |-> Placement(p), rooks |-> p.castleRooks,
              epSquares |-> {p.epSquare} \ {NB_SQUARE},
              turn |-> p.turn, rule50 |-> p.rule50]
<1>1. BoardOK(p) /\ p.castleRooks \subseteq pos_pieces(p) /\ p.turn \in Color
  BY DEF Ready, Sound, RightsSound, BoardOK
<1>2. PICK packed, f : /\ packed = pos_pack(p) /\ f = packed.packedPieces
  OBVIOUS
<1>3. packed.turn = p.turn /\ packed.rule50 = p.rule50 % 2^7
  BY <1>2 DEF pos_pack
<1>4. Packs(p, f)
  <2>1. f = [s \in pos_pieces(p) |->
               <<IF pos_piece_on(p, s) = "ROOK" /\ s \in p.castleRooks THEN "ROOK_WITH_RIGHT"
                      ELSE IF pos_piece_on(p, s) = "PAWN" /\ Capturable(p, s) THEN "PAWN_CAPTURABLE"
                      ELSE pos_piece_on(p, s),
                 pos_color_on(p, s)>>]
    BY <1>2 DEF pos_pack
  <2>2. QED
    BY <2>1 DEF Packs
<1>5. p.rule50 % 2^7 = p.rule50
  <2>1. \A n \in 0..100 : n % 128 = n
    OBVIOUS
  <2>2. 2^7 = 128
    OBVIOUS
  <2>3. QED
    BY <2>1, <2>2
<1>6. /\ DOMAIN f = pos_pieces(p)
      /\ \A s \in pos_pieces(p) : f[s][2] = pos_color_on(p, s)
  BY <1>4 DEF Packs
<1>7. {s \in DOMAIN f : f[s][1] \in {"ROOK_WITH_RIGHT"}} = p.castleRooks
  BY <1>1, <1>4, <1>6, PackedMarks
<1>8. {s - push_inc(f[s][2]) : s \in {t \in DOMAIN f : f[t][1] \in {"PAWN_CAPTURABLE"}}}
        = {p.epSquare} \ {NB_SQUARE}
  <2> DEFINE them == opposite(p.turn)
             capturable == {t \in DOMAIN f : f[t][1] \in {"PAWN_CAPTURABLE"}}
  <2>1. them \in Color
    BY <1>1, Directions
  <2>2. \A s \in pos_pieces(p) : s \in Square
    BY <1>1, OnSquare
  <2>3. \A s : s \in capturable <=>
          s \in pos_pieces(p) /\ p.epSquare # NB_SQUARE /\ s = p.epSquare - push_inc(p.turn)
    BY <1>4, <1>6, PackedMarks
  <2>4. \A s \in capturable : f[s][2] = them /\ s - push_inc(them) = p.epSquare
    <3>1. TAKE s \in capturable
    <3>2. s \in pos_pieces(p) /\ s \in Square /\ p.epSquare # NB_SQUARE /\ s = p.epSquare - push_inc(p.turn)
      BY <2>2, <2>3
    <3>3. s \in p.byColor[them] /\ s - push_inc(them) = p.epSquare
      BY <3>2, CapturablePawn
    <3>4. f[s][2] = them
      BY <1>1, <1>6, <2>1, <3>2, <3>3, OnSquare
    <3>5. QED
      BY <3>3, <3>4
  <2>5. p.epSquare # NB_SQUARE => p.epSquare - push_inc(p.turn) \in capturable
    <3>1. HAVE p.epSquare # NB_SQUARE
    <3>2. PICK s : s = p.epSquare - push_inc(p.turn)
      OBVIOUS
    <3>3. s \in pos_pieces_cp(p, them, "PAWN")
      BY <3>1, <3>2 DEF Ready, Sound, EpSound
    <3>4. s \in pos_pieces(p)
      BY <1>1, <2>1, <3>3, ColoredPieces
    <3>5. QED
      BY <2>3, <3>1, <3>2, <3>4
  <2> HIDE DEF capturable, them
  <2>6. CASE p.epSquare = NB_SQUARE
    <3>1. capturable = {}
      BY <2>3, <2>6
    <3>2. QED
      BY <2>6, <3>1 DEF capturable
  <2>7. CASE p.epSquare # NB_SQUARE
    <3>1. PICK e : e = p.epSquare - push_inc(p.turn)
      OBVIOUS
    <3>2. capturable = {e}
      BY <2>3, <2>5, <2>7, <3>1
    <3>3. {s - push_inc(f[s][2]) : s \in capturable} = {p.epSquare}
      BY <2>4, <3>2
    <3>4. QED
      BY <2>7, <3>3 DEF capturable
  <2>8. QED
    BY <2>6, <2>7
<1>9. {<<f[s][2], CASE f[s][1] = "ROOK_WITH_RIGHT" -> "ROOK"
                         [] f[s][1] = "PAWN_CAPTURABLE" -> "PAWN" [] OTHER -> f[s][1], s>> :
              s \in DOMAIN f} = Placement(p)
  BY <1>4, UnpackedPieces
<1>10. Unpacked(packed) =
         [pieces |-> {<<f[s][2], CASE f[s][1] = "ROOK_WITH_RIGHT" -> "ROOK"
                         [] f[s][1] = "PAWN_CAPTURABLE" -> "PAWN" [] OTHER -> f[s][1], s>> :
                        s \in DOMAIN f},
          rooks |-> {s \in DOMAIN f : f[s][1] \in {"ROOK_WITH_RIGHT"}},
          epSquares |-> {s - push_inc(f[s][2]) : s \in {t \in DOMAIN f : f[t][1] \in {"PAWN_CAPTURABLE"}}},
          turn |-> packed.turn, rule50 |-> packed.rule50]
  BY <1>2, Zenon DEF Unpacked
<1>11. QED
  BY <1>2, <1>3, <1>5, <1>7, <1>8, <1>9, <1>10, Zenon

-----------------------------------------------------------------------------
(* What pos_set verifies is so in every position of a game.                *)

\* The numbers of pieces of a kind, with the pawns that may still become one.
Numbers(p) ==
    \A c \in Color :
        /\ bb_count(pos_pieces_cpp(p, c, "KNIGHT", "PAWN")) <= 10
        /\ bb_count(pos_pieces_cpp(p, c, "BISHOP", "PAWN")) <= 10
        /\ bb_count(pos_pieces_cpp(p, c, "ROOK", "PAWN")) <= 10
        /\ bb_count(pos_pieces_cpp(p, c, "QUEEN", "PAWN")) <= 9
        /\ bb_count(pos_pieces_cp(p, c, "PAWN")) <= 8
        /\ bb_count(p.byColor[c]) <= 16

\* A piece that goes elsewhere does not make them more.
LEMMA NotMore ==
    ASSUME NEW A, A \subseteq Square, NEW B,
           B \subseteq A \/ \E a \in A : \E b : B \subseteq (A \ {a}) \union {b}
    PROVE  bb_count(B) <= bb_count(A)
<1>1. IsFiniteSet(A) /\ Cardinality(A) \in Nat
  BY FiniteBoard DEF bb_count
<1>2. CASE B \subseteq A
  BY <1>1, <1>2, FS_Subset DEF bb_count
<1>3. CASE \E a \in A : \E b : B \subseteq (A \ {a}) \union {b}
  <2>0. PICK a \in A : \E b : B \subseteq (A \ {a}) \union {b}
    BY <1>3
  <2>1. PICK b : B \subseteq (A \ {a}) \union {b}
    BY <2>0
  <2>2. PICK C : C = A \ {a}
    OBVIOUS
  <2>3. IsFiniteSet(C) /\ Cardinality(C) = Cardinality(A) - 1
    BY <1>1, <2>2, FS_RemoveElement
  <2>4. IsFiniteSet(C \union {b}) /\ Cardinality(C \union {b}) <= Cardinality(C) + 1
    <3>1. /\ IsFiniteSet(C \union {b})
          /\ Cardinality(C \union {b}) = IF b \in C THEN Cardinality(C) ELSE Cardinality(C) + 1
      BY <2>3, FS_AddElement
    <3>2. Cardinality(C) \in Int
      BY <1>1, <2>3
    <3>3. QED
      BY <3>1, <3>2
  <2>5. Cardinality(B) <= Cardinality(C \union {b}) /\ Cardinality(B) \in Nat /\ Cardinality(C \union {b}) \in Nat
    <3>1. IsFiniteSet(B) /\ Cardinality(B) <= Cardinality(C \union {b})
      BY <2>1, <2>2, <2>4, FS_Subset
    <3>2. QED
      BY <2>4, <3>1, FS_CardinalityType
  <2>6. QED
    BY <1>1, <2>3, <2>4, <2>5 DEF bb_count
<1>4. QED
  BY <1>2, <1>3

\* Pieces of a kind, and pawns, after a move: those before, or one went elsewhere.
LEMMA GroupAfter ==
    ASSUME NEW p, Sound(p), NEW m, Generated(p, m), NEW q, BoardOK(q), Played(p, q, m),
           NEW c \in Color, NEW k \in Piece \ {"KING"},
           NEW A, A = pos_pieces_cpp(p, c, k, "PAWN"), NEW B, B = pos_pieces_cpp(q, c, k, "PAWN")
    PROVE  B \subseteq A \/ \E a \in A : \E b : B \subseteq (A \ {a}) \union {b}
<1>1. PICK us : us = p.turn
  OBVIOUS
<1>2. /\ us \in Color /\ BoardOK(p) /\ "PAWN" \in Piece /\ "KING" \in Piece /\ "ROOK" \in Piece
      /\ "PAWN" # "KING" /\ k # "KING" /\ k \in Piece
      /\ p.byColor \in [Color -> SUBSET Square] /\ p.byPiece \in [Piece -> SUBSET Square]
  BY <1>1 DEF Sound, BoardOK, Piece
<1>3. /\ \A s : s \in A <=> s \in p.byColor[c] /\ (s \in p.byPiece[k] \/ s \in p.byPiece["PAWN"])
      /\ \A s : s \in B <=> s \in q.byColor[c] /\ (s \in q.byPiece[k] \/ s \in q.byPiece["PAWN"])
  BY DEF pos_pieces_cpp
<1>4. \A s : s \in q.byColor[WHITE] => s \notin q.byColor[BLACK]
  BY DEF BoardOK
<1>5. \A l, n \in Piece : l # n => \A s : s \in q.byPiece[l] => s \notin q.byPiece[n]
  BY DEF BoardOK
<1>6. CASE Castles(p, m)
  <2>1. PICK kto, rto : kto = Rules!KingTo(m.from, m.to) /\ rto = Rules!RookTo(m.from, m.to)
    OBVIOUS
  <2>2. /\ \A d \in Color : q.byColor[d] = (p.byColor[d] \ {m.from, m.to})
                                  \union (IF d = us THEN {kto, rto} ELSE {})
        /\ \A l \in Piece : q.byPiece[l] = (p.byPiece[l] \ {m.from, m.to})
                                  \union (IF l = "KING" THEN {kto} ELSE {})
                                  \union (IF l = "ROOK" THEN {rto} ELSE {})
    BY <1>1, <1>6, <2>1, Zenon DEF Played, Castled
  <2>3. m.to \in p.byColor[us] /\ m.to \in p.byPiece["ROOK"]
    BY <1>1, <1>6, CastleSquares
  <2>4. kto \in q.byPiece["KING"] /\ rto \in q.byPiece["ROOK"] /\ kto \in q.byColor[us] /\ rto \in q.byColor[us]
    BY <1>2, <2>2
  <2>5. kto \notin q.byPiece[k] /\ kto \notin q.byPiece["PAWN"] /\ rto \notin q.byPiece["PAWN"]
    BY <1>2, <1>5, <2>4
  <2>6. \A s \in B : s # rto => s \in A /\ s # m.to
    <3>1. TAKE s \in B
    <3>2. HAVE s # rto
    <3>3. s # kto
      BY <1>3, <2>5
    <3>4. s \in p.byColor[c] \ {m.from, m.to}
      BY <1>3, <2>2, <3>2, <3>3
    <3>5. \A l \in Piece : s \in q.byPiece[l] => s \in p.byPiece[l]
      BY <2>2, <3>2, <3>3
    <3>6. QED
      BY <1>2, <1>3, <3>4, <3>5
  <2>7. CASE rto \notin B
    BY <2>6, <2>7
  <2>8. CASE rto \in B
    <3>1. k = "ROOK"
      BY <1>2, <1>3, <1>5, <2>4, <2>5, <2>8
    <3>2. c = us
      BY <1>2, <1>3, <1>4, <2>4, <2>8 DEF Color
    <3>3. m.to \in A
      BY <1>3, <2>3, <3>1, <3>2
    <3>4. B \subseteq (A \ {m.to}) \union {rto}
      BY <2>6
    <3>5. QED
      BY <3>3, <3>4
  <2>9. QED
    BY <2>7, <2>8
<1>7. CASE ~Castles(p, m)
  <2>1. PICK to, from, t, now : to = m.to /\ from = m.from /\ t = Taken(p, m) /\ now = Now(p, m)
    OBVIOUS
  <2>2. /\ \A d \in Color : q.byColor[d] = (p.byColor[d] \ {from, t}) \union (IF d = us THEN {to} ELSE {})
        /\ \A l \in Piece : q.byPiece[l] = (p.byPiece[l] \ {from, t}) \union (IF l = now THEN {to} ELSE {})
    BY <1>1, <1>7, <2>1, Zenon DEF Played, Replaces
  <2>3. from \in p.byColor[us] /\ from \in pos_pieces(p)
    <3>1. from \in p.byColor[us]
      BY <1>1, <1>7, <2>1 DEF Generated, PieceMove, PawnMove, EpMove, Promotion, pos_pieces_cp
    <3>2. QED
      BY <1>2, <3>1, ColoredPieces
  <2>4. now = pos_piece_on(p, from) \/ from \in p.byPiece["PAWN"]
    <3>1. m.prom # NB_PIECE => from \in p.byPiece["PAWN"]
      BY <1>1, <1>7, <2>1 DEF Generated, PieceMove, PawnMove, EpMove, Promotion, pos_pieces_cp
    <3>2. QED
      BY <2>1, <3>1 DEF Now
  <2>5. to \in q.byColor[us]
    BY <1>2, <2>2
  <2>6. \A s \in B : s # to => s \in A /\ s # from
    <3>1. TAKE s \in B
    <3>2. HAVE s # to
    <3>3. s \in p.byColor[c] \ {from, t}
      BY <1>3, <2>2, <3>2
    <3>4. \A l \in Piece : s \in q.byPiece[l] => s \in p.byPiece[l]
      BY <2>2, <3>2
    <3>5. QED
      BY <1>2, <1>3, <3>3, <3>4
  <2>7. CASE to \notin B
    BY <2>6, <2>7
  <2>8. CASE to \in B
    <3>1. c = us
      BY <1>2, <1>3, <1>4, <2>5, <2>8 DEF Color
    <3>2. pos_piece_on(p, from) \in Piece /\ from \in p.byPiece[pos_piece_on(p, from)]
      BY <1>2, <2>3, PieceOn
    <3>3. CASE from \in p.byPiece["PAWN"]
      <4>1. from \in A
        BY <1>3, <2>3, <3>1, <3>3
      <4>2. B \subseteq (A \ {from}) \union {to}
        BY <2>6
      <4>3. QED
        BY <4>1, <4>2
    <3>4. CASE now = pos_piece_on(p, from)
      <4>1. to \in q.byPiece[now] /\ now \in Piece
        BY <2>2, <3>2, <3>4
      <4>2. now = k \/ now = "PAWN"
        BY <1>2, <1>3, <1>5, <2>8, <4>1
      <4>3. from \in A
        BY <1>3, <2>3, <3>1, <3>2, <3>4, <4>2
      <4>4. B \subseteq (A \ {from}) \union {to}
        BY <2>6
      <4>5. QED
        BY <4>3, <4>4
    <3>5. QED
      BY <2>4, <3>3, <3>4
  <2>9. QED
    BY <2>7, <2>8
<1>8. QED
  BY <1>6, <1>7

\* Numbers of pieces that pos_set accepts stay acceptable.
LEMMA NumbersStay ==
    ASSUME NEW p, Sound(p), Numbers(p), NEW m, Generated(p, m), NEW q, BoardOK(q), Played(p, q, m)
    PROVE  Numbers(q)
<1> SUFFICES ASSUME NEW c \in Color
             PROVE  /\ bb_count(pos_pieces_cpp(q, c, "KNIGHT", "PAWN")) <= 10
                    /\ bb_count(pos_pieces_cpp(q, c, "BISHOP", "PAWN")) <= 10
                    /\ bb_count(pos_pieces_cpp(q, c, "ROOK", "PAWN")) <= 10
                    /\ bb_count(pos_pieces_cpp(q, c, "QUEEN", "PAWN")) <= 9
                    /\ bb_count(pos_pieces_cp(q, c, "PAWN")) <= 8
                    /\ bb_count(q.byColor[c]) <= 16
  BY DEF Numbers
<1>1. ASSUME NEW k \in Piece \ {"KING"}, NEW n \in Nat, bb_count(pos_pieces_cpp(p, c, k, "PAWN")) <= n
      PROVE  bb_count(pos_pieces_cpp(q, c, k, "PAWN")) <= n
  <2>1. PICK A, B : A = pos_pieces_cpp(p, c, k, "PAWN") /\ B = pos_pieces_cpp(q, c, k, "PAWN")
    OBVIOUS
  <2>2. A \subseteq Square /\ B \subseteq Square
    BY <2>1, ColoredPieces DEF Sound
  <2>3. bb_count(B) <= bb_count(A)
    <3>1. B \subseteq A \/ \E a \in A : \E b : B \subseteq (A \ {a}) \union {b}
      BY <2>1, GroupAfter
    <3>2. QED
      BY <2>2, <3>1, NotMore
  <2>4. bb_count(A) \in Nat /\ bb_count(B) \in Nat
    BY <2>2, FiniteBoard
  <2>5. QED
    BY <1>1, <2>1, <2>3, <2>4
<1>2. \A k \in {"KNIGHT", "BISHOP", "ROOK", "QUEEN", "PAWN"} : k \in Piece \ {"KING"}
  BY DEF Piece
<1>3. /\ bb_count(pos_pieces_cpp(p, c, "KNIGHT", "PAWN")) <= 10
      /\ bb_count(pos_pieces_cpp(p, c, "BISHOP", "PAWN")) <= 10
      /\ bb_count(pos_pieces_cpp(p, c, "ROOK", "PAWN")) <= 10
      /\ bb_count(pos_pieces_cpp(p, c, "QUEEN", "PAWN")) <= 9
      /\ bb_count(pos_pieces_cp(p, c, "PAWN")) <= 8
      /\ bb_count(p.byColor[c]) <= 16
  BY DEF Numbers
<1>4. /\ pos_pieces_cp(p, c, "PAWN") = pos_pieces_cpp(p, c, "PAWN", "PAWN")
      /\ pos_pieces_cp(q, c, "PAWN") = pos_pieces_cpp(q, c, "PAWN", "PAWN")
  BY DEF pos_pieces_cp, pos_pieces_cpp
<1>5. 10 \in Nat /\ 9 \in Nat /\ 8 \in Nat
  OBVIOUS
<1>6. bb_count(q.byColor[c]) <= 16
  <2>1. Count(q, c) <= Count(p, c)
    BY MoveSpends DEF Spent
  <2>2. Count(q, c) \in Nat /\ Count(p, c) \in Nat
    BY Counts DEF Sound
  <2>3. QED
    BY <1>3, <2>1, <2>2 DEF Count, bb_count
<1>7. QED
  BY <1>1, <1>2, <1>3, <1>4, <1>5, <1>6

\* They are so at the start, because pos_set verifies it.
LEMMA NumbersStart ==
    ASSUME NEW p, Verified(p)
    PROVE  Numbers(p)
BY DEF Verified, Numbers

\* Rooks that may castle, as they are verified.
LEMMA RooksVerified ==
    ASSUME NEW p, Ready(p), RooksApart(p), NEW c \in Color,
           NEW rooks, rooks = CastleRooks(p, c), NEW king, king = pos_pieces_cp(p, c, "KING")
    PROVE  /\ rooks \subseteq pos_pieces_cp(p, c, "ROOK") /\ rooks \subseteq Rank(7 * c)
           /\ \/ rooks = {}
              \/ bb_count(rooks) = 1 /\ king \intersect (File(0) \union File(7)) = {}
              \/ /\ bb_count(rooks) = 2
                 /\ \A a, b \in rooks : a # b => Segment[a][b] \intersect king # {}
<1>1. PICK k : k = pos_king_square(p, c)
  OBVIOUS
<1>2. \A r \in rooks : /\ k \in Square /\ rank_of(k) = 7 * c /\ r \in Square /\ rank_of(r) = 7 * c
                       /\ r # k /\ r \in p.byColor[c] /\ r \in p.byPiece["ROOK"]
  BY <1>1, RightsAt
<1>3. rooks \subseteq pos_pieces_cp(p, c, "ROOK") /\ rooks \subseteq Rank(7 * c)
  BY <1>2 DEF pos_pieces_cp, Rank
<1>4. king = {k}
  BY <1>1, KingSquare DEF Ready
<1>5. rooks # {} => file_of(k) \in 1..6 /\ \A a, b \in rooks : (a < k <=> b < k) => a = b
  BY <1>1 DEF RooksApart
<1>6. CASE \E r : rooks = {r}
  <2>1. bb_count(rooks) = 1
    BY <1>6, FS_Singleton DEF bb_count
  <2>2. k \notin File(0) /\ k \notin File(7)
    BY <1>5, <1>6 DEF File
  <2>3. QED
    BY <1>3, <1>4, <2>1, <2>2
<1>7. CASE \E x, y \in rooks : x # y
  <2>1. PICK x \in rooks, y \in rooks : x # y
    BY <1>7
  <2>2. \A a, b \in rooks : a # b => ~(a < k <=> b < k)
    BY <1>5, <2>1
  <2>3. rooks = {x, y}
    BY <2>1, <2>2
  <2>4. bb_count(rooks) = 2
    <3>1. PICK two : two = {x, y}
      OBVIOUS
    <3>2. IsFiniteSet({x}) /\ Cardinality({x}) = 1
      BY FS_Singleton
    <3>3. Cardinality({x} \union {y}) = 2
      BY <2>1, <3>2, FS_AddElement
    <3>4. {x} \union {y} = two
      BY <3>1
    <3>5. QED
      BY <2>3, <3>1, <3>3, <3>4, Zenon DEF bb_count
  <2>5. ASSUME NEW a \in rooks, NEW b \in rooks, a # b PROVE Segment[a][b] \intersect king # {}
    <3>1. a \in Int /\ b \in Int /\ k \in Int
      BY <1>2, RankAndFile
    <3>2. a # k /\ b # k /\ ~(a < k <=> b < k)
      BY <1>2, <2>2, <2>5
    <3>3. (a <= k /\ k <= b) \/ (b <= k /\ k <= a)
      BY <3>1, <3>2
    <3>4. k \in Segment[a][b]
      BY <1>2, <3>3, RanksWay
    <3>5. QED
      BY <1>4, <3>4
  <2>6. QED
    BY <1>3, <2>4, <2>5
<1>8. rooks = {} \/ (\E r : rooks = {r}) \/ \E x, y \in rooks : x # y
  <2>1. ASSUME NEW r \in rooks, \A x, y \in rooks : x = y PROVE rooks = {r}
    BY <2>1
  <2>2. QED
    BY <2>1
<1>9. QED
  BY <1>3, <1>6, <1>7, <1>8

\* The en passant square, as it is verified.
LEMMA EpVerified ==
    ASSUME NEW p, Ready(p), p.epSquare # NB_SQUARE
    PROVE  LET r == rank_of(p.epSquare)
               color == IF r = 2 THEN WHITE ELSE BLACK
           IN  /\ r \in {2, 5} /\ color # p.turn
               /\ p.epSquare \notin pos_pieces(p)
               /\ p.epSquare + push_inc(color) \in pos_pieces_cp(p, color, "PAWN")
               /\ p.epSquare - push_inc(color) \notin pos_pieces(p)
<1>1. PICK ep, us : ep = p.epSquare /\ us = p.turn
  OBVIOUS
<1>2. /\ ep \in Rank(relative_rank(us, 5)) \ pos_pieces(p)
      /\ ep - push_inc(us) \in pos_pieces_cp(p, opposite(us), "PAWN")
      /\ ep + push_inc(us) \notin pos_pieces(p) /\ us \in Color /\ ep \in Square
  BY <1>1 DEF Ready, Sound, EpSound, BoardOK, Rank
<1>3. ep \in Int
  BY <1>2, RankAndFile
<1>4. PICK r : r = rank_of(ep)
  OBVIOUS
<1>5. r = relative_rank(us, 5)
  BY <1>2, <1>4 DEF Rank
<1>6. PICK color : color = IF r = 2 THEN WHITE ELSE BLACK
  OBVIOUS
<1>7. r \in {2, 5} /\ color = opposite(us) /\ color # us
  BY <1>2, <1>5, <1>6 DEF relative_rank, Color, WHITE, BLACK, opposite
<1>8. ep + push_inc(color) = ep - push_inc(us) /\ ep - push_inc(color) = ep + push_inc(us)
  BY <1>2, <1>3, <1>7 DEF push_inc, opposite, Color, WHITE, BLACK
<1>9. QED
  BY <1>1, <1>2, <1>4, <1>6, <1>7, <1>8, Zenon

\* All that pos_set verifies.
LEMMA WhatIsVerified ==
    ASSUME NEW p, Ready(p), RooksApart(p), Numbers(p)
    PROVE  Verified(p)
<1>1. \A c \in Color : bb_count(pos_pieces_cp(p, c, "KING")) = 1
  <2>1. TAKE c \in Color
  <2>2. pos_pieces_cp(p, c, "KING") = {pos_king_square(p, c)}
    BY KingSquare DEF Ready
  <2>3. QED
    BY <2>2, FS_Singleton DEF bb_count
<1>2. p.byPiece["PAWN"] \intersect (Rank(0) \union Rank(7)) = {} /\ p.castleRooks \subseteq pos_pieces(p)
  BY DEF Ready, Sound, PawnsSound, RightsSound
<1>3. ASSUME NEW c \in Color
      PROVE  LET rooks == CastleRooks(p, c)
                 king == pos_pieces_cp(p, c, "KING")
             IN  /\ rooks \subseteq pos_pieces_cp(p, c, "ROOK")
                 /\ rooks \subseteq Rank(7 * c)
                 /\ \/ rooks = {}
                    \/ bb_count(rooks) = 1 /\ king \intersect (File(0) \union File(7)) = {}
                    \/ /\ bb_count(rooks) = 2
                       /\ \A a, b \in rooks : a # b => Segment[a][b] \intersect king # {}
  <2>1. PICK rooks, king : rooks = CastleRooks(p, c) /\ king = pos_pieces_cp(p, c, "KING")
    OBVIOUS
  <2>2. /\ rooks \subseteq pos_pieces_cp(p, c, "ROOK") /\ rooks \subseteq Rank(7 * c)
        /\ \/ rooks = {}
           \/ bb_count(rooks) = 1 /\ king \intersect (File(0) \union File(7)) = {}
           \/ /\ bb_count(rooks) = 2
              /\ \A a, b \in rooks : a # b => Segment[a][b] \intersect king # {}
    BY ONLY <2>1, Ready(p), RooksApart(p), c \in Color, RooksVerified
  <2>3. QED
    BY <2>1, <2>2, Zenon
<1>4. QED
  BY <1>1, <1>2, <1>3, EpVerified, Zenon DEF Numbers, Verified

\* Chess960 or not, what is verified is the same.
LEMMA SameVerified ==
    ASSUME NEW p, Verified(p), NEW q, SameFields(p, q)
    PROVE  Verified(q)
<1>1. /\ q.byColor = p.byColor /\ q.byPiece = p.byPiece /\ q.castleRooks = p.castleRooks
      /\ q.turn = p.turn /\ q.epSquare = p.epSquare
  BY DEF SameFields
<1>2. /\ \A c, k : pos_pieces_cp(q, c, k) = pos_pieces_cp(p, c, k)
      /\ \A c, k, l : pos_pieces_cpp(q, c, k, l) = pos_pieces_cpp(p, c, k, l)
      /\ \A c : CastleRooks(q, c) = CastleRooks(p, c) /\ pos_pieces(q) = pos_pieces(p)
  BY <1>1 DEF pos_pieces_cp, pos_pieces_cpp, CastleRooks, pos_pieces
<1>3. QED
  BY <1>1, <1>2 DEF Verified

-----------------------------------------------------------------------------
(* What is true of every position of a game, so that it can be written.    *)

\* Its rooks and its pieces are as pos_set verifies, and its numbers fit.
Readable(p) ==
    /\ RooksApart(p) /\ Numbers(p)
    /\ p.chess960 \in BOOLEAN /\ p.fullMove \in 0..(2^16 - 1)

AllReadable(vec) == \A k \in 1..Len(vec) : Readable(vec[k])

\* pos_set has verified the opening.
LEMMA StartReadable ==
    ASSUME NEW x \in Starts, NEW p, p = pos_set(x.fen, FALSE)
    PROVE  Readable(p)
<1>0. PICK fen, force : fen = x.fen /\ force = FALSE
  OBVIOUS
<1>1. Accepted(fen) /\ IsFen(fen) /\ p = pos_set(fen, force)
  <2>1. Accepted(x.fen) /\ IsFen(x.fen)
    BY ChessAssumption
  <2>2. QED
    BY <1>0, <2>1, Zenon
<1>2. Verified(p) /\ fen.fullMove \in 1..(2^16 - 1)
  <2>1. Verified(pos_set(fen, FALSE)) /\ fen.fullMove \in 1..(2^16 - 1)
    BY <1>1, Zenon DEF Accepted
  <2>2. QED
    BY <1>0, <1>1, <2>1, Zenon
<1>3. p.fullMove = fen.fullMove /\ p.chess960 = (force \/ Detected960(fen.pieces, p.castleRooks))
  <2>1. p = pos_set(fen, force)
    BY <1>1, Zenon
  <2>2. /\ IsPosition(p) /\ Derived(p)
        /\ p.byColor = [c \in Color |-> {y[3] : y \in {z \in fen.pieces : z[1] = c}}]
        /\ p.byPiece = [k \in Piece |-> {y[3] : y \in {z \in fen.pieces : z[2] = k}}]
        /\ p.castleRooks = {CastleRook(fen.pieces, y[1], y[2]) : y \in Range(fen.castling)}
        /\ p.key = UNION ({ZobristKey(y[1], y[2], y[3]) : y \in fen.pieces}
                          \union {zobrist_castling(p.castleRooks),
                                  ZobristEnPassant(fen.epSquare),
                                  IF fen.turn = BLACK THEN ZobristTurn ELSE {}})
        /\ p.turn = fen.turn /\ p.epSquare = fen.epSquare
        /\ p.rule50 = fen.rule50 /\ p.fullMove = fen.fullMove
        /\ p.chess960 = (force \/ Detected960(fen.pieces, p.castleRooks))
    BY <2>1, SetFields, Zenon
  <2>3. QED
    BY <2>2, Zenon
<1>4. p.fullMove \in 0..(2^16 - 1)
  <2>1. PICK top : top = 2^16 - 1
    OBVIOUS
  <2>2. fen.fullMove \in 1..top => fen.fullMove \in 0..top
    OBVIOUS
  <2>3. QED
    BY <1>2, <1>3, <2>1, <2>2, Zenon
<1>5. p.chess960 \in BOOLEAN
  BY ONLY <1>3
<1>6. RooksApart(p) /\ Numbers(p)
  BY <1>2, StartApart, NumbersStart, Zenon
<1>7. QED
  BY <1>4, <1>5, <1>6, Zenon DEF Readable

\* A position that can be written can be after a move.
LEMMA StaysReadable ==
    ASSUME NEW p, Ready(p), Readable(p), NEW m, Generated(p, m), NEW q, Ready(q), Played(p, q, m)
    PROVE  Readable(q)
<1>1. RooksApart(q)
  BY StaysApart DEF Readable
<1>2. Numbers(q)
  BY NumbersStay DEF Readable, Ready, Sound
<1>3. q.chess960 \in BOOLEAN
  BY DEF Played, Readable
<1>4. q.fullMove \in 0..(2^16 - 1)
  <2>1. PICK n \in Nat, t \in Nat : n = p.fullMove /\ t = p.turn
    BY DEF Readable, Ready, Sound, BoardOK, Color, WHITE, BLACK
  <2>2. q.fullMove = (n + t) % 2^16
    BY <2>1 DEF Played
  <2>3. PICK w : w = 2^16 /\ w \in Nat \ {0}
    OBVIOUS
  <2>4. (n + t) % w \in 0..(w - 1)
    BY <2>3
  <2>5. QED
    BY <2>2, <2>3, <2>4, Zenon
<1>5. QED
  BY <1>1, <1>2, <1>3, <1>4, Zenon DEF Readable

\* The opening can be written.
LEMMA ReadableStarts == Init /\ History => AllReadable(vecPos)
<1> SUFFICES ASSUME Init, History PROVE AllReadable(vecPos)
  OBVIOUS
<1>1. Len(vecPos) = 1
  BY DEF Init
<1>2. Readable(vecPos[1])
  BY StartReadable DEF History
<1>3. \A k \in 1..Len(vecPos) : k = 1
  BY <1>1
<1>4. QED
  BY <1>2, <1>3 DEF AllReadable

\* So can every position of the game.
LEMMA ReadableGoesOn ==
    ASSUME NEW vec, NEW moves, NEW v, NEW w, Extended(vec, moves, v, w), AllReadable(vec)
    PROVE  AllReadable(v)
<1>1. PICK n \in Nat : Len(vec) = n /\ Len(moves) + 1 = n /\ Len(v) = n + 1 /\ Len(w) = n
  BY Lengths DEF Extended, WellFormed
<1>2. Len(moves) \in Nat
  BY Lengths DEF Extended, WellFormed
<1>3. n \in 1..Len(v) /\ n + 1 \in 1..Len(v) /\ n \in 1..Len(w) /\ n \in 1..Len(vec)
  BY <1>1, <1>2
<1>4. /\ Ready(v[n]) /\ Ready(v[n + 1]) /\ Generated(v[n], w[n]) /\ Played(v[n], v[n + 1], w[n])
      /\ Readable(v[n])
  BY <1>1, <1>3 DEF Extended, WellFormed, AllReadable
<1>5. Readable(v[n + 1])
  BY <1>4, StaysReadable
<1>6. \A k \in 1..Len(v) : k \in 1..Len(vec) \/ k = n + 1
  BY <1>1
<1>7. QED
  BY <1>5, <1>6 DEF Extended, AllReadable

\* AllReadable is inductive.
LEMMA ReadableStays == History /\ AllReadable(vecPos) /\ [Play]_vars => AllReadable(vecPos)'
<1> SUFFICES ASSUME History, AllReadable(vecPos), [Play]_vars PROVE AllReadable(vecPos')
  OBVIOUS
<1>1. CASE Play
  BY <1>1, PlayExtends, ReadableGoesOn
<1>2. CASE UNCHANGED vars
  BY <1>2 DEF vars
<1>3. QED
  BY <1>1, <1>2

\* The last position of the history.
LEMMA LastIsReady ==
    History => /\ Len(vecPos) \in 1..Len(vecPos) /\ pos = vecPos[Len(vecPos)]
               /\ Ready(pos) /\ Cells(pos) /\ Keyed(pos) /\ pos.rule50 \in 0..100
<1>1. HAVE History
<1>2. Len(vecPos) \in 1..Len(vecPos) /\ pos = vecPos[Len(vecPos)]
  BY <1>1, Lengths DEF History, WellFormed, pos, Last
<1>3. QED
  BY <1>1, <1>2 DEF History, WellFormed

\* Engines and the program mean the same moves: what is written for a move is read
\* as that move, and nothing else is but castling as the king that takes its rook
\* (position.c:540-580).
THEOREM MovesRead == Spec => []MovesReadBack
<1>1. History /\ AllReadable(vecPos) => MovesReadBack
  <2>1. HAVE History /\ AllReadable(vecPos)
  <2>2. PICK p : p = pos
    OBVIOUS
  <2>3. Ready(p) /\ RooksApart(p)
    BY <2>1, <2>2, LastIsReady DEF AllReadable, Readable
  <2>4. \A m \in gen_all_moves(p) : pos_lan_to_move(p, pos_move_to_lan(p, m)) = m
    BY <2>3, TextsAreRead
  <2>5. ASSUME NEW x \in Answers, NEW m, m = pos_lan_to_move(p, x), m \in gen_all_moves(p), x # m
        PROVE  pos_move_is_castling(p, m) /\ x = pos_move_to_lan(p, m)
    <3>1. PICK n \in gen_all_moves(p), s \in Square : x = [from |-> n.from, to |-> s, prom |-> n.prom]
      BY <2>2, <2>5 DEF Answers
    <3>2. n.from \in p.byColor[p.turn]
      BY <2>3, MoveKinds
    <3>3. QED
      BY <2>3, <2>5, <3>1, <3>2, OnlyCastlingDiffers
  <2>6. QED
    BY <2>2, <2>4, <2>5, Zenon DEF MovesReadBack
<1>2. QED
  BY <1>1, HistoryStarts, HistoryGoesOn, ReadableStarts, ReadableStays, PTL DEF Spec

-----------------------------------------------------------------------------
(* What leaves the program is what would be let in.                        *)

\* The position that the position command begins with: the opening, or the one
\* that the last capture, pawn move or castling has reached.
LEMMA FirstKept ==
    ASSUME History, Ageing(vecPos), NEW k, k = FirstPly(vecPos) + 1
    PROVE  k \in 1..Len(vecPos) /\ vecPos[k].rule50 \in 0..99
<1>1. PICK n \in Nat, r \in 0..100 : n = Len(vecPos) /\ r = vecPos[n].rule50 /\ n \in 1..n
  BY LastIsReady, Lengths DEF History, WellFormed
<1>2. Last(vecPos) = vecPos[n]
  BY <1>1 DEF Last
<1>3. k = (IF r > n - 1 THEN 0 ELSE n - 1 - r) + 1
  BY <1>1, <1>2 DEF FirstPly
<1>4. CASE r > n - 1
  <2>1. k = 1 /\ 1 \in 1..n
    BY <1>1, <1>3, <1>4
  <2>2. vecPos[1].rule50 \in 0..99
    BY StartSound DEF History
  <2>3. QED
    BY <1>1, <2>1, <2>2
<1>5. CASE ~(r > n - 1)
  <2>1. k \in 1..n /\ n - k = r /\ k <= n
    <3>1. k = n - 1 - r + 1
      BY <1>3, <1>5
    <3>2. ~(r > n - 1) => n - 1 - r + 1 \in 1..n /\ n - (n - 1 - r + 1) = r /\ n - 1 - r + 1 <= n
      OBVIOUS
    <3>3. QED
      BY <1>5, <3>1, <3>2, Zenon
  <2>2. Aged(vecPos[k], vecPos[n], r)
    BY <1>1, <2>1 DEF Ageing
  <2>3. vecPos[k].rule50 \in 0..100
    BY <1>1, <2>1 DEF History, WellFormed
  <2>4. PICK i \in 0..100 : i = vecPos[k].rule50
    BY <2>3
  <2>5. r = i + r \/ r < r
    BY <1>1, <2>2, <2>4 DEF Aged
  <2>6. i = 0
    BY <2>5
  <2>7. QED
    BY <1>1, <2>1, <2>4, <2>6
<1>6. QED
  BY <1>4, <1>5

\* The FEN of a position that pos_set would verify is accepted.
LEMMA FenAccepted ==
    ASSUME NEW p, Ready(p), Cells(p), Keyed(p), Readable(p), p.rule50 \in 0..99,
           NEW fen, fen = pos_get(p), fen.fullMove # 0
    PROVE  Accepted(fen)
<1>1. /\ fen.castling = CastlingField(p) /\ fen.rule50 = p.rule50 /\ fen.fullMove = p.fullMove
  BY DEF pos_get
<1>2. Len(fen.castling) <= 4 /\ NamesOnce(fen.pieces, fen.castling)
  <2>1. PICK s : s = CastlingField(p)
    OBVIOUS
  <2>2. Len(s) <= 4 /\ NamesOnce(Placement(p), s)
    <3>1. Places(p, Placement(p))
      BY PlacesPlaced DEF Ready, Sound, BoardOK, Cells
    <3>2. PICK P : P = Placement(p)
      OBVIOUS
    <3>3. QED
      BY <2>1, <3>1, <3>2, FieldNamesRooks, Zenon DEF Readable
  <2>3. fen.pieces = Placement(p)
    BY DEF pos_get
  <2>4. QED
    BY <1>1, <2>1, <2>2, <2>3, Zenon
<1>3. fen.fullMove \in 1..(2^16 - 1)
  <2>1. PICK top : top = 2^16 - 1
    OBVIOUS
  <2>2. fen.fullMove \in 0..top
    BY <1>1, <2>1, Zenon DEF Readable
  <2>3. fen.fullMove \in 1..top
    BY <2>2
  <2>4. QED
    BY <2>1, <2>3, Zenon
<1>4. Verified(pos_set(fen, FALSE))
  <2>1. PICK q, force : q = pos_set(fen, force) /\ force = FALSE
    OBVIOUS
  <2>2. q = pos_set(pos_get(p), force)
    BY <2>1, Zenon
  <2>3. SameFields(p, q)
    BY <2>2, FenReadBack, Zenon DEF Readable
  <2>4. Verified(p)
    BY WhatIsVerified, Zenon DEF Readable
  <2>5. Verified(q)
    BY <2>3, <2>4, SameVerified, Zenon
  <2>6. QED
    BY <2>1, <2>5, Zenon
<1>5. fen.rule50 \in 0..99
  BY <1>1
<1>6. QED
  BY <1>2, <1>3, <1>4, <1>5, Zenon DEF Accepted

\* What is written for a position, and for the first of the position command, is
\* read as these positions.
LEMMA AllReadBack ==
    ASSUME History, Ageing(vecPos), AllReadable(vecPos)
    PROVE  PositionsReadBack
<1>1. PICK k : k = FirstPly(vecPos) + 1
  OBVIOUS
<1>2. k \in 1..Len(vecPos) /\ vecPos[k].rule50 \in 0..99
  BY <1>1, FirstKept, Zenon
<1>3. PICK p, fen : p = vecPos[k] /\ fen = pos_get(p)
  OBVIOUS
<1>4. fen = uci_position_command(vecPos, lastMoves).fen
  BY <1>1, <1>3 DEF uci_position_command
<1>5. /\ Ready(p) /\ Cells(p) /\ Keyed(p) /\ Readable(p) /\ p.rule50 \in 0..99
  BY <1>2, <1>3, Zenon DEF History, WellFormed, AllReadable
<1>6. fen.fullMove # 0 => Accepted(fen)
  BY <1>3, <1>5, FenAccepted, Zenon
<1>7. PICK l : l = pos
  OBVIOUS
<1>8. Ready(l) /\ Cells(l) /\ Keyed(l) /\ Readable(l) /\ l.rule50 \in 0..100
  BY <1>7, LastIsReady, Zenon DEF AllReadable
<1>9. PICK read : read = pos_set(pos_get(l), FALSE)
  OBVIOUS
<1>10. read = [l EXCEPT !.chess960 = read.chess960] /\ (read.chess960 => l.chess960)
  BY <1>8, <1>9, ReadAs960, Zenon DEF Readable
<1>11. Unpacked(pos_pack(l)) =
         [pieces |-> Placement(l), rooks |-> l.castleRooks,
          epSquares |-> {l.epSquare} \ {NB_SQUARE},
          turn |-> l.turn, rule50 |-> l.rule50]
  BY <1>8, SampleSaysAll, Zenon
<1>12. QED
  BY <1>4, <1>6, <1>7, <1>9, <1>10, <1>11, Zenon DEF PositionsReadBack

\* What the program writes is accepted where it is read, and says all of the
\* position, as FEN (position.c:333-394) and as binary sample (position.c:702-726).
THEOREM PositionsRead == Spec => []PositionsReadBack
<1>1. History /\ Ageing(vecPos) /\ AllReadable(vecPos) => PositionsReadBack
  BY AllReadBack
<1>2. QED
  BY <1>1, HistoryStarts, HistoryGoesOn, AgeingStarts, AgeingStays, ReadableStarts, ReadableStays,
     PTL DEF Spec

-----------------------------------------------------------------------------
(* Two pieces give check at most.                                          *)

\* A set that has no three elements.
LEMMA NotThree ==
    ASSUME NEW S, S \subseteq Square, \A a, b, c \in S : a = b \/ b = c \/ a = c
    PROVE  bb_count(S) <= 2
<1>1. CASE S = {}
  <2>1. Cardinality({}) = 0
    BY FS_EmptySet
  <2>2. QED
    BY <1>1, <2>1 DEF bb_count
<1>2. CASE \E a \in S : S = {a}
  <2>1. Cardinality(S) = 1
    BY <1>2, FS_Singleton
  <2>2. QED
    BY <2>1 DEF bb_count
<1>3. CASE \E a, b \in S : a # b
  <2>1. PICK a \in S, b \in S : a # b
    BY <1>3
  <2>2. S = {a, b}
    BY <2>1
  <2>3. \A x, y : x # y => bb_count({x, y}) = 2
    BY TwoOfThem
  <2>4. bb_count(S) = 2
    BY <2>1, <2>2, <2>3, Zenon
  <2>5. QED
    BY <2>4
<1>4. S = {} \/ (\E a \in S : S = {a}) \/ (\E a, b \in S : a # b)
  <2>1. ASSUME NEW a \in S, \A x, y \in S : x = y PROVE S = {a}
    BY <2>1
  <2>2. QED
    BY <2>1
<1>5. QED
  BY <1>1, <1>2, <1>3, <1>4

\* Sliders that attack a square past the same square are one.
LEMMA OnePast ==
    ASSUME NEW p, BoardOK(p), NEW c \in Color, NEW k \in Square,
           NEW u, SliderAt(p, c, k, u), Between(k, u) \intersect pos_pieces(p) = {},
           NEW v, SliderAt(p, c, k, v), Between(k, v) \intersect pos_pieces(p) = {},
           NEW x \in Between(k, u), x \in Between(k, v)
    PROVE  u = v
<1>1. /\ Aligned(KingDir, k, u) /\ Aligned(KingDir, k, v)
      /\ u \in pos_pieces(p) /\ v \in pos_pieces(p)
  <2>1. SliderAt(p, c, k, u) => Aligned(KingDir, k, u) /\ u \in p.byColor[c]
    BY HitsOrSlides
  <2>2. SliderAt(p, c, k, v) => Aligned(KingDir, k, v) /\ v \in p.byColor[c]
    BY HitsOrSlides
  <2>3. p.byColor[c] \subseteq pos_pieces(p)
    BY ColoredPieces
  <2>4. QED
    BY <2>1, <2>2, <2>3
<1>2. QED
  BY <1>1, OneBehind

\* A piece that stands where it stood gives check now because a square between has
\* become free.
LEMMA Uncovered ==
    ASSUME NEW p, BoardOK(p), NEW q, BoardOK(q), NEW c \in Color, NEW k \in Square,
           NEW u, Hits(q, c, u, k, pos_pieces(q)), ~Hits(p, c, u, k, pos_pieces(p)),
           \A l \in Piece : u \in pos_pieces_cp(q, c, l) => u \in pos_pieces_cp(p, c, l)
    PROVE  /\ SliderAt(q, c, k, u) /\ Between(k, u) \intersect pos_pieces(q) = {}
           /\ \E x \in Between(k, u) : x \in pos_pieces(p) \ pos_pieces(q)
<1>1. \A l, n \in Piece : u \in pos_pieces_cpp(q, c, l, n) => u \in pos_pieces_cpp(p, c, l, n)
  BY DEF pos_pieces_cp, pos_pieces_cpp
<1>2. SliderAt(q, c, k, u) => SliderAt(p, c, k, u)
  BY <1>1 DEF SliderAt, Piece
<1>3. Hits(q, c, u, k, pos_pieces(q)) <=>
               \/ u \in pos_pieces_cp(q, c, "KING") /\ u \in KingAttacks[k]
               \/ u \in pos_pieces_cp(q, c, "KNIGHT") /\ u \in KnightAttacks[k]
               \/ u \in pos_pieces_cp(q, c, "PAWN") /\ u \in PawnAttacks[opposite(c)][k]
               \/ SliderAt(q, c, k, u) /\ Between(k, u) \intersect pos_pieces(q) = {}
  BY HitsOrSlides, Zenon
<1>4. Hits(p, c, u, k, pos_pieces(p)) <=>
               \/ u \in pos_pieces_cp(p, c, "KING") /\ u \in KingAttacks[k]
               \/ u \in pos_pieces_cp(p, c, "KNIGHT") /\ u \in KnightAttacks[k]
               \/ u \in pos_pieces_cp(p, c, "PAWN") /\ u \in PawnAttacks[opposite(c)][k]
               \/ SliderAt(p, c, k, u) /\ Between(k, u) \intersect pos_pieces(p) = {}
  BY HitsOrSlides, Zenon
<1>5. "KING" \in Piece /\ "KNIGHT" \in Piece /\ "PAWN" \in Piece
  BY DEF Piece
<1>6. SliderAt(q, c, k, u) /\ Between(k, u) \intersect pos_pieces(q) = {}
  BY <1>3, <1>4, <1>5
<1>7. Between(k, u) \intersect pos_pieces(p) # {}
  BY <1>2, <1>4, <1>6
<1>8. QED
  BY <1>6, <1>7

\* On a line, the squares before the last one.
LEMMA BeforeLast ==
    ASSUME NEW k \in Square, NEW u, Aligned(KingDir, k, u), NEW x \in Between(k, u)
    PROVE  /\ x \in Square /\ Aligned(KingDir, k, x) /\ Aligned(KingDir, x, k)
           /\ rank_of(x) = rank_of(k) => rank_of(u) = rank_of(k)
           /\ rank_of(x) # rank_of(k) => rank_of(x) \in 1..6
<1>1. PICK d \in KingDir, l \in 1..7 : Reached(k, u, d, l)
  BY DEF Aligned
<1>2. PICK j \in 1..(l - 1) : x = Step(k, d, j)
  BY <1>1, SegmentOf DEF Between
<1>3. j \in 0..l /\ l \in 0..7 /\ j \in 1..7
  OBVIOUS
<1>4. Reached(k, x, d, j) /\ x \in Square
  BY <1>1, <1>2, <1>3, Convex
<1>5. Aligned(KingDir, k, x) /\ Aligned(KingDir, x, k)
  <2>1. Aligned(KingDir, k, x)
    BY <1>3, <1>4 DEF Aligned
  <2>2. QED
    BY <2>1, LookedAtBack
<1>6. /\ rank_of(x) = rank_of(k) + j * d[1] /\ rank_of(u) = rank_of(k) + l * d[1]
      /\ u \in Square
  BY <1>1, <1>3, <1>4, Coordinates
<1>7. PICK a \in {-1, 0, 1} : a = d[1]
  BY EightDirections
<1>8. PICK r \in 0..7, v \in 0..7 : r = rank_of(k) /\ v = rank_of(u)
  BY <1>6, RankAndFile
<1>9. rank_of(x) = r + j * a /\ v = r + l * a
  BY <1>6, <1>7, <1>8
<1>10. /\ a = 0 => r + j * a = r /\ r + l * a = r
       /\ a # 0 /\ v = r + l * a => r + j * a \in 1..6 /\ r + j * a # r
  <2>1. CASE a = 0
    BY <2>1
  <2>2. CASE a = 1
    BY <2>2
  <2>3. CASE a = -1
    BY <2>3
  <2>4. QED
    BY <2>1, <2>2, <2>3
<1>11. QED
  BY <1>4, <1>5, <1>8, <1>9, <1>10

\* The checkers after a move attack the king that stands where it stood, and the
\* pieces of the side that has moved did not attack it before.
LEMMA NewChecks ==
    ASSUME NEW p, Ready(p), NEW m \in gen_all_moves(p), NEW q, Ready(q), Played(p, q, m),
           NEW us, us = p.turn, NEW ek, ek = King(q)
    PROVE  /\ us \in Color /\ ek \in Square /\ BoardOK(p) /\ BoardOK(q) /\ Generated(p, m)
           /\ \A u : u \in q.checkers <=> Hits(q, us, u, ek, pos_pieces(q))
           /\ \A u : ~Hits(p, us, u, ek, pos_pieces(p))
           /\ \A u : ~(u \in pos_pieces_cp(q, us, "KING") /\ u \in KingAttacks[ek])
<1>1. PICK them : them = opposite(us)
  OBVIOUS
<1>2. us \in Color /\ them \in Color /\ opposite(them) = us /\ BoardOK(p) /\ Sound(p) /\ HasKing(p, us)
  BY <1>1, Sides DEF Ready
<1>3. BoardOK(q) /\ q.turn = them
  BY <1>1 DEF Ready, Sound, Played
<1>4. ek = pos_king_square(q, them) /\ ek \in Square
      /\ \A u : ~(u \in pos_pieces_cp(q, us, "KING") /\ u \in KingAttacks[ek])
  BY <1>2, <1>3, Sides
<1>5. ek = pos_king_square(p, them)
  BY <1>1, <1>3, <1>4, KingNotTaken
<1>6. \A u : ~Hits(p, us, u, ek, pos_pieces(p))
  BY <1>1, <1>2, <1>5 DEF Ready, Unhit
<1>7. \A u : u \in q.checkers <=> Hits(q, us, u, ek, pos_pieces(q))
  BY <1>2, <1>3, WhatIsDerived
<1>8. Generated(p, m)
  BY <1>2, AllMoves
<1>9. QED
  BY <1>2, <1>3, <1>4, <1>6, <1>7, <1>8

\* A move that is no castling: the piece that has moved gives check, and sliders
\* through the squares that have become free.
LEMMA ChecksAfter ==
    ASSUME NEW p, Ready(p), NEW m \in gen_all_moves(p), NEW q, Ready(q), Played(p, q, m),
           ~Castles(p, m), NEW us, us = p.turn, NEW ek, ek = King(q), NEW u \in q.checkers, u # m.to
    PROVE  /\ SliderAt(q, us, ek, u) /\ Between(ek, u) \intersect pos_pieces(q) = {}
           /\ m.from \in Between(ek, u) \/ (Taken(p, m) \in Between(ek, u) /\ EpMove(p, m))
<1>1. /\ us \in Color /\ ek \in Square /\ BoardOK(p) /\ BoardOK(q) /\ Generated(p, m)
      /\ Hits(q, us, u, ek, pos_pieces(q)) /\ ~Hits(p, us, u, ek, pos_pieces(p))
  BY NewChecks
<1>2. PICK from, to, t : from = m.from /\ to = m.to /\ t = Taken(p, m)
  OBVIOUS
<1>3. /\ \A d \in Color : q.byColor[d] = (p.byColor[d] \ {from, t}) \union (IF d = us THEN {to} ELSE {})
      /\ \A l \in Piece : q.byPiece[l] = (p.byPiece[l] \ {from, t})
                                           \union (IF l = Now(p, m) THEN {to} ELSE {})
  BY <1>2, Zenon DEF Played, Replaces
<1>4. \A l \in Piece : u \in pos_pieces_cp(q, us, l) => u \in pos_pieces_cp(p, us, l)
  BY <1>1, <1>2, <1>3 DEF pos_pieces_cp
<1>5. PICK x \in Between(ek, u) : x \in pos_pieces(p) \ pos_pieces(q)
  BY <1>1, <1>4, Uncovered
<1>6. x = from \/ (x = t /\ t # to)
  <2>1. PICK d \in Color : x \in p.byColor[d]
    BY <1>5 DEF pos_pieces, Color
  <2>2. x \notin q.byColor[d] /\ x \notin q.byColor[us]
    BY <1>1, <1>5, <2>1 DEF pos_pieces, Color
  <2>3. QED
    BY <1>1, <1>3, <2>1, <2>2
<1>7. t # to => EpMove(p, m)
  <2>1. HAVE t # to
  <2>2. m.to = p.epSquare /\ m.from \in p.byPiece["PAWN"]
    BY <1>2, <2>1 DEF Taken
  <2>3. ~PieceMove(p, m) /\ ~PawnMove(p, m)
    BY <2>2 DEF PieceMove, PawnMove
  <2>4. ~Promotion(p, m)
    <3>1. SUFFICES ASSUME Promotion(p, m) PROVE FALSE
      OBVIOUS
    <3>2. PICK o \in Square, s \in Square : o = m.to /\ s = m.from
      BY <3>1 DEF Promotion, Rank
    <3>3. o = p.epSquare /\ rank_of(s) = relative_rank(us, 6) /\ PawnStep(p, s, o)
      BY <2>2, <3>1, <3>2 DEF Promotion, Rank
    <3>4. p.epSquare # NB_SQUARE
      BY <3>2, <3>3 DEF Square, NB_SQUARE
    <3>5. rank_of(o) = relative_rank(us, 5)
      BY <3>3, <3>4 DEF Ready, Sound, EpSound, Rank
    <3>6. PICK r \in 0..7, f \in 0..7 : r = rank_of(s) /\ f = file_of(s) /\ s = 8 * r + f
      BY <3>2, RankAndFile
    <3>7. PICK i \in 0..7, j \in 0..7 : i = rank_of(o) /\ j = file_of(o) /\ o = 8 * i + j
      BY <3>2, RankAndFile
    <3>8. PICK up \in {8, -8} : up = push_inc(us) /\ (us = WHITE => up = 8) /\ (us # WHITE => up = -8)
      BY DEF push_inc
    <3>9. (f # 0 /\ o = s + up - 1) \/ (f # 7 /\ o = s + up + 1) \/ o = s + up
      BY <3>2, <3>3, <3>6, <3>8 DEF PawnStep, File
    <3>10. (us = WHITE => r = 6 /\ i = 5) /\ (us # WHITE => r = 1 /\ i = 2)
      BY <3>3, <3>5, <3>6, <3>7 DEF relative_rank
    <3>11. QED
      BY <3>6, <3>7, <3>8, <3>9, <3>10
  <2>5. QED
    BY <1>1, <2>3, <2>4 DEF Generated
<1>8. QED
  BY <1>1, <1>2, <1>4, <1>5, <1>6, <1>7, Uncovered

\* A pawn that captures en passant and gives check leaves no line to the king where
\* the captured pawn stood.
LEMMA PawnOrLine ==
    ASSUME NEW p, Ready(p), NEW m \in gen_all_moves(p), NEW q, Ready(q), Played(p, q, m),
           EpMove(p, m), NEW ek, ek = King(q), m.to \in q.checkers,
           NEW u, Aligned(KingDir, ek, u)
    PROVE  Taken(p, m) \notin Between(ek, u)
<1>1. PICK us, to, t : us = p.turn /\ to = m.to /\ t = Taken(p, m)
  OBVIOUS
<1>2. /\ us \in Color /\ ek \in Square /\ BoardOK(p) /\ BoardOK(q)
      /\ Hits(q, us, to, ek, pos_pieces(q))
  BY <1>1, NewChecks
<1>3. t = to - push_inc(us) /\ to \in Square /\ t \in Square /\ m.prom = NB_PIECE /\ ~Castles(p, m)
  <2>1. m.to = p.epSquare /\ m.from \in p.byPiece["PAWN"] /\ p.epSquare # NB_SQUARE /\ m.prom = NB_PIECE
    BY DEF EpMove, pos_pieces_cp
  <2>2. p.epSquare \in Square /\ p.epSquare - push_inc(us) \in p.byColor[opposite(us)]
    BY <1>1, <2>1 DEF Ready, Sound, EpSound, pos_pieces_cp
  <2>3. p.epSquare - push_inc(us) \in Square
    BY <1>2, <2>2, ColoredPieces
  <2>4. m.from \notin p.byPiece["KING"]
    BY <1>2, <2>1 DEF BoardOK, Piece
  <2>5. QED
    BY <1>1, <2>1, <2>2, <2>3, <2>4 DEF Taken, Castles, pos_pieces_cp
<1>4. to \in q.byPiece["PAWN"]
  <2>1. Now(p, m) = "PAWN"
    <3>1. m.from \in p.byPiece["PAWN"] /\ m.from \in Square
      BY <1>2 DEF EpMove, pos_pieces_cp, BoardOK, Piece
    <3>2. QED
      BY <1>2, <1>3, <3>1, PieceOn DEF Now, Piece
  <2>2. QED
    BY <1>1, <1>3, <2>1 DEF Played, Replaces, Piece
<1>5. ek \in PawnAttacks[us][to]
  <2>1. \A k \in Piece \ {"PAWN"} : to \notin q.byPiece[k]
    BY <1>2, <1>4 DEF BoardOK, Piece
  <2>2. QED
    BY <1>2, <2>1 DEF Hits, pos_pieces_cp, pos_pieces_cpp, Piece
<1>6. ek \in KnightAttacks[t]
  <2>1. to = t + push_inc(us)
    <3>1. to \in Int /\ push_inc(us) \in Int
      BY <1>3, RankAndFile DEF push_inc
    <3>2. QED
      BY <1>3, <3>1
  <2>2. QED
    BY <1>2, <1>3, <1>5, <2>1, PawnThenKnight
<1>7. ~Aligned(KingDir, t, ek)
  BY <1>3, <1>6, KnightOffLine
<1>8. QED
  BY <1>1, <1>2, <1>7, BeforeLast

\* Two checkers at most, after a move that is no castling.
LEMMA TwoAfterMove ==
    ASSUME NEW p, Ready(p), NEW m \in gen_all_moves(p), NEW q, Ready(q), Played(p, q, m),
           ~Castles(p, m)
    PROVE  \A a, b, c \in q.checkers : a = b \/ b = c \/ a = c
<1>1. PICK us, ek, from, to, t : us = p.turn /\ ek = King(q) /\ from = m.from /\ to = m.to /\ t = Taken(p, m)
  OBVIOUS
<1>2. us \in Color /\ ek \in Square /\ BoardOK(q)
  BY <1>1, NewChecks
<1>3. ASSUME NEW u \in q.checkers, u # to
      PROVE  /\ SliderAt(q, us, ek, u) /\ Between(ek, u) \intersect pos_pieces(q) = {}
             /\ from \in Between(ek, u) \/ (t \in Between(ek, u) /\ EpMove(p, m))
  BY <1>1, <1>3, ChecksAfter
<1>4. ASSUME NEW u \in q.checkers, u # to, NEW v \in q.checkers, v # to, u # v
      PROVE  Between(ek, u) \intersect Between(ek, v) = {}
  BY <1>2, <1>3, <1>4, OnePast
<1>5. ASSUME NEW u \in q.checkers, u # to, to \in q.checkers, t \in Between(ek, u), EpMove(p, m) PROVE FALSE
  <2>1. Aligned(KingDir, ek, u)
    <3>1. SliderAt(q, us, ek, u)
      BY <1>3, <1>5
    <3>2. QED
      BY <1>2, <3>1, HitsOrSlides
  <2>2. QED
    BY <1>1, <1>5, <2>1, PawnOrLine
<1>6. SUFFICES ASSUME NEW a \in q.checkers, NEW b \in q.checkers, NEW c \in q.checkers,
                      a # b, b # c, a # c
               PROVE  FALSE
  OBVIOUS
<1>7. \A u, v \in q.checkers : u # to /\ v # to /\ u # v =>
         /\ ~(from \in Between(ek, u) /\ from \in Between(ek, v))
         /\ ~(t \in Between(ek, u) /\ t \in Between(ek, v))
  BY <1>4
<1>8. QED
  BY <1>3, <1>5, <1>6, <1>7

\* On a rank, a slider on either side.
LEMMA OneSide ==
    ASSUME NEW q, BoardOK(q), NEW c \in Color, NEW k \in Square,
           NEW u, SliderAt(q, c, k, u), Between(k, u) \intersect pos_pieces(q) = {},
           NEW v, SliderAt(q, c, k, v), Between(k, v) \intersect pos_pieces(q) = {},
           rank_of(u) = rank_of(k), rank_of(v) = rank_of(k), u < k <=> v < k
    PROVE  u = v
<1>1. /\ u \in Square /\ u # k /\ u \in q.byColor[c] /\ v \in Square /\ v # k /\ v \in q.byColor[c]
  <2>1. SliderAt(q, c, k, u) => u \in Square /\ u # k /\ u \in q.byColor[c]
    BY HitsOrSlides
  <2>2. SliderAt(q, c, k, v) => v \in Square /\ v # k /\ v \in q.byColor[c]
    BY HitsOrSlides
  <2>3. QED
    BY <2>1, <2>2
<1>2. u \in pos_pieces(q) /\ v \in pos_pieces(q)
  BY <1>1, ColoredPieces
<1>3. u \notin Between(k, v) /\ v \notin Between(k, u)
  BY <1>2
<1>4. u # v => u \notin Segment[k][v] /\ v \notin Segment[k][u]
  BY <1>1, <1>3 DEF Between
<1>5. /\ u \in Segment[k][v] <=> (k <= u /\ u <= v) \/ (v <= u /\ u <= k)
      /\ v \in Segment[k][u] <=> (k <= v /\ v <= u) \/ (u <= v /\ v <= k)
  BY <1>1, RanksWay
<1>6. u \in Int /\ v \in Int /\ k \in Int
  BY <1>1, RankAndFile
<1>7. QED
  BY <1>1, <1>4, <1>5, <1>6

\* Two checkers at most, after castling: the rook, or sliders along the rank.
LEMMA TwoAfterCastling ==
    ASSUME NEW p, Ready(p), NEW m \in gen_all_moves(p), NEW q, Ready(q), Played(p, q, m),
           Castles(p, m)
    PROVE  \A a, b, c \in q.checkers : a = b \/ b = c \/ a = c
<1>1. PICK us, ek, from, to, kto, rto :
         /\ us = p.turn /\ ek = King(q) /\ from = m.from /\ to = m.to
         /\ kto = Rules!KingTo(m.from, m.to) /\ rto = Rules!RookTo(m.from, m.to)
  OBVIOUS
<1>2. /\ us \in Color /\ ek \in Square /\ BoardOK(p) /\ BoardOK(q)
      /\ \A u : u \in q.checkers <=> Hits(q, us, u, ek, pos_pieces(q))
      /\ \A u : ~Hits(p, us, u, ek, pos_pieces(p))
      /\ \A u : ~(u \in pos_pieces_cp(q, us, "KING") /\ u \in KingAttacks[ek])
  BY <1>1, NewChecks
<1>3. /\ from \in Square /\ to \in Square /\ rto \in Square
      /\ rank_of(from) = 7 * us /\ rank_of(to) = 7 * us /\ rank_of(rto) = 7 * us
  BY <1>1, CastleSquares DEF Ready
<1>4. /\ \A d \in Color : q.byColor[d] = (p.byColor[d] \ {from, to})
                              \union (IF d = us THEN {kto, rto} ELSE {})
      /\ \A l \in Piece : q.byPiece[l] = (p.byPiece[l] \ {from, to})
                              \union (IF l = "KING" THEN {kto} ELSE {})
                              \union (IF l = "ROOK" THEN {rto} ELSE {})
  BY <1>1, Zenon DEF Played, Castled
<1>5. \A u : Hits(q, us, u, ek, pos_pieces(q)) <=>
               \/ u \in pos_pieces_cp(q, us, "KING") /\ u \in KingAttacks[ek]
               \/ u \in pos_pieces_cp(q, us, "KNIGHT") /\ u \in KnightAttacks[ek]
               \/ u \in pos_pieces_cp(q, us, "PAWN") /\ u \in PawnAttacks[opposite(us)][ek]
               \/ SliderAt(q, us, ek, u) /\ Between(ek, u) \intersect pos_pieces(q) = {}
  BY <1>2, HitsOrSlides, Zenon
<1>6. ASSUME NEW u \in q.checkers
      PROVE  /\ SliderAt(q, us, ek, u) /\ Between(ek, u) \intersect pos_pieces(q) = {}
             /\ u = rto \/ from \in Between(ek, u) \/ to \in Between(ek, u)
  <2>1. Hits(q, us, u, ek, pos_pieces(q)) /\ ~(u \in pos_pieces_cp(q, us, "KING") /\ u \in KingAttacks[ek])
    BY <1>2
  <2>2. CASE u = kto
    <3>1. kto \in q.byPiece["KING"] /\ kto \in q.byColor[us] /\ "KING" \in Piece
      BY <1>2, <1>4 DEF Piece
    <3>2. \A k \in Piece \ {"KING"} : kto \notin q.byPiece[k]
      BY <1>2, <3>1 DEF BoardOK
    <3>3. FALSE
      BY <1>5, <2>1, <2>2, <3>2 DEF SliderAt, pos_pieces_cp, pos_pieces_cpp, Piece
    <3>4. QED
      BY <3>3
  <2>3. CASE u = rto /\ u # kto
    <3>1. rto \in q.byPiece["ROOK"] /\ "ROOK" \in Piece
      BY <1>2, <1>4 DEF Piece
    <3>2. \A k \in Piece \ {"ROOK"} : rto \notin q.byPiece[k]
      BY <1>2, <3>1 DEF BoardOK
    <3>3. QED
      BY <1>5, <2>1, <2>3, <3>2 DEF pos_pieces_cp, Piece
  <2>4. CASE u # rto /\ u # kto
    <3>1. \A l \in Piece : u \in pos_pieces_cp(q, us, l) => u \in pos_pieces_cp(p, us, l)
      BY <1>2, <1>4, <2>4 DEF pos_pieces_cp
    <3>2. /\ SliderAt(q, us, ek, u) /\ Between(ek, u) \intersect pos_pieces(q) = {}
          /\ \E x \in Between(ek, u) : x \in pos_pieces(p) \ pos_pieces(q)
      BY <1>2, <2>1, <3>1, Uncovered
    <3>3. ASSUME NEW x, x \in pos_pieces(p) \ pos_pieces(q) PROVE x = from \/ x = to
      <4>1. PICK d \in Color : x \in p.byColor[d]
        BY <3>3 DEF pos_pieces, Color
      <4>2. x \notin q.byColor[d]
        BY <3>3, <4>1 DEF pos_pieces, Color
      <4>3. QED
        BY <1>4, <4>1, <4>2
    <3>4. QED
      BY <3>2, <3>3
  <2>5. QED
    BY <2>2, <2>3, <2>4
<1>7. ASSUME NEW u \in q.checkers PROVE Aligned(KingDir, ek, u)
  <2>1. SliderAt(q, us, ek, u)
    BY <1>6
  <2>2. QED
    BY <1>2, <2>1, HitsOrSlides
<1>8. CASE rank_of(ek) = 7 * us
  <2>1. ASSUME NEW u \in q.checkers PROVE rank_of(u) = rank_of(ek)
    <3>1. CASE u = rto
      BY <1>3, <1>8, <3>1
    <3>2. CASE u # rto
      <4>1. PICK x \in Between(ek, u) : x = from \/ x = to
        BY <1>6, <3>2
      <4>2. rank_of(x) = rank_of(ek)
        BY <1>3, <1>8, <4>1
      <4>3. QED
        BY <1>2, <1>7, <4>2, BeforeLast
    <3>3. QED
      BY <3>1, <3>2
  <2>2. ASSUME NEW u \in q.checkers, NEW v \in q.checkers, u < ek <=> v < ek PROVE u = v
    <3>1. /\ SliderAt(q, us, ek, u) /\ Between(ek, u) \intersect pos_pieces(q) = {}
          /\ SliderAt(q, us, ek, v) /\ Between(ek, v) \intersect pos_pieces(q) = {}
      BY <1>6
    <3>2. rank_of(u) = rank_of(ek) /\ rank_of(v) = rank_of(ek)
      BY <2>1
    <3>3. QED
      BY <1>2, <2>2, <3>1, <3>2, OneSide
  <2>3. QED
    BY <2>2
<1>9. CASE rank_of(ek) # 7 * us
  <2>1. ASSUME NEW u \in q.checkers PROVE u = rto
    <3>1. SUFFICES ASSUME u # rto PROVE FALSE
      OBVIOUS
    <3>2. PICK x \in Between(ek, u) : x = from \/ x = to
      BY <1>6, <3>1
    <3>3. rank_of(x) = 7 * us
      BY <1>3, <3>2
    <3>4. rank_of(x) \in 1..6
      BY <1>2, <1>7, <1>9, <3>3, BeforeLast
    <3>5. QED
      BY <1>2, <3>3, <3>4 DEF Color, WHITE, BLACK
  <2>2. QED
    BY <2>1
<1>10. QED
  BY <1>8, <1>9

\* What is asserted of the checkers.
LEMMA TwoCheckersAfter ==
    ASSUME NEW p, Ready(p), NEW m \in gen_all_moves(p), NEW q, Ready(q), Played(p, q, m)
    PROVE  bb_count(q.checkers) <= 2
<1>1. \A a, b, c \in q.checkers : a = b \/ b = c \/ a = c
  BY TwoAfterMove, TwoAfterCastling
<1>2. q.checkers \subseteq Square
  <2>1. /\ BoardOK(q) /\ King(q) \in Square /\ p.turn \in Color
        /\ \A u : u \in q.checkers <=> Hits(q, p.turn, u, King(q), pos_pieces(q))
    BY NewChecks
  <2>2. QED
    BY <2>1, NotItself
<1>3. QED
  BY <1>1, <1>2, NotThree

-----------------------------------------------------------------------------
(* What is said of check, and of the position as a whole.                  *)

\* The pieces that attack a square, by the tables and by the rules.
LEMMA RulesHits ==
    ASSUME NEW p, BoardOK(p), NEW P, Places(p, P), NEW e \in Color, NEW u, NEW t
    PROVE  Hits(p, e, u, t, pos_pieces(p)) <=>
             \E x \in P : x[1] = e /\ x[3] = u /\ t \in Rules!Reach(P, x)
<1>1. ASSUME NEW x \in P, x[1] = e, x[3] = u, t \in Rules!Reach(P, x)
      PROVE  Hits(p, e, u, t, pos_pieces(p))
  <2>1. PICK k \in Piece : x = <<e, k, u>> /\ u \in Square
    BY <1>1 DEF Places
  <2>2. u \in p.byColor[e] /\ u \in p.byPiece[k]
    BY <2>1 DEF Places
  <2>3. t \in Rules!Reach(P, <<e, k, u>>)
    BY <1>1, <2>1
  <2>4. \/ k = "KING" /\ t \in KingAttacks[u]
        \/ k = "KNIGHT" /\ t \in KnightAttacks[u]
        \/ k = "PAWN" /\ t \in PawnAttacks[e][u]
        \/ k \in {"ROOK", "QUEEN"} /\ t \in bb_rook_attacks(u, pos_pieces(p))
        \/ k \in {"BISHOP", "QUEEN"} /\ t \in bb_bishop_attacks(u, pos_pieces(p))
    BY <2>1, <2>3, RulesReach
  <2>5. QED
    BY <2>2, <2>4 DEF Hits, pos_pieces_cp, pos_pieces_cpp
<1>2. ASSUME Hits(p, e, u, t, pos_pieces(p))
      PROVE  \E x \in P : x[1] = e /\ x[3] = u /\ t \in Rules!Reach(P, x)
  <2>1. PICK k \in Piece :
          /\ u \in p.byColor[e] /\ u \in p.byPiece[k]
          /\ \/ k = "KING" /\ t \in KingAttacks[u]
             \/ k = "KNIGHT" /\ t \in KnightAttacks[u]
             \/ k = "PAWN" /\ t \in PawnAttacks[e][u]
             \/ k \in {"ROOK", "QUEEN"} /\ t \in bb_rook_attacks(u, pos_pieces(p))
             \/ k \in {"BISHOP", "QUEEN"} /\ t \in bb_bishop_attacks(u, pos_pieces(p))
    BY <1>2 DEF Hits, pos_pieces_cp, pos_pieces_cpp, Piece
  <2>2. u \in Square
    BY <2>1 DEF BoardOK
  <2>3. t \in Rules!Reach(P, <<e, k, u>>)
    BY <2>1, <2>2, RulesReach
  <2>4. <<e, k, u>> \in P /\ <<e, k, u>>[1] = e /\ <<e, k, u>>[3] = u
    BY <2>1, <2>2 DEF Places
  <2>5. QED
    BY <2>3, <2>4, Zenon
<1>3. QED
  BY <1>1, <1>2

\* The checkers are the enemy pieces that attack the king.
LEMMA CheckersByRules ==
    ASSUME NEW p, Ready(p), NEW P, Places(p, P)
    PROVE  p.checkers = {x[3] : x \in {y \in P :
             /\ y[1] # p.turn /\ pos_king_square(p, p.turn) \in Rules!Reach(P, y)}}
<1>1. PICK us, them, king : us = p.turn /\ them = opposite(us) /\ king = pos_king_square(p, us)
  OBVIOUS
<1>2. us \in Color /\ them \in Color /\ us # them /\ BoardOK(p) /\ king = King(p)
  BY <1>1, Sides DEF King
<1>3. \A u : u \in p.checkers <=> Hits(p, them, u, king, pos_pieces(p))
  BY <1>1, <1>2, WhatIsDerived
<1>4. \A x \in P : x[1] # us <=> x[1] = them
  <2>1. \A c \in Color : c # us <=> c = them
    BY <1>1, <1>2 DEF Color, WHITE, BLACK, opposite
  <2>2. QED
    BY <2>1 DEF Places
<1>5. \A u : u \in p.checkers <=> \E x \in P : x[1] = them /\ x[3] = u /\ king \in Rules!Reach(P, x)
  BY <1>2, <1>3, RulesHits
<1>6. \A u : u \in p.checkers <=> \E x \in P : x[1] # us /\ king \in Rules!Reach(P, x) /\ x[3] = u
  BY <1>4, <1>5
<1>7. QED
  BY <1>1, <1>6

\* What is asserted of the checkers holds in the opening, and after every move.
TwoAtMost == bb_count(pos.checkers) <= 2

\* pos_set accepts no more than two checkers.
LEMMA TwoStart == Init => TwoAtMost
<1> SUFFICES ASSUME Init PROVE TwoAtMost
  OBVIOUS
<1>1. PICK p : p = pos_set(start.fen, FALSE)
  OBVIOUS
<1>2. bb_count(p.checkers) <= 2
  <2>1. start \in Starts
    BY DEF Init
  <2>2. bb_count(pos_set(start.fen, FALSE).checkers) <= 2
    BY <2>1, ChessAssumption
  <2>3. QED
    BY <1>1, <2>2, Zenon
<1>3. vecPos = <<p>>
  BY <1>1, Zenon DEF Init
<1>4. pos = p
  BY <1>3 DEF pos, Last
<1>5. QED
  BY <1>2, <1>4 DEF TwoAtMost

\* TwoAtMost is inductive.
LEMMA TwoStay == History /\ TwoAtMost /\ [Play]_vars => TwoAtMost'
<1> SUFFICES ASSUME History, TwoAtMost, [Play]_vars PROVE TwoAtMost'
  OBVIOUS
<1>1. CASE Play
  <2>1. PICK m \in gen_all_moves(Last(vecPos)) :
          /\ vecPos' = Append(vecPos, pos_move(Last(vecPos), m))
          /\ lastMoves' = Append(lastMoves, m)
    BY <1>1 DEF Play
  <2>2. Extended(vecPos, lastMoves, vecPos', lastMoves') /\ History'
    BY <1>1, PlayExtends
  <2>3. PICK p, q : p = Last(vecPos) /\ q = Last(vecPos')
    OBVIOUS
  <2>4. Last(lastMoves') = m
    <3>1. IsSequence(lastMoves)
      BY DEF History, WellFormed
    <3>2. Len(Append(lastMoves, m)) = Len(lastMoves) + 1
          /\ Append(lastMoves, m)[Len(lastMoves) + 1] = m
      BY <3>1, Appended
    <3>3. QED
      BY <2>1, <3>2 DEF Last
  <2>5. Played(p, q, m)
    BY <2>2, <2>3, <2>4, LastStep
  <2>6. Ready(p)
    BY <2>3, LastIsReady DEF pos
  <2>7. Ready(q)
    <3>1. Len(vecPos') \in 1..Len(vecPos')
      BY <2>2, Lengths DEF History, WellFormed
    <3>2. QED
      BY <2>2, <2>3, <3>1 DEF Extended, WellFormed, Last
  <2>8. bb_count(q.checkers) <= 2
    BY <2>1, <2>3, <2>5, <2>6, <2>7, TwoCheckersAfter
  <2>9. QED
    BY <2>3, <2>8 DEF TwoAtMost, pos
<1>2. CASE UNCHANGED vars
  BY <1>2 DEF vars, TwoAtMost, pos
<1>3. QED
  BY <1>1, <1>2

\* What moves have made of a position is what pos_set makes of its FEN.
LEMMA AllSound ==
    ASSUME History, AllReadable(vecPos), TwoAtMost
    PROVE  PositionsSound
<1>1. PICK p : p = pos
  OBVIOUS
<1>2. Ready(p) /\ Cells(p) /\ Keyed(p) /\ Readable(p)
  BY <1>1, LastIsReady, Zenon DEF AllReadable
<1>3. Verified(p)
  BY <1>2, WhatIsVerified, Zenon DEF Readable
<1>4. p = pos_set(pos_get(p), p.chess960)
  <2>1. RooksApart(p) /\ p.chess960 \in BOOLEAN
    BY <1>2 DEF Readable
  <2>2. PICK q : q = pos_set(pos_get(p), p.chess960)
    OBVIOUS
  <2>3. q = p
    BY <1>2, <2>1, <2>2, ReadAsItself, Zenon
  <2>4. QED
    BY <2>2, <2>3, Zenon
<1>5. Places(p, Placement(p))
  BY <1>2, PlacesPlaced DEF Cells
<1>6. p.checkers = {x[3] : x \in {y \in Placement(p) :
             /\ y[1] # p.turn /\ pos_king_square(p, p.turn) \in Rules!Reach(Placement(p), y)}}
  <2>1. PICK P : P = Placement(p)
    OBVIOUS
  <2>2. Places(p, P)
    BY <1>5, <2>1, Zenon
  <2>3. p.checkers = {x[3] : x \in {y \in P :
               /\ y[1] # p.turn /\ pos_king_square(p, p.turn) \in Rules!Reach(P, y)}}
    BY ONLY <1>2, <2>2, CheckersByRules
  <2>4. QED
    BY <2>1, <2>3, Zenon
<1>7. CheckersAttackKing
  BY <1>1, <1>6, Zenon DEF CheckersAttackKing, TwoAtMost
<1>8. QED
  BY <1>1, <1>3, <1>4, <1>7, Zenon DEF PositionsSound

\* What moves keep up to date is what a reader of the position would compute, what
\* pos_set verifies stays so, and finish finds the pieces that give check, two at
\* most, as it asserts (position.c:162).
THEOREM PositionsAreSound == Spec => []PositionsSound
<1>1. History /\ AllReadable(vecPos) /\ TwoAtMost => PositionsSound
  BY AllSound
<1>2. QED
  BY <1>1, HistoryStarts, HistoryGoesOn, ReadableStarts, ReadableStays, TwoStart, TwoStay,
     PTL DEF Spec

-----------------------------------------------------------------------------
(* What an engine in its own mode makes of the moves it is told.           *)

\* The same but for the mode.
Twins(p, q, mode) == IsPosition(p) /\ SameFields(p, q) /\ q.chess960 = mode

\* The other fields.
Unmoved(p, q) ==
    /\ q.castleRooks = p.castleRooks /\ q.attacked = p.attacked /\ q.checkers = p.checkers
    /\ q.pins = p.pins /\ q.turn = p.turn /\ q.epSquare = p.epSquare /\ q.rule50 = p.rule50
    /\ q.fullMove = p.fullMove /\ q.chess960 = p.chess960

Less(f, c, s) == [f EXCEPT ![c] = @ \ {s}]
More(f, c, s) == [f EXCEPT ![c] = @ \union {s}]

\* clear_square, field by field.
LEMMA WhatIsCleared ==
    ASSUME NEW p, IsPosition(p), NEW c, NEW k, NEW s, NEW q, q = clear_square(p, c, k, s)
    PROVE  /\ IsPosition(q) /\ Unmoved(p, q)
           /\ q.byColor = Less(p.byColor, c, s) /\ q.byPiece = Less(p.byPiece, k, s)
           /\ q.key = Xor(p.key, ZobristKey(c, k, s))
BY DEF clear_square, IsPosition, Unmoved, Less

\* set_square, field by field.
LEMMA WhatIsSet ==
    ASSUME NEW p, IsPosition(p), NEW c, NEW k, NEW s, NEW q, q = set_square(p, c, k, s)
    PROVE  /\ IsPosition(q) /\ Unmoved(p, q)
           /\ q.byColor = More(p.byColor, c, s) /\ q.byPiece = More(p.byPiece, k, s)
           /\ q.key = Xor(p.key, ZobristKey(c, k, s))
BY DEF set_square, IsPosition, Unmoved, More

\* Twins stay twins if both clear a square.
LEMMA TwinsCleared ==
    ASSUME NEW p, NEW q, NEW mode, Twins(p, q, mode), NEW c, NEW k, NEW s
    PROVE  Twins(clear_square(p, c, k, s), clear_square(q, c, k, s), mode)
BY WhatIsCleared DEF Twins, SameFields, Unmoved

\* So they do if both set one.
LEMMA TwinsSet ==
    ASSUME NEW p, NEW q, NEW mode, Twins(p, q, mode), NEW c, NEW k, NEW s
    PROVE  Twins(set_square(p, c, k, s), set_square(q, c, k, s), mode)
BY WhatIsSet DEF Twins, SameFields, Unmoved

\* The fields but the board that a move changes.
Marked(p, rule50, rights, ep) ==
    [p EXCEPT !.rule50 = rule50, !.castleRooks = rights, !.epSquare = ep]

\* The fields that are assigned beside the board.
LEMMA WhatIsMarked ==
    ASSUME NEW p, IsPosition(p), NEW n, NEW rights, NEW ep, NEW q, q = Marked(p, n, rights, ep)
    PROVE  /\ IsPosition(q) /\ q.byColor = p.byColor /\ q.byPiece = p.byPiece /\ q.key = p.key
           /\ q.castleRooks = rights /\ q.attacked = p.attacked /\ q.checkers = p.checkers
           /\ q.pins = p.pins /\ q.turn = p.turn /\ q.epSquare = ep /\ q.rule50 = n
           /\ q.fullMove = p.fullMove /\ q.chess960 = p.chess960
BY DEF Marked, IsPosition

\* Twins stay twins if both are marked.
LEMMA TwinsMarked ==
    ASSUME NEW p, NEW q, NEW mode, Twins(p, q, mode), NEW n, NEW rights, NEW ep
    PROVE  Twins(Marked(p, n, rights, ep), Marked(q, n, rights, ep), mode)
BY WhatIsMarked DEF Twins, SameFields

\* What is read off the board of twins is the same.
LEMMA TwinsOn ==
    ASSUME NEW p, NEW q, NEW mode, Twins(p, q, mode)
    PROVE  /\ \A s : pos_piece_on(q, s) = pos_piece_on(p, s) /\ pos_color_on(q, s) = pos_color_on(p, s)
           /\ SameBoard(p, q) /\ q.epSquare = p.epSquare /\ q.rule50 = p.rule50
           /\ q.castleRooks = p.castleRooks /\ IsPosition(p) /\ IsPosition(q)
BY DEF Twins, SameFields, pos_piece_on, pos_color_on, SameBoard

\* Twins stay twins if both lose a piece.
LEMMA TwinsCaptured ==
    ASSUME NEW p, NEW q, NEW mode, Twins(p, q, mode), NEW m
    PROVE  Twins(Captured(p, m), Captured(q, m), mode)
<1>1. PICK c, k, left : c = pos_color_on(p, m.to) /\ k = pos_piece_on(p, m.to) /\ left = p.castleRooks \ {m.to}
  OBVIOUS
<1>2. c = pos_color_on(q, m.to) /\ k = pos_piece_on(q, m.to) /\ left = q.castleRooks \ {m.to}
  BY <1>1, TwinsOn
<1>3. PICK g, h : g = clear_square(p, c, k, m.to) /\ h = clear_square(q, c, k, m.to)
  OBVIOUS
<1>4. Twins(g, h, mode)
  BY <1>3, TwinsCleared
<1>5. PICK e : e = g.epSquare /\ e = h.epSquare
  BY <1>4, TwinsOn
<1>6. /\ Captured(p, m) = IF k = NB_PIECE THEN p ELSE [g EXCEPT !.rule50 = 0, !.castleRooks = left]
      /\ Captured(q, m) = IF k = NB_PIECE THEN q ELSE [h EXCEPT !.rule50 = 0, !.castleRooks = left]
  BY <1>1, <1>2, <1>3, Zenon DEF Captured, RightsLeft
<1>7. /\ [g EXCEPT !.rule50 = 0, !.castleRooks = left] = Marked(g, 0, left, e)
      /\ [h EXCEPT !.rule50 = 0, !.castleRooks = left] = Marked(h, 0, left, e)
  <2>1. IsPosition(g) /\ IsPosition(h)
    BY <1>4, TwinsOn
  <2>2. /\ [g EXCEPT !.rule50 = 0, !.castleRooks = left] = Marked(g, 0, left, g.epSquare)
        /\ [h EXCEPT !.rule50 = 0, !.castleRooks = left] = Marked(h, 0, left, h.epSquare)
    BY <2>1 DEF Marked, IsPosition
  <2>3. QED
    BY <1>5, <2>2, Zenon
<1>8. Twins(Marked(g, 0, left, e), Marked(h, 0, left, e), mode)
  BY <1>4, TwinsMarked
<1>9. QED
  BY <1>6, <1>7, <1>8, Zenon

\* So they do if a piece arrives.
LEMMA TwinsArrived ==
    ASSUME NEW p, NEW q, NEW mode, Twins(p, q, mode), NEW m
    PROVE  Twins(Arrived(p, m), Arrived(q, m), mode)
<1>1. Twins(Started(p), Started(q), mode)
  <2>1. IsPosition(p) /\ IsPosition(q) /\ q.rule50 = p.rule50 /\ q.castleRooks = p.castleRooks
    BY TwinsOn
  <2>2. PICK n, rights : n = p.rule50 + 1 /\ rights = p.castleRooks
    OBVIOUS
  <2>3. /\ Started(p) = Marked(p, n, rights, NB_SQUARE)
        /\ Started(q) = Marked(q, n, rights, NB_SQUARE)
    BY <2>1, <2>2 DEF Started, Marked, IsPosition
  <2>4. QED
    BY <2>3, TwinsMarked
<1>2. PICK g, h : g = Captured(Started(p), m) /\ h = Captured(Started(q), m)
  OBVIOUS
<1>3. Twins(g, h, mode) /\ h.turn = g.turn
  <2>1. Twins(g, h, mode)
    BY <1>1, <1>2, TwinsCaptured, Zenon
  <2>2. QED
    BY <2>1, TwinsOn DEF SameBoard
<1>4. PICK k, us : k = pos_piece_on(p, m.from) /\ us = g.turn
  OBVIOUS
<1>5. k = pos_piece_on(q, m.from)
  BY <1>4, TwinsOn
<1>6. /\ Arrived(p, m) = set_square(clear_square(g, us, k, m.from), us, k, m.to)
      /\ Arrived(q, m) = set_square(clear_square(h, us, k, m.from), us, k, m.to)
  BY <1>2, <1>3, <1>4, <1>5, Zenon DEF Arrived, Moved
<1>7. QED
  BY <1>3, <1>6, TwinsCleared, TwinsSet

\* So they do if it is a pawn.
LEMMA TwinsPawnMoved ==
    ASSUME NEW p, NEW q, NEW mode, Twins(p, q, mode), NEW a, NEW b, Twins(a, b, mode), NEW m
    PROVE  Twins(PawnMoved(a, p, m), PawnMoved(b, q, m), mode)
<1>1. PICK us, pawns : us = a.turn /\ pawns = pos_pieces_cp(a, opposite(us), "PAWN")
  OBVIOUS
<1>2. PICK e : e = IF /\ m.to = m.from + 2 * push_inc(us)
                      /\ PawnAttacks[us][m.from + push_inc(us)] \intersect pawns # {}
                   THEN m.from + push_inc(us) ELSE a.epSquare
  OBVIOUS
<1>3. /\ b.turn = us /\ b.epSquare = a.epSquare /\ b.castleRooks = a.castleRooks
      /\ pos_pieces_cp(b, opposite(us), "PAWN") = pawns
      /\ IsPosition(a) /\ IsPosition(b) /\ q.epSquare = p.epSquare
  BY <1>1, TwinsOn DEF SameBoard, pos_pieces_cp
<1>4. PICK g, h : g = Marked(a, 0, a.castleRooks, e) /\ h = Marked(b, 0, a.castleRooks, e)
  OBVIOUS
<1>5. Twins(g, h, mode)
  BY <1>4, TwinsMarked
<1>6. PawnMoved(a, p, m) =
        IF m.to = p.epSquare THEN clear_square(g, opposite(us), "PAWN", Behind(us, m.to))
        ELSE IF rank_of(m.to) \in {0, 7}
        THEN set_square(clear_square(g, us, "PAWN", m.to), us, m.prom, m.to)
        ELSE g
  <2>1. g = [a EXCEPT !.rule50 = 0, !.epSquare = e]
    BY <1>3, <1>4 DEF Marked, IsPosition
  <2>2. QED
    BY <1>1, <1>2, <2>1, Zenon DEF PawnMoved
<1>7. PawnMoved(b, q, m) =
        IF m.to = p.epSquare THEN clear_square(h, opposite(us), "PAWN", Behind(us, m.to))
        ELSE IF rank_of(m.to) \in {0, 7}
        THEN set_square(clear_square(h, us, "PAWN", m.to), us, m.prom, m.to)
        ELSE h
  <2>1. h = [b EXCEPT !.rule50 = 0, !.epSquare = e]
    BY <1>3, <1>4 DEF Marked, IsPosition
  <2>2. QED
    BY <1>1, <1>2, <1>3, <2>1, Zenon DEF PawnMoved
<1>8. QED
  BY <1>5, <1>6, <1>7, TwinsCleared, TwinsSet

\* So they do if it is a king.
LEMMA TwinsKingMoved ==
    ASSUME NEW p, NEW q, NEW mode, Twins(p, q, mode), NEW a, NEW b, Twins(a, b, mode), NEW m
    PROVE  Twins(KingMoved(a, p, m), KingMoved(b, q, m), mode)
<1>1. PICK us, rights, e, n :
        /\ us = a.turn /\ rights = a.castleRooks \ Rank(7 * us)
        /\ e = a.epSquare /\ n = a.rule50
  OBVIOUS
<1>2. /\ b.turn = us /\ b.castleRooks = a.castleRooks /\ e = b.epSquare /\ n = b.rule50
      /\ IsPosition(a) /\ IsPosition(b) /\ q.byColor = p.byColor
  BY <1>1, TwinsOn DEF SameBoard
<1>3. PICK g, h : g = Marked(a, n, rights, e) /\ h = Marked(b, n, rights, e)
  OBVIOUS
<1>4. Twins(g, h, mode)
  BY <1>3, TwinsMarked
<1>5. PICK kto, rto :
        /\ kto = square_from(rank_of(m.from), IF m.to > m.from THEN 6 ELSE 2)
        /\ rto = square_from(rank_of(m.from), IF m.to > m.from THEN 5 ELSE 3)
  OBVIOUS
<1>6. KingMoved(a, p, m) =
        IF m.to \notin p.byColor[us] THEN g
        ELSE set_square(set_square(clear_square(g, us, "KING", m.to), us, "KING", kto),
                        us, "ROOK", rto)
  <2>1. g = [a EXCEPT !.castleRooks = rights]
    BY <1>1, <1>2, <1>3 DEF Marked, IsPosition
  <2>2. QED
    BY <1>1, <1>5, <2>1, Zenon DEF KingMoved
<1>7. KingMoved(b, q, m) =
        IF m.to \notin p.byColor[us] THEN h
        ELSE set_square(set_square(clear_square(h, us, "KING", m.to), us, "KING", kto),
                        us, "ROOK", rto)
  <2>1. h = [b EXCEPT !.castleRooks = rights]
    BY <1>1, <1>2, <1>3 DEF Marked, IsPosition
  <2>2. QED
    BY <1>1, <1>2, <1>5, <2>1, Zenon DEF KingMoved
<1>8. QED
  BY <1>4, <1>6, <1>7, TwinsCleared, TwinsSet

\* So they do after all that a move does to the board.
LEMMA TwinsDone ==
    ASSUME NEW p, NEW q, NEW mode, Twins(p, q, mode), NEW m
    PROVE  Twins(Done(p, m), Done(q, m), mode)
<1>1. PICK a, b : a = Arrived(p, m) /\ b = Arrived(q, m)
  OBVIOUS
<1>2. Twins(a, b, mode)
  BY <1>1, TwinsArrived
<1>3. PICK rights, e, n : rights = a.castleRooks \ {m.from} /\ e = a.epSquare /\ n = a.rule50
  OBVIOUS
<1>4. IsPosition(a) /\ IsPosition(b) /\ b.castleRooks = a.castleRooks /\ e = b.epSquare /\ n = b.rule50
  BY <1>2, <1>3, TwinsOn
<1>5. /\ [a EXCEPT !.castleRooks = @ \ {m.from}] = Marked(a, n, rights, e)
      /\ [b EXCEPT !.castleRooks = @ \ {m.from}] = Marked(b, n, rights, e)
  BY <1>3, <1>4 DEF Marked, IsPosition
<1>6. PICK k : k = pos_piece_on(p, m.from)
  OBVIOUS
<1>7. k = pos_piece_on(q, m.from)
  BY <1>6, TwinsOn
<1>8. /\ Done(p, m) = IF k = "PAWN" THEN PawnMoved(a, p, m)
                      ELSE IF k = "KING" THEN KingMoved(a, p, m) ELSE Marked(a, n, rights, e)
      /\ Done(q, m) = IF k = "PAWN" THEN PawnMoved(b, q, m)
                      ELSE IF k = "KING" THEN KingMoved(b, q, m) ELSE Marked(b, n, rights, e)
  BY <1>1, <1>5, <1>6, <1>7 DEF Done
<1>9. QED
  BY <1>2, <1>8, TwinsPawnMoved, TwinsKingMoved, TwinsMarked

\* The fields that the end of a move sets.
Stamped(p, turn, key, n) == [p EXCEPT !.turn = turn, !.key = key, !.fullMove = n]

\* The turn, the key and the number of the move.
LEMMA WhatIsStamped ==
    ASSUME NEW p, IsPosition(p), NEW t, NEW k, NEW n, NEW q, q = Stamped(p, t, k, n)
    PROVE  /\ IsPosition(q) /\ q.byColor = p.byColor /\ q.byPiece = p.byPiece /\ q.key = k
           /\ q.castleRooks = p.castleRooks /\ q.attacked = p.attacked /\ q.checkers = p.checkers
           /\ q.pins = p.pins /\ q.turn = t /\ q.epSquare = p.epSquare /\ q.rule50 = p.rule50
           /\ q.fullMove = n /\ q.chess960 = p.chess960
BY DEF Stamped, IsPosition

\* Twins stay twins with the same turn, key and number.
LEMMA TwinsStamped ==
    ASSUME NEW p, NEW q, NEW mode, Twins(p, q, mode), NEW t, NEW k, NEW n
    PROVE  Twins(Stamped(p, t, k, n), Stamped(q, t, k, n), mode)
BY WhatIsStamped DEF Twins, SameFields

\* What finish derives is the same for twins.
LEMMA TwinsFinish ==
    ASSUME NEW p, NEW q, NEW mode, Twins(p, q, mode)
    PROVE  Twins(finish(p), finish(q), mode)
<1>1. PICK g, h : g = finish(p) /\ h = finish(q)
  OBVIOUS
<1>2. IsPosition(p) /\ IsPosition(q) /\ SameFields(p, q) /\ q.chess960 = mode
  BY DEF Twins, SameFields
<1>3. SameBoard(g, h) /\ Derived(g) /\ Derived(h)
  <2>1. Derived(g) /\ Derived(h)
    BY <1>1, <1>2, FinishDerives
  <2>2. SameBoard(g, h)
    BY <1>1, <1>2, Finished DEF SameBoard, SameFields
  <2>3. QED
    BY <2>1, <2>2
<1>4. h.attacked = g.attacked /\ h.pins = g.pins /\ h.checkers = g.checkers
  BY <1>3, SameDerived
<1>5. Twins(g, h, mode)
  BY <1>1, <1>2, <1>3, <1>4, Finished DEF Twins, SameFields, SameBoard
<1>6. QED
  BY <1>1, <1>5, Zenon

\* A move does the same to both.
LEMMA TwinsMove ==
    ASSUME NEW p, NEW q, NEW mode, Twins(p, q, mode), NEW m
    PROVE  Twins(pos_move(p, m), pos_move(q, m), mode)
<1>1. PICK c, d : c = Done(p, m) /\ d = Done(q, m)
  OBVIOUS
<1>2. Twins(c, d, mode)
  BY <1>1, TwinsDone
<1>3. PICK t, k, n :
        /\ t = opposite(p.turn)
        /\ k = Xor(Xor(Xor(c.key, ZobristTurn), EpKeys(p.epSquare, c.epSquare)),
                   zobrist_castling(Xor(p.castleRooks, c.castleRooks)))
        /\ n = (c.fullMove + p.turn) % 2^16
  OBVIOUS
<1>4. /\ q.turn = p.turn /\ q.epSquare = p.epSquare /\ q.castleRooks = p.castleRooks
      /\ d.key = c.key /\ d.epSquare = c.epSquare /\ d.castleRooks = c.castleRooks
      /\ d.fullMove = c.fullMove
  BY <1>2 DEF Twins, SameFields
<1>5. Twins(finish(Stamped(c, t, k, n)), finish(Stamped(d, t, k, n)), mode)
  BY <1>2, TwinsStamped, TwinsFinish
<1>6. pos_move(p, m) = finish(Stamped(c, t, k, n))
  <2>1. pos_move(p, m) = Turned(p, c)
    BY <1>1, Zenon DEF pos_move, Turned, Done, Arrived, Started
  <2>2. QED
    BY <1>3, <2>1, Zenon DEF Turned, Stamped
<1>7. pos_move(q, m) = finish(Stamped(d, t, k, n))
  <2>1. pos_move(q, m) = Turned(q, d)
    BY <1>1, Zenon DEF pos_move, Turned, Done, Arrived, Started
  <2>2. QED
    BY <1>3, <1>4, <2>1, Zenon DEF Turned, Stamped
<1>8. QED
  BY <1>5, <1>6, <1>7, Zenon

\* A set of numbers has a least one: induction, for what follows.
LEMMA Least ==
    ASSUME NEW T, T \subseteq Nat, T # {}
    PROVE  \E i \in T : \A j \in T : i <= j
<1>1. PICK R : R = {ss \in Nat \X Nat : ss[1] < ss[2]}
  OBVIOUS
<1>2. IsWellFoundedOn(R, Nat)
  BY <1>1, NatLessThanWellFounded, Zenon DEF OpToRel
<1>3. PICK i \in T : \A j \in T : ~(<<j, i>> \in R)
  BY <1>2, WFMin
<1>4. ASSUME NEW j \in T PROVE i <= j
  <2>1. i \in Nat /\ j \in Nat /\ <<j, i>> \notin R
    BY <1>3
  <2>2. ~(j < i)
    BY <1>1, <2>1
  <2>3. QED
    BY <2>1, <2>2
<1>5. QED
  BY <1>4

\* g is the function of Replayed.
Reaches(g, cmd, mode) ==
    g = [k \in 0..Len(cmd.moves) |->
           IF k = 0 THEN pos_set(cmd.fen, mode)
           ELSE LET p == g[k - 1]
                IN  pos_move(p, pos_lan_to_move(p, cmd.moves[k]))]

\* The replayed game ends with a position that its moves reach.
LEMMA ReplayedIs ==
    ASSUME NEW cmd, NEW mode
    PROVE  \E g : g = (CHOOSE h : Reaches(h, cmd, mode)) /\ Replayed(cmd, mode) = g[Len(cmd.moves)]
BY Zenon DEF Replayed, Reaches

\* There is one such function at most.
LEMMA ReachesOne ==
    ASSUME NEW cmd, Len(cmd.moves) \in Nat, NEW mode,
           NEW g, Reaches(g, cmd, mode), NEW h, Reaches(h, cmd, mode)
    PROVE  g[Len(cmd.moves)] = h[Len(cmd.moves)]
<1>0. PICK n \in Nat : n = Len(cmd.moves)
  OBVIOUS
<1>1. /\ \A k \in 0..n : k = 0 => g[k] = pos_set(cmd.fen, mode) /\ h[k] = pos_set(cmd.fen, mode)
      /\ \A k \in 0..n : k # 0 =>
           /\ g[k] = pos_move(g[k - 1], pos_lan_to_move(g[k - 1], cmd.moves[k]))
           /\ h[k] = pos_move(h[k - 1], pos_lan_to_move(h[k - 1], cmd.moves[k]))
  BY <1>0 DEF Reaches
<1>2. PICK T : T = {k \in 0..n : g[k] # h[k]}
  OBVIOUS
<1>3. SUFFICES ASSUME T # {} PROVE FALSE
  <2>1. n \in 0..n
    OBVIOUS
  <2>2. QED
    BY <1>0, <1>2, <1>3, <2>1
<1>4. PICK i \in T : \A j \in T : i <= j
  <2>1. T \subseteq Nat
    BY <1>2
  <2>2. QED
    BY <1>3, <2>1, Least, Zenon
<1>5. i \in 0..n /\ g[i] # h[i]
  BY <1>2, <1>4
<1>6. i # 0
  BY <1>1, <1>5, Zenon
<1>7. i - 1 \in 0..n /\ ~(i <= i - 1)
  BY <1>5, <1>6
<1>8. g[i - 1] = h[i - 1]
  BY <1>2, <1>4, <1>7
<1>9. QED
  BY <1>1, <1>5, <1>6, <1>8, Zenon

\* So it is the one that is known to be.
LEMMA ReplayedAs ==
    ASSUME NEW cmd, Len(cmd.moves) \in Nat, NEW mode, NEW w, Reaches(w, cmd, mode)
    PROVE  Replayed(cmd, mode) = w[Len(cmd.moves)]
<1>1. PICK g : g = (CHOOSE h : Reaches(h, cmd, mode)) /\ Replayed(cmd, mode) = g[Len(cmd.moves)]
  BY ReplayedIs, Zenon
<1>2. Reaches(g, cmd, mode)
  BY <1>1, Zenon
<1>3. g[Len(cmd.moves)] = w[Len(cmd.moves)]
  BY <1>2, ReachesOne, Zenon
<1>4. QED
  BY <1>1, <1>3, Zenon

\* The position, for an engine in its own mode.
InMode(p, mode) == [p EXCEPT !.chess960 = mode]

\* A twin is the position in the other mode.
LEMMA TwinIs ==
    ASSUME NEW p, NEW q, NEW mode, Twins(p, q, mode)
    PROVE  q = InMode(p, mode)
BY SamePosition, Zenon DEF Twins, InMode

\* The position in the other mode is a twin.
LEMMA IsTwin ==
    ASSUME NEW p, IsPosition(p), NEW mode, NEW q, q = InMode(p, mode)
    PROVE  Twins(p, q, mode)
BY DEF Twins, InMode, SameFields, IsPosition

\* A move that is no castling is written as it is, and read as it is in each mode.
LEMMA TextKept ==
    ASSUME NEW p, Ready(p), NEW m \in gen_all_moves(p), m.to \notin p.byColor[p.turn],
           NEW mode, NEW q, Twins(p, q, mode)
    PROVE  pos_move_to_lan(p, m) = m /\ pos_lan_to_move(q, m) = m
<1>1. pos_move_to_lan(p, m) = m
  BY DEF pos_move_to_lan, pos_move_is_castling
<1>2. PICK from, to, prom, king : from = m.from /\ to = m.to /\ prom = m.prom /\ king = King(p)
  OBVIOUS
<1>3. /\ m = move(from, to, prom) /\ from \in Square /\ to \in Square
      /\ from \in p.byColor[p.turn] /\ BoardOK(p) /\ p.turn \in Color
      /\ from = king => to \in KingAttacks[king]
  BY <1>2, MoveKinds, Sides
<1>4. king \in p.byPiece["KING"] /\ pos_pieces_cp(p, p.turn, "KING") = {king} /\ king \in Square
  BY <1>2, Sides
<1>5. pos_piece_on(p, from) = "KING" => from = king
  <2>1. pos_piece_on(p, from) = "KING" => from \in p.byPiece["KING"]
    <3>1. from \in pos_pieces(p)
      BY <1>3, ColoredPieces
    <3>2. QED
      BY <1>3, <3>1, PieceOn
  <2>2. from \in p.byPiece["KING"] => from = king
    BY <1>3, <1>4 DEF pos_pieces_cp
  <2>3. QED
    BY <2>1, <2>2
<1>6. pos_piece_on(q, from) = pos_piece_on(p, from)
  BY TwinsOn
<1>7. from = king => KingTarget(from, to) = to
  <2>1. from = king => to \notin {from + 2, from - 2}
    BY <1>3, <1>4, StepsAreShort
  <2>2. QED
    BY <2>1 DEF KingTarget
<1>8. [m EXCEPT !.to = to] = m
  BY <1>3 DEF move
<1>9. pos_lan_to_move(q, m) = m
  BY <1>2, <1>5, <1>6, <1>7, <1>8, Zenon DEF pos_lan_to_move
<1>10. QED
  BY <1>1, <1>9

\* What the engine reaches with the move that it is told.
LEMMA ToldMove ==
    ASSUME NEW p, Ready(p), IsPosition(p), NEW m \in gen_all_moves(p),
           m.to \notin p.byColor[p.turn],
           NEW mode, NEW q, q = InMode(p, mode)
    PROVE  InMode(pos_move(p, m), mode) = pos_move(q, pos_lan_to_move(q, pos_move_to_lan(p, m)))
<1>1. Twins(p, q, mode)
  BY IsTwin
<1>2. pos_lan_to_move(q, pos_move_to_lan(p, m)) = m
  BY <1>1, TextKept
<1>3. Twins(pos_move(p, m), pos_move(q, m), mode)
  BY <1>1, TwinsMove
<1>4. QED
  BY <1>2, <1>3, TwinIs

\* The position that the engine begins with.
LEMMA ToldStart ==
    ASSUME NEW p, Ready(p), Cells(p), Keyed(p), RooksApart(p),
           NEW mode, mode = p.chess960 \/ mode = TRUE, p.chess960 \in BOOLEAN
    PROVE  InMode(p, mode) = pos_set(pos_get(p), mode)
<1>1. PICK q : q = pos_set(pos_get(p), mode)
  OBVIOUS
<1>2. SameFields(p, q) /\ q.chess960 = (mode \/ Detected960(Placement(p), p.castleRooks))
  BY <1>1, FenReadBack, Zenon
<1>3. IsPosition(p) /\ Places(p, Placement(p))
  BY PlacesPlaced DEF Cells, BoardOK
<1>4. ~p.chess960 => ~Detected960(Placement(p), p.castleRooks)
  BY <1>3, NotDetected, Zenon
<1>5. q.chess960 = mode
  <2>1. CASE mode = TRUE
    BY <1>2, <2>1, Zenon
  <2>2. CASE mode = p.chess960 /\ p.chess960 = FALSE
    BY <1>2, <1>4, <2>2, Zenon
  <2>3. QED
    BY <2>1, <2>2, Zenon
<1>6. Twins(p, q, mode)
  BY <1>2, <1>3, <1>5, Zenon DEF Twins
<1>7. QED
  BY <1>1, <1>6, TwinIs, Zenon

\* Each position is what pos_move makes of the one before.
Walked(vec, moves) ==
    \A k \in 1..Len(moves) :
        moves[k] \in gen_all_moves(vec[k]) /\ vec[k + 1] = pos_move(vec[k], moves[k])

\* No move changes the mode.
OneMode(vec) == \A k \in 1..Len(vec) : vec[k].chess960 = vec[1].chess960

\* Every move was legal, and every position is what it has made, for one more.
LEMMA WalkGoesOn ==
    ASSUME NEW vec, NEW moves, NEW v, NEW w, Extended(vec, moves, v, w),
           Walked(vec, moves), OneMode(vec),
           NEW n, n = Len(vec), w[n] \in gen_all_moves(v[n]), v[n + 1] = pos_move(v[n], w[n])
    PROVE  Walked(v, w) /\ OneMode(v)
<1>1. /\ n \in Nat /\ Len(moves) \in Nat /\ Len(moves) + 1 = n /\ Len(v) = n + 1 /\ Len(w) = n
      /\ \A k \in 1..n : v[k] = vec[k]
      /\ \A k \in 1..Len(moves) : w[k] = moves[k]
  BY Lengths DEF Extended, WellFormed
<1>2. ASSUME NEW k \in 1..n
      PROVE  w[k] \in gen_all_moves(v[k]) /\ v[k + 1] = pos_move(v[k], w[k])
  <2>1. CASE k = n
    BY <2>1
  <2>2. CASE k # n
    <3>1. k \in 1..Len(moves) /\ k + 1 \in 1..n
      BY <1>1, <2>2
    <3>2. w[k] = moves[k] /\ v[k] = vec[k] /\ v[k + 1] = vec[k + 1]
      BY <1>1, <3>1
    <3>3. QED
      BY <3>1, <3>2 DEF Walked
  <2>3. QED
    BY <2>1, <2>2
<1>3. ASSUME NEW k \in 1..(n + 1) PROVE v[k].chess960 = v[1].chess960
  <2>1. 1 \in 1..n /\ n \in 1..n /\ n \in 1..Len(w)
    BY <1>1
  <2>2. v[n + 1].chess960 = v[n].chess960
    BY <2>1 DEF Extended, WellFormed, Played
  <2>3. \A j \in 1..n : v[j].chess960 = v[1].chess960
    BY <1>1, <2>1 DEF OneMode
  <2>4. k \in 1..n \/ k = n + 1
    BY <1>1
  <2>5. QED
    BY <2>1, <2>2, <2>3, <2>4
<1>4. QED
  BY <1>1, <1>2, <1>3 DEF Walked, OneMode

Walk == Walked(vecPos, lastMoves) /\ OneMode(vecPos)

\* There is nothing to walk at the start.
LEMMA WalkStarts == Init => Walk
<1> SUFFICES ASSUME Init PROVE Walk
  OBVIOUS
<1>1. Len(vecPos) = 1 /\ Len(lastMoves) = 0
  BY DEF Init
<1>2. (1..Len(lastMoves)) = {} /\ \A k \in 1..Len(vecPos) : k = 1
  BY <1>1
<1>3. QED
  BY <1>2, Zenon DEF Walk, Walked, OneMode

\* Walk is inductive.
LEMMA WalkStays == History /\ Walk /\ [Play]_vars => Walk'
<1> SUFFICES ASSUME History, Walk, [Play]_vars PROVE Walked(vecPos', lastMoves') /\ OneMode(vecPos')
  BY DEF Walk
<1>1. CASE Play
  <2>1. Extended(vecPos, lastMoves, vecPos', lastMoves')
    BY <1>1, PlayExtends
  <2>2. PICK n : n = Len(vecPos) /\ n \in 1..n /\ Len(lastMoves) + 1 = n
    BY Lengths DEF History, WellFormed
  <2>3. PICK m \in gen_all_moves(vecPos[n]) :
          vecPos' = Append(vecPos, pos_move(vecPos[n], m)) /\ lastMoves' = Append(lastMoves, m)
    BY <1>1, <2>2 DEF Play, Last
  <2>4. PICK q : q = pos_move(vecPos[n], m)
    OBVIOUS
  <2>5. IsSequence(vecPos) /\ IsSequence(lastMoves)
    BY DEF History, WellFormed
  <2>6. vecPos'[n] = vecPos[n] /\ vecPos'[n + 1] = q /\ lastMoves'[n] = m
    <3>1. vecPos' = Append(vecPos, q)
      BY <2>3, <2>4
    <3>2. QED
      BY <2>2, <2>3, <2>5, <3>1, Appended
  <2>7. PICK v, w : v = vecPos' /\ w = lastMoves'
    OBVIOUS
  <2>8. /\ Extended(vecPos, lastMoves, v, w) /\ w[n] \in gen_all_moves(v[n])
        /\ v[n + 1] = pos_move(v[n], w[n])
    BY <2>1, <2>3, <2>4, <2>6, <2>7
  <2>9. Walked(v, w) /\ OneMode(v)
    BY <2>2, <2>8, WalkGoesOn DEF Walk
  <2>10. QED
    BY <2>7, <2>9
<1>2. CASE UNCHANGED vars
  BY <1>2 DEF vars, Walk
<1>3. QED
  BY <1>1, <1>2

\* No castling is in the list: it would have reset the counter.
LEMMA NoCastlingTold ==
    ASSUME History, Ageing(vecPos), NEW k \in 1..Len(lastMoves), k > FirstPly(vecPos)
    PROVE  lastMoves[k].to \notin vecPos[k].byColor[vecPos[k].turn]
<1> SUFFICES ASSUME lastMoves[k].to \in vecPos[k].byColor[vecPos[k].turn] PROVE FALSE
  OBVIOUS
<1>1. PICK n \in Nat : n = Len(lastMoves) /\ Len(vecPos) = n + 1 /\ k \in 1..n
  BY Lengths DEF History, WellFormed
<1>2. n + 1 \in 1..Len(vecPos) /\ k \in 1..Len(vecPos) /\ k + 1 \in 1..Len(vecPos) /\ k + 1 <= n + 1
  BY <1>1
<1>3. PICK r \in 0..100 : r = vecPos[n + 1].rule50 /\ r = Last(vecPos).rule50
  BY <1>1, <1>2 DEF History, WellFormed, Last
<1>4. vecPos[k + 1].rule50 = 0
  <2>1. Ready(vecPos[k]) /\ Played(vecPos[k], vecPos[k + 1], lastMoves[k])
    BY <1>2 DEF History, WellFormed
  <2>2. lastMoves[k].to \in pos_pieces(vecPos[k])
    BY <2>1, Sides, ColoredPieces
  <2>3. QED
    BY <2>1, <2>2 DEF Played
<1>5. Aged(vecPos[k + 1], vecPos[n + 1], (n + 1) - (k + 1))
  BY <1>2 DEF Ageing
<1>6. r = 0 + ((n + 1) - (k + 1)) \/ r < (n + 1) - (k + 1)
  BY <1>3, <1>4, <1>5 DEF Aged
<1>7. FirstPly(vecPos) = IF r > n THEN 0 ELSE n - r
  <2>1. Len(vecPos) - 1 = n
    BY <1>1
  <2>2. QED
    BY <1>3, <2>1 DEF FirstPly
<1>8. QED
  BY <1>1, <1>6, <1>7

\* From the position command an engine gets the position, whatever its mode.
LEMMA CommandReplays ==
    ASSUME History, Ageing(vecPos), AllReadable(vecPos), Walk,
           NEW mode, mode = vecPos[1].chess960 \/ mode = TRUE
    PROVE  Replayed(uci_position_command(vecPos, lastMoves), mode) = InMode(Last(vecPos), mode)
<1>1. PICK n \in Nat : /\ n = Len(lastMoves) /\ Len(vecPos) = n + 1
  BY Lengths DEF History, WellFormed
<1>2. PICK f : f = FirstPly(vecPos) /\ f \in 0..n
  <2>1. n + 1 \in 1..Len(vecPos)
    BY <1>1
  <2>2. PICK r \in 0..100 : r = Last(vecPos).rule50
    BY <1>1, <2>1 DEF History, WellFormed, Last
  <2>3. Len(vecPos) - 1 = n
    BY <1>1
  <2>4. FirstPly(vecPos) = IF r > n THEN 0 ELSE n - r
    BY <2>2, <2>3, Zenon DEF FirstPly
  <2>5. (IF r > n THEN 0 ELSE n - r) \in 0..n
    OBVIOUS
  <2>6. QED
    BY <2>4, <2>5, Zenon
<1>3. PICK l \in Nat : l = n - f /\ f + l = n
  BY <1>2
<1>4. PICK cmd : cmd = uci_position_command(vecPos, lastMoves)
  OBVIOUS
<1>5. Len(cmd.moves) = l
  BY <1>1, <1>2, <1>3, <1>4, MovesTold
<1>6. /\ cmd.fen = pos_get(vecPos[f + 1])
      /\ \A k \in 1..l : cmd.moves[k] = pos_move_to_lan(vecPos[f + k], lastMoves[f + k])
  <2>1. cmd.moves = [i \in 1..l |-> pos_move_to_lan(vecPos[f + i], lastMoves[f + i])]
    BY <1>1, <1>2, <1>3, <1>4, Zenon DEF uci_position_command
  <2>2. QED
    BY <1>2, <1>4, <2>1 DEF uci_position_command
<1>7. PICK w : w = [k \in 0..l |-> InMode(vecPos[(f + k) + 1], mode)]
  OBVIOUS
<1>8. w[0] = pos_set(cmd.fen, mode)
  <2>1. PICK p : p = vecPos[f + 1]
    OBVIOUS
  <2>2. f + 1 \in 1..Len(vecPos)
    BY <1>1, <1>2
  <2>3. /\ Ready(p) /\ Cells(p) /\ Keyed(p) /\ RooksApart(p)
        /\ p.chess960 \in BOOLEAN /\ p.chess960 = vecPos[1].chess960
    BY <2>1, <2>2, Zenon DEF History, WellFormed, AllReadable, Readable, Walk, OneMode
  <2>4. InMode(p, mode) = pos_set(pos_get(p), mode)
    <3>1. mode = p.chess960 \/ mode = TRUE
      BY <2>3, Zenon
    <3>2. QED
      BY <2>3, <3>1, ToldStart, Zenon
  <2>5. w[0] = InMode(p, mode)
    <3>1. 0 \in 0..l /\ (f + 0) + 1 = f + 1
      BY <1>2
    <3>2. QED
      BY <1>7, <2>1, <3>1, Zenon
  <2>6. QED
    BY <1>6, <2>1, <2>4, <2>5, Zenon
<1>9. ASSUME NEW k \in 1..l
      PROVE  w[k] = pos_move(w[k - 1], pos_lan_to_move(w[k - 1], cmd.moves[k]))
  <2>1. PICK j : j = f + k
    OBVIOUS
  <2>2. /\ j \in 1..Len(lastMoves) /\ j \in 1..Len(vecPos) /\ j > f
        /\ k \in 0..l /\ k - 1 \in 0..l /\ (f + (k - 1)) + 1 = j
    <3>1. j \in 1..n /\ j \in 1..(n + 1) /\ j > f
      BY <1>2, <1>3, <2>1
    <3>2. k \in 0..l /\ k - 1 \in 0..l /\ (f + (k - 1)) + 1 = j
      BY <1>2, <2>1
    <3>3. QED
      BY <1>1, <3>1, <3>2
  <2>3. PICK p, m, q : p = vecPos[j] /\ m = lastMoves[j] /\ q = InMode(p, mode)
    OBVIOUS
  <2>4. /\ Ready(p) /\ IsPosition(p) /\ m \in gen_all_moves(p) /\ vecPos[j + 1] = pos_move(p, m)
    BY <2>2, <2>3 DEF History, WellFormed, Walk, Walked, Cells, BoardOK
  <2>5. m.to \notin p.byColor[p.turn]
    BY <1>2, <2>2, <2>3, NoCastlingTold
  <2>6. InMode(pos_move(p, m), mode) = pos_move(q, pos_lan_to_move(q, pos_move_to_lan(p, m)))
    BY <2>3, <2>4, <2>5, ToldMove
  <2>7. w[k - 1] = q
    BY <1>7, <2>2, <2>3, Zenon
  <2>8. w[k] = InMode(pos_move(p, m), mode)
    BY <1>7, <2>1, <2>2, <2>4, Zenon
  <2>9. cmd.moves[k] = pos_move_to_lan(p, m)
    BY <1>6, <2>1, <2>3, Zenon
  <2>10. QED
    BY <2>6, <2>7, <2>8, <2>9, Zenon
<1>10. Reaches(w, cmd, mode)
  <2>1. DOMAIN w = 0..l /\ w = [k \in 0..l |-> w[k]]
    BY <1>7
  <2>2. ASSUME NEW k \in 0..l
        PROVE  w[k] = IF k = 0 THEN pos_set(cmd.fen, mode)
                      ELSE pos_move(w[k - 1], pos_lan_to_move(w[k - 1], cmd.moves[k]))
    <3>1. k = 0 \/ k \in 1..l
      OBVIOUS
    <3>2. k \in 1..l => k # 0
      OBVIOUS
    <3>3. QED
      BY <1>8, <1>9, <3>1, <3>2, Zenon
  <2>3. w = [k \in 0..l |-> IF k = 0 THEN pos_set(cmd.fen, mode)
                            ELSE pos_move(w[k - 1], pos_lan_to_move(w[k - 1], cmd.moves[k]))]
    BY <2>1, <2>2, Zenon
  <2>4. QED
    BY <1>5, <2>3, Zenon DEF Reaches
<1>11. Replayed(cmd, mode) = w[l]
  BY <1>5, <1>10, ReplayedAs, Zenon
<1>12. w[l] = InMode(Last(vecPos), mode)
  <2>1. l \in 0..l
    OBVIOUS
  <2>2. w[l] = InMode(vecPos[n + 1], mode)
    BY <1>3, <1>7, <2>1
  <2>3. QED
    BY <1>1, <2>2 DEF Last
<1>13. QED
  BY <1>4, <1>11, <1>12, Zenon

\* From the position command an engine gets the position with its counter, in its
\* own mode or in that of the game (game.c:29-54).
THEOREM CommandsReplay == Spec => []PositionCommandReplays
<1>1. History /\ Ageing(vecPos) /\ AllReadable(vecPos) /\ Walk => PositionCommandReplays
  <2>1. HAVE History /\ Ageing(vecPos) /\ AllReadable(vecPos) /\ Walk
  <2>2. PICK cmd : cmd = uci_position_command(vecPos, lastMoves)
    OBVIOUS
  <2>3. ASSUME NEW mode, mode = vecPos[1].chess960 \/ mode = TRUE
        PROVE  Replayed(cmd, mode) = [Last(vecPos) EXCEPT !.chess960 = mode]
    BY <2>1, <2>2, <2>3, CommandReplays, Zenon DEF InMode
  <2>4. QED
    BY <2>2, <2>3, Zenon DEF PositionCommandReplays
<1>2. QED
  BY <1>1, HistoryStarts, HistoryGoesOn, AgeingStarts, AgeingStays, ReadableStarts, ReadableStays,
     WalkStarts, WalkStays, PTL DEF Spec

-----------------------------------------------------------------------------
(* What the PGN file tells.                                                *)

\* Pinned pieces and knights.
LEMMA PinnedOnLine ==
    ASSUME NEW p, Ready(p), NEW s \in p.pins
    PROVE  Aligned(KingDir, King(p), s)
<1>1. PICK us, them, king : us = p.turn /\ them = opposite(us) /\ king = King(p)
  OBVIOUS
<1>2. king \in Square /\ BoardOK(p) /\ them \in Color
  BY <1>1, Sides
<1>3. PICK u : SliderAt(p, them, king, u) /\ Between(king, u) \intersect pos_pieces(p) = {s}
  BY <1>1, WhatIsDerived
<1>4. Aligned(KingDir, king, u) /\ s \in Between(king, u)
  BY <1>2, <1>3, HitsOrSlides
<1>5. PICK d \in KingDir, l \in 1..7 : Reached(king, u, d, l)
  BY <1>4 DEF Aligned
<1>6. PICK i \in 1..(l - 1) : s = Step(king, d, i)
  BY <1>2, <1>4, <1>5, SegmentOf DEF Between
<1>7. i \in 1..7 /\ Reached(king, s, d, i)
  BY <1>2, <1>5, <1>6, Convex
<1>8. QED
  BY <1>1, <1>7 DEF Aligned

\* A move of a knight, a bishop, a rook or a queen.
LEMMA OfficerMoves ==
    ASSUME NEW p, Ready(p), NEW k \in {"KNIGHT", "BISHOP", "ROOK", "QUEEN"},
           NEW m, pos_piece_on(p, m.from) = k
    PROVE  m \in gen_all_moves(p) <=>
             /\ m = move(m.from, m.to, m.prom) /\ PieceGoes(p, m) /\ Kept(p, m) /\ Answered(p, m)
<1>1. BoardOK(p) /\ King(p) \in p.byPiece["KING"] /\ Sound(p)
  BY Sides DEF Ready
<1>2. \A c \in {"PAWN", "KING"} : m.from \notin p.byPiece[c]
  BY <1>1, PieceOn DEF Piece
<1>3. m.from # King(p) /\ m.from \notin p.byPiece["PAWN"] /\ m.from \notin p.byPiece["KING"]
  BY <1>1, <1>2
<1>4. ~PawnGoes(p, m) /\ ~KingStep(p, m)
  BY <1>3 DEF PawnGoes, KingStep, pos_pieces_cp
<1>5. m \notin EnPassant(p)
  BY <1>3, EpMoves DEF EpMove, pos_pieces_cp
<1>6. m \notin gen_castling_moves(p)
  BY <1>3, CastleVerified
<1>7. QED
  BY <1>3, <1>4, <1>5, <1>6, GeneratedMoves

\* The contesters of a legal move are the pieces of its kind that could make it.
LEMMA ContestersAre ==
    ASSUME NEW p, Ready(p), NEW k \in {"KNIGHT", "BISHOP", "ROOK", "QUEEN"},
           NEW m \in gen_all_moves(p), pos_piece_on(p, m.from) = k,
           NEW s, NEW x, x = move(s, m.to, NB_PIECE)
    PROVE  s \in Contesters(p, m.from, m.to) <=>
             s # m.from /\ pos_piece_on(p, s) = k /\ x \in gen_all_moves(p)
<1>1. PICK us, to, occ, king : us = p.turn /\ to = m.to /\ occ = pos_pieces(p) /\ king = King(p)
  OBVIOUS
<1>2. /\ BoardOK(p) /\ us \in Color /\ king \in Square /\ p.byColor[us] \subseteq Square
      /\ p.byColor[us] \subseteq occ
  BY <1>1, Sides
<1>3. /\ PieceGoes(p, m) /\ Answered(p, m) /\ to \in Square \ p.byColor[us]
  BY <1>1, OfficerMoves DEF PieceGoes
<1>4. x.from = s /\ x.to = to /\ x.prom = NB_PIECE /\ x = move(x.from, x.to, x.prom)
  BY <1>1 DEF move
<1>5. Answered(p, x)
  BY <1>1, <1>3, <1>4 DEF Answered
<1>6. pos_piece_on(p, s) = k =>
        (x \in gen_all_moves(p) <=> PieceGoes(p, x) /\ Kept(p, x))
  BY <1>4, <1>5, OfficerMoves
<1>7. s \in pos_pieces_cp(p, us, k) <=> s \in p.byColor[us] /\ pos_piece_on(p, s) = k
  <2>1. k \in Piece
    BY DEF Piece
  <2>2. s \in p.byColor[us] => pos_piece_on(p, s) \in Piece /\ s \in p.byPiece[pos_piece_on(p, s)]
    BY <1>1, <1>2, PieceOn
  <2>3. s \in p.byPiece[k] => pos_piece_on(p, s) = k
    BY <1>2, <2>1, PieceOn
  <2>4. QED
    BY <2>2, <2>3 DEF pos_pieces_cp
<1>8. s \in pos_pieces_cp(p, us, k) => (PieceGoes(p, x) <=> Hits(p, us, s, to, occ))
  <2>1. HAVE s \in pos_pieces_cp(p, us, k)
  <2>2. s \in p.byColor[us] \ p.byPiece["PAWN"]
    BY <1>2, <2>1 DEF pos_pieces_cp, BoardOK, Piece
  <2>3. QED
    BY <1>1, <1>3, <1>4, <2>2 DEF PieceGoes
<1>9. PieceGoes(p, x) => s \in p.byColor[us]
  BY <1>1, <1>4 DEF PieceGoes
<1>10. Kept(p, x) <=> to \in Allowed(p, s)
  BY <1>1, <1>3, <1>4 DEF Kept, Allowed
<1>11. CASE k = "KNIGHT"
  <2>1. s \in pos_pieces_cp(p, us, k) =>
          (Hits(p, us, s, to, occ) <=> s \in KnightAttacks[to] /\ to \in KnightAttacks[s])
    <3>1. HAVE s \in pos_pieces_cp(p, us, k)
    <3>2. s \in Square /\ \A c \in Piece \ {"KNIGHT"} : s \notin p.byPiece[c]
      BY <1>2, <1>11, <3>1 DEF pos_pieces_cp, BoardOK, Piece
    <3>3. s \in KnightAttacks[to] <=> to \in KnightAttacks[s]
      BY <1>3, <3>2, LeapsOneWay
    <3>4. QED
      BY <1>11, <3>1, <3>2, <3>3 DEF Hits, pos_pieces_cp, pos_pieces_cpp, Piece
  <2>2. s \in KnightAttacks[to] /\ to \in KnightAttacks[s] => (Kept(p, x) <=> s \notin p.pins)
    <3>1. s \in p.pins /\ to \in KnightAttacks[s] => to \notin Ray[king][s]
      BY <1>1, <1>2, PinnedOnLine, KnightOffRay
    <3>2. QED
      BY <1>1, <1>4, <3>1 DEF Kept
  <2>3. s \in Contesters(p, m.from, to) <=>
          s \in pos_pieces_cp(p, us, k) /\ s # m.from /\ s \in KnightAttacks[to] /\ s \notin p.pins
    BY <1>1, <1>11 DEF Contesters
  <2>4. s \in pos_pieces_cp(p, us, k) /\ s \in KnightAttacks[to] => to \in KnightAttacks[s]
    BY <1>2, <1>3, LeapsOneWay DEF pos_pieces_cp
  <2>5. QED
    BY <1>1, <1>6, <1>7, <1>8, <1>9, <2>1, <2>2, <2>3, <2>4
<1>12. CASE k \in {"BISHOP", "ROOK", "QUEEN"}
  <2>1. PICK reach : reach = CASE k = "ROOK" -> bb_rook_attacks(to, occ)
                               [] k = "BISHOP" -> bb_bishop_attacks(to, occ)
                               [] k = "QUEEN" -> bb_rook_attacks(to, occ) \union bb_bishop_attacks(to, occ)
    OBVIOUS
  <2>2. s \in pos_pieces_cp(p, us, k) => (Hits(p, us, s, to, occ) <=> s \in reach)
    <3>1. HAVE s \in pos_pieces_cp(p, us, k)
    <3>2. \A c \in Piece \ {k} : s \notin p.byPiece[c]
      BY <1>2, <1>12, <3>1 DEF pos_pieces_cp, BoardOK, Piece
    <3>3. /\ s \notin pos_pieces_cp(p, us, "KING") /\ s \notin pos_pieces_cp(p, us, "KNIGHT")
          /\ s \notin pos_pieces_cp(p, us, "PAWN")
          /\ s \in pos_pieces_cpp(p, us, "ROOK", "QUEEN") <=> k \in {"ROOK", "QUEEN"}
          /\ s \in pos_pieces_cpp(p, us, "BISHOP", "QUEEN") <=> k \in {"BISHOP", "QUEEN"}
      BY <1>12, <3>1, <3>2 DEF pos_pieces_cp, pos_pieces_cpp, Piece
    <3>4. Hits(p, us, s, to, occ) <=>
            \/ k \in {"ROOK", "QUEEN"} /\ s \in bb_rook_attacks(to, occ)
            \/ k \in {"BISHOP", "QUEEN"} /\ s \in bb_bishop_attacks(to, occ)
      BY <1>2, <1>3, <3>3, HitsBack
    <3>5. QED
      BY <1>12, <2>1, <3>4
  <2>3. Contesters(p, m.from, to) =
          {y \in (pos_pieces_cp(p, us, k) \ {m.from}) \intersect reach : Contenders(p, y, to)}
    BY <1>1, <1>12, <2>1, Zenon DEF Contesters
  <2>4. s \in Contesters(p, m.from, to) <=>
          s \in pos_pieces_cp(p, us, k) /\ s # m.from /\ s \in reach /\ to \in Allowed(p, s)
    BY <2>3 DEF Contenders
  <2>5. QED
    BY <1>1, <1>6, <1>7, <1>8, <1>9, <1>10, <2>2, <2>4
<1>13. QED
  BY <1>11, <1>12

\* What is written of the square of such a piece.
LEMMA DisambiguationIs ==
    ASSUME NEW from, NEW C, NEW d, d = Disambiguation(from, C)
    PROVE  /\ d.file \union d.rank = {} <=> C = {}
           /\ d.file \in {{}, {file_of(from)}} /\ d.rank \in {{}, {rank_of(from)}}
           /\ \A s \in C \intersect Square :
                /\ rank_of(s) = rank_of(from) => d.file # {}
                /\ file_of(s) = file_of(from) => d.rank # {}
           /\ C # {} => d.file # {} \/ d.rank # {}
<1>1. PICK rank \in BOOLEAN, file \in BOOLEAN :
        /\ rank = (C \intersect Rank(rank_of(from)) # {})
        /\ file = (C \intersect File(file_of(from)) # {})
  OBVIOUS
<1>2. /\ d.file = IF rank \/ (C # {} /\ ~file) THEN {file_of(from)} ELSE {}
      /\ d.rank = IF file THEN {rank_of(from)} ELSE {}
  BY <1>1 DEF Disambiguation
<1>3. C = {} => ~rank /\ ~file
  BY <1>1
<1>4. ASSUME NEW s \in C \intersect Square
      PROVE  (rank_of(s) = rank_of(from) => rank) /\ (file_of(s) = file_of(from) => file)
  BY <1>1 DEF Rank, File
<1>5. QED
  BY <1>2, <1>3, <1>4


\* The parts of a notation.
LEMMA SanIs ==
    ASSUME NEW p, NEW m, NEW k, k = pos_piece_on(p, m.from), NEW x, x = pos_move_to_san(p, m)
    PROVE  /\ x.prom = m.prom
           /\ pos_move_is_castling(p, m) =>
                x.piece = (IF m.to > m.from THEN "O-O" ELSE "O-O-O")
           /\ ~pos_move_is_castling(p, m) => x.piece = k /\ x.to = {m.to}
           /\ k = "PAWN" => x.from.file = {file_of(m.from)}
           /\ k = "KING" => x.from.file \union x.from.rank = {}
           /\ k \notin {"PAWN", "KING"} =>
                x.from = Disambiguation(m.from, Contesters(p, m.from, m.to))
BY DEF pos_move_to_san

\* The kinds of the moves that are not castling.
LEMMA PieceMoving ==
    ASSUME NEW p, Ready(p), NEW m \in gen_all_moves(p), NEW k, k = pos_piece_on(p, m.from)
    PROVE  /\ k \in Piece /\ m.from \in p.byPiece[k]
           /\ k = "KING" <=> m.from = King(p)
           /\ pos_move_is_castling(p, m) => k = "KING"
<1>1. /\ BoardOK(p) /\ p.turn \in Color /\ King(p) \in p.byPiece["KING"]
      /\ pos_pieces_cp(p, p.turn, "KING") = {King(p)} /\ King(p) \in p.byColor[p.turn]
  BY Sides
<1>2. m.from \in p.byColor[p.turn] /\ (pos_move_is_castling(p, m) => m.from = King(p))
  BY MoveKinds DEF pos_move_is_castling
<1>3. k \in Piece /\ m.from \in p.byPiece[k]
  BY <1>1, <1>2, PieceOn, ColoredPieces
<1>4. pos_piece_on(p, King(p)) = "KING"
  BY <1>1, PieceOn DEF Piece
<1>5. k = "KING" => m.from = King(p)
  BY <1>1, <1>2, <1>3 DEF pos_pieces_cp
<1>6. QED
  BY <1>2, <1>3, <1>4, <1>5

\* The ways of a pawn.
LEMMA PawnWays ==
    ASSUME NEW p, Ready(p), NEW m \in gen_all_moves(p), pos_piece_on(p, m.from) = "PAWN",
           NEW us, us = p.turn
    PROVE  /\ m.from \in pos_pieces_cp(p, us, "PAWN") /\ m.from \in Square /\ m.to \in Square
           /\ \/ m.to \in PawnAttacks[us][m.from]
              \/ m.to = m.from + push_inc(us)
              \/ m.to = m.from + 2 * push_inc(us) /\ m.from + push_inc(us) \notin pos_pieces(p)
<1>1. us \in Color /\ Sound(p) /\ opposite(opposite(us)) = us /\ opposite(us) \in Color
  BY Sides DEF Ready
<1>2. m.from \in p.byPiece["PAWN"] /\ m.from # King(p)
  BY PieceMoving
<1>3. m.from \in p.byColor[us] /\ m.from \in Square /\ m.to \in Square
  BY MoveKinds
<1>4. ~PieceGoes(p, m) /\ ~KingStep(p, m) /\ m \notin gen_castling_moves(p)
  BY <1>2, CastleVerified DEF PieceGoes, KingStep
<1>5. PawnGoes(p, m) \/ m \in EnPassant(p)
  BY <1>4, GeneratedMoves
<1>6. m \in EnPassant(p) => m.to \in PawnAttacks[us][m.from]
  <2>1. m \in EnPassant(p) => m.from \in PawnAttacks[opposite(us)][m.to]
    BY EpMoves DEF EpMove
  <2>2. QED
    BY <1>1, <1>3, <2>1, LeapsOneWay
<1>7. QED
  BY <1>2, <1>3, <1>5, <1>6 DEF PawnGoes, pos_pieces_cp

\* Two pawns of a file do not go to the same square.
LEMMA PawnsApart ==
    ASSUME NEW p, Ready(p), NEW l \in gen_all_moves(p), pos_piece_on(p, l.from) = "PAWN",
           NEW m \in gen_all_moves(p), pos_piece_on(p, m.from) = "PAWN",
           l.to = m.to, file_of(l.from) = file_of(m.from)
    PROVE  l.from = m.from
<1>1. PICK us, to, a, b : us = p.turn /\ to = m.to /\ a = l.from /\ b = m.from
  OBVIOUS
<1>2. /\ us \in Color /\ a \in Square /\ b \in Square /\ to \in Square
      /\ a \in pos_pieces(p) /\ b \in pos_pieces(p)
  BY <1>1, PawnWays, Sides DEF pos_pieces_cp
<1>3. PICK g \in {8, -8} : g = push_inc(us)
  BY <1>2 DEF push_inc
<1>4. PICK i \in 0..7, j \in 0..7, f \in 0..7 : a = 8 * i + f /\ b = 8 * j + f
  <2>1. PICK i \in 0..7, f \in 0..7 : i = rank_of(a) /\ f = file_of(a) /\ a = 8 * i + f
    <3>1. rank_of(a) \in 0..7 /\ file_of(a) \in 0..7 /\ a = 8 * rank_of(a) + file_of(a)
      BY <1>2, RankAndFile, Zenon
    <3>2. QED
      BY <3>1, Zenon
  <2>2. PICK j \in 0..7, h \in 0..7 : j = rank_of(b) /\ h = file_of(b) /\ b = 8 * j + h
    <3>1. rank_of(b) \in 0..7 /\ file_of(b) \in 0..7 /\ b = 8 * rank_of(b) + file_of(b)
      BY <1>2, RankAndFile, Zenon
    <3>2. QED
      BY <3>1, Zenon
  <2>3. h = f
    BY <1>1, <2>1, <2>2
  <2>4. QED
    BY <2>1, <2>2, <2>3
<1>5. ASSUME NEW s \in {a, b}
      PROVE  \/ \E e \in {-1, 0, 1} : to = s + g + e
             \/ to = s + 2 * g /\ s + g \notin pos_pieces(p)
  <2>1. s \in Square /\ s \in Int
    BY <1>2 DEF Square, NB_SQUARE
  <2>2. \/ to \in PawnAttacks[us][s] \/ to = s + g
        \/ to = s + 2 * g /\ s + g \notin pos_pieces(p)
    <3>1. CASE s = a
      BY <1>1, <1>3, <3>1, PawnWays
    <3>2. CASE s = b
      BY <1>1, <1>3, <3>2, PawnWays
    <3>3. QED
      BY <3>1, <3>2
  <2>3. to \in PawnAttacks[us][s] => to = s + g - 1 \/ to = s + g + 1
    BY <1>2, <1>3, <2>1, PawnShifts
  <2>4. (to = s + g - 1 => to = s + g + (-1)) /\ (to = s + g => to = s + g + 0)
    BY <2>1
  <2>5. QED
    BY <2>2, <2>3, <2>4
<1>6. PICK y \in Int : y = to
  BY <1>2 DEF Square, NB_SQUARE
<1>7. CASE (\E e \in {-1, 0, 1} : to = a + g + e) /\ (\E e \in {-1, 0, 1} : to = b + g + e)
  <2>1. PICK d \in {-1, 0, 1} : y = 8 * i + f + g + d
    BY <1>4, <1>6, <1>7
  <2>2. PICK e \in {-1, 0, 1} : y = 8 * j + f + g + e
    BY <1>4, <1>6, <1>7
  <2>3. i = j
    BY <2>1, <2>2
  <2>4. QED
    BY <1>1, <1>4, <2>3
<1>8. ASSUME NEW s \in {a, b}, NEW t \in {a, b}, NEW m1 \in 0..7, NEW n1 \in 0..7,
             s = 8 * m1 + f, t = 8 * n1 + f,
             to = s + 2 * g, s + g \notin pos_pieces(p), NEW e \in {-1, 0, 1}, to = t + g + e
      PROVE  FALSE
  <2>1. 8 * m1 + f + 2 * g = 8 * n1 + f + g + e
    BY <1>8
  <2>2. 8 * n1 + f = 8 * m1 + f + g
    BY <2>1
  <2>3. s + g = t
    BY <1>8, <2>2
  <2>4. QED
    BY <1>2, <1>8, <2>3
<1>9. CASE to = a + 2 * g /\ to = b + 2 * g
  <2>1. 8 * i + f + 2 * g = 8 * j + f + 2 * g
    BY <1>4, <1>9
  <2>2. i = j
    BY <2>1
  <2>3. QED
    BY <1>1, <1>4, <2>2
<1>10. QED
  BY <1>4, <1>5, <1>7, <1>8, <1>9

\* Two legal moves have two notations.
LEMMA SanApart ==
    ASSUME NEW p, Ready(p), RooksApart(p), NEW l \in gen_all_moves(p), NEW m \in gen_all_moves(p),
           pos_move_to_san(p, m) = pos_move_to_san(p, l)
    PROVE  m = l
<1>1. PICK x, j, k : x = pos_move_to_san(p, l) /\ j = pos_piece_on(p, l.from) /\ k = pos_piece_on(p, m.from)
  OBVIOUS
<1>2. x = pos_move_to_san(p, m)
  BY <1>1
<1>3. /\ l = move(l.from, l.to, l.prom) /\ m = move(m.from, m.to, m.prom)
      /\ l.from \in Square /\ m.from \in Square /\ l.to \in Square /\ m.to \in Square
      /\ j \in Piece /\ k \in Piece
      /\ j = "KING" => l.from = King(p)
      /\ k = "KING" => m.from = King(p)
      /\ pos_move_is_castling(p, l) => j = "KING" /\ l.to \in CastleRooks(p, p.turn)
      /\ pos_move_is_castling(p, m) => k = "KING" /\ m.to \in CastleRooks(p, p.turn)
  BY <1>1, MoveKinds, PieceMoving DEF pos_move_is_castling
<1>4. /\ x.prom = l.prom
      /\ pos_move_is_castling(p, l) => x.piece = (IF l.to > l.from THEN "O-O" ELSE "O-O-O")
      /\ ~pos_move_is_castling(p, l) => x.piece = j /\ x.to = {l.to}
      /\ j = "PAWN" => x.from.file = {file_of(l.from)}
      /\ j \notin {"PAWN", "KING"} => x.from = Disambiguation(l.from, Contesters(p, l.from, l.to))
  BY <1>1, SanIs
<1>5. /\ x.prom = m.prom
      /\ pos_move_is_castling(p, m) => x.piece = (IF m.to > m.from THEN "O-O" ELSE "O-O-O")
      /\ ~pos_move_is_castling(p, m) => x.piece = k /\ x.to = {m.to}
      /\ k = "PAWN" => x.from.file = {file_of(m.from)}
      /\ k \notin {"PAWN", "KING"} => x.from = Disambiguation(m.from, Contesters(p, m.from, m.to))
  BY <1>1, <1>2, SanIs
<1>6. pos_move_is_castling(p, l) <=> pos_move_is_castling(p, m)
  BY <1>3, <1>4, <1>5 DEF Piece
<1>7. SUFFICES l.from = m.from /\ l.to = m.to
  BY <1>3, <1>4, <1>5, <1>7
<1>8. CASE pos_move_is_castling(p, l)
  <2>1. l.from = m.from /\ l.from = King(p) /\ (l.to > l.from <=> m.to > m.from)
    BY <1>3, <1>4, <1>5, <1>6, <1>8
  <2>2. PICK king, us : king = King(p) /\ us = p.turn
    OBVIOUS
  <2>3. /\ l.to \in CastleRooks(p, us) /\ m.to \in CastleRooks(p, us) /\ us \in Color
        /\ king = pos_king_square(p, us) /\ king \in p.byPiece["KING"] /\ king \in Square
    BY <1>3, <1>6, <1>8, <2>2, Sides
  <2>4. l.to # king /\ m.to # king
    <3>1. CastleRooks(p, us) \subseteq p.byPiece["ROOK"] /\ BoardOK(p)
      BY DEF Ready, Sound, RightsSound, CastleRooks
    <3>2. QED
      BY <2>3, <3>1 DEF BoardOK, Piece
  <2>5. l.to < king <=> m.to < king
    <3>1. l.to \in Int /\ m.to \in Int /\ king \in Int
      BY <1>3, <2>3 DEF Square, NB_SQUARE
    <3>2. QED
      BY <2>1, <2>2, <2>4, <3>1
  <2>6. l.to = m.to
    BY <2>3, <2>5 DEF RooksApart
  <2>7. QED
    BY <2>1, <2>6
<1>9. CASE ~pos_move_is_castling(p, l)
  <2>1. j = k /\ l.to = m.to
    BY <1>4, <1>5, <1>6, <1>9
  <2>2. CASE j = "PAWN"
    <3>1. file_of(l.from) = file_of(m.from)
      BY <1>4, <1>5, <2>1, <2>2
    <3>2. QED
      BY <1>1, <2>1, <2>2, <3>1, PawnsApart
  <2>3. CASE j = "KING"
    BY <1>3, <2>1, <2>3
  <2>4. CASE j \notin {"PAWN", "KING"}
    <3> SUFFICES ASSUME l.from # m.from PROVE FALSE
      BY <2>1
    <3>1. j \in {"KNIGHT", "BISHOP", "ROOK", "QUEEN"}
      BY <1>3, <2>4 DEF Piece
    <3>2. m.prom = NB_PIECE /\ l.prom = NB_PIECE
      BY <1>1, <2>1, <3>1, OfficerMoves DEF PieceGoes
    <3>3. PICK C, D : C = Contesters(p, l.from, l.to) /\ D = Contesters(p, m.from, m.to)
      OBVIOUS
    <3>4. m.from \in C
      BY <1>1, <1>3, <2>1, <3>1, <3>2, <3>3, ContestersAre, ZenonT(40)
    <3>5. l.from \in D
      BY <1>1, <1>3, <2>1, <3>1, <3>2, <3>3, ContestersAre, ZenonT(40)
    <3>6. PICK d : d = x.from
      OBVIOUS
    <3>7. d = Disambiguation(l.from, C) /\ d = Disambiguation(m.from, D)
      BY <1>4, <1>5, <2>1, <2>4, <3>3, <3>6
    <3>8. /\ d.file \in {{}, {file_of(l.from)}} /\ d.rank \in {{}, {rank_of(l.from)}}
          /\ rank_of(m.from) = rank_of(l.from) => d.file # {}
          /\ file_of(m.from) = file_of(l.from) => d.rank # {}
          /\ d.file # {} \/ d.rank # {}
      <4>1. PICK from : from = l.from
        OBVIOUS
      <4>2. d = Disambiguation(from, C) /\ m.from \in C \intersect Square
        BY <1>3, <3>4, <3>7, <4>1
      <4>3. /\ d.file \in {{}, {file_of(from)}} /\ d.rank \in {{}, {rank_of(from)}}
            /\ \A s \in C \intersect Square :
                 /\ rank_of(s) = rank_of(from) => d.file # {}
                 /\ file_of(s) = file_of(from) => d.rank # {}
            /\ C # {} => d.file # {} \/ d.rank # {}
        BY <4>2, DisambiguationIs
      <4>4. QED
        BY <4>1, <4>2, <4>3
    <3>9. d.file \in {{}, {file_of(m.from)}} /\ d.rank \in {{}, {rank_of(m.from)}}
      BY <3>7, DisambiguationIs
    <3>10. d.file # {} => file_of(m.from) = file_of(l.from)
      BY <3>8, <3>9
    <3>11. d.rank # {} => rank_of(m.from) = rank_of(l.from)
      BY <3>8, <3>9
    <3>12. file_of(m.from) = file_of(l.from) /\ rank_of(m.from) = rank_of(l.from)
      BY <3>8, <3>10, <3>11
    <3>13. /\ l.from = 8 * rank_of(l.from) + file_of(l.from)
           /\ m.from = 8 * rank_of(m.from) + file_of(m.from)
      BY <1>3, RankAndFile, Zenon
    <3>14. QED
      BY <3>12, <3>13, Zenon
  <2>5. QED
    BY <2>2, <2>3, <2>4
<1>10. QED
  BY <1>8, <1>9


\* The other moves to the square, by pieces of the kind.
Rivals(p, m, k) ==
    {n \in gen_all_moves(p) : n.to = m.to /\ n.from # m.from /\ pos_piece_on(p, n.from) = k}

\* A file or a rank is named if another piece of the kind could make the move.
LEMMA RivalsAre ==
    ASSUME NEW p, Ready(p), NEW m \in gen_all_moves(p), ~pos_move_is_castling(p, m),
           NEW k, k = pos_piece_on(p, m.from), k # "PAWN",
           NEW x, x = pos_move_to_san(p, m),
           NEW rivals, rivals = Rivals(p, m, k)
    PROVE  x.from.file \union x.from.rank = {} <=> rivals = {}
<1>1. k \in Piece /\ (k = "KING" <=> m.from = King(p))
  BY PieceMoving
<1>2. CASE k = "KING"
  <2>1. x.from.file \union x.from.rank = {}
    BY <1>2, SanIs, ZenonT(40)
  <2>2. \A n \in gen_all_moves(p) : pos_piece_on(p, n.from) = k => n.from = m.from
    BY <1>1, <1>2, PieceMoving
  <2>3. QED
    BY <2>1, <2>2 DEF Rivals
<1>3. CASE k # "KING"
  <2>1. k \in {"KNIGHT", "BISHOP", "ROOK", "QUEEN"}
    BY <1>1, <1>3 DEF Piece
  <2>2. PICK C, d, from : C = Contesters(p, m.from, m.to) /\ d = x.from /\ from = m.from
    OBVIOUS
  <2>3. d = Disambiguation(from, C)
    BY <1>3, <2>2, SanIs
  <2>4. d.file \union d.rank = {} <=> C = {}
    BY <2>3, DisambiguationIs
  <2>5. ASSUME NEW s \in C PROVE rivals # {}
    <3>1. PICK y : y = move(s, m.to, NB_PIECE)
      OBVIOUS
    <3>2. s # m.from /\ pos_piece_on(p, s) = k /\ y \in gen_all_moves(p)
      BY <2>1, <2>2, <3>1, ContestersAre
    <3>3. y.from = s /\ y.to = m.to
      BY <3>1 DEF move
    <3>4. QED
      BY <3>2, <3>3 DEF Rivals
  <2>6. ASSUME NEW n \in rivals PROVE C # {}
    <3>1. /\ n \in gen_all_moves(p) /\ n.to = m.to /\ n.from # m.from
          /\ pos_piece_on(p, n.from) = k
      BY DEF Rivals
    <3>2. n = move(n.from, n.to, n.prom) /\ n.prom = NB_PIECE
      BY <2>1, <3>1, OfficerMoves DEF PieceGoes
    <3>3. PICK s : s = n.from
      OBVIOUS
    <3>4. n = move(s, m.to, NB_PIECE)
      BY <3>1, <3>2, <3>3
    <3>5. s \in C
      BY <2>1, <2>2, <3>1, <3>3, <3>4, ContestersAre
    <3>6. QED
      BY <3>5
  <2>7. QED
    BY <2>2, <2>4, <2>5, <2>6
<1>4. QED
  BY <1>2, <1>3

\* The checkers tell check.
LEMMA CheckIsSeen ==
    ASSUME NEW p, Ready(p)
    PROVE  p.checkers # {} <=> Rules!InCheck(Placement(p), p.turn)
<1>1. PICK us, them, king, P : us = p.turn /\ them = opposite(us) /\ king = King(p) /\ P = Placement(p)
  OBVIOUS
<1>2. /\ us \in Color /\ king \in Square /\ pos_pieces_cp(p, us, "KING") = {king}
      /\ BoardOK(p) /\ king = pos_king_square(p, us)
  BY <1>1, Sides
<1>3. Places(p, P)
  BY <1>1, <1>2, PlacesPlaced
<1>4. Rules!InCheck(P, us) <=> ~Unhit(p, us)
  BY <1>2, <1>3, RulesCheck
<1>5. \A u : u \in p.checkers <=> Hits(p, them, u, king, pos_pieces(p))
  BY <1>1, WhatIsDerived
<1>6. QED
  BY <1>1, <1>2, <1>4, <1>5 DEF Unhit

\* The number goes up after each move of black, and starts again at 2^16.
LEMMA NumberOn ==
    ASSUME NEW F \in Nat, NEW i \in Nat, NEW w, w = 2^16,
           NEW h, h = i \div 2, NEW b, b = i % 2, NEW g, g = (i + 1) \div 2
    PROVE  (((F + h) % w) + b) % w = (F + g) % w
<1>1. h \in Int /\ b \in 0..1
  OBVIOUS
<1>2. h \in Nat /\ b \in {0, 1} /\ i = 2 * h + b /\ g = h + b
  <2>1. i = 2 * h + b
    OBVIOUS
  <2>2. QED
    BY <1>1, <2>1
<1>3. PICK x \in Nat : x = F + h
  BY <1>2
<1>4. w = 65536
  OBVIOUS
<1>5. ((x % 65536) + b) % 65536 = (x + b) % 65536
  BY <1>2
<1>6. F + (h + b) = x + b
  BY <1>2, <1>3
<1>7. (((F + h) % w) + b) % w = (F + (h + b)) % w
  BY <1>3, <1>4, <1>5, <1>6
<1>8. QED
  BY <1>2, <1>7, Zenon

\* Positions are numbered from the number of the opening.
InOrder(vec) ==
    \A k \in 1..Len(vec) :
        vec[k].fullMove = (vec[1].fullMove + ((k - 1) + vec[1].turn) \div 2) % 2^16

\* The opening has the number and the turn of its FEN.
LEMMA InOrderStarts == Init /\ History => InOrder(vecPos)
<1> SUFFICES ASSUME Init, History PROVE InOrder(vecPos)
  OBVIOUS
<1>1. Len(vecPos) = 1
  BY DEF Init
<1>2. PICK p : p = vecPos[1]
  OBVIOUS
<1>3. Readable(p) /\ Ready(p)
  <2>1. Readable(p)
    BY <1>2, StartReadable DEF History
  <2>2. 1 \in 1..Len(vecPos)
    BY <1>1
  <2>3. QED
    BY <1>2, <2>1, <2>2 DEF History, WellFormed
<1>4. PICK top : top = 2^16 - 1
  OBVIOUS
<1>5. PICK F \in 0..top, t \in {0, 1} : F = p.fullMove /\ t = p.turn
  BY <1>3, <1>4 DEF Readable, Ready, Sound, BoardOK, Color, WHITE, BLACK
<1>6. F = (F + ((1 - 1) + t) \div 2) % 2^16
  <2>1. PICK h, w : h = ((1 - 1) + t) \div 2 /\ w = 2^16
    OBVIOUS
  <2>2. h = 0 /\ w = 65536
    BY <2>1
  <2>3. F \in Int /\ 0 <= F /\ F < 65536
    BY <1>4
  <2>4. F + h = F
    BY <2>2, <2>3
  <2>5. \A x \in Int : 0 <= x /\ x < 65536 => x % 65536 = x
    OBVIOUS
  <2>6. F % w = F
    BY <2>2, <2>3, <2>5
  <2>7. QED
    BY <2>1, <2>4, <2>6, Zenon
<1>7. \A k \in 1..Len(vecPos) : k = 1
  BY <1>1
<1>8. QED
  BY <1>2, <1>5, <1>6, <1>7, Zenon DEF InOrder

\* The numbers stay in order with a move more.
LEMMA InOrderGoesOn ==
    ASSUME NEW vec, NEW moves, NEW v, NEW w, Extended(vec, moves, v, w),
           Ageing(vec), AllReadable(vec), InOrder(vec)
    PROVE  InOrder(v)
<1>1. PICK n \in Nat : Len(vec) = n /\ Len(moves) + 1 = n /\ Len(v) = n + 1 /\ Len(w) = n
  BY Lengths DEF Extended, WellFormed
<1>2. Len(moves) \in Nat
  BY Lengths DEF Extended, WellFormed
<1>3. /\ n \in 1..Len(v) /\ n \in 1..Len(w) /\ n \in 1..Len(vec) /\ 1 \in 1..Len(vec)
      /\ 1 <= n /\ n >= 1
  BY <1>1, <1>2
<1>4. PICK F \in Nat, t \in {0, 1} : F = v[1].fullMove /\ t = v[1].turn
  <2>1. Readable(vec[1]) /\ Ready(vec[1]) /\ v[1] = vec[1]
    BY <1>3 DEF Extended, WellFormed, AllReadable
  <2>2. \A x \in 0..(2^16 - 1) : x \in Nat
    OBVIOUS
  <2>3. QED
    BY <2>1, <2>2 DEF Readable, Ready, Sound, BoardOK, Color, WHITE, BLACK
<1>5. PICK i, h, b, g, top :
        /\ i \in Nat /\ i = (n - 1) + t /\ h = i \div 2 /\ b = i % 2
        /\ g = (i + 1) \div 2 /\ top = 2^16
  <2>1. (n - 1) + t \in Nat
    BY <1>3
  <2>2. QED
    BY <2>1
<1>6. v[n].fullMove = (F + h) % top
  <2>1. vec[n].fullMove = (vec[1].fullMove + ((n - 1) + vec[1].turn) \div 2) % 2^16
    BY <1>3, Zenon DEF InOrder
  <2>2. v[1] = vec[1] /\ v[n] = vec[n]
    BY <1>3 DEF Extended
  <2>3. QED
    BY <1>4, <1>5, <2>1, <2>2, Zenon
<1>7. v[n].turn = b
  <2>1. vec[n].turn = (vec[1].turn + (n - 1)) % 2
    BY <1>3, Zenon DEF Ageing, Aged
  <2>2. v[1] = vec[1] /\ v[n] = vec[n]
    BY <1>3 DEF Extended
  <2>3. t + (n - 1) = (n - 1) + t
    OBVIOUS
  <2>4. QED
    BY <1>4, <1>5, <2>1, <2>2, <2>3, Zenon
<1>8. v[n + 1].fullMove = (F + g) % top
  <2>1. v[n + 1].fullMove = (v[n].fullMove + v[n].turn) % 2^16
    BY <1>3 DEF Extended, WellFormed, Played
  <2>2. (((F + h) % top) + b) % top = (F + g) % top
    BY <1>5, NumberOn
  <2>3. QED
    BY <1>5, <1>6, <1>7, <2>1, <2>2, Zenon
<1>9. g = (((n + 1) - 1) + t) \div 2
  <2>1. i + 1 = ((n + 1) - 1) + t
    BY <1>5
  <2>2. QED
    BY <1>5, <2>1, Zenon
<1>10. ASSUME NEW k \in 1..Len(v)
       PROVE  v[k].fullMove = (v[1].fullMove + ((k - 1) + v[1].turn) \div 2) % 2^16
  <2>1. CASE k = n + 1
    BY <1>4, <1>5, <1>8, <1>9, <2>1, Zenon
  <2>2. CASE k # n + 1
    <3>1. k \in 1..Len(vec)
      BY <1>1, <2>2
    <3>2. v[1] = vec[1] /\ v[k] = vec[k]
      BY <1>3, <3>1 DEF Extended
    <3>3. QED
      BY <3>1, <3>2, Zenon DEF InOrder
  <2>3. QED
    BY <2>1, <2>2
<1>11. QED
  BY <1>10, Zenon DEF InOrder

\* InOrder is inductive.
LEMMA InOrderStays ==
    History /\ Ageing(vecPos) /\ AllReadable(vecPos) /\ InOrder(vecPos) /\ [Play]_vars
      => InOrder(vecPos)'
<1> SUFFICES ASSUME History, Ageing(vecPos), AllReadable(vecPos), InOrder(vecPos), [Play]_vars
             PROVE  InOrder(vecPos')
  OBVIOUS
<1>1. CASE Play
  BY <1>1, PlayExtends, InOrderGoesOn
<1>2. CASE UNCHANGED vars
  BY <1>2 DEF vars
<1>3. QED
  BY <1>1, <1>2


\* What is written of the last move.
Written(last, p, m, q, n, end) ==
    /\ last.number = IF p.turn = WHITE \/ n = 1 THEN {p.fullMove} ELSE {}
    /\ last.dots <=> p.turn = BLACK
    /\ last.dots \in BOOLEAN
    /\ last.san = pos_move_to_san(p, m)
    /\ last.mark = IF q.checkers = {} THEN "" ELSE IF end = "CHECKMATE" THEN "#" ELSE "+"

\* The last move of the PGN file, part by part.
LEMMA LastWritten ==
    ASSUME NEW vec, NEW moves, NEW end, NEW n, n = Len(moves), n \in DOMAIN moves,
           NEW last, last = game_export_pgn(vec, moves, end)[n],
           NEW p, p = vec[n], NEW q, q = vec[n + 1], NEW m, m = moves[n]
    PROVE  Written(last, p, m, q, n, end)
<1>1. last = [number |-> IF Numbered(vec, n) THEN {vec[n].fullMove} ELSE {},
              dots |-> vec[n].turn = BLACK,
              san |-> pos_move_to_san(vec[n], moves[n]),
              mark |-> IF vec[n + 1].checkers = {} THEN ""
                       ELSE IF n = Len(moves) /\ end = "CHECKMATE" THEN "#" ELSE "+"]
  BY Zenon DEF game_export_pgn
<1>2. PICK dots \in BOOLEAN : dots = (vec[n].turn = BLACK)
  OBVIOUS
<1>3. PICK number : number = IF Numbered(vec, n) THEN {vec[n].fullMove} ELSE {}
  OBVIOUS
<1>4. PICK san : san = pos_move_to_san(vec[n], moves[n])
  OBVIOUS
<1>5. PICK mark : mark = IF vec[n + 1].checkers = {} THEN ""
                         ELSE IF n = Len(moves) /\ end = "CHECKMATE" THEN "#" ELSE "+"
  BY Zenon
<1>6. last = [number |-> number, dots |-> dots, san |-> san, mark |-> mark]
  BY <1>1, <1>2, <1>3, <1>4, <1>5, Zenon
<1>7. last.number = number /\ last.dots = dots /\ last.san = san /\ last.mark = mark
  BY ONLY <1>6
<1>8. dots <=> p.turn = BLACK
  BY <1>2
<1>9. number = IF p.turn = WHITE \/ n = 1 THEN {p.fullMove} ELSE {}
  BY <1>3, Zenon DEF Numbered
<1>10. mark = IF q.checkers = {} THEN "" ELSE IF end = "CHECKMATE" THEN "#" ELSE "+"
  BY <1>5, Zenon
<1>11. QED
  BY <1>2, <1>3, <1>4, <1>7, <1>8, <1>9, <1>10, Zenon DEF Written

\* Mate is check.
LEMMA MateIsCheck ==
    ASSUME NEW vec, game_apply_chess_rules(vec) = "CHECKMATE"
    PROVE  Last(vec).checkers # {}
BY DEF game_apply_chess_rules

\* In a state with these invariants, the PGN file tells the game.
LEMMA GameTold ==
    ASSUME History, Ageing(vecPos), AllReadable(vecPos), Walk, InOrder(vecPos)
    PROVE  PgnTellsGame
<1> SUFFICES ASSUME lastMoves # <<>> PROVE PgnTellsGame
  BY Zenon DEF PgnTellsGame
<1>1. PICK n \in Nat \ {0} : n = Len(lastMoves) /\ Len(vecPos) = n + 1
  <2>1. IsSequence(lastMoves) /\ Len(vecPos) = Len(lastMoves) + 1
    BY DEF History, WellFormed
  <2>2. Len(lastMoves) \in Nat \ {0}
    BY <2>1 DEF IsSequence
  <2>3. QED
    BY <2>1, <2>2
<1>2. n \in 1..Len(lastMoves) /\ n \in 1..Len(vecPos) /\ n + 1 \in 1..Len(vecPos) /\ 1 \in 1..Len(vecPos)
  BY <1>1
<1>3. n \in DOMAIN lastMoves
  BY <1>2 DEF History, WellFormed, IsSequence
<1>4. PICK p, m, q, last, legal :
        /\ p = vecPos[n] /\ m = lastMoves[n] /\ q = vecPos[n + 1]
        /\ last = game_export_pgn(vecPos, lastMoves, state)[n] /\ legal = gen_all_moves(p)
  OBVIOUS
<1>5. Ready(p) /\ Ready(q) /\ Readable(p) /\ m \in legal /\ pos = q
  BY <1>1, <1>2, <1>4 DEF History, WellFormed, AllReadable, Walk, Walked, pos, Last
<1>6. /\ last.number = IF p.turn = WHITE \/ n = 1 THEN {p.fullMove} ELSE {}
      /\ last.dots <=> p.turn = BLACK
      /\ last.dots \in BOOLEAN
      /\ last.san = pos_move_to_san(p, m)
      /\ last.mark = IF q.checkers = {} THEN "" ELSE IF state = "CHECKMATE" THEN "#" ELSE "+"
  <2>1. Written(last, p, m, q, n, state)
    BY <1>1, <1>3, <1>4, LastWritten, Zenon
  <2>2. QED
    BY <2>1, Zenon DEF Written
<1>7. {x \in legal : pos_move_to_san(p, x) = last.san} = {m}
  <2>1. ASSUME NEW x \in legal, pos_move_to_san(p, x) = last.san PROVE x = m
    <3>1. pos_move_to_san(p, x) = pos_move_to_san(p, m) /\ RooksApart(p)
      BY <1>5, <1>6, <2>1 DEF Readable
    <3>2. x \in gen_all_moves(p) /\ m \in gen_all_moves(p)
      BY <1>4, <1>5
    <3>3. QED
      BY <1>5, <3>1, <3>2, SanApart, Zenon
  <2>2. QED
    BY <1>5, <1>6, <2>1
<1>8. PICK rivals : rivals = {x \in legal : /\ x.to = m.to /\ x.from # m.from
                                           /\ pos_piece_on(p, x.from) = last.san.piece}
  OBVIOUS
<1>9. last.san.piece \notin {"PAWN", "O-O", "O-O-O"} =>
        (last.san.from.file \union last.san.from.rank = {} <=> rivals = {})
  <2>1. HAVE last.san.piece \notin {"PAWN", "O-O", "O-O-O"}
  <2>2. PICK x, k : x = pos_move_to_san(p, m) /\ k = pos_piece_on(p, m.from)
    OBVIOUS
  <2>3. x = last.san /\ x.piece \notin {"PAWN", "O-O", "O-O-O"}
    BY <1>6, <2>1, <2>2
  <2>4. ~pos_move_is_castling(p, m) /\ x.piece = k /\ k # "PAWN"
    <3>1. /\ pos_move_is_castling(p, m) => x.piece = (IF m.to > m.from THEN "O-O" ELSE "O-O-O")
          /\ ~pos_move_is_castling(p, m) => x.piece = k /\ x.to = {m.to}
      BY <2>2, SanIs
    <3>2. QED
      BY <2>3, <3>1
  <2>5. rivals = Rivals(p, m, k)
    BY <1>4, <1>8, <2>3, <2>4 DEF Rivals
  <2>6. x.from.file \union x.from.rank = {} <=> rivals = {}
    <3>1. m \in gen_all_moves(p)
      BY <1>4, <1>5
    <3>2. QED
      BY <1>5, <2>2, <2>4, <2>5, <3>1, RivalsAre, Zenon
  <2>7. QED
    BY <2>3, <2>6
<1>10. PICK number : number = (start.fen.fullMove + (n - 1 + start.fen.turn) \div 2) % 2^16
  OBVIOUS
<1>11. p.fullMove = number
  <2>1. p.fullMove = (vecPos[1].fullMove + ((n - 1) + vecPos[1].turn) \div 2) % 2^16
    BY <1>2, <1>4, Zenon DEF InOrder
  <2>2. vecPos[1].fullMove = start.fen.fullMove /\ vecPos[1].turn = start.fen.turn
    <3>1. IsFen(start.fen)
      BY ChessAssumption DEF History
    <3>2. PICK fen, v : fen = start.fen /\ v = vecPos[1]
      OBVIOUS
    <3>3. IsFen(fen) /\ v = pos_set(fen, FALSE)
      BY <3>1, <3>2, Zenon DEF History
    <3>4. v.fullMove = fen.fullMove /\ v.turn = fen.turn
      BY <3>3, StartBoard, Zenon
    <3>5. QED
      BY <3>2, <3>4, Zenon
  <2>3. QED
    BY <1>10, <2>1, <2>2, Zenon
<1>12. q.checkers # {} <=> Rules!InCheck(Placement(q), q.turn)
  BY <1>5, CheckIsSeen
<1>13. state = "CHECKMATE" => q.checkers # {}
  BY <1>1, <1>4, MateIsCheck DEF History, Last
<1>14. last.mark # "" <=> Rules!InCheck(Placement(q), q.turn)
  BY <1>6, <1>12
<1>15. last.mark = "#" <=> state = "CHECKMATE"
  BY <1>6, <1>13
<1>16. QED
  <2>1. last.number = IF p.turn = WHITE \/ n = 1 THEN {number} ELSE {}
    BY <1>6, <1>11, Zenon
  <2>2. last.san.piece \notin {"PAWN", "O-O", "O-O-O"} =>
             (last.san.from.file \union last.san.from.rank = {}) = (rivals = {})
    BY <1>9, Zenon
  <2>3. last.dots = (p.turn = BLACK)
    BY <1>6, Zenon
  <2>4. (last.mark # "") = Rules!InCheck(Placement(pos), pos.turn)
    <3>1. PICK b : b = Rules!InCheck(Placement(q), q.turn)
      OBVIOUS
    <3>2. b \in BOOLEAN
      <4>1. PICK king, P : king = Rules!KingOf(Placement(q), q.turn)
                           /\ P = Rules!AttackedBy(Placement(q), Rules!opposite(q.turn))
        OBVIOUS
      <4>2. b = (king \in P)
        BY <3>1, <4>1, Zenon DEF Rules!InCheck
      <4>3. QED
        BY ONLY <4>2
    <3>3. last.mark # "" <=> b = TRUE
      BY <1>14, <3>1, <3>2, Zenon
    <3>4. (last.mark # "") = b
      BY <3>2, <3>3, Zenon
    <3>5. QED
      BY <1>5, <3>1, <3>4, Zenon
  <2>5. (last.mark = "#") = (state = "CHECKMATE")
    BY <1>15, Zenon
  <2>6. QED
    BY <1>1, <1>4, <1>7, <1>8, <1>10, <2>1, <2>2, <2>3, <2>4, <2>5, Zenon DEF PgnTellsGame

\* The last move of the PGN file can be read back to the move that was played, names
\* a square only where it must, has its number, and says check and mate where the
\* rules do (game.c:329-360, position.c:582-663).
THEOREM GamesTold == Spec => []PgnTellsGame
<1>1. History /\ Ageing(vecPos) /\ AllReadable(vecPos) /\ Walk /\ InOrder(vecPos) => PgnTellsGame
  BY GameTold
<1>2. QED
  BY <1>1, HistoryStarts, HistoryGoesOn, AgeingStarts, AgeingStays, ReadableStarts, ReadableStays,
     WalkStarts, WalkStays, InOrderStarts, InOrderStays, PTL DEF Spec

-----------------------------------------------------------------------------
(* What a sample takes for its position.                                   *)

\* The piece that moves.
LEMMA Mover ==
    ASSUME NEW p, BoardOK(p), NEW P, P = Placement(p), NEW c \in Color, NEW k \in Piece,
           NEW s \in Square, s \in p.byColor[c], s \in p.byPiece[k]
    PROVE  (CHOOSE y \in P : y[3] = s) = <<c, k, s>>
<1>1. PICK z : z = <<c, k, s>>
  OBVIOUS
<1>2. z \in P /\ z[3] = s
  BY <1>1, Placed
<1>3. PICK x : x = CHOOSE y \in P : y[3] = s
  OBVIOUS
<1>4. x \in P /\ x[3] = s
  BY <1>2, <1>3
<1>5. /\ x[1] \in Color /\ x[2] \in Piece /\ x = <<x[1], x[2], x[3]>>
      /\ s \in p.byColor[x[1]] /\ s \in p.byPiece[x[2]]
  BY <1>4, Placed
<1>6. x[1] = c /\ x[2] = k
  BY <1>5 DEF BoardOK, Color, WHITE, BLACK
<1>7. QED
  BY <1>3, <1>4, <1>5, <1>6

\* What happens to the board if a move takes nothing, promotes nothing and is no
\* castling.
LEMMA QuietAfter ==
    ASSUME NEW P, NEW x, NEW to, NEW z, NEW from,
           x \in P, \A y \in P : y[3] = from <=> y = x, \A y \in P : y[3] # to
    PROVE  {y \in P : y[3] # from /\ y[3] # to} \union {z} = (P \ {x}) \union {z}
OBVIOUS

\* A generated move is tactical if it changes more on the board than one square
\* against another.
LEMMA TacticalIs ==
    ASSUME NEW p, Ready(p), NEW m \in gen_all_moves(p)
    PROVE  Tactical(p, m) <=> pos_move_is_tactical(p, m)
<1>1. PICK us, them, P, k, from, to :
        /\ us = p.turn /\ them = opposite(us) /\ P = Placement(p)
        /\ k = pos_piece_on(p, m.from) /\ from = m.from /\ to = m.to
  OBVIOUS
<1>2. /\ Sound(p) /\ BoardOK(p) /\ HasKing(p, us) /\ us \in Color /\ them \in Color /\ us # them
      /\ pos_pieces(p) = p.byColor[us] \union p.byColor[them]
      /\ p.byColor[us] \intersect p.byColor[them] = {}
      /\ p.byColor[us] \subseteq Square /\ p.byColor[them] \subseteq Square
  BY <1>1, Sides DEF Ready
<1>3. Generated(p, m)
  BY <1>1, <1>2, AllMoves
<1>4. /\ from \in Square /\ to \in Square /\ from \in p.byColor[us]
      /\ k \in Piece /\ from \in p.byPiece[k]
  BY <1>1, MoveKinds, PieceMoving
<1>5. Castles(p, m) <=> to \in p.byColor[us]
  BY <1>1, <1>2, <1>3, CastleSquares, PawnSquares DEF Generated, PieceMove
<1>6. PICK x : x = <<us, k, from>>
  OBVIOUS
<1>7. /\ x \in P /\ x[1] = us /\ x[2] = k /\ x[3] = from
      /\ x = CHOOSE y \in P : y[3] = from
  <2>1. x = CHOOSE y \in P : y[3] = from
    BY <1>1, <1>2, <1>4, <1>6, Mover
  <2>2. x \in P
    BY <1>1, <1>2, <1>4, <1>6, Placed
  <2>3. QED
    BY <1>6, <2>1, <2>2
<1>8. /\ \A y \in P : /\ y[1] \in Color /\ y[2] \in Piece /\ y[3] \in Square /\ y = <<y[1], y[2], y[3]>>
                      /\ y[3] \in p.byColor[y[1]] /\ y[3] \in p.byPiece[y[2]]
      /\ \A c \in Color, l \in Piece, s \in Square :
           <<c, l, s>> \in P <=> s \in p.byColor[c] /\ s \in p.byPiece[l]
  BY <1>1, <1>2, Placed
<1>9. PICK z, Q : z = <<us, k, to>> /\ Q = (P \ {x}) \union {z}
  OBVIOUS
<1>10. PICK A : A = Rules!After(P, us, p.epSquare, m)
  OBVIOUS
<1>11. /\ Castles(p, m) =>
            A = {y \in P : y[3] # m.from /\ y[3] # m.to}
                  \union {<<p.turn, "KING", Rules!KingTo(m.from, m.to)>>,
                          <<p.turn, "ROOK", Rules!RookTo(m.from, m.to)>>}
       /\ ~Castles(p, m) =>
            A = {y \in P : y[3] # m.from /\ y[3] # Taken(p, m)} \union {<<p.turn, Now(p, m), m.to>>}
  <2>1. A = IF Castles(p, m)
            THEN {y \in P : y[3] # m.from /\ y[3] # m.to}
                   \union {<<p.turn, "KING", Rules!KingTo(m.from, m.to)>>,
                           <<p.turn, "ROOK", Rules!RookTo(m.from, m.to)>>}
            ELSE {y \in P : y[3] # m.from /\ y[3] # Taken(p, m)}
                   \union {<<p.turn, Now(p, m), m.to>>}
    BY <1>1, <1>2, <1>3, <1>10, AfterIs, Zenon
  <2>2. QED
    BY <2>1, Zenon
<1>12. Tactical(p, m) <=> A # Q
  <2>1. Tactical(p, m) <=> A # (P \ {x}) \union {<<x[1], x[2], to>>}
    <3>1. Tactical(p, m) <=>
            LET mover == CHOOSE y \in Placement(p) : y[3] = m.from
            IN  Rules!After(Placement(p), p.turn, p.epSquare, m)
                  # (Placement(p) \ {mover}) \union {<<mover[1], mover[2], m.to>>}
      BY Zenon DEF Tactical
    <3>2. x = CHOOSE y \in Placement(p) : y[3] = m.from
      BY <1>1, <1>7, Zenon
    <3>3. Tactical(p, m) <=>
            Rules!After(Placement(p), p.turn, p.epSquare, m)
              # (Placement(p) \ {x}) \union {<<x[1], x[2], m.to>>}
      BY <3>1, <3>2, Zenon
    <3>4. QED
      BY <1>1, <1>10, <3>3, Zenon
  <2>2. QED
    BY <1>7, <1>9, <2>1
<1>13. pos_move_is_tactical(p, m) <=>
         \/ to \in pos_pieces(p) \/ (to = p.epSquare /\ from \in p.byPiece["PAWN"])
         \/ m.prom # NB_PIECE
  BY <1>1, <1>4 DEF pos_move_is_tactical, TakesEnPassant, pos_pieces_cp
<1>14. \A y \in P : y[3] = from <=> y = x
  BY <1>2, <1>4, <1>7, <1>8 DEF BoardOK, Color, WHITE, BLACK
<1>15. CASE Castles(p, m)
  <2>1. to \in pos_pieces(p)
    BY <1>2, <1>5, <1>15
  <2>2. PICK kto, rto : kto = Rules!KingTo(from, to) /\ rto = Rules!RookTo(from, to)
    OBVIOUS
  <2>3. /\ kto # rto /\ from # to /\ k = "KING" /\ to \in p.byPiece["ROOK"] /\ to \in p.byColor[us]
        /\ kto \in Square /\ rto \in Square
    <3>1. from \in p.byPiece["KING"]
      BY <1>1, <1>2, <1>15, CastleSquares
    <3>2. k = "KING"
      BY <1>2, <1>4, <3>1 DEF BoardOK, Piece
    <3>3. QED
      BY <1>1, <1>2, <1>15, <2>2, <3>2, CastleSquares
  <2>4. A = {y \in P : y[3] # from /\ y[3] # to}
              \union {<<us, "KING", kto>>, <<us, "ROOK", rto>>}
    BY <1>1, <1>15, <1>11, <2>2, Zenon
  <2>5. PICK u, v, w : u = <<us, "ROOK", to>> /\ v = <<us, "KING", kto>> /\ w = <<us, "ROOK", rto>>
    OBVIOUS
  <2>6. u \in P /\ u[3] = to /\ z[3] = to /\ u # x
    BY <1>2, <1>4, <1>6, <1>8, <1>9, <2>3, <2>5 DEF Piece
  <2>7. u \in Q /\ z \in Q
    BY <1>9, <2>6
  <2>8. u \in A => u = w
    BY <2>4, <2>5, <2>6
  <2>9. z \in A => z = v
    BY <1>9, <2>3, <2>4, <2>5, <2>6
  <2>10. ~(u = w /\ z = v)
    BY <1>9, <2>3, <2>5
  <2>11. QED
    BY <1>12, <1>13, <2>1, <2>7, <2>8, <2>9, <2>10
<1>16. CASE ~Castles(p, m)
  <2>1. PICK taken, now, w : taken = Taken(p, m) /\ now = Now(p, m) /\ w = <<us, now, to>>
    OBVIOUS
  <2>2. A = {y \in P : y[3] # from /\ y[3] # taken} \union {w}
    BY <1>1, <1>16, <1>11, <2>1, Zenon
  <2>3. to \notin p.byColor[us]
    BY <1>5, <1>16
  <2>4. /\ taken = (IF to = p.epSquare /\ from \in p.byPiece["PAWN"] THEN to - push_inc(us) ELSE to)
        /\ now = (IF m.prom = NB_PIECE THEN k ELSE m.prom)
    BY <1>1, <2>1 DEF Taken, Now
  <2>5. CASE to \in pos_pieces(p)
    <3>1. to \in p.byColor[them] /\ to # p.epSquare
      BY <1>2, <2>3, <2>5 DEF Sound, EpSound, NB_SQUARE, Square
    <3>2. PICK l \in Piece : to \in p.byPiece[l]
      BY <1>2, <2>5, PieceOn
    <3>3. PICK u : u = <<them, l, to>>
      OBVIOUS
    <3>4. u \in P /\ u[3] = to /\ u # x /\ u # w
      BY <1>2, <1>4, <1>6, <1>8, <2>1, <3>1, <3>2, <3>3
    <3>5. u \in Q /\ u \notin A
      BY <1>9, <2>2, <2>4, <3>1, <3>4
    <3>6. QED
      BY <1>12, <1>13, <2>5, <3>5
  <2>6. CASE to \notin pos_pieces(p) /\ to = p.epSquare /\ from \in p.byPiece["PAWN"]
    <3>1. /\ taken \in p.byColor[them] /\ taken \in p.byPiece["PAWN"] /\ taken \in Square
      BY <1>1, <1>2, <1>4, <2>4, <2>6 DEF Sound, EpSound, NB_SQUARE, Square, pos_pieces_cp
    <3>2. PICK u : u = <<them, "PAWN", taken>>
      OBVIOUS
    <3>3. u \in P /\ u[3] = taken /\ u # x /\ u # w
      BY <1>2, <1>4, <1>6, <1>8, <2>1, <3>1, <3>2 DEF Piece
    <3>4. u \in Q /\ u \notin A
      BY <1>9, <2>2, <3>3
    <3>5. QED
      BY <1>12, <1>13, <2>6, <3>4
  <2>7. CASE to \notin pos_pieces(p) /\ ~(to = p.epSquare /\ from \in p.byPiece["PAWN"])
    <3>1. taken = to
      BY <2>4, <2>7
    <3>2. \A y \in P : y[3] # to
      BY <1>2, <1>8, <2>7 DEF Color, WHITE, BLACK
    <3>3. A = (P \ {x}) \union {w}
      BY <1>7, <1>14, <2>2, <3>1, <3>2, QuietAfter
    <3>4. w = z <=> now = k
      BY <1>9, <2>1
    <3>5. w \notin P /\ z \notin P
      BY <1>9, <2>1, <3>2
    <3>6. A = Q <=> now = k
      BY <1>9, <3>3, <3>4, <3>5
    <3>7. now = k <=> m.prom = NB_PIECE
      <4>1. m.prom # NB_PIECE => m.prom # k
        <5>1. HAVE m.prom # NB_PIECE
        <5>2. Promotion(p, m)
          BY <1>3, <1>16, <5>1 DEF Generated, PieceMove, PawnMove, EpMove
        <5>3. k = "PAWN"
          BY <1>1, <1>2, <1>4, <5>2 DEF Promotion, pos_pieces_cp, BoardOK, Piece
        <5>4. QED
          BY <5>2, <5>3 DEF Promotion
      <4>2. QED
        BY <2>4, <4>1
    <3>8. QED
      BY <1>12, <1>13, <2>7, <3>6, <3>7
  <2>8. QED
    BY <2>5, <2>6, <2>7
<1>17. QED
  BY <1>15, <1>16

\* The moves of PVs are proper, whether they are legal or not.
LEMMA PvMovesProper ==
    ASSUME NEW p, Ready(p), NEW m \in PvMoves(p)
    PROVE  Proper(p, m)
<1>1. PICK us, king, P : us = p.turn /\ king = King(p) /\ P = Placement(p)
  OBVIOUS
<1>2. /\ us \in Color /\ BoardOK(p) /\ Sound(p) /\ king \in Square /\ king \in p.byColor[us]
      /\ king \in p.byPiece["KING"] /\ p.byColor[us] \subseteq Square /\ Places(p, P)
      /\ p.byColor[us] \subseteq pos_pieces(p)
      /\ p.byColor[us] \intersect p.byColor[opposite(us)] = {}
  BY <1>1, Sides, PlacesPlaced DEF Ready
<1>3. m \in Rules!PseudoLegal(P, us, p.epSquare) \/ m \in Plain(king, CastleRooks(p, us))
  <2>1. PICK all : all = Rules!PseudoLegal(P, us, p.epSquare) \union Plain(king, CastleRooks(p, us))
    OBVIOUS
  <2>2. PICK quiet : quiet = {n \in all : ~Tactical(p, n)}
    OBVIOUS
  <2>3. PvMoves(p) = (all \ quiet) \union IF quiet = {} THEN {} ELSE {CHOOSE n \in quiet : TRUE}
    BY <1>1, <2>1, <2>2, Zenon DEF PvMoves
  <2>4. m \in all
    BY <2>2, <2>3
  <2>5. QED
    BY <2>1, <2>4
<1>4. CASE m \in Plain(king, CastleRooks(p, us))
  <2>1. PICK r \in CastleRooks(p, us) : m = move(king, r, NB_PIECE)
    BY <1>4 DEF Plain
  <2>2. r \in p.byColor[us] /\ m.from = king /\ m.to = r /\ m.prom = NB_PIECE
    BY <2>1 DEF CastleRooks, move
  <2>3. QED
    BY <1>1, <1>2, <2>1, <2>2 DEF Proper
<1>5. CASE m \in Rules!PseudoLegal(P, us, p.epSquare)
  <2>1. m = move(m.from, m.to, m.prom) /\ (PieceGoes(p, m) \/ PawnGoes(p, m) \/ EpMove(p, m))
    BY <1>1, <1>2, <1>5, PseudoLegalMoves
  <2>2. m.from \in p.byColor[us]
    BY <1>1, <2>1 DEF PieceGoes, PawnGoes, EpMove, pos_pieces_cp
  <2>3. m.to \notin p.byColor[us]
    BY <1>1, <1>2, <2>1 DEF PieceGoes, PawnGoes, EpMove, Sound, EpSound
  <2>4. m.from = king => m.to \in KingAttacks[king]
    <3>1. HAVE m.from = king
    <3>2. \A l \in Piece : king \in p.byPiece[l] => l = "KING"
      BY <1>2 DEF BoardOK, Piece
    <3>3. PieceGoes(p, m)
      BY <2>1, <3>1, <3>2 DEF PawnGoes, EpMove, pos_pieces_cp, Piece
    <3>4. Hits(p, us, king, m.to, pos_pieces(p))
      BY <1>1, <3>1, <3>3 DEF PieceGoes
    <3>5. QED
      BY <3>2, <3>4 DEF Hits, pos_pieces_cp, pos_pieces_cpp, Piece
  <2>5. QED
    BY <1>1, <1>2, <2>1, <2>2, <2>3, <2>4 DEF Proper
<1>6. QED
  BY <1>3, <1>4, <1>5

\* The loop of resolve_pv when it is in p, has r to return, and goes on.
Loop(x, p, r) == x = [pos |-> p, resolved |-> r, stopped |-> FALSE]

\* One step of it: it takes the move, or it ends.
LEMMA LoopStep ==
    ASSUME NEW x, NEW p, NEW r, Loop(x, p, r), NEW lan, NEW m, m = pos_lan_to_move(p, lan),
           NEW q, q = pos_move(p, m), NEW y, y = PlayTactical(x, lan)
    PROVE  IF pos_move_is_tactical(p, m) /\ m \in gen_all_moves(p)
           THEN Loop(y, q, IF q.checkers = {} THEN q ELSE r)
           ELSE y.resolved = r
<1>1. PICK stopped : stopped = FALSE
  OBVIOUS
<1>2. x = [pos |-> p, resolved |-> r, stopped |-> stopped]
  BY <1>1, Zenon DEF Loop
<1>3. x.pos = p /\ x.resolved = r /\ x.stopped = stopped
  BY ONLY <1>2
<1>4. y = IF x.stopped \/ ~pos_move_is_tactical(x.pos, m) \/ m \notin gen_all_moves(x.pos)
          THEN [x EXCEPT !.stopped = TRUE]
          ELSE [x EXCEPT !.pos = q, !.resolved = IF q.checkers = {} THEN q ELSE x.resolved]
  BY <1>3, Zenon DEF PlayTactical
<1>5. CASE pos_move_is_tactical(p, m) /\ m \in gen_all_moves(p)
  <2>1. y = [x EXCEPT !.pos = q, !.resolved = IF q.checkers = {} THEN q ELSE x.resolved]
    BY <1>1, <1>3, <1>4, <1>5, Zenon
  <2>2. PICK s : s = IF q.checkers = {} THEN q ELSE r
    OBVIOUS
  <2>3. y = [x EXCEPT !.pos = q, !.resolved = s]
    BY <1>3, <2>1, <2>2, Zenon
  <2>4. y = [pos |-> q, resolved |-> s, stopped |-> stopped]
    BY ONLY <1>2, <2>3
  <2>5. QED
    BY <1>1, <1>5, <2>2, <2>4, Zenon DEF Loop
<1>6. CASE ~(pos_move_is_tactical(p, m) /\ m \in gen_all_moves(p))
  <2>1. PICK end : end = TRUE
    OBVIOUS
  <2>2. y = [x EXCEPT !.stopped = end]
    BY <1>3, <1>4, <1>6, <2>1, Zenon
  <2>3. y.resolved = r
    BY ONLY <1>2, <2>2
  <2>4. QED
    BY <1>6, <2>3, Zenon
<1>7. QED
  BY <1>5, <1>6

\* g holds the steps of the loop.
Resolves(g, p, pv) ==
    g = [k \in 0..Len(pv) |->
           IF k = 0 THEN [pos |-> p, resolved |-> p, stopped |-> FALSE]
           ELSE PlayTactical(g[k - 1], pv[k])]

\* The resolved position is that of the last step.
LEMMA ResolvedIs ==
    ASSUME NEW p, NEW pv
    PROVE  \E g : g = (CHOOSE h : Resolves(h, p, pv)) /\ resolve_pv(p, pv) = g[Len(pv)].resolved
BY Zenon DEF resolve_pv, Resolves

\* For one move or two, there are such steps.
LEMMA ResolvesSome ==
    ASSUME NEW p, NEW pv, Len(pv) \in {1, 2}
    PROVE  \E g : Resolves(g, p, pv)
<1>1. PICK x, a, b : x = [pos |-> p, resolved |-> p, stopped |-> FALSE]
                     /\ a = PlayTactical(x, pv[1]) /\ b = PlayTactical(a, pv[2])
  OBVIOUS
<1>2. PICK n \in {1, 2} : n = Len(pv)
  OBVIOUS
<1>3. PICK g : g = [k \in 0..n |-> IF k = 0 THEN x ELSE IF k = 1 THEN a ELSE b]
  OBVIOUS
<1>4. g[0] = x /\ g[1] = a /\ (n = 2 => g[2] = b)
  BY <1>3
<1>5. ASSUME NEW k \in 0..n
      PROVE  g[k] = IF k = 0 THEN x ELSE PlayTactical(g[k - 1], pv[k])
  <2>1. CASE k = 0
    BY <1>4, <2>1
  <2>2. CASE k = 1
    <3>1. k - 1 = 0
      BY <2>2
    <3>2. QED
      BY <1>1, <1>4, <2>2, <3>1
  <2>3. CASE k = 2
    <3>1. k - 1 = 1 /\ n = 2
      BY <2>3
    <3>2. QED
      BY <1>1, <1>4, <2>3, <3>1
  <2>4. QED
    BY <1>2, <2>1, <2>2, <2>3
<1>6. g = [k \in 0..n |-> g[k]]
  BY <1>3
<1>7. g = [k \in 0..n |-> IF k = 0 THEN x ELSE PlayTactical(g[k - 1], pv[k])]
  BY <1>5, <1>6, Zenon
<1>8. Resolves(g, p, pv)
  BY <1>1, <1>2, <1>7, Zenon DEF Resolves
<1>9. QED
  BY <1>8

\* What resolve_pv returns for one move and for two.
LEMMA ResolvedBy ==
    ASSUME NEW p, NEW pv, Len(pv) \in {1, 2}
    PROVE  \E x, y, z : /\ Loop(x, p, p) /\ y = PlayTactical(x, pv[1]) /\ z = PlayTactical(y, pv[2])
                        /\ resolve_pv(p, pv) = (IF Len(pv) = 1 THEN y ELSE z).resolved
<1>1. PICK g : g = (CHOOSE h : Resolves(h, p, pv)) /\ resolve_pv(p, pv) = g[Len(pv)].resolved
  BY ResolvedIs, Zenon
<1>2. Resolves(g, p, pv)
  <2>1. \E h : Resolves(h, p, pv)
    BY ResolvesSome
  <2>2. QED
    BY <1>1, <2>1, Zenon
<1>3. PICK n \in {1, 2} : n = Len(pv)
  OBVIOUS
<1>4. PICK x : x = [pos |-> p, resolved |-> p, stopped |-> FALSE]
  OBVIOUS
<1>5. g = [k \in 0..n |-> IF k = 0 THEN x ELSE PlayTactical(g[k - 1], pv[k])]
  BY <1>2, <1>3, <1>4, Zenon DEF Resolves
<1>6. g[0] = x /\ g[1] = PlayTactical(g[0], pv[1]) /\ (n = 2 => g[2] = PlayTactical(g[1], pv[2]))
  <2>1. \A k \in 0..n : g[k] = IF k = 0 THEN x ELSE PlayTactical(g[k - 1], pv[k])
    BY <1>5
  <2>2. 0 \in 0..n /\ 1 \in 0..n /\ (n = 2 => 2 \in 0..n) /\ 1 - 1 = 0 /\ 2 - 1 = 1
    OBVIOUS
  <2>3. QED
    BY <2>1, <2>2
<1>7. PICK y, z : y = PlayTactical(x, pv[1]) /\ z = PlayTactical(y, pv[2])
  OBVIOUS
<1>8. Loop(x, p, p)
  BY <1>4, Zenon DEF Loop
<1>9. g[n] = IF n = 1 THEN y ELSE z
  BY <1>6, <1>7
<1>10. QED
  BY <1>1, <1>3, <1>7, <1>8, <1>9, Zenon

\* A move of a PV that resolve_pv plays, and what it has to return then.
Plays(p, m) ==
    Tactical(p, m) /\ m \in Rules!LegalMoves(Placement(p), p.turn, p.epSquare,
                                             CastleRooks(p, p.turn))

Calm(p, else) == IF Rules!InCheck(Placement(p), p.turn) THEN else ELSE p

\* A position that the moves of a PV can be played from.
Playable(p) == Ready(p) /\ Cells(p) /\ RooksApart(p)

\* The loop plays what the rules call tactical and legal.
LEMMA PlaysIs ==
    ASSUME NEW p, Playable(p), NEW m
    PROVE  Plays(p, m) <=> pos_move_is_tactical(p, m) /\ m \in gen_all_moves(p)
<1>1. gen_all_moves(p) = Rules!LegalMoves(Placement(p), p.turn, p.epSquare, CastleRooks(p, p.turn))
  BY LegalGenerated DEF Playable
<1>2. m \in gen_all_moves(p) => (Tactical(p, m) <=> pos_move_is_tactical(p, m))
  BY TacticalIs DEF Playable
<1>3. Plays(p, m) <=> Tactical(p, m) /\ m \in gen_all_moves(p)
  BY <1>1, Zenon DEF Plays
<1>4. QED
  BY <1>2, <1>3, Zenon

\* A legal move leads from one such position to the next.
LEMMA NextPlayable ==
    ASSUME NEW p, Playable(p), NEW m \in gen_all_moves(p), NEW q, q = pos_move(p, m)
    PROVE  Playable(q)
<1>1. Sound(p) /\ HasKing(p, p.turn) /\ Ready(p) /\ Cells(p) /\ RooksApart(p)
  BY Sides DEF Playable, Ready
<1>2. Generated(p, m)
  BY <1>1, AllMoves
<1>3. Cells(q) /\ Played(p, q, m) /\ Derived(q)
  BY <1>1, <1>2, MoveBoard
<1>4. BoardOK(q)
  BY <1>3 DEF Cells
<1>5. Sound(q)
  BY <1>1, <1>2, <1>3, <1>4, MoveSound
<1>6. Ready(q)
  BY <1>1, <1>3, <1>5, ReadyGoesOn
<1>7. RooksApart(q)
  BY <1>1, <1>2, <1>3, <1>6, StaysApart
<1>8. QED
  BY <1>3, <1>6, <1>7 DEF Playable

\* One step of the loop, for the text of a move.
LEMMA TextPlayed ==
    ASSUME NEW p, Playable(p), NEW m \in PvMoves(p), NEW q, q = pos_move(p, m),
           NEW x, NEW r, Loop(x, p, r), NEW y, y = PlayTactical(x, pos_move_to_lan(p, m))
    PROVE  /\ Plays(p, m) => Playable(q) /\ Loop(y, q, Calm(q, r))
           /\ ~Plays(p, m) => y.resolved = r
<1>1. PICK lan : lan = pos_move_to_lan(p, m)
  OBVIOUS
<1>2. m = pos_lan_to_move(p, lan)
  BY <1>1, PvMovesProper, ProperRead DEF Playable
<1>3. y = PlayTactical(x, lan)
  BY <1>1, Zenon
<1>4. IF pos_move_is_tactical(p, m) /\ m \in gen_all_moves(p)
      THEN Loop(y, q, IF q.checkers = {} THEN q ELSE r)
      ELSE y.resolved = r
  BY ONLY Loop(x, p, r), <1>2, q = pos_move(p, m), <1>3, LoopStep
<1>5. Plays(p, m) <=> pos_move_is_tactical(p, m) /\ m \in gen_all_moves(p)
  BY PlaysIs
<1>6. ASSUME Plays(p, m)
      PROVE  Playable(q) /\ Loop(y, q, Calm(q, r))
  <2>1. Playable(q)
    BY <1>5, <1>6, NextPlayable
  <2>2. q.checkers # {} <=> Rules!InCheck(Placement(q), q.turn)
    BY <2>1, CheckIsSeen DEF Playable
  <2>3. Loop(y, q, IF q.checkers = {} THEN q ELSE r)
    BY <1>4, <1>5, <1>6, Zenon
  <2>4. Calm(q, r) = IF q.checkers = {} THEN q ELSE r
    BY <2>2, Zenon DEF Calm
  <2>5. QED
    BY <2>1, <2>3, <2>4, Zenon
<1>7. ASSUME ~Plays(p, m)
      PROVE  y.resolved = r
  BY <1>4, <1>5, <1>7, Zenon
<1>8. QED
  BY <1>6, <1>7, Zenon

\* What the loop returns if it ends here.
LEMMA LoopReturns ==
    ASSUME NEW x, NEW p, NEW r, Loop(x, p, r)
    PROVE  x.resolved = r
<1>1. PICK stopped : stopped = FALSE
  OBVIOUS
<1>2. x = [pos |-> p, resolved |-> r, stopped |-> stopped]
  BY <1>1, Zenon DEF Loop
<1>3. QED
  BY ONLY <1>2

\* A PV that ends with its first move.
LEMMA OneText ==
    ASSUME NEW p, Playable(p), NEW m \in PvMoves(p), ~Plays(p, m)
    PROVE  resolve_pv(p, <<pos_move_to_lan(p, m)>>) = p
<1>1. PICK lan, q, pv : lan = pos_move_to_lan(p, m) /\ q = pos_move(p, m) /\ pv = <<lan>>
  OBVIOUS
<1>2. Len(pv) = 1 /\ pv[1] = lan
  BY <1>1
<1>3. PICK x, y, z : /\ Loop(x, p, p) /\ y = PlayTactical(x, pv[1]) /\ z = PlayTactical(y, pv[2])
                     /\ resolve_pv(p, pv) = (IF Len(pv) = 1 THEN y ELSE z).resolved
  <2>1. Len(pv) \in {1, 2}
    BY <1>2
  <2>2. QED
    BY <2>1, ResolvedBy
<1>4. y = PlayTactical(x, pos_move_to_lan(p, m))
  BY <1>1, <1>2, <1>3, Zenon
<1>5. y.resolved = p
  BY <1>1, <1>3, <1>4, TextPlayed
<1>6. resolve_pv(p, pv) = y.resolved
  BY <1>2, <1>3, Zenon
<1>7. QED
  BY <1>1, <1>5, <1>6, Zenon

\* A PV of two moves.
LEMMA TwoTexts ==
    ASSUME NEW p, Playable(p), NEW m \in PvMoves(p), Plays(p, m), NEW q, q = pos_move(p, m),
           NEW n \in PvMoves(q)
    PROVE  resolve_pv(p, <<pos_move_to_lan(p, m), pos_move_to_lan(q, n)>>) =
             IF Plays(q, n) THEN Calm(pos_move(q, n), Calm(q, p)) ELSE Calm(q, p)
<1>1. PICK a, b, u, pv : /\ a = pos_move_to_lan(p, m) /\ b = pos_move_to_lan(q, n)
                         /\ u = pos_move(q, n) /\ pv = <<a, b>>
  OBVIOUS
<1>2. Len(pv) = 2 /\ pv[1] = a /\ pv[2] = b
  BY <1>1
<1>3. PICK x, y, z : /\ Loop(x, p, p) /\ y = PlayTactical(x, pv[1]) /\ z = PlayTactical(y, pv[2])
                     /\ resolve_pv(p, pv) = (IF Len(pv) = 1 THEN y ELSE z).resolved
  <2>1. Len(pv) \in {1, 2}
    BY <1>2
  <2>2. QED
    BY <2>1, ResolvedBy
<1>4. y = PlayTactical(x, pos_move_to_lan(p, m)) /\ z = PlayTactical(y, pos_move_to_lan(q, n))
  BY <1>1, <1>2, <1>3, Zenon
<1>5. Playable(q) /\ Loop(y, q, Calm(q, p))
  BY <1>3, <1>4, TextPlayed
<1>6. PICK r : r = Calm(q, p)
  OBVIOUS
<1>7. Loop(y, q, r)
  BY <1>5, <1>6, Zenon
<1>8. /\ Plays(q, n) => Loop(z, u, Calm(u, r))
      /\ ~Plays(q, n) => z.resolved = r
  BY <1>1, <1>4, <1>5, <1>7, TextPlayed
<1>9. z.resolved = IF Plays(q, n) THEN Calm(u, r) ELSE r
  BY <1>8, LoopReturns
<1>10. resolve_pv(p, pv) = z.resolved
  <2>1. ~(Len(pv) = 1)
    BY <1>2
  <2>2. QED
    BY <2>1, <1>3, Zenon
<1>11. QED
  BY <1>1, <1>6, <1>9, <1>10, Zenon

\* What a sample takes for its position is the last calm one that the tactical
\* moves of the PV lead to.
THEOREM PvsResolved == Spec => []ResolvedSound
<1>1. History /\ AllReadable(vecPos) => ResolvedSound
  <2>1. HAVE History /\ AllReadable(vecPos)
  <2>2. PICK p : p = pos
    OBVIOUS
  <2>3. Playable(p)
    BY <2>1, <2>2, LastIsReady DEF AllReadable, Readable, Playable
  <2>4. ASSUME NEW m \in PvMoves(p)
        PROVE  IF ~Plays(p, m) THEN resolve_pv(p, <<pos_move_to_lan(p, m)>>) = p
               ELSE \A n \in PvMoves(pos_move(p, m)) :
                      resolve_pv(p, <<pos_move_to_lan(p, m), pos_move_to_lan(pos_move(p, m), n)>>) =
                        IF Plays(pos_move(p, m), n)
                        THEN Calm(pos_move(pos_move(p, m), n), Calm(pos_move(p, m), p))
                        ELSE Calm(pos_move(p, m), p)
    <3>1. PICK q : q = pos_move(p, m)
      OBVIOUS
    <3>2. ~Plays(p, m) => resolve_pv(p, <<pos_move_to_lan(p, m)>>) = p
      BY <2>3, OneText
    <3>3. ASSUME Plays(p, m), NEW n \in PvMoves(q)
          PROVE  resolve_pv(p, <<pos_move_to_lan(p, m), pos_move_to_lan(q, n)>>) =
                   IF Plays(q, n) THEN Calm(pos_move(q, n), Calm(q, p)) ELSE Calm(q, p)
      BY <2>3, <3>1, <3>3, TwoTexts
    <3>4. QED
      BY <3>1, <3>2, <3>3, Zenon
  <2>5. QED
    BY <2>2, <2>4, Zenon DEF ResolvedSound, Plays, Calm
<1>2. QED
  BY <1>1, HistoryStarts, HistoryGoesOn, ReadableStarts, ReadableStays, PTL DEF Spec

=============================================================================
