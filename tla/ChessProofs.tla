---------------------------- MODULE ChessProofs ----------------------------
(***************************************************************************)
(* Proofs about Chess, for every opening that pos_set accepts and games of *)
(* any length: the positions and moves of a game fit together (History,    *)
(* the inductive invariant that the other proofs stand on), the fifty      *)
(* moves and the repetitions are counted as the rules count them, and a    *)
(* move puts the pieces where the rules put them.                          *)
(***************************************************************************)
EXTENDS Chess, FiniteSetTheorems, SequenceTheorems, TLAPS

\* A position has its twelve fields.
IsPosition(p) ==
    p = [byColor |-> p.byColor, byPiece |-> p.byPiece, castleRooks |-> p.castleRooks,
         key |-> p.key, attacked |-> p.attacked, checkers |-> p.checkers,
         pins |-> p.pins, turn |-> p.turn, epSquare |-> p.epSquare,
         rule50 |-> p.rule50, fullMove |-> p.fullMove, chess960 |-> p.chess960]

\* The board of a position: a square has one color and one piece, or neither.
BoardOK(p) ==
    /\ IsPosition(p)
    /\ p.byColor \in [Color -> SUBSET Square]
    /\ p.byPiece \in [Piece -> SUBSET Square]
    /\ p.byColor[WHITE] \intersect p.byColor[BLACK] = {}
    /\ \A a, b \in Piece : a # b => p.byPiece[a] \intersect p.byPiece[b] = {}
    /\ \A s \in Square : s \in pos_pieces(p) <=> \E k \in Piece : s \in p.byPiece[k]
    /\ p.turn \in Color

\* The fields beside the board: the en passant square lies behind a pawn that may
\* have made a double push, and a side that may castle has its king on its rank.
EpSound(p) ==
    /\ p.epSquare \in Square \union {NB_SQUARE}
    /\ p.epSquare # NB_SQUARE =>
         /\ p.epSquare \in Rank(relative_rank(p.turn, 5)) \ pos_pieces(p)
         /\ p.epSquare - push_inc(p.turn)
              \in pos_pieces_cp(p, opposite(p.turn), "PAWN")
         /\ p.epSquare + push_inc(p.turn) \notin pos_pieces(p)

RightsSound(p) ==
    /\ p.castleRooks \subseteq pos_pieces(p) \intersect p.byPiece["ROOK"]
    /\ \A c \in Color :
         /\ CastleRooks(p, c) \subseteq Rank(7 * c)
         /\ CastleRooks(p, c) # {} => pos_pieces_cp(p, c, "KING") \subseteq Rank(7 * c)

PawnsSound(p) == p.byPiece["PAWN"] \intersect (Rank(0) \union Rank(7)) = {}

\* Each side has its king, and no other.
HasKing(p, c) == pos_pieces_cp(p, c, "KING") # {}
OneKing(p) == \A c \in Color : \A s, t \in pos_pieces_cp(p, c, "KING") : s = t

Sound(p) ==
    /\ BoardOK(p) /\ EpSound(p) /\ RightsSound(p) /\ PawnsSound(p) /\ OneKing(p)

\* The square of the only king.
LEMMA KingSquare ==
    ASSUME NEW p, Sound(p), NEW c \in Color, HasKing(p, c)
    PROVE  /\ pos_king_square(p, c) \in Square
           /\ pos_pieces_cp(p, c, "KING") = {pos_king_square(p, c)}
<1>1. PICK s \in pos_pieces_cp(p, c, "KING") : TRUE
  BY DEF HasKing
<1>2. s \in Square
  BY <1>1 DEF Sound, BoardOK, pos_pieces_cp
<1>3. pos_king_square(p, c) \in Square
        /\ pos_king_square(p, c) \in pos_pieces_cp(p, c, "KING")
  BY <1>1, <1>2 DEF pos_king_square
<1>4. QED
  BY <1>3 DEF Sound, OneKing

-----------------------------------------------------------------------------
(* Lines and leaps on the board.                                           *)

\* Pawns of the two sides move in opposite directions.
LEMMA Directions ==
    \A c \in Color : /\ push_inc(c) = (IF c = 0 THEN 8 ELSE -8) /\ opposite(c) = 1 - c
                     /\ opposite(c) \in Color /\ opposite(c) # c
BY DEF push_inc, opposite, Color, WHITE, BLACK

\* t is k steps from s in direction d.
Reached(s, t, d, k) == OnBoard(s, d, k) /\ t = Step(s, d, k)

\* The eight directions, one by one.
LEMMA EightDirections ==
    ASSUME NEW d \in KingDir
    PROVE  /\ d = <<d[1], d[2]>> /\ d[1] \in {-1, 0, 1} /\ d[2] \in {-1, 0, 1}
           /\ ~(d[1] = 0 /\ d[2] = 0)
           /\ d \in RookDir <=> d[1] = 0 \/ d[2] = 0
           /\ d \in BishopDir <=> ~(d[1] = 0 \/ d[2] = 0)
BY DEF KingDir, RookDir, BishopDir

\* Rank and file determine a square.
LEMMA RankAndFile ==
    /\ \A s \in Square : /\ s \in Int /\ rank_of(s) \in 0..7 /\ file_of(s) \in 0..7
                         /\ s = 8 * rank_of(s) + file_of(s)
    /\ \A r, f \in 0..7 : /\ 8 * r + f \in Square
                          /\ rank_of(8 * r + f) = r /\ file_of(8 * r + f) = f
BY DEF Square, NB_SQUARE, rank_of, file_of

\* Steps, by rank and file.
LEMMA Coordinates ==
    ASSUME NEW s \in Square, NEW d \in KingDir, NEW k \in Int, NEW t, Reached(s, t, d, k)
    PROVE  /\ t \in Square /\ rank_of(t) = rank_of(s) + k * d[1]
           /\ file_of(t) = file_of(s) + k * d[2]
<1>1. PICK r \in 0..7, f \in 0..7 : r = rank_of(s) /\ f = file_of(s) /\ s = 8 * r + f
  BY RankAndFile
<1>2. PICK a \in {-1, 0, 1}, b \in {-1, 0, 1} : a = d[1] /\ b = d[2]
  BY EightDirections
<1>3. PICK i \in 0..7, j \in 0..7 : i = r + k * a /\ j = f + k * b
  BY <1>1, <1>2 DEF Reached, OnBoard
<1>4. t = 8 * i + j
  <2>1. t = s + k * (8 * a + b)
    BY <1>2 DEF Reached, Step
  <2>2. k * (8 * a + b) = 8 * (k * a) + k * b
    BY <1>2
  <2>3. k * a \in Int /\ k * b \in Int
    BY <1>2
  <2>4. PICK m \in Int, n \in Int : m = k * a /\ n = k * b
    BY <2>3
  <2>5. t = (8 * r + f) + (8 * m + n) /\ i = r + m /\ j = f + n
    BY <1>1, <1>3, <2>1, <2>2, <2>4
  <2>6. QED
    BY <2>4, <2>5
<1>5. QED
  BY <1>1, <1>2, <1>3, <1>4, RankAndFile

\* A square is reached in one direction and by one number of steps.
LEMMA OneWay ==
    ASSUME NEW s \in Square, NEW t, NEW d \in KingDir, NEW k \in 1..7, Reached(s, t, d, k),
           NEW e \in KingDir, NEW j \in 1..7, Reached(s, t, e, j)
    PROVE  d = e /\ k = j
<1>1. /\ rank_of(s) + k * d[1] = rank_of(s) + j * e[1]
      /\ file_of(s) + k * d[2] = file_of(s) + j * e[2]
  BY Coordinates
<1>2. PICK a \in {-1, 0, 1}, b \in {-1, 0, 1} : a = d[1] /\ b = d[2] /\ ~(a = 0 /\ b = 0)
  BY EightDirections
<1>3. PICK u \in {-1, 0, 1}, v \in {-1, 0, 1} : u = e[1] /\ v = e[2] /\ ~(u = 0 /\ v = 0)
  BY EightDirections
<1>4. k * a = j * u /\ k * b = j * v
  <2>1. PICK x \in 0..7, y \in 0..7 : x = rank_of(s) /\ y = file_of(s)
    BY RankAndFile
  <2>2. x + k * a = x + j * u /\ y + k * b = y + j * v
    BY <1>1, <1>2, <1>3, <2>1
  <2>3. \A m, n \in Int : x + m = x + n => m = n
    OBVIOUS
  <2>4. \A m, n \in Int : y + m = y + n => m = n
    OBVIOUS
  <2>5. k * a \in Int /\ k * b \in Int /\ j * u \in Int /\ j * v \in Int
    BY <1>2, <1>3
  <2>6. QED
    BY <2>2, <2>3, <2>4, <2>5, Zenon
<1>5. a = u /\ b = v /\ k = j
  BY <1>2, <1>3, <1>4
<1>6. QED
  BY <1>2, <1>3, <1>5, EightDirections

\* The same direction, the other way round.
Reversed(d) == <<-d[1], -d[2]>>

\* Every direction has its opposite.
LEMMA OtherWay ==
    ASSUME NEW d \in KingDir
    PROVE  /\ Reversed(d) \in KingDir /\ Reversed(d)[1] = -d[1] /\ Reversed(d)[2] = -d[2]
           /\ Reversed(Reversed(d)) = d
           /\ d \in RookDir => Reversed(d) \in RookDir
           /\ d \in BishopDir => Reversed(d) \in BishopDir
BY DEF KingDir, RookDir, BishopDir, Reversed

\* From t, which is k steps from s, it goes on as from s.
LEMMA Onward ==
    ASSUME NEW s \in Square, NEW d \in KingDir, NEW k \in Int, NEW t, Reached(s, t, d, k),
           NEW j \in Int, NEW u
    PROVE  Reached(t, u, d, j) <=> Reached(s, u, d, k + j)
<1>1. PICK r \in 0..7, f \in 0..7 : r = rank_of(s) /\ f = file_of(s) /\ s = 8 * r + f
  BY RankAndFile
<1>2. PICK a \in {-1, 0, 1}, b \in {-1, 0, 1} : a = d[1] /\ b = d[2]
  BY EightDirections
<1>3. /\ t = s + k * (8 * a + b) /\ rank_of(t) = r + k * a /\ file_of(t) = f + k * b
  BY <1>1, <1>2, Coordinates DEF Reached, Step
<1>4. PICK m \in Int, n \in Int : m = k * a /\ n = k * b
  BY <1>2
<1>5. PICK x \in Int, y \in Int : x = j * a /\ y = j * b
  BY <1>2
<1>6. (k + j) * a = m + x /\ (k + j) * b = n + y
  BY <1>2, <1>4, <1>5
<1>7. OnBoard(t, d, j) <=> OnBoard(s, d, k + j)
  <2>1. /\ rank_of(t) + j * d[1] = (r + m) + x /\ file_of(t) + j * d[2] = (f + n) + y
        /\ rank_of(s) + (k + j) * d[1] = r + (m + x) /\ file_of(s) + (k + j) * d[2] = f + (n + y)
    BY <1>1, <1>2, <1>3, <1>4, <1>5, <1>6
  <2>2. (r + m) + x = r + (m + x) /\ (f + n) + y = f + (n + y)
    OBVIOUS
  <2>3. QED
    BY <2>1, <2>2, Zenon DEF OnBoard
<1>8. Step(t, d, j) = Step(s, d, k + j)
  <2>1. PICK c \in Int : c = 8 * a + b
    BY <1>2
  <2>2. t = s + k * c /\ Step(t, d, j) = t + j * c /\ Step(s, d, k + j) = s + (k + j) * c
    BY <1>2, <1>3, <2>1 DEF Step
  <2>3. (k + j) * c = k * c + j * c /\ k * c \in Int /\ j * c \in Int /\ s \in Int
    BY RankAndFile
  <2>4. QED
    BY <2>2, <2>3
<1>9. QED
  BY <1>7, <1>8 DEF Reached

\* No steps lead nowhere else.
LEMMA Here ==
    ASSUME NEW s \in Square, NEW d \in KingDir, NEW u
    PROVE  Reached(s, u, d, 0) <=> u = s
<1>1. PICK r \in 0..7, f \in 0..7 : r = rank_of(s) /\ f = file_of(s)
  BY RankAndFile
<1>2. PICK a \in {-1, 0, 1}, b \in {-1, 0, 1} : a = d[1] /\ b = d[2]
  BY EightDirections
<1>3. OnBoard(s, d, 0)
  <2>1. r + 0 * a = r /\ f + 0 * b = f
    BY <1>2
  <2>2. QED
    BY <1>1, <1>2, <2>1, Zenon DEF OnBoard
<1>4. Step(s, d, 0) = s
  <2>1. PICK n \in 0..63 : n = s
    BY DEF Square, NB_SQUARE
  <2>2. n + 0 * (8 * a + b) = n
    BY <1>2
  <2>3. QED
    BY <1>2, <2>1, <2>2, Zenon DEF Step
<1>5. QED
  BY <1>3, <1>4 DEF Reached

\* What is reached can be left the same way.
LEMMA Back ==
    ASSUME NEW s \in Square, NEW d \in KingDir, NEW k \in Int, NEW t, Reached(s, t, d, k)
    PROVE  t \in Square /\ Reached(t, s, Reversed(d), k)
<1>1. PICK r \in 0..7, f \in 0..7 : r = rank_of(s) /\ f = file_of(s) /\ s = 8 * r + f
  BY RankAndFile
<1>2. PICK a \in {-1, 0, 1}, b \in {-1, 0, 1} : a = d[1] /\ b = d[2]
  BY EightDirections
<1>3. /\ t = s + k * (8 * a + b) /\ rank_of(t) = r + k * a /\ file_of(t) = f + k * b
      /\ t \in Square
  BY <1>1, <1>2, Coordinates DEF Reached, Step
<1>4. PICK m \in Int, n \in Int : m = k * a /\ n = k * b /\ k * (-a) = -m /\ k * (-b) = -n
  BY <1>2
<1>5. OnBoard(t, Reversed(d), k)
  <2>1. Reversed(d)[1] = -a /\ Reversed(d)[2] = -b
    BY <1>2, OtherWay
  <2>2. rank_of(t) + k * (-a) = r /\ file_of(t) + k * (-b) = f
    BY <1>3, <1>4
  <2>3. QED
    BY <2>1, <2>2 DEF OnBoard
<1>6. s = Step(t, Reversed(d), k)
  <2>1. PICK c \in Int : c = 8 * a + b /\ 8 * (-a) + (-b) = -c
    BY <1>2
  <2>2. Reversed(d)[1] = -a /\ Reversed(d)[2] = -b
    BY <1>2, OtherWay
  <2>3. t = s + k * c /\ Step(t, Reversed(d), k) = t + k * (-c)
    BY <1>3, <2>1, <2>2 DEF Step
  <2>4. k * (-c) = -(k * c) /\ k * c \in Int /\ s \in Int
    BY RankAndFile
  <2>5. QED
    BY <2>3, <2>4
<1>7. QED
  BY <1>3, <1>5, <1>6 DEF Reached

\* The board is convex.
LEMMA Convex ==
    ASSUME NEW s \in Square, NEW d \in KingDir, NEW k \in 0..7, NEW t, Reached(s, t, d, k),
           NEW j \in 0..k
    PROVE  Reached(s, Step(s, d, j), d, j) /\ Step(s, d, j) \in Square
<1>1. PICK r \in 0..7, f \in 0..7 : r = rank_of(s) /\ f = file_of(s) /\ s = 8 * r + f
  BY RankAndFile
<1>2. PICK a \in {-1, 0, 1}, b \in {-1, 0, 1} : a = d[1] /\ b = d[2]
  BY EightDirections
<1>3. r + k * a \in 0..7 /\ f + k * b \in 0..7
  BY <1>1, <1>2 DEF Reached, OnBoard
<1>4. r + j * a \in 0..7 /\ f + j * b \in 0..7
  <2>1. ASSUME NEW x \in 0..7, NEW c \in {-1, 0, 1}, x + k * c \in 0..7
        PROVE  x + j * c \in 0..7
    <3>1. CASE c = -1
      BY <2>1, <3>1
    <3>2. CASE c = 0
      BY <3>2
    <3>3. CASE c = 1
      BY <2>1, <3>3
    <3>4. QED
      BY <3>1, <3>2, <3>3
  <2>2. QED
    BY <1>3, <2>1
<1>5. OnBoard(s, d, j)
  BY <1>1, <1>2, <1>4 DEF OnBoard
<1>6. QED
  BY <1>5, Coordinates DEF Reached

\* Steps of one direction that end on one file are as many.
LEMMA Apart ==
    ASSUME NEW a \in {-1, 0, 1}, a # 0, NEW x \in 0..7, NEW m \in Int, NEW n \in Int,
           x + m * a = x + n * a
    PROVE  m = n
<1>1. CASE a = 1
  BY <1>1
<1>2. CASE a = -1
  BY <1>2
<1>3. QED
  BY <1>1, <1>2

\* The squares from one to another on a line, and the squares of the line.
LEMMA SegmentOf ==
    ASSUME NEW s \in Square, NEW d \in KingDir, NEW k \in 1..7, NEW t, Reached(s, t, d, k)
    PROVE  /\ t \in Square /\ t # s
           /\ Segment[s][t] = {s} \union {Step(s, d, j) : j \in 1..k}
           /\ Segment[s][t] \ {s, t} = {Step(s, d, j) : j \in 1..(k - 1)}
           /\ Ray[s][t] = {s} \union Line(s, d)
<1>1. t \in Square
  BY Coordinates
<1>2. ASSUME NEW j \in 1..k
      PROVE  /\ Reached(s, Step(s, d, j), d, j) /\ Step(s, d, j) # s
             /\ Step(s, d, j) \in Square /\ Step(s, d, j) \in Line(s, d)
  <2>1. Reached(s, Step(s, d, j), d, j) /\ Step(s, d, j) \in Square
    BY Convex
  <2>2. Step(s, d, j) # s
    <3>1. SUFFICES ASSUME Step(s, d, j) = s PROVE FALSE
      OBVIOUS
    <3>2. /\ rank_of(s) = rank_of(s) + j * d[1] /\ file_of(s) = file_of(s) + j * d[2]
      BY <2>1, <3>1, Coordinates
    <3>3. PICK a \in {-1, 0, 1}, b \in {-1, 0, 1} : a = d[1] /\ b = d[2] /\ ~(a = 0 /\ b = 0)
      BY EightDirections
    <3>4. PICK x \in 0..7, y \in 0..7 : x = rank_of(s) /\ y = file_of(s)
      BY RankAndFile
    <3>5. x = x + j * a /\ y = y + j * b
      BY <3>2, <3>3, <3>4
    <3>6. x = x + 0 * a /\ y = y + 0 * b /\ j # 0 /\ 0 \in Int /\ j \in Int
      BY <3>3
    <3>7. QED
      BY <3>3, <3>5, <3>6, Apart, ZenonT(40)
  <2>3. j \in 1..7 /\ OnBoard(s, d, j)
    BY <2>1 DEF Reached
  <2>4. QED
    BY <2>1, <2>2, <2>3 DEF Line
<1>3. t = Step(s, d, k) /\ k \in 1..k /\ t \in Line(s, d) /\ t # s
  BY <1>2 DEF Reached
<1>4. {e \in KingDir : t \in Line(s, e)} = {d}
  <2>1. ASSUME NEW e \in KingDir, t \in Line(s, e) PROVE e = d
    <3>1. PICK j \in 1..7 : Reached(s, t, e, j)
      BY <2>1 DEF Line, Reached
    <3>2. QED
      BY <3>1, OneWay
  <2>2. QED
    BY <1>3, <2>1
<1>5. Line(s, d) \ Line(t, d) = {Step(s, d, j) : j \in 1..k}
  <2>1. ASSUME NEW x \in Line(s, d), x \notin Line(t, d) PROVE x \in {Step(s, d, j) : j \in 1..k}
    <3>1. PICK i \in 1..7 : Reached(s, x, d, i)
      BY <2>1 DEF Line, Reached
    <3>2. i <= k
      <4>1. SUFFICES ASSUME i > k PROVE FALSE
        BY <3>1
      <4>2. PICK n \in 1..7 : n = i - k
        BY <4>1
      <4>3. Reached(s, x, d, k + n)
        <5>1. k + n = i
          BY <4>2
        <5>2. QED
          BY <3>1, <5>1
      <4>4. Reached(t, x, d, n)
        BY <4>3, Onward
      <4>5. QED
        BY <2>1, <4>4 DEF Line, Reached
    <3>3. QED
      BY <3>1, <3>2 DEF Reached
  <2>2. ASSUME NEW j \in 1..k PROVE Step(s, d, j) \in Line(s, d) \ Line(t, d)
    <3>1. SUFFICES ASSUME Step(s, d, j) \in Line(t, d) PROVE FALSE
      BY <1>2
    <3>2. PICK i \in 1..7 : Reached(t, Step(s, d, j), d, i)
      BY <3>1 DEF Line, Reached
    <3>3. Reached(s, Step(s, d, j), d, k + i)
      BY <3>2, Onward
    <3>4. /\ rank_of(Step(s, d, j)) = rank_of(s) + (k + i) * d[1]
          /\ file_of(Step(s, d, j)) = file_of(s) + (k + i) * d[2]
          /\ rank_of(Step(s, d, j)) = rank_of(s) + j * d[1]
          /\ file_of(Step(s, d, j)) = file_of(s) + j * d[2]
      BY <1>2, <3>3, Coordinates
    <3>5. PICK a \in {-1, 0, 1}, b \in {-1, 0, 1} : a = d[1] /\ b = d[2] /\ ~(a = 0 /\ b = 0)
      BY EightDirections
    <3>6. PICK x \in 0..7, y \in 0..7 : x = rank_of(s) /\ y = file_of(s)
      BY RankAndFile
    <3>7. x + (k + i) * a = x + j * a /\ y + (k + i) * b = y + j * b
      BY <3>4, <3>5, <3>6
    <3>8. k + i \in Int /\ j \in Int /\ k + i # j
      OBVIOUS
    <3>9. QED
      BY <3>5, <3>7, <3>8, Apart
  <2>3. QED
    BY <2>1, <2>2
<1>6. Segment[s][t] = {s} \union {Step(s, d, j) : j \in 1..k}
  <2>1. Segment[s][t] = IF t = s THEN {s}
                        ELSE UNION {{s} \union (Line(s, e) \ Line(t, e)) :
                                      e \in {e \in KingDir : t \in Line(s, e)}}
    BY <1>1 DEF Segment
  <2>2. UNION {{s} \union (Line(s, e) \ Line(t, e)) : e \in {d}} = {s} \union (Line(s, d) \ Line(t, d))
    OBVIOUS
  <2>3. QED
    BY <1>3, <1>4, <1>5, <2>1, <2>2
<1>7. Ray[s][t] = {s} \union Line(s, d)
  <2>1. Ray[s][t] = UNION {{s} \union Line(s, e) : e \in {e \in KingDir : t \in Line(s, e)}}
    BY <1>1 DEF Ray
  <2>2. UNION {{s} \union Line(s, e) : e \in {d}} = {s} \union Line(s, d)
    OBVIOUS
  <2>3. QED
    BY <1>4, <2>1, <2>2
<1>8. Segment[s][t] \ {s, t} = {Step(s, d, j) : j \in 1..(k - 1)}
  <2>1. ASSUME NEW j \in 1..(k - 1)
        PROVE  Step(s, d, j) # t /\ j \in 1..k
    <3>1. j \in 1..k /\ j \in 1..7 /\ j # k
      OBVIOUS
    <3>2. Reached(s, Step(s, d, j), d, j)
      BY <1>2, <3>1
    <3>3. QED
      BY <3>1, <3>2, OneWay
  <2>2. \A j \in 1..k : j = k \/ j \in 1..(k - 1)
    OBVIOUS
  <2>3. QED
    BY <1>2, <1>3, <1>6, <2>1, <2>2
<1>9. QED
  BY <1>1, <1>3, <1>6, <1>7, <1>8

Between(s, t) == Segment[s][t] \ {s, t}
Aligned(D, s, t) == \E d \in D, k \in 1..7 : Reached(s, t, d, k)

\* The attacks of sliders.
LEMMA Sliding ==
    ASSUME NEW s \in Square, NEW occ, NEW t
    PROVE  /\ t \in bb_rook_attacks(s, occ) <=>
                Aligned(RookDir, s, t) /\ Between(s, t) \intersect occ = {}
           /\ t \in bb_bishop_attacks(s, occ) <=>
                Aligned(BishopDir, s, t) /\ Between(s, t) \intersect occ = {}
<1>1. \A d : t \in Line(s, d) <=> \E k \in 1..7 : Reached(s, t, d, k)
  BY DEF Line, Reached
<1>2. t \in RookLines[s] <=> Aligned(RookDir, s, t)
  BY <1>1 DEF RookLines, Aligned
<1>3. t \in BishopLines[s] <=> Aligned(BishopDir, s, t)
  BY <1>1 DEF BishopLines, Aligned
<1>4. QED
  BY <1>2, <1>3 DEF bb_rook_attacks, bb_bishop_attacks, Unobstructed, Between

\* Alignment and the squares between do not depend on where one looks from.
LEMMA LookedAtBack ==
    ASSUME NEW D, D \in {RookDir, BishopDir, KingDir}, NEW s \in Square, NEW t, Aligned(D, s, t)
    PROVE  /\ t \in Square /\ t # s /\ Aligned(D, t, s) /\ Between(s, t) = Between(t, s)
           /\ Between(s, t) \subseteq Square
<1>1. PICK d \in D, k \in 1..7 : Reached(s, t, d, k)
  BY DEF Aligned
<1>2. d \in KingDir /\ Reversed(d) \in D /\ Reversed(d) \in KingDir /\ Reversed(Reversed(d)) = d
  BY OtherWay DEF KingDir
<1>3. t \in Square /\ Reached(t, s, Reversed(d), k)
  BY <1>1, <1>2, Back
<1>4. /\ Between(s, t) = {Step(s, d, j) : j \in 1..(k - 1)} /\ t # s
      /\ Between(t, s) = {Step(t, Reversed(d), j) : j \in 1..(k - 1)}
  BY <1>1, <1>2, <1>3, SegmentOf DEF Between
<1>5. ASSUME NEW j \in 1..(k - 1)
      PROVE  /\ Step(s, d, j) = Step(t, Reversed(d), k - j) /\ k - j \in 1..(k - 1)
             /\ Step(s, d, j) \in Square
  <2>1. PICK i \in 1..(k - 1) : i = k - j /\ i + j = k /\ j + i = k /\ j \in 0..k
    OBVIOUS
  <2>2. Reached(s, Step(s, d, j), d, j) /\ Step(s, d, j) \in Square
    BY <1>1, <1>2, <2>1, Convex
  <2>3. Reached(Step(s, d, j), t, d, i)
    BY <1>1, <1>2, <2>1, <2>2, Onward
  <2>4. Reached(t, Step(s, d, j), Reversed(d), i)
    BY <1>2, <2>2, <2>3, Back
  <2>5. QED
    BY <2>1, <2>2, <2>4 DEF Reached
<1>6. ASSUME NEW j \in 1..(k - 1)
      PROVE  Step(t, Reversed(d), j) = Step(s, d, k - j) /\ k - j \in 1..(k - 1)
  <2>1. PICK i \in 1..(k - 1) : i = k - j /\ k - i = j
    OBVIOUS
  <2>2. QED
    BY <1>5, <2>1
<1>7. Between(s, t) = Between(t, s)
  BY <1>4, <1>5, <1>6
<1>8. QED
  BY <1>2, <1>3, <1>4, <1>5, <1>7 DEF Aligned

\* What a leap is.
LEMMA LeapsOneWay ==
    ASSUME NEW s \in Square, NEW t \in Square
    PROVE  /\ t \in KnightAttacks[s] => s \in KnightAttacks[t]
           /\ t \in KingAttacks[s] => s \in KingAttacks[t]
           /\ \A c \in Color : t \in PawnAttacks[c][s] => s \in PawnAttacks[opposite(c)][t]
<1>1. PICK r \in 0..7, f \in 0..7 : r = rank_of(s) /\ f = file_of(s) /\ s = 8 * r + f
  BY RankAndFile
<1>2. PICK i \in 0..7, j \in 0..7 : i = rank_of(t) /\ j = file_of(t) /\ t = 8 * i + j
  BY RankAndFile
<1> DEFINE To(a, b) == OnBoard(s, <<a, b>>, 1) /\ t = Step(s, <<a, b>>, 1)
           Fro(a, b) == OnBoard(t, <<a, b>>, 1) /\ s = Step(t, <<a, b>>, 1)
<1>3. ASSUME NEW a \in -2..2, NEW b \in -2..2
      PROVE  To(a, b) <=> i = r + a /\ j = f + b
  <2>1. OnBoard(s, <<a, b>>, 1) <=> r + a \in 0..7 /\ f + b \in 0..7
    BY <1>1 DEF OnBoard
  <2>2. Step(s, <<a, b>>, 1) = (8 * r + f) + (8 * a + b)
    BY <1>1 DEF Step
  <2>3. r + a \in 0..7 /\ f + b \in 0..7
           => (8 * i + j = (8 * r + f) + (8 * a + b) <=> i = r + a /\ j = f + b)
    OBVIOUS
  <2>4. QED
    BY <1>1, <1>2, <2>1, <2>2, <2>3
<1>4. ASSUME NEW a \in -2..2, NEW b \in -2..2
      PROVE  Fro(a, b) <=> r = i + a /\ f = j + b
  <2>1. OnBoard(t, <<a, b>>, 1) <=> i + a \in 0..7 /\ j + b \in 0..7
    BY <1>2 DEF OnBoard
  <2>2. Step(t, <<a, b>>, 1) = (8 * i + j) + (8 * a + b)
    BY <1>2 DEF Step
  <2>3. i + a \in 0..7 /\ j + b \in 0..7
           => (8 * r + f = (8 * i + j) + (8 * a + b) <=> r = i + a /\ f = j + b)
    OBVIOUS
  <2>4. QED
    BY <1>1, <1>2, <2>1, <2>2, <2>3
<1> HIDE DEF To, Fro
<1>5. \A a, b \in -2..2 : To(a, b) => Fro(-a, -b) /\ -a \in -2..2 /\ -b \in -2..2
  BY <1>3, <1>4
<1>6. t \in KnightAttacks[s] => s \in KnightAttacks[t]
  <2>1. SUFFICES ASSUME t \in KnightAttacks[s] PROVE s \in KnightAttacks[t]
    OBVIOUS
  <2>2. PICK d \in KnightDir : OnBoard(s, d, 1) /\ t = Step(s, d, 1)
    BY <2>1 DEF KnightAttacks, Leaps
  <2>3. PICK a \in -2..2, b \in -2..2 : d = <<a, b>> /\ <<-a, -b>> \in KnightDir
    <3>1. /\ d = <<d[1], d[2]>> /\ d[1] \in -2..2 /\ d[2] \in -2..2
          /\ <<-d[1], -d[2]>> \in KnightDir
      BY DEF KnightDir
    <3>2. QED
      BY <3>1
  <2>4. Fro(-a, -b)
    BY <1>5, <2>2, <2>3 DEF To
  <2>5. QED
    BY <2>3, <2>4 DEF Fro, KnightAttacks, Leaps
<1>7. t \in KingAttacks[s] => s \in KingAttacks[t]
  <2>1. SUFFICES ASSUME t \in KingAttacks[s] PROVE s \in KingAttacks[t]
    OBVIOUS
  <2>2. PICK d \in KingDir : OnBoard(s, d, 1) /\ t = Step(s, d, 1)
    BY <2>1 DEF KingAttacks, Leaps
  <2>3. PICK a \in -2..2, b \in -2..2 : d = <<a, b>> /\ <<-a, -b>> \in KingDir
    <3>1. /\ d = <<d[1], d[2]>> /\ d[1] \in -2..2 /\ d[2] \in -2..2
          /\ <<-d[1], -d[2]>> \in KingDir
      BY DEF KingDir, RookDir, BishopDir
    <3>2. QED
      BY <3>1
  <2>4. Fro(-a, -b)
    BY <1>5, <2>2, <2>3 DEF To
  <2>5. QED
    BY <2>3, <2>4 DEF Fro, KingAttacks, Leaps
<1>8. ASSUME NEW c \in Color, t \in PawnAttacks[c][s]
      PROVE  s \in PawnAttacks[opposite(c)][t]
  <2>1. PICK d \in PawnDir(c) : OnBoard(s, d, 1) /\ t = Step(s, d, 1)
    BY <1>8 DEF PawnAttacks, Leaps
  <2>2. PICK a \in -2..2, b \in -2..2 : d = <<a, b>> /\ <<-a, -b>> \in PawnDir(opposite(c))
    <3>1. /\ d = <<d[1], d[2]>> /\ d[1] \in -2..2 /\ d[2] \in -2..2
          /\ <<-d[1], -d[2]>> \in PawnDir(opposite(c))
      BY DEF PawnDir, opposite, Color, WHITE, BLACK
    <3>2. QED
      BY <3>1
  <2>3. Fro(-a, -b)
    BY <1>5, <2>1, <2>2 DEF To
  <2>4. opposite(c) \in Color
    BY Directions
  <2>5. QED
    BY <2>2, <2>3, <2>4 DEF Fro, PawnAttacks, Leaps
<1>9. QED
  BY <1>6, <1>7, <1>8

\* The squares from which, and to which, a pawn captures.
LEMMA PawnCaptures ==
    ASSUME NEW c \in Color, NEW s \in Square, NEW t \in PawnAttacks[c][s]
    PROVE  /\ t \in Square
           /\ \/ s % 8 # 0 /\ t = s + push_inc(c) - 1
              \/ s % 8 # 7 /\ t = s + push_inc(c) + 1
<1>1. PICK d \in PawnDir(c) : OnBoard(s, d, 1) /\ t = Step(s, d, 1)
  BY DEF PawnAttacks, Leaps
<1>2. \E up \in {1, -1}, side \in {1, -1} :
         d = <<up, side>> /\ up = (IF c = WHITE THEN 1 ELSE -1)
  BY DEF PawnDir
<1>3. PICK up \in {1, -1}, side \in {1, -1} :
         d = <<up, side>> /\ up = (IF c = WHITE THEN 1 ELSE -1)
  BY <1>2
<1>4. (s \div 8) + up \in 0..7 /\ (s % 8) + side \in 0..7 /\ t = s + 8 * up + side
  BY <1>1, <1>3 DEF OnBoard, Step, rank_of, file_of, Square, NB_SQUARE
<1>5. t \in Square
  BY <1>4 DEF Square, NB_SQUARE
<1>6. push_inc(c) = 8 * up
  BY <1>3 DEF push_inc
<1>7. QED
  BY <1>4, <1>5, <1>6 DEF Square, NB_SQUARE

\* Where a pawn attacks, as shifts of its square.
LEMMA PawnShifts ==
    ASSUME NEW c \in Color, NEW s \in Square, NEW t \in Square
    PROVE  t \in PawnAttacks[c][s] <=>
             \/ s % 8 # 0 /\ t = s + push_inc(c) - 1
             \/ s % 8 # 7 /\ t = s + push_inc(c) + 1
<1>1. t \in PawnAttacks[c][s] => \/ s % 8 # 0 /\ t = s + push_inc(c) - 1
                                 \/ s % 8 # 7 /\ t = s + push_inc(c) + 1
  BY PawnCaptures
<1>2. ASSUME \/ s % 8 # 0 /\ t = s + push_inc(c) - 1
             \/ s % 8 # 7 /\ t = s + push_inc(c) + 1
      PROVE  t \in PawnAttacks[c][s]
  <2>1. PICK r \in 0..7, f \in 0..7 : r = rank_of(s) /\ f = file_of(s) /\ s = 8 * r + f /\ f = s % 8
    BY RankAndFile DEF file_of
  <2>2. PICK up \in {1, -1} : up = (IF c = WHITE THEN 1 ELSE -1) /\ push_inc(c) = 8 * up
    BY DEF push_inc
  <2>3. PICK side \in {1, -1} : t = (8 * r + f) + 8 * up + side /\ f + side \in 0..7
    <3>1. CASE s % 8 # 0 /\ t = s + push_inc(c) - 1
      <4>1. f # 0
        BY <2>1, <3>1, Zenon
      <4>2. t = (8 * r + f) + 8 * up - 1
        BY <2>1, <2>2, <3>1, Zenon
      <4>3. t = (8 * r + f) + 8 * up + (-1) /\ f + (-1) \in 0..7
        BY <4>1, <4>2
      <4>4. QED
        BY <4>3
    <3>2. CASE s % 8 # 7 /\ t = s + push_inc(c) + 1
      <4>1. f # 7
        BY <2>1, <3>2, Zenon
      <4>2. t = (8 * r + f) + 8 * up + 1
        BY <2>1, <2>2, <3>2, Zenon
      <4>3. t = (8 * r + f) + 8 * up + 1 /\ f + 1 \in 0..7
        BY <4>1, <4>2
      <4>4. QED
        BY <4>3
    <3>3. QED
      BY <1>2, <3>1, <3>2
  <2>4. r + up \in 0..7
    <3>1. t = 8 * (r + up) + (f + side) /\ t \in 0..63
      BY <2>3 DEF Square, NB_SQUARE
    <3>2. QED
      BY <2>3, <3>1
  <2>5. <<up, side>> \in PawnDir(c)
    BY <2>2 DEF PawnDir
  <2>6. OnBoard(s, <<up, side>>, 1) /\ t = Step(s, <<up, side>>, 1)
    <3>1. OnBoard(s, <<up, side>>, 1)
      BY <2>1, <2>3, <2>4 DEF OnBoard
    <3>2. Step(s, <<up, side>>, 1) = s + (8 * up + side)
      BY <2>1 DEF Step
    <3>3. QED
      BY <2>1, <2>3, <3>1, <3>2
  <2>7. QED
    BY <2>5, <2>6 DEF PawnAttacks, Leaps
<1>3. QED
  BY <1>1, <1>2

\* Lines along a rank.
LEMMA AlongRank ==
    ASSUME NEW s \in Square, NEW t \in Square, rank_of(s) = rank_of(t), s # t
    PROVE  /\ Aligned(RookDir, s, t) /\ t \in Segment[s][t] /\ s \in Segment[s][t]
           /\ \A x \in Square : x \in Between(s, t) <=> (s < x /\ x < t) \/ (t < x /\ x < s)
<1>1. ASSUME NEW e \in {-1, 1}, NEW k \in 1..7, t = s + e * k
      PROVE  Reached(s, t, <<0, e>>, k) /\ <<0, e>> \in RookDir /\ <<0, e>> \in KingDir
  <2>1. PICK r \in 0..7, f \in 0..7, g \in 0..7 :
          /\ r = rank_of(s) /\ f = file_of(s) /\ g = file_of(t) /\ s = 8 * r + f /\ t = 8 * r + g
    BY RankAndFile, ZenonT(40)
  <2>2. <<0, e>>[1] = 0 /\ <<0, e>>[2] = e
    OBVIOUS
  <2>3. f + k * e \in 0..7 /\ r + k * 0 \in 0..7
    <3>1. CASE e = 1
      BY <1>1, <2>1, <3>1
    <3>2. CASE e = -1
      BY <1>1, <2>1, <3>2
    <3>3. QED
      BY <3>1, <3>2
  <2>4. s \in Int /\ s + e * k = s + k * (8 * 0 + e)
    <3>1. s \in Int
      BY RankAndFile
    <3>2. CASE e = 1
      BY <3>1, <3>2
    <3>3. CASE e = -1
      BY <3>1, <3>3
    <3>4. QED
      BY <3>1, <3>2, <3>3
  <2>5. OnBoard(s, <<0, e>>, k) /\ t = Step(s, <<0, e>>, k)
    BY <1>1, <2>1, <2>2, <2>3, <2>4, Zenon DEF OnBoard, Step
  <2>6. <<0, e>> \in RookDir
    BY DEF RookDir
  <2>7. QED
    BY <2>5, <2>6 DEF Reached, KingDir
<1>2. PICK e \in {-1, 1}, k \in 1..7 : t = s + e * k
  <2>1. PICK r \in 0..7, f \in 0..7, g \in 0..7 : s = 8 * r + f /\ t = 8 * r + g
    BY RankAndFile, ZenonT(40)
  <2>2. \E e \in {-1, 1}, k \in 1..7 : g - f = e * k
    <3>1. CASE f < g
      <4>1. g - f \in 1..7 /\ g - f = 1 * (g - f)
        BY <3>1
      <4>2. QED
        BY <4>1
    <3>2. CASE g < f
      <4>1. f - g \in 1..7 /\ g - f = (-1) * (f - g)
        BY <3>2
      <4>2. QED
        BY <4>1
    <3>3. QED
      BY <2>1, <3>1, <3>2
  <2>3. PICK e \in {-1, 1}, k \in 1..7 : g - f = e * k
    BY <2>2
  <2>4. t = s + e * k
    <3>1. PICK z \in Int : z = e * k
      OBVIOUS
    <3>2. QED
      BY <2>1, <2>3, <3>1
  <2>5. QED
    BY <2>4
<1>3. Reached(s, t, <<0, e>>, k) /\ <<0, e>> \in RookDir /\ <<0, e>> \in KingDir
  BY <1>1, <1>2
<1>4. Aligned(RookDir, s, t)
  BY <1>3 DEF Aligned
<1>5. PICK d : d = <<0, e>>
  OBVIOUS
<1>6. d \in KingDir /\ Reached(s, t, d, k)
  BY <1>3, <1>5
<1>7. ASSUME NEW x PROVE x \in Between(s, t) <=> \E j \in 1..(k - 1) : x = Step(s, <<0, e>>, j)
  <2>1. x \in Between(s, t) <=> \E j \in 1..(k - 1) : x = Step(s, d, j)
    BY <1>6, SegmentOf DEF Between
  <2>2. QED
    BY <1>5, <2>1
<1>8. s \in Segment[s][t] /\ \A j \in 1..k : Step(s, <<0, e>>, j) \in Segment[s][t]
  <2>1. s \in Segment[s][t] /\ \A j \in 1..k : Step(s, d, j) \in Segment[s][t]
    BY <1>6, SegmentOf
  <2>2. QED
    BY <1>5, <2>1
<1>9. \A j \in Int : Step(s, <<0, e>>, j) = s + e * j
  <2>1. \A j \in Int : s + j * (8 * 0 + e) = s + e * j
    BY RankAndFile
  <2>2. <<0, e>>[1] = 0 /\ <<0, e>>[2] = e
    OBVIOUS
  <2>3. QED
    BY <2>1, <2>2, Zenon DEF Step
<1>10. t \in Segment[s][t] /\ s \in Segment[s][t]
  <2>1. k \in 1..k /\ k \in Int
    OBVIOUS
  <2>2. QED
    BY <1>2, <1>8, <1>9, <2>1
<1>11. ASSUME NEW x \in Square
      PROVE  x \in Between(s, t) <=> (s < x /\ x < t) \/ (t < x /\ x < s)
  <2>1. x \in Between(s, t) <=> \E j \in 1..(k - 1) : x = s + e * j
    <3>1. x \in Between(s, t) <=> \E j \in 1..(k - 1) : x = Step(s, <<0, e>>, j)
      BY <1>7, Zenon
    <3>2. \A j \in 1..(k - 1) : j \in Int
      OBVIOUS
    <3>3. QED
      BY <1>9, <3>1, <3>2, Zenon
  <2>2. s \in Int /\ x \in Int
    BY RankAndFile
  <2>3. CASE e = 1
    <3>1. (\E j \in 1..(k - 1) : x = s + j) <=> (s < x /\ x < s + k)
      <4>1. s < x /\ x < s + k => x - s \in 1..(k - 1) /\ x = s + (x - s)
        BY <2>2
      <4>2. QED
        BY <2>2, <4>1
    <3>2. \A j \in Int : s + 1 * j = s + j
      BY <2>2
    <3>3. QED
      BY <1>2, <2>1, <2>2, <2>3, <3>1, <3>2
  <2>4. CASE e = -1
    <3>1. (\E j \in 1..(k - 1) : x = s - j) <=> (s - k < x /\ x < s)
      <4>1. s - k < x /\ x < s => s - x \in 1..(k - 1) /\ x = s - (s - x)
        BY <2>2
      <4>2. QED
        BY <2>2, <4>1
    <3>2. \A j \in Int : s + (-1) * j = s - j
      BY <2>2
    <3>3. QED
      BY <1>2, <2>1, <2>2, <2>4, <3>1, <3>2
  <2>5. QED
    BY <2>3, <2>4
<1>12. QED
  BY <1>4, <1>10, <1>11

\* A line that stays on its rank for one square stays there.
LEMMA StaysOnRank ==
    ASSUME NEW s \in Square, NEW u, Aligned(KingDir, s, u), NEW x \in Between(s, u),
           rank_of(x) = rank_of(s)
    PROVE  u \in Square /\ rank_of(u) = rank_of(s) /\ ~Aligned(BishopDir, s, u)
<1>1. PICK d \in KingDir, k \in 1..7 : Reached(s, u, d, k)
  BY DEF Aligned
<1>2. PICK j \in 1..(k - 1) : x = Step(s, d, j)
  BY <1>1, SegmentOf DEF Between
<1>3. j \in 1..7 /\ j \in 0..k /\ k \in 0..7 /\ k \in Int /\ j \in Int
  OBVIOUS
<1>4. Reached(s, x, d, j)
  BY <1>1, <1>2, <1>3, Convex
<1>5. d[1] = 0
  <2>1. rank_of(x) = rank_of(s) + j * d[1] /\ rank_of(s) \in 0..7 /\ d[1] \in {-1, 0, 1}
    <3>1. rank_of(x) = rank_of(s) + j * d[1]
      BY <1>3, <1>4, Coordinates
    <3>2. rank_of(s) \in 0..7
      BY RankAndFile
    <3>3. d[1] \in {-1, 0, 1}
      BY EightDirections
    <3>4. QED
      BY <3>1, <3>2, <3>3
  <2>2. PICK r \in 0..7, a \in {-1, 0, 1} : r = rank_of(s) /\ a = d[1] /\ r = r + j * a
    BY <2>1
  <2>3. a = 0
    BY <1>3, <2>2
  <2>4. QED
    BY <2>2, <2>3
<1>6. u \in Square /\ rank_of(u) = rank_of(s) + k * d[1]
  BY <1>1, <1>3, Coordinates
<1>7. rank_of(s) + k * 0 = rank_of(s)
  <2>1. PICK r \in 0..7 : r = rank_of(s)
    BY RankAndFile
  <2>2. r + k * 0 = r
    OBVIOUS
  <2>3. QED
    BY <2>1, <2>2
<1>8. ~Aligned(BishopDir, s, u)
  <2>1. SUFFICES ASSUME NEW b \in BishopDir, NEW l \in 1..7, Reached(s, u, b, l) PROVE FALSE
    BY DEF Aligned
  <2>2. b \in KingDir
    BY DEF KingDir
  <2>3. b = d
    BY <1>1, <2>1, <2>2, OneWay
  <2>4. QED
    BY <1>5, <2>3, EightDirections
<1>9. QED
  BY <1>5, <1>6, <1>7, <1>8

-----------------------------------------------------------------------------
(* What the generator makes.                                               *)

\* The five kinds of moves.
PieceMove(p, m) ==
    /\ m.from \in p.byColor[p.turn] /\ m.from \notin p.byPiece["PAWN"]
    /\ m.to \in Square \ p.byColor[p.turn] /\ m.prom = NB_PIECE

\* The squares that a pawn on s may reach.
PawnStep(p, s, t) ==
    LET push == push_inc(p.turn)
    IN  \/ s \notin File(0) /\ t = s + push - 1
        \/ s \notin File(7) /\ t = s + push + 1
        \/ t = s + push

PawnMove(p, m) ==
    /\ m.from \in pos_pieces_cp(p, p.turn, "PAWN") \ Rank(relative_rank(p.turn, 6))
    /\ m.to \in Square \ p.byColor[p.turn] /\ m.prom = NB_PIECE
    /\ \/ PawnStep(p, m.from, m.to)
       \/ /\ m.from \in Rank(relative_rank(p.turn, 1))
          /\ m.from + push_inc(p.turn) \in Square \ pos_pieces(p)
          /\ m.to = m.from + 2 * push_inc(p.turn)
    /\ m.to # p.epSquare

EpMove(p, m) ==
    /\ m.from \in pos_pieces_cp(p, p.turn, "PAWN") \ Rank(relative_rank(p.turn, 6))
    /\ m.to = p.epSquare /\ p.epSquare # NB_SQUARE /\ m.prom = NB_PIECE
    /\ m.from \in PawnAttacks[opposite(p.turn)][p.epSquare]

Promotion(p, m) ==
    /\ m.from \in pos_pieces_cp(p, p.turn, "PAWN") \intersect Rank(relative_rank(p.turn, 6))
    /\ m.to \in Square \ p.byColor[p.turn]
    /\ m.prom \in {"QUEEN", "ROOK", "BISHOP", "KNIGHT"}
    /\ PawnStep(p, m.from, m.to)

\* The squares of king and rook after castling are free, but for these two.
Castles(p, m) ==
    /\ m.from = King(p) /\ m.from \in pos_pieces_cp(p, p.turn, "KING")
    /\ m.to \in CastleRooks(p, p.turn) /\ m.prom = NB_PIECE
    /\ {Rules!KingTo(m.from, m.to), Rules!RookTo(m.from, m.to)} \intersect pos_pieces(p)
         \subseteq {m.from, m.to}

Generated(p, m) ==
    /\ m = move(m.from, m.to, m.prom)
    /\ \/ PieceMove(p, m) \/ PawnMove(p, m) \/ EpMove(p, m)
       \/ Promotion(p, m) \/ Castles(p, m)

\* What a shifted bitboard holds.
LEMMA Shifted ==
    ASSUME NEW b, b \subseteq Square, NEW i \in Int, NEW s \in bb_shift(b, i)
    PROVE  s \in Square /\ s - i \in b
<1>1. PICK x \in b : s = x + i
  BY DEF bb_shift
<1>2. x \in Int
  BY DEF Square, NB_SQUARE
<1>3. s - i = x
  BY <1>1, <1>2
<1>4. QED
  BY <1>1, <1>3 DEF bb_shift

\* The captures and pushes of pawns: of enemy pieces, and to empty squares.
LEMMA PawnsGoTo ==
    ASSUME NEW p, Sound(p), NEW filter, NEW m \in NormalPawnMoves(p, filter)
    PROVE  /\ PawnMove(p, m) /\ m = move(m.from, m.to, m.prom)
           /\ m.to \in filter /\ m.to \in Allowed(p, m.from)
           /\ \/ m.to \in p.byColor[opposite(p.turn)] /\ m.to \in PawnAttacks[p.turn][m.from]
              \/ m.to \notin pos_pieces(p) /\ m.to = m.from + push_inc(p.turn)
              \/ /\ m.to \notin pos_pieces(p) /\ m.from + push_inc(p.turn) \notin pos_pieces(p)
                 /\ m.to = m.from + 2 * push_inc(p.turn)
<1> DEFINE us == p.turn
           push == push_inc(us)
           pawns == pos_pieces_cp(p, us, "PAWN") \ Rank(relative_rank(us, 6))
           capturable == p.byColor[opposite(us)] \intersect filter
           empty == Square \ pos_pieces(p)
<1>0. us \in Color /\ pawns \subseteq Square
  BY DEF Sound, BoardOK, pos_pieces_cp
<1>1. PICK s \in pawns, shift \in {push - 1, push + 1, push, 2 * push} :
        /\ m = move(s, s + shift, NB_PIECE) /\ s + shift \in Allowed(p, s)
        /\ \/ shift = push - 1 /\ s \notin File(0) /\ s \in bb_shift(capturable, -(push - 1))
           \/ shift = push + 1 /\ s \notin File(7) /\ s \in bb_shift(capturable, -(push + 1))
           \/ shift = push /\ s \in bb_shift(empty \intersect filter, -push)
           \/ /\ shift = 2 * push /\ s \in Rank(relative_rank(us, 1))
              /\ s \in bb_shift(empty, -push)
              /\ s \in bb_shift(empty \intersect filter, -2 * push)
  BY DEF NormalPawnMoves, serialize_pawn_moves
<1>2. m.from = s /\ m.to = s + shift /\ m.prom = NB_PIECE /\ m = move(m.from, m.to, m.prom)
  BY <1>1 DEF move
<1>3. push \in {8, -8} /\ opposite(us) \in Color /\ opposite(us) # us
  BY <1>0, Directions
<1>4. /\ s + shift \in filter
      /\ \/ s + shift \in p.byColor[opposite(us)] /\ shift \in {push - 1, push + 1}
         \/ s + shift \in Square \ pos_pieces(p) /\ shift \in {push, 2 * push}
  <2>1. capturable \subseteq Square /\ empty \subseteq Square /\ empty \intersect filter \subseteq Square
    BY <1>3 DEF Sound, BoardOK
  <2>2. CASE shift = push - 1
    <3>1. s \in bb_shift(capturable, -(push - 1)) /\ -(push - 1) \in Int
      BY <2>2, <1>1, <1>3
    <3>2. s - (-(push - 1)) \in capturable
      BY <3>1, <2>1, Shifted
    <3>3. s + shift = s - (-(push - 1))
      BY <2>2, <1>3, <1>0 DEF Square, NB_SQUARE
    <3>4. QED
      BY <3>2, <3>3, <2>2
  <2>3. CASE shift = push + 1
    <3>1. s \in bb_shift(capturable, -(push + 1)) /\ -(push + 1) \in Int
      BY <2>3, <1>1, <1>3
    <3>2. s - (-(push + 1)) \in capturable
      BY <3>1, <2>1, Shifted
    <3>3. s + shift = s - (-(push + 1))
      BY <2>3, <1>3, <1>0 DEF Square, NB_SQUARE
    <3>4. QED
      BY <3>2, <3>3, <2>3
  <2>4. CASE shift = push
    <3>1. s \in bb_shift(empty \intersect filter, -push) /\ -push \in Int
      BY <2>4, <1>1, <1>3
    <3>2. s - (-push) \in empty \intersect filter
      BY <3>1, <2>1, Shifted
    <3>3. s + shift = s - (-push)
      BY <2>4, <1>3, <1>0 DEF Square, NB_SQUARE
    <3>4. QED
      BY <3>2, <3>3, <2>4
  <2>5. CASE shift = 2 * push
    <3>1. s \in bb_shift(empty \intersect filter, -2 * push) /\ -2 * push \in Int
      BY <2>5, <1>1, <1>3
    <3>2. s - (-2 * push) \in empty \intersect filter
      BY <3>1, <2>1, Shifted
    <3>3. s + shift = s - (-2 * push)
      BY <2>5, <1>3, <1>0 DEF Square, NB_SQUARE
    <3>4. QED
      BY <3>2, <3>3, <2>5
  <2>6. QED
    BY <2>2, <2>3, <2>4, <2>5
<1>5. s + shift \in Square \ p.byColor[us]
  BY <1>3, <1>4, <1>0 DEF Sound, BoardOK, pos_pieces, Color, WHITE, BLACK
<1>6. s + shift # p.epSquare
  <2>1. CASE p.epSquare = NB_SQUARE
    BY <2>1, <1>5 DEF Square, NB_SQUARE
  <2>2. CASE p.epSquare # NB_SQUARE
    <3>1. /\ p.epSquare \in Square \ pos_pieces(p) /\ rank_of(p.epSquare) = relative_rank(us, 5)
          /\ p.epSquare - push \in p.byColor[opposite(us)]
      BY <2>2 DEF Sound, EpSound, Rank, pos_pieces_cp
    <3>2. CASE shift \in {push - 1, push + 1}
      BY <3>1, <3>2, <1>3, <1>4, <1>0 DEF pos_pieces, Color, WHITE, BLACK
    <3>3. CASE shift = push
      <4>1. s \in p.byColor[us] /\ s \in Int
        BY <1>0 DEF pos_pieces_cp, Square, NB_SQUARE
      <4>2. s \notin p.byColor[opposite(us)]
        BY <4>1, <1>0, <1>3 DEF Sound, BoardOK, Color, WHITE, BLACK
      <4>3. s + push = p.epSquare => p.epSquare - push = s
        BY <4>1, <1>3, <3>1 DEF Square, NB_SQUARE
      <4>4. QED
        BY <4>2, <4>3, <3>1, <3>3
    <3>4. CASE shift = 2 * push
      <4>1. s \in Square /\ s \div 8 = IF us = 0 THEN 1 ELSE 6
        BY <3>4, <1>1, <1>0, <1>3 DEF Rank, rank_of, relative_rank, Color, WHITE, BLACK
      <4>2. s + 2 * push = p.epSquare => p.epSquare \div 8 = IF us = 0 THEN 3 ELSE 4
        BY <4>1, <1>0, <1>3, Directions DEF Square, NB_SQUARE
      <4>3. p.epSquare \div 8 = IF us = 0 THEN 5 ELSE 2
        BY <3>1, <1>0 DEF rank_of, relative_rank, Color, WHITE, BLACK
      <4>4. QED
        BY <4>2, <4>3, <3>4, <1>0 DEF Color, WHITE, BLACK
    <3>5. QED
      BY <3>2, <3>3, <3>4
  <2>3. QED
    BY <2>1, <2>2
<1>7. shift = 2 * push => s + push \in empty
  <2>1. ASSUME shift = 2 * push
        PROVE  s + push \in empty
    <3>1. s \in bb_shift(empty, -push) /\ -push \in Int
      BY <2>1, <1>1, <1>3
    <3>2. s - (-push) \in empty
      BY <3>1, Shifted
    <3>3. s + push = s - (-push)
      BY <1>3, <1>0 DEF Square, NB_SQUARE
    <3>4. QED
      BY <3>2, <3>3
  <2>2. QED
    BY <2>1
<1>8. PawnMove(p, m)
  BY <1>7, <1>1, <1>2, <1>3, <1>5, <1>6, <1>0 DEF PawnMove, PawnStep, Square, NB_SQUARE
<1>9. shift \in {push - 1, push + 1} => s + shift \in PawnAttacks[us][s]
  <2>1. ASSUME shift \in {push - 1, push + 1} PROVE s + shift \in PawnAttacks[us][s]
    <3>1. s \in Square /\ s + shift \in Square
      BY <1>0, <1>5
    <3>2. \/ s % 8 # 0 /\ s + shift = s + push - 1
          \/ s % 8 # 7 /\ s + shift = s + push + 1
      BY <1>0, <1>1, <1>3, <2>1, <3>1 DEF File, file_of, Square, NB_SQUARE
    <3>3. QED
      BY <1>0, <3>1, <3>2, PawnShifts
  <2>2. QED
    BY <2>1
<1>10. s + shift \in Allowed(p, s)
  BY <1>1
<1>11. QED
  BY <1>2, <1>4, <1>8, <1>7, <1>9, <1>10

\* Pushes and captures of pawns are moves of pawns.
LEMMA NormalPawns ==
    ASSUME NEW p, Sound(p), NEW filter, NEW m \in NormalPawnMoves(p, filter)
    PROVE  Generated(p, m)
BY PawnsGoTo DEF Generated

\* So are captures en passant.
LEMMA EpMoves ==
    ASSUME NEW p, NEW m \in EnPassant(p)
    PROVE  EpMove(p, m) /\ Generated(p, m)
<1>1. p.epSquare # NB_SQUARE
  BY DEF EnPassant
<1>2. PICK s \in PawnAttacks[opposite(p.turn)][p.epSquare]
                  \intersect (pos_pieces_cp(p, p.turn, "PAWN")
                                \ Rank(relative_rank(p.turn, 6))) :
         m = move(s, p.epSquare, NB_PIECE)
  BY <1>1 DEF EnPassant
<1>3. m.from = s /\ m.to = p.epSquare /\ m.prom = NB_PIECE
  BY <1>2 DEF move
<1>4. QED
  BY <1>1, <1>2, <1>3 DEF Generated, EpMove

\* So are promotions.
LEMMA PromotionMoves ==
    ASSUME NEW p, Sound(p), NEW filter, NEW m \in Promotions(p, filter)
    PROVE  Generated(p, m)
<1> DEFINE us == p.turn
           targets(s) == (PawnAttacks[us][s] \intersect (p.byColor[opposite(us)] \intersect filter))
                         \union ({s + push_inc(us)} \intersect filter
                                   \intersect (Square \ pos_pieces(p)))
<1>0. us \in Color /\ opposite(us) \in Color /\ opposite(us) # us
  BY Directions DEF Sound, BoardOK
<1>1. PICK s \in pos_pieces_cp(p, us, "PAWN") \intersect Rank(relative_rank(us, 6)) :
        \E to \in targets(s) \intersect Allowed(p, s),
           prom \in {"QUEEN", "ROOK", "BISHOP", "KNIGHT"} : m = move(s, to, prom)
  BY DEF Promotions
<1>2. PICK to \in targets(s), prom \in {"QUEEN", "ROOK", "BISHOP", "KNIGHT"} :
        m = move(s, to, prom)
  BY <1>1
<1>3. m.from = s /\ m.to = to /\ m.prom = prom
  BY <1>2 DEF move
<1>4. s \in Square
  BY <1>0 DEF Sound, BoardOK, pos_pieces_cp
<1>5. to \in Square \ p.byColor[us]
  BY <1>0, <1>2 DEF Sound, BoardOK, pos_pieces, Color, WHITE, BLACK
<1>6. PawnStep(p, s, to)
  <2>1. CASE to \in PawnAttacks[us][s]
    BY <2>1, <1>0, <1>4, PawnCaptures DEF PawnStep, File, file_of
  <2>2. CASE to = s + push_inc(us)
    BY <2>2 DEF PawnStep
  <2>3. QED
    BY <1>2, <2>1, <2>2
<1>7. QED
  BY <1>1, <1>2, <1>3, <1>5, <1>6 DEF Generated, Promotion

\* No line, and no leap, leaves the board.
LEMMA StepsOnBoard ==
    ASSUME NEW s \in Square, NEW d \in KingDir \union KnightDir, NEW k \in 1..7,
           OnBoard(s, d, k)
    PROVE  Step(s, d, k) \in Square
<1>1. s = 8 * (s \div 8) + (s % 8) /\ s \in Int /\ s \div 8 \in Int /\ s % 8 \in Int
  BY DEF Square, NB_SQUARE
<1>2. \E a, b \in {-2, -1, 0, 1, 2} : d = <<a, b>>
  BY DEF KingDir, RookDir, BishopDir, KnightDir
<1>3. PICK a \in {-2, -1, 0, 1, 2}, b \in {-2, -1, 0, 1, 2} : d = <<a, b>>
  BY <1>2
<1>4. (s \div 8) + k * a \in 0..7 /\ (s % 8) + k * b \in 0..7
  BY <1>3 DEF OnBoard, rank_of, file_of
<1>5. Step(s, d, k) = s + k * (8 * a + b)
  BY <1>3 DEF Step
<1>6. s + k * (8 * a + b) = 8 * ((s \div 8) + k * a) + ((s % 8) + k * b)
  BY <1>1, <1>3
<1>7. QED
  BY <1>4, <1>5, <1>6 DEF Square, NB_SQUARE

\* Attacks stay on the board.
LEMMA AttacksOnBoard ==
    ASSUME NEW s \in Square, NEW occ
    PROVE  /\ KnightAttacks[s] \subseteq Square /\ KingAttacks[s] \subseteq Square
           /\ bb_rook_attacks(s, occ) \subseteq Square
           /\ bb_bishop_attacks(s, occ) \subseteq Square
<1>1. KnightAttacks[s] \subseteq Square /\ KingAttacks[s] \subseteq Square
  BY StepsOnBoard DEF KnightAttacks, KingAttacks, Leaps
<1>2. \A d \in KingDir : Line(s, d) \subseteq Square
  BY StepsOnBoard DEF Line
<1>3. RookLines[s] \subseteq Square /\ BishopLines[s] \subseteq Square
  BY <1>2 DEF RookLines, BishopLines, KingDir
<1>4. QED
  BY <1>1, <1>3 DEF bb_rook_attacks, bb_bishop_attacks, Unobstructed

\* Moves served to a piece that is no pawn are moves of pieces.
LEMMA PieceMoves ==
    ASSUME NEW p, Sound(p), NEW s \in p.byColor[p.turn] \ p.byPiece["PAWN"],
           NEW targets, targets \subseteq Square \ p.byColor[p.turn],
           NEW m \in serialize_piece_moves(p, s, targets)
    PROVE  Generated(p, m)
<1>1. PICK to \in targets : m = move(s, to, NB_PIECE)
  BY DEF serialize_piece_moves, Plain
<1>2. m.from = s /\ m.to = to /\ m.prom = NB_PIECE
  BY <1>1 DEF move
<1>3. QED
  BY <1>1, <1>2 DEF Generated, PieceMove

\* Pieces of another kind are no pawns.
LEMMA NotPawns ==
    ASSUME NEW p, Sound(p), NEW k \in Piece \ {"PAWN"},
           NEW s \in pos_pieces_cp(p, p.turn, k)
    PROVE  s \in p.byColor[p.turn] \ p.byPiece["PAWN"]
BY DEF Sound, BoardOK, pos_pieces_cp, Piece

\* So are those of the king.
LEMMA KingsMoves ==
    ASSUME NEW p, Sound(p), HasKing(p, p.turn),
           NEW filter, filter \subseteq Square \ p.byColor[p.turn],
           NEW m \in KingMoves(p, filter)
    PROVE  Generated(p, m)
<1>1. King(p) \in pos_pieces_cp(p, p.turn, "KING") /\ p.turn \in Color
  BY KingSquare DEF King, Sound, BoardOK
<1>2. King(p) \in p.byColor[p.turn] \ p.byPiece["PAWN"]
  BY <1>1, NotPawns DEF Piece
<1>3. QED
  BY <1>2, PieceMoves DEF KingMoves

\* So are those of the other pieces.
LEMMA OtherMoves ==
    ASSUME NEW p, Sound(p), NEW filter, filter \intersect p.byColor[p.turn] = {},
           NEW m \in gen_piece_moves(p, filter)
    PROVE  Generated(p, m)
<1>0. p.byColor[p.turn] \subseteq Square
  BY DEF Sound, BoardOK
<1>1. PICK s \in p.byColor[p.turn], attacks \in SUBSET Square :
        /\ s \in p.byPiece["KNIGHT"] \union p.byPiece["BISHOP"]
                  \union p.byPiece["ROOK"] \union p.byPiece["QUEEN"]
        /\ m \in serialize_piece_moves(p, s, attacks \intersect filter)
  <2>1. CASE \E s \in pos_pieces_cp(p, p.turn, "KNIGHT") :
               m \in serialize_piece_moves(p, s, KnightAttacks[s] \intersect filter)
    BY <2>1, <1>0, AttacksOnBoard DEF pos_pieces_cp
  <2>2. CASE \E s \in pos_pieces_cpp(p, p.turn, "ROOK", "QUEEN") :
               m \in serialize_piece_moves(p, s,
                       bb_rook_attacks(s, pos_pieces(p)) \intersect filter)
    BY <2>2, <1>0, AttacksOnBoard DEF pos_pieces_cpp
  <2>3. CASE \E s \in pos_pieces_cpp(p, p.turn, "BISHOP", "QUEEN") :
               m \in serialize_piece_moves(p, s,
                       bb_bishop_attacks(s, pos_pieces(p)) \intersect filter)
    BY <2>3, <1>0, AttacksOnBoard DEF pos_pieces_cpp
  <2>4. QED
    BY <2>1, <2>2, <2>3 DEF gen_piece_moves
<1>2. s \notin p.byPiece["PAWN"]
  BY <1>1 DEF Sound, BoardOK, Piece
<1>3. attacks \intersect filter \subseteq Square \ p.byColor[p.turn]
  BY <1>1
<1>4. QED
  BY <1>1, <1>2, <1>3, PieceMoves

\* The squares of a rank from one to another include both.
LEMMA SegmentEnds ==
    ASSUME NEW s \in Square, NEW t \in Square, rank_of(s) = rank_of(t)
    PROVE  s \in Segment[s][t] /\ t \in Segment[s][t]
<1>1. CASE s = t
  BY <1>1 DEF Segment
<1>2. CASE s # t
  <2> DEFINE d == <<0, IF s < t THEN 1 ELSE -1>>
             k == IF s < t THEN t - s ELSE s - t
  <2>1. d \in KingDir /\ k \in 1..7 /\ k \in Int
    BY <1>2 DEF KingDir, RookDir, rank_of, Square, NB_SQUARE
  <2>2. OnBoard(s, d, k) /\ t = Step(s, d, k)
    BY <1>2 DEF OnBoard, Step, rank_of, file_of, Square, NB_SQUARE
  <2>3. t \in Line(s, d)
    BY <2>1, <2>2 DEF Line
  <2>4. t \notin Line(t, d)
    BY <1>2 DEF Line, Step, Square, NB_SQUARE
  <2>5. QED
    BY <1>2, <2>1, <2>3, <2>4 DEF Segment
<1>3. QED
  BY <1>1, <1>2

\* Bitboards are finite.
LEMMA FiniteBoard ==
    ASSUME NEW S, S \subseteq Square
    PROVE  IsFiniteSet(S) /\ bb_count(S) \in Nat
<1>1. IsFiniteSet(Square)
  <2>1. IsFiniteSet(0..63)
    <3>1. \A a, b \in Int : IsFiniteSet(a..b)
      BY FS_Interval
    <3>2. 0 \in Int /\ 63 \in Int
      OBVIOUS
    <3>3. QED
      BY <3>1, <3>2, Zenon
  <2>2. QED
    BY <2>1 DEF Square, NB_SQUARE
<1>2. QED
  BY <1>1, FS_Subset, FS_CardinalityType DEF bb_count

\* A bitboard that counts two squares holds no third.
LEMMA Pair ==
    ASSUME NEW S, S \subseteq Square, bb_count(S) = 2, NEW a \in S, NEW b \in S, a # b
    PROVE  S = {a, b}
<1>1. IsFiniteSet({a}) /\ Cardinality({a}) = 1
  BY FS_Singleton
<1>2. IsFiniteSet({a} \union {b}) /\ Cardinality({a} \union {b}) = 1 + 1
  <2>1. b \notin {a}
    OBVIOUS
  <2>2. QED
    BY <1>1, <2>1, FS_AddElement
<1>3. {a} \union {b} \in SUBSET S
  OBVIOUS
<1>4. QED
  BY <1>2, <1>3, FiniteBoard, FS_Subset DEF bb_count

\* What is generated as castling is castling.
LEMMA CastlingMoves ==
    ASSUME NEW p, Sound(p), HasKing(p, p.turn), NEW m \in gen_castling_moves(p)
    PROVE  Generated(p, m)
<1> DEFINE king == King(p)
           kto(r) == square_from(rank_of(r), IF r > king THEN 6 ELSE 2)
           rto(r) == square_from(rank_of(r), IF r > king THEN 5 ELSE 3)
           path(r) == (Segment[king][kto(r)] \union Segment[r][rto(r)])
                        \intersect pos_pieces(p)
<1>1. PICK r \in CastleRooks(p, p.turn) :
        m = move(king, r, NB_PIECE) /\ bb_count(path(r)) = 2
  BY DEF gen_castling_moves, Plain
<1>2. m.from = king /\ m.to = r /\ m.prom = NB_PIECE
  BY <1>1 DEF move
<1>3. king \in pos_pieces_cp(p, p.turn, "KING") /\ king \in Square /\ p.turn \in Color
  BY KingSquare DEF King, Sound, BoardOK
<1>4. r \in Square /\ r \in p.byPiece["ROOK"] /\ r \in pos_pieces(p)
  BY DEF Sound, RightsSound, CastleRooks, BoardOK, pos_pieces, Color, WHITE, BLACK, Piece
<1>5. r # king
  BY <1>3, <1>4 DEF Sound, BoardOK, pos_pieces_cp, Piece
<1>6. rank_of(r) = rank_of(king)
  BY <1>1, <1>3 DEF Sound, RightsSound, Rank
<1>7. /\ kto(r) \in Square /\ rto(r) \in Square
      /\ rank_of(kto(r)) = rank_of(r) /\ rank_of(rto(r)) = rank_of(r)
  BY <1>4 DEF square_from, rank_of, Square, NB_SQUARE
<1>8. /\ king \in Segment[king][kto(r)] /\ kto(r) \in Segment[king][kto(r)]
      /\ r \in Segment[r][rto(r)] /\ rto(r) \in Segment[r][rto(r)]
  BY <1>3, <1>4, <1>6, <1>7, SegmentEnds
<1>9. path(r) = {king, r}
  <2>1. path(r) \subseteq Square /\ king \in path(r) /\ r \in path(r)
    BY <1>3, <1>4, <1>8 DEF pos_pieces, pos_pieces_cp, Sound, BoardOK, Color, WHITE, BLACK
  <2>2. QED
    BY <1>1, <1>5, <2>1, Pair
<1>10. {kto(r), rto(r)} \intersect pos_pieces(p) \subseteq {king, r}
  BY <1>8, <1>9
<1>11. kto(r) = Rules!KingTo(king, r) /\ rto(r) = Rules!RookTo(king, r)
  BY <1>6 DEF square_from, Rules!KingTo, Rules!RookTo, Rules!rank_of, rank_of
<1>12. QED
  BY <1>1, <1>2, <1>3, <1>10, <1>11 DEF Generated, Castles

\* Every move that is generated is of one of the five kinds.
LEMMA AllMoves ==
    ASSUME NEW p, Sound(p), HasKing(p, p.turn), NEW m \in gen_all_moves(p)
    PROVE  Generated(p, m)
<1> DEFINE ours == p.byColor[p.turn]
<1>1. ASSUME NEW filter, m \in gen_pawn_moves(p, filter)
      PROVE  Generated(p, m)
  BY <1>1, NormalPawns, EpMoves, PromotionMoves DEF gen_pawn_moves
<1>2. CASE p.checkers # {}
  <2>1. CASE m \in KingMoves(p, Square \ ours)
    BY <2>1, KingsMoves
  <2>2. CASE \E targets : m \in gen_piece_moves(p, targets \ ours)
    <3>1. PICK targets : m \in gen_piece_moves(p, targets \ ours)
      BY <2>2
    <3>2. (targets \ ours) \intersect p.byColor[p.turn] = {}
      OBVIOUS
    <3>3. QED
      BY <3>1, <3>2, OtherMoves
  <2>3. CASE \E filter : m \in gen_pawn_moves(p, filter)
    BY <2>3, <1>1
  <2>4. QED
    BY <1>2, <2>1, <2>2, <2>3 DEF gen_all_moves, gen_check_escapes
<1>3. CASE p.checkers = {}
  BY <1>1, <1>3, OtherMoves, KingsMoves, CastlingMoves DEF gen_all_moves
<1>4. QED
  BY <1>2, <1>3

-----------------------------------------------------------------------------
(* What set_square and clear_square do.                                    *)

\* The numbers of the pieces, and the key as far as it is made of them.
PieceNumbers == {<<"piece", c, k, s>> : c \in Color, k \in Piece, s \in Square}
PieceKey(p) ==
    \A c \in Color, k \in Piece, s \in Square :
        <<"piece", c, k, s>> \in p.key <=> s \in p.byColor[c] \intersect p.byPiece[k]

\* The board with its part of the key.
Cells(p) == BoardOK(p) /\ PieceKey(p)

\* All but the board and its part of the key.
SameRest(p, q) ==
    /\ q.key \ PieceNumbers = p.key \ PieceNumbers
    /\ q.castleRooks = p.castleRooks /\ q.turn = p.turn /\ q.epSquare = p.epSquare
    /\ q.rule50 = p.rule50 /\ q.fullMove = p.fullMove /\ q.chess960 = p.chess960

\* Zobrist numbers of pieces differ if the pieces or squares do.
LEMMA NumbersDiffer ==
    ASSUME NEW c \in Color, NEW k \in Piece, NEW s \in Square,
           NEW d \in Color, NEW l \in Piece, NEW t \in Square
    PROVE  <<"piece", c, k, s>> = <<"piece", d, l, t>> <=> c = d /\ k = l /\ s = t
OBVIOUS

\* clear_square takes a piece from the board and its number out of the key.
LEMMA ClearSquare ==
    ASSUME NEW p, Cells(p), NEW c \in Color, NEW k \in Piece,
           NEW s \in p.byColor[c] \intersect p.byPiece[k],
           NEW q, q = clear_square(p, c, k, s)
    PROVE  /\ Cells(q) /\ SameRest(p, q)
           /\ \A d \in Color : q.byColor[d] = p.byColor[d] \ {s}
           /\ \A l \in Piece : q.byPiece[l] = p.byPiece[l] \ {s}
<1>1. /\ IsPosition(p) /\ p.byColor \in [Color -> SUBSET Square] /\ s \in Square
      /\ p.byPiece \in [Piece -> SUBSET Square] /\ p.turn \in Color
  BY DEF Cells, BoardOK
<1>2. /\ IsPosition(q)
      /\ q.byColor = [p.byColor EXCEPT ![c] = @ \ {s}]
      /\ q.byPiece = [p.byPiece EXCEPT ![k] = @ \ {s}]
      /\ q.key = Xor(p.key, {<<"piece", c, k, s>>})
      /\ q.castleRooks = p.castleRooks /\ q.turn = p.turn /\ q.epSquare = p.epSquare
      /\ q.rule50 = p.rule50 /\ q.fullMove = p.fullMove /\ q.chess960 = p.chess960
  BY <1>1 DEF clear_square, IsPosition, ZobristKey
<1>3. \A d \in Color : q.byColor[d] = p.byColor[d] \ {s}
  BY <1>1, <1>2 DEF Cells, BoardOK, Color, WHITE, BLACK
<1>4. \A l \in Piece : q.byPiece[l] = p.byPiece[l] \ {s}
  BY <1>1, <1>2 DEF Cells, BoardOK
<1>5. BoardOK(q)
  <2>1. q.byColor \in [Color -> SUBSET Square] /\ q.byPiece \in [Piece -> SUBSET Square]
    BY <1>1, <1>2
  <2>2. q.byColor[WHITE] \intersect q.byColor[BLACK] = {}
    BY <1>3 DEF Cells, BoardOK, Color
  <2>3. \A a, b \in Piece : a # b => q.byPiece[a] \intersect q.byPiece[b] = {}
    BY <1>4 DEF Cells, BoardOK
  <2>4. \A t \in Square : t \in pos_pieces(q) <=> \E l \in Piece : t \in q.byPiece[l]
    BY <1>3, <1>4 DEF Cells, BoardOK, pos_pieces, Color
  <2>5. QED
    BY <1>1, <1>2, <2>1, <2>2, <2>3, <2>4 DEF BoardOK
<1>6. PieceKey(q)
  <2>1. ASSUME NEW d \in Color, NEW l \in Piece, NEW t \in Square
        PROVE  <<"piece", d, l, t>> \in q.key <=> t \in q.byColor[d] \intersect q.byPiece[l]
    <3>1. <<"piece", d, l, t>> \in p.key <=> t \in p.byColor[d] \intersect p.byPiece[l]
      BY DEF Cells, PieceKey
    <3>2. <<"piece", d, l, t>> \in q.key
            <=> ~(<<"piece", d, l, t>> \in p.key <=> c = d /\ k = l /\ s = t)
      BY <1>1, <1>2, NumbersDiffer DEF Xor
    <3>3. s \in p.byColor[d] => d = c
      BY DEF Cells, BoardOK, Color, WHITE, BLACK
    <3>4. s \in p.byPiece[l] => l = k
      BY DEF Cells, BoardOK
    <3>5. QED
      BY <1>3, <1>4, <3>1, <3>2, <3>3, <3>4
  <2>2. QED
    BY <2>1 DEF PieceKey
<1>7. q.key \ PieceNumbers = p.key \ PieceNumbers
  BY <1>1, <1>2 DEF Xor, PieceNumbers
<1>8. QED
  BY <1>2, <1>3, <1>4, <1>5, <1>6, <1>7 DEF Cells, SameRest

\* set_square puts a piece on an empty square and its number into the key.
LEMMA SetSquare ==
    ASSUME NEW p, Cells(p), NEW c \in Color, NEW k \in Piece,
           NEW s \in Square \ pos_pieces(p),
           NEW q, q = set_square(p, c, k, s)
    PROVE  /\ Cells(q) /\ SameRest(p, q)
           /\ \A d \in Color :
                q.byColor[d] = p.byColor[d] \union (IF d = c THEN {s} ELSE {})
           /\ \A l \in Piece :
                q.byPiece[l] = p.byPiece[l] \union (IF l = k THEN {s} ELSE {})
<1>1. /\ IsPosition(p) /\ p.byColor \in [Color -> SUBSET Square] /\ s \in Square
      /\ p.byPiece \in [Piece -> SUBSET Square] /\ p.turn \in Color
  BY DEF Cells, BoardOK
<1>2. /\ IsPosition(q)
      /\ q.byColor = [p.byColor EXCEPT ![c] = @ \union {s}]
      /\ q.byPiece = [p.byPiece EXCEPT ![k] = @ \union {s}]
      /\ q.key = Xor(p.key, {<<"piece", c, k, s>>})
      /\ q.castleRooks = p.castleRooks /\ q.turn = p.turn /\ q.epSquare = p.epSquare
      /\ q.rule50 = p.rule50 /\ q.fullMove = p.fullMove /\ q.chess960 = p.chess960
  BY <1>1 DEF set_square, IsPosition, ZobristKey
<1>3. \A d \in Color : q.byColor[d] = p.byColor[d] \union (IF d = c THEN {s} ELSE {})
  BY <1>1, <1>2
<1>4. \A l \in Piece : q.byPiece[l] = p.byPiece[l] \union (IF l = k THEN {s} ELSE {})
  BY <1>1, <1>2
<1>0. (\A d \in Color : s \notin p.byColor[d]) /\ (\A l \in Piece : s \notin p.byPiece[l])
  BY DEF Cells, BoardOK, pos_pieces, Color
<1>5. BoardOK(q)
  <2>1. q.byColor \in [Color -> SUBSET Square] /\ q.byPiece \in [Piece -> SUBSET Square]
    BY <1>1, <1>2
  <2>2. q.byColor[WHITE] \intersect q.byColor[BLACK] = {}
    BY <1>3, <1>0 DEF Cells, BoardOK, Color, WHITE, BLACK
  <2>3. \A a, b \in Piece : a # b => q.byPiece[a] \intersect q.byPiece[b] = {}
    BY <1>4, <1>0 DEF Cells, BoardOK
  <2>4. \A t \in Square : t \in pos_pieces(q) <=> \E l \in Piece : t \in q.byPiece[l]
    <3>1. TAKE t \in Square
    <3>2. t \in pos_pieces(q) <=> t \in pos_pieces(p) \/ t = s
      BY <1>3 DEF pos_pieces, Color, WHITE, BLACK
    <3>3. (\E l \in Piece : t \in q.byPiece[l]) <=> (\E l \in Piece : t \in p.byPiece[l]) \/ t = s
      BY <1>4
    <3>4. QED
      BY <3>2, <3>3 DEF Cells, BoardOK
  <2>5. QED
    BY <1>1, <1>2, <2>1, <2>2, <2>3, <2>4 DEF BoardOK
<1>6. PieceKey(q)
  <2>1. ASSUME NEW d \in Color, NEW l \in Piece, NEW t \in Square
        PROVE  <<"piece", d, l, t>> \in q.key <=> t \in q.byColor[d] \intersect q.byPiece[l]
    <3>1. <<"piece", d, l, t>> \in p.key <=> t \in p.byColor[d] \intersect p.byPiece[l]
      BY DEF Cells, PieceKey
    <3>2. <<"piece", d, l, t>> \in q.key
            <=> ~(<<"piece", d, l, t>> \in p.key <=> c = d /\ k = l /\ s = t)
      BY <1>1, <1>2, NumbersDiffer DEF Xor
    <3>3. QED
      BY <1>0, <1>3, <1>4, <3>1, <3>2
  <2>2. QED
    BY <2>1 DEF PieceKey
<1>7. q.key \ PieceNumbers = p.key \ PieceNumbers
  BY <1>1, <1>2 DEF Xor, PieceNumbers
<1>8. QED
  BY <1>2, <1>3, <1>4, <1>5, <1>6, <1>7 DEF Cells, SameRest

\* pos_piece_on finds the piece of a square.
LEMMA PieceOn ==
    ASSUME NEW p, BoardOK(p), NEW s
    PROVE  /\ \A k \in Piece : s \in p.byPiece[k] => pos_piece_on(p, s) = k
           /\ (\A k \in Piece : s \notin p.byPiece[k]) => pos_piece_on(p, s) = NB_PIECE
           /\ s \in pos_pieces(p) => /\ pos_piece_on(p, s) \in Piece
                                    /\ s \in p.byPiece[pos_piece_on(p, s)]
<1>1. \A k \in Piece : s \in p.byPiece[k] => pos_piece_on(p, s) = k
  <2>1. ASSUME NEW k \in Piece, s \in p.byPiece[k] PROVE pos_piece_on(p, s) = k
    <3>1. \A l \in Piece : s \in p.byPiece[l] => l = k
      BY <2>1 DEF BoardOK
    <3>2. QED
      BY <2>1, <3>1 DEF pos_piece_on
  <2>2. QED
    BY <2>1
<1>2. s \in pos_pieces(p) => \E k \in Piece : s \in p.byPiece[k]
  BY DEF BoardOK, pos_pieces, Color
<1>3. QED
  BY <1>1, <1>2 DEF pos_piece_on

-----------------------------------------------------------------------------
(* What pos_move does to the board, step by step.                          *)

\* A position with the numbers that the first lines of pos_move set.
Started(p) == [p EXCEPT !.rule50 = @ + 1, !.epSquare = NB_SQUARE]

\* What pos_move does first leaves the board alone.
LEMMA StartedBoard ==
    ASSUME NEW p, Cells(p), NEW q, q = Started(p)
    PROVE  /\ Cells(q) /\ q.byColor = p.byColor /\ q.byPiece = p.byPiece /\ q.key = p.key
           /\ q.castleRooks = p.castleRooks /\ q.turn = p.turn /\ q.epSquare = NB_SQUARE
           /\ q.rule50 = p.rule50 + 1 /\ q.fullMove = p.fullMove /\ q.chess960 = p.chess960
<1>1. /\ IsPosition(q) /\ q.byColor = p.byColor /\ q.byPiece = p.byPiece /\ q.key = p.key
      /\ q.castleRooks = p.castleRooks /\ q.turn = p.turn /\ q.epSquare = NB_SQUARE
      /\ q.rule50 = p.rule50 + 1 /\ q.fullMove = p.fullMove /\ q.chess960 = p.chess960
  BY DEF Cells, BoardOK, IsPosition, Started
<1>2. QED
  BY <1>1 DEF Cells, BoardOK, PieceKey, pos_pieces

\* A capture empties the square, resets the counter, and takes the right of a
\* rook.
LEMMA CapturedBoard ==
    ASSUME NEW p, Cells(p), NEW m, m.to \in Square, NEW q, q = Captured(p, m)
    PROVE  /\ Cells(q) /\ q.key \ PieceNumbers = p.key \ PieceNumbers
           /\ \A d \in Color : q.byColor[d] = p.byColor[d] \ {m.to}
           /\ \A l \in Piece : q.byPiece[l] = p.byPiece[l] \ {m.to}
           /\ q.turn = p.turn /\ q.epSquare = p.epSquare
           /\ q.fullMove = p.fullMove /\ q.chess960 = p.chess960
           /\ q.rule50 = IF m.to \in pos_pieces(p) THEN 0 ELSE p.rule50
           /\ q.castleRooks = IF m.to \in pos_pieces(p) THEN p.castleRooks \ {m.to}
                              ELSE p.castleRooks
<1>1. CASE m.to \notin pos_pieces(p)
  <2>1. (\A k \in Piece : m.to \notin p.byPiece[k]) /\ (\A d \in Color : m.to \notin p.byColor[d])
    BY <1>1 DEF Cells, BoardOK, pos_pieces, Color
  <2>2. pos_piece_on(p, m.to) = NB_PIECE
    BY <2>1, PieceOn DEF Cells
  <2>3. q = p
    BY <2>2 DEF Captured
  <2>4. QED
    BY <1>1, <2>1, <2>3
<1>2. CASE m.to \in pos_pieces(p)
  <2> DEFINE k == pos_piece_on(p, m.to)
             c == pos_color_on(p, m.to)
             gone == clear_square(p, c, k, m.to)
  <2>1. k \in Piece /\ m.to \in p.byPiece[k]
    BY <1>2, PieceOn DEF Cells
  <2>2. c \in Color /\ m.to \in p.byColor[c]
    BY <1>2 DEF pos_color_on, pos_pieces, Color
  <2>3. k # NB_PIECE
    BY <2>1 DEF Piece, NB_PIECE
  <2>4. q = [gone EXCEPT !.rule50 = 0, !.castleRooks = p.castleRooks \ {m.to}]
    BY <2>3 DEF Captured, RightsLeft
  <2>5. /\ Cells(gone) /\ SameRest(p, gone)
        /\ \A d \in Color : gone.byColor[d] = p.byColor[d] \ {m.to}
        /\ \A l \in Piece : gone.byPiece[l] = p.byPiece[l] \ {m.to}
    BY <2>1, <2>2, ClearSquare
  <2> HIDE DEF gone, k, c
  <2>6. /\ IsPosition(q) /\ q.byColor = gone.byColor /\ q.byPiece = gone.byPiece
        /\ q.key = gone.key /\ q.turn = gone.turn /\ q.epSquare = gone.epSquare
        /\ q.fullMove = gone.fullMove /\ q.chess960 = gone.chess960
        /\ q.rule50 = 0 /\ q.castleRooks = p.castleRooks \ {m.to}
    BY <2>4, <2>5 DEF Cells, BoardOK, IsPosition
  <2>7. Cells(q)
    BY <2>5, <2>6 DEF Cells, BoardOK, PieceKey, pos_pieces
  <2>8. QED
    BY <1>2, <2>5, <2>6, <2>7 DEF SameRest
<1>3. QED
  BY <1>1, <1>2

\* The piece goes from one square to the other.
LEMMA MovedBoard ==
    ASSUME NEW p, Cells(p), NEW m, m.to \in Square \ pos_pieces(p), NEW k \in Piece,
           m.from \in p.byColor[p.turn] \intersect p.byPiece[k],
           NEW q, q = Moved(p, m, k)
    PROVE  /\ Cells(q) /\ SameRest(p, q)
           /\ \A d \in Color : q.byColor[d] = (p.byColor[d] \ {m.from})
                                 \union (IF d = p.turn THEN {m.to} ELSE {})
           /\ \A l \in Piece : q.byPiece[l] = (p.byPiece[l] \ {m.from})
                                 \union (IF l = k THEN {m.to} ELSE {})
<1> DEFINE left == clear_square(p, p.turn, k, m.from)
<1>1. p.turn \in Color
  BY DEF Cells, BoardOK
<1>2. /\ Cells(left) /\ SameRest(p, left)
      /\ \A d \in Color : left.byColor[d] = p.byColor[d] \ {m.from}
      /\ \A l \in Piece : left.byPiece[l] = p.byPiece[l] \ {m.from}
  BY <1>1, ClearSquare
<1>3. m.to \in Square \ pos_pieces(left)
  BY <1>2 DEF pos_pieces, Color
<1>4. q = set_square(left, p.turn, k, m.to)
  BY DEF Moved
<1> HIDE DEF left
<1>5. /\ Cells(q) /\ SameRest(left, q)
      /\ \A d \in Color : q.byColor[d] = left.byColor[d]
                                 \union (IF d = p.turn THEN {m.to} ELSE {})
      /\ \A l \in Piece : q.byPiece[l] = left.byPiece[l]
                                 \union (IF l = k THEN {m.to} ELSE {})
  BY <1>1, <1>2, <1>3, <1>4, SetSquare
<1>6. QED
  BY <1>2, <1>5 DEF SameRest

\* The piece has left its square and stands on the other, alone.
Arrived(p, m) == Moved(Captured(Started(p), m), m, pos_piece_on(p, m.from))

\* The board when the piece has arrived.
LEMMA ArrivedBoard ==
    ASSUME NEW p, Cells(p), RightsSound(p), NEW m, m.to \in Square, NEW k \in Piece,
           m.from \in p.byColor[p.turn] \intersect p.byPiece[k], m.from # m.to,
           NEW q, q = Arrived(p, m)
    PROVE  /\ Cells(q) /\ q.key \ PieceNumbers = p.key \ PieceNumbers
           /\ \A d \in Color : q.byColor[d] = (p.byColor[d] \ {m.from, m.to})
                                 \union (IF d = p.turn THEN {m.to} ELSE {})
           /\ \A l \in Piece : q.byPiece[l] = (p.byPiece[l] \ {m.from, m.to})
                                 \union (IF l = k THEN {m.to} ELSE {})
           /\ q.turn = p.turn /\ q.epSquare = NB_SQUARE
           /\ q.fullMove = p.fullMove /\ q.chess960 = p.chess960
           /\ q.rule50 = IF m.to \in pos_pieces(p) THEN 0 ELSE p.rule50 + 1
           /\ q.castleRooks = p.castleRooks \ {m.to}
<1> DEFINE a == Started(p)
           b == Captured(a, m)
<1>1. /\ Cells(a) /\ a.byColor = p.byColor /\ a.byPiece = p.byPiece /\ a.key = p.key
      /\ a.castleRooks = p.castleRooks /\ a.turn = p.turn /\ a.epSquare = NB_SQUARE
      /\ a.rule50 = p.rule50 + 1 /\ a.fullMove = p.fullMove /\ a.chess960 = p.chess960
  BY StartedBoard
<1> HIDE DEF a
<1>2. /\ Cells(b) /\ b.key \ PieceNumbers = a.key \ PieceNumbers
      /\ \A d \in Color : b.byColor[d] = a.byColor[d] \ {m.to}
      /\ \A l \in Piece : b.byPiece[l] = a.byPiece[l] \ {m.to}
      /\ b.turn = a.turn /\ b.epSquare = a.epSquare
      /\ b.fullMove = a.fullMove /\ b.chess960 = a.chess960
      /\ b.rule50 = IF m.to \in pos_pieces(a) THEN 0 ELSE a.rule50
      /\ b.castleRooks = IF m.to \in pos_pieces(a) THEN a.castleRooks \ {m.to}
                         ELSE a.castleRooks
  BY <1>1, CapturedBoard, ZenonT(40)
<1>3. pos_pieces(a) = pos_pieces(p)
  BY <1>1 DEF pos_pieces
<1>4. b.castleRooks = p.castleRooks \ {m.to}
  BY <1>1, <1>2, <1>3 DEF RightsSound
<1>5. p.turn \in Color /\ pos_piece_on(p, m.from) = k
  BY PieceOn DEF Cells, BoardOK
<1>6. q = Moved(b, m, k)
  BY <1>5 DEF Arrived, a
<1> HIDE DEF b
<1>7. m.from \in b.byColor[b.turn] \intersect b.byPiece[k]
  BY <1>1, <1>2, <1>5
<1>8. m.to \in Square \ pos_pieces(b)
  BY <1>2 DEF pos_pieces, Color
<1>9. /\ Cells(q) /\ SameRest(b, q)
      /\ \A d \in Color : q.byColor[d] = (b.byColor[d] \ {m.from})
                            \union (IF d = b.turn THEN {m.to} ELSE {})
      /\ \A l \in Piece : q.byPiece[l] = (b.byPiece[l] \ {m.from})
                            \union (IF l = k THEN {m.to} ELSE {})
  BY <1>2, <1>6, <1>7, <1>8, MovedBoard
<1>10. QED
  BY <1>1, <1>2, <1>3, <1>4, <1>9 DEF SameRest

\* The last of the three steps, by the kind of the piece.
Done(p, m) ==
    LET moved == Arrived(p, m)
    IN  CASE pos_piece_on(p, m.from) = "PAWN" -> PawnMoved(moved, p, m)
          [] pos_piece_on(p, m.from) = "KING" -> KingMoved(moved, p, m)
          [] OTHER -> [moved EXCEPT !.castleRooks = @ \ {m.from}]

\* The square of the piece that is taken, if any, and the kind that arrives.
Taken(p, m) == IF m.to = p.epSquare /\ m.from \in p.byPiece["PAWN"]
               THEN m.to - push_inc(p.turn) ELSE m.to
Now(p, m) == IF m.prom = NB_PIECE THEN pos_piece_on(p, m.from) ELSE m.prom

\* The board after a move that is no castling, and after one that is.
Replaces(p, q, m) ==
    /\ \A d \in Color : q.byColor[d] = (p.byColor[d] \ {m.from, Taken(p, m)})
                          \union (IF d = p.turn THEN {m.to} ELSE {})
    /\ \A l \in Piece : q.byPiece[l] = (p.byPiece[l] \ {m.from, Taken(p, m)})
                          \union (IF l = Now(p, m) THEN {m.to} ELSE {})

Castled(p, q, m) ==
    LET kto == Rules!KingTo(m.from, m.to)
        rto == Rules!RookTo(m.from, m.to)
    IN  /\ \A d \in Color : q.byColor[d] = (p.byColor[d] \ {m.from, m.to})
                              \union (IF d = p.turn THEN {kto, rto} ELSE {})
        /\ \A l \in Piece : q.byPiece[l] = (p.byPiece[l] \ {m.from, m.to})
                              \union (IF l = "KING" THEN {kto} ELSE {})
                              \union (IF l = "ROOK" THEN {rto} ELSE {})

\* What else the steps have done.
Settled(p, q, m) ==
    /\ q.key \ PieceNumbers = p.key \ PieceNumbers
    /\ q.turn = p.turn /\ q.fullMove = p.fullMove /\ q.chess960 = p.chess960
    /\ q.rule50 = IF m.to \in pos_pieces(p) \/ m.from \in p.byPiece["PAWN"]
                  THEN 0 ELSE p.rule50 + 1
    /\ q.castleRooks = (p.castleRooks \ {m.from, m.to})
                         \ (IF m.from \in p.byPiece["KING"] THEN Rank(7 * p.turn) ELSE {})
    /\ \/ q.epSquare = NB_SQUARE
       \/ /\ m.from \in p.byPiece["PAWN"] /\ q.epSquare = m.from + push_inc(p.turn)
          /\ m.to = m.from + 2 * push_inc(p.turn)

\* The board after the move of a piece, before the turn is passed.
LEMMA PieceDone ==
    ASSUME NEW p, Cells(p), Sound(p), NEW m, PieceMove(p, m), NEW q, q = Done(p, m)
    PROVE  Cells(q) /\ Replaces(p, q, m) /\ Settled(p, q, m)
<1> DEFINE k == pos_piece_on(p, m.from)
           a == Arrived(p, m)
<1>1. /\ p.turn \in Color /\ m.to \in Square /\ m.from # m.to
      /\ m.from \in pos_pieces(p) /\ m.to \notin p.byColor[p.turn]
  BY DEF PieceMove, Sound, BoardOK, pos_pieces, Color
<1>2. k \in Piece /\ m.from \in p.byColor[p.turn] \intersect p.byPiece[k] /\ k # "PAWN"
  BY <1>1, PieceOn DEF PieceMove, Sound
<1>3. /\ Cells(a) /\ a.key \ PieceNumbers = p.key \ PieceNumbers
      /\ \A d \in Color : a.byColor[d] = (p.byColor[d] \ {m.from, m.to})
                            \union (IF d = p.turn THEN {m.to} ELSE {})
      /\ \A l \in Piece : a.byPiece[l] = (p.byPiece[l] \ {m.from, m.to})
                            \union (IF l = k THEN {m.to} ELSE {})
      /\ a.turn = p.turn /\ a.epSquare = NB_SQUARE
      /\ a.fullMove = p.fullMove /\ a.chess960 = p.chess960
      /\ a.rule50 = IF m.to \in pos_pieces(p) THEN 0 ELSE p.rule50 + 1
      /\ a.castleRooks = p.castleRooks \ {m.to}
  BY <1>1, <1>2, ArrivedBoard DEF Sound
<1>4. Taken(p, m) = m.to /\ Now(p, m) = k
  BY DEF Taken, Now, PieceMove
<1>5. q = [a EXCEPT !.castleRooks =
                      @ \ (IF k = "KING" THEN Rank(7 * p.turn) ELSE {m.from})]
  BY <1>1, <1>2, <1>3 DEF Done, KingMoved
<1> HIDE DEF a
<1>6. /\ IsPosition(q) /\ q.byColor = a.byColor /\ q.byPiece = a.byPiece
      /\ q.key = a.key /\ q.turn = a.turn /\ q.epSquare = a.epSquare
      /\ q.fullMove = a.fullMove /\ q.chess960 = a.chess960 /\ q.rule50 = a.rule50
      /\ q.castleRooks = a.castleRooks \ (IF k = "KING" THEN Rank(7 * p.turn) ELSE {m.from})
  BY <1>3, <1>5 DEF Cells, BoardOK, IsPosition
<1>7. Cells(q)
  BY <1>3, <1>6 DEF Cells, BoardOK, PieceKey, pos_pieces
<1>8. k = "KING" <=> m.from \in p.byPiece["KING"]
  BY <1>2, PieceOn DEF Sound, Piece
<1>9. k = "KING" => m.from \notin p.castleRooks
  BY <1>8 DEF Sound, RightsSound, BoardOK, Piece
<1>10. Replaces(p, q, m)
  BY <1>3, <1>4, <1>6 DEF Replaces
<1>11. Settled(p, q, m)
  BY <1>3, <1>6, <1>8, <1>9 DEF Settled, PieceMove
<1>12. QED
  BY <1>7, <1>10, <1>11

\* The first step of a pawn move: the counter and the en passant square.
Pushed(p, m) ==
    LET a == Arrived(p, m)
        push == push_inc(p.turn)
        double == /\ m.to = m.from + 2 * push
                  /\ PawnAttacks[p.turn][m.from + push]
                       \intersect pos_pieces_cp(a, opposite(p.turn), "PAWN") # {}
    IN  [a EXCEPT !.rule50 = 0, !.epSquare = IF double THEN m.from + push ELSE @]

\* The board when a pawn has arrived, before what it takes en passant is gone.
LEMMA PushedBoard ==
    ASSUME NEW p, Cells(p), Sound(p), NEW m, m.to \in Square, m.from # m.to,
           m.from \in p.byColor[p.turn] \intersect p.byPiece["PAWN"],
           NEW q, q = Pushed(p, m)
    PROVE  /\ Cells(q) /\ Settled(p, q, m)
           /\ \A d \in Color : q.byColor[d] = (p.byColor[d] \ {m.from, m.to})
                                 \union (IF d = p.turn THEN {m.to} ELSE {})
           /\ \A l \in Piece : q.byPiece[l] = (p.byPiece[l] \ {m.from, m.to})
                                 \union (IF l = "PAWN" THEN {m.to} ELSE {})
           /\ Done(p, m) =
                IF m.to = p.epSquare
                THEN clear_square(q, opposite(p.turn), "PAWN", m.to - push_inc(p.turn))
                ELSE IF rank_of(m.to) \in {0, 7}
                THEN set_square(clear_square(q, p.turn, "PAWN", m.to), p.turn, m.prom, m.to)
                ELSE q
<1> DEFINE a == Arrived(p, m)
<1>1. "PAWN" \in Piece /\ p.turn \in Color
  BY DEF Piece, Sound, BoardOK
<1>2. /\ Cells(a) /\ a.key \ PieceNumbers = p.key \ PieceNumbers
      /\ \A d \in Color : a.byColor[d] = (p.byColor[d] \ {m.from, m.to})
                            \union (IF d = p.turn THEN {m.to} ELSE {})
      /\ \A l \in Piece : a.byPiece[l] = (p.byPiece[l] \ {m.from, m.to})
                            \union (IF l = "PAWN" THEN {m.to} ELSE {})
      /\ a.turn = p.turn /\ a.epSquare = NB_SQUARE
      /\ a.fullMove = p.fullMove /\ a.chess960 = p.chess960
      /\ a.castleRooks = p.castleRooks \ {m.to}
  BY <1>1, ArrivedBoard DEF Sound
<1>3. pos_piece_on(p, m.from) = "PAWN"
  BY <1>1, PieceOn DEF Sound
<1>4. Done(p, m) = PawnMoved(a, p, m)
  BY <1>3 DEF Done
<1>5. PawnMoved(a, p, m) =
        IF m.to = p.epSquare
        THEN clear_square(q, opposite(p.turn), "PAWN", m.to - push_inc(p.turn))
        ELSE IF rank_of(m.to) \in {0, 7}
        THEN set_square(clear_square(q, p.turn, "PAWN", m.to), p.turn, m.prom, m.to)
        ELSE q
  BY <1>2, Zenon DEF PawnMoved, Pushed, Behind
<1>6. /\ IsPosition(q) /\ q.byColor = a.byColor /\ q.byPiece = a.byPiece
      /\ q.key = a.key /\ q.turn = a.turn /\ q.castleRooks = a.castleRooks
      /\ q.fullMove = a.fullMove /\ q.chess960 = a.chess960 /\ q.rule50 = 0
      /\ \/ q.epSquare = NB_SQUARE
         \/ m.to = m.from + 2 * push_inc(p.turn) /\ q.epSquare = m.from + push_inc(p.turn)
  <2>1. \E ep : /\ q = [a EXCEPT !.rule50 = 0, !.epSquare = ep]
                /\ \/ ep = NB_SQUARE
                   \/ m.to = m.from + 2 * push_inc(p.turn) /\ ep = m.from + push_inc(p.turn)
    BY <1>2 DEF Pushed
  <2>2. PICK ep : /\ q = [a EXCEPT !.rule50 = 0, !.epSquare = ep]
                  /\ \/ ep = NB_SQUARE
                     \/ m.to = m.from + 2 * push_inc(p.turn) /\ ep = m.from + push_inc(p.turn)
    BY <2>1
  <2> HIDE DEF a
  <2>3. QED
    BY <1>2, <2>2 DEF Cells, BoardOK, IsPosition
<1> HIDE DEF a
<1>7. Cells(q)
  BY <1>2, <1>6 DEF Cells, BoardOK, PieceKey, pos_pieces
<1>8. m.from \notin p.castleRooks /\ m.from \notin p.byPiece["KING"]
  BY DEF Sound, RightsSound, BoardOK, Piece
<1>9. Settled(p, q, m)
  BY <1>2, <1>6, <1>8 DEF Settled
<1>10. QED
  BY <1>2, <1>4, <1>5, <1>6, <1>7, <1>9

\* The squares of a pawn that moves.
LEMMA PawnSquares ==
    ASSUME NEW p, Sound(p), NEW m, PawnMove(p, m) \/ EpMove(p, m) \/ Promotion(p, m)
    PROVE  /\ p.turn \in Color /\ m.from \in Square /\ m.to \in Square
           /\ m.from \in p.byColor[p.turn] \intersect p.byPiece["PAWN"]
           /\ m.from # m.to /\ m.to \notin p.byColor[p.turn]
           /\ rank_of(m.to) \in {0, 7} <=> Promotion(p, m)
           /\ m.to = p.epSquare <=> EpMove(p, m)
<1>1. p.turn \in Color /\ m.from \in p.byColor[p.turn] \intersect p.byPiece["PAWN"]
  BY DEF PawnMove, EpMove, Promotion, pos_pieces_cp, Sound, BoardOK
<1>2. m.from \in Square /\ m.from \div 8 \in 1..6
  BY <1>1 DEF Sound, PawnsSound, BoardOK, Rank, rank_of, Square, NB_SQUARE
<1>3. CASE PawnMove(p, m)
  <2>1. m.to \in Square /\ m.to \notin p.byColor[p.turn]
    BY <1>3 DEF PawnMove
  <2>2. m.from # m.to /\ rank_of(m.to) \notin {0, 7}
    BY <1>1, <1>2, <1>3, <2>1, Directions
      DEF PawnMove, PawnStep, Rank, File, rank_of, file_of, relative_rank, Color, WHITE, BLACK,
          Square, NB_SQUARE
  <2>3. ~Promotion(p, m) /\ ~EpMove(p, m)
    BY <1>3 DEF Promotion, PawnMove, EpMove
  <2>4. QED
    BY <1>1, <1>2, <1>3, <2>1, <2>2, <2>3 DEF PawnMove
<1>4. CASE EpMove(p, m)
  <2>1. /\ m.to \in Square \ pos_pieces(p) /\ m.to = p.epSquare
        /\ rank_of(m.to) = relative_rank(p.turn, 5)
    BY <1>4 DEF EpMove, Sound, EpSound, Rank
  <2>2. m.to \notin p.byColor[p.turn]
    BY <2>1, <1>1 DEF pos_pieces, Color
  <2>3. rank_of(m.to) \notin {0, 7}
    BY <2>1, <1>1 DEF relative_rank, Color, WHITE, BLACK
  <2>4. ~Promotion(p, m)
    BY <1>4 DEF Promotion, EpMove
  <2>5. QED
    BY <1>1, <1>2, <1>4, <2>1, <2>2, <2>3, <2>4
<1>5. CASE Promotion(p, m)
  <2>1. m.to \in Square /\ m.to \notin p.byColor[p.turn]
    BY <1>5 DEF Promotion
  <2>2. m.from # m.to /\ rank_of(m.to) \in {0, 7}
    BY <1>1, <1>2, <1>5, <2>1, Directions
      DEF Promotion, PawnStep, Rank, File, rank_of, file_of, relative_rank, Color, WHITE, BLACK,
          Square, NB_SQUARE
  <2>3. m.to # p.epSquare /\ ~EpMove(p, m)
    <3>1. p.epSquare # NB_SQUARE => rank_of(p.epSquare) = relative_rank(p.turn, 5)
      BY DEF Sound, EpSound, Rank
    <3>2. p.epSquare # NB_SQUARE => rank_of(p.epSquare) \notin {0, 7}
      BY <3>1, <1>1 DEF relative_rank, Color, WHITE, BLACK
    <3>3. m.to # NB_SQUARE
      BY <2>1 DEF Square, NB_SQUARE
    <3>4. QED
      BY <2>2, <3>2, <3>3 DEF EpMove
  <2>4. QED
    BY <1>1, <1>2, <1>5, <2>1, <2>2, <2>3
<1>6. QED
  BY <1>3, <1>4, <1>5

\* The board after the move of a pawn, before the turn is passed.
LEMMA PawnDone ==
    ASSUME NEW p, Cells(p), Sound(p), NEW m,
           PawnMove(p, m) \/ EpMove(p, m) \/ Promotion(p, m), NEW q, q = Done(p, m)
    PROVE  Cells(q) /\ Replaces(p, q, m) /\ Settled(p, q, m)
<1> DEFINE a == Pushed(p, m)
           us == p.turn
<1>1. /\ us \in Color /\ opposite(us) \in Color /\ opposite(us) # us
      /\ m.from \in Square /\ m.to \in Square
      /\ m.from \in p.byColor[us] \intersect p.byPiece["PAWN"]
      /\ m.from # m.to /\ m.to \notin p.byColor[us]
      /\ rank_of(m.to) \in {0, 7} <=> Promotion(p, m)
      /\ m.to = p.epSquare <=> EpMove(p, m)
  BY PawnSquares, Directions
<1>2. /\ Cells(a) /\ Settled(p, a, m)
      /\ \A d \in Color : a.byColor[d] = (p.byColor[d] \ {m.from, m.to})
                            \union (IF d = us THEN {m.to} ELSE {})
      /\ \A l \in Piece : a.byPiece[l] = (p.byPiece[l] \ {m.from, m.to})
                            \union (IF l = "PAWN" THEN {m.to} ELSE {})
      /\ Done(p, m) =
           IF m.to = p.epSquare
           THEN clear_square(a, opposite(us), "PAWN", m.to - push_inc(us))
           ELSE IF rank_of(m.to) \in {0, 7}
           THEN set_square(clear_square(a, us, "PAWN", m.to), us, m.prom, m.to)
           ELSE a
  BY <1>1, PushedBoard
<1> HIDE DEF a
<1>3. "PAWN" \in Piece /\ pos_piece_on(p, m.from) = "PAWN"
  BY <1>1, PieceOn DEF Piece, Sound
<1>4. CASE PawnMove(p, m)
  <2>1. q = a
    BY <1>1, <1>2, <1>4 DEF PawnMove, EpMove, Promotion
  <2>2. Taken(p, m) = m.to /\ Now(p, m) = "PAWN"
    BY <1>3, <1>4 DEF Taken, Now, PawnMove
  <2>3. Replaces(p, q, m)
    BY <1>2, <2>1, <2>2 DEF Replaces
  <2>4. QED
    BY <1>2, <2>1, <2>3
<1>5. CASE EpMove(p, m)
  <2> DEFINE s == m.to - push_inc(us)
  <2>1. q = clear_square(a, opposite(us), "PAWN", s)
    BY <1>1, <1>2, <1>5
  <2>2. /\ m.to = p.epSquare /\ m.to \notin pos_pieces(p)
        /\ s \in p.byColor[opposite(us)] /\ s \in p.byPiece["PAWN"]
    BY <1>5 DEF EpMove, Sound, EpSound, pos_pieces_cp
  <2>3. s # m.to /\ s # m.from
    <3>1. us \in Color /\ p.byColor[WHITE] \intersect p.byColor[BLACK] = {}
      BY <1>1 DEF Sound, BoardOK
    <3>2. s # m.to
      <4>1. push_inc(us) \in {8, -8} /\ m.to \in Int
        BY <1>1, <3>1, Directions DEF Square, NB_SQUARE
      <4>2. QED
        BY <4>1
    <3>3. m.from \notin p.byColor[opposite(us)]
      BY <1>1, <3>1, Directions DEF Color, WHITE, BLACK
    <3>4. QED
      BY <2>2, <3>2, <3>3
  <2>4. Taken(p, m) = s /\ Now(p, m) = "PAWN"
    BY <1>1, <1>3, <1>5 DEF Taken, Now, EpMove
  <2>5. s \in a.byColor[opposite(us)] \intersect a.byPiece["PAWN"]
    BY <1>1, <1>2, <1>3, <2>2, <2>3
  <2> HIDE DEF s
  <2>6. /\ Cells(q) /\ SameRest(a, q)
        /\ \A d \in Color : q.byColor[d] = a.byColor[d] \ {s}
        /\ \A l \in Piece : q.byPiece[l] = a.byPiece[l] \ {s}
    BY <1>1, <1>2, <1>3, <2>1, <2>5, ClearSquare
  <2>7. (\A d \in Color : m.to \notin p.byColor[d]) /\ (\A l \in Piece : m.to \notin p.byPiece[l])
    BY <1>1, <2>2 DEF pos_pieces, Color, Sound, BoardOK
  <2>8. Replaces(p, q, m)
    BY <1>2, <2>3, <2>4, <2>6, <2>7 DEF Replaces
  <2>9. Settled(p, q, m)
    BY <1>2, <2>6 DEF Settled, SameRest
  <2>10. QED
    BY <2>6, <2>8, <2>9
<1>6. CASE Promotion(p, m)
  <2> DEFINE b == clear_square(a, us, "PAWN", m.to)
  <2>1. q = set_square(b, us, m.prom, m.to)
    BY <1>1, <1>2, <1>6 DEF EpMove, Promotion
  <2>2. m.to \in a.byColor[us] \intersect a.byPiece["PAWN"]
    BY <1>1, <1>2, <1>3
  <2>3. /\ Cells(b) /\ SameRest(a, b)
        /\ \A d \in Color : b.byColor[d] = a.byColor[d] \ {m.to}
        /\ \A l \in Piece : b.byPiece[l] = a.byPiece[l] \ {m.to}
    BY <1>1, <1>2, <1>3, <2>2, ClearSquare
  <2> HIDE DEF b
  <2>4. m.prom \in Piece /\ m.prom # "PAWN" /\ m.prom # NB_PIECE
    BY <1>6 DEF Promotion, Piece, NB_PIECE
  <2>5. m.to \in Square \ pos_pieces(b)
    BY <1>1, <2>3 DEF pos_pieces, Color
  <2>6. /\ Cells(q) /\ SameRest(b, q)
        /\ \A d \in Color : q.byColor[d] = b.byColor[d] \union (IF d = us THEN {m.to} ELSE {})
        /\ \A l \in Piece : q.byPiece[l] = b.byPiece[l] \union (IF l = m.prom THEN {m.to} ELSE {})
    BY <1>1, <2>1, <2>3, <2>4, <2>5, SetSquare
  <2>7. Taken(p, m) = m.to /\ Now(p, m) = m.prom
    BY <1>1, <1>6, <2>4 DEF Taken, Now, EpMove, Promotion
  <2>8. Replaces(p, q, m)
    BY <1>2, <2>3, <2>6, <2>7 DEF Replaces
  <2>9. Settled(p, q, m)
    BY <1>2, <2>3, <2>6 DEF Settled, SameRest
  <2>10. QED
    BY <2>6, <2>8, <2>9
<1>7. QED
  BY <1>4, <1>5, <1>6

\* King and rook that castle, and their squares.
LEMMA CastleSquares ==
    ASSUME NEW p, Sound(p), NEW m, Castles(p, m)
    PROVE  /\ p.turn \in Color /\ m.from \in Square /\ m.to \in Square /\ m.from # m.to
           /\ m.from \in p.byColor[p.turn] \intersect p.byPiece["KING"]
           /\ m.to \in p.byColor[p.turn] \intersect p.byPiece["ROOK"]
           /\ m.to \in p.castleRooks
           /\ rank_of(m.from) = 7 * p.turn /\ rank_of(m.to) = 7 * p.turn
           /\ Rules!KingTo(m.from, m.to) \in Square /\ Rules!RookTo(m.from, m.to) \in Square
           /\ Rules!KingTo(m.from, m.to) # Rules!RookTo(m.from, m.to)
           /\ rank_of(Rules!KingTo(m.from, m.to)) = 7 * p.turn
           /\ rank_of(Rules!RookTo(m.from, m.to)) = 7 * p.turn
<1>1. /\ p.turn \in Color /\ m.from \in p.byColor[p.turn] \intersect p.byPiece["KING"]
      /\ m.to \in p.byColor[p.turn] \intersect p.byPiece["ROOK"] /\ m.to \in p.castleRooks
  BY DEF Castles, pos_pieces_cp, CastleRooks, Sound, BoardOK, RightsSound
<1>2. m.from \in Square /\ m.to \in Square /\ m.from # m.to
  BY <1>1 DEF Sound, BoardOK, Piece
<1>3. rank_of(m.to) = 7 * p.turn /\ rank_of(m.from) = 7 * p.turn
  BY <1>1 DEF Castles, Sound, RightsSound, CastleRooks, Rank, pos_pieces_cp
<1>4. /\ Rules!KingTo(m.from, m.to) \in {56 * p.turn + 6, 56 * p.turn + 2}
      /\ Rules!RookTo(m.from, m.to) \in {56 * p.turn + 5, 56 * p.turn + 3}
  BY <1>1, <1>3 DEF Rules!KingTo, Rules!RookTo, Rules!rank_of, rank_of, Color, WHITE, BLACK
<1>5. QED
  BY <1>1, <1>2, <1>3, <1>4 DEF rank_of, Square, NB_SQUARE, Color, WHITE, BLACK

\* The board after castling, before the turn is passed.
LEMMA CastleDone ==
    ASSUME NEW p, Cells(p), Sound(p), NEW m, Castles(p, m), NEW q, q = Done(p, m)
    PROVE  Cells(q) /\ Castled(p, q, m) /\ Settled(p, q, m)
<1> DEFINE us == p.turn
           kto == Rules!KingTo(m.from, m.to)
           rto == Rules!RookTo(m.from, m.to)
           a == Arrived(p, m)
           b == [a EXCEPT !.castleRooks = @ \ Rank(7 * us)]
           c == clear_square(b, us, "KING", m.to)
           d == set_square(c, us, "KING", kto)
<1>1. /\ us \in Color /\ m.from \in Square /\ m.to \in Square /\ m.from # m.to
      /\ m.from \in p.byColor[us] \intersect p.byPiece["KING"]
      /\ m.to \in p.byColor[us] \intersect p.byPiece["ROOK"]
      /\ kto \in Square /\ rto \in Square /\ kto # rto
  BY CastleSquares
<1>2. "KING" \in Piece /\ "ROOK" \in Piece /\ pos_piece_on(p, m.from) = "KING"
  BY <1>1, PieceOn DEF Piece, Sound
<1>3. /\ Cells(a) /\ a.key \ PieceNumbers = p.key \ PieceNumbers
      /\ \A e \in Color : a.byColor[e] = (p.byColor[e] \ {m.from, m.to})
                            \union (IF e = us THEN {m.to} ELSE {})
      /\ \A l \in Piece : a.byPiece[l] = (p.byPiece[l] \ {m.from, m.to})
                            \union (IF l = "KING" THEN {m.to} ELSE {})
      /\ a.turn = us /\ a.epSquare = NB_SQUARE
      /\ a.fullMove = p.fullMove /\ a.chess960 = p.chess960
      /\ a.rule50 = IF m.to \in pos_pieces(p) THEN 0 ELSE p.rule50 + 1
      /\ a.castleRooks = p.castleRooks \ {m.to}
  BY <1>1, <1>2, ArrivedBoard DEF Sound
<1>4. q = set_square(d, us, "ROOK", rto)
  <2>1. square_from(rank_of(m.from), IF m.to > m.from THEN 6 ELSE 2) = kto
    BY DEF square_from, Rules!KingTo, Rules!rank_of, rank_of
  <2>2. square_from(rank_of(m.from), IF m.to > m.from THEN 5 ELSE 3) = rto
    BY DEF square_from, Rules!RookTo, Rules!rank_of, rank_of
  <2>3. Done(p, m) = KingMoved(a, p, m)
    BY <1>2 DEF Done
  <2>4. QED
    BY <1>1, <1>3, <2>1, <2>2, <2>3, Zenon DEF KingMoved
<1> HIDE DEF a, kto, rto
<1>5. /\ IsPosition(b) /\ b.byColor = a.byColor /\ b.byPiece = a.byPiece
      /\ b.key = a.key /\ b.turn = a.turn /\ b.epSquare = a.epSquare
      /\ b.fullMove = a.fullMove /\ b.chess960 = a.chess960 /\ b.rule50 = a.rule50
      /\ b.castleRooks = a.castleRooks \ Rank(7 * us)
  <2>1. PICK rooks : rooks = a.castleRooks \ Rank(7 * us)
    OBVIOUS
  <2>2. b = [a EXCEPT !.castleRooks = rooks]
    BY <2>1
  <2> HIDE DEF b
  <2>3. QED
    BY <1>3, <2>1, <2>2 DEF Cells, BoardOK, IsPosition
<1> HIDE DEF b
<1>6. Cells(b)
  BY <1>3, <1>5 DEF Cells, BoardOK, PieceKey, pos_pieces
<1>7. m.to \in b.byColor[us] \intersect b.byPiece["KING"]
  BY <1>1, <1>2, <1>3, <1>5
<1>8. /\ Cells(c) /\ SameRest(b, c)
      /\ \A e \in Color : c.byColor[e] = b.byColor[e] \ {m.to}
      /\ \A l \in Piece : c.byPiece[l] = b.byPiece[l] \ {m.to}
  BY <1>1, <1>2, <1>6, <1>7, ClearSquare
<1> HIDE DEF c
<1>9. \A e \in Color : c.byColor[e] = p.byColor[e] \ {m.from, m.to}
  BY <1>3, <1>5, <1>8
<1>10. kto \notin pos_pieces(c) /\ rto \notin pos_pieces(c)
  BY <1>9 DEF Castles, kto, rto, pos_pieces, Color
<1>11. /\ Cells(d) /\ SameRest(c, d)
       /\ \A e \in Color : d.byColor[e] = c.byColor[e] \union (IF e = us THEN {kto} ELSE {})
       /\ \A l \in Piece : d.byPiece[l] = c.byPiece[l] \union (IF l = "KING" THEN {kto} ELSE {})
  BY <1>1, <1>2, <1>8, <1>10, SetSquare
<1> HIDE DEF d
<1>12. rto \in Square \ pos_pieces(d)
  BY <1>1, <1>10, <1>11 DEF pos_pieces, Color, WHITE, BLACK
<1>13. /\ Cells(q) /\ SameRest(d, q)
       /\ \A e \in Color : q.byColor[e] = d.byColor[e] \union (IF e = us THEN {rto} ELSE {})
       /\ \A l \in Piece : q.byPiece[l] = d.byPiece[l] \union (IF l = "ROOK" THEN {rto} ELSE {})
  BY <1>1, <1>2, <1>4, <1>11, <1>12, SetSquare
<1>14. Castled(p, q, m)
  BY <1>1, <1>3, <1>5, <1>8, <1>11, <1>13 DEF Castled, kto, rto
<1>15. Settled(p, q, m)
  <2>1. m.from \notin p.castleRooks /\ m.to \in pos_pieces(p)
    BY <1>1 DEF Sound, RightsSound, BoardOK, Piece, pos_pieces, Color
  <2>2. QED
    BY <1>1, <1>3, <1>5, <1>8, <1>11, <1>13, <2>1 DEF Settled, SameRest
<1>16. QED
  BY <1>13, <1>14, <1>15

-----------------------------------------------------------------------------
(* What pos_move does.                                                     *)

\* The rest of the key: whose turn it is, en passant square and rights.
Others(p) ==
    (IF p.turn = BLACK THEN ZobristTurn ELSE {})
    \union ZobristEnPassant(p.epSquare) \union zobrist_castling(p.castleRooks)
Keyed(p) == PieceKey(p) /\ p.key \ PieceNumbers = Others(p)

EpNumbers == {<<"ep", s>> : s \in Square \union {NB_SQUARE}}
CastlingNumbers == {<<"castling", s>> : s \in Square}

\* The four kinds of Zobrist numbers do not mix.
LEMMA KindsOfNumbers ==
    /\ ZobristTurn \intersect EpNumbers = {} /\ ZobristTurn \intersect CastlingNumbers = {}
    /\ EpNumbers \intersect CastlingNumbers = {}
    /\ PieceNumbers \intersect (ZobristTurn \union EpNumbers \union CastlingNumbers) = {}
    /\ \A s \in Square \union {NB_SQUARE} : ZobristEnPassant(s) \subseteq EpNumbers
    /\ \A rooks \in SUBSET Square : zobrist_castling(rooks) \subseteq CastlingNumbers
<1>1. \A x \in ZobristTurn : x[1] = "turn"
  BY DEF ZobristTurn
<1>2. \A x \in EpNumbers : x[1] = "ep"
  BY DEF EpNumbers
<1>3. \A x \in CastlingNumbers : x[1] = "castling"
  BY DEF CastlingNumbers
<1>4. \A x \in PieceNumbers : x[1] = "piece"
  BY DEF PieceNumbers
<1>5. \A s \in Square \union {NB_SQUARE} : ZobristEnPassant(s) \subseteq EpNumbers
  BY DEF ZobristEnPassant, EpNumbers
<1>6. \A rooks \in SUBSET Square : zobrist_castling(rooks) \subseteq CastlingNumbers
  BY DEF zobrist_castling, ZobristCastling, CastlingNumbers
<1>7. QED
  BY <1>1, <1>2, <1>3, <1>4, <1>5, <1>6

\* Rights that change and rights that stay: the exclusive or over the squares.
LEMMA CastlingXor ==
    ASSUME NEW a, NEW b
    PROVE  zobrist_castling(Xor(a, b)) = Xor(zobrist_castling(a), zobrist_castling(b))
<1>1. \A rooks : zobrist_castling(rooks) = {<<"castling", s>> : s \in rooks \intersect Drawn}
  BY DEF zobrist_castling, ZobristCastling
<1>2. \A s, t : <<"castling", s>> = <<"castling", t>> => s = t
  OBVIOUS
<1>3. QED
  BY <1>1, <1>2 DEF Xor

\* The fields of a position that is finished.
LEMMA Finished ==
    ASSUME NEW p, IsPosition(p), NEW q, q = finish(p)
    PROVE  /\ IsPosition(q) /\ q.byColor = p.byColor /\ q.byPiece = p.byPiece
           /\ q.castleRooks = p.castleRooks /\ q.key = p.key /\ q.turn = p.turn
           /\ q.epSquare = p.epSquare /\ q.rule50 = p.rule50
           /\ q.fullMove = p.fullMove /\ q.chess960 = p.chess960
<1>1. PICK a, b, c : a = Attacked(p) /\ b = Pins(p) /\ c = Checkers(p, Attacked(p))
  OBVIOUS
<1>2. q = [p EXCEPT !.pins = b, !.attacked = a, !.checkers = c]
  BY <1>1, Zenon DEF finish
<1>3. QED
  BY <1>2 DEF IsPosition

\* What finish has computed.
Derived(p) ==
    /\ p.attacked = Attacked(p) /\ p.pins = Pins(p)
    /\ p.checkers = Checkers(p, Attacked(p))

\* It follows from the board and the side to move alone.
SameBoard(p, q) == q.byColor = p.byColor /\ q.byPiece = p.byPiece /\ q.turn = p.turn

\* On the same board, what is read off the board is the same.
LEMMA SamePieces ==
    ASSUME NEW p, NEW q, SameBoard(p, q)
    PROVE  /\ \A c : pos_king_square(q, c) = pos_king_square(p, c)
           /\ \A c, k, l : /\ pos_pieces_cp(q, c, k) = pos_pieces_cp(p, c, k)
                          /\ pos_pieces_cpp(q, c, k, l) = pos_pieces_cpp(p, c, k, l)
           /\ pos_pieces(q) = pos_pieces(p)
<1>1. \A c, k : pos_pieces_cp(q, c, k) = pos_pieces_cp(p, c, k)
  BY DEF SameBoard, pos_pieces_cp
<1>2. \A c, k, l : pos_pieces_cpp(q, c, k, l) = pos_pieces_cpp(p, c, k, l)
  BY DEF SameBoard, pos_pieces_cpp
<1>3. \A c : pos_king_square(q, c) = pos_king_square(p, c)
  BY DEF SameBoard, pos_king_square, pos_pieces_cp
<1>4. QED
  BY <1>1, <1>2, <1>3 DEF SameBoard, pos_pieces

\* So is what is attacked.
LEMMA SameAttacked ==
    ASSUME NEW p, NEW q, SameBoard(p, q)
    PROVE  Attacked(q) = Attacked(p)
<1> DEFINE A(x, t) ==
        \/ t \in KingAttacks[pos_king_square(x, opposite(x.turn))]
        \/ \E s \in pos_pieces_cp(x, opposite(x.turn), "KNIGHT") : t \in KnightAttacks[s]
        \/ t \in bb_shift(pos_pieces_cp(x, opposite(x.turn), "PAWN") \ File(0),
                          push_inc(opposite(x.turn)) - 1)
        \/ t \in bb_shift(pos_pieces_cp(x, opposite(x.turn), "PAWN") \ File(7),
                          push_inc(opposite(x.turn)) + 1)
        \/ \E s \in pos_pieces_cpp(x, opposite(x.turn), "ROOK", "QUEEN") :
              t \in bb_rook_attacks(s, pos_pieces(x) \ pos_pieces_cp(x, x.turn, "KING"))
        \/ \E s \in pos_pieces_cpp(x, opposite(x.turn), "BISHOP", "QUEEN") :
              t \in bb_bishop_attacks(s, pos_pieces(x) \ pos_pieces_cp(x, x.turn, "KING"))
<1>1. \A t : t \in Attacked(p) <=> A(p, t)
  BY DEF Attacked
<1>2. \A t : t \in Attacked(q) <=> A(q, t)
  BY DEF Attacked
<1>3. /\ q.byColor = p.byColor /\ q.byPiece = p.byPiece /\ q.turn = p.turn
      /\ pos_pieces(q) = pos_pieces(p)
      /\ \A c : pos_king_square(q, c) = pos_king_square(p, c)
      /\ \A c, k : pos_pieces_cp(q, c, k) = pos_pieces_cp(p, c, k)
      /\ \A c, k, l : pos_pieces_cpp(q, c, k, l) = pos_pieces_cpp(p, c, k, l)
  BY SamePieces DEF SameBoard
<1>4. \A t : A(q, t) <=> A(p, t)
  BY <1>3
<1> HIDE DEF A
<1>5. \A t : t \in Attacked(p) <=> t \in Attacked(q)
  BY <1>1, <1>2, <1>4
<1>6. \A S, T : (\A t : t \in S <=> t \in T) => S = T
  OBVIOUS
<1>7. QED
  BY <1>5, <1>6, Zenon

\* finish computes what its fields are to be.
LEMMA FinishDerives ==
    ASSUME NEW p, IsPosition(p), NEW q, q = finish(p)
    PROVE  Derived(q)
<1>1. PICK a, b, c : a = Attacked(p) /\ b = Pins(p) /\ c = Checkers(p, Attacked(p))
  OBVIOUS
<1>2. q = [p EXCEPT !.pins = b, !.attacked = a, !.checkers = c]
  BY <1>1, Zenon DEF finish
<1>3. q.attacked = a /\ q.pins = b /\ q.checkers = c
  BY <1>2 DEF IsPosition
<1>4. SameBoard(p, q)
  BY Finished DEF SameBoard
<1>5. Attacked(q) = Attacked(p)
  BY <1>4, SameAttacked
<1>6. /\ q.byColor = p.byColor /\ q.byPiece = p.byPiece /\ q.turn = p.turn
      /\ pos_pieces(q) = pos_pieces(p)
      /\ \A e : pos_king_square(q, e) = pos_king_square(p, e)
      /\ \A e, k : pos_pieces_cp(q, e, k) = pos_pieces_cp(p, e, k)
      /\ \A e, k, l : pos_pieces_cpp(q, e, k, l) = pos_pieces_cpp(p, e, k, l)
  BY <1>4, SamePieces DEF SameBoard
<1>7. Pins(q) = Pins(p)
  BY <1>6, SMT DEF Pins
<1>8. Checkers(q, a) = Checkers(p, a)
  BY <1>6, SMT DEF Checkers
<1>9. QED
  BY <1>1, <1>3, <1>5, <1>7, <1>8 DEF Derived

\* The end of pos_move: turn, key and number, then what finish derives.
Turned(p, d) ==
    finish([d EXCEPT !.turn = opposite(p.turn),
                     !.key = Xor(Xor(Xor(d.key, ZobristTurn), EpKeys(p.epSquare, d.epSquare)),
                                 zobrist_castling(Xor(p.castleRooks, d.castleRooks))),
                     !.fullMove = (@ + p.turn) % 2^16])

\* Passing the turn leaves the board alone, completes the key and derives the
\* rest.
LEMMA TurnedBoard ==
    ASSUME NEW p, Sound(p), NEW d, Cells(d), NEW m, m.to \in Square, Settled(p, d, m),
           NEW q, q = Turned(p, d)
    PROVE  /\ Cells(q) /\ q.byColor = d.byColor /\ q.byPiece = d.byPiece
           /\ q.turn = opposite(p.turn) /\ q.epSquare = d.epSquare
           /\ q.castleRooks = d.castleRooks /\ q.rule50 = d.rule50
           /\ q.chess960 = p.chess960 /\ q.fullMove = (p.fullMove + p.turn) % 2^16
           /\ Keyed(p) => Keyed(q)
           /\ Derived(q)
<1> DEFINE key == Xor(Xor(Xor(d.key, ZobristTurn), EpKeys(p.epSquare, d.epSquare)),
                      zobrist_castling(Xor(p.castleRooks, d.castleRooks)))
<1>1. /\ IsPosition(q) /\ q.byColor = d.byColor /\ q.byPiece = d.byPiece
      /\ q.turn = opposite(p.turn) /\ q.epSquare = d.epSquare
      /\ q.castleRooks = d.castleRooks /\ q.rule50 = d.rule50
      /\ q.chess960 = d.chess960 /\ q.fullMove = (d.fullMove + p.turn) % 2^16
      /\ q.key = key /\ Derived(q)
  <2>1. PICK k, n, e : k = key /\ n = (d.fullMove + p.turn) % 2^16
                       /\ e = [d EXCEPT !.turn = opposite(p.turn), !.key = k, !.fullMove = n]
    OBVIOUS
  <2>2. q = finish(e)
    BY <2>1, Zenon DEF Turned
  <2> HIDE DEF key
  <2>3. IsPosition(e)
    BY <2>1 DEF Cells, BoardOK, IsPosition
  <2>4. Derived(q)
    BY <2>2, <2>3, FinishDerives
  <2>5. /\ IsPosition(q) /\ q.byColor = e.byColor /\ q.byPiece = e.byPiece
        /\ q.castleRooks = e.castleRooks /\ q.key = e.key /\ q.turn = e.turn
        /\ q.epSquare = e.epSquare /\ q.rule50 = e.rule50
        /\ q.fullMove = e.fullMove /\ q.chess960 = e.chess960
    BY <2>2, <2>3, Finished
  <2>6. QED
    BY <2>1, <2>4, <2>5 DEF Cells, BoardOK, IsPosition
<1>2. opposite(p.turn) \in Color
  BY Directions DEF Sound, BoardOK
<1>3. BoardOK(q)
  BY <1>1, <1>2 DEF Cells, BoardOK, pos_pieces
<1>4. p.epSquare \in Square \union {NB_SQUARE} /\ p.castleRooks \subseteq Square
      /\ d.castleRooks \subseteq Square
  BY DEF Sound, EpSound, RightsSound, Settled, BoardOK, Piece
<1>5. d.epSquare \in Square \union {NB_SQUARE}
  BY Directions DEF Settled, Sound, BoardOK, Piece, Square, NB_SQUARE
<1> DEFINE ep == EpKeys(p.epSquare, d.epSquare)
           rights == zobrist_castling(Xor(p.castleRooks, d.castleRooks))
<1>6. ep \subseteq EpNumbers /\ rights \subseteq CastlingNumbers
  <2>1. rights = Xor(zobrist_castling(p.castleRooks), zobrist_castling(d.castleRooks))
    BY CastlingXor
  <2>2. QED
    BY <1>4, <1>5, <2>1, KindsOfNumbers DEF EpKeys, Xor
<1>7. key = Xor(Xor(Xor(d.key, ZobristTurn), ep), rights)
  OBVIOUS
<1>8. key \intersect PieceNumbers = d.key \intersect PieceNumbers
  BY <1>6, <1>7, KindsOfNumbers DEF Xor
<1>9. Cells(q)
  <2>1. \A c \in Color, k \in Piece, s \in Square :
           <<"piece", c, k, s>> \in q.key <=> <<"piece", c, k, s>> \in d.key
    BY <1>1, <1>8 DEF PieceNumbers
  <2>2. QED
    BY <1>1, <1>3, <2>1 DEF Cells, PieceKey
<1>10. ASSUME Keyed(p) PROVE Keyed(q)
  <2> DEFINE T(turn) == IF turn = BLACK THEN ZobristTurn ELSE {}
  <2>1. d.key \ PieceNumbers = T(p.turn) \union ZobristEnPassant(p.epSquare)
                                 \union zobrist_castling(p.castleRooks)
    BY <1>10 DEF Keyed, Others, Settled
  <2>2. ep = Xor(ZobristEnPassant(p.epSquare), ZobristEnPassant(d.epSquare))
        /\ rights = Xor(zobrist_castling(p.castleRooks), zobrist_castling(d.castleRooks))
    BY CastlingXor DEF EpKeys
  <2>3. Xor(T(p.turn), ZobristTurn) = T(opposite(p.turn))
    BY Directions DEF Xor, Sound, BoardOK, Color, WHITE, BLACK, opposite
  <2>4. /\ ZobristEnPassant(p.epSquare) \subseteq EpNumbers
        /\ ZobristEnPassant(d.epSquare) \subseteq EpNumbers
        /\ zobrist_castling(p.castleRooks) \subseteq CastlingNumbers
        /\ zobrist_castling(d.castleRooks) \subseteq CastlingNumbers
    BY <1>4, <1>5, KindsOfNumbers
  <2>5. key \ PieceNumbers = Xor(Xor(Xor(d.key \ PieceNumbers, ZobristTurn), ep), rights)
    BY <1>6, <1>7, KindsOfNumbers DEF Xor
  <2>6. T(p.turn) \subseteq ZobristTurn
    OBVIOUS
  <2>8. key \ PieceNumbers = Xor(T(p.turn), ZobristTurn)
                              \union ZobristEnPassant(d.epSquare)
                              \union zobrist_castling(d.castleRooks)
    <3> HIDE DEF T, key, ep, rights
    <3>1. Xor(Xor(Xor(T(p.turn) \union ZobristEnPassant(p.epSquare)
                            \union zobrist_castling(p.castleRooks), ZobristTurn),
                  Xor(ZobristEnPassant(p.epSquare), ZobristEnPassant(d.epSquare))),
              Xor(zobrist_castling(p.castleRooks), zobrist_castling(d.castleRooks)))
            = Xor(T(p.turn), ZobristTurn) \union ZobristEnPassant(d.epSquare)
                \union zobrist_castling(d.castleRooks)
      BY <2>4, <2>6, KindsOfNumbers DEF Xor
    <3>2. QED
      BY <2>1, <2>2, <2>5, <3>1, Zenon
  <2>9. q.key \ PieceNumbers = Others(q)
    <3>1. Others(q) = T(q.turn) \union ZobristEnPassant(q.epSquare)
                               \union zobrist_castling(q.castleRooks)
      BY DEF Others
    <3> HIDE DEF T, key
    <3>2. QED
      BY <1>1, <2>3, <2>8, <3>1
  <2>10. QED
    BY <1>9, <2>9 DEF Keyed, Cells
<1>11. QED
  BY <1>1, <1>9, <1>10 DEF Settled

\* All that a move changes, but what finish derives.
Played(p, q, m) ==
    /\ IF Castles(p, m) THEN Castled(p, q, m) ELSE Replaces(p, q, m)
    /\ q.turn = opposite(p.turn)
    /\ q.rule50 = IF m.to \in pos_pieces(p) \/ m.from \in p.byPiece["PAWN"]
                  THEN 0 ELSE p.rule50 + 1
    /\ q.castleRooks = (p.castleRooks \ {m.from, m.to})
                         \ (IF m.from \in p.byPiece["KING"] THEN Rank(7 * p.turn) ELSE {})
    /\ \/ q.epSquare = NB_SQUARE
       \/ /\ m.from \in p.byPiece["PAWN"] /\ q.epSquare = m.from + push_inc(p.turn)
          /\ m.to = m.from + 2 * push_inc(p.turn)
    /\ q.chess960 = p.chess960 /\ q.fullMove = (p.fullMove + p.turn) % 2^16

\* What pos_move does, for all moves that are generated.
LEMMA MoveBoard ==
    ASSUME NEW p, Cells(p), Sound(p), NEW m, Generated(p, m), NEW q, q = pos_move(p, m)
    PROVE  Cells(q) /\ Played(p, q, m) /\ (Keyed(p) => Keyed(q)) /\ Derived(q)
<1> DEFINE d == Done(p, m)
<1>1. q = Turned(p, d)
  <2>1. d = CASE pos_piece_on(p, m.from) = "PAWN" ->
                   PawnMoved(Moved(Captured(Started(p), m), m, pos_piece_on(p, m.from)), p, m)
              [] pos_piece_on(p, m.from) = "KING" ->
                   KingMoved(Moved(Captured(Started(p), m), m, pos_piece_on(p, m.from)), p, m)
              [] OTHER -> [Moved(Captured(Started(p), m), m, pos_piece_on(p, m.from))
                             EXCEPT !.castleRooks = @ \ {m.from}]
    BY DEF Done, Arrived
  <2>2. QED
    BY <2>1, Zenon DEF pos_move, Turned, Started
<1>2. CASE Castles(p, m)
  <2>1. Cells(d) /\ Castled(p, d, m) /\ Settled(p, d, m)
    BY <1>2, CastleDone
  <2>2. m.to \in Square
    BY <1>2, CastleSquares
  <2> HIDE DEF d
  <2>3. QED
    BY <1>1, <1>2, <2>1, <2>2, TurnedBoard DEF Played, Settled, Castled
<1>3. CASE ~Castles(p, m)
  <2>1. Cells(d) /\ Replaces(p, d, m) /\ Settled(p, d, m)
    BY <1>3, PieceDone, PawnDone DEF Generated
  <2>2. m.to \in Square
    BY <1>3, PawnSquares DEF Generated, PieceMove
  <2> HIDE DEF d
  <2>3. QED
    BY <1>1, <1>3, <2>1, <2>2, TurnedBoard DEF Played, Settled, Replaces
<1>4. QED
  BY <1>2, <1>3

\* A move of the generator takes a sound position to a sound one.
LEMMA MoveSound ==
    ASSUME NEW p, Sound(p), NEW m, Generated(p, m), NEW q, BoardOK(q), Played(p, q, m)
    PROVE  Sound(q)
<1> DEFINE us == p.turn
<1>0. /\ us \in Color /\ opposite(us) \in Color /\ opposite(us) # us /\ q.turn = opposite(us)
      /\ push_inc(us) \in {8, -8} /\ push_inc(opposite(us)) = -push_inc(us)
  BY Directions DEF Sound, BoardOK, Played, Color, WHITE, BLACK
<1>1. CASE Castles(p, m)
  <2> DEFINE kto == Rules!KingTo(m.from, m.to)
             rto == Rules!RookTo(m.from, m.to)
  <2>1. /\ m.from \in Square /\ m.to \in Square /\ m.from # m.to
        /\ m.from \in p.byColor[us] \intersect p.byPiece["KING"]
        /\ m.to \in p.byColor[us] \intersect p.byPiece["ROOK"]
        /\ kto \in Square /\ rto \in Square /\ kto # rto
        /\ rank_of(kto) = 7 * us /\ rank_of(rto) = 7 * us
    BY <1>1, CastleSquares
  <2>2. /\ \A c \in Color : q.byColor[c] = (p.byColor[c] \ {m.from, m.to})
                                    \union (IF c = us THEN {kto, rto} ELSE {})
        /\ \A l \in Piece : q.byPiece[l] = (p.byPiece[l] \ {m.from, m.to})
                                    \union (IF l = "KING" THEN {kto} ELSE {})
                                    \union (IF l = "ROOK" THEN {rto} ELSE {})
    BY <1>1 DEF Played, Castled
  <2>3. \A k \in Piece : k # "KING" => m.from \notin p.byPiece[k]
    BY <2>1 DEF Sound, BoardOK, Piece
  <2> HIDE DEF kto, rto
  <2>4. q.epSquare = NB_SQUARE /\ q.castleRooks = (p.castleRooks \ {m.to}) \ Rank(7 * us)
    BY <2>1, <2>3 DEF Played, Sound, RightsSound, Piece
  <2>5. EpSound(q)
    BY <2>4 DEF EpSound
  <2>6. PawnsSound(q)
    BY <2>2 DEF PawnsSound, Sound, Piece
  <2>7. OneKing(q)
    BY <2>1, <2>2 DEF OneKing, Sound, pos_pieces_cp, BoardOK, Piece, Color, WHITE, BLACK
  <2>8. RightsSound(q)
    <3>1. ASSUME NEW r \in q.castleRooks
          PROVE  /\ r \in p.castleRooks /\ r \in pos_pieces(p) /\ r \in p.byPiece["ROOK"]
                 /\ r \notin p.byColor[us] /\ r # m.from /\ r # m.to
      BY <3>1, <2>1, <2>3, <2>4, <1>0 DEF Sound, RightsSound, CastleRooks, Piece
    <3>2. \A r \in q.castleRooks : r \in pos_pieces(q) /\ r \in q.byPiece["ROOK"] /\ r \notin q.byColor[us]
      <4>1. TAKE r \in q.castleRooks
      <4>2. r \in p.byColor[opposite(us)] /\ r \notin p.byColor[us]
        BY <3>1, <1>0 DEF pos_pieces, Color, WHITE, BLACK
      <4>3. r \in q.byColor[opposite(us)] /\ r \in q.byPiece["ROOK"]
        BY <1>0, <2>2, <3>1, <4>2 DEF Piece
      <4>4. QED
        BY <1>0, <4>3 DEF BoardOK, pos_pieces, Color, WHITE, BLACK
    <3>3. CastleRooks(q, us) = {}
      BY <3>2 DEF CastleRooks
    <3>4. CastleRooks(q, opposite(us)) \subseteq CastleRooks(p, opposite(us))
          /\ pos_pieces_cp(q, opposite(us), "KING") \subseteq pos_pieces_cp(p, opposite(us), "KING")
      <4>1. q.byColor[opposite(us)] = p.byColor[opposite(us)] \ {m.from, m.to}
        BY <1>0, <2>2
      <4>2. \A s \in q.byPiece["KING"] : s \in p.byPiece["KING"] \/ s = kto
        BY <2>2 DEF Piece
      <4>3. kto \notin q.byColor[opposite(us)]
        BY <1>0, <2>2 DEF BoardOK, Color, WHITE, BLACK
      <4>4. QED
        BY <2>4, <4>1, <4>2, <4>3 DEF CastleRooks, pos_pieces_cp
    <3>5. \A c \in Color : c = us \/ c = opposite(us)
      BY <1>0 DEF Color, WHITE, BLACK
    <3>6. QED
      BY <1>0, <3>2, <3>3, <3>4, <3>5 DEF RightsSound, Sound
  <2>9. QED
    BY <2>5, <2>6, <2>7, <2>8 DEF Sound
<1>2. CASE ~Castles(p, m)
  <2> DEFINE taken == Taken(p, m)
             k == Now(p, m)
  <2>1. /\ \A c \in Color : q.byColor[c] = (p.byColor[c] \ {m.from, taken})
                                    \union (IF c = us THEN {m.to} ELSE {})
        /\ \A l \in Piece : q.byPiece[l] = (p.byPiece[l] \ {m.from, taken})
                                    \union (IF l = k THEN {m.to} ELSE {})
    BY <1>2 DEF Played, Replaces
  <2>2. /\ m.from \in Square /\ m.to \in Square /\ m.from # m.to
        /\ m.from \in p.byColor[us] /\ m.to \notin p.byColor[us]
    BY <1>2, PawnSquares DEF Generated, PieceMove, Sound, BoardOK
  <2>3. taken \notin p.byColor[us] /\ (taken = m.to \/ taken \in p.byPiece["PAWN"])
    <3>1. CASE m.to = p.epSquare /\ m.from \in p.byPiece["PAWN"]
      <4>1. taken = p.epSquare - push_inc(us) /\ p.epSquare # NB_SQUARE
        BY <2>2, <3>1 DEF Taken, Square, NB_SQUARE
      <4>2. taken \in p.byColor[opposite(us)] /\ taken \in p.byPiece["PAWN"]
        BY <4>1 DEF Sound, EpSound, pos_pieces_cp
      <4>3. QED
        BY <1>0, <4>2 DEF Sound, BoardOK, Color, WHITE, BLACK
    <3>2. CASE ~(m.to = p.epSquare /\ m.from \in p.byPiece["PAWN"])
      BY <2>2, <3>2 DEF Taken
    <3>3. QED
      BY <3>1, <3>2
  <2>4. /\ k \in Piece
        /\ k = "KING" <=> m.from \in p.byPiece["KING"]
        /\ k = "PAWN" => PawnMove(p, m) \/ EpMove(p, m)
    <3>1. CASE PieceMove(p, m)
      <4>1. m.from \in pos_pieces(p) /\ m.from \notin p.byPiece["PAWN"] /\ k = pos_piece_on(p, m.from)
        BY <2>2, <3>1, <1>0 DEF PieceMove, k, Now, pos_pieces, Color
      <4>2. k \in Piece /\ m.from \in p.byPiece[k]
        BY <4>1, PieceOn DEF Sound
      <4>3. QED
        BY <4>1, <4>2 DEF Sound, BoardOK, Piece
    <3>2. CASE PawnMove(p, m) \/ EpMove(p, m)
      BY <3>2, PawnSquares, PieceOn, SMTT(40) DEF PawnMove, EpMove, Now, Sound, Piece, NB_PIECE, BoardOK
    <3>3. CASE Promotion(p, m)
      BY <3>3, PawnSquares DEF Promotion, Now, Sound, Piece, NB_PIECE, BoardOK
    <3>4. QED
      BY <1>2, <3>1, <3>2, <3>3 DEF Generated
  <2> HIDE DEF taken, k
  <2>5. PawnsSound(q)
    <3>1. k = "PAWN" => m.to \notin Rank(0) \union Rank(7)
      BY <2>4, PawnSquares DEF Rank, Promotion, PawnMove, EpMove
    <3>2. QED
      BY <2>1, <3>1 DEF PawnsSound, Sound, Piece
  <2>6. OneKing(q)
    <3>1. ASSUME NEW c \in Color, NEW s \in pos_pieces_cp(q, c, "KING")
          PROVE  \/ s \in pos_pieces_cp(p, c, "KING") /\ s # m.from
                 \/ s = m.to /\ c = us /\ m.from \in pos_pieces_cp(p, c, "KING")
      <4>1. s \in q.byColor[c] /\ s \in q.byPiece["KING"] /\ "KING" \in Piece
        BY DEF pos_pieces_cp, Piece
      <4>2. CASE s = m.to
        <5>1. c = us
          BY <1>0, <2>1, <4>1, <4>2 DEF BoardOK, Color, WHITE, BLACK
        <5>2. CASE k = "KING"
          BY <2>2, <2>4, <4>2, <5>1, <5>2 DEF pos_pieces_cp
        <5>3. CASE k # "KING"
          BY <2>1, <2>4, <4>1, <4>2, <5>3 DEF BoardOK
        <5>4. QED
          BY <5>2, <5>3
      <4>3. CASE s # m.to
        BY <2>1, <4>1, <4>3 DEF pos_pieces_cp
      <4>4. QED
        BY <4>2, <4>3
    <3>2. \A c \in Color : \A s, t \in pos_pieces_cp(p, c, "KING") : s = t
      BY DEF Sound, OneKing
    <3>3. QED
      BY <2>2, <3>1, <3>2 DEF OneKing
  <2>7. EpSound(q)
    <3>1. CASE q.epSquare = NB_SQUARE
      BY <3>1 DEF EpSound
    <3>2. CASE q.epSquare # NB_SQUARE
      <4>1. /\ m.from \in p.byPiece["PAWN"] /\ q.epSquare = m.from + push_inc(us)
            /\ m.to = m.from + 2 * push_inc(us)
        BY <3>2 DEF Played
      <4>2. PawnMove(p, m)
        <5>1. ~PawnStep(p, m.from, m.to)
          BY <1>0, <2>2, <4>1 DEF PawnStep, Square, NB_SQUARE
        <5>2. ASSUME EpMove(p, m) PROVE FALSE
          <6>1. m.from \in PawnAttacks[opposite(us)][m.to]
            BY <5>2 DEF EpMove
          <6>2. \/ m.from = m.to + push_inc(opposite(us)) - 1
                \/ m.from = m.to + push_inc(opposite(us)) + 1
            BY <1>0, <2>2, <6>1, PawnCaptures
          <6>3. QED
            BY <1>0, <2>2, <4>1, <6>2 DEF Square, NB_SQUARE
        <5>3. QED
          BY <1>2, <4>1, <5>1, <5>2 DEF Generated, PieceMove, Promotion
      <4>3. /\ m.from \in Rank(relative_rank(us, 1)) /\ q.epSquare \in Square \ pos_pieces(p)
            /\ m.to # p.epSquare
        BY <1>0, <2>2, <4>1, <4>2 DEF PawnMove, PawnStep, Square, NB_SQUARE
      <4>4. taken = m.to /\ k = "PAWN"
        BY <4>1, <4>2, <4>3, PieceOn DEF taken, Taken, k, Now, PawnMove, Sound, Piece
      <4>5. q.epSquare \in Rank(relative_rank(opposite(us), 5))
        BY <1>0, <2>2, <4>1, <4>3 DEF Rank, rank_of, relative_rank, opposite, push_inc,
                                      Color, WHITE, BLACK, Square, NB_SQUARE
      <4>6. q.epSquare # m.to /\ m.from # m.to /\ q.epSquare - push_inc(opposite(us)) = m.to
            /\ q.epSquare + push_inc(opposite(us)) = m.from
        BY <1>0, <2>2, <4>1 DEF Square, NB_SQUARE
      <4>7. q.epSquare \notin pos_pieces(q) /\ m.from \notin pos_pieces(q)
        BY <2>1, <4>3, <4>6 DEF pos_pieces, Color
      <4>8. m.to \in pos_pieces_cp(q, us, "PAWN")
        BY <1>0, <2>1, <4>4 DEF pos_pieces_cp, Piece
      <4>9. opposite(opposite(us)) = us
        BY <1>0 DEF opposite, Color, WHITE, BLACK
      <4>10. QED
        BY <1>0, <4>3, <4>5, <4>6, <4>7, <4>8, <4>9 DEF EpSound
    <3>3. QED
      BY <3>1, <3>2
  <2>8. RightsSound(q)
    <3>1. q.castleRooks = (p.castleRooks \ {m.from, m.to})
                           \ (IF m.from \in p.byPiece["KING"] THEN Rank(7 * us) ELSE {})
      BY DEF Played
    <3>2. ASSUME NEW r \in q.castleRooks
          PROVE  /\ r \in p.castleRooks /\ r \in p.byPiece["ROOK"] /\ r \in pos_pieces(p)
                 /\ r # m.from /\ r # m.to /\ r # taken
      <4>1. r \in p.castleRooks /\ r # m.from /\ r # m.to
        BY <3>1
      <4>2. r \in p.byPiece["ROOK"] /\ r \in pos_pieces(p)
        BY <4>1 DEF Sound, RightsSound
      <4>3. r \notin p.byPiece["PAWN"]
        BY <4>2 DEF Sound, BoardOK, Piece
      <4>4. QED
        BY <2>3, <4>1, <4>2, <4>3
    <3>3. ASSUME NEW r \in q.castleRooks, NEW c \in Color
          PROVE  r \in q.byColor[c] <=> r \in p.byColor[c]
      BY <2>1, <3>2
    <3>4. q.castleRooks \subseteq pos_pieces(q) \intersect q.byPiece["ROOK"]
      BY <2>1, <3>2, <3>3 DEF pos_pieces, Color, Piece
    <3>5. ASSUME NEW c \in Color
          PROVE  /\ CastleRooks(q, c) \subseteq CastleRooks(p, c)
                 /\ CastleRooks(q, c) # {} =>
                      pos_pieces_cp(q, c, "KING") \subseteq pos_pieces_cp(p, c, "KING")
      <4>1. CastleRooks(q, c) \subseteq CastleRooks(p, c)
        BY <3>2, <3>3 DEF CastleRooks
      <4>2. CASE c # us
        BY <1>0, <2>1, <2>4, <4>1, <4>2 DEF pos_pieces_cp, Piece, BoardOK, Color, WHITE, BLACK
      <4>3. CASE c = us /\ k = "KING"
        BY <2>4, <3>1, <4>1, <4>3 DEF CastleRooks, Sound, RightsSound
      <4>4. CASE c = us /\ k # "KING"
        <5>1. m.to \notin q.byPiece["KING"]
          BY <2>1, <2>4, <4>4 DEF BoardOK, Piece
        <5>2. QED
          BY <2>1, <4>1, <4>4, <5>1 DEF pos_pieces_cp, Piece
      <4>5. QED
        BY <4>2, <4>3, <4>4
    <3>6. QED
      BY <3>4, <3>5 DEF RightsSound, Sound
  <2>9. QED
    BY <2>5, <2>6, <2>7, <2>8 DEF Sound
<1>3. QED
  BY <1>1, <1>2

\* The piece of color c on u attacks t, if occ is occupied.
Hits(p, c, u, t, occ) ==
    \/ u \in pos_pieces_cp(p, c, "KING") /\ t \in KingAttacks[u]
    \/ u \in pos_pieces_cp(p, c, "KNIGHT") /\ t \in KnightAttacks[u]
    \/ u \in pos_pieces_cp(p, c, "PAWN") /\ t \in PawnAttacks[c][u]
    \/ u \in pos_pieces_cpp(p, c, "ROOK", "QUEEN") /\ t \in bb_rook_attacks(u, occ)
    \/ u \in pos_pieces_cpp(p, c, "BISHOP", "QUEEN") /\ t \in bb_bishop_attacks(u, occ)

\* The board without the king of the side to move.
SeenThrough(p) == pos_pieces(p) \ pos_pieces_cp(p, p.turn, "KING")

\* The pieces of a color, those of the other, and all.
LEMMA ColoredPieces ==
    ASSUME NEW p, BoardOK(p), NEW c \in Color
    PROVE  /\ p.byColor[c] \subseteq Square /\ p.byColor[c] \subseteq pos_pieces(p)
           /\ \A k : pos_pieces_cp(p, c, k) \subseteq p.byColor[c]
           /\ \A k, l : pos_pieces_cpp(p, c, k, l) \subseteq p.byColor[c]
           /\ opposite(c) \in Color /\ opposite(c) # c /\ opposite(opposite(c)) = c
           /\ p.byColor[c] \intersect p.byColor[opposite(c)] = {}
           /\ pos_pieces(p) = p.byColor[c] \union p.byColor[opposite(c)]
BY DEF BoardOK, pos_pieces, pos_pieces_cp, pos_pieces_cpp, Color, WHITE, BLACK, opposite

\* What finish computes: the attacked squares.
LEMMA AttackedSquares ==
    ASSUME NEW p, Sound(p), HasKing(p, opposite(p.turn)), NEW t \in Square
    PROVE  t \in Attacked(p) <=> \E u : Hits(p, opposite(p.turn), u, t, SeenThrough(p))
<1> DEFINE them == opposite(p.turn)
           pawns == pos_pieces_cp(p, them, "PAWN")
           push == push_inc(them)
           occ == SeenThrough(p)
<1>1. them \in Color /\ p.byColor[them] \subseteq Square /\ p.turn \in Color
  BY ColoredPieces DEF Sound, BoardOK
<1>2. pos_pieces_cp(p, them, "KING") = {pos_king_square(p, them)}
  BY <1>1, KingSquare
<1>3. t \in bb_shift(pawns \ File(0), push - 1) \/ t \in bb_shift(pawns \ File(7), push + 1)
        <=> \E u \in pawns : t \in PawnAttacks[them][u]
  <2>1. pawns \subseteq Square
    BY <1>1 DEF pos_pieces_cp
  <2>2. push \in Int /\ \A u \in Square : u + (push - 1) = u + push - 1 /\ u + (push + 1) = u + push + 1
    BY DEF push_inc, Square, NB_SQUARE
  <2>3. \A u \in pawns : /\ u \in File(0) <=> u % 8 = 0
                         /\ u \in File(7) <=> u % 8 = 7
    BY <2>1 DEF File, file_of
  <2> HIDE DEF pawns, push
  <2>4. t \in bb_shift(pawns \ File(0), push - 1)
          <=> \E u \in pawns : u % 8 # 0 /\ t = u + push - 1
    BY <2>1, <2>2, <2>3 DEF bb_shift
  <2>5. t \in bb_shift(pawns \ File(7), push + 1)
          <=> \E u \in pawns : u % 8 # 7 /\ t = u + push + 1
    BY <2>1, <2>2, <2>3 DEF bb_shift
  <2>6. \A u \in pawns : t \in PawnAttacks[them][u] <=>
             \/ u % 8 # 0 /\ t = u + push - 1
             \/ u % 8 # 7 /\ t = u + push + 1
    BY <1>1, <2>1, PawnShifts DEF push
  <2>7. QED
    BY <2>4, <2>5, <2>6, Zenon
<1>4. t \in Attacked(p) <=>
        \/ t \in KingAttacks[pos_king_square(p, them)]
        \/ \E s \in pos_pieces_cp(p, them, "KNIGHT") : t \in KnightAttacks[s]
        \/ t \in bb_shift(pawns \ File(0), push - 1)
        \/ t \in bb_shift(pawns \ File(7), push + 1)
        \/ \E s \in pos_pieces_cpp(p, them, "ROOK", "QUEEN") : t \in bb_rook_attacks(s, occ)
        \/ \E s \in pos_pieces_cpp(p, them, "BISHOP", "QUEEN") : t \in bb_bishop_attacks(s, occ)
  BY DEF Attacked, SeenThrough
<1> HIDE DEF occ, push, pawns
<1>5. QED
  BY <1>2, <1>3, <1>4 DEF Hits, pawns, occ

\* Seen from the target.
LEMMA HitsBack ==
    ASSUME NEW p, BoardOK(p), NEW c \in Color, NEW u, NEW t \in Square, NEW occ
    PROVE  Hits(p, c, u, t, occ) <=>
             \/ u \in pos_pieces_cp(p, c, "KING") /\ u \in KingAttacks[t]
             \/ u \in pos_pieces_cp(p, c, "KNIGHT") /\ u \in KnightAttacks[t]
             \/ u \in pos_pieces_cp(p, c, "PAWN") /\ u \in PawnAttacks[opposite(c)][t]
             \/ u \in pos_pieces_cpp(p, c, "ROOK", "QUEEN") /\ u \in bb_rook_attacks(t, occ)
             \/ u \in pos_pieces_cpp(p, c, "BISHOP", "QUEEN") /\ u \in bb_bishop_attacks(t, occ)
<1>1. CASE u \in Square
  <2>1. /\ t \in KnightAttacks[u] <=> u \in KnightAttacks[t]
        /\ t \in KingAttacks[u] <=> u \in KingAttacks[t]
        /\ t \in PawnAttacks[c][u] <=> u \in PawnAttacks[opposite(c)][t]
    BY <1>1, LeapsOneWay, ColoredPieces
  <2>2. /\ Aligned(RookDir, u, t) <=> Aligned(RookDir, t, u)
        /\ Aligned(RookDir, u, t) => Between(u, t) = Between(t, u)
        /\ Aligned(BishopDir, u, t) <=> Aligned(BishopDir, t, u)
        /\ Aligned(BishopDir, u, t) => Between(u, t) = Between(t, u)
    BY <1>1, LookedAtBack
  <2>3. /\ t \in bb_rook_attacks(u, occ) <=> u \in bb_rook_attacks(t, occ)
        /\ t \in bb_bishop_attacks(u, occ) <=> u \in bb_bishop_attacks(t, occ)
    BY <1>1, <2>2, Sliding
  <2>4. QED
    BY <2>1, <2>3, Zenon DEF Hits
<1>2. CASE u \notin Square
  <2>1. /\ \A k : u \notin pos_pieces_cp(p, c, k)
        /\ \A k, l : u \notin pos_pieces_cpp(p, c, k, l)
    BY <1>2, ColoredPieces
  <2>2. QED
    BY <2>1, Zenon DEF Hits
<1>3. QED
  BY <1>1, <1>2

\* An end of a line does not stand in its way.
LEMMA HitsThrough ==
    ASSUME NEW p, BoardOK(p), NEW c \in Color, NEW u, NEW t \in Square, NEW occ, NEW other,
           occ \ {t} = other \ {t}
    PROVE  Hits(p, c, u, t, occ) <=> Hits(p, c, u, t, other)
<1>1. t \notin Between(t, u) /\ (Between(t, u) \intersect occ = Between(t, u) \intersect other)
  BY DEF Between
<1>2. \A s : /\ s \in bb_rook_attacks(t, occ) /\ s = u => s \in bb_rook_attacks(t, other)
             /\ s \in bb_rook_attacks(t, other) /\ s = u => s \in bb_rook_attacks(t, occ)
             /\ s \in bb_bishop_attacks(t, occ) /\ s = u => s \in bb_bishop_attacks(t, other)
             /\ s \in bb_bishop_attacks(t, other) /\ s = u => s \in bb_bishop_attacks(t, occ)
  BY <1>1, Sliding
<1>3. QED
  BY <1>2, HitsBack, Zenon

\* What finish computes: the checkers, the enemy's king apart.
LEMMA CheckersHit ==
    ASSUME NEW p, Sound(p), HasKing(p, p.turn), HasKing(p, opposite(p.turn)), NEW u
    PROVE  u \in Checkers(p, Attacked(p)) <=>
             /\ Hits(p, opposite(p.turn), u, King(p), pos_pieces(p))
             /\ ~(u \in pos_pieces_cp(p, opposite(p.turn), "KING") /\ u \in KingAttacks[King(p)])
<1> DEFINE us == p.turn
           them == opposite(us)
           king == King(p)
           occ == pos_pieces(p)
<1>1. /\ us \in Color /\ them \in Color /\ opposite(them) = us /\ king \in Square
      /\ pos_pieces_cp(p, us, "KING") = {king} /\ BoardOK(p) /\ king = pos_king_square(p, us)
  BY KingSquare, ColoredPieces DEF King, Sound, BoardOK
<1>2. king \in Attacked(p) <=> \E x : Hits(p, them, x, king, occ)
  <2>1. SeenThrough(p) \ {king} = occ \ {king}
    BY <1>1 DEF SeenThrough
  <2> HIDE DEF king, them, occ
  <2>2. \A x : Hits(p, them, x, king, SeenThrough(p)) <=> Hits(p, them, x, king, occ)
    BY <1>1, <2>1, HitsThrough
  <2>3. king \in Attacked(p) <=> \E x : Hits(p, them, x, king, SeenThrough(p))
    BY <1>1, AttackedSquares DEF them
  <2>4. QED
    BY <2>2, <2>3, Zenon
<1>3. u \in Checkers(p, Attacked(p)) <=>
        /\ king \in Attacked(p)
        /\ \/ u \in pos_pieces_cp(p, them, "PAWN") /\ u \in PawnAttacks[us][king]
           \/ u \in pos_pieces_cp(p, them, "KNIGHT") /\ u \in KnightAttacks[king]
           \/ u \in pos_pieces_cpp(p, them, "ROOK", "QUEEN") /\ u \in bb_rook_attacks(king, occ)
           \/ u \in pos_pieces_cpp(p, them, "BISHOP", "QUEEN") /\ u \in bb_bishop_attacks(king, occ)
  BY <1>1 DEF Checkers, PawnCheckSquares
<1>4. Hits(p, them, u, king, occ) <=>
             \/ u \in pos_pieces_cp(p, them, "KING") /\ u \in KingAttacks[king]
             \/ u \in pos_pieces_cp(p, them, "KNIGHT") /\ u \in KnightAttacks[king]
             \/ u \in pos_pieces_cp(p, them, "PAWN") /\ u \in PawnAttacks[us][king]
             \/ u \in pos_pieces_cpp(p, them, "ROOK", "QUEEN") /\ u \in bb_rook_attacks(king, occ)
             \/ u \in pos_pieces_cpp(p, them, "BISHOP", "QUEEN") /\ u \in bb_bishop_attacks(king, occ)
  BY <1>1, HitsBack
<1>5. u \in pos_pieces_cp(p, them, "KING") =>
        /\ u \notin pos_pieces_cp(p, them, "KNIGHT") /\ u \notin pos_pieces_cp(p, them, "PAWN")
        /\ u \notin pos_pieces_cpp(p, them, "ROOK", "QUEEN")
        /\ u \notin pos_pieces_cpp(p, them, "BISHOP", "QUEEN")
  BY <1>1 DEF BoardOK, pos_pieces_cp, pos_pieces_cpp, Piece
<1> HIDE DEF king, them, occ, us
<1>6. QED
  BY <1>2, <1>3, <1>4, <1>5, Zenon DEF them, king, occ, us

\* A piece that is pinned and stays on its line does not pass the pinner.
LEMMA StaysBetween ==
    ASSUME NEW k \in Square, NEW u, Aligned(KingDir, k, u), NEW s \in Between(k, u),
           NEW t \in Ray[k][s], t # k, u \notin Between(s, t)
    PROVE  t \in Between(k, u) \union {u}
<1>1. PICK d \in KingDir, l \in 1..7 : Reached(k, u, d, l)
  BY DEF Aligned
<1>2. Between(k, u) = {Step(k, d, j) : j \in 1..(l - 1)}
  BY <1>1, SegmentOf DEF Between
<1>3. PICK i \in 1..(l - 1) : s = Step(k, d, i)
  BY <1>2
<1>4. i \in 1..7 /\ Reached(k, s, d, i) /\ s \in Square
  BY <1>1, <1>3, Convex
<1>5. Ray[k][s] = {k} \union Line(k, d)
  BY <1>1, <1>4, SegmentOf
<1>6. PICK n \in 1..7 : Reached(k, t, d, n)
  BY <1>5 DEF Line, Reached
<1>7. CASE n < l
  BY <1>2, <1>6, <1>7 DEF Reached
<1>8. CASE n = l
  BY <1>1, <1>6, <1>8 DEF Reached
<1>9. CASE n > l
  <2>1. PICK j \in 1..7, h \in 1..7 : j = n - i /\ h = l - i /\ h \in 1..(j - 1)
                                     /\ i + j = n /\ i + h = l
    BY <1>4, <1>9
  <2>2. Reached(s, t, d, j) /\ Reached(s, u, d, h)
    BY <1>1, <1>4, <1>6, <2>1, Onward
  <2>3. Between(s, t) = {Step(s, d, x) : x \in 1..(j - 1)}
    BY <1>1, <1>4, <2>2, SegmentOf DEF Between
  <2>4. u \in Between(s, t)
    BY <2>1, <2>2, <2>3 DEF Reached
  <2>5. QED
    BY <2>4
<1>10. QED
  BY <1>7, <1>8, <1>9

\* A knight leaves any line.
LEMMA KnightOffRay ==
    ASSUME NEW k \in Square, NEW s, Aligned(KingDir, k, s), NEW t \in KnightAttacks[s]
    PROVE  t \notin Ray[k][s]
<1>1. PICK d \in KingDir, i \in 1..7 : Reached(k, s, d, i)
  BY DEF Aligned
<1>2. s \in Square /\ Ray[k][s] = {k} \union Line(k, d)
  BY <1>1, SegmentOf
<1>3. SUFFICES ASSUME t \in Ray[k][s] PROVE FALSE
  OBVIOUS
<1>4. PICK n \in 0..7 : Reached(k, t, d, n)
  <2>1. CASE t = k
    BY <1>1, <2>1, Here
  <2>2. CASE t \in Line(k, d)
    BY <2>2 DEF Line, Reached
  <2>3. QED
    BY <1>2, <1>3, <2>1, <2>2
<1>5. PICK e \in KnightDir : OnBoard(s, e, 1) /\ t = Step(s, e, 1)
  BY <1>2 DEF KnightAttacks, Leaps
<1>6. PICK x \in {-2, -1, 1, 2}, y \in {-2, -1, 1, 2} : x = e[1] /\ y = e[2] /\ x # y /\ x # -y
  BY DEF KnightDir
<1>7. rank_of(t) = rank_of(s) + x /\ file_of(t) = file_of(s) + y
  <2>1. PICK r \in 0..7, f \in 0..7 : r = rank_of(s) /\ f = file_of(s) /\ s = 8 * r + f
    BY <1>2, RankAndFile
  <2>2. r + x \in 0..7 /\ f + y \in 0..7
    <3>1. r + 1 * x \in 0..7 /\ f + 1 * y \in 0..7
      BY <1>5, <1>6, <2>1, Zenon DEF OnBoard
    <3>2. QED
      BY <3>1
  <2>3. t = 8 * (r + x) + (f + y)
    BY <1>5, <1>6, <2>1 DEF Step
  <2>4. QED
    BY <2>1, <2>2, <2>3, RankAndFile
<1>8. PICK a \in {-1, 0, 1}, b \in {-1, 0, 1} : a = d[1] /\ b = d[2]
  BY EightDirections
<1>9. PICK r \in 0..7, f \in 0..7 : r = rank_of(k) /\ f = file_of(k)
  BY RankAndFile
<1>10. r + n * a = (r + i * a) + x /\ f + n * b = (f + i * b) + y
  BY <1>1, <1>4, <1>7, <1>8, <1>9, Coordinates
<1>11. PICK z \in Int : z = n - i
  OBVIOUS
<1>12. \A c \in {-1, 0, 1}, g \in 0..7, h \in {-2, -1, 1, 2} :
         g + n * c = (g + i * c) + h => (c = 1 /\ h = z) \/ (c = -1 /\ h = -z)
  <2>1. TAKE c \in {-1, 0, 1}, g \in 0..7, h \in {-2, -1, 1, 2}
  <2>2. CASE c = 1
    BY <1>11, <2>2
  <2>3. CASE c = -1
    BY <1>11, <2>3
  <2>4. CASE c = 0
    BY <2>4
  <2>5. QED
    BY <2>2, <2>3, <2>4
<1>13. (x = z \/ x = -z) /\ (y = z \/ y = -z)
  BY <1>10, <1>12
<1>14. QED
  BY <1>6, <1>13

\* One element, as bb_several counts.
LEMMA NotSeveral ==
    ASSUME NEW S, S \subseteq Square, NEW x \in S
    PROVE  ~bb_several(S) <=> S = {x}
<1>1. IsFiniteSet(S) /\ Cardinality(S) \in Nat
  BY FiniteBoard DEF bb_count
<1>2. S = {x} => ~bb_several(S)
  BY FS_Singleton DEF bb_several
<1>3. ASSUME ~bb_several(S) PROVE S = {x}
  <2>1. IsFiniteSet({x}) /\ Cardinality({x}) = 1 /\ {x} \in SUBSET S
    BY FS_Singleton
  <2>2. Cardinality({x}) <= Cardinality(S)
    BY <1>1, <2>1, FS_Subset
  <2>3. Cardinality(S) = Cardinality({x})
    BY <1>1, <1>3, <2>1, <2>2 DEF bb_several
  <2>4. QED
    BY <1>1, <2>1, <2>3, FS_Subset
<1>4. QED
  BY <1>2, <1>3

\* An enemy slider that looks at s along a line.
SliderAt(p, c, s, u) ==
    \/ u \in pos_pieces_cpp(p, c, "ROOK", "QUEEN") /\ Aligned(RookDir, s, u)
    \/ u \in pos_pieces_cpp(p, c, "BISHOP", "QUEEN") /\ Aligned(BishopDir, s, u)

\* What finish computes: the pinned pieces.
LEMMA PinnedPieces ==
    ASSUME NEW p, Sound(p), HasKing(p, p.turn), NEW x
    PROVE  x \in Pins(p) <=>
             /\ x \in p.byColor[p.turn]
             /\ \E u : /\ SliderAt(p, opposite(p.turn), King(p), u)
                       /\ Between(King(p), u) \intersect pos_pieces(p) = {x}
<1> DEFINE us == p.turn
           them == opposite(us)
           king == King(p)
           skewered(u) == (Segment[king][u] \intersect pos_pieces(p)) \ {king, u}
           pinners == (pos_pieces_cpp(p, them, "ROOK", "QUEEN")
                      \intersect bb_rook_attacks(king, {}))
                   \union (pos_pieces_cpp(p, them, "BISHOP", "QUEEN")
                      \intersect bb_bishop_attacks(king, {}))
<1>1. king = pos_king_square(p, us) /\ king \in Square /\ us \in Color /\ them \in Color
  BY KingSquare, Directions DEF King, Sound, BoardOK
<1>2. x \in Pins(p) <=> \E u \in pinners : /\ x \in skewered(u) /\ ~bb_several(skewered(u))
                                           /\ skewered(u) \intersect p.byColor[us] # {}
  BY <1>1 DEF Pins
<1>3. \A u : u \in pinners <=> SliderAt(p, them, king, u)
  <2>1. \A u : /\ u \in bb_rook_attacks(king, {}) <=> Aligned(RookDir, king, u)
               /\ u \in bb_bishop_attacks(king, {}) <=> Aligned(BishopDir, king, u)
    BY <1>1, Sliding
  <2> HIDE DEF king, them
  <2>2. QED
    BY <2>1 DEF SliderAt
<1>4. \A u : skewered(u) = Between(king, u) \intersect pos_pieces(p)
  BY DEF Between
<1>5. \A u : skewered(u) \subseteq Square
  BY ColoredPieces, <1>1 DEF Sound
<1> HIDE DEF king, skewered, pinners, them, us
<1>6. ASSUME NEW u, x \in skewered(u)
      PROVE  ~bb_several(skewered(u)) <=> skewered(u) = {x}
  BY <1>5, <1>6, NotSeveral
<1>7. x \in Pins(p) <=> \E u \in pinners : skewered(u) = {x} /\ x \in p.byColor[us]
  BY <1>2, <1>6
<1>8. QED
  BY <1>3, <1>4, <1>7 DEF king, them, us

-----------------------------------------------------------------------------
(* No king is ever left to be captured.                                    *)

\* No piece attacks the king of c.
Unhit(p, c) ==
    \A u : ~Hits(p, opposite(c), u, pos_king_square(p, c), pos_pieces(p))

\* A pawn that has just made a double push gives no check but its own, and
\* uncovers sliders only.
EpChecks(p) ==
    p.epSquare # NB_SQUARE =>
        \A u \in p.checkers :
            u \in p.byPiece["KNIGHT"] \union p.byPiece["PAWN"] => u = p.epSquare - push_inc(p.turn)

\* A position whose side to move cannot capture the king.
Ready(p) ==
    /\ Sound(p) /\ Derived(p) /\ \A c \in Color : HasKing(p, c)
    /\ Unhit(p, opposite(p.turn)) /\ EpChecks(p)

\* The two sides of a position that is ready, and their kings.
LEMMA Sides ==
    ASSUME NEW p, Ready(p), NEW us, us = p.turn, NEW them, them = opposite(us),
           NEW king, king = King(p)
    PROVE  /\ us \in Color /\ them \in Color /\ us # them /\ opposite(them) = us
           /\ BoardOK(p) /\ king \in Square /\ king = pos_king_square(p, us)
           /\ pos_pieces_cp(p, us, "KING") = {king}
           /\ king \in p.byColor[us] /\ king \in p.byPiece["KING"]
           /\ pos_king_square(p, them) \in Square
           /\ pos_pieces_cp(p, them, "KING") = {pos_king_square(p, them)}
           /\ p.byColor[us] \subseteq Square /\ p.byColor[them] \subseteq Square
           /\ p.byColor[us] \intersect p.byColor[them] = {}
           /\ pos_pieces(p) = p.byColor[us] \union p.byColor[them]
           /\ \A u : ~(u \in pos_pieces_cp(p, them, "KING") /\ u \in KingAttacks[king])
           /\ \A u : ~(u \in pos_pieces_cp(p, them, "KING") /\ king \in KingAttacks[u])
<1>1. /\ us \in Color /\ them \in Color /\ us # them /\ opposite(them) = us /\ BoardOK(p)
  BY ColoredPieces DEF Ready, Sound, BoardOK
<1>2. /\ king = pos_king_square(p, us) /\ king \in Square
      /\ pos_pieces_cp(p, us, "KING") = {king}
  BY <1>1, KingSquare DEF King, Ready
<1>3. /\ pos_king_square(p, them) \in Square
      /\ pos_pieces_cp(p, them, "KING") = {pos_king_square(p, them)}
  BY <1>1, KingSquare DEF Ready
<1>4. pos_king_square(p, them) \notin KingAttacks[king]
  <2>1. ~Hits(p, us, king, pos_king_square(p, them), pos_pieces(p))
    BY <1>1 DEF Ready, Unhit
  <2>2. QED
    BY <1>2, <2>1 DEF Hits
<1>5. king \notin KingAttacks[pos_king_square(p, them)]
  BY <1>2, <1>3, <1>4, LeapsOneWay
<1>6. /\ p.byColor[us] \subseteq Square /\ p.byColor[them] \subseteq Square
      /\ p.byColor[us] \intersect p.byColor[them] = {}
      /\ pos_pieces(p) = p.byColor[us] \union p.byColor[them]
  BY <1>1, ColoredPieces
<1>7. king \in p.byColor[us] /\ king \in p.byPiece["KING"]
  BY <1>2 DEF pos_pieces_cp
<1>8. QED
  BY <1>1, <1>2, <1>3, <1>4, <1>5, <1>6, <1>7

\* What attacked, checkers and pins hold, in terms of single pieces.
LEMMA WhatIsDerived ==
    ASSUME NEW p, Ready(p), NEW us, us = p.turn, NEW them, them = opposite(us),
           NEW king, king = King(p)
    PROVE  /\ \A t \in Square : t \in p.attacked <=> \E u : Hits(p, them, u, t, SeenThrough(p))
           /\ \A u : u \in p.checkers <=> Hits(p, them, u, king, pos_pieces(p))
           /\ \A x : x \in p.pins <=>
                /\ x \in p.byColor[us]
                /\ \E u : /\ SliderAt(p, them, king, u)
                          /\ Between(king, u) \intersect pos_pieces(p) = {x}
<1>1. Sound(p) /\ HasKing(p, us) /\ HasKing(p, them)
  BY Sides DEF Ready
<1>2. \A t \in Square : t \in p.attacked <=> \E u : Hits(p, them, u, t, SeenThrough(p))
  BY <1>1, AttackedSquares DEF Ready, Derived
<1>3. \A u : u \in p.checkers <=> Hits(p, them, u, king, pos_pieces(p))
  BY <1>1, CheckersHit, Sides DEF Ready, Derived
<1>4. \A x : x \in p.pins <=>
                /\ x \in p.byColor[us]
                /\ \E u : /\ SliderAt(p, them, king, u)
                          /\ Between(king, u) \intersect pos_pieces(p) = {x}
  BY <1>1, PinnedPieces DEF Ready, Derived
<1>5. QED
  BY <1>2, <1>3, <1>4

\* The enemy's pieces after a move that is no castling.
LEMMA EnemyAfter ==
    ASSUME NEW p, BoardOK(p), NEW m, NEW q, Replaces(p, q, m),
           NEW us, us = p.turn, NEW them, them = opposite(us),
           m.from \in p.byColor[us], m.to \notin p.byColor[them] \ {Taken(p, m)}
    PROVE  /\ \A u, t, occ : Hits(q, them, u, t, occ) <=> Hits(p, them, u, t, occ) /\ u # Taken(p, m)
           /\ them \in Color
<1>1. us \in Color /\ them \in Color /\ us # them /\ p.byColor[us] \intersect p.byColor[them] = {}
  BY ColoredPieces DEF BoardOK
<1>2. q.byColor[them] = p.byColor[them] \ {Taken(p, m)}
  BY <1>1 DEF Replaces
<1>3. \A k \in Piece : \A u \in q.byColor[them] : u \in q.byPiece[k] <=> u \in p.byPiece[k]
  <2>1. TAKE k \in Piece
  <2>2. TAKE u \in q.byColor[them]
  <2>3. u # m.from /\ u # m.to /\ u # Taken(p, m)
    BY <1>1, <1>2
  <2>4. q.byPiece[k] = (p.byPiece[k] \ {m.from, Taken(p, m)}) \union (IF k = Now(p, m) THEN {m.to} ELSE {})
    BY DEF Replaces
  <2>5. QED
    BY <2>3, <2>4
<1>4. \A k \in Piece : pos_pieces_cp(q, them, k) = pos_pieces_cp(p, them, k) \ {Taken(p, m)}
  BY <1>2, <1>3 DEF pos_pieces_cp
<1>5. \A k, l \in Piece : pos_pieces_cpp(q, them, k, l) = pos_pieces_cpp(p, them, k, l) \ {Taken(p, m)}
  BY <1>2, <1>3 DEF pos_pieces_cpp
<1>6. QED
  BY <1>1, <1>4, <1>5 DEF Hits, Piece

\* The own king after such a move.
LEMMA KingAfter ==
    ASSUME NEW p, Ready(p), NEW m, NEW q, Replaces(p, q, m),
           m.from \in p.byColor[p.turn], m.from \notin p.byPiece["KING"], Now(p, m) # "KING",
           m.to \notin p.byColor[p.turn], Taken(p, m) \notin p.byColor[p.turn]
    PROVE  /\ pos_king_square(q, p.turn) = King(p) /\ HasKing(q, p.turn)
           /\ pos_pieces_cp(q, p.turn, "KING") = {King(p)}
<1>1. PICK us, king : us = p.turn /\ king = King(p)
  OBVIOUS
<1>2. /\ us \in Color /\ king \in Square /\ pos_pieces_cp(p, us, "KING") = {king}
      /\ king \in p.byColor[us] /\ king \in p.byPiece["KING"]
  BY <1>1, Sides
<1>3. /\ q.byColor[us] = (p.byColor[us] \ {m.from, Taken(p, m)}) \union {m.to}
      /\ q.byPiece["KING"] = p.byPiece["KING"] \ {m.from, Taken(p, m)}
  BY <1>1, <1>2 DEF Replaces, Piece
<1>4. pos_pieces_cp(q, us, "KING") = {king}
  <2>1. king # m.from /\ king # Taken(p, m) /\ king # m.to
    BY <1>1, <1>2
  <2>2. m.to \notin q.byPiece["KING"] \/ m.to = king
    <3>1. CASE m.to \in p.byPiece["KING"] /\ m.to # Taken(p, m)
      <4>1. Taken(p, m) = m.to - push_inc(us) /\ m.to = p.epSquare
        BY <1>1, <3>1 DEF Taken
      <4>2. m.to \in Square
        BY <3>1, Sides DEF BoardOK, Piece
      <4>3. p.epSquare # NB_SQUARE
        BY <4>1, <4>2 DEF Square, NB_SQUARE
      <4>4. m.to \notin pos_pieces(p)
        BY <4>1, <4>3 DEF Ready, Sound, EpSound
      <4>5. QED
        BY <3>1, <4>2, <4>4 DEF Ready, Sound, BoardOK, Piece
    <3>2. QED
      BY <1>3, <3>1
  <2>3. QED
    BY <1>2, <1>3, <2>1, <2>2 DEF pos_pieces_cp
<1>5. pos_king_square(q, us) = king
  BY <1>2, <1>4 DEF pos_king_square
<1>6. QED
  BY <1>1, <1>4, <1>5 DEF HasKing

\* Squares that block or capture the only checker.
Answered(p, m) ==
    \/ p.checkers = {}
    \/ \E c : /\ p.checkers = {c}
              /\ m.to \in IF pos_piece_on(p, c) \in {"BISHOP", "ROOK", "QUEEN"}
                          THEN Segment[King(p)][c] ELSE {c}

\* A move of a piece other than the king, en passant captures apart.
Normal(p, m) ==
    /\ m.from \in p.byColor[p.turn] \ p.byPiece["KING"]
    /\ m.to \in Square \ p.byColor[p.turn]
    /\ Taken(p, m) = m.to /\ Now(p, m) # "KING"
    /\ \/ m.to \in KnightAttacks[m.from]
       \/ Between(m.from, m.to) \intersect pos_pieces(p) = {}

\* Sliders, and the others.
LEMMA HitsOrSlides ==
    ASSUME NEW p, BoardOK(p), NEW c \in Color, NEW u, NEW t \in Square, NEW occ
    PROVE  /\ Hits(p, c, u, t, occ) <=>
               \/ u \in pos_pieces_cp(p, c, "KING") /\ u \in KingAttacks[t]
               \/ u \in pos_pieces_cp(p, c, "KNIGHT") /\ u \in KnightAttacks[t]
               \/ u \in pos_pieces_cp(p, c, "PAWN") /\ u \in PawnAttacks[opposite(c)][t]
               \/ SliderAt(p, c, t, u) /\ Between(t, u) \intersect occ = {}
           /\ SliderAt(p, c, t, u) => /\ Aligned(KingDir, t, u) /\ u \in Square /\ u # t
                                      /\ u \in p.byColor[c]
                                      /\ pos_piece_on(p, u) \in {"BISHOP", "ROOK", "QUEEN"}
<1>1. Hits(p, c, u, t, occ) <=>
               \/ u \in pos_pieces_cp(p, c, "KING") /\ u \in KingAttacks[t]
               \/ u \in pos_pieces_cp(p, c, "KNIGHT") /\ u \in KnightAttacks[t]
               \/ u \in pos_pieces_cp(p, c, "PAWN") /\ u \in PawnAttacks[opposite(c)][t]
               \/ u \in pos_pieces_cpp(p, c, "ROOK", "QUEEN") /\ u \in bb_rook_attacks(t, occ)
               \/ u \in pos_pieces_cpp(p, c, "BISHOP", "QUEEN") /\ u \in bb_bishop_attacks(t, occ)
  BY HitsBack
<1>2. /\ u \in bb_rook_attacks(t, occ) <=>
                Aligned(RookDir, t, u) /\ Between(t, u) \intersect occ = {}
      /\ u \in bb_bishop_attacks(t, occ) <=>
                Aligned(BishopDir, t, u) /\ Between(t, u) \intersect occ = {}
  BY Sliding
<1>3. SliderAt(p, c, t, u) =>
        /\ Aligned(KingDir, t, u) /\ u \in p.byColor[c]
        /\ pos_piece_on(p, u) \in {"BISHOP", "ROOK", "QUEEN"}
  <2>1. Aligned(RookDir, t, u) \/ Aligned(BishopDir, t, u) => Aligned(KingDir, t, u)
    BY DEF Aligned, KingDir
  <2>2. \A k \in Piece : u \in p.byPiece[k] => pos_piece_on(p, u) = k
    BY PieceOn
  <2>3. QED
    BY <2>1, <2>2 DEF SliderAt, pos_pieces_cpp, Piece
<1>4. Aligned(KingDir, t, u) => u \in Square /\ u # t
  BY LookedAtBack
<1>5. QED
  BY <1>1, <1>2, <1>3, <1>4, Zenon DEF SliderAt

\* The other pieces that can attack a king.
LEMMA Leapers ==
    ASSUME NEW p, BoardOK(p), NEW c \in Color, NEW k \in {"KNIGHT", "PAWN"},
           NEW u \in pos_pieces_cp(p, c, k)
    PROVE  pos_piece_on(p, u) \notin {"BISHOP", "ROOK", "QUEEN"} /\ u \in p.byColor[c]
<1>1. pos_piece_on(p, u) = k
  BY PieceOn DEF pos_pieces_cp, Piece
<1>2. QED
  BY <1>1 DEF pos_pieces_cp

\* A move that keeps a pin and answers a check leaves the king unattacked.
LEMMA NormalSafe ==
    ASSUME NEW p, Ready(p), NEW m, Normal(p, m), NEW q, BoardOK(q), Replaces(p, q, m),
           m.from \in p.pins => m.to \in Ray[King(p)][m.from], Answered(p, m), NEW u
    PROVE  ~Hits(q, opposite(p.turn), u, King(p), pos_pieces(q))
<1>1. PICK us, them, king, from, to :
        /\ us = p.turn /\ them = opposite(us) /\ king = King(p) /\ from = m.from /\ to = m.to
  OBVIOUS
<1>2. /\ us \in Color /\ them \in Color /\ us # them /\ BoardOK(p)
      /\ king \in Square /\ king \in p.byColor[us]
      /\ p.byColor[us] \intersect p.byColor[them] = {} /\ p.byColor[us] \subseteq Square
      /\ pos_pieces(p) = p.byColor[us] \union p.byColor[them]
      /\ ~(u \in pos_pieces_cp(p, them, "KING") /\ u \in KingAttacks[king])
  BY <1>1, Sides
<1>3. SUFFICES ASSUME Hits(q, them, u, king, pos_pieces(q)) PROVE FALSE
  BY <1>1
<1>4. /\ from \in p.byColor[us] /\ from \in Square /\ to \in Square /\ to \notin p.byColor[us]
      /\ Taken(p, m) = to
      /\ to \in KnightAttacks[from] \/ Between(from, to) \intersect pos_pieces(p) = {}
  BY <1>1, <1>2 DEF Normal
<1>5. Hits(p, them, u, king, pos_pieces(q)) /\ u # to
  BY <1>1, <1>3, <1>4, EnemyAfter, <1>2
<1>6. pos_pieces(q) = (pos_pieces(p) \ {from, to}) \union {to}
  <2>1. pos_pieces(q) = q.byColor[us] \union q.byColor[them]
    BY <1>1, <1>2, ColoredPieces
  <2>2. /\ q.byColor[us] = (p.byColor[us] \ {from, to}) \union {to}
        /\ q.byColor[them] = p.byColor[them] \ {from, to}
    BY <1>1, <1>2, <1>4 DEF Replaces
  <2>3. QED
    BY <1>2, <2>1, <2>2
<1>7. \A x : x \in p.checkers => to \in IF pos_piece_on(p, x) \in {"BISHOP", "ROOK", "QUEEN"}
                                       THEN Segment[king][x] ELSE {x}
  BY <1>1 DEF Answered
<1>8. u \in p.checkers <=> Hits(p, them, u, king, pos_pieces(p))
  BY <1>1, WhatIsDerived
<1>9. ASSUME NEW k \in {"KNIGHT", "PAWN"}, u \in pos_pieces_cp(p, them, k),
             Hits(p, them, u, king, pos_pieces(p))
      PROVE  FALSE
  <2>1. pos_piece_on(p, u) \notin {"BISHOP", "ROOK", "QUEEN"}
    BY <1>2, <1>9, Leapers
  <2>2. to = u
    BY <1>7, <1>8, <1>9, <2>1
  <2>3. QED
    BY <1>5, <2>2
<1>10. CASE SliderAt(p, them, king, u) /\ Between(king, u) \intersect pos_pieces(q) = {}
  <2>1. /\ Aligned(KingDir, king, u) /\ u \in Square /\ u # king /\ u \in p.byColor[them]
        /\ pos_piece_on(p, u) \in {"BISHOP", "ROOK", "QUEEN"}
    BY <1>2, <1>10, HitsOrSlides
  <2>2. to \notin Between(king, u) /\ Between(king, u) \intersect pos_pieces(p) \subseteq {from}
    BY <1>6, <1>10
  <2>3. CASE from \notin Between(king, u)
    <3>1. Hits(p, them, u, king, pos_pieces(p))
      BY <1>2, <1>10, <2>2, <2>3, HitsOrSlides
    <3>2. to \in Segment[king][u]
      BY <1>7, <1>8, <2>1, <3>1
    <3>3. to # king
      BY <1>2, <1>4
    <3>4. QED
      BY <1>5, <2>2, <3>2, <3>3 DEF Between
  <2>4. CASE from \in Between(king, u)
    <3>1. Between(king, u) \intersect pos_pieces(p) = {from}
      BY <1>2, <1>4, <2>2, <2>4
    <3>2. from \in p.pins
      BY <1>1, <1>4, <1>10, <3>1, WhatIsDerived
    <3>3. to \in Ray[king][from]
      BY <1>1, <3>2
    <3>4. to # king /\ to \notin Between(king, u) \union {u}
      BY <1>2, <1>4, <1>5, <2>2
    <3>5. CASE to \in KnightAttacks[from]
      <4>1. Aligned(KingDir, king, from)
        <5>1. PICK d \in KingDir, l \in 1..7 : Reached(king, u, d, l)
          BY <2>1 DEF Aligned
        <5>2. PICK i \in 1..(l - 1) : from = Step(king, d, i)
          BY <1>2, <2>4, <5>1, SegmentOf DEF Between
        <5>3. i \in 1..7 /\ Reached(king, from, d, i)
          BY <1>2, <5>1, <5>2, Convex
        <5>4. QED
          BY <5>3 DEF Aligned
      <4>2. QED
        BY <1>2, <3>3, <3>5, <4>1, KnightOffRay
    <3>6. CASE Between(from, to) \intersect pos_pieces(p) = {}
      <4>1. u \notin Between(from, to)
        BY <1>2, <2>1, <3>6
      <4>2. QED
        BY <1>2, <2>1, <2>4, <3>3, <3>4, <4>1, StaysBetween
    <3>7. QED
      BY <1>4, <3>5, <3>6
  <2>5. QED
    BY <2>3, <2>4
<1>11. QED
  <2>1. ASSUME NEW occ
        PROVE  Hits(p, them, u, king, occ) <=>
                 \/ u \in pos_pieces_cp(p, them, "KING") /\ u \in KingAttacks[king]
                 \/ u \in pos_pieces_cp(p, them, "KNIGHT") /\ u \in KnightAttacks[king]
                 \/ u \in pos_pieces_cp(p, them, "PAWN") /\ u \in PawnAttacks[opposite(them)][king]
                 \/ SliderAt(p, them, king, u) /\ Between(king, u) \intersect occ = {}
    BY <1>2, HitsOrSlides
  <2>2. CASE u \in pos_pieces_cp(p, them, "KNIGHT") /\ u \in KnightAttacks[king]
    BY <1>9, <2>1, <2>2
  <2>3. CASE u \in pos_pieces_cp(p, them, "PAWN") /\ u \in PawnAttacks[opposite(them)][king]
    BY <1>9, <2>1, <2>3
  <2>4. QED
    BY <1>2, <1>5, <1>10, <2>1, <2>2, <2>3

\* A king that moves, not to castle.
LEMMA KingSafe ==
    ASSUME NEW p, Ready(p), NEW m, m.from = King(p), m.to \in Square \ p.byColor[p.turn],
           m.prom = NB_PIECE, NEW q, BoardOK(q), Replaces(p, q, m), NEW u
    PROVE  /\ m.to \notin p.attacked => ~Hits(q, opposite(p.turn), u, m.to, pos_pieces(q))
           /\ pos_pieces_cp(q, p.turn, "KING") = {m.to}
<1>1. PICK us, them, from, to :
        us = p.turn /\ them = opposite(us) /\ from = m.from /\ to = m.to /\ from = King(p)
  OBVIOUS
<1>2. /\ us \in Color /\ them \in Color /\ us # them /\ BoardOK(p) /\ from \in Square
      /\ pos_pieces_cp(p, us, "KING") = {from}
      /\ from \in p.byColor[us] /\ from \in p.byPiece["KING"]
      /\ p.byColor[us] \subseteq Square /\ p.byColor[them] \subseteq Square
      /\ p.byColor[us] \intersect p.byColor[them] = {}
      /\ pos_pieces(p) = p.byColor[us] \union p.byColor[them]
  BY <1>1, Sides
<1>3. Taken(p, m) = to /\ Now(p, m) = "KING" /\ to \in Square /\ to \notin p.byColor[us]
  <2>1. from \notin p.byPiece["PAWN"]
    BY <1>2 DEF BoardOK, Piece
  <2>2. pos_piece_on(p, from) = "KING"
    BY <1>2, PieceOn DEF Piece
  <2>3. QED
    BY <1>1, <2>1, <2>2 DEF Taken, Now
<1>4. /\ q.byColor[us] = (p.byColor[us] \ {from, to}) \union {to}
      /\ q.byColor[them] = p.byColor[them] \ {from, to}
      /\ q.byPiece["KING"] = (p.byPiece["KING"] \ {from, to}) \union {to}
  BY <1>1, <1>2, <1>3 DEF Replaces, Piece
<1>5. pos_pieces_cp(q, us, "KING") = {to}
  BY <1>2, <1>4 DEF pos_pieces_cp
<1>6. pos_pieces(q) = q.byColor[us] \union q.byColor[them]
  BY <1>1, <1>2, ColoredPieces
<1>7. SeenThrough(p) = pos_pieces(p) \ {from}
  BY <1>1, <1>2 DEF SeenThrough
<1>8. pos_pieces(q) \ {to} = SeenThrough(p) \ {to}
  BY <1>2, <1>4, <1>6, <1>7
<1>9. ASSUME to \notin p.attacked, Hits(q, them, u, to, pos_pieces(q)) PROVE FALSE
  <2>1. Hits(p, them, u, to, pos_pieces(q))
    BY <1>1, <1>2, <1>3, <1>9, EnemyAfter
  <2>2. Hits(p, them, u, to, SeenThrough(p))
    BY <1>2, <1>3, <1>8, <2>1, HitsThrough
  <2>3. \A t \in Square : t \in p.attacked <=> \E v : Hits(p, them, v, t, SeenThrough(p))
    BY <1>1, WhatIsDerived
  <2>4. to \in p.attacked
    BY <1>3, <2>2, <2>3, Zenon
  <2>5. QED
    BY <1>9, <2>4
<1>10. QED
  BY <1>1, <1>5, <1>9

\* An en passant capture.
LEMMA EpSafe ==
    ASSUME NEW p, Ready(p), NEW m \in EnPassant(p), NEW q, BoardOK(q), Replaces(p, q, m), NEW u
    PROVE  ~Hits(q, opposite(p.turn), u, King(p), pos_pieces(q))
<1>1. PICK us, them, king, from, to, push :
        /\ us = p.turn /\ them = opposite(us) /\ king = King(p) /\ from = m.from /\ to = m.to
        /\ push = push_inc(us)
  OBVIOUS
<1>2. /\ us \in Color /\ them \in Color /\ us # them /\ BoardOK(p)
      /\ king \in Square /\ king \in p.byColor[us]
      /\ p.byColor[us] \intersect p.byColor[them] = {} /\ p.byColor[us] \subseteq Square
      /\ pos_pieces(p) = p.byColor[us] \union p.byColor[them]
      /\ ~(u \in pos_pieces_cp(p, them, "KING") /\ u \in KingAttacks[king])
  BY <1>1, Sides
<1> DEFINE occ == ((pos_pieces(p) \ {from}) \union {p.epSquare}) \ {p.epSquare + push_inc(them)}
<1>3. /\ p.epSquare # NB_SQUARE /\ to = p.epSquare
      /\ from \in PawnAttacks[them][p.epSquare] /\ from \in pos_pieces_cp(p, us, "PAWN")
      /\ bb_rook_attacks(king, occ) \intersect pos_pieces_cpp(p, them, "ROOK", "QUEEN") = {}
      /\ bb_bishop_attacks(king, occ) \intersect pos_pieces_cpp(p, them, "BISHOP", "QUEEN") = {}
  <2>1. p.epSquare # NB_SQUARE
    BY DEF EnPassant
  <2>2. PICK s \in PawnAttacks[them][p.epSquare] \intersect (pos_pieces_cp(p, us, "PAWN") \ Rank(relative_rank(us, 6))) :
          /\ m = move(s, p.epSquare, NB_PIECE)
          /\ bb_rook_attacks(king, ((pos_pieces(p) \ {s}) \union {p.epSquare}) \ {p.epSquare + push_inc(them)})
                 \intersect pos_pieces_cpp(p, them, "ROOK", "QUEEN") = {}
          /\ bb_bishop_attacks(king, ((pos_pieces(p) \ {s}) \union {p.epSquare}) \ {p.epSquare + push_inc(them)})
                 \intersect pos_pieces_cpp(p, them, "BISHOP", "QUEEN") = {}
    BY <1>1, <2>1, Zenon DEF EnPassant
  <2>3. s = from /\ to = p.epSquare
    BY <1>1, <2>2 DEF move
  <2>4. QED
    BY <2>1, <2>2, <2>3
<1>4. Taken(p, m) = to - push /\ to \in Square /\ to \notin pos_pieces(p) /\ to - push \in p.byColor[them]
      /\ from # to /\ from \in p.byColor[us]
  BY <1>1, <1>2, <1>3 DEF Taken, pos_pieces_cp, Ready, Sound, EpSound
<1>5. /\ q.byColor[us] = (p.byColor[us] \ {from, to - push}) \union {to}
      /\ q.byColor[them] = p.byColor[them] \ {from, to - push}
  BY <1>1, <1>2, <1>4 DEF Replaces
<1>6. pos_pieces(q) = q.byColor[us] \union q.byColor[them]
  BY <1>1, <1>2, ColoredPieces
<1>7. to - push = to + push_inc(them) /\ to - push # to
  BY <1>1, <1>2, <1>4 DEF push_inc, opposite, Color, WHITE, BLACK, Square, NB_SQUARE
<1>8. pos_pieces(q) = occ
  BY <1>2, <1>3, <1>4, <1>5, <1>6, <1>7
<1> HIDE DEF occ
<1>9. SUFFICES ASSUME Hits(q, them, u, king, occ) PROVE FALSE
  BY <1>1, <1>8
<1>10. Hits(p, them, u, king, occ) /\ u # to - push
  BY <1>1, <1>2, <1>4, <1>9, EnemyAfter
<1>11. \/ u \in pos_pieces_cp(p, them, "KNIGHT") /\ u \in KnightAttacks[king]
       \/ u \in pos_pieces_cp(p, them, "PAWN") /\ u \in PawnAttacks[opposite(them)][king]
  BY <1>2, <1>3, <1>10, HitsBack
<1>12. Hits(p, them, u, king, pos_pieces(p))
  BY <1>2, <1>11, HitsBack
<1>13. u \in p.checkers
  BY <1>1, <1>12, WhatIsDerived
<1>14. u \in p.byPiece["KNIGHT"] \union p.byPiece["PAWN"]
  BY <1>11 DEF pos_pieces_cp
<1>15. QED
  BY <1>1, <1>3, <1>10, <1>13, <1>14 DEF Ready, EpChecks

\* What the generator verifies of a castling move.
LEMMA CastleVerified ==
    ASSUME NEW p, Ready(p), NEW m \in gen_castling_moves(p),
           NEW kto, kto = Rules!KingTo(m.from, m.to), NEW rto, rto = Rules!RookTo(m.from, m.to)
    PROVE  /\ Castles(p, m) /\ m.from = King(p)
           /\ (Segment[m.from][kto] \union Segment[m.to][rto]) \intersect pos_pieces(p)
                = {m.from, m.to}
           /\ p.attacked \intersect Segment[m.from][kto] = {}
           /\ m.to \notin p.pins
<1> DEFINE king == King(p)
           k(r) == square_from(rank_of(r), IF r > king THEN 6 ELSE 2)
           t(r) == square_from(rank_of(r), IF r > king THEN 5 ELSE 3)
           path(r) == (Segment[king][k(r)] \union Segment[r][t(r)]) \intersect pos_pieces(p)
<1>1. PICK r \in CastleRooks(p, p.turn) :
        /\ m = move(king, r, NB_PIECE) /\ bb_count(path(r)) = 2
        /\ p.attacked \intersect Segment[king][k(r)] = {} /\ r \notin p.pins
  BY DEF gen_castling_moves, Plain
<1>2. m.from = king /\ m.to = r /\ m.prom = NB_PIECE
  BY <1>1 DEF move
<1>3. Sound(p) /\ HasKing(p, p.turn) /\ BoardOK(p)
  BY Sides DEF Ready
<1>4. king \in pos_pieces_cp(p, p.turn, "KING") /\ king \in Square /\ p.turn \in Color
  BY <1>3, KingSquare DEF King, Sound, BoardOK
<1>5. r \in Square /\ r \in p.byPiece["ROOK"] /\ r \in pos_pieces(p)
  BY <1>3 DEF Sound, RightsSound, CastleRooks, BoardOK, pos_pieces, Color, WHITE, BLACK, Piece
<1>6. r # king /\ rank_of(r) = rank_of(king)
  BY <1>1, <1>3, <1>4, <1>5 DEF Sound, RightsSound, Rank, BoardOK, pos_pieces_cp, Piece
<1>7. k(r) = kto /\ t(r) = rto
  BY <1>2, <1>6 DEF square_from, Rules!KingTo, Rules!RookTo, Rules!rank_of, rank_of
<1>8. /\ k(r) \in Square /\ t(r) \in Square
      /\ rank_of(k(r)) = rank_of(r) /\ rank_of(t(r)) = rank_of(r)
  BY <1>5 DEF square_from, rank_of, Square, NB_SQUARE
<1>9. king \in Segment[king][k(r)] /\ r \in Segment[r][t(r)]
  BY <1>4, <1>5, <1>6, <1>8, SegmentEnds
<1>10. path(r) = {king, r}
  <2>1. path(r) \subseteq Square /\ king \in path(r) /\ r \in path(r)
    BY <1>3, <1>4, <1>5, <1>9 DEF pos_pieces, pos_pieces_cp, BoardOK, Color, WHITE, BLACK
  <2>2. QED
    BY <1>1, <1>6, <2>1, Pair
<1>11. kto \in Segment[king][kto] /\ rto \in Segment[r][rto]
  BY <1>4, <1>5, <1>6, <1>7, <1>8, SegmentEnds
<1>12. {kto, rto} \intersect pos_pieces(p) \subseteq {king, r}
  BY <1>7, <1>10, <1>11
<1>13. Castles(p, m)
  BY <1>1, <1>2, <1>4, <1>12 DEF Castles
<1>14. QED
  BY <1>1, <1>2, <1>7, <1>10, <1>13

\* The enemy's pieces do not see that king and rook have castled.
LEMMA EnemyCastled ==
    ASSUME NEW p, Ready(p), NEW m, Castles(p, m), NEW q, Castled(p, q, m),
           NEW them, them = opposite(p.turn), NEW u, NEW t, NEW occ
    PROVE  Hits(q, them, u, t, occ) <=> Hits(p, them, u, t, occ)
<1>1. PICK us, kto, rto : us = p.turn /\ kto = Rules!KingTo(m.from, m.to)
                          /\ rto = Rules!RookTo(m.from, m.to)
  OBVIOUS
<1>2. /\ us \in Color /\ them \in Color /\ us # them /\ BoardOK(p)
      /\ p.byColor[us] \intersect p.byColor[them] = {}
      /\ pos_pieces(p) = p.byColor[us] \union p.byColor[them]
      /\ p.byColor[them] \subseteq Square
  BY <1>1, Sides
<1>3. m.from \in p.byColor[us] /\ m.to \in p.byColor[us]
  BY <1>1, CastleSquares DEF Ready
<1>4. {kto, rto} \intersect pos_pieces(p) \subseteq {m.from, m.to}
  BY <1>1 DEF Castles
<1>5. q.byColor[them] = p.byColor[them]
  <2>1. q.byColor[them] = (p.byColor[them] \ {m.from, m.to})
                            \union (IF them = p.turn THEN {kto, rto} ELSE {})
    BY <1>1, <1>2, Zenon DEF Castled
  <2>2. QED
    BY <1>1, <1>2, <1>3, <2>1
<1>6. \A k \in Piece : \A x \in p.byColor[them] : x \in q.byPiece[k] <=> x \in p.byPiece[k]
  <2>1. TAKE k \in Piece
  <2>2. TAKE x \in p.byColor[them]
  <2>3. x # m.from /\ x # m.to /\ x # kto /\ x # rto
    BY <1>2, <1>3, <1>4
  <2>4. q.byPiece[k] = (p.byPiece[k] \ {m.from, m.to})
                              \union (IF k = "KING" THEN {kto} ELSE {})
                              \union (IF k = "ROOK" THEN {rto} ELSE {})
    BY <1>1 DEF Castled
  <2>5. QED
    BY <2>3, <2>4
<1>7. \A k \in Piece : pos_pieces_cp(q, them, k) = pos_pieces_cp(p, them, k)
  BY <1>5, <1>6 DEF pos_pieces_cp
<1>8. \A k, l \in Piece : pos_pieces_cpp(q, them, k, l) = pos_pieces_cpp(p, them, k, l)
  BY <1>5, <1>6 DEF pos_pieces_cpp
<1>9. QED
  BY <1>7, <1>8 DEF Hits, Piece

\* King and rook that castle: no slider comes to see the king over the square that
\* the rook has left, unless the rook was pinned.
LEMMA CastleSafe ==
    ASSUME NEW p, Ready(p), NEW m \in gen_castling_moves(p), NEW q, BoardOK(q), Castled(p, q, m),
           NEW u
    PROVE  /\ ~Hits(q, opposite(p.turn), u, Rules!KingTo(m.from, m.to), pos_pieces(q))
           /\ pos_pieces_cp(q, p.turn, "KING") = {Rules!KingTo(m.from, m.to)}
<1>1. PICK us, them, king, r, kto, rto :
        /\ us = p.turn /\ them = opposite(us) /\ king = m.from /\ r = m.to
        /\ kto = Rules!KingTo(king, r) /\ rto = Rules!RookTo(king, r)
  OBVIOUS
<1>2. /\ us \in Color /\ them \in Color /\ us # them /\ BoardOK(p)
      /\ p.byColor[us] \intersect p.byColor[them] = {}
      /\ pos_pieces(p) = p.byColor[us] \union p.byColor[them]
      /\ p.byColor[us] \subseteq Square /\ p.byColor[them] \subseteq Square
      /\ king = King(p) /\ pos_pieces_cp(p, us, "KING") = {king}
  BY <1>1, Sides, CastleVerified
<1>3. /\ Castles(p, m) /\ {king, r} = (Segment[king][kto] \union Segment[r][rto]) \intersect pos_pieces(p)
      /\ p.attacked \intersect Segment[king][kto] = {} /\ r \notin p.pins
  BY <1>1, CastleVerified
<1>4. /\ king \in Square /\ r \in Square /\ king # r /\ king \in p.byColor[us] /\ r \in p.byColor[us]
      /\ king \in p.byPiece["KING"] /\ r \in p.byPiece["ROOK"]
      /\ rank_of(king) = 7 * us /\ rank_of(r) = 7 * us
      /\ kto \in Square /\ rto \in Square /\ kto # rto
      /\ rank_of(kto) = 7 * us /\ rank_of(rto) = 7 * us
  BY <1>1, <1>3, CastleSquares DEF Ready
<1>5. /\ q.byColor[us] = (p.byColor[us] \ {king, r}) \union {kto, rto}
      /\ q.byColor[them] = p.byColor[them]
      /\ q.byPiece["KING"] = (p.byPiece["KING"] \ {king, r}) \union {kto}
  <2>1. \A d \in Color : q.byColor[d] = (p.byColor[d] \ {king, r})
                                          \union (IF d = us THEN {kto, rto} ELSE {})
    BY <1>1, Zenon DEF Castled
  <2>2. \A l \in Piece : q.byPiece[l] = (p.byPiece[l] \ {king, r})
                              \union (IF l = "KING" THEN {kto} ELSE {})
                              \union (IF l = "ROOK" THEN {rto} ELSE {})
    BY <1>1, Zenon DEF Castled
  <2>3. q.byColor[them] = p.byColor[them] \ {king, r}
    BY <1>2, <2>1
  <2>4. QED
    BY <1>2, <1>4, <2>1, <2>2, <2>3 DEF Piece
<1>6. pos_pieces(q) = (pos_pieces(p) \ {king, r}) \union {kto, rto}
  <2>1. pos_pieces(q) = q.byColor[us] \union q.byColor[them]
    BY <1>1, <1>2, ColoredPieces
  <2>2. QED
    BY <1>2, <1>4, <1>5, <2>1
<1>7. pos_pieces_cp(q, us, "KING") = {kto}
  <2>1. p.byColor[us] \intersect p.byPiece["KING"] = {king}
    BY <1>2 DEF pos_pieces_cp
  <2>2. rto \in p.byPiece["KING"] => rto = king
    <3>1. ASSUME rto \in p.byPiece["KING"] PROVE rto \in pos_pieces(p)
      BY <1>2, <1>4, <3>1 DEF BoardOK, Piece
    <3>2. {kto, rto} \intersect pos_pieces(p) \subseteq {king, r}
      BY <1>1, <1>3 DEF Castles
    <3>3. r \notin p.byPiece["KING"]
      BY <1>2, <1>4 DEF BoardOK, Piece
    <3>4. QED
      BY <3>1, <3>2, <3>3
  <2>3. QED
    BY <1>4, <1>5, <2>1, <2>2 DEF pos_pieces_cp
<1>8. ASSUME Hits(q, them, u, kto, pos_pieces(q)) PROVE FALSE
  <2>1. Hits(p, them, u, kto, pos_pieces(q))
    BY <1>1, <1>3, <1>8, EnemyCastled
  <2>2. kto \notin p.attacked
    BY <1>3, <1>4, SegmentEnds
  <2>3. ~Hits(p, them, u, kto, pos_pieces(p) \ {king})
    <3>1. \A t \in Square : t \in p.attacked <=> \E v : Hits(p, them, v, t, SeenThrough(p))
      BY <1>1, <1>2, WhatIsDerived
    <3>2. ~Hits(p, them, u, kto, SeenThrough(p))
      BY <1>4, <2>2, <3>1, Zenon
    <3>3. QED
      BY <1>1, <1>2, <3>2 DEF SeenThrough
  <2>4. /\ SliderAt(p, them, kto, u) /\ Between(kto, u) \intersect pos_pieces(q) = {}
        /\ Between(kto, u) \intersect (pos_pieces(p) \ {king}) # {}
    <3>1. \A occ : Hits(p, them, u, kto, occ) <=>
               \/ u \in pos_pieces_cp(p, them, "KING") /\ u \in KingAttacks[kto]
               \/ u \in pos_pieces_cp(p, them, "KNIGHT") /\ u \in KnightAttacks[kto]
               \/ u \in pos_pieces_cp(p, them, "PAWN") /\ u \in PawnAttacks[opposite(them)][kto]
               \/ SliderAt(p, them, kto, u) /\ Between(kto, u) \intersect occ = {}
      BY <1>2, <1>4, HitsOrSlides
    <3>2. QED
      BY <2>1, <2>3, <3>1, Zenon
  <2>5. r \in Between(kto, u) /\ rto \notin Between(kto, u)
    BY <1>6, <2>4
  <2>6. /\ Aligned(KingDir, kto, u) /\ u # kto /\ u \in Square /\ u \in p.byColor[them]
    BY <1>2, <1>4, <2>4, HitsOrSlides
  <2>7. rank_of(u) = 7 * us /\ ~Aligned(BishopDir, kto, u)
    BY <1>4, <2>5, <2>6, StaysOnRank
  <2>8. u \in pos_pieces_cpp(p, them, "ROOK", "QUEEN")
    BY <2>4, <2>7 DEF SliderAt
  <2>9. \A x \in Square : x \in Between(kto, u) <=> (kto < x /\ x < u) \/ (u < x /\ x < kto)
    <3>1. rank_of(kto) = rank_of(u)
      BY <1>4, <2>7
    <3>2. QED
      BY <1>4, <2>6, <3>1, AlongRank
  <2>10. PICK b \in {0, 56}, kf \in 0..7, rf \in 0..7, uf \in 0..7 :
           /\ king = b + kf /\ r = b + rf /\ u = b + uf
           /\ kto = b + (IF r > king THEN 6 ELSE 2) /\ rto = b + (IF r > king THEN 5 ELSE 3)
    <3>1. PICK b \in {0, 56} : b = 8 * (7 * us)
      BY <1>2 DEF Color, WHITE, BLACK
    <3>2. king = b + file_of(king) /\ r = b + file_of(r) /\ u = b + file_of(u)
      <4>1. PICK z \in 0..7 : z = 7 * us
        BY <1>2 DEF Color, WHITE, BLACK
      <4>2. \A s \in Square : rank_of(s) = z => s = 8 * z + file_of(s)
        BY RankAndFile
      <4>3. QED
        BY <1>4, <2>6, <2>7, <3>1, <4>1, <4>2
    <3>3. file_of(king) \in 0..7 /\ file_of(r) \in 0..7 /\ file_of(u) \in 0..7
      BY <1>4, <2>6, RankAndFile
    <3>4. kto = b + (IF r > king THEN 6 ELSE 2) /\ rto = b + (IF r > king THEN 5 ELSE 3)
      BY <1>1, <1>4, <3>1 DEF Rules!KingTo, Rules!RookTo, Rules!rank_of, rank_of
    <3>5. QED
      BY <3>2, <3>3, <3>4
  <2>11. r = b + 1 /\ u = b /\ kto = b + 2 /\ r < king
    <3>1. (kto < r /\ r < u) \/ (u < r /\ r < kto)
      BY <1>4, <2>5, <2>9
    <3>2. ~((kto < rto /\ rto < u) \/ (u < rto /\ rto < kto))
      BY <1>4, <2>5, <2>9
    <3>3. QED
      BY <1>4, <2>10, <3>1, <3>2
  <2>12. \A x \in Square : x \in Between(king, u) <=> (king < x /\ x < u) \/ (u < x /\ x < king)
    <3>1. rank_of(king) = rank_of(u) /\ king # u
      BY <1>2, <1>4, <2>6, <2>7
    <3>2. QED
      BY <1>4, <2>6, <3>1, AlongRank
  <2>13. Between(king, u) \intersect pos_pieces(p) = {r}
    <3>1. r \in Between(king, u)
      BY <1>4, <2>10, <2>11, <2>12
    <3>2. ASSUME NEW x \in Between(king, u), x \in pos_pieces(p) PROVE x = r
      <4>1. x \in Square /\ x \in Int
        BY <1>2, <3>2 DEF Square, NB_SQUARE
      <4>2. u < x /\ x < king
        BY <2>10, <2>11, <2>12, <3>2, <4>1
      <4>3. CASE x < kto
        BY <2>10, <2>11, <4>1, <4>2, <4>3
      <4>4. CASE ~(x < kto)
        <5>1. king # kto /\ rank_of(king) = rank_of(kto)
          BY <1>4, <2>10, <2>11, <4>1, <4>2, <4>4
        <5>2. /\ kto \in Segment[king][kto]
              /\ \A y \in Square : y \in Between(king, kto) <=> (king < y /\ y < kto) \/ (kto < y /\ y < king)
          BY <1>4, <5>1, AlongRank
        <5>3. x = kto \/ (kto < x /\ x < king)
          BY <2>10, <2>11, <4>1, <4>2, <4>4
        <5>4. x \in Segment[king][kto]
          BY <4>1, <5>2, <5>3 DEF Between
        <5>5. x = king \/ x = r
          BY <1>3, <3>2, <5>4
        <5>6. QED
          BY <2>10, <4>1, <4>2, <5>5
      <4>5. QED
        BY <4>3, <4>4
    <3>3. QED
      BY <1>2, <1>4, <3>1, <3>2
  <2>14. SliderAt(p, them, king, u)
    <3>1. rank_of(king) = rank_of(u) /\ king # u
      BY <1>2, <1>4, <2>6, <2>7
    <3>2. Aligned(RookDir, king, u)
      BY <1>4, <2>6, <3>1, AlongRank
    <3>3. QED
      BY <2>8, <3>2 DEF SliderAt
  <2>15. r \in p.pins
    <3>1. \A x : x \in p.pins <=>
                /\ x \in p.byColor[us]
                /\ \E v : /\ SliderAt(p, them, king, v)
                          /\ Between(king, v) \intersect pos_pieces(p) = {x}
      BY <1>1, <1>2, WhatIsDerived
    <3>2. QED
      BY <1>4, <2>13, <2>14, <3>1, ZenonT(40)
  <2>16. QED
    BY <1>3, <2>15
<1>9. QED
  BY <1>1, <1>7, <1>8

-----------------------------------------------------------------------------
(* What the generator filters.                                             *)

\* A pinned piece stays on its line.
Kept(p, m) == m.from \in p.pins => m.to \in Ray[King(p)][m.from]

\* What is captured was attacked.
Aims(p, m) ==
    m.to \in p.byColor[opposite(p.turn)] => Hits(p, p.turn, m.from, m.to, pos_pieces(p))

\* The squares a pawn passes.
LEMMA PawnPaths ==
    ASSUME NEW c \in Color, NEW s \in Square, NEW t \in Square
    PROVE  /\ t \in PawnAttacks[c][s] => Between(s, t) = {}
           /\ t = s + push_inc(c) => Between(s, t) = {}
           /\ t = s + 2 * push_inc(c) => Between(s, t) \subseteq {s + push_inc(c)}
<1>1. ASSUME NEW d \in KingDir, Reached(s, t, d, 1) PROVE Between(s, t) = {}
  <2>1. 1 \in 1..7 /\ \A j \in 1..(1 - 1) : FALSE
    OBVIOUS
  <2>2. \A x : x \in Between(s, t) => \E j \in 1..(1 - 1) : x = Step(s, d, j)
    BY <1>1, <2>1, SegmentOf DEF Between
  <2>3. QED
    BY <2>1, <2>2
<1>2. ASSUME NEW d \in KingDir, Reached(s, t, d, 2) PROVE Between(s, t) \subseteq {Step(s, d, 1)}
  <2>1. 2 \in 1..7 /\ \A j \in 1..(2 - 1) : j = 1
    OBVIOUS
  <2>2. \A x : x \in Between(s, t) => \E j \in 1..(2 - 1) : x = Step(s, d, j)
    BY <1>2, <2>1, SegmentOf DEF Between
  <2>3. QED
    BY <2>1, <2>2
<1>3. PICK up \in {1, -1} : up = (IF c = WHITE THEN 1 ELSE -1) /\ push_inc(c) = 8 * up
  BY DEF push_inc
<1>4. PICK r \in 0..7, f \in 0..7, x \in 0..7, y \in 0..7 :
        /\ r = rank_of(s) /\ f = file_of(s) /\ s = 8 * r + f
        /\ x = rank_of(t) /\ y = file_of(t) /\ t = 8 * x + y
  <2>1. PICK r \in 0..7, f \in 0..7 : r = rank_of(s) /\ f = file_of(s) /\ s = 8 * r + f
    BY RankAndFile
  <2>2. PICK x \in 0..7, y \in 0..7 : x = rank_of(t) /\ y = file_of(t) /\ t = 8 * x + y
    BY RankAndFile
  <2>3. QED
    BY <2>1, <2>2
<1>5. ASSUME t \in PawnAttacks[c][s] PROVE Between(s, t) = {}
  <2>1. PICK d \in PawnDir(c) : OnBoard(s, d, 1) /\ t = Step(s, d, 1)
    BY <1>5 DEF PawnAttacks, Leaps
  <2>2. d \in KingDir
    BY DEF PawnDir, KingDir, BishopDir
  <2>3. QED
    BY <1>1, <2>1, <2>2 DEF Reached
<1>6. <<up, 0>> \in KingDir /\ <<up, 0>>[1] = up /\ <<up, 0>>[2] = 0
  BY DEF KingDir, RookDir
<1>7. ASSUME NEW k \in {1, 2}, t = s + k * push_inc(c) PROVE Reached(s, t, <<up, 0>>, k)
  <2>1. t = s + k * (8 * up + 0) /\ r + k * up \in 0..7 /\ f + k * 0 \in 0..7
    <3>1. CASE k = 1
      <4>1. 8 * x + y = (8 * r + f) + 1 * (8 * up)
        BY <1>3, <1>4, <1>7, <3>1, Zenon
      <4>2. x = r + 1 * up /\ y = f
        BY <4>1
      <4>3. 8 * x + y = (8 * r + f) + 1 * (8 * up + 0) /\ r + 1 * up \in 0..7 /\ f + 1 * 0 \in 0..7
        BY <4>2
      <4>4. QED
        BY <1>4, <3>1, <4>3, Zenon
    <3>2. CASE k = 2
      <4>1. 8 * x + y = (8 * r + f) + 2 * (8 * up)
        BY <1>3, <1>4, <1>7, <3>2, Zenon
      <4>2. x = r + 2 * up /\ y = f
        BY <4>1
      <4>3. 8 * x + y = (8 * r + f) + 2 * (8 * up + 0) /\ r + 2 * up \in 0..7 /\ f + 2 * 0 \in 0..7
        BY <4>2
      <4>4. QED
        BY <1>4, <3>2, <4>3, Zenon
    <3>3. QED
      BY <3>1, <3>2
  <2>2. QED
    BY <1>4, <1>6, <2>1, Zenon DEF Reached, OnBoard, Step
<1>8. ASSUME t = s + push_inc(c) PROVE Between(s, t) = {}
  <2>1. t = s + 1 * push_inc(c)
    BY <1>3, <1>8
  <2>2. QED
    BY <1>1, <1>6, <1>7, <2>1
<1>9. ASSUME t = s + 2 * push_inc(c) PROVE Between(s, t) \subseteq {s + push_inc(c)}
  <2>1. PICK d : d = <<up, 0>>
    OBVIOUS
  <2>2. d \in KingDir /\ Reached(s, t, d, 2)
    BY <1>6, <1>7, <1>9, <2>1
  <2>3. Step(s, d, 1) = s + push_inc(c)
    <3>1. Step(s, <<up, 0>>, 1) = s + 1 * (8 * up + 0)
      BY <1>6, Zenon DEF Step
    <3>2. s + 1 * (8 * up + 0) = s + 8 * up
      BY <1>4
    <3>3. QED
      BY <1>3, <2>1, <3>1, <3>2
  <2>4. QED
    BY <1>2, <2>2, <2>3
<1>10. QED
  BY <1>5, <1>8, <1>9

\* A piece that is no king and no pawn.
LEMMA Serialized ==
    ASSUME NEW p, Ready(p), NEW k \in Piece \ {"PAWN", "KING"}, NEW s \in pos_pieces_cp(p, p.turn, k),
           NEW attacks, attacks \subseteq Square, NEW filter, filter \intersect p.byColor[p.turn] = {},
           NEW m \in serialize_piece_moves(p, s, attacks \intersect filter)
    PROVE  /\ m.from = s /\ m.to \in attacks /\ m.to \in filter /\ Kept(p, m)
           /\ m.from \in p.byColor[p.turn] \ p.byPiece["KING"]
           /\ m.to \in Square \ p.byColor[p.turn] /\ Taken(p, m) = m.to /\ Now(p, m) # "KING"
<1>1. PICK to \in (attacks \intersect filter) \intersect Allowed(p, s) : m = move(s, to, NB_PIECE)
  BY DEF serialize_piece_moves, Plain
<1>2. m.from = s /\ m.to = to /\ m.prom = NB_PIECE
  BY <1>1 DEF move
<1>3. BoardOK(p)
  BY Sides DEF Ready
<1>4. s \in p.byColor[p.turn] /\ s \notin p.byPiece["KING"] /\ s \notin p.byPiece["PAWN"]
  BY <1>3 DEF BoardOK, pos_pieces_cp, Piece
<1>5. pos_piece_on(p, s) = k
  BY <1>3, PieceOn DEF pos_pieces_cp
<1>6. QED
  BY <1>1, <1>2, <1>4, <1>5 DEF Kept, Allowed, Taken, Now

\* What gen_piece_moves filters: pins are kept, and captures are of attacked
\* pieces.
LEMMA PiecesGo ==
    ASSUME NEW p, Ready(p), NEW filter, filter \intersect p.byColor[p.turn] = {},
           NEW m \in gen_piece_moves(p, filter)
    PROVE  Normal(p, m) /\ Kept(p, m) /\ Aims(p, m) /\ m.to \in filter
<1>0. BoardOK(p) /\ p.turn \in Color
  BY Sides DEF Ready
<1>1. CASE \E s \in pos_pieces_cp(p, p.turn, "KNIGHT") :
             m \in serialize_piece_moves(p, s, KnightAttacks[s] \intersect filter)
  <2>1. PICK s \in pos_pieces_cp(p, p.turn, "KNIGHT") :
             m \in serialize_piece_moves(p, s, KnightAttacks[s] \intersect filter)
    BY <1>1
  <2>2. KnightAttacks[s] \subseteq Square /\ s \in Square
    BY <1>0, AttacksOnBoard DEF BoardOK, pos_pieces_cp
  <2>3. /\ m.from = s /\ m.to \in KnightAttacks[s] /\ m.to \in filter /\ Kept(p, m)
        /\ m.from \in p.byColor[p.turn] \ p.byPiece["KING"]
        /\ m.to \in Square \ p.byColor[p.turn] /\ Taken(p, m) = m.to /\ Now(p, m) # "KING"
    BY <2>1, <2>2, Serialized DEF Piece
  <2>4. QED
    BY <2>1, <2>3 DEF Normal, Aims, Hits
<1>2. ASSUME NEW k \in {"ROOK", "BISHOP", "QUEEN"}, NEW s \in pos_pieces_cp(p, p.turn, k),
             NEW attacks, attacks \in {bb_rook_attacks(s, pos_pieces(p)), bb_bishop_attacks(s, pos_pieces(p))},
             m \in serialize_piece_moves(p, s, attacks \intersect filter),
             \A t \in attacks : Hits(p, p.turn, s, t, pos_pieces(p))
      PROVE  Normal(p, m) /\ Kept(p, m) /\ Aims(p, m) /\ m.to \in filter
  <2>1. s \in Square /\ attacks \subseteq Square
    <3>1. s \in Square
      BY <1>0 DEF BoardOK, pos_pieces_cp
    <3>2. QED
      BY <1>2, <3>1, AttacksOnBoard
  <2>2. /\ m.from = s /\ m.to \in attacks /\ m.to \in filter /\ Kept(p, m)
        /\ m.from \in p.byColor[p.turn] \ p.byPiece["KING"]
        /\ m.to \in Square \ p.byColor[p.turn] /\ Taken(p, m) = m.to /\ Now(p, m) # "KING"
    <3>1. k \in Piece \ {"PAWN", "KING"}
      BY DEF Piece
    <3>2. QED
      BY <1>2, <2>1, <3>1, Serialized, ZenonT(40)
  <2>3. Between(m.from, m.to) \intersect pos_pieces(p) = {}
    BY <1>2, <2>1, <2>2, Sliding
  <2>4. QED
    BY <1>2, <2>2, <2>3 DEF Normal, Aims
<1>3. CASE \E s \in pos_pieces_cpp(p, p.turn, "ROOK", "QUEEN") :
             m \in serialize_piece_moves(p, s, bb_rook_attacks(s, pos_pieces(p)) \intersect filter)
  <2>1. PICK s \in pos_pieces_cpp(p, p.turn, "ROOK", "QUEEN") :
             m \in serialize_piece_moves(p, s, bb_rook_attacks(s, pos_pieces(p)) \intersect filter)
    BY <1>3
  <2>2. PICK k \in {"ROOK", "BISHOP", "QUEEN"} : s \in pos_pieces_cp(p, p.turn, k)
    BY DEF pos_pieces_cp, pos_pieces_cpp
  <2>3. \A t \in bb_rook_attacks(s, pos_pieces(p)) : Hits(p, p.turn, s, t, pos_pieces(p))
    BY DEF Hits
  <2>4. QED
    BY <1>2, <2>1, <2>2, <2>3
<1>4. CASE \E s \in pos_pieces_cpp(p, p.turn, "BISHOP", "QUEEN") :
             m \in serialize_piece_moves(p, s, bb_bishop_attacks(s, pos_pieces(p)) \intersect filter)
  <2>1. PICK s \in pos_pieces_cpp(p, p.turn, "BISHOP", "QUEEN") :
             m \in serialize_piece_moves(p, s, bb_bishop_attacks(s, pos_pieces(p)) \intersect filter)
    BY <1>4
  <2>2. PICK k \in {"ROOK", "BISHOP", "QUEEN"} : s \in pos_pieces_cp(p, p.turn, k)
    BY DEF pos_pieces_cp, pos_pieces_cpp
  <2>3. \A t \in bb_bishop_attacks(s, pos_pieces(p)) : Hits(p, p.turn, s, t, pos_pieces(p))
    BY DEF Hits
  <2>4. QED
    BY <1>2, <2>1, <2>2, <2>3
<1>5. QED
  BY <1>1, <1>3, <1>4 DEF gen_piece_moves

\* A pawn's move on what the filter leaves, en passant apart.
LEMMA PawnNormal ==
    ASSUME NEW p, Ready(p), NEW m, PawnMove(p, m) \/ Promotion(p, m),
           \/ m.to \in p.byColor[opposite(p.turn)] /\ m.to \in PawnAttacks[p.turn][m.from]
           \/ m.to \notin pos_pieces(p) /\ m.to = m.from + push_inc(p.turn)
           \/ /\ m.to \notin pos_pieces(p) /\ m.from + push_inc(p.turn) \notin pos_pieces(p)
              /\ m.to = m.from + 2 * push_inc(p.turn)
    PROVE  Normal(p, m) /\ (m.to \in Allowed(p, m.from) => Kept(p, m)) /\ Aims(p, m)
<1>1. BoardOK(p) /\ p.turn \in Color /\ Sound(p) /\ p.byColor[opposite(p.turn)] \subseteq pos_pieces(p)
  BY Sides DEF Ready
<1>2. /\ m.from \in Square /\ m.to \in Square
      /\ m.from \in p.byColor[p.turn] /\ m.from \in p.byPiece["PAWN"]
      /\ m.to \notin p.byColor[p.turn]
  BY <1>1, PawnSquares
<1>3. m.to # p.epSquare
  <2>1. ~EpMove(p, m)
    BY DEF EpMove, Promotion, PawnMove
  <2>2. QED
    BY <1>1, <2>1, PawnSquares
<1>4. m.from \notin p.byPiece["KING"] /\ pos_piece_on(p, m.from) = "PAWN"
  BY <1>1, <1>2, PieceOn DEF BoardOK, Piece
<1>5. Taken(p, m) = m.to /\ Now(p, m) # "KING"
  BY <1>3, <1>4 DEF Taken, Now, PawnMove, Promotion
<1>6. Between(m.from, m.to) \intersect pos_pieces(p) = {}
  BY <1>1, <1>2, PawnPaths
<1>7. m.to \in Allowed(p, m.from) => Kept(p, m)
  BY DEF Kept, Allowed
<1>8. Aims(p, m)
  BY <1>1, <1>2 DEF Aims, Hits, pos_pieces_cp
<1>9. QED
  BY <1>2, <1>4, <1>5, <1>6, <1>7, <1>8 DEF Normal

\* So it is for pawns, and none of these captures is en passant.
LEMMA PawnsGo ==
    ASSUME NEW p, Ready(p), NEW filter, NEW m, m \in NormalPawnMoves(p, filter) \/ m \in Promotions(p, filter)
    PROVE  Normal(p, m) /\ Kept(p, m) /\ Aims(p, m) /\ m.to \in filter /\ m.to # p.epSquare
<1>1. Sound(p) /\ BoardOK(p) /\ p.turn \in Color
  BY Sides DEF Ready
<1>2. CASE m \in NormalPawnMoves(p, filter)
  <2>1. /\ PawnMove(p, m) /\ m.to \in filter /\ m.to \in Allowed(p, m.from)
        /\ \/ m.to \in p.byColor[opposite(p.turn)] /\ m.to \in PawnAttacks[p.turn][m.from]
           \/ m.to \notin pos_pieces(p) /\ m.to = m.from + push_inc(p.turn)
           \/ /\ m.to \notin pos_pieces(p) /\ m.from + push_inc(p.turn) \notin pos_pieces(p)
              /\ m.to = m.from + 2 * push_inc(p.turn)
    BY <1>1, <1>2, PawnsGoTo
  <2>2. QED
    BY <2>1, PawnNormal DEF PawnMove
<1>3. CASE m \in Promotions(p, filter)
  <2>1. PICK s \in pos_pieces_cp(p, p.turn, "PAWN") \intersect Rank(relative_rank(p.turn, 6)) :
          \E to \in ((PawnAttacks[p.turn][s] \intersect (p.byColor[opposite(p.turn)] \intersect filter))
                     \union ({s + push_inc(p.turn)} \intersect filter
                               \intersect (Square \ pos_pieces(p)))) \intersect Allowed(p, s),
             prom \in {"QUEEN", "ROOK", "BISHOP", "KNIGHT"} : m = move(s, to, prom)
    BY <1>3 DEF Promotions
  <2>2. PICK to \in ((PawnAttacks[p.turn][s] \intersect (p.byColor[opposite(p.turn)] \intersect filter))
                     \union ({s + push_inc(p.turn)} \intersect filter
                               \intersect (Square \ pos_pieces(p)))) \intersect Allowed(p, s),
             prom \in {"QUEEN", "ROOK", "BISHOP", "KNIGHT"} : m = move(s, to, prom)
    BY <2>1
  <2>3. m.from = s /\ m.to = to /\ m.prom = prom
    BY <2>2 DEF move
  <2>4. Generated(p, m)
    BY <1>1, <1>3, PromotionMoves
  <2>5. Promotion(p, m)
    <3>1. m.prom # NB_PIECE
      BY <2>2, <2>3 DEF NB_PIECE
    <3>2. QED
      BY <2>4, <3>1 DEF Generated, PieceMove, PawnMove, EpMove, Castles
  <2>6. m.to # p.epSquare
    <3>1. ~EpMove(p, m)
      BY <2>5 DEF EpMove, Promotion
    <3>2. QED
      BY <1>1, <2>5, <3>1, PawnSquares
  <2>7. QED
    BY <2>2, <2>3, <2>5, <2>6, PawnNormal
<1>4. QED
  BY <1>2, <1>3

\* A king's move but castling.
KingStep(p, m) ==
    /\ m.from = King(p) /\ m.to \in KingAttacks[King(p)] \ p.attacked
    /\ m.to \in Square \ p.byColor[p.turn] /\ m.prom = NB_PIECE

\* The king steps to squares that are not attacked.
LEMMA KingGoes ==
    ASSUME NEW p, Ready(p), NEW filter, filter \intersect p.byColor[p.turn] = {}, NEW m \in KingMoves(p, filter)
    PROVE  KingStep(p, m) /\ Aims(p, m)
<1>1. PICK to \in ((KingAttacks[King(p)] \intersect filter) \ p.attacked) : m = move(King(p), to, NB_PIECE)
  BY DEF KingMoves, serialize_piece_moves, Plain
<1>2. m.from = King(p) /\ m.to = to /\ m.prom = NB_PIECE
  BY <1>1 DEF move
<1>3. King(p) \in pos_pieces_cp(p, p.turn, "KING") /\ KingAttacks[King(p)] \subseteq Square
  BY Sides, AttacksOnBoard
<1>4. QED
  BY <1>1, <1>2, <1>3 DEF KingStep, Aims, Hits

\* What the generator makes, with what it has verified.
LEMMA Filtered ==
    ASSUME NEW p, Ready(p), NEW m \in gen_all_moves(p)
    PROVE  \/ Normal(p, m) /\ Kept(p, m) /\ Aims(p, m) /\ Answered(p, m)
           \/ KingStep(p, m) /\ Aims(p, m)
           \/ m \in EnPassant(p)
           \/ m \in gen_castling_moves(p)
<1> DEFINE ours == p.byColor[p.turn]
           checker == CHOOSE s \in p.checkers : TRUE
           targets == IF pos_piece_on(p, checker) \in {"BISHOP", "ROOK", "QUEEN"}
                      THEN Segment[King(p)][checker] ELSE p.checkers
<1>1. CASE p.checkers = {}
  <2>1. (Square \ ours) \intersect p.byColor[p.turn] = {} /\ Answered(p, m)
    BY <1>1 DEF Answered
  <2>2. \/ m \in gen_pawn_moves(p, Square \ ours) \/ m \in gen_piece_moves(p, Square \ ours)
        \/ m \in KingMoves(p, Square \ ours) \/ m \in gen_castling_moves(p)
    BY <1>1 DEF gen_all_moves
  <2>3. QED
    BY <2>1, <2>2, PawnsGo, PiecesGo, KingGoes DEF gen_pawn_moves
<1>2. CASE p.checkers # {}
  <2>1. (Square \ ours) \intersect p.byColor[p.turn] = {} /\ (targets \ ours) \intersect p.byColor[p.turn] = {}
    OBVIOUS
  <2>2. CASE m \in KingMoves(p, Square \ ours)
    BY <2>1, <2>2, KingGoes
  <2>3. CASE m \notin KingMoves(p, Square \ ours)
    <3>1. m \in gen_check_escapes(p)
      BY <1>2 DEF gen_all_moves
    <3>2. /\ ~bb_several(p.checkers)
          /\ \/ m \in gen_piece_moves(p, targets \ ours)
             \/ m \in gen_pawn_moves(p, targets) \/ m \in gen_pawn_moves(p, targets \union {p.epSquare})
      BY <2>3, <3>1 DEF gen_check_escapes
    <3>3. p.checkers = {checker}
      <4>1. checker \in p.checkers
        BY <1>2
      <4>2. p.checkers \subseteq Square
        <5>1. \A u : u \in p.checkers => Hits(p, opposite(p.turn), u, King(p), pos_pieces(p))
          BY WhatIsDerived
        <5>2. p.byColor[opposite(p.turn)] \subseteq Square /\ BoardOK(p) /\ opposite(p.turn) \in Color
          BY Sides
        <5>3. \A u : Hits(p, opposite(p.turn), u, King(p), pos_pieces(p)) => u \in p.byColor[opposite(p.turn)]
          BY <5>2 DEF Hits, pos_pieces_cp, pos_pieces_cpp
        <5>4. QED
          BY <5>1, <5>2, <5>3
      <4>3. QED
        BY <3>2, <4>1, <4>2, NotSeveral
    <3>4. m.to \in targets => Answered(p, m)
      BY <3>3 DEF Answered
    <3> HIDE DEF targets
    <3>5. CASE m \in gen_piece_moves(p, targets \ ours)
      BY <2>1, <3>4, <3>5, PiecesGo
    <3>6. ASSUME NEW filter, filter \in {targets, targets \union {p.epSquare}}, m \in gen_pawn_moves(p, filter),
                 m \notin EnPassant(p)
          PROVE  Normal(p, m) /\ Kept(p, m) /\ Aims(p, m) /\ Answered(p, m)
      <4>1. m \in NormalPawnMoves(p, filter) \/ m \in Promotions(p, filter)
        BY <3>6 DEF gen_pawn_moves
      <4>2. Normal(p, m) /\ Kept(p, m) /\ Aims(p, m) /\ m.to \in filter /\ m.to # p.epSquare
        BY <4>1, PawnsGo
      <4>3. QED
        BY <3>4, <3>6, <4>2
    <3>7. QED
      BY <3>2, <3>5, <3>6
  <2>4. QED
    BY <2>2, <2>3
<1>3. QED
  BY <1>1, <1>2

\* No move captures a king.
LEMMA KingNotTaken ==
    ASSUME NEW p, Ready(p), NEW m \in gen_all_moves(p), NEW q, BoardOK(q), Played(p, q, m),
           NEW them, them = opposite(p.turn), NEW ek, ek = pos_king_square(p, them)
    PROVE  pos_pieces_cp(q, them, "KING") = {ek} /\ pos_king_square(q, them) = ek
<1>1. PICK us : us = p.turn
  OBVIOUS
<1>2. /\ us \in Color /\ them \in Color /\ us # them /\ BoardOK(p) /\ Sound(p) /\ HasKing(p, us)
      /\ p.byColor[us] \intersect p.byColor[them] = {}
      /\ ek \in Square /\ pos_pieces_cp(p, them, "KING") = {ek}
      /\ pos_pieces(p) = p.byColor[us] \union p.byColor[them]
      /\ opposite(them) = us
  BY <1>1, Sides DEF Ready
<1>3. ek \in p.byColor[them] /\ ek \in p.byPiece["KING"]
  BY <1>2 DEF pos_pieces_cp
<1>4. Generated(p, m)
  BY <1>2, AllMoves, <1>1
<1>5. ~Hits(p, us, m.from, ek, pos_pieces(p))
  BY <1>1, <1>2 DEF Ready, Unhit
<1>6. CASE Castles(p, m)
  <2>1. PICK kto, rto : kto = Rules!KingTo(m.from, m.to) /\ rto = Rules!RookTo(m.from, m.to)
    OBVIOUS
  <2>2. Castled(p, q, m)
    BY <1>6 DEF Played
  <2>3. q.byColor[them] = (p.byColor[them] \ {m.from, m.to})
                            \union (IF them = p.turn THEN {kto, rto} ELSE {})
    BY <1>2, <2>1, <2>2, Zenon DEF Castled
  <2>4. q.byPiece["KING"] = (p.byPiece["KING"] \ {m.from, m.to})
                              \union (IF "KING" = "KING" THEN {kto} ELSE {})
                              \union (IF "KING" = "ROOK" THEN {rto} ELSE {})
    <3>1. "KING" \in Piece
      BY DEF Piece
    <3>2. QED
      BY <2>1, <2>2, <3>1, Zenon DEF Castled
  <2>5. m.from \in p.byColor[us] /\ m.to \in p.byColor[us]
    BY <1>1, <1>2, <1>6, CastleSquares
  <2>6. {kto, rto} \intersect pos_pieces(p) \subseteq {m.from, m.to}
    BY <1>6, <2>1 DEF Castles
  <2>7. pos_pieces_cp(q, them, "KING") = {ek}
    BY <1>1, <1>2, <1>3, <2>3, <2>4, <2>5, <2>6 DEF pos_pieces_cp
  <2>8. QED
    BY <1>2, <2>7 DEF pos_king_square
<1>7. CASE ~Castles(p, m)
  <2>1. Replaces(p, q, m)
    BY <1>7 DEF Played
  <2>2. m.from \in p.byColor[us] /\ m.to \notin p.byColor[us] /\ m.to \in Square
    <3>1. CASE PawnMove(p, m) \/ EpMove(p, m) \/ Promotion(p, m)
      BY <1>1, <1>2, <3>1, PawnSquares
    <3>2. CASE PieceMove(p, m)
      BY <1>1, <3>2 DEF PieceMove
    <3>3. QED
      BY <1>4, <1>7, <3>1, <3>2 DEF Generated
  <2>3. ek # Taken(p, m) /\ ek # m.from
    <3>1. ek # m.from
      BY <1>2, <1>3, <2>2
    <3>2. CASE m \in EnPassant(p)
      <4>1. EpMove(p, m)
        BY <3>2, EpMoves
      <4>2. Taken(p, m) = p.epSquare - push_inc(us)
        BY <1>1, <4>1 DEF Taken, EpMove, pos_pieces_cp
      <4>3. p.epSquare - push_inc(us) \in p.byPiece["PAWN"]
        BY <1>1, <1>2, <4>1 DEF EpMove, Sound, EpSound, pos_pieces_cp
      <4>4. QED
        BY <1>2, <1>3, <3>1, <4>2, <4>3 DEF BoardOK, Piece
    <3>3. CASE m \in gen_castling_moves(p)
      BY <1>7, <3>3, CastleVerified
    <3>4. CASE Normal(p, m) /\ Aims(p, m)
      BY <1>1, <1>2, <1>3, <1>5, <3>1, <3>4 DEF Normal, Aims
    <3>5. CASE KingStep(p, m) /\ Aims(p, m)
      <4>1. m.from \notin p.byPiece["PAWN"]
        BY <1>1, <1>2, <3>5, Sides DEF KingStep, BoardOK, Piece
      <4>2. Taken(p, m) = m.to
        BY <4>1 DEF Taken
      <4>3. QED
        BY <1>1, <1>2, <1>3, <1>5, <3>1, <3>5, <4>2 DEF Aims
    <3>6. QED
      BY <3>2, <3>3, <3>4, <3>5, Filtered
  <2>4. q.byColor[them] = p.byColor[them] \ {m.from, Taken(p, m)}
    BY <1>1, <1>2, <2>1 DEF Replaces
  <2>5. q.byPiece["KING"] = (p.byPiece["KING"] \ {m.from, Taken(p, m)})
                              \union (IF "KING" = Now(p, m) THEN {m.to} ELSE {})
    BY <2>1 DEF Replaces, Piece
  <2>6. m.to \in q.byColor[us]
    BY <1>1, <1>2, <2>1 DEF Replaces
  <2>7. m.to \notin q.byColor[them]
    BY <1>1, <1>2, <2>6, ColoredPieces
  <2>8. pos_pieces_cp(q, them, "KING") = {ek}
    BY <1>2, <1>3, <2>3, <2>4, <2>5, <2>7 DEF pos_pieces_cp
  <2>9. QED
    BY <1>2, <2>8 DEF pos_king_square
<1>8. QED
  BY <1>6, <1>7

\* The king of the side that has moved is not attacked.
LEMMA KingKept ==
    ASSUME NEW p, Ready(p), NEW m \in gen_all_moves(p), NEW q, BoardOK(q), Played(p, q, m)
    PROVE  HasKing(q, p.turn) /\ Unhit(q, p.turn)
<1>1. PICK us, them, king : us = p.turn /\ them = opposite(us) /\ king = King(p)
  OBVIOUS
<1>2. /\ us \in Color /\ them \in Color /\ us # them /\ BoardOK(p) /\ Sound(p) /\ HasKing(p, us)
      /\ king \in Square /\ king \in p.byPiece["KING"] /\ king \in p.byColor[us]
      /\ p.byColor[us] \intersect p.byColor[them] = {} /\ opposite(them) = us
      /\ pos_pieces_cp(p, us, "KING") = {king}
  BY <1>1, Sides DEF Ready
<1>3. Generated(p, m)
  BY <1>1, <1>2, AllMoves
<1>4. ASSUME NEW t, t \in Square, pos_pieces_cp(q, us, "KING") = {t},
             \A u : ~Hits(q, them, u, t, pos_pieces(q))
      PROVE  HasKing(q, p.turn) /\ Unhit(q, p.turn)
  <2>1. pos_king_square(q, us) = t
    BY <1>4 DEF pos_king_square
  <2>2. QED
    BY <1>1, <1>4, <2>1 DEF HasKing, Unhit
<1>5. CASE m \in gen_castling_moves(p)
  <2>1. Castles(p, m)
    BY <1>5, CastleVerified
  <2>2. Castled(p, q, m) /\ Rules!KingTo(m.from, m.to) \in Square
    BY <1>2, <2>1, CastleSquares DEF Played
  <2>3. QED
    BY <1>1, <1>4, <1>5, <2>2, CastleSafe
<1>6. CASE ~Castles(p, m)
  <2>1. Replaces(p, q, m)
    BY <1>6 DEF Played
  <2>2. CASE m \in EnPassant(p)
    <3>1. EpMove(p, m)
      BY <2>2, EpMoves
    <3>2. /\ m.from \in p.byColor[us] /\ m.from \in p.byPiece["PAWN"] /\ m.to \notin p.byColor[us]
          /\ m.to = p.epSquare /\ m.prom = NB_PIECE /\ p.epSquare # NB_SQUARE
      BY <1>1, <1>2, <3>1, PawnSquares DEF EpMove
    <3>3. m.from \notin p.byPiece["KING"] /\ pos_piece_on(p, m.from) = "PAWN"
      BY <1>2, <3>2, PieceOn DEF BoardOK, Piece
    <3>4. Taken(p, m) = p.epSquare - push_inc(us) /\ Now(p, m) # "KING"
      BY <1>1, <3>2, <3>3 DEF Taken, Now
    <3>5. p.epSquare - push_inc(us) \in p.byColor[them]
      BY <1>1, <1>2, <3>2 DEF Sound, EpSound, pos_pieces_cp
    <3>6. pos_pieces_cp(q, us, "KING") = {king}
      BY <1>1, <1>2, <2>1, <3>2, <3>3, <3>4, <3>5, KingAfter
    <3>7. QED
      BY <1>1, <1>2, <1>4, <2>1, <2>2, <3>6, EpSafe
  <2>3. CASE Normal(p, m) /\ Kept(p, m) /\ Answered(p, m)
    <3>1. /\ m.from \in p.byColor[us] /\ m.from \notin p.byPiece["KING"] /\ Now(p, m) # "KING"
          /\ m.to \notin p.byColor[us] /\ Taken(p, m) \notin p.byColor[us]
      BY <1>1, <2>3 DEF Normal
    <3>2. pos_pieces_cp(q, us, "KING") = {king}
      BY <1>1, <2>1, <3>1, KingAfter
    <3>3. \A u : ~Hits(q, them, u, king, pos_pieces(q))
      BY <1>1, <2>1, <2>3, NormalSafe DEF Kept
    <3>4. QED
      BY <1>2, <1>4, <3>2, <3>3
  <2>4. CASE KingStep(p, m)
    <3>1. /\ m.from = King(p) /\ m.to \in Square \ p.byColor[p.turn] /\ m.to \notin p.attacked
          /\ m.prom = NB_PIECE
      BY <2>4 DEF KingStep
    <3>2. pos_pieces_cp(q, us, "KING") = {m.to} /\ \A u : ~Hits(q, them, u, m.to, pos_pieces(q))
      BY <1>1, <2>1, <3>1, KingSafe
    <3>3. QED
      BY <1>4, <3>1, <3>2
  <2>5. CASE m \in gen_castling_moves(p)
    BY <1>5, <2>5
  <2>6. QED
    BY <2>2, <2>3, <2>4, <2>5, Filtered
<1>7. CASE Castles(p, m)
  <2>1. m.from = king /\ m.to \in p.byColor[us] /\ m.from \in p.byColor[us]
    BY <1>1, <1>2, <1>7, CastleSquares DEF Castles
  <2>2. ~Normal(p, m) /\ ~KingStep(p, m)
    BY <1>1, <2>1 DEF Normal, KingStep
  <2>3. m \notin EnPassant(p)
    <3>1. ASSUME m \in EnPassant(p) PROVE FALSE
      <4>1. m.from \in p.byPiece["PAWN"]
        BY <3>1, EpMoves DEF EpMove, pos_pieces_cp
      <4>2. QED
        BY <1>2, <2>1, <4>1 DEF BoardOK, Piece
    <3>2. QED
      BY <3>1
  <2>4. QED
    BY <1>5, <2>2, <2>3, Filtered
<1>8. QED
  BY <1>6, <1>7

\* After a generated move the side to move cannot capture the king.
LEMMA ReadyGoesOn ==
    ASSUME NEW p, Ready(p), NEW m \in gen_all_moves(p), NEW q, Sound(q), Derived(q), Played(p, q, m)
    PROVE  Ready(q)
<1>1. PICK us, them, ek : us = p.turn /\ them = opposite(us) /\ ek = pos_king_square(p, them)
  OBVIOUS
<1>2. /\ us \in Color /\ them \in Color /\ us # them /\ BoardOK(p) /\ Sound(p) /\ HasKing(p, us)
      /\ opposite(them) = us /\ ek \in Square
  BY <1>1, Sides DEF Ready
<1>3. BoardOK(q) /\ q.turn = them
  BY <1>1 DEF Sound, Played
<1>4. HasKing(q, us) /\ Unhit(q, us)
  BY <1>1, <1>3, KingKept
<1>5. pos_pieces_cp(q, them, "KING") = {ek} /\ pos_king_square(q, them) = ek
  BY <1>1, <1>3, KingNotTaken
<1>6. \A c \in Color : HasKing(q, c)
  BY <1>1, <1>2, <1>4, <1>5, Directions DEF HasKing, opposite, Color, WHITE, BLACK
<1>7. ASSUME q.epSquare # NB_SQUARE, NEW u \in q.checkers,
             u \in q.byPiece["KNIGHT"] \union q.byPiece["PAWN"]
      PROVE  u = q.epSquare - push_inc(q.turn)
  <2>1. /\ m.from \in p.byPiece["PAWN"] /\ q.epSquare = m.from + push_inc(us)
        /\ m.to = m.from + 2 * push_inc(us)
    BY <1>1, <1>7 DEF Played
  <2>2. m.to = q.epSquare - push_inc(q.turn)
    <3>1. m.from \in Int
      BY <1>2, <2>1 DEF BoardOK, Piece, Square, NB_SQUARE
    <3>2. PICK a \in Int : push_inc(us) = a /\ push_inc(them) = -a
      BY <1>1, <1>2 DEF push_inc, opposite, Color, WHITE, BLACK
    <3>3. QED
      BY <1>3, <2>1, <3>1, <3>2
  <2>3. SUFFICES ASSUME u # m.to PROVE FALSE
    BY <2>2
  <2>4. Hits(q, us, u, ek, pos_pieces(q))
    <3>1. King(q) = ek
      BY <1>3, <1>5 DEF King
    <3>2. u \in Checkers(q, Attacked(q)) /\ HasKing(q, q.turn) /\ HasKing(q, opposite(q.turn))
      BY <1>2, <1>3, <1>6, <1>7 DEF Derived
    <3>3. Hits(q, opposite(q.turn), u, King(q), pos_pieces(q))
      BY <3>2, CheckersHit
    <3>4. QED
      BY <1>2, <1>3, <3>1, <3>3
  <2>5. u \in q.byColor[us]
    BY <2>4 DEF Hits, pos_pieces_cp, pos_pieces_cpp
  <2>6. Replaces(p, q, m)
    <3>1. ~Castles(p, m)
      <4>1. Castles(p, m) => m.from \in p.byPiece["KING"]
        BY <1>2, CastleSquares
      <4>2. m.from \notin p.byPiece["KING"]
        BY <1>2, <2>1 DEF BoardOK, Piece
      <4>3. QED
        BY <4>1, <4>2
    <3>2. QED
      BY <3>1 DEF Played
  <2>7. u \in p.byColor[us]
    BY <1>1, <1>2, <2>3, <2>5, <2>6 DEF Replaces
  <2>8. ASSUME NEW k \in {"KNIGHT", "PAWN"}, u \in q.byPiece[k]
        PROVE  u \in pos_pieces_cp(p, us, k) /\ u \in pos_pieces_cp(q, us, k)
    BY <2>3, <2>5, <2>6, <2>7, <2>8 DEF Replaces, Piece, pos_pieces_cp
  <2>9. PICK k \in {"KNIGHT", "PAWN"} : u \in pos_pieces_cp(p, us, k) /\ u \in pos_pieces_cp(q, us, k)
    BY <1>7, <2>8
  <2>10. CASE k = "KNIGHT"
    <3>1. pos_piece_on(q, u) = "KNIGHT" /\ \A l \in Piece : u \in pos_pieces_cp(q, us, l) => l = "KNIGHT"
      BY <1>3, <2>9, <2>10, PieceOn DEF pos_pieces_cp, Piece
    <3>2. u \notin pos_pieces_cpp(q, us, "ROOK", "QUEEN") /\ u \notin pos_pieces_cpp(q, us, "BISHOP", "QUEEN")
      BY <3>1 DEF pos_pieces_cp, pos_pieces_cpp, Piece
    <3>3. ek \in KnightAttacks[u]
      BY <2>4, <3>1, <3>2 DEF Hits, Piece
    <3>4. Hits(p, us, u, ek, pos_pieces(p))
      BY <2>9, <2>10, <3>3 DEF Hits
    <3>5. QED
      BY <1>1, <1>2, <3>4 DEF Ready, Unhit
  <2>11. CASE k = "PAWN"
    <3>1. pos_piece_on(q, u) = "PAWN" /\ \A l \in Piece : u \in pos_pieces_cp(q, us, l) => l = "PAWN"
      BY <1>3, <2>9, <2>11, PieceOn DEF pos_pieces_cp, Piece
    <3>2. u \notin pos_pieces_cpp(q, us, "ROOK", "QUEEN") /\ u \notin pos_pieces_cpp(q, us, "BISHOP", "QUEEN")
      BY <3>1 DEF pos_pieces_cp, pos_pieces_cpp, Piece
    <3>3. ek \in PawnAttacks[us][u]
      BY <2>4, <3>1, <3>2 DEF Hits, Piece
    <3>4. Hits(p, us, u, ek, pos_pieces(p))
      BY <2>9, <2>11, <3>3 DEF Hits
    <3>5. QED
      BY <1>1, <1>2, <3>4 DEF Ready, Unhit
  <2>12. QED
    BY <2>9, <2>10, <2>11
<1>8. QED
  BY <1>2, <1>3, <1>4, <1>6, <1>7 DEF Ready, EpChecks

-----------------------------------------------------------------------------
(* The rules' way of saying what attacks what.                             *)

\* The rules' board has the lines and leaps of the code's.
LEMMA RulesBoard ==
    /\ \A s, d, k : (Rules!OnBoard(s, d, k) <=> OnBoard(s, d, k)) /\ Rules!Step(s, d, k) = Step(s, d, k)
    /\ Rules!KnightDir = KnightDir /\ Rules!KingDir = KingDir
    /\ Rules!RookDir = RookDir /\ Rules!BishopDir = BishopDir
    /\ \A c : Rules!PawnDir(c) = PawnDir(c) /\ Rules!opposite(c) = opposite(c)
                /\ Rules!push_inc(c) = push_inc(c)
<1>1. ASSUME NEW s, NEW d, NEW k
      PROVE  (Rules!OnBoard(s, d, k) <=> OnBoard(s, d, k)) /\ Rules!Step(s, d, k) = Step(s, d, k)
  BY DEF Rules!OnBoard, OnBoard, Rules!Step, Step, Rules!rank_of, Rules!file_of, rank_of, file_of
<1>2. Rules!KnightDir = KnightDir
  BY DEF Rules!KnightDir, KnightDir
<1>3. Rules!RookDir = RookDir /\ Rules!BishopDir = BishopDir
  BY DEF Rules!RookDir, RookDir, Rules!BishopDir, BishopDir
<1>4. Rules!KingDir = KingDir
  BY <1>3 DEF Rules!KingDir, KingDir
<1>5. ASSUME NEW c PROVE Rules!PawnDir(c) = PawnDir(c) /\ Rules!opposite(c) = opposite(c)
                           /\ Rules!push_inc(c) = push_inc(c)
  BY DEF Rules!PawnDir, PawnDir, Rules!opposite, opposite, Rules!push_inc, push_inc, Rules!WHITE, WHITE
<1>6. QED
  BY <1>1, <1>2, <1>3, <1>4, <1>5

\* P says where the pieces of p stand.
Places(p, P) ==
    /\ \A x \in P : /\ x[1] \in Color /\ x[2] \in Piece /\ x[3] \in Square
                    /\ x = <<x[1], x[2], x[3]>>
    /\ \A c \in Color, k \in Piece, s \in Square :
         <<c, k, s>> \in P <=> s \in p.byColor[c] /\ s \in p.byPiece[k]

\* The rules' empty squares are those without a piece.
LEMMA EmptySquares ==
    ASSUME NEW p, BoardOK(p), NEW P, Places(p, P), NEW s \in Square
    PROVE  Rules!Empty(P, s) <=> s \notin pos_pieces(p)
<1>1. ASSUME s \in pos_pieces(p) PROVE \E x \in P : x[3] = s
  <2>1. PICK c \in Color : s \in p.byColor[c]
    BY <1>1 DEF pos_pieces, Color
  <2>2. PICK k \in Piece : s \in p.byPiece[k]
    BY <1>1 DEF BoardOK
  <2>3. <<c, k, s>> \in P /\ <<c, k, s>>[3] = s
    BY <2>1, <2>2 DEF Places
  <2>4. QED
    BY <2>3, Zenon
<1>2. ASSUME NEW x \in P, x[3] = s PROVE s \in pos_pieces(p)
  <2>1. PICK c \in Color, k \in Piece : x = <<c, k, s>>
    BY <1>2 DEF Places
  <2>2. s \in p.byColor[c]
    BY <2>1 DEF Places
  <2>3. QED
    BY <2>2 DEF pos_pieces, Color
<1>3. QED
  BY <1>1, <1>2 DEF Rules!Empty, Rules!On

\* The squares a piece reaches by the rules, and those it attacks by the tables.
LEMMA RulesReach ==
    ASSUME NEW p, BoardOK(p), NEW P, Places(p, P), NEW c \in Color, NEW k \in Piece, NEW u \in Square,
           NEW t
    PROVE  t \in Rules!Reach(P, <<c, k, u>>) <=>
             \/ k = "KING" /\ t \in KingAttacks[u]
             \/ k = "KNIGHT" /\ t \in KnightAttacks[u]
             \/ k = "PAWN" /\ t \in PawnAttacks[c][u]
             \/ k \in {"ROOK", "QUEEN"} /\ t \in bb_rook_attacks(u, pos_pieces(p))
             \/ k \in {"BISHOP", "QUEEN"} /\ t \in bb_bishop_attacks(u, pos_pieces(p))
<1>1. PICK y : y = <<c, k, u>>
  OBVIOUS
<1>2. y[1] = c /\ y[2] = k /\ y[3] = u
  BY <1>1
<1>3. t \in Rules!Reach(P, y) <=>
        \/ \E d \in Rules!Jumps(y) : OnBoard(u, d, 1) /\ t = Step(u, d, 1)
        \/ \E d \in Rules!Slides(k), j \in 1..7 :
              /\ OnBoard(u, d, j) /\ t = Step(u, d, j)
              /\ \A n \in 1..(j - 1) : Rules!Empty(P, Step(u, d, n))
  <2>1. t \in Rules!Reach(P, y) <=>
        \/ \E d \in Rules!Jumps(y) : Rules!OnBoard(u, d, 1) /\ t = Rules!Step(u, d, 1)
        \/ \E d \in Rules!Slides(k), j \in 1..7 :
              /\ Rules!OnBoard(u, d, j) /\ t = Rules!Step(u, d, j)
              /\ \A n \in 1..(j - 1) : Rules!Empty(P, Rules!Step(u, d, n))
    BY <1>2 DEF Rules!Reach
  <2>2. QED
    BY <2>1, RulesBoard
<1>4. Rules!Jumps(y) = CASE k = "KNIGHT" -> KnightDir [] k = "KING" -> KingDir
                         [] k = "PAWN" -> PawnDir(c) [] OTHER -> {}
  BY <1>2, RulesBoard DEF Rules!Jumps
<1>5. Rules!Slides(k) = CASE k = "ROOK" -> RookDir [] k = "BISHOP" -> BishopDir
                          [] k = "QUEEN" -> KingDir [] OTHER -> {}
  BY RulesBoard DEF Rules!Slides
<1>6. /\ t \in KingAttacks[u] <=> \E d \in KingDir : OnBoard(u, d, 1) /\ t = Step(u, d, 1)
      /\ t \in KnightAttacks[u] <=> \E d \in KnightDir : OnBoard(u, d, 1) /\ t = Step(u, d, 1)
      /\ t \in PawnAttacks[c][u] <=> \E d \in PawnDir(c) : OnBoard(u, d, 1) /\ t = Step(u, d, 1)
  BY DEF KingAttacks, KnightAttacks, PawnAttacks, Leaps
<1>7. ASSUME NEW d \in KingDir, NEW j \in 1..7, Reached(u, t, d, j)
      PROVE  (\A n \in 1..(j - 1) : Rules!Empty(P, Step(u, d, n))) <=> Between(u, t) \intersect pos_pieces(p) = {}
  <2>1. \A x : x \in Between(u, t) <=> \E n \in 1..(j - 1) : x = Step(u, d, n)
    BY <1>7, SegmentOf DEF Between
  <2>2. \A n \in 1..(j - 1) : n \in 0..j /\ j \in 0..7
    OBVIOUS
  <2>3. \A n \in 1..(j - 1) : Step(u, d, n) \in Square
    BY <1>7, <2>2, Convex
  <2>4. \A n \in 1..(j - 1) : Rules!Empty(P, Step(u, d, n)) <=> Step(u, d, n) \notin pos_pieces(p)
    BY <2>3, EmptySquares
  <2>5. QED
    BY <2>1, <2>4
<1>8. ASSUME NEW D, D \subseteq KingDir
      PROVE  (\E d \in D, j \in 1..7 :
                 /\ OnBoard(u, d, j) /\ t = Step(u, d, j)
                 /\ \A n \in 1..(j - 1) : Rules!Empty(P, Step(u, d, n)))
               <=> Aligned(D, u, t) /\ Between(u, t) \intersect pos_pieces(p) = {}
  BY <1>7, <1>8 DEF Aligned, Reached
<1>9. /\ t \in bb_rook_attacks(u, pos_pieces(p)) <=>
                Aligned(RookDir, u, t) /\ Between(u, t) \intersect pos_pieces(p) = {}
      /\ t \in bb_bishop_attacks(u, pos_pieces(p)) <=>
                Aligned(BishopDir, u, t) /\ Between(u, t) \intersect pos_pieces(p) = {}
  BY Sliding
<1>10. Aligned(KingDir, u, t) <=> Aligned(RookDir, u, t) \/ Aligned(BishopDir, u, t)
  BY DEF Aligned, KingDir
<1>11. RookDir \subseteq KingDir /\ BishopDir \subseteq KingDir /\ KingDir \subseteq KingDir
  BY DEF KingDir
<1> DEFINE Slid(D) == \E d \in D, j \in 1..7 :
                         /\ OnBoard(u, d, j) /\ t = Step(u, d, j)
                         /\ \A n \in 1..(j - 1) : Rules!Empty(P, Step(u, d, n))
           Jumped(D) == \E d \in D : OnBoard(u, d, 1) /\ t = Step(u, d, 1)
<1>12. /\ Slid(RookDir) <=> t \in bb_rook_attacks(u, pos_pieces(p))
       /\ Slid(BishopDir) <=> t \in bb_bishop_attacks(u, pos_pieces(p))
       /\ Slid(KingDir) <=> t \in bb_rook_attacks(u, pos_pieces(p)) \/ t \in bb_bishop_attacks(u, pos_pieces(p))
       /\ ~Slid({}) /\ ~Jumped({})
  BY <1>8, <1>9, <1>10, <1>11
<1>13. t \in Rules!Reach(P, y) <=> Jumped(Rules!Jumps(y)) \/ Slid(Rules!Slides(k))
  BY <1>3
<1> HIDE DEF Slid
<1>14. /\ Jumped(KingDir) <=> t \in KingAttacks[u]
       /\ Jumped(KnightDir) <=> t \in KnightAttacks[u]
       /\ Jumped(PawnDir(c)) <=> t \in PawnAttacks[c][u]
  BY <1>6
<1> HIDE DEF Jumped
<1>15. CASE k = "KING"
  BY <1>1, <1>4, <1>5, <1>12, <1>13, <1>14, <1>15
<1>16. CASE k = "KNIGHT"
  BY <1>1, <1>4, <1>5, <1>12, <1>13, <1>14, <1>16
<1>17. CASE k = "PAWN"
  BY <1>1, <1>4, <1>5, <1>12, <1>13, <1>14, <1>17
<1>18. CASE k = "ROOK"
  BY <1>1, <1>4, <1>5, <1>12, <1>13, <1>14, <1>18
<1>19. CASE k = "BISHOP"
  BY <1>1, <1>4, <1>5, <1>12, <1>13, <1>14, <1>19
<1>20. CASE k = "QUEEN"
  BY <1>1, <1>4, <1>5, <1>12, <1>13, <1>14, <1>20
<1>21. QED
  BY <1>15, <1>16, <1>17, <1>18, <1>19, <1>20 DEF Piece

\* The king, and check, by the rules and by the tables.
LEMMA RulesCheck ==
    ASSUME NEW p, BoardOK(p), NEW P, Places(p, P), NEW c \in Color,
           NEW s \in Square, pos_pieces_cp(p, c, "KING") = {s}
    PROVE  /\ Rules!KingOf(P, c) = s /\ pos_king_square(p, c) = s
           /\ \A e \in Color : \A t : t \in Rules!AttackedBy(P, e) <=> \E u : Hits(p, e, u, t, pos_pieces(p))
           /\ Rules!InCheck(P, c) <=> ~Unhit(p, c)
<1>1. PICK y : y = <<c, "KING", s>>
  OBVIOUS
<1>2. y \in P /\ y[1] = c /\ y[2] = "KING"
  BY <1>1 DEF Places, pos_pieces_cp, Piece
<1>3. \A x \in P : x[1] = c /\ x[2] = "KING" => x[3] = s
  <2>1. TAKE x \in P
  <2>2. HAVE x[1] = c /\ x[2] = "KING"
  <2>3. x[3] \in Square /\ x = <<c, "KING", x[3]>>
    BY <2>2 DEF Places
  <2>4. x[3] \in pos_pieces_cp(p, c, "KING")
    BY <2>3 DEF Places, pos_pieces_cp, Piece
  <2>5. QED
    BY <2>4
<1>4. Rules!KingOf(P, c) = s
  BY <1>2, <1>3 DEF Rules!KingOf
<1>5. pos_king_square(p, c) = s
  BY DEF pos_king_square
<1>6. ASSUME NEW e \in Color, NEW t
      PROVE  t \in Rules!AttackedBy(P, e) <=> \E u : Hits(p, e, u, t, pos_pieces(p))
  <2>1. t \in Rules!AttackedBy(P, e) <=> \E x \in P : x[1] = e /\ t \in Rules!Reach(P, x)
    BY DEF Rules!AttackedBy
  <2>2. ASSUME NEW x \in P, x[1] = e, t \in Rules!Reach(P, x)
        PROVE  \E u : Hits(p, e, u, t, pos_pieces(p))
    <3>1. PICK k \in Piece, u \in Square : x = <<e, k, u>>
      BY <2>2 DEF Places
    <3>2. u \in p.byColor[e] /\ u \in p.byPiece[k]
      BY <3>1 DEF Places
    <3>3. Hits(p, e, u, t, pos_pieces(p))
      <4>1. t \in Rules!Reach(P, <<e, k, u>>)
        BY <2>2, <3>1
      <4>2. \/ k = "KING" /\ t \in KingAttacks[u]
            \/ k = "KNIGHT" /\ t \in KnightAttacks[u]
            \/ k = "PAWN" /\ t \in PawnAttacks[e][u]
            \/ k \in {"ROOK", "QUEEN"} /\ t \in bb_rook_attacks(u, pos_pieces(p))
            \/ k \in {"BISHOP", "QUEEN"} /\ t \in bb_bishop_attacks(u, pos_pieces(p))
        BY <4>1, RulesReach
      <4>3. QED
        BY <3>2, <4>2 DEF Hits, pos_pieces_cp, pos_pieces_cpp
    <3>4. QED
      BY <3>3
  <2>3. ASSUME NEW u, Hits(p, e, u, t, pos_pieces(p))
        PROVE  \E x \in P : x[1] = e /\ t \in Rules!Reach(P, x)
    <3>1. PICK k \in Piece :
            /\ u \in p.byColor[e] /\ u \in p.byPiece[k]
            /\ \/ k = "KING" /\ t \in KingAttacks[u]
               \/ k = "KNIGHT" /\ t \in KnightAttacks[u]
               \/ k = "PAWN" /\ t \in PawnAttacks[e][u]
               \/ k \in {"ROOK", "QUEEN"} /\ t \in bb_rook_attacks(u, pos_pieces(p))
               \/ k \in {"BISHOP", "QUEEN"} /\ t \in bb_bishop_attacks(u, pos_pieces(p))
      BY <2>3 DEF Hits, pos_pieces_cp, pos_pieces_cpp, Piece
    <3>2. u \in Square
      BY <3>1 DEF BoardOK
    <3>3. t \in Rules!Reach(P, <<e, k, u>>)
      BY <3>1, <3>2, RulesReach
    <3>4. <<e, k, u>> \in P /\ <<e, k, u>>[1] = e
      BY <3>1, <3>2 DEF Places
    <3>5. QED
      BY <3>3, <3>4, Zenon
  <2>4. QED
    BY <2>1, <2>2, <2>3
<1>7. Rules!InCheck(P, c) <=> ~Unhit(p, c)
  <2>1. Rules!opposite(c) = opposite(c) /\ opposite(c) \in Color
    BY RulesBoard, ColoredPieces
  <2>2. QED
    BY <1>4, <1>5, <1>6, <2>1 DEF Rules!InCheck, Unhit
<1>8. QED
  BY <1>4, <1>5, <1>6, <1>7

-----------------------------------------------------------------------------
(* The opening.                                                            *)

\* A bitboard that counts one square holds one.
LEMMA OneOfThem ==
    ASSUME NEW S, S \subseteq Square, bb_count(S) = 1
    PROVE  S # {} /\ \A s, t \in S : s = t
<1>1. IsFiniteSet(S)
  BY FiniteBoard
<1>2. PICK x : S = {x}
  BY <1>1, FS_Singleton DEF bb_count
<1>3. QED
  BY <1>2

\* The board that pos_set reads.
LEMMA StartBoard ==
    ASSUME NEW fen, IsFen(fen), NEW p, p = pos_set(fen, FALSE)
    PROVE  /\ BoardOK(p) /\ Keyed(p) /\ p.turn = fen.turn /\ p.epSquare = fen.epSquare
           /\ p.rule50 = fen.rule50 /\ p.fullMove = fen.fullMove /\ Derived(p)
           /\ \A c \in Color, k \in Piece, s \in Square :
                <<c, k, s>> \in fen.pieces <=> s \in p.byColor[c] /\ s \in p.byPiece[k]
<1> DEFINE byColor == [c \in Color |-> {x[3] : x \in {y \in fen.pieces : y[1] = c}}]
           byPiece == [k \in Piece |-> {x[3] : x \in {y \in fen.pieces : y[2] = k}}]
<1>1. PICK rooks : rooks = {CastleRook(fen.pieces, x[1], x[2]) : x \in Range(fen.castling)}
  OBVIOUS
<1>2. PICK key : key = UNION ({ZobristKey(x[1], x[2], x[3]) : x \in fen.pieces}
                          \union {zobrist_castling(rooks),
                                  ZobristEnPassant(fen.epSquare),
                                  IF fen.turn = BLACK THEN ZobristTurn ELSE {}})
  OBVIOUS
<1>3. PICK chess960 : chess960 = (FALSE \/ Detected960(fen.pieces, rooks))
  OBVIOUS
<1> DEFINE b == [byColor |-> byColor, byPiece |-> byPiece, castleRooks |-> rooks, key |-> key,
                 attacked |-> {}, checkers |-> {}, pins |-> {},
                 turn |-> fen.turn, epSquare |-> fen.epSquare,
                 rule50 |-> fen.rule50, fullMove |-> fen.fullMove, chess960 |-> chess960]
<1>4. p = finish(b)
  BY <1>1, <1>2, <1>3, Zenon DEF pos_set
<1>5. IsPosition(b)
  BY DEF IsPosition
<1>6. /\ IsPosition(p) /\ p.byColor = byColor /\ p.byPiece = byPiece
      /\ p.castleRooks = rooks /\ p.key = key /\ p.turn = fen.turn
      /\ p.epSquare = fen.epSquare /\ p.rule50 = fen.rule50 /\ p.fullMove = fen.fullMove
  <2>1. b.byColor = byColor /\ b.byPiece = byPiece
      /\ b.castleRooks = rooks /\ b.key = key /\ b.turn = fen.turn
      /\ b.epSquare = fen.epSquare /\ b.rule50 = fen.rule50 /\ b.fullMove = fen.fullMove
    OBVIOUS
  <2> HIDE DEF b
  <2>2. /\ IsPosition(p) /\ p.byColor = b.byColor /\ p.byPiece = b.byPiece
        /\ p.castleRooks = b.castleRooks /\ p.key = b.key /\ p.turn = b.turn
        /\ p.epSquare = b.epSquare /\ p.rule50 = b.rule50 /\ p.fullMove = b.fullMove
    BY <1>4, <1>5, Finished, Zenon
  <2>3. QED
    BY <2>1, <2>2, Zenon
<1> HIDE DEF b
<1> DEFINE At(c, k, s) == <<c, k, s>> \in fen.pieces
<1>7. /\ \A c \in Color, k \in Piece : \A s :
            At(c, k, s) => s \in Square /\ s \in byColor[c] /\ s \in byPiece[k]
      /\ \A c \in Color : \A s \in byColor[c] : s \in Square /\ \E k \in Piece : At(c, k, s)
      /\ \A k \in Piece : \A s \in byPiece[k] : s \in Square /\ \E c \in Color : At(c, k, s)
      /\ \A c, d \in Color, k, l \in Piece : \A s : At(c, k, s) /\ At(d, l, s) => c = d /\ k = l
  <2>1. \A y \in fen.pieces : /\ y[1] \in Color /\ y[2] \in Piece /\ y[3] \in Square
                              /\ At(y[1], y[2], y[3])
    BY DEF IsFen
  <2>2. ASSUME NEW c \in Color, NEW s \in byColor[c]
        PROVE  s \in Square /\ \E k \in Piece : At(c, k, s)
    <3>1. PICK y \in fen.pieces : y[1] = c /\ y[3] = s
      OBVIOUS
    <3>2. y[2] \in Piece /\ s \in Square /\ At(c, y[2], s)
      BY <2>1, <3>1
    <3>3. QED
      BY <3>2
  <2>3. ASSUME NEW k \in Piece, NEW s \in byPiece[k]
        PROVE  s \in Square /\ \E c \in Color : At(c, k, s)
    <3>1. PICK y \in fen.pieces : y[2] = k /\ y[3] = s
      OBVIOUS
    <3>2. y[1] \in Color /\ s \in Square /\ At(y[1], k, s)
      BY <2>1, <3>1
    <3>3. QED
      BY <3>2
  <2>4. ASSUME NEW c \in Color, NEW k \in Piece, NEW s, At(c, k, s)
        PROVE  s \in Square /\ s \in byColor[c] /\ s \in byPiece[k]
    <3>1. PICK y \in fen.pieces : y = <<c, k, s>>
      BY <2>4
    <3>2. y[1] = c /\ y[2] = k /\ y[3] = s
      BY <3>1
    <3>3. s \in Square
      BY <2>1, <3>1, <3>2
    <3>4. s \in byColor[c]
      BY <3>1, <3>2
    <3>5. s \in byPiece[k]
      BY <3>1, <3>2
    <3>6. QED
      BY <3>3, <3>4, <3>5
  <2>5. ASSUME NEW c \in Color, NEW d \in Color, NEW k \in Piece, NEW l \in Piece, NEW s,
               At(c, k, s), At(d, l, s)
        PROVE  c = d /\ k = l
    <3>1. PICK x, y : x = <<c, k, s>> /\ y = <<d, l, s>>
      OBVIOUS
    <3>2. x \in fen.pieces /\ y \in fen.pieces /\ x[3] = s /\ y[3] = s
      BY <2>5, <3>1
    <3>3. x = y
      BY <3>2 DEF IsFen
    <3>4. QED
      BY <3>1, <3>3
  <2>6. QED
    BY <2>2, <2>3, <2>4, <2>5
<1>8. DOMAIN byColor = Color /\ DOMAIN byPiece = Piece
      /\ byColor = [c \in Color |-> byColor[c]] /\ byPiece = [k \in Piece |-> byPiece[k]]
  OBVIOUS
<1> HIDE DEF byColor, byPiece, At
<1>9. BoardOK(p)
  <2>1. p.byColor \in [Color -> SUBSET Square] /\ p.byPiece \in [Piece -> SUBSET Square]
    BY <1>6, <1>7, <1>8
  <2>2. p.byColor[WHITE] \intersect p.byColor[BLACK] = {}
    <3>1. WHITE \in Color /\ BLACK \in Color /\ WHITE # BLACK
      BY DEF Color, WHITE, BLACK
    <3>2. ASSUME NEW s \in byColor[WHITE], s \in byColor[BLACK] PROVE FALSE
      BY <1>7, <3>1, <3>2, Zenon
    <3>3. QED
      BY <1>6, <3>2
  <2>3. \A x, y \in Piece : x # y => p.byPiece[x] \intersect p.byPiece[y] = {}
    <3>1. ASSUME NEW x \in Piece, NEW y \in Piece, NEW s \in byPiece[x], s \in byPiece[y]
          PROVE x = y
      BY <1>7, <3>1
    <3>2. QED
      BY <1>6, <3>1
  <2>4. \A s \in Square : s \in pos_pieces(p) <=> \E k \in Piece : s \in p.byPiece[k]
    <3>1. \A s : s \in pos_pieces(p) <=> \E c \in Color : s \in byColor[c]
      BY <1>6 DEF pos_pieces, Color
    <3>2. ASSUME NEW c \in Color, NEW s \in byColor[c]
          PROVE  \E k \in Piece : s \in byPiece[k]
      BY <1>7
    <3>3. ASSUME NEW k \in Piece, NEW s \in byPiece[k]
          PROVE  \E c \in Color : s \in byColor[c]
      BY <1>7
    <3>4. QED
      BY <1>6, <3>1, <3>2, <3>3
  <2>5. QED
    BY <1>6, <2>1, <2>2, <2>3, <2>4 DEF BoardOK, IsFen
<1>10. PieceKey(p) /\ p.key \ PieceNumbers = Others(p)
  <2> DEFINE numbers == UNION {ZobristKey(x[1], x[2], x[3]) : x \in fen.pieces}
             others == zobrist_castling(rooks) \union ZobristEnPassant(fen.epSquare)
                         \union IF fen.turn = BLACK THEN ZobristTurn ELSE {}
  <2>1. key = numbers \union others
    BY <1>2
  <2>2. others \intersect PieceNumbers = {}
    <3>1. \A x \in zobrist_castling(rooks) : x[1] = "castling"
      BY DEF zobrist_castling, ZobristCastling
    <3>2. \A x \in ZobristEnPassant(fen.epSquare) : x[1] = "ep"
      BY DEF ZobristEnPassant
    <3>3. \A x \in ZobristTurn : x[1] = "turn"
      BY DEF ZobristTurn
    <3>4. \A x \in PieceNumbers : x[1] = "piece"
      BY DEF PieceNumbers
    <3>5. QED
      BY <3>1, <3>2, <3>3, <3>4
  <2>3. \A x \in fen.pieces : x[1] \in Color /\ x[2] \in Piece /\ x[3] \in Square
    BY DEF IsFen
  <2>4. \A n : n \in numbers <=> \E x \in fen.pieces : n = <<"piece", x[1], x[2], x[3]>>
    BY DEF ZobristKey
  <2> HIDE DEF numbers, others
  <2>5. numbers \subseteq PieceNumbers
    BY <2>3, <2>4 DEF PieceNumbers
  <2>6. ASSUME NEW c \in Color, NEW k \in Piece, NEW s \in Square
        PROVE  <<"piece", c, k, s>> \in p.key <=> s \in p.byColor[c] \intersect p.byPiece[k]
    <3>1. <<"piece", c, k, s>> \in PieceNumbers
      BY DEF PieceNumbers
    <3>2. <<"piece", c, k, s>> \in key <=> <<"piece", c, k, s>> \in numbers
      BY <2>1, <2>2, <3>1
    <3>3. <<"piece", c, k, s>> \in numbers => At(c, k, s)
      <4>1. ASSUME NEW x \in fen.pieces, <<"piece", c, k, s>> = <<"piece", x[1], x[2], x[3]>>
            PROVE  At(c, k, s)
        <5>1. c = x[1] /\ k = x[2] /\ s = x[3] /\ x \in Color \X Piece \X Square
          BY <4>1 DEF IsFen
        <5>2. x = <<c, k, s>>
          BY <5>1
        <5>3. QED
          BY <5>2 DEF At
      <4>2. QED
        BY <2>4, <4>1
    <3>4. At(c, k, s) => <<"piece", c, k, s>> \in numbers
      <4>1. ASSUME At(c, k, s) PROVE <<"piece", c, k, s>> \in numbers
        <5>1. PICK x \in fen.pieces : x = <<c, k, s>>
          BY <4>1 DEF At
        <5>2. x[1] = c /\ x[2] = k /\ x[3] = s
          BY <5>1
        <5>3. QED
          BY <2>4, <5>2
      <4>2. QED
        BY <4>1
    <3>5. At(c, k, s) <=> s \in byColor[c] /\ s \in byPiece[k]
      BY <1>7
    <3>6. QED
      BY <1>6, <3>2, <3>3, <3>4, <3>5
  <2>7. p.key \ PieceNumbers = others
    BY <1>6, <2>1, <2>2, <2>5
  <2>8. others = Others(p)
    BY <1>6 DEF others, Others
  <2>9. QED
    BY <2>6, <2>7, <2>8 DEF PieceKey
<1>12. Derived(p)
  BY <1>4, <1>5, FinishDerives
<1>13. \A c \in Color, k \in Piece, s \in Square :
          <<c, k, s>> \in fen.pieces <=> s \in p.byColor[c] /\ s \in p.byPiece[k]
  <2>1. TAKE c \in Color, k \in Piece, s \in Square
  <2>2. At(c, k, s) <=> s \in byColor[c] /\ s \in byPiece[k]
    BY <1>7
  <2> HIDE DEF byColor, byPiece, At
  <2>3. At(c, k, s) <=> s \in p.byColor[c] /\ s \in p.byPiece[k]
    BY <1>6, <2>2
  <2>4. QED
    BY <2>3 DEF At
<1>14. QED
  BY <1>6, <1>9, <1>10, <1>12, <1>13 DEF Keyed

\* The en passant square that has been verified.
LEMMA VerifiedEp ==
    ASSUME NEW p, p.epSquare \in Square \union {NB_SQUARE}, p.turn \in Color, Verified(p)
    PROVE  EpSound(p)
<1>1. p.epSquare \in Square \union {NB_SQUARE} /\ p.turn \in Color /\ Verified(p)
  OBVIOUS
<1>2. ASSUME p.epSquare # NB_SQUARE
      PROVE  /\ p.epSquare \in Rank(relative_rank(p.turn, 5)) \ pos_pieces(p)
             /\ p.epSquare - push_inc(p.turn) \in pos_pieces_cp(p, opposite(p.turn), "PAWN")
             /\ p.epSquare + push_inc(p.turn) \notin pos_pieces(p)
  <2>1. PICK r : r = rank_of(p.epSquare)
    OBVIOUS
  <2>2. PICK c : c = IF r = 2 THEN WHITE ELSE BLACK
    OBVIOUS
  <2>3. /\ r \in {2, 5} /\ c # p.turn /\ p.epSquare \notin pos_pieces(p)
        /\ p.epSquare + push_inc(c) \in pos_pieces_cp(p, c, "PAWN")
        /\ p.epSquare - push_inc(c) \notin pos_pieces(p)
    BY <1>1, <1>2, <2>1, <2>2 DEF Verified
  <2>4. c = opposite(p.turn) /\ r = relative_rank(p.turn, 5) /\ push_inc(c) = -push_inc(p.turn)
        /\ push_inc(p.turn) \in Int
    BY <1>1, <2>2, <2>3 DEF Color, WHITE, BLACK, opposite, relative_rank, push_inc
  <2>5. p.epSquare \in Int
    BY <1>1, <1>2 DEF Square, NB_SQUARE
  <2>6. /\ p.epSquare + push_inc(c) = p.epSquare - push_inc(p.turn)
        /\ p.epSquare - push_inc(c) = p.epSquare + push_inc(p.turn)
    BY <2>4, <2>5
  <2>7. QED
    BY <1>1, <1>2, <2>1, <2>3, <2>4, <2>6 DEF Rank
<1>3. QED
  BY <1>1, <1>2 DEF EpSound

\* The position that an opening is read as.
LEMMA StartSound ==
    ASSUME NEW x \in Starts, NEW p, p = pos_set(x.fen, FALSE)
    PROVE  Sound(p) /\ Cells(p) /\ Keyed(p) /\ p.rule50 \in 0..99
<1>1. /\ IsFen(x.fen) /\ Accepted(x.fen)
      /\ \A c \in Color : CastleRooks(p, c) # {} => pos_king_square(p, c) \in Rank(7 * c)
  BY ChessAssumption
<1>2. BoardOK(p) /\ Keyed(p) /\ p.rule50 = x.fen.rule50 /\ p.epSquare = x.fen.epSquare
      /\ p.turn = x.fen.turn
  BY <1>1, StartBoard
<1>3. Verified(p) /\ p.rule50 \in 0..99
  BY <1>1, <1>2 DEF Accepted
<1>4. ASSUME NEW c \in Color
      PROVE  HasKing(p, c) /\ \A s, t \in pos_pieces_cp(p, c, "KING") : s = t
  <2>1. bb_count(pos_pieces_cp(p, c, "KING")) = 1
    BY <1>3 DEF Verified
  <2>2. pos_pieces_cp(p, c, "KING") \subseteq Square
    BY <1>2 DEF BoardOK, pos_pieces_cp
  <2>3. QED
    BY <2>1, <2>2, OneOfThem DEF HasKing
<1>5. EpSound(p)
  <2>1. p.epSquare \in Square \union {NB_SQUARE} /\ p.turn \in Color
    BY <1>1, <1>2 DEF IsFen
  <2>2. QED
    BY <1>3, <2>1, VerifiedEp
<1>6. RightsSound(p)
  <2>1. ASSUME NEW c \in Color
        PROVE  /\ CastleRooks(p, c) \subseteq Rank(7 * c)
               /\ CastleRooks(p, c) \subseteq p.byPiece["ROOK"]
               /\ CastleRooks(p, c) # {} => pos_pieces_cp(p, c, "KING") \subseteq Rank(7 * c)
    <3>1. PICK s \in pos_pieces_cp(p, c, "KING") : s = pos_king_square(p, c)
      <4>1. PICK s \in pos_pieces_cp(p, c, "KING") : TRUE
        BY <1>4 DEF HasKing
      <4>2. s \in Square
        BY <1>2, <4>1 DEF BoardOK, pos_pieces_cp
      <4>3. pos_king_square(p, c) \in pos_pieces_cp(p, c, "KING")
        BY <4>1, <4>2 DEF pos_king_square
      <4>4. QED
        BY <4>3
    <3>2. pos_pieces_cp(p, c, "KING") = {pos_king_square(p, c)}
      BY <1>4, <3>1, ZenonT(40)
    <3>3. CastleRooks(p, c) \subseteq Rank(7 * c)
          /\ CastleRooks(p, c) \subseteq pos_pieces_cp(p, c, "ROOK")
      BY <1>3 DEF Verified
    <3>4. QED
      BY <1>1, <3>2, <3>3 DEF pos_pieces_cp
  <2>2. p.castleRooks \subseteq pos_pieces(p)
    BY <1>3 DEF Verified
  <2>3. QED
    BY <2>1, <2>2 DEF RightsSound, CastleRooks, pos_pieces, Color
<1>7. QED
  BY <1>2, <1>3, <1>4, <1>5, <1>6 DEF Sound, Cells, Keyed, Verified, PawnsSound, OneKing

\* The position that an opening is read as: no king can be captured.
LEMMA StartReady ==
    ASSUME NEW x \in Starts, NEW p, p = pos_set(x.fen, FALSE)
    PROVE  Ready(p)
<1>1. /\ IsFen(x.fen) /\ Accepted(x.fen) /\ ~Rules!InCheck(x.fen.pieces, opposite(p.turn))
      /\ p.epSquare # NB_SQUARE =>
           \A s \in p.checkers :
              s \in p.byPiece["KNIGHT"] \union p.byPiece["PAWN"]
                => s = p.epSquare - push_inc(p.turn)
  BY ChessAssumption
<1>2. Sound(p)
  BY StartSound
<1>3. /\ Derived(p)
      /\ \A c \in Color, k \in Piece, s \in Square :
           <<c, k, s>> \in x.fen.pieces <=> s \in p.byColor[c] /\ s \in p.byPiece[k]
  <2>1. PICK fen : fen = x.fen
    OBVIOUS
  <2>2. IsFen(fen) /\ p = pos_set(fen, FALSE)
    BY <1>1, <2>1, Zenon
  <2>3. /\ Derived(p)
        /\ \A c \in Color, k \in Piece, s \in Square :
           <<c, k, s>> \in fen.pieces <=> s \in p.byColor[c] /\ s \in p.byPiece[k]
    BY <2>2, StartBoard, Zenon
  <2>4. QED
    BY <2>1, <2>3, Zenon
<1>4. ASSUME NEW c \in Color PROVE HasKing(p, c)
  <2>1. bb_count(pos_pieces_cp(p, c, "KING")) = 1
    BY <1>1 DEF Accepted, Verified
  <2>2. pos_pieces_cp(p, c, "KING") \subseteq Square
    BY <1>2 DEF Sound, BoardOK, pos_pieces_cp
  <2>3. QED
    BY <2>1, <2>2, OneOfThem DEF HasKing
<1>5. Places(p, x.fen.pieces)
  <2>1. ASSUME NEW y \in x.fen.pieces
        PROVE  y[1] \in Color /\ y[2] \in Piece /\ y[3] \in Square /\ y = <<y[1], y[2], y[3]>>
    BY <1>1 DEF IsFen
  <2>2. QED
    BY <1>3, <2>1 DEF Places
<1>6. Unhit(p, opposite(p.turn))
  <2>1. opposite(p.turn) \in Color
    BY <1>2, ColoredPieces DEF Sound, BoardOK
  <2>2. PICK s \in Square : pos_pieces_cp(p, opposite(p.turn), "KING") = {s}
    BY <1>2, <1>4, <2>1, KingSquare
  <2>3. QED
    BY <1>1, <1>2, <1>5, <2>1, <2>2, RulesCheck DEF Sound
<1>7. QED
  BY <1>1, <1>2, <1>3, <1>4, <1>6 DEF Ready, EpChecks

-----------------------------------------------------------------------------
(* The history of a game.                                                  *)

IsSequence(s) == \E S : s \in Seq(S)

\* The length of a sequence.
LEMMA Lengths ==
    ASSUME NEW s, IsSequence(s)
    PROVE  Len(s) \in Nat /\ DOMAIN s = 1..Len(s)
BY DEF IsSequence

\* What a sequence is with one element more.
LEMMA Appended ==
    ASSUME NEW s, IsSequence(s), NEW x
    PROVE  /\ IsSequence(Append(s, x)) /\ Len(Append(s, x)) = Len(s) + 1
           /\ Append(s, x)[Len(s) + 1] = x
           /\ \A k \in 1..Len(s) : Append(s, x)[k] = s[k]
<1>1. PICK S : s \in Seq(S)
  BY DEF IsSequence
<1>2. s \in Seq(S \union {x})
  BY <1>1, SeqDef
<1>3. Append(s, x) \in Seq(S \union {x}) /\ Len(Append(s, x)) = Len(s) + 1
  BY <1>2
<1>4. Append(s, x)[Len(s) + 1] = x /\ \A k \in 1..Len(s) : Append(s, x)[k] = s[k]
  BY <1>2
<1>5. QED
  BY <1>3, <1>4 DEF IsSequence

\* Positions and moves of a game fit together: each position is ready, has the key
\* of its pieces, rights and turn, and is what the move before has made of the one
\* before; and the game has not gone on after the fifty moves.
WellFormed(vec, moves) ==
    /\ IsSequence(vec) /\ IsSequence(moves) /\ Len(vec) = Len(moves) + 1
    /\ \A k \in 1..Len(vec) : /\ Ready(vec[k]) /\ Cells(vec[k]) /\ Keyed(vec[k])
                              /\ vec[k].rule50 \in 0..100
    /\ \A k \in 1..Len(moves) :
         /\ Generated(vec[k], moves[k]) /\ Played(vec[k], vec[k + 1], moves[k])
         /\ vec[k].rule50 < 100

History ==
    /\ WellFormed(vecPos, lastMoves)
    /\ start \in Starts /\ vecPos[1] = pos_set(start.fen, FALSE)
    /\ state = game_apply_chess_rules(vecPos)

\* A game goes on while its counter is below one hundred.
LEMMA NotFifty ==
    ASSUME NEW vec, game_apply_chess_rules(vec) = "NONE"
    PROVE  ~(Last(vec).rule50 >= 100)
BY DEF game_apply_chess_rules, FiftyMoves

\* A counter below one hundred may be counted on.
LEMMA CountedOn ==
    ASSUME NEW n \in 0..100, n < 100, NEW x, x = 0 \/ x = n + 1
    PROVE  x \in 0..100
OBVIOUS

\* A legal move more, and the game fits together still.
LEMMA OneMore ==
    ASSUME NEW vec, NEW moves, WellFormed(vec, moves),
           NEW p, p = vec[Len(vec)], p.rule50 < 100,
           NEW m \in gen_all_moves(p)
    PROVE  WellFormed(Append(vec, pos_move(p, m)), Append(moves, m))
<1>1. PICK q : q = pos_move(p, m)
  OBVIOUS
<1>2. /\ Len(vec) \in Nat /\ Len(moves) \in Nat /\ Len(vec) = Len(moves) + 1
      /\ Len(vec) \in 1..Len(vec)
  BY Lengths DEF WellFormed
<1>3. /\ Ready(p) /\ Sound(p) /\ HasKing(p, p.turn)
      /\ Cells(p) /\ Keyed(p) /\ p.rule50 \in 0..100
  BY <1>2 DEF WellFormed, Ready, Sound, BoardOK, Ready
<1>4. Generated(p, m)
  BY <1>3, AllMoves
<1>5. Cells(q) /\ Keyed(q) /\ Derived(q) /\ Played(p, q, m)
  BY <1>1, <1>3, <1>4, MoveBoard
<1>6. Ready(q)
  <2>1. Sound(q)
    BY <1>3, <1>4, <1>5, MoveSound DEF Cells
  <2>2. QED
    BY <1>3, <1>5, <2>1, ReadyGoesOn
<1>7. q.rule50 \in 0..100
  <2>1. q.rule50 = 0 \/ q.rule50 = p.rule50 + 1
    BY <1>5 DEF Played
  <2>2. QED
    BY <1>3, <2>1, CountedOn
<1>8. PICK v, w : v = Append(vec, q) /\ w = Append(moves, m)
  OBVIOUS
<1>9. /\ IsSequence(v) /\ IsSequence(w) /\ Len(v) = Len(vec) + 1 /\ Len(w) = Len(moves) + 1
      /\ v[Len(vec) + 1] = q /\ w[Len(moves) + 1] = m
      /\ \A k \in 1..Len(vec) : v[k] = vec[k]
      /\ \A k \in 1..Len(moves) : w[k] = moves[k]
  BY <1>8, Appended DEF WellFormed
<1>10. ASSUME NEW k \in 1..Len(v)
       PROVE  Ready(v[k]) /\ Cells(v[k]) /\ Keyed(v[k]) /\ v[k].rule50 \in 0..100
  <2>1. CASE k \in 1..Len(vec)
    BY <1>9, <2>1 DEF WellFormed
  <2>2. CASE k = Len(vec) + 1
    BY <1>5, <1>6, <1>7, <1>9, <2>2
  <2>3. QED
    BY <1>2, <1>9, <2>1, <2>2
<1>11. ASSUME NEW k \in 1..Len(w)
       PROVE  /\ Generated(v[k], w[k]) /\ Played(v[k], v[k + 1], w[k])
              /\ v[k].rule50 < 100
  <2>1. CASE k \in 1..Len(moves)
    <3>1. k \in 1..Len(vec) /\ k + 1 \in 1..Len(vec)
      BY <1>2, <2>1
    <3>2. v[k] = vec[k] /\ v[k + 1] = vec[k + 1] /\ w[k] = moves[k]
      BY <1>9, <2>1, <3>1
    <3>3. QED
      BY <2>1, <3>2 DEF WellFormed
  <2>2. CASE k = Len(moves) + 1
    <3>1. v[k] = p /\ v[k + 1] = q /\ w[k] = m
      BY <1>2, <1>9, <2>2
    <3>2. QED
      BY <1>4, <1>5, <3>1
  <2>3. QED
    BY <1>2, <1>9, <2>1, <2>2
<1>12. QED
  BY <1>1, <1>2, <1>8, <1>9, <1>10, <1>11 DEF WellFormed

\* The opening, as pos_set has accepted it, is a history.
LEMMA HistoryStarts == Init => History
<1> SUFFICES ASSUME Init PROVE History
  OBVIOUS
<1>1. PICK p : p = pos_set(start.fen, FALSE)
  OBVIOUS
<1>2. /\ start \in Starts /\ vecPos = <<p>> /\ lastMoves = <<>>
      /\ state = game_apply_chess_rules(vecPos)
  BY <1>1 DEF Init
<1>3. Ready(p) /\ Cells(p) /\ Keyed(p) /\ p.rule50 \in 0..99
  BY <1>1, <1>2, StartSound, StartReady
<1>4. /\ <<p>> \in Seq({p}) /\ Len(<<p>>) = 1 /\ <<p>>[1] = p
      /\ <<>> \in Seq({p}) /\ Len(<<>>) = 0
  OBVIOUS
<1>5. WellFormed(vecPos, lastMoves)
  <2>1. IsSequence(vecPos) /\ IsSequence(lastMoves)
    BY <1>2, <1>4 DEF IsSequence
  <2>2. Len(vecPos) = 1 /\ Len(lastMoves) = 0 /\ vecPos[1] = p
    BY <1>2, <1>4
  <2>3. QED
    BY <1>3, <2>1, <2>2 DEF WellFormed
<1>6. QED
  BY <1>1, <1>2, <1>4, <1>5 DEF History

\* History is inductive: a step of the game leaves it a history.
LEMMA HistoryGoesOn == History /\ [Play]_vars => History'
<1> SUFFICES ASSUME History, [Play]_vars PROVE History'
  OBVIOUS
<1>1. CASE Play
  <2>1. /\ state = "NONE" /\ state = game_apply_chess_rules(vecPos)
        /\ WellFormed(vecPos, lastMoves)
    BY <1>1 DEF Play, History
  <2>2. PICK p : p = vecPos[Len(vecPos)]
    OBVIOUS
  <2>3. PICK m \in gen_all_moves(p) :
          vecPos' = Append(vecPos, pos_move(p, m)) /\ lastMoves' = Append(lastMoves, m)
    BY <1>1, <2>2 DEF Play, Last
  <2>4. Len(vecPos) \in Nat /\ Len(vecPos) \in 1..Len(vecPos) /\ 1 \in 1..Len(vecPos)
    BY <2>1, Lengths DEF WellFormed
  <2>5. p.rule50 \in 0..100
    BY <2>1, <2>2, <2>4 DEF WellFormed
  <2>7. p.rule50 < 100
    <3>1. ~(p.rule50 >= 100)
      BY <2>1, <2>2, NotFifty DEF Last
    <3>2. QED
      BY <2>5, <3>1
  <2>8. WellFormed(vecPos', lastMoves')
    BY <2>1, <2>2, <2>3, <2>7, OneMore
  <2>9. vecPos'[1] = vecPos[1]
    BY <2>1, <2>3, <2>4, Appended DEF WellFormed
  <2>10. start' = start /\ state' = game_apply_chess_rules(vecPos')
    BY <1>1 DEF Play
  <2>11. QED
    BY <2>8, <2>9, <2>10 DEF History
<1>2. CASE UNCHANGED vars
  BY <1>2 DEF History, vars
<1>3. QED
  BY <1>1, <1>2

\* In every state of every game the positions and moves fit together: each
\* position is sound, has its key and its derived fields, its side to move cannot
\* capture the king, and it is what pos_move has made of the one before.
THEOREM HistoryHolds == Spec => []History
<1>1. QED
  BY HistoryStarts, HistoryGoesOn, PTL DEF Spec

\* One move more: the game before is the beginning of the game after.
Extended(vec, moves, v, w) ==
    /\ WellFormed(vec, moves) /\ WellFormed(v, w)
    /\ Len(v) = Len(vec) + 1 /\ Len(w) = Len(moves) + 1
    /\ \A k \in 1..Len(vec) : v[k] = vec[k]
    /\ \A k \in 1..Len(moves) : w[k] = moves[k]

\* A move extends the history of the game and changes nothing of it.
LEMMA PlayExtends ==
    History /\ Play
      => History' /\ Extended(vecPos, lastMoves, vecPos', lastMoves')
<1> SUFFICES ASSUME History, Play
             PROVE  History' /\ Extended(vecPos, lastMoves, vecPos', lastMoves')
  OBVIOUS
<1>1. WellFormed(vecPos, lastMoves) /\ History'
  BY HistoryGoesOn DEF History
<1>2. WellFormed(vecPos', lastMoves')
  BY <1>1 DEF History
<1>3. PICK q, m : vecPos' = Append(vecPos, q) /\ lastMoves' = Append(lastMoves, m)
  BY DEF Play
<1>4. /\ Len(vecPos') = Len(vecPos) + 1 /\ \A k \in 1..Len(vecPos) : vecPos'[k] = vecPos[k]
      /\ Len(lastMoves') = Len(lastMoves) + 1
      /\ \A k \in 1..Len(lastMoves) : lastMoves'[k] = lastMoves[k]
  BY <1>1, <1>3, Appended DEF WellFormed
<1>5. QED
  BY <1>1, <1>2, <1>4 DEF Extended

-----------------------------------------------------------------------------
(* The fifty moves.                                                        *)

Marks(vec, moves) ==
    {k \in DOMAIN moves :
       \/ pos_piece_on(vec[k], moves[k].from) = "PAWN"
       \/ moves[k].to \in vec[k].byColor[opposite(vec[k].turn)]}
QuietPlies(vec, moves) ==
    IF Marks(vec, moves) = {} THEN vec[1].rule50 + Len(moves)
    ELSE Len(moves) - (CHOOSE k \in Marks(vec, moves) : \A j \in Marks(vec, moves) : j <= k)

\* Quiet counts the quiet plies of the game.
LEMMA QuietIs ==
    /\ Quiet = QuietPlies(vecPos, lastMoves)
    /\ Quiet' = QuietPlies(vecPos', lastMoves')
<1>1. Quiet = QuietPlies(vecPos, lastMoves)
  BY Zenon DEF Quiet, QuietPlies, Marks, Irreversible
<1>2. Quiet' = QuietPlies(vecPos', lastMoves')
  BY Zenon DEF Quiet, QuietPlies, Marks, Irreversible
<1>3. QED
  BY <1>1, <1>2

\* If there are marks, there is a last one.
HasLast(vec, moves) ==
    Marks(vec, moves) # {} =>
      \E k \in Marks(vec, moves) : \A j \in Marks(vec, moves) : j <= k

\* The counter, and the plies since the last mark.
Counted(vec, moves) ==
    /\ HasLast(vec, moves)
    /\ QuietPlies(vec, moves) \in Nat
    /\ vec[Len(vec)].rule50 <= QuietPlies(vec, moves)
    /\ vec[Len(vec)].rule50 < QuietPlies(vec, moves) =>
         \E k \in DOMAIN moves : pos_move_is_castling(vec[k], moves[k])

\* Plies go on being counted, or start again.
LEMMA QuietGoesOn ==
    ASSUME NEW vec, NEW moves, NEW v, NEW w, Extended(vec, moves, v, w), HasLast(vec, moves)
    PROVE  /\ HasLast(v, w)
           /\ Len(w) \in Marks(v, w) => QuietPlies(v, w) = 0
           /\ Len(w) \notin Marks(v, w) /\ QuietPlies(vec, moves) \in Nat
                => QuietPlies(v, w) = QuietPlies(vec, moves) + 1
<1> DEFINE n == Len(moves)
<1>1. /\ n \in Nat /\ Len(w) = n + 1 /\ DOMAIN moves = 1..n /\ DOMAIN w = 1..(n + 1)
      /\ Len(vec) = n + 1
  BY Lengths DEF Extended, WellFormed
<1>2. \A k \in 1..n : v[k] = vec[k] /\ w[k] = moves[k]
  BY <1>1 DEF Extended
<1>3. v[1] = vec[1]
  BY <1>1 DEF Extended
<1>4. \A k \in 1..n : k \in Marks(v, w) <=> k \in Marks(vec, moves)
  <2>1. TAKE k \in 1..n
  <2>2. k \in DOMAIN w /\ k \in DOMAIN moves /\ v[k] = vec[k] /\ w[k] = moves[k]
    BY <1>1, <1>2
  <2>3. QED
    BY <2>2, Zenon DEF Marks
<1>5. Marks(vec, moves) \subseteq 1..n /\ Marks(v, w) \subseteq 1..(n + 1)
  BY <1>1 DEF Marks
<1>6. ASSUME Len(w) \in Marks(v, w) PROVE HasLast(v, w) /\ QuietPlies(v, w) = 0
  <2> DEFINE M == Marks(v, w)
  <2>1. n + 1 \in M /\ M \subseteq 1..(n + 1)
    BY <1>1, <1>5, <1>6
  <2> HIDE DEF M
  <2>2. (CHOOSE k \in M : \A j \in M : j <= k) = n + 1
    <3>1. \A j \in M : j <= n + 1
      BY <1>1, <2>1
    <3>2. \A k \in M : (\A j \in M : j <= k) => k = n + 1
      BY <1>1, <2>1
    <3>3. QED
      BY <2>1, <3>1, <3>2
  <2>3. QuietPlies(v, w) = (n + 1) - (n + 1)
    <3>1. QuietPlies(v, w) = Len(w) - (CHOOSE k \in M : \A j \in M : j <= k)
      BY <2>1 DEF QuietPlies, M
    <3>2. QED
      BY <1>1, <2>2, <3>1
  <2>4. HasLast(v, w)
    BY <1>1, <2>1 DEF HasLast, M
  <2>5. QED
    BY <1>1, <2>3, <2>4
<1>9. ASSUME Len(w) \notin Marks(v, w)
      PROVE  Marks(v, w) = Marks(vec, moves) /\ HasLast(v, w)
  <2>1. Marks(v, w) = Marks(vec, moves)
    BY <1>1, <1>4, <1>5, <1>9
  <2>2. QED
    BY <2>1 DEF HasLast
<1>7. ASSUME Len(w) \notin Marks(v, w), QuietPlies(vec, moves) \in Nat
      PROVE  QuietPlies(v, w) = QuietPlies(vec, moves) + 1
  <2>1. Marks(v, w) = Marks(vec, moves)
    BY <1>7, <1>9
  <2>2. CASE Marks(vec, moves) = {}
    <3>1. QuietPlies(v, w) = vec[1].rule50 + (n + 1) /\ QuietPlies(vec, moves) = vec[1].rule50 + n
      BY <1>1, <1>3, <2>1, <2>2 DEF QuietPlies
    <3>2. vec[1].rule50 \in Int
      <4>1. 1 \in 1..Len(vec)
        BY <1>1
      <4>2. vec[1].rule50 \in 0..100
        BY <4>1 DEF Extended, WellFormed
      <4>3. QED
        BY <4>2
    <3>3. QED
      BY <1>1, <3>1, <3>2
  <2>3. CASE Marks(vec, moves) # {}
    <3>1. PICK c : c = CHOOSE k \in Marks(vec, moves) : \A j \in Marks(vec, moves) : j <= k
      OBVIOUS
    <3>2. QuietPlies(v, w) = (n + 1) - c /\ QuietPlies(vec, moves) = n - c
      BY <1>1, <2>1, <2>3, <3>1, Zenon DEF QuietPlies
    <3>3. c \in 1..n
      BY <1>5, <2>3, <3>1 DEF HasLast
    <3>4. QED
      BY <1>1, <3>2, <3>3
  <2>4. QED
    BY <2>2, <2>3
<1>8. QED
  BY <1>6, <1>7, <1>9

\* Counting goes on with a move more.
LEMMA CountedGoesOn ==
    ASSUME NEW vec, NEW moves, NEW v, NEW w, Extended(vec, moves, v, w), Counted(vec, moves)
    PROVE  Counted(v, w)
<1>1. PICK n \in Nat : n = Len(moves)
  BY Lengths DEF Extended, WellFormed
<1>2. /\ Len(w) = n + 1 /\ Len(v) = n + 2 /\ Len(vec) = n + 1
      /\ DOMAIN moves = 1..n /\ DOMAIN w = 1..(n + 1)
  BY <1>1, Lengths DEF Extended, WellFormed
<1>3. PICK p, q, m : p = vec[n + 1] /\ q = v[n + 2] /\ m = w[n + 1]
  OBVIOUS
<1>4. v[n + 1] = p
  BY <1>1, <1>2, <1>3 DEF Extended
<1>5. Sound(p) /\ Generated(p, m) /\ Played(p, q, m) /\ p.rule50 \in 0..100
  <2>1. n + 1 \in 1..Len(vec) /\ n + 1 \in 1..Len(w) /\ (n + 1) + 1 = n + 2
    BY <1>2
  <2>2. QED
    BY <1>3, <1>4, <2>1 DEF Extended, WellFormed, Ready
<1>6. q.rule50 = IF m.to \in pos_pieces(p) \/ m.from \in p.byPiece["PAWN"] THEN 0 ELSE p.rule50 + 1
  BY <1>5 DEF Played
<1>7. n + 1 \in Marks(v, w) <=>
        pos_piece_on(p, m.from) = "PAWN" \/ m.to \in p.byColor[opposite(p.turn)]
  BY <1>2, <1>3, <1>4 DEF Marks
<1>8. pos_piece_on(p, m.from) = "PAWN" <=> m.from \in p.byPiece["PAWN"]
  <2>1. m.from \in p.byPiece["PAWN"] => pos_piece_on(p, m.from) = "PAWN"
    BY <1>5, PieceOn DEF Sound, Piece
  <2>2. m.from \notin p.byPiece["PAWN"] => pos_piece_on(p, m.from) # "PAWN"
    BY <1>5, PieceOn DEF Sound, Piece, NB_PIECE, pos_piece_on
  <2>3. QED
    BY <2>1, <2>2
<1>9. m.to \in pos_pieces(p) <=> m.to \in p.byColor[opposite(p.turn)] \/ m.to \in p.byColor[p.turn]
  BY <1>5 DEF Sound, BoardOK, pos_pieces, Color, WHITE, BLACK, opposite
<1>12. /\ HasLast(v, w)
       /\ n + 1 \in Marks(v, w) => QuietPlies(v, w) = 0
       /\ n + 1 \notin Marks(v, w) => QuietPlies(v, w) = QuietPlies(vec, moves) + 1
  <2>1. HasLast(vec, moves) /\ QuietPlies(vec, moves) \in Nat
    BY DEF Counted
  <2>2. QED
    BY <1>2, <2>1, QuietGoesOn
<1>10. CASE n + 1 \in Marks(v, w)
  <2>1. q.rule50 = 0 /\ QuietPlies(v, w) = 0
    BY <1>2, <1>6, <1>7, <1>8, <1>9, <1>10, <1>12
  <2>2. QED
    BY <1>2, <1>3, <1>12, <2>1 DEF Counted
<1>11. CASE n + 1 \notin Marks(v, w)
  <2>1. PICK i \in 0..100 : i = p.rule50
    BY <1>5
  <2>2. PICK j \in Nat : j = QuietPlies(vec, moves)
    BY DEF Counted
  <2>3. QuietPlies(v, w) = j + 1
    BY <1>2, <1>11, <1>12, <2>2
  <2>4. i <= j /\ (i < j => \E k \in DOMAIN moves : pos_move_is_castling(vec[k], moves[k]))
    BY <1>2, <1>3, <2>1, <2>2 DEF Counted
  <2>5. ASSUME NEW k \in DOMAIN moves, pos_move_is_castling(vec[k], moves[k])
        PROVE  k \in DOMAIN w /\ pos_move_is_castling(v[k], w[k])
    BY <1>1, <1>2, <2>5 DEF Extended
  <2>6. CASE m.to \in p.byColor[p.turn]
    <3>1. q.rule50 = 0
      BY <1>6, <1>9, <2>6
    <3>2. n + 1 \in DOMAIN w /\ pos_move_is_castling(v[n + 1], w[n + 1])
      BY <1>2, <1>3, <1>4, <2>6 DEF pos_move_is_castling
    <3>3. QED
      BY <1>2, <1>3, <1>12, <2>2, <2>3, <3>1, <3>2 DEF Counted
  <2>7. CASE m.to \notin p.byColor[p.turn]
    <3>1. q.rule50 = i + 1
      BY <1>6, <1>7, <1>8, <1>9, <1>11, <2>1, <2>7
    <3>2. v[Len(v)].rule50 = i + 1
      BY <1>2, <1>3, <3>1
    <3>3. i + 1 <= j + 1 /\ j + 1 \in Nat /\ (i + 1 < j + 1 => i < j)
      BY <2>4
    <3>4. QED
      BY <1>12, <2>3, <2>4, <2>5, <3>2, <3>3 DEF Counted
  <2>8. QED
    BY <2>6, <2>7
<1>13. QED
  BY <1>10, <1>11

\* It starts with the counter of the opening.
LEMMA CountedStarts == Init /\ History => Counted(vecPos, lastMoves)
<1> SUFFICES ASSUME Init, History PROVE Counted(vecPos, lastMoves)
  OBVIOUS
<1>1. Len(lastMoves) = 0 /\ DOMAIN lastMoves = {} /\ Len(vecPos) = 1
  BY Lengths DEF Init, History, WellFormed
<1>2. Marks(vecPos, lastMoves) = {}
  BY <1>1 DEF Marks
<1>3. vecPos[1].rule50 \in 0..100
  <2>1. 1 \in 1..Len(vecPos)
    BY <1>1
  <2>2. QED
    BY <2>1 DEF History, WellFormed
<1>4. PICK i \in 0..100 : i = vecPos[1].rule50
  BY <1>3
<1>5. QuietPlies(vecPos, lastMoves) = i
  <2>1. QuietPlies(vecPos, lastMoves) = i + 0
    BY <1>1, <1>2, <1>4, Zenon DEF QuietPlies
  <2>2. QED
    BY <2>1
<1>6. HasLast(vecPos, lastMoves)
  BY <1>2 DEF HasLast
<1>7. i \in Nat /\ i <= i /\ ~(i < i)
  BY <1>4
<1>8. QED
  BY <1>1, <1>4, <1>5, <1>6, <1>7, Zenon DEF Counted

\* Counted is inductive.
LEMMA CountedStays ==
    History /\ Counted(vecPos, lastMoves) /\ [Play]_vars
      => Counted(vecPos, lastMoves)'
<1> SUFFICES ASSUME History, Counted(vecPos, lastMoves), [Play]_vars
             PROVE  Counted(vecPos', lastMoves')
  OBVIOUS
<1>1. CASE Play
  BY <1>1, PlayExtends, CountedGoesOn
<1>2. CASE UNCHANGED vars
  BY <1>2 DEF vars
<1>3. QED
  BY <1>1, <1>2

\* The game stops with the fifty moves.
LEMMA InTime == History /\ Counted(vecPos, lastMoves) => FiftyMovesInTime
<1> SUFFICES ASSUME History, Counted(vecPos, lastMoves) PROVE FiftyMovesInTime
  OBVIOUS
<1>1. PICK p : p = Last(vecPos)
  OBVIOUS
<1>2. p = vecPos[Len(vecPos)] /\ p.rule50 \in 0..100
  <2>1. Len(vecPos) \in 1..Len(vecPos)
    BY Lengths DEF History, WellFormed
  <2>2. QED
    BY <1>1, <2>1 DEF History, WellFormed, Last
<1>3. /\ p.rule50 <= 100 /\ p.rule50 <= Quiet
      /\ p.rule50 < Quiet => \E k \in DOMAIN lastMoves :
            pos_move_is_castling(vecPos[k], lastMoves[k])
  <2>1. \A i \in 0..100 : i <= 100
    OBVIOUS
  <2>2. QED
    BY <1>2, <2>1, QuietIs, Zenon DEF Counted
<1>4. /\ p.rule50 >= 100 => state = IF gen_all_moves(p) # {}
                                   THEN "FIFTY_MOVES"
                                   ELSE IF p.checkers # {} THEN "CHECKMATE" ELSE "STALEMATE"
      /\ state = "FIFTY_MOVES" => p.rule50 >= 100
  <2>1. state = IF gen_all_moves(p) = {}
                THEN IF p.checkers # {} THEN "CHECKMATE" ELSE "STALEMATE"
                ELSE IF p.rule50 >= 100 THEN "FIFTY_MOVES"
                ELSE IF pos_insufficient_material(p) THEN "INSUFFICIENT_MATERIAL"
                ELSE IF Repetitions(vecPos) >= 3 THEN "THREEFOLD" ELSE "NONE"
    BY <1>1, Zenon DEF History, game_apply_chess_rules, FiftyMoves
  <2>2. QED
    BY <2>1
<1>5. QED
  BY <1>1, <1>3, <1>4, Zenon DEF FiftyMovesInTime

\* The counter of pos_move is never ahead of the plies without a capture or a
\* pawn move, and behind them only if a castling has reset it; and
\* game_apply_chess_rules ends the game when it reaches one hundred, unless it is
\* mate or stalemate.
THEOREM FiftyMovesCounted == Spec => []FiftyMovesInTime
<1>1. QED
  BY HistoryStarts, HistoryGoesOn, CountedStarts, CountedStays, InTime, PTL DEF Spec

-----------------------------------------------------------------------------
(* What a move does to the pieces, as the rules say it.                    *)

\* What is placed on the board of a position.
LEMMA Placed ==
    ASSUME NEW p, BoardOK(p)
    PROVE  /\ \A x \in Placement(p) :
                /\ x[1] \in Color /\ x[2] \in Piece /\ x[3] \in Square
                /\ x = <<x[1], x[2], x[3]>> /\ x[3] \in p.byColor[x[1]] /\ x[3] \in p.byPiece[x[2]]
           /\ \A c \in Color, k \in Piece, s \in Square :
                <<c, k, s>> \in Placement(p) <=> s \in p.byColor[c] /\ s \in p.byPiece[k]
<1>1. \A x : x \in Placement(p) <=>
        \E c \in Color, k \in Piece : \E s \in p.byColor[c] \intersect p.byPiece[k] : x = <<c, k, s>>
  <2> DEFINE cells(c, k) == {<<c, k, s>> : s \in pos_pieces_cp(p, c, k)}
  <2>1. Placement(p) = UNION {cells(c, k) : c \in Color, k \in Piece}
    BY DEF Placement
  <2>2. \A c, k, x : x \in cells(c, k) <=>
          \E s \in p.byColor[c] \intersect p.byPiece[k] : x = <<c, k, s>>
    BY DEF pos_pieces_cp
  <2> HIDE DEF cells
  <2>3. \A x : x \in Placement(p) <=> \E c \in Color, k \in Piece : x \in cells(c, k)
    BY <2>1
  <2>4. QED
    BY <2>2, <2>3
<1>2. ASSUME NEW c \in Color, NEW k \in Piece, NEW s \in p.byColor[c] \intersect p.byPiece[k]
      PROVE  s \in Square
  BY DEF BoardOK
<1>3. ASSUME NEW x \in Placement(p)
      PROVE  /\ x[1] \in Color /\ x[2] \in Piece /\ x[3] \in Square
             /\ x = <<x[1], x[2], x[3]>> /\ x[3] \in p.byColor[x[1]] /\ x[3] \in p.byPiece[x[2]]
  <2>1. PICK c \in Color, k \in Piece, s \in Square :
          s \in p.byColor[c] \intersect p.byPiece[k] /\ x = <<c, k, s>>
    BY <1>1, <1>2
  <2>2. x[1] = c /\ x[2] = k /\ x[3] = s /\ s \in Square
    BY <1>2, <2>1
  <2>3. QED
    BY <2>1, <2>2
<1>4. ASSUME NEW c \in Color, NEW k \in Piece, NEW s \in Square
      PROVE  <<c, k, s>> \in Placement(p) <=> s \in p.byColor[c] /\ s \in p.byPiece[k]
  <2>1. ASSUME <<c, k, s>> \in Placement(p) PROVE s \in p.byColor[c] /\ s \in p.byPiece[k]
    <3>1. PICK x \in Placement(p) : x = <<c, k, s>>
      BY <2>1
    <3>2. x[1] = c /\ x[2] = k /\ x[3] = s
      BY <3>1
    <3>3. QED
      BY <1>3, <3>2
  <2>2. ASSUME s \in p.byColor[c] /\ s \in p.byPiece[k] PROVE <<c, k, s>> \in Placement(p)
    BY <1>1, <2>2
  <2>3. QED
    BY <2>1, <2>2
<1>5. QED
  BY <1>3, <1>4

\* The rules, in terms of the squares that change.
LEMMA AfterIs ==
    ASSUME NEW p, Sound(p), NEW m, Generated(p, m), NEW P, P = Placement(p)
    PROVE  Rules!After(P, p.turn, p.epSquare, m) =
             IF Castles(p, m)
             THEN {x \in P : x[3] # m.from /\ x[3] # m.to}
                    \union {<<p.turn, "KING", Rules!KingTo(m.from, m.to)>>,
                            <<p.turn, "ROOK", Rules!RookTo(m.from, m.to)>>}
             ELSE {x \in P : x[3] # m.from /\ x[3] # Taken(p, m)}
                    \union {<<p.turn, Now(p, m), m.to>>}
<1> DEFINE k == pos_piece_on(p, m.from)
           us == p.turn
<1>1. /\ m.from \in Square /\ m.to \in Square /\ m.from # m.to /\ us \in Color
      /\ m.from \in p.byColor[us]
      /\ Castles(p, m) <=> m.to \in p.byColor[us]
  BY CastleSquares, PawnSquares DEF Generated, PieceMove, Sound, BoardOK
<1>2. k \in Piece /\ m.from \in p.byPiece[k]
  BY <1>1, PieceOn DEF Sound, pos_pieces, Color
<1>3. PICK x : x = CHOOSE y \in P : y[3] = m.from
  OBVIOUS
<1>4. x[1] = us /\ x[2] = k
  <2>1. BoardOK(p)
    BY DEF Sound
  <2>2. PICK z : z = <<us, k, m.from>>
    OBVIOUS
  <2>3. z \in P /\ z[3] = m.from
    BY <1>1, <1>2, <2>1, <2>2, Placed
  <2>4. x \in P /\ x[3] = m.from
    BY <1>3, <2>3
  <2>5. x[1] \in Color /\ x[2] \in Piece /\ m.from \in p.byColor[x[1]] /\ m.from \in p.byPiece[x[2]]
    BY <2>1, <2>4, Placed
  <2>6. QED
    BY <1>1, <1>2, <2>5, <2>1 DEF BoardOK, Color, WHITE, BLACK
<1>5. Rules!Own(P, us, m.to) <=> Castles(p, m)
  <2>1. \A y \in P : y[1] \in Color /\ y[3] \in p.byColor[y[1]]
    BY Placed DEF Sound
  <2>2. ASSUME Castles(p, m) PROVE Rules!Own(P, us, m.to)
    <3>1. m.to \in pos_pieces(p) /\ m.to \in p.byColor[us]
      BY <1>1, <2>2 DEF pos_pieces, Color
    <3>2. PICK l \in Piece : m.to \in p.byPiece[l]
      BY <3>1, PieceOn DEF Sound
    <3>3. PICK z : z = <<us, l, m.to>>
      OBVIOUS
    <3>4. z \in P /\ z[1] = us /\ z[3] = m.to
      BY <1>1, <3>1, <3>2, <3>3, Placed DEF Sound
    <3>5. QED
      BY <3>4 DEF Rules!Own, Rules!On
  <2>3. ASSUME Rules!Own(P, us, m.to) PROVE Castles(p, m)
    BY <1>1, <2>1, <2>3 DEF Rules!Own, Rules!On
  <2>4. QED
    BY <2>2, <2>3
<1>6. k = "PAWN" <=> m.from \in p.byPiece["PAWN"]
  BY <1>2, PieceOn DEF Sound, Piece
<1> DEFINE taken == IF x[2] = "PAWN" /\ m.to = p.epSquare
                    THEN 8 * Rules!rank_of(m.from) + Rules!file_of(m.to) ELSE m.to
<1>7. taken = Taken(p, m)
  <2>1. CASE x[2] = "PAWN" /\ m.to = p.epSquare
    <3>1. EpMove(p, m)
      BY <1>1, <1>4, <1>6, <2>1, PawnSquares, CastleSquares
         DEF Generated, PieceMove, Sound, BoardOK, Piece
    <3>2. m.from \in PawnAttacks[opposite(us)][m.to] /\ opposite(us) \in Color
      BY <1>1, <3>1, Directions DEF EpMove
    <3>3. \/ m.to % 8 # 0 /\ m.from = m.to + push_inc(opposite(us)) - 1
          \/ m.to % 8 # 7 /\ m.from = m.to + push_inc(opposite(us)) + 1
      BY <1>1, <3>2, PawnCaptures
    <3>4. push_inc(opposite(us)) = -push_inc(us) /\ push_inc(us) \in {8, -8}
      BY <1>1 DEF push_inc, opposite, Color, WHITE, BLACK
    <3>5. 8 * (m.from \div 8) + (m.to % 8) = m.to - push_inc(us)
      BY <1>1, <3>3, <3>4 DEF Square, NB_SQUARE
    <3>6. taken = 8 * (m.from \div 8) + (m.to % 8)
      BY <2>1 DEF Rules!rank_of, Rules!file_of
    <3>7. QED
      BY <1>4, <1>6, <2>1, <3>5, <3>6 DEF Taken
  <2>2. CASE ~(x[2] = "PAWN" /\ m.to = p.epSquare)
    BY <1>4, <1>6, <2>2 DEF Taken
  <2>3. QED
    BY <2>1, <2>2
<1>8. Castles(p, m) => Taken(p, m) = m.to
  BY <1>6, <1>1, CastleSquares DEF Taken, Sound, BoardOK, Piece
<1>9. Rules!After(P, us, p.epSquare, m) =
        LET rest == P \ (Rules!On(P, m.from) \union Rules!On(P, taken))
        IN  IF Rules!Own(P, us, m.to)
            THEN rest \union {<<us, "KING", Rules!KingTo(m.from, m.to)>>,
                              <<us, "ROOK", Rules!RookTo(m.from, m.to)>>}
            ELSE rest \union {<<us, IF m.prom = NB_PIECE THEN x[2] ELSE m.prom, m.to>>}
  BY <1>3, Zenon DEF Rules!After, Rules!NB_PIECE, NB_PIECE
<1> HIDE DEF taken
<1>10. P \ (Rules!On(P, m.from) \union Rules!On(P, taken)) =
         {y \in P : y[3] # m.from /\ y[3] # taken}
  BY DEF Rules!On
<1>11. (IF m.prom = NB_PIECE THEN x[2] ELSE m.prom) = Now(p, m)
  BY <1>4 DEF Now
<1>12. QED
  BY <1>5, <1>7, <1>8, <1>9, <1>10, <1>11, Zenon

\* pos_move places the pieces as the rules do.
LEMMA PlacedByRules ==
    ASSUME NEW p, Sound(p), NEW m, Generated(p, m), NEW q, BoardOK(q), Played(p, q, m)
    PROVE  Placement(q) = Rules!After(Placement(p), p.turn, p.epSquare, m)
<1> DEFINE P == Placement(p)
           us == p.turn
<1>1. /\ m.from \in Square /\ m.to \in Square /\ us \in Color
  BY CastleSquares, PawnSquares DEF Generated, PieceMove, Sound, BoardOK
<1>2. BoardOK(p)
  BY DEF Sound
<1>3. CASE Castles(p, m)
  <2>1. PICK kto, rto : kto = Rules!KingTo(m.from, m.to) /\ rto = Rules!RookTo(m.from, m.to)
    OBVIOUS
  <2>2. kto \in Square /\ rto \in Square /\ kto # rto
    BY <1>3, <2>1, CastleSquares
  <2>3. /\ \A d \in Color : q.byColor[d] = (p.byColor[d] \ {m.from, m.to})
                                  \union (IF d = us THEN {kto, rto} ELSE {})
        /\ \A l \in Piece : q.byPiece[l] = (p.byPiece[l] \ {m.from, m.to})
                                  \union (IF l = "KING" THEN {kto} ELSE {})
                                  \union (IF l = "ROOK" THEN {rto} ELSE {})
    BY <1>3, <2>1, Zenon DEF Played, Castled
  <2>4. ASSUME NEW c \in Color, NEW k \in Piece, NEW s \in Square
        PROVE  s \in q.byColor[c] /\ s \in q.byPiece[k] <=>
                 \/ s \in p.byColor[c] /\ s \in p.byPiece[k] /\ s # m.from /\ s # m.to
                 \/ c = us /\ k = "KING" /\ s = kto
                 \/ c = us /\ k = "ROOK" /\ s = rto
    <3>1. kto \in q.byColor[us] /\ kto \in q.byPiece["KING"] /\ rto \in q.byColor[us]
          /\ rto \in q.byPiece["ROOK"] /\ "KING" \in Piece /\ "ROOK" \in Piece
      BY <1>1, <2>3 DEF Piece
    <3>2. s \in {kto, rto} /\ s \in q.byColor[c] => c = us
      BY <1>1, <3>1 DEF BoardOK, Color, WHITE, BLACK
    <3>3. /\ s = kto /\ s \in q.byPiece[k] => k = "KING"
          /\ s = rto /\ s \in q.byPiece[k] => k = "ROOK"
      BY <3>1 DEF BoardOK
    <3>4. s \notin {kto, rto} => (s \in q.byColor[c] /\ s \in q.byPiece[k] <=>
             s \in p.byColor[c] /\ s \in p.byPiece[k] /\ s # m.from /\ s # m.to)
      BY <2>3
    <3>5. s \in p.byColor[c] /\ s \in p.byPiece[k] /\ s # m.from /\ s # m.to
             => s \in q.byColor[c] /\ s \in q.byPiece[k]
      BY <2>3
    <3>6. QED
      BY <2>2, <3>1, <3>2, <3>3, <3>4, <3>5
  <2>5. ASSUME NEW x
        PROVE  x \in Placement(q) <=>
                 x \in {y \in P : y[3] # m.from /\ y[3] # m.to}
                         \union {<<us, "KING", kto>>, <<us, "ROOK", rto>>}
    <3>1. CASE \E c \in Color, k \in Piece, s \in Square : x = <<c, k, s>>
      <4>1. PICK c \in Color, k \in Piece, s \in Square : x = <<c, k, s>>
        BY <3>1
      <4>2. /\ x[3] = s /\ (x = <<us, "KING", kto>> <=> c = us /\ k = "KING" /\ s = kto)
            /\ (x = <<us, "ROOK", rto>> <=> c = us /\ k = "ROOK" /\ s = rto)
        BY <4>1
      <4>3. x \in P <=> s \in p.byColor[c] /\ s \in p.byPiece[k]
        BY <1>2, <4>1, Placed
      <4>4. x \in Placement(q) <=> s \in q.byColor[c] /\ s \in q.byPiece[k]
        BY <4>1, Placed
      <4>5. QED
        BY <2>4, <4>2, <4>3, <4>4
    <3>2. CASE ~\E c \in Color, k \in Piece, s \in Square : x = <<c, k, s>>
      <4>1. x \notin P /\ x \notin Placement(q)
        BY <1>2, <3>2, Placed
      <4>2. "KING" \in Piece /\ "ROOK" \in Piece
        BY DEF Piece
      <4>3. QED
        BY <1>1, <2>2, <3>2, <4>1, <4>2
    <3>3. QED
      BY <3>1, <3>2
  <2>6. Placement(q) = {y \in P : y[3] # m.from /\ y[3] # m.to}
                         \union {<<us, "KING", kto>>, <<us, "ROOK", rto>>}
    BY <2>5
  <2>7. QED
    BY <1>3, <2>1, <2>6, AfterIs, Zenon
<1>4. CASE ~Castles(p, m)
  <2>1. PICK taken, now : taken = Taken(p, m) /\ now = Now(p, m)
    OBVIOUS
  <2>2. now \in Piece
    <3>1. CASE m.prom = NB_PIECE
      <4>1. m.from \in pos_pieces(p)
        BY <1>1, PawnSquares, <1>4 DEF Generated, PieceMove, pos_pieces, Color
      <4>2. QED
        BY <1>2, <2>1, <3>1, <4>1, PieceOn DEF Now
    <3>2. CASE m.prom # NB_PIECE
      BY <1>4, <2>1, <3>2 DEF Generated, PieceMove, PawnMove, EpMove, Promotion, Now, Piece
    <3>3. QED
      BY <3>1, <3>2
  <2>3. /\ \A d \in Color : q.byColor[d] = (p.byColor[d] \ {m.from, taken})
                                  \union (IF d = us THEN {m.to} ELSE {})
        /\ \A l \in Piece : q.byPiece[l] = (p.byPiece[l] \ {m.from, taken})
                                  \union (IF l = now THEN {m.to} ELSE {})
    BY <1>4, <2>1, Zenon DEF Played, Replaces
  <2>4. ASSUME NEW c \in Color, NEW k \in Piece, NEW s \in Square
        PROVE  s \in q.byColor[c] /\ s \in q.byPiece[k] <=>
                 \/ s \in p.byColor[c] /\ s \in p.byPiece[k] /\ s # m.from /\ s # taken
                 \/ c = us /\ k = now /\ s = m.to
    <3>1. m.to \in q.byColor[us] /\ m.to \in q.byPiece[now]
      BY <1>1, <2>2, <2>3
    <3>2. s = m.to /\ s \in q.byColor[c] => c = us
      BY <1>1, <3>1 DEF BoardOK, Color, WHITE, BLACK
    <3>3. s = m.to /\ s \in q.byPiece[k] => k = now
      BY <2>2, <3>1 DEF BoardOK
    <3>4. s # m.to => (s \in q.byColor[c] /\ s \in q.byPiece[k] <=>
             s \in p.byColor[c] /\ s \in p.byPiece[k] /\ s # m.from /\ s # taken)
      BY <2>3
    <3>5. s \in p.byColor[c] /\ s \in p.byPiece[k] /\ s # m.from /\ s # taken
             => s \in q.byColor[c] /\ s \in q.byPiece[k]
      BY <2>3
    <3>6. QED
      BY <3>1, <3>2, <3>3, <3>4, <3>5
  <2>5. ASSUME NEW x
        PROVE  x \in Placement(q) <=>
                 x \in {y \in P : y[3] # m.from /\ y[3] # taken} \union {<<us, now, m.to>>}
    <3>1. CASE \E c \in Color, k \in Piece, s \in Square : x = <<c, k, s>>
      <4>1. PICK c \in Color, k \in Piece, s \in Square : x = <<c, k, s>>
        BY <3>1
      <4>2. x[3] = s /\ (x = <<us, now, m.to>> <=> c = us /\ k = now /\ s = m.to)
        BY <4>1
      <4>3. x \in P <=> s \in p.byColor[c] /\ s \in p.byPiece[k]
        BY <1>2, <4>1, Placed
      <4>4. x \in Placement(q) <=> s \in q.byColor[c] /\ s \in q.byPiece[k]
        BY <4>1, Placed
      <4>5. QED
        BY <2>4, <4>2, <4>3, <4>4
    <3>2. CASE ~\E c \in Color, k \in Piece, s \in Square : x = <<c, k, s>>
      <4>1. x \notin P /\ x \notin Placement(q)
        BY <1>2, <3>2, Placed
      <4>2. QED
        BY <1>1, <2>2, <3>2, <4>1
    <3>3. QED
      BY <3>1, <3>2
  <2>6. Placement(q) = {y \in P : y[3] # m.from /\ y[3] # taken} \union {<<us, now, m.to>>}
    BY <2>5
  <2>7. Rules!After(P, us, p.epSquare, m) =
          {y \in P : y[3] # m.from /\ y[3] # Taken(p, m)} \union {<<us, Now(p, m), m.to>>}
    BY <1>4, AfterIs
  <2>8. QED
    BY <2>1, <2>6, <2>7
<1>5. QED
  BY <1>3, <1>4
\* What MovesPlacePieces says of a step.
PiecesPlacedByStep ==
    LET m == Last(lastMoves')
    IN  Placement(pos') = Rules!After(Placement(pos), pos.turn, pos.epSquare, m)

\* The positions before and after the last move of a game that has been extended.
LEMMA LastStep ==
    ASSUME NEW vec, NEW moves, NEW v, NEW w, Extended(vec, moves, v, w)
    PROVE  /\ Sound(Last(vec)) /\ Cells(Last(v)) /\ Generated(Last(vec), Last(w))
           /\ Played(Last(vec), Last(v), Last(w))
<1>1. PICK n \in Nat : n = Len(moves)
  BY Lengths DEF Extended, WellFormed
<1>2. Len(w) = n + 1 /\ Len(v) = n + 2 /\ Len(vec) = n + 1
  BY <1>1 DEF Extended, WellFormed
<1>3. n + 1 \in 1..Len(vec) /\ n + 1 \in 1..Len(w) /\ n + 2 \in 1..Len(v) /\ (n + 1) + 1 = n + 2
  BY <1>2
<1>4. v[n + 1] = vec[n + 1]
  BY <1>3 DEF Extended
<1>5. /\ Sound(vec[n + 1]) /\ Cells(v[n + 2]) /\ Generated(v[n + 1], w[n + 1])
      /\ Played(v[n + 1], v[n + 2], w[n + 1])
  BY <1>3 DEF Extended, WellFormed, Ready
<1>6. QED
  BY <1>2, <1>4, <1>5 DEF Last

\* A step of the game places the pieces as the rules say.
LEMMA PiecesPlacedAtStep ==
    History /\ [Play]_vars => [PiecesPlacedByStep]_vars
<1> SUFFICES ASSUME History, Play PROVE PiecesPlacedByStep
  OBVIOUS
<1>1. Extended(vecPos, lastMoves, vecPos', lastMoves')
  BY PlayExtends
<1>2. PICK p, q, m : p = Last(vecPos) /\ q = Last(vecPos') /\ m = Last(lastMoves')
  OBVIOUS
<1>3. Sound(p) /\ Cells(q) /\ Generated(p, m) /\ Played(p, q, m)
  BY <1>1, <1>2, LastStep
<1>4. Placement(q) = Rules!After(Placement(p), p.turn, p.epSquare, m)
  BY <1>3, PlacedByRules DEF Cells
<1>5. QED
  BY <1>2, <1>4, Zenon DEF PiecesPlacedByStep, pos

\* A move puts the pieces where the rules of chess put them, castling, captures
\* en passant and promotions included: pos_move.
THEOREM PiecesPlaced == Spec => MovesPlacePieces
<1>1. MovesPlacePieces <=> [][PiecesPlacedByStep]_vars
  BY DEF MovesPlacePieces, PiecesPlacedByStep
<1>2. QED
  BY <1>1, HistoryStarts, HistoryGoesOn, PiecesPlacedAtStep, PTL DEF Spec

-----------------------------------------------------------------------------
(* What a game spends and never regains: pieces, rights, and the way that  *)
(* pawns have before them.                                                 *)

Before(c, u, s) == IF c = WHITE THEN u < s ELSE u > s

\* The pawns of c have moved on from A to B, or left the board: of the squares on
\* which A and B differ, the one furthest back is a square of A.
Advanced(c, A, B) ==
    A = B \/ \E s \in A \ B : \A u \in Square : Before(c, u, s) => (u \in A <=> u \in B)

\* To move on and on is to move on; and to return is not to have moved.
LEMMA AdvancedTransitive ==
    ASSUME NEW c, NEW A, NEW B, NEW C, A \subseteq Square, B \subseteq Square, C \subseteq Square,
           Advanced(c, A, B), Advanced(c, B, C)
    PROVE  Advanced(c, A, C) /\ (A = C => A = B)
<1>1. CASE A = B \/ B = C
  BY <1>1 DEF Advanced
<1>2. CASE A # B /\ B # C
  <2>1. PICK s \in A \ B : \A u \in Square : Before(c, u, s) => (u \in A <=> u \in B)
    BY <1>2 DEF Advanced
  <2>2. PICK t \in B \ C : \A u \in Square : Before(c, u, t) => (u \in B <=> u \in C)
    BY <1>2 DEF Advanced
  <2>3. /\ s \in Square /\ t \in Square /\ s # t
        /\ Before(c, s, t) \/ Before(c, t, s)
        /\ \A u \in Square : /\ Before(c, s, t) /\ Before(c, u, s) => Before(c, u, t)
                             /\ Before(c, t, s) /\ Before(c, u, t) => Before(c, u, s)
    BY <2>1, <2>2 DEF Before, Square, NB_SQUARE
  <2>4. CASE Before(c, s, t)
    <3>1. s \in A \ C
      BY <2>1, <2>2, <2>3, <2>4
    <3>2. \A u \in Square : Before(c, u, s) => (u \in A <=> u \in C)
      BY <2>1, <2>2, <2>3, <2>4
    <3>3. QED
      BY <3>1, <3>2 DEF Advanced
  <2>5. CASE Before(c, t, s)
    <3>1. t \in A \ C
      BY <2>1, <2>2, <2>3, <2>5
    <3>2. \A u \in Square : Before(c, u, t) => (u \in A <=> u \in C)
      BY <2>1, <2>2, <2>3, <2>5
    <3>3. QED
      BY <3>1, <3>2 DEF Advanced
  <2>6. QED
    BY <2>3, <2>4, <2>5
<1>3. QED
  BY <1>1, <1>2

Pawns(p, c) == pos_pieces_cp(p, c, "PAWN")
Count(p, c) == Cardinality(p.byColor[c])

Spent(p, q) ==
    /\ q.castleRooks \subseteq p.castleRooks
    /\ \A c \in Color : Count(q, c) <= Count(p, c) /\ Advanced(c, Pawns(p, c), Pawns(q, c))

\* Nothing has been spent.
Level(p, q) ==
    /\ q.castleRooks = p.castleRooks
    /\ \A c \in Color : Count(q, c) = Count(p, c) /\ Pawns(q, c) = Pawns(p, c)

\* A side has finitely many pieces.
LEMMA Counts ==
    ASSUME NEW p, BoardOK(p), NEW c \in Color
    PROVE  /\ IsFiniteSet(p.byColor[c]) /\ Count(p, c) \in Nat
           /\ Pawns(p, c) \subseteq Square
<1>1. p.byColor[c] \subseteq Square
  BY DEF BoardOK
<1>2. QED
  BY <1>1, FiniteBoard DEF Count, bb_count, Pawns, pos_pieces_cp

\* What is spent over two moves is spent over both, and what is level over both
\* is level over each.
LEMMA SpentTransitive ==
    ASSUME NEW p, NEW q, NEW r, BoardOK(p), BoardOK(q), BoardOK(r), Spent(p, q), Spent(q, r)
    PROVE  Spent(p, r) /\ (Level(p, r) => Level(p, q) /\ Level(q, r))
<1>1. ASSUME NEW c \in Color
      PROVE  /\ Count(r, c) <= Count(p, c) /\ Advanced(c, Pawns(p, c), Pawns(r, c))
             /\ Count(r, c) = Count(p, c) => Count(q, c) = Count(p, c)
             /\ Pawns(r, c) = Pawns(p, c) => Pawns(q, c) = Pawns(p, c)
  <2>1. /\ Count(p, c) \in Nat /\ Count(q, c) \in Nat /\ Count(r, c) \in Nat
        /\ Pawns(p, c) \subseteq Square /\ Pawns(q, c) \subseteq Square
        /\ Pawns(r, c) \subseteq Square
    BY Counts
  <2>2. /\ Count(q, c) <= Count(p, c) /\ Count(r, c) <= Count(q, c)
        /\ Advanced(c, Pawns(p, c), Pawns(q, c)) /\ Advanced(c, Pawns(q, c), Pawns(r, c))
    BY DEF Spent
  <2>3. /\ Advanced(c, Pawns(p, c), Pawns(r, c))
        /\ Pawns(r, c) = Pawns(p, c) => Pawns(q, c) = Pawns(p, c)
    BY <2>1, <2>2, AdvancedTransitive
  <2>4. /\ Count(r, c) <= Count(p, c)
        /\ Count(r, c) = Count(p, c) => Count(q, c) = Count(p, c)
    BY <2>1, <2>2
  <2>5. QED
    BY <2>3, <2>4
<1>2. r.castleRooks \subseteq p.castleRooks
      /\ (r.castleRooks = p.castleRooks => q.castleRooks = p.castleRooks)
  BY DEF Spent
<1>3. QED
  BY <1>1, <1>2 DEF Spent, Level

\* A pawn goes forward.
LEMMA PawnsGoForward ==
    ASSUME NEW p, Sound(p), NEW m, PawnMove(p, m) \/ EpMove(p, m) \/ Promotion(p, m)
    PROVE  Before(p.turn, m.from, m.to)
<1>1. p.turn \in Color /\ m.from \in Square /\ m.to \in Square
  BY PawnSquares
<1>2. CASE PawnMove(p, m) \/ Promotion(p, m)
  <2>1. \/ m.to = m.from + push_inc(p.turn) - 1 \/ m.to = m.from + push_inc(p.turn) + 1
        \/ m.to = m.from + push_inc(p.turn) \/ m.to = m.from + 2 * push_inc(p.turn)
    BY <1>2 DEF PawnMove, Promotion, PawnStep
  <2>2. QED
    BY <1>1, <2>1 DEF Before, push_inc, Square, NB_SQUARE
<1>3. CASE EpMove(p, m)
  <2>1. m.from \in PawnAttacks[opposite(p.turn)][m.to] /\ opposite(p.turn) \in Color
    BY <1>1, <1>3, Directions DEF EpMove
  <2>2. \/ m.from = m.to + push_inc(opposite(p.turn)) - 1
        \/ m.from = m.to + push_inc(opposite(p.turn)) + 1
    BY <1>1, <2>1, PawnCaptures
  <2>3. QED
    BY <1>1, <2>2 DEF Before, push_inc, opposite, Color, WHITE, BLACK, Square, NB_SQUARE
<1>4. QED
  BY <1>2, <1>3

\* A piece that moves is counted once, and one that is taken no more.
LEMMA CountMoved ==
    ASSUME NEW S, IsFiniteSet(S), NEW a \in S, NEW b, b \notin S
    PROVE  Cardinality((S \ {a}) \union {b}) = Cardinality(S)
<1>1. IsFiniteSet(S \ {a}) /\ Cardinality(S \ {a}) = Cardinality(S) - 1 /\ Cardinality(S) \in Nat
  BY FS_RemoveElement, FS_CardinalityType
<1>2. b \notin S \ {a}
  OBVIOUS
<1>3. Cardinality((S \ {a}) \union {b}) = Cardinality(S \ {a}) + 1
  BY <1>1, <1>2, FS_AddElement
<1>4. QED
  BY <1>1, <1>3

\* A piece less counts one less.
LEMMA CountTaken ==
    ASSUME NEW S, IsFiniteSet(S), NEW a
    PROVE  /\ Cardinality(S \ {a}) <= Cardinality(S)
           /\ a \in S => Cardinality(S \ {a}) # Cardinality(S)
<1>1. Cardinality(S) \in Nat
        /\ Cardinality(S \ {a}) = IF a \in S THEN Cardinality(S) - 1 ELSE Cardinality(S)
  BY FS_RemoveElement, FS_CardinalityType
<1>2. QED
  BY <1>1

\* King and rook change places.
LEMMA CountCastled ==
    ASSUME NEW S, IsFiniteSet(S), NEW a \in S, NEW b \in S, a # b,
           NEW c, NEW d, c # d, c \notin S \ {a, b}, d \notin S \ {a, b}
    PROVE  Cardinality((S \ {a, b}) \union {c, d}) = Cardinality(S)
<1>1. IsFiniteSet(S \ {a}) /\ Cardinality(S \ {a}) = Cardinality(S) - 1 /\ Cardinality(S) \in Nat
  BY FS_RemoveElement, FS_CardinalityType
<1>2. PICK T : T = (S \ {a}) \ {b}
  OBVIOUS
<1>3. IsFiniteSet(T) /\ Cardinality(T) = Cardinality(S \ {a}) - 1
  <2>1. b \in S \ {a}
    OBVIOUS
  <2>2. QED
    BY <1>1, <1>2, <2>1, FS_RemoveElement
<1>4. T = S \ {a, b}
  BY <1>2
<1>5. IsFiniteSet(T \union {c}) /\ Cardinality(T \union {c}) = Cardinality(T) + 1
  BY <1>3, <1>4, FS_AddElement
<1>6. Cardinality((T \union {c}) \union {d}) = Cardinality(T \union {c}) + 1
  <2>1. d \notin T \union {c}
    BY <1>4
  <2>2. QED
    BY <1>5, <2>1, FS_AddElement
<1>7. (S \ {a, b}) \union {c, d} = (T \union {c}) \union {d}
  BY <1>4
<1>8. Cardinality(T) \in Int /\ Cardinality(S \ {a}) \in Int
  BY <1>1, <1>3
<1>9. QED
  BY <1>1, <1>3, <1>5, <1>6, <1>7, <1>8
\* Every move spends, and one that resets the counter does so for good.
LEMMA MoveSpends ==
    ASSUME NEW p, Sound(p), NEW m, Generated(p, m), NEW q, BoardOK(q), Played(p, q, m)
    PROVE  Spent(p, q) /\ (Level(p, q) => ~Castles(p, m) /\ q.rule50 = p.rule50 + 1)
<1> DEFINE us == p.turn
           them == opposite(us)
<1>0. /\ us \in Color /\ them \in Color /\ us # them /\ BoardOK(p)
      /\ \A c \in Color : c = us \/ c = them
      /\ \A c \in Color : IsFiniteSet(p.byColor[c])
      /\ p.byColor[us] \intersect p.byColor[them] = {}
  BY Counts DEF Sound, BoardOK, opposite, Color, WHITE, BLACK
<1>1. q.castleRooks = (p.castleRooks \ {m.from, m.to})
                         \ (IF m.from \in p.byPiece["KING"] THEN Rank(7 * us) ELSE {})
  BY DEF Played
<1>2. q.rule50 = IF m.to \in pos_pieces(p) \/ m.from \in p.byPiece["PAWN"] THEN 0 ELSE p.rule50 + 1
  BY DEF Played
<1>3. CASE Castles(p, m)
  <2>1. PICK kto, rto : kto = Rules!KingTo(m.from, m.to) /\ rto = Rules!RookTo(m.from, m.to)
    OBVIOUS
  <2>2. /\ \A d \in Color : q.byColor[d] = (p.byColor[d] \ {m.from, m.to})
                                  \union (IF d = us THEN {kto, rto} ELSE {})
        /\ \A l \in Piece : q.byPiece[l] = (p.byPiece[l] \ {m.from, m.to})
                                  \union (IF l = "KING" THEN {kto} ELSE {})
                                  \union (IF l = "ROOK" THEN {rto} ELSE {})
    BY <1>3, <2>1, Zenon DEF Played, Castled
  <2>3. /\ m.from \in p.byColor[us] /\ m.from \in p.byPiece["KING"] /\ m.from # m.to
        /\ m.to \in p.byColor[us] /\ m.to \in p.byPiece["ROOK"] /\ m.to \in p.castleRooks
        /\ kto # rto
    BY <1>3, <2>1, CastleSquares
  <2>4. {kto, rto} \intersect pos_pieces(p) \subseteq {m.from, m.to}
    BY <1>3, <2>1 DEF Castles
  <2>5. kto \notin p.byColor[us] \ {m.from, m.to} /\ rto \notin p.byColor[us] \ {m.from, m.to}
    BY <1>0, <2>4 DEF pos_pieces, Color
  <2>6. Count(q, us) = Count(p, us)
    <3>1. q.byColor[us] = (p.byColor[us] \ {m.from, m.to}) \union {kto, rto}
      BY <1>0, <2>2
    <3>2. PICK S : S = p.byColor[us]
      OBVIOUS
    <3>3. Cardinality((S \ {m.from, m.to}) \union {kto, rto}) = Cardinality(S)
      BY <1>0, <2>3, <2>5, <3>2, CountCastled, SMTT(40)
    <3>4. QED
      BY <3>1, <3>2, <3>3 DEF Count
  <2>7. q.byColor[them] = p.byColor[them]
    <3>1. q.byColor[them] = p.byColor[them] \ {m.from, m.to}
      BY <1>0, <2>2
    <3>2. m.from \notin p.byColor[them] /\ m.to \notin p.byColor[them]
      BY <1>0, <2>3
    <3>3. QED
      BY <3>1, <3>2
  <2>8. q.byPiece["PAWN"] = p.byPiece["PAWN"]
    <3>1. q.byPiece["PAWN"] = p.byPiece["PAWN"] \ {m.from, m.to}
      BY <2>2 DEF Piece
    <3>2. m.from \notin p.byPiece["PAWN"] /\ m.to \notin p.byPiece["PAWN"]
      BY <1>0, <2>3 DEF BoardOK, Piece
    <3>3. QED
      BY <3>1, <3>2
  <2>9. Pawns(q, us) = Pawns(p, us)
    <3>1. m.from \notin p.byPiece["PAWN"] /\ m.to \notin p.byPiece["PAWN"]
      BY <1>0, <2>3 DEF BoardOK, Piece
    <3>2. kto \notin q.byPiece["PAWN"] /\ rto \notin q.byPiece["PAWN"]
      <4>1. kto \in q.byPiece["KING"] /\ rto \in q.byPiece["ROOK"]
        BY <2>2 DEF Piece
      <4>2. QED
        BY <4>1 DEF BoardOK, Piece
    <3>3. q.byColor[us] = (p.byColor[us] \ {m.from, m.to}) \union {kto, rto}
      BY <1>0, <2>2
    <3>4. QED
      BY <2>8, <3>1, <3>2, <3>3 DEF Pawns, pos_pieces_cp
  <2>10. Pawns(q, them) = Pawns(p, them) /\ Count(q, them) = Count(p, them)
    BY <2>7, <2>8 DEF Pawns, pos_pieces_cp, Count
  <2>11. \A c \in Color : Count(q, c) = Count(p, c) /\ Pawns(q, c) = Pawns(p, c)
    BY <1>0, <2>6, <2>9, <2>10
  <2>12. \A c \in Color : Count(q, c) <= Count(p, c) /\ Advanced(c, Pawns(p, c), Pawns(q, c))
    <3>1. TAKE c \in Color
    <3>2. PICK i \in Nat : i = Count(p, c)
      BY <1>0, Counts
    <3>3. i <= i
      BY <3>2
    <3>4. QED
      BY <2>11, <3>2, <3>3, Zenon DEF Advanced
  <2>13. QED
    BY <1>1, <2>3, <2>12 DEF Spent, Level
<1>4. CASE ~Castles(p, m)
  <2>1. PICK taken, now : taken = Taken(p, m) /\ now = Now(p, m)
    OBVIOUS
  <2>2. /\ \A d \in Color : q.byColor[d] = (p.byColor[d] \ {m.from, taken})
                                  \union (IF d = us THEN {m.to} ELSE {})
        /\ \A l \in Piece : q.byPiece[l] = (p.byPiece[l] \ {m.from, taken})
                                  \union (IF l = now THEN {m.to} ELSE {})
    BY <1>4, <2>1, Zenon DEF Played, Replaces
  <2>3. /\ m.from \in Square /\ m.to \in Square /\ m.from # m.to
        /\ m.from \in p.byColor[us] /\ m.to \notin p.byColor[us]
    BY <1>4, PawnSquares DEF Generated, PieceMove, Sound, BoardOK
  <2>4. taken \notin p.byColor[us] /\ (m.to \in pos_pieces(p) => taken = m.to)
    <3>1. CASE m.to = p.epSquare /\ m.from \in p.byPiece["PAWN"]
      <4>1. taken = p.epSquare - push_inc(us) /\ p.epSquare # NB_SQUARE
        BY <2>1, <2>3, <3>1 DEF Taken, Square, NB_SQUARE
      <4>2. taken \in p.byColor[them] /\ m.to \notin pos_pieces(p)
        BY <3>1, <4>1 DEF Sound, EpSound, pos_pieces_cp
      <4>3. QED
        BY <1>0, <4>2
    <3>2. CASE ~(m.to = p.epSquare /\ m.from \in p.byPiece["PAWN"])
      BY <2>1, <2>3, <3>2 DEF Taken
    <3>3. QED
      BY <3>1, <3>2
  <2>5. q.byColor[us] = (p.byColor[us] \ {m.from}) \union {m.to}
        /\ q.byColor[them] = p.byColor[them] \ {taken}
    BY <1>0, <2>2, <2>3, <2>4
  <2>6. Count(q, us) = Count(p, us)
    BY <1>0, <2>3, <2>5, CountMoved DEF Count
  <2>7. /\ Count(q, them) <= Count(p, them)
        /\ taken \in p.byColor[them] => Count(q, them) # Count(p, them)
    BY <1>0, <2>5, CountTaken DEF Count
  <2>8. m.to \in pos_pieces(p) => taken \in p.byColor[them]
    BY <1>0, <2>3, <2>4 DEF pos_pieces, Color
  <2>9. /\ now = "PAWN" => m.from \in p.byPiece["PAWN"]
        /\ m.from \in p.byPiece["PAWN"] => Before(us, m.from, m.to)
    <3>1. CASE PieceMove(p, m)
      <4>1. m.from \in pos_pieces(p) /\ now = pos_piece_on(p, m.from) /\ m.from \notin p.byPiece["PAWN"]
        BY <1>0, <2>1, <2>3, <3>1 DEF PieceMove, Now, pos_pieces, Color
      <4>2. QED
        BY <1>0, <4>1, PieceOn
    <3>2. CASE PawnMove(p, m) \/ EpMove(p, m) \/ Promotion(p, m)
      BY <3>2, PawnsGoForward, PawnSquares
    <3>3. QED
      BY <1>4, <3>1, <3>2 DEF Generated
  <2>10. "PAWN" \in Piece /\ m.to \notin q.byColor[them]
    BY <1>0, <2>2 DEF BoardOK, Color, WHITE, BLACK, Piece
  <2>11. Advanced(us, Pawns(p, us), Pawns(q, us))
           /\ (m.from \in p.byPiece["PAWN"] => Pawns(q, us) # Pawns(p, us))
    <3>1. CASE m.from \in p.byPiece["PAWN"]
      <4>1. m.from \in Pawns(p, us) \ Pawns(q, us)
        BY <2>3, <2>5, <3>1 DEF Pawns, pos_pieces_cp
      <4>2. ASSUME NEW u \in Square, Before(us, u, m.from)
            PROVE  u \in Pawns(p, us) <=> u \in Pawns(q, us)
        <5>1. u # m.from /\ u # m.to
          BY <2>3, <2>9, <3>1, <4>2 DEF Before, Square, NB_SQUARE
        <5>2. u = taken => u \notin p.byColor[us] /\ u \notin q.byColor[us]
          BY <2>4, <2>5, <5>1
        <5>3. QED
          BY <2>2, <2>5, <2>10, <5>1, <5>2 DEF Pawns, pos_pieces_cp
      <4>3. QED
        BY <4>1, <4>2 DEF Advanced
    <3>2. CASE m.from \notin p.byPiece["PAWN"]
      <4>1. q.byPiece["PAWN"] = p.byPiece["PAWN"] \ {taken}
        BY <2>2, <2>9, <2>10, <3>2
      <4>2. m.to \notin q.byPiece["PAWN"]
        <5>1. now \in Piece
          <6>1. PieceMove(p, m) /\ m.from \in pos_pieces(p)
            BY <1>0, <1>4, <2>3, <3>2, PawnSquares DEF Generated, pos_pieces, Color
          <6>2. QED
            BY <1>0, <2>1, <6>1, PieceOn DEF PieceMove, Now
        <5>2. m.to \in q.byPiece[now] /\ now # "PAWN"
          BY <2>2, <2>9, <3>2, <5>1
        <5>3. QED
          BY <2>10, <5>1, <5>2 DEF BoardOK
      <4>3. Pawns(q, us) = Pawns(p, us)
        BY <2>4, <2>5, <3>2, <4>1, <4>2 DEF Pawns, pos_pieces_cp
      <4>4. QED
        BY <3>2, <4>3 DEF Advanced
    <3>3. QED
      BY <3>1, <3>2
  <2>12. Advanced(them, Pawns(p, them), Pawns(q, them))
    <3>1. Pawns(q, them) = Pawns(p, them) \ {taken}
      <4>1. m.from \notin p.byColor[them]
        BY <1>0, <2>3
      <4>2. ASSUME NEW s
            PROVE  s \in Pawns(q, them) <=> s \in Pawns(p, them) /\ s # taken
        <5>1. s = m.to => s \notin q.byColor[them]
          BY <2>10
        <5>2. s = m.to /\ s \in p.byColor[them] => s = taken
          BY <2>5, <5>1
        <5>3. s # m.to /\ s # m.from /\ s # taken =>
                (s \in q.byPiece["PAWN"] <=> s \in p.byPiece["PAWN"])
          BY <2>2, <2>10
        <5>4. QED
          BY <2>5, <4>1, <5>1, <5>2, <5>3 DEF Pawns, pos_pieces_cp
      <4>3. QED
        BY <4>2
    <3>2. CASE taken \in Pawns(p, them)
      <4>1. taken \in Pawns(p, them) \ Pawns(q, them)
        BY <3>1, <3>2
      <4>2. \A u \in Square : Before(them, u, taken) => u # taken
        BY DEF Before, Square, NB_SQUARE
      <4>3. QED
        BY <3>1, <4>1, <4>2 DEF Advanced
    <3>3. CASE taken \notin Pawns(p, them)
      BY <3>1, <3>3 DEF Advanced
    <3>4. QED
      BY <3>2, <3>3
  <2>13. Spent(p, q)
    <3>1. Count(q, us) <= Count(p, us)
      <4>1. PICK i \in Nat : i = Count(p, us)
        BY <1>0, Counts
      <4>2. i <= i
        BY <4>1
      <4>3. QED
        BY <2>6, <4>1, <4>2
    <3>2. \A c \in Color : Count(q, c) <= Count(p, c) /\ Advanced(c, Pawns(p, c), Pawns(q, c))
      BY <1>0, <2>7, <2>11, <2>12, <3>1
    <3>3. QED
      BY <1>1, <3>2 DEF Spent
  <2>14. ASSUME Level(p, q) PROVE q.rule50 = p.rule50 + 1
    <3>1. Count(q, them) = Count(p, them) /\ Pawns(q, us) = Pawns(p, us)
      BY <1>0, <2>14 DEF Level
    <3>2. QED
      BY <1>2, <2>7, <2>8, <2>11, <3>1
  <2>15. QED
    BY <1>4, <2>13, <2>14
<1>5. QED
  BY <1>3, <1>4

-----------------------------------------------------------------------------
(* The counter and the turn of positions that are some plies apart.        *)

\* q comes n plies after p.
Aged(p, q, n) ==
    /\ Spent(p, q)
    /\ Level(p, q) => n <= q.rule50
    /\ q.rule50 = p.rule50 + n \/ q.rule50 < n
    /\ q.turn = (p.turn + n) % 2

Ageing(vec) == \A k, l \in 1..Len(vec) : k <= l => Aged(vec[k], vec[l], l - k)

\* A position is no plies older than itself.
LEMMA AgedNow ==
    ASSUME NEW p, BoardOK(p), p.rule50 \in 0..100
    PROVE  Aged(p, p, 0)
<1>1. Spent(p, p)
  <2>1. \A c \in Color : Count(p, c) <= Count(p, c)
    <3>1. \A i \in Nat : i <= i
      OBVIOUS
    <3>2. QED
      BY <3>1, Counts, Zenon
  <2>2. QED
    BY <2>1 DEF Spent, Advanced
<1>2. \A i \in 0..100 : 0 <= i /\ i = i + 0
  OBVIOUS
<1>3. \A t \in Color : t = (t + 0) % 2
  BY DEF Color, WHITE, BLACK
<1>4. p.turn \in Color
  BY DEF BoardOK
<1>5. QED
  BY <1>1, <1>2, <1>3, <1>4, Zenon DEF Aged

\* A move makes it a ply older.
LEMMA AgedOn ==
    ASSUME NEW p, BoardOK(p), p.rule50 \in 0..100, NEW q, Sound(q), q.rule50 \in 0..100,
           NEW n \in Nat, Aged(p, q, n),
           NEW m, Generated(q, m), NEW r, BoardOK(r), Played(q, r, m)
    PROVE  Aged(p, r, n + 1)
<1>1. Spent(q, r) /\ (Level(q, r) => r.rule50 = q.rule50 + 1) /\ BoardOK(q)
  BY MoveSpends DEF Sound
<1>2. Spent(p, r) /\ (Level(p, r) => Level(p, q) /\ Level(q, r))
  BY <1>1, SpentTransitive DEF Aged
<1>3. PICK i \in 0..100, j \in 0..100 : i = p.rule50 /\ j = q.rule50
  OBVIOUS
<1>4. /\ Level(p, q) => n <= j
      /\ j = i + n \/ j < n
      /\ r.rule50 = 0 \/ r.rule50 = j + 1
  BY <1>3 DEF Aged, Played
<1>5. Level(p, r) => r.rule50 = j + 1 /\ n <= j
  BY <1>1, <1>2, <1>3, <1>4
<1>6. n <= j => n + 1 <= j + 1
  OBVIOUS
<1>7. Level(p, r) => n + 1 <= r.rule50
  BY <1>5, <1>6
<1>8. r.rule50 = i + (n + 1) \/ r.rule50 < n + 1
  <2>1. CASE r.rule50 = 0
    BY <2>1
  <2>2. CASE r.rule50 = j + 1
    <3>1. j + 1 = i + (n + 1) \/ j + 1 < n + 1
      BY <1>4
    <3>2. QED
      BY <2>2, <3>1
  <2>3. QED
    BY <1>4, <2>1, <2>2
<1>9. r.turn = (p.turn + (n + 1)) % 2
  <2>1. PICK t \in Color : t = p.turn
    BY DEF BoardOK
  <2>2. r.turn = 1 - ((t + n) % 2)
    BY <2>1 DEF Played, opposite, Aged
  <2>3. 1 - ((t + n) % 2) = (t + (n + 1)) % 2
    BY DEF Color, WHITE, BLACK
  <2>4. QED
    BY <2>1, <2>2, <2>3
<1>10. QED
  BY <1>2, <1>3, <1>7, <1>8, <1>9 DEF Aged

\* So it is for the whole of the game.
LEMMA AgeingGoesOn ==
    ASSUME NEW vec, NEW moves, NEW v, NEW w, Extended(vec, moves, v, w), Ageing(vec)
    PROVE  Ageing(v)
<1>1. PICK n \in Nat : n = Len(moves)
  BY Lengths DEF Extended, WellFormed
<1>2. Len(w) = n + 1 /\ Len(v) = n + 2 /\ Len(vec) = n + 1
  BY <1>1 DEF Extended, WellFormed
<1>3. \A k \in 1..(n + 2) : Sound(v[k]) /\ v[k].rule50 \in 0..100 /\ BoardOK(v[k])
  BY <1>2 DEF Extended, WellFormed, Sound, Ready
<1>4. \A k \in 1..(n + 1) : v[k] = vec[k]
  BY <1>2 DEF Extended
<1>5. Generated(v[n + 1], w[n + 1]) /\ Played(v[n + 1], v[n + 2], w[n + 1])
  <2>1. n + 1 \in 1..Len(w) /\ (n + 1) + 1 = n + 2
    BY <1>2
  <2>2. QED
    BY <2>1 DEF Extended, WellFormed
<1>6. ASSUME NEW k \in 1..(n + 1)
      PROVE  Aged(v[k], v[n + 2], (n + 2) - k)
  <2>1. PICK i \in Nat : i = (n + 1) - k
    OBVIOUS
  <2>2. Aged(v[k], v[n + 1], i)
    BY <1>2, <1>4, <2>1 DEF Ageing
  <2>3. Aged(v[k], v[n + 2], i + 1)
    <3>1. PICK p, q, r, m : p = v[k] /\ q = v[n + 1] /\ r = v[n + 2] /\ m = w[n + 1]
      OBVIOUS
    <3>2. /\ BoardOK(p) /\ p.rule50 \in 0..100 /\ Sound(q) /\ q.rule50 \in 0..100 /\ BoardOK(r)
          /\ Aged(p, q, i) /\ Generated(q, m) /\ Played(q, r, m)
      BY <1>3, <1>5, <2>2, <3>1
    <3>3. QED
      BY <3>1, <3>2, AgedOn
  <2>4. i + 1 = (n + 2) - k
    BY <2>1
  <2>5. QED
    BY <2>3, <2>4
<1>7. Aged(v[n + 2], v[n + 2], 0)
  BY <1>3, AgedNow
<1>8. ASSUME NEW k \in 1..Len(v), NEW l \in 1..Len(v), k <= l
      PROVE  Aged(v[k], v[l], l - k)
  <2>1. CASE l <= n + 1
    BY <1>2, <1>4, <1>8, <2>1, SMTT(40) DEF Ageing
  <2>2. CASE l = n + 2 /\ k <= n + 1
    BY <1>2, <1>6, <1>8, <2>2
  <2>3. CASE l = n + 2 /\ k = n + 2
    <3>1. l - k = 0
      BY <2>3
    <3>2. QED
      BY <1>7, <2>3, <3>1
  <2>4. QED
    BY <1>2, <1>8, <2>1, <2>2, <2>3
<1>9. QED
  BY <1>8 DEF Ageing

\* The opening is of its own age.
LEMMA AgeingStarts == Init /\ History => Ageing(vecPos)
<1> SUFFICES ASSUME Init, History PROVE Ageing(vecPos)
  OBVIOUS
<1>1. Len(vecPos) = 1
  BY DEF Init
<1>2. BoardOK(vecPos[1]) /\ vecPos[1].rule50 \in 0..100
  <2>1. 1 \in 1..Len(vecPos)
    BY <1>1
  <2>2. QED
    BY <2>1 DEF History, WellFormed, Sound, Ready
<1>3. Aged(vecPos[1], vecPos[1], 0)
  BY <1>2, AgedNow
<1>4. \A k, l \in 1..Len(vecPos) : k = 1 /\ l = 1 /\ l - k = 0
  BY <1>1
<1>5. QED
  BY <1>3, <1>4, Zenon DEF Ageing

\* Ageing is inductive.
LEMMA AgeingStays ==
    History /\ Ageing(vecPos) /\ [Play]_vars => Ageing(vecPos)'
<1> SUFFICES ASSUME History, Ageing(vecPos), [Play]_vars PROVE Ageing(vecPos')
  OBVIOUS
<1>1. CASE Play
  BY <1>1, PlayExtends, AgeingGoesOn
<1>2. CASE UNCHANGED vars
  BY <1>2 DEF vars
<1>3. QED
  BY <1>1, <1>2

-----------------------------------------------------------------------------
(* Repetitions.                                                            *)

\* What keys are made of.
LEMMA SameKey ==
    ASSUME NEW p, BoardOK(p), Keyed(p), NEW q, BoardOK(q), Keyed(q), Same(p, q)
    PROVE  p.key = q.key
<1>1. p.byColor = q.byColor /\ p.byPiece = q.byPiece
  BY DEF Same, SamePlacement
<1>2. \A x \in PieceNumbers : x \in p.key <=> x \in q.key
  <2>1. TAKE x \in PieceNumbers
  <2>2. PICK c \in Color, k \in Piece, s \in Square : x = <<"piece", c, k, s>>
    BY DEF PieceNumbers
  <2>3. QED
    BY <1>1, <2>2, Zenon DEF Keyed, PieceKey
<1>3. p.key \ PieceNumbers = q.key \ PieceNumbers
  <2>1. Others(p) = Others(q)
    BY Zenon DEF Same, SamePlacement, Others
  <2>2. QED
    BY <2>1 DEF Keyed
<1>4. QED
  BY <1>2, <1>3

\* Positions with the same key are the same, as the rules compare them.
LEMMA KeySame ==
    ASSUME NEW p, BoardOK(p), Keyed(p), RightsSound(p), NEW q, BoardOK(q), Keyed(q), RightsSound(q),
           p.key = q.key, p.epSquare = NB_SQUARE, q.epSquare \in Square \union {NB_SQUARE}
    PROVE  SamePlacement(p, q) /\ q.epSquare = NB_SQUARE
<1>1. ASSUME NEW c \in Color, NEW k \in Piece, NEW s \in Square
      PROVE  s \in p.byColor[c] /\ s \in p.byPiece[k] <=> s \in q.byColor[c] /\ s \in q.byPiece[k]
  <2>1. <<"piece", c, k, s>> \in p.key <=> s \in p.byColor[c] \intersect p.byPiece[k]
    BY DEF Keyed, PieceKey
  <2>2. <<"piece", c, k, s>> \in q.key <=> s \in q.byColor[c] \intersect q.byPiece[k]
    BY DEF Keyed, PieceKey
  <2>3. QED
    BY <2>1, <2>2
<1>2. ASSUME NEW c \in Color
      PROVE  p.byColor[c] = q.byColor[c]
  <2>1. p.byColor[c] \subseteq Square /\ q.byColor[c] \subseteq Square
    BY DEF BoardOK
  <2>2. ASSUME NEW s \in p.byColor[c] PROVE s \in q.byColor[c]
    <3>1. \E k \in Piece : s \in p.byPiece[k]
      BY <2>1 DEF BoardOK, pos_pieces, Color
    <3>2. QED
      BY <1>1, <2>1, <3>1
  <2>3. ASSUME NEW s \in q.byColor[c] PROVE s \in p.byColor[c]
    <3>1. \E k \in Piece : s \in q.byPiece[k]
      BY <2>1 DEF BoardOK, pos_pieces, Color
    <3>2. QED
      BY <1>1, <2>1, <3>1
  <2>4. QED
    BY <2>2, <2>3
<1>3. ASSUME NEW k \in Piece
      PROVE  p.byPiece[k] = q.byPiece[k]
  <2>1. p.byPiece[k] \subseteq Square /\ q.byPiece[k] \subseteq Square
    BY DEF BoardOK
  <2>2. ASSUME NEW s \in p.byPiece[k] PROVE s \in q.byPiece[k]
    <3>1. \E c \in Color : s \in p.byColor[c]
      BY <2>1 DEF BoardOK, pos_pieces, Color
    <3>2. QED
      BY <1>1, <2>1, <3>1
  <2>3. ASSUME NEW s \in q.byPiece[k] PROVE s \in p.byPiece[k]
    <3>1. \E c \in Color : s \in q.byColor[c]
      BY <2>1 DEF BoardOK, pos_pieces, Color
    <3>2. QED
      BY <1>1, <2>1, <3>1
  <2>4. QED
    BY <2>2, <2>3
<1>4. p.byColor = q.byColor /\ p.byPiece = q.byPiece
  BY <1>2, <1>3 DEF BoardOK
<1>5. Others(p) = Others(q)
  BY DEF Keyed
<1>6. /\ p.castleRooks \in SUBSET Square /\ q.castleRooks \in SUBSET Square
      /\ p.turn \in Color /\ q.turn \in Color
  BY DEF BoardOK, RightsSound, pos_pieces, Color
<1>7. /\ ZobristEnPassant(p.epSquare) \subseteq EpNumbers
      /\ ZobristEnPassant(q.epSquare) \subseteq EpNumbers
      /\ zobrist_castling(p.castleRooks) \subseteq CastlingNumbers
      /\ zobrist_castling(q.castleRooks) \subseteq CastlingNumbers
  BY <1>6, KindsOfNumbers
<1>8. p.turn = q.turn
  <2>1. \A x \in ZobristTurn : x \notin EpNumbers /\ x \notin CastlingNumbers
    BY KindsOfNumbers
  <2>2. <<"turn">> \in ZobristTurn
    BY DEF ZobristTurn
  <2>3. (<<"turn">> \in Others(p) <=> p.turn = BLACK) /\ (<<"turn">> \in Others(q) <=> q.turn = BLACK)
    BY <1>7, <2>1, <2>2 DEF Others
  <2>4. QED
    BY <1>5, <1>6, <2>3 DEF Color
<1>9. q.epSquare = NB_SQUARE
  <2>1. PICK x : x = <<"ep", NB_SQUARE>>
    OBVIOUS
  <2>2. x \in ZobristEnPassant(p.epSquare)
    BY <2>1 DEF ZobristEnPassant
  <2>3. x \in EpNumbers
    BY <1>7, <2>2
  <2>4. x \notin ZobristTurn /\ x \notin CastlingNumbers
    BY <2>3, KindsOfNumbers
  <2>5. x \in ZobristEnPassant(q.epSquare)
    <3>1. x \in Others(q)
      BY <1>5, <2>2 DEF Others
    <3>2. QED
      BY <1>7, <2>4, <3>1 DEF Others
  <2>6. QED
    BY <2>1, <2>5 DEF ZobristEnPassant
<1>10. QED
  BY <1>4, <1>8, <1>9 DEF SamePlacement

\* What returns, returns after an even number of plies, four at least, in none
\* of which the counter was reset.
LEMMA SameLevel ==
    ASSUME NEW p, NEW q, Same(p, q)
    PROVE  Level(p, q)
BY DEF Same, SamePlacement, Level, Count, Pawns, pos_pieces_cp

\* No position is back after two plies.
LEMMA NotAfterTwo ==
    ASSUME NEW p, Sound(p), NEW m, Generated(p, m), NEW q, Sound(q), Played(p, q, m),
           NEW n, Generated(q, n), NEW r, BoardOK(r), Played(q, r, n)
    PROVE  ~Same(p, r)
<1> SUFFICES ASSUME Same(p, r) PROVE FALSE
  OBVIOUS
<1>1. Spent(p, q) /\ Spent(q, r) /\ (Level(p, q) => ~Castles(p, m)) /\ (Level(q, r) => ~Castles(q, n))
  BY MoveSpends DEF Sound
<1>2. ~Castles(p, m) /\ ~Castles(q, n)
  BY <1>1, SameLevel, SpentTransitive DEF Sound
<1>3. p.turn \in Color /\ q.turn = opposite(p.turn) /\ q.turn # p.turn /\ p.byColor[p.turn] = r.byColor[p.turn]
  BY Directions DEF Played, Sound, BoardOK, Same, SamePlacement
<1>4. m.from \in p.byColor[p.turn] /\ m.from # m.to
  BY <1>2, PawnSquares DEF Generated, PieceMove, Sound, BoardOK
<1>5. m.from \notin q.byColor[p.turn]
  BY <1>2, <1>3, <1>4 DEF Played, Replaces
<1>6. r.byColor[p.turn] \subseteq q.byColor[p.turn]
  BY <1>2, <1>3 DEF Played, Replaces
<1>7. QED
  BY <1>3, <1>4, <1>5, <1>6

\* A position that is repeated is so after four plies or more, an even number of
\* them, and no more than the counter looks back.
LEMMA SameApart ==
    ASSUME NEW vec, NEW moves, WellFormed(vec, moves), Ageing(vec),
           NEW k \in 1..Len(vec), NEW l \in 1..Len(vec), k < l, Same(vec[k], vec[l])
    PROVE  l - k >= 4 /\ (l - k) % 2 = 0 /\ l - k <= vec[l].rule50
<1>1. PICK n \in Nat : n = Len(vec) /\ Len(moves) = n - 1
  BY Lengths DEF WellFormed
<1>2. PICK i \in Nat : i = l - k /\ i >= 1
  BY <1>1
<1>3. Aged(vec[k], vec[l], i) /\ Level(vec[k], vec[l])
  BY <1>1, <1>2, SameLevel DEF Ageing
<1>4. i <= vec[l].rule50
  BY <1>3 DEF Aged
<1>5. i % 2 = 0
  <2>1. PICK t \in Color : t = vec[k].turn
    BY DEF WellFormed, Sound, Ready, BoardOK
  <2>2. t = (t + i) % 2
    BY <1>3, <2>1 DEF Aged, Same, SamePlacement
  <2>3. QED
    BY <2>2 DEF Color, WHITE, BLACK
<1>6. i # 2
  <2>1. SUFFICES ASSUME i = 2 PROVE FALSE
    OBVIOUS
  <2>2. /\ l = k + 2 /\ (k + 1) + 1 = l /\ k \in 1..Len(moves) /\ k + 1 \in 1..Len(moves)
        /\ k + 1 \in 1..Len(vec)
    BY <1>1, <1>2, <2>1
  <2>3. /\ Sound(vec[k]) /\ Generated(vec[k], moves[k]) /\ Played(vec[k], vec[k + 1], moves[k])
        /\ Sound(vec[k + 1]) /\ Generated(vec[k + 1], moves[k + 1])
        /\ Played(vec[k + 1], vec[l], moves[k + 1]) /\ BoardOK(vec[l])
    BY <2>2 DEF WellFormed, Sound, Ready
  <2>4. QED
    BY <2>3, NotAfterTwo
<1>7. i >= 4
  BY <1>2, <1>5, <1>6
<1>8. QED
  BY <1>2, <1>4, <1>5, <1>7

\* The en passant square is set by a pawn move, or by the opening.
LEMMA EpThenReset ==
    ASSUME NEW vec, NEW moves, WellFormed(vec, moves), NEW l \in 1..Len(vec), l # 1,
           vec[l].epSquare # NB_SQUARE
    PROVE  vec[l].rule50 = 0
<1>1. PICK k : k = l - 1
  OBVIOUS
<1>2. k \in 1..Len(moves) /\ k + 1 = l
  BY <1>1, Lengths DEF WellFormed
<1>3. Played(vec[k], vec[l], moves[k])
  BY <1>2 DEF WellFormed
<1>4. QED
  BY <1>3 DEF Played

\* Counting positions of a game and counting how many plies back they are is the
\* same, but for the last one.
LEMMA PliesBack ==
    ASSUME NEW n \in Nat, NEW C \in SUBSET (1..n), n \in C, NEW F \in SUBSET (1..n)
    PROVE  /\ IsFiniteSet(F) /\ Cardinality(C) \in Nat /\ Cardinality(F) \in Nat
           /\ (\A k \in C \ {n} : n - k \in F) => Cardinality(C) <= 1 + Cardinality(F)
           /\ (\A i \in F : n - i \in C \ {n}) => 1 + Cardinality(F) <= Cardinality(C)
<1>1. IsFiniteSet(1..n)
  <2>1. \A a, b \in Int : IsFiniteSet(a..b)
    BY FS_Interval
  <2>2. n \in Int /\ 1 \in Int
    OBVIOUS
  <2>3. QED
    BY <2>1, <2>2, Zenon
<1>2. IsFiniteSet(C) /\ IsFiniteSet(F)
  BY <1>1, FS_Subset
<1>3. PICK E : E = C \ {n}
  OBVIOUS
<1>4. IsFiniteSet(E) /\ Cardinality(E) = Cardinality(C) - 1
  BY <1>2, <1>3, FS_RemoveElement
<1>5. /\ Cardinality(C) \in Nat /\ Cardinality(F) \in Nat /\ Cardinality(E) \in Nat
      /\ E \subseteq 1..n
  BY <1>2, <1>3, <1>4, FS_CardinalityType
<1>6. ASSUME \A k \in E : n - k \in F
      PROVE  Cardinality(E) <= Cardinality(F)
  <2>1. PICK f : f = [k \in E |-> n - k]
    OBVIOUS
  <2>2. f \in [E -> F] /\ \A x, y \in E : f[x] = f[y] => x = y
    BY <1>5, <1>6, <2>1
  <2>3. f \in Injection(E, F)
    BY <2>2 DEF Injection, IsInjective
  <2>4. QED
    BY <1>2, <2>3, FS_Injection
<1>7. ASSUME \A i \in F : n - i \in E
      PROVE  Cardinality(F) <= Cardinality(E)
  <2>1. PICK f : f = [i \in F |-> n - i]
    OBVIOUS
  <2>2. f \in [F -> E] /\ \A x, y \in F : f[x] = f[y] => x = y
    BY <1>5, <1>7, <2>1
  <2>3. f \in Injection(F, E)
    BY <2>2 DEF Injection, IsInjective
  <2>4. QED
    BY <1>4, <2>3, FS_Injection
<1>8. QED
  BY <1>2, <1>3, <1>4, <1>5, <1>6, <1>7

\* The plies back at which game_apply_chess_rules finds the last key again.
Found(vec) ==
    {i \in LookedAt(Len(vec) - 1, Last(vec).rule50) : vec[Len(vec) - i].key = Last(vec).key}

\* The third time the key is found, the game is drawn, and not before.
LEMMA RepeatedTwice ==
    ASSUME NEW vec
    PROVE  /\ game_apply_chess_rules(vec) = "NONE" => ~(1 + Cardinality(Found(vec)) >= 3)
           /\ game_apply_chess_rules(vec) = "THREEFOLD" => 1 + Cardinality(Found(vec)) >= 3
<1>1. Repetitions(vec) = 1 + Cardinality(Found(vec))
  BY Zenon DEF Repetitions, Found
<1>2. /\ game_apply_chess_rules(vec) = "NONE" => ~(Repetitions(vec) >= 3)
      /\ game_apply_chess_rules(vec) = "THREEFOLD" => Repetitions(vec) >= 3
  BY DEF game_apply_chess_rules
<1>3. QED
  BY <1>1, <1>2, Zenon

\* Where the same position is, its key is found; and where the key is found, there
\* is the same placement, or there would be an en passant square, and then the
\* counter is 0, or the game has just begun.
LEMMA WhatIsFound ==
    ASSUME NEW vec, NEW moves, WellFormed(vec, moves), Ageing(vec),
           NEW n, n = Len(vec)
    PROVE  /\ n \in Nat /\ n >= 1 /\ DOMAIN vec = 1..n /\ Last(vec) = vec[n]
           /\ Found(vec) \subseteq 4..(n - 1)
           /\ \A k \in 1..n : k # n /\ Same(vec[k], vec[n]) => n - k \in Found(vec)
           /\ \A i \in Found(vec) :
                 SamePlacement(vec[n - i], vec[n]) /\ vec[n - i].epSquare = vec[n].epSquare
<1>1. n \in Nat /\ n >= 1 /\ DOMAIN vec = 1..n /\ Last(vec) = vec[n]
  BY Lengths DEF WellFormed, Last
<1>2. PICK r \in 0..100 : r = vec[n].rule50
  <2>1. n \in 1..Len(vec)
    BY <1>1
  <2>2. QED
    BY <2>1 DEF WellFormed
<1>3. Found(vec) = {i \in 4..(n - 1) : i % 2 = 0 /\ i <= r /\ vec[n - i].key = vec[n].key}
  BY <1>1, <1>2 DEF Found, LookedAt
<1>4. ASSUME NEW k \in 1..n, k # n, Same(vec[k], vec[n])
      PROVE  n - k \in Found(vec)
  <2>1. k < n /\ n \in 1..Len(vec) /\ k \in 1..Len(vec)
    BY <1>1, <1>4
  <2>2. n - k >= 4 /\ (n - k) % 2 = 0 /\ n - k <= r
    BY <1>2, <1>4, <2>1, SameApart
  <2>3. vec[k].key = vec[n].key
    BY <1>4, <2>1, SameKey DEF WellFormed, Sound, Ready
  <2>4. n - (n - k) = k /\ n - k \in 4..(n - 1)
    BY <1>1, <2>1, <2>2
  <2>5. QED
    BY <1>3, <2>2, <2>3, <2>4
<1>5. ASSUME NEW i \in Found(vec)
      PROVE  SamePlacement(vec[n - i], vec[n]) /\ vec[n - i].epSquare = vec[n].epSquare
  <2>1. i \in 4..(n - 1) /\ i <= r /\ vec[n - i].key = vec[n].key
    BY <1>3, <1>5
  <2>2. n \in 1..Len(vec) /\ n - i \in 1..Len(vec) /\ n # 1 /\ r # 0
    BY <1>1, <1>2, <2>1
  <2>3. vec[n].epSquare = NB_SQUARE
    BY <1>2, <2>2, EpThenReset
  <2>4. PICK p, q : p = vec[n] /\ q = vec[n - i]
    OBVIOUS
  <2>5. /\ BoardOK(p) /\ Keyed(p) /\ RightsSound(p) /\ BoardOK(q) /\ Keyed(q) /\ RightsSound(q)
        /\ p.key = q.key /\ p.epSquare = NB_SQUARE
        /\ q.epSquare \in Square \union {NB_SQUARE}
    BY <2>1, <2>2, <2>3, <2>4 DEF WellFormed, Sound, EpSound, Ready
  <2>6. SamePlacement(p, q) /\ q.epSquare = NB_SQUARE
    BY <2>5, KeySame
  <2>7. QED
    BY <2>3, <2>4, <2>6 DEF SamePlacement
<1>6. QED
  BY <1>1, <1>3, <1>4, <1>5

\* How long the list of a position command is.
LEMMA MovesTold ==
    ASSUME NEW vec, NEW moves, NEW n \in Nat, FirstPly(vec) \in 0..n, Len(moves) = n
    PROVE  Len(uci_position_command(vec, moves).moves) = n - FirstPly(vec)
<1>1. PICK k \in Nat : k = n - FirstPly(vec)
  OBVIOUS
<1>2. PICK f : f = [i \in 1..k |-> pos_move_to_lan(vec[FirstPly(vec) + i], moves[FirstPly(vec) + i])]
  OBVIOUS
<1>3. uci_position_command(vec, moves).moves = f
  BY <1>1, <1>2, Zenon DEF uci_position_command
<1>4. Len(f) = k
  <2>1. DOMAIN f = 1..k /\ f = [i \in 1..k |-> f[i]]
    BY <1>2
  <2>2. f \in Seq({f[i] : i \in 1..k})
    BY <2>1, SeqDef
  <2>3. DOMAIN f = 1..Len(f) /\ Len(f) \in Nat
    BY <2>2
  <2>4. QED
    BY <2>1, <2>3
<1>5. QED
  BY <1>1, <1>3, <1>4

\* Where the counter reaches back, for positions before and after the last move
\* that reset it.
LEMMA CounterReaches ==
    ASSUME NEW n \in Nat, NEW j \in 1..n, NEW k \in 1..n, NEW r \in 0..100, NEW i \in 0..100,
           j - k <= i, r = i + (n - j) \/ r < n - j
    PROVE  ~(k < n - r /\ n - r <= j)
OBVIOUS

\* The position command drops nothing that returns.
LEMMA DroppedStayAway ==
    ASSUME History, Ageing(vecPos),
           NEW first, first = Len(vecPos) - Len(uci_position_command(vecPos, lastMoves).moves),
           NEW k \in 1..(first - 1), NEW j \in first..Len(vecPos), Same(vecPos[k], vecPos[j])
    PROVE  FALSE
<1>1. PICK n \in Nat : n = Len(vecPos) /\ n >= 1 /\ Len(lastMoves) = n - 1
  BY Lengths DEF History, WellFormed
<1>2. PICK r \in 0..100 : r = vecPos[n].rule50 /\ r = Last(vecPos).rule50
  <2>1. n \in 1..Len(vecPos) /\ Last(vecPos) = vecPos[n]
    BY <1>1 DEF Last
  <2>2. QED
    BY <2>1 DEF History, WellFormed
<1>3. /\ FirstPly(vecPos) = IF r > n - 1 THEN 0 ELSE (n - 1) - r
      /\ FirstPly(vecPos) \in 0..(n - 1)
  <2>1. FirstPly(vecPos) = IF r > n - 1 THEN 0 ELSE (n - 1) - r
    BY <1>1, <1>2, Zenon DEF FirstPly
  <2>2. (IF r > n - 1 THEN 0 ELSE (n - 1) - r) \in 0..(n - 1)
    BY <1>1
  <2>3. QED
    BY <2>1, <2>2, Zenon
<1>4. first = FirstPly(vecPos) + 1
  <2>1. n - 1 \in Nat
    BY <1>1
  <2>2. Len(uci_position_command(vecPos, lastMoves).moves) = (n - 1) - FirstPly(vecPos)
    BY <1>1, <1>3, <2>1, MovesTold
  <2>3. QED
    BY <1>1, <1>3, <2>2
<1>5. /\ k \in 1..n /\ j \in 1..n /\ k < first /\ first <= j /\ first = n - r
      /\ k <= j /\ j <= n /\ n \in 1..n
  BY <1>1, <1>3, <1>4
<1>6. PICK i \in 0..100 : i = vecPos[j].rule50
  BY <1>1, <1>5 DEF History, WellFormed
<1>7. Level(vecPos[k], vecPos[j])
  BY SameLevel
<1>8. Aged(vecPos[k], vecPos[j], j - k) /\ Aged(vecPos[j], vecPos[n], n - j)
  BY <1>1, <1>5 DEF Ageing
<1>9. j - k <= i
  BY <1>6, <1>7, <1>8 DEF Aged
<1>10. r = i + (n - j) \/ r < n - j
  BY <1>2, <1>6, <1>8 DEF Aged
<1>11. ~(k < n - r /\ n - r <= j)
  BY <1>5, <1>9, <1>10, CounterReaches
<1>12. QED
  BY <1>5, <1>11

\* So counting the keys is counting the positions.
LEMMA CountedByKeys == History /\ Ageing(vecPos) => RepetitionsCounted
<1> SUFFICES ASSUME History, Ageing(vecPos) PROVE RepetitionsCounted
  OBVIOUS
<1>1. PICK n, F : n = Len(vecPos) /\ F = Found(vecPos)
  OBVIOUS
<1>2. /\ n \in Nat /\ n >= 1 /\ DOMAIN vecPos = 1..n /\ Last(vecPos) = vecPos[n]
      /\ F \subseteq 4..(n - 1)
      /\ \A k \in 1..n : k # n /\ Same(vecPos[k], vecPos[n]) => n - k \in F
      /\ \A i \in F : SamePlacement(vecPos[n - i], vecPos[n])
                      /\ vecPos[n - i].epSquare = vecPos[n].epSquare
  BY <1>1, WhatIsFound DEF History
<1>3. F \in SUBSET (1..n) /\ n \in 1..n
  BY <1>2
<1>4. /\ state = "NONE" => ~(1 + Cardinality(F) >= 3)
      /\ state = "THREEFOLD" => 1 + Cardinality(F) >= 3
  BY <1>1, RepeatedTwice DEF History
<1>5. Occurrences >= 3 => state # "NONE"
  <2>1. PICK C : C = {k \in 1..n : Same(vecPos[k], vecPos[n])}
    OBVIOUS
  <2>2. C \in SUBSET (1..n) /\ n \in C /\ \A k \in C \ {n} : n - k \in F
    BY <1>2, <1>3, <2>1 DEF Same, SamePlacement
  <2>3. Cardinality(C) \in Nat /\ Cardinality(F) \in Nat /\ Cardinality(C) <= 1 + Cardinality(F)
    BY <1>2, <1>3, <2>2, PliesBack
  <2>4. Cardinality(C) >= 3 => 1 + Cardinality(F) >= 3
    BY <2>3
  <2>5. Occurrences = Cardinality(C)
    BY <1>2, <2>1, Zenon DEF Occurrences
  <2>6. QED
    BY <1>4, <2>4, <2>5, Zenon
<1>6. ASSUME state = "THREEFOLD"
      PROVE  Cardinality({k \in DOMAIN vecPos :
                /\ SamePlacement(vecPos[k], Last(vecPos))
                /\ vecPos[k].epSquare = Last(vecPos).epSquare}) >= 3
  <2>1. PICK C : C = {k \in 1..n : /\ SamePlacement(vecPos[k], vecPos[n])
                                   /\ vecPos[k].epSquare = vecPos[n].epSquare}
    OBVIOUS
  <2>2. C \in SUBSET (1..n) /\ n \in C /\ \A i \in F : n - i \in C \ {n}
    <3>1. C \in SUBSET (1..n) /\ n \in C
      BY <1>3, <2>1 DEF SamePlacement
    <3>2. \A i \in F : n - i \in 1..n /\ n - i # n
      BY <1>2
    <3>3. QED
      BY <1>2, <2>1, <3>1, <3>2
  <2>3. Cardinality(C) \in Nat /\ Cardinality(F) \in Nat /\ 1 + Cardinality(F) <= Cardinality(C)
    BY <1>2, <1>3, <2>2, PliesBack
  <2>4. 1 + Cardinality(F) >= 3 => Cardinality(C) >= 3
    BY <2>3
  <2>5. Cardinality(C) >= 3
    BY <1>4, <1>6, <2>4, Zenon
  <2>6. QED
    BY <1>2, <2>1, <2>5, Zenon
<1>7. \A first : first = Len(vecPos) - Len(uci_position_command(vecPos, lastMoves).moves)
        => \A k \in 1..(first - 1), j \in first..Len(vecPos) : ~Same(vecPos[k], vecPos[j])
  BY DroppedStayAway
<1>8. QED
  BY <1>5, <1>6, <1>7, Zenon DEF RepetitionsCounted

\* A position that has occurred three times ends the game, and a game drawn by
\* repetition has had the placement of its last position three times, though
\* game_apply_chess_rules compares keys only, those of every second ply, no
\* further back than rule50; and no position that the position command drops is
\* the same as one that it keeps.
THEOREM RepetitionsFound == Spec => []RepetitionsCounted
<1>1. QED
  BY HistoryStarts, HistoryGoesOn, AgeingStarts, AgeingStays, CountedByKeys, PTL DEF Spec
=============================================================================
