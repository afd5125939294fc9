------------------------------- MODULE Board -------------------------------
(***************************************************************************)
(* The chess board: src/bitboard.c.  A bitboard is the set of the squares  *)
(* whose bits are set.  The tables that bb_init computes (Segment, Ray, the*)
(* attacks of each piece) are constant functions here; the magic numbers   *)
(* through which the attacks of sliders are looked up are abstracted.      *)
(***************************************************************************)
EXTENDS Integers, FiniteSets

NB_SQUARE == 64
Square == 0..NB_SQUARE - 1

WHITE == 0
BLACK == 1
Color == {WHITE, BLACK}

Piece == {"KNIGHT", "BISHOP", "ROOK", "QUEEN", "KING", "PAWN"}

\* The value of prom for a move that does not promote.
NB_PIECE == "NB_PIECE"

opposite(color) == 1 - color
push_inc(color) == IF color = WHITE THEN 8 ELSE -8

rank_of(s) == s \div 8
file_of(s) == s % 8
square_from(r, f) == 8 * r + f
relative_rank(color, r) == IF color = WHITE THEN r ELSE 7 - r

Rank(r) == {s \in Square : rank_of(s) = r}
File(f) == {s \in Square : file_of(s) = f}

RookDir == {<<-1, 0>>, <<0, -1>>, <<0, 1>>, <<1, 0>>}
BishopDir == {<<-1, -1>>, <<-1, 1>>, <<1, -1>>, <<1, 1>>}
KingDir == RookDir \union BishopDir
KnightDir == {<<-2, -1>>, <<-2, 1>>, <<-1, -2>>, <<-1, 2>>,
              <<1, -2>>, <<1, 2>>, <<2, -1>>, <<2, 1>>}
PawnDir(color) == LET up == IF color = WHITE THEN 1 ELSE -1
                  IN  {<<up, -1>>, <<up, 1>>}

\* The square k steps from s in direction d is on the board.
OnBoard(s, d, k) ==
    rank_of(s) + k * d[1] \in 0..7 /\ file_of(s) + k * d[2] \in 0..7

Step(s, d, k) == s + k * (8 * d[1] + d[2])

\* The squares beyond s in direction d.
Line(s, d) == {Step(s, d, k) : k \in {j \in 1..7 : OnBoard(s, d, j)}}

Leaps(s, dirs) == {Step(s, d, 1) : d \in {e \in dirs : OnBoard(s, e, 1)}}

\* The squares from s to t, both included; none if they are not on a line.
Segment ==
    [s \in Square |-> [t \in Square |->
        IF t = s THEN {s}
        ELSE UNION {{s} \union (Line(s, d) \ Line(t, d)) :
                      d \in {e \in KingDir : t \in Line(s, e)}}]]

\* The line from s through t to the edge; none if they are not on a line.
Ray ==
    [s \in Square |-> [t \in Square |->
        UNION {{s} \union Line(s, d) :
                 d \in {e \in KingDir : t \in Line(s, e)}}]]

PawnAttacks ==
    [color \in Color |-> [s \in Square |-> Leaps(s, PawnDir(color))]]
KnightAttacks == [s \in Square |-> Leaps(s, KnightDir)]
KingAttacks == [s \in Square |-> Leaps(s, KingDir)]

RookLines == [s \in Square |-> UNION {Line(s, d) : d \in RookDir}]
BishopLines == [s \in Square |-> UNION {Line(s, d) : d \in BishopDir}]

\* slider_attacks: the squares of lines up to the first occupied one.
Unobstructed(s, lines, occ) ==
    {t \in lines : (Segment[s][t] \ {s, t}) \intersect occ = {}}

bb_rook_attacks(s, occ) == Unobstructed(s, RookLines[s], occ)
bb_bishop_attacks(s, occ) == Unobstructed(s, BishopLines[s], occ)

\* bb_shift: bits that leave the board are lost.
bb_shift(b, i) == {s + i : s \in b} \intersect Square

bb_count(b) == Cardinality(b)
bb_several(b) == Cardinality(b) > 1
=============================================================================
