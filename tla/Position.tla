------------------------------ MODULE Position ------------------------------
(***************************************************************************)
(* Positions and moves: src/position.c.  A position is a record of the     *)
(* bitboards and numbers of the code.                                      *)
(*                                                                         *)
(* The key of a position is the exclusive or of one random number for each *)
(* feature of the position.  Here it is the set of these numbers, by the   *)
(* name of the feature, and the exclusive or is the symmetric difference:  *)
(* two keys are equal when they are made of the same numbers.  A number    *)
(* that the code leaves at zero contributes nothing.                       *)
(***************************************************************************)
EXTENDS Board

Xor(a, b) == (a \ b) \union (b \ a)

ZobristKey(color, piece, s) == {<<"piece", color, piece, s>>}
ZobristTurn == {<<"turn">>}

\* The squares whose numbers zobrist_init draws: its loop runs to NB_COLOR.
Drawn == {s \in Square : s < 2}

ZobristCastling(s) == IF s \in Drawn THEN {<<"castling", s>>} ELSE {}
ZobristEnPassant(s) ==
    IF s \in Drawn \union {NB_SQUARE} THEN {<<"ep", s>>} ELSE {}
zobrist_castling(rooks) == UNION {ZobristCastling(s) : s \in rooks}

-----------------------------------------------------------------------------
pos_pieces(pos) == pos.byColor[WHITE] \union pos.byColor[BLACK]
pos_pieces_cp(pos, color, p) == pos.byColor[color] \intersect pos.byPiece[p]
pos_pieces_cpp(pos, color, p1, p2) ==
    pos.byColor[color] \intersect (pos.byPiece[p1] \union pos.byPiece[p2])

pos_king_square(pos, color) ==
    CHOOSE s \in Square : s \in pos_pieces_cp(pos, color, "KING")
pos_color_on(pos, s) == IF s \in pos.byColor[WHITE] THEN WHITE ELSE BLACK
pos_piece_on(pos, s) ==
    IF \E p \in Piece : s \in pos.byPiece[p]
    THEN CHOOSE p \in Piece : s \in pos.byPiece[p] ELSE NB_PIECE

pos_insufficient_material(pos) ==
    /\ bb_count(pos_pieces(pos)) <= 3
    /\ \A p \in {"PAWN", "ROOK", "QUEEN"} : pos.byPiece[p] = {}

clear_square(pos, color, piece, s) ==
    [pos EXCEPT !.byColor[color] = @ \ {s}, !.byPiece[piece] = @ \ {s},
                !.key = Xor(@, ZobristKey(color, piece, s))]

set_square(pos, color, piece, s) ==
    [pos EXCEPT !.byColor[color] = @ \union {s},
                !.byPiece[piece] = @ \union {s},
                !.key = Xor(@, ZobristKey(color, piece, s))]

-----------------------------------------------------------------------------
(* finish: what follows from the placement for the side to move.           *)

\* The pieces of us that stand alone between the king and an enemy slider.
Pins(pos) ==
    LET us == pos.turn
        them == opposite(us)
        king == pos_king_square(pos, us)
        pinners == (pos_pieces_cpp(pos, them, "ROOK", "QUEEN")
                      \intersect bb_rook_attacks(king, {}))
                   \union (pos_pieces_cpp(pos, them, "BISHOP", "QUEEN")
                      \intersect bb_bishop_attacks(king, {}))
        skewered(pinner) ==
            (Segment[king][pinner] \intersect pos_pieces(pos)) \ {king, pinner}
    IN  UNION {skewered(p) : p \in
                 {q \in pinners : /\ ~bb_several(skewered(q))
                                  /\ skewered(q) \intersect pos.byColor[us] # {}}}

\* The squares that the enemy attacks, seen through our king.
Attacked(pos) ==
    LET them == opposite(pos.turn)
        pawns == pos_pieces_cp(pos, them, "PAWN")
        occ == pos_pieces(pos) \ pos_pieces_cp(pos, pos.turn, "KING")
    IN  KingAttacks[pos_king_square(pos, them)]
        \union (UNION {KnightAttacks[s] : s \in pos_pieces_cp(pos, them, "KNIGHT")})
        \union bb_shift(pawns \ File(0), push_inc(them) - 1)
        \union bb_shift(pawns \ File(7), push_inc(them) + 1)
        \union (UNION {bb_rook_attacks(s, occ) :
                         s \in pos_pieces_cpp(pos, them, "ROOK", "QUEEN")})
        \union (UNION {bb_bishop_attacks(s, occ) :
                         s \in pos_pieces_cpp(pos, them, "BISHOP", "QUEEN")})

\* Mutant: the squares that the king of us defends as an enemy pawn would.
PawnCheckSquares_Theirs(us, king) == PawnAttacks[opposite(us)][king]

\* Where enemy pawns give check.
PawnCheckSquares(us, king) == PawnAttacks[us][king]

\* The enemy pieces that give check, looked for if the king is attacked.
Checkers(pos, attacked) ==
    LET us == pos.turn
        them == opposite(us)
        king == pos_king_square(pos, us)
    IN  IF king \notin attacked THEN {}
        ELSE (pos_pieces_cp(pos, them, "PAWN") \intersect PawnCheckSquares(us, king))
             \union (pos_pieces_cp(pos, them, "KNIGHT")
                       \intersect KnightAttacks[king])
             \union (pos_pieces_cpp(pos, them, "ROOK", "QUEEN")
                       \intersect bb_rook_attacks(king, pos_pieces(pos)))
             \union (pos_pieces_cpp(pos, them, "BISHOP", "QUEEN")
                       \intersect bb_bishop_attacks(king, pos_pieces(pos)))

finish(pos) ==
    LET attacked == Attacked(pos)
    IN  [pos EXCEPT !.pins = Pins(pos), !.attacked = attacked,
                    !.checkers = Checkers(pos, attacked)]

-----------------------------------------------------------------------------
\* Rooks of color that may castle.
CastleRooks(pos, color) == pos.castleRooks \intersect pos.byColor[color]

\* The verifications of pos_set.
Verified(pos) ==
    /\ \A color \in Color :
         /\ bb_count(pos_pieces_cpp(pos, color, "KNIGHT", "PAWN")) <= 10
         /\ bb_count(pos_pieces_cpp(pos, color, "BISHOP", "PAWN")) <= 10
         /\ bb_count(pos_pieces_cpp(pos, color, "ROOK", "PAWN")) <= 10
         /\ bb_count(pos_pieces_cpp(pos, color, "QUEEN", "PAWN")) <= 9
         /\ bb_count(pos_pieces_cp(pos, color, "PAWN")) <= 8
         /\ bb_count(pos_pieces_cp(pos, color, "KING")) = 1
         /\ bb_count(pos.byColor[color]) <= 16
    /\ pos.byPiece["PAWN"] \intersect (Rank(0) \union Rank(7)) = {}
    /\ \A color \in Color :
         LET rooks == CastleRooks(pos, color)
             king == pos_pieces_cp(pos, color, "KING")
         IN  /\ rooks \subseteq pos_pieces_cp(pos, color, "ROOK")
             /\ rooks \subseteq Rank(7 * color)
             /\ \/ rooks = {}
                \/ bb_count(rooks) = 1 /\ king \intersect (File(0) \union File(7)) = {}
                \/ /\ bb_count(rooks) = 2
                   /\ \A a, b \in rooks :
                        a # b => Segment[a][b] \intersect king # {}
    /\ pos.castleRooks \subseteq pos_pieces(pos)
    /\ pos.epSquare # NB_SQUARE =>
         LET r == rank_of(pos.epSquare)
             color == IF r = 2 THEN WHITE ELSE BLACK
         IN  /\ r \in {2, 5} /\ color # pos.turn
             /\ pos.epSquare \notin pos_pieces(pos)
             /\ pos.epSquare + push_inc(color) \in pos_pieces_cp(pos, color, "PAWN")
             /\ pos.epSquare - push_inc(color) \notin pos_pieces(pos)

-----------------------------------------------------------------------------
(* pos_move.                                                               *)

Move == [from : Square, to : Square, prom : Piece \union {NB_PIECE}]

pos_move_is_castling(pos, m) == m.to \in pos.byColor[pos.turn]

\* Mutant: a rook that is captured keeps its right.
RightsLeft_All(pos, m) == pos.castleRooks

\* "Capturing a rook alters corresponding castling right".
RightsLeft(pos, m) == pos.castleRooks \ {m.to}

\* The piece on the square to, if any, has gone: an enemy's, or the own rook
\* that castles.
Captured(pos, m) ==
    LET capture == pos_piece_on(pos, m.to)
        gone == clear_square(pos, pos_color_on(pos, m.to), capture, m.to)
    IN  IF capture = NB_PIECE THEN pos
        ELSE [gone EXCEPT !.rule50 = 0, !.castleRooks = RightsLeft(pos, m)]

\* The piece has moved from its square to the other.
Moved(pos, m, piece) ==
    set_square(clear_square(pos, pos.turn, piece, m.from), pos.turn, piece, m.to)

\* Mutant: an en passant capture takes the pawn on the square before.
Behind_Beside(us, to) == to + push_inc(us)

\* Where the pawn stands that is captured en passant.
Behind(us, to) == to - push_inc(us)

\* A pawn move: the counter, the en passant square, its capture, promotion.
PawnMoved(pos, before, m) ==
    LET us == pos.turn
        push == push_inc(us)
        double == /\ m.to = m.from + 2 * push
                  /\ PawnAttacks[us][m.from + push]
                       \intersect pos_pieces_cp(pos, opposite(us), "PAWN") # {}
        p == [pos EXCEPT !.rule50 = 0,
                         !.epSquare = IF double THEN m.from + push ELSE @]
    IN  IF m.to = before.epSquare
        THEN clear_square(p, opposite(us), "PAWN", Behind(us, m.to))
        ELSE IF rank_of(m.to) \in {0, 7}
        THEN set_square(clear_square(p, us, "PAWN", m.to), us, m.prom, m.to)
        ELSE p

\* A king move: its rights are lost, and castling takes both to their squares.
KingMoved(pos, before, m) ==
    LET us == pos.turn
        p == [pos EXCEPT !.castleRooks = @ \ Rank(7 * us)]
        kto == square_from(rank_of(m.from), IF m.to > m.from THEN 6 ELSE 2)
        rto == square_from(rank_of(m.from), IF m.to > m.from THEN 5 ELSE 3)
    IN  IF m.to \notin before.byColor[us] THEN p
        ELSE set_square(set_square(clear_square(p, us, "KING", m.to),
                                   us, "KING", kto), us, "ROOK", rto)

\* Mutant: the key forgets that the en passant square has gone.
EpKeys_None(before, after) == {}

EpKeys(before, after) == Xor(ZobristEnPassant(before), ZobristEnPassant(after))

pos_move(before, m) ==
    LET piece == pos_piece_on(before, m.from)
        start == [before EXCEPT !.rule50 = @ + 1, !.epSquare = NB_SQUARE]
        moved == Moved(Captured(start, m), m, piece)
        done == CASE piece = "PAWN" -> PawnMoved(moved, before, m)
                  [] piece = "KING" -> KingMoved(moved, before, m)
                  [] OTHER -> [moved EXCEPT !.castleRooks = @ \ {m.from}]
        key == Xor(Xor(Xor(done.key, ZobristTurn),
                       EpKeys(before.epSquare, done.epSquare)),
                   zobrist_castling(Xor(before.castleRooks, done.castleRooks)))
    IN  finish([done EXCEPT !.turn = opposite(before.turn), !.key = key,
                            !.fullMove = (@ + before.turn) % 2^16])
=============================================================================
