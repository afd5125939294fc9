------------------------------ MODULE MoveGen ------------------------------
(***************************************************************************)
(* Move generation: src/gen.c.  The generator makes legal moves at once,   *)
(* from the pins, the attacked squares and the checkers that finish has    *)
(* computed.  A list of moves is the set of its moves: their order is only *)
(* that of the bits.                                                       *)
(***************************************************************************)
EXTENDS Position

move(from, to, prom) == [from |-> from, to |-> to, prom |-> prom]

Plain(from, targets) == {move(from, to, NB_PIECE) : to \in targets}

King(pos) == pos_king_square(pos, pos.turn)

\* A pinned piece stays on the line from the king.
Allowed(pos, from) ==
    IF from \in pos.pins THEN Ray[King(pos)][from] ELSE Square

serialize_piece_moves(pos, from, targets) ==
    Plain(from, targets \intersect Allowed(pos, from))

serialize_pawn_moves(pos, pawns, shift) ==
    {move(s, s + shift, NB_PIECE) :
        s \in {p \in pawns : p + shift \in Allowed(pos, p)}}

\* The captures and pushes of the pawns that do not promote.
NormalPawnMoves(pos, filter) ==
    LET us == pos.turn
        push == push_inc(us)
        capturable == pos.byColor[opposite(us)] \intersect filter
        empty == Square \ pos_pieces(pos)
        pawns == pos_pieces_cp(pos, us, "PAWN") \ Rank(relative_rank(us, 6))
        lc == (pawns \ File(0)) \intersect bb_shift(capturable, -(push - 1))
        rc == (pawns \ File(7)) \intersect bb_shift(capturable, -(push + 1))
        sp == pawns \intersect bb_shift(empty \intersect filter, -push)
        dp == pawns \intersect Rank(relative_rank(us, 1))
                    \intersect bb_shift(empty, -push)
                    \intersect bb_shift(empty \intersect filter, -2 * push)
    IN  serialize_pawn_moves(pos, lc, push - 1)
        \union serialize_pawn_moves(pos, rc, push + 1)
        \union serialize_pawn_moves(pos, sp, push)
        \union serialize_pawn_moves(pos, dp, 2 * push)

\* Mutant: a pinned pawn stays on its line, and nothing else is looked at.
EnPassant_ByPins(pos) ==
    IF pos.epSquare = NB_SQUARE THEN {}
    ELSE {move(s, pos.epSquare, NB_PIECE) : s \in
            {p \in PawnAttacks[opposite(pos.turn)][pos.epSquare]
                     \intersect pos_pieces_cp(pos, pos.turn, "PAWN") :
               pos.epSquare \in Allowed(pos, p)}}

\* En passant captures: two pawns leave their squares, so sliders are looked
\* for on the board after the move.  filter plays no part.
EnPassant(pos) ==
    LET us == pos.turn
        them == opposite(us)
        king == King(pos)
        occ(from) == (((pos_pieces(pos) \ {from}) \union {pos.epSquare})
                        \ {pos.epSquare + push_inc(them)})
    IN  IF pos.epSquare = NB_SQUARE THEN {}
        ELSE {move(s, pos.epSquare, NB_PIECE) : s \in
                {p \in PawnAttacks[them][pos.epSquare]
                         \intersect (pos_pieces_cp(pos, us, "PAWN")
                                       \ Rank(relative_rank(us, 6))) :
                   /\ bb_rook_attacks(king, occ(p))
                        \intersect pos_pieces_cpp(pos, them, "ROOK", "QUEEN") = {}
                   /\ bb_bishop_attacks(king, occ(p))
                        \intersect pos_pieces_cpp(pos, them, "BISHOP", "QUEEN") = {}}}

Promotions(pos, filter) ==
    LET us == pos.turn
        capturable == pos.byColor[opposite(us)] \intersect filter
        empty == Square \ pos_pieces(pos)
        targets(from) ==
            (PawnAttacks[us][from] \intersect capturable)
            \union ({from + push_inc(us)} \intersect filter \intersect empty)
    IN  UNION {{move(s, to, prom) :
                  to \in targets(s) \intersect Allowed(pos, s),
                  prom \in {"QUEEN", "ROOK", "BISHOP", "KNIGHT"}} :
                 s \in pos_pieces_cp(pos, us, "PAWN")
                       \intersect Rank(relative_rank(us, 6))}

gen_pawn_moves(pos, filter) ==
    NormalPawnMoves(pos, filter) \union EnPassant(pos) \union Promotions(pos, filter)

KingMoves(pos, filter) ==
    serialize_piece_moves(pos, King(pos),
        (KingAttacks[King(pos)] \intersect filter) \ pos.attacked)

gen_piece_moves(pos, filter) ==
    LET us == pos.turn
    IN  (UNION {serialize_piece_moves(pos, s, KnightAttacks[s] \intersect filter) :
                  s \in pos_pieces_cp(pos, us, "KNIGHT")})
        \union
        (UNION {serialize_piece_moves(pos, s,
                  bb_rook_attacks(s, pos_pieces(pos)) \intersect filter) :
                  s \in pos_pieces_cpp(pos, us, "ROOK", "QUEEN")})
        \union
        (UNION {serialize_piece_moves(pos, s,
                  bb_bishop_attacks(s, pos_pieces(pos)) \intersect filter) :
                  s \in pos_pieces_cpp(pos, us, "BISHOP", "QUEEN")})

\* A castling move is written as the king taking the rook.
gen_castling_moves(pos) ==
    LET king == King(pos)
        kto(r) == square_from(rank_of(r), IF r > king THEN 6 ELSE 2)
        rto(r) == square_from(rank_of(r), IF r > king THEN 5 ELSE 3)
    IN  Plain(king, {r \in CastleRooks(pos, pos.turn) :
          /\ bb_count((Segment[king][kto(r)] \union Segment[r][rto(r)])
                        \intersect pos_pieces(pos)) = 2
          /\ pos.attacked \intersect Segment[king][kto(r)] = {}
          /\ r \notin pos.pins})

\* In check: king moves, and with one checker its capture or an interposition.
gen_check_escapes(pos) ==
    LET ours == pos.byColor[pos.turn]
        checker == CHOOSE s \in pos.checkers : TRUE
        slider == pos_piece_on(pos, checker) \in {"BISHOP", "ROOK", "QUEEN"}
        targets == IF slider THEN Segment[King(pos)][checker] ELSE pos.checkers
        \* with the en passant square, where the checking pawn is captured
        pawnTargets == IF /\ pos_piece_on(pos, checker) = "PAWN"
                          /\ pos.epSquare # NB_SQUARE
                       THEN targets \union {pos.epSquare} ELSE targets
    IN  KingMoves(pos, Square \ ours)
        \union IF bb_several(pos.checkers) THEN {}
               ELSE gen_piece_moves(pos, targets \ ours)
                    \union gen_pawn_moves(pos, pawnTargets)

gen_all_moves(pos) ==
    LET filter == Square \ pos.byColor[pos.turn]
    IN  IF pos.checkers # {} THEN gen_check_escapes(pos)
        ELSE gen_pawn_moves(pos, filter) \union gen_piece_moves(pos, filter)
             \union KingMoves(pos, filter) \union gen_castling_moves(pos)
=============================================================================
