------------------------------ MODULE Notation ------------------------------
(***************************************************************************)
(* How positions and moves are written and read: the conversions of        *)
(* src/position.c.  A FEN, a move and a packed position are records with   *)
(* one field for each part of the text; the characters are left out.       *)
(***************************************************************************)
EXTENDS MoveGen, Sequences, FiniteSetsExt

FileLabel == <<"A", "B", "C", "D", "E", "F", "G", "H">>

-----------------------------------------------------------------------------
(* FEN: pieces is a set of <<color, piece, square>>, castling a sequence   *)
(* of <<color, letter>>, empty for "-".                                    *)

\* The rook that a letter of the castling field names: the outermost one on its
\* side of the rank for K and Q, the one on the file for a file.
CastleRook(pieces, color, letter) ==
    LET rooks == {s \in Rank(7 * color) : <<color, "ROOK", s>> \in pieces}
    IN  CASE letter = "K" -> Max(rooks)
          [] letter = "Q" -> Min(rooks)
          [] OTHER -> 8 * 7 * color
                        + (CHOOSE i \in DOMAIN FileLabel : FileLabel[i] = letter) - 1

\* The detection of Chess960: a rook that does not stand on its file, or a king.
Detected960(pieces, rooks) ==
    \E r \in rooks, x \in pieces :
        /\ x[2] = "KING" /\ <<x[1], "ROOK", r>> \in pieces
        /\ (file_of(r) \in 1..6 \/ file_of(x[3]) # 4)

\* What the text of a FEN can say: a square has one piece at most.
IsFen(fen) ==
    /\ fen.pieces \subseteq Color \X Piece \X Square
    /\ \A x, y \in fen.pieces : x[3] = y[3] => x = y
    /\ fen.castling \in Seq(Color \X ({"K", "Q"} \union Range(FileLabel)))
    /\ fen.turn \in Color /\ fen.epSquare \in Square \union {NB_SQUARE}

\* pos_set: the position that a FEN describes, without the verifications.
pos_set(fen, force960) ==
    LET rooks == {CastleRook(fen.pieces, x[1], x[2]) : x \in Range(fen.castling)}
    IN  finish([byColor |-> [c \in Color |->
                    {x[3] : x \in {y \in fen.pieces : y[1] = c}}],
                byPiece |-> [p \in Piece |->
                    {x[3] : x \in {y \in fen.pieces : y[2] = p}}],
                castleRooks |-> rooks,
                key |-> UNION ({ZobristKey(x[1], x[2], x[3]) : x \in fen.pieces}
                          \union {zobrist_castling(rooks),
                                  ZobristEnPassant(fen.epSquare),
                                  IF fen.turn = BLACK THEN ZobristTurn ELSE {}}),
                attacked |-> {}, checkers |-> {}, pins |-> {},
                turn |-> fen.turn, epSquare |-> fen.epSquare,
                rule50 |-> fen.rule50, fullMove |-> fen.fullMove,
                chess960 |-> force960 \/ Detected960(fen.pieces, rooks)])

\* The letters of the castling field name different rooks, as bb_set asserts: it
\* sets a bit that is not set (without assertions, a rook named twice has no right).
NamesOnce(pieces, castling) ==
    LET rook(i) == CastleRook(pieces, castling[i][1], castling[i][2])
    IN  \A i, j \in DOMAIN castling : rook(i) = rook(j) => i = j

\* pos_set returns true, and its assertion holds.
Accepted(fen) ==
    /\ Len(fen.castling) <= 4 /\ NamesOnce(fen.pieces, fen.castling)
    /\ fen.rule50 \in 0..99
    /\ fen.fullMove \in 1..(2^16 - 1)
    /\ Verified(pos_set(fen, FALSE))

Placement(pos) ==
    UNION {{<<c, p, s>> : s \in pos_pieces_cp(pos, c, p)} : c \in Color, p \in Piece}

\* Mutant: the letters are those of chess in Chess960 too.
RightLetter_Chess(pos, r, side) == side

\* The letter for the right of the rook r: its side of the king, or its file.
RightLetter(pos, r, side) ==
    IF pos.chess960 THEN FileLabel[file_of(r) + 1] ELSE side

\* The castling field: for each color the rook right of the king, then the left.
CastlingField(pos) ==
    LET rooks(color, d) ==
            CastleRooks(pos, color) \intersect Line(pos_king_square(pos, color), d)
        letter(color, d, side) ==
            IF rooks(color, d) = {} THEN <<>>
            ELSE << <<color, RightLetter(pos, Min(rooks(color, d)), side)>> >>
    IN  letter(WHITE, <<0, 1>>, "K") \o letter(WHITE, <<0, -1>>, "Q")
          \o letter(BLACK, <<0, 1>>, "K") \o letter(BLACK, <<0, -1>>, "Q")

pos_get(pos) ==
    [pieces |-> Placement(pos), turn |-> pos.turn, castling |-> CastlingField(pos),
     epSquare |-> pos.epSquare, rule50 |-> pos.rule50, fullMove |-> pos.fullMove]

-----------------------------------------------------------------------------
(* Moves: LAN, which engines use, and SAN, for the PGN file.               *)

\* e1h1 is e1g1, and e1a1 is e1c1, but in Chess960.
pos_move_to_lan(pos, m) ==
    IF pos.chess960 \/ ~pos_move_is_castling(pos, m) THEN m
    ELSE [m EXCEPT !.to = IF m.to > m.from THEN m.from + 2 ELSE m.from - 2]

\* Mutant: the long castling is taken for the short one.
KingTarget_Short(from, to) == IF to = from + 2 THEN to + 1 ELSE to

\* e1g1 is e1h1, and e1c1 is e1a1.
KingTarget(from, to) ==
    IF to = from + 2 THEN to + 1 ELSE IF to = from - 2 THEN to - 2 ELSE to

pos_lan_to_move(pos, lan) ==
    IF pos.chess960 \/ pos_piece_on(pos, lan.from) # "KING" THEN lan
    ELSE [lan EXCEPT !.to = KingTarget(lan.from, lan.to)]

\* Mutant: pinned sliders never count.
Contenders_Pinned(pos, s, to) == s \notin pos.pins

\* A pinned slider counts if it stays on its line.
Contenders(pos, s, to) == to \in Allowed(pos, s)

\* The other pieces of the kind of the one on from that can reach to.
Contesters(pos, from, to) ==
    LET piece == pos_piece_on(pos, from)
        occ == pos_pieces(pos)
        others == pos_pieces_cp(pos, pos.turn, piece) \ {from}
        rook == bb_rook_attacks(to, occ)
        bishop == bb_bishop_attacks(to, occ)
        reach == CASE piece = "ROOK" -> rook [] piece = "BISHOP" -> bishop
                   [] piece = "QUEEN" -> rook \union bishop
    IN  IF piece = "KNIGHT" THEN (others \intersect KnightAttacks[to]) \ pos.pins
        ELSE {s \in others \intersect reach : Contenders(pos, s, to)}

\* The file and the rank of from that are written: none if nobody contests, the
\* file if nobody contests on its rank or file.
Disambiguation(from, contesters) ==
    LET rank == contesters \intersect Rank(rank_of(from)) # {}
        file == contesters \intersect File(file_of(from)) # {}
    IN  [file |-> IF rank \/ (contesters # {} /\ ~file) THEN {file_of(from)} ELSE {},
         rank |-> IF file THEN {rank_of(from)} ELSE {}]

\* Without the marker of checks.  A pawn move names the file of the pawn.
pos_move_to_san(pos, m) ==
    LET piece == pos_piece_on(pos, m.from)
        castling == pos_move_is_castling(pos, m)
        capture == m.to \in pos.byColor[opposite(pos.turn)]
        from == CASE piece = "PAWN" -> [file |-> {file_of(m.from)}, rank |-> {}]
                  [] piece = "KING" -> [file |-> {}, rank |-> {}]
                  [] OTHER -> Disambiguation(m.from, Contesters(pos, m.from, m.to))
    IN  [piece |-> IF ~castling THEN piece
                   ELSE IF m.to > m.from THEN "O-O" ELSE "O-O-O",
         from |-> from, to |-> IF castling THEN {} ELSE {m.to}, prom |-> m.prom,
         capture |-> capture \/ (piece = "PAWN" /\ m.to = pos.epSquare)]

\* Mutant: captures en passant are forgotten.
TakesEnPassant_Never(pos, m) == FALSE

TakesEnPassant(pos, m) ==
    m.to = pos.epSquare /\ m.from \in pos_pieces_cp(pos, pos.turn, "PAWN")

\* Captures, castling and promotions.
pos_move_is_tactical(pos, m) ==
    m.to \in pos_pieces(pos) \/ TakesEnPassant(pos, m) \/ m.prom # NB_PIECE

-----------------------------------------------------------------------------
(* The positions of a sample file in binary format.                        *)

\* Mutant: the color of the pawn is taken for that of the side to move.
Capturable_Own(pos, s) == pos.epSquare = s - push_inc(pos.turn)

\* The pawn on s can be captured en passant.
Capturable(pos, s) == pos.epSquare = s + push_inc(pos.turn)

\* packedPieces has one entry for each bit of occ: here a function.
pos_pack(pos) ==
    LET piece(s) == pos_piece_on(pos, s)
        extPiece(s) ==
            IF piece(s) = "ROOK" /\ s \in pos.castleRooks THEN "ROOK_WITH_RIGHT"
            ELSE IF piece(s) = "PAWN" /\ Capturable(pos, s) THEN "PAWN_CAPTURABLE"
            ELSE piece(s)
    IN  [turn |-> pos.turn, rule50 |-> pos.rule50 % 2^7,
         packedPieces |-> [s \in pos_pieces(pos) |->
                             <<extPiece(s), pos_color_on(pos, s)>>]]
=============================================================================
