------------------------------- MODULE Chess -------------------------------
(***************************************************************************)
(* The chess of a game: the moves gen_all_moves generates, the positions   *)
(* pos_move reaches and game_play pushes, the ends that                    *)
(* game_apply_chess_rules finds (mate, stalemate, the fifty moves,         *)
(* insufficient material, repetition), and what uci_position_command tells *)
(* an engine of them.  ChessRules has the rules of chess to compare with.  *)
(***************************************************************************)
EXTENDS Notation, SequencesExt

CONSTANT Starts   \* openings; the moves played from them, as <<from, to>>;
                  \* maxPly (bound): longer games are not explored; and pvPly
                  \* (bound): the plies up to which PVs are looked at

Rules == INSTANCE ChessRules

\* The openings that pos_set accepts, and the program plays, include some that no
\* game reaches, which are left out: the side that has moved may not be in check,
\* two pieces give check at most, as position.c:162 asserts, a king whose side may
\* castle stands on its first rank, and if an en passant square is set, no knight
\* gives check, nor a pawn that has not just moved.
ASSUME ChessAssumption ==
    \A x \in Starts :
        LET pos == pos_set(x.fen, FALSE)
        IN  /\ IsFen(x.fen) /\ Accepted(x.fen)
            /\ ~Rules!InCheck(x.fen.pieces, opposite(pos.turn))
            /\ bb_count(pos.checkers) <= 2
            /\ \A c \in Color : CastleRooks(pos, c) # {} =>
                  pos_king_square(pos, c) \in Rank(7 * c)
            /\ pos.epSquare # NB_SQUARE =>
                 \A s \in pos.checkers :
                    s \in pos.byPiece["KNIGHT"] \union pos.byPiece["PAWN"]
                      => s = pos.epSquare - push_inc(pos.turn)
            /\ x.routes \subseteq Square \X Square /\ x.maxPly \in Nat /\ x.pvPly \in Nat

VARIABLES start,         \* the opening
          vecPos,        \* g->vecPos
          lastMoves,     \* lastMove of g->vecPos[1], g->vecPos[2], ...
          state          \* what game_apply_chess_rules has returned

vars == <<start, vecPos, lastMoves, state>>

\* Mutant: the position four plies before is not looked at.
LookedAt_FromSix(ply, rule50) == {i \in 6..ply : i % 2 = 0 /\ i <= rule50}

\* How many plies back game_apply_chess_rules looks for repetitions.
LookedAt(ply, rule50) == {i \in 4..ply : i % 2 = 0 /\ i <= rule50}

\* How often the key of the last position is found.
Repetitions(vec) ==
    LET found == {i \in LookedAt(Len(vec) - 1, Last(vec).rule50) :
                    vec[Len(vec) - i].key = Last(vec).key}
    IN  1 + Cardinality(found)

\* Mutant: the draw comes one ply late.
FiftyMoves_Late(pos) == pos.rule50 > 100

FiftyMoves(pos) == pos.rule50 >= 100

game_apply_chess_rules(vec) ==
    LET pos == Last(vec)
    IN  IF gen_all_moves(pos) = {}
        THEN IF pos.checkers # {} THEN "CHECKMATE" ELSE "STALEMATE"
        ELSE IF FiftyMoves(pos) THEN "FIFTY_MOVES"
        ELSE IF pos_insufficient_material(pos) THEN "INSUFFICIENT_MATERIAL"
        ELSE IF Repetitions(vec) >= 3 THEN "THREEFOLD" ELSE "NONE"

\* Mutant: the list starts one position late.
FirstPly_OneLate(vec) ==
    LET ply == Len(vec) - 1
    IN  IF Last(vec).rule50 > ply THEN 0
        ELSE IF Last(vec).rule50 = 0 THEN ply ELSE ply - Last(vec).rule50 + 1

\* Mutant: the list begins with the move that reset the counter.
FirstPly_OneEarly(vec) ==
    LET ply == Len(vec) - 1
    IN  IF Last(vec).rule50 >= ply THEN 0 ELSE ply - Last(vec).rule50 - 1

\* ply0 of uci_position_command.
FirstPly(vec) ==
    LET ply == Len(vec) - 1
    IN  IF Last(vec).rule50 > ply THEN 0 ELSE ply - Last(vec).rule50

\* "position fen ... moves ...": a position and the moves from it.
uci_position_command(vec, moves) ==
    LET ply0 == FirstPly(vec)
    IN  [fen |-> pos_get(vec[ply0 + 1]),
         moves |-> [i \in 1..(Len(moves) - ply0) |->
                      pos_move_to_lan(vec[ply0 + i], moves[ply0 + i])]]

\* One step of the loop of resolve_pv: the position reached, the last one that
\* was not in check, and whether the loop has come to its end.
PlayTactical(x, lan) ==
    LET m == pos_lan_to_move(x.pos, lan)
        p == pos_move(x.pos, m)
    IN  IF x.stopped \/ ~pos_move_is_tactical(x.pos, m) \/ m \notin gen_all_moves(x.pos)
        THEN [x EXCEPT !.stopped = TRUE]
        ELSE [x EXCEPT !.pos = p,
                       !.resolved = IF p.checkers = {} THEN p ELSE x.resolved]

\* The position that a sample takes for pos, when an engine has sent pv.
resolve_pv(pos, pv) ==
    LET played[k \in 0..Len(pv)] ==
          IF k = 0 THEN [pos |-> pos, resolved |-> pos, stopped |-> FALSE]
          ELSE PlayTactical(played[k - 1], pv[k])
    IN  played[Len(pv)].resolved

\* Mutant: in a game that black begins, its first move has no number.
Numbered_White(vec, ply) == vec[ply].turn = WHITE

\* "Write move number".
Numbered(vec, ply) == vec[ply].turn = WHITE \/ ply = 1

\* The moves of game_export_pgn, each with its number, if any, and its marker.
game_export_pgn(vec, moves, end) ==
    [ply \in DOMAIN moves |->
        [number |-> IF Numbered(vec, ply) THEN {vec[ply].fullMove} ELSE {},
         dots |-> vec[ply].turn = BLACK,
         san |-> pos_move_to_san(vec[ply], moves[ply]),
         mark |-> IF vec[ply + 1].checkers = {} THEN ""
                  ELSE IF ply = Len(moves) /\ end = "CHECKMATE" THEN "#" ELSE "+"]]

Init ==
    /\ start \in Starts
    /\ vecPos = <<pos_set(start.fen, FALSE)>>
    /\ lastMoves = <<>>
    /\ state = game_apply_chess_rules(vecPos)

\* A legal move: the next position, and the rules at the top of the loop.
Play ==
    /\ state = "NONE" /\ Len(lastMoves) < start.maxPly
    /\ \E m \in gen_all_moves(Last(vecPos)) :
         /\ <<m.from, m.to>> \in start.routes
         /\ vecPos' = Append(vecPos, pos_move(Last(vecPos), m))
         /\ lastMoves' = Append(lastMoves, m)
    /\ state' = game_apply_chess_rules(vecPos')
    /\ UNCHANGED start

Spec == Init /\ [][Play]_vars

-----------------------------------------------------------------------------
(* Properties.                                                             *)

pos == Last(vecPos)

\* gen_all_moves generates the legal moves, all of them and no other: pins,
\* checks, double checks, en passant and Chess960 castling included.
MovesAreLegal ==
    gen_all_moves(pos) =
        Rules!LegalMoves(Placement(pos), pos.turn, pos.epSquare,
                         CastleRooks(pos, pos.turn))

\* A move places the pieces as the rules say, captures, castling, en passant
\* and promotion included.
MovesPlacePieces ==
    [][LET m == Last(lastMoves')
       IN  Placement(pos') =
             Rules!After(Placement(pos), pos.turn, pos.epSquare, m)]_vars

\* The checkers are the enemy pieces that attack the king, two at most (asserted
\* at position.c:162).
CheckersAttackKing ==
    LET P == Placement(pos)
    IN  /\ pos.checkers = {x[3] : x \in {y \in P :
             /\ y[1] # pos.turn
             /\ pos_king_square(pos, pos.turn) \in Rules!Reach(P, y)}}
        /\ bb_count(pos.checkers) <= 2

\* Moves lead to the position that pos_set would make of the FEN that pos_get
\* writes for it, and that it would verify.  So the key, the checkers, the pins
\* and the attacks that moves keep up to date are those of the position, rooks
\* that may castle stand where they stood and are the ones that the letters of
\* the castling field name, and the en passant square lies behind a pawn that has
\* just moved.  What is said of check is so.
PositionsSound ==
    /\ Verified(pos)
    /\ pos = pos_set(pos_get(pos), pos.chess960)
    /\ CheckersAttackKing

\* What a reader of a packed position takes it for, as README.md:83-101 says:
\* pieces, rights and en passant square.
Unpacked(packed) ==
    LET squares(kinds) == {s \in DOMAIN packed.packedPieces :
                             packed.packedPieces[s][1] \in kinds}
        color(s) == packed.packedPieces[s][2]
        back(kind) == CASE kind = "ROOK_WITH_RIGHT" -> "ROOK"
                        [] kind = "PAWN_CAPTURABLE" -> "PAWN" [] OTHER -> kind
    IN  [pieces |-> {<<color(s), back(packed.packedPieces[s][1]), s>> :
                       s \in DOMAIN packed.packedPieces},
         rooks |-> squares({"ROOK_WITH_RIGHT"}),
         epSquares |-> {s - push_inc(color(s)) : s \in squares({"PAWN_CAPTURABLE"})},
         turn |-> packed.turn, rule50 |-> packed.rule50]

\* Every FEN that leaves the program is one that pos_set would accept, except
\* when fullMove has come to its end and starts again at 0 (position.h:28), and
\* it says all of the position but whether it is Chess960, which need not show
\* once rights are lost.  A binary sample says as much as a FEN does.
PositionsReadBack ==
    LET fen == uci_position_command(vecPos, lastMoves).fen
        read == pos_set(pos_get(pos), FALSE)
    IN  /\ fen.fullMove # 0 => Accepted(fen)
        /\ read = [pos EXCEPT !.chess960 = read.chess960]
        /\ read.chess960 => pos.chess960
        /\ Unpacked(pos_pack(pos)) =
             [pieces |-> Placement(pos), rooks |-> pos.castleRooks,
              epSquares |-> {pos.epSquare} \ {NB_SQUARE},
              turn |-> pos.turn, rule50 |-> pos.rule50]

\* What engines may answer: all that a king, or a piece that may move, may do.
Answers ==
    {[from |-> m.from, to |-> s, prom |-> m.prom] :
       m \in gen_all_moves(pos), s \in {King(pos) + i : i \in -4..4} \intersect Square}

\* A move is read from the text that is written for it, and no other text that
\* an engine may send is read as this move, except castling as the king that
\* takes its rook: that is how an engine answers that is still in the mode of a
\* Chess960 game (game.c:193 sets it, nothing resets it).
MovesReadBack ==
    /\ \A m \in gen_all_moves(pos) :
          pos_lan_to_move(pos, pos_move_to_lan(pos, m)) = m
    /\ \A x \in Answers :
          LET m == pos_lan_to_move(pos, x)
          IN  m \in gen_all_moves(pos) /\ x # m
                => pos_move_is_castling(pos, m) /\ x = pos_move_to_lan(pos, m)

\* Whether m changes what stands on the board, or castles.
Tactical(p, m) ==
    LET x == CHOOSE y \in Placement(p) : y[3] = m.from
    IN  Rules!After(Placement(p), p.turn, p.epSquare, m)
          # (Placement(p) \ {x}) \union {<<x[1], x[2], m.to>>}

\* Moves of a PV, legal or not, that the rules may call tactical, and one that
\* is quiet.
PvMoves(p) ==
    LET all == Rules!PseudoLegal(Placement(p), p.turn, p.epSquare)
                 \union Plain(King(p), CastleRooks(p, p.turn))
        quiet == {m \in all : ~Tactical(p, m)}
    IN  (all \ quiet) \union IF quiet = {} THEN {} ELSE {CHOOSE m \in quiet : TRUE}

\* README.md:76-78: a sample takes the last position not in check that the
\* tactical moves at the start of the PV lead to, or the current one; an illegal
\* move ends the PV, and so does a quiet one.  For all PVs of two such moves.
ResolvedSound ==
    LET plays(p, m) ==
            Tactical(p, m) /\ m \in Rules!LegalMoves(Placement(p), p.turn, p.epSquare,
                                                     CastleRooks(p, p.turn))
        lan(p, m) == pos_move_to_lan(p, m)
        calm(p, else) == IF Rules!InCheck(Placement(p), p.turn) THEN else ELSE p
    IN  Len(lastMoves) <= start.pvPly => \A m \in PvMoves(pos) :
          LET p == pos_move(pos, m)
          IN  IF ~plays(pos, m) THEN resolve_pv(pos, <<lan(pos, m)>>) = pos
              ELSE \A n \in PvMoves(p) :
                     resolve_pv(pos, <<lan(pos, m), lan(p, n)>>) =
                       IF plays(p, n)
                       THEN calm(pos_move(p, n), calm(p, pos))
                       ELSE calm(p, pos)

\* The last move of the PGN file tells the game: among the legal moves it is the
\* only one with its notation, which names a file or a rank only if another piece
\* of the kind could make the move; moves are numbered from the number of the
\* opening, black's first one too; and the markers are those of check and mate.
PgnTellsGame ==
    lastMoves # <<>> =>
      LET n == Len(lastMoves)
          before == vecPos[n]
          last == game_export_pgn(vecPos, lastMoves, state)[n]
          legal == gen_all_moves(before)
          rivals == {m \in legal :
                       /\ m.to = lastMoves[n].to /\ m.from # lastMoves[n].from
                       /\ pos_piece_on(before, m.from) = last.san.piece}
          number == (start.fen.fullMove + (n - 1 + start.fen.turn) \div 2) % 2^16
      IN  /\ {m \in legal : pos_move_to_san(before, m) = last.san} = {lastMoves[n]}
          /\ last.san.piece \notin {"PAWN", "O-O", "O-O-O"} =>
               (last.san.from.file \union last.san.from.rank = {}) = (rivals = {})
          /\ last.dots = (before.turn = BLACK)
          /\ last.number = IF before.turn = WHITE \/ n = 1 THEN {number} ELSE {}
          /\ (last.mark # "") = Rules!InCheck(Placement(pos), pos.turn)
          /\ (last.mark = "#") = (state = "CHECKMATE")

\* The same pieces on the same squares, and the same side to move.
SamePlacement(p, q) ==
    p.byColor = q.byColor /\ p.byPiece = q.byPiece /\ p.turn = q.turn

\* The same position: the same rights too.
Same(p, q) ==
    /\ SamePlacement(p, q)
    /\ p.castleRooks = q.castleRooks /\ p.epSquare = q.epSquare

\* How often the last position has occurred.
Occurrences ==
    Cardinality({k \in DOMAIN vecPos : Same(vecPos[k], Last(vecPos))})

\* game.h:35, "draw by 3 position repetition": a game drawn by repetition has
\* had its last position three times.
ThreefoldIsReal == state = "THREEFOLD" => Occurrences >= 3

\* A position that has occurred three times ends the game: counting by keys, by
\* steps of two plies and only as far as rule50 reaches misses none.  A game drawn
\* by repetition has had the placement of its last position three times, with the
\* same side to move and en passant square, which is what the keys distinguish.
\* Nor does an engine miss a repetition: no position that the position command
\* drops is the same as one that it keeps, game.c:31, "without losing information".
RepetitionsCounted ==
    /\ Occurrences >= 3 => state # "NONE"
    /\ state = "THREEFOLD" =>
         Cardinality({k \in DOMAIN vecPos :
            /\ SamePlacement(vecPos[k], Last(vecPos))
            /\ vecPos[k].epSquare = Last(vecPos).epSquare}) >= 3
    /\ LET cmd == uci_position_command(vecPos, lastMoves)
           first == Len(vecPos) - Len(cmd.moves)
       IN  \A k \in 1..(first - 1), j \in first..Len(vecPos) :
               ~Same(vecPos[k], vecPos[j])

\* A capture or a pawn move.
Irreversible(k) ==
    \/ pos_piece_on(vecPos[k], lastMoves[k].from) = "PAWN"
    \/ lastMoves[k].to \in vecPos[k].byColor[opposite(vecPos[k].turn)]

\* Plies since the last capture or pawn move, from those the opening says.
Quiet ==
    LET marks == {k \in DOMAIN lastMoves : Irreversible(k)}
    IN  IF marks = {} THEN vecPos[1].rule50 + Len(lastMoves)
        ELSE Len(lastMoves) - (CHOOSE k \in marks : \A j \in marks : j <= k)

\* The fifty moves end the game at the ply they are complete, unless it is mate:
\* position.h:31, "100 = draw (unless mated)".  The counter is never ahead; it is
\* behind only when the last capture, pawn move or castling is a castling.
FiftyMovesInTime ==
    LET n == Last(vecPos).rule50
    IN  /\ n <= 100 /\ n <= Quiet
        /\ n < Quiet => \E k \in DOMAIN lastMoves :
              pos_move_is_castling(vecPos[k], lastMoves[k])
        /\ n >= 100 => state = IF gen_all_moves(Last(vecPos)) # {}
                               THEN "FIFTY_MOVES"
                               ELSE IF Last(vecPos).checkers # {}
                               THEN "CHECKMATE" ELSE "STALEMATE"
        /\ state = "FIFTY_MOVES" => n >= 100

\* The moves of a position command, as an engine reads them in its mode.
Replayed(cmd, chess960) ==
    LET reached[k \in 0..Len(cmd.moves)] ==
          IF k = 0 THEN pos_set(cmd.fen, chess960)
          ELSE LET p == reached[k - 1]
               IN  pos_move(p, pos_lan_to_move(p, cmd.moves[k]))
    IN  reached[Len(cmd.moves)]

\* From the position command, which drops moves (game.c:29-31), an engine gets the
\* same position, with its counter.  So does one that is still in the mode of an
\* earlier Chess960 game, since no castling is ever in the list.
PositionCommandReplays ==
    LET cmd == uci_position_command(vecPos, lastMoves)
    IN  \A mode \in {vecPos[1].chess960, TRUE} :
            Replayed(cmd, mode) = [Last(vecPos) EXCEPT !.chess960 = mode]
=============================================================================
