------------------------------ MODULE MCChess ------------------------------
(***************************************************************************)
(* Openings and moves for TLC: positions whose moves are hard to generate, *)
(* walked with all moves, and endings in which positions recur, walked     *)
(* further with few.                                                       *)
(***************************************************************************)
EXTENDS Chess, Diagrams

\* Both sides may castle on both sides.
FourRooks ==
    Fen(Kings(Sq(e, 1), Sq(e, 8))
              \union Put(WHITE, "ROOK", {Sq(a, 1), Sq(h, 1)})
              \union Put(BLACK, "ROOK", {Sq(a, 8), Sq(h, 8)}),
            WHITE, Rights(<<"K", "Q">>, <<"K", "Q">>), NB_SQUARE, 0)

\* En passant captures that uncover the king along the rank, pinned pawns.
PinnedPawns ==
    Fen(Kings(Sq(a, 5), Sq(h, 4))
              \union Put(WHITE, "PAWN", {Sq(b, 5), Sq(e, 2), Sq(g, 2)})
              \union Put(WHITE, "ROOK", {Sq(b, 4)})
              \union Put(BLACK, "PAWN", {Sq(c, 7), Sq(d, 6), Sq(f, 4)})
              \union Put(BLACK, "ROOK", {Sq(h, 5)}),
            WHITE, <<>>, NB_SQUARE, 3)

\* A double push that gives check and can be captured en passant.
CheckingPush ==
    Fen(Kings(Sq(d, 4), Sq(h, 8))
              \union Put(WHITE, "PAWN", {Sq(f, 5)})
              \union Put(BLACK, "PAWN", {Sq(e, 7), Sq(g, 3)})
              \union Put(BLACK, "BISHOP", {Sq(h, 7)}),
            BLACK, <<>>, NB_SQUARE, 7)

\* Promotions by pushes and captures, of pinned pawns too, and in check.
LastRanks ==
    Fen(Kings(Sq(b, 6), Sq(g, 8))
              \union Put(WHITE, "PAWN", {Sq(c, 7), Sq(a, 7)})
              \union Put(WHITE, "KNIGHT", {Sq(e, 6)})
              \union Put(BLACK, "PAWN", {Sq(f, 2)})
              \union Put(BLACK, "BISHOP", {Sq(d, 8), Sq(b, 8)})
              \union Put(BLACK, "QUEEN", {Sq(g, 1)}),
            WHITE, <<>>, NB_SQUARE, 0)

\* Chess960: the rook that castles is pinned, squares overlap, and a rook without
\* the right stands outside.
PinnedRook ==
    Fen(Kings(Sq(d, 1), Sq(b, 8))
              \union Put(WHITE, "ROOK", {Sq(b, 1), Sq(f, 1), Sq(h, 1)})
              \union Put(BLACK, "ROOK", {Sq(a, 1), Sq(a, 8), Sq(c, 8)})
              \union Put(BLACK, "PAWN", {Sq(b, 7)}),
            WHITE, Rights(<<"F", "B">>, <<"C", "A">>), NB_SQUARE, 0)

\* Chess960: king or rook stand on each other's square, or on their own.
OnTheirSquares ==
    Fen(Kings(Sq(c, 1), Sq(g, 8))
              \union Put(WHITE, "ROOK", {Sq(b, 1), Sq(g, 1)})
              \union Put(BLACK, "ROOK", {Sq(f, 8)})
              \union Put(BLACK, "KNIGHT", {Sq(d, 4)})
              \union Put(WHITE, "PAWN", {Sq(g, 2)}),
            BLACK, Rights(<<"K", "Q">>, <<"Q">>), NB_SQUARE, 0)

\* Pins on lines and diagonals, discovered and double checks.
Discoveries ==
    Fen(Kings(Sq(e, 1), Sq(e, 8))
              \union Put(WHITE, "QUEEN", {Sq(e, 2)})
              \union Put(WHITE, "KNIGHT", {Sq(e, 5)})
              \union Put(WHITE, "BISHOP", {Sq(f, 2), Sq(a, 4)})
              \union Put(BLACK, "BISHOP", {Sq(h, 4), Sq(d, 7)})
              \union Put(BLACK, "ROOK", {Sq(e, 7)}),
            WHITE, <<>>, NB_SQUARE, 0)

\* A rook that may castle, on the a-file or on the h-file.
MayCastle(file, rule50) ==
    Fen(Kings(Sq(e, 1), Sq(e, 8)) \union Put(WHITE, "ROOK", {Sq(file, 1)}),
        WHITE, Rights(<<IF file = a THEN "Q" ELSE "K">>, <<>>), NB_SQUARE, rule50)

\* A double push that can be captured en passant, then kings that come and go.
DoublePush ==
    Fen(Kings(Sq(e, 1), Sq(e, 8)) \union Put(WHITE, "PAWN", {Sq(e, 5)})
              \union Put(BLACK, "PAWN", {Sq(d, 7)}),
            BLACK, <<>>, NB_SQUARE, 0)

\* The last number a move can have, and the one after it.
LastNumber == [DoublePush EXCEPT !.fullMove = 2^16 - 1]

\* Two pieces of a kind that reach the same square: pinned, on one file, on one
\* rank, and on neither.
Rivals ==
    Fen(Kings(Sq(e, 1), Sq(h, 8))
          \union Put(WHITE, "ROOK", {Sq(e, 3), Sq(a, 3), Sq(a, 7)})
          \union Put(WHITE, "KNIGHT", {Sq(d, 2), Sq(g, 1), Sq(g, 5)})
          \union Put(WHITE, "BISHOP", {Sq(b, 1), Sq(b, 5)})
          \union Put(BLACK, "ROOK", {Sq(e, 7)})
          \union Put(BLACK, "BISHOP", {Sq(a, 5)})
          \union Put(BLACK, "QUEEN", {Sq(f, 6), Sq(c, 6), Sq(c, 3)}),
        WHITE, <<>>, NB_SQUARE, 40)

\* Mate in one, when the fifty moves are nearly complete.
NearMate(rule50) ==
    Fen(Kings(Sq(e, 6), Sq(e, 8)) \union Put(WHITE, "ROOK", {Sq(a, 1)}),
            WHITE, <<>>, NB_SQUARE, rule50)

\* A capture that leaves too little material.
LastPawn ==
    Fen(Kings(Sq(e, 7), Sq(d, 3)) \union Put(WHITE, "KNIGHT", {Sq(g, 1)})
              \union Put(BLACK, "PAWN", {Sq(d, 7)}),
            WHITE, <<>>, NB_SQUARE, 20)

BothWays(s, t) == {<<s, t>>, <<t, s>>}

Routes ==
    BothWays(Sq(h, 1), Sq(g, 1)) \union BothWays(Sq(a, 1), Sq(b, 1))
    \union BothWays(Sq(e, 1), Sq(d, 1)) \union BothWays(Sq(e, 8), Sq(d, 8))
    \union BothWays(Sq(e, 8), Sq(f, 8)) \union BothWays(Sq(f, 1), Sq(g, 1))
    \union BothWays(Sq(d, 3), Sq(e, 3))
    \union {<<Sq(e, 1), Sq(h, 1)>>, <<Sq(e, 1), Sq(a, 1)>>,
            <<Sq(d, 7), Sq(d, 5)>>, <<Sq(e, 5), Sq(d, 6)>>,
            <<Sq(e, 7), Sq(d, 7)>>, <<Sq(a, 1), Sq(a, 8)>>}

AnyMove(p) == [fen |-> p, routes |-> Square \X Square, maxPly |-> 2, pvPly |-> 1]
FewMoves(p) == [fen |-> p, routes |-> Routes, maxPly |-> 11, pvPly |-> 11]

AllStarts ==
    {AnyMove(p) : p \in {FourRooks, PinnedPawns, CheckingPush, LastRanks,
                         PinnedRook, OnTheirSquares, Discoveries,
                         LastNumber}}
    \union {[AnyMove(Rivals) EXCEPT !.maxPly = 1]}
    \union {FewMoves(p) : p \in {MayCastle(h, 0), MayCastle(a, 0),
                                MayCastle(h, 97), DoublePush, NearMate(96),
                                NearMate(99), LastPawn}}

\* Castling, and a rook and a king that come and go.
CastlingStarts ==
    {[fen |-> MayCastle(h, 0), maxPly |-> 8, pvPly |-> 0,
      routes |-> BothWays(Sq(h, 1), Sq(g, 1)) \union BothWays(Sq(e, 8), Sq(d, 8))
                   \union BothWays(Sq(e, 1), Sq(d, 1))
                   \union {<<Sq(e, 1), Sq(h, 1)>>}]}
=============================================================================
