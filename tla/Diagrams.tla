------------------------------ MODULE Diagrams ------------------------------
(***************************************************************************)
(* How to write a position down for TLC.                                   *)
(***************************************************************************)
EXTENDS Notation

\* Files, and the square of a file and a rank (1 to 8).
a == 0
b == 1
c == 2
d == 3
e == 4
f == 5
g == 6
h == 7

Sq(file, rank) == square_from(rank - 1, file)

Put(color, piece, squares) == {<<color, piece, s>> : s \in squares}

Kings(white, black) ==
    Put(WHITE, "KING", {white}) \union Put(BLACK, "KING", {black})

\* The castling field, as letters for WHITE and for BLACK.
Rights(white, black) ==
    [i \in DOMAIN white |-> <<WHITE, white[i]>>]
      \o [i \in DOMAIN black |-> <<BLACK, black[i]>>]

Fen(pieces, turn, castling, epSquare, rule50) ==
    [pieces |-> pieces, turn |-> turn, castling |-> castling,
     epSquare |-> epSquare, rule50 |-> rule50, fullMove |-> 1]
=============================================================================
