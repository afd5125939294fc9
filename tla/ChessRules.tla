----------------------------- MODULE ChessRules -----------------------------
(***************************************************************************)
(* The rules of chess and Chess960, stated without the tables, pins and    *)
(* attacked squares of the code: the reference for MoveGen and Position.   *)
(* A placement is a set of <<color, piece, square>>.                       *)
(***************************************************************************)
EXTENDS Board

On(P, s) == {x \in P : x[3] = s}
Own(P, c, s) == \E x \in On(P, s) : x[1] = c
Empty(P, s) == On(P, s) = {}
KingOf(P, c) == (CHOOSE x \in P : x[1] = c /\ x[2] = "KING")[3]

Slides(p) == CASE p = "ROOK" -> RookDir [] p = "BISHOP" -> BishopDir
               [] p = "QUEEN" -> KingDir [] OTHER -> {}
Jumps(x) == CASE x[2] = "KNIGHT" -> KnightDir [] x[2] = "KING" -> KingDir
              [] x[2] = "PAWN" -> PawnDir(x[1]) [] OTHER -> {}

\* The squares that the piece x attacks.
Reach(P, x) ==
    {Step(x[3], d, 1) : d \in {e \in Jumps(x) : OnBoard(x[3], e, 1)}}
    \union
    UNION {{Step(x[3], d, k) : k \in {j \in 1..7 :
               /\ OnBoard(x[3], d, j)
               /\ \A n \in 1..(j - 1) : Empty(P, Step(x[3], d, n))}} :
             d \in Slides(x[2])}

AttackedBy(P, c) == UNION {Reach(P, x) : x \in {y \in P : y[1] = c}}
InCheck(P, c) == KingOf(P, c) \in AttackedBy(P, opposite(c))

\* The squares of the king and of the rook after castling with the rook on r.
KingTo(king, r) == 8 * rank_of(king) + (IF r > king THEN 6 ELSE 2)
RookTo(king, r) == 8 * rank_of(king) + (IF r > king THEN 5 ELSE 3)

\* The placement after color us has played m, a castling move being the king
\* taking its rook.
After(P, us, ep, m) ==
    LET x == CHOOSE y \in P : y[3] = m.from
        castling == Own(P, us, m.to)
        taken == IF x[2] = "PAWN" /\ m.to = ep
                 THEN 8 * rank_of(m.from) + file_of(m.to) ELSE m.to
        now == IF m.prom = NB_PIECE THEN x[2] ELSE m.prom
        rest == P \ (On(P, m.from) \union On(P, taken))
    IN  IF castling
        THEN rest \union {<<us, "KING", KingTo(m.from, m.to)>>,
                          <<us, "ROOK", RookTo(m.from, m.to)>>}
        ELSE rest \union {<<us, now, m.to>>}

\* Where the pawn x may go, check apart.
PawnTargets(P, x, ep) ==
    LET push == push_inc(x[1])
    IN  {s \in Reach(P, x) : \/ s = ep
                             \/ ~Empty(P, s) /\ ~Own(P, x[1], s)}
        \union {s \in {x[3] + push} : Empty(P, s)}
        \union {s \in {x[3] + 2 * push} :
                   /\ rank_of(x[3]) = relative_rank(x[1], 1)
                   /\ Empty(P, x[3] + push) /\ Empty(P, s)}

\* Moves of us, castling and check apart.
PseudoLegal(P, us, ep) ==
    UNION {IF x[2] # "PAWN"
           THEN {[from |-> x[3], to |-> s, prom |-> NB_PIECE] :
                   s \in {t \in Reach(P, x) : ~Own(P, us, t)}}
           ELSE UNION {{[from |-> x[3], to |-> s, prom |-> p] :
                          p \in IF rank_of(s) \in {0, 7}
                                THEN {"KNIGHT", "BISHOP", "ROOK", "QUEEN"}
                                ELSE {NB_PIECE}} :
                         s \in PawnTargets(P, x, ep)} :
             x \in {y \in P : y[1] = us}}

\* The squares of a rank from s to t.
Path(s, t) == {q \in Square : s <= q /\ q <= t} \union
              {q \in Square : t <= q /\ q <= s}

\* Castling with the rook on r: nothing between king, rook and their squares,
\* the king neither in check nor passing or ending on an attacked square.
MayCastle(P, us, r) ==
    LET king == KingOf(P, us)
        m == [from |-> king, to |-> r, prom |-> NB_PIECE]
    IN  /\ \A s \in Path(king, KingTo(king, r)) \union Path(r, RookTo(king, r)) :
              Empty(P, s) \/ s \in {king, r}
        /\ Path(king, KingTo(king, r)) \intersect AttackedBy(P, opposite(us)) = {}
        /\ ~InCheck(After(P, us, NB_SQUARE, m), us)

LegalMoves(P, us, ep, rooks) ==
    {m \in PseudoLegal(P, us, ep) : ~InCheck(After(P, us, ep, m), us)}
    \union {[from |-> KingOf(P, us), to |-> r, prom |-> NB_PIECE] :
              r \in {q \in rooks : MayCastle(P, us, q)}}
=============================================================================
