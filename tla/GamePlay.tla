------------------------------ MODULE GamePlay ------------------------------
(***************************************************************************)
(* One game: game_play of src/game.c.  Two engines move in turn; the game  *)
(* keeps their clocks, adjudicates draws and resignations from the scores  *)
(* they send, collects samples, and ends with a state from which three     *)
(* results are derived: the one in the PGN file, the one of each sample,   *)
(* and the one returned to the tournament.                                 *)
(*                                                                         *)
(* A game has one thread.  What the position allows (mate, stalemate, the  *)
(* draws of the rules: module Chess) and what an engine answers (the       *)
(* time it takes, the last score it sends, a move that is legal or not)    *)
(* are free.  Scores and times are members of small sets.                  *)
(***************************************************************************)
EXTENDS Integers, Sequences, FiniteSets

CONSTANTS Setups,        \* the settings explored, and what engines answer
          IsMate(_),     \* is_mate of a score
          Unlimited      \* INT64_MAX / 2: the clock of an engine without one

TimeControl == [time : Nat, increment : Nat, movetime : Nat, movestogo : Nat]
Rule == [count : Nat, score : Nat, number : Nat]

ASSUME GamePlayAssumption ==
    /\ Unlimited \in Nat
    /\ \A x \in Setups :
         /\ x.scores \subseteq Int
         /\ x.elapsed \subseteq Nat /\ \A t \in x.elapsed : t < Unlimited
         /\ x.timeControls \subseteq TimeControl
         /\ x.draw \in Rule /\ x.resign \in Rule
         /\ x.sampling \in BOOLEAN /\ x.resolve \in BOOLEAN
         /\ x.maxPly \in Nat

VARIABLES setup,         \* the command line, and the engines' answers
          reverse,       \* job.reverse: engines[reverse] moves first
          turn0,         \* the side to move in the opening, WHITE = 0
          eo,            \* the time control of each engine
          ply,           \* g->ply
          ei,            \* engines[ei] has the move
          at,            \* where game_play is: "rules", "go", "think", "over"
          state,         \* g->state
          timeLeft,
          drawPlyCount,
          resignCount,
          told,          \* the clocks of the last "go"
          vecInfo,       \* g->vecInfo: engine, score and time of each move
          vecSamples     \* g->vecSamples: turn, score, result, and the ply

settings == <<setup, reverse, turn0, eo>>
counters == <<drawPlyCount, resignCount>>
vars == <<settings, ply, ei, at, state, timeLeft, counters, told, vecInfo,
          vecSamples>>

Scores == setup.scores           \* of the "info" lines
Elapsed == setup.elapsed         \* times an engine takes to answer
Draw == setup.draw               \* drawCount, drawScore, drawNumber
Resign == setup.resign           \* resignCount, resignScore, resignNumber
Sampling == setup.sampling       \* options.sp.fileName is given
Resolve == setup.resolve         \* options.sp.resolve
MaxPly == setup.maxPly           \* bound: longer games are not explored

WHITE == 0
Engine == 0..1
Xor(a, b) == (a + b) % 2

Losses == {"CHECKMATE", "TIME_LOSS", "ILLEGAL_MOVE", "RESIGN"}
Draws == {"STALEMATE", "THREEFOLD", "FIFTY_MOVES", "INSUFFICIENT_MATERIAL",
          "DRAW_ADJUDICATION"}
ByRules == {"CHECKMATE", "STALEMATE", "THREEFOLD", "FIFTY_MOVES",
            "INSUFFICIENT_MATERIAL"}

\* g->vecPos[g->ply].turn
turn == Xor(turn0, ply)

\* The engine that plays a colour: g->names.
names(color) == Xor(color, Xor(turn0, reverse))

Clocked(e) == eo[e].time # 0 \/ eo[e].increment # 0

\* Mutant: the limit of movetime is not enforced.
Limited_Clocked(e) == Clocked(e)

Limited(e) == Clocked(e) \/ eo[e].movetime # 0

Init ==
    /\ setup \in Setups
    /\ reverse \in Engine /\ turn0 \in 0..1
    /\ eo \in [Engine -> setup.timeControls]
    /\ ply = 0 /\ ei = reverse /\ at = "rules" /\ state = "NONE"
    /\ timeLeft = [e \in Engine |-> eo[e].time]
    /\ drawPlyCount = 0 /\ resignCount = [e \in Engine |-> 0]
    /\ told = [white |-> 0, black |-> 0, movestogo |-> 0]
    /\ vecInfo = <<>> /\ vecSamples = <<>>

-----------------------------------------------------------------------------
(* The results of a game that ends in state s.                             *)

\* wpov: the result from white's point of view, 0 for a loss, 2 for a win.
wpov(s) == IF s \in Losses THEN (IF turn = WHITE THEN 0 ELSE 2) ELSE 1

\* Mutant: the engine is taken for the colour it plays.
wld_Colour(s) == IF s \in Losses THEN (IF turn = WHITE THEN 0 ELSE 2) ELSE 1

\* The value game_play returns: the result of engines[0].
wld(s) == IF s \in Losses THEN (IF ei = 0 THEN 0 ELSE 2) ELSE 1

\* game_decode_state: the result in the PGN file, "0-1", "1-0" or "1/2-1/2".
PgnResult(s) ==
    IF s \in Losses THEN (IF turn = WHITE THEN "black" ELSE "white") ELSE "draw"

\* The loop that fills in the results of the samples after the game.
WithResults(samples, s) ==
    [k \in DOMAIN samples |->
        [samples[k] EXCEPT
            !.result = IF samples[k].turn = WHITE THEN wpov(s)
                       ELSE 2 - wpov(s)]]

\* break out of the loop, with the code that follows it.
End(s) ==
    /\ state' = s /\ at' = "over"
    /\ vecSamples' = WithResults(vecSamples, s)
    /\ UNCHANGED <<settings, ply, ei>>

-----------------------------------------------------------------------------
(* The loop.                                                               *)

\* game_apply_chess_rules: the game may be over.
ApplyRules ==
    /\ at = "rules"
    /\ \/ \E s \in ByRules : End(s)
       \/ /\ ply < MaxPly
          /\ at' = "go"
          /\ UNCHANGED <<settings, ply, ei, state, vecSamples>>
    /\ UNCHANGED <<timeLeft, counters, told, vecInfo>>

\* Mutant: the clock is refilled before the first move too.
Refilled_AtStart(e) == eo[e].movestogo # 0 /\ (ply \div 2) % eo[e].movestogo = 0

\* "movestogo specific clock reset event".
Refilled(e) ==
    eo[e].movestogo # 0 /\ ply > 1 /\ (ply \div 2) % eo[e].movestogo = 0

\* "Prepare timeLeft[ei]".
NewTimeLeft(e) ==
    IF eo[e].movetime # 0 THEN eo[e].movetime
    ELSE IF Clocked(e)
    THEN timeLeft[e] + eo[e].increment
           + (IF Refilled(e) THEN eo[e].time ELSE 0)
    ELSE Unlimited

\* Mutant: the clock of the engine on move for white.
ClockOf_Mover(color) == Xor(ei, color)

\* The index of the clock sent for color.
ClockOf(color) == Xor(Xor(ei, turn), color)

\* uci_go_command: wtime, btime (sent if Clocked) and movestogo.
uci_go_command(left) ==
    [white |-> left[ClockOf(WHITE)], black |-> left[ClockOf(1)],
     movestogo |-> IF eo[ei].movestogo = 0 THEN 0
                   ELSE eo[ei].movestogo - ((ply \div 2) % eo[ei].movestogo)]

Go ==
    /\ at = "go" /\ at' = "think"
    /\ timeLeft' = [timeLeft EXCEPT ![ei] = NewTimeLeft(ei)]
    /\ told' = uci_go_command(timeLeft')
    /\ UNCHANGED <<settings, ply, ei, state, counters, vecInfo, vecSamples>>

\* engine_bestmove returns: t has passed, s was the last score.
Answer(s, t) ==
    /\ at = "think"
    /\ timeLeft' = [timeLeft EXCEPT ![ei] = @ - t]
    /\ vecInfo' = Append(vecInfo, [engine |-> ei, score |-> s, time |-> t])
    /\ UNCHANGED told

\* A line other than the move came after the limit: engine_bestmove gives up.
GivesUp(s, t) ==
    /\ Answer(s, t)
    /\ timeLeft[ei] < t
    /\ End("TIME_LOSS")
    /\ UNCHANGED counters

\* The move is illegal, be it in time or late.
IllegalMove(s, t) ==
    /\ Answer(s, t)
    /\ End("ILLEGAL_MOVE")
    /\ UNCHANGED counters

\* The move is legal, and came after the limit.
LateMove(s, t) ==
    /\ Answer(s, t)
    /\ Limited(ei) /\ timeLeft[ei] < t
    /\ End("TIME_LOSS")
    /\ UNCHANGED counters

\* Mutant: the counter survives a score out of its range.
NoDrawScore_Kept == drawPlyCount

\* The counter after a score out of its range.
NoDrawScore == 0

\* drawPlyCount after a move with score s.
DrawCounter(s) ==
    IF Draw.count # 0 /\ s \in (-Draw.score)..Draw.score
    THEN drawPlyCount + 1 ELSE NoDrawScore

\* The conditions of the draw rule, nested as in the code.
DrawAgreed(s) ==
    /\ Draw.count # 0 /\ s \in (-Draw.score)..Draw.score
    /\ DrawCounter(s) >= 2 * Draw.count
    /\ ply \div 2 + 1 >= Draw.number

\* Mutant: one counter for both engines.
ResignCount_Shared == resignCount[0] + resignCount[1]

ResignCount == resignCount[ei]

\* resignCount[ei] after a move with score s.
ResignCounter(s) ==
    IF Resign.count # 0 /\ s <= -Resign.score THEN ResignCount + 1 ELSE 0

Resigns(s) ==
    /\ Resign.count # 0 /\ s <= -Resign.score
    /\ ResignCounter(s) >= Resign.count
    /\ ply \div 2 + 1 >= Resign.number

\* A legal move in time.
LegalMove(s, t) == Answer(s, t) /\ ~(Limited(ei) /\ timeLeft[ei] < t)

AgreeDraw(s, t) ==
    /\ LegalMove(s, t)
    /\ DrawAgreed(s)
    /\ drawPlyCount' = DrawCounter(s)
    /\ End("DRAW_ADJUDICATION")
    /\ UNCHANGED resignCount

ResignGame(s, t) ==
    /\ LegalMove(s, t)
    /\ ~DrawAgreed(s) /\ Resigns(s)
    /\ drawPlyCount' = DrawCounter(s)
    /\ resignCount' = [resignCount EXCEPT ![ei] = ResignCounter(s)]
    /\ End("RESIGN")

\* Mutant: the score keeps the point of view of the engine.
ScoreFor_Mover(s, sideToMove) == s

\* The score, turned to the point of view of the side to move.
ScoreFor(s, sideToMove) == IF sideToMove = turn THEN s ELSE -s

\* The sample of a position with sideToMove to move.  Its result is not known yet
\* (NB_RESULT).
NewSample(s, sideToMove) ==
    [ply |-> ply, turn |-> sideToMove,
     score |-> ScoreFor(s, sideToMove), result |-> 3]

\* The sampling of a move: by chance, and without resolution the position
\* itself; with it the one that ends the tactical moves of the PV, if that one
\* is not in check.
Sample(s) ==
    \/ UNCHANGED vecSamples
    \/ /\ Sampling /\ ~(Resolve /\ IsMate(s))
       /\ \E sideToMove \in IF Resolve THEN 0..1 ELSE {turn} :
             vecSamples' = Append(vecSamples, NewSample(s, sideToMove))

\* The game goes on: the move is played on the next position.
PlayOn(s, t) ==
    /\ LegalMove(s, t)
    /\ ~DrawAgreed(s) /\ ~Resigns(s)
    /\ drawPlyCount' = DrawCounter(s)
    /\ resignCount' = [resignCount EXCEPT ![ei] = ResignCounter(s)]
    /\ Sample(s)
    /\ ei' = 1 - ei /\ ply' = ply + 1 /\ at' = "rules"
    /\ UNCHANGED <<settings, state>>

\* game_play has returned.
Over == at = "over" /\ UNCHANGED vars

Next ==
    \/ ApplyRules \/ Go
    \/ \E s \in Scores, t \in Elapsed :
         \/ GivesUp(s, t) \/ IllegalMove(s, t) \/ LateMove(s, t)
         \/ AgreeDraw(s, t) \/ ResignGame(s, t) \/ PlayOn(s, t)
    \/ Over

Spec == Init /\ [][Next]_vars

-----------------------------------------------------------------------------
(* Properties.                                                             *)

\* The moves of engine e, and how many it has begun.
Moves(e) == {k \in DOMAIN vecInfo : vecInfo[k].engine = e}
Begun(e) == Cardinality(Moves(e)) + (IF at = "think" /\ ei = e THEN 1 ELSE 0)

\* The sum of a sequence, and the time that the moves of e took.
Total(s) ==
    LET sum[k \in 0..Len(s)] == IF k = 0 THEN 0 ELSE sum[k - 1] + s[k]
    IN  sum[Len(s)]
Used(e) ==
    Total([k \in DOMAIN vecInfo |->
              IF vecInfo[k].engine = e THEN vecInfo[k].time ELSE 0])

\* README.md:62: "moves is the number of moves per tc, time is time per tc, and
\* increment is time increment per move": what e has been given so far.
Given(e) ==
    IF Begun(e) = 0 THEN eo[e].time
    ELSE eo[e].time * (1 + (IF eo[e].movestogo = 0 THEN 0
                               ELSE (Begun(e) - 1) \div eo[e].movestogo))
           + eo[e].increment * Begun(e)

\* The clock of an engine is what its time control gave it less what it used:
\* each refill comes once and in time, for the engine that moves first and for
\* the other, although the code counts the plies of the game and not the moves
\* of the engine.  And an engine is told its own clock and the other's under the
\* right colour, and the number of moves that it really has before the refill.
ClocksAreFair ==
    /\ \A e \in Engine :
         Clocked(e) /\ eo[e].movetime = 0 => timeLeft[e] = Given(e) - Used(e)
    /\ at = "think" =>
         /\ told.white = timeLeft[names(WHITE)]
         /\ told.black = timeLeft[names(1)]
         /\ eo[ei].movestogo # 0 =>
              /\ told.movestogo \in 1..eo[ei].movestogo
              /\ (Begun(ei) - 1 + told.movestogo) % eo[ei].movestogo = 0

Overdrawn(e) ==
    IF eo[e].movetime # 0
    THEN \E k \in Moves(e) : vecInfo[k].time > eo[e].movetime
    ELSE Clocked(e) /\ Used(e) > Given(e)

\* Only an engine that has used more than it had loses on time, and no engine
\* that has plays on.
TimeLossDeserved ==
    /\ state = "TIME_LOSS" => Overdrawn(ei)
    /\ state \notin {"TIME_LOSS", "ILLEGAL_MOVE"} =>
         \A e \in Engine : ~Overdrawn(e)

\* README.md:33: "Adjudicate the game as a draw, if the score of both engines is
\* within S centipawns from zero, for at least C consecutive moves, and at least
\* N moves have been played", N counted by the engine that has moved.
DrawDue ==
    LET n == Len(vecInfo)
    IN  /\ Draw.count # 0 /\ n >= 2 * Draw.count
        /\ \A k \in (n + 1 - 2 * Draw.count)..n :
              vecInfo[k].score \in (-Draw.score)..Draw.score
        /\ (n + 1) \div 2 >= Draw.number

\* The engine that has moved, and how often an engine has moved after move k.
LastEngine == vecInfo[Len(vecInfo)].engine
MovesAfter(e, k) == Cardinality({j \in Moves(e) : j > k})

\* README.md:34: the last C scores of the engine that has moved are all at least
\* S below zero, whatever the scores of the other engine in between.
ResignDue ==
    /\ vecInfo # <<>> /\ Resign.count # 0
    /\ Cardinality(Moves(LastEngine)) >= Resign.count
    /\ \A k \in Moves(LastEngine) :
          MovesAfter(LastEngine, k) < Resign.count
              => vecInfo[k].score <= -Resign.score
    /\ (Len(vecInfo) + 1) \div 2 >= Resign.number

\* A game is adjudicated when it is due, as a draw or as lost by the engine that
\* has moved, and a game in which it is due does not go on.
AdjudicatedWhenDue ==
    /\ state = "DRAW_ADJUDICATION" => DrawDue
    /\ state = "RESIGN" => ResignDue /\ ei = LastEngine
    /\ DrawDue => state \in {"DRAW_ADJUDICATION", "TIME_LOSS", "ILLEGAL_MOVE"}
    /\ ResignDue => state \in {"RESIGN", "DRAW_ADJUDICATION", "TIME_LOSS",
                              "ILLEGAL_MOVE"}

\* The result in the PGN file, by colours, and the result counted for the
\* engines are the same result.
SameResult ==
    wld(state) = CASE PgnResult(state) = "draw" -> 1
                   [] PgnResult(state) = "white" -> IF names(WHITE) = 0 THEN 2 ELSE 0
                   [] PgnResult(state) = "black" -> IF names(WHITE) = 0 THEN 0 ELSE 2

\* README.md:80-81: a sample holds the score and the result of the game from the
\* point of view of the side to move in it, which need not be the engine that
\* gave the score; a resolved sample has no mate score.
SampleAgrees(s) ==
    LET m == vecInfo[s.ply + 1]
    IN  /\ s.result = IF names(s.turn) = 0 THEN wld(state) ELSE 2 - wld(state)
        /\ s.score = IF names(s.turn) = m.engine THEN m.score ELSE -m.score
        /\ Resolve => ~IsMate(m.score)

\* The results of a game that is over agree with each other: the one by colours,
\* the one by engines and the one in each sample, which the code derives from
\* three different variables.
ResultsAgree ==
    at = "over" =>
        SameResult /\ \A k \in DOMAIN vecSamples : SampleAgrees(vecSamples[k])
=============================================================================
