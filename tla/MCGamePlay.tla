----------------------------- MODULE MCGamePlay -----------------------------
(***************************************************************************)
(* Instance of GamePlay for TLC: three setups, one per part of the game,   *)
(* so that the clocks, the adjudication and the samples are each explored  *)
(* through long enough games.                                              *)
(***************************************************************************)
EXTENDS GamePlay

Tc(mtg, time, inc, movetime) ==
    [time |-> time, increment |-> inc, movetime |-> movetime, movestogo |-> mtg]

NoClock == Tc(0, 0, 0, 0)

\* 1/1, 2/1+1, 1+1, a time per move, and no clock.
ClockKinds == {Tc(1, 1, 0, 0), Tc(2, 1, 1, 0), Tc(0, 1, 1, 0), Tc(0, 0, 0, 1),
               NoClock}

DrawRule == [count |-> 1, score |-> 1, number |-> 2]
ResignRule == [count |-> 2, score |-> 2, number |-> 3]
NoRule == [count |-> 0, score |-> 0, number |-> 0]

Plain == [scores |-> {0}, elapsed |-> {0}, timeControls |-> {NoClock},
          draw |-> NoRule, resign |-> NoRule, sampling |-> FALSE,
          resolve |-> FALSE, maxPly |-> 6]

\* Every pair of time controls, and engines that take up to two units a move.
Clocks == [Plain EXCEPT !.elapsed = {0, 1, 2}, !.timeControls = ClockKinds]

\* Both rules of adjudication, and scores on both sides of their limits.
Adjudication == [Plain EXCEPT !.scores = {-2, -1, 0, 2}, !.draw = DrawRule,
                              !.resign = ResignRule, !.maxPly = 8]

\* Samples, mate scores and a resignation.
Samples == [Plain EXCEPT !.scores = {-2, 1, 9}, !.resign = ResignRule,
                         !.sampling = TRUE, !.resolve = TRUE, !.maxPly = 3]

MCSetups == {Clocks, Adjudication, Samples}

IsNine(s) == s = 9
=============================================================================
