------------------------------ MODULE Schedule ------------------------------
(***************************************************************************)
(* Who plays whom, from which opening and with which colour: the job queue *)
(* as job_queue_init fills it, walked in the order of job_queue_pop, and   *)
(* the part of thread_start (src/main.c) that turns a job into a starting  *)
(* position.  All of it depends on the index of the game alone, never on   *)
(* the worker or on the moment, so one walker is enough.                   *)
(*                                                                         *)
(* An opening stands by its place in the file and by the side to move.     *)
(***************************************************************************)
EXTENDS JobList, FiniteSets

CONSTANTS MaxEngines, MaxRounds, MaxGames,  \* bounds on the options explored
          OpeningFiles     \* the files explored: sequences of sides to move

\* A file without a line is a division by zero in openings_next; without a file
\* there is one opening.
ASSUME ScheduleAssumption ==
    /\ MaxEngines \in Nat /\ MaxRounds \in Nat /\ MaxGames \in Nat
    /\ OpeningFiles \subseteq Seq({"white", "black"}) \ {<<>>}

VARIABLES options,         \* the command line
          vecJobs,         \* jq.vecJobs
          vecResults,      \* jq.vecResults[..].ei
          starts           \* the games started so far, in the order of idx

schedVars == <<options, vecJobs, vecResults, starts>>

\* What options_parse accepts: at least two engines.
Options ==
    [engines : 2..MaxEngines, rounds : 1..MaxRounds, games : 1..MaxGames,
     gauntlet : BOOLEAN, repeat : BOOLEAN, openings : OpeningFiles]

-----------------------------------------------------------------------------
\* Mutant: the two games of a repeated opening are one apart from a pair.
OpeningIndex_Shifted(idx) ==
    LET n == IF options.repeat THEN (idx + 1) \div 2 ELSE idx
    IN  n % Len(options.openings)

\* openings_next: the line of game idx.  The file is read round and round.
OpeningIndex(idx) ==
    LET n == IF options.repeat THEN idx \div 2 ELSE idx
    IN  n % Len(options.openings)

\* whiteIdx = color ^ reverse: which of the two engines of the job is white.
\* e1 moves first unless the job is reversed.
WhiteSide(color, reverse) ==
    IF (color = "white") = reverse THEN 1 ELSE 0

\* The start of the game idx under job j.
Start(idx, j) ==
    LET o == OpeningIndex(idx)
        w == WhiteSide(options.openings[o + 1], j.reverse)
    IN  [pair |-> j.pair, opening |-> o, white |-> j.ei[w + 1],
         black |-> j.ei[2 - w]]

-----------------------------------------------------------------------------
SchedInit ==
    /\ options \in Options
    /\ vecJobs = <<>>
    /\ vecResults = <<>>
    /\ starts = <<>>

job_queue_init ==
    /\ vecJobs = <<>>
    /\ vecJobs' = JobSeq(options.engines, options.rounds, options.games,
                         options.gauntlet)
    /\ vecResults' = PairSlots(options.engines, options.gauntlet)
    /\ UNCHANGED <<options, starts>>

\* job_queue_pop and the choice of the opening and of the colours.
StartGame ==
    /\ Len(starts) < Len(vecJobs)
    /\ starts' = Append(starts, Start(Len(starts), vecJobs[Len(starts) + 1]))
    /\ UNCHANGED <<options, vecJobs, vecResults>>

SchedNext == job_queue_init \/ StartGame

SchedSpec == SchedInit /\ [][SchedNext]_schedVars

-----------------------------------------------------------------------------
Built == vecJobs # <<>>

Opponents ==
    {e \in (0..(options.engines - 1)) \X (0..(options.engines - 1)) :
        e[1] < e[2] /\ (options.gauntlet => e[1] = 0)}

\* Every two engines that should meet meet in exactly rounds * games games
\* (README.md:37-41), and all of them are counted in one slot of vecResults,
\* the slot of that pair: jobs and results are numbered by two separate
\* loops in job_queue_init.
EveryPairMeets ==
    Built =>
        /\ {vecResults[p] : p \in DOMAIN vecResults} = Opponents
        /\ Len(vecResults) = Cardinality(Opponents)
        /\ \A j \in DOMAIN vecJobs : vecResults[vecJobs[j].pair + 1] = vecJobs[j].ei
        /\ \A e \in Opponents :
             Cardinality({j \in DOMAIN vecJobs : vecJobs[j].ei = e})
                = options.rounds * options.games

\* The games 2k and 2k + 1 are one opening played by one pair from both sides.
PlayedFromBothSides(k) ==
    LET a == starts[2 * k + 1]
        b == starts[2 * k + 2]
    IN  /\ a.opening = b.opening
        /\ a.white = b.black
        /\ a.black = b.white

\* -repeat gives each opening to one pair, both ways round, when an encounter
\* has an even number of games.
RepeatPairsColours ==
    options.repeat /\ options.games % 2 = 0 =>
        \A k \in 0..((Len(starts) \div 2) - 1) : PlayedFromBothSides(k)

\* Colours won by e in the encounters that are over.
GamesAs(side, e) ==
    LET over == (Len(starts) \div options.games) * options.games
    IN  Cardinality({k \in 1..over :
                        IF side = "white" THEN starts[k].white = e
                                          ELSE starts[k].black = e})

\* README.md:35: with an even number of games per encounter each player has
\* white and black equally often.  It holds of every tournament whose openings
\* agree on the side to move, or are repeated.
ColoursEven ==
    /\ options.games % 2 = 0
    /\ \/ options.repeat
       \/ \A o, p \in DOMAIN options.openings :
             options.openings[o] = options.openings[p]
    => \A e \in 0..(options.engines - 1) :
          GamesAs("white", e) = GamesAs("black", e)

=============================================================================
