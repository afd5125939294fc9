------------------------------ MODULE JobList ------------------------------
(***************************************************************************)
(* job_queue_init of src/jobs.c: the jobs of a tournament, in the order in *)
(* which workers pop them.  Engines, pairs, rounds and games count from 0  *)
(* as in the code; TLA+ sequences count from 1.                            *)
(***************************************************************************)
EXTENDS Naturals, Sequences, SequencesExt

\* Mutant: the second engine starts one too far from the first.
RoundRobinPairs_Skips(engines) ==
    FlattenSeq([a \in 1..(engines - 1) |->
                   [k \in 1..(engines - a - 1) |-> <<a - 1, a + k>>]])

\* The pairs (e1, e2) with e1 < e2, in the order of the two nested loops.
RoundRobinPairs(engines) ==
    FlattenSeq([a \in 1..(engines - 1) |->
                   [k \in 1..(engines - a) |-> <<a - 1, a - 1 + k>>]])

\* The pairs (0, e2).
GauntletPairs(engines) == [k \in 1..(engines - 1) |-> <<0, k>>]

\* vecResults: one slot per pair, slot p holds the pair it counts for.
PairSlots(engines, gauntlet) ==
    IF gauntlet THEN GauntletPairs(engines) ELSE RoundRobinPairs(engines)

\* Mutant: the colours are never reversed.
PairGames_NoReverse(games, e, pair, added, round) ==
    [g \in 1..games |->
        [ei |-> e, pair |-> pair, round |-> round,
         game |-> added + (g - 1), reverse |-> FALSE]]

\* job_queue_init_pair: the games of one encounter; `added' games of the
\* round come before it.
PairGames(games, e, pair, added, round) ==
    [g \in 1..games |->
        [ei |-> e, pair |-> pair, round |-> round,
         game |-> added + (g - 1), reverse |-> (g - 1) % 2 = 1]]

\* vecJobs: every round goes through the pairs in order.
JobSeq(engines, rounds, games, gauntlet) ==
    LET slots == PairSlots(engines, gauntlet)
    IN  FlattenSeq([r \in 1..rounds |->
            FlattenSeq([p \in 1..Len(slots) |->
                PairGames(games, slots[p], p - 1, (p - 1) * games, r - 1)])])
=============================================================================
