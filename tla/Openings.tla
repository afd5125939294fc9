------------------------------ MODULE Openings ------------------------------
(***************************************************************************)
(* The openings file: src/openings.c and the loop of thread_start in       *)
(* src/main.c that chooses the opening of a game.  openings_init records   *)
(* where each line of the file starts and shuffles these offsets; the      *)
(* workers then share one FILE, its position included, under a mutex.      *)
(*                                                                         *)
(* An offset stands by the number of its line.  What follows the choice of *)
(* the opening, the game, is left out: a worker goes on to its next job.   *)
(***************************************************************************)
EXTENDS Integers

CONSTANTS Workers,
          NLines,        \* lines of the file
          Illegal,       \* those whose FEN pos_set refuses
          NGames,        \* jobs of the queue
          Random,        \* options.random
          Repeat,        \* options.repeat
          NoWorker, NoLine

ASSUME OpeningsAssumption ==
    /\ NLines \in Nat \ {0} /\ NGames \in Nat
    /\ Illegal \subseteq 0..NLines - 1
    /\ Random \in BOOLEAN /\ Repeat \in BOOLEAN
    /\ NoWorker \notin Workers /\ NoLine \notin 0..NLines - 1

VARIABLES vecIndex,      \* o.vecIndex: where to read the k-th opening
          i,             \* the loop of the shuffle, 0 when it is over
          next,          \* jq.idx
          mtx,           \* the worker in the critical section of openings_next
          offset,        \* the position of o.file
          pc, idx, fen,  \* of each worker: where it is, its game, its line
          opening        \* the line each game has started from

shuffleVars == <<vecIndex, i>>
fileVars == <<mtx, offset>>
vars == <<shuffleVars, next, fileVars, pc, idx, fen, opening>>

Line == 0..NLines - 1
Game == 0..NGames - 1

Init ==
    /\ vecIndex = [k \in Line |-> k]
    /\ i = IF Random THEN NLines - 1 ELSE 0
    /\ next = 0
    /\ mtx = NoWorker /\ offset = NLines
    /\ pc = [w \in Workers |-> "pop"]
    /\ idx = [w \in Workers |-> 0]
    /\ fen = [w \in Workers |-> NoLine]
    /\ opening = [n \in Game |-> NoLine]

-----------------------------------------------------------------------------
(* openings_init, before the workers start.                                *)

\* Mutant: one goes over the other.
Shuffle_Copies ==
    /\ i > 0
    /\ \E j \in 0..i : vecIndex' = [vecIndex EXCEPT ![i] = vecIndex[j]]
    /\ i' = i - 1
    /\ UNCHANGED <<next, fileVars, pc, idx, fen, opening>>

\* One round of the shuffle: prng gives j, and the two offsets are swapped.
Shuffle ==
    /\ i > 0
    /\ \E j \in 0..i :
         vecIndex' = [vecIndex EXCEPT ![i] = vecIndex[j], ![j] = vecIndex[i]]
    /\ i' = i - 1
    /\ UNCHANGED <<next, fileVars, pc, idx, fen, opening>>

-----------------------------------------------------------------------------
(* Workers.                                                                *)

Goto(w, label) == pc' = [pc EXCEPT ![w] = label]

\* Mutant: the last job stays in the queue.
PopJob_OneShort(w) ==
    /\ i = 0 /\ pc[w] = "pop"
    /\ IF next + 1 < NGames
       THEN idx' = [idx EXCEPT ![w] = next] /\ next' = next + 1 /\ Goto(w, "lock")
       ELSE Goto(w, "done") /\ UNCHANGED <<idx, next>>
    /\ UNCHANGED <<shuffleVars, fileVars, fen, opening>>

\* job_queue_pop.
PopJob(w) ==
    /\ i = 0 /\ pc[w] = "pop"
    /\ IF next < NGames
       THEN idx' = [idx EXCEPT ![w] = next] /\ next' = next + 1 /\ Goto(w, "lock")
       ELSE Goto(w, "done") /\ UNCHANGED <<idx, next>>
    /\ UNCHANGED <<shuffleVars, fileVars, fen, opening>>

\* The place in vecIndex of the opening of game n.
Place(n) == (IF Repeat THEN n \div 2 ELSE n) % NLines

\* Mutant: there is no mutex.
Lock_Never(w) ==
    /\ pc[w] = "lock"
    /\ mtx' = w /\ Goto(w, "seek")
    /\ UNCHANGED <<shuffleVars, next, offset, idx, fen, opening>>

Lock(w) ==
    /\ pc[w] = "lock" /\ mtx = NoWorker
    /\ mtx' = w /\ Goto(w, "seek")
    /\ UNCHANGED <<shuffleVars, next, offset, idx, fen, opening>>

Seek(w) ==
    /\ pc[w] = "seek"
    /\ offset' = vecIndex[Place(idx[w])]
    /\ Goto(w, "read")
    /\ UNCHANGED <<shuffleVars, next, mtx, idx, fen, opening>>

\* Mutant: the line after the last one is asked for.
ReadLine_Next(w) ==
    /\ pc[w] = "read"
    /\ fen' = [fen EXCEPT ![w] = offset + 1]
    /\ offset' = offset + 1 /\ mtx' = NoWorker /\ Goto(w, "load")
    /\ UNCHANGED <<shuffleVars, next, idx, opening>>

\* str_getline, which moves the position on, and the unlock.
ReadLine(w) ==
    /\ pc[w] = "read"
    /\ fen' = [fen EXCEPT ![w] = offset]
    /\ offset' = offset + 1 /\ mtx' = NoWorker /\ Goto(w, "load")
    /\ UNCHANGED <<shuffleVars, next, idx, opening>>

\* game_load_fen: the game starts, or the same opening is asked for again.
LoadFen(w) ==
    /\ pc[w] = "load"
    /\ IF fen[w] \in Illegal
       THEN Goto(w, "lock") /\ UNCHANGED opening
       ELSE /\ opening' = [opening EXCEPT ![idx[w]] = fen[w]]
            /\ Goto(w, "pop")
    /\ UNCHANGED <<shuffleVars, next, fileVars, idx, fen>>

Ended == (\A w \in Workers : pc[w] = "done") /\ UNCHANGED vars

Worker(w) == PopJob(w) \/ Lock(w) \/ Seek(w) \/ ReadLine(w) \/ LoadFen(w)

Next == Shuffle \/ (\E w \in Workers : Worker(w)) \/ Ended

Spec == Init /\ [][Next]_vars

\* Threads run, and none is kept from the mutex for ever.
Fairness ==
    /\ WF_vars(Shuffle)
    /\ \A w \in Workers : WF_vars(Worker(w)) /\ SF_vars(Lock(w))

FairSpec == Spec /\ Fairness

-----------------------------------------------------------------------------
(* Properties.                                                             *)

\* Types.
TypeOK ==
    /\ vecIndex \in [Line -> Line] /\ i \in Line /\ next \in 0..NGames
    /\ mtx \in Workers \union {NoWorker} /\ offset \in 0..NLines
    /\ pc \in [Workers -> {"pop", "lock", "seek", "read", "load", "done"}]
    /\ idx \in [Workers -> Nat]
    /\ \A w \in Workers : pc[w] \in {"lock", "seek", "read", "load"} => idx[w] \in Game
    /\ fen \in [Workers -> Line \union {NoLine}]
    /\ opening \in [Game -> Line \union {NoLine}]

\* openings.c:37-39: the shuffle keeps every opening, and "guarantees no
\* repetition" before all of them have been played: two games with the same line
\* are the two of a repeated opening, or whole rounds of the file apart.
NoEarlyRepetition ==
    \A m, n \in Game :
        opening[m] # NoLine /\ opening[m] = opening[n] => Place(m) = Place(n)

\* Each game starts from its own line, whichever worker plays it and whoever
\* else has moved the position of the file meanwhile.
OwnOpening ==
    \A n \in Game : opening[n] # NoLine => opening[n] = vecIndex[Place(n)]

\* A worker that tries an illegal opening for ever holds up no game but its own:
\* as long as there are more workers than games with illegal openings, the
\* others start.
LegalGamesStart ==
    \A n \in Game : <>(opening[n] # NoLine \/ (i = 0 /\ vecIndex[Place(n)] \in Illegal))
=============================================================================
