----------------------------- MODULE Tournament -----------------------------
(***************************************************************************)
(* The tournament of src/main.c: workers take jobs from the queue of       *)
(* src/jobs.c, start the engines a job needs, play the game, hand its text *)
(* to the writer of src/seqwriter.c (module SeqWriter), count the result,  *)
(* test for an early stop and print the standings, while the main thread   *)
(* watches for engines that hang, waits for the workers and exits.         *)
(*                                                                         *)
(* A worker's step is what it does between two points where another thread *)
(* can see it: one critical section of jq->mtx or sw->mtx, or the work on  *)
(* its own engines and game in between.  Games are played in module        *)
(* GamePlay's terms by drawing an outcome; -pgn is on.                     *)
(***************************************************************************)
EXTENDS SeqWriter, FiniteSets

CONSTANTS Workers,          \* vecWorkers: -concurrency of them
          Engines,          \* vecEO: indices of the engines
          Pairs,            \* indices of vecResults
          Jobs,             \* vecJobs, by index from 0: ei and pair of the job
          Frequency,        \* options.games
          Outcomes,         \* the outcomes of games explored
          Sprt,             \* options.sprt
          SprtDone(_),      \* sprt_done of a pair's counts
          MayHang,          \* whether engines may stop answering
          NoEngine          \* ei = -1: the slot holds no engine

Outcome == 0..2             \* RESULT_LOSS, RESULT_DRAW, RESULT_WIN

ASSUME TournamentAssumption ==
    /\ Jobs \in [GameIdx -> [ei : [0..1 -> Engines], pair : Pairs]]
    /\ IsFiniteSet(Workers)
    /\ Outcomes \subseteq Outcome
    /\ Frequency \in Nat \ {0}
    /\ Sprt \in BOOLEAN /\ MayHang \in BOOLEAN
    /\ NoEngine \notin Engines

VARIABLES idx,              \* jq.idx: the next job
          completed,        \* jq.completed
          results,          \* jq.vecResults[..].count
          names,            \* engines whose jq.vecNames entry is filled
          pc,               \* where each worker is in thread_start
          slot,             \* its loop variable i
          job,              \* its idx: the game it took last
          ei,               \* its ei[2]: the engines it has running
          wld,              \* the outcome of its game
          count,            \* its wldCount[3]
          standings,        \* the counts in the last "Tournament update"
          hung,             \* workers blocked on an engine that hangs
          overdue,          \* those of them whose deadline has passed
          main,             \* where the main thread is
          handed,           \* games handed out so far (history)
          outcome           \* of each game played so far (history)

jqVars == <<idx, completed, results, names>>
workerVars == <<pc, slot, job, ei, wld, count>>
mainVars == <<hung, overdue, main>>
vars == <<seqVars, jqVars, workerVars, mainVars, standings, handed, outcome>>

Zero == [o \in Outcome |-> 0]

Init ==
    /\ SeqInit
    /\ idx = 0 /\ completed = 0
    /\ results = [p \in Pairs |-> Zero]
    /\ names = {}
    /\ pc = [w \in Workers |-> "pop"]
    /\ slot = [w \in Workers |-> 0]
    /\ job = [w \in Workers |-> 0]
    /\ ei = [w \in Workers |-> [i \in 0..1 |-> NoEngine]]
    /\ wld = [w \in Workers |-> 0]
    /\ count = [w \in Workers |-> Zero]
    /\ standings = [p \in Pairs |-> Zero]
    /\ hung = {} /\ overdue = {}
    /\ main = "watch"
    /\ handed = 0
    /\ outcome = [k \in GameIdx |-> 0]

\* The process has not exited.
Alive == main \notin {"dead", "exited"}

\* Worker w is at l and not blocked on an engine.
At(w, l) == Alive /\ w \notin hung /\ pc[w] = l

Goto(w, l) == pc' = [pc EXCEPT ![w] = l]

-----------------------------------------------------------------------------
(* Workers: thread_start.                                                  *)

\* Mutant: two workers can read the same idx, as they would without the lock.
PopJob_Racy(w) ==
    /\ At(w, "pop")
    /\ idx < NGames
    /\ job' = [job EXCEPT ![w] = idx]
    /\ idx' \in {idx, idx + 1}
    /\ handed' = handed + 1
    /\ slot' = [slot EXCEPT ![w] = 0]
    /\ Goto(w, "engine")
    /\ UNCHANGED <<seqVars, completed, results, names, ei, wld, count, mainVars,
                   standings, outcome>>

\* job_queue_pop hands out a job.
PopJob(w) ==
    /\ At(w, "pop")
    /\ idx < NGames
    /\ job' = [job EXCEPT ![w] = idx]
    /\ idx' = idx + 1
    /\ handed' = handed + 1
    /\ slot' = [slot EXCEPT ![w] = 0]
    /\ Goto(w, "engine")
    /\ UNCHANGED <<seqVars, completed, results, names, ei, wld, count, mainVars,
                   standings, outcome>>

\* job_queue_pop finds no job: the worker leaves its loop.
PopNone(w) ==
    /\ At(w, "pop")
    /\ ~(idx < NGames)
    /\ Goto(w, "quit")
    /\ UNCHANGED <<seqVars, jqVars, slot, job, ei, wld, count, mainVars,
                   standings, handed, outcome>>

\* The slots are filled in order, then the game starts.
NextSlot(w) ==
    /\ slot' = [slot EXCEPT ![w] = @ + 1]
    /\ Goto(w, IF slot[w] = 1 THEN "play" ELSE "engine")

\* Mutant: a slot that holds an engine is never given another.
RunsItsEngine_Any(w) == ei[w][slot[w]] # NoEngine

\* The slot already runs the engine that the job asks for.
RunsItsEngine(w) == Jobs[job[w]].ei[slot[w]] = ei[w][slot[w]]

KeepEngine(w) ==
    /\ At(w, "engine")
    /\ RunsItsEngine(w)
    /\ NextSlot(w)
    /\ UNCHANGED <<seqVars, jqVars, job, ei, wld, count, mainVars, standings,
                   handed, outcome>>

\* engine_destroy of the slot's engine, if any, and engine_init of the job's.
ReplaceEngine(w) ==
    /\ At(w, "engine")
    /\ ~RunsItsEngine(w)
    /\ ei' = [ei EXCEPT ![w][slot[w]] = Jobs[job[w]].ei[slot[w]]]
    /\ Goto(w, "name")
    /\ UNCHANGED <<seqVars, jqVars, slot, job, wld, count, mainVars, standings,
                   handed, outcome>>

\* job_queue_set_name: the first name an engine gives is kept.
SetName(w) ==
    /\ At(w, "name")
    /\ names' = names \union {ei[w][slot[w]]}
    /\ NextSlot(w)
    /\ UNCHANGED <<seqVars, idx, completed, results, job, ei, wld, count,
                   mainVars, standings, handed, outcome>>

\* game_play, with its outcome from the point of view of ei[0].
Play(w) ==
    /\ At(w, "play")
    /\ \E o \in Outcomes :
         /\ wld' = [wld EXCEPT ![w] = o]
         /\ outcome' = [outcome EXCEPT ![job[w]] = o]
    /\ Goto(w, "pgn")
    /\ UNCHANGED <<seqVars, jqVars, slot, job, ei, count, mainVars, standings,
                   handed>>

\* game_export_pgn and seq_writer_push.
WritePgn(w) ==
    /\ At(w, "pgn")
    /\ seq_writer_push(job[w])
    /\ Goto(w, "result")
    /\ UNCHANGED <<jqVars, slot, job, ei, wld, count, mainVars, standings,
                   handed, outcome>>

\* Mutant: the counts as the worker has seen them last, as without the lock.
Counts_Stale(w) == count[w]

\* The counts of the pair that worker w has played.
Counts(w) == results[Jobs[job[w]].pair]

\* job_queue_add_result: the worker keeps a copy of the pair's new counts.
AddResult(w) ==
    /\ At(w, "result")
    /\ LET p == Jobs[job[w]].pair
           c == [Counts(w) EXCEPT ![wld[w]] = @ + 1]
       IN  /\ results' = [results EXCEPT ![p] = c]
           /\ count' = [count EXCEPT ![w] = c]
    /\ completed' = completed + 1
    /\ Goto(w, "sprt")
    /\ UNCHANGED <<seqVars, idx, names, slot, job, ei, wld, mainVars, standings,
                   handed, outcome>>

\* Mutant: the stop takes back the job that was handed out last.
Stopped_OneShort == NGames - 1

\* Mutant: the stop sets an index that the queue never reaches by itself.
Stopped_Beyond == NGames + 1

\* What job_queue_stop sets jq->idx to.
Stopped == NGames

\* sprt_done on that copy, then job_queue_stop if the test has decided.
CheckSprt(w) ==
    /\ At(w, "sprt")
    /\ idx' = IF Sprt /\ SprtDone(count[w]) THEN Stopped ELSE idx
    /\ Goto(w, "print")
    /\ UNCHANGED <<seqVars, completed, results, names, slot, job, ei, wld,
                   count, mainVars, standings, handed, outcome>>

\* Mutant: no update is printed once the queue is empty.
UpdateDue_WhileOpen ==
    Cardinality(Engines) > 2 /\ completed % Frequency = 0 /\ idx < NGames

\* After as many games as an encounter has, with more than two engines.
UpdateDue ==
    /\ Cardinality(Engines) > 2
    /\ completed # 0 /\ completed % Frequency = 0

\* job_queue_print_results, a critical section of its own: other results may
\* have come in since this worker's.
PrintResults(w) ==
    /\ At(w, "print")
    /\ standings' = IF UpdateDue THEN results ELSE standings
    /\ Goto(w, "pop")
    /\ UNCHANGED <<seqVars, jqVars, slot, job, ei, wld, count, mainVars,
                   handed, outcome>>

\* The end of thread_start: engine_destroy of both slots.
Quit(w) ==
    /\ At(w, "quit")
    /\ ei' = [ei EXCEPT ![w] = [i \in 0..1 |-> NoEngine]]
    /\ Goto(w, "done")
    /\ UNCHANGED <<seqVars, jqVars, slot, job, wld, count, mainVars, standings,
                   handed, outcome>>

-----------------------------------------------------------------------------
(* Engines: a worker that talks to an engine blocks when it hangs.  The    *)
(* dialogues run under a deadline, which passes sooner or later.           *)

\* What worker w is doing takes an answer from an engine.
InDialogue(w) ==
    \/ At(w, "engine") /\ ~RunsItsEngine(w)
    \/ At(w, "play")
    \/ At(w, "quit") /\ \E i \in 0..1 : ei[w][i] # NoEngine

EngineHangs(w) ==
    /\ MayHang
    /\ InDialogue(w)
    /\ hung' = hung \union {w}
    /\ UNCHANGED <<seqVars, jqVars, workerVars, overdue, main, standings,
                   handed, outcome>>

DeadlinePasses(w) ==
    /\ Alive
    /\ w \in hung \ overdue
    /\ overdue' = overdue \union {w}
    /\ UNCHANGED <<seqVars, jqVars, workerVars, hung, main, standings,
                   handed, outcome>>

-----------------------------------------------------------------------------
(* The main thread: main.                                                  *)

\* One round of deadline_overdue over the workers; DIE ends the process.
Watch ==
    /\ main = "watch"
    /\ main' = IF overdue # {} THEN "dead" ELSE "check"
    /\ UNCHANGED <<seqVars, jqVars, workerVars, hung, overdue, standings,
                   handed, outcome>>

\* Mutant: the loop waits for an index the queue never reaches.
job_queue_done_Beyond == idx > NGames

\* Mutant: the loop ends with the last job still in the queue.
job_queue_done_OneEarly == idx + 1 >= NGames

job_queue_done == idx = NGames

\* The loop ends once every job has been handed out.
CheckDone ==
    /\ main = "check"
    /\ main' = IF job_queue_done THEN "join" ELSE "watch"
    /\ UNCHANGED <<seqVars, jqVars, workerVars, hung, overdue, standings,
                   handed, outcome>>

\* Mutant: nobody waits for the workers.
Joined_Not == TRUE

Joined == \A w \in Workers : pc[w] = "done"

\* pthread_join of every worker, then the normal exit.
Join ==
    /\ main = "join"
    /\ Joined
    /\ main' = "exited"
    /\ UNCHANGED <<seqVars, jqVars, workerVars, hung, overdue, standings,
                   handed, outcome>>

-----------------------------------------------------------------------------
Worker(w) ==
    \/ PopJob(w) \/ PopNone(w)
    \/ KeepEngine(w) \/ ReplaceEngine(w) \/ SetName(w)
    \/ Play(w) \/ WritePgn(w) \/ AddResult(w)
    \/ CheckSprt(w) \/ PrintResults(w) \/ Quit(w)

Main == Watch \/ CheckDone \/ Join

\* The process has exited: nothing happens any more.
Ended ==
    /\ ~Alive
    /\ UNCHANGED vars

Next ==
    \/ \E w \in Workers : Worker(w) \/ EngineHangs(w) \/ DeadlinePasses(w)
    \/ Main
    \/ Ended

Spec == Init /\ [][Next]_vars

\* The scheduler runs every thread that can run, and time passes.  An engine
\* need not hang, and is not bound to answer once it does.
Fairness ==
    /\ \A w \in Workers : WF_vars(Worker(w)) /\ WF_vars(DeadlinePasses(w))
    /\ WF_vars(Main)

FairSpec == Spec /\ Fairness

-----------------------------------------------------------------------------
(* Properties.                                                             *)

Location == {"pop", "engine", "name", "play", "pgn", "result", "sprt", "print",
             "quit", "done"}

\* Types of the tournament's state.
TypeOK ==
    /\ SeqTypeOK
    /\ idx \in 0..NGames /\ completed \in Nat /\ handed \in 0..NGames
    /\ results \in [Pairs -> [Outcome -> Nat]]
    /\ names \subseteq Engines
    /\ pc \in [Workers -> Location]
    /\ slot \in [Workers -> 0..2]
    /\ job \in [Workers -> Nat]
    /\ ei \in [Workers -> [0..1 -> Engines \union {NoEngine}]]
    /\ wld \in [Workers -> Outcome] /\ outcome \in [GameIdx -> Outcome]
    /\ count \in [Workers -> [Outcome -> Nat]]
    /\ standings \in [Pairs -> [Outcome -> Nat]]
    /\ hung \subseteq Workers /\ overdue \subseteq hung
    /\ main \in {"watch", "check", "join", "exited", "dead"}

\* Games whose text is yet to be written, and whose result is yet to be added.
Unwritten(w) == pc[w] \in {"engine", "name", "play", "pgn"}
Uncounted(w) == Unwritten(w) \/ pc[w] = "result"

\* No two workers have a game in common.
OneWorkerPerGame ==
    \A v, w \in Workers :
        v # w /\ Uncounted(v) /\ Uncounted(w) => job[v] # job[w]

\* Every game that was handed out is written or in the hands of a worker.
NoneForgotten ==
    {k \in GameIdx : k < handed}
        = pushed \union {job[w] : w \in {v \in Workers : Unwritten(v)}}

\* Jobs are handed out in order until the queue is empty or stopped.
HandedInOrder == handed <= idx /\ (idx < NGames => idx = handed)

\* Every game that was handed out is played by one worker and written, or
\* still with that worker, whatever the order of the pops and wherever the
\* stop falls: it skips the end of the queue and leaves no gap before it.
GamesAccounted == OneWorkerPerGame /\ NoneForgotten /\ HandedInOrder

\* After a normal exit the PGN file holds every game that was handed out, in
\* order, and no text is left in the queue: even when the SPRT stopped the
\* tournament while other games were being played.
PgnComplete ==
    main = "exited" => /\ out = [k \in 1..handed |-> k - 1]
                       /\ vecQueued = <<>>

\* The scores and the number of completed games agree with the games: a pair
\* counts, under each outcome, its games that ended so and that a worker is done
\* with.
ScoresMatchGames ==
    /\ \A p \in Pairs, o \in Outcome :
         results[p][o] = Cardinality({k \in 0..(handed - 1) :
             /\ Jobs[k].pair = p /\ outcome[k] = o
             /\ \A w \in Workers : Uncounted(w) => job[w] # k})
    /\ completed = handed - Cardinality({w \in Workers : Uncounted(w)})

\* The engines that play are those of the job, although a worker keeps the
\* ones it can from game to game and replaces its slots one at a time.
RightEnginesPlay ==
    \A w \in Workers : pc[w] \in {"play", "pgn", "result"} => ei[w] = Jobs[job[w]].ei

\* With more than two engines the last update printed is the final one: adding
\* a result and printing are two critical sections, so updates can be skipped
\* or repeated on the way, but not the last.  And no update, which any worker
\* may print at any time, has a blank name: both engines of a pair that has a
\* score have theirs.
FinalStandings ==
    /\ main = "exited" /\ Cardinality(Engines) > 2 => standings = results
    /\ \A k \in GameIdx : results[Jobs[k].pair] # Zero =>
                          {Jobs[k].ei[0], Jobs[k].ei[1]} \subseteq names

\* The workers keep the writer's side of the contract: each index is pushed
\* at most once, and nothing but seq_writer_push touches the writer.
WriterContract == SeqSpec

\* Once the queue is empty or stopped no other game is handed out.
StopIsFinal == [][idx = NGames => idx' = NGames /\ handed' = handed]_vars

\* As long as no engine hangs the tournament goes on to its normal exit: the
\* main thread sees the end of the queue, and every worker comes to its join.
Terminates == <>(main = "exited" \/ hung # {})

\* While there are jobs left, an engine that hangs ends the tournament.
HangEndsOpenQueue ==
    \A w \in Workers : w \in hung ~> (main = "dead" \/ idx = NGames)

\* README.md:66 and the comment at main.c:195-200: an engine that hangs is
\* noticed, and ends the tournament.
HangNoticed == \A w \in Workers : w \in hung ~> main = "dead"
=============================================================================
