# c-chess-cli: a verification project

TLA+ models of c-chess-cli, a command line program that plays tournaments between
UCI chess engines, with the TLC configurations that check them on small instances
and TLAPS proofs of what matters most for every instance. Paths such as
`main.c:115` are relative to the repository's `src/` directory, where the program
lives; `README.md:53` is the repository's README.

## 1. The system

A tournament is a list of games (*jobs*). The main thread parses the command line,
builds the list, starts `-concurrency` worker threads and then watches for engines
that hang. A worker repeats: take the next job, make sure that the two engine
processes of the job are running, play the game, hand its PGN text to a writer
that keeps the file in order, count the result, test for an early stop (SPRT),
print.

| Component | State it keeps | Operations | Talks to |
|---|---|---|---|
| Command line (`options.c`) | `Options`, one `EngineOptions` per engine | `options_parse`, merging of `-each` | `main` |
| Job list and queue (`jobs.c`) | `vecJobs`, `idx`, `completed`, `vecResults`, `vecNames`, under `jq->mtx` | `init`, `pop`, `add_result`, `done`, `stop`, `set_name`, `print_results` | workers, main thread |
| Workers, main thread (`main.c`) | per worker: engines, indices of the engines running, game | `thread_start`, the watch loop, join | everything |
| Deadlines (`workers.c`) | per worker: `set`, `timeLimit`, `engineName`, under `deadline.mtx` | `deadline_set`, `deadline_clear`, `deadline_overdue` | worker writes, main thread reads |
| Engine dialogue (`engine.c`) | a process and two pipes per engine | `engine_init`, `newgame`, `sync`, `bestmove`, `destroy` | engine processes |
| Game (`game.c`) | positions, scores, times, samples, clocks, counters, state | `game_load_fen`, `game_play`, exports | engines, positions |
| Chess (`position.c`, `gen.c`, `bitboard.c`) | a position and its incremental key, pins, checkers | `pos_set`, `pos_move`, `gen_all_moves`, queries | game |
| Openings (`openings.c`) | offsets of the lines, one shared `FILE` under a mutex | `openings_init` (shuffle), `openings_next` | workers |
| PGN and sample writer (`seqwriter.c`) | texts that wait, next index, file, under `sw->mtx` | `seq_writer_push` | workers |
| SPRT (`sprt.c`) | none | a formula of three counts | workers |
| Notation (`position.c`) | none | FEN, LAN, SAN, packed positions, each way | engines, files |
| Start and end (`main`, `main_init`, `main_destroy`) | the global objects | each is made, used, and destroyed by an `atexit` handler | everything |
| Strings, vectors, random numbers, clock (`str.c`, `vec.c`, `util.c`) | none of their own | | everything |

What is hard in it:

* **concurrency**: workers interleave in the queue, in the results, in the writer
  and on the one file position of the openings; the main thread reads deadlines
  that workers set and clear;
* **ordering**: games end out of order and the file must be in order; adding a
  result and printing the standings are two critical sections;
* **failure and time**: engines are late, crash, or hang for ever; a search that
  is given up still has its answer coming;
* **state kept from one round to the next**: engine processes from game to game,
  clocks and counters from move to move, keys, pins and rights from position to
  position;
* **conversions**: positions and moves leave the program as text and bytes for three
  kinds of readers (engines, the PGN file, the sample files), who must get all of it;
* **ends**: the stop of the queue, the end of the watch, the join; `exit` from a worker
  while others run, and from the middle of the initialisation.

## 2. The modules

```
OrderedLog <-implements-- SeqWriter <-EXTENDS-- Tournament <- MCTournament -> JobList
                                                    |-- TournamentProofs
JobList <- Schedule <- MCSchedule          Openings
              |-- ScheduleProofs --------------|
Board <- Position <- MoveGen <- Notation <- Chess <- MCChess -> Diagrams
                     (reference) ChessRules <--|
                                               |-- ChessProofs <- MovesProofs
GamePlay <- MCGamePlay     EngineDialogue <- EngineDialogueProofs
   |-- GamePlayProofs      Watchdog <- WatchdogProofs
Lifecycle <- LifecycleProofs               Options <- MCOptions
```

A worker's life is cut along the code's own boundaries: `Tournament` has it with
the game as one step, `GamePlay` the inside of that step with the engine's answer
as one step, `EngineDialogue` the inside of the answer, `Watchdog` the time that
passes meanwhile, `Chess` what a game's positions do and what is written of them,
`Openings` and `Schedule` what it starts from. `Lifecycle` looks at the same process
from the other side: not what its threads compute, but which objects they use, while
these are made and destroyed.

### OrderedLog, SeqWriter (`seqwriter.c`)

`OrderedLog` is what the writer promises: the file is always the longest run
0, 1, 2, ... of the games handed over. `SeqWriter` is `seq_writer_push`, which runs
under one mutex from its first line to its last, so it is one action: insertion
into the sorted queue (`Inserted`), the longest writable chunk (`ChunkLen`),
writing (`Appended`), deletion (`Dropped`). `pushed` is a history variable. A text
stands by its game index.

### JobList, Schedule (`jobs.c`, `main.c:108-128`)

`JobList` is `job_queue_init` as operators; it gives `Tournament` its jobs.
`Schedule` walks the list in the order of the queue and derives each game's opening
and colours from the index, with the options chosen in `Init`.

### Tournament (`main.c`, `jobs.c`)

`pc[w]` is the place of a worker in `thread_start`; a step is one critical section
or the work between two. `PopJob`/`PopNone` (`job_queue_pop`), `KeepEngine`,
`ReplaceEngine`, `SetName` (the two slots of `ei`, in order), `Play` (an outcome is
drawn), `WritePgn` (`seq_writer_push` of `SeqWriter`, used as an action), `AddResult`,
`CheckSprt` (`sprt_done` is the constant operator `SprtDone` on the *copy* of the
counts that `AddResult` left), `PrintResults`, `Quit`. The main thread is `Watch`,
`CheckDone`, `Join`. `EngineHangs` blocks a worker in a step that needs an engine,
`DeadlinePasses` lets the watch see it. `handed` (the pops)
and `outcome` (the result drawn for each game) are history.

### Watchdog (`workers.c`, `main.c:186-212`)

Deadlines in ticks of `clock`. `deadline_overdue` is two steps, `ReadDeadline` (the
critical section) and `CompareClock` (the clock is read after the unlock). The main
thread can lose the processor for up to `Preempt` ticks per round. `RoundDone` goes
on or leaves the loop, since that depends on the queue. The engine's answer (`Answers`)
and the worker's `deadline_clear` are two steps, and the worker may lose the processor
for any time between them. `seen` is the main thread's copy; its fields `copied` and
`answer`, and `answered`, are history: when the copy was made, and when the dialogue
copied was answered, if it was.

### EngineDialogue (`engine.c`, calls in `game.c` and `main.c`)

One worker, two engines, a pipe each way. Each wait of the code (`uciok`, `readyok`,
`bestmove`, the bestmove after `stop`, `waitpid`) is a place of `pc`, and each line
read a step. Engines are external: they read commands also while they think, end a
search by themselves or on `stop` with one bestmove, and may crash at any moment.
A bestmove carries the number of the `go` it answers, which the code does not have
and which the properties need. `ParseFails` is `engine_parse_info` ending the process
on a score it cannot read (`engine.c:373`).

### GamePlay (`game.c:177-319`)

The loop of `game_play`: `ApplyRules`, `Go` (refill of the clock, `uci_go_command`),
then what follows an answer with a score and a time, one action per branch in the
order of the code's tests: `GivesUp`, `IllegalMove`, `LateMove`, `AgreeDraw`,
`ResignGame`, `PlayOn` (with `Sample`). What the position allows is free here, `Chess`
has it. `setup` is the command line and the range of answers explored.

### Board, Position, MoveGen, Notation, Chess; ChessRules

`Board` has squares, lines and attacks as sets (the magic tables of `bitboard.c` are a
way to compute them). `Position` is `finish` (pins, attacks, checkers), `pos_move` with
the incremental key, and the verifications of `pos_set`. Keys are sets of features: a
Zobrist number that the code leaves at zero is the empty set (`Drawn`), the others are
taken as independent. `MoveGen` is `gen.c`.

`Notation` has the conversions of `position.c`. A text is a record of its parts: a FEN
is placement, turn, the letters of the castling field, and so on; a LAN move is its two
squares and promotion; a SAN move its piece, what is written of the origin, the target
and the capture sign; a packed position is a function from the occupied squares to
nibbles. `pos_set` and `pos_get`, `pos_move_to_lan` and `pos_lan_to_move` go each way;
`pos_move_to_san` (with the contesters and the disambiguation) and `pos_pack` only out.

`Chess` is the history of a game: `game_apply_chess_rules`, the positions that
`game_play` pushes, and what is derived from them: `uci_position_command`, `resolve_pv`
(a recursive function: `PlayTactical` for each move of the PV) and the moves of
`game_export_pgn`.
`ChessRules` is not a model of the code but the laws of chess (Chess960 included)
written another way, squares by squares from a set of <<colour, piece, square>>, to
compare with. `ChessAssumption` says of the openings that they are FENs (`IsFen`: a square
has one piece at most, castling letters are those of the field) that the verifications
of `pos_set` accept and whose castling letters name different rooks (`NamesOnce`, what
`bb_set` asserts; without assertions a rook named twice loses its right). It
leaves out some of those, which no game reaches: the side that has moved is in check; a king that may castle is not on its first rank; three pieces
give check, which `finish` asserts not to be so (`position.c:162`); or with an en passant
square, a knight gives check, or a pawn other than the one that has just moved. The
last matters: before it allows a capture en passant, `gen_pawn_moves` looks for sliders
that would attack the king, and for nothing else (`gen.c:71-84`).

### Lifecycle (`main.c`, with `openings.c`, `workers.c`, `seqwriter.c`)

`object[o]` is the state of each global object: absent, live, unopened or gone.
The main thread parses the options, which `Init` draws, and makes the objects in the
order of `main_init`; `InitFails` is each `DIE` on the way. `Needs` says what a place of
a thread uses. The steps of a worker are those of `thread_start` that touch an object.
`Die` is the macro: it calls `exit`, and the thread that called it first runs
`main_destroy`, one object per step (`Destroy`, `CloseNull`, `CloseFails`), while the
others go on. Using what is not there is undefined in C: `Fault` is the crash, and
`Uses` goes on with it, noted in `misused` (history). A second `exit` ends the process
or waits, as the C library has it.

### Openings (`openings.c`, `main.c:110-123`)

The shuffle as its swaps, the shared file position, the mutex, the retry of an
illegal FEN.

### Options (`options.c`)

The engine settings of `-engine` and `-each`, and the merge at the end of
`options_parse`.

## 3. What is checked

Passing runs. "Fires" names what makes a run non-trivial; each property also has a
mutant, a small change of a definition (`X_Something`, next to `X` in the module)
that makes the run fail.

| Run | Instance | Shows |
|---|---|---|
| `match` | 2 engines, 2 workers, 3 games, wins and losses, stop on a lead of two, hanging engines | `TypeOK`; `GamesAccounted`: one worker per game, none lost, no gap; `PgnComplete` at the exit, after an early stop too; `ScoresMatchGames`; `StopIsFinal`; `HangEndsOpenQueue`; `Terminates` |
| `round_robin` | 3 engines, 3 workers, 3 games, workers symmetric | `RightEnginesPlay` after slots were kept and replaced; `FinalStandings` (last update final, names known); `WriterContract` (the workers use the writer as `SeqSpec` says); `ImplementsLog` (all of it refines `OrderedLog`) |
| `watchdog` | 2 workers, deadlines of 1 and 3 ticks, polls of 2, 1 tick of preemption, 8 ticks | `NoticedWithinARound`; `OnlyLateIsFatal` |
| `engine_dialogue` | 2 games of 2 plies, engines kept or replaced, late, crashing, sending what cannot be read | `AnswersLastGo`: a bestmove is taken for the `go` it answers, and an engine thinks only then; `EveryWaitGuarded`, `DialogueEnds` |
| `game_play` | three setups, up to 8 plies | `ClocksAreFair` (also the clocks told to the engines), `TimeLossDeserved`, `AdjudicatedWhenDue`, `ResultsAgree` |
| `chess_game` | 9 positions with all moves for 1 or 2 plies, 7 endings with few moves for 11 | against `ChessRules`: `MovesAreLegal`, `MovesPlacePieces`, `ResolvedSound`; what is written is read back: `PositionsSound` and `PositionsReadBack` (FEN and packed), `MovesReadBack` (LAN), `PgnTellsGame` (SAN, numbers, markers); `RepetitionsCounted`, `FiftyMovesInTime`, `PositionCommandReplays` |
| `lifecycle` | every command line of up to 3 options, 2 workers, up to 2 games; files that do not open or close, workers that die or hang | `FaultsExplained`: which errors lead to the use of what is not there, and that no other does; `SuccessIsComplete`: the exit status 0 means that all has been played and closed; `ProcessEnds` |
| `schedule` | up to 4 engines, 2 rounds, 4 games per encounter, 3 kinds of files | `EveryPairMeets`, `RepeatPairsColours`, `ColoursEven` |
| `openings` | 3 lines (one illegal), 3 workers, 4 games, every shuffle | `NoEarlyRepetition`, `OwnOpening`, `LegalGamesStart` |

Runs that must fail are findings, see section 5: `hang_noticed`, `false_threefold`,
`each_timeout`.

### Why the bounds are enough

* *match*: two workers are what it takes for one to be between any two of its steps
  while the other stops the queue, and three games for a stop to come with one game
  in the queue or one being played. *round_robin*: with three workers three texts
  can come in each order, so that one is inserted in the middle of the writer's
  queue; three engines are the least for which updates are printed and slots change.
* *watchdog*: two workers are a first and a last one of a round; a deadline shorter
  than a round and a longer one; eight ticks hold three rounds.
* *engine_dialogue*: the second game is the first one that can meet an answer left
  over from the one before; two plies give each engine a move.
* *game_play*: six plies hold three refills of a control of one move and one of two
  moves, for both engines; eight plies hold the resignation counts and move numbers
  of the rules on both sides of their limits.
* *chess_game*: every special move is at most two plies from a start; a threefold
  repetition takes eight plies, and one that a lost right spoils takes up to eleven.
  `PgnTellsGame` and `ResolvedSound` look at one move and at PVs of two moves, from
  every position reached: a longer PV repeats the same step.
* *lifecycle*: three options are enough for a file option before and after a wrong one;
  two workers for one that dies, and one that uses what is being destroyed or dies too.
* *schedule*: an even and an odd number of games, rounds and engines.
* *openings*: four games of a repeated schedule use two of the three lines: the
  shuffle decides whether the illegal one is among them, and then two workers retry it
  for ever and the third goes on.

Bounds that are not options of the program: `MaxTime` (Watchdog), `maxPly` (Chess,
GamePlay), `pvPly` (Chess: PVs are looked at up to this ply), `MaxPly` and `MaxGames`
(EngineDialogue), `MaxGames` and `MaxArgs` (Lifecycle), `MaxEngines`, `MaxRounds`, `MaxGames`
(Schedule), `MaxGroups`, `MaxSettings` (Options).

`CHECK_DEADLOCK FALSE` stands where the model stops because the bound is reached
(Watchdog, Chess, Schedule, Options), in `lifecycle`, where the process ends, and in `match` and `hang_noticed`, where the program
really does: the main thread waits in `pthread_join` for a worker that waits for an
engine that hangs.

### Fairness

`Tournament`: weak fairness of each worker, of the main thread and of `DeadlinePasses`:
the operating system runs threads that can run, and time passes. `EngineHangs` has no
fairness, and a worker that has been blocked never goes on, so nothing is assumed of
engines. `EngineDialogue`: weak fairness of the worker and of each running engine,
as its property is about engines that answer or crash; that they need not is the
subject of `Watchdog` and `Tournament`. `Openings`: weak fairness of the threads, and
strong fairness of taking the mutex: a worker that retries an illegal line gives the
mutex up and formats a message in each round, and a waiting thread is assumed to get
it at some time, as it does from a mutex of the platforms the program is built for,
though POSIX has no such promise. Only `LegalGamesStart` uses it. `Lifecycle`: weak
fairness of the main thread, of each worker and of the thread in `exit`; engines need
not answer (`Hang` has no fairness, and a worker that hangs stays).

## 4. What is proved

All proofs are checked by TLAPS, without assumptions other than those on the
constants, which the modules name (`NGamesAssumption`, `TournamentAssumption`,
`OpeningsAssumption`, `LifecycleAssumption`, `DialogueAssumption`, `WatchdogAssumption`,
`GamePlayAssumption`, `ScheduleAssumption`, `ChessAssumption`): they say what kind of value
a constant is, and what the code asserts (`deadline_set`: a duration is not 0) or divides
by (an openings file has a line); what `ChessAssumption` says is in section 2.
`LastStandingsAreFinal` has the one further hypothesis, `Rounds`.

Every safety property that a run checks is a theorem, for all values of the constants;
liveness is not.

**TournamentProofs**, first about the writer, for every number of games. `SeqInv`, which is the type invariant,
`FileInOrder`, `QueueBeyondGap` and `NothingLost`, is inductive. The order of the
file alone is not: that what is appended continues the file needs the queue to be
sorted and to start beyond a gap, and that nothing is lost needs both. The `CHOOSE`s
of the model stand for the two scans of the code; that they are defined follows from
the least element of a non-empty set of naturals (`LeastNatural`), which gives lemmas
on what the scans find, and then one on what a push does to the queue, the file and
the next index. `SeqImplementsLog`: every push is a step of `OrderedLog`.

Then about the tournament, for every job list, number of workers and stopping rule,
with engines that may hang. `TInv == TypeOK /\ GamesInv /\ SlotsFilled /\ JoinedAll` is
inductive. `GamesInv` relates queue, workers and writer: a game handed out is with one
worker or with the writer, a worker's game is its own, and the writer's own invariant
holds, because the worker pushes an index that is not in `pushed` (`JobsInHand`).
`SlotsFilled` says which slots a worker has filled by the time it plays; `JoinedAll`
that the process exits after its workers. From it:

| Theorem | Property |
|---|---|
| `TournamentTypeCorrect` | `TypeOK` |
| `GamesAreAccountedFor` | `GamesAccounted` |
| `RightEnginesAlwaysPlay` | `RightEnginesPlay` |
| `PgnIsComplete` | `PgnComplete` |
| `StopStaysFinal` | `StopIsFinal` |
| `WorkersKeepContract` | `WriterContract` |
| `TournamentImplementsLog` | `ImplementsLog`, from the two before it |

And about the results of the pairs, with the finite sets of the games counted:

* `ScoresAlwaysMatch`: `ScoresMatchGames` is inductive over `TInv`. A pair's counts are the
  number of its counted games of each outcome, where counted means handed out and not
  in hand; the lemmas on the sets `GamesOf` say what handing out and counting a game does
  to them, and cardinality does the rest. Since the results of two workers may be of
  the same pair, it is here that the one critical section of `job_queue_add_result` is
  used.
* `LastStandingsAreFinal`: if `Rounds` (more than two engines, no SPRT, which
  `options.c:296` has for two engines only, encounters that fill whole rounds, games of
  a pair between the same engines) then `FinalStandings` holds. That the list of
  `job_queue_init` has whole encounters and one pair of engines per slot is
  `JobsFillEncounters` of `ScheduleProofs`. The invariant says where the update of the
  last result is (`LastUpdate`): printed, or owed by a worker between its two critical
  sections, which sees the final counter, because the queue is empty (`QueueEmptied`);
  and that every engine that is running or has a score has its name (`NamesKnown`,
  `ScoresHaveNames`).

**LifecycleProofs**, for every number of workers and games and every command line.
`LInv` is `FaultsExplained` and `SuccessIsComplete` with what makes them inductive:

* `Stages`: while the main thread initialises, no worker runs; when it watches, all do.
* `WhoExits`: who runs the handler has died at its place and never acts again, or is the
  main thread after the last worker (`Returned`), and then nobody has died.
* `Made`: as long as nobody is in `exit`, what `main_init` has passed is there, a PGN
  file at least in its unopened state (`Unopened`). With `WhoExits` this is why a thread
  that acts while nobody has died misses nothing else (`MissingIs`).
* `NoDeath`, `Destroyed`: after a regular return the handler finds the files that it
  closes, and leaves everything it has passed gone or never made.

`FaultsAreExplained` and `SuccessMeansComplete` are the two properties. The proof has a
lemma for each kind of step: making (`MakeStep`), dying (`DieStep`), crashing
(`CrashStep`), using and going on (`UsesStep`), and one for each step of the handler.

**EngineDialogueProofs**, for every number of games and plies, with engines that are
slow, hang or crash. `DInv == Typed /\ Searches /\ Answered /\ EveryWaitGuarded`. That a
bestmove answers the last `go` is not inductive: one has to know all that is in the two
pipes. `Searches` says that the engine that the worker waits for has its one search in
one place: asked for (`GoThenStops`: one `go` in the pipe, and only `stop`s behind it),
going on, or answered (`OneBestmove`); and that the other engine, and both at any other
time, have none (`Quiet`). The pipes keep their order, and this is where it is used: a
`stop` that came before its `go` would leave a search nobody waits for. The lemmas on
pipes (`WriteIs`, `ReadIs`) are about sequences of messages and know nothing of chess.

**WatchdogProofs**, for every number of workers, all durations, intervals and delays.
`NoticedWithinARound` bounds the time at which the main thread finds a hang. The
invariant counts in rounds: a round begins not later than an interval and the delay
after the end of the one before (`RoundInTime`), and it begins before each deadline that
it has passed (`RoundsBegin`, with `Passed`: looked at and not overdue, or set after the
look). Hence the next round begins at most one interval after the deadline and finds it.
`CopyTells` is what makes the copy safe: it is the deadline of the worker until the
worker clears it, and after an answer in time it can be overdue only when the time to
spare was lost: by the worker between the answer and its `deadline_clear`, or by the main
thread in that round. This is `OnlyLateIsFatal`.

**GamePlayProofs**, for every setup (time controls, rules, scores, times, sampling) and
every length of game. `GInv == Typed /\ InTurn /\ SamplesTell /\ CountersTell /\
AdjudicatedWhenDue /\ ClockInv`.

* `InTurn` ties the engine on move to the parity of the ply, whoever began, with either
  colour; with `SamplesTell` it gives `ResultsAgree`.
* The properties look back over all of the game, the code keeps counters. `EvenTail` and
  `LostTail` say what a counter is: the length of the longest tail of moves whose scores
  meet the rule, of the game or of one engine (`CountersTell`). Each step adds a move to
  the tail or ends it (`EvenTailAdds`, `LostTailAdds`), and the code's comparison with the
  limit is the property's (`EvenTailLength`, `LostTailLength`).
* `ClockInv`: a clock is what the time control has given for the moves made (the base
  time, an increment for each, a refill whenever a control of moves is over) less the
  sum of the times used. Sums are recursive functions (`TotalIs`, `TotalAdds`) and
  the number of refills is a quotient (`DivNext`: it grows when the rest is 0).

**ScheduleProofs**, for every number of engines, rounds and games per encounter and
every openings file. The job list is made of nested loops. `UniformFlatten` says where
an element of the turn i, place k of such a loop comes to stand if all turns are equally
long, (i - 1) * L + k, and `JobSeqIs` uses it for the rounds, and in them for the pairs:
game g of pair p in round r stands at `Place(pairs, games, r, p, g)`, and every job has
such a place (`PlaceOfJob`). The triangular loop of the round robin is not of this kind;
`RoundRobinListed` follows the pairs that it has listed so far. `SInv`, that each start
follows from its index and job, is inductive with what the list is. From it:

* `PairsAlwaysMeet` (`EveryPairMeets`): the slots list the pairs that meet, each once, and
  the places of one pair are counted by a bijection with 1 .. rounds * games.
* `RepeatedOpeningsArePaired` (`RepeatPairsColours`): with an even number of games the
  places 2k and 2k + 1 belong to one encounter, and the second is reversed (`Twins`).
* `ColoursAlwaysEven` (`ColoursEven`): exchanging each game with its twin is a bijection
  between the games an engine has with white and those with black.

The same module proves what `Openings` promises, for every file, number of workers and
of games. `OInv` is
`OwnOpening` with what makes it inductive: the index is injective, because a swap keeps
it so (`Injective`); workers start when the shuffle is over, so that none has read an
entry that still moves (`ShuffledFirst`); a worker between lock and unlock holds the
mutex (`Exclusive`), and so the file is where it has put it when it reads (`OwnLine`).
The lemma `PlaceInIndex` says that the place of a game is in the index however long the
tournament is. `OpeningsTypeCorrect`, `EachGameItsOpening` and `NoRepetitionInCycles`
are `TypeOK`, `OwnOpening` and `NoEarlyRepetition`; the last follows from the second
and the injectivity of the index.

**ChessProofs** and **MovesProofs**, for every opening that `ChessAssumption` admits and
games of every length. What all of it stands on is `History` (`HistoryHolds`): the
positions and moves of a game fit together. That is, each position is `Ready`: its board
is one (`BoardOK`: a square has one piece of one colour, or none), each side has one king,
rights, en passant square and pawns are where they can be (`Sound`), attacks, checkers
and pins are those of the board (`Derived`), the side to move cannot capture the king
(`Unhit`), and a check beside an en passant square comes from a slider or from the pawn
that has just moved (`EpChecks`). Its key is that of its pieces, turn, rights and en
passant square (`Cells`, `Keyed`). And it is what a generated move has made of the one
before (`Played`).

None of these parts is inductive without the others. That a king is never captured needs
the legality of the moves; that needs the pins and checkers; these need the board to be
one; and that a capture leaves it one needs that the code finds the one piece on the
target. A step goes in three stages. `AllMoves`: what `gen_all_moves` makes is one of five
kinds of moves (`Generated`). `MoveBoard`: `pos_move`, step by step (`Started`, `Captured`,
`Moved`, `PawnMoved`, `KingMoved`, `finish`), does to the board and the key what that kind
of move does; and `MoveSound`: the rest stays sound. `ReadyGoesOn`: the filters of the
generator leave the own king unattacked; the argument follows a slider's line to the
king and asks what stood on it before the move. The lemmas on lines (`SegmentOf`, `Convex`,
`OneWay`, ...) do this with directions and numbers of steps; nothing enumerates squares
but for a few of the kind that compare two files or ranks.

| Theorem | Property | Argument beyond `History` |
|---|---|---|
| `PiecesPlaced` | `MovesPlacePieces` | both sides of the comparison become the same union and difference of sets of <<colour, piece, square>> |
| `FiftyMovesCounted` | `FiftyMovesInTime` | `Counted` is inductive: the counter against the plies since the last capture or pawn move |
| `RepetitionsFound` | `RepetitionsCounted` | `Ageing` is inductive: what moves spend (rights, pieces, pawns moved on) never comes back, so that equal positions lie within the counter, an even number of plies apart, and not two, and the keys looked at are enough; equal keys are equal placements, as sets of numbers |
| `MovesLegal` | `MovesAreLegal` | legal means generated: each filter of `gen.c` is necessary (`NormalMust`, `EpMust`, `PawnsServed`, ...) and sufficient (`NormalSafe`, ...), kind by kind, also for castling in Chess960 |
| `MovesRead` | `MovesReadBack` | a king steps one file (`StepsAreShort`), so two files are castling |
| `PositionsRead` | `PositionsReadBack` | `AllReadable`, the verifications of `pos_set`, is inductive; the letters of the castling field are in a one-to-one relation with the rooks |
| `PositionsAreSound` | `PositionsSound` | `TwoAtMost` is inductive: what checks after a move is the piece that moved, or was uncovered on one line |
| `CommandsReplay` | `PositionCommandReplays` | `Walk`: each position is `pos_move` of the one before, in one mode; and `Twins`: two positions that differ in the mode go on doing so, but for castling, which is never in the list |
| `GamesTold` | `PgnTellsGame` | `InOrder`: move numbers, as numbers of 16 bits; the contesters of `pos_move_to_san` are the legal rivals, although it asks about pins and not about checks: a pinned knight cannot stay on its line (`PinnedOnLine`), and where one legal move answers a check another piece that reaches the square does too |
| `PvsResolved` | `ResolvedSound` | `TacticalIs`: for legal moves, the code's test (capture, en passant, promotion) is that more changes than one square against another |

Sums, flattened lists, replayed moves and other values that a recursive function defines
are handled without induction theorems, whose operator parameters the provers cannot
instantiate: a property of all prefixes holds because there is no least prefix without it
(`LeastNatural`, `Least`, from the well-foundedness of < on the naturals).

Only model-checked:

* liveness, which is beyond the prover: `Terminates`, `HangEndsOpenQueue`, `DialogueEnds`,
  `LegalGamesStart`, `ProcessEnds`. Their runs are small, and the fairness is in
  section 3;
* that the model is not empty: that each action fires, and that each property can be
  broken by a change of the code, is seen from the runs and their mutants;
* that the openings of `chess_game` satisfy `ChessAssumption`, which TLC evaluates.

The proofs speak of the model. That Zobrist numbers are independent (`Position`), that the
magic tables give the attacks (`Board`) and that the characters of a text are those of its
parts (`Notation`) is assumed there.

## 5. Findings

Each is a run that must fail, with what the repository says and what the code does.

* `hang_noticed` (`main.c:211`): the watch ends when the last job has been *handed out*.
  An engine that hangs in one of the last games, or on `quit`, is never noticed.
* `false_threefold` (`position.c:36`): the loop that draws the Zobrist numbers of castling
  rooks and en passant squares stops after two squares, so castling rights do not
  count in repetitions; a game is drawn although its position has not occurred three
  times. `RepetitionsCounted` says what does hold.
* `each_timeout` (`options.c:216`): an `-each` that does not mention `timeout` sets every
  engine's timeout back to the default.

Disagreements that are described here but have no run:

* Castling, encoded as the capture of the own rook, resets the fifty-move counter
  (`position.c:412`; `position.h:31` has it as the counter of the fifty-move rule).
  `FiftyMovesInTime` has what holds: the counter is never ahead, behind only after a
  castling, and the draw comes at once when it is complete. It is also what keeps
  castling moves out of the position command (`PositionCommandReplays`), and so
  what makes harmless that `UCI_Chess960` is set and never reset (`game.c:193`).
* An option that is wrong after `-pgn` or `-sample`, or an openings file that cannot be
  opened, ends in `fclose` of what is not open (`main.c:39-43`); a PGN file that cannot be
  opened is found when the first game is written to it (`seqwriter.c:26`); and a worker
  that dies destroys what others use. `FaultsExplained` lists these and shows that
  there are no others.
* The binary samples: README.md describes a score of 16 bits and a result of 8, the
  code writes two `int`s (`game.h:43-44`, `game.c:444-445`).
* A `K` in a FEN names the rook of highest file on the rank (`position.c:232`), also when
  it stands to the left of the king; a single castling rook is accepted for a king that
  is not on its first rank, and `pos_get` then writes an empty castling field.
* `fullMove` is a number of 16 bits and goes on with 0 (`position.c:471`), in a FEN that
  `pos_set` would not accept. See `PositionsReadBack`.
* `-repeat` (`main.c:115`, README.md:53 "each engine playing both sides") halves the
  index of the game in the tournament, and colours alternate within an encounter:
  with an odd number of games per encounter, which is the default, the two games of
  an opening have the same colours or belong to two pairs. `RepeatPairsColours` has
  the condition under which it works.
* An even number of games does not make colours even (README.md:35) if the file mixes
  sides to move and openings are not repeated (`main.c:125`); see `ColoursEven`.
* `deadline_overdue` reads the clock after the unlock (`workers.c:62`): an answer in time
  can be taken for a hang if the main thread is preempted there; and so it can if the
  worker is, between the line it has read (`engine.c:321`) and `deadline_clear`.
  `OnlyLateIsFatal` says that nothing else makes an answer in time fatal, and by how much.
* Without `-log` the message about a hanging engine (`main.c:203`) is preceded by an
  `fprintf` to NULL; and the engine it names (`main.c:209`) is read without the mutex, so
  that it may be that of the next dialogue. The crash is in `FaultsExplained`, the name in no
  property.
* Time controls of `-each` and `-engine` are merged field by field (`options.c:198`), so
  that the increment of one is kept with the time of the other.
* With limits of depth or nodes only, a search has a deadline that never passes
  (`game.c:237`, `engine.c:389`).
* Writing to an engine that has crashed raises SIGPIPE, which is not handled.
* An illegal FEN is retried for ever (`main.c:114`), so the tournament does not end.
* A sample's initialiser reads the object that it initialises (`game.c:289-293`).

## 6. What is not modelled

* Characters: syntax errors within a field of a FEN or of an option, the layout, the
  comments and the tags of a PGN but its result, the texts of the reasons, the lines on
  stdout other than the standings, `-version`, `pos_print`, `bb_print`.
* What is read from an `info` line: a free score in `GamePlay`, a free PV in `Chess`.
* `sprt_done`: floating point; `Tournament` takes the verdict as a predicate.
* The random choice of the plies that are sampled: free in `GamePlay`.
* `engine_spawn` and `engine_parse_cmd` (fork, exec, pipes, words of a command), and the
  test engine.
* Strings, vectors and the random generator.
* File operations that fail and on which the code does not look, but for the opening of
  the PGN file.

## 7. Plan

Done: the writer, the queue, the workers and the scores; the schedule; deadlines; the
dialogue; the game loop; the openings; start and end; chess and its notation: all of them
with proofs of their safety properties. Of the engine options only the
merge of `-each` is modelled, for the finding `each_timeout`.

Worth having next: the exit status of a match whose results file is incomplete, from
`Lifecycle` and `Tournament` together; PVs of any length in `ResolvedSound`, which its
theorem's lemmas (`TextPlayed`) would carry; and the magic tables of `bitboard.c`, whose
attacks `Board` takes as given.
