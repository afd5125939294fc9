--------------------------- MODULE EngineDialogue ---------------------------
(***************************************************************************)
(* The dialogue of a worker with its two engines: src/engine.c, with the   *)
(* calls of game_play (src/game.c) and of thread_start (src/main.c).  Each *)
(* engine is a process, with a pipe in each direction.  The worker writes a*)
(* command, and reads lines up to the one it waits for; what else it reads *)
(* it drops.                                                               *)
(*                                                                         *)
(* The engines are external.  They follow the UCI protocol: one reads its  *)
(* commands also while it thinks, a search ends by itself or by "stop" and *)
(* with one bestmove.  They may be slow, and may crash at any moment; an   *)
(* engine that never answers is the subject of module Watchdog.  A bestmove*)
(* carries the number of the go that it answers, which the code has not.   *)
(***************************************************************************)
EXTENDS Naturals, Sequences

CONSTANTS MaxGames,      \* games of this worker
          MaxPly         \* bound: longer games are not explored

ASSUME DialogueAssumption == MaxGames \in Nat \ {0} /\ MaxPly \in Nat

VARIABLES pc,            \* where the worker is
          e,             \* the engine it is talking to: engines[e]
          next,          \* where it goes after engine_sync
          toEngine,      \* the pipe e->out of each engine: commands
          fromEngine,    \* the pipe e->in: lines
          eng,           \* "none", "idle", "thinking" or "gone"
          searching,     \* the number of the go that the engine searches for
          gos,           \* how many times the worker has written "go"
          answer,        \* the number of the last bestmove it has taken
          deadline,      \* the engine under the worker's deadline, 2 if none
          games, ply

dialogue == <<pc, e, next, deadline, games, ply>>
engines == <<eng, searching>>
vars == <<dialogue, toEngine, fromEngine, engines, gos, answer>>

Engine == 0..1
None == 2

Cmd(name) == [name |-> name, go |-> 0]
GoCmd(n) == [name |-> "go", go |-> n]
Line(name) == [name |-> name, go |-> 0]
Bestmove(n) == [name |-> "bestmove", go |-> n]

Init ==
    /\ pc = "seat" /\ e = 0 /\ next = "seat"
    /\ toEngine = [i \in Engine |-> <<>>]
    /\ fromEngine = [i \in Engine |-> <<>>]
    /\ eng = [i \in Engine |-> "none"]
    /\ searching = [i \in Engine |-> 0]
    /\ gos = 0 /\ answer = 0 /\ deadline = None
    /\ games = 0 /\ ply = 0

-----------------------------------------------------------------------------
(* What the steps of the worker are made of.                               *)

\* engine_writeln, to an engine that is there to read it.
engine_writeln(i, cmds) ==
    /\ eng[i] # "gone"
    /\ toEngine' = [toEngine EXCEPT ![i] = @ \o cmds]

deadline_set(i) == deadline' = i

\* Mutant: the deadline is left.
deadline_clear_Not == UNCHANGED deadline

deadline_clear == deadline' = None

\* engine_readln: the next line of the engine.
engine_readln(i) ==
    /\ fromEngine[i] # <<>>
    /\ fromEngine' = [fromEngine EXCEPT ![i] = Tail(@)]
Read == Head(fromEngine[e]).name

Goto(label) == pc' = label

-----------------------------------------------------------------------------
(* thread_start: the engines of the next job.                              *)

\* The engine of the last job plays the next one too.
KeepEngine ==
    /\ pc = "seat" /\ eng[e] # "none"
    /\ IF e = 0 THEN e' = 1 /\ Goto("seat") ELSE e' = 0 /\ Goto("newgame")
    /\ UNCHANGED <<next, deadline, games, ply, toEngine, fromEngine, engines,
                   gos, answer>>

\* Another engine is to play: the one there is has to quit.
ReplaceEngine ==
    /\ pc = "seat" /\ eng[e] # "none"
    /\ next' = "seat" /\ Goto("quit")
    /\ UNCHANGED <<e, deadline, games, ply, toEngine, fromEngine, engines, gos,
                   answer>>

\* engine_init: engine_spawn, and the start of the uci..uciok dialogue.
engine_init ==
    /\ pc = "seat" /\ eng[e] = "none"
    /\ eng' = [eng EXCEPT ![e] = "idle"]
    /\ toEngine' = [toEngine EXCEPT ![e] = <<Cmd("uci")>>]
    /\ fromEngine' = [fromEngine EXCEPT ![e] = <<>>]
    /\ deadline_set(e) /\ Goto("uciok")
    /\ UNCHANGED <<e, next, games, ply, searching, gos, answer>>

\* engine_init: a line up to "uciok", then an option, which has no answer.
ReadUciok ==
    /\ pc = "uciok" /\ engine_readln(e)
    /\ IF Read # "uciok"
       THEN UNCHANGED <<pc, e, deadline, toEngine>>
       ELSE /\ deadline_clear
            /\ engine_writeln(e, <<Cmd("setoption")>>)
            /\ IF e = 0 THEN e' = 1 /\ Goto("seat") ELSE e' = 0 /\ Goto("newgame")
    /\ UNCHANGED <<next, games, ply, engines, gos, answer>>

\* engine_destroy: quit, and wait until the process has ended.
SendQuit ==
    /\ pc = "quit"
    /\ engine_writeln(e, <<Cmd("quit")>>)
    /\ deadline_set(e) /\ Goto("waitpid")
    /\ UNCHANGED <<e, next, games, ply, fromEngine, engines, gos, answer>>

Waitpid ==
    /\ pc = "waitpid" /\ eng[e] = "gone"
    /\ deadline_clear
    /\ eng' = [eng EXCEPT ![e] = "none"]
    /\ CASE next = "seat" -> Goto("seat") /\ e' = e
         [] next = "quit" /\ e = 0 -> Goto("quit") /\ e' = 1
         [] OTHER -> Goto("end") /\ e' = e
    /\ UNCHANGED <<next, games, ply, toEngine, fromEngine, searching, gos, answer>>

-----------------------------------------------------------------------------
(* game_play: ucinewgame for both engines, and the moves.                  *)

\* engine_newgame, then engine_sync.
NewGame ==
    /\ pc = "newgame"
    /\ engine_writeln(e, <<Cmd("ucinewgame"), Cmd("isready")>>)
    /\ deadline_set(e) /\ Goto("readyok")
    /\ next' = IF e = 0 THEN "newgame" ELSE "rules"
    /\ UNCHANGED <<e, games, ply, fromEngine, engines, gos, answer>>

\* engine_sync: a line up to "readyok".
ReadReadyok ==
    /\ pc = "readyok" /\ engine_readln(e)
    /\ IF Read # "readyok"
       THEN UNCHANGED <<pc, e, deadline>>
       ELSE /\ deadline_clear /\ Goto(next)
            /\ e' = IF next = "newgame" THEN 1 ELSE IF next = "rules" THEN 0 ELSE e
    /\ UNCHANGED <<next, games, ply, toEngine, engines, gos, answer>>

\* The rules end the game, or the position is sent, then engine_sync.
Position ==
    /\ pc = "rules"
    /\ \/ Goto("over") /\ UNCHANGED <<next, deadline, toEngine>>
       \/ /\ ply < MaxPly
          /\ engine_writeln(e, <<Cmd("position"), Cmd("isready")>>)
          /\ deadline_set(e) /\ Goto("readyok") /\ next' = "go"
    /\ UNCHANGED <<e, games, ply, fromEngine, engines, gos, answer>>

\* go is written before engine_bestmove sets its deadline.
Go ==
    /\ pc = "go"
    /\ gos' = gos + 1
    /\ engine_writeln(e, <<GoCmd(gos + 1)>>)
    /\ deadline_set(e) /\ Goto("bestmove")
    /\ UNCHANGED <<e, next, games, ply, fromEngine, engines, answer>>

\* engine_bestmove: a line in time, or a bestmove, late or not.
ReadBestmove ==
    /\ pc = "bestmove" /\ engine_readln(e)
    /\ IF Read # "bestmove"
       THEN UNCHANGED <<pc, deadline, answer>>
       ELSE /\ answer' = Head(fromEngine[e]).go
            /\ deadline_clear /\ Goto("moved")
    /\ UNCHANGED <<e, next, games, ply, toEngine, engines, gos>>

\* engine_parse_info: a score that is neither "cp" nor "mate" is fatal, while the
\* limit lasts; what comes after "stop" is not parsed.
ParseFails ==
    /\ pc = "bestmove" /\ engine_readln(e) /\ Read = "info"
    /\ Goto("dead")
    /\ UNCHANGED <<e, next, deadline, games, ply, toEngine, engines, gos, answer>>

\* engine_bestmove: another line, after the limit.
SendStop ==
    /\ pc = "bestmove" /\ engine_readln(e) /\ Read # "bestmove"
    /\ engine_writeln(e, <<Cmd("stop")>>)
    /\ Goto("stopped")
    /\ UNCHANGED <<e, next, deadline, games, ply, engines, gos, answer>>

\* Mutant: any line will do.
Drained_AnyLine == TRUE

\* Mutant: the worker waits for an answer that stop does not have.
Drained_Readyok == Read = "readyok"

\* The line that ends the search that was given up.
Drained == Read = "bestmove"

\* engine_bestmove: lines up to the bestmove, which is dropped.
DrainBestmove ==
    /\ pc = "stopped" /\ engine_readln(e)
    /\ IF Drained THEN deadline_clear /\ Goto("over") ELSE UNCHANGED <<pc, deadline>>
    /\ UNCHANGED <<e, next, games, ply, toEngine, engines, gos, answer>>

\* The move ends the game (illegal, late, adjudicated), or the other engine is
\* next.
Moved ==
    /\ pc = "moved"
    /\ \/ Goto("over") /\ UNCHANGED <<e, ply>>
       \/ Goto("rules") /\ e' = 1 - e /\ ply' = ply + 1
    /\ UNCHANGED <<next, deadline, games, toEngine, fromEngine, engines, gos,
                   answer>>

\* thread_start: the next job, or both engines quit.
GameOver ==
    /\ pc = "over"
    /\ games' = games + 1 /\ ply' = 0 /\ e' = 0
    /\ \/ games + 1 < MaxGames /\ Goto("seat") /\ next' = "seat"
       \/ Goto("quit") /\ next' = "quit"
    /\ UNCHANGED <<deadline, toEngine, fromEngine, engines, gos, answer>>

\* engine_readln: the pipe is at its end.
Reading == pc \in {"uciok", "readyok", "bestmove", "stopped"}

EndOfFile ==
    /\ Reading /\ fromEngine[e] = <<>> /\ eng[e] = "gone"
    /\ Goto("dead")
    /\ UNCHANGED <<e, next, deadline, games, ply, toEngine, fromEngine, engines,
                   gos, answer>>

\* engine_writeln to an engine that is gone: SIGPIPE, which is not handled, ends
\* the process.
BrokenPipe ==
    /\ eng[e] = "gone"
    /\ \/ pc \in {"quit", "newgame", "go"}
       \/ pc = "rules" /\ ply < MaxPly
       \/ pc = "uciok" /\ fromEngine[e] # <<>> /\ Read = "uciok"
       \/ pc = "bestmove" /\ fromEngine[e] # <<>> /\ Read # "bestmove"
    /\ Goto("dead")
    /\ UNCHANGED <<e, next, deadline, games, ply, toEngine, fromEngine, engines,
                   gos, answer>>

Worker ==
    \/ KeepEngine \/ ReplaceEngine \/ engine_init \/ ReadUciok
    \/ SendQuit \/ Waitpid \/ NewGame \/ ReadReadyok \/ Position \/ Go
    \/ ReadBestmove \/ ParseFails \/ SendStop \/ DrainBestmove \/ Moved \/ GameOver
    \/ EndOfFile \/ BrokenPipe

-----------------------------------------------------------------------------
(* The engines.                                                            *)

Running(i) == eng[i] \in {"idle", "thinking"}
Write(i, lines) == fromEngine' = [fromEngine EXCEPT ![i] = @ \o lines]

\* The engine reads a command, and answers those that have an answer.
ReadCommand(i) ==
    /\ Running(i) /\ toEngine[i] # <<>>
    /\ toEngine' = [toEngine EXCEPT ![i] = Tail(@)]
    /\ LET cmd == Head(toEngine[i])
       IN  CASE cmd.name = "uci" ->
                  Write(i, <<Line("id"), Line("uciok")>>) /\ UNCHANGED engines
             [] cmd.name = "isready" ->
                  Write(i, <<Line("readyok")>>) /\ UNCHANGED engines
             [] cmd.name = "go" ->
                  /\ eng' = [eng EXCEPT ![i] = "thinking"]
                  /\ searching' = [searching EXCEPT ![i] = cmd.go]
                  /\ UNCHANGED fromEngine
             [] cmd.name = "stop" /\ eng[i] = "thinking" ->
                  /\ eng' = [eng EXCEPT ![i] = "idle"]
                  /\ Write(i, <<Bestmove(searching[i])>>)
                  /\ UNCHANGED searching
             [] cmd.name = "quit" ->
                  eng' = [eng EXCEPT ![i] = "gone"] /\ UNCHANGED <<fromEngine, searching>>
             [] OTHER -> UNCHANGED <<fromEngine, engines>>
    /\ UNCHANGED <<dialogue, gos, answer>>

\* Bound: one line of a search is on its way at a time.
Info(i) ==
    /\ eng[i] = "thinking" /\ fromEngine[i] = <<>>
    /\ Write(i, <<Line("info")>>)
    /\ UNCHANGED <<dialogue, toEngine, engines, gos, answer>>

EndSearch(i) ==
    /\ eng[i] = "thinking"
    /\ eng' = [eng EXCEPT ![i] = "idle"]
    /\ Write(i, <<Bestmove(searching[i])>>)
    /\ UNCHANGED <<dialogue, toEngine, searching, gos, answer>>

Crash(i) ==
    /\ Running(i)
    /\ eng' = [eng EXCEPT ![i] = "gone"]
    /\ UNCHANGED <<dialogue, toEngine, fromEngine, searching, gos, answer>>

\* The worker has ended, or DIE has ended the process.
Ended == pc \in {"end", "dead"} /\ UNCHANGED vars

Next ==
    \/ pc # "dead" /\ (Worker \/ \E i \in Engine :
                         ReadCommand(i) \/ Info(i) \/ EndSearch(i) \/ Crash(i))
    \/ Ended

\* The operating system runs the worker and the engines, and an engine that
\* thinks comes to an end: it does not hang.
Fairness ==
    /\ WF_vars(Worker)
    /\ \A i \in Engine : WF_vars(ReadCommand(i)) /\ WF_vars(EndSearch(i))

Spec == Init /\ [][Next]_vars /\ Fairness

-----------------------------------------------------------------------------
(* Properties.                                                             *)

\* The move that game_play plays is the answer to its last go: no bestmove of an
\* earlier search is left in the pipe, also when the last one was given up.  And
\* an engine that thinks is the one on move, and the worker waits for it: the
\* other one does not use the processor, and no position, game or option reaches
\* an engine that thinks.  (When DIE has ended the process an engine may be left
\* thinking.)
AnswersLastGo ==
    /\ pc = "moved" => answer = gos
    /\ \A i \in Engine :
         eng[i] = "thinking" /\ pc # "dead" =>
            /\ i = e /\ pc \in {"bestmove", "stopped"}
            /\ \A k \in DOMAIN toEngine[i] : toEngine[i][k].name = "stop"

\* Whenever the worker waits for an engine it is under a deadline for that very
\* engine, so the main thread can find out that it hangs, and otherwise it is
\* under none, so the process is not ended for nothing.
EveryWaitGuarded ==
    /\ Reading \/ pc = "waitpid" => deadline = e
    /\ pc \in {"seat", "newgame", "rules", "go", "moved", "over", "end"} =>
          deadline = None

\* With engines that answer, the worker comes to its end: each of its loops
\* reads the line it waits for, or the end of the file.
DialogueEnds == <>(pc \in {"end", "dead"})
=============================================================================
