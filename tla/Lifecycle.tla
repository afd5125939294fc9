----------------------------- MODULE Lifecycle -----------------------------
(***************************************************************************)
(* How the process starts and ends: main, main_init and main_destroy of    *)
(* src/main.c.  main_init makes the global objects one after the other,    *)
(* each step can fail, and main_destroy, which exit calls whatever has     *)
(* been made, destroys them.  A worker that finds an error calls exit too, *)
(* while the other workers go on using the objects.                        *)
(*                                                                         *)
(* A game is the list of the objects that its steps use.  To use an object *)
(* that is not there is undefined in C: here the process crashes, or it    *)
(* goes on.  The library runs the handlers of exit once: a second thread   *)
(* that calls exit ends the process at once or waits for its end,          *)
(* depending on the library.                                               *)
(***************************************************************************)
EXTENDS Naturals, Sequences, SequencesExt

CONSTANTS Workers,       \* the threads that thread_start runs
          MaxGames,      \* bound: games of the tournament
          MaxArgs        \* bound: options on the command line

Main == "main"
None == "none"

ASSUME LifecycleAssumption ==
    /\ Workers # {} /\ Main \notin Workers /\ None \notin Workers
    /\ MaxGames \in Nat \ {0} /\ MaxArgs \in Nat

Thread == Workers \union {Main}
Option == {"-pgn", "-sample", "-openings", "-log", "illegal"}

VARIABLES argv,          \* the options still to be parsed
          given,         \* the options parsed
          object,        \* the state of each global object
          pc,            \* where each thread is
          left,          \* games that no worker has taken yet
          exiting,       \* the thread that runs main_destroy
          destroying,    \* how far it has come
          died,          \* <<thread, place>> for each DIE
          misused,       \* objects used while they were not there (history)
          status         \* "running", or how the process has ended

vars == <<argv, given, object, pc, left, exiting, destroying, died, misused, status>>

\* The objects in the order of main_destroy.
DestroyOrder == <<"workers", "samples", "pgn", "openings", "queue", "options", "engines">>
Object == Range(DestroyOrder)

\* The objects that each place of a thread uses.
Needs ==
    [pop |-> {"queue"}, start |-> {"engines", "workers", "queue"},
     open |-> {"openings"}, play |-> {"workers", "engines", "options"},
     pgn |-> {"pgn"}, samples |-> {"samples"}, result |-> {"queue"},
     stop |-> {"workers"}, watch |-> {"workers", "queue"}]

Init ==
    /\ argv \in SeqOf(Option, MaxArgs) /\ given = {}
    /\ object = [o \in Object |-> IF o = "options" THEN "live" ELSE "absent"]
    /\ pc = [t \in Thread |-> IF t = Main THEN "parse" ELSE "new"]
    /\ left \in 1..MaxGames
    /\ exiting = None /\ destroying = 1 /\ died = {} /\ misused = {}
    /\ status = "running"

\* Thread t is at place p of a running process.
At(t, p) == status = "running" /\ pc[t] = p

Go(t, p) == pc' = [pc EXCEPT ![t] = p]

-----------------------------------------------------------------------------
(* The end.                                                                *)

\* DIE: a message, and exit.
Die(t) ==
    /\ died' = died \union {<<t, pc[t]>>}
    /\ Go(t, "exit")
    /\ IF exiting = None THEN exiting' = t /\ UNCHANGED status
       ELSE status' \in {"running", "failure"} /\ UNCHANGED exiting
    /\ UNCHANGED <<argv, given, object, left, destroying, misused>>

\* To have used these objects is the end.
Crash(objects) ==
    /\ status' = "crash" /\ misused' = misused \union objects
    /\ UNCHANGED <<argv, given, object, pc, left, exiting, destroying, died>>

\* The objects that thread t uses at its place, and that are not there.
Missing(t) == {o \in Needs[pc[t]] : object[o] # "live"}

\* A thread uses what is not there, and that is the end.
Fault(t) ==
    /\ status = "running" /\ pc[t] \in DOMAIN Needs
    /\ Missing(t) # {} /\ Crash(Missing(t))

\* Mutant: the files are closed whether they were asked for or not.
AskedFor_Always == {"samples", "pgn"}

\* The files that the handler closes if they were asked for.
AskedFor == (IF "-sample" \in given THEN {"samples"} ELSE {})
              \union (IF "-pgn" \in given THEN {"pgn"} ELSE {})

\* Mutant: the handler waits for the workers first.
Destroying_AfterJoin(o) ==
    /\ status = "running" /\ exiting # None
    /\ destroying \in DOMAIN DestroyOrder /\ o = DestroyOrder[destroying]
    /\ \A w \in Workers : pc[w] \in {"new", "ended"}

\* The handler has come to the object o.
Destroying(o) ==
    /\ status = "running" /\ exiting # None
    /\ destroying \in DOMAIN DestroyOrder /\ o = DestroyOrder[destroying]

\* A step of main_destroy: what was made is destroyed, what was not is empty.
Destroy(o) ==
    /\ Destroying(o) /\ ~(o \in AskedFor /\ object[o] # "live")
    /\ destroying' = destroying + 1
    /\ object' = [object EXCEPT ![o] = IF @ = "live" THEN "gone" ELSE @]
    /\ UNCHANGED <<argv, given, pc, left, exiting, died, misused, status>>

\* fclose of a file that was asked for and is not open.
CloseNull(o) == Destroying(o) /\ o \in AskedFor /\ object[o] # "live" /\ Crash({o})

\* fclose reports an error: DIE within exit, which ends the process.
CloseFails(o) ==
    /\ Destroying(o) /\ object[o] = "live"
    /\ \/ o = "workers" /\ "-log" \in given
       \/ o = "openings" /\ "-openings" \in given
    /\ status' = "failure" /\ died' = died \union {<<exiting, "exit">>}
    /\ UNCHANGED <<argv, given, object, pc, left, exiting, destroying, misused>>

\* main_destroy has returned.
ExitEnds ==
    /\ status = "running" /\ destroying > Len(DestroyOrder)
    /\ status' = IF \E d \in died : d[1] = exiting THEN "failure" ELSE "success"
    /\ UNCHANGED <<argv, given, object, pc, left, exiting, destroying, died, misused>>

Exit ==
    \/ \E o \in Object : Destroy(o) \/ CloseNull(o) \/ CloseFails(o)
    \/ ExitEnds

-----------------------------------------------------------------------------
(* The main thread.                                                        *)

\* One step of main_init that makes objects, and what comes next.
Make(from, objects, state, next) ==
    /\ At(Main, from) /\ Go(Main, next)
    /\ object' = [o \in Object |-> IF o \in objects THEN state ELSE object[o]]
    /\ UNCHANGED <<argv, given, left, exiting, destroying, died, misused, status>>

ParseOption ==
    /\ At(Main, "parse") /\ argv # <<>> /\ Head(argv) # "illegal"
    /\ argv' = Tail(argv) /\ given' = given \union {Head(argv)}
    /\ UNCHANGED <<object, pc, left, exiting, destroying, died, misused, status>>

\* The options end, with two engines at least; the queue follows.
InitQueue == argv = <<>> /\ Make("parse", {"engines", "queue"}, "live", "initOpenings")

InitOpenings == Make("initOpenings", {"openings"}, "live", "initPgn")

\* seq_writer_init does not look whether the file has been opened.
InitWriter ==
    \/ "-pgn" \notin given /\ Make("initPgn", {}, "live", "initSamples")
    \/ /\ "-pgn" \in given
       /\ \E state \in {"live", "unopened"} : Make("initPgn", {"pgn"}, state, "initSamples")

InitSamples ==
    Make("initSamples", IF "-sample" \in given THEN {"samples"} ELSE {}, "live",
         "initWorkers")

InitWorkers == Make("initWorkers", {"workers"}, "live", "threads")

\* An option is illegal, there are less than two engines, or a file cannot be
\* opened.
InitFails ==
    /\ \/ At(Main, "parse") /\ (IF argv = <<>> THEN TRUE ELSE Head(argv) = "illegal")
       \/ At(Main, "initOpenings") /\ "-openings" \in given
       \/ At(Main, "initSamples") /\ "-sample" \in given
       \/ At(Main, "initWorkers") /\ "-log" \in given
    /\ Die(Main)

StartThreads ==
    /\ At(Main, "threads")
    /\ pc' = [t \in Thread |-> IF t = Main THEN "watch" ELSE "pop"]
    /\ UNCHANGED <<argv, given, object, left, exiting, destroying, died, misused, status>>

\* A thread has used the objects of its place and goes on.
Uses(t, from, next) ==
    /\ At(t, from) /\ Go(t, next)
    /\ misused' = misused \union Missing(t)
    /\ UNCHANGED <<argv, given, object, exiting, destroying, died, status>>

\* A hanging engine is found: a line for the log, then DIE.
WatchDies ==
    /\ At(Main, "watch") /\ \E w \in Workers : pc[w] = "hung"
    /\ IF "-log" \in given THEN Die(Main) ELSE Crash({})

\* job_queue_done: the last game has been handed out.
LeaveWatch == left = 0 /\ Uses(Main, "watch", "join") /\ UNCHANGED left

\* Mutant: main returns when the watch is over.
Joined_Not == TRUE

\* pthread_join of every thread.
Joined == \A w \in Workers : pc[w] = "ended"

\* The threads are joined, and main returns, which is exit.
Return ==
    /\ At(Main, "join") /\ Joined
    /\ Go(Main, "exit") /\ exiting' = Main
    /\ UNCHANGED <<argv, given, object, left, destroying, died, misused, status>>

MainStep ==
    \/ ParseOption \/ InitQueue \/ InitOpenings \/ InitWriter \/ InitSamples
    \/ InitWorkers \/ InitFails \/ StartThreads
    \/ WatchDies \/ LeaveWatch \/ Return \/ Fault(Main)

-----------------------------------------------------------------------------
(* A worker: the steps of thread_start that use global objects.            *)

PopJob(w) == left > 0 /\ Uses(w, "pop", "start") /\ left' = left - 1

PopNone(w) ==
    /\ left = 0 \/ object["queue"] # "live"
    /\ Uses(w, "pop", "stop") /\ UNCHANGED left

StartEngines(w) == Uses(w, "start", "open") /\ UNCHANGED left

\* openings_next: a worker that died at it has kept the mutex.
ChooseOpening(w) ==
    /\ "-openings" \in given => \A d \in died : d[2] # "open"
    /\ Uses(w, "open", "play") /\ UNCHANGED left

PlayGame(w) ==
    /\ Uses(w, "play", IF "-pgn" \in given THEN "pgn"
                       ELSE IF "-sample" \in given THEN "samples" ELSE "result")
    /\ UNCHANGED left

\* seq_writer_push may have to keep the text; if not it goes to the file.
WritePgn(w) ==
    Uses(w, "pgn", IF "-sample" \in given THEN "samples" ELSE "result") /\ UNCHANGED left

WriteSamples(w) == Uses(w, "samples", "result") /\ UNCHANGED left

AddResult(w) == Uses(w, "result", "pop") /\ UNCHANGED left

StopEngines(w) == Uses(w, "stop", "ended") /\ UNCHANGED left

\* An engine crashes, an option cannot be sent, the openings cannot be read.
WorkerDies(w) ==
    /\ \/ pc[w] \in {"start", "play", "stop"}
       \/ pc[w] = "open" /\ "-openings" \in given /\ \A d \in died : d[2] # "open"
    /\ status = "running" /\ Die(w)

\* An engine hangs, and the worker with it.
Hang(w) ==
    /\ status = "running" /\ pc[w] \in {"start", "play", "stop"}
    /\ Go(w, "hung")
    /\ UNCHANGED <<argv, given, object, left, exiting, destroying, died, misused, status>>

WorkerStep(w) ==
    \/ PopJob(w) \/ PopNone(w) \/ StartEngines(w) \/ ChooseOpening(w)
    \/ PlayGame(w) \/ WritePgn(w) \/ WriteSamples(w) \/ AddResult(w)
    \/ StopEngines(w) \/ WorkerDies(w) \/ Fault(w)

Next == MainStep \/ Exit \/ \E w \in Workers : WorkerStep(w) \/ Hang(w)

\* The system runs the threads that can run; engines need not answer.
Spec ==
    /\ Init /\ [][Next]_vars
    /\ WF_vars(MainStep) /\ WF_vars(Exit)
    /\ \A w \in Workers : WF_vars(WorkerStep(w))

-----------------------------------------------------------------------------
(* Properties.                                                             *)

Running == \E w \in Workers : pc[w] # "new"

\* No object is used before it is made or after it is destroyed, and nothing
\* crashes, but for what begins with an error of something else: the file of
\* -pgn could not be opened (seqwriter.c:26); the process ends before the
\* workers run, and the handler closes a file that was asked for and that
\* main_init has not come to open (main.c:36-53); a thread dies while others use
\* what the handler destroys; or a hanging engine is found without -log
\* (main.c:203).  The order of main_init makes the objects in time, and the join
\* of main keeps them while the workers need them.
FaultsExplained ==
    /\ misused # {} =>
          \/ misused = {"pgn"} /\ object["pgn"] = "unopened"
          \/ died # {} /\ (misused \subseteq {"pgn", "samples"} \/ Running)
    /\ status = "crash" /\ misused = {} =>
          "-log" \notin given /\ \E w \in Workers : pc[w] = "hung"

\* The exit status 0 says that the tournament has been played: no game is left,
\* every worker has come to its end, and the files have been closed.
SuccessIsComplete ==
    status = "success" =>
        /\ left = 0 /\ \A w \in Workers : pc[w] = "ended"
        /\ died = {} /\ misused \subseteq {"pgn"}
        /\ \A o \in Object : object[o] \in {"gone", "absent"}

\* The process ends, whoever dies and whenever, but for an engine that hangs when
\* the watch is over: the handler waits for nobody.
ProcessEnds ==
    <>(\/ status # "running"
       \/ pc[Main] = "join" /\ \E w \in Workers : pc[w] = "hung")
=============================================================================
