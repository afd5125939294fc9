-------------------------- MODULE LifecycleProofs --------------------------
(***************************************************************************)
(* Proofs about Lifecycle, for every number of workers and games and every *)
(* command line: what the exit status 0 means, and that no object is used  *)
(* while it is not there but for the errors that FaultsExplained names.    *)
(***************************************************************************)
EXTENDS Lifecycle, TLAPS

Place == {"parse", "initOpenings", "initPgn", "initSamples", "initWorkers",
          "threads", "watch", "join", "exit", "new", "pop", "start", "open", "play",
          "pgn", "samples", "result", "stop", "ended", "hung"}

Typed ==
    /\ object \in [Object -> {"absent", "live", "unopened", "gone"}]
    /\ pc \in [Thread -> Place]
    /\ left \in Nat /\ destroying \in Nat
    /\ exiting \in Thread \union {None}
    /\ died \subseteq Thread \X Place

\* The stages of the main thread.
Initialising == pc[Main] \in {"parse", "initOpenings", "initPgn", "initSamples",
                              "initWorkers", "threads"}
Watching == pc[Main] \in {"watch", "join"}

\* The workers start when everything is made, and use a file that was asked for.
Stages ==
    /\ Initialising \/ Watching \/ pc[Main] = "exit"
    /\ Initialising => \A w \in Workers : pc[w] = "new"
    /\ Watching => \A w \in Workers : pc[w] # "new"
    /\ pc[Main] = "exit" => exiting # None
    /\ pc[Main] = "join" => left = 0
    /\ \A w \in Workers : /\ pc[w] = "pgn" => "-pgn" \in given
                          /\ pc[w] = "samples" => "-sample" \in given

\* Who calls exit has died, or is the main thread after the last worker.
Returned ==
    /\ exiting = Main /\ died = {} /\ left = 0
    /\ \A w \in Workers : pc[w] = "ended"

WhoExits ==
    /\ \A d \in died : pc[d[1]] = "exit"
    /\ exiting = None => died = {} /\ destroying = 1
    /\ exiting # None =>
          /\ pc[exiting] = "exit" /\ ~Initialising
          /\ Returned \/ \E d \in died : d[1] = exiting

\* What main_init has made when the main thread is at p, but for the files.
MadeAt(p) ==
    {"options"}
    \union (IF p = "parse" THEN {} ELSE {"engines", "queue"})
    \union (IF p \in {"parse", "initOpenings"} THEN {} ELSE {"openings"})
    \union (IF p \in {"watch", "join", "threads"} THEN {"workers"} ELSE {})

\* The files that were asked for, when main_init has come to them.
PgnThere == "-pgn" \in given => object["pgn"] \in {"live", "unopened"}
SamplesThere == "-sample" \in given => object["samples"] = "live"

Made ==
    exiting = None =>
        /\ \A o \in MadeAt(pc[Main]) : object[o] = "live"
        /\ pc[Main] \notin {"parse", "initOpenings", "initPgn"} => PgnThere
        /\ pc[Main] \in {"initWorkers", "threads", "watch", "join"} => SamplesThere

\* Only the PGN file can be there without being open.
Unopened == \A o \in Object : object[o] = "unopened" => o = "pgn" /\ "-pgn" \in given

\* As long as nobody has died, only an unopened PGN file is misused, by a worker
\* or by the handler, which finds the files that it closes.
NoDeath ==
    died = {} =>
        /\ misused # {} => misused = {"pgn"} /\ object["pgn"] = "unopened"
        /\ misused # {} => ~Initialising
        /\ exiting # None /\ destroying <= 2 => SamplesThere
        /\ exiting # None /\ destroying <= 3 => PgnThere

\* What is there once the handler has come past it.
Destroyed ==
    \A i \in 1..7 : i < destroying => object[DestroyOrder[i]] \in {"gone", "absent"}

LInv ==
    /\ Typed /\ Stages /\ WhoExits /\ Made /\ Unopened /\ NoDeath /\ Destroyed
    /\ FaultsExplained /\ SuccessIsComplete

-----------------------------------------------------------------------------
LEMMA ObjectIs ==
    /\ DOMAIN DestroyOrder = 1..7 /\ Len(DestroyOrder) = 7
    /\ Object = {"workers", "samples", "pgn", "openings", "queue", "options",
                 "engines"}
<1>1. DOMAIN DestroyOrder = 1..7
  BY DEF DestroyOrder
<1>2. Len(DestroyOrder) = 7
  BY DEF DestroyOrder
<1>3. Object = {DestroyOrder[i] : i \in 1..7}
  BY <1>1 DEF Object, Range
<1>4. {DestroyOrder[i] : i \in 1..7} =
        {DestroyOrder[1], DestroyOrder[2], DestroyOrder[3], DestroyOrder[4],
         DestroyOrder[5], DestroyOrder[6], DestroyOrder[7]}
  OBVIOUS
<1> QED
  BY <1>1, <1>2, <1>3, <1>4 DEF DestroyOrder

LEMMA LifeInit == Init => LInv
<1> SUFFICES ASSUME Init PROVE LInv
  OBVIOUS
<1> USE LifecycleAssumption, ObjectIs
<1>1. Typed
  <2>1. object \in [Object -> {"absent", "live", "unopened", "gone"}]
    BY DEF Init
  <2>2. pc \in [Thread -> Place]
    BY DEF Init, Place
  <2>3. left \in Nat /\ destroying \in Nat
    BY DEF Init
  <2> QED
    BY <2>1, <2>2, <2>3 DEF Typed, Init
<1>2. Stages /\ WhoExits
  BY DEF Init, Stages, WhoExits, Initialising, Watching, Thread, Main
<1>3. Made /\ Unopened /\ NoDeath
  BY DEF Init, Made, MadeAt, Unopened, NoDeath, Initialising, Thread, Main
<1>4. Destroyed /\ FaultsExplained /\ SuccessIsComplete
  BY DEF Init, Destroyed, FaultsExplained, SuccessIsComplete
<1> QED
  BY <1>1, <1>2, <1>3, <1>4 DEF LInv

-----------------------------------------------------------------------------
\* Parsing an option makes nothing.
LEMMA ParseStep == LInv /\ ParseOption => LInv'
<1> SUFFICES ASSUME LInv, ParseOption PROVE LInv'
  OBVIOUS
<1> USE LifecycleAssumption, ObjectIs
<1>1. /\ Typed /\ Stages /\ WhoExits /\ Made /\ Unopened /\ NoDeath /\ Destroyed
      /\ FaultsExplained /\ Main \in Thread
  BY DEF LInv, Thread
<1>2. Initialising /\ exiting = None /\ died = {} /\ misused = {}
  BY <1>1 DEF ParseOption, At, Initialising, WhoExits, NoDeath
<1>3. Typed' /\ Stages' /\ WhoExits'
  BY <1>1 DEF ParseOption, At, Typed, Stages, WhoExits, Initialising, Watching,
     Returned
<1>4. Made' /\ Unopened' /\ NoDeath' /\ Destroyed'
  BY <1>1, <1>2 DEF ParseOption, At, Made, MadeAt, Unopened, NoDeath, Destroyed,
     PgnThere, SamplesThere
<1>5. FaultsExplained' /\ SuccessIsComplete'
  BY <1>1, <1>2 DEF ParseOption, At, FaultsExplained, SuccessIsComplete
<1> QED
  BY <1>3, <1>4, <1>5 DEF LInv

InitPlace == {"parse", "initOpenings", "initPgn", "initSamples", "initWorkers", "threads"}

\* A step of main_init that makes what the next one needs: no thread is there to
\* misuse it.
LEMMA MakeStep ==
    ASSUME NEW from \in InitPlace, NEW next \in InitPlace, NEW objects,
           NEW state \in {"live", "unopened"}, LInv,
           Make(from, objects, state, next), Made', Unopened'
    PROVE  LInv'
<1> USE LifecycleAssumption, ObjectIs DEF InitPlace
<1>1. /\ Typed /\ Stages /\ WhoExits /\ NoDeath /\ Destroyed
      /\ FaultsExplained /\ Main \in Thread
  BY DEF LInv, Thread
<1>2. Initialising /\ exiting = None /\ died = {} /\ misused = {} /\ status = "running"
  BY <1>1 DEF Make, At, Initialising, WhoExits, NoDeath
<1>3. pc' = [pc EXCEPT ![Main] = next] /\ pc' \in [Thread -> Place] /\ Initialising'
  BY <1>1 DEF Make, Go, Typed, Place, Initialising
<1>4. Typed'
  BY <1>1, <1>3 DEF Make, Typed
<1>5. Stages' /\ WhoExits'
  BY <1>1, <1>2, <1>3 DEF Make, Typed, Stages, WhoExits, Initialising, Watching, Thread
<1>6. NoDeath' /\ Destroyed'
  BY <1>1, <1>2, <1>3 DEF Make, NoDeath, Destroyed, WhoExits
<1>7. FaultsExplained' /\ SuccessIsComplete'
  BY <1>2 DEF Make, FaultsExplained, SuccessIsComplete
<1> QED
  BY <1>4, <1>5, <1>6, <1>7 DEF LInv

LEMMA MainInitStep ==
    LInv /\ (InitQueue \/ InitOpenings \/ InitWriter \/ InitSamples \/ InitWorkers)
      => LInv'
<1> SUFFICES ASSUME LInv PROVE InitQueue \/ InitOpenings \/ InitWriter \/ InitSamples
                                 \/ InitWorkers => LInv'
  OBVIOUS
<1> USE LifecycleAssumption, ObjectIs
<1>1. Typed /\ WhoExits /\ Made /\ Unopened /\ Main \in Thread /\ Stages
  BY DEF LInv, Thread
<1>a. ASSUME NEW from \in InitPlace, NEW next \in InitPlace, NEW objects,
             NEW state \in {"live", "unopened"}, Make(from, objects, state, next)
      PROVE  /\ exiting = None /\ pc[Main] = from /\ pc'[Main] = next
             /\ given' = given
             /\ object' = [o \in Object |-> IF o \in objects THEN state ELSE object[o]]
  BY <1>1, <1>a DEF Make, At, Go, WhoExits, Typed, Stages, Initialising, InitPlace
<1>2. CASE InitQueue
  <2>1. Make("parse", {"engines", "queue"}, "live", "initOpenings")
    BY <1>2 DEF InitQueue
  <2>2. Made' /\ Unopened'
    BY <1>1, <1>a, <2>1 DEF Made, MadeAt, Unopened, InitPlace
  <2> QED
    BY <2>1, <2>2, MakeStep DEF InitPlace
<1>3. CASE InitOpenings
  <2>1. Make("initOpenings", {"openings"}, "live", "initPgn")
    BY <1>3 DEF InitOpenings
  <2>2. Made' /\ Unopened'
    BY <1>1, <1>a, <2>1 DEF Made, MadeAt, Unopened, InitPlace
  <2> QED
    BY <2>1, <2>2, MakeStep DEF InitPlace
<1>4. CASE InitWriter
  <2>1. CASE "-pgn" \notin given
    <3>1. Make("initPgn", {}, "live", "initSamples")
      BY <1>4, <2>1 DEF InitWriter
    <3>2. Made' /\ Unopened'
      BY <1>1, <1>a, <2>1, <3>1 DEF Made, MadeAt, Unopened, PgnThere, InitPlace
    <3> QED
      BY <3>1, <3>2, MakeStep DEF InitPlace
  <2>2. CASE "-pgn" \in given
    <3>1. PICK state \in {"live", "unopened"} :
             Make("initPgn", {"pgn"}, state, "initSamples")
      BY <1>4, <2>2 DEF InitWriter
    <3>2. Made' /\ Unopened'
      BY <1>1, <1>a, <2>2, <3>1 DEF Made, MadeAt, Unopened, PgnThere, InitPlace
    <3> QED
      BY <3>1, <3>2, MakeStep DEF InitPlace
  <2> QED
    BY <2>1, <2>2
<1>5. CASE InitSamples
  <2> DEFINE asked == IF "-sample" \in given THEN {"samples"} ELSE {}
  <2>1. Make("initSamples", asked, "live", "initWorkers")
    BY <1>5 DEF InitSamples
  <2> HIDE DEF asked
  <2>2. Made' /\ Unopened'
    BY <1>1, <1>a, <2>1 DEF asked, Made, MadeAt, Unopened, PgnThere, SamplesThere,
       InitPlace
  <2> QED
    BY <2>1, <2>2, MakeStep DEF InitPlace
<1>6. CASE InitWorkers
  <2>1. Make("initWorkers", {"workers"}, "live", "threads")
    BY <1>6 DEF InitWorkers
  <2>2. Made' /\ Unopened'
    BY <1>1, <1>a, <2>1 DEF Made, MadeAt, Unopened, PgnThere, SamplesThere, InitPlace
  <2> QED
    BY <2>1, <2>2, MakeStep DEF InitPlace
<1> QED
  BY <1>2, <1>3, <1>4, <1>5, <1>6

\* The threads start, and everything is made.
LEMMA StartStep == LInv /\ StartThreads => LInv'
<1> SUFFICES ASSUME LInv, StartThreads PROVE LInv'
  OBVIOUS
<1> USE LifecycleAssumption, ObjectIs
<1>1. /\ Typed /\ Stages /\ WhoExits /\ Made /\ Unopened /\ NoDeath /\ Destroyed
      /\ FaultsExplained /\ Main \in Thread
  BY DEF LInv, Thread
<1>2. Initialising /\ exiting = None /\ died = {} /\ misused = {} /\ status = "running"
  BY <1>1 DEF StartThreads, At, Initialising, WhoExits, NoDeath
<1>3. pc' \in [Thread -> Place] /\ Watching' /\ ~Initialising'
      /\ \A w \in Workers : pc'[w] = "pop"
  BY <1>1 DEF StartThreads, Place, Watching, Initialising, Thread
<1>4. Typed' /\ Stages' /\ WhoExits'
  BY <1>1, <1>2, <1>3 DEF StartThreads, Typed, Stages, WhoExits, Watching
<1>5. Made' /\ Unopened' /\ NoDeath' /\ Destroyed'
  BY <1>1, <1>2, <1>3 DEF StartThreads, At, Made, MadeAt, Unopened, NoDeath,
     Destroyed, PgnThere, SamplesThere
<1>6. FaultsExplained' /\ SuccessIsComplete'
  BY <1>1, <1>2 DEF StartThreads, FaultsExplained, SuccessIsComplete
<1> QED
  BY <1>4, <1>5, <1>6 DEF LInv
-----------------------------------------------------------------------------
\* A thread that is not at its end dies: if it is the first, it has not returned.
LEMMA DieStep ==
    ASSUME NEW t \in Thread, LInv, status = "running", Die(t),
           pc[t] \notin {"new", "exit", "ended"}
    PROVE  LInv'
<1> USE LifecycleAssumption, ObjectIs
<1>1. /\ Typed /\ Stages /\ WhoExits /\ Made /\ Unopened /\ NoDeath /\ Destroyed
      /\ FaultsExplained /\ Main \in Thread /\ None \notin Thread
  BY DEF LInv, Thread, Main, None
<1>2. pc' = [pc EXCEPT ![t] = "exit"] /\ pc' \in [Thread -> Place] /\ pc[t] \in Place
  BY <1>1 DEF Die, Go, Typed, Place
<1>3. Typed'
  BY <1>1, <1>2 DEF Die, Typed
<1>4. exiting' # None /\ exiting' \in Thread /\ pc'[exiting'] = "exit"
  BY <1>1, <1>2 DEF Die, Typed, WhoExits
<1>5. ~Initialising'
  BY <1>1, <1>2 DEF Initialising, Stages, Thread, Place
<1>6. ~Returned
  BY <1>1 DEF Returned, WhoExits, Thread, None, Main
<1>7. Stages'
  BY <1>1, <1>2, <1>4, <1>5 DEF Die, Stages, Initialising, Watching, Thread
<1>8. \E d \in died' : d[1] = exiting'
  <2>1. CASE exiting = None
    <3>1. <<t, pc[t]>> \in died' /\ exiting' = t
      BY <2>1 DEF Die
    <3>2. <<t, pc[t]>>[1] = t
      OBVIOUS
    <3> QED
      BY <3>1, <3>2
  <2>2. CASE exiting # None
    BY <1>1, <1>6, <2>2 DEF Die, WhoExits
  <2> QED
    BY <2>1, <2>2
<1>9. \A d \in died' : pc'[d[1]] = "exit"
  BY <1>1, <1>2 DEF Die, WhoExits, Typed
<1>10. WhoExits'
  BY <1>4, <1>5, <1>8, <1>9 DEF WhoExits
<1>11. Made' /\ Unopened' /\ NoDeath' /\ Destroyed'
  BY <1>1, <1>4 DEF Die, Made, Unopened, NoDeath, Destroyed
<1>12. Running => Running'
  BY <1>2 DEF Running, Thread
<1>13. FaultsExplained' /\ SuccessIsComplete'
  BY <1>1, <1>12 DEF Die, FaultsExplained, SuccessIsComplete
<1> QED
  BY <1>3, <1>7, <1>10, <1>11, <1>13 DEF LInv

LEMMA InitFailsStep == LInv /\ InitFails => LInv'
<1> SUFFICES ASSUME LInv, InitFails PROVE LInv'
  OBVIOUS
<1>1. /\ Main \in Thread /\ status = "running" /\ Die(Main)
      /\ pc[Main] \notin {"new", "exit", "ended"}
  BY DEF InitFails, At, Thread
<1> QED
  BY <1>1, DieStep

LEMMA WorkerDiesStep == ASSUME NEW w \in Workers, LInv, WorkerDies(w) PROVE LInv'
<1>1. /\ w \in Thread /\ status = "running" /\ Die(w)
      /\ pc[w] \notin {"new", "exit", "ended"}
  BY DEF WorkerDies, Thread
<1> QED
  BY <1>1, DieStep

-----------------------------------------------------------------------------
\* The process crashes, for a reason that FaultsExplained names.
LEMMA CrashStep ==
    ASSUME NEW objects, LInv, status = "running", Crash(objects),
           objects = {} => "-log" \notin given /\ \E w \in Workers : pc[w] = "hung",
           objects # {} /\ died = {} =>
               objects = {"pgn"} /\ object["pgn"] = "unopened" /\ ~Initialising,
           objects # {} /\ died # {} => objects \subseteq {"pgn", "samples"} \/ Running
    PROVE  LInv'
<1>1. /\ Typed /\ Stages /\ WhoExits /\ Made /\ Unopened /\ NoDeath /\ Destroyed
      /\ FaultsExplained
  BY DEF LInv
<1>2. Typed' /\ Unopened' /\ Destroyed'
  BY <1>1 DEF Crash, Typed, Unopened, Destroyed
<1>3. Stages' /\ WhoExits'
  BY <1>1 DEF Crash, Stages, WhoExits, Initialising, Watching, Returned
<1>4. Made'
  BY <1>1 DEF Crash, Made, MadeAt, PgnThere, SamplesThere
<1>5. NoDeath'
  BY <1>1 DEF Crash, NoDeath, Initialising, PgnThere, SamplesThere
<1>6. FaultsExplained'
  <2>1. CASE died = {}
    BY <1>1, <2>1 DEF Crash, FaultsExplained, NoDeath
  <2>2. CASE died # {}
    BY <1>1, <2>2 DEF Crash, FaultsExplained, Running
  <2> QED
    BY <2>1, <2>2
<1>7. SuccessIsComplete'
  BY DEF Crash, SuccessIsComplete
<1> QED
  BY <1>2, <1>3, <1>4, <1>5, <1>6, <1>7 DEF LInv

\* What a thread can miss: if nobody has died, a PGN file that is not open.
LEMMA MissingIs ==
    ASSUME NEW t \in Thread, LInv, pc[t] \in DOMAIN Needs
    PROVE  /\ Running /\ ~Initialising /\ ~Returned
           /\ died = {} => exiting = None
           /\ died = {} /\ Missing(t) # {} =>
                 Missing(t) = {"pgn"} /\ object["pgn"] = "unopened"
<1> USE LifecycleAssumption, ObjectIs
<1>1. /\ Typed /\ Stages /\ WhoExits /\ Made /\ Unopened
      /\ Main \in Thread /\ None \notin Thread
  BY DEF LInv, Thread, Main, None
<1>2. pc[t] \in {"pop", "start", "open", "play", "pgn", "samples", "result", "stop",
                 "watch"}
  BY DEF Needs
<1>3. CASE t = Main
  <2>1. pc[Main] = "watch"
    BY <1>1, <1>2, <1>3 DEF Stages, Initialising, Watching
  <2>2. ~Initialising /\ Watching /\ ~Returned /\ Running
    BY <1>1, <2>1 DEF Stages, Initialising, Watching, Returned, WhoExits, Running, Main
  <2>3. ASSUME died = {} PROVE exiting = None /\ Missing(t) = {}
    <3>1. exiting = None
      BY <1>1, <2>2, <2>3 DEF WhoExits
    <3>2. object["workers"] = "live" /\ object["queue"] = "live"
      BY <1>1, <2>1, <3>1 DEF Made, MadeAt
    <3> QED
      BY <1>3, <2>1, <3>1, <3>2 DEF Missing, Needs
  <2> QED
    BY <2>2, <2>3
<1>4. CASE t \in Workers
  <2>1. Running /\ ~Initialising /\ ~Returned
    BY <1>1, <1>2, <1>4 DEF Stages, Returned, Running
  <2>2. ASSUME died = {}
        PROVE  /\ exiting = None
               /\ Missing(t) # {} => Missing(t) = {"pgn"} /\ object["pgn"] = "unopened"
    <3>1. exiting = None
      BY <1>1, <2>1, <2>2 DEF WhoExits
    <3>2. Watching
      BY <1>1, <2>1, <3>1 DEF Stages
    <3>3. \A o \in {"options", "engines", "queue", "openings", "workers"} :
            object[o] = "live"
      BY <1>1, <3>1, <3>2 DEF Made, MadeAt, Watching
    <3>4. PgnThere /\ SamplesThere
      BY <1>1, <3>1, <3>2 DEF Made, Watching
    <3>5. CASE pc[t] = "pgn"
      <4>1. Missing(t) = {o \in {"pgn"} : object[o] # "live"}
        BY <3>5 DEF Missing, Needs
      <4>2. object["pgn"] \in {"live", "unopened"}
        BY <1>1, <1>4, <3>4, <3>5 DEF Stages, PgnThere
      <4> QED
        BY <3>1, <4>1, <4>2
    <3>6. CASE pc[t] = "samples"
      <4>1. Missing(t) = {o \in {"samples"} : object[o] # "live"}
        BY <3>6 DEF Missing, Needs
      <4>2. object["samples"] = "live"
        BY <1>1, <1>4, <3>4, <3>6 DEF Stages, SamplesThere
      <4> QED
        BY <3>1, <4>1, <4>2
    <3>7. CASE pc[t] \notin {"pgn", "samples"}
      <4>1. Needs[pc[t]] \subseteq {"options", "engines", "queue", "openings", "workers"}
        BY <1>2, <3>7 DEF Needs
      <4> QED
        BY <3>1, <3>3, <4>1 DEF Missing
    <3> QED
      BY <3>5, <3>6, <3>7
  <2> QED
    BY <2>1, <2>2
<1> QED
  BY <1>3, <1>4 DEF Thread

LEMMA FaultStep == ASSUME NEW t \in Thread, LInv, Fault(t) PROVE LInv'
<1>1. status = "running" /\ pc[t] \in DOMAIN Needs /\ Missing(t) # {} /\ Crash(Missing(t))
  BY DEF Fault
<1> QED
  BY <1>1, MissingIs, CrashStep

LEMMA WatchDiesStep == LInv /\ WatchDies => LInv'
<1> SUFFICES ASSUME LInv, WatchDies PROVE LInv'
  OBVIOUS
<1>1. /\ Main \in Thread /\ status = "running" /\ pc[Main] = "watch"
      /\ \E w \in Workers : pc[w] = "hung"
  BY DEF WatchDies, At, Thread
<1>2. CASE "-log" \in given
  <2>1. Die(Main)
    BY <1>2 DEF WatchDies
  <2> QED
    BY <1>1, <2>1, DieStep
<1>3. CASE "-log" \notin given
  <2>1. Crash({})
    BY <1>3 DEF WatchDies
  <2> QED
    BY <1>1, <1>3, <2>1, CrashStep
<1> QED
  BY <1>2, <1>3

-----------------------------------------------------------------------------
\* A thread goes on to the next place: none that acts has died, and while nobody
\* has died the handler does not run.
LEMMA UsesStep ==
    ASSUME NEW t \in Thread, NEW from \in DOMAIN Needs, NEW next \in Place,
           LInv, Uses(t, from, next), left' \in Nat, left = 0 => left' = 0,
           t = Main => next = "join" /\ left' = 0,
           t \in Workers => next # "new",
           next = "pgn" => "-pgn" \in given, next = "samples" => "-sample" \in given
    PROVE  LInv'
<1> USE LifecycleAssumption, ObjectIs
<1>1. /\ Typed /\ Stages /\ WhoExits /\ Made /\ Unopened /\ NoDeath /\ Destroyed
      /\ FaultsExplained /\ Main \in Thread /\ None \notin Thread
  BY DEF LInv, Thread, Main, None
<1>2. pc[t] = from /\ status = "running" /\ status' = "running"
  BY DEF Uses, At
<1>3. /\ Running /\ ~Initialising /\ ~Returned
      /\ died = {} => exiting = None
      /\ died = {} /\ Missing(t) # {} =>
            Missing(t) = {"pgn"} /\ object["pgn"] = "unopened"
  BY <1>2, MissingIs
<1>4. pc' = [pc EXCEPT ![t] = next] /\ pc' \in [Thread -> Place] /\ from # "exit"
  BY <1>1 DEF Uses, Go, Typed, Needs
<1>5. Typed'
  BY <1>1, <1>4 DEF Uses, Typed
<1>6. ~Initialising' /\ (Watching => Watching') /\ (Watching' => Watching)
  <2>1. CASE t = Main
    <3>1. pc[Main] = "watch"
      BY <1>1, <1>2, <1>3, <2>1 DEF Stages, Watching, Needs
    <3> QED
      BY <1>1, <1>4, <2>1, <3>1 DEF Initialising, Watching
  <2>2. CASE t # Main
    BY <1>1, <1>3, <1>4, <2>2 DEF Initialising, Watching
  <2> QED
    BY <2>1, <2>2
<1>7. Stages'
  <2>1. \A w \in Workers : (pc'[w] = "new" => pc[w] = "new")
    BY <1>1, <1>4 DEF Thread
  <2>2. \A w \in Workers : /\ pc'[w] = "pgn" => "-pgn" \in given
                           /\ pc'[w] = "samples" => "-sample" \in given
    BY <1>1, <1>4 DEF Stages, Thread
  <2>3. pc'[Main] = "join" => left' = 0
    BY <1>1, <1>4 DEF Stages
  <2>4. /\ Watching' \/ pc'[Main] = "exit"
        /\ pc'[Main] = "exit" => exiting # None
    BY <1>1, <1>2, <1>3, <1>4, <1>6 DEF Stages
  <2> QED
    BY <1>1, <1>6, <2>1, <2>2, <2>3, <2>4 DEF Stages, Uses
<1>8. WhoExits'
  <2>1. \A d \in died : pc'[d[1]] = "exit"
    BY <1>1, <1>2, <1>4 DEF WhoExits, Typed
  <2>2. exiting # None => pc'[exiting] = "exit" /\ \E d \in died : d[1] = exiting
    BY <1>1, <1>2, <1>3, <1>4 DEF WhoExits, Typed
  <2> QED
    BY <1>1, <1>6, <2>1, <2>2 DEF WhoExits, Uses
<1>9. Made'
  <2>1. CASE exiting = None
    <3>1. Watching /\ Watching'
      BY <1>1, <1>3, <1>6, <2>1 DEF Stages
    <3> QED
      BY <1>1, <3>1, <2>1 DEF Made, MadeAt, Watching, Uses, PgnThere, SamplesThere
  <2>2. CASE exiting # None
    BY <2>2 DEF Made, Uses
  <2> QED
    BY <2>1, <2>2
<1>10. Unopened' /\ Destroyed'
  BY <1>1 DEF Unopened, Destroyed, Uses
<1>11. NoDeath'
  BY <1>1, <1>3, <1>6 DEF NoDeath, Uses
<1>12. Running'
  <2>1. PICK w \in Workers : pc[w] # "new"
    BY <1>3 DEF Running
  <2> QED
    BY <1>4, <2>1 DEF Running, Thread
<1>13. FaultsExplained' /\ SuccessIsComplete'
  BY <1>2, <1>11, <1>12 DEF FaultsExplained, SuccessIsComplete, NoDeath
<1> QED
  BY <1>5, <1>7, <1>8, <1>9, <1>10, <1>11, <1>13 DEF LInv
LEMMA MainUses == LInv /\ LeaveWatch => LInv'
<1> SUFFICES ASSUME LInv, LeaveWatch PROVE LInv'
  OBVIOUS
<1>1. Main \in Thread /\ Main \notin Workers
  BY LifecycleAssumption DEF Thread
<1>2. Uses(Main, "watch", "join") /\ left = 0 /\ left' = 0
  BY DEF LeaveWatch
<1>3. "watch" \in DOMAIN Needs /\ "join" \in Place
  BY DEF Needs, Place
<1>4. left' \in Nat
  BY <1>2
<1> QED
  BY <1>1, <1>2, <1>3, <1>4, UsesStep

LEMMA WorkerUses ==
    ASSUME NEW w \in Workers, LInv,
           \/ PopJob(w) \/ PopNone(w) \/ StartEngines(w) \/ ChooseOpening(w)
           \/ PlayGame(w) \/ WritePgn(w) \/ WriteSamples(w) \/ AddResult(w)
           \/ StopEngines(w)
    PROVE  LInv'
<1>1. w \in Thread /\ w # Main /\ left \in Nat
  BY LifecycleAssumption DEF Thread, LInv, Typed
<1>2. /\ left' \in Nat /\ (left = 0 => left' = 0)
      /\ \E from \in DOMAIN Needs, next \in Place \ {"new"} :
            /\ Uses(w, from, next)
            /\ next = "pgn" => "-pgn" \in given
            /\ next = "samples" => "-sample" \in given
  <2>1. CASE PopJob(w)
    BY <1>1, <2>1 DEF PopJob, Needs, Place
  <2>2. CASE PopNone(w)
    BY <1>1, <2>2 DEF PopNone, Needs, Place
  <2>3. CASE StartEngines(w)
    BY <1>1, <2>3 DEF StartEngines, Needs, Place
  <2>4. CASE ChooseOpening(w)
    BY <1>1, <2>4 DEF ChooseOpening, Needs, Place
  <2>5. CASE PlayGame(w)
    BY <1>1, <2>5 DEF PlayGame, Needs, Place
  <2>6. CASE WritePgn(w)
    BY <1>1, <2>6 DEF WritePgn, Needs, Place
  <2>7. CASE WriteSamples(w)
    BY <1>1, <2>7 DEF WriteSamples, Needs, Place
  <2>8. CASE AddResult(w)
    BY <1>1, <2>8 DEF AddResult, Needs, Place
  <2>9. CASE StopEngines(w)
    BY <1>1, <2>9 DEF StopEngines, Needs, Place
  <2> QED
    BY <2>1, <2>2, <2>3, <2>4, <2>5, <2>6, <2>7, <2>8, <2>9
<1>3. PICK from \in DOMAIN Needs, next \in Place \ {"new"} :
        /\ Uses(w, from, next)
        /\ next = "pgn" => "-pgn" \in given
        /\ next = "samples" => "-sample" \in given
  BY <1>2
<1> QED
  BY <1>1, <1>2, <1>3, UsesStep

\* An engine hangs.
LEMMA HangStep == ASSUME NEW w \in Workers, LInv, Hang(w) PROVE LInv'
<1> USE LifecycleAssumption, ObjectIs
<1>1. /\ Typed /\ Stages /\ WhoExits /\ Made /\ Unopened /\ NoDeath /\ Destroyed
      /\ FaultsExplained /\ Main \in Thread /\ w \in Thread /\ w # Main
      /\ None \notin Thread
  BY DEF LInv, Thread, Main, None
<1>2. /\ pc[w] \in {"start", "play", "stop"} /\ status = "running"
      /\ pc' = [pc EXCEPT ![w] = "hung"] /\ pc' \in [Thread -> Place]
  BY <1>1 DEF Hang, Go, Typed, Place
<1>3. Typed'
  BY <1>1, <1>2 DEF Hang, Typed
<1>4. ~Returned
  BY <1>2 DEF Returned
<1>5. Stages'
  BY <1>1, <1>2 DEF Hang, Stages, Initialising, Watching, Thread
<1>6. WhoExits'
  <2>1. \A d \in died : pc'[d[1]] = "exit"
    BY <1>1, <1>2 DEF WhoExits, Typed
  <2>2. exiting # None => pc'[exiting] = "exit" /\ \E d \in died : d[1] = exiting
    BY <1>1, <1>2, <1>4 DEF WhoExits, Typed
  <2>3. Initialising' => Initialising
    BY <1>1, <1>2 DEF Initialising
  <2> QED
    BY <1>1, <2>1, <2>2, <2>3 DEF WhoExits, Hang
<1>7. Made' /\ Unopened' /\ NoDeath' /\ Destroyed'
  BY <1>1, <1>2 DEF Hang, Made, MadeAt, Unopened, NoDeath, Destroyed, PgnThere,
     SamplesThere, Initialising
<1>8. Running'
  BY <1>1, <1>2 DEF Running
<1>9. FaultsExplained' /\ SuccessIsComplete'
  BY <1>1, <1>2, <1>8 DEF Hang, FaultsExplained, SuccessIsComplete
<1> QED
  BY <1>3, <1>5, <1>6, <1>7, <1>9 DEF LInv

\* main returns: the workers have ended, so that nobody has died.
LEMMA ReturnStep == LInv /\ Return => LInv'
<1> SUFFICES ASSUME LInv, Return PROVE LInv'
  OBVIOUS
<1> USE LifecycleAssumption, ObjectIs
<1>1. /\ Typed /\ Stages /\ WhoExits /\ Made /\ Unopened /\ NoDeath /\ Destroyed
      /\ FaultsExplained /\ Main \in Thread /\ Main # None
  BY DEF LInv, Thread, Main, None
<1>2. /\ pc[Main] = "join" /\ status = "running" /\ exiting' = Main
      /\ \A w \in Workers : pc[w] = "ended"
      /\ pc' = [pc EXCEPT ![Main] = "exit"] /\ pc' \in [Thread -> Place]
  BY <1>1 DEF Return, At, Go, Joined, Typed, Place
<1>3. exiting = None /\ died = {} /\ destroying = 1 /\ left = 0
  BY <1>1, <1>2 DEF WhoExits, Stages, Typed, Thread
<1>4. \A w \in Workers : pc'[w] = "ended"
  BY <1>1, <1>2 DEF Thread
<1>5. Typed'
  BY <1>1, <1>2 DEF Return, Typed
<1>6. Stages'
  BY <1>1, <1>2, <1>4 DEF Stages, Initialising, Watching
<1>7. WhoExits'
  BY <1>1, <1>2, <1>3, <1>4 DEF Return, WhoExits, Returned, Initialising
<1>8. Made' /\ Unopened' /\ Destroyed'
  BY <1>1, <1>2 DEF Return, Made, Unopened, Destroyed
<1>9. PgnThere /\ SamplesThere
  BY <1>1, <1>2, <1>3 DEF Made
<1>10. NoDeath'
  BY <1>1, <1>2, <1>9 DEF Return, NoDeath, PgnThere, SamplesThere, Initialising
<1>11. FaultsExplained' /\ SuccessIsComplete'
  BY <1>1, <1>2, <1>3 DEF Return, FaultsExplained, SuccessIsComplete, NoDeath
<1> QED
  BY <1>5, <1>6, <1>7, <1>8, <1>10, <1>11 DEF LInv

-----------------------------------------------------------------------------
(* main_destroy.                                                           *)

\* The handler runs after a death or when main has returned.
LEMMA DestroyingIs ==
    ASSUME NEW o \in Object, LInv, Destroying(o)
    PROVE  /\ exiting # None /\ status = "running" /\ ~Initialising
           /\ destroying \in 1..7 /\ o = DestroyOrder[destroying]
           /\ o = "workers" => destroying = 1
           /\ o = "samples" => destroying = 2
           /\ o = "pgn" => destroying = 3
<1>1. destroying \in 1..7 /\ o = DestroyOrder[destroying]
  BY ObjectIs DEF Destroying
<1>2. exiting # None /\ status = "running" /\ ~Initialising
  BY DEF Destroying, LInv, WhoExits
<1>3. /\ o = "workers" => destroying = 1
      /\ o = "samples" => destroying = 2
      /\ o = "pgn" => destroying = 3
  BY <1>1 DEF DestroyOrder
<1> QED
  BY <1>1, <1>2, <1>3

LEMMA DestroyStep == ASSUME NEW o \in Object, LInv, Destroy(o) PROVE LInv'
<1>1. /\ Typed /\ Stages /\ WhoExits /\ Made /\ Unopened /\ NoDeath /\ Destroyed
      /\ FaultsExplained
  BY DEF LInv
<1>2. /\ exiting # None /\ status = "running" /\ ~Initialising
      /\ destroying \in 1..7 /\ o = DestroyOrder[destroying]
      /\ o = "samples" => destroying = 2
      /\ o = "pgn" => destroying = 3
  BY DestroyingIs DEF Destroy
<1>3. \A p \in Object : object'[p] = IF p = o /\ object[p] = "live" THEN "gone"
                                      ELSE object[p]
  BY <1>1 DEF Destroy, Typed
<1>4. object[o] # "unopened"
  BY <1>1 DEF Destroy, AskedFor, Unopened
<1>5. Typed'
  <2>1. object' \in [Object -> {"absent", "live", "unopened", "gone"}]
    BY <1>1 DEF Destroy, Typed
  <2> QED
    BY <1>1, <1>2, <2>1 DEF Destroy, Typed
<1>6. Stages' /\ WhoExits'
  BY <1>1, <1>2 DEF Destroy, Stages, WhoExits, Returned, Initialising, Watching
<1>7. Made' /\ Unopened'
  BY <1>1, <1>2, <1>3 DEF Destroy, Made, Unopened
<1>8. "pgn" \in Object /\ "samples" \in Object
  BY ObjectIs
<1>9. NoDeath'
  <2>1. destroying + 1 <= 2 => o # "samples"
    BY <1>2
  <2>2. destroying + 1 <= 3 => o # "pgn"
    BY <1>2
  <2>3. object["pgn"] = "unopened" => object'["pgn"] = "unopened"
    BY <1>3, <1>8
  <2>4. ASSUME died = {}, destroying + 1 <= 2 PROVE SamplesThere'
    <3>1. SamplesThere
      BY <1>1, <1>2, <2>4 DEF NoDeath
    <3> QED
      BY <1>3, <1>8, <2>1, <2>4, <3>1 DEF SamplesThere, Destroy
  <2>5. ASSUME died = {}, destroying + 1 <= 3 PROVE PgnThere'
    <3>1. PgnThere
      BY <1>1, <1>2, <2>5 DEF NoDeath
    <3> QED
      BY <1>3, <1>8, <2>2, <2>5, <3>1 DEF PgnThere, Destroy
  <2> QED
    BY <1>1, <1>2, <2>3, <2>4, <2>5 DEF NoDeath, Destroy, Initialising
<1>10. Destroyed'
  <2> SUFFICES ASSUME NEW i \in 1..7, i < destroying + 1
               PROVE  object'[DestroyOrder[i]] \in {"gone", "absent"}
    BY DEF Destroyed, Destroy
  <2>1. DestroyOrder[i] \in Object
    BY ObjectIs DEF DestroyOrder
  <2>2. CASE i = destroying
    BY <1>1, <1>2, <1>3, <1>4, <2>1, <2>2 DEF Typed
  <2>3. CASE i < destroying
    BY <1>1, <1>3, <2>1, <2>3 DEF Destroyed
  <2> QED
    BY <1>2, <2>2, <2>3
<1>11. FaultsExplained' /\ SuccessIsComplete'
  BY <1>1, <1>2, <1>3, <1>8 DEF Destroy, FaultsExplained, SuccessIsComplete, Running
<1> QED
  BY <1>5, <1>6, <1>7, <1>9, <1>10, <1>11 DEF LInv

LEMMA CloseNullStep == ASSUME NEW o \in Object, LInv, CloseNull(o) PROVE LInv'
<1>1. /\ exiting # None /\ status = "running" /\ ~Initialising
      /\ o = "samples" => destroying = 2
      /\ o = "pgn" => destroying = 3
  BY DestroyingIs DEF CloseNull
<1>2. o \in {"samples", "pgn"} /\ object[o] # "live" /\ Crash({o})
  BY DEF CloseNull, AskedFor
<1>3. (o = "samples" => "-sample" \in given) /\ (o = "pgn" => "-pgn" \in given)
  BY DEF CloseNull, AskedFor
<1>4. died = {} => {o} = {"pgn"} /\ object["pgn"] = "unopened"
  BY <1>1, <1>2, <1>3 DEF LInv, NoDeath, PgnThere, SamplesThere
<1> QED
  BY <1>1, <1>2, <1>4, CrashStep

LEMMA CloseFailsStep == ASSUME NEW o \in Object, LInv, CloseFails(o) PROVE LInv'
<1>1. /\ Typed /\ Stages /\ WhoExits /\ Made /\ Unopened /\ NoDeath /\ Destroyed
      /\ FaultsExplained
  BY DEF LInv
<1>2. exiting \in Thread /\ exiting # None
  BY <1>1, DestroyingIs DEF CloseFails, Typed
<1>3. <<exiting, "exit">> \in died' /\ <<exiting, "exit">>[1] = exiting
  BY DEF CloseFails
<1>4. Typed'
  BY <1>1, <1>2 DEF CloseFails, Typed, Place
<1>5. Stages'
  BY <1>1 DEF CloseFails, Stages, Initialising, Watching
<1>6. WhoExits'
  <2>1. \A d \in died' : pc[d[1]] = "exit"
    BY <1>1, <1>2 DEF CloseFails, WhoExits
  <2>2. \E d \in died' : d[1] = exiting
    BY <1>3
  <2> QED
    BY <1>1, <1>2, <2>1, <2>2 DEF CloseFails, WhoExits, Initialising
<1>7. Made' /\ Unopened' /\ NoDeath' /\ Destroyed'
  BY <1>1, <1>2, <1>3 DEF CloseFails, Made, Unopened, NoDeath, Destroyed
<1>8. FaultsExplained' /\ SuccessIsComplete'
  BY <1>1, <1>3 DEF CloseFails, FaultsExplained, SuccessIsComplete, Running
<1> QED
  BY <1>4, <1>5, <1>6, <1>7, <1>8 DEF LInv

\* The status 0 is that of main_destroy after main has returned.
LEMMA ExitEndsStep == LInv /\ ExitEnds => LInv'
<1> SUFFICES ASSUME LInv, ExitEnds PROVE LInv'
  OBVIOUS
<1>1. /\ Typed /\ Stages /\ WhoExits /\ Made /\ Unopened /\ NoDeath /\ Destroyed
      /\ FaultsExplained
  BY DEF LInv
<1>2. destroying > 7 /\ destroying \in Nat /\ exiting # None
  BY <1>1, ObjectIs DEF ExitEnds, WhoExits, Typed
<1>3. Typed' /\ Stages' /\ WhoExits'
  BY <1>1 DEF ExitEnds, Typed, Stages, WhoExits, Returned, Initialising, Watching
<1>4. Made' /\ Unopened' /\ NoDeath' /\ Destroyed'
  BY <1>1, <1>2 DEF ExitEnds, Made, Unopened, NoDeath, Destroyed, Initialising,
     PgnThere, SamplesThere
<1>5. FaultsExplained'
  BY <1>1 DEF ExitEnds, FaultsExplained, Running
<1>6. SuccessIsComplete'
  <2> SUFFICES ASSUME status' = "success" PROVE SuccessIsComplete'
    BY DEF SuccessIsComplete
  <2>1. Returned
    BY <1>1, <1>2 DEF ExitEnds, WhoExits
  <2>2. misused \subseteq {"pgn"}
    BY <1>1, <2>1 DEF NoDeath, Returned
  <2>3. \A i \in 1..7 : object[DestroyOrder[i]] \in {"gone", "absent"}
    BY <1>1, <1>2 DEF Destroyed
  <2>4. \A o \in Object : \E i \in 1..7 : o = DestroyOrder[i]
    BY ObjectIs DEF Object, Range
  <2>5. \A o \in Object : object[o] \in {"gone", "absent"}
    BY <2>3, <2>4
  <2> QED
    BY <2>1, <2>2, <2>5 DEF ExitEnds, SuccessIsComplete, Returned
<1> QED
  BY <1>3, <1>4, <1>5, <1>6 DEF LInv

-----------------------------------------------------------------------------
(* The theorems.                                                           *)

LEMMA LifeStep == LInv /\ [Next]_vars => LInv'
<1> SUFFICES ASSUME LInv, [Next]_vars PROVE LInv'
  OBVIOUS
<1>1. CASE MainStep
  <2>1. CASE LeaveWatch
    BY <2>1, MainUses
  <2>2. CASE Fault(Main)
    BY <2>2, FaultStep DEF Thread
  <2> QED
    BY <1>1, <2>1, <2>2, ParseStep, MainInitStep, InitFailsStep, StartStep,
       WatchDiesStep, ReturnStep DEF MainStep
<1>2. CASE Exit
  BY <1>2, DestroyStep, CloseNullStep, CloseFailsStep, ExitEndsStep DEF Exit
<1>3. ASSUME NEW w \in Workers, WorkerStep(w) \/ Hang(w) PROVE LInv'
  <2>1. w \in Thread
    BY DEF Thread
  <2> QED
    BY <1>3, <2>1, WorkerUses, WorkerDiesStep, FaultStep, HangStep DEF WorkerStep
<1>4. CASE UNCHANGED vars
  <2>1. Typed' /\ Stages' /\ WhoExits' /\ Made' /\ Unopened'
    BY <1>4 DEF LInv, vars, Typed, Stages, WhoExits, Made, Unopened, Initialising,
       Watching, Returned, MadeAt, PgnThere, SamplesThere
  <2>2. NoDeath' /\ Destroyed' /\ FaultsExplained' /\ SuccessIsComplete'
    BY <1>4 DEF LInv, vars, NoDeath, Destroyed, FaultsExplained, SuccessIsComplete,
       Initialising, PgnThere, SamplesThere, Running
  <2> QED
    BY <2>1, <2>2 DEF LInv
<1> QED
  BY <1>1, <1>2, <1>3, <1>4 DEF Next

\* The inductive invariant: the stages of the main thread, who may call exit, what
\* has been made at each stage and what the handler has destroyed.
THEOREM LifeInvariant == Spec => []LInv
<1> QED
  BY LifeInit, LifeStep, PTL DEF Spec

\* No object is used before it is made or after it is destroyed but for the errors
\* that FaultsExplained names (main.c, seqwriter.c), whatever the number of workers
\* and games and whatever the command line.
THEOREM FaultsAreExplained == Spec => []FaultsExplained
<1>1. LInv => FaultsExplained
  BY DEF LInv
<1> QED
  BY <1>1, LifeInvariant, PTL

\* The exit status 0 says that every game has been handed out, every worker has
\* ended and every file has been closed (main.c: main and main_destroy).
THEOREM SuccessMeansComplete == Spec => []SuccessIsComplete
<1>1. LInv => SuccessIsComplete
  BY DEF LInv
<1> QED
  BY <1>1, LifeInvariant, PTL
=============================================================================
