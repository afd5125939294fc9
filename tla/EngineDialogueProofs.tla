------------------------ MODULE EngineDialogueProofs ------------------------
(***************************************************************************)
(* Proofs about EngineDialogue, for every number of games and of plies,    *)
(* with engines that may crash at any moment: a bestmove is the answer to  *)
(* the last go, no engine thinks but the one on move, and every wait of    *)
(* the worker is under a deadline for the engine it waits for.             *)
(***************************************************************************)
EXTENDS EngineDialogue, SequenceTheorems, TLAPS

Place == {"seat", "uciok", "quit", "waitpid", "newgame", "readyok", "rules", "go",
          "bestmove", "stopped", "moved", "over", "end", "dead"}

Word == {"uci", "setoption", "quit", "ucinewgame", "isready", "position", "go",
         "stop", "id", "uciok", "readyok", "bestmove", "info"}

Message == [name : Word, go : Nat]

Typed ==
    /\ pc \in Place /\ e \in Engine
    /\ next \in {"seat", "quit", "newgame", "rules", "go"}
    /\ pc = "readyok" => next \in {"newgame", "rules", "go"}
    /\ toEngine \in [Engine -> Seq(Message)]
    /\ fromEngine \in [Engine -> Seq(Message)]
    /\ eng \in [Engine -> {"none", "idle", "thinking", "gone"}]
    /\ searching \in [Engine -> Nat]
    /\ gos \in Nat /\ answer \in Nat

\* What a pipe holds.
NoneOf(s, name) == \A k \in 1..Len(s) : s[k].name # name
OnlyStops(s) == \A k \in 1..Len(s) : s[k].name = "stop"

\* If there is a go, it is the one of number n, and only stops come after it.
GoThenStops(s, n) ==
    \A k \in 1..Len(s) :
        s[k].name = "go" =>
            s[k].go = n /\ \A j \in 1..Len(s) : j > k => s[j].name = "stop"

\* There is one bestmove at most, and it answers the go of number n.
OneBestmove(s, n) ==
    \A k \in 1..Len(s) :
        s[k].name = "bestmove" =>
            s[k].go = n /\ \A j \in 1..Len(s) : s[j].name = "bestmove" => j = k

\* The worker waits for the end of a search.
Waiting == pc \in {"bestmove", "stopped"}

\* No search of engine i is asked for, goes on, or has an answer to be read.
Quiet(i) ==
    /\ NoneOf(toEngine[i], "go") /\ NoneOf(fromEngine[i], "bestmove")
    /\ eng[i] # "thinking"

\* The one search of engine i is that of the last go, and is at one place: asked
\* for, going on, or answered.
OneSearch(i) ==
    /\ GoThenStops(toEngine[i], gos) /\ OneBestmove(fromEngine[i], gos)
    /\ NoneOf(toEngine[i], "go") \/ NoneOf(fromEngine[i], "bestmove")
    /\ eng[i] = "thinking" =>
          /\ searching[i] = gos
          /\ OnlyStops(toEngine[i]) /\ NoneOf(fromEngine[i], "bestmove")

Searches ==
    pc # "dead" =>
        \A i \in Engine : IF Waiting /\ i = e THEN OneSearch(i) ELSE Quiet(i)

Answered == pc = "moved" => answer = gos

DInv == Typed /\ Searches /\ Answered /\ EveryWaitGuarded
-----------------------------------------------------------------------------
(* Pipes.                                                                  *)

LEMMA WriteIs ==
    ASSUME NEW s \in Seq(Message), NEW t \in Seq(Message)
    PROVE  /\ s \o t \in Seq(Message) /\ Len(s \o t) = Len(s) + Len(t)
           /\ Len(s) \in Nat /\ Len(t) \in Nat
           /\ \A k \in 1..Len(s) : (s \o t)[k] = s[k]
           /\ \A k \in 1..Len(t) : (s \o t)[Len(s) + k] = t[k]
           /\ \A k \in 1..Len(s \o t) :
                 k \in 1..Len(s) \/ \E j \in 1..Len(t) : k = Len(s) + j
<1>1. /\ s \o t \in Seq(Message) /\ Len(s \o t) = Len(s) + Len(t)
      /\ Len(s) \in Nat /\ Len(t) \in Nat
  BY ConcatProperties, LenProperties
<1>2. ASSUME NEW k \in 1..Len(s) PROVE (s \o t)[k] = s[k]
  BY <1>1, ConcatProperties
<1>3. ASSUME NEW k \in 1..Len(t) PROVE (s \o t)[Len(s) + k] = t[k]
  <2>1. Len(s) + k \in 1..Len(s) + Len(t) /\ ~(Len(s) + k <= Len(s))
        /\ Len(s) + k - Len(s) = k
    BY <1>1
  <2> QED
    BY <2>1, ConcatProperties
<1>4. ASSUME NEW k \in 1..Len(s \o t), k \notin 1..Len(s)
      PROVE  \E j \in 1..Len(t) : k = Len(s) + j
  <2>1. k - Len(s) \in 1..Len(t) /\ k = Len(s) + (k - Len(s))
    BY <1>1, <1>4
  <2> QED
    BY <2>1
<1> QED
  BY <1>1, <1>2, <1>3, <1>4

LEMMA ReadIs ==
    ASSUME NEW s \in Seq(Message), s # <<>>
    PROVE  /\ Tail(s) \in Seq(Message) /\ Len(Tail(s)) \in Nat /\ Len(s) \in Nat
           /\ Len(s) = Len(Tail(s)) + 1
           /\ Head(s) = s[1] /\ Head(s) \in Message
           /\ \A k \in 1..Len(Tail(s)) : k + 1 \in 1..Len(s) /\ Tail(s)[k] = s[k + 1]
<1>1. /\ Head(s) \in Message /\ Tail(s) \in Seq(Message) /\ Len(Tail(s)) = Len(s) - 1
      /\ \A k \in 1..Len(Tail(s)) : Tail(s)[k] = s[k + 1]
  BY HeadTailProperties
<1>2. Len(s) \in Nat /\ Len(Tail(s)) \in Nat
  BY <1>1, LenProperties
<1>3. Head(s) = s[1]
  OBVIOUS
<1> QED
  BY <1>1, <1>2, <1>3

LEMMA NoneOfWrite ==
    ASSUME NEW s \in Seq(Message), NEW t \in Seq(Message), NEW name,
           NoneOf(s, name), NoneOf(t, name)
    PROVE  NoneOf(s \o t, name)
BY WriteIs DEF NoneOf

LEMMA NoneOfRead ==
    ASSUME NEW s \in Seq(Message), s # <<>>, NEW name, NoneOf(s, name)
    PROVE  NoneOf(Tail(s), name) /\ Head(s).name # name
<1>1. NoneOf(Tail(s), name)
  BY ReadIs DEF NoneOf
<1>2. 1 \in 1..Len(s) /\ Head(s) = s[1]
  BY ReadIs
<1> QED
  BY <1>1, <1>2 DEF NoneOf

LEMMA OnlyStopsWrite ==
    ASSUME NEW s \in Seq(Message), NEW t \in Seq(Message), OnlyStops(s), OnlyStops(t)
    PROVE  OnlyStops(s \o t)
BY WriteIs DEF OnlyStops

LEMMA OnlyStopsRead ==
    ASSUME NEW s \in Seq(Message), s # <<>>, OnlyStops(s)
    PROVE  OnlyStops(Tail(s)) /\ Head(s).name = "stop"
<1>1. OnlyStops(Tail(s))
  BY ReadIs DEF OnlyStops
<1>2. 1 \in 1..Len(s) /\ Head(s) = s[1]
  BY ReadIs
<1> QED
  BY <1>1, <1>2 DEF OnlyStops

\* A go at the end of a pipe without one.
LEMMA GoWrite ==
    ASSUME NEW s \in Seq(Message), NEW t \in Seq(Message), NEW n,
           NoneOf(s, "go"), Len(t) = 1, t[1].go = n
    PROVE  GoThenStops(s \o t, n)
<1> SUFFICES ASSUME NEW k \in 1..Len(s \o t), (s \o t)[k].name = "go"
             PROVE  /\ (s \o t)[k].go = n
                    /\ \A j \in 1..Len(s \o t) : j > k => (s \o t)[j].name = "stop"
  BY DEF GoThenStops
<1>1. k \notin 1..Len(s)
  BY WriteIs DEF NoneOf
<1>2. PICK i \in 1..Len(t) : k = Len(s) + i
  BY <1>1, WriteIs
<1>3. i = 1 /\ (s \o t)[k] = t[i]
  BY <1>2, WriteIs
<1>4. Len(s \o t) = Len(s) + 1 /\ Len(s) \in Nat
  <2>1. Len(s \o t) = Len(s) + Len(t) /\ Len(s) \in Nat
    BY WriteIs
  <2> QED
    BY <2>1
<1>5. Len(s \o t) = k /\ k \in Nat
  BY <1>2, <1>3, <1>4
<1> QED
  BY <1>3, <1>5

LEMMA StopWrite ==
    ASSUME NEW s \in Seq(Message), NEW t \in Seq(Message), NEW n,
           GoThenStops(s, n), OnlyStops(t)
    PROVE  GoThenStops(s \o t, n)
<1> SUFFICES ASSUME NEW k \in 1..Len(s \o t), (s \o t)[k].name = "go"
             PROVE  /\ (s \o t)[k].go = n
                    /\ \A j \in 1..Len(s \o t) : j > k => (s \o t)[j].name = "stop"
  BY DEF GoThenStops
<1>1. \A j \in 1..Len(t) : (s \o t)[Len(s) + j].name = "stop"
  BY WriteIs DEF OnlyStops
<1>2. k \in 1..Len(s) /\ (s \o t)[k] = s[k]
  BY <1>1, WriteIs
<1>3. ASSUME NEW j \in 1..Len(s \o t), j > k PROVE (s \o t)[j].name = "stop"
  <2>1. CASE j \in 1..Len(s)
    BY <1>2, <1>3, <2>1, WriteIs DEF GoThenStops
  <2>2. CASE j \notin 1..Len(s)
    BY <1>1, <2>2, WriteIs
  <2> QED
    BY <2>1, <2>2
<1> QED
  BY <1>2, <1>3 DEF GoThenStops

LEMMA GoRead ==
    ASSUME NEW s \in Seq(Message), s # <<>>, NEW n, GoThenStops(s, n)
    PROVE  /\ GoThenStops(Tail(s), n)
           /\ Head(s).name = "go" => Head(s).go = n /\ OnlyStops(Tail(s))
<1>1. GoThenStops(Tail(s), n)
  <2> SUFFICES ASSUME NEW k \in 1..Len(Tail(s)), Tail(s)[k].name = "go"
               PROVE  /\ Tail(s)[k].go = n
                      /\ \A j \in 1..Len(Tail(s)) : j > k => Tail(s)[j].name = "stop"
    BY DEF GoThenStops
  <2>1. k + 1 \in 1..Len(s) /\ Tail(s)[k] = s[k + 1]
    BY ReadIs
  <2>2. ASSUME NEW j \in 1..Len(Tail(s)), j > k PROVE Tail(s)[j].name = "stop"
    <3>1. j + 1 \in 1..Len(s) /\ Tail(s)[j] = s[j + 1] /\ j + 1 > k + 1
      BY <2>2, ReadIs
    <3> QED
      BY <2>1, <3>1 DEF GoThenStops
  <2> QED
    BY <2>1, <2>2 DEF GoThenStops
<1>2. ASSUME Head(s).name = "go" PROVE Head(s).go = n /\ OnlyStops(Tail(s))
  <2>1. 1 \in 1..Len(s) /\ Head(s) = s[1]
    BY ReadIs
  <2>2. Head(s).go = n /\ \A j \in 1..Len(s) : j > 1 => s[j].name = "stop"
    BY <1>2, <2>1 DEF GoThenStops
  <2>3. ASSUME NEW j \in 1..Len(Tail(s)) PROVE Tail(s)[j].name = "stop"
    <3>1. j + 1 \in 1..Len(s) /\ Tail(s)[j] = s[j + 1] /\ j + 1 > 1
      BY ReadIs
    <3> QED
      BY <2>2, <3>1
  <2> QED
    BY <2>2, <2>3 DEF OnlyStops
<1> QED
  BY <1>1, <1>2

LEMMA OnlyStopsIs ==
    ASSUME NEW s \in Seq(Message), NEW n, OnlyStops(s)
    PROVE  GoThenStops(s, n) /\ NoneOf(s, "go")
BY DEF OnlyStops, GoThenStops, NoneOf

LEMMA BestmoveWrite ==
    ASSUME NEW s \in Seq(Message), NEW t \in Seq(Message), NEW n,
           NoneOf(s, "bestmove"), Len(t) = 1, t[1].go = n
    PROVE  OneBestmove(s \o t, n)
<1> SUFFICES ASSUME NEW k \in 1..Len(s \o t), (s \o t)[k].name = "bestmove"
             PROVE  /\ (s \o t)[k].go = n
                    /\ \A j \in 1..Len(s \o t) : (s \o t)[j].name = "bestmove" => j = k
  BY DEF OneBestmove
<1>1. ASSUME NEW j \in 1..Len(s \o t), (s \o t)[j].name = "bestmove"
      PROVE  j = Len(s) + 1 /\ (s \o t)[j] = t[1]
  <2>1. j \notin 1..Len(s)
    BY <1>1, WriteIs DEF NoneOf
  <2>2. PICK i \in 1..Len(t) : j = Len(s) + i
    BY <2>1, WriteIs
  <2> QED
    BY <2>2, WriteIs
<1> QED
  BY <1>1

LEMMA LineWrite ==
    ASSUME NEW s \in Seq(Message), NEW t \in Seq(Message), NEW n,
           OneBestmove(s, n), NoneOf(t, "bestmove")
    PROVE  OneBestmove(s \o t, n)
<1> SUFFICES ASSUME NEW k \in 1..Len(s \o t), (s \o t)[k].name = "bestmove"
             PROVE  /\ (s \o t)[k].go = n
                    /\ \A j \in 1..Len(s \o t) : (s \o t)[j].name = "bestmove" => j = k
  BY DEF OneBestmove
<1>1. ASSUME NEW j \in 1..Len(s \o t), (s \o t)[j].name = "bestmove"
      PROVE  j \in 1..Len(s) /\ (s \o t)[j] = s[j]
  <2>1. ASSUME NEW i \in 1..Len(t), j = Len(s) + i PROVE FALSE
    BY <1>1, <2>1, WriteIs DEF NoneOf
  <2> QED
    BY <2>1, WriteIs
<1> QED
  BY <1>1 DEF OneBestmove

LEMMA BestmoveRead ==
    ASSUME NEW s \in Seq(Message), s # <<>>, NEW n, OneBestmove(s, n)
    PROVE  /\ OneBestmove(Tail(s), n)
           /\ Head(s).name = "bestmove" => Head(s).go = n /\ NoneOf(Tail(s), "bestmove")
<1>1. ASSUME NEW k \in 1..Len(Tail(s)) PROVE k + 1 \in 1..Len(s) /\ Tail(s)[k] = s[k + 1]
  BY ReadIs
<1>2. OneBestmove(Tail(s), n)
  <2> SUFFICES ASSUME NEW k \in 1..Len(Tail(s)), Tail(s)[k].name = "bestmove"
               PROVE  /\ Tail(s)[k].go = n
                      /\ \A j \in 1..Len(Tail(s)) : Tail(s)[j].name = "bestmove" => j = k
    BY DEF OneBestmove
  <2>1. ASSUME NEW j \in 1..Len(Tail(s)), Tail(s)[j].name = "bestmove" PROVE j = k
    <3>1. s[j + 1].name = "bestmove" /\ s[k + 1].name = "bestmove"
      BY <1>1, <2>1
    <3>2. j + 1 = k + 1
      BY <1>1, <3>1 DEF OneBestmove
    <3> QED
      BY <3>2
  <2> QED
    BY <1>1, <2>1 DEF OneBestmove
<1>3. ASSUME Head(s).name = "bestmove"
      PROVE  Head(s).go = n /\ NoneOf(Tail(s), "bestmove")
  <2>1. 1 \in 1..Len(s) /\ Head(s) = s[1]
    BY ReadIs
  <2>2. ASSUME NEW j \in 1..Len(Tail(s)), Tail(s)[j].name = "bestmove" PROVE FALSE
    <3>1. j + 1 = 1
      BY <1>1, <1>3, <2>1, <2>2 DEF OneBestmove
    <3> QED
      BY <3>1
  <2> QED
    BY <1>3, <2>1, <2>2 DEF OneBestmove, NoneOf
<1> QED
  BY <1>2, <1>3
-----------------------------------------------------------------------------
LEMMA DialogueInit == Init => DInv
<1> SUFFICES ASSUME Init PROVE DInv
  OBVIOUS
<1>1. Typed
  <2>1. <<>> \in Seq(Message)
    BY EmptySeq
  <2> QED
    BY <2>1 DEF Init, Typed, Place, Engine
<1>2. Searches
  <2>1. Len(<<>>) = 0
    OBVIOUS
  <2> QED
    BY <2>1 DEF Init, Searches, Waiting, Quiet, NoneOf, Engine
<1>3. Answered /\ EveryWaitGuarded
  BY DEF Init, Answered, EveryWaitGuarded, Reading, None
<1> QED
  BY <1>1, <1>2, <1>3 DEF DInv

\* The commands and lines that are written.
LEMMA Messages ==
    /\ \A name \in Word : Cmd(name) \in Message /\ Line(name) \in Message
    /\ \A n \in Nat : GoCmd(n) \in Message /\ Bestmove(n) \in Message
BY DEF Cmd, Line, GoCmd, Bestmove, Message, Word

\* One command or two, none of them a go.
LEMMA OneCommand ==
    ASSUME NEW a \in Word, a # "go"
    PROVE  <<Cmd(a)>> \in Seq(Message) /\ NoneOf(<<Cmd(a)>>, "go")
<1>1. Cmd(a) \in Message /\ Cmd(a).name = a
  BY Messages DEF Cmd
<1> QED
  BY <1>1 DEF NoneOf

LEMMA TwoCommands ==
    ASSUME NEW a \in Word, NEW b \in Word, a # "go", b # "go"
    PROVE  <<Cmd(a), Cmd(b)>> \in Seq(Message) /\ NoneOf(<<Cmd(a), Cmd(b)>>, "go")
<1>1. Cmd(a) \in Message /\ Cmd(a).name = a /\ Cmd(b) \in Message /\ Cmd(b).name = b
  BY Messages DEF Cmd
<1> QED
  BY <1>1 DEF NoneOf

-----------------------------------------------------------------------------
(* The worker.                                                             *)

\* The pipes of the engine that the worker talks to.
Writes(cmds) ==
    toEngine' = toEngine \/ toEngine' = [toEngine EXCEPT ![e] = @ \o cmds]
Reads ==
    \/ fromEngine' = fromEngine
    \/ /\ fromEngine[e] # <<>>
       /\ fromEngine' = [fromEngine EXCEPT ![e] = Tail(@)]

LEMMA PipesTyped ==
    ASSUME Typed, NEW cmds \in Seq(Message), Writes(cmds), Reads
    PROVE  /\ toEngine' \in [Engine -> Seq(Message)]
           /\ fromEngine' \in [Engine -> Seq(Message)]
           /\ \A i \in Engine :
                 /\ \/ toEngine'[i] = toEngine[i]
                    \/ i = e /\ toEngine'[i] = toEngine[i] \o cmds
                 /\ \/ fromEngine'[i] = fromEngine[i]
                    \/ i = e /\ fromEngine[i] # <<>> /\ fromEngine'[i] = Tail(fromEngine[i])
<1>1. /\ toEngine[e] \o cmds \in Seq(Message)
      /\ fromEngine[e] # <<>> => Tail(fromEngine[e]) \in Seq(Message)
  BY WriteIs, ReadIs DEF Typed
<1>2. toEngine' \in [Engine -> Seq(Message)]
  BY <1>1 DEF Typed, Writes
<1>3. fromEngine' \in [Engine -> Seq(Message)]
  BY <1>1 DEF Typed, Reads
<1>4. \A i \in Engine :
        \/ toEngine'[i] = toEngine[i]
        \/ i = e /\ toEngine'[i] = toEngine[i] \o cmds
  <2>1. CASE toEngine' = toEngine
    BY <2>1
  <2>2. CASE toEngine' = [toEngine EXCEPT ![e] = @ \o cmds]
    BY <2>2 DEF Typed
  <2> QED
    BY <2>1, <2>2 DEF Writes
<1>5. \A i \in Engine :
        \/ fromEngine'[i] = fromEngine[i]
        \/ i = e /\ fromEngine[i] # <<>> /\ fromEngine'[i] = Tail(fromEngine[i])
  BY DEF Typed, Reads
<1> QED
  BY <1>2, <1>3, <1>4, <1>5

\* As long as the worker waits for no search and starts none, there is none.
LEMMA QuietStep ==
    ASSUME Typed, Searches, pc # "dead", ~Waiting, ~Waiting',
           NEW cmds \in Seq(Message), NoneOf(cmds, "go"), Writes(cmds), Reads,
           \A i \in Engine : eng'[i] = "thinking" => eng[i] = "thinking"
    PROVE  Searches'
<1> SUFFICES ASSUME NEW i \in Engine PROVE Quiet(i)'
  BY DEF Searches
<1>1. Quiet(i)
  BY DEF Searches
<1>2. NoneOf(toEngine'[i], "go")
  BY <1>1, PipesTyped, NoneOfWrite DEF Quiet, Typed
<1>3. NoneOf(fromEngine'[i], "bestmove")
  <2>1. fromEngine[i] \in Seq(Message) /\ NoneOf(fromEngine[i], "bestmove")
    BY <1>1 DEF Quiet, Typed
  <2>2. \/ fromEngine'[i] = fromEngine[i]
        \/ fromEngine[i] # <<>> /\ fromEngine'[i] = Tail(fromEngine[i])
    BY PipesTyped
  <2> QED
    BY <2>1, <2>2, NoneOfRead
<1> QED
  BY <1>1, <1>2, <1>3 DEF Quiet

LEMMA SeatStep == DInv /\ (KeepEngine \/ ReplaceEngine) => DInv'
<1> SUFFICES ASSUME DInv, KeepEngine \/ ReplaceEngine PROVE DInv'
  OBVIOUS
<1>1. Typed /\ Searches /\ EveryWaitGuarded /\ <<>> \in Seq(Message) /\ NoneOf(<<>>, "go")
  BY EmptySeq DEF DInv, NoneOf
<1>2. /\ pc = "seat" /\ pc' \in {"seat", "newgame", "quit"} /\ e' \in Engine
      /\ next' \in {next, "seat"} /\ UNCHANGED <<deadline, engines, gos, answer>>
      /\ UNCHANGED <<toEngine, fromEngine>>
  BY <1>1 DEF KeepEngine, ReplaceEngine, Goto, Engine, engines, Typed
<1>3. Typed'
  BY <1>1, <1>2 DEF Typed, Place, engines
<1>4. Searches'
  BY <1>1, <1>2, QuietStep DEF Writes, Reads, Waiting, engines
<1>5. Answered' /\ EveryWaitGuarded'
  BY <1>1, <1>2 DEF Answered, EveryWaitGuarded, Reading
<1> QED
  BY <1>3, <1>4, <1>5 DEF DInv

LEMMA InitEngineStep == DInv /\ engine_init => DInv'
<1> SUFFICES ASSUME DInv, engine_init PROVE DInv'
  OBVIOUS
<1>1. Typed /\ Searches /\ EveryWaitGuarded
  BY DEF DInv
<1>2. /\ pc = "seat" /\ pc' = "uciok" /\ deadline' = e /\ e' = e
      /\ UNCHANGED <<next, searching, gos, answer>>
      /\ toEngine' = [toEngine EXCEPT ![e] = <<Cmd("uci")>>]
      /\ fromEngine' = [fromEngine EXCEPT ![e] = <<>>]
      /\ eng' = [eng EXCEPT ![e] = "idle"]
  BY DEF engine_init, Goto, deadline_set
<1>3. <<Cmd("uci")>> \in Seq(Message) /\ <<>> \in Seq(Message)
      /\ NoneOf(<<Cmd("uci")>>, "go") /\ NoneOf(<<>>, "bestmove")
  BY OneCommand, EmptySeq DEF NoneOf, Word
<1>4. Typed'
  <2>1. /\ toEngine' \in [Engine -> Seq(Message)] /\ fromEngine' \in [Engine -> Seq(Message)]
        /\ eng' \in [Engine -> {"none", "idle", "thinking", "gone"}]
    BY <1>1, <1>2, <1>3 DEF Typed
  <2> QED
    BY <1>1, <1>2, <2>1 DEF Typed, Place
<1>5. Searches'
  <2> SUFFICES ASSUME NEW i \in Engine PROVE Quiet(i)'
    BY <1>2 DEF Searches, Waiting
  <2>1. Quiet(i)
    BY <1>1, <1>2 DEF Searches, Waiting
  <2> QED
    BY <1>1, <1>2, <1>3, <2>1 DEF Quiet, Typed
<1>6. Answered' /\ EveryWaitGuarded'
  BY <1>2 DEF Answered, EveryWaitGuarded, Reading
<1> QED
  BY <1>4, <1>5, <1>6 DEF DInv

LEMMA UciokStep == DInv /\ ReadUciok => DInv'
<1> SUFFICES ASSUME DInv, ReadUciok PROVE DInv'
  OBVIOUS
<1> DEFINE cmds == <<Cmd("setoption")>>
<1>1. Typed /\ Searches /\ EveryWaitGuarded
  BY DEF DInv
<1>2. cmds \in Seq(Message) /\ NoneOf(cmds, "go")
  BY OneCommand DEF Word
<1> HIDE DEF cmds
<1>3. /\ pc = "uciok" /\ e' \in Engine /\ Writes(cmds) /\ Reads
      /\ UNCHANGED <<next, engines, gos, answer>>
      /\ \/ pc' = "uciok" /\ e' = e /\ deadline' = deadline
         \/ pc' \in {"seat", "newgame"} /\ deadline' = None
  BY <1>1 DEF ReadUciok, Goto, Engine, Typed, deadline_clear, engine_writeln,
     engine_readln, Writes, Reads, cmds
<1>4. Typed'
  BY <1>1, <1>2, <1>3, PipesTyped DEF Typed, Place, engines
<1>5. Searches'
  BY <1>1, <1>2, <1>3, QuietStep DEF Waiting, engines
<1>6. Answered' /\ EveryWaitGuarded'
  BY <1>1, <1>3 DEF Answered, EveryWaitGuarded, Reading
<1> QED
  BY <1>4, <1>5, <1>6 DEF DInv

LEMMA QuitStep == DInv /\ SendQuit => DInv'
<1> SUFFICES ASSUME DInv, SendQuit PROVE DInv'
  OBVIOUS
<1> DEFINE cmds == <<Cmd("quit")>>
<1>1. Typed /\ Searches /\ EveryWaitGuarded
  BY DEF DInv
<1>2. cmds \in Seq(Message) /\ NoneOf(cmds, "go")
  BY OneCommand DEF Word
<1> HIDE DEF cmds
<1>3. /\ pc = "quit" /\ pc' = "waitpid" /\ e' = e /\ deadline' = e /\ Writes(cmds) /\ Reads
      /\ UNCHANGED <<next, engines, gos, answer>>
  BY DEF SendQuit, Goto, deadline_set, engine_writeln, Writes, Reads, cmds
<1>4. Typed'
  BY <1>1, <1>2, <1>3, PipesTyped DEF Typed, Place, engines
<1>5. Searches'
  BY <1>1, <1>2, <1>3, QuietStep DEF Waiting, engines
<1>6. Answered' /\ EveryWaitGuarded'
  BY <1>3 DEF Answered, EveryWaitGuarded, Reading
<1> QED
  BY <1>4, <1>5, <1>6 DEF DInv

LEMMA WaitpidStep == DInv /\ Waitpid => DInv'
<1> SUFFICES ASSUME DInv, Waitpid PROVE DInv'
  OBVIOUS
<1>1. Typed /\ Searches /\ <<>> \in Seq(Message) /\ NoneOf(<<>>, "go")
  BY EmptySeq DEF DInv, NoneOf
<1>2. /\ pc = "waitpid" /\ pc' \in {"seat", "quit", "end"} /\ e' \in Engine
  BY <1>1 DEF Waitpid, Goto, Typed, Engine
<1>3. /\ deadline' = None /\ eng' = [eng EXCEPT ![e] = "none"]
      /\ UNCHANGED <<next, toEngine, fromEngine, searching, gos, answer>>
  BY DEF Waitpid, deadline_clear
<1>4. Typed'
  <2>1. eng' \in [Engine -> {"none", "idle", "thinking", "gone"}]
    BY <1>1, <1>3 DEF Typed
  <2> QED
    BY <1>1, <1>2, <1>3, <2>1 DEF Typed, Place
<1>5. Searches'
  <2>1. \A i \in Engine : eng'[i] = "thinking" => eng[i] = "thinking"
    BY <1>1, <1>3 DEF Typed
  <2> QED
    BY <1>1, <1>2, <1>3, <2>1, QuietStep DEF Writes, Reads, Waiting
<1>6. Answered' /\ EveryWaitGuarded'
  BY <1>2, <1>3 DEF Answered, EveryWaitGuarded, Reading
<1> QED
  BY <1>4, <1>5, <1>6 DEF DInv

LEMMA NewGameStep == DInv /\ NewGame => DInv'
<1> SUFFICES ASSUME DInv, NewGame PROVE DInv'
  OBVIOUS
<1> DEFINE cmds == <<Cmd("ucinewgame"), Cmd("isready")>>
<1>1. Typed /\ Searches /\ EveryWaitGuarded
  BY DEF DInv
<1>2. cmds \in Seq(Message) /\ NoneOf(cmds, "go")
  BY TwoCommands DEF Word
<1> HIDE DEF cmds
<1>3. /\ pc = "newgame" /\ pc' = "readyok" /\ e' = e /\ deadline' = e
      /\ next' \in {"newgame", "rules"} /\ Writes(cmds) /\ Reads
      /\ UNCHANGED <<engines, gos, answer>>
  BY DEF NewGame, Goto, deadline_set, engine_writeln, Writes, Reads, cmds
<1>4. Typed'
  BY <1>1, <1>2, <1>3, PipesTyped DEF Typed, Place, engines
<1>5. Searches'
  BY <1>1, <1>2, <1>3, QuietStep DEF Waiting, engines
<1>6. Answered' /\ EveryWaitGuarded'
  BY <1>3 DEF Answered, EveryWaitGuarded, Reading
<1> QED
  BY <1>4, <1>5, <1>6 DEF DInv

LEMMA ReadyokStep == DInv /\ ReadReadyok => DInv'
<1> SUFFICES ASSUME DInv, ReadReadyok PROVE DInv'
  OBVIOUS
<1>1. /\ Typed /\ Searches /\ EveryWaitGuarded
      /\ <<>> \in Seq(Message) /\ NoneOf(<<>>, "go")
  BY EmptySeq DEF DInv, NoneOf
<1>2. /\ pc = "readyok" /\ e' \in Engine /\ Reads
      /\ UNCHANGED <<next, toEngine, engines, gos, answer>>
      /\ \/ pc' = "readyok" /\ e' = e /\ deadline' = deadline
         \/ pc' \in {"newgame", "rules", "go"} /\ deadline' = None
  BY <1>1 DEF ReadReadyok, Goto, Engine, Typed, deadline_clear, engine_readln, Reads
<1>3. Writes(<<>>)
  BY <1>2 DEF Writes
<1>4. Typed'
  BY <1>1, <1>2, <1>3, PipesTyped DEF Typed, Place, engines
<1>5. Searches'
  BY <1>1, <1>2, <1>3, QuietStep DEF Waiting, engines
<1>6. Answered' /\ EveryWaitGuarded'
  BY <1>1, <1>2 DEF Answered, EveryWaitGuarded, Reading
<1> QED
  BY <1>4, <1>5, <1>6 DEF DInv

LEMMA PositionStep == DInv /\ Position => DInv'
<1> SUFFICES ASSUME DInv, Position PROVE DInv'
  OBVIOUS
<1> DEFINE cmds == <<Cmd("position"), Cmd("isready")>>
<1>1. Typed /\ Searches /\ EveryWaitGuarded
  BY DEF DInv
<1>2. cmds \in Seq(Message) /\ NoneOf(cmds, "go")
  BY TwoCommands DEF Word
<1> HIDE DEF cmds
<1>3. /\ pc = "rules" /\ e' = e /\ Writes(cmds) /\ Reads
      /\ UNCHANGED <<engines, gos, answer>>
      /\ \/ pc' = "over" /\ UNCHANGED <<next, deadline>>
         \/ pc' = "readyok" /\ next' = "go" /\ deadline' = e
  BY DEF Position, Goto, deadline_set, engine_writeln, Writes, Reads, cmds
<1>4. Typed'
  BY <1>1, <1>2, <1>3, PipesTyped DEF Typed, Place, engines
<1>5. Searches'
  BY <1>1, <1>2, <1>3, QuietStep DEF Waiting, engines
<1>6. Answered' /\ EveryWaitGuarded'
  BY <1>1, <1>3 DEF Answered, EveryWaitGuarded, Reading
<1> QED
  BY <1>4, <1>5, <1>6 DEF DInv

LEMMA MovedStep == DInv /\ (Moved \/ GameOver) => DInv'
<1> SUFFICES ASSUME DInv, Moved \/ GameOver PROVE DInv'
  OBVIOUS
<1>1. /\ Typed /\ Searches /\ EveryWaitGuarded
      /\ <<>> \in Seq(Message) /\ NoneOf(<<>>, "go")
  BY EmptySeq DEF DInv, NoneOf
<1>2. /\ pc \in {"moved", "over"} /\ pc' \in {"over", "rules", "seat", "quit"}
      /\ e' \in Engine /\ next' \in {next, "seat", "quit"}
      /\ UNCHANGED <<deadline, toEngine, fromEngine, engines, gos, answer>>
  BY <1>1 DEF Moved, GameOver, Goto, Engine, Typed
<1>3. Typed'
  BY <1>1, <1>2 DEF Typed, Place, engines
<1>4. Searches'
  BY <1>1, <1>2, QuietStep DEF Writes, Reads, Waiting, engines
<1>5. Answered' /\ EveryWaitGuarded'
  BY <1>1, <1>2 DEF Answered, EveryWaitGuarded, Reading
<1> QED
  BY <1>3, <1>4, <1>5 DEF DInv
\* A search begins: there is no other one, neither of this engine nor of the other.
LEMMA GoStep == DInv /\ Go => DInv'
<1> SUFFICES ASSUME DInv, Go PROVE DInv'
  OBVIOUS
<1> DEFINE cmds == <<GoCmd(gos + 1)>>
<1>1. Typed /\ Searches /\ EveryWaitGuarded /\ gos + 1 \in Nat
  BY DEF DInv, Typed
<1>2. cmds \in Seq(Message) /\ Len(cmds) = 1 /\ cmds[1].go = gos + 1
  <2>1. GoCmd(gos + 1) \in Message /\ GoCmd(gos + 1).go = gos + 1
    BY <1>1, Messages DEF GoCmd
  <2> QED
    BY <2>1
<1> HIDE DEF cmds
<1>3. /\ pc = "go" /\ pc' = "bestmove" /\ e' = e /\ deadline' = e /\ gos' = gos + 1
      /\ toEngine' = [toEngine EXCEPT ![e] = @ \o cmds]
      /\ UNCHANGED <<next, fromEngine, eng, searching, answer>>
  BY DEF Go, Goto, deadline_set, engine_writeln, engines, cmds
<1>4. Typed'
  <2>1. Writes(cmds) /\ Reads
    BY <1>3 DEF Writes, Reads
  <2> QED
    BY <1>1, <1>2, <1>3, <2>1, PipesTyped DEF Typed, Place
<1>5. Searches'
  <2>1. \A i \in Engine : Quiet(i)
    BY <1>1, <1>3 DEF Searches, Waiting
  <2>2. ASSUME NEW i \in Engine, i # e PROVE Quiet(i)'
    BY <1>1, <1>3, <2>1, <2>2 DEF Quiet, Typed
  <2>3. OneSearch(e)'
    <3>1. Quiet(e) /\ toEngine[e] \in Seq(Message)
      BY <1>1, <2>1 DEF Typed
    <3>2. toEngine'[e] = toEngine[e] \o cmds /\ fromEngine'[e] = fromEngine[e]
      BY <1>1, <1>3 DEF Typed
    <3>3. GoThenStops(toEngine'[e], gos')
      BY <1>2, <1>3, <3>1, <3>2, GoWrite DEF Quiet
    <3>4. NoneOf(fromEngine'[e], "bestmove") /\ OneBestmove(fromEngine'[e], gos')
      BY <3>1, <3>2 DEF Quiet, NoneOf, OneBestmove
    <3>5. eng'[e] # "thinking"
      BY <1>3, <3>1 DEF Quiet
    <3> QED
      BY <1>3, <3>3, <3>4, <3>5 DEF OneSearch
  <2> QED
    BY <1>3, <2>2, <2>3 DEF Searches, Waiting
<1>6. Answered' /\ EveryWaitGuarded'
  BY <1>3 DEF Answered, EveryWaitGuarded, Reading
<1> QED
  BY <1>4, <1>5, <1>6 DEF DInv

\* The worker takes a line while it waits for the end of a search: a bestmove is
\* the only one, and after it the engine is quiet.
LEMMA SearchRead ==
    ASSUME Typed, Searches, Waiting, fromEngine[e] # <<>>
    PROVE  /\ Head(fromEngine[e]).name = "bestmove" =>
                 /\ Head(fromEngine[e]).go = gos
                 /\ NoneOf(toEngine[e], "go") /\ eng[e] # "thinking"
                 /\ NoneOf(Tail(fromEngine[e]), "bestmove")
           /\ OneBestmove(Tail(fromEngine[e]), gos)
           /\ NoneOf(fromEngine[e], "bestmove") => NoneOf(Tail(fromEngine[e]), "bestmove")
           /\ OneSearch(e) /\ \A i \in Engine : i # e => Quiet(i)
<1>1. OneSearch(e) /\ \A i \in Engine : i # e => Quiet(i)
  BY DEF Searches, Typed, Waiting
<1>2. fromEngine[e] \in Seq(Message)
  BY DEF Typed
<1>3. /\ OneBestmove(Tail(fromEngine[e]), gos)
      /\ Head(fromEngine[e]).name = "bestmove" =>
            /\ Head(fromEngine[e]).go = gos
            /\ NoneOf(Tail(fromEngine[e]), "bestmove")
  BY <1>1, <1>2, BestmoveRead DEF OneSearch
<1>4. NoneOf(fromEngine[e], "bestmove") =>
        NoneOf(Tail(fromEngine[e]), "bestmove") /\ Head(fromEngine[e]).name # "bestmove"
  BY <1>2, NoneOfRead
<1>5. Head(fromEngine[e]).name = "bestmove" =>
        NoneOf(toEngine[e], "go") /\ eng[e] # "thinking"
  BY <1>1, <1>4 DEF OneSearch
<1> QED
  BY <1>1, <1>3, <1>4, <1>5

\* A line other than the bestmove is dropped, or the bestmove ends the wait.
LEMMA SearchReadStep ==
    ASSUME Typed, Searches, Waiting, fromEngine[e] # <<>>,
           fromEngine' = [fromEngine EXCEPT ![e] = Tail(@)],
           UNCHANGED <<e, toEngine, eng, searching, gos>>,
           IF Read = "bestmove" THEN ~Waiting' ELSE Waiting'
    PROVE  Searches'
<1>1. /\ fromEngine'[e] = Tail(fromEngine[e])
      /\ \A i \in Engine : i # e => fromEngine'[i] = fromEngine[i]
  BY DEF Typed
<1>2. \A i \in Engine : i # e => Quiet(i)'
  BY <1>1, SearchRead DEF Quiet
<1>3. CASE Read = "bestmove"
  <2>1. Quiet(e)'
    BY <1>1, <1>3, SearchRead DEF Quiet, Read
  <2> QED
    BY <1>2, <1>3, <2>1 DEF Searches
<1>4. CASE Read # "bestmove"
  <2>1. OneSearch(e)'
    BY <1>1, SearchRead DEF OneSearch
  <2> QED
    BY <1>2, <1>4, <2>1 DEF Searches
<1> QED
  BY <1>3, <1>4

LEMMA BestmoveStep == DInv /\ (ReadBestmove \/ DrainBestmove) => DInv'
<1> SUFFICES ASSUME DInv, ReadBestmove \/ DrainBestmove PROVE DInv'
  OBVIOUS
<1>1. /\ Typed /\ Searches /\ EveryWaitGuarded
      /\ <<>> \in Seq(Message)
  BY EmptySeq DEF DInv
<1>2. /\ Waiting /\ fromEngine[e] # <<>>
      /\ fromEngine' = [fromEngine EXCEPT ![e] = Tail(@)]
      /\ UNCHANGED <<e, next, toEngine, eng, searching, gos>>
      /\ IF Read = "bestmove" THEN deadline' = None /\ pc' \in {"moved", "over"}
         ELSE UNCHANGED <<pc, deadline>>
      /\ answer' = answer \/ answer' = Head(fromEngine[e]).go
      /\ pc' = "moved" => Read = "bestmove" /\ answer' = Head(fromEngine[e]).go
  BY DEF ReadBestmove, DrainBestmove, Drained, Goto, deadline_clear, engine_readln,
     engines, Waiting
<1>3. Searches'
  BY <1>1, <1>2, SearchReadStep DEF Waiting
<1>4. Typed'
  <2>1. Writes(<<>>) /\ Reads
    BY <1>2 DEF Writes, Reads
  <2>2. /\ toEngine' \in [Engine -> Seq(Message)] /\ fromEngine' \in [Engine -> Seq(Message)]
    BY <1>1, <2>1, PipesTyped
  <2>3. answer' \in Nat
    <3>1. Head(fromEngine[e]) \in Message
      BY <1>1, <1>2, ReadIs DEF Typed
    <3> QED
      BY <1>1, <1>2, <3>1 DEF Typed, Message
  <2>4. pc' \in Place /\ (pc' = "readyok" => pc = "readyok")
    BY <1>1, <1>2 DEF Typed, Place
  <2> QED
    BY <1>1, <1>2, <2>2, <2>3, <2>4 DEF Typed
<1>5. Answered'
  BY <1>1, <1>2, SearchRead DEF Answered, Read
<1>6. EveryWaitGuarded'
  BY <1>1, <1>2 DEF EveryWaitGuarded, Reading, Waiting
<1> QED
  BY <1>3, <1>4, <1>5, <1>6 DEF DInv

\* A stop comes after the go that it is for, if that is still to be read.
LEMMA StopStep == DInv /\ SendStop => DInv'
<1> SUFFICES ASSUME DInv, SendStop PROVE DInv'
  OBVIOUS
<1> DEFINE cmds == <<Cmd("stop")>>
<1>1. Typed /\ Searches /\ EveryWaitGuarded
  BY DEF DInv
<1>2. cmds \in Seq(Message) /\ NoneOf(cmds, "go") /\ OnlyStops(cmds)
  <2>1. cmds \in Seq(Message) /\ NoneOf(cmds, "go")
    BY OneCommand DEF Word
  <2>2. OnlyStops(cmds)
    BY DEF OnlyStops, Cmd
  <2> QED
    BY <2>1, <2>2
<1> HIDE DEF cmds
<1>3. /\ pc = "bestmove" /\ pc' = "stopped" /\ fromEngine[e] # <<>>
      /\ toEngine' = [toEngine EXCEPT ![e] = @ \o cmds]
      /\ fromEngine' = [fromEngine EXCEPT ![e] = Tail(@)]
      /\ UNCHANGED <<e, next, deadline, eng, searching, gos, answer>>
  BY DEF SendStop, Goto, engine_writeln, engine_readln, engines, cmds
<1>4. Typed'
  <2>1. Writes(cmds) /\ Reads
    BY <1>3 DEF Writes, Reads
  <2> QED
    BY <1>1, <1>2, <1>3, <2>1, PipesTyped DEF Typed, Place
<1>5. Searches'
  <2>1. /\ OneSearch(e) /\ \A i \in Engine : i # e => Quiet(i)
        /\ OneBestmove(Tail(fromEngine[e]), gos)
        /\ NoneOf(fromEngine[e], "bestmove") => NoneOf(Tail(fromEngine[e]), "bestmove")
    BY <1>1, <1>3, SearchRead DEF Waiting
  <2>2. ASSUME NEW i \in Engine, i # e PROVE Quiet(i)'
    BY <1>1, <1>3, <2>1, <2>2 DEF Quiet, Typed
  <2>3. /\ toEngine'[e] = toEngine[e] \o cmds /\ fromEngine'[e] = Tail(fromEngine[e])
        /\ toEngine[e] \in Seq(Message)
    BY <1>1, <1>3 DEF Typed
  <2>4. GoThenStops(toEngine'[e], gos)
    BY <1>2, <2>1, <2>3, StopWrite DEF OneSearch
  <2>5. NoneOf(toEngine'[e], "go") \/ NoneOf(fromEngine'[e], "bestmove")
    BY <1>2, <2>1, <2>3, NoneOfWrite DEF OneSearch
  <2>6. eng[e] = "thinking" =>
          OnlyStops(toEngine'[e]) /\ NoneOf(fromEngine'[e], "bestmove")
    BY <1>2, <2>1, <2>3, OnlyStopsWrite DEF OneSearch
  <2>7. OneSearch(e)'
    BY <1>3, <2>1, <2>3, <2>4, <2>5, <2>6 DEF OneSearch
  <2> QED
    BY <1>3, <2>2, <2>7 DEF Searches, Waiting
<1>6. Answered' /\ EveryWaitGuarded'
  BY <1>1, <1>3 DEF Answered, EveryWaitGuarded, Reading
<1> QED
  BY <1>4, <1>5, <1>6 DEF DInv

\* DIE, or a signal: the process is at its end.
LEMMA DeadStep == DInv /\ (ParseFails \/ EndOfFile \/ BrokenPipe) => DInv'
<1> SUFFICES ASSUME DInv, ParseFails \/ EndOfFile \/ BrokenPipe PROVE DInv'
  OBVIOUS
<1>1. Typed /\ EveryWaitGuarded /\ <<>> \in Seq(Message)
  BY EmptySeq DEF DInv
<1>2. /\ pc' = "dead" /\ Reads /\ Writes(<<>>)
      /\ UNCHANGED <<e, next, eng, searching, gos, answer>>
  BY DEF ParseFails, EndOfFile, BrokenPipe, Goto, engine_readln, Reads, Writes, engines
<1>3. Typed'
  BY <1>1, <1>2, PipesTyped DEF Typed, Place
<1>4. Searches' /\ Answered' /\ EveryWaitGuarded'
  BY <1>2 DEF Searches, Answered, EveryWaitGuarded, Reading
<1> QED
  BY <1>3, <1>4 DEF DInv
-----------------------------------------------------------------------------
(* The engines.                                                            *)

\* A step of engine i leaves the worker and the other engine as they are.
LEMMA EngineStep ==
    ASSUME DInv, pc # "dead", NEW i \in Engine, UNCHANGED <<dialogue, gos, answer>>,
           NEW t \in Seq(Message), toEngine' = [toEngine EXCEPT ![i] = t],
           NEW f \in Seq(Message), fromEngine' = [fromEngine EXCEPT ![i] = f],
           NEW s \in {"none", "idle", "thinking", "gone"}, eng' = [eng EXCEPT ![i] = s],
           NEW n \in Nat, searching' = [searching EXCEPT ![i] = n],
           Quiet(i) => Quiet(i)', OneSearch(i) => OneSearch(i)'
    PROVE  DInv'
<1>1. Typed /\ Searches /\ Answered /\ EveryWaitGuarded
  BY DEF DInv
<1>2. UNCHANGED <<pc, e, next, deadline, gos, answer>>
  BY DEF dialogue
<1>3. Typed'
  BY <1>1, <1>2 DEF Typed
<1>4. Searches'
  <2>1. ASSUME NEW j \in Engine, j # i
        PROVE  (Quiet(j) => Quiet(j)') /\ (OneSearch(j) => OneSearch(j)')
    <3>1. /\ toEngine'[j] = toEngine[j] /\ fromEngine'[j] = fromEngine[j]
          /\ eng'[j] = eng[j] /\ searching'[j] = searching[j]
      BY <1>1, <2>1 DEF Typed
    <3> QED
      BY <1>2, <3>1 DEF Quiet, OneSearch
  <2> QED
    BY <1>1, <1>2, <2>1 DEF Searches, Waiting
<1>5. Answered' /\ EveryWaitGuarded'
  BY <1>1, <1>2 DEF Answered, EveryWaitGuarded, Reading
<1> QED
  BY <1>3, <1>4, <1>5 DEF DInv

\* The answers to a command: one line or two, no bestmove.
LEMMA Answers ==
    /\ <<Line("id"), Line("uciok")>> \in Seq(Message)
    /\ NoneOf(<<Line("id"), Line("uciok")>>, "bestmove")
    /\ <<Line("readyok")>> \in Seq(Message) /\ NoneOf(<<Line("readyok")>>, "bestmove")
    /\ <<Line("info")>> \in Seq(Message) /\ NoneOf(<<Line("info")>>, "bestmove")
<1>1. \A a \in {"id", "uciok", "readyok", "info"} :
        Line(a) \in Message /\ Line(a).name # "bestmove"
  BY Messages DEF Line, Word
<1> QED
  BY <1>1 DEF NoneOf

\* An engine writes lines: quiet it stays quiet, and in a search it stays in it.
LEMMA LinesStep ==
    ASSUME NEW i \in Engine, Typed, NEW t \in Seq(Message), NEW lines \in Seq(Message),
           toEngine'[i] = t, fromEngine'[i] = fromEngine[i] \o lines,
           NoneOf(lines, "bestmove"), eng'[i] = eng[i], searching'[i] = searching[i],
           gos' = gos,
           NoneOf(toEngine[i], "go") => NoneOf(t, "go"),
           GoThenStops(toEngine[i], gos) => GoThenStops(t, gos),
           OnlyStops(toEngine[i]) => OnlyStops(t)
    PROVE  (Quiet(i) => Quiet(i)') /\ (OneSearch(i) => OneSearch(i)')
<1>1. fromEngine[i] \in Seq(Message)
  BY DEF Typed
<1>2. /\ NoneOf(fromEngine[i], "bestmove") => NoneOf(fromEngine'[i], "bestmove")
      /\ OneBestmove(fromEngine[i], gos) => OneBestmove(fromEngine'[i], gos)
  BY <1>1, NoneOfWrite, LineWrite
<1> QED
  BY <1>2 DEF Quiet, OneSearch

\* An engine that thinks ends its search, with the bestmove of the last go.
LEMMA SearchEnds ==
    ASSUME NEW i \in Engine, DInv, pc # "dead", eng[i] = "thinking",
           UNCHANGED <<dialogue, gos, answer, searching>>,
           NEW t \in Seq(Message), toEngine' = [toEngine EXCEPT ![i] = t],
           OnlyStops(toEngine[i]) => OnlyStops(t),
           fromEngine' = [fromEngine EXCEPT ![i] = @ \o <<Bestmove(searching[i])>>],
           eng' = [eng EXCEPT ![i] = "idle"]
    PROVE  DInv'
<1> DEFINE lines == <<Bestmove(searching[i])>>
<1>1. Typed /\ Searches
  BY DEF DInv
<1>2. ~Quiet(i)
  BY DEF Quiet
<1>3. lines \in Seq(Message) /\ Len(lines) = 1 /\ lines[1].go = searching[i]
  <2>1. Bestmove(searching[i]) \in Message /\ Bestmove(searching[i]).go = searching[i]
    BY <1>1, Messages DEF Typed, Bestmove
  <2> QED
    BY <2>1
<1> HIDE DEF lines
<1>4. fromEngine[i] \o lines \in Seq(Message) /\ fromEngine[i] \in Seq(Message)
  BY <1>1, <1>3, WriteIs DEF Typed
<1>5. /\ fromEngine' = [fromEngine EXCEPT ![i] = fromEngine[i] \o lines]
      /\ fromEngine'[i] = fromEngine[i] \o lines
      /\ toEngine'[i] = t /\ eng'[i] = "idle" /\ gos' = gos
  BY <1>1 DEF Typed, lines
<1>6. OneSearch(i) => OneSearch(i)'
  <2> SUFFICES ASSUME OneSearch(i) PROVE OneSearch(i)'
    OBVIOUS
  <2>1. searching[i] = gos /\ OnlyStops(t) /\ NoneOf(fromEngine[i], "bestmove")
    BY DEF OneSearch
  <2>2. OneBestmove(fromEngine'[i], gos)
    BY <1>3, <1>4, <1>5, <2>1, BestmoveWrite
  <2>3. GoThenStops(t, gos) /\ NoneOf(t, "go")
    BY <2>1, OnlyStopsIs
  <2> QED
    BY <1>5, <2>2, <2>3 DEF OneSearch
<1>7. searching' = [searching EXCEPT ![i] = searching[i]] /\ searching[i] \in Nat
  BY <1>1 DEF Typed
<1> QED
  BY <1>2, <1>4, <1>5, <1>6, <1>7, EngineStep

LEMMA CommandStep == ASSUME NEW i \in Engine, pc # "dead", DInv, ReadCommand(i) PROVE DInv'
<1> DEFINE cmd == Head(toEngine[i])
           t == Tail(toEngine[i])
           f == fromEngine[i]
<1>1. Typed
  BY DEF DInv
<1>2. /\ eng[i] \in {"idle", "thinking"} /\ toEngine[i] # <<>>
      /\ toEngine' = [toEngine EXCEPT ![i] = t]
      /\ UNCHANGED <<dialogue, gos, answer>>
  BY DEF ReadCommand, Running
<1>3. /\ t \in Seq(Message) /\ cmd \in Message /\ f \in Seq(Message)
      /\ NoneOf(toEngine[i], "go") => NoneOf(t, "go") /\ cmd.name # "go"
      /\ GoThenStops(toEngine[i], gos) => GoThenStops(t, gos)
      /\ GoThenStops(toEngine[i], gos) /\ cmd.name = "go" => cmd.go = gos /\ OnlyStops(t)
      /\ OnlyStops(toEngine[i]) => OnlyStops(t) /\ cmd.name = "stop"
  <2>1. toEngine[i] \in Seq(Message) /\ f \in Seq(Message)
    BY <1>1 DEF Typed
  <2> QED
    BY <1>2, <2>1, ReadIs, NoneOfRead, GoRead, OnlyStopsRead
<1>4. /\ toEngine'[i] = t /\ fromEngine = [fromEngine EXCEPT ![i] = f]
      /\ eng = [eng EXCEPT ![i] = eng[i]] /\ searching = [searching EXCEPT ![i] = searching[i]]
      /\ searching[i] \in Nat /\ gos' = gos
  BY <1>1, <1>2 DEF Typed
<1>5. CASE cmd.name = "uci"
  <2> DEFINE lines == <<Line("id"), Line("uciok")>>
  <2>1. fromEngine' = [fromEngine EXCEPT ![i] = f \o lines] /\ UNCHANGED <<eng, searching>>
    BY <1>5 DEF ReadCommand, Write, engines
  <2>2. f \o lines \in Seq(Message) /\ fromEngine'[i] = f \o lines
    BY <1>1, <1>3, <2>1, Answers, WriteIs DEF Typed
  <2>3. (Quiet(i) => Quiet(i)') /\ (OneSearch(i) => OneSearch(i)')
    BY <1>1, <1>3, <1>4, <2>1, <2>2, Answers, LinesStep
  <2> QED
    BY <1>2, <1>3, <1>4, <2>1, <2>2, <2>3, EngineStep
<1>6. CASE cmd.name = "isready"
  <2> DEFINE lines == <<Line("readyok")>>
  <2>1. fromEngine' = [fromEngine EXCEPT ![i] = f \o lines] /\ UNCHANGED <<eng, searching>>
    BY <1>6 DEF ReadCommand, Write, engines
  <2>2. f \o lines \in Seq(Message) /\ fromEngine'[i] = f \o lines
    BY <1>1, <1>3, <2>1, Answers, WriteIs DEF Typed
  <2>3. (Quiet(i) => Quiet(i)') /\ (OneSearch(i) => OneSearch(i)')
    BY <1>1, <1>3, <1>4, <2>1, <2>2, Answers, LinesStep
  <2> QED
    BY <1>2, <1>3, <1>4, <2>1, <2>2, <2>3, EngineStep
<1>7. CASE cmd.name = "go"
  <2>1. /\ eng' = [eng EXCEPT ![i] = "thinking"] /\ fromEngine' = fromEngine
        /\ searching' = [searching EXCEPT ![i] = cmd.go] /\ cmd.go \in Nat
    BY <1>3, <1>7 DEF ReadCommand, Message
  <2>2. ~Quiet(i)
    BY <1>3, <1>7 DEF Quiet
  <2>3. OneSearch(i) => OneSearch(i)'
    <3> SUFFICES ASSUME OneSearch(i) PROVE OneSearch(i)'
      OBVIOUS
    <3>1. ~NoneOf(toEngine[i], "go")
      BY <1>3, <1>7
    <3>2. cmd.go = gos /\ OnlyStops(t) /\ GoThenStops(t, gos)
          /\ NoneOf(f, "bestmove") /\ OneBestmove(f, gos)
      BY <1>3, <1>7, <3>1 DEF OneSearch
    <3>3. searching'[i] = gos /\ fromEngine'[i] = f
      BY <1>1, <2>1, <3>2 DEF Typed
    <3> QED
      BY <1>4, <3>2, <3>3 DEF OneSearch
  <2> QED
    BY <1>2, <1>3, <1>4, <2>1, <2>2, <2>3, EngineStep
<1>8. CASE cmd.name = "stop" /\ eng[i] = "thinking"
  <2>1. /\ eng' = [eng EXCEPT ![i] = "idle"] /\ searching' = searching
        /\ fromEngine' = [fromEngine EXCEPT ![i] = @ \o <<Bestmove(searching[i])>>]
    BY <1>8 DEF ReadCommand, Write
  <2> QED
    BY <1>2, <1>3, <1>8, <2>1, SearchEnds
<1>9. CASE cmd.name = "quit"
  <2>1. eng' = [eng EXCEPT ![i] = "gone"] /\ UNCHANGED <<fromEngine, searching>>
    BY <1>9 DEF ReadCommand
  <2>2. eng'[i] = "gone"
    BY <1>1, <2>1 DEF Typed
  <2>3. (Quiet(i) => Quiet(i)') /\ (OneSearch(i) => OneSearch(i)')
    BY <1>3, <1>4, <2>1, <2>2 DEF Quiet, OneSearch
  <2> QED
    BY <1>2, <1>3, <1>4, <2>1, <2>3, EngineStep
<1>10. CASE /\ cmd.name \notin {"uci", "isready", "go", "quit"}
            /\ ~(cmd.name = "stop" /\ eng[i] = "thinking")
  <2>1. UNCHANGED <<fromEngine, eng, searching>>
    BY <1>10 DEF ReadCommand, engines
  <2>2. (Quiet(i) => Quiet(i)') /\ (OneSearch(i) => OneSearch(i)')
    BY <1>3, <1>4, <2>1 DEF Quiet, OneSearch
  <2>3. eng[i] \in {"none", "idle", "thinking", "gone"}
    BY <1>2
  <2> QED
    BY <1>2, <1>3, <1>4, <2>1, <2>2, <2>3, EngineStep
<1> QED
  BY <1>5, <1>6, <1>7, <1>8, <1>9, <1>10

LEMMA InfoStep == ASSUME NEW i \in Engine, pc # "dead", DInv, Info(i) PROVE DInv'
<1> DEFINE lines == <<Line("info")>>
<1>1. Typed
  BY DEF DInv
<1>2. /\ fromEngine' = [fromEngine EXCEPT ![i] = fromEngine[i] \o lines]
      /\ UNCHANGED <<dialogue, toEngine, eng, searching, gos, answer>>
  BY DEF Info, Write, engines
<1>3. /\ toEngine[i] \in Seq(Message) /\ fromEngine[i] \o lines \in Seq(Message)
      /\ fromEngine'[i] = fromEngine[i] \o lines
  BY <1>1, <1>2, Answers, WriteIs DEF Typed
<1>4. (Quiet(i) => Quiet(i)') /\ (OneSearch(i) => OneSearch(i)')
  BY <1>1, <1>2, <1>3, Answers, LinesStep
<1>5. /\ toEngine = [toEngine EXCEPT ![i] = toEngine[i]]
      /\ eng = [eng EXCEPT ![i] = eng[i]] /\ eng[i] \in {"none", "idle", "thinking", "gone"}
      /\ searching = [searching EXCEPT ![i] = searching[i]] /\ searching[i] \in Nat
  BY <1>1 DEF Typed
<1> QED
  BY <1>2, <1>3, <1>4, <1>5, EngineStep

LEMMA EndSearchStep == ASSUME NEW i \in Engine, pc # "dead", DInv, EndSearch(i) PROVE DInv'
<1>1. /\ eng[i] = "thinking" /\ eng' = [eng EXCEPT ![i] = "idle"]
      /\ fromEngine' = [fromEngine EXCEPT ![i] = @ \o <<Bestmove(searching[i])>>]
      /\ UNCHANGED <<dialogue, toEngine, searching, gos, answer>>
  BY DEF EndSearch, Write
<1>2. toEngine = [toEngine EXCEPT ![i] = toEngine[i]] /\ toEngine[i] \in Seq(Message)
  BY DEF DInv, Typed
<1> QED
  BY <1>1, <1>2, SearchEnds

\* An engine crashes: what it has written can still be read.
LEMMA CrashStep == ASSUME NEW i \in Engine, pc # "dead", DInv, Crash(i) PROVE DInv'
<1>1. /\ eng' = [eng EXCEPT ![i] = "gone"]
      /\ UNCHANGED <<dialogue, toEngine, fromEngine, searching, gos, answer>>
  BY DEF Crash
<1>2. Typed
  BY DEF DInv
<1>3. /\ toEngine = [toEngine EXCEPT ![i] = toEngine[i]] /\ toEngine[i] \in Seq(Message)
      /\ fromEngine = [fromEngine EXCEPT ![i] = fromEngine[i]] /\ fromEngine[i] \in Seq(Message)
      /\ searching = [searching EXCEPT ![i] = searching[i]] /\ searching[i] \in Nat
      /\ eng'[i] = "gone"
  BY <1>1, <1>2 DEF Typed
<1>4. (Quiet(i) => Quiet(i)') /\ (OneSearch(i) => OneSearch(i)')
  BY <1>1, <1>3 DEF Quiet, OneSearch
<1> QED
  BY <1>1, <1>3, <1>4, EngineStep

-----------------------------------------------------------------------------
(* The theorems.                                                           *)

LEMMA DialogueStep == DInv /\ [Next]_vars => DInv'
<1> SUFFICES ASSUME DInv, [Next]_vars PROVE DInv'
  OBVIOUS
<1>1. CASE Worker
  BY <1>1, SeatStep, InitEngineStep, UciokStep, QuitStep, WaitpidStep, NewGameStep,
     ReadyokStep, PositionStep, GoStep, BestmoveStep, DeadStep, StopStep, MovedStep
     DEF Worker
<1>2. ASSUME pc # "dead", NEW i \in Engine,
             ReadCommand(i) \/ Info(i) \/ EndSearch(i) \/ Crash(i)
      PROVE  DInv'
  BY <1>2, CommandStep, InfoStep, EndSearchStep, CrashStep
<1>3. CASE UNCHANGED vars
  BY <1>3 DEF vars, dialogue, engines, DInv, Typed, Searches, Answered, EveryWaitGuarded,
     Reading, Waiting, Quiet, OneSearch
<1> QED
  BY <1>1, <1>2, <1>3 DEF Next, Ended

\* The inductive invariant: at every moment there is at most one search, it is that
\* of the last go, and it is at one place: asked for, going on, or answered.
THEOREM OneSearchAtATime == Spec => []DInv
<1> QED
  BY DialogueInit, DialogueStep, PTL DEF Spec

\* The move that game_play plays is the answer to its last go, and an engine thinks
\* only when it is on move and the worker waits for it (engine.c: engine_bestmove),
\* for every number of games and plies, and whenever engines crash.
THEOREM BestmovesAnswerLastGo == Spec => []AnswersLastGo
<1>1. DInv => AnswersLastGo
  <2> SUFFICES ASSUME DInv PROVE AnswersLastGo
    OBVIOUS
  <2>1. pc = "moved" => answer = gos
    BY DEF DInv, Answered
  <2>2. ASSUME NEW i \in Engine, eng[i] = "thinking", pc # "dead"
        PROVE  /\ i = e /\ pc \in {"bestmove", "stopped"}
               /\ \A k \in DOMAIN toEngine[i] : toEngine[i][k].name = "stop"
    <3>1. Waiting /\ i = e /\ OnlyStops(toEngine[i])
      BY <2>2 DEF DInv, Searches, Quiet, OneSearch
    <3>2. DOMAIN toEngine[i] = 1..Len(toEngine[i])
      BY LenProperties DEF DInv, Typed
    <3> QED
      BY <3>1, <3>2 DEF Waiting, OnlyStops
  <2> QED
    BY <2>1, <2>2 DEF AnswersLastGo
<1> QED
  BY <1>1, OneSearchAtATime, PTL

\* Every wait for an engine is under a deadline for that engine, and nothing else
\* is under one (engine.c: deadline_set and deadline_clear around each wait).
THEOREM WaitsAreGuarded == Spec => []EveryWaitGuarded
<1>1. DInv => EveryWaitGuarded
  BY DEF DInv
<1> QED
  BY <1>1, OneSearchAtATime, PTL
=============================================================================
