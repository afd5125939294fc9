--------------------------- MODULE WatchdogProofs ---------------------------
(***************************************************************************)
(* Proofs about Watchdog, for every number of workers, all durations, every *)
(* interval between two rounds and every delay of the main thread: an       *)
(* engine that hangs is noticed within a round, and an answer in time is    *)
(* fatal only when the program itself has lost the time it had to spare.    *)
(***************************************************************************)
EXTENDS Watchdog, TLAPS

Places == {"sleep", "read", "compare", "fatal", "done", "join", "dead"}

Typed ==
    /\ clock \in Nat /\ wake \in Nat /\ delay \in 0..Preempt
    /\ timeLimit \in [Workers -> Nat]
    /\ waits \in [Workers -> {"no", "yes", "forever"}]
    /\ answered \in [Workers -> SUBSET Nat]
    /\ set = [w \in Workers |-> waits[w] # "no"]
    /\ main \in Places /\ i \in Workers
    /\ seen \in [set : BOOLEAN, limit : Nat, copied : Nat, answer : SUBSET Nat]

\* In a round the clock is behind the end of the last sleep by what the main
\* thread has lost; in a sleep it is no more than an interval before that end.
RoundInTime ==
    /\ Watching => clock <= wake + delay
    /\ main = "sleep" => wake <= clock + Poll
    /\ main \in {"read", "compare", "fatal", "done"} => wake <= clock

\* The main thread has looked at the deadline that w waits under, in this round,
\* or w has set it after that look: at the look it was not overdue.
Passed(w) ==
    \/ main \in {"read", "compare"} /\ w < i
    \/ main = "compare" /\ w = i /\ ~(seen.set /\ seen.limit = timeLimit[w])
    \/ main = "done"

\* The round began before a deadline that it has passed, and no round begins
\* later than the end of the one before and an interval.
RoundsBegin ==
    \A w \in Workers :
        waits[w] # "no" /\ Watching =>
            /\ wake <= timeLimit[w] + Poll + Preempt
            /\ Passed(w) => wake <= timeLimit[w]

\* The copy of a deadline is the deadline, as long as the engine has not answered;
\* and the clock is behind the copy by no more than the main thread has lost.
CopyTells ==
    /\ main \in {"compare", "fatal"} /\ seen.set /\ seen.answer = {}
         => /\ waits[i] # "no" /\ answered[i] = {}
            /\ seen.limit = timeLimit[i]
    /\ main = "compare" => clock <= seen.copied + delay
    /\ main = "fatal" => seen.set /\ clock > seen.limit

WInv == Typed /\ RoundInTime /\ RoundsBegin /\ CopyTells /\ OnlyLateIsFatal
-----------------------------------------------------------------------------
(* Each part of the invariant is preserved by each step.                   *)

LEMMA InitWInv == Init => WInv
  <1> SUFFICES ASSUME Init PROVE WInv
    OBVIOUS
  <1>1. Typed
    <2>1. set = [w \in Workers |-> waits[w] # "no"]
      BY DEF Init
    <2>2. 1 \in Workers
      BY WatchdogAssumption DEF Workers
    <2>3. clock \in Nat /\ wake \in Nat /\ delay \in 0..Preempt
      BY WatchdogAssumption DEF Init
    <2>4. /\ timeLimit \in [Workers -> Nat]
          /\ waits \in [Workers -> {"no", "yes", "forever"}]
      BY DEF Init
    <2>5. /\ answered \in [Workers -> SUBSET Nat]
          /\ seen \in [set : BOOLEAN, limit : Nat, copied : Nat, answer : SUBSET Nat]
      BY DEF Init
    <2>6. main \in Places /\ i \in Workers
      BY <2>2 DEF Init, Places
    <2> QED
      BY <2>1, <2>3, <2>4, <2>5, <2>6 DEF Typed
  <1>2. RoundInTime /\ RoundsBegin /\ CopyTells /\ OnlyLateIsFatal
    BY WatchdogAssumption
    DEF Init, Workers, RoundInTime, RoundsBegin, CopyTells, OnlyLateIsFatal
  <1> QED
    BY <1>1, <1>2 DEF WInv

LEMMA TypedStep == WInv /\ [Next]_vars => Typed'
  <1> SUFFICES ASSUME WInv, [Next]_vars PROVE Typed'
    OBVIOUS
  <1> USE WatchdogAssumption DEF WInv, Typed, Workers, Places
  <1>1. ASSUME NEW w \in Workers, deadline_set(w) PROVE Typed'
    <2>1. timeLimit' \in [Workers -> Nat]
      <3>1. PICK d \in Durations : timeLimit' = [timeLimit EXCEPT ![w] = clock + d]
        BY <1>1 DEF deadline_set
      <3>2. clock + d \in Nat
        OBVIOUS
      <3> QED
        BY <3>1, <3>2
    <2>2. waits' \in [Workers -> {"no", "yes", "forever"}]
      BY <1>1 DEF deadline_set
    <2>3. set' = [v \in Workers |-> waits'[v] # "no"]
      <3>1. set' = [set EXCEPT ![w] = TRUE]
        BY <1>1 DEF deadline_set
      <3>2. waits' = [waits EXCEPT ![w] = "yes"]
        BY <1>1 DEF deadline_set
      <3> QED
        BY <3>1, <3>2
    <2>4. UNCHANGED <<clock, answered, main, i, wake, delay, seen>>
      BY <1>1 DEF deadline_set
    <2> QED
      BY <2>1, <2>2, <2>3, <2>4
  <1>2. ASSUME NEW w \in Workers, deadline_clear(w) PROVE Typed'
    BY <1>2 DEF deadline_clear
  <1>3. ASSUME NEW w \in Workers, EngineHangs(w) PROVE Typed'
    BY <1>3 DEF EngineHangs
  <1>4. CASE WakeUp
    BY <1>4 DEF WakeUp, deadlineVars
  <1>5. CASE ReadDeadline
    BY <1>5 DEF ReadDeadline, deadlineVars
  <1>6. CASE CompareClock
    BY <1>6 DEF CompareClock, MoreWorkers, deadlineVars
  <1>7. CASE Die
    BY <1>7 DEF Die, deadlineVars
  <1>8. CASE RoundDone
    BY <1>8 DEF RoundDone, deadlineVars
  <1>9. CASE Tick
    BY <1>9 DEF Tick, deadlineVars
  <1>10. ASSUME NEW w \in Workers, Answers(w) PROVE Typed'
    <2>1. answered' \in [Workers -> SUBSET Nat]
      BY <1>10 DEF Answers
    <2>2. seen' \in [set : BOOLEAN, limit : Nat, copied : Nat, answer : SUBSET Nat]
      BY <1>10 DEF Answers, Noted
    <2> QED
      BY <1>10, <2>1, <2>2 DEF Answers
  <1>11. CASE UNCHANGED vars
    BY <1>11 DEF vars, deadlineVars
  <1> QED
    BY <1>1, <1>2, <1>3, <1>4, <1>5, <1>6, <1>7, <1>8, <1>9, <1>10, <1>11 DEF Next

LEMMA RoundInTimeStep == WInv /\ [Next]_vars => RoundInTime'
  <1> SUFFICES ASSUME WInv, [Next]_vars PROVE RoundInTime'
    OBVIOUS
  <1> USE WatchdogAssumption DEF WInv, Typed, RoundInTime, Watching, deadlineVars
  <1>1. ASSUME NEW w \in Workers,
               \/ deadline_set(w) \/ deadline_clear(w)
               \/ Answers(w) \/ EngineHangs(w)
        PROVE  RoundInTime'
    BY <1>1 DEF deadline_set, deadline_clear, Answers, EngineHangs
  <1>2. CASE WakeUp \/ ReadDeadline \/ CompareClock \/ Die
    BY <1>2 DEF WakeUp, ReadDeadline, CompareClock, Die
  <1>3. CASE RoundDone
    BY <1>3 DEF RoundDone
  <1>4. CASE Tick
    BY <1>4 DEF Tick, Runnable, Alive
  <1>5. CASE UNCHANGED vars
    BY <1>5 DEF vars
  <1> QED
    BY <1>1, <1>2, <1>3, <1>4, <1>5 DEF Next

LEMMA RoundsBeginStep == WInv /\ [Next]_vars => RoundsBegin'
  <1> SUFFICES ASSUME WInv, [Next]_vars,
                      NEW w \in Workers, waits'[w] # "no", Watching'
               PROVE  /\ wake' <= timeLimit'[w] + Poll + Preempt
                      /\ Passed(w)' => wake' <= timeLimit'[w]
    BY DEF RoundsBegin, Workers
  <1> USE WatchdogAssumption DEF WInv, Typed, Watching, Passed, deadlineVars, Workers
  <1>1. ASSUME NEW v \in Workers, deadline_set(v), v = w
        PROVE  /\ wake' <= timeLimit'[w] + Poll + Preempt
               /\ Passed(w)' => wake' <= timeLimit'[w]
    BY <1>1 DEF deadline_set, RoundInTime
  <1>2. ASSUME NEW v \in Workers, deadline_set(v), v # w
        PROVE  /\ wake' <= timeLimit'[w] + Poll + Preempt
               /\ Passed(w)' => wake' <= timeLimit'[w]
    BY <1>2 DEF deadline_set, RoundsBegin
  <1>3. ASSUME NEW v \in Workers, deadline_clear(v)
        PROVE  /\ wake' <= timeLimit'[w] + Poll + Preempt
               /\ Passed(w)' => wake' <= timeLimit'[w]
    BY <1>3 DEF deadline_clear, RoundsBegin
  <1>4. ASSUME NEW v \in Workers, Answers(v) \/ EngineHangs(v)
        PROVE  /\ wake' <= timeLimit'[w] + Poll + Preempt
               /\ Passed(w)' => wake' <= timeLimit'[w]
    <2>1. seen'.set = seen.set /\ seen'.limit = seen.limit
      BY <1>4 DEF Answers, Noted, EngineHangs
    <2>2. waits[w] # "no" /\ UNCHANGED <<main, i, wake, timeLimit>>
      BY <1>4 DEF Answers, EngineHangs
    <2> QED
      BY <2>1, <2>2 DEF RoundsBegin
  <1>5. CASE WakeUp
    BY <1>5 DEF WakeUp, RoundsBegin
  <1>6. CASE ReadDeadline
    BY <1>6 DEF ReadDeadline, RoundsBegin
  <1>7. CASE CompareClock
    BY <1>7 DEF CompareClock, Overdue, MoreWorkers, RoundsBegin, RoundInTime
  <1>8. CASE Die
    BY <1>8 DEF Die, RoundsBegin
  <1>9. CASE RoundDone
    BY <1>9 DEF RoundDone, RoundsBegin, RoundInTime
  <1>10. CASE Tick
    BY <1>10 DEF Tick, RoundsBegin
  <1>11. CASE UNCHANGED vars
    BY <1>11 DEF vars, RoundsBegin
  <1> QED
    BY <1>1, <1>2, <1>3, <1>4, <1>5, <1>6, <1>7, <1>8, <1>9, <1>10, <1>11 DEF Next

LEMMA CopyTellsStep == WInv /\ [Next]_vars => CopyTells'
  <1> SUFFICES ASSUME WInv, [Next]_vars PROVE CopyTells'
    OBVIOUS
  <1> USE WatchdogAssumption DEF WInv, Typed, CopyTells, deadlineVars, Workers
  <1>1. ASSUME NEW w \in Workers, deadline_set(w) PROVE CopyTells'
    BY <1>1 DEF deadline_set
  <1>2. ASSUME NEW w \in Workers, deadline_clear(w) PROVE CopyTells'
    BY <1>2 DEF deadline_clear
  <1>3. ASSUME NEW w \in Workers, EngineHangs(w) PROVE CopyTells'
    BY <1>3 DEF EngineHangs
  <1>4. CASE WakeUp
    BY <1>4 DEF WakeUp
  <1>5. CASE ReadDeadline
    <2>1. /\ main' = "compare" /\ i' = i /\ delay' = delay /\ clock' = clock
          /\ UNCHANGED <<waits, answered, timeLimit>>
      BY <1>5 DEF ReadDeadline
    <2>2. /\ seen'.set = set[i] /\ seen'.limit = timeLimit[i]
          /\ seen'.copied = clock /\ seen'.answer = answered[i]
      BY <1>5 DEF ReadDeadline
    <2>3. set[i] => waits[i] # "no"
      OBVIOUS
    <2> QED
      BY <2>1, <2>2, <2>3
  <1>6. CASE CompareClock
    BY <1>6 DEF CompareClock, Overdue
  <1>7. CASE Die \/ RoundDone
    BY <1>7 DEF Die, RoundDone
  <1>8. CASE Tick
    BY <1>8 DEF Tick, Runnable
  <1>9. ASSUME NEW w \in Workers, Answers(w) PROVE CopyTells'
    BY <1>9 DEF Answers, Noted
  <1>10. CASE UNCHANGED vars
    BY <1>10 DEF vars
  <1> QED
    BY <1>1, <1>2, <1>3, <1>4, <1>5, <1>6, <1>7, <1>8, <1>9, <1>10 DEF Next

LEMMA OnlyLateStep == WInv /\ [Next]_vars => OnlyLateIsFatal'
  <1> SUFFICES ASSUME WInv, [Next]_vars PROVE OnlyLateIsFatal'
    OBVIOUS
  <1> USE WatchdogAssumption
      DEF WInv, Typed, OnlyLateIsFatal, WorkerLost, deadlineVars, Workers
  <1>1. ASSUME NEW w \in Workers, deadline_set(w) \/ EngineHangs(w)
        PROVE  OnlyLateIsFatal'
    <2>1. main # "dead" /\ UNCHANGED <<main, i, delay, seen>>
      BY <1>1 DEF deadline_set, EngineHangs, Alive
    <2>2. ASSUME main = "fatal", seen.answer = {}
          PROVE  waits'[i] # "no" /\ timeLimit'[i] = timeLimit[i]
      BY <1>1, <2>2 DEF deadline_set, EngineHangs
    <2> QED
      BY <2>1, <2>2
  <1>2. ASSUME NEW w \in Workers, deadline_clear(w) PROVE OnlyLateIsFatal'
    <2>1. main # "dead" /\ UNCHANGED <<main, i, delay, seen, timeLimit>>
      BY <1>2 DEF deadline_clear, Alive
    <2>2. ASSUME main = "fatal", seen.answer = {}
          PROVE  waits'[i] # "no"
      <3>1. seen.set
        BY <2>2 DEF CopyTells
      <3> QED
        BY <1>2, <2>2, <3>1 DEF deadline_clear, CopyTells
    <2> QED
      BY <2>1, <2>2
  <1>3. ASSUME NEW w \in Workers, Answers(w) PROVE OnlyLateIsFatal'
    <2>1. main # "dead" /\ UNCHANGED <<clock, main, i, delay, timeLimit, waits>>
      BY <1>3 DEF Answers, Alive
    <2>2. CASE seen' = seen
      BY <2>1, <2>2
    <2>3. CASE seen' = [seen EXCEPT !.answer = {clock}]
      BY <2>1, <2>3 DEF CopyTells
    <2> QED
      BY <1>3, <2>2, <2>3 DEF Answers, Noted
  <1>4. CASE CompareClock
    <2>1. CASE Overdue
      <3>1. seen.limit < clock /\ clock <= seen.copied + delay /\ seen.set
        BY <1>4, <2>1 DEF CompareClock, Overdue, CopyTells
      <3>2. UNCHANGED <<seen, delay, waits, timeLimit>> /\ i' = i
        BY <1>4, <2>1 DEF CompareClock
      <3>3. \A t \in seen.answer :
               t <= seen.limit => seen.limit - t < delay + WorkerLost(t)
        BY <3>1
      <3>4. seen.answer = {} => waits[i] # "no" /\ seen.limit = timeLimit[i]
        BY <1>4, <3>1 DEF CompareClock, CopyTells
      <3> QED
        BY <3>2, <3>3, <3>4
    <2>2. CASE ~Overdue
      BY <1>4, <2>2 DEF CompareClock
    <2> QED
      BY <2>1, <2>2
  <1>5. CASE WakeUp \/ ReadDeadline \/ Die \/ RoundDone
    BY <1>5 DEF WakeUp, ReadDeadline, Die, RoundDone
  <1>6. CASE Tick
    BY <1>6 DEF Tick
  <1>7. CASE UNCHANGED vars
    BY <1>7 DEF vars
  <1> QED
    BY <1>1, <1>2, <1>3, <1>4, <1>5, <1>6, <1>7 DEF Next

\* The invariant: the rounds of the main loop, and what its copy of a deadline
\* tells of the worker that it was copied from.
THEOREM RoundsWatchTheDeadlines == Spec => []WInv
  <1>1. WInv /\ [Next]_vars => WInv'
    BY TypedStep, RoundInTimeStep, RoundsBeginStep, CopyTellsStep, OnlyLateStep
    DEF WInv
  <1> QED
    BY InitWInv, <1>1, PTL DEF Spec

-----------------------------------------------------------------------------
(* The two properties.                                                     *)

\* An engine that hangs is noticed within a round of the loop of main.c, that is
\* within an interval and what the main thread may lose in two rounds, however
\* many workers there are.
THEOREM HangsAreNoticed == Spec => []NoticedWithinARound
  <1>1. WInv => NoticedWithinARound
    <2> SUFFICES ASSUME WInv, NEW w \in Workers, waits[w] = "forever", Watching
                 PROVE  clock <= timeLimit[w] + Poll + 2 * Preempt
      BY DEF NoticedWithinARound
    <2>1. clock <= wake + delay /\ delay <= Preempt
      BY WatchdogAssumption DEF WInv, Typed, RoundInTime
    <2>2. wake <= timeLimit[w] + Poll + Preempt
      BY DEF WInv, RoundsBegin
    <2>3. clock \in Nat /\ wake \in Nat /\ delay \in Nat /\ timeLimit[w] \in Nat
      BY WatchdogAssumption DEF WInv, Typed
    <2> QED
      BY <2>1, <2>2, <2>3, WatchdogAssumption
  <1> QED
    BY RoundsWatchTheDeadlines, <1>1, PTL

\* An engine that has answered ends the process only when it was late, or when
\* the worker and the main thread have together lost all the time that it left:
\* the worker before its deadline_clear, the main thread after the unlock of
\* deadline_overdue.
THEOREM AnswersInTimeAreSafe == Spec => []OnlyLateIsFatal
  <1>1. WInv => OnlyLateIsFatal
    BY DEF WInv
  <1> QED
    BY RoundsWatchTheDeadlines, <1>1, PTL
=============================================================================
