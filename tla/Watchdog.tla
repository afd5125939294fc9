------------------------------ MODULE Watchdog ------------------------------
(***************************************************************************)
(* Deadlines in time: src/workers.c and the loop of the main thread in     *)
(* src/main.c.  A worker sets a deadline before it waits for an engine and *)
(* clears it after the answer; the main thread wakes up at intervals and   *)
(* ends the process when it finds a deadline that has passed.              *)
(*                                                                         *)
(* clock counts ticks of time.  deadline_set and deadline_clear are one    *)
(* step each, under the deadline's mutex; a worker can lose the processor  *)
(* between the engine's answer and its deadline_clear, for any time.       *)
(* deadline_overdue is two steps: it copies the deadline under the mutex,  *)
(* and reads the clock after the unlock.  The main thread can lose the     *)
(* processor for up to Preempt ticks in each round of its loop, between    *)
(* any two of its steps.                                                   *)
(*                                                                         *)
(* answered, and the fields copied and answer of seen, are history: when   *)
(* the engine has answered, when the main thread has copied the deadline,  *)
(* and when the dialogue of that deadline was answered.  A time that may   *)
(* not have come yet is a set of at most one time.                         *)
(***************************************************************************)
EXTENDS Naturals

CONSTANTS NWorkers,      \* options.concurrency
          Durations,     \* the durations deadline_set is called with
          Poll,          \* system_sleep between two rounds, in ticks
          Preempt,       \* ticks the main thread may lose in a round
          MaxTime        \* bound: the clock stops there

ASSUME WatchdogAssumption ==
    /\ NWorkers \in Nat \ {0}
    /\ Durations \subseteq Nat \ {0}       \* asserted by deadline_set
    /\ Poll \in Nat \ {0} /\ Preempt \in Nat /\ MaxTime \in Nat

VARIABLES clock,         \* system_msec, in ticks
          set,           \* deadline.set of each worker
          timeLimit,     \* deadline.timeLimit
          waits,         \* the worker's dialogue: "no", "yes", "forever"
          answered,      \* when its engine has answered
          main,          \* where the main thread is
          i,             \* its loop variable
          wake,          \* when its sleep ends
          delay,         \* ticks it has lost in this round
          seen           \* its copy of the deadline of worker i

deadlineVars == <<set, timeLimit, waits, answered>>
vars == <<clock, deadlineVars, main, i, wake, delay, seen>>

Workers == 1..NWorkers

Init ==
    /\ clock = 0
    /\ set = [w \in Workers |-> FALSE]
    /\ timeLimit = [w \in Workers |-> 0]
    /\ waits = [w \in Workers |-> "no"]
    /\ answered = [w \in Workers |-> {}]
    /\ main = "sleep" /\ i = 1 /\ wake = Poll /\ delay = 0
    /\ seen = [set |-> FALSE, limit |-> 0, copied |-> 0, answer |-> {}]

Watching == main \in {"sleep", "read", "compare", "fatal", "done"}

Alive == main # "dead"

-----------------------------------------------------------------------------
(* Workers.                                                                *)

deadline_set(w) ==
    /\ Alive /\ waits[w] = "no"
    /\ \E d \in Durations : timeLimit' = [timeLimit EXCEPT ![w] = clock + d]
    /\ set' = [set EXCEPT ![w] = TRUE]
    /\ waits' = [waits EXCEPT ![w] = "yes"]
    /\ UNCHANGED <<clock, answered, main, i, wake, delay, seen>>

\* The answer to the dialogue that the main thread has a copy of.
Noted(w) ==
    IF main \in {"compare", "fatal"} /\ i = w /\ seen.set /\ seen.answer = {}
    THEN [seen EXCEPT !.answer = {clock}]
    ELSE seen

\* The engine answers, early or late.
Answers(w) ==
    /\ Alive /\ waits[w] = "yes" /\ answered[w] = {}
    /\ answered' = [answered EXCEPT ![w] = {clock}]
    /\ seen' = Noted(w)
    /\ UNCHANGED <<clock, set, timeLimit, waits, main, i, wake, delay>>

\* The worker has read the answer, and clears its deadline.
deadline_clear(w) ==
    /\ Alive /\ answered[w] # {}
    /\ set' = [set EXCEPT ![w] = FALSE]
    /\ waits' = [waits EXCEPT ![w] = "no"]
    /\ answered' = [answered EXCEPT ![w] = {}]
    /\ UNCHANGED <<clock, timeLimit, main, i, wake, delay, seen>>

\* The engine will never answer.
EngineHangs(w) ==
    /\ Alive /\ waits[w] = "yes" /\ answered[w] = {}
    /\ waits' = [waits EXCEPT ![w] = "forever"]
    /\ UNCHANGED <<clock, set, timeLimit, answered, main, i, wake, delay, seen>>

-----------------------------------------------------------------------------
(* The main thread.                                                        *)

\* The end of system_sleep.
WakeUp ==
    /\ main = "sleep" /\ clock >= wake
    /\ main' = "read" /\ i' = 1
    /\ UNCHANGED <<clock, deadlineVars, wake, delay, seen>>

\* deadline_overdue, the critical section: a copy of the deadline.
ReadDeadline ==
    /\ main = "read"
    /\ seen' = [set |-> set[i], limit |-> timeLimit[i], copied |-> clock,
                answer |-> answered[i]]
    /\ main' = "compare"
    /\ UNCHANGED <<clock, deadlineVars, i, wake, delay>>

\* Mutant: the round ends before the last worker.
MoreWorkers_OneShort == i + 1 < NWorkers

MoreWorkers == i < NWorkers

\* Mutant: a deadline that passes at this very moment counts as overdue.
Overdue_AtLimit == seen.set /\ clock >= seen.limit

Overdue == seen.set /\ clock > seen.limit

\* deadline_overdue after the unlock, and the end of the body of the loop.
CompareClock ==
    /\ main = "compare"
    /\ IF Overdue
       THEN main' = "fatal" /\ i' = i
       ELSE IF MoreWorkers
            THEN main' = "read" /\ i' = i + 1
            ELSE main' = "done" /\ i' = i
    /\ UNCHANGED <<clock, deadlineVars, wake, delay, seen>>

\* fprintf to the worker's log, then DIE.  Without -log that log is NULL, and the
\* process ends there, in a crash and without the message.
Die ==
    /\ main = "fatal"
    /\ main' = "dead"
    /\ UNCHANGED <<clock, deadlineVars, i, wake, delay, seen>>

\* job_queue_done, whose answer depends on the workers' progress: either the
\* next round, or the wait for the workers.
RoundDone ==
    /\ main = "done"
    /\ \/ main' = "sleep" /\ wake' = clock + Poll /\ delay' = 0
       \/ main' = "join" /\ UNCHANGED <<wake, delay>>
    /\ UNCHANGED <<clock, deadlineVars, i, seen>>

-----------------------------------------------------------------------------
\* The main thread could run.
Runnable ==
    \/ main = "sleep" /\ clock >= wake
    \/ main \in {"read", "compare", "fatal", "done"}

Tick ==
    /\ Alive /\ clock < MaxTime
    /\ Runnable => delay < Preempt
    /\ delay' = IF Runnable THEN delay + 1 ELSE delay
    /\ clock' = clock + 1
    /\ UNCHANGED <<deadlineVars, main, i, wake, seen>>

Next ==
    \/ \E w \in Workers : \/ deadline_set(w) \/ deadline_clear(w)
                          \/ Answers(w) \/ EngineHangs(w)
    \/ WakeUp \/ ReadDeadline \/ CompareClock \/ Die \/ RoundDone
    \/ Tick

Spec == Init /\ [][Next]_vars

-----------------------------------------------------------------------------
(* Properties.                                                             *)

\* An engine that hangs is noticed within a round of the main loop, as long as
\* the loop goes on: every worker is looked at in every round.
NoticedWithinARound ==
    \A w \in Workers :
        waits[w] = "forever" /\ Watching
            => clock <= timeLimit[w] + Poll + 2 * Preempt

\* What a worker has lost between an answer at t and the copy of its deadline.
WorkerLost(t) == IF t < seen.copied THEN seen.copied - t ELSE 0

\* README.md:66, the tolerance tells an engine that hangs.  The process is ended
\* for a dialogue that is still going on, or for an answer that came after its
\* deadline; or else for an answer with time to spare, when all of that time was
\* lost here: by the worker before it clears its deadline, and by the main thread
\* in that round, between its copy of the deadline and the clock.
OnlyLateIsFatal ==
    main \in {"fatal", "dead"} =>
        /\ seen.answer = {} => waits[i] # "no" /\ seen.limit = timeLimit[i]
        /\ \A t \in seen.answer :
             t <= seen.limit => seen.limit - t < delay + WorkerLost(t)
=============================================================================
