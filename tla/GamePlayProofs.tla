--------------------------- MODULE GamePlayProofs ---------------------------
(***************************************************************************)
(* Proofs about GamePlay, for all settings, scores and times: the results  *)
(* of a game agree, it is adjudicated when that is due, the clocks are fair *)
(* and a loss on time is deserved.                                         *)
(***************************************************************************)
EXTENDS GamePlay, FiniteSetTheorems, SequenceTheorems, WellFoundedInduction, TLAPS

Places == {"rules", "go", "think", "over"}
ByMove == {"TIME_LOSS", "ILLEGAL_MOVE", "DRAW_ADJUDICATION", "RESIGN"}
Info == [engine : Engine, score : Int, time : Nat]
SampleSet == [ply : Nat, turn : 0..1, score : Int, result : 0..3]

Typed ==
    /\ setup \in Setups
    /\ reverse \in Engine /\ turn0 \in 0..1
    /\ eo \in [Engine -> TimeControl]
    /\ ply \in Nat /\ ei \in Engine
    /\ at \in Places /\ state \in Losses \cup Draws \cup {"NONE"}
    /\ timeLeft \in [Engine -> Int]
    /\ drawPlyCount \in Nat /\ resignCount \in [Engine -> Nat]
    /\ vecInfo \in Seq(Info) /\ vecSamples \in Seq(SampleSet)

\* The engines move in turn, one move for each ply.
InTurn ==
    /\ ei = Xor(reverse, ply)
    /\ at # "over" => state = "NONE" /\ Len(vecInfo) = ply
    /\ at = "over" => \/ state \in ByRules /\ Len(vecInfo) = ply
                      \/ state \in ByMove /\ Len(vecInfo) = ply + 1
    /\ \A k \in 1..Len(vecInfo) : vecInfo[k].engine = Xor(reverse, k + 1)

\* A sample, before and after its result is filled in.
SampleTells(s) ==
    /\ s.ply \in 0..(Len(vecInfo) - 1)
    /\ s.score = IF s.turn = Xor(turn0, s.ply) THEN vecInfo[s.ply + 1].score
                 ELSE -vecInfo[s.ply + 1].score
    /\ Resolve => ~IsMate(vecInfo[s.ply + 1].score)
    /\ at = "over" => s.result = IF s.turn = WHITE THEN wpov(state)
                                 ELSE 2 - wpov(state)

SamplesTell == \A k \in 1..Len(vecSamples) : SampleTells(vecSamples[k])

\* d is the length of the longest tail of scores that are within b of zero.
EvenTail(info, d, b) ==
    /\ d <= Len(info)
    /\ \A k \in 1..Len(info) : k > Len(info) - d => info[k].score \in (-b)..b
    /\ d < Len(info) => info[Len(info) - d].score \notin (-b)..b

DrawCountTells ==
    Draw.count # 0 /\ at # "over" => EvenTail(vecInfo, drawPlyCount, Draw.score)

\* c is the length of the longest tail of the moves M whose scores are b or more
\* below zero, where after[k] of the moves come after move k.
LostTail(M, card, after, info, c, b) ==
    /\ c <= card
    /\ \A k \in M : after[k] < c => info[k].score <= -b
    /\ c < card => \E k \in M : after[k] = c /\ ~(info[k].score <= -b)

After(e) == [k \in Moves(e) |-> MovesAfter(e, k)]

ResignCountTells(e) ==
    Resign.count # 0 /\ at # "over" =>
        LostTail(Moves(e), Cardinality(Moves(e)), After(e), vecInfo,
                 resignCount[e], Resign.score)

CountersTell == DrawCountTells /\ \A e \in Engine : ResignCountTells(e)

\* How many moves each engine has made.
MovesCounted ==
    at # "over" => /\ Cardinality(Moves(ei)) = ply \div 2
                   /\ Cardinality(Moves(1 - ei)) = (ply + 1) \div 2

\* The limit of an engine that thinks without a clock.
LimitTells ==
    at = "think" =>
        /\ eo[ei].movetime # 0 => timeLeft[ei] = eo[ei].movetime
        /\ eo[ei].movetime = 0 /\ ~Clocked(ei) => timeLeft[ei] = Unlimited

-----------------------------------------------------------------------------
(* The steps, by what they do to the game.                                 *)

\* The game ends by the rules, before the move.
RulesEnd(s) ==
    /\ at = "rules" /\ s \in ByRules /\ End(s)
    /\ UNCHANGED <<timeLeft, counters, told, vecInfo>>

GoesOn ==
    /\ at = "rules" /\ at' = "go"
    /\ UNCHANGED <<settings, ply, ei, state, timeLeft, counters, told, vecInfo,
                   vecSamples>>

\* The game ends with a move.
MoveEnds(s, t) ==
    /\ Answer(s, t)
    /\ \E x \in ByMove : state' = x /\ End(x)
    /\ drawPlyCount' \in {drawPlyCount, DrawCounter(s)}
    /\ resignCount' \in {resignCount,
                         [resignCount EXCEPT ![ei] = ResignCounter(s)]}

LEMMA Steps ==
    ASSUME [Next]_vars
    PROVE  \/ \E s \in ByRules : RulesEnd(s)
           \/ GoesOn \/ Go
           \/ \E s \in Scores, t \in Elapsed : MoveEnds(s, t) \/ PlayOn(s, t)
           \/ UNCHANGED vars
  <1>1. CASE ApplyRules
    BY <1>1 DEF ApplyRules, RulesEnd, GoesOn, counters
  <1>2. ASSUME NEW s \in Scores, NEW t \in Elapsed,
               GivesUp(s, t) \/ IllegalMove(s, t) \/ LateMove(s, t)
        PROVE  MoveEnds(s, t)
    BY <1>2 DEF GivesUp, IllegalMove, LateMove, MoveEnds, ByMove, End, counters
  <1>3. ASSUME NEW s \in Scores, NEW t \in Elapsed,
               AgreeDraw(s, t) \/ ResignGame(s, t)
        PROVE  MoveEnds(s, t)
    BY <1>3 DEF AgreeDraw, ResignGame, LegalMove, MoveEnds, ByMove, End
  <1> QED
    BY <1>1, <1>2, <1>3, Zenon DEF Next, Over

LEMMA XorBit ==
    ASSUME NEW a \in Nat, NEW b \in Nat
    PROVE  Xor(a, b) \in 0..1
  BY DEF Xor

LEMMA XorNext ==
    ASSUME NEW a \in 0..1, NEW b \in Nat
    PROVE  Xor(a, b + 1) = 1 - Xor(a, b)
  BY DEF Xor

-----------------------------------------------------------------------------
(* Types.                                                                  *)

LEMMA SettingTypes ==
    ASSUME Typed
    PROVE  /\ Scores \subseteq Int /\ Elapsed \subseteq Nat
           /\ \A t \in Elapsed : t < Unlimited
           /\ Draw \in Rule /\ Resign \in Rule
           /\ Unlimited \in Nat
  BY GamePlayAssumption DEF Typed, Scores, Elapsed, Draw, Resign

LEMMA InitTyped == Init => Typed
  <1> SUFFICES ASSUME Init PROVE Typed
    OBVIOUS
  <1>1. eo \in [Engine -> TimeControl]
    BY GamePlayAssumption DEF Init
  <1>2. timeLeft \in [Engine -> Int]
    BY <1>1 DEF Init, TimeControl
  <1>3. resignCount \in [Engine -> Nat] /\ drawPlyCount \in Nat
    BY DEF Init
  <1>4. vecInfo \in Seq(Info) /\ vecSamples \in Seq(SampleSet)
    BY DEF Init
  <1> QED
    BY <1>1, <1>2, <1>3, <1>4 DEF Init, Typed, Engine, Places

\* What End makes of the samples.
LEMMA EndTyped ==
    ASSUME Typed, NEW s \in Losses \cup Draws, End(s)
    PROVE  /\ wpov(s) \in 0..2
           /\ Len(vecSamples') = Len(vecSamples)
           /\ vecSamples' \in Seq(SampleSet)
           /\ \A k \in 1..Len(vecSamples) :
                vecSamples'[k] =
                  [vecSamples[k] EXCEPT
                     !.result = IF vecSamples[k].turn = WHITE THEN wpov(s)
                                ELSE 2 - wpov(s)]
  <1> DEFINE New(k) == [vecSamples[k] EXCEPT
                          !.result = IF vecSamples[k].turn = WHITE THEN wpov(s)
                                     ELSE 2 - wpov(s)]
  <1>1. vecSamples \in Seq(SampleSet) /\ DOMAIN vecSamples = 1..Len(vecSamples)
    BY DEF Typed
  <1>2. vecSamples' = [k \in 1..Len(vecSamples) |-> New(k)]
    BY <1>1, Zenon DEF End, WithResults
  <1>3. wpov(s) \in 0..2
    BY DEF wpov
  <1>4. \A k \in 1..Len(vecSamples) : New(k) \in SampleSet
    <2> TAKE k \in 1..Len(vecSamples)
    <2>1. vecSamples[k] \in SampleSet
      BY <1>1
    <2>2. ASSUME NEW r \in 0..3 PROVE [vecSamples[k] EXCEPT !.result = r] \in SampleSet
      BY <2>1 DEF SampleSet
    <2>3. wpov(s) \in 0..3 /\ 2 - wpov(s) \in 0..3
      BY <1>3
    <2> QED
      BY <2>2, <2>3
  <1> HIDE DEF New
  <1>5. vecSamples' \in Seq(SampleSet) /\ Len(vecSamples') = Len(vecSamples)
    BY <1>1, <1>2, <1>4
  <1> QED
    BY <1>2, <1>3, <1>5 DEF New

LEMMA AnswerTyped ==
    ASSUME Typed, NEW s \in Scores, NEW t \in Elapsed, Answer(s, t)
    PROVE  /\ vecInfo' \in Seq(Info) /\ Len(vecInfo') = Len(vecInfo) + 1
           /\ \A k \in 1..Len(vecInfo) : vecInfo'[k] = vecInfo[k]
           /\ vecInfo'[Len(vecInfo) + 1] = [engine |-> ei, score |-> s, time |-> t]
           /\ timeLeft' \in [Engine -> Int]
           /\ timeLeft'[ei] = timeLeft[ei] - t
           /\ timeLeft'[1 - ei] = timeLeft[1 - ei]
  <1>1. s \in Int /\ t \in Nat
    BY SettingTypes
  <1>2. [engine |-> ei, score |-> s, time |-> t] \in Info
    BY <1>1 DEF Info, Typed
  <1>3. timeLeft' = [timeLeft EXCEPT ![ei] = @ - t] /\ ei \in 0..1
    BY DEF Answer, Typed, Engine
  <1>4. /\ timeLeft' \in [Engine -> Int]
        /\ timeLeft'[ei] = timeLeft[ei] - t
        /\ timeLeft'[1 - ei] = timeLeft[1 - ei]
    BY <1>1, <1>3 DEF Typed, Engine
  <1>5. vecInfo' = Append(vecInfo, [engine |-> ei, score |-> s, time |-> t])
    BY DEF Answer
  <1>6. /\ vecInfo' \in Seq(Info) /\ Len(vecInfo') = Len(vecInfo) + 1
        /\ \A k \in 1..Len(vecInfo) : vecInfo'[k] = vecInfo[k]
        /\ vecInfo'[Len(vecInfo) + 1] = [engine |-> ei, score |-> s, time |-> t]
    BY <1>2, <1>5 DEF Typed
  <1> QED
    BY <1>4, <1>6

LEMMA AnswerAdds ==
    ASSUME Typed, NEW s \in Scores, NEW t \in Elapsed, Answer(s, t),
           NEW n, n = Len(vecInfo)
    PROVE  /\ n \in Nat /\ Len(vecInfo') = n + 1 /\ vecInfo' # <<>>
           /\ DOMAIN vecInfo = 1..n /\ DOMAIN vecInfo' = 1..(n + 1)
           /\ \A k \in 1..n : vecInfo'[k] = vecInfo[k]
           /\ vecInfo'[n + 1].engine = ei
           /\ vecInfo'[n + 1].score = s
           /\ vecInfo'[n + 1].time = t
  <1>1. /\ vecInfo' \in Seq(Info) /\ Len(vecInfo') = n + 1
        /\ \A k \in 1..n : vecInfo'[k] = vecInfo[k]
        /\ vecInfo'[n + 1] = [engine |-> ei, score |-> s, time |-> t]
    BY AnswerTyped
  <1>2. n \in Nat /\ DOMAIN vecInfo = 1..n
    BY DEF Typed
  <1>3. DOMAIN vecInfo' = 1..(n + 1) /\ vecInfo' # <<>>
    BY <1>1, <1>2
  <1> QED
    BY <1>1, <1>2, <1>3

LEMMA NewTimeLeftType ==
    ASSUME Typed PROVE NewTimeLeft(ei) \in Int
  <1>1. eo[ei] \in TimeControl /\ timeLeft[ei] \in Int /\ Unlimited \in Nat
    BY SettingTypes DEF Typed
  <1> QED
    BY <1>1 DEF NewTimeLeft, TimeControl

LEMMA CountersTyped ==
    ASSUME Typed, NEW s \in Scores
    PROVE  /\ DrawCounter(s) \in Nat
           /\ [resignCount EXCEPT ![ei] = ResignCounter(s)] \in [Engine -> Nat]
  <1>1. DrawCounter(s) \in Nat
    BY DEF DrawCounter, NoDrawScore, Typed
  <1>2. ResignCounter(s) \in Nat
    BY DEF ResignCounter, ResignCount, Typed
  <1> QED
    BY <1>1, <1>2 DEF Typed

\* What a move adds to the samples.
LEMMA SampleAdds ==
    ASSUME Typed, NEW s \in Scores, Sample(s)
    PROVE  \/ vecSamples' = vecSamples
           \/ /\ Resolve => ~IsMate(s)
              /\ \E c \in 0..1 : /\ NewSample(s, c) \in SampleSet
                                /\ vecSamples' = Append(vecSamples, NewSample(s, c))
  <1>1. CASE UNCHANGED vecSamples
    BY <1>1
  <1>2. CASE ~UNCHANGED vecSamples
    <2>1. PICK c \in (IF Resolve THEN 0..1 ELSE {turn}) :
            vecSamples' = Append(vecSamples, NewSample(s, c))
      BY <1>2 DEF Sample
    <2>2. c \in 0..1
      <3>1. turn \in 0..1
        BY XorBit DEF turn, Typed
      <3> QED
        BY <3>1
    <2>3. s \in Int /\ -s \in Int
      BY SettingTypes
    <2>4. ScoreFor(s, c) \in Int
      BY <2>3 DEF ScoreFor
    <2>5. NewSample(s, c) \in SampleSet
      BY <2>2, <2>4 DEF NewSample, SampleSet, Typed
    <2> QED
      BY <1>2, <2>1, <2>2, <2>5 DEF Sample
  <1> QED
    BY <1>1, <1>2

LEMMA TypedStep == Typed /\ [Next]_vars => Typed'
  <1> SUFFICES ASSUME Typed, [Next]_vars PROVE Typed'
    OBVIOUS
  <1>1. ASSUME NEW s \in ByRules, RulesEnd(s) PROVE Typed'
    <2>1. s \in Losses \cup Draws
      BY DEF ByRules, Losses, Draws
    <2>2. vecSamples' \in Seq(SampleSet)
      BY <1>1, <2>1, EndTyped DEF RulesEnd
    <2> QED
      BY <1>1, <2>1, <2>2 DEF RulesEnd, End, Typed, settings, counters, Places
  <1>2. CASE GoesOn
    BY <1>2 DEF GoesOn, Typed, settings, counters, Places
  <1>3. CASE Go
    <2>1. timeLeft' \in [Engine -> Int]
      BY <1>3, NewTimeLeftType DEF Go, Typed
    <2> QED
      BY <1>3, <2>1 DEF Go, Typed, settings, counters, Places
  <1>4. ASSUME NEW s \in Scores, NEW t \in Elapsed, MoveEnds(s, t) PROVE Typed'
    <2>1. PICK x \in ByMove : state' = x /\ End(x)
      BY <1>4 DEF MoveEnds
    <2>2. x \in Losses \cup Draws
      BY DEF ByMove, Losses, Draws
    <2>3. vecSamples' \in Seq(SampleSet)
      BY <2>1, <2>2, EndTyped
    <2>4. Answer(s, t)
      BY <1>4 DEF MoveEnds
    <2>5. vecInfo' \in Seq(Info) /\ timeLeft' \in [Engine -> Int]
      BY <2>4, AnswerTyped
    <2>6. drawPlyCount' \in Nat /\ resignCount' \in [Engine -> Nat]
      BY <1>4, CountersTyped DEF MoveEnds, Typed
    <2>7. UNCHANGED <<setup, reverse, turn0, eo, ply, ei>> /\ at' = "over"
      BY <2>1 DEF End, settings
    <2> QED
      BY <2>1, <2>2, <2>3, <2>5, <2>6, <2>7 DEF Typed, Places
  <1>5. ASSUME NEW s \in Scores, NEW t \in Elapsed, PlayOn(s, t) PROVE Typed'
    <2>1. Answer(s, t) /\ Sample(s)
      BY <1>5 DEF PlayOn, LegalMove
    <2>2. vecInfo' \in Seq(Info) /\ timeLeft' \in [Engine -> Int]
      BY <2>1, AnswerTyped
    <2>3. vecSamples' \in Seq(SampleSet)
      <3>1. CASE vecSamples' = vecSamples
        BY <3>1 DEF Typed
      <3>2. ASSUME NEW c \in 0..1, NewSample(s, c) \in SampleSet,
                   vecSamples' = Append(vecSamples, NewSample(s, c))
            PROVE  vecSamples' \in Seq(SampleSet)
        BY <3>2 DEF Typed
      <3> QED
        BY <2>1, <3>1, <3>2, SampleAdds
    <2>4. drawPlyCount' \in Nat /\ resignCount' \in [Engine -> Nat]
      BY <1>5, CountersTyped DEF PlayOn
    <2> QED
      BY <1>5, <2>2, <2>3, <2>4 DEF PlayOn, Typed, settings, Places, Engine
  <1>6. CASE UNCHANGED vars
    BY <1>6 DEF vars, Typed, settings, counters
  <1> QED
    BY <1>1, <1>2, <1>3, <1>4, <1>5, <1>6, Steps

-----------------------------------------------------------------------------
(* The engines move in turn.                                               *)

LEMMA InitInTurn == Init => InTurn
  <1> SUFFICES ASSUME Init PROVE InTurn
    OBVIOUS
  <1>1. vecInfo = <<>> /\ Len(vecInfo) = 0 /\ ply = 0 /\ ei = reverse
    BY DEF Init
  <1>2. ei = Xor(reverse, ply)
    BY <1>1 DEF Init, Xor, Engine
  <1> QED
    BY <1>1, <1>2 DEF Init, InTurn

LEMMA InTurnStep == Typed /\ InTurn /\ [Next]_vars => InTurn'
  <1> SUFFICES ASSUME Typed, InTurn, [Next]_vars PROVE InTurn'
    OBVIOUS
  <1> USE DEF settings, counters
  <1>1. ASSUME NEW s \in ByRules, RulesEnd(s) PROVE InTurn'
    BY <1>1 DEF RulesEnd, End, InTurn, Xor
  <1>2. CASE GoesOn
    BY <1>2 DEF GoesOn, InTurn, Xor
  <1>3. CASE Go
    BY <1>3 DEF Go, InTurn, Xor
  <1>4. ASSUME NEW s \in Scores, NEW t \in Elapsed, Answer(s, t)
        PROVE  /\ Len(vecInfo') = ply + 1
               /\ \A k \in 1..Len(vecInfo') : vecInfo'[k].engine = Xor(reverse, k + 1)
    <2>1. at # "over" /\ Len(vecInfo) = ply /\ ply \in Nat
      BY <1>4 DEF Answer, InTurn, Typed
    <2>2. Len(vecInfo') = ply + 1
      BY <1>4, <2>1, AnswerTyped
    <2>3. ASSUME NEW k \in 1..Len(vecInfo) PROVE vecInfo'[k].engine = Xor(reverse, k + 1)
      BY <1>4, <2>3, AnswerTyped DEF InTurn
    <2>4. vecInfo'[ply + 1].engine = ei
      <3>1. vecInfo'[Len(vecInfo) + 1] = [engine |-> ei, score |-> s, time |-> t]
        BY <1>4, AnswerTyped
      <3> QED
        BY <2>1, <3>1
    <2>5. ei = Xor(reverse, ply + 1 + 1)
      BY <2>1 DEF InTurn, Typed, Engine, Xor
    <2> QED
      BY <2>1, <2>2, <2>3, <2>4, <2>5
  <1>5. ASSUME NEW s \in Scores, NEW t \in Elapsed, MoveEnds(s, t) PROVE InTurn'
    <2>1. PICK x \in ByMove : state' = x /\ End(x)
      BY <1>5 DEF MoveEnds
    <2>2. UNCHANGED <<reverse, ply, ei>> /\ at' = "over" /\ state' \in ByMove
      BY <2>1 DEF End
    <2>3. ei' = Xor(reverse', ply')
      BY <2>2 DEF InTurn, Xor
    <2>4. Answer(s, t)
      BY <1>5 DEF MoveEnds
    <2>5. \A k \in 1..Len(vecInfo') : vecInfo'[k].engine = Xor(reverse', k + 1)
      BY <1>4, <2>2, <2>4 DEF Xor
    <2> QED
      BY <1>4, <2>2, <2>3, <2>4, <2>5, Zenon DEF InTurn, Xor
  <1>6. ASSUME NEW s \in Scores, NEW t \in Elapsed, PlayOn(s, t) PROVE InTurn'
    <2>1. Answer(s, t)
      BY <1>6 DEF PlayOn, LegalMove
    <2>2. /\ reverse' = reverse /\ ply' = ply + 1 /\ ei' = 1 - ei
          /\ at' = "rules" /\ state' = state
      BY <1>6 DEF PlayOn
    <2>3. ei' = Xor(reverse', ply')
      <3>1. reverse \in 0..1 /\ ply \in Nat /\ ei = Xor(reverse, ply)
        BY DEF InTurn, Typed, Engine
      <3>2. Xor(reverse, ply + 1) = 1 - ei
        BY <3>1, XorNext
      <3>3. Xor(reverse', ply') = Xor(reverse, ply + 1)
        BY <2>2
      <3> QED
        BY <2>2, <3>2, <3>3
    <2>4. state = "NONE"
      BY <2>1 DEF Answer, InTurn
    <2>5. \A k \in 1..Len(vecInfo') : vecInfo'[k].engine = Xor(reverse', k + 1)
      BY <1>4, <2>2, <2>1 DEF Xor
    <2> QED
      BY <1>4, <2>1, <2>2, <2>3, <2>4, <2>5 DEF InTurn
  <1>7. CASE UNCHANGED vars
    BY <1>7 DEF vars, InTurn, Xor
  <1> QED
    BY <1>1, <1>2, <1>3, <1>5, <1>6, <1>7, Steps

-----------------------------------------------------------------------------
(* Samples.                                                                *)

LEMMA SamplesStep == Typed /\ InTurn /\ SamplesTell /\ [Next]_vars => SamplesTell'
  <1> SUFFICES ASSUME Typed, InTurn, SamplesTell, [Next]_vars PROVE SamplesTell'
    OBVIOUS
  <1> USE DEF settings, counters
  <1> DEFINE Told(s, info) ==
        /\ s.ply \in 0..(Len(info) - 1)
        /\ s.score = IF s.turn = Xor(turn0, s.ply) THEN info[s.ply + 1].score
                     ELSE -info[s.ply + 1].score
        /\ Resolve => ~IsMate(info[s.ply + 1].score)
  <1>a. \A k \in 1..Len(vecSamples) :
          Told(vecSamples[k], vecInfo) /\ vecSamples[k] \in SampleSet
    BY DEF SamplesTell, SampleTells, Typed
  \* A move leaves alone what the samples before it tell.
  <1>b. ASSUME NEW s \in Scores, NEW t \in Elapsed, Answer(s, t),
               NEW k \in 1..Len(vecSamples)
        PROVE  Told(vecSamples[k], vecInfo')
    <2>1. vecSamples[k].ply \in 0..(Len(vecInfo) - 1) /\ Len(vecInfo) \in Nat
      BY <1>a DEF Typed
    <2>2. /\ Len(vecInfo') = Len(vecInfo) + 1
          /\ vecInfo'[vecSamples[k].ply + 1] = vecInfo[vecSamples[k].ply + 1]
      <3>1. /\ Len(vecInfo') = Len(vecInfo) + 1
            /\ \A j \in 1..Len(vecInfo) : vecInfo'[j] = vecInfo[j]
        BY <1>b, AnswerTyped
      <3>2. vecSamples[k].ply + 1 \in 1..Len(vecInfo)
        BY <2>1
      <3> QED
        BY <3>1, <3>2
    <2>3. vecSamples[k].ply \in 0..(Len(vecInfo') - 1)
      BY <2>1, <2>2
    <2> QED
      BY <1>a, <2>2, <2>3
  \* The end of the game fills in the results, and nothing else.
  <1>c. ASSUME NEW s \in Losses \cup Draws, End(s), UNCHANGED <<turn0, ply, setup>>,
               \A k \in 1..Len(vecSamples) : Told(vecSamples[k], vecInfo')
        PROVE  SamplesTell'
    <2>1. /\ wpov(s) \in 0..2 /\ Len(vecSamples') = Len(vecSamples)
          /\ \A k \in 1..Len(vecSamples) :
               vecSamples'[k] =
                 [vecSamples[k] EXCEPT
                    !.result = IF vecSamples[k].turn = WHITE THEN wpov(s)
                               ELSE 2 - wpov(s)]
      BY <1>c, EndTyped
    <2>2. wpov(state)' = wpov(s)
      BY <1>c DEF End, wpov, turn, Xor
    <2>3. ASSUME NEW k \in 1..Len(vecSamples) PROVE SampleTells(vecSamples[k])'
      <3> DEFINE r == IF vecSamples[k].turn = WHITE THEN wpov(s) ELSE 2 - wpov(s)
      <3>1. vecSamples'[k] = [vecSamples[k] EXCEPT !.result = r]
        BY <2>1
      <3> HIDE DEF r
      <3>2. vecSamples[k] \in SampleSet /\ Told(vecSamples[k], vecInfo')
        BY <1>a, <1>c
      <3>3. /\ vecSamples'[k].ply = vecSamples[k].ply
            /\ vecSamples'[k].score = vecSamples[k].score
            /\ vecSamples'[k].turn = vecSamples[k].turn
            /\ vecSamples'[k].result = r
        BY <3>1, <3>2 DEF SampleSet
      <3>4. vecSamples'[k].result = IF vecSamples'[k].turn = WHITE THEN wpov(state)'
                                    ELSE 2 - wpov(state)'
        BY <2>2, <3>3 DEF r
      <3> HIDE DEF Told
      <3>5. Told(vecSamples'[k], vecInfo')
        BY <3>2, <3>3 DEF Told
      <3> QED
        BY <1>c, <3>4, <3>5 DEF SampleTells, Told, Resolve, Xor
    <2> QED
      BY <2>1, <2>3 DEF SamplesTell
  <1>1. ASSUME NEW s \in ByRules, RulesEnd(s) PROVE SamplesTell'
    <2>1. s \in Losses \cup Draws
      BY DEF ByRules, Losses, Draws
    <2>2. End(s) /\ UNCHANGED <<turn0, ply, setup>> /\ vecInfo' = vecInfo
      BY <1>1 DEF RulesEnd, End
    <2> QED
      BY <2>1, <2>2, <1>a, <1>c
  <1>2. CASE GoesOn \/ Go \/ UNCHANGED vars
    <2>1. /\ UNCHANGED <<turn0, ply, setup, state, vecInfo, vecSamples>>
          /\ at' = "over" => at = "over"
      BY <1>2 DEF GoesOn, Go, vars
    <2> QED
      BY <2>1 DEF SamplesTell, SampleTells, Resolve, wpov, turn, Xor
  <1>3. ASSUME NEW s \in Scores, NEW t \in Elapsed, MoveEnds(s, t) PROVE SamplesTell'
    <2>1. PICK x \in ByMove : state' = x /\ End(x)
      BY <1>3 DEF MoveEnds
    <2>2. x \in Losses \cup Draws /\ UNCHANGED <<turn0, ply, setup>>
      BY <2>1 DEF ByMove, Losses, Draws, End
    <2>3. Answer(s, t)
      BY <1>3 DEF MoveEnds
    <2> QED
      BY <2>1, <2>2, <2>3, <1>b, <1>c
  <1>4. ASSUME NEW s \in Scores, NEW t \in Elapsed, PlayOn(s, t) PROVE SamplesTell'
    <2>1. Answer(s, t) /\ Sample(s)
      BY <1>4 DEF PlayOn, LegalMove
    <2>2. UNCHANGED <<turn0, setup>> /\ at' = "rules"
      BY <1>4 DEF PlayOn
    <2>3. ASSUME NEW k \in 1..Len(vecSamples), vecSamples'[k] = vecSamples[k]
          PROVE  SampleTells(vecSamples[k])'
      <3>1. Told(vecSamples[k], vecInfo')
        BY <1>b, <2>1
      <3> QED
        BY <2>2, <2>3, <3>1 DEF SampleTells, Resolve, Xor
    <2>4. CASE vecSamples' = vecSamples
      BY <2>3, <2>4 DEF SamplesTell
    <2>5. ASSUME Resolve => ~IsMate(s), NEW c \in 0..1, NewSample(s, c) \in SampleSet,
                 vecSamples' = Append(vecSamples, NewSample(s, c))
          PROVE  SamplesTell'
      <3> DEFINE n == NewSample(s, c)
      <3>1. n.ply = ply /\ n.turn = c /\ n.score = IF c = Xor(turn0, ply) THEN s ELSE -s
        BY DEF NewSample, ScoreFor, turn
      <3>2. Len(vecInfo) = ply /\ ply \in Nat
        BY <2>1 DEF Answer, InTurn, Typed
      <3>3. Len(vecInfo') = ply + 1 /\ vecInfo'[ply + 1].score = s
        <4>1. /\ Len(vecInfo') = Len(vecInfo) + 1
              /\ vecInfo'[Len(vecInfo) + 1] = [engine |-> ei, score |-> s, time |-> t]
          BY <2>1, AnswerTyped
        <4> QED
          BY <3>2, <4>1
      <3> HIDE DEF n
      <3>4. Told(n, vecInfo')
        BY <2>5, <3>1, <3>2, <3>3
      <3>5. /\ Len(vecSamples') = Len(vecSamples) + 1 /\ Len(vecSamples) \in Nat
            /\ vecSamples'[Len(vecSamples) + 1] = n
            /\ \A k \in 1..Len(vecSamples) : vecSamples'[k] = vecSamples[k]
        BY <2>5 DEF n, Typed
      <3>6. SampleTells(vecSamples[Len(vecSamples)])'
        <4>1. vecSamples'[Len(vecSamples')] = n
          BY <3>5
        <4> QED
          BY <2>2, <3>4, <4>1, <3>5 DEF SampleTells, Resolve, Xor
      <3>7. ASSUME NEW k \in 1..(Len(vecSamples) + 1) PROVE SampleTells(vecSamples[k])'
        <4>1. CASE k \in 1..Len(vecSamples)
          BY <2>3, <3>5, <4>1
        <4>2. CASE k = Len(vecSamples) + 1
          <5>1. vecSamples'[k] = vecSamples'[Len(vecSamples')]
            BY <3>5, <4>2
          <5> QED
            BY <3>6, <5>1 DEF SampleTells
        <4> QED
          BY <3>5, <4>1, <4>2
      <3> QED
        BY <3>5, <3>7 DEF SamplesTell
    <2> QED
      BY <2>1, <2>4, <2>5, SampleAdds
  <1> QED
    BY <1>1, <1>2, <1>3, <1>4, Steps

-----------------------------------------------------------------------------
(* Results.                                                                *)

\* A colour and the engine that plays it, in the opening and after p plies.
LEMMA NamesTurn ==
    ASSUME Typed
    PROVE  /\ \A c \in 0..1 : names(c) \in 0..1 /\ names(1 - c) = 1 - names(c)
           /\ \A c, d \in 0..1 : names(c) = names(d) => c = d
           /\ \A p \in Nat : names(Xor(turn0, p)) = Xor(reverse, p)
  <1> DEFINE bit(p) == p % 2
  <1>1. reverse \in {0, 1} /\ turn0 \in {0, 1}
    BY DEF Typed, Engine
  <1>2. ASSUME NEW c \in {0, 1}
        PROVE  names(c) \in 0..1 /\ names(1 - c) = 1 - names(c)
    BY <1>1, <1>2 DEF names, Xor
  <1>3. ASSUME NEW c \in {0, 1}, NEW d \in {0, 1}, names(c) = names(d) PROVE c = d
    BY <1>1, <1>3 DEF names, Xor
  <1>4. ASSUME NEW p \in Nat PROVE names(Xor(turn0, p)) = Xor(reverse, p)
    <2>1. Xor(turn0, p) \in {0, 1} /\ Xor(reverse, p) \in {0, 1}
      BY <1>1, XorBit
    <2>2. /\ Xor(0, p) = bit(p) /\ Xor(1, p) = 1 - bit(p)
          /\ bit(p) \in {0, 1}
      BY DEF Xor
    <2> HIDE DEF bit
    <2>3. CASE turn0 = 0 /\ reverse = 0
      BY <2>2, <2>3 DEF names, Xor
    <2>4. CASE turn0 = 0 /\ reverse = 1
      <3>1. names(bit(p)) = 1 - bit(p)
        BY <2>2, <2>4 DEF names, Xor
      <3> QED
        BY <2>2, <2>4, <3>1
    <2>5. CASE turn0 = 1 /\ reverse = 0
      <3>1. names(1 - bit(p)) = bit(p)
        BY <2>2, <2>5 DEF names, Xor
      <3> QED
        BY <2>2, <2>5, <3>1
    <2>6. CASE turn0 = 1 /\ reverse = 1
      <3>1. names(1 - bit(p)) = 1 - bit(p)
        BY <2>2, <2>6 DEF names, Xor
      <3> QED
        BY <2>2, <2>6, <3>1
    <2> QED
      BY <1>1, <2>3, <2>4, <2>5, <2>6
  <1> QED
    BY <1>2, <1>3, <1>4

\* The three results of a game say the same, of the colours and of the engines.
LEMMA OneResult ==
    ASSUME Typed, InTurn, at = "over"
    PROVE  /\ SameResult /\ wld(state) \in 0..2
           /\ \A c \in 0..1 : (IF c = WHITE THEN wpov(state) ELSE 2 - wpov(state))
                               = (IF names(c) = 0 THEN wld(state) ELSE 2 - wld(state))
  <1>1. /\ turn \in {0, 1} /\ ei \in {0, 1} /\ names(turn) = ei
        /\ names(WHITE) \in {0, 1} /\ names(1) = 1 - names(WHITE)
    <2>1. 0 \in 0..1 /\ 1 \in 0..1 /\ ply \in Nat /\ turn0 \in Nat
      BY DEF Typed
    <2>2. turn \in {0, 1} /\ ei \in {0, 1}
      BY <2>1, XorBit DEF turn, Typed, Engine
    <2>3. names(turn) = ei
      BY <2>1, NamesTurn DEF turn, InTurn
    <2>4. names(0) \in 0..1 /\ names(1 - 0) = 1 - names(0)
      BY <2>1, NamesTurn
    <2> QED
      BY <2>2, <2>3, <2>4 DEF WHITE
  <1>2. state # "NONE" => state \in Losses \/ state \notin Losses
    OBVIOUS
  <1>3. CASE state \notin Losses
    BY <1>1, <1>3 DEF SameResult, wld, wpov, PgnResult, WHITE
  <1>4. CASE state \in Losses /\ turn = 0
    BY <1>1, <1>4 DEF SameResult, wld, wpov, PgnResult, WHITE
  <1>5. CASE state \in Losses /\ turn = 1
    BY <1>1, <1>5 DEF SameResult, wld, wpov, PgnResult, WHITE
  <1> QED
    BY <1>1, <1>3, <1>4, <1>5

LEMMA ResultsFollow == Typed /\ InTurn /\ SamplesTell => ResultsAgree
  <1> SUFFICES ASSUME Typed, InTurn, SamplesTell, at = "over",
                      NEW k \in DOMAIN vecSamples
               PROVE  SampleAgrees(vecSamples[k])
    BY OneResult DEF ResultsAgree
  <1> DEFINE s == vecSamples[k]
             m == vecInfo[s.ply + 1]
  <1>0. k \in 1..Len(vecSamples)
    BY DEF Typed
  <1>1. s \in SampleSet
    BY <1>0 DEF Typed
  <1>2. SampleTells(s)
    BY <1>0 DEF SamplesTell
  <1>3. s.turn \in 0..1 /\ s.ply \in Nat /\ s.ply + 1 \in 1..Len(vecInfo)
    <2>1. Len(vecInfo) \in Nat
      BY DEF Typed
    <2> QED
      BY <1>1, <1>2, <2>1 DEF SampleTells, SampleSet
  <1> HIDE DEF s
  <1>4. m.engine = Xor(reverse, s.ply)
    <2>1. m.engine = Xor(reverse, s.ply + 1 + 1)
      BY <1>3 DEF InTurn
    <2>2. Xor(reverse, s.ply + 1 + 1) = Xor(reverse, s.ply)
      <3>1. reverse \in 0..1 /\ s.ply \in Nat /\ s.ply + 1 \in Nat
        BY <1>3 DEF Typed, Engine
      <3>2. /\ Xor(reverse, s.ply + 1) = 1 - Xor(reverse, s.ply)
            /\ Xor(reverse, s.ply + 1 + 1) = 1 - Xor(reverse, s.ply + 1)
        BY <3>1, XorNext
      <3>3. Xor(reverse, s.ply) \in 0..1
        BY <3>1, XorBit
      <3> QED
        BY <3>2, <3>3
    <2> QED
      BY <2>1, <2>2
  <1>5. names(s.turn) = m.engine <=> s.turn = Xor(turn0, s.ply)
    <2>1. Xor(turn0, s.ply) \in 0..1
      BY <1>3, XorBit DEF Typed
    <2>2. names(Xor(turn0, s.ply)) = m.engine
      BY <1>3, <1>4, NamesTurn
    <2> QED
      BY <1>3, <2>1, <2>2, NamesTurn
  <1>6. s.result = IF names(s.turn) = 0 THEN wld(state) ELSE 2 - wld(state)
    BY <1>2, <1>3, OneResult DEF SampleTells
  <1>7. /\ s.score = IF names(s.turn) = m.engine THEN m.score ELSE -m.score
        /\ Resolve => ~IsMate(m.score)
    BY <1>2, <1>5 DEF SampleTells
  <1>8. SampleAgrees(s)
    BY <1>6, <1>7 DEF SampleAgrees
  <1> QED
    BY <1>8, OneResult DEF s

-----------------------------------------------------------------------------
(* Sums: what the moves of an engine took.  An induction is an argument by *)
(* the least counterexample.                                               *)

\* A non-empty set of naturals has a least element: induction by the least
\* counterexample.
LEMMA LeastNatural ==
    ASSUME NEW T \in SUBSET Nat, T # {}
    PROVE  \E m \in T : \A k \in T : m <= k
  <1>1. PICK m \in T : \A k \in T : ~(<<k, m>> \in OpToRel(<, Nat))
    BY WFMin, NatLessThanWellFounded, Zenon
  <1>2. ASSUME NEW k \in T, k < m PROVE FALSE
    <2>1. <<k, m>> \in Nat \X Nat
      BY Zenon
    <2>2. <<k, m>> \in OpToRel(<, Nat)
      BY <1>2, <2>1, Zenon DEF OpToRel
    <2> QED
      BY <1>1, <2>2, Zenon
  <1>3. \A k \in T : ~(k < m)
    BY ONLY <1>2, Zenon
  <1> QED
    BY <1>3

LEMMA SumNat ==
    ASSUME NEW a \in Nat, NEW x \in Nat
    PROVE  a + x \in Nat
  OBVIOUS

\* f sums up the first n elements of s.
SumsUp(f, s, n) == f = [k \in 0..n |-> IF k = 0 THEN 0 ELSE f[k - 1] + s[k]]

LEMMA SumExists ==
    ASSUME NEW s \in Seq(Nat), NEW n \in Nat
    PROVE  \E f : SumsUp(f, s, n)
  <1> DEFINE Bad == {m \in Nat : ~\E f : SumsUp(f, s, m)}
  <1>1. SUFFICES ASSUME Bad # {} PROVE FALSE
    OBVIOUS
  <1>2. PICK m \in Bad : \A k \in Bad : m <= k
    BY <1>1, LeastNatural
  <1>3. m # 0
    <2>1. SumsUp([k \in 0..0 |-> 0], s, 0)
      BY DEF SumsUp
    <2> QED
      BY <1>2, <2>1
  <1>4. PICK g : SumsUp(g, s, m - 1)
    BY <1>2, <1>3
  <1> DEFINE f == [k \in 0..m |-> IF k = m THEN g[m - 1] + s[m] ELSE g[k]]
  <1>5. SumsUp(f, s, m)
    <2>1. g = [k \in 0..(m - 1) |-> IF k = 0 THEN 0 ELSE g[k - 1] + s[k]]
      BY <1>4 DEF SumsUp
    <2>2. ASSUME NEW k \in 0..m PROVE f[k] = IF k = 0 THEN 0 ELSE f[k - 1] + s[k]
      <3>1. CASE k = m
        BY <1>3, <3>1
      <3>2. CASE k # m
        <4>1. k \in 0..(m - 1) /\ f[k] = g[k] /\ (k # 0 => k - 1 \in 0..m /\ k - 1 # m)
          BY <3>2
        <4>2. k # 0 => f[k - 1] = g[k - 1]
          BY <4>1
        <4> QED
          BY <2>1, <4>1, <4>2
      <3> QED
        BY <3>1, <3>2
    <2> HIDE DEF f
    <2>3. f = [k \in 0..m |-> f[k]]
      BY DEF f
    <2> QED
      BY <2>2, <2>3 DEF SumsUp
  <1> QED
    BY <1>2, <1>5

LEMMA SumUnique ==
    ASSUME NEW s \in Seq(Nat), NEW s2 \in Seq(Nat), NEW n \in 0..Len(s), NEW n2 \in n..Len(s2),
           NEW f, NEW g, SumsUp(f, s, n), SumsUp(g, s2, n2),
           \A k \in 1..n : s2[k] = s[k]
    PROVE  \A k \in 0..n : f[k] = g[k] /\ f[k] \in Nat
  <1>0. n \in Nat /\ n2 \in Nat /\ n <= n2 /\ 0..n \subseteq Nat
    OBVIOUS
  <1> DEFINE Bad == {k \in 0..n : ~(f[k] = g[k] /\ f[k] \in Nat)}
  <1>1. SUFFICES ASSUME Bad # {} PROVE FALSE
    OBVIOUS
  <1>2. PICK m \in Bad : \A k \in Bad : m <= k
    <2>1. Bad \in SUBSET Nat
      BY <1>0
    <2> HIDE DEF Bad
    <2> QED
      BY <1>1, <2>1, LeastNatural
  <1>3. /\ f[m] = IF m = 0 THEN 0 ELSE f[m - 1] + s[m]
        /\ g[m] = IF m = 0 THEN 0 ELSE g[m - 1] + s2[m]
    <2>1. m \in 0..n /\ m \in 0..n2
      BY <1>0, <1>2
    <2>2. f[m] = IF m = 0 THEN 0 ELSE f[m - 1] + s[m]
      BY <2>1 DEF SumsUp
    <2>3. g[m] = IF m = 0 THEN 0 ELSE g[m - 1] + s2[m]
      BY <2>1 DEF SumsUp
    <2> QED
      BY <2>2, <2>3
  <1>4. m # 0
    BY <1>3
  <1>5. m - 1 \in 0..n /\ m \in 1..n
    BY <1>4
  <1>6. f[m - 1] = g[m - 1] /\ f[m - 1] \in Nat
    BY <1>2, <1>5
  <1>7. s2[m] = s[m] /\ s[m] \in Nat
    <2>1. s2[m] = s[m]
      BY <1>5, Zenon
    <2>2. m \in 1..Len(s)
      BY <1>5
    <2> QED
      BY <2>1, <2>2, SMTT(40)
  <1>8. f[m] = f[m - 1] + s[m] /\ g[m] = g[m - 1] + s2[m]
    BY ONLY <1>3, <1>4
  <1>9. f[m] = g[m] /\ f[m] \in Nat
    <2>1. PICK a, x : /\ a = f[m - 1] /\ x = s[m]
                      /\ a \in Nat /\ x \in Nat /\ a = g[m - 1] /\ x = s2[m]
      BY ONLY <1>6, <1>7, Zenon
    <2>2. f[m] = a + x /\ g[m] = a + x
      BY ONLY <1>8, <2>1, Zenon
    <2>3. a + x \in Nat
      BY ONLY <2>1, SumNat, Zenon
    <2> QED
      BY ONLY <2>2, <2>3, Zenon
  <1> QED
    BY <1>2, <1>9

LEMMA TotalIs ==
    ASSUME NEW s \in Seq(Nat)
    PROVE  \E f : SumsUp(f, s, Len(s)) /\ Total(s) = f[Len(s)]
  <1>1. \E f : SumsUp(f, s, Len(s))
    BY SumExists
  <1> DEFINE f == CHOOSE f : SumsUp(f, s, Len(s))
  <1>2. SumsUp(f, s, Len(s))
    BY <1>1
  <1>3. Total(s) = f[Len(s)]
    BY DEF Total, SumsUp
  <1> QED
    BY <1>2, <1>3

\* The sum of a sequence that has one element more.
LEMMA TotalAdds ==
    ASSUME NEW s \in Seq(Nat), NEW s2 \in Seq(Nat), Len(s2) = Len(s) + 1,
           \A k \in 1..Len(s) : s2[k] = s[k]
    PROVE  Total(s) \in Nat /\ Total(s2) = Total(s) + s2[Len(s) + 1]
  <1>1. PICK f : SumsUp(f, s, Len(s)) /\ Total(s) = f[Len(s)]
    BY TotalIs
  <1>2. PICK g : SumsUp(g, s2, Len(s2)) /\ Total(s2) = g[Len(s2)]
    BY TotalIs
  <1>3. PICK n \in Nat : n = Len(s)
    OBVIOUS
  <1>4. f[n] = g[n] /\ f[n] \in Nat
    <2>1. /\ n \in 0..Len(s) /\ Len(s2) \in n..Len(s2) /\ n \in 0..n
          /\ SumsUp(f, s, n) /\ SumsUp(g, s2, Len(s2))
          /\ \A k \in 1..n : s2[k] = s[k]
      BY <1>1, <1>2, <1>3
    <2>2. \A k \in 0..n : f[k] = g[k] /\ f[k] \in Nat
      BY <2>1, SumUnique
    <2> QED
      BY <2>1, <2>2
  <1>5. g[n + 1] = g[n] + s2[n + 1]
    BY <1>2, <1>3 DEF SumsUp
  <1> QED
    BY <1>1, <1>2, <1>3, <1>4, <1>5

LEMMA TotalEmpty == Total(<<>>) = 0
  <1>1. PICK f : SumsUp(f, <<>>, Len(<<>>)) /\ Total(<<>>) = f[Len(<<>>)]
    <2>1. <<>> \in Seq(Nat)
      OBVIOUS
    <2> QED
      BY <2>1, TotalIs
  <1> QED
    BY <1>1 DEF SumsUp

-----------------------------------------------------------------------------
(* Quotients: the moves that an engine has begun, and its refills.         *)

LEMMA DivMod ==
    ASSUME NEW b \in Nat, NEW c \in Nat \ {0}
    PROVE  /\ b \div c \in Nat /\ b % c \in 0..(c - 1)
           /\ b = c * (b \div c) + (b % c)
  OBVIOUS

LEMMA TimesNext ==
    ASSUME NEW x \in Nat, NEW y \in Nat
    PROVE  x * (y + 1) = x * y + x /\ x * y \in Nat
  OBVIOUS

LEMMA DivUnique ==
    ASSUME NEW b \in Nat, NEW c \in Nat \ {0}, NEW q \in Nat, NEW r \in 0..(c - 1),
           b = c * q + r
    PROVE  b \div c = q /\ b % c = r
  <1> DEFINE p == b \div c
             u == b % c
  <1>1. p \in Nat /\ u \in 0..(c - 1) /\ b = c * p + u
    BY DivMod
  <1> HIDE DEF p, u
  <1>2. ASSUME NEW x \in Nat, NEW y \in Nat, x < y PROVE c * x + c <= c * y
    <2>1. PICK z \in Nat : y = x + 1 + z
      <3>1. y - x - 1 \in Nat /\ y = x + 1 + (y - x - 1)
        BY <1>2
      <3> QED
        BY <3>1
    <2>2. c * (x + 1 + z) = c * x + c + c * z /\ c * z >= 0
      OBVIOUS
    <2> QED
      BY <2>1, <2>2
  <1>3. ~(p < q)
    BY <1>1, <1>2
  <1>4. ~(q < p)
    BY <1>1, <1>2
  <1>5. p = q
    BY <1>1, <1>3, <1>4
  <1> QED
    BY <1>1, <1>5 DEF p, u

LEMMA DivNext ==
    ASSUME NEW b \in Nat \ {0}, NEW c \in Nat \ {0}
    PROVE  b \div c = (b - 1) \div c + (IF b % c = 0 THEN 1 ELSE 0)
  <1> DEFINE q == (b - 1) \div c
             r == (b - 1) % c
  <1>1. q \in Nat /\ r \in 0..(c - 1) /\ b - 1 = c * q + r
    <2>1. b - 1 \in Nat
      OBVIOUS
    <2> QED
      BY <2>1, DivMod
  <1> HIDE DEF q, r
  <1>2. CASE r + 1 < c
    <2>1. b = c * q + (r + 1) /\ r + 1 \in 0..(c - 1)
      BY <1>1, <1>2
    <2>2. b \div c = q /\ b % c = r + 1
      BY <1>1, <2>1, DivUnique
    <2> QED
      BY <1>1, <2>2 DEF q
  <1>3. CASE r + 1 = c
    <2>1. b = c * (q + 1) + 0 /\ q + 1 \in Nat /\ 0 \in 0..(c - 1)
      BY <1>1, <1>3
    <2>2. b \div c = q + 1 /\ b % c = 0
      BY <2>1, DivUnique
    <2> QED
      BY <2>2 DEF q
  <1> QED
    BY <1>1, <1>2, <1>3

\* The moves up to the next refill.
LEMMA ToRefill ==
    ASSUME NEW b \in Nat, NEW c \in Nat \ {0}
    PROVE  c - (b % c) \in 1..c /\ (b + (c - (b % c))) % c = 0
  <1>1. /\ b \div c \in Nat /\ b % c \in 0..(c - 1)
        /\ b = c * (b \div c) + (b % c)
    BY DivMod
  <1>2. PICK q \in Nat, r \in 0..(c - 1) : q = b \div c /\ r = b % c
    BY <1>1
  <1>3. b + (c - r) = c * (q + 1) + 0
    BY <1>1, <1>2
  <1>4. b + (c - r) \in Nat /\ q + 1 \in Nat /\ 0 \in 0..(c - 1)
    BY <1>2
  <1> QED
    <2>1. (b + (c - r)) % c = 0
      BY <1>3, <1>4, DivUnique
    <2>2. c - r \in 1..c
      BY <1>2
    <2> QED
      BY <1>2, <2>1, <2>2

-----------------------------------------------------------------------------
(* The moves of an engine.                                                 *)

LEMMA MovesFinite ==
    ASSUME Typed, NEW e \in Engine
    PROVE  /\ Moves(e) \subseteq 1..Len(vecInfo) /\ IsFiniteSet(Moves(e))
           /\ Cardinality(Moves(e)) \in Nat
           /\ \A k \in Nat : /\ IsFiniteSet({j \in Moves(e) : j > k})
                            /\ MovesAfter(e, k) \in Nat
  <1>1. Moves(e) \subseteq 1..Len(vecInfo) /\ Len(vecInfo) \in Nat
    BY DEF Moves, Typed
  <1>2. IsFiniteSet(1..Len(vecInfo))
    BY <1>1, FS_Interval
  <1>3. IsFiniteSet(Moves(e))
    BY <1>1, <1>2, FS_Subset
  <1>4. ASSUME NEW k \in Nat
        PROVE  IsFiniteSet({j \in Moves(e) : j > k}) /\ MovesAfter(e, k) \in Nat
    <2>1. {j \in Moves(e) : j > k} \subseteq Moves(e)
      OBVIOUS
    <2>2. IsFiniteSet({j \in Moves(e) : j > k})
      BY <1>3, <2>1, FS_Subset
    <2> QED
      BY <2>2, FS_CardinalityType DEF MovesAfter
  <1>5. Cardinality(Moves(e)) \in Nat
    BY <1>3, FS_CardinalityType
  <1> QED
    BY <1>1, <1>3, <1>4, <1>5

\* A move of an engine is its last one, and one more after each of the others.
LEMMA MoverAdds ==
    ASSUME Typed, NEW s \in Scores, NEW t \in Elapsed, Answer(s, t),
           NEW e \in Engine, e = ei, NEW n, n = Len(vecInfo)
    PROVE  /\ Moves(e)' = Moves(e) \cup {n + 1} /\ n + 1 \notin Moves(e)
           /\ Cardinality(Moves(e))' = Cardinality(Moves(e)) + 1
           /\ MovesAfter(e, n + 1)' = 0
           /\ \A k \in Moves(e) : MovesAfter(e, k)' = MovesAfter(e, k) + 1
  <1>1. /\ Len(vecInfo') = n + 1 /\ n \in Nat
        /\ \A k \in 1..n : vecInfo'[k] = vecInfo[k]
        /\ vecInfo'[n + 1].engine = e
        /\ DOMAIN vecInfo = 1..n /\ DOMAIN vecInfo' = 1..(n + 1)
    BY AnswerAdds
  <1>2. Moves(e)' = Moves(e) \cup {n + 1}
    BY <1>1 DEF Moves
  <1>3. Moves(e) \subseteq 1..n /\ IsFiniteSet(Moves(e)) /\ n + 1 \notin Moves(e)
    BY <1>1, MovesFinite
  <1>4. Cardinality(Moves(e)') = Cardinality(Moves(e)) + 1
    BY <1>2, <1>3, FS_AddElement
  <1>5. MovesAfter(e, n + 1)' = 0
    <2>1. {j \in Moves(e)' : j > n + 1} = {}
      BY <1>1, <1>2, <1>3
    <2> QED
      BY <2>1, FS_EmptySet DEF MovesAfter
  <1>6. ASSUME NEW k \in Moves(e) PROVE MovesAfter(e, k)' = MovesAfter(e, k) + 1
    <2> DEFINE T == {j \in Moves(e) : j > k}
    <2>1. {j \in Moves(e)' : j > k} = T \cup {n + 1}
      BY <1>1, <1>2, <1>3
    <2>2. IsFiniteSet(T) /\ n + 1 \notin T
      BY <1>1, <1>3, MovesFinite
    <2>3. Cardinality(T \cup {n + 1}) = Cardinality(T) + 1
      BY <2>2, FS_AddElement
    <2> QED
      BY <2>1, <2>3 DEF MovesAfter
  <1> QED
    BY <1>2, <1>3, <1>4, <1>5, <1>6

LEMMA OtherKeeps ==
    ASSUME Typed, NEW s \in Scores, NEW t \in Elapsed, Answer(s, t),
           NEW e \in Engine, e # ei
    PROVE  /\ Moves(e)' = Moves(e)
           /\ \A k \in Moves(e) : MovesAfter(e, k)' = MovesAfter(e, k)
  <1> DEFINE n == Len(vecInfo)
  <1>1. /\ Len(vecInfo') = n + 1 /\ n \in Nat
        /\ \A k \in 1..n : vecInfo'[k] = vecInfo[k]
        /\ vecInfo'[n + 1].engine # e
        /\ DOMAIN vecInfo = 1..n /\ DOMAIN vecInfo' = 1..(n + 1)
    BY AnswerAdds
  <1> HIDE DEF n
  <1>2. Moves(e)' = Moves(e)
    BY <1>1 DEF Moves
  <1> QED
    BY <1>2 DEF MovesAfter

-----------------------------------------------------------------------------
(* Adjudication.                                                           *)

LEMMA HalfPly ==
    ASSUME NEW p \in Nat
    PROVE  /\ (p + 2) \div 2 = p \div 2 + 1 /\ p \div 2 \in Nat
           /\ p > 1 <=> p \div 2 >= 1
  OBVIOUS

\* A score more, and the longest even tail.
LEMMA EvenTailAdds ==
    ASSUME NEW n \in Nat, NEW b \in Nat, NEW info, NEW new, NEW d \in Nat, NEW d2 \in Nat,
           Len(info) = n, Len(new) = n + 1,
           \A k \in 1..n : new[k] = info[k],
           EvenTail(info, d, b),
           d2 = IF new[n + 1].score \in (-b)..b THEN d + 1 ELSE 0
    PROVE  EvenTail(new, d2, b)
  <1>1. CASE new[n + 1].score \in (-b)..b
    <2>1. d2 = d + 1 /\ d2 <= n + 1 /\ n + 1 - d2 = n - d
      BY <1>1 DEF EvenTail
    <2>2. ASSUME NEW k \in 1..(n + 1), k > n + 1 - d2 PROVE new[k].score \in (-b)..b
      BY <1>1, <2>1, <2>2 DEF EvenTail
    <2>3. ASSUME d2 < n + 1 PROVE new[n + 1 - d2].score \notin (-b)..b
      <3>1. d < n /\ n - d \in 1..n
        BY <2>1, <2>3
      <3> QED
        BY <2>1, <3>1 DEF EvenTail
    <2> QED
      BY <2>1, <2>2, <2>3 DEF EvenTail
  <1>2. CASE new[n + 1].score \notin (-b)..b
    BY <1>2 DEF EvenTail
  <1> QED
    BY <1>1, <1>2

\* The last m scores are even when the longest even tail is as long as that.
LEMMA EvenTailLength ==
    ASSUME NEW n \in Nat, NEW b \in Nat, NEW info, NEW d \in Nat,
           Len(info) = n, EvenTail(info, d, b), NEW m \in Nat, m <= n
    PROVE  (\A k \in (n + 1 - m)..n : info[k].score \in (-b)..b) <=> d >= m
  <1>1. ASSUME d >= m, NEW k \in (n + 1 - m)..n PROVE info[k].score \in (-b)..b
    BY <1>1 DEF EvenTail
  <1>2. ASSUME d < m, \A k \in (n + 1 - m)..n : info[k].score \in (-b)..b PROVE FALSE
    <2>1. d < n /\ n - d \in (n + 1 - m)..n
      BY <1>2
    <2> QED
      BY <1>2, <2>1 DEF EvenTail
  <1> QED
    BY <1>1, <1>2

\* The conditions of the draw rule, as the code tests them, are those of the
\* documentation after the move.
LEMMA DrawRuleApplied ==
    ASSUME Typed, InTurn, DrawCountTells, UNCHANGED setup,
           NEW s \in Scores, NEW t \in Elapsed, Answer(s, t)
    PROVE  /\ DrawDue' <=> DrawAgreed(s)
           /\ drawPlyCount' = DrawCounter(s) => DrawCountTells'
  <1>0. PICK n, c, b, d, m :
          /\ n = Len(vecInfo) /\ c = Draw.count /\ b = Draw.score
          /\ d = DrawCounter(s) /\ m = 2 * Draw.count
    OBVIOUS
  <1>1. /\ Len(vecInfo') = n + 1 /\ n \in Nat /\ n = ply /\ at # "over"
        /\ \A k \in 1..n : vecInfo'[k] = vecInfo[k]
        /\ vecInfo'[n + 1].score = s
    BY <1>0, AnswerAdds DEF InTurn, Answer
  <1>2. /\ Draw' = Draw /\ c \in Nat /\ b \in Nat /\ Draw.number \in Nat
        /\ drawPlyCount \in Nat /\ d \in Nat /\ m \in Nat /\ (c # 0 => m > 0)
    <2>1. Draw \in Rule /\ Draw' = Draw
      BY SettingTypes DEF Draw
    <2>2. c \in Nat /\ b \in Nat /\ Draw.number \in Nat
      BY <1>0, <2>1 DEF Rule
    <2>3. d \in Nat /\ drawPlyCount \in Nat
      BY <1>0, CountersTyped DEF Typed
    <2> QED
      BY <1>0, <2>1, <2>2, <2>3
  <1>3. (n + 1 + 1) \div 2 = ply \div 2 + 1
    BY <1>1, HalfPly
  <1>4. ASSUME c # 0 PROVE EvenTail(vecInfo', d, b)
    <2>1. EvenTail(vecInfo, drawPlyCount, b)
      BY <1>0, <1>1, <1>4 DEF DrawCountTells
    <2>2. d = IF vecInfo'[n + 1].score \in (-b)..b THEN drawPlyCount + 1 ELSE 0
      BY <1>0, <1>1, <1>4 DEF DrawCounter, NoDrawScore
    <2>3. Len(vecInfo) = n
      BY <1>0
    <2> QED
      BY <1>1, <1>2, <2>1, <2>2, <2>3, EvenTailAdds
  <1>5. DrawDue' <=> /\ c # 0 /\ n + 1 >= m
                     /\ \A k \in (n + 1 + 1 - m)..(n + 1) : vecInfo'[k].score \in (-b)..b
                     /\ ply \div 2 + 1 >= Draw.number
    <2>1. Len(vecInfo') = n + 1 /\ Draw' = Draw
      BY <1>1, <1>2
    <2>2. DrawDue' <=>
            /\ Draw.count # 0 /\ n + 1 >= 2 * Draw.count
            /\ \A k \in (n + 1 + 1 - 2 * Draw.count)..(n + 1) :
                 vecInfo'[k].score \in (-Draw.score)..Draw.score
            /\ (n + 1 + 1) \div 2 >= Draw.number
      BY <2>1 DEF DrawDue
    <2> QED
      BY <1>0, <1>3, <2>2
  <1>6. DrawAgreed(s) <=> /\ c # 0 /\ s \in (-b)..b /\ d >= m
                          /\ ply \div 2 + 1 >= Draw.number
    BY <1>0 DEF DrawAgreed
  <1>7. ASSUME c # 0
        PROVE  /\ n + 1 >= m
               /\ \A k \in (n + 1 + 1 - m)..(n + 1) : vecInfo'[k].score \in (-b)..b
               <=> s \in (-b)..b /\ d >= m
    <2>1. EvenTail(vecInfo', d, b) /\ d <= n + 1
      BY <1>1, <1>4, <1>7 DEF EvenTail
    <2>2. CASE n + 1 >= m
      <3>1. n + 1 \in Nat
        BY <1>1
      <3>2. (\A k \in (n + 1 + 1 - m)..(n + 1) : vecInfo'[k].score \in (-b)..b)
              <=> d >= m
        BY <1>1, <1>2, <2>1, <2>2, <3>1, EvenTailLength
      <3>3. ASSUME d >= m PROVE s \in (-b)..b
        <4>1. n + 1 > n + 1 - d /\ n + 1 \in 1..(n + 1)
          BY <1>1, <1>2, <1>7, <3>3
        <4>2. Len(vecInfo') = n + 1
          BY <1>1
        <4>3. \A k \in 1..(n + 1) : k > n + 1 - d => vecInfo'[k].score \in (-b)..b
          BY <1>1, <1>2, <2>1, <4>2, SMT DEF EvenTail
        <4> QED
          BY <1>1, <4>1, <4>3
      <3> QED
        BY <2>2, <3>2, <3>3
    <2>3. CASE ~(n + 1 >= m)
      BY <1>1, <1>2, <2>1, <2>3
    <2> QED
      BY <2>2, <2>3
  <1>8. ASSUME drawPlyCount' = DrawCounter(s) PROVE DrawCountTells'
    BY <1>0, <1>2, <1>4, <1>8 DEF DrawCountTells
  <1> QED
    BY <1>5, <1>6, <1>7, <1>8

\* One more move, and the longest lost tail.
LEMMA LostTailAdds ==
    ASSUME NEW M, NEW x, x \notin M,
           NEW card \in Nat, NEW c \in Nat, NEW b \in Nat,
           NEW after \in [M -> Nat], NEW after2,
           \A k \in M : after2[k] = after[k] + 1, after2[x] = 0,
           NEW info, NEW info2, \A k \in M : info2[k] = info[k],
           LostTail(M, card, after, info, c, b)
    PROVE  LostTail(M \cup {x}, card + 1, after2, info2,
                    IF info2[x].score <= -b THEN c + 1 ELSE 0, b)
  <1> DEFINE M2 == M \cup {x}
             c2 == IF info2[x].score <= -b THEN c + 1 ELSE 0
  <1>1. CASE info2[x].score <= -b
    <2>1. c2 = c + 1 /\ c2 <= card + 1
      BY <1>1 DEF LostTail
    <2>2. ASSUME NEW k \in M2, after2[k] < c2 PROVE info2[k].score <= -b
      <3>1. CASE k = x
        BY <1>1, <3>1
      <3>2. CASE k \in M
        <4>1. after[k] \in Nat /\ after2[k] = after[k] + 1
          BY <3>2
        <4> QED
          BY <2>1, <2>2, <3>2, <4>1 DEF LostTail
      <3> QED
        BY <3>1, <3>2
    <2>3. ASSUME c2 < card + 1
          PROVE  \E k \in M2 : after2[k] = c2 /\ ~(info2[k].score <= -b)
      <3>1. c < card
        BY <2>1, <2>3
      <3>2. PICK k \in M : after[k] = c /\ ~(info[k].score <= -b)
        BY <3>1 DEF LostTail
      <3> QED
        BY <2>1, <3>2
    <2> QED
      BY <2>1, <2>2, <2>3 DEF LostTail
  <1>2. CASE ~(info2[x].score <= -b)
    <2>1. c2 = 0 /\ x \in M2 /\ after2[x] = c2 /\ ~(info2[x].score <= -b)
      BY <1>2
    <2>2. ASSUME NEW k \in M2 PROVE ~(after2[k] < c2)
      <3>1. CASE k = x
        BY <2>1, <3>1
      <3>2. CASE k \in M
        <4>1. after[k] \in Nat /\ after2[k] = after[k] + 1
          BY <3>2
        <4> QED
          BY <2>1, <4>1
      <3> QED
        BY <3>1, <3>2
    <2> QED
      BY <2>1, <2>2 DEF LostTail
  <1> QED
    BY <1>1, <1>2

\* The last m moves are lost when the longest lost tail is as long as that.
LEMMA LostTailLength ==
    ASSUME NEW M, NEW card \in Nat, NEW c \in Nat, NEW b \in Nat, NEW m \in Nat,
           NEW after \in [M -> Nat], NEW info, LostTail(M, card, after, info, c, b)
    PROVE  /\ card >= m
           /\ \A k \in M : after[k] < m => info[k].score <= -b
           <=> c >= m
  <1>1. ASSUME c >= m, NEW k \in M, after[k] < m
        PROVE  info[k].score <= -b
    BY <1>1 DEF LostTail
  <1>2. ASSUME c < m, card >= m, \A k \in M : after[k] < m => info[k].score <= -b
        PROVE  FALSE
    BY <1>2 DEF LostTail
  <1>3. c >= m => card >= m
    BY DEF LostTail
  <1> QED
    BY <1>1, <1>2, <1>3

\* The same of the resign rule, which counts the moves of one engine.
LEMMA ResignRuleApplied ==
    ASSUME Typed, InTurn, \A e \in Engine : ResignCountTells(e), UNCHANGED setup,
           NEW s \in Scores, NEW t \in Elapsed, Answer(s, t)
    PROVE  /\ ResignDue' <=> Resigns(s)
           /\ resignCount' = [resignCount EXCEPT ![ei] = ResignCounter(s)]
                => \A e \in Engine : ResignCountTells(e)'
  <1>0. PICK n, e, c, b, d :
          /\ n = Len(vecInfo) /\ e = ei /\ c = Resign.count /\ b = Resign.score
          /\ d = ResignCounter(s)
    OBVIOUS
  <1>1. /\ Len(vecInfo') = n + 1 /\ n \in Nat /\ n = ply /\ at # "over"
        /\ \A k \in 1..n : vecInfo'[k] = vecInfo[k]
        /\ vecInfo'[n + 1].score = s /\ vecInfo'[n + 1].engine = e
        /\ vecInfo' # <<>>
    BY <1>0, AnswerAdds DEF InTurn, Answer
  <1>2. /\ Resign' = Resign /\ c \in Nat /\ b \in Nat /\ Resign.number \in Nat
        /\ e \in Engine /\ resignCount[e] \in Nat /\ d \in Nat
    <2>1. Resign \in Rule /\ Resign' = Resign
      BY SettingTypes DEF Resign
    <2>2. c \in Nat /\ b \in Nat /\ Resign.number \in Nat
      BY <1>0, <2>1 DEF Rule
    <2>3. e \in Engine /\ resignCount[e] \in Nat
      BY <1>0 DEF Typed
    <2>4. d \in Nat
      BY <1>0, <2>3 DEF ResignCounter, ResignCount
    <2> QED
      BY <2>1, <2>2, <2>3, <2>4
  <1>3. (n + 1 + 1) \div 2 = ply \div 2 + 1
    BY <1>1, HalfPly
  <1>4. /\ Moves(e)' = Moves(e) \cup {n + 1} /\ n + 1 \notin Moves(e)
        /\ Cardinality(Moves(e))' = Cardinality(Moves(e)) + 1
        /\ MovesAfter(e, n + 1)' = 0
        /\ \A k \in Moves(e) : MovesAfter(e, k)' = MovesAfter(e, k) + 1
    BY <1>0, <1>2, MoverAdds
  <1>5. ASSUME NEW f \in Engine
        PROVE  /\ Moves(f) \subseteq 1..n /\ Cardinality(Moves(f)) \in Nat
               /\ After(f) \in [Moves(f) -> Nat]
               /\ \A k \in Moves(f) : After(f)[k] = MovesAfter(f, k)
    <2>1. /\ Moves(f) \subseteq 1..n /\ Cardinality(Moves(f)) \in Nat
          /\ \A k \in Nat : MovesAfter(f, k) \in Nat
      BY <1>0, MovesFinite
    <2>2. \A k \in Moves(f) : k \in Nat
      BY <2>1
    <2> QED
      BY <2>1, <2>2 DEF After
  <1>6. /\ After(e)' \in [Moves(e)' -> Nat]
        /\ After(e)'[n + 1] = 0
        /\ \A k \in Moves(e) : After(e)'[k] = After(e)[k] + 1
        /\ \A k \in Moves(e)' : After(e)'[k] = MovesAfter(e, k)'
    <2>1. After(e)' = [k \in Moves(e)' |-> MovesAfter(e, k)']
      BY DEF After
    <2>2. \A k \in Moves(e) : After(e)[k] \in Nat /\ After(e)[k] = MovesAfter(e, k)
      BY <1>2, <1>5
    <2>3. \A k \in Moves(e)' : MovesAfter(e, k)' \in Nat
      BY <1>4, <2>2
    <2> QED
      BY <1>4, <2>1, <2>2, <2>3
  <1>7. ASSUME c # 0
        PROVE  LostTail(Moves(e)', Cardinality(Moves(e)) + 1, After(e)', vecInfo', d, b)
    <2>1. LostTail(Moves(e), Cardinality(Moves(e)), After(e), vecInfo, resignCount[e], b)
      BY <1>0, <1>1, <1>2, <1>7 DEF ResignCountTells
    <2>2. d = IF vecInfo'[n + 1].score <= -b THEN resignCount[e] + 1 ELSE 0
      BY <1>0, <1>1, <1>7 DEF ResignCounter, ResignCount
    <2>3. \A k \in Moves(e) : vecInfo'[k] = vecInfo[k]
      BY <1>1, <1>2, <1>5
    <2>4. Cardinality(Moves(e)) \in Nat /\ After(e) \in [Moves(e) -> Nat]
      BY <1>2, <1>5
    <2> QED
      <3>1. \A k \in Moves(e) : After(e)'[k] = After(e)[k] + 1
        BY <1>6
      <3>2. /\ Moves(e)' = Moves(e) \cup {n + 1} /\ n + 1 \notin Moves(e)
            /\ After(e)'[n + 1] = 0
            /\ resignCount[e] \in Nat /\ b \in Nat
        BY <1>2, <1>4, <1>6
      <3> QED
        <4>1. LostTail(Moves(e) \cup {n + 1}, Cardinality(Moves(e)) + 1, After(e)',
                       vecInfo',
                       IF vecInfo'[n + 1].score <= -b THEN resignCount[e] + 1 ELSE 0, b)
          BY <2>1, <2>3, <2>4, <3>1, <3>2, LostTailAdds
        <4> QED
          BY <2>2, <3>2, <4>1
  <1>8. ResignDue' <=> /\ c # 0 /\ Cardinality(Moves(e)) + 1 >= c
                       /\ \A k \in Moves(e)' : After(e)'[k] < c
                            => vecInfo'[k].score <= -b
                       /\ ply \div 2 + 1 >= Resign.number
    <2>1. LastEngine' = e
      BY <1>1 DEF LastEngine
    <2>2. ResignDue' <=>
            /\ vecInfo' # <<>> /\ Resign'.count # 0
            /\ Cardinality(Moves(e)') >= Resign'.count
            /\ \A k \in Moves(e)' :
                  MovesAfter(e, k)' < Resign'.count
                     => vecInfo'[k].score <= -Resign'.score
            /\ (Len(vecInfo') + 1) \div 2 >= Resign'.number
      BY <2>1 DEF ResignDue, Moves, MovesAfter
    <2> QED
      BY <1>0, <1>1, <1>2, <1>3, <1>4, <1>6, <2>2
  <1>9. Resigns(s) <=> /\ c # 0 /\ s <= -b /\ d >= c
                       /\ ply \div 2 + 1 >= Resign.number
    BY <1>0 DEF Resigns
  <1>10. ASSUME c # 0 PROVE (s <= -b /\ d >= c) <=> d >= c
    BY <1>0, <1>2, <1>10 DEF ResignCounter
  <1>11. ResignDue' <=> Resigns(s)
    <2>1. ASSUME c # 0
          PROVE  /\ Cardinality(Moves(e)) + 1 >= c
                 /\ \A k \in Moves(e)' : After(e)'[k] < c => vecInfo'[k].score <= -b
                 <=> d >= c
      <3>1. Cardinality(Moves(e)) + 1 \in Nat
        BY <1>2, <1>5
      <3> QED
        BY <1>2, <1>6, <1>7, <2>1, <3>1, LostTailLength
    <2> QED
      BY <1>8, <1>9, <1>10, <2>1
  <1>12. ASSUME resignCount' = [resignCount EXCEPT ![ei] = ResignCounter(s)],
                NEW f \in Engine
         PROVE  ResignCountTells(f)'
    <2>1. CASE f = e
      <3>1. resignCount'[e] = d
        BY <1>0, <1>2, <1>12 DEF Typed
      <3> QED
        BY <1>0, <1>2, <1>4, <1>7, <2>1, <3>1 DEF ResignCountTells
    <2>2. CASE f # e
      <3>1. /\ Moves(f)' = Moves(f)
            /\ \A k \in Moves(f) : MovesAfter(f, k)' = MovesAfter(f, k)
        BY <1>0, <2>2, OtherKeeps
      <3>2. After(f)' = After(f)
        BY <3>1 DEF After
      <3>3. resignCount'[f] = resignCount[f]
        BY <1>0, <1>12, <2>2 DEF Typed
      <3>4. \A k \in Moves(f) : vecInfo'[k] = vecInfo[k]
        BY <1>1, <1>5
      <3>5. ASSUME c # 0
            PROVE  LostTail(Moves(f), Cardinality(Moves(f)), After(f), vecInfo',
                            resignCount[f], b)
        <4>1. LostTail(Moves(f), Cardinality(Moves(f)), After(f), vecInfo,
                       resignCount[f], b)
          BY <1>0, <1>1, <3>5 DEF ResignCountTells
        <4> QED
          BY <3>4, <4>1 DEF LostTail
      <3>6. Cardinality(Moves(f))' = Cardinality(Moves(f))
        BY <3>1
      <3> QED
        BY <1>0, <1>2, <3>1, <3>2, <3>3, <3>5, <3>6 DEF ResignCountTells
    <2> QED
      BY <2>1, <2>2
  <1> QED
    BY <1>11, <1>12

\* Without a move the rules are as due as before.
LEMMA RulesKept ==
    ASSUME UNCHANGED <<setup, vecInfo>>
    PROVE  /\ DrawDue' <=> DrawDue
           /\ ResignDue' <=> ResignDue
           /\ ResignDue => LastEngine' = LastEngine
  <1>1. Draw' = Draw /\ Resign' = Resign
    BY DEF Draw, Resign
  <1>2. DrawDue' <=> DrawDue
    BY <1>1 DEF DrawDue
  <1>3. ResignDue' <=> ResignDue
    BY <1>1 DEF ResignDue, LastEngine, Moves, MovesAfter
  <1> QED
    BY <1>2, <1>3 DEF LastEngine

LEMMA CountersKept ==
    ASSUME UNCHANGED <<setup, vecInfo, counters>>, at' # "over" => at # "over",
           CountersTell
    PROVE  CountersTell'
  <1>1. Draw' = Draw /\ Resign' = Resign
    BY DEF Draw, Resign
  <1>2. DrawCountTells'
    BY <1>1 DEF CountersTell, DrawCountTells, counters
  <1>3. ASSUME NEW e \in Engine PROVE ResignCountTells(e)'
    <2>1. ResignCountTells(e)
      BY DEF CountersTell
    <2>2. Moves(e)' = Moves(e) /\ After(e)' = After(e)
      BY DEF After, Moves, MovesAfter
    <2> QED
      BY <1>1, <2>1, <2>2 DEF ResignCountTells, counters
  <1> QED
    BY <1>2, <1>3 DEF CountersTell

LEMMA InitAdjudicated == Init => CountersTell /\ AdjudicatedWhenDue
  <1> SUFFICES ASSUME Init PROVE CountersTell /\ AdjudicatedWhenDue
    OBVIOUS
  <1>1. vecInfo = <<>> /\ Len(vecInfo) = 0 /\ drawPlyCount = 0 /\ state = "NONE"
    BY DEF Init
  <1>2. Typed
    BY InitTyped
  <1>3. DrawCountTells
    BY <1>1 DEF DrawCountTells, EvenTail
  <1>4. ASSUME NEW e \in Engine PROVE ResignCountTells(e)
    <2>1. Moves(e) = {} /\ Cardinality(Moves(e)) = 0
      BY <1>1, FS_EmptySet DEF Moves
    <2>2. resignCount[e] = 0
      BY DEF Init
    <2> QED
      BY <2>1, <2>2 DEF ResignCountTells, LostTail
  <1>5. ~ResignDue
    BY <1>1 DEF ResignDue
  <1>6. ~DrawDue
    <2>1. Draw \in Rule
      BY <1>2, SettingTypes
    <2> QED
      BY <1>1, <2>1 DEF DrawDue, Rule
  <1> QED
    BY <1>1, <1>3, <1>4, <1>5, <1>6 DEF CountersTell, AdjudicatedWhenDue

LEMMA AdjudicationStep ==
    Typed /\ InTurn /\ CountersTell /\ AdjudicatedWhenDue /\ [Next]_vars
      => CountersTell' /\ AdjudicatedWhenDue'
  <1> SUFFICES ASSUME Typed, InTurn, CountersTell, AdjudicatedWhenDue, [Next]_vars
               PROVE  CountersTell' /\ AdjudicatedWhenDue'
    OBVIOUS
  <1> USE DEF settings
  <1>0. at # "over" => ~DrawDue /\ ~ResignDue
    BY DEF InTurn, AdjudicatedWhenDue
  <1>1. CASE ApplyRules
    <2>1. at = "rules" /\ UNCHANGED <<setup, vecInfo, counters>>
      BY <1>1 DEF ApplyRules, End
    <2>2. state' \in ByRules \/ state' = state
      BY <1>1 DEF ApplyRules, End
    <2>3. state' \notin ByMove
      BY <2>1, <2>2 DEF InTurn, ByRules, ByMove
    <2>4. ~DrawDue' /\ ~ResignDue'
      BY <1>0, <2>1, RulesKept
    <2>5. AdjudicatedWhenDue'
      BY <2>3, <2>4 DEF AdjudicatedWhenDue, ByMove
    <2> QED
      BY <2>1, <2>5, CountersKept
  <1>2. CASE Go
    <2>1. /\ at # "over" /\ at' # "over"
          /\ UNCHANGED <<setup, vecInfo, counters, state>>
      BY <1>2 DEF Go
    <2>2. ~DrawDue' /\ ~ResignDue'
      BY <1>0, <2>1, RulesKept
    <2>3. state' = "NONE"
      BY <2>1 DEF InTurn
    <2> QED
      BY <2>1, <2>2, <2>3, CountersKept DEF AdjudicatedWhenDue
  <1> DEFINE Done == CountersTell' /\ AdjudicatedWhenDue'
  \* What End leaves of the counters is not used any more.
  <1>3. ASSUME at' = "over" PROVE CountersTell'
    BY <1>3 DEF CountersTell, DrawCountTells, ResignCountTells
  <1>4. ASSUME NEW s \in Scores, NEW t \in Elapsed,
               GivesUp(s, t) \/ IllegalMove(s, t) \/ LateMove(s, t)
        PROVE  Done
    <2>1. at' = "over" /\ state' \in {"TIME_LOSS", "ILLEGAL_MOVE"}
      BY <1>4 DEF GivesUp, IllegalMove, LateMove, End
    <2> QED
      BY <1>3, <2>1 DEF AdjudicatedWhenDue
  <1>5. ASSUME NEW s \in Scores, NEW t \in Elapsed, AgreeDraw(s, t) PROVE Done
    <2>1. /\ Answer(s, t) /\ DrawAgreed(s) /\ UNCHANGED setup
          /\ at' = "over" /\ state' = "DRAW_ADJUDICATION"
      BY <1>5 DEF AgreeDraw, LegalMove, End
    <2>2. DrawDue'
      BY <2>1, DrawRuleApplied DEF CountersTell
    <2> QED
      BY <1>3, <2>1, <2>2 DEF AdjudicatedWhenDue
  <1>6. ASSUME NEW s \in Scores, NEW t \in Elapsed, ResignGame(s, t) PROVE Done
    <2>1. /\ Answer(s, t) /\ ~DrawAgreed(s) /\ Resigns(s)
          /\ UNCHANGED <<setup, ei>> /\ at' = "over" /\ state' = "RESIGN"
      BY <1>6 DEF ResignGame, LegalMove, End
    <2>2. ~DrawDue' /\ ResignDue'
      BY <2>1, DrawRuleApplied, ResignRuleApplied DEF CountersTell
    <2>3. LastEngine' = ei'
      <3>1. PICK n : n = Len(vecInfo)
        OBVIOUS
      <3>2. Len(vecInfo') = n + 1 /\ vecInfo'[n + 1].engine = ei
        BY <2>1, <3>1, AnswerAdds
      <3> QED
        BY <2>1, <3>2 DEF LastEngine
    <2> QED
      BY <1>3, <2>1, <2>2, <2>3 DEF AdjudicatedWhenDue
  <1>7. ASSUME NEW s \in Scores, NEW t \in Elapsed, PlayOn(s, t) PROVE Done
    <2>1. /\ Answer(s, t) /\ ~DrawAgreed(s) /\ ~Resigns(s)
          /\ UNCHANGED <<setup, state>> /\ at' = "rules"
          /\ drawPlyCount' = DrawCounter(s)
          /\ resignCount' = [resignCount EXCEPT ![ei] = ResignCounter(s)]
      BY <1>7 DEF PlayOn, LegalMove
    <2>2. ~DrawDue' /\ DrawCountTells'
      BY <2>1, DrawRuleApplied DEF CountersTell
    <2>3. ~ResignDue' /\ \A e \in Engine : ResignCountTells(e)'
      BY <2>1, ResignRuleApplied DEF CountersTell
    <2>4. state' = "NONE"
      BY <2>1 DEF Answer, InTurn
    <2> QED
      BY <2>2, <2>3, <2>4 DEF AdjudicatedWhenDue, CountersTell
  <1>8. CASE UNCHANGED vars
    <2>1. UNCHANGED <<setup, vecInfo, counters, state, at, ei>>
      BY <1>8 DEF vars
    <2>2. /\ DrawDue' <=> DrawDue
          /\ ResignDue' <=> ResignDue
          /\ ResignDue => LastEngine' = LastEngine
      BY <2>1, RulesKept
    <2>3. AdjudicatedWhenDue'
      BY <2>1, <2>2 DEF AdjudicatedWhenDue
    <2> QED
      BY <2>1, <2>3, CountersKept
  <1> QED
    BY <1>1, <1>2, <1>4, <1>5, <1>6, <1>7, <1>8 DEF Next, Over

-----------------------------------------------------------------------------
(* Clocks.                                                                 *)

\* What a time control gives for the first b moves.
GivenOf(tc, b) ==
    IF b = 0 THEN tc.time
    ELSE tc.time * (1 + (IF tc.movestogo = 0 THEN 0 ELSE (b - 1) \div tc.movestogo))
           + tc.increment * b

LEMMA GivenNext ==
    ASSUME NEW tc \in TimeControl, NEW b \in Nat
    PROVE  /\ GivenOf(tc, b) \in Nat
           /\ GivenOf(tc, b + 1) =
                GivenOf(tc, b) + tc.increment
                  + (IF tc.movestogo # 0 /\ b >= 1 /\ b % tc.movestogo = 0
                     THEN tc.time ELSE 0)
  <1>1. PICK m, x, i : /\ m = tc.movestogo /\ x = tc.time /\ i = tc.increment
                       /\ m \in Nat /\ x \in Nat /\ i \in Nat
    BY DEF TimeControl
  <1> DEFINE q(k) == IF m = 0 THEN 0 ELSE (k - 1) \div m
  <1>2. ASSUME NEW k \in Nat \ {0}
        PROVE  /\ GivenOf(tc, k) = x * (1 + q(k)) + i * k
               /\ q(k) \in Nat
    <2>1. GivenOf(tc, k) = x * (1 + q(k)) + i * k
      BY <1>1, <1>2 DEF GivenOf
    <2>2. k - 1 \in Nat
      OBVIOUS
    <2>3. m # 0 => (k - 1) \div m \in Nat
      BY <1>1, <2>2, DivMod
    <2> QED
      BY <2>1, <2>3
  <1>3. GivenOf(tc, 0) = x
    BY <1>1 DEF GivenOf
  <1>4. CASE b = 0
    <2>1. GivenOf(tc, 1) = x * (1 + q(1)) + i * 1
      BY <1>2
    <2>2. q(1) = 0
      <3>1. ASSUME m # 0 PROVE 0 \div m = 0
        <4>1. 0 = m * 0 + 0 /\ 0 \in 0..(m - 1) /\ m \in Nat \ {0}
          BY <1>1, <3>1
        <4> QED
          BY <4>1, DivUnique
      <3> QED
        BY <3>1
    <2>3. GivenOf(tc, 1) = x + i
      BY <1>1, <2>1, <2>2
    <2> QED
      BY <1>1, <1>3, <1>4, <2>3
  <1>5. CASE b # 0
    <2>1. /\ GivenOf(tc, b) = x * (1 + q(b)) + i * b /\ q(b) \in Nat
          /\ GivenOf(tc, b + 1) = x * (1 + q(b + 1)) + i * (b + 1)
      BY <1>2, <1>5
    <2>2. GivenOf(tc, b) \in Nat
      <3>1. x * (1 + q(b)) \in Nat /\ i * b \in Nat
        BY <1>1, <2>1
      <3> QED
        BY <2>1, <3>1
    <2>3. q(b + 1) = q(b) + (IF m # 0 /\ b % m = 0 THEN 1 ELSE 0)
      <3>1. b + 1 - 1 = b
        OBVIOUS
      <3>2. m # 0 => b \div m = (b - 1) \div m + (IF b % m = 0 THEN 1 ELSE 0)
        BY <1>1, <1>5, DivNext
      <3> QED
        BY <3>1, <3>2
    <2> HIDE DEF q
    <2>4. i * (b + 1) = i * b + i /\ i * b \in Nat
      BY <1>1, TimesNext
    <2>5. CASE m # 0 /\ b % m = 0
      <3>1. q(b + 1) = q(b) + 1
        BY <2>3, <2>5
      <3>2. x * (1 + q(b + 1)) = x * (1 + q(b)) + x /\ x * (1 + q(b)) \in Nat
        <4>1. 1 + q(b) \in Nat /\ 1 + q(b + 1) = (1 + q(b)) + 1
          BY <2>1, <3>1
        <4> QED
          BY <1>1, <4>1, TimesNext
      <3> QED
        BY <1>1, <1>5, <2>1, <2>2, <2>5, <2>4, <3>2
    <2>6. CASE ~(m # 0 /\ b % m = 0)
      <3>1. q(b + 1) = q(b)
        BY <2>1, <2>3, <2>6
      <3>2. x * (1 + q(b + 1)) = x * (1 + q(b)) /\ x * (1 + q(b)) \in Nat
        <4>1. 1 + q(b) \in Nat
          BY <2>1
        <4> QED
          BY <1>1, <3>1, <4>1, TimesNext
      <3> QED
        BY <1>1, <1>5, <2>1, <2>2, <2>6, <2>4, <3>2
    <2> QED
      BY <2>5, <2>6
  <1> QED
    BY <1>4, <1>5

LEMMA UsedType ==
    ASSUME Typed, NEW e \in Engine
    PROVE  LET times == [k \in DOMAIN vecInfo |->
                           IF vecInfo[k].engine = e THEN vecInfo[k].time ELSE 0]
           IN  /\ times \in Seq(Nat) /\ Len(times) = Len(vecInfo)
               /\ Used(e) = Total(times) /\ Used(e) \in Nat
  <1> DEFINE times == [k \in DOMAIN vecInfo |->
                         IF vecInfo[k].engine = e THEN vecInfo[k].time ELSE 0]
  <1>1. times \in Seq(Nat) /\ Len(times) = Len(vecInfo)
    <2>1. DOMAIN vecInfo = 1..Len(vecInfo) /\ Len(vecInfo) \in Nat
      BY DEF Typed
    <2>2. ASSUME NEW k \in DOMAIN vecInfo PROVE vecInfo[k].time \in Nat
      <3>1. vecInfo[k] \in Info
        BY <2>1 DEF Typed
      <3> QED
        BY <3>1 DEF Info
    <2> QED
      BY <2>1, <2>2
  <1>2. Used(e) = Total(times)
    BY DEF Used
  <1>3. Total(times) \in Nat
    <2>1. Append(times, 0) \in Seq(Nat) /\ Len(Append(times, 0)) = Len(times) + 1
      BY <1>1
    <2>2. \A k \in 1..Len(times) : Append(times, 0)[k] = times[k]
      BY <1>1
    <2> HIDE DEF times
    <2> QED
      BY <1>1, <2>1, <2>2, TotalAdds
  <1> QED
    BY <1>1, <1>2, <1>3

LEMMA UsedAdds ==
    ASSUME Typed, NEW s \in Scores, NEW t \in Elapsed, Answer(s, t), NEW e \in Engine
    PROVE  /\ Used(e) \in Nat
           /\ Used(e)' = Used(e) + (IF e = ei THEN t ELSE 0)
  <1>0. PICK n : n = Len(vecInfo)
    OBVIOUS
  <1>1. /\ n \in Nat /\ Len(vecInfo') = n + 1
        /\ DOMAIN vecInfo = 1..n /\ DOMAIN vecInfo' = 1..(n + 1)
        /\ \A k \in 1..n : vecInfo'[k] = vecInfo[k]
        /\ vecInfo'[n + 1].engine = ei /\ vecInfo'[n + 1].time = t
    BY <1>0, AnswerAdds
  <1>2. PICK old : /\ old = [k \in DOMAIN vecInfo |->
                               IF vecInfo[k].engine = e THEN vecInfo[k].time ELSE 0]
                   /\ old \in Seq(Nat) /\ Len(old) = n
                   /\ Used(e) = Total(old) /\ Used(e) \in Nat
    BY <1>0, UsedType
  <1>3. PICK new : new = [k \in DOMAIN vecInfo' |->
                            IF vecInfo'[k].engine = e THEN vecInfo'[k].time ELSE 0]
    OBVIOUS
  <1>4. Used(e)' = Total(new)
    BY <1>3 DEF Used
  <1>5. t \in Nat
    BY SettingTypes
  <1>6. /\ \A k \in 1..n : new[k] = old[k] /\ old[k] \in Nat
        /\ new[n + 1] = IF e = ei THEN t ELSE 0
    BY <1>1, <1>2, <1>3
  <1>7. new \in Seq(Nat) /\ Len(new) = n + 1
    <2>1. new = [k \in 1..(n + 1) |-> new[k]]
      BY <1>1, <1>3
    <2>2. \A k \in 1..(n + 1) : new[k] \in Nat
      BY <1>1, <1>5, <1>6
    <2> QED
      BY <1>1, <2>1, <2>2
  <1>8. Total(new) = Total(old) + new[n + 1]
    BY <1>2, <1>6, <1>7, TotalAdds
  <1> QED
    BY <1>2, <1>4, <1>6, <1>8

ClockInv == MovesCounted /\ LimitTells /\ ClocksAreFair /\ TimeLossDeserved

\* The clock of e, as ClocksAreFair has it.
FairClock(e) ==
    Clocked(e) /\ eo[e].movetime = 0 => timeLeft[e] = Given(e) - Used(e)

LEMMA GivenIs ==
    ASSUME Typed, NEW e \in Engine
    PROVE  /\ Given(e) = GivenOf(eo[e], Begun(e)) /\ Given(e) \in Nat
           /\ Begun(e) = Cardinality(Moves(e)) + (IF at = "think" /\ ei = e THEN 1 ELSE 0)
           /\ Begun(e) \in Nat /\ eo[e] \in TimeControl
  <1>1. Given(e) = GivenOf(eo[e], Begun(e))
    BY DEF Given, GivenOf
  <1>2. Begun(e) = Cardinality(Moves(e)) + (IF at = "think" /\ ei = e THEN 1 ELSE 0)
    BY DEF Begun
  <1>3. Begun(e) \in Nat
    BY <1>2, MovesFinite
  <1>4. eo[e] \in TimeControl
    BY DEF Typed
  <1> QED
    BY <1>1, <1>2, <1>3, <1>4, GivenNext

\* The clock sent under a colour is that of the engine that plays it.
LEMMA ClockOfColour ==
    ASSUME Typed, InTurn, NEW c \in 0..1
    PROVE  ClockOf(c) = names(c)
  <1>1. reverse \in {0, 1} /\ turn0 \in {0, 1} /\ c \in {0, 1} /\ ply \in Nat
    BY DEF Typed, Engine
  <1>2. PICK p \in {0, 1} : p = ply % 2
    BY <1>1
  <1>3. ei = Xor(reverse, p) /\ turn = Xor(turn0, p)
    BY <1>1, <1>2 DEF InTurn, turn, Xor
  <1>4. CASE p = 0
    <2>1. ei = reverse /\ turn = turn0
      BY <1>1, <1>3, <1>4 DEF Xor
    <2> QED
      BY <1>1, <2>1 DEF ClockOf, names, Xor
  <1>5. CASE p = 1
    <2>1. ei = 1 - reverse /\ turn = 1 - turn0
      BY <1>1, <1>3, <1>5 DEF Xor
    <2> QED
      BY <1>1, <2>1 DEF ClockOf, names, Xor
  <1> QED
    BY <1>4, <1>5

\* When an engine begins to think it gets what its time control gives it.
LEMMA GoFair ==
    ASSUME Typed, InTurn, ClockInv, Go
    PROVE  /\ \A e \in Engine : FairClock(e)'
           /\ \A e \in Engine : Used(e)' = Used(e) /\ Given(e)' >= Given(e)
           /\ Begun(ei)' - 1 = ply \div 2
  <1>1. /\ at = "go" /\ at' = "think" /\ eo' = eo /\ ei' = ei /\ vecInfo' = vecInfo
        /\ ei \in Engine /\ ply \in Nat
        /\ timeLeft' = [timeLeft EXCEPT ![ei] = NewTimeLeft(ei)]
    BY DEF Go, settings, Typed
  <1>2. ASSUME NEW e \in Engine
        PROVE  /\ Used(e)' = Used(e) /\ Used(e) \in Nat
               /\ Begun(e) \in Nat /\ Given(e) \in Nat
               /\ Begun(e) = Cardinality(Moves(e))
               /\ Begun(e)' = Begun(e) + (IF e = ei THEN 1 ELSE 0)
               /\ Given(e) = GivenOf(eo[e], Begun(e))
               /\ Given(e)' = GivenOf(eo[e], Begun(e)')
               /\ eo[e] \in TimeControl /\ timeLeft[e] \in Int
    <2>1. Used(e)' = Used(e)
      BY <1>1 DEF Used
    <2>2. Moves(e)' = Moves(e)
      BY <1>1 DEF Moves
    <2>3. /\ Given(e) = GivenOf(eo[e], Begun(e)) /\ Given(e) \in Nat
          /\ Begun(e) = Cardinality(Moves(e)) /\ Begun(e) \in Nat
          /\ eo[e] \in TimeControl
      <3>1. Cardinality(Moves(e)) \in Nat
        BY MovesFinite
      <3> QED
        BY <1>1, <3>1, GivenIs
    <2>4. Begun(e)' = Begun(e) + (IF e = ei THEN 1 ELSE 0)
      BY <1>1, <2>2, <2>3 DEF Begun
    <2>5. Given(e)' = GivenOf(eo[e], Begun(e)')
      BY <1>1 DEF Given, GivenOf
    <2> QED
      BY <2>1, <2>3, <2>4, <2>5, UsedType DEF Typed
  <1>3. Begun(ei) = ply \div 2
    BY <1>1, <1>2 DEF ClockInv, MovesCounted
  <1>4. ASSUME NEW e \in Engine, e # ei
        PROVE  FairClock(e)' /\ Given(e)' >= Given(e)
    <2>1. Given(e)' = Given(e) /\ timeLeft'[e] = timeLeft[e]
      BY <1>1, <1>2, <1>4 DEF Typed
    <2>2. FairClock(e)
      BY DEF ClockInv, ClocksAreFair, FairClock
    <2> QED
      BY <1>1, <1>2, <2>1, <2>2 DEF FairClock, Clocked
  <1>5. ASSUME NEW e \in Engine, e = ei
        PROVE  FairClock(e)' /\ Given(e)' >= Given(e)
    <2> DEFINE b == ply \div 2
               refill == IF eo[e].movestogo # 0 /\ b >= 1 /\ b % eo[e].movestogo = 0
                         THEN eo[e].time ELSE 0
    <2>1. Begun(e) = b /\ Begun(e)' = b + 1 /\ b \in Nat /\ (ply > 1 <=> b >= 1)
      BY <1>1, <1>2, <1>3, <1>5, HalfPly
    <2>2. Refilled(e) <=> eo[e].movestogo # 0 /\ b >= 1 /\ b % eo[e].movestogo = 0
      BY <2>1 DEF Refilled
    <2>3. Given(e)' = GivenOf(eo[e], b + 1) /\ Given(e) = GivenOf(eo[e], b)
      BY <1>2, <2>1
    <2>4. /\ eo[e].increment \in Nat /\ eo[e].time \in Nat /\ refill \in Nat
          /\ Given(e) \in Nat
      BY <1>2 DEF TimeControl
    <2>5. Given(e)' = Given(e) + eo[e].increment + refill
      BY <1>2, <2>1, <2>3, GivenNext
    <2>6. timeLeft'[e] = NewTimeLeft(e)
      BY <1>1, <1>5 DEF Typed
    <2>7. ASSUME Clocked(e), eo[e].movetime = 0
          PROVE  timeLeft'[e] = timeLeft[e] + eo[e].increment + refill
      BY <2>2, <2>6, <2>7 DEF NewTimeLeft
    <2>8. FairClock(e)
      BY DEF ClockInv, ClocksAreFair, FairClock
    <2> HIDE DEF b, refill
    <2>9. ASSUME Clocked(e), eo[e].movetime = 0
          PROVE  timeLeft'[e] = Given(e)' - Used(e)'
      <3>1. timeLeft[e] = Given(e) - Used(e) /\ Used(e)' = Used(e) /\ Used(e) \in Nat
        BY <1>2, <2>8, <2>9 DEF FairClock
      <3> QED
        BY <2>4, <2>5, <2>7, <2>9, <3>1
    <2>10. FairClock(e)'
      BY <1>1, <2>9 DEF FairClock, Clocked
    <2> QED
      BY <2>4, <2>5, <2>10
  <1>6. Begun(ei)' - 1 = ply \div 2
    <2>1. ply \div 2 \in Nat
      BY <1>1
    <2> QED
      BY <1>1, <1>2, <1>3, <2>1
  <1> QED
    BY <1>2, <1>4, <1>5, <1>6

\* When it answers, what it took goes off its clock; and it has overdrawn exactly
\* when its clock has run out.
LEMMA AnswerFair ==
    ASSUME Typed, InTurn, ClockInv, NEW s \in Scores, NEW t \in Elapsed, Answer(s, t),
           UNCHANGED eo, at' # "think"
    PROVE  /\ \A e \in Engine : FairClock(e)'
           /\ \A e \in Engine : e # ei => ~Overdrawn(e)'
           /\ \A e \in Engine : e = ei =>
                /\ Overdrawn(e)' <=> timeLeft[e] < t
                /\ timeLeft[e] < t => Limited(e)
  <1>0. PICK n : n = Len(vecInfo)
    OBVIOUS
  <1>1. /\ at = "think" /\ ei \in Engine /\ state = "NONE" /\ t \in Nat /\ t < Unlimited
        /\ timeLeft' = [timeLeft EXCEPT ![ei] = @ - t]
    BY SettingTypes DEF Answer, Typed, InTurn
  <1>2. /\ n \in Nat /\ \A k \in 1..n : vecInfo'[k] = vecInfo[k]
        /\ vecInfo'[n + 1].time = t
    BY <1>0, AnswerAdds
  <1>3. ASSUME NEW e \in Engine
        PROVE  /\ Used(e)' = Used(e) + (IF e = ei THEN t ELSE 0) /\ Used(e) \in Nat
               /\ Given(e)' = Given(e) /\ Given(e) \in Nat
               /\ eo[e] \in TimeControl /\ timeLeft[e] \in Int
               /\ timeLeft'[e] = timeLeft[e] - (IF e = ei THEN t ELSE 0)
               /\ FairClock(e) /\ ~Overdrawn(e)
               /\ Moves(e) \subseteq 1..n
               /\ Moves(e)' = IF e = ei THEN Moves(e) \cup {n + 1} ELSE Moves(e)
    <2>1. /\ Moves(e)' = IF e = ei THEN Moves(e) \cup {n + 1} ELSE Moves(e)
          /\ Cardinality(Moves(e))' = Cardinality(Moves(e)) + (IF e = ei THEN 1 ELSE 0)
      <3>1. CASE e = ei
        BY <1>0, <3>1, MoverAdds
      <3>2. CASE e # ei
        <4>1. Moves(e)' = Moves(e)
          BY <3>2, OtherKeeps
        <4>2. Cardinality(Moves(e)) \in Nat
          BY MovesFinite
        <4> QED
          BY <3>2, <4>1, <4>2
      <3> QED
        BY <3>1, <3>2
    <2>2. /\ Cardinality(Moves(e)) \in Nat /\ Moves(e) \subseteq 1..n
      BY <1>0, MovesFinite
    <2>3. Begun(e)' = Begun(e)
      BY <1>1, <2>1, <2>2 DEF Begun
    <2>4. Given(e)' = Given(e)
      BY <2>3 DEF Given
    <2>5. Given(e) \in Nat /\ eo[e] \in TimeControl
      BY GivenIs
    <2>6. timeLeft[e] \in Int /\ timeLeft'[e] = timeLeft[e] - (IF e = ei THEN t ELSE 0)
      BY <1>1 DEF Typed
    <2>7. FairClock(e) /\ ~Overdrawn(e)
      BY <1>1 DEF ClockInv, ClocksAreFair, TimeLossDeserved, FairClock
    <2>8. /\ Used(e)' = Used(e) + (IF e = ei THEN t ELSE 0) /\ Used(e) \in Nat
      BY UsedAdds
    <2> QED
      BY <2>1, <2>2, <2>4, <2>5, <2>6, <2>7, <2>8
  <1>4. ASSUME NEW e \in Engine PROVE FairClock(e)'
    <2>1. ASSUME Clocked(e), eo[e].movetime = 0 PROVE timeLeft'[e] = Given(e)' - Used(e)'
      <3>1. timeLeft[e] = Given(e) - Used(e)
        BY <1>3, <2>1 DEF FairClock
      <3> QED
        BY <1>1, <1>3, <3>1
    <2> QED
      BY <2>1 DEF FairClock, Clocked
  <1>5. ASSUME NEW e \in Engine, e # ei PROVE ~Overdrawn(e)'
    <2>1. /\ Moves(e)' = Moves(e) /\ Used(e)' = Used(e) /\ Given(e)' = Given(e)
          /\ \A k \in Moves(e) : vecInfo'[k] = vecInfo[k]
      BY <1>2, <1>3, <1>5
    <2>2. ~Overdrawn(e)
      BY <1>3
    <2> QED
      BY <2>1, <2>2 DEF Overdrawn, Clocked
  <1>6. ASSUME NEW e \in Engine, e = ei
        PROVE  /\ Overdrawn(e)' <=> timeLeft[e] < t
               /\ timeLeft[e] < t => Limited(e)
    <2>1. /\ eo[e].movetime # 0 => timeLeft[e] = eo[e].movetime
          /\ eo[e].movetime = 0 /\ ~Clocked(e) => timeLeft[e] = Unlimited
      BY <1>1, <1>6 DEF ClockInv, LimitTells
    <2>2. eo[e].movetime \in Nat /\ Unlimited \in Nat
      BY <1>3, SettingTypes DEF TimeControl
    <2>3. CASE eo[e].movetime # 0
      <3>1. \A k \in Moves(e) : vecInfo'[k] = vecInfo[k] /\ ~(vecInfo[k].time > eo[e].movetime)
        <4>1. ~Overdrawn(e)
          BY <1>3
        <4> QED
          BY <1>2, <1>3, <2>3, <4>1 DEF Overdrawn
      <3>2. (\E k \in Moves(e)' : vecInfo'[k].time > eo[e].movetime) <=> t > eo[e].movetime
        BY <1>2, <1>3, <1>6, <3>1
      <3>3. Overdrawn(e)' <=> t > eo[e].movetime
        BY <2>3, <3>2 DEF Overdrawn
      <3> QED
        BY <1>1, <2>1, <2>2, <2>3, <3>3 DEF Limited
    <2>4. CASE eo[e].movetime = 0 /\ Clocked(e)
      <3>1. Overdrawn(e)' <=> Used(e)' > Given(e)'
        BY <2>4 DEF Overdrawn, Clocked
      <3>2. timeLeft[e] = Given(e) - Used(e)
        BY <1>3, <2>4 DEF FairClock
      <3>3. Used(e)' > Given(e)' <=> timeLeft[e] < t
        BY <1>1, <1>3, <1>6, <3>2
      <3> QED
        BY <2>4, <3>1, <3>3 DEF Limited
    <2>5. CASE eo[e].movetime = 0 /\ ~Clocked(e)
      <3>1. ~Overdrawn(e)'
        BY <2>5 DEF Overdrawn, Clocked
      <3>2. ~(timeLeft[e] < t)
        BY <1>1, <2>1, <2>2, <2>5
      <3> QED
        BY <3>1, <3>2
    <2> QED
      BY <2>3, <2>4, <2>5
  <1> QED
    BY <1>4, <1>5, <1>6

LEMMA InitClocks == Init => ClockInv
  <1> SUFFICES ASSUME Init PROVE ClockInv
    OBVIOUS
  <1>1. /\ vecInfo = <<>> /\ at = "rules" /\ ply = 0 /\ state = "NONE"
        /\ timeLeft = [e \in Engine |-> eo[e].time] /\ ei \in Engine
    BY DEF Init
  <1>2. Typed
    BY InitTyped
  <1>3. ASSUME NEW e \in Engine
        PROVE  /\ Moves(e) = {} /\ Cardinality(Moves(e)) = 0 /\ Begun(e) = 0
               /\ Used(e) = 0 /\ Given(e) = eo[e].time /\ eo[e].time \in Nat
    <2>1. Moves(e) = {} /\ Cardinality(Moves(e)) = 0
      BY <1>1, FS_EmptySet DEF Moves
    <2>2. Begun(e) = 0
      BY <1>1, <2>1 DEF Begun
    <2>3. Used(e) = 0
      <3>1. [k \in DOMAIN vecInfo |->
               IF vecInfo[k].engine = e THEN vecInfo[k].time ELSE 0] = <<>>
        BY <1>1
      <3> QED
        BY <3>1, TotalEmpty DEF Used
    <2>4. Given(e) = eo[e].time
      BY <2>2 DEF Given
    <2>5. eo[e].time \in Nat
      BY <1>2 DEF Typed, TimeControl
    <2> QED
      BY <2>1, <2>2, <2>3, <2>4, <2>5
  <1>4. MovesCounted
    <2>1. ei \in Engine /\ 1 - ei \in Engine
      BY <1>1 DEF Engine
    <2>2. Cardinality(Moves(ei)) = 0 /\ Cardinality(Moves(1 - ei)) = 0
      BY <1>3, <2>1
    <2> QED
      BY <1>1, <2>2 DEF MovesCounted
  <1>5. LimitTells
    BY <1>1 DEF LimitTells
  <1>6. ClocksAreFair
    <2>1. ASSUME NEW e \in Engine PROVE timeLeft[e] = Given(e) - Used(e)
      <3>1. timeLeft[e] = eo[e].time
        BY <1>1
      <3> QED
        BY <1>3, <3>1
    <2> QED
      BY <1>1, <2>1 DEF ClocksAreFair
  <1>7. TimeLossDeserved
    <2>1. ASSUME NEW e \in Engine PROVE ~Overdrawn(e)
      BY <1>3 DEF Overdrawn
    <2> QED
      BY <1>1, <2>1 DEF TimeLossDeserved
  <1> QED
    BY <1>4, <1>5, <1>6, <1>7 DEF ClockInv

LEMMA MovesCountedStep ==
    Typed /\ InTurn /\ MovesCounted /\ [Next]_vars => MovesCounted'
  <1> SUFFICES ASSUME Typed, InTurn, MovesCounted, [Next]_vars, at' # "over"
               PROVE  /\ Cardinality(Moves(ei))' = ply' \div 2
                      /\ Cardinality(Moves(1 - ei))' = (ply' + 1) \div 2
    BY DEF MovesCounted
  <1>1. CASE GoesOn \/ Go \/ UNCHANGED vars
    <2>1. UNCHANGED <<vecInfo, ply, ei>> /\ at # "over"
      BY <1>1 DEF GoesOn, Go, vars
    <2>2. Moves(ei)' = Moves(ei) /\ Moves(1 - ei)' = Moves(1 - ei)
      BY <2>1 DEF Moves
    <2> QED
      BY <2>1, <2>2 DEF MovesCounted
  <1>2. ASSUME NEW s \in Scores, NEW t \in Elapsed, PlayOn(s, t)
        PROVE  /\ Cardinality(Moves(ei))' = ply' \div 2
               /\ Cardinality(Moves(1 - ei))' = (ply' + 1) \div 2
    <2>1. PICK e, f, n : e = ei /\ f = 1 - ei /\ n = Len(vecInfo)
      OBVIOUS
    <2>2. /\ e \in Engine /\ f \in Engine /\ e # f /\ 1 - f = e /\ ply \in Nat
          /\ Answer(s, t) /\ ei' = f /\ ply' = ply + 1
      BY <1>2, <2>1 DEF Typed, Engine, PlayOn, LegalMove
    <2>3. Cardinality(Moves(e)) = ply \div 2 /\ Cardinality(Moves(f)) = (ply + 1) \div 2
      BY <2>1, <2>2 DEF MovesCounted, Answer
    <2>4. Cardinality(Moves(e))' = Cardinality(Moves(e)) + 1
      BY <2>1, <2>2, MoverAdds
    <2>5. Moves(f)' = Moves(f)
      BY <2>1, <2>2, OtherKeeps
    <2>6. Cardinality(Moves(ei))' = Cardinality(Moves(f))'
      BY <2>2 DEF Moves
    <2>7. Cardinality(Moves(1 - ei))' = Cardinality(Moves(e))'
      BY <2>2 DEF Moves
    <2>8. (ply + 1 + 1) \div 2 = ply \div 2 + 1
      BY <2>2, HalfPly
    <2> QED
      BY <2>2, <2>3, <2>4, <2>5, <2>6, <2>7, <2>8
  <1>3. ASSUME NEW s \in Scores, NEW t \in Elapsed, MoveEnds(s, t) PROVE FALSE
    BY <1>3 DEF MoveEnds, End
  <1>4. ASSUME NEW s \in ByRules, RulesEnd(s) PROVE FALSE
    BY <1>4 DEF RulesEnd, End
  <1> QED
    BY <1>1, <1>2, <1>3, <1>4, Steps

\* A step that makes no move and begins none leaves the clocks as they are.
LEMMA ClocksKept ==
    ASSUME Typed, ClockInv, UNCHANGED <<eo, timeLeft, vecInfo>>, MovesCounted',
           \/ at # "think" /\ at' # "think" /\ state' # "TIME_LOSS" /\ state = "NONE"
           \/ UNCHANGED vars
    PROVE  ClockInv'
  <1>1. CASE at # "think" /\ at' # "think" /\ state' # "TIME_LOSS" /\ state = "NONE"
    <2>1. ASSUME NEW e \in Engine
          PROVE  FairClock(e)' /\ ~Overdrawn(e)'
      <3>1. Moves(e)' = Moves(e) /\ Used(e)' = Used(e)
        BY DEF Moves, Used
      <3>2. Begun(e)' = Begun(e)
        BY <1>1, <3>1 DEF Begun
      <3>3. Given(e)' = Given(e)
        BY <3>2 DEF Given
      <3>4. FairClock(e) /\ ~Overdrawn(e)
        BY <1>1 DEF ClockInv, ClocksAreFair, TimeLossDeserved, FairClock
      <3>5. FairClock(e)'
        BY <3>1, <3>3, <3>4 DEF FairClock, Clocked
      <3>6. ~Overdrawn(e)'
        BY <3>1, <3>3, <3>4 DEF Overdrawn, Clocked
      <3> QED
        BY <3>5, <3>6
    <2>2. ClocksAreFair'
      BY <1>1, <2>1 DEF ClocksAreFair, FairClock
    <2>3. TimeLossDeserved'
      BY <1>1, <2>1 DEF TimeLossDeserved
    <2>4. LimitTells'
      BY <1>1 DEF LimitTells
    <2> QED
      BY <2>2, <2>3, <2>4 DEF ClockInv
  <1>2. CASE UNCHANGED vars
    <2>1. UNCHANGED <<eo, timeLeft, vecInfo, at, ei, state, told, turn0, reverse>>
      BY <1>2 DEF vars, settings
    <2>2. ASSUME NEW e \in Engine
          PROVE  /\ Begun(e)' = Begun(e) /\ Given(e)' = Given(e) /\ Used(e)' = Used(e)
                 /\ Overdrawn(e)' <=> Overdrawn(e)
      <3>1. Moves(e)' = Moves(e) /\ Used(e)' = Used(e)
        BY <2>1 DEF Moves, Used
      <3>2. Begun(e)' = Begun(e)
        BY <2>1, <3>1 DEF Begun
      <3>3. Given(e)' = Given(e)
        BY <2>1, <3>2 DEF Given
      <3>4. Overdrawn(e)' <=> Overdrawn(e)
        BY <2>1, <3>1, <3>3 DEF Overdrawn, Clocked
      <3> QED
        BY <3>1, <3>2, <3>3, <3>4
    <2>3. Begun(ei)' = Begun(ei) /\ (Overdrawn(ei)' <=> Overdrawn(ei))
      <3>1. PICK e \in Engine : e = ei
        BY DEF Typed
      <3>2. Moves(ei)' = Moves(ei)
        BY <2>1 DEF Moves
      <3>3. Begun(ei)' = Begun(ei)
        BY <2>1, <3>2 DEF Begun
      <3>4. Overdrawn(ei)' <=> Overdrawn(e)'
        BY <2>1, <3>1 DEF Overdrawn, Clocked, Used, Given, Begun, Moves
      <3> QED
        BY <2>2, <3>1, <3>3, <3>4
    <2>4. ClocksAreFair'
      BY <2>1, <2>2, <2>3 DEF ClockInv, ClocksAreFair, Clocked, names, Xor
    <2>5. TimeLossDeserved'
      BY <2>1, <2>2, <2>3 DEF ClockInv, TimeLossDeserved
    <2>6. LimitTells'
      BY <2>1 DEF ClockInv, LimitTells, Clocked
    <2> QED
      BY <2>4, <2>5, <2>6 DEF ClockInv
  <1> QED
    BY <1>1, <1>2

LEMMA GoClocks ==
    ASSUME Typed, InTurn, ClockInv, Go, MovesCounted'
    PROVE  ClockInv'
  <1>1. /\ at = "go" /\ at' = "think" /\ ei \in Engine /\ ply \in Nat
        /\ UNCHANGED <<eo, ei, state, turn0, reverse, vecInfo>>
        /\ timeLeft' = [timeLeft EXCEPT ![ei] = NewTimeLeft(ei)]
        /\ told' = uci_go_command(timeLeft')
        /\ state = "NONE"
    BY DEF Go, settings, Typed, InTurn
  <1>2. /\ \A e \in Engine : FairClock(e)'
        /\ \A e \in Engine : Used(e)' = Used(e) /\ Given(e)' >= Given(e)
        /\ Begun(ei)' - 1 = ply \div 2
    BY GoFair
  <1>3. LimitTells'
    <2>1. timeLeft'[ei] = NewTimeLeft(ei)
      BY <1>1 DEF Typed
    <2> QED
      BY <1>1, <2>1 DEF LimitTells, NewTimeLeft, Clocked
  <1>4. /\ told'.white = timeLeft'[names(WHITE)']
        /\ told'.black = timeLeft'[names(1)']
    <2>1. ClockOf(WHITE) = names(WHITE) /\ ClockOf(1) = names(1)
      <3>1. WHITE \in 0..1 /\ 1 \in 0..1
        BY DEF WHITE
      <3> QED
        BY <3>1, ClockOfColour
    <2>2. names(WHITE)' = names(WHITE) /\ names(1)' = names(1)
      BY <1>1 DEF names, Xor, WHITE
    <2>3. told'.white = timeLeft'[ClockOf(WHITE)] /\ told'.black = timeLeft'[ClockOf(1)]
      BY <1>1 DEF uci_go_command
    <2> QED
      BY <2>1, <2>2, <2>3
  <1>5. ASSUME eo[ei].movestogo # 0
        PROVE  /\ told'.movestogo \in 1..eo[ei].movestogo
               /\ (Begun(ei)' - 1 + told'.movestogo) % eo[ei].movestogo = 0
    <2>1. PICK b, m : b = ply \div 2 /\ m = eo[ei].movestogo
      OBVIOUS
    <2>2. b \in Nat /\ m \in Nat \ {0}
      <3>1. eo[ei] \in TimeControl
        BY <1>1 DEF Typed
      <3>2. eo[ei].movestogo \in Nat
        BY <3>1 DEF TimeControl
      <3> QED
        BY <1>1, <1>5, <2>1, <3>2
    <2>3. told'.movestogo = m - (b % m)
      BY <1>1, <1>5, <2>1 DEF uci_go_command
    <2>4. m - (b % m) \in 1..m /\ (b + (m - (b % m))) % m = 0
      BY <2>2, ToRefill
    <2> QED
      BY <1>2, <2>1, <2>3, <2>4
  <1>6. ClocksAreFair'
    <2>1. (\A e \in Engine : FairClock(e))'
      BY <1>2
    <2>2. (at = "think" =>
             /\ told.white = timeLeft[names(WHITE)]
             /\ told.black = timeLeft[names(1)]
             /\ eo[ei].movestogo # 0 =>
                  /\ told.movestogo \in 1..eo[ei].movestogo
                  /\ (Begun(ei) - 1 + told.movestogo) % eo[ei].movestogo = 0)'
      BY <1>1, <1>4, <1>5
    <2> QED
      BY <2>1, <2>2 DEF ClocksAreFair, FairClock
  <1>7. ASSUME NEW e \in Engine PROVE ~Overdrawn(e)'
    <2>1. ~Overdrawn(e)
      BY <1>1 DEF ClockInv, TimeLossDeserved
    <2>2. CASE eo[e].movetime # 0
      BY <1>1, <2>1, <2>2 DEF Overdrawn, Moves
    <2>3. CASE eo[e].movetime = 0 /\ Clocked(e)
      <3>1. ~(Used(e) > Given(e))
        BY <2>1, <2>3 DEF Overdrawn
      <3>2. Used(e)' = Used(e) /\ Given(e)' >= Given(e)
        BY <1>2
      <3>3. Used(e) \in Nat /\ Given(e) \in Nat /\ Given(e)' \in Nat
        <4>1. Used(e) \in Nat /\ Given(e) \in Nat
          BY UsedType, GivenIs
        <4>2. Given(e)' = GivenOf(eo[e], Begun(e)') /\ eo[e] \in TimeControl
          BY <1>1 DEF Given, GivenOf, Typed
        <4>3. Begun(e)' \in Nat
          <5>1. Moves(e)' = Moves(e) /\ Cardinality(Moves(e)) \in Nat
            BY <1>1, MovesFinite DEF Moves
          <5> QED
            BY <5>1 DEF Begun
        <4> QED
          BY <4>1, <4>2, <4>3, GivenNext
      <3>4. ~(Used(e)' > Given(e)')
        BY <3>1, <3>2, <3>3
      <3> QED
        BY <1>1, <2>3, <3>4 DEF Overdrawn, Clocked
    <2>4. CASE eo[e].movetime = 0 /\ ~Clocked(e)
      BY <1>1, <2>4 DEF Overdrawn, Clocked
    <2> QED
      BY <2>2, <2>3, <2>4
  <1>8. TimeLossDeserved'
    BY <1>1, <1>7 DEF TimeLossDeserved
  <1> QED
    BY <1>3, <1>6, <1>8 DEF ClockInv

\* An answer, with what the game makes of it.
LEMMA AnswerClocks ==
    ASSUME Typed, InTurn, ClockInv, NEW s \in Scores, NEW t \in Elapsed, Answer(s, t),
           UNCHANGED eo, at' # "think", MovesCounted',
           \/ state' = "TIME_LOSS" /\ timeLeft[ei] < t /\ ei' = ei
           \/ state' = "ILLEGAL_MOVE"
           \/ state' # "TIME_LOSS" /\ ~(Limited(ei) /\ timeLeft[ei] < t)
    PROVE  ClockInv'
  <1>0. PICK i \in Engine : i = ei
    BY DEF Typed
  <1>1. /\ \A e \in Engine : FairClock(e)'
        /\ \A e \in Engine : e # i => ~Overdrawn(e)'
        /\ Overdrawn(i)' <=> timeLeft[i] < t
        /\ timeLeft[i] < t => Limited(i)
    BY <1>0, AnswerFair
  <1>2. ClocksAreFair'
    BY <1>1 DEF ClocksAreFair, FairClock
  <1>3. LimitTells'
    BY DEF LimitTells
  <1>4. CASE state' = "TIME_LOSS" /\ timeLeft[ei] < t /\ ei' = ei
    <2>1. Overdrawn(i)'
      BY <1>0, <1>1, <1>4
    <2>2. Overdrawn(ei)' <=> Overdrawn(i)'
      BY <1>0, <1>4 DEF Overdrawn, Clocked, Used, Given, Begun, Moves
    <2> QED
      BY <1>2, <1>3, <1>4, <2>1, <2>2 DEF ClockInv, TimeLossDeserved
  <1>5. CASE state' = "ILLEGAL_MOVE"
    BY <1>2, <1>3, <1>5 DEF ClockInv, TimeLossDeserved
  <1>6. CASE state' # "TIME_LOSS" /\ ~(Limited(ei) /\ timeLeft[ei] < t)
    <2>1. \A e \in Engine : ~Overdrawn(e)'
      BY <1>0, <1>1, <1>6
    <2>2. TimeLossDeserved'
      BY <1>6, <2>1 DEF TimeLossDeserved
    <2> QED
      BY <1>2, <1>3, <2>2 DEF ClockInv
  <1> QED
    BY <1>4, <1>5, <1>6

LEMMA ClockStep == Typed /\ InTurn /\ ClockInv /\ [Next]_vars => ClockInv'
  <1> SUFFICES ASSUME Typed, InTurn, ClockInv, [Next]_vars PROVE ClockInv'
    OBVIOUS
  <1>0. MovesCounted'
    BY MovesCountedStep DEF ClockInv
  <1> USE DEF settings
  <1>1. CASE ApplyRules
    <2>1. /\ at = "rules" /\ at' # "think" /\ state = "NONE"
          /\ UNCHANGED <<eo, timeLeft, vecInfo>>
      BY <1>1 DEF ApplyRules, End, InTurn
    <2>2. state' # "TIME_LOSS"
      BY <1>1, <2>1 DEF ApplyRules, End, ByRules
    <2> QED
      BY <1>0, <2>1, <2>2, ClocksKept
  <1>2. CASE Go
    BY <1>0, <1>2, GoClocks
  <1>3. ASSUME NEW s \in Scores, NEW t \in Elapsed,
               GivesUp(s, t) \/ IllegalMove(s, t) \/ LateMove(s, t)
        PROVE  ClockInv'
    <2>1. Answer(s, t) /\ UNCHANGED <<eo, ei>> /\ at' # "think"
      BY <1>3 DEF GivesUp, IllegalMove, LateMove, End
    <2>2. \/ state' = "TIME_LOSS" /\ timeLeft[ei] < t
          \/ state' = "ILLEGAL_MOVE"
      BY <1>3 DEF GivesUp, IllegalMove, LateMove, End
    <2> QED
      BY <1>0, <2>1, <2>2, AnswerClocks
  <1>4. ASSUME NEW s \in Scores, NEW t \in Elapsed,
               AgreeDraw(s, t) \/ ResignGame(s, t)
        PROVE  ClockInv'
    <2>1. LegalMove(s, t) /\ UNCHANGED eo /\ at' # "think" /\ state' # "TIME_LOSS"
      BY <1>4 DEF AgreeDraw, ResignGame, End
    <2> QED
      BY <1>0, <2>1, AnswerClocks DEF LegalMove
  <1>5. ASSUME NEW s \in Scores, NEW t \in Elapsed, PlayOn(s, t) PROVE ClockInv'
    <2>1. LegalMove(s, t) /\ UNCHANGED <<eo, state>> /\ at' # "think"
      BY <1>5 DEF PlayOn
    <2>2. state' # "TIME_LOSS"
      BY <2>1 DEF LegalMove, Answer, InTurn
    <2> QED
      BY <1>0, <2>1, <2>2, AnswerClocks DEF LegalMove
  <1>6. CASE UNCHANGED vars
    <2>1. UNCHANGED <<eo, timeLeft, vecInfo>>
      BY <1>6 DEF vars
    <2> QED
      BY <1>0, <1>6, <2>1, ClocksKept
  <1> QED
    BY <1>1, <1>2, <1>3, <1>4, <1>5, <1>6 DEF Next, Over

-----------------------------------------------------------------------------
(* The theorems.                                                           *)

GInv ==
    /\ Typed /\ InTurn /\ SamplesTell
    /\ CountersTell /\ AdjudicatedWhenDue
    /\ ClockInv

\* The inductive invariant of a game: whose turn it is, what the counters, the
\* samples and the clocks tell of the moves played.
THEOREM GameInvariant == Spec => []GInv
  <1>1. Init => GInv
    <2>1. Init => SamplesTell
      BY DEF Init, SamplesTell
    <2> QED
      BY <2>1, InitTyped, InitInTurn, InitAdjudicated, InitClocks DEF GInv
  <1>2. GInv /\ [Next]_vars => GInv'
    BY TypedStep, InTurnStep, SamplesStep, AdjudicationStep, ClockStep DEF GInv
  <1> QED
    BY <1>1, <1>2, PTL DEF Spec

\* The result in the PGN file, the one returned to the tournament and the one in
\* each sample are the same result, whoever plays which colour.
THEOREM ResultsAlwaysAgree == Spec => []ResultsAgree
  <1>1. GInv => ResultsAgree
    BY ResultsFollow DEF GInv
  <1> QED
    BY GameInvariant, <1>1, PTL

\* The two counters of game_play adjudicate a game exactly when the documented
\* conditions on the scores of its moves hold.
THEOREM AdjudicationIsDue == Spec => []AdjudicatedWhenDue
  <1>1. GInv => AdjudicatedWhenDue
    BY DEF GInv
  <1> QED
    BY GameInvariant, <1>1, PTL

\* Each clock is what the time control has given less what was used, for every
\* time control, and each engine is told its own.
THEOREM ClocksStayFair == Spec => []ClocksAreFair
  <1>1. GInv => ClocksAreFair
    BY DEF GInv, ClockInv
  <1> QED
    BY GameInvariant, <1>1, PTL

\* Only an engine that has used more than it had loses on time, and none that
\* has plays on.
THEOREM TimeLossesAreDeserved == Spec => []TimeLossDeserved
  <1>1. GInv => TimeLossDeserved
    BY DEF GInv, ClockInv
  <1> QED
    BY GameInvariant, <1>1, PTL
=============================================================================
