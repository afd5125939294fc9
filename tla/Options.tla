------------------------------ MODULE Options ------------------------------
(***************************************************************************)
(* The engine options of the command line: options_parse of src/options.c. *)
(* The command is a sequence of groups, "-engine ..." or "-each ...", each *)
(* with a sequence of settings.  What -each gives is merged into the       *)
(* engines when the whole command has been read.                           *)
(*                                                                         *)
(* A setting is given by what its string is parsed to, times in            *)
(* milliseconds.  moves is 0 in a time control without a "/".              *)
(***************************************************************************)
EXTENDS Naturals, Sequences, SequencesExt

CONSTANTS Settings,      \* the settings that occur, a subset of Setting
          MaxGroups,     \* bound: groups of a command
          MaxSettings    \* bound: settings of a group

Setting ==
    [key : {"tc"}, moves : Nat, time : Nat \ {0}, increment : Nat]
    \union [key : {"timeout", "movetime"}, time : Nat \ {0}]
    \union [key : {"option"}, value : STRING]

VARIABLES argv,          \* the groups that are still to be parsed
          command,       \* the whole command
          each, eachSet,
          vecEO,
          status         \* "parsing", "parsed" or "dead"

vars == <<argv, command, each, eachSet, vecEO, status>>

Groups == [who : {"each", "engine"}, settings : SeqOf(Settings, MaxSettings)]

engine_options_init ==
    [time |-> 0, increment |-> 0, movestogo |-> 0, movetime |-> 0,
     timeOut |-> 4000, vecOptions |-> <<>>]

\* One setting of options_parse_eo, with options_parse_tc.
Set(eo, s) ==
    CASE s.key = "tc" ->
           [eo EXCEPT !.time = s.time, !.increment = s.increment,
                      !.movestogo = IF s.moves # 0 THEN s.moves ELSE @]
      [] s.key = "timeout" -> [eo EXCEPT !.timeOut = s.time]
      [] s.key = "movetime" -> [eo EXCEPT !.movetime = s.time]
      [] s.key = "option" -> [eo EXCEPT !.vecOptions = Append(@, s.value)]

options_parse_eo(eo, settings) == FoldLeft(Set, eo, settings)

\* What is not zero in from replaces what is in to.
engine_options_apply(from, to) ==
    LET over(a, b) == IF a # 0 THEN a ELSE b
    IN  [time |-> over(from.time, to.time),
         increment |-> over(from.increment, to.increment),
         movestogo |-> over(from.movestogo, to.movestogo),
         movetime |-> over(from.movetime, to.movetime),
         timeOut |-> over(from.timeOut, to.timeOut),
         vecOptions |-> to.vecOptions \o from.vecOptions]

-----------------------------------------------------------------------------
Init ==
    /\ command \in SeqOf(Groups, MaxGroups)
    /\ argv = command
    /\ each = engine_options_init /\ eachSet = FALSE
    /\ vecEO = <<>> /\ status = "parsing"

ParseEach ==
    /\ status = "parsing" /\ argv # <<>> /\ Head(argv).who = "each"
    /\ each' = options_parse_eo(each, Head(argv).settings)
    /\ eachSet' = TRUE
    /\ argv' = Tail(argv)
    /\ UNCHANGED <<command, vecEO, status>>

ParseEngine ==
    /\ status = "parsing" /\ argv # <<>> /\ Head(argv).who = "engine"
    /\ vecEO' = Append(vecEO, options_parse_eo(engine_options_init,
                                               Head(argv).settings))
    /\ argv' = Tail(argv)
    /\ UNCHANGED <<command, each, eachSet, status>>

\* The end of options_parse.
Merge ==
    /\ status = "parsing" /\ argv = <<>>
    /\ vecEO' = IF eachSet
                THEN [k \in DOMAIN vecEO |-> engine_options_apply(each, vecEO[k])]
                ELSE vecEO
    /\ status' = IF Len(vecEO) < 2 THEN "dead" ELSE "parsed"
    /\ UNCHANGED <<argv, command, each, eachSet>>

Next == ParseEach \/ ParseEngine \/ Merge

Spec == Init /\ [][Next]_vars

-----------------------------------------------------------------------------
(* Properties.                                                             *)

GroupsOf(who) == SelectSeq(command, LAMBDA g : g.who = who)
EachSettings == FoldLeft(LAMBDA acc, g : acc \o g.settings, <<>>, GroupsOf("each"))

\* The settings of engine k, in the order in which they count: its own, and what
\* is applied to each engine.
Given(k) == GroupsOf("engine")[k].settings \o EachSettings

Of(settings, key) == SelectSeq(settings, LAMBDA s : s.key = key)
LastTime(settings, key, default) ==
    IF Of(settings, key) = <<>> THEN default ELSE Last(Of(settings, key)).time

Parsed(P(_)) == status = "parsed" => \A k \in DOMAIN vecEO : P(k)

\* README.md:66: the timeout of an engine is the one it was given, by -engine or
\* by -each; the default value is 4 seconds.
TimeoutAsGiven ==
    Parsed(LAMBDA k : vecEO[k].timeOut = LastTime(Given(k), "timeout", 4000))
=============================================================================
