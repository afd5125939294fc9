----------------------------- MODULE OrderedLog -----------------------------
(***************************************************************************)
(* What the PGN writer promises to the workers, without saying how.        *)
(*                                                                         *)
(* Games end in any order; each hands its text over once, under the game   *)
(* index it was popped with.  The file holds, in index order, exactly the  *)
(* texts of the longest run 0, 1, 2, ... of games that were handed over.   *)
(* A text stands by the index of its game.                                 *)
(***************************************************************************)
EXTENDS Naturals, Sequences

CONSTANT Games          \* the indices of the games that can be handed over

VARIABLES pushed,       \* indices handed over so far
          file          \* the file: a sequence of indices

logVars == <<pushed, file>>

\* The file that a set S of handed-over games calls for.
IsFileOf(f, S) ==
    /\ f = [k \in 1..Len(f) |-> k - 1]
    /\ \A k \in 0..(Len(f) - 1) : k \in S
    /\ Len(f) \notin S

LogInit == pushed = {} /\ file = <<>>

LogPush(i) ==
    /\ i \notin pushed
    /\ pushed' = pushed \union {i}
    /\ file' \in Seq(Nat)
    /\ IsFileOf(file', pushed')

LogNext == \E i \in Games : LogPush(i)

LogSpec == LogInit /\ [][LogNext]_logVars
=============================================================================
