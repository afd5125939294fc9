------------------------------ MODULE SeqWriter ------------------------------
(***************************************************************************)
(* The sequential writer of src/seqwriter.c: workers finish games out of   *)
(* order, the PGN file must hold them in order.  A text that comes too     *)
(* early waits in vecQueued, sorted by index, until the gap is filled.     *)
(*                                                                         *)
(* seq_writer_push runs under sw->mtx from its first to its last line, so  *)
(* it is one step.  A text stands by the index of its game: the queue and  *)
(* the file are sequences of indices.                                      *)
(***************************************************************************)
EXTENDS Naturals, Sequences, SequencesExt

CONSTANT NGames                      \* games of the tournament

ASSUME NGamesAssumption == NGames \in Nat

VARIABLES vecQueued,                 \* sw->vecQueued: the texts that wait
          idxNext,                   \* sw->idxNext: the next index to write
          out,                       \* sw->out: the file
          pushed                     \* the indices that callers have pushed

seqVars == <<vecQueued, idxNext, out, pushed>>

GameIdx == 0..(NGames - 1)

(***************************************************************************)
(* The steps of a push.                                                    *)
(***************************************************************************)

\* Mutant: the insertion loop is missing, the text stays where vec_push put it.
InsertPos_AtEnd(q, idx) == Len(q) + 1

\* The place of idx in queue q: before the first larger index, else at the end.
InsertPos(q, idx) ==
    CHOOSE p \in 1..(Len(q) + 1) :
        /\ \A k \in 1..(p - 1) : q[k] <= idx
        /\ p <= Len(q) => q[p] > idx

\* vec_push at the end, then the memmove that opens place p.
Inserted(q, idx) == InsertAt(q, InsertPos(q, idx), idx)

\* The length of the longest sequential chunk next, next + 1, ... at the head.
ChunkLen(q, next) ==
    CHOOSE i \in 0..Len(q) :
        /\ \A k \in 1..i : q[k] = next + (k - 1)
        /\ i < Len(q) => q[i + 1] # next + i

\* Elements 1..i go to the end of the file f.
Appended(f, q, i) == f \o SubSeq(q, 1, i)

\* The memmove and the new size: elements 1..i leave the queue.
Dropped(q, i) == SubSeq(q, i + 1, Len(q))

(***************************************************************************)
(* The specification.                                                      *)
(***************************************************************************)

SeqInit ==
    /\ vecQueued = <<>>
    /\ idxNext = 0
    /\ out = <<>>
    /\ pushed = {}

seq_writer_push(idx) ==
    LET q == Inserted(vecQueued, idx)
        i == ChunkLen(q, idxNext)
    IN  /\ out' = Appended(out, q, i)
        /\ vecQueued' = Dropped(q, i)
        /\ idxNext' = idxNext + i
        /\ pushed' = pushed \union {idx}

\* A caller pushes the index job_queue_pop gave it, and no other caller has it.
SeqNext == \E idx \in GameIdx : idx \notin pushed /\ seq_writer_push(idx)

SeqSpec == SeqInit /\ [][SeqNext]_seqVars

(***************************************************************************)
(* Properties.                                                             *)
(***************************************************************************)

\* Types of the writer's state.
SeqTypeOK ==
    /\ vecQueued \in Seq(Nat)
    /\ idxNext \in Nat
    /\ out \in Seq(Nat)
    /\ pushed \subseteq GameIdx

\* The file is the run 0, 1, ..., idxNext - 1: no gap, no repetition, no
\* reordering, and idxNext counts what was written.
FileInOrder ==
    /\ Len(out) = idxNext
    /\ idxNext <= NGames
    /\ \A k \in 1..Len(out) : out[k] = k - 1

\* The queue is strictly sorted and starts beyond a gap: whatever could be
\* written has been (a push never leaves a writable text behind).  With an
\* unsorted queue a text waits for ever although its turn has passed.
QueueBeyondGap ==
    /\ \A k \in 1..Len(vecQueued) : vecQueued[k] > idxNext
    /\ \A j, k \in 1..Len(vecQueued) : j < k => vecQueued[j] < vecQueued[k]

\* Every text pushed is in the file or waits in the queue, and nothing else is.
NothingLost ==
    pushed = {k \in GameIdx : k < idxNext}
                 \union {vecQueued[k] : k \in 1..Len(vecQueued)}

\* The writer implements the abstract log.
Log == INSTANCE OrderedLog WITH Games <- GameIdx, file <- out
ImplementsLog == Log!LogSpec
==============================================================================
