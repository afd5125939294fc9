---------------------------- MODULE MCTournament ----------------------------
(***************************************************************************)
(* Instances of Tournament for TLC.  The jobs are those of job_queue_init  *)
(* (module JobList).                                                       *)
(***************************************************************************)
EXTENDS Tournament, JobList, TLC

\* Jobs indexed from 0, with slots 0 and 1.
FromList(list) ==
    [k \in 0..(Len(list) - 1) |->
        [ei |-> [i \in 0..1 |-> list[k + 1].ei[i + 1]], pair |-> list[k + 1].pair]]

\* Two engines, three games.
MatchJobs == FromList(JobSeq(2, 1, 3, FALSE))

\* Three engines, a round robin of one game per pair.
RoundRobinJobs == FromList(JobSeq(3, 1, 1, FALSE))

\* The workers are alike; used by runs without liveness properties only.
WorkerSymmetry == Permutations(Workers)

\* A stop that depends on the score the way the SPRT does: a lead of two.
LeadOfTwo(c) == c[2] >= c[0] + 2 \/ c[0] >= c[2] + 2
=============================================================================
