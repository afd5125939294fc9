----------------------------- MODULE MCSchedule -----------------------------
(***************************************************************************)
(* Instance of Schedule for TLC: files of one to three openings, with one  *)
(* side to move or with both.                                              *)
(***************************************************************************)
EXTENDS Schedule

MCOpeningFiles ==
    {<<"white">>, <<"white", "black">>, <<"black", "black", "black">>}
=============================================================================
