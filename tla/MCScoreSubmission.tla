------------------------- MODULE MCScoreSubmission -------------------------
(***************************************************************************)
(* ScoreSubmission on two tabs and two requests at once.                   *)
(***************************************************************************)
EXTENDS ScoreSubmission, TLC

Symmetric == Permutations(Tabs) \cup Permutations(Requests)
=============================================================================
