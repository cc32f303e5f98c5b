-------------------------- MODULE MC_ImprovedMining -------------------------
(***************************************************************************)
(* Arguments for TLC at the code's steps: the ends of the free and the     *)
(* 100-500 tiers and a long content; the four difficulties and an unknown *)
(* one; scores at, below and above the 80 and 90 bonus steps.              *)
(***************************************************************************)
EXTENDS ImprovedMining

MCLengths == {0, 100, 101, 500, 501, 2000}
MCDifficulties == {"Basic", "Intermediate", "Advanced", "Expert", "Other"}
MCScores == {0, 50, 79, 80, 89, 90, 100}

=============================================================================
