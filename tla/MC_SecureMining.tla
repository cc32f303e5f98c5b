--------------------------- MODULE MC_SecureMining --------------------------
(***************************************************************************)
(* Inputs for TLC, chosen at the code's thresholds: ages and histories     *)
(* below and at their caps, stakes on each side of the 10_000 and 100_000  *)
(* multiplier steps and the 1_000_000 cap, a content length on each side  *)
(* of the 50-byte floor tier and one in the long tier, the four known      *)
(* difficulties and an unknown one.  The reputations they combine to      *)
(* reach every threshold 0.1, 0.3, 0.5, 0.7, 0.8 and 0.9.                  *)
(***************************************************************************)
EXTENDS SecureMining

MCAges == {0, 3, 30, 90}
MCHistories == {0, 5, 100, 150}
MCStakes == {0, 1000, 10000, 50000, 100000, 2000000}
MCLengths == {50, 51, 200, 1001}
MCDifficulties == {"Basic", "Intermediate", "Advanced", "Expert", "Other"}
MCElapsed == {0, 1}

=============================================================================
