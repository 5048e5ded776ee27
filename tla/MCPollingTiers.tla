--------------------------- MODULE MCPollingTiers ---------------------------
(* Small instances of PollingTiers for TLC. *)
EXTENDS PollingTiers, TLC

\* In the order of 1, 5 and 15 minutes, with the snapshot's 10 between the
\* last two.
Minutes == "TIER1" :> 1 @@ "TIER2" :> 2 @@ "TIER3" :> 4
=============================================================================
