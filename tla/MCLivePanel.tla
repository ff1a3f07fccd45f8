----------------------------- MODULE MCLivePanel -----------------------------
(* LivePanel for TLC: two runs, a Job or a simulation each.                 *)
EXTENDS LivePanel

MCRuns == 1 .. 2
=============================================================================
