----------------------------- MODULE MCTrainerJob -----------------------------
(* TrainerJob for TLC: two Jobs, in a store with room for one, so that the   *)
(* start of the second evicts the first.                                     *)
EXTENDS TrainerJob

CONSTANTS a, b, none

MCRunIds     == {a, b}
MCFabrics    == {none}
MCInjections == {}
=============================================================================
