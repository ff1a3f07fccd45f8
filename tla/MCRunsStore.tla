----------------------------- MODULE MCRunsStore -----------------------------
(* RunsStore under arbitrary callers: three run ids, room for two.          *)
EXTENDS RunsStore, TLC

CONSTANTS a, b, c, none

MCRunIds    == {a, b, c}
MCFabrics   == {none}
MCInjections == {[kind |-> "node_drain", dur |-> Permanent]}

MCSymmetry == Permutations(MCRunIds)
=============================================================================
