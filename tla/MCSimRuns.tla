------------------------------ MODULE MCSimRuns ------------------------------
(* SimRuns for TLC: one run with two clients, or several runs that contend. *)
EXTENDS SimRuns, TLC

CONSTANTS a, b, c, c1, c2, none, ib, bad

OneRun         == {a}
TwoRuns        == {a, b}
ThreeRuns      == {a, b, c}
MCClients      == {c1, c2}
OneClient      == {c1}
MCFabrics      == {none, ib, bad}
MCKnownFabrics == {ib}

Shared   == {[fabric |-> ib, computable |-> TRUE]}
Unknown  == {[fabric |-> bad, computable |-> TRUE]}
Mixed    == Shared \cup Unknown \cup {[fabric |-> none, computable |-> FALSE]}

LongFaults   == {[kind |-> "xid_error", dur |-> 3], [kind |-> "node_drain", dur |-> 2],
                 [kind |-> "nvlink_degradation", dur |-> 3]}
SomeFaults   == {[kind |-> "xid_error", dur |-> 3], [kind |-> "xid_error", dur |-> Permanent]}
ShortFaults  == {[kind |-> "xid_error", dur |-> 2]}

Symmetry == Permutations(MCClients)
=============================================================================
