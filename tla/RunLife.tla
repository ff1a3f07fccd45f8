------------------------------- MODULE RunLife -------------------------------
(***************************************************************************)
(* What the run store promises the viewers of a run, whoever reports it (a *)
(* simulation in the process, SimRuns, or a trainer Job, TrainerJob): a    *)
(* run that was seen to be over, or was forgotten, never runs again.  The  *)
(* web application relies on it: it stops polling a run that is over.      *)
(***************************************************************************)
CONSTANT Runs

VARIABLE life    \* what GET /runs/{id} would answer; 404 is "unknown" or "gone"

Lives == {"unknown", "running", "stopped", "done", "gone"}

(* A stop marks a run it has found running, and a last report marks a run  *)
(* it has not looked at: each may come after the other.                    *)
Moves == {<<"unknown", "running">>, <<"unknown", "gone">>,
          <<"running", "stopped">>, <<"running", "done">>,
          <<"stopped", "done">>, <<"done", "stopped">>}
         \cup ({"running", "stopped", "done"} \X {"gone"})

LifeInit == life = [r \in Runs |-> "unknown"]

(* Several runs may move at once: a start evicts, a restart forgets all.   *)
LifeNext ==
  /\ life' \in [Runs -> Lives]
  /\ \A r \in Runs : life'[r] # life[r] => <<life[r], life'[r]>> \in Moves

LifeSpec == LifeInit /\ [][LifeNext]_life
=============================================================================
