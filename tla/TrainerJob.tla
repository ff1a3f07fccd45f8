------------------------------ MODULE TrainerJob ------------------------------
(***************************************************************************)
(* A training run as a Kubernetes Job (k3s/trainer/train.py): the trainer  *)
(* reports a start, its steps and its end to the API, one post at a time,  *)
(* and never waits for one longer than its timeout.  A post may be lost,   *)
(* or be handled after the trainer has given it up; the API may restart    *)
(* with an empty store; a pod may die.  stop_run deletes the Job and then  *)
(* marks the run, while the pod has a grace period.                        *)
(*                                                                         *)
(* The store is RunsStore.  A trainer's sleeps and its poll of the         *)
(* contention on its fabric, which only changes how long it sleeps, are    *)
(* the time that passes between two posts.                                 *)
(***************************************************************************)
EXTENDS RunsStore

CONSTANT TotalSteps    \* TOTAL_STEPS

VARIABLES
  trainer,   \* the process in each Job's pod
  wire,      \* posts that have been sent and not been handled
  job,       \* the Job object of each run
  stopping,  \* where a stop_run for each run is
  faulty     \* history: the runs a loss, a timeout, a crash or a restart has touched

trainerVars == <<runs, clock, trainer, wire, job, stopping, faulty>>

ASSUME TrainerAssumption == TotalSteps \in Nat

(* `await' is the path of the post the trainer is waiting for; `step' the  *)
(* last step it has gone through.                                          *)
Trainer == [pc : {"none", "start", "steps", "await", "over"}, step : 0 .. TotalSteps,
            await : {"none", "start", "step", "done"}]
Post    == [run : RunIds, path : {"start", "step", "done"}, step : 0 .. TotalSteps]

Awaits(p) == /\ trainer[p.run].pc = "await"
             /\ trainer[p.run].await = p.path
             /\ trainer[p.run].step = p.step

GoesOn(t) == [t EXCEPT !.pc = IF t.await = "done" THEN "over" ELSE "steps", !.await = "none"]

Fault(r) == faulty' = faulty \cup {r}
NoFault  == UNCHANGED faulty
Store    == <<runs, clock>>

-----------------------------------------------------------------------------
(* The trainer.                                                            *)

(* launch_job: a Job of a new name; its pod starts.                        *)
LaunchJob(r) ==
  /\ job[r] = "none"
  /\ job' = [job EXCEPT ![r] = "active"]
  /\ trainer' = [trainer EXCEPT ![r].pc = "start"]
  /\ NoFault /\ UNCHANGED <<Store, wire, stopping>>

Send(r, path, n) ==
  /\ trainer' = [trainer EXCEPT ![r] = [pc |-> "await", step |-> n, await |-> path]]
  /\ wire' = wire \cup {[run |-> r, path |-> path, step |-> n]}
  /\ NoFault /\ UNCHANGED <<Store, job, stopping>>

PostStart(r) == trainer[r].pc = "start" /\ Send(r, "start", 0)

PostStep(r) ==
  /\ trainer[r].pc = "steps"
  /\ trainer[r].step < TotalSteps
  /\ Send(r, "step", trainer[r].step + 1)

(* Mutant: the loop ends one step early.                                   *)
PostDone_Early(r) ==
  /\ trainer[r].pc = "steps"
  /\ trainer[r].step + 1 >= TotalSteps
  /\ Send(r, "done", TotalSteps)

PostDone(r) ==
  /\ trainer[r].pc = "steps"
  /\ trainer[r].step = TotalSteps
  /\ Send(r, "done", TotalSteps)

(* Mutant: urlopen has no timeout.                                         *)
GiveUp_Never(p) == FALSE /\ UNCHANGED trainerVars

(* urlopen(timeout=3) raises: report() prints and goes on, and the post    *)
(* may be handled all the same.                                            *)
GiveUp(p) ==
  /\ Awaits(p)
  /\ trainer' = [trainer EXCEPT ![p.run] = GoesOn(@)]
  /\ Fault(p.run) /\ UNCHANGED <<Store, wire, job, stopping>>

(* Connection refused, or the connection is lost before it is handled.     *)
Lose(p) ==
  /\ p \in wire
  /\ wire' = wire \ {p}
  /\ trainer' = IF Awaits(p) THEN [trainer EXCEPT ![p.run] = GoesOn(@)] ELSE trainer
  /\ Fault(p.run) /\ UNCHANGED <<Store, job, stopping>>

(* The pod of a deleted Job is killed once its grace period is over; any   *)
(* pod may die with its node.  Nothing tells the API.                      *)
PodEnds(r) ==
  /\ trainer[r].pc \notin {"none", "over"}
  /\ trainer' = [trainer EXCEPT ![r].pc = "over", ![r].await = "none"]
  /\ IF job[r] = "deleted" THEN NoFault ELSE Fault(r)
  /\ UNCHANGED <<Store, wire, job, stopping>>

-----------------------------------------------------------------------------
(* The API.                                                                *)

(* Mutant: a step of an unknown run registers it.                          *)
Handle_Upserts(p) ==
  /\ p \in wire
  /\ wire' = wire \ {p}
  /\ CASE p.path = "start" -> \E now \in Now : Start(p.run, NoFabric, now)
       [] p.path = "step"  -> runs' = [runs EXCEPT ![p.run] =
                                IF Known(p.run) THEN [@ EXCEPT !.steps = LastOf(Append(@, p.step))]
                                                ELSE Fresh(NoFabric, clock)] /\ UNCHANGED clock
       [] p.path = "done"  -> Finish(p.run)
  /\ trainer' = IF Awaits(p) THEN [trainer EXCEPT ![p.run] = GoesOn(@)] ELSE trainer
  /\ NoFault /\ UNCHANGED <<job, stopping>>

(* POST /start, /step and /done; a 404 changes nothing.                    *)
Handle(p) ==
  /\ p \in wire
  /\ wire' = wire \ {p}
  /\ CASE p.path = "start" -> \E now \in Now : Start(p.run, NoFabric, now)
       [] p.path = "step"  -> AddStep(p.run, p.step)
       [] p.path = "done"  -> Finish(p.run)
  /\ trainer' = IF Awaits(p) THEN [trainer EXCEPT ![p.run] = GoesOn(@)] ELSE trainer
  /\ NoFault /\ UNCHANGED <<job, stopping>>

(* stop_run: a run that is not running is answered at once.                *)
StopLooksUp(r) ==
  /\ stopping[r] = "idle"
  /\ Running(r)
  /\ stopping' = [stopping EXCEPT ![r] = "delete"]
  /\ NoFault /\ UNCHANGED <<Store, trainer, wire, job>>

(* Mutant: the run is marked even if its Job could not be deleted.         *)
DeleteFails_GoesOn(r) ==
  /\ stopping[r] = "delete"
  /\ job' = job
  /\ stopping' = [stopping EXCEPT ![r] = "mark"]
  /\ Fault(r) /\ UNCHANGED <<Store, trainer, wire>>

DeleteJob(r) ==
  /\ stopping[r] = "delete"
  /\ job[r] = "active"
  /\ job' = [job EXCEPT ![r] = "deleted"]
  /\ stopping' = [stopping EXCEPT ![r] = "mark"]
  /\ NoFault /\ UNCHANGED <<Store, trainer, wire>>

(* The call raises, whether it took effect or not: 502.  A Job that is     *)
(* already deleted always raises.                                          *)
DeleteFails(r) ==
  /\ stopping[r] = "delete"
  /\ \/ job' = job
     \/ job' = [job EXCEPT ![r] = "deleted"]
  /\ stopping' = [stopping EXCEPT ![r] = "idle"]
  /\ Fault(r) /\ UNCHANGED <<Store, trainer, wire>>

MarkStopped(r) ==
  /\ stopping[r] = "mark"
  /\ Stop(r)
  /\ stopping' = [stopping EXCEPT ![r] = "idle"]
  /\ NoFault /\ UNCHANGED <<trainer, wire, job>>

(* The store is memory, and the requests being handled go with it.         *)
ApiRestart ==
  /\ faulty' = faulty \cup {r \in RunIds : Known(r) \/ stopping[r] # "idle"}
  /\ runs' = [r \in RunIds |-> NoRun]
  /\ stopping' = [r \in RunIds |-> "idle"]
  /\ UNCHANGED <<clock, trainer, wire, job>>

-----------------------------------------------------------------------------
TrainerInit ==
  /\ StoreInit
  /\ trainer = [r \in RunIds |-> [pc |-> "none", step |-> 0, await |-> "none"]]
  /\ wire = {}
  /\ job = [r \in RunIds |-> "none"]
  /\ stopping = [r \in RunIds |-> "idle"]
  /\ faulty = {}

TrainerStep(r) == PostStart(r) \/ PostStep(r) \/ PostDone(r)

TrainerNext ==
  \/ \E r \in RunIds : LaunchJob(r) \/ TrainerStep(r) \/ PodEnds(r)
  \/ \E r \in RunIds : StopLooksUp(r) \/ DeleteJob(r) \/ DeleteFails(r) \/ MarkStopped(r)
  \/ \E p \in Post : Handle(p) \/ Lose(p) \/ GiveUp(p)
  \/ ApiRestart

TrainerSpec == TrainerInit /\ [][TrainerNext]_trainerVars

(* A trainer goes on, and its timeout expires; nothing is asked of the API, *)
(* of the network or of whoever stops runs.                                *)
TrainerFairness ==
  \A r \in RunIds : /\ WF_trainerVars(TrainerStep(r))
                    /\ WF_trainerVars(\E p \in Post : p.run = r /\ GiveUp(p))

TrainerFairSpec == TrainerSpec /\ TrainerFairness

-----------------------------------------------------------------------------
Settled(r) == /\ trainer[r].pc = "over"
              /\ stopping[r] = "idle"
              /\ \A p \in wire : p.run # r

(* The API knows of a trainer only what was posted: a trainer that no      *)
(* fault has touched leaves, once all is handled, a run that is over and   *)
(* that has all the steps it went through, stopped half-way or not; a run  *)
(* listed as running for ever is the trace of a fault (train.py:116-141,   *)
(* runs.py:110-160).                                                       *)
CleanRunsAreTrue ==
  \A r \in RunIds \ faulty :
    Settled(r) /\ Known(r) =>
      /\ runs[r].status \in {"done", "stopped"}
      /\ runs[r].steps = LastOf([k \in 1 .. trainer[r].step |-> k])

(* The Job goes before the mark: whatever raises, restarts or is answered  *)
(* late, no run is shown as stopped while its Job still holds its GPUs     *)
(* (runs.py:150-158).                                                      *)
StoppedMeansDeleted ==
  \A r \in RunIds : runs[r].status = "stopped" => job[r] = "deleted"

(* Reports are best effort: with an API that never answers the trainer     *)
(* still gets through its steps (train.py:40-49, 52-55).                   *)
TrainersEnd == \A r \in RunIds : (trainer[r].pc = "start") ~> (trainer[r].pc = "over")

(* A run may still be registered: its one start is to come.                *)
StartOnWire(r) == \E p \in wire : p.run = r /\ p.path = "start"
ToStart(r) == trainer[r].pc \in {"none", "start"} \/ StartOnWire(r)

(* What GET /runs/{id} answers of a trainer's run.                         *)
viewed ==
  [r \in RunIds |-> IF Known(r) THEN runs[r].status ELSE IF ToStart(r) THEN "unknown" ELSE "gone"]

Life == INSTANCE RunLife WITH Runs <- RunIds, life <- viewed

(* Seen by viewers, a trainer's run never comes back once it is over or    *)
(* has been forgotten, by a restart too, however late its posts arrive     *)
(* (runs.py:110-160, runs_store.py:35-72).                                 *)
ImplementsRunLife == Life!LifeSpec
=============================================================================
