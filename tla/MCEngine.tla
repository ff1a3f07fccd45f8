------------------------------- MODULE MCEngine -------------------------------
(***************************************************************************)
(* The simulations of engine/ that a router calls as a function, one at a  *)
(* time: `part' says which of them runs.                                   *)
(***************************************************************************)
EXTENDS MCScheduler, Autoscaler, MigPacking

CONSTANTS StageEnds, Targets, MaxStages, EvalIntervals, Windows, Utilizations, MostReplicas, Ticks,
          MaxMigRequests

UpTo(n, S) == UNION {[1 .. k -> S] : k \in 0 .. n}

MCWorkloads ==
  {[stages |-> s, minReplicas |-> 1, maxReplicas |-> MostReplicas, perReplica |-> 8,
    utilization |-> u, evalInterval |-> e, stabilization |-> w, tick |-> d] :
      s \in {r \in UpTo(MaxStages, [end : StageEnds, target : Targets]) :
                \A i \in 2 .. Len(r) : r[i - 1].end <= r[i].end},
      u \in Utilizations, e \in EvalIntervals, w \in Windows, d \in Ticks}

RestWorkload == CHOOSE w \in MCWorkloads : TRUE

MCWanted == UpTo(MaxMigRequests, Profiles)

VARIABLE part

engineVars == <<part, schedVars, autoscalerVars, migVars>>

(* The simulation that is not called stays as this.                        *)
RestInput == CHOOSE i \in MCShort : i.horizon # NoHorizon

SchedulerRests == input = RestInput /\ SchedInit

AutoscalerRests ==
  /\ workload = RestWorkload
  /\ t = 0 /\ replicas = workload.minReplicas /\ backlog = 0 /\ recent = {}
  /\ lastEval = Never /\ points = <<>>

MigRests ==
  /\ poolSize = 1 /\ wanted = <<>> /\ placed = <<>>
  /\ remainingCompute = <<COMPUTE_SLOTS_TOTAL>> /\ remainingMemory = <<MEMORY_SLOTS_TOTAL>>

EngineInit ==
  /\ part \in {"scheduler", "autoscaler", "mig"}
  /\ IF part = "scheduler" THEN SchedInit ELSE SchedulerRests
  /\ IF part = "autoscaler" THEN AutoscalerInit ELSE AutoscalerRests
  /\ IF part = "mig" THEN MigInit ELSE MigRests

Schedules == part = "scheduler" /\ SchedNext /\ UNCHANGED <<part, autoscalerVars, migVars>>

EngineNext ==
  \/ Schedules
  \/ part = "autoscaler" /\ AutoscalerNext /\ UNCHANGED <<part, schedVars, migVars>>
  \/ part = "mig" /\ MigNext /\ UNCHANGED <<part, schedVars, autoscalerVars>>

(* A simulation that is called runs to its end.                            *)
EngineSpec == EngineInit /\ [][EngineNext]_engineVars /\ WF_engineVars(Schedules)
=============================================================================
