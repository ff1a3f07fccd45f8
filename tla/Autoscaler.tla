----------------------------- MODULE Autoscaler -----------------------------
(***************************************************************************)
(* The autoscaling simulation (engine/autoscaling.py): a control loop like *)
(* Kubernetes' HorizontalPodAutoscaler over a curve of traffic.  One step  *)
(* is one turn of the loop, at time t; the replicas are evaluated in some  *)
(* of them only.  Times, rates and requests are whole numbers.             *)
(***************************************************************************)
EXTENDS Integers, Sequences, FiniteSetsExt

CONSTANT Workloads   \* the requests that are simulated

(* A stage is given by when it ends instead of how long it lasts.           *)
Stage == [end : Nat, target : Nat]

(* What simulate_autoscaling does not refuse, and utilizations and windows *)
(* it can calculate with.                                                  *)
Workload ==
  {w \in [stages : Seq(Stage), minReplicas : Nat \ {0}, maxReplicas : Nat,
          perReplica : Nat \ {0}, utilization : Nat \ {0}, evalInterval : Nat,
          stabilization : Nat, tick : Nat \ {0}] :
     /\ w.minReplicas <= w.maxReplicas
     /\ \A i, j \in DOMAIN w.stages : i <= j => w.stages[i].end <= w.stages[j].end}

ASSUME AutoscalerAssumption == Workloads \subseteq Workload

Never == -1   \* last_eval_t before the first evaluation

VARIABLES
  workload,   \* the arguments of the call
  t,
  replicas,
  backlog,
  recent,     \* recent_desired: what evaluations in the window wanted
  lastEval,   \* last_eval_t
  points

autoscalerVars == <<workload, t, replicas, backlog, recent, lastEval, points>>

Stages == workload.stages
TotalDuration == IF Stages = <<>> THEN 0 ELSE Stages[Len(Stages)].end

(* A stage ramps from the target before it to its own; the first is flat.  *)
RampAt(i) ==
  LET start == IF i = 1 THEN 0 ELSE Stages[i - 1].end
      before == IF i = 1 THEN Stages[1].target ELSE Stages[i - 1].target
  IN  IF Stages[i].end = start THEN Stages[i].target
      ELSE before + ((Stages[i].target - before) * (t - start)) \div (Stages[i].end - start)

Demand ==
  IF Stages = <<>> THEN 0
  ELSE RampAt(CHOOSE i \in DOMAIN Stages :
                t <= Stages[i].end /\ \A j \in 1 .. i - 1 : Stages[j].end < t)

CeilDiv(a, b) == (a + b - 1) \div b

(* The replicas that carry a demand at the target utilization, clamped.    *)
DesiredFor(demand) ==
  Max({workload.minReplicas,
       Min({workload.maxReplicas, CeilDiv(100 * demand, workload.perReplica * workload.utilization)})})

Desired == DesiredFor(Demand)

Due == lastEval = Never \/ t - lastEval >= workload.evalInterval

(* Mutant: what is as old as the window has left it.                       *)
Window_Shorter ==
  {p \in recent \cup {[at |-> t, wanted |-> Desired]} : t - p.at < workload.stabilization}

Window ==
  {p \in recent \cup {[at |-> t, wanted |-> Desired]} : t - p.at <= workload.stabilization}

HeldFloor == Max({p.wanted : p \in Window})

-----------------------------------------------------------------------------
(* The end of every turn: traffic is served or waits, and is reported.     *)
Serve ==
  LET spare == replicas' * workload.perReplica - Demand
  IN  /\ backlog' = Max({0, backlog - spare * workload.tick})
      /\ points' = Append(points, [at |-> t, demand |-> Demand,
                                   replicas |-> replicas', backlog |-> backlog'])
      /\ t' = t + workload.tick
      /\ UNCHANGED workload

Evaluate == t <= TotalDuration /\ Due /\ recent' = Window /\ lastEval' = t

ScaleUp   == Evaluate /\ Desired > replicas /\ replicas' = Desired /\ Serve
ScaleDown == Evaluate /\ Desired <= replicas /\ HeldFloor < replicas /\ replicas' = HeldFloor /\ Serve
Hold      == Evaluate /\ Desired <= replicas /\ HeldFloor >= replicas /\ UNCHANGED replicas /\ Serve

BetweenEvaluations ==
  t <= TotalDuration /\ ~Due /\ UNCHANGED <<recent, lastEval, replicas>> /\ Serve

AutoscalerInit ==
  /\ workload \in Workloads
  /\ t = 0
  /\ replicas = workload.minReplicas
  /\ backlog = 0
  /\ recent = {}
  /\ lastEval = Never
  /\ points = <<>>

AutoscalerNext == ScaleUp \/ ScaleDown \/ Hold \/ BetweenEvaluations

AutoscalerSpec == AutoscalerInit /\ [][AutoscalerNext]_autoscalerVars

-----------------------------------------------------------------------------
(* The turns up to the n-th in which the replicas are evaluated: as many   *)
(* ticks lie between two as cover the interval.                            *)
Evaluations(n) ==
  LET every == Max({1, CeilDiv(workload.evalInterval, workload.tick)})
  IN  {m \in 1 .. n : (m - 1) % every = 0}

(* Replicas are what the most demanding evaluation of the stabilization    *)
(* window wanted, in every turn: up at once, and down when nothing in the  *)
(* window wants more (autoscaling.py:131-144).                             *)
ReplicasFollowWindow ==
  \A n \in DOMAIN points :
    LET last == points[Max(Evaluations(n))].at
    IN  points[n].replicas =
          Max({DesiredFor(points[m].demand) :
                 m \in {k \in Evaluations(n) : last - points[k].at <= workload.stabilization}})

(* What waits is what the worst stretch of turns up to now left unserved:  *)
(* spare capacity is not saved up for later (autoscaling.py:146-150).      *)
Unserved(m, n) ==
  MapThenSumSet(LAMBDA k : (points[k].demand - points[k].replicas * workload.perReplica) * workload.tick, m .. n)

BacklogIsUnserved ==
  \A n \in DOMAIN points : points[n].backlog = Max({Unserved(m, n) : m \in 1 .. n + 1})

(* The points that are reported follow from the traffic alone as the       *)
(* docstring says (autoscaling.py:3-20): an implementation with a window   *)
(* and a running backlog agrees with both definitions, turn by turn.       *)
PointsAreTrue == ReplicasFollowWindow /\ BacklogIsUnserved

(* No replica is dropped that an evaluation still in the window wants, and *)
(* none is kept that none wants (autoscaling.py:136-143).                  *)
ReplicasAreHeld ==
  /\ replicas \in workload.minReplicas .. workload.maxReplicas
  /\ \A p \in recent : p.wanted <= replicas
  /\ recent # {} => \E p \in recent : p.wanted = replicas
=============================================================================
