------------------------------ MODULE RunsStore ------------------------------
(***************************************************************************)
(* The in-memory store of live training runs (api/runs_store.py).  Every   *)
(* method of the class runs under one lock, so each is one atomic action.  *)
(* The module is used twice: by itself (StoreSpec: any caller may make any *)
(* call at any time), and as the shared state of SimRuns, whose handlers   *)
(* and simulation tasks call these actions one at a time.                  *)
(*                                                                         *)
(* Data abstraction: of a run's metadata only the fabric is kept; of a     *)
(* reported step only its number; `updated_at', event ids, severities,     *)
(* checkpoint sizes and overheads are left out.  The dict is a total       *)
(* function: an id that is not a key maps to NoRun.                        *)
(***************************************************************************)
EXTENDS Integers, Sequences, FiniteSets

CONSTANTS
  RunIds,           \* ids a caller may use
  Fabrics,          \* values of meta["fabric_id"], NoFabric among them
  NoFabric,         \* meta["fabric_id"] is None
  MaxRuns,          \* RunsStore(max_runs=...)
  MaxSteps,         \* RunsStore(max_steps_per_run=...)
  Injections,       \* the [kind, dur] of the injections that are requested
  MaxTime,          \* bound: the wall clock shows 0..MaxTime
  ClockMayRegress,  \* TRUE: time.time() may be stepped backwards
  MaxStep,          \* bound: step numbers are 1..MaxStep
  MaxEvents         \* bound: chaos events, and checkpoint events of StoreNext

VARIABLES
  runs,   \* self._runs, with its RunState objects
  clock   \* the last value time.time() gave to a started run

storeVars == <<runs, clock>>

Permanent == 0     \* duration_steps is None
Kinds     == {"xid_error", "nvlink_degradation", "node_drain"}
Statuses  == {"absent", "running", "done", "stopped"}

ASSUME StoreAssumption ==
  /\ IsFiniteSet(RunIds)
  /\ NoFabric \in Fabrics
  /\ MaxRuns \in Nat \ {0}
  /\ MaxSteps \in Nat \ {0}
  /\ Injections \subseteq [kind : Kinds, dur : Nat]
  /\ MaxTime \in Nat
  /\ MaxStep \in Nat
  /\ MaxEvents \in Nat
  /\ ClockMayRegress \in BOOLEAN

ChaosEvent == [kind : Kinds, at : Nat, dur : Nat]
CkptEvent  == [kind : {"save", "restore"}, step : Nat, lost : Int]
RunState   == [status : Statuses, fabric : Fabrics, steps : Seq(Nat),
               events : Seq(ChaosEvent), ckpts : Seq(CkptEvent), started : Nat]

NoRun == [status |-> "absent", fabric |-> NoFabric, steps |-> <<>>,
          events |-> <<>>, ckpts |-> <<>>, started |-> 0]

Fresh(fabric, now) == [NoRun EXCEPT !.status = "running", !.fabric = fabric,
                                    !.started = now]

Known(r)   == runs[r].status # "absent"      \* r in self._runs
Running(r) == runs[r].status = "running"

Held(rs) == {r \in RunIds : rs[r].status # "absent"}

(* Mutants: evict the newest run; evict any run.                           *)
Oldest_Newest(rs) == {r \in Held(rs) : \A k \in Held(rs) : rs[r].started >= rs[k].started}
Oldest_Any(rs) == Held(rs)

(* min(self._runs, key=started_at).  The dict breaks ties by insertion     *)
(* order; the model lets any of the tied runs be the minimum, except that  *)
(* the run being started never wins a tie: it was inserted last.           *)
Oldest(rs) == {r \in Held(rs) : \A k \in Held(rs) : rs[r].started <= rs[k].started}

(* Mutant: a full history keeps its first steps.                           *)
LastOf_First(s) == IF Len(s) > MaxSteps THEN SubSeq(s, 1, MaxSteps) ELSE s

LatestStep(run) == IF run.steps = <<>> THEN 0 ELSE run.steps[Len(run.steps)]

LastOf(s) == IF Len(s) > MaxSteps
             THEN SubSeq(s, Len(s) - MaxSteps + 1, Len(s))
             ELSE s

Now == IF ClockMayRegress THEN 0 .. MaxTime ELSE clock .. MaxTime

-----------------------------------------------------------------------------
(* The methods.  One that finds no run returns None and changes nothing.   *)

Start(r, fabric, now) ==
  LET rs == [runs EXCEPT ![r] = Fresh(fabric, now)]
  IN  /\ clock' = now
      /\ \/ /\ \/ Cardinality(Held(rs)) <= MaxRuns
               \/ Oldest(rs) = {r}
            /\ runs' = rs
         \/ /\ Cardinality(Held(rs)) > MaxRuns
            /\ \E k \in Oldest(rs) \ {r} : runs' = [rs EXCEPT ![k] = NoRun]

Update(r, run) ==
  /\ runs' = IF Known(r) THEN [runs EXCEPT ![r] = run] ELSE runs
  /\ UNCHANGED clock

AddStep(r, n) ==
  Update(r, [runs[r] EXCEPT !.steps = LastOf(Append(runs[r].steps, n))])

Finish(r) == Update(r, [runs[r] EXCEPT !.status = "done"])

Stop(r) == Update(r, [runs[r] EXCEPT !.status = "stopped"])

InjectEvent(r, kind, dur) ==
  LET event == [kind |-> kind, at |-> LatestStep(runs[r]), dur |-> dur]
  IN  Update(r, [runs[r] EXCEPT !.events = Append(runs[r].events, event)])

AddCheckpointEvent(r, event) ==
  Update(r, [runs[r] EXCEPT !.ckpts = Append(runs[r].ckpts, event)])

(* The other runs reported as running on the fabric.                       *)
ActiveOnFabric(fabric, self) ==
  {k \in RunIds \ {self} : Running(k) /\ runs[k].fabric = fabric}

-----------------------------------------------------------------------------
StoreInit == runs = [r \in RunIds |-> NoRun] /\ clock = 0

StoreNext ==
  \E r \in RunIds :
    \/ \E f \in Fabrics, now \in Now : Start(r, f, now)
    \/ \E n \in 1 .. MaxStep : AddStep(r, n)
    \/ Finish(r)
    \/ Stop(r)
    \/ \E inj \in Injections :
         Len(runs[r].events) < MaxEvents /\ InjectEvent(r, inj.kind, inj.dur)
    \/ \E k \in {"save", "restore"} :
         /\ Len(runs[r].ckpts) < MaxEvents
         /\ AddCheckpointEvent(r, [kind |-> k, step |-> LatestStep(runs[r]), lost |-> 0])

StoreSpec == StoreInit /\ [][StoreNext]_storeVars

-----------------------------------------------------------------------------
(* The state is well typed: every key maps to a complete RunState.         *)
StoreTypeOK == runs \in [RunIds -> RunState] /\ clock \in Nat

(* `max_runs' is a bound on the dict: with a wall clock that never goes    *)
(* back, start() always finds a victim other than the run it inserts, so   *)
(* evicting at most one run per start is enough (runs_store.py:39-42).     *)
CapHolds == Cardinality(Held(runs)) <= MaxRuns

(* A run leaves the dict only when another run is started, and then no run *)
(* that stays behind was started before it: a viewer never loses a recent  *)
(* run to an old one, whatever its status (runs_store.py:39-42).           *)
EvictsOldest ==
  [][\A k \in RunIds :
       (Known(k) /\ ~Known(k)') =>
          /\ \E r \in RunIds \ {k} : Running(r)' /\ runs'[r].started = clock'
          /\ \A r \in RunIds : Known(r)' => runs[k].started <= runs'[r].started]_storeVars
=============================================================================
