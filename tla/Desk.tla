--------------------------------- MODULE Desk ---------------------------------
(***************************************************************************)
(* The panels with a form that is submitted by a button: scheduler,        *)
(* autoscaling, MIG planner, network contention and trace replay.  The     *)
(* form can be edited while its run is under way, by the user and by lists *)
(* and texts that arrive late; what is shown afterwards is of the form as  *)
(* it was submitted.  `desk' says which panel a behaviour follows, and a   *)
(* policy where the panels differ.  Leaving the tab ends a behaviour:      *)
(* the panel comes back as at first, and late answers go nowhere.          *)
(***************************************************************************)
EXTENDS Integers, Sequences, Fetch

CONSTANTS
  MaxRows,  \* bound
  MaxLoads  \* bound: lists and texts on their way

ASSUME DeskAssumption == MaxRows \in Nat /\ MaxLoads \in Nat

VARIABLES
  desk,
  choosable,  \* the list its GPU or fabric is chosen from: "awaited", "there", "never"
  choice,     \* !!gpuId, or !!fabricId
  rows,       \* of jobs, stages or requests; of a trace: whether it has text
  sample,     \* of the trace panel: the sample trace is on its way
  loads,      \* on their way: profiles, live runs, or traces in plain English
  run,        \* the result, as in Fetch
  edited      \* history: the form has changed since it was last submitted

deskVars == <<desk, choosable, choice, rows, sample, loads, run, edited>>

(* Where the choices come from, what else may come, and how many rows      *)
(* there are at first.                                                     *)
SchedulerPanel == [lists |-> "page", loads |-> "nothing", rows |-> 2]

AutoscalingPanel == [lists |-> "page", loads |-> "nothing", rows |-> 2]

MigPlannerPanel == [lists |-> "panel", loads |-> "profiles", rows |-> 2]

NetworkContentionPanel == [lists |-> "panel", loads |-> "runs", rows |-> 2]

TraceReplayPanel == [lists |-> "page", loads |-> "text", rows |-> 0]

DeskNames == {"scheduler", "autoscaling", "mig", "network", "trace"}

DeskPolicy ==
  CASE desk = "scheduler" -> SchedulerPanel
    [] desk = "autoscaling" -> AutoscalingPanel
    [] desk = "mig" -> MigPlannerPanel
    [] desk = "network" -> NetworkContentionPanel
    [] desk = "trace" -> TraceReplayPanel

-----------------------------------------------------------------------------
(* Whoever changes the form, a run under way is of the form before.        *)
FormChanges == run' = Outdated(run) /\ edited' = TRUE

(* Model, workload, pool, limits; a field of a row; the text of a trace.   *)
EditField ==
  /\ FormChanges
  /\ UNCHANGED <<desk, choosable, choice, rows, sample, loads>>

EditRow == rows > 0 /\ desk # "trace" /\ EditField

EditText ==
  /\ desk = "trace" /\ rows' \in 0 .. 1 /\ FormChanges
  /\ UNCHANGED <<desk, choosable, choice, sample, loads>>

AddRow ==
  /\ desk # "trace" /\ rows < MaxRows
  /\ rows' = rows + 1 /\ FormChanges
  /\ UNCHANGED <<desk, sample, choosable, choice, loads>>

RemoveRow ==
  /\ desk # "trace" /\ rows > 1
  /\ rows' = rows - 1 /\ FormChanges
  /\ UNCHANGED <<desk, sample, choosable, choice, loads>>

(* Of another GPU the MIG planner asks for the profiles; nothing cancels   *)
(* the request for those of the GPU before.                                *)
Choose ==
  /\ choosable = "there" /\ loads < MaxLoads
  /\ choice' = TRUE /\ FormChanges
  /\ loads' = IF DeskPolicy.loads = "profiles" THEN loads + 1 ELSE loads
  /\ UNCHANGED <<desk, sample, choosable, rows>>

(* Mutant: the button stays enabled.                                       *)
Submit_Again ==
  /\ choice /\ (desk = "trace" => rows > 0) /\ Len(run.pending) < 2
  /\ run' = Ask(run) /\ edited' = FALSE
  /\ UNCHANGED <<desk, sample, choosable, choice, rows, loads>>

Submit ==
  /\ choice /\ (desk = "trace" => rows > 0) /\ ~run.loading
  /\ run' = Ask(run) /\ edited' = FALSE
  /\ UNCHANGED <<desk, sample, choosable, choice, rows, loads>>

RunAnswer(i) ==
  /\ run' = Answered(run, i)
  /\ UNCHANGED <<desk, sample, choosable, choice, rows, loads, edited>>

RunFailure(i) ==
  /\ run' = Broken(run, i)
  /\ UNCHANGED <<desk, sample, choosable, choice, rows, loads, edited>>

-----------------------------------------------------------------------------
(* What the panel asks for when it mounts: its own list, whose first entry *)
(* is chosen unless one is, or a sample trace, which takes the place of    *)
(* what has been written before it comes.                                  *)
ListArrives ==
  /\ DeskPolicy.lists = "panel" /\ choosable = "awaited"
  /\ choosable' = "there" /\ choice' = TRUE /\ FormChanges
  /\ loads' = IF DeskPolicy.loads = "profiles" THEN loads + 1 ELSE loads
  /\ UNCHANGED <<desk, sample, rows>>

(* The page's list arrives; a panel that is there already chooses nothing. *)
PageListArrives ==
  /\ DeskPolicy.lists = "page" /\ choosable = "awaited"
  /\ choosable' = "there"
  /\ UNCHANGED <<desk, sample, choice, rows, loads, run, edited>>

(* "Load live running jobs", which is disabled while it loads.             *)
LoadRuns ==
  /\ DeskPolicy.loads = "runs" /\ loads = 0
  /\ loads' = 1
  /\ UNCHANGED <<desk, sample, choosable, choice, rows, run, edited>>

(* "Generate", or Enter, which is not disabled while a trace is generated. *)
GenerateText ==
  /\ DeskPolicy.loads = "text" /\ loads < MaxLoads
  /\ loads' = loads + 1
  /\ UNCHANGED <<desk, sample, choosable, choice, rows, run, edited>>

(* Profiles fill the rows that have none.                                  *)
ProfilesArrive ==
  /\ DeskPolicy.loads = "profiles" /\ loads > 0 /\ loads' = loads - 1
  /\ FormChanges
  /\ UNCHANGED <<desk, sample, choosable, choice, rows>>

(* The running jobs take the place of the rows, and their fabric is        *)
(* chosen; if none runs all stays.                                         *)
RunsArrive ==
  /\ DeskPolicy.loads = "runs" /\ loads > 0 /\ loads' = loads - 1
  /\ \/ \E n \in 1 .. MaxRows : rows' = n /\ choice' = TRUE /\ FormChanges
     \/ UNCHANGED <<rows, choice, run, edited>>
  /\ UNCHANGED <<desk, sample, choosable>>

TextArrives ==
  /\ DeskPolicy.loads = "text" /\ loads > 0 /\ loads' = loads - 1
  /\ rows' = 1 /\ FormChanges
  /\ UNCHANGED <<desk, sample, choosable, choice>>

SampleArrives ==
  /\ sample /\ sample' = FALSE
  /\ rows' = 1 /\ FormChanges
  /\ UNCHANGED <<desk, choosable, choice, loads>>

SampleFails ==
  /\ sample /\ sample' = FALSE
  /\ run' = [run EXCEPT !.error = "other"]
  /\ UNCHANGED <<desk, choosable, choice, rows, loads, edited>>

(* The failure of a profile list is shown where a run's is; the others     *)
(* have a place of their own.                                              *)
LoadFails ==
  /\ loads > 0 /\ loads' = loads - 1
  /\ run' = IF DeskPolicy.loads = "profiles" THEN [run EXCEPT !.error = "other"] ELSE run
  /\ UNCHANGED <<desk, sample, choosable, choice, rows, edited>>

ListFails ==
  /\ DeskPolicy.lists = "panel" /\ choosable = "awaited"
  /\ choosable' = "never"
  /\ run' = [run EXCEPT !.error = "other"]
  /\ UNCHANGED <<desk, sample, choice, rows, loads, edited>>

-----------------------------------------------------------------------------
DeskInit ==
  /\ desk \in DeskNames
  /\ choosable \in {"awaited", "there"} /\ (DeskPolicy.lists = "panel" => choosable = "awaited")
  /\ choice = (choosable = "there")
  /\ rows = DeskPolicy.rows
  /\ sample = (desk = "trace") /\ loads = 0
  /\ run = Nothing /\ edited = TRUE

DeskNext ==
  \/ EditField \/ EditRow \/ EditText \/ AddRow \/ RemoveRow \/ Choose \/ Submit
  \/ \E i \in DOMAIN run.pending : RunAnswer(i) \/ RunFailure(i)
  \/ ListArrives \/ PageListArrives \/ ListFails
  \/ LoadRuns \/ GenerateText \/ ProfilesArrive \/ RunsArrive \/ TextArrives \/ LoadFails
  \/ SampleArrives \/ SampleFails

DeskSpec == DeskInit /\ [][DeskNext]_deskVars

-----------------------------------------------------------------------------
(* When no run is under way and nothing has changed the form since the     *)
(* last one was submitted, the panel shows that run's answer or error, or  *)
(* the error of a list or text that failed meanwhile; never what an        *)
(* earlier run found (SchedulerPanel.tsx:54-74, 183,                       *)
(* NetworkContentionPanel.tsx:132-170, 258, MigPlannerPanel.tsx:43-78).    *)
LastRunIsShown == ~edited /\ ~run.loading => Visible(run) \in {"now", "other"}
===============================================================================
