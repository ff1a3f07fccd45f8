# A formal model of FauxGPU

FauxGPU pretends to be a GPU cluster: it answers what a training or inference
job would cost and how long it would take, it runs simulated training jobs that
users can watch, stop and disturb, and it advertises fake GPUs to a small
Kubernetes cluster. This directory holds TLA+ models of the parts of it that
have state and behaviour over time, the TLC configurations that check them on
small instances, and TLAPS proofs for instances of any size. Line numbers refer
to the files of this repository.

Contents: [inventory](#inventory) · [modules](#modules) · [runs](#runs) ·
[bounds](#bounds) · [fairness](#fairness) · [refinement](#refinement) ·
[proofs](#proofs) · [findings](#findings) · [not modelled](#not-modelled) ·
[plan](#plan) · [running](#running)

## Inventory

| Component | State it keeps | Operations | Hard behaviour | What makes it correct |
|---|---|---|---|---|
| Run store, `api/runs_store.py` | a dict of at most `max_runs` runs, each with status, step history, chaos and checkpoint events; one lock | start (and evict), add_step (and trim), finish, stop, inject_event, add_checkpoint_event, active_on_fabric | called from pool threads and from the event loop; eviction of a run somebody still uses; wall-clock time as age | the bound holds, the oldest goes, a history is the last steps in order |
| Simulations and run control, `api/routers/runs.py` | `_sim_tasks` and one coroutine per run | simulate_run, stop_run, inject_failure, the loop `_run_simulation`; /start, /step, /done for the trainer | check-then-act across two calls of the store; cancellation delivered only at a sleep; exceptions inside and outside the `try` | no false "done", a bounded tail after a stop, every failure charged once, no run left as running |
| Chaos and checkpoints, `engine/chaos.py`, `engine/checkpointing.py` | none of their own | is_active, is_recovery_trigger, cost formulas | when an event is active against when the loop looks | as above |
| Trainer, `k3s/trainer/train.py` | a step counter in a Kubernetes Job | best-effort POSTs of start, step, done | lost, late and reordered posts; restart of the API; deletion of the Job while it runs | a run's state follows its trainer's as far as posts arrive; a run that is over never runs again |
| Kubernetes launcher, `api/k8s_launcher.py` | objects in the cluster | create and delete Jobs, Deployments and Services | a failure between two calls | no half-created server is taken for a whole one |
| GPU scheduler, `engine/scheduler.py` | a heap of events, running and queued jobs, free GPUs, per-job accounts | place, preempt, try_admit, sweep_queue, the event loop, close-out | long histories of preemption and resumption, stale completions, ties at one instant | GPUs and work are conserved, nobody is lost or starves, the timeline fits the pool |
| Autoscaler, `engine/autoscaling.py` | replicas, wanted replicas of the window, backlog | one turn per tick of simulated time | evaluation interval against tick and stabilization window | replicas are what the window says, waiting requests are what was not served |
| MIG packing, `engine/mig.py` | slots left on each GPU | place or leave unplaced | two budgets at once | placements fit both budgets, and nothing is passed over |
| Live training panel, `web/.../LiveTrainingPanel.tsx` | list, selection, detail, two polls, four buttons | poll, pick, start, launch, stop, inject | answers in any order about runs that have moved on; a selection that changes under a request | what is not polled any more is over, what is polled is shown as it is |
| Request playground, `web/.../MultiRequestPlayground.tsx` | lanes, a chain of streams, a run number | add, remove, edit, run, stop | streams that outlive their run; a stream that writes into an object that has been replaced | prefills queue, a lane shows its own stream, a run ends when all lanes are done |
| Page and calculating panels, `web/src/app/page.tsx` and eight panels | a form shared by the tabs; a result, an error and a loading mark for each panel | edit, ask, receive | nothing cancels the request of the form before; each panel clears something else | fields agree with each other; what is shown is of the form as it is |
| Comparisons, `ComparePanel.tsx`, `GpuComparePanel.tsx` | columns with results | add, remove, update a column | requests of several columns cancelled together; columns without a GPU | each column shows its own inputs, the best is the best shown |
| Panels with a button: scheduler, autoscaling, MIG planner, contention, trace replay | a form, a run, lists and texts that load | edit, submit, load | what loads late changes the form under a run | what is shown is of the last submission |
| Inference server panel, `RealInferenceServerPanel.tsx` | the name of one server, three requests | launch, stop, try | partial failure, lost answers, leaving the tab | no server is forgotten |
| Event streams and assistant, `lib/api.ts`, `LiveInferencePlayground.tsx`, `AiChatPanel.tsx` | a buffer of text, what has been shown | read a chunk, handle a block | chunks cut anywhere | each event is shown once, when it has arrived |
| Metrics, DCGM, Grafana push, `api/metrics.py`, `api/dcgm_metrics.py`, `api/grafana_push.py`, `api/live_phase.py` | none that is read back | scrape, push every few seconds | best-effort pushes | what is pushed last is zero when nothing runs |
| AI assistant and settings, `api/ai_settings_db.py`, `api/ai_providers.py`, `api/langfuse_client.py`, `api/routers/ai.py` | one encrypted row per provider in SQLite | read, write, call a provider | external services | settings read are settings written |
| Device plugin, `k3s/device-plugin/main.go` | a fixed list of devices | register, ListAndWatch, Allocate | restart of the kubelet | what is allocated was advertised |
| Contention and topology, `engine/network_contention.py`, `engine/topology.py` | none | formulas | - | - |
| Calculators, `engine/memory.py`, `parallelism.py`, `inference.py`, `cost.py`, `power.py`, ... | none | formulas over real numbers | - | - |

How they interact. HTTP handlers declared with `def` (stop_run, inject_failure,
every read) run in a pool of threads; `async def` handlers and the simulation
tasks share the single event-loop thread and give it up only at an `await`. The
run store is what they share, and its lock covers one method at a time, never
two. The trainer reaches the same store over HTTP, from a pod the API has
created and may delete. The live training panel polls the store; it does not
matter to it who reports a run, and `RunLife` is what both kinds of run promise
it. The other panels call the calculators and the simulators, which are
functions: there the difficulty is on the side of the page, where an answer
arrives after its question has changed. The scheduler, the autoscaler and MIG
packing are sequential and share nothing: there the difficulty is the length of
a history and not concurrency.

## Modules

| Module | Role |
|---|---|
| `RunsStore` | the store: one atomic action per method; alone (`StoreSpec`) any caller makes any call |
| `SimRuns` | extends `RunsStore`: simulation tasks and request handlers that call its actions |
| `TrainerJob` | extends `RunsStore`: trainers in Kubernetes Jobs, their posts, launch and stop |
| `RunLife` | abstract: what a viewer may see of a run; `SimRuns` and `TrainerJob` implement it, `LivePanel` relies on it |
| `LivePanel` | extends `RunLife`: the panel that polls runs |
| `Scheduler`, `Autoscaler`, `MigPacking` | the simulators of `engine/`; `MCEngine` composes them for TLC |
| `Playground` | the lanes of the multi-request playground |
| `Fetch` | operators: a result that an effect fetches |
| `Page`, `Panels`, `Desk` | the form with its two results, the panels that calculate as one types, the panels with a button |
| `CompareModels`, `GpuCompare`, `Best` | the two comparisons and how they find the best figure |
| `Serving` | a real inference server: its panel, and the launcher's two calls |
| `Stream` | a server-sent event stream from bytes to the screen |
| `RunsStoreProofs`, `SimRunsProofs`, `SimLifeProofs`, `TrainerProofs`, `EngineProofs`, `LivePanelProofs`, `WebProofs`, `PlaygroundProofs` | theorems and proofs |
| `MCRunsStore`, `MCSimRuns`, `MCTrainerJob`, `MCLivePanel`, `MCScheduler`, `MCEngine`, `MCWeb` | values of the constants for TLC |

Parts that share nothing are checked one at a time in one run: in `MCEngine` and
`MCWeb` a variable `part`, chosen at the start, says which of them moves.

### RunsStore

`runs` is the dict as a total function, an id that is not a key mapping to
`NoRun`; `clock` is the last value `time.time()` gave to a started run. Each
method holds the lock for its whole body, so each is one action, and `Start`
includes the eviction at `runs_store.py:39-42` and `AddStep` the trimming at
`runs_store.py:51-52`. A method that finds no run changes nothing. The dict's
insertion order, which breaks ties between equally old runs, is abstracted to a
choice among the tied ones that never takes the run being inserted.

Kept of a run: status, fabric, step numbers, chaos events (kind, step they were
stamped with, duration), checkpoint events (kind, step, steps lost), start time.
Left out: the rest of the metadata, step metrics, severities, sizes, overheads.

### SimRuns

`task[r]` is the coroutine of run `r`: the point it has reached and its local
variables. The points are the places where a thread can come between, that is
around every call to the store, and the awaits:

| Point | Code | Action |
|---|---|---|
| begin | `runs.py:249-282` estimate, then register | `BeginSimulation`, `EstimateFails` |
| top | `runs.py:283-294` read the run, collect events due; or leave the loop, `344-348` | `ReadEvents`, `FinishRun` |
| contend | `runs.py:60-86`, `295` share the fabric | `ShareFabric`, `FabricFails` |
| save | `runs.py:303-309` | `SaveCheckpoint` |
| restore | `runs.py:311-326`, one event at a time | `Recover` |
| sleep | `runs.py:328-329` | `Wake`, `Cancelled` |
| record | `runs.py:330-338` | `RecordStep` |
| pop | `runs.py:349-350` the `finally` clause | `PopTask` |

`LoopFree` says that no task is between two awaits; only then may another task,
or `simulate_run`, take the loop. Threads need no such permission.

`handler[c]` is the request client `c` has in flight. `stop_run` is three
actions (`StopRequest` looks the run up, `CancelTask` finds and cancels the
task, `StopAnswer` marks the run), `inject_failure` two (`InjectRequest`
validates, `InjectAnswer` appends), `simulate_run` two (`SimulateRequest`,
`SimulateAnswer` after its 50 ms sleep). A refused request changes nothing and
is not a step. `cancelAt` is a history variable: the loop's step when the
cancellation came.

Times are left out, so a sleep may last any time at all, and a handler's two
calls may be any time apart.

### TrainerJob

`trainer[r]` is the process in the Job's pod: it sends one post and waits for
it, until it is answered, refused or given up after the timeout (`train.py:40-49`).
`wire` holds what was sent and not handled: a post that was given up may still be
handled, after later ones. `Handle` is the API's /start, /step and /done with the
store's action; `Lose` a refused or broken connection; `PodEnds` the end of a
deleted pod or the crash of any; `ApiRestart` empties the store and the requests
in hand. `stop_run` of a Job is three actions, for the look-up, the deletion
(`DeleteJob` or `DeleteFails`) and the mark, in that order (`runs.py:141-158`).
`faulty` is history: the runs a loss, a timeout, a crash or a restart has
touched; `CleanRunsAreTrue` speaks of the others only.

### Scheduler

`heap` is a set of events, and `First` picks the one `heapq` would by comparing
`EventKey`, the tuple of `scheduler.py:111`, from the left. A turn of the loop is
`Admit`, `AdmitByPreempting`, `Enqueue` (arrivals), `Complete` (with the sweep of
the queue), or `SkipStale` (completions of an earlier stint); `CloseOut` is
`scheduler.py:205-214`. Two loops inside a turn are given by what they compute:

* `Victims(j)`: a candidate is a victim if what is free and what the candidates
  before it free do not suffice yet (`scheduler.py:161-168`);
* `Swept(P, avail)`: `P` holds exactly the queued jobs that fit beside the
  members of `P` before them in the queue (`scheduler.py:177-182`). One set `P`
  satisfies this, because the queue order is total.

Generations count placements, as in the code, so that a stale completion is told
by its number. Requests range over `Inputs`; a duration of zero is possible
because a CSV trace may hold one (`trace_replay.py`). The team and the id of a
job are labels and left out; a job is its place in the list.

### Autoscaler and MigPacking

One step of `Autoscaler` is one turn of the loop at `autoscaling.py:119-160`:
`ScaleUp`, `ScaleDown` and `Hold` are the outcomes of an evaluation,
`BetweenEvaluations` a turn without one, and each ends with `Serve`, which serves
traffic and appends a point. A stage is given by when it ends instead of how long
it lasts. Times, rates and requests are whole numbers, and a replica's capacity,
which another part of the engine calculates, is an input.

`ReplicasFollowWindow` and `BacklogIsUnserved` define the answer a second time,
from the points alone and without a running window or backlog: replicas are the
maximum wanted over the window that ends with the last evaluation, the backlog is
the worst sum of unserved traffic over any stretch that ends now.

One step of `MigPacking` is one turn of the loop at `mig.py:126-149`. `placed`
stands for both lists of the answer, `placements` and `unplaced`.

### LivePanel

The panel's two polls, its selection, its detail and the four buttons' requests,
with an API whose runs move as `RunLife` lets them, by themselves and by the
panel's own requests. A poll, or a request, is sent, served and answered in three
steps, so that an answer is of a moment that may be past; it may fail before or
after it is served. `Select` is `setSelectedId` with the effect that follows:
polls of the selection before are cancelled. The numbers and charts made of a
run's steps are left out.

### Playground

`streams` holds the calls of `runLane` that have not ended. What is hard is
identity: a stream writes into the lane object it was started with, and an edit
replaces that object by a copy, so a stream's record says whether its object is
still the one that is shown (`attached`). Whether a stream belongs to the current
run, which the code tells by comparing run numbers, is `current`. `Finally` is
the `finally` clause with the start of the next lane and the end of the run
(`MultiRequestPlayground.tsx:174-181`).

### Fetch, Page, Panels and Desk

Of a result only one thing matters in `Fetch`: whether it is of the inputs as
they are "now" or as they were "before". A change of inputs ages what is shown
and what is in flight; `Ask`, `Answered` and `Broken` are the three things an
effect does. Answers come in any order, and `crossed` remembers that two did.

`Page` is the form with the cross-field rules of `ModelPanel` (a preset and its
architecture, sharding and LoRA), the link it may be hydrated from, the GPU and
the topology, and one of its two results: `Depends` is the effect's dependency
list, `Reads` what the body of its request says, and a property would fail if
the first missed part of the second.

`Panels` is eight panels that keep a result themselves. They differ in what they
clear and when, and whether they cancel and ask again: a record of these choices,
a policy, is read off each panel's effect. `Desk` does the same for five panels
with a form and a button; there the form can change while the run is under way,
by the user and by lists and texts that arrive late.

### CompareModels, GpuCompare and Best

`CompareModels` has a request for each column; every change of any input cancels
all and asks again (`Recompute`). `GpuCompare` computes its columns in each
render from the slots' GPUs, so its state is small and its difficulty is in
`slotGpus`, which leaves out a slot whose GPU is unknown and so shifts the
columns after it. `Best` is `bestId` and the radar's `normalise`; for the radar
values from 20 to 100 are whole numbers. A filter is a fold there (`Among`),
whose definition the prover can expand.

### Serving

The panel's name and three requests, the calls under way in the API, and the
cluster's Deployments and Services. Launch and stop are two cluster calls each
(`k8s_launcher.py:173-184`), either of which may fail, with or without effect;
an answer may be lost; leaving the tab forgets the name and orphans the calls.
`faulted` remembers the servers touched by such a fault.

### Stream

The wire is a sequence of line contents, CRs and LFs, read in chunks cut
anywhere, between a CR and its LF too. `Received` appends a chunk and normalises
line ends, `TakeBlock` takes what stands before the first blank line. The bytes
within a line are one character: that a name or a number may be cut is the same
case as cutting before it, since no line is looked at before its block is whole.

## Runs

| Run | Module, cfg | What it asks |
|---|---|---|
| store | `MCRunsStore` | `CapHolds`, `EvictsOldest` under arbitrary callers: an eviction per start is enough for the bound, and never takes a run newer than one that stays |
| sim | `MCSimRuns` | one simulation, two clients, every interleaving: the history is complete, "done" means all steps, a stop lets one more step through, each failure is charged once and for the work since the last save, no fault of three steps or more is missed |
| sim_many | `MCSimRuns`, `MCSimRunsMany.cfg` | three simulations in a store of two, on one fabric, on none or on one the catalogue lacks: each task ends (also when its run was evicted), no run but one whose task failed is left as running, and each implements `RunLife` |
| trainer | `MCTrainerJob` | two Jobs with lost, late and reordered posts, restarts, dying pods and failing stops: what the store says of an untouched run is true, a run marked stopped has no Job, each implements `RunLife`, and every trainer ends |
| engine | `MCEngine` | the scheduler over all requests of four jobs and two GPUs, and of three jobs that interrupt one another repeatedly: GPUs are accounted for, the queue always has something to wait for, no GPU idles that a queued job could use, only lower priorities are preempted, the timeline fits, time adds up, and every job completes. The autoscaler over all curves of three stages, MIG packing over all lists of four requests: each against its definition |
| live | `MCLivePanel` | the panel against runs that start and end by themselves: what it stops polling is over, no list moves a selection the user has made, and what it polls is shown as it is |
| playground | `Playground`, `MCPlayground.cfg` | three lanes started, stopped, edited and started again while streams deliver, report errors or break |
| web | `MCWeb` | page, calculating panels, comparisons, panels with a button, inference server and stream, with answers in any order or none |
| ghost | `MCSimRuns`, `FindGhost.cfg` | see [findings](#findings) |
| same_instant | `MCScheduler`, `FindSameInstant.cfg` | see [findings](#findings) |
| stuck_poll | `MCLivePanel`, `FindStuckPoll.cfg` | see [findings](#findings) |
| shifted_bars | `MCWeb`, `FindShiftedBars.cfg` | see [findings](#findings) |

Each property is stated in words above its definition.

## Bounds

| Bound | Value | Why it is enough |
|---|---|---|
| store: ids, `MaxRuns`, `MaxTime` | 3, 2, 2 | a full dict, a third run, ties in age and all orders of three ages |
| sim: `TotalSteps`, `MaxSteps`, `CkptInterval` | 5, 3, 2 | the history is trimmed twice, there are two saves, and an event of three steps has time to begin, be charged, and end |
| sim: `MaxEvents`, clients | 2, 2 | two events of each kind overlap; two handlers race with the task and with each other |
| sim_many: ids, `MaxRuns`, `TotalSteps`, clients | 3, 2, 1, 1 | a third run evicts one whose task is alive; contention of two; every way a task ends |
| `MaxTime` in sim, sim_many and trainer | 0 | all runs are equally old, so any other run may be the one evicted: more behaviours than with distinct ages |
| trainer: Jobs, `MaxRuns`, `TotalSteps` | 2, 1, 2 | a start evicts the other run while its trainer goes on posting; of two steps and an end, each may be late |
| engine, scheduler: jobs, `Pool`, priorities | 4, 2, {1, 2} | two victims for one arrival, two jobs waiting behind two that run, so that a sweep skips one and places the other |
| engine, scheduler: submission times, durations, horizon | {0, 1}, {0, 2}, {2, none} | ties at one instant, arrivals in the middle of a stint, jobs that take no time, a cut through running jobs |
| engine, scheduler: longer requests | 3 jobs at {0, 1, 2, 3}, durations {1, 3} | one job is interrupted by two others, at different instants; the wait is shorter than the work left, so that a stale completion comes in the middle of a later stint |
| engine, scheduler: the list of jobs | sorted by priority and submission | a place in the list only breaks ties between jobs equal in both, so the sorted lists stand for all |
| engine, scheduler: what is left out | no job at 0; a horizon without preemption | a request that is shifted in time runs alike; a horizon cuts a history of whichever kind |
| engine, autoscaler: stages, ends, targets | up to 3, {0, 2, 4, 8}, {0, 24, 72} | ramps up and down, flat stages, stages of no length; every ramp goes through whole numbers only, so rounding is never at play |
| engine, autoscaler: evaluation interval, window, tick, replicas | {2, 3}, {2, 4}, {1, 2}, 1..7 | ticks that divide the interval and that do not; windows of one and of several evaluations; a clamp that is reached and a backlog |
| engine, mig: pools, requests | {1, 2}, up to 4 | two requests may use up the memory of a GPU that has compute slots left, so that a third goes to the next GPU, or to none, and a fourth to either |
| live: runs, `MaxPolls`, `MaxRequests`, `InOrder` | 2, 1, 1, yes | a run to switch to and back while a poll or a stop of the other is on its way |
| stuck_poll: `MaxPolls`, `InOrder` | 2, no | the least that lets two polls of a run cross |
| playground: lanes, ids, tokens | 3, 3, 1 | a middle lane; a lane between first token and end; a lane removed and its place taken by another |
| playground: `MaxStale`, `MaxDisturbed` | 1, 1 | a stream of the run before beside those of this one; one break or edit is enough to break the chain |
| web: `MaxPending`, `MaxInFlight`, `MaxLoads`, `MaxReply` | 2 | two requests that cross, a third made while they do; two tokens or pings |
| web: columns, slot ids, `MaxRequests` | 3, 3 or 4, 3 | a column removed and one added while requests of both earlier effects are on their way |
| web: servers, GPUs, figures | 2, 3, three rows | a completion that arrives with the next server; rows with a missing figure, with ties, and with none |

Deadlock is not checked in the passing runs but `store`'s: once every run id is used,
or a simulator has returned, or a user does nothing more, the system may rest.

## Fairness

* `SimFairness` is weak fairness of each task and of each request in flight: the
  event loop runs every callback that is ready, a sleep ends, and the server
  finishes a handler it has begun. No client is obliged to make a request. Weak
  fairness suffices for a task that waits for the loop: between two awaits a task
  makes a bounded number of steps, and there is a bounded number of tasks.
* `TrainerFairness`: a trainer goes on with its loop and its timeout expires.
  Nothing is asked of the API or the network.
* `EngineSpec` assumes that the scheduler, once called, runs to its end.
* `LiveFairness`: the interval fires (weak), and the API serves and the network
  delivers each place of the poll queue if it can again and again (strong): a
  selection may change and a poll may fail any number of times, but not for ever.
* `PlayFairSpec`: the server goes on with each stream of the current run. The
  user is not obliged to do anything.

## Refinement

`RunLife` says what GET /runs/{id} may answer over time: unknown, then running,
then stopped or done, either of which may overwrite the other (a last report
after a stop, a stop that had looked the run up before its end), then gone for
ever; a run may be gone before anyone has seen it. `SimRuns` implements it under a mapping that takes a stored run to its
status and tells an absent one from its task (it may still begin, or it has);
`TrainerJob` under one that tells an absent run from whether its one start is
still to come. Both refinements are PROPERTYs of their runs
(`SimImplementsRunLife`, `ImplementsRunLife`) and theorems. `LivePanel` extends
`RunLife`, so what it is shown to do holds beside either kind of run.

## Proofs

The theorems hold for any number of runs, clients, steps, jobs, columns, lanes,
servers and catalogues. Assumptions are the types of the constants:
`StoreAssumption`, `SimAssumption`, `TrainerAssumption`, `SchedAssumption`,
`AutoscalerAssumption`, `MigAssumption`, `LiveAssumption`, `PlayAssumption`,
`PageAssumption`, `PanelsAssumption`, `DeskAssumption`, `CompareAssumption`,
`GpuCompareAssumption`, `ServingAssumption`. Two theorems have a hypothesis
besides, a condition that a run shows to be needed: `StoreCapped` that the clock
does not go back, `WhatIsNotPolledIsOver` that polls are answered in order.

Runs (`RunsStoreProofs`, `SimRunsProofs`, `SimLifeProofs`, `TrainerProofs`):

| Theorem | Says | Argument |
|---|---|---|
| `StoreTyped` | `StoreTypeOK` | one lemma per method, on what it writes |
| `StoreCapped` | `CapHolds`, if the clock does not go back | `StoreInv` adds that no run was started after the last reading of the clock: then a run other than the new one is among the oldest, and one eviction makes room. With a clock that goes back the new run may be the minimum of its own `min`, and the bound is lost |
| `StoreEvictsOldest` | `EvictsOldest` | from `StoreTyped` and what `Start` does; needs nothing of the clock |
| `SimTyped` | `SimTypeOK` | one lemma for the steps of tasks, one for those of handlers |
| `SimHistoryComplete`, `SimDoneMeansAllSteps`, `SimStopBoundsProgress` | the properties of the same names | `SimInv`: a run whose task has not begun is absent and not cancelled; a task's counter is one ahead of the history, which is `Recorded(i - 1)`; a task that is about to record when it is cancelled has `i <= cancelAt`; a handler that is about to cancel works on a task that has begun. `RecordedNext` is the lemma on sequences: trimming what is appended to the history of n steps gives the history of n + 1 |
| `SimIsRunLife` | `SimImplementsRunLife` | from `SimInv`: a run is absent before its task begins, and every action of the store changes a run by one of RunLife's moves |
| `SimEndedRunsAreMarked` | `EndedRunsAreMarked` | `MarkInv`: a task that has finished has marked its run, one that is cancelled was cancelled by a handler that is still to mark it, and one that failed had a fabric nobody knows |
| `SimRecoveredOnce`, `SimLostSinceSave`, `SimLongFaultsCharged` | the properties of the same names | `AccountInv`: every restore in the store is charged to one crashing fault the task has handled (`Charged`); `last_checkpoint_step` is the last save in the store, a multiple of the interval and less than an interval ago (`Saving`); a lasting fault is due two steps after it was stamped, and recovered from when the loop is back at its top (`Caught`) |
| `TrainerStoppedMeansDeleted` | `StoppedMeansDeleted` | strengthened by: a stop that is about to mark has deleted the Job; a start that arrives later makes a run that is running, so it needs no excuse |
| `TrainerIsRunLife` | `ImplementsRunLife` | a run is started at most once: its trainer has not sent its start, or the start is on the wire and the run is absent, or neither can happen again |
| `TrainerCleanRunsAreTrue` | `CleanRunsAreTrue` | `CleanInv`: for a run without a fault the wire has at most one post, of where its trainer is; the stored history is the trainer's, or one step behind while a step is on the wire; a deleted Job's run is marked or about to be, and a trainer that is over by itself was heard to the end |

The engine (`EngineProofs`):

| Theorem | Says | Argument |
|---|---|---|
| `SchedConserves`, `SchedQueueMoves`, `SchedPreemptsOnlyLower` | `GpusConserved`, `QueuedWaitsOnRunning`, `PreemptsOnlyLower` | `SchedInv`: a job has at most one arrival in the heap and is then neither running nor queued, and running and queued jobs are apart, so nobody is placed twice. If a sweep leaves the pool empty, nothing was held before it and every GPU is free; a job of the queue that is first in order would fit and be placed |
| `SchedTyped` | `SchedTypeOK`, `free >= 0` with it | a job is placed when it fits, also the last one of a sweep; the smallest sufficient prefix of the candidates gives back what the arriving job needs |
| `SchedNoIdle` | `NoIdleFit` | a sweep leaves behind only what does not fit in what it leaves free, and GPUs are freed only in a turn that sweeps |
| `SchedTimeAddsUp` | `TimeAddsUp` | `TimesInv`: a running job has one completion to come, at the end of its stint, and its stints, its waiting and what is left of its duration add up |
| `SchedTimelineFits` | `TimelineFits` | `PoolInTime` keeps who held GPUs at each instant that is past, and that they fitted; a segment is cut from a stint when it ends or at the horizon |
| `AutoscalerHolds` | `ReplicasAreHeld`: replicas are within bounds and the maximum of what the window's evaluations wanted | what an evaluation wants is between the bounds, the window is a nonempty set of numbers below a bound and so has a maximum (by well-foundedness), and the three outcomes of an evaluation each leave the replicas there |
| `AutoscalerPoints` | `PointsAreTrue` | `PointsInv`: the n-th point is n - 1 ticks after the first; the window that is kept is the part of the history it should be; the last multiple of the interval stays the last until the next one; the backlog is the worst stretch, since the sum of a stretch that grows by a turn grows by what that turn leaves unserved |
| `MigPacks` | `PackingIsFirstFit` | `MigStock`: what is placed on a GPU and what is left of it add up to its slots, so nothing is given twice. Room only shrinks: what had none for a request when it was handled never has |

The web application (`LivePanelProofs`, `WebProofs`, `PlaygroundProofs`):

| Theorem | Says | Argument |
|---|---|---|
| `WhatIsNotPolledIsOver` | `SettledIsOver`, if polls are answered in order | `LiveInv`: polls under way are of the selection; polls are served in order, so an answer that says the run is over is true, and so is every answer after it; what is no longer polled is over and shown as over, and no answer under way says otherwise. `FindStuckPoll` is the counterexample when answers cross: the only way to it |
| `PicksOutliveLists` | `SelectionSticks` | `KnownInv`: the runs of a list are known for good and there is a newest of them |
| `FormStaysConsistent` | `FormIsConsistent` | `FormInv`, one lemma per handler; the catalogue's arrival is one of them |
| `QuietPageIsCurrent` | `QuietIsCurrent` | `PageInv` adds to `FormInv`: unless answers have crossed there is no error beside a request (`Waits`), and the last request is of the form as it is, and so is what it leaves (`Shows`) |
| `PanelsShowCurrent`, `LastRunStaysShown` | `PanelShowsCurrent`, `LastRunIsShown` | the same for the calculating panels; for those with a button (`Follows`) one run is under way at a time, it is of the form until somebody edits it, and only the error of a list or a text can stand beside its answer |
| `CompareShowsCurrent` | `ColumnsAreCurrent` | `CompareInv`: a request that is not cancelled is of the inputs as they are, there is one for every column that loads, and a column that does not load is current |
| `BestStaysDisplayed` | `BestIsDisplayed` | `GpuCompareInv`: ids of columns are distinct and below the next. The rest is about the folds of `Best`: a filter keeps what it should, and the best of a list is a member that no member beats |
| `ServersStayTracked` | `ServersAreTracked` | `ServingInv`: of the calls of a panel at most one launches and one stops, a name is given once, and how far a call has come says which of a server's two objects exist |
| `ArrivedStaysShown` | `ArrivedIsShown` | `StreamInv`: for some m the first m events have been handled, and the buffer is the normalised text of what has been read after them. Normalising piece by piece gives what normalising at once does, as every CR on the wire is before its LF (`ChunksJoin`); after a line end the text is normalised by itself (`LineEndsAfter`); and the first blank line is the end of the next block once all of it is there, and not before (`BlockRead`, `PartRead`, `WholeRead`) |
| `LanesPrefillInTurn`, `LanesShowTheirStream`, `RunsEndWhenServed` | `PrefillsQueue`, `ShownIsStreamed`, `EndsWhenAllDone` | `PlayInv`: only the stream that was started last has not started the next one (`Ordered`); lanes have started up to a place and the others wait (`InPlace`); a lane shows what the stream attached to it got (`Shown`). A handler passes through states nobody sees, so these are said of any lanes and streams |

Sums, folds and filters: the library's induction theorems take an operator as a
parameter, which the provers cannot instantiate. Where a proof needs an induction
it supposes a number for which the claim fails and takes the smallest
(`SmallestOf`, `NoFirstFailure`, by `WFMin`), once for each fold; for texts, that
a set with the empty one that is closed under appending has them all
(`SequencesGrow`). The facts that come of it (what a sum over a set with one more
member is, what a filter returns) are lemmas that the theorems cite.

Every safety property that a passing run checks is stated by a theorem. Only
model-checked is liveness (`TasksEnd`, `AllComplete`, `TrainersEnd`,
`OverIsShown`, `StillRunningIsShown`, `UndisturbedRunsEnd`), which is beyond the
prover.

## Findings

Four runs end in a counterexample to something the repository says of itself.

* **ghost** (`NoGhost`, `runs.py:75`, `295`): a simulation on an unknown fabric
  runs as long as it is alone; when another one names the same fabric, the
  look-up raises in the loop, the task dies, and the run stays "running" for ever
  in the store and in `active_on_fabric`.
* **same_instant** (`FinishingFreesFirst`, `scheduler.py:106-111`): at one instant
  arrivals are handled before completions, the opposite of what the comment says
  of the reason for that order.
* **stuck_poll** (`SettledIsOver`, `LiveTrainingPanel.tsx:84-107`): the interval
  sends a poll whether or not the one before is answered. If the later one comes
  first and says that the run is over, the interval is cleared, and then the
  earlier one shows "running" again, for ever.
* **shifted_bars** (`OneBarPerGpu`, `GpuComparePanel.tsx:238`): columns made before
  the catalogue has arrived have no GPU, are left out of `slotGpus`, and shift the
  columns after them: a GPU that is picked for the second column is drawn in the
  first, in its colour and with its name's figures.

Met on the way, and stated here or as the exception a property makes, without a
run of their own:

* a crashing fault of one or two steps is stamped with the last recorded step and
  has expired when the loop next looks, so no recovery is charged, although the
  comment at `runs.py:312-317` wants events whose step is already behind the loop
  to count (`LongFaultsCharged` begins at three steps);
* a run that ends between the two calls of `inject_failure` is injected all the
  same (`runs.py:168`, `190`; `tests/test_runs_inject.py:15-21`);
* a running simulation that the store has evicted cannot be stopped: `stop_run`
  asks the store before `_sim_tasks` (`runs.py:141`);
* preemption takes victims smallest first and gives none back, so one may be
  preempted whose GPUs are not needed (`scheduler.py:120-125`, `161-168`);
* on the page, an error of an earlier request stays over a later answer if it
  comes after the later request was made (`page.tsx:192-195`, let by in
  `QuietIsCurrent` as a crossing); an error of the economics is never cleared
  (`CostDashboardPanel.tsx:51`);
* equal figures of which less is better are drawn at the inner edge of the radar,
  and those of which more is better at the rim (`ComparePanel.tsx:159-160`);
* a completion that arrives late is shown beside the next server; leaving the
  inference tab forgets a server that goes on running; a server of which only one
  object was deleted cannot be deleted from the panel, whose every attempt now
  fails at the one that is gone (`k8s_launcher.py:183-184`);
* a playground run does not end by itself when a stream breaks before its `done`,
  or writes into a lane that was edited meanwhile
  (`MultiRequestPlayground.tsx:174-181`, `211`).

## Not modelled

* Numbers: step times, memory, cost, power, carbon and contention are formulas
  over floating-point numbers without state, out of TLC's reach. So is the
  rounding of ramps and utilizations in the autoscaler.
* Answers and wording of the HTTP API, except where an error ends a task.
* `_to_summary` on a run evicted between the two calls of a handler: the handler
  fails after the store's state is settled, so nothing else changes.
* Parsing of CSV traces; a trace's negative numbers.
* Charts, figures, static text and type declarations of the web application; the
  settings dialog, which stores one key at a time; the plain requests of
  `lib/api.ts`, which have no state.
* Metrics, DCGM and Grafana pushes: derived from the store and read by nobody in
  the repository. The AI providers: external services. The device plugin: a fixed
  list that is sent once; allocation is the kubelet's.

## Plan

Done: the run store with its two kinds of reporters and the abstract life of a
run; the simulators of the engine; the panels of the web application; a proof of
every safety property that a passing run checks.

Left: the settings dialog (its one remembered busy provider is the hazard no
property covers), and that the scheduler implements an abstract pool of GPUs.

## Running

    tlc -workers 2 -config MCSimRuns.cfg MCSimRuns.tla
    tlapm SimRunsProofs.tla
    tlapm EngineProofs.tla

The longest runs take about two minutes with two workers, the longest proofs
(`EngineProofs`, `WebProofs`) some minutes each.
