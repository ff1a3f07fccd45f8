------------------------------- MODULE SimRuns -------------------------------
(***************************************************************************)
(* In-process training simulations (api/routers/runs.py): the coroutine    *)
(* _run_simulation, one asyncio task per run, and the handlers that start, *)
(* stop and disturb it.  The handlers `stop_run' and `inject_failure' are  *)
(* plain functions that the server runs in pool threads; the tasks and     *)
(* `simulate_run' share the one event-loop thread and give it up only at   *)
(* an await.  So a task runs alone among tasks from one sleep to the next, *)
(* while threads may act between any two of its calls to the store.        *)
(*                                                                         *)
(* Times are left out: a sleep ends whenever it ends.  A run id starts     *)
(* with "sim-", so the branch of stop_run that deletes a Kubernetes Job is *)
(* not taken here.                                                         *)
(***************************************************************************)
EXTENDS RunsStore

CONSTANTS
  Clients,        \* concurrent callers of the API
  TotalSteps,     \* req.total_steps
  CkptInterval,   \* req.checkpoint_interval_steps, 0 when None
  KnownFabrics,   \* the ids engine.gpu_specs.get_fabric accepts
  Requests        \* the [fabric, computable] of simulate requests; computable is
                  \* FALSE when estimate_step_time raises (precision unknown, ...)

VARIABLES
  task,       \* the coroutine of each run: where it is, and its local variables
  simTasks,   \* keys of _sim_tasks
  handler     \* the request each client has in flight

simVars == <<runs, clock, task, simTasks, handler>>

ASSUME SimAssumption ==
  /\ TotalSteps \in Nat
  /\ CkptInterval \in Nat
  /\ KnownFabrics \subseteq Fabrics
  /\ Requests \subseteq [fabric : Fabrics, computable : BOOLEAN]

OnLoop == {"top", "contend", "save", "restore", "record", "pop"}
Ended  == {"done", "cancelled", "failed"}
TaskPcs == {"none", "begin", "sleep"} \cup OnLoop \cup Ended

Task ==
  [pc : TaskPcs,
   req : [fabric : Fabrics, computable : BOOLEAN],
   i : Nat,                  \* the step the loop is at
   lastCkpt : Nat,           \* last_checkpoint_step
   due : SUBSET Nat,         \* events of this iteration still to be charged
   recovered : SUBSET Nat,   \* recovered_event_ids (an event is its position)
   cancel : BOOLEAN,         \* task.cancel() has been called
   cancelAt : Nat]           \* history: the value of i when it was, 0 before

NoTask == [pc |-> "none", req |-> [fabric |-> NoFabric, computable |-> TRUE], i |-> 0,
           lastCkpt |-> 0, due |-> {}, recovered |-> {},
           cancel |-> FALSE, cancelAt |-> 0]

(* A request in flight: where its handler is, and what it works on.        *)
Handler == [pc : {"idle"}]
           \cup [pc : {"simulate", "cancel", "stop"}, run : RunIds]
           \cup [pc : {"inject"}, run : RunIds, inj : Injections]

LoopFree  == \A r \in RunIds : task[r].pc \notin OnLoop
Alive(r)  == task[r].pc \notin Ended \cup {"none", "begin"}

-----------------------------------------------------------------------------
(* engine/chaos.py and engine/checkpointing.py                             *)

IsActive(event, step) ==
  /\ step >= event.at
  /\ event.dur = Permanent \/ step < event.at + event.dur

IsRecoveryTrigger(kind) == kind \in {"xid_error", "node_drain"}

SaveDue(step) == CkptInterval # 0 /\ step % CkptInterval = 0

(* Mutant: a recovery only on the very step of the injection.              *)
DueEvents_Exact(r, step) ==
  {e \in 1 .. Len(runs[r].events) :
     /\ IsActive(runs[r].events[e], step)
     /\ IsRecoveryTrigger(runs[r].events[e].kind)
     /\ e \notin task[r].recovered
     /\ runs[r].events[e].at = step}

(* The events the loop charges a recovery for in iteration `step'.         *)
DueEvents(r, step) ==
  {e \in 1 .. Len(runs[r].events) :
     /\ IsActive(runs[r].events[e], step)
     /\ IsRecoveryTrigger(runs[r].events[e].kind)
     /\ e \notin task[r].recovered
     /\ runs[r].events[e].at <= step}

-----------------------------------------------------------------------------
(* The task.  `At' moves it; what it does not mention of the task stays.   *)

At(r, pc) == task[r].pc = pc
Move(r, t) == task' = [task EXCEPT ![r] = t]

AfterSave(due) == IF due # {} THEN "restore" ELSE "sleep"

AfterContention(step, due) == IF SaveDue(step) THEN "save" ELSE AfterSave(due)

(* First run of the coroutine: estimate the step time, register the run.   *)
BeginSimulation(r) ==
  /\ At(r, "begin") /\ LoopFree /\ task[r].req.computable
  /\ \E now \in Now : Start(r, task[r].req.fabric, now)
  /\ Move(r, [task[r] EXCEPT !.pc = "top", !.i = 1])
  /\ UNCHANGED <<simTasks, handler>>

(* estimate_step_time raises before the `try': nothing is cleaned up.      *)
EstimateFails(r) ==
  /\ At(r, "begin") /\ LoopFree /\ ~task[r].req.computable
  /\ Move(r, [task[r] EXCEPT !.pc = "failed"])
  /\ UNCHANGED <<runs, clock, simTasks, handler>>

(* Read the run and its chaos events; an evicted run has none, and no meta *)
(* to compute contention from.                                             *)
ReadEvents(r) ==
  LET t   == task[r]
      due == DueEvents(r, t.i)
  IN  /\ At(r, "top") /\ t.i <= TotalSteps
      /\ Move(r, [t EXCEPT !.due = due,
                           !.pc = IF Known(r) THEN "contend" ELSE AfterContention(t.i, due)])
      /\ UNCHANGED <<runs, clock, simTasks, handler>>

Contended(r) ==
  /\ task[r].req.fabric # NoFabric
  /\ ActiveOnFabric(task[r].req.fabric, r) # {}

ShareFabric(r) ==
  /\ At(r, "contend")
  /\ Contended(r) => task[r].req.fabric \in KnownFabrics
  /\ Move(r, [task[r] EXCEPT !.pc = AfterContention(task[r].i, task[r].due)])
  /\ UNCHANGED <<runs, clock, simTasks, handler>>

(* Mutant: last_checkpoint_step is not updated.                            *)
SaveCheckpoint_Forgets(r) ==
  /\ At(r, "save")
  /\ AddCheckpointEvent(r, [kind |-> "save", step |-> task[r].i, lost |-> 0])
  /\ Move(r, [task[r] EXCEPT !.pc = AfterSave(task[r].due)])
  /\ UNCHANGED <<simTasks, handler>>

(* get_fabric raises inside the `try': only the `finally' clause runs.     *)
FabricFails(r) ==
  /\ At(r, "contend")
  /\ Contended(r) /\ task[r].req.fabric \notin KnownFabrics
  /\ Move(r, [task[r] EXCEPT !.pc = "failed"])
  /\ simTasks' = simTasks \ {r}
  /\ UNCHANGED <<runs, clock, handler>>

SaveCheckpoint(r) ==
  /\ At(r, "save")
  /\ AddCheckpointEvent(r, [kind |-> "save", step |-> task[r].i, lost |-> 0])
  /\ Move(r, [task[r] EXCEPT !.lastCkpt = task[r].i, !.pc = AfterSave(task[r].due)])
  /\ UNCHANGED <<simTasks, handler>>

(* Mutant: recovered_event_ids is not updated.                             *)
Recover_Again(r) ==
  LET t == task[r]
  IN  /\ At(r, "restore")
      /\ \E e \in t.due :
           /\ \A d \in t.due : e <= d
           /\ AddCheckpointEvent(r, [kind |-> "restore", step |-> t.i, lost |-> t.i - t.lastCkpt])
           /\ Move(r, [t EXCEPT !.due = @ \ {e}, !.pc = AfterSave(t.due \ {e})])
      /\ UNCHANGED <<simTasks, handler>>

(* Charge the first due event.                                             *)
Recover(r) ==
  LET t == task[r]
  IN  /\ At(r, "restore")
      /\ \E e \in t.due :
           /\ \A d \in t.due : e <= d
           /\ AddCheckpointEvent(r, [kind |-> "restore", step |-> t.i, lost |-> t.i - t.lastCkpt])
           /\ Move(r, [t EXCEPT !.recovered = @ \cup {e}, !.due = @ \ {e},
                                !.pc = AfterSave(t.due \ {e})])
      /\ UNCHANGED <<simTasks, handler>>

(* Mutant: the loop swallows CancelledError.                               *)
Wake_Uncancelled(r) ==
  /\ At(r, "sleep") /\ LoopFree
  /\ Move(r, [task[r] EXCEPT !.pc = "record"])
  /\ UNCHANGED <<runs, clock, simTasks, handler>>

(* The sleep ends, and the loop is this task's.                            *)
Wake(r) ==
  /\ At(r, "sleep") /\ LoopFree /\ ~task[r].cancel
  /\ Move(r, [task[r] EXCEPT !.pc = "record"])
  /\ UNCHANGED <<runs, clock, simTasks, handler>>

(* Mutant: a cancelled task finishes its run like any other.               *)
Cancelled_Finishes(r) ==
  /\ At(r, "sleep") /\ LoopFree /\ task[r].cancel
  /\ Finish(r)
  /\ Move(r, [task[r] EXCEPT !.pc = "cancelled"])
  /\ simTasks' = simTasks \ {r}
  /\ UNCHANGED handler

(* Mutant: a step the store did not take is tried again.                   *)
RecordStep_Retries(r) ==
  /\ At(r, "record")
  /\ AddStep(r, task[r].i)
  /\ Move(r, [task[r] EXCEPT !.pc = "top", !.i = IF Known(r) THEN @ + 1 ELSE @])
  /\ UNCHANGED <<simTasks, handler>>

(* Mutant: an evicted run is listed again with its next step.              *)
RecordStep_Upserts(r) ==
  /\ At(r, "record")
  /\ IF Known(r) THEN AddStep(r, task[r].i) ELSE Start(r, task[r].req.fabric, clock)
  /\ Move(r, [task[r] EXCEPT !.pc = "top", !.i = @ + 1])
  /\ UNCHANGED <<simTasks, handler>>

(* A cancellation is delivered at the sleep and nowhere else.              *)
Cancelled(r) ==
  /\ At(r, "sleep") /\ LoopFree /\ task[r].cancel
  /\ Move(r, [task[r] EXCEPT !.pc = "cancelled"])
  /\ simTasks' = simTasks \ {r}
  /\ UNCHANGED <<runs, clock, handler>>

RecordStep(r) ==
  /\ At(r, "record")
  /\ AddStep(r, task[r].i)
  /\ Move(r, [task[r] EXCEPT !.pc = "top", !.i = @ + 1])
  /\ UNCHANGED <<simTasks, handler>>

(* The `else' clause, then the `finally' clause.                           *)
FinishRun(r) ==
  /\ At(r, "top") /\ task[r].i > TotalSteps
  /\ Finish(r)
  /\ Move(r, [task[r] EXCEPT !.pc = "pop"])
  /\ UNCHANGED <<simTasks, handler>>

PopTask(r) ==
  /\ At(r, "pop")
  /\ Move(r, [task[r] EXCEPT !.pc = "done"])
  /\ simTasks' = simTasks \ {r}
  /\ UNCHANGED <<runs, clock, handler>>

-----------------------------------------------------------------------------
(* The handlers.  What they answer is left out: a request that is refused   *)
(* (unknown run 404, not running 409, malformed 400) changes nothing.      *)

Idle(c) == handler[c].pc = "idle"
Become(c, h) == handler' = [handler EXCEPT ![c] = h]
Reply(c) == Become(c, [pc |-> "idle"])

(* simulate_run: a fresh id, a new task, and 50 ms for it to register.     *)
SimulateRequest(c, r) ==
  /\ Idle(c) /\ LoopFree /\ At(r, "none")
  /\ \E req \in Requests : Move(r, [NoTask EXCEPT !.pc = "begin", !.req = req])
  /\ simTasks' = simTasks \cup {r}
  /\ Become(c, [pc |-> "simulate", run |-> r])
  /\ UNCHANGED <<runs, clock>>

(* The loop runs ready callbacks in order: the task got its first turn     *)
(* before the handler's own sleep can end.                                 *)
SimulateAnswer(c) ==
  /\ handler[c].pc = "simulate" /\ LoopFree /\ ~At(handler[c].run, "begin")
  /\ Reply(c)
  /\ UNCHANGED <<runs, clock, task, simTasks>>

(* stop_run: look the run up; it is running ...                            *)
StopRequest(c, r) ==
  /\ Idle(c) /\ Running(r)
  /\ Become(c, [pc |-> "cancel", run |-> r])
  /\ UNCHANGED <<runs, clock, task, simTasks>>

(* ... cancel its task, if one is registered ...                           *)
CancelTask(c) ==
  LET r == handler[c].run
      t == task[r]
  IN  /\ handler[c].pc = "cancel"
      /\ IF r \in simTasks /\ ~t.cancel
         THEN Move(r, [t EXCEPT !.cancel = TRUE, !.cancelAt = t.i])
         ELSE UNCHANGED task
      /\ Become(c, [pc |-> "stop", run |-> r])
      /\ UNCHANGED <<runs, clock, simTasks>>

(* Mutant: cancelling the task is taken to be enough.                      *)
StopAnswer_Unmarked(c) ==
  /\ handler[c].pc = "stop"
  /\ Reply(c)
  /\ UNCHANGED <<runs, clock, task, simTasks>>

(* ... and mark it stopped.  (If the run was evicted since the look-up,     *)
(* stop() returns None and the handler fails on it.)                       *)
StopAnswer(c) ==
  /\ handler[c].pc = "stop"
  /\ Stop(handler[c].run)
  /\ Reply(c)
  /\ UNCHANGED <<task, simTasks>>

ValidInjection(inj) == inj.kind # "node_drain" => inj.dur # Permanent

(* inject_failure: look the run up and validate the request ...            *)
InjectRequest(c, r) ==
  /\ Idle(c) /\ Running(r)
  /\ \E inj \in Injections :
       ValidInjection(inj) /\ Become(c, [pc |-> "inject", run |-> r, inj |-> inj])
  /\ Len(runs[r].events) < MaxEvents
  /\ UNCHANGED <<runs, clock, task, simTasks>>

(* ... then append the event; a node drain is permanent whatever was asked.*)
InjectAnswer(c) ==
  LET inj == handler[c].inj
  IN  /\ handler[c].pc = "inject"
      /\ InjectEvent(handler[c].run, inj.kind,
                     IF inj.kind = "node_drain" THEN Permanent ELSE inj.dur)
      /\ Reply(c)
      /\ UNCHANGED <<task, simTasks>>

-----------------------------------------------------------------------------
SimInit ==
  /\ StoreInit
  /\ task = [r \in RunIds |-> NoTask]
  /\ simTasks = {}
  /\ handler = [c \in Clients |-> [pc |-> "idle"]]

TaskStep(r) ==
  \/ BeginSimulation(r) \/ EstimateFails(r)
  \/ ReadEvents(r) \/ ShareFabric(r) \/ FabricFails(r)
  \/ SaveCheckpoint(r) \/ Recover(r)
  \/ Wake(r) \/ Cancelled(r) \/ RecordStep(r)
  \/ FinishRun(r) \/ PopTask(r)

NewRequest(c, r) == SimulateRequest(c, r) \/ StopRequest(c, r) \/ InjectRequest(c, r)

HandlerStep(c) == SimulateAnswer(c) \/ CancelTask(c) \/ StopAnswer(c) \/ InjectAnswer(c)

SimNext ==
  \/ \E r \in RunIds : TaskStep(r)
  \/ \E c \in Clients, r \in RunIds : NewRequest(c, r)
  \/ \E c \in Clients : HandlerStep(c)

SimSpec == SimInit /\ [][SimNext]_simVars

(* The event loop runs every task that can go on, and the server answers   *)
(* every request; nobody has to make one.                                  *)
SimFairness ==
  /\ \A r \in RunIds : WF_simVars(TaskStep(r))
  /\ \A c \in Clients : WF_simVars(HandlerStep(c))

SimFairSpec == SimSpec /\ SimFairness

-----------------------------------------------------------------------------
SimTypeOK ==
  /\ StoreTypeOK
  /\ task \in [RunIds -> Task]
  /\ simTasks \subseteq RunIds
  /\ handler \in [Clients -> Handler]

(* The history of a task that has recorded steps 1 .. n.                   *)
Recorded(n) == LET first == IF n > MaxSteps THEN n - MaxSteps ELSE 0
               IN  [k \in 1 .. n - first |-> first + k]

(* The history a viewer reads is complete: a run still in the store shows  *)
(* exactly the last steps its task went through, none lost, doubled or out *)
(* of order, whatever threads did meanwhile (runs.py:283-338).             *)
HistoryComplete ==
  \A r \in RunIds : Known(r) => runs[r].steps = Recorded(task[r].i - 1)

(* A run is reported done only when its loop has gone through all its      *)
(* steps: neither a stop nor a cancelled task ends up as done unless the   *)
(* stop came after the last sleep (runs.py:339-350 against 147-158).       *)
DoneMeansAllSteps ==
  \A r \in RunIds : runs[r].status = "done" => task[r].i > TotalSteps

(* After a stop request has cancelled the task, at most one more step is    *)
(* recorded: the one whose sleep was already over (runs.py:149, 328-338).  *)
StopBoundsProgress ==
  \A r \in RunIds : task[r].cancel => task[r].i <= task[r].cancelAt + 1

Positions(r, kind) == {k \in 1 .. Len(runs[r].ckpts) : runs[r].ckpts[k].kind = kind}

(* A failure is charged once: a run's log never shows more recoveries than *)
(* crashing faults injected into it, however long a fault stays active     *)
(* (runs.py:311-326).                                                      *)
RecoveredOnce ==
  \A r \in RunIds :
    Cardinality(Positions(r, "restore"))
      <= Cardinality({e \in 1 .. Len(runs[r].events) : IsRecoveryTrigger(runs[r].events[e].kind)})

(* What a recovery redoes is what was done since the last save before it   *)
(* in the log; with checkpoints on, that is less than one interval, and    *)
(* nothing in an iteration that saves (runs.py:303-326).                   *)
LostSinceSave ==
  \A r \in RunIds : \A k \in Positions(r, "restore") :
    LET log   == runs[r].ckpts
        saved == {0} \cup {log[j].step : j \in {j \in Positions(r, "save") : j < k}}
    IN  /\ \E s \in saved : log[k].lost = log[k].step - s /\ \A o \in saved : o <= s
        /\ CkptInterval # 0 => log[k].lost < CkptInterval

(* The crashing faults that were in the store when the task last read it.  *)
PassedFaults(r) ==
  {e \in 1 .. Len(runs[r].events) :
     IsRecoveryTrigger(runs[r].events[e].kind) /\ runs[r].events[e].at + 2 <= task[r].i}

(* Nobody misses a long fault: by the time the task sleeps, every crashing *)
(* fault that was in the store when it read the events, is permanent or    *)
(* lasts three steps or more, and was injected two steps ago or earlier,   *)
(* has been charged (runs_store.py:79 stamps the last recorded step, which *)
(* is one behind the step being slept and two behind the next look).       *)
LongFaultsCharged ==
  \A r \in RunIds : (At(r, "sleep") /\ Known(r)) =>
    \A e \in PassedFaults(r) :
      (runs[r].events[e].dur = Permanent \/ runs[r].events[e].dur > 2) => e \in task[r].recovered

(* Every simulation comes to an end, in a bounded loop or at its next      *)
(* sleep after a stop (runs.py:249-350).                                   *)
TasksEnd == \A r \in RunIds : At(r, "begin") ~> task[r].pc \in Ended

(* No run is left behind as running: when its task has ended by itself the *)
(* run is done, and when it was cancelled a handler is on its way to mark  *)
(* it stopped.  Only a task that died on an unknown fabric leaves a ghost  *)
(* (runs.py:147-158 against 339-350).                                      *)
EndedRunsAreMarked ==
  \A r \in RunIds : (Running(r) /\ task[r].pc \in Ended) =>
    \/ At(r, "cancelled") /\ \E c \in Clients : handler[c] = [pc |-> "stop", run |-> r]
    \/ At(r, "failed") /\ task[r].req.fabric \notin KnownFabrics

(* What GET /runs/{id} answers of a simulation.                            *)
viewed ==
  [r \in RunIds |-> IF Known(r) THEN runs[r].status
                    ELSE IF task[r].pc \in {"none", "begin"} THEN "unknown" ELSE "gone"]

Life == INSTANCE RunLife WITH Runs <- RunIds, life <- viewed

(* Seen by viewers, a simulation never comes back once it is over or has   *)
(* been evicted, while its task may still be recording steps and stopping  *)
(* it may still be under way (runs.py:139-160, 249-350).                   *)
SimImplementsRunLife == Life!LifeSpec

-----------------------------------------------------------------------------
(* What a comment says and the code does not do.                           *)

(* runs_store.py:110: active_on_fabric gives currently running runs.       *)
NoGhost == \A r \in RunIds : Running(r) => ~At(r, "failed")
=============================================================================
