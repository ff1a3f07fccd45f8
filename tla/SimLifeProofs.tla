----------------------------- MODULE SimLifeProofs -----------------------------
(* More about in-process simulations, for any number of runs, clients and   *)
(* steps: they do what RunLife promises their viewers, none is left behind  *)
(* as running, and saves, losses and recoveries are accounted for.          *)
EXTENDS SimRunsProofs

(* What may become of a run in one step.                                    *)
Changes(k) ==
  \/ runs'[k].status = runs[k].status
  \/ Known(k) /\ runs'[k].status \in {"stopped", "done", "absent"}
  \/ ~Started(k) /\ runs'[k].status = "running"

LEMMA ChangesAreMoves ==
  ASSUME SimInv, \A k \in RunIds : Changes(k) /\ (Started(k) => Started(k)')
  PROVE  Life!LifeNext
<1>1. \A k \in RunIds : runs[k].status \in {"absent", "running", "stopped", "done"}
  BY DEF SimInv, SimTypeOK, StoreTypeOK, RunState, Statuses
<1>2. \A k \in RunIds : Known(k) => Started(k)
  BY DEF SimInv, RunInv, Known
<1>3. ASSUME NEW k \in RunIds
      PROVE  viewed'[k] \in Life!Lives /\ (viewed'[k] # viewed[k] => <<viewed[k], viewed'[k]>> \in Life!Moves)
  <2>1. /\ viewed[k] = IF Known(k) THEN runs[k].status ELSE IF ~Started(k) THEN "unknown" ELSE "gone"
        /\ viewed'[k] = IF Known(k)' THEN runs'[k].status ELSE IF ~Started(k)' THEN "unknown" ELSE "gone"
    BY DEF viewed, Started
  <2>2. Changes(k) /\ (Started(k) => Started(k)')
    OBVIOUS
  <2>3. CASE runs'[k].status = runs[k].status
    BY <1>1, <1>2, <2>1, <2>2, <2>3 DEF Known, Life!Lives, Life!Moves
  <2>4. CASE Known(k) /\ runs'[k].status \in {"stopped", "done", "absent"}
    BY <1>1, <1>2, <2>1, <2>2, <2>4 DEF Known, Life!Lives, Life!Moves
  <2>5. CASE ~Started(k) /\ runs'[k].status = "running"
    BY <1>2, <2>1, <2>5 DEF Known, Life!Lives, Life!Moves
  <2> QED
    BY <2>2, <2>3, <2>4, <2>5 DEF Changes
<1>4. viewed' \in [RunIds -> Life!Lives]
  BY <1>3 DEF viewed
<1> QED
  BY <1>3, <1>4 DEF Life!LifeNext

-----------------------------------------------------------------------------
(* A task begins a run that nobody has seen, and ends it once.              *)
LEMMA TaskChanges ==
  ASSUME StoreAssumption, SimAssumption, SimInv, NEW r \in RunIds, TaskStep(r)
  PROVE  \A k \in RunIds : Changes(k) /\ (Started(k) => Started(k)')
<1>1. StoreTypeOK /\ task \in [RunIds -> Task] /\ \A k \in RunIds : RunInv(k)
  BY DEF SimInv, SimTypeOK
<1>2. \A k \in RunIds : Started(k) => Started(k)'
  <2>1. Started(r)' /\ \E t : Move(r, t)
    BY StoreAssumption, SimAssumption, TaskStepInv, TaskKeepsHandlers
  <2> QED
    BY <1>1, <2>1 DEF Move, Started
<1>3. CASE BeginSimulation(r)
  <2>1. PICK now \in Now : Start(r, task[r].req.fabric, now)
    BY <1>3 DEF BeginSimulation
  <2>2. task[r].req.fabric \in Fabrics /\ ~Started(r)
    BY <1>1, <1>3 DEF Task, BeginSimulation, At, Started
  <2>3. Running(r)' /\ \A k \in RunIds \ {r} : runs'[k] = runs[k] \/ runs'[k] = NoRun
    BY <1>1, <2>1, <2>2, StartEffect
  <2>4. ASSUME NEW k \in RunIds \ {r}, runs'[k] = NoRun PROVE Changes(k)
    BY <2>4 DEF Changes, Known, NoRun
  <2> QED
    BY <1>2, <2>2, <2>3, <2>4 DEF Changes, Running
<1>4. CASE FinishRun(r)
  <2>1. Update(r, [runs[r] EXCEPT !.status = "done"])
    BY <1>4 DEF FinishRun, Finish
  <2> QED
    BY <1>1, <1>2, <2>1, StatusEffect DEF Changes, Known
<1>5. CASE RecordStep(r)
  BY <1>1, <1>2, <1>5, AddStepEffect DEF RecordStep, Changes
<1>6. CASE SaveCheckpoint(r) \/ Recover(r)
  <2>1. PICK e : AddCheckpointEvent(r, e)
    BY <1>6 DEF SaveCheckpoint, Recover
  <2> QED
    BY <1>1, <1>2, <2>1, LogEffect DEF Changes
<1>7. CASE runs' = runs
  BY <1>2, <1>7 DEF Changes
<1> QED
  BY <1>3, <1>4, <1>5, <1>6, <1>7
     DEF TaskStep, EstimateFails, ReadEvents, ShareFabric, FabricFails, Wake, Cancelled, PopTask

(* A handler at most marks a run stopped that is in the store.              *)
LEMMA HandlerChanges ==
  ASSUME StoreAssumption, SimAssumption, SimInv, NEW c \in Clients,
         HandlerStep(c) \/ \E r \in RunIds : NewRequest(c, r)
  PROVE  \A k \in RunIds : Changes(k) /\ (Started(k) => Started(k)')
<1>1. StoreTypeOK /\ task \in [RunIds -> Task] /\ handler \in [Clients -> Handler]
  BY DEF SimInv, SimTypeOK
<1>2. CASE StopAnswer(c)
  <2>1. handler[c].run \in RunIds /\ task' = task
    BY <1>1, <1>2, InFlight DEF StopAnswer
  <2>2. Update(handler[c].run, [runs[handler[c].run] EXCEPT !.status = "stopped"])
    BY <1>2 DEF StopAnswer, Stop
  <2> QED
    BY <1>1, <2>1, <2>2, StatusEffect DEF Changes, Known, Started
<1>3. CASE InjectAnswer(c)
  <2>1. handler[c].run \in RunIds /\ task' = task
    BY <1>1, <1>3, InFlight DEF InjectAnswer
  <2>2. \E k, d : InjectEvent(handler[c].run, k, d)
    BY <1>3 DEF InjectAnswer
  <2> QED
    BY <1>1, <2>1, <2>2, LogEffect DEF Changes, Started
<1>4. CASE CancelTask(c)
  <2>1. PICK r \in RunIds : r = handler[c].run
    BY <1>1, <1>4, InFlight DEF CancelTask
  <2>2. runs' = runs /\ (task' = task \/ Move(r, [task[r] EXCEPT !.cancel = TRUE, !.cancelAt = task[r].i]))
    BY <1>4, <2>1 DEF CancelTask
  <2>3. [task[r] EXCEPT !.cancel = TRUE, !.cancelAt = task[r].i].pc = task[r].pc
    BY <1>1 DEF Task
  <2> QED
    BY <1>1, <2>2, <2>3 DEF Changes, Move, Started
<1>5. ASSUME NEW r \in RunIds, SimulateRequest(c, r)
      PROVE  \A k \in RunIds : Changes(k) /\ (Started(k) => Started(k)')
  <2>1. runs' = runs /\ ~Started(r) /\ \E t : Move(r, t)
    BY <1>5 DEF SimulateRequest, At, Started
  <2> QED
    BY <1>1, <2>1 DEF Changes, Move, Started
<1>6. CASE runs' = runs /\ task' = task
  BY <1>6 DEF Changes, Started
<1> QED
  BY <1>2, <1>3, <1>4, <1>5, <1>6 DEF HandlerStep, NewRequest, SimulateAnswer, StopRequest, InjectRequest

-----------------------------------------------------------------------------
(* Seen by viewers, a simulation never comes back: once it was seen over or *)
(* was evicted it does not run again, whatever its task, other tasks and    *)
(* the handlers of any number of clients do, and in whatever order          *)
(* (runs.py:139-160, 249-350, runs_store.py:35-72).                         *)
THEOREM SimIsRunLife == SimSpec => SimImplementsRunLife
<1>1. SimInit => Life!LifeInit
  BY DEF SimInit, StoreInit, NoRun, NoTask, Life!LifeInit, viewed, Known
<1>2. SimInv /\ [SimNext]_simVars => [Life!LifeNext]_viewed
  <2> SUFFICES ASSUME SimInv, [SimNext]_simVars PROVE [Life!LifeNext]_viewed
    OBVIOUS
  <2>1. CASE UNCHANGED simVars
    BY <2>1 DEF simVars, viewed, Known
  <2>2. CASE SimNext
    BY <2>2, StoreAssumption, SimAssumption, TaskChanges, HandlerChanges, ChangesAreMoves DEF SimNext
  <2> QED
    BY <2>1, <2>2
<1> QED
  BY <1>1, <1>2, SimInvariant, PTL DEF SimSpec, SimImplementsRunLife, Life!LifeSpec

-----------------------------------------------------------------------------
(* Who marks a run that has ended.  A task that has finished has marked its *)
(* own; a cancelled one has been cancelled by a handler that has not yet    *)
(* marked it; one that failed had a fabric nobody knows.                    *)
Marked(r) ==
  /\ task[r].pc \in {"pop", "done"} => ~Running(r)
  /\ At(r, "cancelled") => task[r].cancel
  /\ task[r].cancel /\ Running(r) => \E c \in Clients : handler[c] = [pc |-> "stop", run |-> r]
  /\ At(r, "failed") /\ Running(r) => task[r].req.fabric \notin KnownFabrics

MarkInv == \A r \in RunIds : Marked(r)

LEMMA MarkedIsMarked == MarkInv => EndedRunsAreMarked
BY DEF MarkInv, Marked, EndedRunsAreMarked, Ended, At, Running

(* Of a run only that it runs, of a task only this, and the stops under way *)
(* matter.                                                                  *)
LEMMA MarkedFrame ==
  ASSUME NEW k \in RunIds, Marked(k),
         Running(k)' => Running(k),
         task'[k] = task[k],
         \A c \in Clients : handler[c] = [pc |-> "stop", run |-> k] => handler'[c] = handler[c]
  PROVE  Marked(k)'
BY DEF Marked, At

(* A task that moves on within its loop.                                    *)
LEMMA MarkedMove ==
  ASSUME NEW r \in RunIds, Marked(r), NEW t, task'[r] = t, handler' = handler,
         t.cancel = task[r].cancel, t.req = task[r].req,
         Running(r)' => Running(r),
         t.pc \notin {"pop", "done", "cancelled", "failed"}
  PROVE  Marked(r)'
BY DEF Marked, At

(* What a step makes of the fields that matter here.                        *)
LEMMA MarkFields ==
  ASSUME NEW t \in Task
  PROVE  /\ \A pc : LET n == [t EXCEPT !.pc = pc]
                  IN  n.pc = pc /\ n.req = t.req /\ n.cancel = t.cancel
         /\ \A pc, i : LET n == [t EXCEPT !.pc = pc, !.i = i]
                     IN  n.pc = pc /\ n.req = t.req /\ n.cancel = t.cancel
         /\ \A pc, d : LET n == [t EXCEPT !.due = d, !.pc = pc]
                     IN  n.pc = pc /\ n.req = t.req /\ n.cancel = t.cancel
         /\ \A pc, l : LET n == [t EXCEPT !.lastCkpt = l, !.pc = pc]
                     IN  n.pc = pc /\ n.req = t.req /\ n.cancel = t.cancel
         /\ \A pc, v, d : LET n == [t EXCEPT !.recovered = v, !.due = d, !.pc = pc]
                        IN  n.pc = pc /\ n.req = t.req /\ n.cancel = t.cancel
BY DEF Task

LEMMA LoopPc ==
  ASSUME NEW i, NEW due
  PROVE  /\ AfterSave(due) \in {"restore", "sleep"}
         /\ AfterContention(i, due) \in {"save", "restore", "sleep"}
BY DEF AfterSave, AfterContention

LEMMA TaskMarks ==
  ASSUME StoreAssumption, SimAssumption, SimInv, MarkInv, NEW r \in RunIds, TaskStep(r)
  PROVE  MarkInv'
<1>1. /\ StoreTypeOK /\ task[r] \in Task /\ RunInv(r) /\ Marked(r)
      /\ handler' = handler /\ \E t : Move(r, t)
  BY TaskKeepsHandlers DEF SimInv, SimTypeOK, MarkInv
<1>2. \A k \in RunIds \ {r} : task'[k] = task[k]
  BY <1>1, MoveOthers DEF SimInv
<1>3. \A k \in RunIds : Changes(k)
  BY TaskChanges
<1>4. \A k \in RunIds : Started(k) => (Running(k)' => Running(k))
  BY <1>3 DEF Changes, Running
<1>5. \A k \in RunIds \ {r} : Running(k)' => Running(k)
  <2>1. CASE BeginSimulation(r)
    <3>1. PICK now \in Now : Start(r, task[r].req.fabric, now)
      BY <2>1 DEF BeginSimulation
    <3>2. task[r].req.fabric \in Fabrics
      BY <1>1 DEF Task
    <3>3. \A k \in RunIds \ {r} : runs'[k] = runs[k] \/ runs'[k] = NoRun
      BY <1>1, <3>1, <3>2, StartEffect
    <3> QED
      BY <3>3 DEF Running, NoRun
  <2>2. CASE FinishRun(r)
    BY <1>1, <2>2, StatusEffect DEF FinishRun, Finish, Running
  <2>3. CASE RecordStep(r)
    BY <1>1, <2>3, AddStepEffect DEF RecordStep, Running
  <2>4. CASE SaveCheckpoint(r) \/ Recover(r)
    <3>1. PICK e : AddCheckpointEvent(r, e)
      BY <2>4 DEF SaveCheckpoint, Recover
    <3> QED
      BY <1>1, <3>1, LogEffect DEF Running
  <2>5. CASE runs' = runs
    BY <2>5 DEF Running
  <2> QED
    BY <2>1, <2>2, <2>3, <2>4, <2>5
       DEF TaskStep, EstimateFails, ReadEvents, ShareFabric, FabricFails, Wake, Cancelled, PopTask
<1>6. \A k \in RunIds \ {r} : Marked(k)'
  BY <1>1, <1>2, <1>5, MarkedFrame DEF MarkInv
<1>7. Marked(r)'
  <2>1. CASE BeginSimulation(r)
    <3>1. Move(r, [task[r] EXCEPT !.pc = "top", !.i = 1]) /\ ~Started(r)
      BY <2>1 DEF BeginSimulation, Started, At
    <3> DEFINE t == [task[r] EXCEPT !.pc = "top", !.i = 1]
    <3>2. t.pc = "top" /\ t.cancel = task[r].cancel /\ ~t.cancel
      BY <1>1, <3>1, MarkFields DEF RunInv
    <3>3. task'[r] = t
      BY <3>1, MoveOthers DEF SimInv
    <3> HIDE DEF t
    <3> QED
      BY <3>2, <3>3 DEF Marked, At
  <2>2. CASE EstimateFails(r)
    <3>1. Move(r, [task[r] EXCEPT !.pc = "failed"]) /\ runs' = runs /\ ~Started(r)
      BY <2>2 DEF EstimateFails, Started, At
    <3> DEFINE t == [task[r] EXCEPT !.pc = "failed"]
    <3>2. t.pc = "failed" /\ ~t.cancel /\ ~Running(r)'
      BY <1>1, <3>1, MarkFields DEF RunInv, Running
    <3>3. task'[r] = t
      BY <3>1, MoveOthers DEF SimInv
    <3> HIDE DEF t
    <3> QED
      BY <3>2, <3>3 DEF Marked, At
  <2>3. CASE FabricFails(r)
    <3>1. /\ Move(r, [task[r] EXCEPT !.pc = "failed"]) /\ runs' = runs
          /\ task[r].req.fabric \notin KnownFabrics
      BY <2>3 DEF FabricFails
    <3> DEFINE t == [task[r] EXCEPT !.pc = "failed"]
    <3>2. t.pc = "failed" /\ t.cancel = task[r].cancel /\ t.req = task[r].req
      BY <1>1, MarkFields
    <3>3. task'[r] = t
      BY <3>1, MoveOthers DEF SimInv
    <3> HIDE DEF t
    <3> QED
      BY <1>1, <3>1, <3>2, <3>3 DEF Marked, At, Running
  <2>4. CASE Cancelled(r)
    <3>1. Move(r, [task[r] EXCEPT !.pc = "cancelled"]) /\ runs' = runs /\ task[r].cancel
      BY <2>4 DEF Cancelled
    <3> DEFINE t == [task[r] EXCEPT !.pc = "cancelled"]
    <3>2. t.pc = "cancelled" /\ t.cancel = task[r].cancel
      BY <1>1, MarkFields
    <3>3. task'[r] = t
      BY <3>1, MoveOthers DEF SimInv
    <3> HIDE DEF t
    <3> QED
      BY <1>1, <3>1, <3>2, <3>3 DEF Marked, At, Running
  <2>5. CASE FinishRun(r) \/ PopTask(r)
    <3>1. PICK pc \in {"pop", "done"} : Move(r, [task[r] EXCEPT !.pc = pc])
      BY <2>5 DEF FinishRun, PopTask
    <3> DEFINE t == [task[r] EXCEPT !.pc = pc]
    <3>2. t.pc = pc
      BY <1>1, MarkFields
    <3>3. task'[r] = t
      BY <3>1, MoveOthers DEF SimInv
    <3>4. ~Running(r)'
      <4>1. CASE FinishRun(r)
        BY <1>1, <4>1, StatusEffect DEF FinishRun, Finish, Running
      <4>2. CASE PopTask(r)
        BY <1>1, <4>2 DEF PopTask, Marked, At, Running
      <4> QED
        BY <2>5, <4>1, <4>2
    <3> HIDE DEF t
    <3> QED
      BY <3>1, <3>2, <3>3, <3>4 DEF Marked, At
  <2>6. CASE ShareFabric(r) \/ Wake(r)
    <3>1. PICK pc \in {"save", "restore", "sleep", "record"} : Move(r, [task[r] EXCEPT !.pc = pc])
      BY <2>6, LoopPc DEF ShareFabric, Wake
    <3> DEFINE t == [task[r] EXCEPT !.pc = pc]
    <3>2. t.pc = pc /\ t.cancel = task[r].cancel /\ t.req = task[r].req
      BY <1>1, MarkFields
    <3>3. task'[r] = t /\ Started(r)
      BY <2>6, <3>1, MoveOthers DEF SimInv, ShareFabric, Wake, At, Started
    <3> HIDE DEF t
    <3> QED
      BY <1>1, <1>4, <3>2, <3>3, MarkedMove
  <2>7. CASE ReadEvents(r)
    <3>1. PICK d, pc : /\ pc \in {"contend", "save", "restore", "sleep"}
                       /\ Move(r, [task[r] EXCEPT !.due = d, !.pc = pc])
      <4> DEFINE d == DueEvents(r, task[r].i)
                 pc == IF Known(r) THEN "contend" ELSE AfterContention(task[r].i, d)
      <4>1. Move(r, [task[r] EXCEPT !.due = d, !.pc = pc])
        BY <2>7 DEF ReadEvents
      <4>2. pc \in {"contend", "save", "restore", "sleep"}
        BY LoopPc
      <4> HIDE DEF d, pc
      <4> QED
        BY <4>1, <4>2
    <3> DEFINE t == [task[r] EXCEPT !.due = d, !.pc = pc]
    <3>2. t.pc = pc /\ t.cancel = task[r].cancel /\ t.req = task[r].req
      BY <1>1, MarkFields
    <3>3. task'[r] = t /\ Started(r)
      BY <2>7, <3>1, MoveOthers DEF SimInv, ReadEvents, At, Started
    <3> HIDE DEF t
    <3> QED
      BY <1>1, <1>4, <3>1, <3>2, <3>3, MarkedMove
  <2>8. CASE SaveCheckpoint(r)
    <3>1. PICK l, pc : pc \in {"restore", "sleep"} /\ Move(r, [task[r] EXCEPT !.lastCkpt = l, !.pc = pc])
      BY <2>8, LoopPc DEF SaveCheckpoint
    <3> DEFINE t == [task[r] EXCEPT !.lastCkpt = l, !.pc = pc]
    <3>2. t.pc = pc /\ t.cancel = task[r].cancel /\ t.req = task[r].req
      BY <1>1, MarkFields
    <3>3. task'[r] = t /\ Started(r)
      BY <2>8, <3>1, MoveOthers DEF SimInv, SaveCheckpoint, At, Started
    <3> HIDE DEF t
    <3> QED
      BY <1>1, <1>4, <3>1, <3>2, <3>3, MarkedMove
  <2>9. CASE Recover(r)
    <3>1. PICK v, d, pc : /\ pc \in {"restore", "sleep"}
                          /\ Move(r, [task[r] EXCEPT !.recovered = v, !.due = d, !.pc = pc])
      <4>1. PICK e \in task[r].due :
              Move(r, [task[r] EXCEPT !.recovered = @ \cup {e}, !.due = @ \ {e}, !.pc = AfterSave(task[r].due \ {e})])
        BY <2>9 DEF Recover
      <4> DEFINE v == task[r].recovered \cup {e}
                 d == task[r].due \ {e}
                 pc == AfterSave(task[r].due \ {e})
      <4>2. Move(r, [task[r] EXCEPT !.recovered = v, !.due = d, !.pc = pc])
        BY <4>1
      <4>3. pc \in {"restore", "sleep"}
        BY LoopPc
      <4> HIDE DEF v, d, pc
      <4> QED
        BY <4>2, <4>3
    <3> DEFINE t == [task[r] EXCEPT !.recovered = v, !.due = d, !.pc = pc]
    <3>2. t.pc = pc /\ t.cancel = task[r].cancel /\ t.req = task[r].req
      BY <1>1, MarkFields
    <3>3. task'[r] = t /\ Started(r)
      BY <2>9, <3>1, MoveOthers DEF SimInv, Recover, At, Started
    <3> HIDE DEF t
    <3> QED
      BY <1>1, <1>4, <3>1, <3>2, <3>3, MarkedMove
  <2>10. CASE RecordStep(r)
    <3>1. PICK i : Move(r, [task[r] EXCEPT !.pc = "top", !.i = i])
      BY <1>1, <2>10 DEF RecordStep, Task
    <3> DEFINE t == [task[r] EXCEPT !.pc = "top", !.i = i]
    <3>2. t.pc = "top" /\ t.cancel = task[r].cancel /\ t.req = task[r].req
      BY <1>1, MarkFields
    <3>3. task'[r] = t /\ Started(r)
      BY <2>10, <3>1, MoveOthers DEF SimInv, RecordStep, At, Started
    <3> HIDE DEF t
    <3> QED
      BY <1>1, <1>4, <3>2, <3>3, MarkedMove
  <2> QED
    BY <2>1, <2>2, <2>3, <2>4, <2>5, <2>6, <2>7, <2>8, <2>9, <2>10 DEF TaskStep
<1> QED
  BY <1>6, <1>7 DEF MarkInv

(* A handler that cancels a task stays until it has marked the run; others  *)
(* do nothing that matters here.                                            *)
LEMMA HandlerMarks ==
  ASSUME StoreAssumption, SimAssumption, SimInv, MarkInv, NEW c \in Clients,
         HandlerStep(c) \/ \E r \in RunIds : NewRequest(c, r)
  PROVE  MarkInv'
<1>1. /\ StoreTypeOK /\ task \in [RunIds -> Task] /\ handler \in [Clients -> Handler]
      /\ \A k \in RunIds : RunInv(k) /\ Marked(k)
  BY DEF SimInv, SimTypeOK, MarkInv
<1>2. \A k \in RunIds : [pc |-> "stop", run |-> k].pc = "stop"
  OBVIOUS
<1>3. ASSUME NEW h, Become(c, h)
      PROVE  handler'[c] = h /\ \A d \in Clients \ {c} : handler'[d] = handler[d]
  BY <1>1, <1>3 DEF Become
<1>4. ASSUME handler[c].pc # "stop", NEW h, Become(c, h)
      PROVE  \A k \in RunIds : \A d \in Clients :
               handler[d] = [pc |-> "stop", run |-> k] => handler'[d] = handler[d]
  BY <1>2, <1>3, <1>4
<1>5. CASE CancelTask(c)
  <2>1. PICK r \in RunIds : r = handler[c].run
    BY <1>1, <1>5, InFlight DEF CancelTask
  <2> DEFINE t == [task[r] EXCEPT !.cancel = TRUE, !.cancelAt = task[r].i]
  <2>2. /\ Move(r, t) \/ task' = task
        /\ runs' = runs /\ handler[c].pc = "cancel"
        /\ Become(c, [pc |-> "stop", run |-> r])
    BY <1>5, <2>1 DEF CancelTask
  <2>3. t.pc = task[r].pc /\ t.req = task[r].req /\ t.cancel
    BY <1>1 DEF Task
  <2>4. handler'[c] = [pc |-> "stop", run |-> r]
    BY <1>3, <2>2
  <2>5. \A k \in RunIds : \A d \in Clients :
          handler[d] = [pc |-> "stop", run |-> k] => handler'[d] = handler[d]
    BY <1>4, <2>2
  <2>6. CASE Move(r, t)
    <3> HIDE DEF t
    <3>1. task'[r] = t /\ \A k \in RunIds \ {r} : task'[k] = task[k]
      BY <2>6, MoveOthers DEF SimInv
    <3>2. Marked(r)'
      BY <1>1, <2>2, <2>3, <2>4, <3>1 DEF Marked, At, Running
    <3>3. \A k \in RunIds \ {r} : Marked(k)'
      BY <1>1, <2>2, <2>5, <3>1, MarkedFrame DEF Running
    <3> QED
      BY <3>2, <3>3 DEF MarkInv
  <2>7. CASE task' = task
    BY <1>1, <2>2, <2>5, <2>7, MarkedFrame DEF MarkInv, Running
  <2> QED
    BY <2>2, <2>6, <2>7
<1>6. CASE StopAnswer(c)
  <2>1. PICK r \in RunIds : r = handler[c].run /\ task' = task /\ Become(c, [pc |-> "idle"])
    BY <1>1, <1>6, InFlight DEF StopAnswer, Reply
  <2>2. ~Running(r)' /\ \A k \in RunIds \ {r} : runs'[k] = runs[k]
    <3>1. Stop(r)
      BY <1>6, <2>1 DEF StopAnswer
    <3> QED
      BY <1>1, <2>1, <3>1, StatusEffect DEF Stop, Running
  <2>3. \A d \in Clients \ {c} : handler'[d] = handler[d]
    BY <1>3, <2>1
  <2>4. \A k \in RunIds \ {r} : [pc |-> "stop", run |-> k] # handler[c]
    BY <2>1
  <2>5. \A k \in RunIds \ {r} : Marked(k)'
    <3> SUFFICES ASSUME NEW k \in RunIds \ {r} PROVE Marked(k)'
      OBVIOUS
    <3>1. Running(k)' => Running(k)
      BY <2>2 DEF Running
    <3>2. \A d \in Clients : handler[d] = [pc |-> "stop", run |-> k] => handler'[d] = handler[d]
      BY <2>3, <2>4
    <3>3. task'[k] = task[k]
      BY <2>1
    <3> QED
      BY <1>1, <3>1, <3>2, <3>3, MarkedFrame
  <2>6. Marked(r)'
    <3>1. Marked(r) /\ task'[r] = task[r] /\ ~Running(r)'
      BY <1>1, <2>1, <2>2
    <3> QED
      BY <3>1 DEF Marked, At
  <2> QED
    BY <2>5, <2>6 DEF MarkInv
<1>7. CASE \E r \in RunIds : SimulateRequest(c, r)
  <2>1. PICK r \in RunIds : SimulateRequest(c, r)
    BY <1>7
  <2>2. PICK req : Move(r, [NoTask EXCEPT !.pc = "begin", !.req = req])
    BY <2>1 DEF SimulateRequest
  <2>3. /\ task'[r] = [NoTask EXCEPT !.pc = "begin", !.req = req]
        /\ \A k \in RunIds \ {r} : task'[k] = task[k]
    BY <2>2, MoveOthers DEF SimInv
  <2>4. task'[r].pc = "begin" /\ ~task'[r].cancel
    BY <2>3 DEF NoTask
  <2>5. runs' = runs /\ handler[c].pc = "idle" /\ Become(c, [pc |-> "simulate", run |-> r])
    BY <2>1 DEF SimulateRequest, Idle
  <2>6. Marked(r)'
    BY <2>4 DEF Marked, At
  <2>7. \A k \in RunIds \ {r} : Marked(k)'
    BY <1>1, <1>4, <2>3, <2>5, MarkedFrame DEF Running
  <2> QED
    BY <2>6, <2>7 DEF MarkInv
<1>8. CASE InjectAnswer(c)
  <2> DEFINE r == handler[c].run
  <2>1. r \in RunIds /\ task' = task /\ handler[c].pc # "stop" /\ Become(c, [pc |-> "idle"])
    BY <1>1, <1>8, InFlight DEF InjectAnswer, Reply
  <2>2. \E k, d : InjectEvent(r, k, d)
    BY <1>8 DEF InjectAnswer
  <2>3. \A k \in RunIds : Running(k)' => Running(k)
    BY <1>1, <2>1, <2>2, LogEffect DEF Running
  <2> QED
    BY <1>1, <1>4, <2>1, <2>3, MarkedFrame DEF MarkInv
<1>9. CASE SimulateAnswer(c) \/ \E r \in RunIds : StopRequest(c, r) \/ InjectRequest(c, r)
  <2>1. PICK h : Become(c, h)
    BY <1>9 DEF SimulateAnswer, Reply, StopRequest, InjectRequest
  <2>2. task' = task /\ runs' = runs /\ handler[c].pc # "stop"
    BY <1>9 DEF SimulateAnswer, StopRequest, InjectRequest, Idle
  <2> QED
    BY <1>1, <1>4, <2>1, <2>2, MarkedFrame DEF MarkInv, Running
<1> QED
  BY <1>5, <1>6, <1>7, <1>8, <1>9 DEF HandlerStep, NewRequest

(* No run is left behind as running by a task that has ended, whoever stops *)
(* it and whenever, but for a task that failed on a fabric nobody knows     *)
(* (runs.py:147-158, 298-302, 339-350).                                     *)
THEOREM SimEndedRunsAreMarked == SimSpec => []EndedRunsAreMarked
<1>1. SimInit => MarkInv
  <2> SUFFICES ASSUME SimInit, NEW r \in RunIds PROVE Marked(r)
    BY DEF MarkInv
  <2>1. task[r].pc = "none" /\ ~task[r].cancel
    BY DEF SimInit, NoTask
  <2> QED
    BY <2>1 DEF Marked, At
<1>2. SimInv /\ MarkInv /\ [SimNext]_simVars => MarkInv'
  <2> SUFFICES ASSUME SimInv, MarkInv, [SimNext]_simVars PROVE MarkInv'
    OBVIOUS
  <2>1. CASE UNCHANGED simVars
    BY <2>1 DEF simVars, MarkInv, Marked, At, Running
  <2>2. CASE SimNext
    BY <2>2, StoreAssumption, SimAssumption, TaskMarks, HandlerMarks DEF SimNext
  <2> QED
    BY <2>1, <2>2
<1> QED
  BY <1>1, <1>2, MarkedIsMarked, SimInvariant, PTL DEF SimSpec

-----------------------------------------------------------------------------
(* What is saved, lost and charged.  The bookkeeping of one run, said of its *)
(* record and its task as values, so that a lemma serves both states of a   *)
(* step.                                                                    *)

Crashing(events) == {e \in 1 .. Len(events) : IsRecoveryTrigger(events[e].kind)}

Entries(log, kind) == {k \in 1 .. Len(log) : log[k].kind = kind}

(* A recovery in the log for every charged fault; what is due is not        *)
(* charged yet.                                                             *)
Charged(events, log, t) ==
  /\ t.recovered \cup t.due \subseteq Crashing(events)
  /\ t.recovered \cap t.due = {}
  /\ t.pc \in {"top", "sleep", "record"} => t.due = {}
  /\ Cardinality(Entries(log, "restore")) = Cardinality(t.recovered)

(* The steps saved before the n-th entry, 0 for the start of the run.       *)
Saved(log, n) == {0} \cup {log[j].step : j \in {j \in Entries(log, "save") : j < n}}

LossIsTrue(log, k) ==
  /\ \E s \in Saved(log, k) : log[k].lost = log[k].step - s /\ \A o \in Saved(log, k) : o <= s
  /\ CkptInterval # 0 => log[k].lost < CkptInterval

(* The last step that this iteration's save, if it is due, is behind.       *)
Past(t) == IF t.pc \in {"restore", "sleep", "record"} THEN t.i ELSE t.i - 1

InLoop(t) == t.pc \in {"top", "contend", "save", "restore", "sleep", "record"}

(* last_checkpoint_step is the last save of the log, a multiple of the      *)
(* interval, and less than an interval ago.                                 *)
Saving(log, t) ==
  /\ t.lastCkpt \in Saved(log, Len(log) + 1)
  /\ \A s \in Saved(log, Len(log) + 1) : s <= t.lastCkpt
  /\ t.lastCkpt <= t.i
  /\ CkptInterval # 0 => t.lastCkpt % CkptInterval = 0
  /\ CkptInterval # 0 /\ InLoop(t) => t.lastCkpt <= Past(t) /\ Past(t) - t.lastCkpt < CkptInterval
  /\ t.pc = "save" => SaveDue(t.i)
  /\ \A k \in Entries(log, "restore") : LossIsTrue(log, k)

Lasting(event) == IsRecoveryTrigger(event.kind) /\ (event.dur = Permanent \/ event.dur > 2)

(* A lasting fault is due two steps after it was stamped, and charged by    *)
(* the time the loop comes back to its top.                                 *)
Caught(events, t) ==
  \A e \in 1 .. Len(events) : Lasting(events[e]) =>
    /\ t.pc = "top" /\ events[e].at + 3 <= t.i => e \in t.recovered
    /\ InLoop(t) /\ t.pc # "top" /\ events[e].at + 2 <= t.i => e \in t.recovered \cup t.due

Account(run, t) ==
  /\ run.status = "absent" => run = NoRun
  /\ t.pc \in {"none", "begin"} => t.due = {} /\ t.recovered = {} /\ t.lastCkpt = 0
  /\ run.status # "absent" => /\ Charged(run.events, run.ckpts, t)
                              /\ Saving(run.ckpts, t)
                              /\ Caught(run.events, t)

AccountInv == \A r \in RunIds : Account(runs[r], task[r])

(* Only the logs of the run and the task's own bookkeeping matter.          *)
LEMMA AccountFrame ==
  ASSUME NEW run, NEW t, Account(run, t), NEW new, NEW u,
         new.status = "absent" => new = run \/ new = NoRun,
         new.status # "absent" => run.status # "absent",
         new.events = run.events \/ new = NoRun, new.ckpts = run.ckpts \/ new = NoRun,
         u.pc = t.pc, u.i = t.i, u.lastCkpt = t.lastCkpt,
         u.due = t.due, u.recovered = t.recovered
  PROVE  Account(new, u)
<1>1. CASE new = NoRun
  BY <1>1 DEF Account, NoRun
<1>2. CASE new # NoRun
  <2>1. new.events = run.events /\ new.ckpts = run.ckpts
    BY <1>2
  <2>2. ASSUME new.status # "absent"
        PROVE  /\ Charged(new.events, new.ckpts, u)
               /\ Saving(new.ckpts, u)
               /\ Caught(new.events, u)
    <3>1. Charged(run.events, run.ckpts, t) /\ Saving(run.ckpts, t) /\ Caught(run.events, t)
      BY <2>2 DEF Account
    <3>2. Past(u) = Past(t) /\ InLoop(u) = InLoop(t)
      BY DEF Past, InLoop
    <3>3. Charged(new.events, new.ckpts, u)
      BY <2>1, <3>1 DEF Charged
    <3>4. Saving(new.ckpts, u)
      BY <2>1, <3>1, <3>2 DEF Saving
    <3>5. Caught(new.events, u)
      BY <2>1, <3>1, <3>2 DEF Caught
    <3> QED
      BY <3>3, <3>4, <3>5
  <2> QED
    BY <1>2, <2>2 DEF Account
<1> QED
  BY <1>1, <1>2

(* An entry appended to the log.                                            *)
LEMMA LogAppend ==
  ASSUME NEW log \in Seq(CkptEvent), NEW e \in CkptEvent
  PROVE  LET new == Append(log, e)
         IN  /\ new \in Seq(CkptEvent) /\ Len(new) = Len(log) + 1 /\ Len(log) \in Nat
             /\ new[Len(log) + 1] = e /\ \A k \in 1 .. Len(log) : new[k] = log[k]
             /\ \A kind : Entries(new, kind)
                            = Entries(log, kind) \cup (IF e.kind = kind THEN {Len(log) + 1} ELSE {})
<1> DEFINE new == Append(log, e)
<1>1. /\ new \in Seq(CkptEvent) /\ Len(new) = Len(log) + 1 /\ Len(log) \in Nat
      /\ new[Len(log) + 1] = e /\ \A k \in 1 .. Len(log) : new[k] = log[k]
  BY AppendProperties
<1> HIDE DEF new
<1>2. 1 .. Len(new) = (1 .. Len(log)) \cup {Len(log) + 1} /\ Len(log) + 1 \notin 1 .. Len(log)
  BY <1>1
<1>3. \A kind : Entries(new, kind)
                  = Entries(log, kind) \cup (IF e.kind = kind THEN {Len(log) + 1} ELSE {})
  BY <1>1, <1>2 DEF Entries
<1> QED
  BY <1>1, <1>3 DEF new

LEMMA SavedAppend ==
  ASSUME NEW log \in Seq(CkptEvent), NEW e \in CkptEvent
  PROVE  LET new == Append(log, e)
         IN  /\ \A n \in 1 .. Len(log) + 1 : Saved(new, n) = Saved(log, n)
             /\ Saved(new, Len(new) + 1)
                  = Saved(log, Len(log) + 1) \cup (IF e.kind = "save" THEN {e.step} ELSE {})
<1> DEFINE new == Append(log, e)
           L == Len(log)
<1>1. /\ L \in Nat /\ Len(new) = L + 1
      /\ new[L + 1] = e /\ \A k \in 1 .. L : new[k] = log[k]
      /\ Entries(new, "save") = Entries(log, "save") \cup (IF e.kind = "save" THEN {L + 1} ELSE {})
  BY LogAppend
<1> HIDE DEF new
<1>2. \A j \in Entries(log, "save") : j \in 1 .. L /\ j < L + 1 /\ new[j] = log[j]
  BY <1>1 DEF Entries
<1> HIDE DEF L
<1>3. \A n \in 1 .. L + 1 : {j \in Entries(new, "save") : j < n} = {j \in Entries(log, "save") : j < n}
  BY <1>1
<1>4. \A n \in 1 .. L + 1 : Saved(new, n) = Saved(log, n)
  BY <1>2, <1>3 DEF Saved
<1>5. {j \in Entries(new, "save") : j < L + 1 + 1} = Entries(new, "save")
  BY <1>1, <1>2
<1>6. {j \in Entries(log, "save") : j < L + 1} = Entries(log, "save")
  BY <1>2
<1>7. Saved(new, L + 1 + 1) = Saved(log, L + 1) \cup (IF e.kind = "save" THEN {e.step} ELSE {})
  <2>1. Saved(new, L + 1 + 1) = {0} \cup {new[j].step : j \in Entries(new, "save")}
    BY <1>5 DEF Saved
  <2>2. Saved(log, L + 1) = {0} \cup {log[j].step : j \in Entries(log, "save")}
    BY <1>6 DEF Saved
  <2>3. CASE e.kind = "save"
    <3>1. Entries(new, "save") = Entries(log, "save") \cup {L + 1}
      BY <1>1, <2>3
    <3> QED
      BY <1>1, <1>2, <2>1, <2>2, <2>3, <3>1
  <2>4. CASE e.kind # "save"
    <3>1. Entries(new, "save") = Entries(log, "save")
      BY <1>1, <2>4
    <3> QED
      BY <1>1, <1>2, <2>1, <2>2, <2>4, <3>1
  <2> QED
    BY <2>3, <2>4
<1> QED
  BY <1>1, <1>4, <1>7 DEF L, new

LEMMA LossStays ==
  ASSUME NEW log \in Seq(CkptEvent), NEW e \in CkptEvent,
         NEW k \in 1 .. Len(log), LossIsTrue(log, k)
  PROVE  LossIsTrue(Append(log, e), k)
<1> DEFINE new == Append(log, e)
<1>1. new[k] = log[k] /\ k \in 1 .. Len(log) + 1
  BY LogAppend
<1>2. Saved(new, k) = Saved(log, k)
  BY <1>1, SavedAppend
<1> HIDE DEF new
<1>3. LossIsTrue(new, k)
  BY <1>1, <1>2 DEF LossIsTrue
<1> QED
  BY <1>3 DEF new

(* A multiple of the interval one interval on.                              *)
LEMMA NextMultiple ==
  ASSUME NEW c \in Nat \ {0}, NEW n \in Nat, n % c = 0
  PROVE  (n + c) % c = 0
<1> DEFINE q == n \div c
<1>1. n = c * q /\ q \in Nat
  BY Z3
<1> HIDE DEF q
<1>2. n + c = c * (q + 1)
  BY <1>1, Z3
<1>3. (c * (q + 1)) % c = 0
  BY <1>1, Z3
<1> QED
  BY <1>2, <1>3

(* The steps of the loop, one lemma each: from run and task to new and u.   *)
LEMMA AccountStart ==
  ASSUME SimAssumption, NEW f, NEW now, NEW u,
         u.pc = "top", u.i = 1, u.lastCkpt = 0, u.due = {}, u.recovered = {}
  PROVE  Account(Fresh(f, now), u)
<1> DEFINE new == Fresh(f, now)
<1>1. new.status = "running" /\ new.events = <<>> /\ new.ckpts = <<>>
  BY DEF Fresh, NoRun
<1> HIDE DEF new
<1>2. Len(new.events) = 0 /\ Len(new.ckpts) = 0
  BY <1>1
<1>3. Crashing(new.events) = {} /\ \A kind : Entries(new.ckpts, kind) = {}
  BY <1>2 DEF Crashing, Entries
<1>4. Charged(new.events, new.ckpts, u)
  BY <1>3, FS_EmptySet DEF Charged
<1>5. Saving(new.ckpts, u)
  <2>1. Saved(new.ckpts, Len(new.ckpts) + 1) = {0}
    BY <1>3 DEF Saved
  <2>2. Past(u) = 0
    BY DEF Past
  <2>3. CkptInterval # 0 => 0 % CkptInterval = 0 /\ 0 - 0 < CkptInterval
    BY DEF SimAssumption
  <2> QED
    BY <1>3, <2>1, <2>2, <2>3 DEF Saving
<1>6. Caught(new.events, u)
  BY <1>2 DEF Caught
<1>7. Account(new, u)
  BY <1>1, <1>4, <1>5, <1>6 DEF Account
<1> QED
  BY <1>7 DEF new

LEMMA AccountRead ==
  ASSUME NEW run \in RunState, NEW t \in Task, Account(run, t), t.pc = "top", NEW u,
         u.pc = "contend", u.i = t.i, u.lastCkpt = t.lastCkpt, u.recovered = t.recovered,
         u.due = {e \in 1 .. Len(run.events) :
                    /\ IsActive(run.events[e], t.i)
                    /\ IsRecoveryTrigger(run.events[e].kind)
                    /\ e \notin t.recovered
                    /\ run.events[e].at <= t.i}
  PROVE  Account(run, u)
<1>1. run.events \in Seq(ChaosEvent) /\ t.i \in Nat
  BY DEF RunState, Task
<1>2. SUFFICES ASSUME Charged(run.events, run.ckpts, t), Saving(run.ckpts, t), Caught(run.events, t)
               PROVE  Charged(run.events, run.ckpts, u) /\ Saving(run.ckpts, u) /\ Caught(run.events, u)
  BY DEF Account
<1>3. Charged(run.events, run.ckpts, u)
  BY <1>2 DEF Charged, Crashing
<1>4. Saving(run.ckpts, u)
  <2>1. Past(u) = Past(t) /\ InLoop(u) /\ InLoop(t)
    BY DEF Past, InLoop
  <2> QED
    BY <1>2, <2>1 DEF Saving
<1>5. Caught(run.events, u)
  <2> SUFFICES ASSUME NEW e \in 1 .. Len(run.events), Lasting(run.events[e]),
                      run.events[e].at + 2 <= t.i
               PROVE  e \in u.recovered \cup u.due
    BY DEF Caught
  <2>1. run.events[e].at \in Nat /\ run.events[e].dur \in Nat
    <3>1. run.events[e] \in ChaosEvent
      BY <1>1, ElementOfSeq
    <3> QED
      BY <3>1 DEF ChaosEvent
  <2>2. CASE run.events[e].at + 3 <= t.i
    BY <1>2, <2>2 DEF Caught
  <2>3. CASE run.events[e].at + 2 = t.i
    <3>1. IsActive(run.events[e], t.i)
      BY <2>1, <2>3 DEF IsActive, Lasting
    <3>2. IsRecoveryTrigger(run.events[e].kind) /\ run.events[e].at <= t.i
      BY <2>1, <2>3 DEF Lasting
    <3> QED
      BY <3>1, <3>2
  <2> QED
    BY <1>1, <2>1, <2>2, <2>3
<1> QED
  BY <1>3, <1>4, <1>5

LEMMA AccountShare ==
  ASSUME SimAssumption, NEW run \in RunState, NEW t \in Task, Account(run, t), t.pc = "contend",
         NEW u, u.pc = AfterContention(t.i, t.due), u.i = t.i, u.lastCkpt = t.lastCkpt,
         u.recovered = t.recovered, u.due = t.due
  PROVE  Account(run, u)
<1>1. t.i \in Nat /\ t.lastCkpt \in Nat /\ CkptInterval \in Nat
  BY DEF Task, SimAssumption
<1>2. u.pc = IF SaveDue(t.i) THEN "save" ELSE IF t.due # {} THEN "restore" ELSE "sleep"
  BY DEF AfterContention, AfterSave
<1>3. SUFFICES ASSUME Charged(run.events, run.ckpts, t), Saving(run.ckpts, t), Caught(run.events, t)
               PROVE  Charged(run.events, run.ckpts, u) /\ Saving(run.ckpts, u) /\ Caught(run.events, u)
  BY <1>2 DEF Account
<1>4. Charged(run.events, run.ckpts, u)
  BY <1>2, <1>3 DEF Charged
<1>5. Saving(run.ckpts, u)
  <2>1. Past(t) = t.i - 1 /\ InLoop(t)
    BY DEF Past, InLoop
  <2>2. CkptInterval # 0 => t.lastCkpt <= Past(u) /\ Past(u) - t.lastCkpt < CkptInterval
    <3> SUFFICES ASSUME CkptInterval # 0
                 PROVE  t.lastCkpt <= Past(u) /\ Past(u) - t.lastCkpt < CkptInterval
      OBVIOUS
    <3>1. /\ t.lastCkpt <= t.i - 1 /\ t.i - 1 - t.lastCkpt < CkptInterval
          /\ t.lastCkpt % CkptInterval = 0
      BY <1>3, <2>1 DEF Saving
    <3>2. CASE SaveDue(t.i)
      BY <1>2, <2>1, <3>1, <3>2 DEF Past
    <3>3. CASE ~SaveDue(t.i)
      <4>1. t.i # t.lastCkpt + CkptInterval
        BY <1>1, <3>1, <3>3, NextMultiple DEF SaveDue
      <4>2. Past(u) = t.i
        BY <1>2, <3>3 DEF Past
      <4> QED
        BY <1>1, <3>1, <4>1, <4>2
    <3> QED
      BY <3>2, <3>3
  <2>3. u.pc = "save" => SaveDue(u.i)
    BY <1>2
  <2> QED
    BY <1>3, <2>2, <2>3 DEF Saving
<1>6. Caught(run.events, u)
  <2>1. InLoop(t) /\ u.pc # "top"
    BY <1>2 DEF InLoop
  <2> QED
    BY <1>3, <2>1 DEF Caught
<1> QED
  BY <1>4, <1>5, <1>6

LEMMA AccountSave ==
  ASSUME SimAssumption, NEW run \in RunState, NEW t \in Task, Account(run, t), t.pc = "save",
         NEW u, u.pc = AfterSave(t.due), u.i = t.i, u.lastCkpt = t.i,
         u.recovered = t.recovered, u.due = t.due, NEW new, new.status = run.status,
         run.status # "absent", new.events = run.events,
         new.ckpts = Append(run.ckpts, [kind |-> "save", step |-> t.i, lost |-> 0])
  PROVE  Account(new, u)
<1> DEFINE e   == [kind |-> "save", step |-> t.i, lost |-> 0]
           log == run.ckpts
           ext == Append(log, e)
<1>1. t.i \in Nat /\ t.lastCkpt \in Nat /\ CkptInterval \in Nat /\ log \in Seq(CkptEvent)
  BY DEF Task, SimAssumption, RunState
<1>2. e \in CkptEvent /\ e.kind = "save" /\ e.step = t.i
  BY <1>1 DEF CkptEvent
<1>3. u.pc = IF t.due # {} THEN "restore" ELSE "sleep"
  BY DEF AfterSave
<1>4. Charged(run.events, log, t) /\ Saving(log, t) /\ Caught(run.events, t)
  BY DEF Account
<1> HIDE DEF e, log
<1>5. /\ Entries(ext, "restore") = Entries(log, "restore") \cup {}
      /\ Saved(ext, Len(ext) + 1) = Saved(log, Len(log) + 1) \cup {t.i}
      /\ \A k \in 1 .. Len(log) : LossIsTrue(log, k) => LossIsTrue(ext, k)
  <2>1. \A kind : Entries(ext, kind)
                    = Entries(log, kind) \cup (IF e.kind = kind THEN {Len(log) + 1} ELSE {})
    BY <1>1, <1>2, LogAppend
  <2>2. Entries(ext, "restore") = Entries(log, "restore")
                                    \cup (IF e.kind = "restore" THEN {Len(log) + 1} ELSE {})
    BY <2>1
  <2>3. Saved(ext, Len(ext) + 1)
          = Saved(log, Len(log) + 1) \cup (IF e.kind = "save" THEN {e.step} ELSE {})
    BY <1>1, <1>2, SavedAppend
  <2>4. \A k \in 1 .. Len(log) : LossIsTrue(log, k) => LossIsTrue(ext, k)
    BY <1>1, <1>2, LossStays
  <2> HIDE DEF ext
  <2> QED
    BY <1>2, <2>2, <2>3, <2>4
<1> HIDE DEF ext
<1>6. Charged(run.events, ext, u)
  BY <1>3, <1>4, <1>5 DEF Charged
<1>7. Saving(ext, u)
  <2>1. CkptInterval # 0 /\ t.i % CkptInterval = 0
    BY <1>4 DEF Saving, SaveDue
  <2>2. Past(u) = t.i /\ u.pc # "save"
    BY <1>3 DEF Past
  <2>3. \A s \in Saved(log, Len(log) + 1) : s <= t.i
    <3>1. \A s \in Saved(log, Len(log) + 1) : s <= t.lastCkpt /\ t.lastCkpt <= t.i
      BY <1>4 DEF Saving
    <3>2. \A s \in Saved(log, Len(log) + 1) : s \in Int
      BY <1>1 DEF Saved, Entries, CkptEvent
    <3> QED
      BY <1>1, <3>1, <3>2
  <2>4. \A k \in Entries(ext, "restore") : LossIsTrue(ext, k)
    BY <1>4, <1>5 DEF Saving, Entries
  <2>5. 0 < CkptInterval /\ t.i - t.i = 0 /\ t.i <= t.i
    BY <1>1, <2>1
  <2> QED
    BY <1>5, <2>1, <2>2, <2>3, <2>4, <2>5 DEF Saving
<1>8. Caught(run.events, u)
  <2>1. InLoop(t) /\ u.pc # "top"
    BY <1>3 DEF InLoop
  <2> QED
    BY <1>4, <2>1 DEF Caught
<1>9. new.ckpts = ext
  BY DEF ext, log, e
<1> QED
  BY <1>3, <1>6, <1>7, <1>8, <1>9 DEF Account

LEMMA AccountRecover ==
  ASSUME SimAssumption, NEW run \in RunState, NEW t \in Task, Account(run, t), t.pc = "restore",
         NEW e \in t.due, NEW u, u.pc = AfterSave(t.due \ {e}), u.i = t.i, u.lastCkpt = t.lastCkpt,
         u.recovered = t.recovered \cup {e}, u.due = t.due \ {e},
         NEW new, new.status = run.status, run.status # "absent", new.events = run.events,
         new.ckpts = Append(run.ckpts, [kind |-> "restore", step |-> t.i, lost |-> t.i - t.lastCkpt])
  PROVE  Account(new, u)
<1> DEFINE x   == [kind |-> "restore", step |-> t.i, lost |-> t.i - t.lastCkpt]
           log == run.ckpts
           ext == Append(log, x)
<1>1. t.i \in Nat /\ t.lastCkpt \in Nat /\ CkptInterval \in Nat /\ log \in Seq(CkptEvent)
  BY DEF Task, SimAssumption, RunState
<1>2. x \in CkptEvent /\ x.kind = "restore" /\ x.step = t.i /\ x.lost = t.i - t.lastCkpt
  BY <1>1 DEF CkptEvent
<1>3. u.pc = IF u.due # {} THEN "restore" ELSE "sleep"
  BY DEF AfterSave
<1>4. Charged(run.events, log, t) /\ Saving(log, t) /\ Caught(run.events, t)
  BY DEF Account
<1> HIDE DEF x, log
<1>5. /\ ext \in Seq(CkptEvent) /\ Len(ext) = Len(log) + 1 /\ Len(log) \in Nat
      /\ ext[Len(log) + 1] = x
      /\ Entries(ext, "restore") = Entries(log, "restore") \cup {Len(log) + 1}
      /\ Saved(ext, Len(ext) + 1) = Saved(log, Len(log) + 1)
      /\ Saved(ext, Len(log) + 1) = Saved(log, Len(log) + 1)
      /\ \A k \in 1 .. Len(log) : LossIsTrue(log, k) => LossIsTrue(ext, k)
  <2>1. /\ ext \in Seq(CkptEvent) /\ Len(ext) = Len(log) + 1 /\ Len(log) \in Nat
        /\ ext[Len(log) + 1] = x
        /\ Entries(ext, "restore")
             = Entries(log, "restore") \cup (IF x.kind = "restore" THEN {Len(log) + 1} ELSE {})
    BY <1>1, <1>2, LogAppend
  <2>2. Saved(ext, Len(ext) + 1)
          = Saved(log, Len(log) + 1) \cup (IF x.kind = "save" THEN {x.step} ELSE {})
    BY <1>1, <1>2, SavedAppend
  <2>3. \A n \in 1 .. Len(log) + 1 : Saved(ext, n) = Saved(log, n)
    BY <1>1, <1>2, SavedAppend
  <2>4. \A k \in 1 .. Len(log) : LossIsTrue(log, k) => LossIsTrue(ext, k)
    BY <1>1, <1>2, LossStays
  <2> HIDE DEF ext
  <2> QED
    BY <1>2, <2>1, <2>2, <2>3, <2>4
<1> HIDE DEF ext
<1>6. Charged(run.events, ext, u)
  <2>1. e \notin t.recovered /\ e \in Crashing(run.events)
    BY <1>4 DEF Charged
  <2>2. IsFiniteSet(t.recovered)
    <3>1. Len(run.events) \in Nat
      BY DEF RunState
    <3>2. IsFiniteSet(1 .. Len(run.events))
      BY <3>1, FS_Interval
    <3> QED
      BY <1>4, <3>2, FS_Subset DEF Charged, Crashing
  <2>3. Cardinality(u.recovered) = Cardinality(t.recovered) + 1
    BY <2>1, <2>2, FS_AddElement
  <2>4. IsFiniteSet(Entries(log, "restore")) /\ Len(log) + 1 \notin Entries(log, "restore")
    <3>1. IsFiniteSet(1 .. Len(log)) /\ Len(log) + 1 \notin 1 .. Len(log)
      BY <1>5, FS_Interval
    <3> QED
      BY <3>1, FS_Subset DEF Entries
  <2>5. Cardinality(Entries(ext, "restore")) = Cardinality(Entries(log, "restore")) + 1
    BY <1>5, <2>4, FS_AddElement
  <2>6. Cardinality(Entries(log, "restore")) = Cardinality(t.recovered)
    BY <1>4 DEF Charged
  <2>7. u.recovered \cup u.due \subseteq Crashing(run.events) /\ u.recovered \cap u.due = {}
    BY <1>4 DEF Charged
  <2>8. u.pc \in {"top", "sleep", "record"} => u.due = {}
    BY <1>3
  <2> QED
    BY <2>3, <2>5, <2>6, <2>7, <2>8 DEF Charged
<1>7. Saving(ext, u)
  <2>1. Past(u) = t.i /\ Past(t) = t.i /\ InLoop(t) /\ u.pc # "save"
    BY <1>3 DEF Past, InLoop
  <2>2. LossIsTrue(ext, Len(log) + 1)
    <3>1. /\ t.lastCkpt \in Saved(ext, Len(log) + 1)
          /\ \A s \in Saved(ext, Len(log) + 1) : s <= t.lastCkpt
      BY <1>4, <1>5 DEF Saving
    <3>2. CkptInterval # 0 => t.i - t.lastCkpt < CkptInterval
      BY <1>4, <2>1 DEF Saving
    <3> QED
      BY <1>2, <1>5, <3>1, <3>2 DEF LossIsTrue
  <2>3. \A k \in Entries(ext, "restore") : LossIsTrue(ext, k)
    <3>1. \A k \in Entries(log, "restore") : k \in 1 .. Len(log) /\ LossIsTrue(log, k)
      BY <1>4 DEF Saving, Entries
    <3> QED
      BY <1>5, <2>2, <3>1
  <2> QED
    BY <1>4, <1>5, <2>1, <2>3 DEF Saving
<1>8. Caught(run.events, u)
  <2>1. InLoop(t) /\ u.pc # "top" /\ t.recovered \cup t.due = u.recovered \cup u.due
    BY <1>3 DEF InLoop
  <2> QED
    BY <1>4, <2>1 DEF Caught
<1>9. new.ckpts = ext
  BY DEF ext, log, x
<1> QED
  BY <1>3, <1>6, <1>7, <1>8, <1>9 DEF Account

LEMMA AccountWake ==
  ASSUME NEW run, NEW t, Account(run, t), t.pc = "sleep",
         NEW u, u.pc = "record", u.i = t.i, u.lastCkpt = t.lastCkpt,
         u.recovered = t.recovered, u.due = t.due
  PROVE  Account(run, u)
<1>1. SUFFICES ASSUME Charged(run.events, run.ckpts, t), Saving(run.ckpts, t), Caught(run.events, t)
               PROVE  Charged(run.events, run.ckpts, u) /\ Saving(run.ckpts, u) /\ Caught(run.events, u)
  BY DEF Account
<1>2. Past(u) = Past(t) /\ InLoop(t) /\ InLoop(u)
  BY DEF Past, InLoop
<1>3. Charged(run.events, run.ckpts, u)
  BY <1>1 DEF Charged
<1>4. Saving(run.ckpts, u)
  BY <1>1, <1>2 DEF Saving
<1>5. Caught(run.events, u)
  BY <1>1, <1>2 DEF Caught
<1> QED
  BY <1>3, <1>4, <1>5

LEMMA AccountRecord ==
  ASSUME NEW run \in RunState, NEW t \in Task, Account(run, t), t.pc = "record",
         NEW u, u.pc = "top", u.i = t.i + 1, u.lastCkpt = t.lastCkpt,
         u.recovered = t.recovered, u.due = t.due
  PROVE  Account(run, u)
<1>1. t.i \in Nat /\ t.lastCkpt \in Nat /\ run.events \in Seq(ChaosEvent)
  BY DEF Task, RunState
<1>2. SUFFICES ASSUME Charged(run.events, run.ckpts, t), Saving(run.ckpts, t), Caught(run.events, t)
               PROVE  Charged(run.events, run.ckpts, u) /\ Saving(run.ckpts, u) /\ Caught(run.events, u)
  BY DEF Account
<1>3. Past(t) = t.i /\ Past(u) = t.i /\ InLoop(t)
  BY <1>1 DEF Past, InLoop
<1>4. Charged(run.events, run.ckpts, u)
  BY <1>2 DEF Charged
<1>5. Saving(run.ckpts, u)
  <2>1. t.lastCkpt <= t.i + 1
    BY <1>1, <1>2 DEF Saving
  <2> QED
    BY <1>2, <1>3, <2>1 DEF Saving
<1>6. Caught(run.events, u)
  <2> SUFFICES ASSUME NEW e \in 1 .. Len(run.events), Lasting(run.events[e]),
                      run.events[e].at + 3 <= t.i + 1
               PROVE  e \in u.recovered
    BY DEF Caught
  <2>1. run.events[e].at \in Nat
    <3>1. run.events[e] \in ChaosEvent
      BY <1>1, ElementOfSeq
    <3> QED
      BY <3>1 DEF ChaosEvent
  <2>2. run.events[e].at + 2 <= t.i
    <3>1. \A a, n \in Nat : a + 3 <= n + 1 => a + 2 <= n
      OBVIOUS
    <3> QED
      BY <1>1, <2>1, <3>1
  <2>3. t.due = {}
    BY <1>2 DEF Charged
  <2> QED
    BY <1>2, <1>3, <2>2, <2>3 DEF Caught
<1> QED
  BY <1>4, <1>5, <1>6

(* A task that leaves the loop, whatever then becomes of the run's status.  *)
LEMMA AccountLeave ==
  ASSUME NEW run, NEW t, Account(run, t),
         NEW u, u.pc \in {"pop", "done", "cancelled", "failed"}, u.i = t.i, u.lastCkpt = t.lastCkpt,
         u.recovered = t.recovered, u.due = t.due
  PROVE  Account(run, u)
<1>1. SUFFICES ASSUME Charged(run.events, run.ckpts, t), Saving(run.ckpts, t), Caught(run.events, t)
               PROVE  Charged(run.events, run.ckpts, u) /\ Saving(run.ckpts, u) /\ Caught(run.events, u)
  BY DEF Account
<1>2. ~InLoop(u) /\ u.pc # "save" /\ u.pc # "top"
  BY DEF InLoop
<1>3. Charged(run.events, run.ckpts, u)
  BY <1>1 DEF Charged
<1>4. Saving(run.ckpts, u)
  BY <1>1, <1>2 DEF Saving
<1>5. Caught(run.events, u)
  BY <1>2 DEF Caught
<1> QED
  BY <1>3, <1>4, <1>5

(* A fault injected meanwhile, stamped with the step before the task's.     *)
LEMMA AccountInject ==
  ASSUME NEW run \in RunState, NEW t \in Task, Account(run, t),
         NEW event \in ChaosEvent, event.at = t.i - 1,
         NEW new, new.status = run.status, run.status # "absent", new.ckpts = run.ckpts,
         new.events = Append(run.events, event), t.pc \notin {"none", "begin"}
  PROVE  Account(new, t)
<1> DEFINE L == Len(run.events)
<1>1. /\ run.events \in Seq(ChaosEvent) /\ t.i \in Nat /\ L \in Nat
      /\ new.events \in Seq(ChaosEvent) /\ Len(new.events) = L + 1
      /\ new.events[L + 1] = event /\ \A e \in 1 .. L : new.events[e] = run.events[e]
  BY AppendProperties DEF RunState, Task
<1>2. Charged(run.events, run.ckpts, t) /\ Saving(run.ckpts, t) /\ Caught(run.events, t)
  BY DEF Account
<1> HIDE DEF L
<1>3. Crashing(run.events) \subseteq Crashing(new.events)
  BY <1>1 DEF Crashing, L
<1>4. Charged(new.events, run.ckpts, t)
  BY <1>2, <1>3 DEF Charged
<1>5. Caught(new.events, t)
  <2> SUFFICES ASSUME NEW e \in 1 .. L + 1, Lasting(new.events[e])
               PROVE  /\ t.pc = "top" /\ new.events[e].at + 3 <= t.i => e \in t.recovered
                      /\ InLoop(t) /\ t.pc # "top" /\ new.events[e].at + 2 <= t.i
                           => e \in t.recovered \cup t.due
    BY <1>1 DEF Caught
  <2>1. CASE e \in 1 .. L
    BY <1>1, <1>2, <2>1 DEF Caught, L
  <2>2. CASE e = L + 1
    <3>1. \A i \in Nat : ~(i - 1 + 3 <= i) /\ ~(i - 1 + 2 <= i)
      OBVIOUS
    <3>2. new.events[e].at = t.i - 1
      BY <1>1, <2>2
    <3> QED
      BY <1>1, <3>1, <3>2
  <2> QED
    BY <1>1, <2>1, <2>2
<1> QED
  BY <1>2, <1>4, <1>5 DEF Account

(* What a step makes of a task's bookkeeping.                               *)
Books(u, pc, i, last, rec, due) ==
  u.pc = pc /\ u.i = i /\ u.lastCkpt = last /\ u.recovered = rec /\ u.due = due

LEMMA MoveBooks ==
  ASSUME SimInv, NEW r \in RunIds
  PROVE  LET t == task[r]
             T == task'[r]
         IN  /\ \A pc : Move(r, [t EXCEPT !.pc = pc])
                          => Books(T, pc, t.i, t.lastCkpt, t.recovered, t.due)
             /\ \A pc, i : Move(r, [t EXCEPT !.pc = pc, !.i = i])
                             => Books(T, pc, i, t.lastCkpt, t.recovered, t.due)
             /\ \A pc, d : Move(r, [t EXCEPT !.due = d, !.pc = pc])
                             => Books(T, pc, t.i, t.lastCkpt, t.recovered, d)
             /\ \A pc, l : Move(r, [t EXCEPT !.lastCkpt = l, !.pc = pc])
                             => Books(T, pc, t.i, l, t.recovered, t.due)
             /\ \A pc, v, d : Move(r, [t EXCEPT !.recovered = v, !.due = d, !.pc = pc])
                                => Books(T, pc, t.i, t.lastCkpt, v, d)
             /\ \A x, y : Move(r, [t EXCEPT !.cancel = x, !.cancelAt = y])
                            => Books(T, t.pc, t.i, t.lastCkpt, t.recovered, t.due)
<1> DEFINE t == task[r]
           T == task'[r]
<1>1. t \in Task /\ \A u : Move(r, u) => T = u
  BY MoveOthers DEF SimInv, SimTypeOK
<1> HIDE DEF t, T
<1>2. ASSUME NEW pc, T = [t EXCEPT !.pc = pc]
      PROVE  Books(T, pc, t.i, t.lastCkpt, t.recovered, t.due)
  BY <1>1, <1>2 DEF Books, Task
<1>3. ASSUME NEW pc, NEW i, T = [t EXCEPT !.pc = pc, !.i = i]
      PROVE  Books(T, pc, i, t.lastCkpt, t.recovered, t.due)
  BY <1>1, <1>3 DEF Books, Task
<1>4. ASSUME NEW pc, NEW d, T = [t EXCEPT !.due = d, !.pc = pc]
      PROVE  Books(T, pc, t.i, t.lastCkpt, t.recovered, d)
  BY <1>1, <1>4 DEF Books, Task
<1>5. ASSUME NEW pc, NEW l, T = [t EXCEPT !.lastCkpt = l, !.pc = pc]
      PROVE  Books(T, pc, t.i, l, t.recovered, t.due)
  BY <1>1, <1>5 DEF Books, Task
<1>6. ASSUME NEW pc, NEW v, NEW d, T = [t EXCEPT !.recovered = v, !.due = d, !.pc = pc]
      PROVE  Books(T, pc, t.i, t.lastCkpt, v, d)
  BY <1>1, <1>6 DEF Books, Task
<1>7. ASSUME NEW x, NEW y, T = [t EXCEPT !.cancel = x, !.cancelAt = y]
      PROVE  Books(T, t.pc, t.i, t.lastCkpt, t.recovered, t.due)
  BY <1>1, <1>7 DEF Books, Task
<1> QED
  BY <1>1, <1>2, <1>3, <1>4, <1>5, <1>6, <1>7, Zenon DEF t, T

(* What a method of the store makes of a run's record, if it is known.      *)
Logs(run, new, status, events, ckpts) ==
  /\ run.status = "absent" => new = run
  /\ run.status # "absent" => new.status = status /\ new.events = events /\ new.ckpts = ckpts

LEMMA UpdateLogs ==
  ASSUME StoreTypeOK, NEW r \in RunIds
  PROVE  LET run == runs[r]
             new == runs'[r]
         IN  /\ \A x : Update(r, [run EXCEPT !.steps = x])
                         => Logs(run, new, run.status, run.events, run.ckpts)
             /\ \A x : Update(r, [run EXCEPT !.status = x])
                         => Logs(run, new, x, run.events, run.ckpts)
             /\ \A x : Update(r, [run EXCEPT !.events = x])
                         => Logs(run, new, run.status, x, run.ckpts)
             /\ \A x : Update(r, [run EXCEPT !.ckpts = x])
                         => Logs(run, new, run.status, run.events, x)
<1> DEFINE run == runs[r]
           new == runs'[r]
<1>1. run \in RunState /\ \A u : Update(r, u) => new = IF run.status # "absent" THEN u ELSE run
  BY UpdateEffect DEF StoreTypeOK, Known
<1> HIDE DEF run, new
<1>2. ASSUME NEW x, new = IF run.status # "absent" THEN [run EXCEPT !.steps = x] ELSE run
      PROVE  Logs(run, new, run.status, run.events, run.ckpts)
  BY <1>1, <1>2 DEF Logs, RunState
<1>3. ASSUME NEW x, new = IF run.status # "absent" THEN [run EXCEPT !.status = x] ELSE run
      PROVE  Logs(run, new, x, run.events, run.ckpts)
  BY <1>1, <1>3 DEF Logs, RunState
<1>4. ASSUME NEW x, new = IF run.status # "absent" THEN [run EXCEPT !.events = x] ELSE run
      PROVE  Logs(run, new, run.status, x, run.ckpts)
  BY <1>1, <1>4 DEF Logs, RunState
<1>5. ASSUME NEW x, new = IF run.status # "absent" THEN [run EXCEPT !.ckpts = x] ELSE run
      PROVE  Logs(run, new, run.status, run.events, x)
  BY <1>1, <1>5 DEF Logs, RunState
<1>6. \A x : Update(r, [run EXCEPT !.steps = x]) => Logs(run, new, run.status, run.events, run.ckpts)
  BY <1>1, <1>2
<1>7. \A x : Update(r, [run EXCEPT !.status = x]) => Logs(run, new, x, run.events, run.ckpts)
  BY <1>1, <1>3
<1>8. \A x : Update(r, [run EXCEPT !.events = x]) => Logs(run, new, run.status, x, run.ckpts)
  BY <1>1, <1>4
<1>9. \A x : Update(r, [run EXCEPT !.ckpts = x]) => Logs(run, new, run.status, run.events, x)
  BY <1>1, <1>5
<1> QED
  BY <1>6, <1>7, <1>8, <1>9 DEF run, new

(* An unknown run has nothing to account for.                               *)
LEMMA AccountUnknown ==
  ASSUME NEW run, NEW t, Account(run, t), run.status = "absent",
         NEW u, u.pc \notin {"none", "begin"}
  PROVE  Account(run, u)
BY DEF Account

LEMMA TaskAccounts ==
  ASSUME StoreAssumption, SimAssumption, SimInv, AccountInv, NEW r \in RunIds, TaskStep(r)
  PROVE  AccountInv'
<1> DEFINE t   == task[r]
           run == runs[r]
           T   == task'[r]
           R   == runs'[r]
<1>1. /\ StoreTypeOK /\ run \in RunState /\ t \in Task /\ t.req.fabric \in Fabrics
      /\ Account(run, t)
  BY DEF SimInv, SimTypeOK, StoreTypeOK, AccountInv, Task
<1>2. \A u : Move(r, u) => T = u
  BY MoveOthers DEF SimInv
<1>3. \A k \in RunIds \ {r} : task'[k] = task[k]
  BY TaskKeepsHandlers, MoveOthers DEF SimInv
<1>4. \A k \in RunIds \ {r} : runs'[k] = runs[k] \/ runs'[k] = NoRun
  <2>1. CASE BeginSimulation(r)
    BY <1>1, <2>1, StartEffect DEF BeginSimulation
  <2>2. CASE RecordStep(r)
    BY <1>1, <2>2, AddStepEffect DEF RecordStep
  <2>3. CASE FinishRun(r)
    BY <1>1, <2>3, StatusEffect DEF FinishRun, Finish
  <2>4. CASE SaveCheckpoint(r) \/ Recover(r)
    <3>1. PICK e : AddCheckpointEvent(r, e)
      BY <2>4 DEF SaveCheckpoint, Recover
    <3> QED
      BY <1>1, <3>1, LogEffect
  <2>5. CASE runs' = runs
    BY <2>5
  <2> QED
    BY <2>1, <2>2, <2>3, <2>4, <2>5
       DEF TaskStep, EstimateFails, ReadEvents, ShareFabric, FabricFails, Wake, Cancelled, PopTask
<1>5. \A k \in RunIds \ {r} : Account(runs'[k], task'[k])
  <2> SUFFICES ASSUME NEW k \in RunIds \ {r} PROVE Account(runs'[k], task'[k])
    OBVIOUS
  <2>1. Account(runs[k], task[k]) /\ task'[k] = task[k]
    BY <1>3 DEF AccountInv
  <2>2. CASE runs'[k] = runs[k]
    BY <2>1, <2>2
  <2>3. CASE runs'[k] = NoRun
    BY <2>1, <2>3 DEF Account, NoRun
  <2> QED
    BY <1>4, <2>2, <2>3
<1>6. Account(R, T)
  <2>1. CASE BeginSimulation(r)
    <3>1. PICK now \in Now : Start(r, task[r].req.fabric, now)
      BY <2>1 DEF BeginSimulation
    <3>2. R = Fresh(task[r].req.fabric, now)
      BY <1>1, <3>1, StartEffect
    <3>3. Move(r, [task[r] EXCEPT !.pc = "top", !.i = 1]) /\ t.pc = "begin"
      BY <2>1 DEF BeginSimulation, At
    <3>4. Books(T, "top", 1, t.lastCkpt, t.recovered, t.due)
      BY <3>3, MoveBooks
    <3>5. t.due = {} /\ t.recovered = {} /\ t.lastCkpt = 0
      BY <1>1, <3>3 DEF Account
    <3> HIDE DEF t, T, R
    <3>6. Account(Fresh(task[r].req.fabric, now), T)
      BY <3>4, <3>5, AccountStart DEF Books
    <3> QED
      BY <3>2, <3>6
  <2>2. CASE EstimateFails(r) \/ FabricFails(r) \/ Cancelled(r) \/ PopTask(r)
    <3>1. PICK pc \in {"pop", "done", "cancelled", "failed"} : Move(r, [task[r] EXCEPT !.pc = pc])
      BY <2>2 DEF EstimateFails, FabricFails, Cancelled, PopTask
    <3>2. R = run
      BY <2>2 DEF EstimateFails, FabricFails, Cancelled, PopTask
    <3>3. Books(T, pc, t.i, t.lastCkpt, t.recovered, t.due)
      BY <3>1, MoveBooks
    <3> HIDE DEF t, T, R, run
    <3> QED
      BY <1>1, <3>2, <3>3, AccountLeave DEF Books
  <2>3. CASE FinishRun(r)
    <3>1. Move(r, [task[r] EXCEPT !.pc = "pop"])
      BY <2>3 DEF FinishRun
    <3>2. Books(T, "pop", t.i, t.lastCkpt, t.recovered, t.due)
      BY <3>1, MoveBooks
    <3>3. Update(r, [runs[r] EXCEPT !.status = "done"])
      BY <2>3 DEF FinishRun, Finish
    <3>4. Logs(run, R, "done", run.events, run.ckpts)
      BY <1>1, <3>3, UpdateLogs
    <3> HIDE DEF t, T, R, run
    <3>6. Account(run, T)
      BY <1>1, <3>2, AccountLeave DEF Books
    <3>7. CASE run.status = "absent"
      BY <3>4, <3>6, <3>7 DEF Logs
    <3>8. CASE run.status # "absent"
      BY <3>4, <3>6, <3>8, AccountFrame DEF Logs
    <3> QED
      BY <3>7, <3>8
  <2>4. CASE ReadEvents(r)
    <3>1. /\ runs' = runs /\ t.pc = "top"
          /\ Move(r, [task[r] EXCEPT !.due = DueEvents(r, task[r].i),
                                     !.pc = IF Known(r) THEN "contend"
                                            ELSE AfterContention(task[r].i, DueEvents(r, task[r].i))])
      BY <2>4 DEF ReadEvents, At
    <3> DEFINE d == DueEvents(r, task[r].i)
    <3>2. CASE Known(r)
      <4>1. Move(r, [task[r] EXCEPT !.due = d, !.pc = "contend"])
        BY <3>1, <3>2
      <4>2. Books(T, "contend", t.i, t.lastCkpt, t.recovered, d)
        <5> HIDE DEF d
        <5> QED
          BY <4>1, MoveBooks
      <4>3. d = {e \in 1 .. Len(run.events) :
                   /\ IsActive(run.events[e], t.i)
                   /\ IsRecoveryTrigger(run.events[e].kind)
                   /\ e \notin t.recovered
                   /\ run.events[e].at <= t.i}
        BY DEF DueEvents
      <4>4. R = run
        BY <3>1
      <4>5. t.pc = "top"
        BY <3>1
      <4> HIDE DEF d, t, T, R, run
      <4> QED
        BY <1>1, <4>2, <4>3, <4>4, <4>5, AccountRead DEF Books
    <3>3. CASE ~Known(r)
      <4>1. Move(r, [task[r] EXCEPT !.due = d, !.pc = AfterContention(task[r].i, d)])
        BY <3>1, <3>3
      <4>2. T.pc = AfterContention(task[r].i, d)
        <5> DEFINE pc == AfterContention(task[r].i, d)
        <5> HIDE DEF pc, d
        <5>1. Move(r, [task[r] EXCEPT !.due = d, !.pc = pc])
          BY <4>1 DEF pc
        <5>2. T.pc = pc
          BY <5>1, MoveBooks DEF Books
        <5> QED
          BY <5>2 DEF pc
      <4>3. T.pc \notin {"none", "begin"} /\ run.status = "absent" /\ R = run
        BY <3>1, <3>3, <4>2, LoopPc DEF Known
      <4> HIDE DEF d, t, T, R, run
      <4> QED
        BY <1>1, <4>3, AccountUnknown
    <3> QED
      BY <3>2, <3>3
  <2>5. CASE ShareFabric(r)
    <3>1. /\ runs' = runs /\ t.pc = "contend"
          /\ Move(r, [task[r] EXCEPT !.pc = AfterContention(task[r].i, task[r].due)])
      BY <2>5 DEF ShareFabric, At
    <3>2. Books(T, AfterContention(t.i, t.due), t.i, t.lastCkpt, t.recovered, t.due)
      BY <3>1, MoveBooks
    <3>3. R = run
      BY <3>1
    <3> HIDE DEF T, R, run
    <3>4. task[r].pc = "contend"
      BY <3>1
    <3> HIDE DEF t
    <3> QED
      BY <1>1, <3>1, <3>2, <3>3, AccountShare DEF Books
  <2>6. CASE SaveCheckpoint(r)
    <3> DEFINE e == [kind |-> "save", step |-> t.i, lost |-> 0]
    <3>1. /\ AddCheckpointEvent(r, e) /\ t.pc = "save"
          /\ Move(r, [task[r] EXCEPT !.lastCkpt = t.i, !.pc = AfterSave(task[r].due)])
      BY <2>6 DEF SaveCheckpoint, At
    <3>2. Books(T, AfterSave(t.due), t.i, t.i, t.recovered, t.due)
      BY <3>1, MoveBooks
    <3>3. Update(r, [runs[r] EXCEPT !.ckpts = Append(run.ckpts, e)])
      BY <3>1 DEF AddCheckpointEvent
    <3> DEFINE x == Append(run.ckpts, e)
    <3>5. Logs(run, R, run.status, run.events, x)
      <4> HIDE DEF x
      <4> QED
        BY <1>1, <3>3, UpdateLogs DEF x
    <3> HIDE DEF x
    <3> HIDE DEF t, T, R, run
    <3>6. CASE run.status = "absent"
      <4>1. T.pc \notin {"none", "begin"}
        BY <3>2, LoopPc DEF Books
      <4> QED
        BY <1>1, <3>5, <3>6, <4>1, AccountUnknown DEF Logs
    <3>7. CASE run.status # "absent"
      BY <1>1, <3>1, <3>2, <3>5, <3>7, AccountSave DEF Books, Logs, x
    <3> QED
      BY <3>6, <3>7
  <2>7. CASE Recover(r)
    <3>1. PICK e \in t.due :
            /\ AddCheckpointEvent(r, [kind |-> "restore", step |-> t.i, lost |-> t.i - t.lastCkpt])
            /\ Move(r, [task[r] EXCEPT !.recovered = @ \cup {e}, !.due = @ \ {e},
                                       !.pc = AfterSave(task[r].due \ {e})])
      BY <2>7 DEF Recover
    <3> DEFINE y == [kind |-> "restore", step |-> t.i, lost |-> t.i - t.lastCkpt]
    <3>2. t.pc = "restore"
      BY <2>7 DEF Recover, At
    <3>3. Books(T, AfterSave(t.due \ {e}), t.i, t.lastCkpt, t.recovered \cup {e}, t.due \ {e})
      <4> DEFINE v  == t.recovered \cup {e}
                 d  == t.due \ {e}
                 pc == AfterSave(t.due \ {e})
      <4>1. Move(r, [task[r] EXCEPT !.recovered = v, !.due = d, !.pc = pc])
        BY <3>1
      <4> HIDE DEF v, d, pc
      <4>2. Books(T, pc, t.i, t.lastCkpt, v, d)
        BY <4>1, MoveBooks
      <4> QED
        BY <4>2 DEF v, d, pc
    <3>4. Update(r, [runs[r] EXCEPT !.ckpts = Append(run.ckpts, y)])
      BY <3>1 DEF AddCheckpointEvent
    <3> DEFINE x == Append(run.ckpts, y)
    <3>6. Logs(run, R, run.status, run.events, x)
      <4> HIDE DEF x
      <4> QED
        BY <1>1, <3>4, UpdateLogs DEF x
    <3> HIDE DEF x
    <3> HIDE DEF t, T, R, run
    <3>7. CASE run.status = "absent"
      <4>1. T.pc \notin {"none", "begin"}
        BY <3>3, LoopPc DEF Books
      <4> QED
        BY <1>1, <3>6, <3>7, <4>1, AccountUnknown DEF Logs
    <3>8. CASE run.status # "absent"
      BY <1>1, <3>1, <3>2, <3>3, <3>6, <3>8, AccountRecover DEF Books, Logs, x
    <3> QED
      BY <3>7, <3>8
  <2>8. CASE Wake(r)
    <3>1. runs' = runs /\ t.pc = "sleep" /\ Move(r, [task[r] EXCEPT !.pc = "record"])
      BY <2>8 DEF Wake, At
    <3>2. Books(T, "record", t.i, t.lastCkpt, t.recovered, t.due) /\ R = run /\ t.pc = "sleep"
      BY <3>1, MoveBooks
    <3> HIDE DEF t, T, R, run
    <3> QED
      BY <1>1, <3>2, AccountWake DEF Books
  <2>9. CASE RecordStep(r)
    <3> DEFINE next == t.i + 1
               x    == LastOf(Append(runs[r].steps, task[r].i))
    <3>1. /\ AddStep(r, task[r].i) /\ t.pc = "record"
          /\ Move(r, [task[r] EXCEPT !.pc = "top", !.i = next])
      BY <1>1, <2>9 DEF RecordStep, At, Task
    <3>2. Books(T, "top", next, t.lastCkpt, t.recovered, t.due)
      <4> HIDE DEF next
      <4> QED
        BY <3>1, MoveBooks
    <3>3. Update(r, [runs[r] EXCEPT !.steps = x])
      BY <3>1 DEF AddStep
    <3> HIDE DEF x
    <3>4. Logs(run, R, run.status, run.events, run.ckpts)
      BY <1>1, <3>3, UpdateLogs
    <3>6. t.pc = "record"
      BY <3>1
    <3> HIDE DEF t, T, R, run
    <3>7. Account(run, T)
      BY <1>1, <3>2, <3>6, AccountRecord DEF Books
    <3>8. CASE run.status = "absent"
      BY <3>4, <3>7, <3>8 DEF Logs
    <3>9. CASE run.status # "absent"
      BY <3>4, <3>7, <3>9, AccountFrame DEF Logs
    <3> QED
      BY <3>8, <3>9
  <2> QED
    BY <2>1, <2>2, <2>3, <2>4, <2>5, <2>6, <2>7, <2>8, <2>9 DEF TaskStep
<1> QED
  BY <1>5, <1>6 DEF AccountInv

(* A record that stays, keeps its logs, or goes, with the task as it was.   *)
LEMMA AccountSame ==
  ASSUME NEW run, NEW t, Account(run, t), NEW new, NEW status,
         status # "absent", Logs(run, new, status, run.events, run.ckpts)
  PROVE  Account(new, t)
<1>1. CASE run.status = "absent"
  BY <1>1 DEF Logs
<1>2. CASE run.status # "absent"
  <2>1. new.events = run.events /\ new.ckpts = run.ckpts
    BY <1>2 DEF Logs
  <2> QED
    BY <1>2, <2>1 DEF Account, Logs
<1> QED
  BY <1>1, <1>2

(* The step a fault is stamped with.                                        *)
LEMMA LatestIsPrevious ==
  ASSUME StoreAssumption, NEW n \in Nat \ {0}, NEW run, run.steps = Recorded(n - 1)
  PROVE  LatestStep(run) = n - 1
<1> DEFINE m     == n - 1
           first == IF m > MaxSteps THEN m - MaxSteps ELSE 0
           steps == run.steps
<1>1. m \in Nat /\ MaxSteps \in Nat \ {0} /\ steps = Recorded(m)
  BY DEF StoreAssumption
<1>2. /\ steps \in Seq(Nat) /\ Len(steps) = m - first
      /\ \A k \in 1 .. m - first : steps[k] = first + k
  <2> HIDE DEF m, steps
  <2> QED
    BY <1>1, RecordedType
<1> HIDE DEF m, steps
<1>3. CASE m = 0
  <2>1. steps = <<>>
    BY <1>1, <1>2, <1>3, EmptySeq
  <2> QED
    BY <1>3, <2>1 DEF LatestStep, steps, m
<1>4. CASE m # 0
  <2>1. m - first \in 1 .. m - first /\ first + (m - first) = m
    BY <1>1, <1>4
  <2>2. steps # <<>> /\ steps[Len(steps)] = m
    BY <1>1, <1>2, <2>1
  <2> QED
    BY <2>2 DEF LatestStep, steps, m
<1> QED
  BY <1>3, <1>4

LEMMA HandlerAccounts ==
  ASSUME StoreAssumption, SimAssumption, SimInv, AccountInv, NEW c \in Clients,
         HandlerStep(c) \/ \E r \in RunIds : NewRequest(c, r)
  PROVE  AccountInv'
<1>1. /\ StoreTypeOK /\ handler \in [Clients -> Handler]
      /\ \A k \in RunIds : /\ RunInv(k) /\ Account(runs[k], task[k])
                           /\ runs[k] \in RunState /\ task[k] \in Task
  BY DEF SimInv, SimTypeOK, AccountInv, StoreTypeOK
<1>2. CASE CancelTask(c)
  <2>1. PICK r \in RunIds : r = handler[c].run
    BY <1>1, <1>2, InFlight DEF CancelTask
  <2>2. /\ Move(r, [task[r] EXCEPT !.cancel = TRUE, !.cancelAt = task[r].i]) \/ task' = task
        /\ runs' = runs
    BY <1>2, <2>1 DEF CancelTask
  <2>3. CASE Move(r, [task[r] EXCEPT !.cancel = TRUE, !.cancelAt = task[r].i])
    <3>1. \A k \in RunIds \ {r} : task'[k] = task[k]
      BY <2>3, MoveOthers DEF SimInv
    <3>2. Books(task'[r], task[r].pc, task[r].i, task[r].lastCkpt, task[r].recovered, task[r].due)
      BY <2>3, MoveBooks
    <3>3. Account(runs[r], task'[r])
      BY <1>1, <3>2, AccountFrame DEF Books, Account
    <3> QED
      BY <1>1, <2>2, <3>1, <3>3 DEF AccountInv
  <2>4. CASE task' = task
    BY <2>2, <2>4 DEF AccountInv
  <2> QED
    BY <2>2, <2>3, <2>4
<1>3. CASE StopAnswer(c)
  <2>1. PICK r \in RunIds : r = handler[c].run
    BY <1>1, <1>3, InFlight DEF StopAnswer
  <2>2. Stop(r) /\ task' = task
    BY <1>3, <2>1 DEF StopAnswer
  <2>3. \A k \in RunIds \ {r} : runs'[k] = runs[k]
    BY <1>1, <2>2, StatusEffect DEF Stop
  <2>4. Logs(runs[r], runs'[r], "stopped", runs[r].events, runs[r].ckpts)
    BY <1>1, <2>2, UpdateLogs DEF Stop
  <2>5. Account(runs'[r], task[r])
    BY <1>1, <2>4, AccountSame
  <2> QED
    BY <1>1, <2>2, <2>3, <2>5 DEF AccountInv
<1>4. CASE InjectAnswer(c)
  <2>1. PICK r \in RunIds : r = handler[c].run
    BY <1>1, <1>4, InFlight DEF InjectAnswer
  <2>2. PICK kind \in Kinds, dur \in Nat : InjectEvent(r, kind, dur) /\ task' = task
    <3>1. handler[c].inj \in [kind : Kinds, dur : Nat]
      BY <1>1, <1>4, InFlight DEF InjectAnswer, StoreAssumption
    <3> QED
      BY <1>4, <2>1, <3>1 DEF InjectAnswer, Permanent
  <2>3. \A k \in RunIds \ {r} : runs'[k] = runs[k]
    BY <1>1, <2>2, LogEffect
  <2> DEFINE event == [kind |-> kind, at |-> LatestStep(runs[r]), dur |-> dur]
             x     == Append(runs[r].events, event)
  <2>4. Logs(runs[r], runs'[r], runs[r].status, x, runs[r].ckpts)
    <3>1. Update(r, [runs[r] EXCEPT !.events = x])
      BY <2>2 DEF InjectEvent
    <3> HIDE DEF x
    <3> QED
      BY <1>1, <3>1, UpdateLogs
  <2>5. event \in ChaosEvent /\ event.at = LatestStep(runs[r])
    BY <1>1, LatestStepType DEF ChaosEvent
  <2> HIDE DEF event
  <2>6. Account(runs'[r], task[r])
    <3>1. CASE runs[r].status = "absent"
      BY <1>1, <2>4, <3>1 DEF Logs
    <3>2. CASE runs[r].status # "absent"
      <4>1. /\ task[r].pc \notin {"none", "begin"} /\ task[r].i \in Nat \ {0}
            /\ runs[r].steps = Recorded(task[r].i - 1)
        BY <1>1, <3>2 DEF RunInv, Started, Known, Task
      <4>2. event.at = task[r].i - 1
        BY <2>5, <4>1, LatestIsPrevious
      <4> DEFINE new == runs'[r]
      <4>3. new.status = runs[r].status /\ new.ckpts = runs[r].ckpts /\ new.events = x
        BY <2>4, <3>2 DEF Logs
      <4> HIDE DEF new
      <4>4. Account(new, task[r])
        BY <1>1, <2>5, <3>2, <4>1, <4>2, <4>3, AccountInject
      <4> QED
        BY <4>4 DEF new
    <3> QED
      BY <3>1, <3>2
  <2> QED
    BY <1>1, <2>2, <2>3, <2>6 DEF AccountInv
<1>5. CASE \E r \in RunIds : SimulateRequest(c, r)
  <2>1. PICK r \in RunIds : SimulateRequest(c, r)
    BY <1>5
  <2>2. PICK req : Move(r, [NoTask EXCEPT !.pc = "begin", !.req = req])
    BY <2>1 DEF SimulateRequest
  <2>3. /\ task'[r] = [NoTask EXCEPT !.pc = "begin", !.req = req]
        /\ \A k \in RunIds \ {r} : task'[k] = task[k]
    BY <2>2, MoveOthers DEF SimInv
  <2>4. task'[r].due = {} /\ task'[r].recovered = {} /\ task'[r].lastCkpt = 0
    BY <2>3 DEF NoTask
  <2>5. runs' = runs /\ runs[r].status = "absent"
    BY <1>1, <2>1 DEF SimulateRequest, At, RunInv, Started
  <2>6. Account(runs[r], task'[r])
    BY <1>1, <2>4, <2>5 DEF Account
  <2> QED
    BY <1>1, <2>3, <2>5, <2>6 DEF AccountInv
<1>6. CASE SimulateAnswer(c) \/ \E r \in RunIds : StopRequest(c, r) \/ InjectRequest(c, r)
  <2>1. task' = task /\ runs' = runs
    BY <1>6 DEF SimulateAnswer, StopRequest, InjectRequest
  <2> QED
    BY <2>1 DEF AccountInv
<1> QED
  BY <1>2, <1>3, <1>4, <1>5, <1>6 DEF HandlerStep, NewRequest

LEMMA SimAccount == SimSpec => []AccountInv
<1>1. SimInit => AccountInv
  <2> SUFFICES ASSUME SimInit, NEW r \in RunIds PROVE Account(runs[r], task[r])
    BY DEF AccountInv
  <2>1. runs[r] = NoRun /\ task[r] = NoTask
    BY DEF SimInit, StoreInit
  <2> QED
    BY <2>1 DEF Account, NoRun, NoTask
<1>2. SimInv /\ AccountInv /\ [SimNext]_simVars => AccountInv'
  <2> SUFFICES ASSUME SimInv, AccountInv, [SimNext]_simVars PROVE AccountInv'
    OBVIOUS
  <2>1. CASE UNCHANGED simVars
    BY <2>1 DEF simVars, AccountInv
  <2>2. CASE SimNext
    BY <2>2, StoreAssumption, SimAssumption, TaskAccounts, HandlerAccounts DEF SimNext
  <2> QED
    BY <2>1, <2>2
<1> QED
  BY <1>1, <1>2, SimInvariant, PTL DEF SimSpec

LEMMA PositionsAreEntries ==
  ASSUME NEW r \in RunIds, NEW kind
  PROVE  Positions(r, kind) = Entries(runs[r].ckpts, kind)
BY DEF Positions, Entries

(* However long a fault stays active and whatever the task and the threads  *)
(* do meanwhile, a run's log never shows more recoveries than crashing      *)
(* faults injected into it (runs.py:311-326).                               *)
THEOREM SimRecoveredOnce == SimSpec => []RecoveredOnce
<1>1. SimInv /\ AccountInv => RecoveredOnce
  <2> SUFFICES ASSUME SimInv, AccountInv, NEW r \in RunIds
               PROVE  Cardinality(Entries(runs[r].ckpts, "restore"))
                        <= Cardinality(Crashing(runs[r].events))
    BY PositionsAreEntries DEF RecoveredOnce, Crashing
  <2>1. runs[r] \in RunState /\ Account(runs[r], task[r])
    BY DEF SimInv, SimTypeOK, StoreTypeOK, AccountInv
  <2>2. IsFiniteSet(Crashing(runs[r].events)) /\ Cardinality(Crashing(runs[r].events)) \in Nat
    <3>1. Len(runs[r].events) \in Nat
      BY <2>1 DEF RunState
    <3>2. IsFiniteSet(1 .. Len(runs[r].events))
      BY <3>1, FS_Interval
    <3>3. IsFiniteSet(Crashing(runs[r].events))
      BY <3>2, FS_Subset DEF Crashing
    <3> QED
      BY <3>3, FS_CardinalityType
  <2>3. CASE runs[r].status = "absent"
    <3>1. Entries(runs[r].ckpts, "restore") = {}
      BY <2>1, <2>3 DEF Account, NoRun, Entries
    <3> QED
      BY <2>2, <3>1, FS_EmptySet
  <2>4. CASE runs[r].status # "absent"
    <3>1. /\ task[r].recovered \subseteq Crashing(runs[r].events)
          /\ Cardinality(Entries(runs[r].ckpts, "restore")) = Cardinality(task[r].recovered)
      BY <2>1, <2>4 DEF Account, Charged
    <3> QED
      BY <2>2, <3>1, FS_Subset
  <2> QED
    BY <2>3, <2>4
<1> QED
  BY <1>1, SimInvariant, SimAccount, PTL

(* What a recovery says was lost is what was done since the last save       *)
(* before it in the log, and with checkpoints on less than one interval     *)
(* (runs.py:303-326).                                                       *)
THEOREM SimLostSinceSave == SimSpec => []LostSinceSave
<1>1. AccountInv => LostSinceSave
  <2> SUFFICES ASSUME AccountInv, NEW r \in RunIds, NEW k \in Positions(r, "restore")
               PROVE  LossIsTrue(runs[r].ckpts, k)
    BY PositionsAreEntries DEF LostSinceSave, LossIsTrue, Saved
  <2>1. Account(runs[r], task[r]) /\ k \in Entries(runs[r].ckpts, "restore")
    BY PositionsAreEntries DEF AccountInv
  <2>2. runs[r].status # "absent"
    BY <2>1 DEF Account, NoRun, Entries
  <2> QED
    BY <2>1, <2>2 DEF Account, Saving
<1> QED
  BY <1>1, SimAccount, PTL

(* By the time a task sleeps, every lasting crash that it could have read   *)
(* has been charged, wherever a thread injected it (runs.py:311-326).       *)
THEOREM SimLongFaultsCharged == SimSpec => []LongFaultsCharged
<1>1. AccountInv => LongFaultsCharged
  <2> SUFFICES ASSUME AccountInv, NEW r \in RunIds, At(r, "sleep"), Known(r),
                      NEW e \in PassedFaults(r),
                      runs[r].events[e].dur = Permanent \/ runs[r].events[e].dur > 2
               PROVE  e \in task[r].recovered
    BY DEF LongFaultsCharged
  <2>1. /\ task[r].pc = "sleep" /\ e \in 1 .. Len(runs[r].events)
        /\ Lasting(runs[r].events[e]) /\ runs[r].events[e].at + 2 <= task[r].i
    BY DEF At, PassedFaults, Lasting
  <2>2. Charged(runs[r].events, runs[r].ckpts, task[r]) /\ Caught(runs[r].events, task[r])
    BY DEF AccountInv, Account, Known
  <2>3. task[r].due = {}
    BY <2>1, <2>2 DEF Charged
  <2>4. e \in task[r].recovered \cup task[r].due
    BY <2>1, <2>2 DEF Caught, InLoop
  <2> QED
    BY <2>3, <2>4
<1> QED
  BY <1>1, SimAccount, PTL
=============================================================================
