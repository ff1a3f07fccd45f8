---------------------------- MODULE SimRunsProofs ----------------------------
(* Theorems about in-process simulations, for any number of runs, clients   *)
(* and steps: typing, the history a viewer reads, and the race between a    *)
(* stop and the end of a run.                                               *)
EXTENDS SimRuns, RunsStoreProofs, SequenceTheorems

-----------------------------------------------------------------------------
(* Typing.                                                                  *)

LEMMA NoTaskType == StoreAssumption => NoTask \in Task
  BY DEF StoreAssumption, NoTask, Task, TaskPcs

LEMMA MoveType ==
  ASSUME task \in [RunIds -> Task], NEW r \in RunIds, NEW t \in Task, Move(r, t)
  PROVE  task' \in [RunIds -> Task]
  BY DEF Move

LEMMA BecomeType ==
  ASSUME handler \in [Clients -> Handler], NEW c \in Clients, NEW h \in Handler, Become(c, h)
  PROVE  handler' \in [Clients -> Handler]
  BY DEF Become

(* The task's steps that only move it.                                      *)
LEMMA TaskPcType ==
  ASSUME task \in [RunIds -> Task], NEW r \in RunIds, NEW pc \in TaskPcs
  PROVE  [task[r] EXCEPT !.pc = pc] \in Task
  BY DEF Task

LEMMA NextPcType ==
  ASSUME NEW i, NEW due
  PROVE  AfterSave(due) \in TaskPcs /\ AfterContention(i, due) \in TaskPcs
  BY DEF AfterSave, AfterContention, TaskPcs, OnLoop

LEMMA DueType ==
  ASSUME StoreTypeOK, NEW r \in RunIds, NEW i
  PROVE  DueEvents(r, i) \in SUBSET Nat
  BY DEF DueEvents, StoreTypeOK, RunState

LEMMA TaskStepType ==
  ASSUME StoreAssumption, SimAssumption, SimTypeOK, NEW r \in RunIds, TaskStep(r)
  PROVE  SimTypeOK'
<1> USE DEF SimTypeOK
<1>1. /\ task[r] \in Task /\ task[r].i \in Nat /\ task[r].lastCkpt \in Nat
      /\ task[r].req.fabric \in Fabrics
      /\ task[r].due \in SUBSET Nat /\ task[r].recovered \in SUBSET Nat
  BY DEF Task
<1>2. {"top", "failed", "record", "cancelled", "pop", "done"} \subseteq TaskPcs
  BY DEF TaskPcs, OnLoop, Ended
<1>3. CASE BeginSimulation(r)
  <2>1. PICK now \in Now : Start(r, task[r].req.fabric, now)
    BY <1>3 DEF BeginSimulation
  <2>2. StoreTypeOK'
    BY <1>1, <2>1, StartType
  <2>3. [task[r] EXCEPT !.pc = "top", !.i = 1] \in Task
    BY <1>1, <1>2 DEF Task
  <2>4. QED BY <1>3, <2>2, <2>3, MoveType DEF BeginSimulation
<1>4. CASE EstimateFails(r)
  BY <1>2, <1>4, TaskPcType, MoveType DEF EstimateFails, StoreTypeOK
<1>5. CASE ReadEvents(r)
  <2> DEFINE due == DueEvents(r, task[r].i)
  <2>1. due \in SUBSET Nat
    BY DueType
  <2> DEFINE pc == IF Known(r) THEN "contend" ELSE AfterContention(task[r].i, due)
  <2>2. pc \in TaskPcs
    BY NextPcType DEF TaskPcs, OnLoop
  <2>3. Move(r, [task[r] EXCEPT !.due = due, !.pc = pc])
    BY <1>5 DEF ReadEvents
  <2> HIDE DEF due, pc
  <2>4. [task[r] EXCEPT !.due = due, !.pc = pc] \in Task
    BY <1>1, <2>1, <2>2 DEF Task
  <2>5. QED BY <1>5, <2>3, <2>4, MoveType DEF ReadEvents, StoreTypeOK
<1>6. CASE ShareFabric(r)
  BY <1>6, NextPcType, TaskPcType, MoveType DEF ShareFabric, StoreTypeOK
<1>7. CASE FabricFails(r)
  BY <1>2, <1>7, TaskPcType, MoveType DEF FabricFails, StoreTypeOK
<1>8. CASE SaveCheckpoint(r)
  <2>1. [kind |-> "save", step |-> task[r].i, lost |-> 0] \in CkptEvent
    BY <1>1 DEF CkptEvent
  <2>2. StoreTypeOK'
    BY <1>8, <2>1, AddCheckpointType DEF SaveCheckpoint
  <2>3. [task[r] EXCEPT !.lastCkpt = task[r].i, !.pc = AfterSave(task[r].due)] \in Task
    BY <1>1, NextPcType DEF Task
  <2>4. QED BY <1>8, <2>2, <2>3, MoveType DEF SaveCheckpoint
<1>9. CASE Recover(r)
  <2>1. PICK e \in task[r].due :
          /\ AddCheckpointEvent(r, [kind |-> "restore", step |-> task[r].i,
                                    lost |-> task[r].i - task[r].lastCkpt])
          /\ Move(r, [task[r] EXCEPT !.recovered = @ \cup {e}, !.due = @ \ {e},
                                     !.pc = AfterSave(task[r].due \ {e})])
    BY <1>9 DEF Recover
  <2>2. [kind |-> "restore", step |-> task[r].i, lost |-> task[r].i - task[r].lastCkpt]
          \in CkptEvent
    BY <1>1 DEF CkptEvent
  <2>3. StoreTypeOK'
    BY <2>1, <2>2, AddCheckpointType
  <2>4. AfterSave(task[r].due \ {e}) \in TaskPcs
    BY NextPcType
  <2>5. [task[r] EXCEPT !.recovered = @ \cup {e}, !.due = @ \ {e},
                        !.pc = AfterSave(task[r].due \ {e})] \in Task
    BY <1>1, <2>4 DEF Task
  <2>6. QED BY <1>9, <2>1, <2>3, <2>5, MoveType DEF Recover
<1>10. CASE Wake(r)
  BY <1>2, <1>10, TaskPcType, MoveType DEF Wake, StoreTypeOK
<1>11. CASE Cancelled(r)
  BY <1>2, <1>11, TaskPcType, MoveType DEF Cancelled, StoreTypeOK
<1>12. CASE RecordStep(r)
  <2>1. StoreTypeOK'
    BY <1>1, <1>12, AddStepType DEF RecordStep
  <2>2. [task[r] EXCEPT !.pc = "top", !.i = @ + 1] \in Task
    <3>1. task[r].i + 1 \in Nat
      BY <1>1
    <3> DEFINE next == task[r].i + 1
    <3> HIDE DEF next
    <3>2. [task[r] EXCEPT !.pc = "top", !.i = next] \in Task
      BY <1>1, <1>2, <3>1 DEF Task, next
    <3>3. QED BY <3>2 DEF next
  <2>3. QED BY <1>12, <2>1, <2>2, MoveType DEF RecordStep
<1>13. CASE FinishRun(r)
  <2>1. StoreTypeOK'
    BY <1>13, StatusType DEF FinishRun
  <2>2. QED BY <1>2, <1>13, <2>1, TaskPcType, MoveType DEF FinishRun
<1>14. CASE PopTask(r)
  BY <1>2, <1>14, TaskPcType, MoveType DEF PopTask, StoreTypeOK
<1>15. QED
  BY <1>3, <1>4, <1>5, <1>6, <1>7, <1>8, <1>9, <1>10, <1>11, <1>12, <1>13, <1>14 DEF TaskStep

(* What a handler in flight works on.                                       *)
LEMMA InFlight ==
  ASSUME handler \in [Clients -> Handler], NEW c \in Clients
  PROVE  /\ handler[c].pc \in {"simulate", "cancel", "stop", "inject"} => handler[c].run \in RunIds
         /\ handler[c].pc = "inject" => handler[c].inj \in Injections
  BY DEF Handler

LEMMA HandlerStepType ==
  ASSUME StoreAssumption, SimAssumption, SimTypeOK, NEW c \in Clients,
         HandlerStep(c) \/ \E r \in RunIds : NewRequest(c, r)
  PROVE  SimTypeOK'
<1> USE DEF SimTypeOK
<1>1. [pc |-> "idle"] \in Handler
  BY DEF Handler
<1>2. CASE SimulateAnswer(c)
  BY <1>1, <1>2, BecomeType DEF SimulateAnswer, Reply, StoreTypeOK
<1>3. CASE CancelTask(c)
  <2> DEFINE r == handler[c].run
             t == task[r]
  <2>1. r \in RunIds
    BY <1>3, InFlight DEF CancelTask
  <2>2. [t EXCEPT !.cancel = TRUE, !.cancelAt = t.i] \in Task
    <3>1. t \in Task
      BY <2>1
    <3> HIDE DEF t
    <3>2. t.i \in Nat
      BY <3>1 DEF Task
    <3>3. QED BY <3>1, <3>2 DEF Task
  <2>3. task' \in [RunIds -> Task]
    BY <1>3, <2>1, <2>2, MoveType DEF CancelTask
  <2>4. [pc |-> "stop", run |-> r] \in Handler
    BY <2>1 DEF Handler
  <2>5. QED BY <1>3, <2>3, <2>4, BecomeType DEF CancelTask, StoreTypeOK
<1>4. CASE StopAnswer(c)
  <2>1. handler[c].run \in RunIds
    BY <1>4, InFlight DEF StopAnswer
  <2>2. StoreTypeOK'
    BY <1>4, <2>1, StatusType DEF StopAnswer
  <2>3. QED BY <1>1, <1>4, <2>2, BecomeType DEF StopAnswer, Reply
<1>5. CASE InjectAnswer(c)
  <2>1. handler[c].run \in RunIds /\ handler[c].inj \in [kind : Kinds, dur : Nat]
    BY <1>5, InFlight DEF InjectAnswer, StoreAssumption
  <2>2. StoreTypeOK'
    BY <1>5, <2>1, InjectEventType DEF InjectAnswer, Permanent
  <2>3. QED BY <1>1, <1>5, <2>2, BecomeType DEF InjectAnswer, Reply
<1>6. CASE \E r \in RunIds : SimulateRequest(c, r)
  <2>1. PICK r \in RunIds : SimulateRequest(c, r)
    BY <1>6
  <2>2. PICK req \in Requests : Move(r, [NoTask EXCEPT !.pc = "begin", !.req = req])
    BY <2>1 DEF SimulateRequest
  <2>3. [NoTask EXCEPT !.pc = "begin", !.req = req] \in Task
    BY NoTaskType DEF Task, TaskPcs, SimAssumption
  <2>4. [pc |-> "simulate", run |-> r] \in Handler
    BY DEF Handler
  <2>5. QED BY <2>1, <2>2, <2>3, <2>4, MoveType, BecomeType DEF SimulateRequest, StoreTypeOK
<1>7. CASE \E r \in RunIds : StopRequest(c, r)
  <2>1. PICK r \in RunIds : StopRequest(c, r)
    BY <1>7
  <2>2. [pc |-> "cancel", run |-> r] \in Handler
    BY DEF Handler
  <2>3. QED BY <2>1, <2>2, BecomeType DEF StopRequest, StoreTypeOK
<1>8. CASE \E r \in RunIds : InjectRequest(c, r)
  <2>1. PICK r \in RunIds : InjectRequest(c, r)
    BY <1>8
  <2>2. PICK inj \in Injections : Become(c, [pc |-> "inject", run |-> r, inj |-> inj])
    BY <2>1 DEF InjectRequest
  <2>3. [pc |-> "inject", run |-> r, inj |-> inj] \in Handler
    BY DEF Handler
  <2>4. QED BY <2>1, <2>2, <2>3, BecomeType DEF InjectRequest, StoreTypeOK
<1>9. QED
  BY <1>2, <1>3, <1>4, <1>5, <1>6, <1>7, <1>8 DEF HandlerStep, NewRequest

(* Every run, task and request is well formed in every reachable state      *)
(* (runs_store.py:16-25, runs.py:46, 139-194, 249-373).                     *)
THEOREM SimTyped == SimSpec => []SimTypeOK
<1>1. SimInit => SimTypeOK
  <2> SUFFICES ASSUME SimInit PROVE SimTypeOK
    OBVIOUS
  <2>1. StoreTypeOK
    BY StoreAssumption, StoreInitType DEF SimInit
  <2>2. QED BY <2>1, StoreAssumption, NoTaskType DEF SimInit, SimTypeOK, Handler
<1>2. SimTypeOK /\ [SimNext]_simVars => SimTypeOK'
  <2> SUFFICES ASSUME SimTypeOK, [SimNext]_simVars PROVE SimTypeOK'
    OBVIOUS
  <2>1. CASE UNCHANGED simVars
    BY <2>1 DEF SimTypeOK, StoreTypeOK, simVars
  <2>2. CASE \E r \in RunIds : TaskStep(r)
    BY <2>2, StoreAssumption, SimAssumption, TaskStepType
  <2>3. CASE \E c \in Clients : HandlerStep(c) \/ \E r \in RunIds : NewRequest(c, r)
    BY <2>3, StoreAssumption, SimAssumption, HandlerStepType
  <2>4. QED BY <2>1, <2>2, <2>3 DEF SimNext
<1>3. QED BY <1>1, <1>2, PTL DEF SimSpec

-----------------------------------------------------------------------------
(* The inductive invariant.  A run is absent until its task has started;    *)
(* from then on the task's counter is ahead of the history by one, and a    *)
(* cancellation lets at most the step in hand through.                      *)

Started(r) == task[r].pc \notin {"none", "begin"}

RunInv(r) ==
  /\ ~Started(r) => runs[r].status = "absent" /\ ~task[r].cancel
  /\ Started(r) /\ Known(r) => task[r].i >= 1
  /\ Known(r) => runs[r].steps = Recorded(task[r].i - 1)
  /\ runs[r].status = "done" => task[r].i > TotalSteps
  /\ task[r].cancel => task[r].i <= task[r].cancelAt + 1
  /\ task[r].cancel /\ At(r, "record") => task[r].i <= task[r].cancelAt

CancelInv == \A c \in Clients : handler[c].pc = "cancel" => Started(handler[c].run)

SimInv == SimTypeOK /\ (\A r \in RunIds : RunInv(r)) /\ CancelInv

LEMMA RecordedType ==
  ASSUME StoreAssumption, NEW n \in Nat
  PROVE  LET first == IF n > MaxSteps THEN n - MaxSteps ELSE 0
         IN  /\ Recorded(n) \in Seq(Nat)
             /\ Len(Recorded(n)) = n - first
             /\ \A k \in 1 .. n - first : Recorded(n)[k] = first + k
<1> DEFINE first == IF n > MaxSteps THEN n - MaxSteps ELSE 0
           len   == n - first
<1>1. first \in Nat /\ len \in Nat
  BY DEF StoreAssumption
<1>2. Recorded(n) = [k \in 1 .. len |-> first + k]
  BY DEF Recorded
<1> HIDE DEF first
<1>3. [k \in 1 .. len |-> first + k] \in [1 .. len -> Nat]
  BY <1>1
<1>4. Recorded(n) \in Seq(Nat)
  BY <1>1, <1>2, <1>3, SeqDef
<1>5. Len(Recorded(n)) = len
  BY <1>1, <1>2, <1>3, <1>4, LenProperties
<1>6. QED BY <1>1, <1>2, <1>4, <1>5 DEF first

(* Step n + 1 after the history of steps 1 .. n.                            *)
LEMMA RecordedNext ==
  ASSUME StoreAssumption, NEW n \in Nat
  PROVE  LastOf(Append(Recorded(n), n + 1)) = Recorded(n + 1)
<1>1. MaxSteps \in Nat \ {0}
  BY DEF StoreAssumption
<1> DEFINE first(m) == IF m > MaxSteps THEN m - MaxSteps ELSE 0
           old == Recorded(n)
           s   == Append(old, n + 1)
           new == Recorded(n + 1)
<1>2. /\ old \in Seq(Nat) /\ Len(old) = n - first(n)
      /\ \A k \in 1 .. n - first(n) : old[k] = first(n) + k
  BY RecordedType
<1>3. /\ new \in Seq(Nat) /\ Len(new) = n + 1 - first(n + 1)
      /\ \A k \in 1 .. n + 1 - first(n + 1) : new[k] = first(n + 1) + k
  <2>1. n + 1 \in Nat
    OBVIOUS
  <2> DEFINE m == n + 1
  <2> HIDE DEF m
  <2>2. /\ Recorded(m) \in Seq(Nat) /\ Len(Recorded(m)) = m - first(m)
        /\ \A k \in 1 .. m - first(m) : Recorded(m)[k] = first(m) + k
    BY <2>1, RecordedType DEF m
  <2>3. QED BY <2>2 DEF m
<1> HIDE DEF old, new
<1>4. /\ s \in Seq(Nat) /\ Len(s) = n + 1 - first(n)
      /\ \A k \in 1 .. n + 1 - first(n) : s[k] = first(n) + k
  BY <1>1, <1>2
<1> HIDE DEF s
<1>5. CASE n < MaxSteps
  <2>1. first(n) = 0 /\ first(n + 1) = 0
    BY <1>1, <1>5
  <2>2. s = new
    <3>1. Len(s) = Len(new) /\ \A k \in 1 .. Len(s) : s[k] = new[k]
      BY <1>3, <1>4, <2>1
    <3>2. QED BY ONLY <1>3, <1>4, <3>1, SeqEqual
  <2>3. LastOf(s) = s
    BY <1>1, <1>4, <1>5, <2>1 DEF LastOf
  <2>4. QED BY <2>2, <2>3 DEF s, old, new
<1>6. CASE n >= MaxSteps
  <2> DEFINE t == SubSeq(s, 2, MaxSteps + 1)
  <2>1. first(n) = n - MaxSteps /\ first(n + 1) = n + 1 - MaxSteps
    BY <1>1, <1>6
  <2>2. Len(s) = MaxSteps + 1 /\ Len(new) = MaxSteps
    BY <1>1, <1>3, <1>4, <2>1
  <2>3. LastOf(s) = t
    BY <1>1, <2>2 DEF LastOf
  <2>4. \A k \in 2 .. MaxSteps + 1 : s[k] \in Nat
    BY <1>4, <2>2, ElementOfSeq
  <2>5. /\ t \in Seq(Nat) /\ Len(t) = MaxSteps
        /\ \A k \in 1 .. MaxSteps : t[k] = s[k + 1]
    BY <1>1, <2>4, SubSeqProperties
  <2> HIDE DEF t
  <2>6. \A k \in 1 .. MaxSteps : t[k] = new[k]
    <3> SUFFICES ASSUME NEW k \in 1 .. MaxSteps PROVE t[k] = new[k]
      OBVIOUS
    <3>1. t[k] = s[k + 1]
      BY <2>5
    <3>2. k + 1 \in 1 .. n + 1 - first(n) /\ k \in 1 .. n + 1 - first(n + 1)
      BY <1>1, <2>1
    <3>3. s[k + 1] = first(n) + (k + 1) /\ new[k] = first(n + 1) + k
      BY <1>3, <1>4, <3>2
    <3>4. QED BY <1>1, <2>1, <3>1, <3>3
  <2>7. t = new
    BY ONLY <1>3, <2>2, <2>5, <2>6, SeqEqual
  <2>8. QED BY <2>3, <2>7 DEF s, old, new
<1>7. QED BY <1>1, <1>5, <1>6

(* A run whose status and history stay, or that is evicted, keeps its part  *)
(* of the invariant when its task stays too.                                *)
LEMMA RunInvFrame ==
  ASSUME NEW k \in RunIds, RunInv(k), task'[k] = task[k],
         \/ runs'[k].status = runs[k].status /\ runs'[k].steps = runs[k].steps
         \/ runs'[k].status = "absent"
  PROVE  RunInv(k)'
  BY DEF RunInv, Started, Known, At

(* A task that only moves on from one position to another, other than to    *)
(* the start or to recording a step, keeps it as well.                      *)
LEMMA RunInvMove ==
  ASSUME NEW r \in RunIds, RunInv(r), Started(r),
         task'[r].pc \notin {"none", "begin", "record"},
         task'[r].i = task[r].i, task'[r].cancel = task[r].cancel,
         task'[r].cancelAt = task[r].cancelAt,
         runs'[r].steps = runs[r].steps,
         \/ runs'[r].status \in {runs[r].status, "absent"}
         \/ runs'[r].status = "done" /\ Known(r) /\ task[r].i > TotalSteps
  PROVE  RunInv(r)'
  BY DEF RunInv, Started, Known, At

LEMMA MoveOthers ==
  ASSUME SimTypeOK, NEW r \in RunIds, NEW t, Move(r, t)
  PROVE  task'[r] = t /\ \A k \in RunIds \ {r} : task'[k] = task[k]
  BY DEF Move, SimTypeOK

(* The fields of a task after an update of one or two of them.              *)
LEMMA TaskFields ==
  ASSUME NEW t \in Task
  PROVE  /\ \A pc : LET n == [t EXCEPT !.pc = pc]
                  IN  n.pc = pc /\ n.i = t.i /\ n.cancel = t.cancel /\ n.cancelAt = t.cancelAt
         /\ \A pc, i : LET n == [t EXCEPT !.pc = pc, !.i = i]
                     IN  n.pc = pc /\ n.i = i /\ n.cancel = t.cancel /\ n.cancelAt = t.cancelAt
         /\ \A pc, d : LET n == [t EXCEPT !.due = d, !.pc = pc]
                     IN  n.pc = pc /\ n.i = t.i /\ n.cancel = t.cancel /\ n.cancelAt = t.cancelAt
         /\ \A pc, l : LET n == [t EXCEPT !.lastCkpt = l, !.pc = pc]
                     IN  n.pc = pc /\ n.i = t.i /\ n.cancel = t.cancel /\ n.cancelAt = t.cancelAt
         /\ \A pc, v, d : LET n == [t EXCEPT !.recovered = v, !.due = d, !.pc = pc]
                        IN  n.pc = pc /\ n.i = t.i /\ n.cancel = t.cancel /\ n.cancelAt = t.cancelAt
  BY DEF Task

LEMMA NextPc ==
  ASSUME NEW i, NEW due
  PROVE  /\ AfterSave(due) \notin {"none", "begin", "record"}
         /\ AfterContention(i, due) \notin {"none", "begin", "record"}
  BY DEF AfterSave, AfterContention

(* A task that moves on within its loop, with what it calls of the store.   *)
LEMMA MoveKeeps ==
  ASSUME SimInv, NEW r \in RunIds, Started(r), NEW t, Move(r, t),
         t.pc \notin {"none", "begin", "record"},
         t.i = task[r].i, t.cancel = task[r].cancel, t.cancelAt = task[r].cancelAt,
         \A k \in RunIds \ {r} : runs'[k] = runs[k],
         runs'[r].steps = runs[r].steps,
         \/ runs'[r].status \in {runs[r].status, "absent"}
         \/ runs'[r].status = "done" /\ Known(r) /\ task[r].i > TotalSteps
  PROVE  (\A k \in RunIds : RunInv(k)') /\ Started(r)'
<1>1. task'[r] = t /\ \A k \in RunIds \ {r} : task'[k] = task[k]
  BY MoveOthers DEF SimInv
<1>2. RunInv(r)'
  BY <1>1, RunInvMove DEF SimInv
<1>3. \A k \in RunIds \ {r} : RunInv(k)'
  BY <1>1, RunInvFrame DEF SimInv
<1>4. Started(r)'
  BY <1>1 DEF Started
<1>5. QED BY <1>2, <1>3, <1>4

LEMMA TaskStepInv ==
  ASSUME StoreAssumption, SimAssumption, SimInv, NEW r \in RunIds, TaskStep(r)
  PROVE  (\A k \in RunIds : RunInv(k)') /\ Started(r)'
<1>1. SimTypeOK /\ StoreTypeOK /\ RunInv(r) /\ \A k \in RunIds : RunInv(k)
  BY DEF SimInv, SimTypeOK
<1>2. task[r] \in Task
  BY <1>1 DEF SimTypeOK
<1>3. /\ task[r].i \in Nat /\ task[r].cancelAt \in Nat
      /\ task[r].req.fabric \in Fabrics
  BY <1>2 DEF Task
<1>4. CASE BeginSimulation(r)
  <2>1. PICK now \in Now : Start(r, task[r].req.fabric, now)
    BY <1>4 DEF BeginSimulation
  <2>2. /\ Running(r)' /\ runs'[r].steps = <<>>
        /\ \A k \in RunIds \ {r} : runs'[k] = runs[k] \/ runs'[k] = NoRun
    BY <1>1, <1>3, <2>1, StartEffect
  <2>3. /\ task'[r] = [task[r] EXCEPT !.pc = "top", !.i = 1]
        /\ \A k \in RunIds \ {r} : task'[k] = task[k]
    BY <1>1, <1>4, MoveOthers DEF BeginSimulation
  <2>4. task'[r].pc = "top" /\ task'[r].i = 1 /\ task'[r].cancel = task[r].cancel
    BY <1>2, <2>3, TaskFields
  <2>5. ~task[r].cancel
    BY <1>1, <1>4 DEF RunInv, Started, BeginSimulation, At
  <2>6. Recorded(1 - 1) = <<>>
    <3>1. Recorded(0) \in Seq(Nat) /\ Len(Recorded(0)) = 0
      BY RecordedType DEF StoreAssumption
    <3>2. QED BY <3>1, EmptySeq
  <2>7. RunInv(r)' /\ Started(r)'
    BY <2>2, <2>4, <2>5, <2>6 DEF RunInv, Running, Known, Started, At
  <2>8. \A k \in RunIds \ {r} : RunInv(k)'
    BY <1>1, <2>2, <2>3, RunInvFrame DEF NoRun
  <2>9. QED BY <2>7, <2>8
<1>5. CASE EstimateFails(r)
  <2>1. /\ task'[r] = [task[r] EXCEPT !.pc = "failed"]
        /\ \A k \in RunIds \ {r} : task'[k] = task[k]
        /\ runs' = runs
    BY <1>1, <1>5, MoveOthers DEF EstimateFails
  <2>2. task'[r].pc = "failed" /\ task'[r].cancel = task[r].cancel
    BY <1>2, <2>1, TaskFields
  <2>3. ~task[r].cancel /\ runs[r].status = "absent"
    BY <1>1, <1>5 DEF RunInv, Started, EstimateFails, At
  <2>4. RunInv(r)' /\ Started(r)'
    BY <2>1, <2>2, <2>3 DEF RunInv, Known, Started, At
  <2>5. QED BY <1>1, <2>1, <2>4, RunInvFrame
<1>6. CASE ShareFabric(r) \/ FabricFails(r) \/ Cancelled(r) \/ PopTask(r)
  <2>1. PICK pc : /\ pc \notin {"none", "begin", "record"}
                  /\ Move(r, [task[r] EXCEPT !.pc = pc])
    BY <1>6, NextPc DEF ShareFabric, FabricFails, Cancelled, PopTask
  <2>2. runs' = runs /\ Started(r)
    BY <1>6 DEF ShareFabric, FabricFails, Cancelled, PopTask, At, Started
  <2> DEFINE t == [task[r] EXCEPT !.pc = pc]
  <2>3. /\ t.pc = pc
        /\ t.i = task[r].i /\ t.cancel = task[r].cancel /\ t.cancelAt = task[r].cancelAt
    BY <1>2, TaskFields
  <2>4. Move(r, t)
    BY <2>1
  <2> HIDE DEF t
  <2>5. QED BY <2>1, <2>2, <2>3, <2>4, MoveKeeps
<1>7. CASE ReadEvents(r)
  <2> DEFINE due == DueEvents(r, task[r].i)
             pc  == IF Known(r) THEN "contend" ELSE AfterContention(task[r].i, due)
  <2>1. Move(r, [task[r] EXCEPT !.due = due, !.pc = pc]) /\ runs' = runs /\ Started(r)
    BY <1>7 DEF ReadEvents, At, Started
  <2>2. pc \notin {"none", "begin", "record"}
    BY NextPc
  <2> HIDE DEF due, pc
  <2> DEFINE t == [task[r] EXCEPT !.due = due, !.pc = pc]
  <2>3. /\ t.pc = pc
        /\ t.i = task[r].i /\ t.cancel = task[r].cancel /\ t.cancelAt = task[r].cancelAt
    BY <1>2, TaskFields
  <2> HIDE DEF t
  <2>4. Move(r, t)
    BY <2>1 DEF t
  <2>5. QED BY <2>1, <2>2, <2>3, <2>4, MoveKeeps
<1>8. CASE SaveCheckpoint(r)
  <2> DEFINE pc == AfterSave(task[r].due)
  <2>1. Move(r, [task[r] EXCEPT !.lastCkpt = task[r].i, !.pc = pc]) /\ Started(r)
    BY <1>8 DEF SaveCheckpoint, At, Started
  <2>2. pc \notin {"none", "begin", "record"}
    BY NextPc
  <2>3. /\ \A k \in RunIds \ {r} : runs'[k] = runs[k]
        /\ runs'[r].status = runs[r].status
        /\ runs'[r].steps = runs[r].steps
    BY <1>1, <1>8, LogEffect DEF SaveCheckpoint
  <2> HIDE DEF pc
  <2> DEFINE t == [task[r] EXCEPT !.lastCkpt = task[r].i, !.pc = pc]
  <2>4. /\ t.pc = pc
        /\ t.i = task[r].i /\ t.cancel = task[r].cancel /\ t.cancelAt = task[r].cancelAt
    BY <1>2, TaskFields
  <2> HIDE DEF t
  <2>5. Move(r, t)
    BY <2>1 DEF t
  <2>6. QED BY <2>1, <2>2, <2>3, <2>4, <2>5, MoveKeeps
<1>9. CASE Recover(r)
  <2>1. PICK e :
          /\ AddCheckpointEvent(r, [kind |-> "restore", step |-> task[r].i,
                                    lost |-> task[r].i - task[r].lastCkpt])
          /\ Move(r, [task[r] EXCEPT !.recovered = @ \cup {e}, !.due = @ \ {e},
                                     !.pc = AfterSave(task[r].due \ {e})])
    BY <1>9 DEF Recover
  <2> DEFINE pc  == AfterSave(task[r].due \ {e})
             rec == task[r].recovered \cup {e}
             due == task[r].due \ {e}
  <2>2. Move(r, [task[r] EXCEPT !.recovered = rec, !.due = due, !.pc = pc]) /\ Started(r)
    BY <1>9, <2>1 DEF Recover, At, Started
  <2>3. pc \notin {"none", "begin", "record"}
    BY NextPc
  <2>4. /\ \A k \in RunIds \ {r} : runs'[k] = runs[k]
        /\ runs'[r].status = runs[r].status
        /\ runs'[r].steps = runs[r].steps
    BY <1>1, <2>1, LogEffect
  <2> HIDE DEF pc, rec, due
  <2> DEFINE t == [task[r] EXCEPT !.recovered = rec, !.due = due, !.pc = pc]
  <2>5. /\ t.pc = pc
        /\ t.i = task[r].i /\ t.cancel = task[r].cancel /\ t.cancelAt = task[r].cancelAt
    BY <1>2, TaskFields
  <2> HIDE DEF t
  <2>6. Move(r, t)
    BY <2>2 DEF t
  <2>7. QED BY <2>2, <2>3, <2>4, <2>5, <2>6, MoveKeeps
<1>10. CASE Wake(r)
  <2>1. /\ task'[r] = [task[r] EXCEPT !.pc = "record"]
        /\ \A k \in RunIds \ {r} : task'[k] = task[k]
        /\ runs' = runs
    BY <1>1, <1>10, MoveOthers DEF Wake
  <2>2. /\ task'[r].pc = "record" /\ task'[r].i = task[r].i
        /\ task'[r].cancel = task[r].cancel /\ task'[r].cancelAt = task[r].cancelAt
    BY <1>2, <2>1, TaskFields
  <2>3. ~task[r].cancel /\ Started(r)
    BY <1>10 DEF Wake, At, Started
  <2>4. RunInv(r)' /\ Started(r)'
    BY <1>1, <2>1, <2>2, <2>3 DEF RunInv, Known, Started, At
  <2>5. QED BY <1>1, <2>1, <2>4, RunInvFrame
<1>11. CASE RecordStep(r)
  <2> DEFINE next == task[r].i + 1
  <2>1. /\ task'[r] = [task[r] EXCEPT !.pc = "top", !.i = next]
        /\ \A k \in RunIds \ {r} : task'[k] = task[k]
    <3>1. Move(r, [task[r] EXCEPT !.pc = "top", !.i = next])
      BY <1>2, <1>11 DEF RecordStep, Task
    <3> HIDE DEF next
    <3>2. QED BY <1>1, <3>1, MoveOthers
  <2>2. /\ task'[r].pc = "top" /\ task'[r].i = next
        /\ task'[r].cancel = task[r].cancel /\ task'[r].cancelAt = task[r].cancelAt
    <3> HIDE DEF next
    <3>1. QED BY <1>2, <2>1, TaskFields
  <2>3. Started(r) /\ At(r, "record") /\ AddStep(r, task[r].i)
    BY <1>11 DEF RecordStep, At, Started
  <2>4. /\ \A k \in RunIds \ {r} : runs'[k] = runs[k]
        /\ runs'[r].status = runs[r].status
        /\ Known(r) => runs'[r].steps = LastOf(Append(runs[r].steps, task[r].i))
    BY <1>1, <2>3, AddStepEffect
  <2>5. Known(r) => runs'[r].steps = Recorded(next - 1)
    <3> SUFFICES ASSUME Known(r) PROVE runs'[r].steps = Recorded(next - 1)
      OBVIOUS
    <3> DEFINE n == task[r].i - 1
    <3>1. n \in Nat /\ n + 1 = task[r].i /\ next - 1 = n + 1
      BY <1>1, <1>3, <2>3 DEF RunInv
    <3>2. runs[r].steps = Recorded(n)
      BY <1>1 DEF RunInv
    <3> HIDE DEF n, next
    <3>3. LastOf(Append(Recorded(n), n + 1)) = Recorded(n + 1)
      BY <3>1, RecordedNext
    <3>4. QED BY <2>4, <3>1, <3>2, <3>3
  <2>6. /\ next >= 1
        /\ task[r].i > TotalSteps => next > TotalSteps
        /\ task[r].cancel => next <= task[r].cancelAt + 1
    BY <1>1, <1>3, <2>3, SimAssumption DEF RunInv, SimAssumption
  <2> HIDE DEF next
  <2>7. RunInv(r)' /\ Started(r)'
    BY <1>1, <2>2, <2>3, <2>4, <2>5, <2>6 DEF RunInv, Known, Started, At
  <2>8. QED BY <1>1, <2>1, <2>4, <2>7, RunInvFrame
<1>12. CASE FinishRun(r)
  <2>1. Move(r, [task[r] EXCEPT !.pc = "pop"]) /\ Started(r) /\ task[r].i > TotalSteps
    BY <1>12 DEF FinishRun, At, Started
  <2>2. /\ \A k \in RunIds \ {r} : runs'[k] = runs[k]
        /\ runs'[r].status = IF Known(r) THEN "done" ELSE "absent"
        /\ runs'[r].steps = runs[r].steps
    BY <1>1, <1>12, StatusEffect DEF FinishRun, Finish
  <2> DEFINE t == [task[r] EXCEPT !.pc = "pop"]
  <2>3. /\ t.pc = "pop"
        /\ t.i = task[r].i /\ t.cancel = task[r].cancel /\ t.cancelAt = task[r].cancelAt
    BY <1>2, TaskFields
  <2> HIDE DEF t
  <2>4. Move(r, t)
    BY <2>1 DEF t
  <2>5. QED BY <2>1, <2>2, <2>3, <2>4, MoveKeeps DEF Known
<1>13. QED
  BY <1>4, <1>5, <1>6, <1>7, <1>8, <1>9, <1>10, <1>11, <1>12 DEF TaskStep

(* A request leaves the tasks that have started where they are.             *)
LEMMA CancelInvFrame ==
  ASSUME SimInv, NEW c \in Clients, NEW h, Become(c, h),
         h.pc = "cancel" => task'[h.run].pc \notin {"none", "begin"},
         \A k \in RunIds : Started(k) => Started(k)'
  PROVE  CancelInv'
<1>1. handler \in [Clients -> Handler] /\ CancelInv
  BY DEF SimInv, SimTypeOK
<1>2. handler'[c] = h /\ \A d \in Clients \ {c} : handler'[d] = handler[d]
  BY <1>1 DEF Become
<1>3. \A d \in Clients : handler'[d].pc = "cancel" => task'[handler'[d].run].pc \notin {"none", "begin"}
  <2> SUFFICES ASSUME NEW d \in Clients, handler'[d].pc = "cancel"
               PROVE  task'[handler'[d].run].pc \notin {"none", "begin"}
    OBVIOUS
  <2>1. CASE d = c
    BY <1>2, <2>1
  <2>2. CASE d # c
    <3>1. handler'[d] = handler[d]
      BY <1>2, <2>2
    <3>2. handler[d].run \in RunIds /\ Started(handler[d].run)
      BY <1>1, <3>1, InFlight DEF CancelInv
    <3>3. QED BY <3>1, <3>2 DEF Started
  <2>3. QED BY <2>1, <2>2
<1>4. QED BY <1>3 DEF CancelInv, Started

(* The handlers that change neither the store's statuses and histories nor  *)
(* the tasks.                                                               *)
LEMMA QuietInv ==
  ASSUME SimInv, task' = task,
         \A k \in RunIds : \/ runs'[k].status = runs[k].status
                           \/ Known(k) /\ runs'[k].status = "stopped",
         \A k \in RunIds : runs'[k].steps = runs[k].steps
  PROVE  (\A k \in RunIds : RunInv(k)') /\ \A k \in RunIds : Started(k) => Started(k)'
  BY DEF SimInv, RunInv, Started, Known, At

LEMMA HandlerStepInv ==
  ASSUME StoreAssumption, SimAssumption, SimInv, NEW c \in Clients,
         HandlerStep(c) \/ \E r \in RunIds : NewRequest(c, r)
  PROVE  (\A k \in RunIds : RunInv(k)') /\ CancelInv'
<1>1. SimTypeOK /\ StoreTypeOK /\ CancelInv /\ \A k \in RunIds : RunInv(k)
  BY DEF SimInv, SimTypeOK
<1>2. handler \in [Clients -> Handler]
  BY <1>1 DEF SimTypeOK
<1>3. \A p, k : /\ [pc |-> p].pc = p
               /\ [pc |-> p, run |-> k].pc = p
               /\ [pc |-> p, run |-> k].run = k
  OBVIOUS
<1>4. CASE SimulateAnswer(c)
  BY <1>3, <1>4, QuietInv, CancelInvFrame DEF SimulateAnswer, Reply
<1>5. CASE CancelTask(c)
  <2>1. PICK r \in RunIds : r = handler[c].run /\ Started(r)
    BY <1>1, <1>2, <1>5, InFlight DEF CancelTask, CancelInv
  <2> DEFINE t == [task[r] EXCEPT !.cancel = TRUE, !.cancelAt = task[r].i]
  <2>2. /\ Move(r, t) \/ task' = task
        /\ runs' = runs
        /\ Become(c, [pc |-> "stop", run |-> r])
    BY <1>5, <2>1 DEF CancelTask
  <2>3. task[r] \in Task /\ task[r].i \in Nat
    BY <1>1, <2>1 DEF SimTypeOK, Task
  <2>4. t.pc = task[r].pc /\ t.i = task[r].i /\ t.cancelAt = task[r].i
    BY <2>3 DEF Task
  <2>5. CASE Move(r, t)
    <3> HIDE DEF t
    <3>1. task'[r] = t /\ \A k \in RunIds \ {r} : task'[k] = task[k]
      BY <1>1, <2>1, <2>5, MoveOthers
    <3>2. RunInv(r)'
      BY <1>1, <2>1, <2>2, <2>3, <2>4, <3>1 DEF RunInv, Started, Known, At
    <3>3. \A k \in RunIds : RunInv(k)'
      BY <1>1, <2>2, <3>1, <3>2, RunInvFrame
    <3>4. \A k \in RunIds : Started(k) => Started(k)'
      BY <2>4, <3>1 DEF Started
    <3>5. QED BY <1>3, <2>2, <3>3, <3>4, CancelInvFrame
  <2>6. CASE task' = task
    BY <1>3, <2>2, <2>6, QuietInv, CancelInvFrame
  <2>7. QED BY <2>2, <2>5, <2>6
<1>6. CASE StopAnswer(c)
  <2>1. handler[c].run \in RunIds
    BY <1>2, <1>6, InFlight DEF StopAnswer
  <2>2. /\ \A k \in RunIds \ {handler[c].run} : runs'[k] = runs[k]
        /\ runs'[handler[c].run].status = IF Known(handler[c].run) THEN "stopped" ELSE "absent"
        /\ runs'[handler[c].run].steps = runs[handler[c].run].steps
    BY <1>1, <1>6, <2>1, StatusEffect DEF StopAnswer, Stop
  <2>3. task' = task /\ Become(c, [pc |-> "idle"])
    BY <1>6 DEF StopAnswer, Reply
  <2>4. (\A k \in RunIds : RunInv(k)') /\ \A k \in RunIds : Started(k) => Started(k)'
    BY <2>1, <2>2, <2>3, QuietInv DEF Known
  <2>5. QED BY <1>3, <2>3, <2>4, CancelInvFrame
<1>7. CASE InjectAnswer(c)
  <2>1. handler[c].run \in RunIds
    BY <1>2, <1>7, InFlight DEF InjectAnswer
  <2>2. /\ \A k \in RunIds \ {handler[c].run} : runs'[k] = runs[k]
        /\ runs'[handler[c].run].status = runs[handler[c].run].status
        /\ runs'[handler[c].run].steps = runs[handler[c].run].steps
    BY <1>1, <1>7, <2>1, LogEffect DEF InjectAnswer
  <2>3. task' = task /\ Become(c, [pc |-> "idle"])
    BY <1>7 DEF InjectAnswer, Reply
  <2>4. (\A k \in RunIds : RunInv(k)') /\ \A k \in RunIds : Started(k) => Started(k)'
    BY <2>2, <2>3, QuietInv
  <2>5. QED BY <1>3, <2>3, <2>4, CancelInvFrame
<1>8. CASE \E r \in RunIds : SimulateRequest(c, r)
  <2>1. PICK r \in RunIds : SimulateRequest(c, r)
    BY <1>8
  <2>2. PICK req : Move(r, [NoTask EXCEPT !.pc = "begin", !.req = req])
    BY <2>1 DEF SimulateRequest
  <2>3. /\ task'[r] = [NoTask EXCEPT !.pc = "begin", !.req = req]
        /\ \A k \in RunIds \ {r} : task'[k] = task[k]
    BY <1>1, <2>2, MoveOthers
  <2>4. task'[r].pc = "begin" /\ ~task'[r].cancel
    BY <2>3 DEF NoTask
  <2>5. /\ runs' = runs /\ ~Started(r)
        /\ Become(c, [pc |-> "simulate", run |-> r])
    BY <2>1 DEF SimulateRequest, At, Started
  <2>6. RunInv(r)'
    BY <1>1, <2>4, <2>5 DEF RunInv, Started, Known, At
  <2>7. \A k \in RunIds : RunInv(k)'
    BY <1>1, <2>3, <2>5, <2>6, RunInvFrame
  <2>8. \A k \in RunIds : Started(k) => Started(k)'
    BY <2>3, <2>5 DEF Started
  <2>9. QED BY <1>3, <2>5, <2>7, <2>8, CancelInvFrame
<1>9. CASE \E r \in RunIds : StopRequest(c, r)
  <2>1. PICK r \in RunIds : StopRequest(c, r)
    BY <1>9
  <2>2. /\ task' = task /\ runs' = runs
        /\ Become(c, [pc |-> "cancel", run |-> r])
    BY <2>1 DEF StopRequest
  <2>3. Started(r)
    BY <1>1, <2>1 DEF StopRequest, Running, RunInv
  <2>4. (\A k \in RunIds : RunInv(k)') /\ \A k \in RunIds : Started(k) => Started(k)'
    BY <2>2, QuietInv
  <2>5. QED BY <1>3, <2>2, <2>3, <2>4, CancelInvFrame DEF Started
<1>10. CASE \E r \in RunIds : InjectRequest(c, r)
  <2>1. PICK r \in RunIds, inj \in Injections :
          Become(c, [pc |-> "inject", run |-> r, inj |-> inj]) /\ task' = task /\ runs' = runs
    BY <1>10 DEF InjectRequest
  <2>2. [pc |-> "inject", run |-> r, inj |-> inj].pc # "cancel"
    OBVIOUS
  <2>3. QED BY <2>1, <2>2, QuietInv, CancelInvFrame
<1>11. QED
  BY <1>4, <1>5, <1>6, <1>7, <1>8, <1>9, <1>10 DEF HandlerStep, NewRequest

LEMMA TaskKeepsHandlers ==
  ASSUME NEW r \in RunIds, TaskStep(r)
  PROVE  handler' = handler /\ \E t : Move(r, t)
  BY DEF TaskStep, BeginSimulation, EstimateFails, ReadEvents, ShareFabric, FabricFails,
         SaveCheckpoint, Recover, Wake, Cancelled, RecordStep, FinishRun, PopTask

LEMMA SimInvariant == SimSpec => []SimInv
<1>1. SimInit => (\A r \in RunIds : RunInv(r)) /\ CancelInv
  BY DEF SimInit, StoreInit, NoRun, NoTask, RunInv, CancelInv, Started, Known, At
<1>2. SimInv /\ SimTypeOK' /\ [SimNext]_simVars => SimInv'
  <2> SUFFICES ASSUME SimInv, [SimNext]_simVars
               PROVE  (\A k \in RunIds : RunInv(k)') /\ CancelInv'
    BY DEF SimInv
  <2>1. CASE UNCHANGED simVars
    BY <2>1 DEF SimInv, simVars, RunInv, CancelInv, Started, Known, At
  <2>2. CASE \E r \in RunIds : TaskStep(r)
    <3>1. PICK r \in RunIds : TaskStep(r)
      BY <2>2
    <3>2. (\A k \in RunIds : RunInv(k)') /\ Started(r)'
      BY <3>1, StoreAssumption, SimAssumption, TaskStepInv
    <3>3. handler' = handler /\ \E t : Move(r, t)
      BY <3>1, TaskKeepsHandlers
    <3>4. \A k \in RunIds : Started(k) => Started(k)'
      BY <3>2, <3>3 DEF Move, Started, SimInv, SimTypeOK
    <3>5. CancelInv'
      BY <3>3, <3>4, InFlight DEF SimInv, SimTypeOK, CancelInv, Started
    <3>6. QED BY <3>2, <3>5
  <2>3. CASE \E c \in Clients : HandlerStep(c) \/ \E r \in RunIds : NewRequest(c, r)
    BY <2>3, StoreAssumption, SimAssumption, HandlerStepInv
  <2>4. QED BY <2>1, <2>2, <2>3 DEF SimNext
<1>3. QED BY <1>1, <1>2, SimTyped, PTL DEF SimSpec, SimInv

(* For any number of runs, clients and steps, a run in the store shows      *)
(* exactly the last max_steps_per_run steps its task went through, however  *)
(* threads and other tasks interleave (runs.py:283-338, runs_store.py:45).  *)
THEOREM SimHistoryComplete == SimSpec => []HistoryComplete
<1>1. SimInv => HistoryComplete
  BY DEF SimInv, RunInv, HistoryComplete
<1>2. QED BY <1>1, SimInvariant, PTL

(* A run is reported done only after all its steps, whenever it is stopped  *)
(* (runs.py:339-350).                                                       *)
THEOREM SimDoneMeansAllSteps == SimSpec => []DoneMeansAllSteps
<1>1. SimInv => DoneMeansAllSteps
  BY DEF SimInv, RunInv, DoneMeansAllSteps
<1>2. QED BY <1>1, SimInvariant, PTL

(* A stop lets at most one more step through (runs.py:147-150, 328-340).    *)
THEOREM SimStopBoundsProgress == SimSpec => []StopBoundsProgress
<1>1. SimInv => StopBoundsProgress
  BY DEF SimInv, RunInv, StopBoundsProgress
<1>2. QED BY <1>1, SimInvariant, PTL
=============================================================================
