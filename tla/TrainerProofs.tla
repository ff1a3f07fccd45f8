----------------------------- MODULE TrainerProofs -----------------------------
(* A trainer Job does what RunLife promises the viewers of its run, and no  *)
(* run is shown as stopped before its Job is deleted: for any number of     *)
(* runs and steps, and any losses, delays, deaths and restarts.  A run that *)
(* none of these touched ends as done or stopped, with its last steps.      *)
EXTENDS TrainerJob, RunsStoreProofs

TrainerTyped ==
  /\ StoreTypeOK
  /\ trainer \in [RunIds -> Trainer]
  /\ wire \subseteq Post
  /\ job \in [RunIds -> {"none", "active", "deleted"}]
  /\ stopping \in [RunIds -> {"idle", "delete", "mark"}]

(* A run is posted once, by a trainer that has only just begun.             *)
RunInv(r) ==
  /\ Known(r) => ~ToStart(r)
  /\ trainer[r].pc \in {"none", "start"} => ~StartOnWire(r)
  /\ job[r] = "none" => trainer[r].pc = "none"
  /\ stopping[r] = "mark" => job[r] = "deleted"
  /\ runs[r].status = "stopped" => job[r] = "deleted"

StartsAreFirst == \A p \in wire : p.path = "start" => p.step = 0

TrainerInv == TrainerTyped /\ StartsAreFirst /\ \A r \in RunIds : RunInv(r)

(* What may become of a run in one step.                                    *)
Changes(k) ==
  /\ ToStart(k)' => ToStart(k)
  /\ \/ runs'[k].status = runs[k].status
     \/ Known(k) /\ runs'[k].status \in {"stopped", "done", "absent"}
     \/ ToStart(k) /\ runs'[k].status = "running"

Keeps == TrainerInv' /\ \A k \in RunIds : Changes(k)

LEMMA ChangesAreMoves ==
  ASSUME TrainerInv, \A k \in RunIds : Changes(k)
  PROVE  Life!LifeNext
<1>1. \A k \in RunIds : runs[k].status \in {"absent", "running", "stopped", "done"}
  BY DEF TrainerInv, TrainerTyped, StoreTypeOK, RunState, Statuses
<1>2. \A k \in RunIds : Known(k) => ~ToStart(k)
  BY DEF TrainerInv, RunInv
<1>3. ASSUME NEW k \in RunIds
      PROVE  viewed'[k] \in Life!Lives /\ (viewed'[k] # viewed[k] => <<viewed[k], viewed'[k]>> \in Life!Moves)
  <2>1. /\ viewed[k] = IF Known(k) THEN runs[k].status ELSE IF ToStart(k) THEN "unknown" ELSE "gone"
        /\ viewed'[k] = IF Known(k)' THEN runs'[k].status ELSE IF ToStart(k)' THEN "unknown" ELSE "gone"
    BY DEF viewed
  <2>2. ToStart(k)' => ToStart(k)
    BY DEF Changes
  <2>3. CASE runs'[k].status = runs[k].status
    BY <1>1, <1>2, <2>1, <2>2, <2>3 DEF Known, Life!Lives, Life!Moves
  <2>4. CASE Known(k) /\ runs'[k].status \in {"stopped", "done", "absent"}
    BY <1>1, <1>2, <2>1, <2>2, <2>4 DEF Known, Life!Lives, Life!Moves
  <2>5. CASE ToStart(k) /\ runs'[k].status = "running"
    BY <1>2, <2>1, <2>5 DEF Known, Life!Lives, Life!Moves
  <2> QED
    BY <2>3, <2>4, <2>5 DEF Changes
<1>4. viewed' \in [RunIds -> Life!Lives]
  BY <1>3 DEF viewed
<1> QED
  BY <1>3, <1>4 DEF Life!LifeNext

-----------------------------------------------------------------------------
(* The trainer's own steps leave the store alone.                           *)
LEMMA AfterAwait == ASSUME NEW t \in Trainer, t.pc = "await"
                    PROVE  GoesOn(t) \in Trainer /\ GoesOn(t).pc \notin {"none", "start"}
  BY DEF Trainer, GoesOn

LEMMA LaunchKeeps == ASSUME TrainerInv, NEW r \in RunIds, LaunchJob(r) PROVE Keeps
<1> USE DEF TrainerInv, TrainerTyped
<1>1. /\ trainer' = [trainer EXCEPT ![r] = [trainer[r] EXCEPT !.pc = "start"]]
      /\ job[r] = "none" /\ job' = [job EXCEPT ![r] = "active"]
      /\ UNCHANGED <<runs, clock, wire, stopping>>
  BY DEF LaunchJob, Store
<1>2. [trainer[r] EXCEPT !.pc = "start"] \in Trainer /\ [trainer[r] EXCEPT !.pc = "start"].pc = "start"
  BY DEF Trainer
<1>3. trainer[r].pc = "none"
  BY <1>1 DEF RunInv
<1>4. TrainerTyped' /\ StartsAreFirst'
  BY <1>1, <1>2 DEF StoreTypeOK, StartsAreFirst
<1>5. ASSUME NEW k \in RunIds PROVE RunInv(k)' /\ Changes(k)
  <2>1. RunInv(k) /\ (StartOnWire(k)' <=> StartOnWire(k)) /\ (Known(k)' <=> Known(k))
    BY <1>1 DEF StartOnWire, Known
  <2>2. k # r => trainer'[k] = trainer[k] /\ job'[k] = job[k]
    BY <1>1
  <2>3. trainer'[r].pc = "start" /\ job'[r] = "active"
    BY <1>1, <1>2
  <2> QED
    BY <1>1, <1>3, <2>1, <2>2, <2>3 DEF RunInv, ToStart, Changes, Known
<1> QED
  BY <1>4, <1>5 DEF Keeps

LEMMA PostKeeps == ASSUME TrainerAssumption, TrainerInv, NEW r \in RunIds, TrainerStep(r) PROVE Keeps
<1> USE DEF TrainerInv, TrainerTyped
<1>1. PICK path \in {"start", "step", "done"}, n \in 0 .. TotalSteps :
        /\ Send(r, path, n)
        /\ path = "start" => n = 0 /\ trainer[r].pc = "start"
        /\ path # "start" => trainer[r].pc = "steps"
  <2>1. trainer[r].step \in 0 .. TotalSteps
    BY DEF Trainer
  <2>2. CASE PostStart(r)
    BY <2>2 DEF PostStart, TrainerAssumption
  <2>3. CASE PostStep(r)
    <3>1. trainer[r].step + 1 \in 0 .. TotalSteps
      BY <2>1, <2>3 DEF PostStep, TrainerAssumption
    <3> QED
      BY <2>3, <3>1 DEF PostStep
  <2>4. CASE PostDone(r)
    BY <2>4 DEF PostDone, TrainerAssumption
  <2> QED
    BY <2>2, <2>3, <2>4 DEF TrainerStep
<1> DEFINE t == [pc |-> "await", step |-> n, await |-> path]
           p == [run |-> r, path |-> path, step |-> n]
<1>2. /\ trainer' = [trainer EXCEPT ![r] = t] /\ wire' = wire \cup {p}
      /\ UNCHANGED <<runs, clock, job, stopping>>
  BY <1>1 DEF Send, Store
<1>3. t \in Trainer /\ t.pc = "await" /\ p \in Post /\ p.run = r /\ p.path = path /\ p.step = n
  BY DEF Trainer, Post
<1> HIDE DEF t, p
<1>4. TrainerTyped' /\ StartsAreFirst'
  BY <1>1, <1>2, <1>3 DEF StoreTypeOK, StartsAreFirst
<1>5. ASSUME NEW k \in RunIds PROVE RunInv(k)' /\ Changes(k)
  <2>1. RunInv(k) /\ (Known(k)' <=> Known(k))
    BY <1>2 DEF Known
  <2>2. CASE k # r
    <3>1. trainer'[k] = trainer[k] /\ (StartOnWire(k)' <=> StartOnWire(k))
      BY <1>2, <1>3, <2>2 DEF StartOnWire
    <3> QED
      BY <1>2, <2>1, <3>1 DEF RunInv, ToStart, Changes, Known
  <2>3. CASE k = r
    <3>1. trainer'[r].pc = "await"
      BY <1>2, <1>3
    <3>2. StartOnWire(r)' => StartOnWire(r) \/ trainer[r].pc = "start"
      BY <1>1, <1>2, <1>3 DEF StartOnWire
    <3>3. trainer[r].pc \in {"start", "steps"}
      BY <1>1
    <3> QED
      BY <1>2, <2>1, <2>3, <3>1, <3>2, <3>3 DEF RunInv, ToStart, Changes, Known
  <2> QED
    BY <2>2, <2>3
<1> QED
  BY <1>4, <1>5 DEF Keeps

(* A trainer that goes on without an answer, or dies; a post that is lost.  *)
LEMMA WaitEnds ==
  ASSUME TrainerInv, NEW r \in RunIds, wire' \subseteq wire,
         \/ trainer' = trainer
         \/ \E t \in Trainer : t.pc \notin {"none", "start"} /\ trainer[r].pc # "none" /\ trainer' = [trainer EXCEPT ![r] = t],
         UNCHANGED <<runs, clock, job, stopping>>
  PROVE  Keeps
<1> USE DEF TrainerInv, TrainerTyped
<1>1. TrainerTyped' /\ StartsAreFirst'
  BY DEF StoreTypeOK, StartsAreFirst
<1>2. ASSUME NEW k \in RunIds PROVE RunInv(k)' /\ Changes(k)
  <2>1. RunInv(k) /\ (Known(k)' <=> Known(k)) /\ (StartOnWire(k)' => StartOnWire(k))
    BY DEF Known, StartOnWire
  <2>2. trainer'[k] = trainer[k] \/ (trainer'[k].pc \notin {"none", "start"} /\ trainer[k].pc # "none")
    <3>1. CASE trainer' = trainer
      BY <3>1
    <3>2. ASSUME NEW t \in Trainer, t.pc \notin {"none", "start"}, trainer[r].pc # "none",
                 trainer' = [trainer EXCEPT ![r] = t]
          PROVE  trainer'[k] = trainer[k] \/ (trainer'[k].pc \notin {"none", "start"} /\ trainer[k].pc # "none")
      BY <3>2
    <3> QED
      BY <3>1, <3>2
  <2> QED
    BY <2>1, <2>2 DEF RunInv, ToStart, Changes, Known
<1> QED
  BY <1>1, <1>2 DEF Keeps

LEMMA FaultsKeep ==
  ASSUME TrainerInv, (\E r \in RunIds : PodEnds(r)) \/ \E p \in Post : Lose(p) \/ GiveUp(p)
  PROVE  Keeps
<1> USE DEF TrainerInv, TrainerTyped
<1>1. ASSUME NEW r \in RunIds, PodEnds(r) PROVE Keeps
  <2> DEFINE t == [trainer[r] EXCEPT !.pc = "over", !.await = "none"]
  <2>1. t \in Trainer /\ t.pc = "over"
    BY DEF Trainer
  <2>2. trainer' = [trainer EXCEPT ![r] = t] /\ trainer[r].pc # "none" /\ UNCHANGED <<runs, clock, wire, job, stopping>>
    BY <1>1 DEF PodEnds, Store
  <2> HIDE DEF t
  <2> QED
    BY <2>1, <2>2, WaitEnds
<1>2. ASSUME NEW p \in Post, Lose(p) \/ GiveUp(p) PROVE Keeps
  <2>1. p.run \in RunIds
    BY DEF Post
  <2>2. /\ wire' \subseteq wire /\ UNCHANGED <<runs, clock, job, stopping>>
        /\ trainer' = trainer \/ (Awaits(p) /\ trainer' = [trainer EXCEPT ![p.run] = GoesOn(trainer[p.run])])
    <3>1. CASE Lose(p)
      BY <3>1 DEF Lose, Store
    <3>2. CASE GiveUp(p)
      BY <3>2 DEF GiveUp, Store
    <3> QED
      BY <1>2, <3>1, <3>2
  <2> QED
    BY <2>1, <2>2, AfterAwait, WaitEnds DEF Awaits
<1> QED
  BY <1>1, <1>2

-----------------------------------------------------------------------------
(* Stopping: the mark comes after the deletion.                             *)
LEMMA StopKeeps ==
  ASSUME TrainerInv, NEW r \in RunIds, StopLooksUp(r) \/ DeleteJob(r) \/ DeleteFails(r) \/ MarkStopped(r)
  PROVE  Keeps
<1> USE DEF TrainerInv, TrainerTyped
<1>1. UNCHANGED <<trainer, wire>>
  BY DEF StopLooksUp, DeleteJob, DeleteFails, MarkStopped
<1>2. StartsAreFirst' /\ \A k \in RunIds : (ToStart(k)' <=> ToStart(k)) /\ (StartOnWire(k)' <=> StartOnWire(k))
  BY <1>1 DEF StartsAreFirst, ToStart, StartOnWire
<1>3. CASE StopLooksUp(r) \/ DeleteJob(r) \/ DeleteFails(r)
  <2>1. UNCHANGED <<runs, clock>>
    BY <1>3 DEF StopLooksUp, DeleteJob, DeleteFails, Store
  <2>2. /\ job' = job \/ job' = [job EXCEPT ![r] = "deleted"]
        /\ \E s \in {"idle", "delete", "mark"} :
             stopping' = [stopping EXCEPT ![r] = s] /\ (s = "mark" => job' = [job EXCEPT ![r] = "deleted"])
    BY <1>3 DEF StopLooksUp, DeleteJob, DeleteFails
  <2>3. TrainerTyped'
    BY <1>1, <2>1, <2>2 DEF StoreTypeOK
  <2>4. ASSUME NEW k \in RunIds PROVE RunInv(k)' /\ Changes(k)
    <3>1. RunInv(k) /\ (job'[k] = job[k] \/ job'[k] = "deleted")
      BY <2>2
    <3>2. stopping'[k] = stopping[k] \/ stopping'[k] # "mark" \/ job'[k] = "deleted"
      BY <2>2
    <3> QED
      BY <1>1, <1>2, <2>1, <3>1, <3>2 DEF RunInv, Changes, Known
  <2> QED
    BY <1>2, <2>3, <2>4 DEF Keeps
<1>4. CASE MarkStopped(r)
  <2>1. /\ Stop(r) /\ stopping[r] = "mark" /\ UNCHANGED job
        /\ stopping' = [stopping EXCEPT ![r] = "idle"]
    BY <1>4 DEF MarkStopped
  <2>2. TrainerTyped'
    BY <1>1, <2>1, StatusType
  <2>3. /\ \A k \in RunIds \ {r} : runs'[k] = runs[k]
        /\ runs'[r].status = IF Known(r) THEN "stopped" ELSE "absent"
    BY <2>1, StatusEffect DEF Stop
  <2>4. ASSUME NEW k \in RunIds PROVE RunInv(k)' /\ Changes(k)
    <3>1. RunInv(k) /\ job[r] = "deleted"
      BY <2>1 DEF RunInv
    <3>2. stopping'[k] # "mark" \/ stopping'[k] = stopping[k]
      BY <2>1
    <3> QED
      BY <1>1, <1>2, <2>1, <2>3, <3>1, <3>2 DEF RunInv, Changes, Known
  <2> QED
    BY <1>2, <2>2, <2>4 DEF Keeps
<1> QED
  BY <1>3, <1>4

-----------------------------------------------------------------------------
(* A post that is handled: the trainer goes on if it waits for it, and only *)
(* a start makes a run known, once.                                         *)
LEMMA HandleKeeps ==
  ASSUME StoreAssumption, TrainerAssumption, TrainerInv, NEW p \in Post, Handle(p)
  PROVE  Keeps
<1> USE DEF TrainerInv, TrainerTyped
<1>1. /\ p \in wire /\ p.run \in RunIds /\ p.step \in Nat
      /\ wire' = wire \ {p} /\ UNCHANGED <<job, stopping>>
      /\ trainer' = trainer \/ (Awaits(p) /\ trainer' = [trainer EXCEPT ![p.run] = GoesOn(trainer[p.run])])
  BY DEF Handle, Post, TrainerAssumption
<1>2. /\ trainer' \in [RunIds -> Trainer]
      /\ \A k \in RunIds : /\ trainer'[k].pc \in {"none", "start"} => trainer[k].pc \in {"none", "start"}
                           /\ trainer[k].pc = "none" => trainer'[k].pc = "none"
  <2>1. CASE trainer' = trainer
    BY <2>1
  <2>2. CASE Awaits(p) /\ trainer' = [trainer EXCEPT ![p.run] = GoesOn(trainer[p.run])]
    <3> DEFINE t == GoesOn(trainer[p.run])
    <3>1. t \in Trainer /\ t.pc \notin {"none", "start"} /\ trainer[p.run].pc = "await"
      BY <1>1, <2>2, AfterAwait DEF Awaits
    <3>2. trainer' = [trainer EXCEPT ![p.run] = t]
      BY <2>2
    <3> HIDE DEF t
    <3> QED
      BY <1>1, <3>1, <3>2
  <2> QED
    BY <1>1, <2>1, <2>2
<1>3. StartsAreFirst' /\ \A k \in RunIds : (ToStart(k)' => ToStart(k)) /\ (StartOnWire(k)' => StartOnWire(k))
  BY <1>1, <1>2 DEF StartsAreFirst, ToStart, StartOnWire
<1>4. CASE p.path = "start"
  <2>1. PICK now \in Now : Start(p.run, NoFabric, now)
    BY <1>4 DEF Handle
  <2>2. StoreTypeOK' /\ Running(p.run)' /\ \A k \in RunIds \ {p.run} : runs'[k] = runs[k] \/ runs'[k] = NoRun
    BY <1>1, <2>1, StartType, StartEffect DEF StoreAssumption
  <2>3. TrainerTyped'
    BY <1>1, <1>2, <2>2
  <2>4. ~ToStart(p.run)' /\ ToStart(p.run)
    <3>1. StartOnWire(p.run)
      BY <1>1, <1>4 DEF StartOnWire
    <3>2. trainer[p.run].pc \notin {"none", "start"}
      BY <1>1, <3>1 DEF RunInv
    <3>3. ASSUME NEW q \in wire, q.run = p.run, q.path = "start" PROVE q = p
      BY <1>1, <1>4, <3>3 DEF StartsAreFirst, Post
    <3> QED
      BY <1>1, <1>2, <3>1, <3>2, <3>3 DEF ToStart, StartOnWire
  <2>5. ASSUME NEW k \in RunIds PROVE RunInv(k)' /\ Changes(k)
    <3>1. RunInv(k)
      OBVIOUS
    <3>2. CASE k = p.run
      BY <1>1, <1>2, <1>3, <2>2, <2>4, <3>1, <3>2 DEF RunInv, Changes, Running, Known, ToStart
    <3>3. CASE runs'[k] = runs[k]
      BY <1>1, <1>2, <1>3, <3>1, <3>3 DEF RunInv, Changes, Known
    <3>4. CASE runs'[k] = NoRun
      BY <1>1, <1>2, <1>3, <3>1, <3>4 DEF RunInv, Changes, Known, NoRun
    <3> QED
      BY <2>2, <3>2, <3>3, <3>4
  <2> QED
    BY <1>3, <2>3, <2>5 DEF Keeps
<1>5. CASE p.path # "start"
  <2>1. AddStep(p.run, p.step) \/ Finish(p.run)
    BY <1>5 DEF Handle, Post
  <2>2. StoreTypeOK'
    BY <1>1, <2>1, AddStepType, StatusType
  <2>3. /\ \A k \in RunIds \ {p.run} : runs'[k] = runs[k]
        /\ \/ runs'[p.run].status = runs[p.run].status
           \/ Known(p.run) /\ runs'[p.run].status = "done"
    BY <1>1, <2>1, AddStepEffect, StatusEffect DEF Finish, Known
  <2>4. TrainerTyped'
    BY <1>1, <1>2, <2>2
  <2>5. ASSUME NEW k \in RunIds PROVE RunInv(k)' /\ Changes(k)
    <3>1. RunInv(k) /\ (runs'[k].status = runs[k].status \/ (Known(k) /\ runs'[k].status = "done"))
      BY <2>3
    <3> QED
      BY <1>1, <1>2, <1>3, <3>1 DEF RunInv, Changes, Known
  <2> QED
    BY <1>3, <2>4, <2>5 DEF Keeps
<1> QED
  BY <1>4, <1>5

(* A restart forgets every run, and none of them can be started again.      *)
LEMMA RestartKeeps == ASSUME StoreAssumption, TrainerInv, ApiRestart PROVE Keeps
<1> USE DEF TrainerInv, TrainerTyped
<1>1. /\ \A r \in RunIds : runs'[r] = NoRun /\ stopping'[r] = "idle"
      /\ stopping' \in [RunIds -> {"idle", "delete", "mark"}]
      /\ UNCHANGED <<clock, trainer, wire, job>>
  BY DEF ApiRestart
<1>2. StoreTypeOK'
  BY NoRunType DEF ApiRestart, StoreTypeOK
<1>3. NoRun.status = "absent"
  BY DEF NoRun
<1>4. ASSUME NEW k \in RunIds PROVE RunInv(k)' /\ Changes(k)
  <2>1. RunInv(k) /\ (StartOnWire(k)' <=> StartOnWire(k)) /\ (ToStart(k)' <=> ToStart(k))
    BY <1>1 DEF StartOnWire, ToStart
  <2> QED
    BY <1>1, <1>3, <2>1 DEF RunInv, Changes, Known
<1> QED
  BY <1>1, <1>2, <1>4 DEF Keeps, StartsAreFirst

-----------------------------------------------------------------------------
LEMMA NextKeeps == ASSUME TrainerInv, TrainerNext PROVE Keeps
  BY StoreAssumption, TrainerAssumption, LaunchKeeps, PostKeeps, FaultsKeep, StopKeeps, HandleKeeps,
     RestartKeeps DEF TrainerNext

LEMMA StepKeeps == TrainerInv /\ [TrainerNext]_trainerVars => TrainerInv' /\ [Life!LifeNext]_viewed
<1> SUFFICES ASSUME TrainerInv, [TrainerNext]_trainerVars PROVE TrainerInv' /\ [Life!LifeNext]_viewed
  OBVIOUS
<1>1. CASE UNCHANGED trainerVars
  <2>1. UNCHANGED <<runs, clock, trainer, wire, job, stopping>>
    BY <1>1 DEF trainerVars
  <2>2. \A k \in RunIds : (StartOnWire(k)' <=> StartOnWire(k)) /\ (ToStart(k)' <=> ToStart(k)) /\ (Known(k)' <=> Known(k))
    BY <2>1 DEF StartOnWire, ToStart, Known
  <2>3. TrainerInv'
    BY <2>1, <2>2 DEF TrainerInv, TrainerTyped, StoreTypeOK, StartsAreFirst, RunInv
  <2> QED
    BY <2>1, <2>2, <2>3 DEF viewed
<1>2. CASE TrainerNext
  <2>1. Keeps
    BY <1>2, NextKeeps
  <2> QED
    BY <2>1, ChangesAreMoves DEF Keeps
<1> QED
  BY <1>1, <1>2

LEMMA InitKeeps == TrainerInit => TrainerInv /\ Life!LifeInit
<1> SUFFICES ASSUME TrainerInit PROVE TrainerInv /\ Life!LifeInit
  OBVIOUS
<1>1. StoreTypeOK
  BY StoreAssumption, StoreInitType DEF TrainerInit
<1>2. [pc |-> "none", step |-> 0, await |-> "none"] \in Trainer
  BY TrainerAssumption DEF Trainer
<1>3. \A r \in RunIds : /\ ~Known(r) /\ runs[r].status = "absent" /\ trainer[r].pc = "none"
                       /\ stopping[r] = "idle" /\ ~StartOnWire(r)
  BY DEF TrainerInit, StoreInit, NoRun, Known, StartOnWire
<1>4. TrainerInv
  BY <1>1, <1>2, <1>3 DEF TrainerInit, TrainerInv, TrainerTyped, StartsAreFirst, RunInv
<1>5. Life!LifeInit
  BY <1>3 DEF Life!LifeInit, viewed, ToStart
<1> QED
  BY <1>4, <1>5

(* For any number of runs and whatever is lost, late, killed or restarted:  *)
(* a run that is shown as stopped has had its Job deleted, because stop_run *)
(* deletes before it marks and nothing else marks (runs.py:150-158).        *)
THEOREM TrainerStoppedMeansDeleted == TrainerSpec => []StoppedMeansDeleted
<1>1. TrainerInv => StoppedMeansDeleted
  BY DEF TrainerInv, RunInv, StoppedMeansDeleted
<1> QED
  BY <1>1, InitKeeps, StepKeeps, PTL DEF TrainerSpec

(* A trainer's run never comes back: its one start is posted when it        *)
(* begins, and no other post makes a run known, however late it arrives     *)
(* and however often the API restarts (runs.py:110-136, runs_store.py:35-72).*)
THEOREM TrainerIsRunLife == TrainerSpec => ImplementsRunLife
  BY InitKeeps, StepKeeps, PTL DEF TrainerSpec, ImplementsRunLife, Life!LifeSpec

-----------------------------------------------------------------------------
(* A run that no fault has touched.                                         *)

(* Its trainer's one post on the wire is of where the trainer is, which is  *)
(* waiting for it unless its pod was killed; and nobody has posted before.  *)
PostOnWire(r) == \E p \in wire : p.run = r
StepOnWire(r) == \E p \in wire : p.run = r /\ p.path = "step"

PostsAreAwaited(r) ==
  /\ \A p \in wire : p.run = r => /\ p.step = trainer[r].step
                                  /\ trainer[r].pc \in {"await", "over"}
                                  /\ trainer[r].pc = "await" => trainer[r].await = p.path
                                  /\ p.path = "step" => p.step # 0
  /\ \A p, q \in wire : p.run = r /\ q.run = r => p = q

(* The store has the steps the trainer has gone through, but for the one it *)
(* is posting.                                                              *)
StepsTo(n) == [k \in 1 .. n |-> k]

StepsAreKept(r) ==
  Known(r) => runs[r].steps = LastOf(StepsTo(IF StepOnWire(r) THEN trainer[r].step - 1 ELSE trainer[r].step))

HasEnded(r) == Known(r) => runs[r].status \in {"done", "stopped"}

(* Who stops the run has seen it started; a deleted Job's run is marked, or *)
(* about to be; and a trainer that is over by itself was heard to the end.  *)
EndsAreKnown(r) ==
  /\ job[r] = "deleted" => stopping[r] = "mark" \/ HasEnded(r)
  /\ trainer[r].pc = "over" => job[r] = "deleted" \/ (~PostOnWire(r) /\ HasEnded(r))

StopsAreOfStarted(r) == job[r] = "deleted" \/ stopping[r] # "idle" => ~ToStart(r)

CleanInv(r) ==
  /\ StopsAreOfStarted(r)
  /\ r \notin faulty => PostsAreAwaited(r) /\ StepsAreKept(r) /\ EndsAreKnown(r)

LEMMA StepsToNext ==
  ASSUME StoreAssumption, NEW n \in Nat
  PROVE  LastOf(Append(LastOf(StepsTo(n)), n + 1)) = LastOf(StepsTo(n + 1))
<1> DEFINE s == StepsTo(n)
           t == StepsTo(n + 1)
<1>1. /\ s \in Seq(Nat) /\ Len(s) = n /\ \A k \in 1 .. n : s[k] = k
      /\ t \in Seq(Nat) /\ Len(t) = n + 1 /\ \A k \in 1 .. n + 1 : t[k] = k
  <2>1. ASSUME NEW m \in Nat
        PROVE  StepsTo(m) \in Seq(Nat) /\ Len(StepsTo(m)) = m /\ \A k \in 1 .. m : StepsTo(m)[k] = k
    <3>1. StepsTo(m) \in [1 .. m -> Nat]
      BY DEF StepsTo
    <3>2. StepsTo(m) \in Seq(Nat) /\ DOMAIN StepsTo(m) = 1 .. m
      BY <3>1, IsASeq
    <3>3. Len(StepsTo(m)) = m
      BY <3>2, LenProperties
    <3> QED
      BY <3>2, <3>3 DEF StepsTo
  <2>2. n + 1 \in Nat
    OBVIOUS
  <2> QED
    BY <2>1, <2>2
<1> HIDE DEF s, t
<1>2. /\ Append(s, n + 1) \in Seq(Nat) /\ Len(Append(s, n + 1)) = n + 1
      /\ \A k \in 1 .. n : Append(s, n + 1)[k] = s[k]
      /\ Append(s, n + 1)[n + 1] = n + 1
  BY <1>1, AppendProperties
<1>3. ASSUME NEW k \in 1 .. n + 1 PROVE Append(s, n + 1)[k] = t[k]
  BY <1>1, <1>2
<1>4. Append(s, n + 1) = t
  BY ONLY <1>1, <1>2, <1>3, SeqEqual
<1>5. n + 1 \in Nat
  OBVIOUS
<1>6. LastOf(Append(LastOf(s), n + 1)) = LastOf(Append(s, n + 1))
  BY <1>1, <1>5, LastOfAppend
<1> QED
  BY <1>4, <1>6 DEF s, t

(* A run that a step does not concern: it stays, or is evicted.             *)
LEMMA CleanFrame ==
  ASSUME TrainerInv, Keeps, NEW k \in RunIds, CleanInv(k),
         runs'[k] = runs[k] \/ runs'[k] = NoRun,
         trainer'[k] = trainer[k], job'[k] = job[k], stopping'[k] = stopping[k],
         \A p : (p \in wire' /\ p.run = k) <=> (p \in wire /\ p.run = k),
         k \in faulty => k \in faulty'
  PROVE  CleanInv(k)'
<1>1. StopsAreOfStarted(k)'
  BY DEF Keeps, Changes, CleanInv, StopsAreOfStarted
<1>2. /\ NoRun.status = "absent" /\ (Known(k)' => runs'[k] = runs[k] /\ Known(k))
      /\ (PostOnWire(k)' <=> PostOnWire(k)) /\ (StepOnWire(k)' <=> StepOnWire(k))
  BY DEF NoRun, Known, PostOnWire, StepOnWire
<1>3. ASSUME k \notin faulty' PROVE PostsAreAwaited(k)' /\ StepsAreKept(k)' /\ EndsAreKnown(k)'
  <2>1. PostsAreAwaited(k) /\ StepsAreKept(k) /\ EndsAreKnown(k)
    BY <1>3 DEF CleanInv
  <2>2. PostsAreAwaited(k)'
    BY <2>1 DEF PostsAreAwaited
  <2>3. StepsAreKept(k)'
    BY <1>2, <2>1 DEF StepsAreKept
  <2>4. EndsAreKnown(k)'
    BY <1>2, <2>1 DEF EndsAreKnown, HasEnded
  <2> QED
    BY <2>2, <2>3, <2>4
<1> QED
  BY <1>1, <1>3 DEF CleanInv

(* A fault excuses everything but who stops the run.                        *)
LEMMA FaultyIsClean ==
  ASSUME Keeps, NEW k \in RunIds, k \in faulty', job'[k] = "deleted" \/ stopping'[k] # "idle" => ~ToStart(k)
  PROVE  CleanInv(k)'
<1>1. ToStart(k)' => ToStart(k)
  BY DEF Keeps, Changes
<1>2. StopsAreOfStarted(k)'
  BY <1>1 DEF StopsAreOfStarted
<1> QED
  BY <1>2 DEF CleanInv

-----------------------------------------------------------------------------
(* The trainer begins, posts, and dies.                                     *)
LEMMA LaunchIsClean ==
  ASSUME TrainerInv, Keeps, \A k \in RunIds : CleanInv(k), NEW r \in RunIds, LaunchJob(r)
  PROVE  \A k \in RunIds : CleanInv(k)'
<1>1. /\ trainer' = [trainer EXCEPT ![r] = [trainer[r] EXCEPT !.pc = "start"]]
      /\ job[r] = "none" /\ job' = [job EXCEPT ![r] = "active"]
      /\ UNCHANGED <<runs, clock, wire, stopping, faulty>>
  BY DEF LaunchJob, Store, NoFault
<1>2. trainer'[r].pc = "start" /\ job'[r] = "active" /\ trainer[r].pc = "none"
  BY <1>1 DEF TrainerInv, TrainerTyped, RunInv, Trainer
<1>3. ASSUME NEW k \in RunIds, k # r PROVE CleanInv(k)'
  BY <1>1, <1>3, CleanFrame DEF TrainerInv, TrainerTyped
<1>4. CleanInv(r)'
  <2>1. CleanInv(r)
    OBVIOUS
  <2>2. StopsAreOfStarted(r)'
    BY <1>1, <1>2, <2>1 DEF CleanInv, StopsAreOfStarted, ToStart, StartOnWire
  <2>3. ~Known(r) /\ ~Known(r)'
    BY <1>1, <1>2 DEF TrainerInv, RunInv, ToStart, Known
  <2>4. r \notin faulty => ~PostOnWire(r)
    BY <1>2, <2>1 DEF CleanInv, PostsAreAwaited, PostOnWire
  <2>5. r \notin faulty' => PostsAreAwaited(r)'
    BY <1>1, <2>4 DEF PostsAreAwaited, PostOnWire
  <2> QED
    BY <1>2, <2>2, <2>3, <2>5 DEF CleanInv, StepsAreKept, EndsAreKnown, HasEnded
<1> QED
  BY <1>3, <1>4

LEMMA PostIsClean ==
  ASSUME TrainerAssumption, TrainerInv, Keeps, \A k \in RunIds : CleanInv(k), NEW r \in RunIds, TrainerStep(r)
  PROVE  \A k \in RunIds : CleanInv(k)'
<1>1. PICK path \in {"start", "step", "done"}, n \in Nat :
        /\ Send(r, path, n)
        /\ trainer[r].pc \in {"start", "steps"}
        /\ path = "start" => trainer[r].pc = "start"
        /\ path = "step" => n = trainer[r].step + 1
        /\ path = "done" => n = trainer[r].step
  <2>1. trainer[r].step \in Nat /\ trainer[r].step + 1 \in Nat
    BY DEF TrainerInv, TrainerTyped, Trainer, TrainerAssumption
  <2>2. CASE PostStart(r)
    BY <2>2 DEF PostStart
  <2>3. CASE PostStep(r)
    BY <2>1, <2>3 DEF PostStep
  <2>4. CASE PostDone(r)
    BY <2>4 DEF PostDone, TrainerAssumption
  <2> QED
    BY <2>2, <2>3, <2>4 DEF TrainerStep
<1> DEFINE t == [pc |-> "await", step |-> n, await |-> path]
           p == [run |-> r, path |-> path, step |-> n]
<1>2. /\ trainer' = [trainer EXCEPT ![r] = t] /\ wire' = wire \cup {p}
      /\ UNCHANGED <<runs, clock, job, stopping, faulty>>
  BY <1>1 DEF Send, Store, NoFault
<1>3. /\ t.pc = "await" /\ t.step = n /\ t.await = path
      /\ p.run = r /\ p.path = path /\ p.step = n
  OBVIOUS
<1> HIDE DEF t, p
<1>4. trainer'[r] = t /\ \A k \in RunIds \ {r} : trainer'[k] = trainer[k]
  BY <1>2 DEF TrainerInv, TrainerTyped
<1>5. ASSUME NEW k \in RunIds, k # r PROVE CleanInv(k)'
  BY <1>2, <1>3, <1>4, <1>5, CleanFrame
<1>6. CleanInv(r)'
  <2>1. CleanInv(r)
    OBVIOUS
  <2>2. StopsAreOfStarted(r)'
    BY <1>2, <2>1 DEF CleanInv, StopsAreOfStarted, Keeps, Changes
  <2> SUFFICES ASSUME r \notin faulty' PROVE PostsAreAwaited(r)' /\ StepsAreKept(r)' /\ EndsAreKnown(r)'
    BY <2>2 DEF CleanInv
  <2>3. PostsAreAwaited(r) /\ StepsAreKept(r) /\ EndsAreKnown(r)
    BY <1>2, <2>1 DEF CleanInv
  <2>4. ~PostOnWire(r)
    BY <1>1, <2>3 DEF PostsAreAwaited, PostOnWire
  <2>5. \A q \in wire' : q.run = r => q = p
    BY <1>2, <2>4 DEF PostOnWire
  <2>6. PostsAreAwaited(r)'
    <3>1. path = "step" => n # 0
      BY <1>1 DEF TrainerInv, TrainerTyped, Trainer, TrainerAssumption
    <3> QED
      BY <1>3, <1>4, <2>5, <3>1 DEF PostsAreAwaited
  <2>7. StepOnWire(r)' <=> path = "step"
    BY <1>2, <1>3, <2>5 DEF StepOnWire
  <2>8. ~StepOnWire(r)
    BY <2>4 DEF PostOnWire, StepOnWire
  <2>9. StepsAreKept(r)'
    <3> SUFFICES ASSUME Known(r)
                 PROVE runs[r].steps = LastOf(StepsTo(IF path = "step" THEN n - 1 ELSE n))
      BY <1>2, <1>3, <1>4, <2>7 DEF StepsAreKept, Known
    <3>1. path # "start"
      BY <1>1 DEF TrainerInv, RunInv, ToStart
    <3>2. runs[r].steps = LastOf(StepsTo(trainer[r].step))
      BY <2>3, <2>8 DEF StepsAreKept
    <3>3. (IF path = "step" THEN n - 1 ELSE n) = trainer[r].step
      <4>1. trainer[r].step \in Nat
        BY DEF TrainerInv, TrainerTyped, Trainer, TrainerAssumption
      <4> QED
        BY <1>1, <3>1, <4>1
    <3> QED
      BY <3>2, <3>3
  <2>10. EndsAreKnown(r)'
    BY <1>2, <1>3, <1>4, <2>3 DEF EndsAreKnown, HasEnded, Known
  <2> QED
    BY <2>6, <2>9, <2>10
<1> QED
  BY <1>5, <1>6

LEMMA PodEndsClean ==
  ASSUME TrainerInv, Keeps, \A k \in RunIds : CleanInv(k), NEW r \in RunIds, PodEnds(r)
  PROVE  \A k \in RunIds : CleanInv(k)'
<1> DEFINE t == [trainer[r] EXCEPT !.pc = "over", !.await = "none"]
<1>1. /\ trainer' = [trainer EXCEPT ![r] = t] /\ UNCHANGED <<runs, clock, wire, job, stopping>>
      /\ faulty \subseteq faulty' /\ (job[r] # "deleted" => r \in faulty')
  BY DEF PodEnds, Store, Fault, NoFault
<1>2. t.pc = "over" /\ t.step = trainer[r].step
  BY DEF TrainerInv, TrainerTyped, Trainer
<1> HIDE DEF t
<1>3. trainer'[r] = t /\ \A k \in RunIds \ {r} : trainer'[k] = trainer[k]
  BY <1>1 DEF TrainerInv, TrainerTyped
<1>4. ASSUME NEW k \in RunIds, k # r PROVE CleanInv(k)'
  BY <1>1, <1>3, <1>4, CleanFrame
<1>5. CleanInv(r)'
  <2>1. CleanInv(r)
    OBVIOUS
  <2>2. StopsAreOfStarted(r)'
    BY <1>1, <2>1 DEF CleanInv, StopsAreOfStarted, Keeps, Changes
  <2> SUFFICES ASSUME r \notin faulty' PROVE PostsAreAwaited(r)' /\ StepsAreKept(r)' /\ EndsAreKnown(r)'
    BY <2>2 DEF CleanInv
  <2>3. PostsAreAwaited(r) /\ StepsAreKept(r) /\ EndsAreKnown(r) /\ job'[r] = "deleted"
    BY <1>1, <2>1 DEF CleanInv
  <2>4. PostsAreAwaited(r)'
    BY <1>1, <1>2, <1>3, <2>3 DEF PostsAreAwaited
  <2>5. StepsAreKept(r)'
    BY <1>1, <1>2, <1>3, <2>3 DEF StepsAreKept, StepOnWire, Known
  <2>6. EndsAreKnown(r)'
    BY <1>1, <2>3 DEF EndsAreKnown, HasEnded, Known
  <2> QED
    BY <2>4, <2>5, <2>6
<1> QED
  BY <1>4, <1>5

(* A post that is lost, or given up: its run is touched by a fault.         *)
LEMMA LossIsClean ==
  ASSUME TrainerInv, Keeps, \A k \in RunIds : CleanInv(k), NEW p \in Post, Lose(p) \/ GiveUp(p)
  PROVE  \A k \in RunIds : CleanInv(k)'
<1>1. /\ p.run \in RunIds /\ faulty' = faulty \cup {p.run} /\ UNCHANGED <<runs, clock, job, stopping>>
      /\ wire' = wire \ {p} \/ wire' = wire
      /\ trainer' = trainer \/ trainer' = [trainer EXCEPT ![p.run] = GoesOn(trainer[p.run])]
  <2>1. p.run \in RunIds
    BY DEF Post
  <2>2. CASE Lose(p)
    BY <2>1, <2>2 DEF Lose, Store, Fault
  <2>3. CASE GiveUp(p)
    BY <2>1, <2>3 DEF GiveUp, Store, Fault
  <2> QED
    BY <2>2, <2>3
<1>2. \A k \in RunIds \ {p.run} : trainer'[k] = trainer[k]
  BY <1>1 DEF TrainerInv, TrainerTyped
<1>3. ASSUME NEW k \in RunIds, k # p.run PROVE CleanInv(k)'
  BY <1>1, <1>2, <1>3, CleanFrame
<1>4. CleanInv(p.run)'
  <2>1. CleanInv(p.run)
    BY <1>1
  <2> QED
    BY <1>1, <2>1, FaultyIsClean DEF CleanInv, StopsAreOfStarted
<1> QED
  BY <1>1, <1>3, <1>4

-----------------------------------------------------------------------------
(* Stopping, of a run that has been seen running.                           *)
LEMMA StopIsClean ==
  ASSUME TrainerInv, Keeps, \A k \in RunIds : CleanInv(k), NEW r \in RunIds,
         StopLooksUp(r) \/ DeleteJob(r) \/ DeleteFails(r) \/ MarkStopped(r)
  PROVE  \A k \in RunIds : CleanInv(k)'
<1> USE DEF TrainerInv, TrainerTyped
<1>1. /\ UNCHANGED <<trainer, wire>> /\ faulty \subseteq faulty'
      /\ \A k \in RunIds \ {r} : job'[k] = job[k] /\ stopping'[k] = stopping[k]
  BY DEF StopLooksUp, DeleteJob, DeleteFails, MarkStopped, Fault, NoFault
<1>2. \A k \in RunIds \ {r} : runs'[k] = runs[k]
  <2>1. CASE MarkStopped(r)
    BY <2>1, StatusEffect DEF MarkStopped, Stop
  <2>2. CASE StopLooksUp(r) \/ DeleteJob(r) \/ DeleteFails(r)
    BY <2>2 DEF StopLooksUp, DeleteJob, DeleteFails, Store
  <2> QED
    BY <2>1, <2>2
<1>3. ASSUME NEW k \in RunIds, k # r PROVE CleanInv(k)'
  BY <1>1, <1>2, <1>3, CleanFrame
<1>4. CleanInv(r)'
  <2>1. CleanInv(r) /\ RunInv(r)
    OBVIOUS
  <2>2. job'[r] = "deleted" \/ stopping'[r] # "idle" => ~ToStart(r)
    <3>1. CASE StopLooksUp(r)
      BY <2>1, <3>1 DEF StopLooksUp, RunInv, Running, Known
    <3>2. CASE DeleteJob(r) \/ DeleteFails(r) \/ MarkStopped(r)
      BY <2>1, <3>2 DEF DeleteJob, DeleteFails, MarkStopped, CleanInv, StopsAreOfStarted
    <3> QED
      BY <3>1, <3>2
  <2>3. StopsAreOfStarted(r)'
    BY <2>2 DEF StopsAreOfStarted, Keeps, Changes
  <2> SUFFICES ASSUME r \notin faulty' PROVE PostsAreAwaited(r)' /\ StepsAreKept(r)' /\ EndsAreKnown(r)'
    BY <2>3 DEF CleanInv
  <2>4. PostsAreAwaited(r) /\ StepsAreKept(r) /\ EndsAreKnown(r)
    BY <1>1, <2>1 DEF CleanInv
  <2>5. PostsAreAwaited(r)'
    BY <1>1, <2>4 DEF PostsAreAwaited
  <2>6. /\ Known(r)' => Known(r)
        /\ runs'[r].steps = runs[r].steps
    <3>1. CASE MarkStopped(r)
      BY <3>1, StatusEffect DEF MarkStopped, Stop, Known
    <3>2. CASE StopLooksUp(r) \/ DeleteJob(r) \/ DeleteFails(r)
      BY <3>2 DEF StopLooksUp, DeleteJob, DeleteFails, Store, Known
    <3> QED
      BY <3>1, <3>2
  <2>7. StepsAreKept(r)'
    BY <1>1, <2>4, <2>6 DEF StepsAreKept, StepOnWire
  <2>8. EndsAreKnown(r)'
    <3>1. CASE StopLooksUp(r)
      <4>1. UNCHANGED <<runs, job>> /\ stopping[r] = "idle" /\ Running(r)
        BY <3>1 DEF StopLooksUp, Store
      <4>2. job[r] # "deleted"
        BY <2>4, <4>1 DEF EndsAreKnown, HasEnded, Running, Known
      <4> QED
        BY <1>1, <2>4, <4>1, <4>2 DEF EndsAreKnown, HasEnded, Known, PostOnWire
    <3>2. CASE DeleteJob(r)
      <4>1. job'[r] = "deleted" /\ stopping'[r] = "mark"
        BY <3>2 DEF DeleteJob
      <4> QED
        BY <4>1 DEF EndsAreKnown
    <3>3. CASE DeleteFails(r)
      BY <3>3 DEF DeleteFails, Fault
    <3>4. CASE MarkStopped(r)
      <4>1. /\ runs'[r].status = IF Known(r) THEN "stopped" ELSE "absent"
            /\ job' = job /\ stopping[r] = "mark"
        BY <3>4, StatusEffect DEF MarkStopped, Stop
      <4>2. HasEnded(r)' /\ job'[r] = "deleted"
        BY <2>1, <4>1 DEF HasEnded, Known, RunInv
      <4> QED
        BY <4>2 DEF EndsAreKnown
    <3> QED
      BY <3>1, <3>2, <3>3, <3>4
  <2> QED
    BY <2>5, <2>7, <2>8
<1> QED
  BY <1>3, <1>4

(* A restart touches the runs it forgets and the stops it interrupts; what  *)
(* it leaves alone was not known.                                           *)
LEMMA RestartIsClean ==
  ASSUME TrainerInv, Keeps, \A k \in RunIds : CleanInv(k), ApiRestart
  PROVE  \A k \in RunIds : CleanInv(k)'
<1> SUFFICES ASSUME NEW k \in RunIds PROVE CleanInv(k)'
  OBVIOUS
<1>1. /\ runs'[k] = NoRun /\ stopping'[k] = "idle" /\ UNCHANGED <<clock, trainer, wire, job>>
      /\ k \in faulty' <=> (k \in faulty \/ Known(k) \/ stopping[k] # "idle")
  BY DEF ApiRestart
<1>2. CASE k \in faulty'
  BY <1>1, <1>2, FaultyIsClean DEF CleanInv, StopsAreOfStarted
<1>3. CASE k \notin faulty'
  BY <1>1, <1>3, CleanFrame
<1> QED
  BY <1>2, <1>3

-----------------------------------------------------------------------------
(* A post that is handled is its run's only one.                            *)
LEMMA HandleIsClean ==
  ASSUME StoreAssumption, TrainerAssumption, TrainerInv, Keeps, \A k \in RunIds : CleanInv(k),
         NEW p \in Post, Handle(p)
  PROVE  \A k \in RunIds : CleanInv(k)'
<1> USE DEF TrainerInv, TrainerTyped
<1> DEFINE r == p.run
           t == trainer[r]
<1>1. /\ p \in wire /\ r \in RunIds /\ p.step \in Nat /\ p.path \in {"start", "step", "done"}
      /\ wire' = wire \ {p} /\ UNCHANGED <<job, stopping, faulty>>
      /\ trainer' = IF Awaits(p) THEN [trainer EXCEPT ![r] = GoesOn(t)] ELSE trainer
  BY DEF Handle, Post, TrainerAssumption, NoFault
<1>2. /\ t \in Trainer
      /\ \A k \in RunIds \ {r} : trainer'[k] = trainer[k]
      /\ trainer'[r] = IF Awaits(p) THEN GoesOn(t) ELSE t
  BY <1>1
<1>3. \/ /\ p.path = "start" /\ Running(r)' /\ runs'[r].steps = <<>>
         /\ \A k \in RunIds \ {r} : runs'[k] = runs[k] \/ runs'[k] = NoRun
      \/ /\ p.path = "step" /\ runs'[r].status = runs[r].status
         /\ Known(r) => runs'[r].steps = LastOf(Append(runs[r].steps, p.step))
         /\ \A k \in RunIds \ {r} : runs'[k] = runs[k]
      \/ /\ p.path = "done" /\ runs'[r].status = (IF Known(r) THEN "done" ELSE "absent")
         /\ runs'[r].steps = runs[r].steps
         /\ \A k \in RunIds \ {r} : runs'[k] = runs[k]
  <2>1. CASE p.path = "start"
    <3>1. PICK now \in Now : Start(r, NoFabric, now)
      BY <2>1 DEF Handle
    <3> QED
      BY <1>1, <2>1, <3>1, StartEffect DEF StoreAssumption
  <2>2. CASE p.path = "step"
    <3>1. AddStep(r, p.step)
      BY <2>2 DEF Handle
    <3> QED
      BY <1>1, <2>2, <3>1, AddStepEffect
  <2>3. CASE p.path = "done"
    <3>1. Finish(r)
      BY <2>3 DEF Handle
    <3> QED
      BY <1>1, <2>3, <3>1, StatusEffect DEF Finish
  <2> QED
    BY <1>1, <2>1, <2>2, <2>3
<1>4. ASSUME NEW k \in RunIds, k # r PROVE CleanInv(k)'
  <2>1. runs'[k] = runs[k] \/ runs'[k] = NoRun
    BY <1>3, <1>4
  <2> QED
    BY <1>1, <1>2, <1>4, <2>1, CleanFrame
<1>5. CleanInv(r)'
  <2>1. CleanInv(r) /\ RunInv(r)
    BY <1>1
  <2>2. StopsAreOfStarted(r)'
    BY <1>1, <2>1 DEF CleanInv, StopsAreOfStarted, Keeps, Changes
  <2> SUFFICES ASSUME r \notin faulty' PROVE PostsAreAwaited(r)' /\ StepsAreKept(r)' /\ EndsAreKnown(r)'
    BY <2>2 DEF CleanInv
  <2>3. PostsAreAwaited(r) /\ StepsAreKept(r) /\ EndsAreKnown(r)
    BY <1>1, <2>1 DEF CleanInv
  <2>4. ~PostOnWire(r)' /\ ~StepOnWire(r)'
    BY <1>1, <2>3 DEF PostOnWire, StepOnWire, PostsAreAwaited
  <2>5. /\ p.step = t.step /\ t.pc \in {"await", "over"}
        /\ t.pc = "await" => t.await = p.path
    BY <1>1, <2>3 DEF PostsAreAwaited
  <2>6. /\ trainer'[r].step = t.step
        /\ trainer'[r].pc = "over" => t.pc = "over" \/ p.path = "done"
    <3>1. GoesOn(t).step = t.step /\ (GoesOn(t).pc = "over" => t.await = "done")
      BY <1>2 DEF GoesOn, Trainer
    <3>2. Awaits(p) => t.await = p.path
      BY DEF Awaits
    <3> QED
      BY <1>2, <3>1, <3>2
  <2>7. PostsAreAwaited(r)'
    BY <2>4 DEF PostsAreAwaited, PostOnWire
  <2>8. StepOnWire(r) <=> p.path = "step"
    BY <1>1, <2>3 DEF StepOnWire, PostsAreAwaited
  <2>9. StepsAreKept(r)'
    <3> SUFFICES ASSUME Known(r)' PROVE runs'[r].steps = LastOf(StepsTo(t.step))
      BY <2>4, <2>6 DEF StepsAreKept
    <3>1. CASE p.path = "start"
      <4>1. t.step = 0 /\ runs'[r].steps = <<>>
        BY <1>1, <1>3, <2>5, <3>1 DEF StartsAreFirst
      <4>2. StepsTo(0) = <<>>
        BY DEF StepsTo
      <4>3. LastOf(<<>>) = <<>>
        BY DEF LastOf, StoreAssumption
      <4> QED
        BY <4>1, <4>2, <4>3
    <3>2. CASE p.path = "step"
      <4>1. Known(r) /\ runs'[r].steps = LastOf(Append(runs[r].steps, p.step))
        BY <1>3, <3>2 DEF Known
      <4>2. runs[r].steps = LastOf(StepsTo(t.step - 1))
        BY <2>3, <2>8, <3>2, <4>1 DEF StepsAreKept
      <4>3. t.step - 1 \in Nat /\ (t.step - 1) + 1 = t.step
        <5>1. p.step # 0
          BY <1>1, <2>3, <3>2 DEF PostsAreAwaited
        <5> QED
          BY <1>1, <2>5, <5>1
      <4> QED
        BY <2>5, <4>1, <4>2, <4>3, StepsToNext
    <3>3. CASE p.path = "done"
      BY <1>3, <2>3, <2>8, <3>3 DEF StepsAreKept, Known
    <3> QED
      BY <1>1, <3>1, <3>2, <3>3
  <2>10. EndsAreKnown(r)'
    <3>1. CASE p.path = "start"
      <4>1. ToStart(r)
        BY <1>1, <3>1 DEF ToStart, StartOnWire
      <4>2. job[r] # "deleted"
        BY <2>1, <4>1 DEF CleanInv, StopsAreOfStarted
      <4>3. t.pc # "over"
        BY <1>1, <2>3, <4>2 DEF EndsAreKnown, PostOnWire
      <4> QED
        BY <1>1, <2>6, <3>1, <4>2, <4>3 DEF EndsAreKnown
    <3>2. CASE p.path = "step"
      <4>1. HasEnded(r) => HasEnded(r)'
        BY <1>3, <3>2 DEF HasEnded, Known
      <4>2. t.pc = "over" => job[r] = "deleted"
        BY <1>1, <2>3 DEF EndsAreKnown, PostOnWire
      <4> QED
        BY <1>1, <2>3, <2>6, <3>2, <4>1, <4>2 DEF EndsAreKnown
    <3>3. CASE p.path = "done"
      <4>1. HasEnded(r)'
        BY <1>3, <3>3 DEF HasEnded, Known
      <4> QED
        BY <2>4, <4>1 DEF EndsAreKnown
    <3> QED
      BY <1>1, <3>1, <3>2, <3>3
  <2> QED
    BY <2>7, <2>9, <2>10
<1> QED
  BY <1>4, <1>5

-----------------------------------------------------------------------------
AllClean == TrainerInv /\ \A r \in RunIds : CleanInv(r)

LEMMA CleanStarts == TrainerInit => AllClean
<1> SUFFICES ASSUME TrainerInit PROVE \A r \in RunIds : CleanInv(r)
  BY InitKeeps DEF AllClean
<1>1. \A r \in RunIds : /\ ~Known(r) /\ trainer[r].pc = "none" /\ job[r] = "none" /\ stopping[r] = "idle"
  BY DEF TrainerInit, StoreInit, NoRun, Known
<1>2. wire = {}
  BY DEF TrainerInit
<1> QED
  BY <1>1, <1>2 DEF CleanInv, StopsAreOfStarted, PostsAreAwaited, StepsAreKept, EndsAreKnown, HasEnded

LEMMA CleanKeeps == AllClean /\ [TrainerNext]_trainerVars => AllClean'
<1> SUFFICES ASSUME AllClean, [TrainerNext]_trainerVars PROVE AllClean'
  OBVIOUS
<1> USE DEF AllClean
<1>1. CASE UNCHANGED trainerVars
  <2>1. TrainerInv'
    BY <1>1, StepKeeps
  <2>2. UNCHANGED <<runs, trainer, wire, job, stopping, faulty>>
    BY <1>1 DEF trainerVars
  <2>3. ASSUME NEW k \in RunIds, CleanInv(k) PROVE CleanInv(k)'
    BY <2>2, <2>3 DEF CleanInv, StopsAreOfStarted, ToStart, StartOnWire, PostsAreAwaited, StepsAreKept,
                      StepOnWire, PostOnWire, EndsAreKnown, HasEnded, Known
  <2> QED
    BY <2>1, <2>3
<1>2. CASE TrainerNext
  <2>1. Keeps
    BY <1>2, NextKeeps
  <2>2. \A k \in RunIds : CleanInv(k)'
    BY <1>2, <2>1, StoreAssumption, TrainerAssumption, LaunchIsClean, PostIsClean, PodEndsClean, LossIsClean,
       StopIsClean, HandleIsClean, RestartIsClean DEF TrainerNext
  <2> QED
    BY <2>1, <2>2 DEF Keeps
<1> QED
  BY <1>1, <1>2

(* For any number of runs and steps: a trainer that no loss, no timeout, no *)
(* death and no restart has touched leaves, once all its posts are handled, *)
(* a run that is over and has all the steps it went through, trimmed to     *)
(* what the store keeps; whether it was stopped half-way or not             *)
(* (train.py:116-141, runs.py:110-160, runs_store.py:52-72).                *)
THEOREM TrainerCleanRunsAreTrue == TrainerSpec => []CleanRunsAreTrue
<1>1. AllClean => CleanRunsAreTrue
  <2> SUFFICES ASSUME AllClean, NEW r \in RunIds \ faulty, Settled(r), Known(r)
               PROVE  /\ runs[r].status \in {"done", "stopped"}
                      /\ runs[r].steps = LastOf([k \in 1 .. trainer[r].step |-> k])
    BY DEF CleanRunsAreTrue
  <2>1. StepsAreKept(r) /\ EndsAreKnown(r)
    BY DEF AllClean, CleanInv
  <2>2. ~StepOnWire(r) /\ trainer[r].pc = "over" /\ stopping[r] = "idle"
    BY DEF Settled, StepOnWire
  <2> QED
    BY <2>1, <2>2 DEF StepsAreKept, StepsTo, EndsAreKnown, HasEnded
<1> QED
  BY <1>1, CleanStarts, CleanKeeps, PTL DEF TrainerSpec

=============================================================================
