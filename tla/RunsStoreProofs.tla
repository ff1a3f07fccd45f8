--------------------------- MODULE RunsStoreProofs ---------------------------
(* Theorems about the store of runs: typing, the bound on the number of     *)
(* runs, and the order of eviction.                                         *)
EXTENDS RunsStore, FiniteSetTheorems, SequenceTheorems, TLAPS

-----------------------------------------------------------------------------
(* The lemmas SimRunsProofs uses as well: what each method preserves.       *)

LEMMA NoRunType == StoreAssumption => NoRun \in RunState
  BY DEF StoreAssumption, NoRun, RunState, Statuses

LEMMA FreshType ==
  ASSUME StoreAssumption, NEW f \in Fabrics, NEW now \in Nat
  PROVE  Fresh(f, now) \in RunState
  BY NoRunType DEF Fresh, RunState, Statuses

(* The clock of a start is a natural number, and not before the last one    *)
(* unless the clock may regress.                                            *)
LEMMA NowType ==
  ASSUME StoreAssumption, clock \in Nat, NEW now \in Now
  PROVE  now \in Nat /\ (~ClockMayRegress => clock <= now)
  BY DEF StoreAssumption, Now

(* Trimming a history keeps its type.                                       *)
LEMMA LastOfType ==
  ASSUME StoreAssumption, NEW s \in Seq(Nat)
  PROVE  LastOf(s) \in Seq(Nat)
<1>1. CASE Len(s) > MaxSteps
  <2>1. SubSeq(s, Len(s) - MaxSteps + 1, Len(s)) \in Seq(Nat)
    BY <1>1 DEF StoreAssumption
  <2>2. QED BY <1>1, <2>1 DEF LastOf
<1>2. CASE ~(Len(s) > MaxSteps)
  BY <1>2 DEF LastOf
<1>3. QED BY <1>1, <1>2

(* Trimming a history before a step is added loses nothing that trimming    *)
(* it afterwards keeps.                                                     *)
LEMMA LastOfAppend ==
  ASSUME StoreAssumption, NEW s \in Seq(Nat), NEW x \in Nat
  PROVE  LastOf(Append(LastOf(s), x)) = LastOf(Append(s, x))
<1>1. MaxSteps \in Nat \ {0} /\ Len(s) \in Nat
  BY LenProperties DEF StoreAssumption
<1>2. CASE ~(Len(s) > MaxSteps)
  BY <1>2 DEF LastOf
<1>3. CASE Len(s) > MaxSteps
  <2> DEFINE l == Len(s)
             u == SubSeq(s, l - MaxSteps + 1, l)
             ux == Append(u, x)
             sx == Append(s, x)
             v == SubSeq(ux, 2, MaxSteps + 1)
             w == SubSeq(sx, l + 2 - MaxSteps, l + 1)
  <2>1. l \in Nat /\ l > MaxSteps /\ l - MaxSteps \in Nat
    BY <1>1, <1>3
  <2>2. LastOf(s) = u
    BY <1>3 DEF LastOf
  <2> HIDE DEF l
  <2>3. /\ u \in Seq(Nat) /\ Len(u) = MaxSteps
        /\ \A k \in 1 .. MaxSteps : u[k] = s[l - MaxSteps + k]
    <3>1. ASSUME NEW k \in l - MaxSteps + 1 .. l PROVE s[k] \in Nat
      BY <1>1, <2>1, <3>1, ElementOfSeq DEF l
    <3>2. /\ u \in Seq(Nat)
          /\ Len(u) = l - (l - MaxSteps + 1) + 1
          /\ \A k \in 1 .. l - (l - MaxSteps + 1) + 1 : u[k] = s[(l - MaxSteps + 1) + k - 1]
      BY <1>1, <2>1, <3>1, SubSeqProperties
    <3>3. l - (l - MaxSteps + 1) + 1 = MaxSteps
      BY ONLY <1>1, <2>1
    <3>4. \A k \in 1 .. MaxSteps : (l - MaxSteps + 1) + k - 1 = l - MaxSteps + k
      BY ONLY <1>1, <2>1
    <3> HIDE DEF u
    <3> QED
      BY <3>2, <3>3, <3>4
  <2>4. sx \in Seq(Nat) /\ Len(sx) = l + 1 /\ sx[l + 1] = x /\ \A k \in 1 .. l : sx[k] = s[k]
    <3>1. /\ sx \in Seq(Nat) /\ Len(sx) = Len(s) + 1 /\ sx[Len(s) + 1] = x
          /\ \A k \in 1 .. Len(s) : sx[k] = s[k]
      <4> HIDE DEF u
      <4> QED
        BY AppendProperties
    <3> HIDE DEF sx
    <3> QED
      BY <3>1 DEF l
  <2> HIDE DEF u
  <2>5. /\ ux \in Seq(Nat) /\ Len(ux) = MaxSteps + 1 /\ ux[MaxSteps + 1] = x
        /\ \A k \in 1 .. MaxSteps : ux[k] = u[k]
    <3>1. /\ ux \in Seq(Nat) /\ Len(ux) = Len(u) + 1 /\ ux[Len(u) + 1] = x
          /\ \A k \in 1 .. Len(u) : ux[k] = u[k]
      BY <2>3, AppendProperties
    <3> HIDE DEF ux
    <3> QED
      BY <2>3, <3>1
  <2> HIDE DEF ux, sx
  <2>6. LastOf(ux) = v /\ LastOf(sx) = w
    <3>1. Len(ux) > MaxSteps /\ Len(ux) - MaxSteps + 1 = 2
      BY <1>1, <2>5
    <3>2. Len(sx) > MaxSteps /\ Len(sx) - MaxSteps + 1 = l + 2 - MaxSteps
      BY <1>1, <2>1, <2>4
    <3> QED
      BY <2>4, <2>5, <3>1, <3>2 DEF LastOf
  <2>7. /\ v \in Seq(Nat) /\ Len(v) = MaxSteps /\ \A k \in 1 .. MaxSteps : v[k] = ux[k + 1]
    <3>1. ASSUME NEW k \in 2 .. MaxSteps + 1 PROVE ux[k] \in Nat
      BY <1>1, <2>5, <3>1, ElementOfSeq
    <3> QED
      BY <1>1, <2>5, <3>1, SubSeqProperties
  <2>8. /\ w \in Seq(Nat) /\ Len(w) = MaxSteps
        /\ \A k \in 1 .. MaxSteps : w[k] = sx[l + 1 - MaxSteps + k]
    <3>1. ASSUME NEW k \in l + 2 - MaxSteps .. l + 1 PROVE sx[k] \in Nat
      BY <1>1, <2>1, <2>4, <3>1, ElementOfSeq
    <3>2. /\ w \in Seq(Nat)
          /\ Len(w) = (l + 1) - (l + 2 - MaxSteps) + 1
          /\ \A k \in 1 .. (l + 1) - (l + 2 - MaxSteps) + 1 : w[k] = sx[(l + 2 - MaxSteps) + k - 1]
      BY <1>1, <2>1, <2>4, <3>1, SubSeqProperties
    <3> QED
      BY <1>1, <2>1, <3>2
  <2> HIDE DEF v, w
  <2>9. ASSUME NEW k \in 1 .. MaxSteps PROVE v[k] = w[k]
    <3>1. CASE k = MaxSteps
      BY <1>1, <2>1, <2>4, <2>5, <2>7, <2>8, <3>1
    <3>2. CASE k < MaxSteps
      <4>1. k + 1 \in 1 .. MaxSteps /\ l - MaxSteps + (k + 1) \in 1 .. l
        BY <1>1, <2>1, <3>2
      <4>2. v[k] = s[l - MaxSteps + (k + 1)]
        BY <2>3, <2>5, <2>7, <4>1
      <4>3. w[k] = sx[l - MaxSteps + (k + 1)]
        BY <1>1, <2>1, <2>8
      <4> QED
        BY <2>4, <4>1, <4>2, <4>3
    <3> QED
      BY <1>1, <3>1, <3>2
  <2>10. v = w
    BY ONLY <2>7, <2>8, <2>9, SeqEqual
  <2> QED
    BY <2>2, <2>6, <2>10 DEF ux, sx
<1> QED
  BY <1>2, <1>3

LEMMA LatestStepType ==
  ASSUME NEW run \in RunState
  PROVE  LatestStep(run) \in Nat
<1>1. run.steps \in Seq(Nat)
  BY DEF RunState
<1>2. CASE run.steps = <<>>
  BY <1>2 DEF LatestStep
<1>3. CASE run.steps # <<>>
  <2>1. Len(run.steps) \in 1 .. Len(run.steps)
    BY <1>1, <1>3
  <2>2. QED BY <1>1, <1>3, <2>1 DEF LatestStep
<1>4. QED BY <1>2, <1>3

LEMMA StartType ==
  ASSUME StoreAssumption, StoreTypeOK, NEW r \in RunIds, NEW f \in Fabrics,
         NEW now \in Now, Start(r, f, now)
  PROVE  StoreTypeOK'
<1>1. now \in Nat
  BY NowType DEF StoreTypeOK
<1>2. DEFINE rs == [runs EXCEPT ![r] = Fresh(f, now)]
<1>3. rs \in [RunIds -> RunState]
  BY <1>1, FreshType DEF StoreTypeOK
<1>4. \/ runs' = rs
      \/ \E k \in Oldest(rs) \ {r} : runs' = [rs EXCEPT ![k] = NoRun]
  BY DEF Start
<1>5. clock' = now
  BY DEF Start
<1>6. runs' \in [RunIds -> RunState]
  <2> HIDE DEF rs
  <2>1. QED BY <1>3, <1>4, NoRunType
<1>7. QED BY <1>1, <1>5, <1>6 DEF StoreTypeOK

LEMMA UpdateType ==
  ASSUME StoreTypeOK, NEW r \in RunIds, NEW run, Known(r) => run \in RunState,
         Update(r, run)
  PROVE  StoreTypeOK'
  BY DEF StoreTypeOK, Update

LEMMA AddStepType ==
  ASSUME StoreAssumption, StoreTypeOK, NEW r \in RunIds, NEW n \in Nat, AddStep(r, n)
  PROVE  StoreTypeOK'
<1>1. runs[r] \in RunState
  BY DEF StoreTypeOK
<1>2. Append(runs[r].steps, n) \in Seq(Nat)
  BY <1>1 DEF RunState
<1>3. LastOf(Append(runs[r].steps, n)) \in Seq(Nat)
  BY <1>2, LastOfType
<1>4. [runs[r] EXCEPT !.steps = LastOf(Append(runs[r].steps, n))] \in RunState
  BY <1>1, <1>3 DEF RunState
<1>5. QED BY <1>4, UpdateType DEF AddStep

LEMMA StatusType ==
  ASSUME StoreTypeOK, NEW r \in RunIds, Finish(r) \/ Stop(r)
  PROVE  StoreTypeOK'
<1>1. runs[r] \in RunState
  BY DEF StoreTypeOK
<1>2. \A s \in Statuses : [runs[r] EXCEPT !.status = s] \in RunState
  BY <1>1 DEF RunState
<1>3. "done" \in Statuses /\ "stopped" \in Statuses
  BY DEF Statuses
<1>4. CASE Finish(r)
  BY <1>2, <1>3, <1>4, UpdateType DEF Finish
<1>5. CASE Stop(r)
  BY <1>2, <1>3, <1>5, UpdateType DEF Stop
<1>6. QED BY <1>4, <1>5

LEMMA InjectEventType ==
  ASSUME StoreTypeOK, NEW r \in RunIds, NEW k \in Kinds, NEW d \in Nat, InjectEvent(r, k, d)
  PROVE  StoreTypeOK'
<1>1. runs[r] \in RunState
  BY DEF StoreTypeOK
<1> DEFINE event == [kind |-> k, at |-> LatestStep(runs[r]), dur |-> d]
<1>2. event \in ChaosEvent
  BY <1>1, LatestStepType DEF ChaosEvent
<1>3. Append(runs[r].events, event) \in Seq(ChaosEvent)
  BY <1>1, <1>2 DEF RunState
<1>4. [runs[r] EXCEPT !.events = Append(runs[r].events, event)] \in RunState
  BY <1>1, <1>3 DEF RunState
<1>5. QED BY <1>4, UpdateType DEF InjectEvent

LEMMA AddCheckpointType ==
  ASSUME StoreTypeOK, NEW r \in RunIds, NEW e \in CkptEvent, AddCheckpointEvent(r, e)
  PROVE  StoreTypeOK'
<1>1. runs[r] \in RunState
  BY DEF StoreTypeOK
<1>2. Append(runs[r].ckpts, e) \in Seq(CkptEvent)
  BY <1>1 DEF RunState
<1>3. [runs[r] EXCEPT !.ckpts = Append(runs[r].ckpts, e)] \in RunState
  BY <1>1, <1>2 DEF RunState
<1>4. QED BY <1>3, UpdateType DEF AddCheckpointEvent

LEMMA StoreInitType == ASSUME StoreAssumption, StoreInit PROVE StoreTypeOK
  BY NoRunType DEF StoreInit, StoreTypeOK

LEMMA StoreStepType ==
  ASSUME StoreAssumption, StoreTypeOK, [StoreNext]_storeVars
  PROVE  StoreTypeOK'
<1>1. CASE UNCHANGED storeVars
  BY <1>1 DEF StoreTypeOK, storeVars
<1>2. CASE StoreNext
  <2>1. PICK r \in RunIds :
          \/ \E f \in Fabrics, now \in Now : Start(r, f, now)
          \/ \E n \in 1 .. MaxStep : AddStep(r, n)
          \/ Finish(r)
          \/ Stop(r)
          \/ \E inj \in Injections : InjectEvent(r, inj.kind, inj.dur)
          \/ \E k \in {"save", "restore"} :
               AddCheckpointEvent(r, [kind |-> k, step |-> LatestStep(runs[r]), lost |-> 0])
    BY <1>2 DEF StoreNext
  <2>2. CASE \E f \in Fabrics, now \in Now : Start(r, f, now)
    BY <2>2, StartType
  <2>3. CASE \E n \in 1 .. MaxStep : AddStep(r, n)
    BY <2>3, AddStepType DEF StoreAssumption
  <2>4. CASE Finish(r) \/ Stop(r)
    BY <2>4, StatusType
  <2>5. CASE \E inj \in Injections : InjectEvent(r, inj.kind, inj.dur)
    BY <2>5, InjectEventType DEF StoreAssumption
  <2>6. CASE \E k \in {"save", "restore"} :
               AddCheckpointEvent(r, [kind |-> k, step |-> LatestStep(runs[r]), lost |-> 0])
    <3>1. runs[r] \in RunState
      BY DEF StoreTypeOK
    <3>2. \A k \in {"save", "restore"} :
            [kind |-> k, step |-> LatestStep(runs[r]), lost |-> 0] \in CkptEvent
      BY <3>1, LatestStepType DEF CkptEvent
    <3>3. QED BY <2>6, <3>2, AddCheckpointType
  <2>7. QED BY <2>1, <2>2, <2>3, <2>4, <2>5, <2>6
<1>3. QED BY <1>1, <1>2

(* Every key of the dict maps to a complete RunState, whatever the callers  *)
(* do (runs_store.py:28-129).                                               *)
THEOREM StoreTyped == StoreSpec => []StoreTypeOK
<1>1. StoreInit => StoreTypeOK
  BY StoreAssumption, StoreInitType
<1>2. StoreTypeOK /\ [StoreNext]_storeVars => StoreTypeOK'
  BY StoreAssumption, StoreStepType
<1>3. QED BY <1>1, <1>2, PTL DEF StoreSpec

-----------------------------------------------------------------------------
(* What a method does to the run it works on, and to the others.            *)

LEMMA UpdateEffect ==
  ASSUME StoreTypeOK, NEW r \in RunIds, NEW run, Update(r, run)
  PROVE  /\ \A k \in RunIds \ {r} : runs'[k] = runs[k]
         /\ runs'[r] = IF Known(r) THEN run ELSE runs[r]
  BY DEF Update, StoreTypeOK

LEMMA AddStepEffect ==
  ASSUME StoreTypeOK, NEW r \in RunIds, NEW n, AddStep(r, n)
  PROVE  /\ \A k \in RunIds \ {r} : runs'[k] = runs[k]
         /\ runs'[r].status = runs[r].status
         /\ Known(r) => runs'[r].steps = LastOf(Append(runs[r].steps, n))
<1>1. runs[r] \in RunState
  BY DEF StoreTypeOK
<1> DEFINE steps == LastOf(Append(runs[r].steps, n))
           run == [runs[r] EXCEPT !.steps = steps]
<1>2. Update(r, run)
  BY DEF AddStep
<1> HIDE DEF steps
<1>3. run.status = runs[r].status /\ run.steps = steps
  BY <1>1 DEF RunState
<1>4. QED BY <1>2, <1>3, UpdateEffect DEF steps

LEMMA StatusEffect ==
  ASSUME StoreTypeOK, NEW r \in RunIds, NEW status,
         Update(r, [runs[r] EXCEPT !.status = status])
  PROVE  /\ \A k \in RunIds \ {r} : runs'[k] = runs[k]
         /\ runs'[r].status = IF Known(r) THEN status ELSE "absent"
         /\ runs'[r].steps = runs[r].steps
<1>1. runs[r] \in RunState
  BY DEF StoreTypeOK
<1> DEFINE run == [runs[r] EXCEPT !.status = status]
<1>2. run.status = status /\ run.steps = runs[r].steps
  BY <1>1 DEF RunState
<1>3. QED BY <1>2, UpdateEffect DEF Known

LEMMA LogEffect ==
  ASSUME StoreTypeOK, NEW r \in RunIds,
         \/ \E k, d : InjectEvent(r, k, d)
         \/ \E e : AddCheckpointEvent(r, e)
  PROVE  /\ \A k \in RunIds \ {r} : runs'[k] = runs[k]
         /\ runs'[r].status = runs[r].status
         /\ runs'[r].steps = runs[r].steps
<1>1. runs[r] \in RunState
  BY DEF StoreTypeOK
<1>2. CASE \E k, d : InjectEvent(r, k, d)
  <2>1. PICK x : Update(r, [runs[r] EXCEPT !.events = x])
    BY <1>2 DEF InjectEvent
  <2>2. LET run == [runs[r] EXCEPT !.events = x]
        IN  run.status = runs[r].status /\ run.steps = runs[r].steps
    BY <1>1 DEF RunState
  <2>3. QED BY <2>1, <2>2, UpdateEffect
<1>3. CASE \E e : AddCheckpointEvent(r, e)
  <2>1. PICK x : Update(r, [runs[r] EXCEPT !.ckpts = x])
    BY <1>3 DEF AddCheckpointEvent
  <2>2. LET run == [runs[r] EXCEPT !.ckpts = x]
        IN  run.status = runs[r].status /\ run.steps = runs[r].steps
    BY <1>1 DEF RunState
  <2>3. QED BY <2>1, <2>2, UpdateEffect
<1>4. QED BY <1>2, <1>3

-----------------------------------------------------------------------------
(* The bound on the number of runs.                                         *)

(* No run was started after the clock's last reading.                       *)
StartedInPast == \A r \in RunIds : runs[r].started <= clock

StoreInv == StoreTypeOK /\ CapHolds /\ StartedInPast

LEMMA HeldFinite == ASSUME StoreAssumption, NEW rs PROVE IsFiniteSet(Held(rs))
  BY FS_Subset DEF Held, StoreAssumption

(* The methods other than start.                                            *)
OtherMethod(r) ==
  \/ \E n \in Nat : AddStep(r, n)
  \/ Finish(r)
  \/ Stop(r)
  \/ \E k \in Kinds, d \in Nat : InjectEvent(r, k, d)
  \/ \E e : AddCheckpointEvent(r, e)

(* A method other than start neither adds nor removes a run.                *)
LEMMA OtherMethodsKeep ==
  ASSUME StoreTypeOK, NEW r \in RunIds, OtherMethod(r)
  PROVE  /\ Held(runs') = Held(runs)
         /\ \A k \in RunIds : runs'[k].started = runs[k].started
         /\ clock' = clock
<1>1. runs \in [RunIds -> RunState]
  BY DEF StoreTypeOK
<1>2. \A x : LET run == [runs[r] EXCEPT !.steps = x]
              IN  run.status = runs[r].status /\ run.started = runs[r].started
  BY <1>1 DEF RunState
<1>3. \A x : LET run == [runs[r] EXCEPT !.events = x]
              IN  run.status = runs[r].status /\ run.started = runs[r].started
  BY <1>1 DEF RunState
<1>4. \A x : LET run == [runs[r] EXCEPT !.ckpts = x]
              IN  run.status = runs[r].status /\ run.started = runs[r].started
  BY <1>1 DEF RunState
<1>5. \A x : LET run == [runs[r] EXCEPT !.status = x]
              IN  run.status = x /\ run.started = runs[r].started
  BY <1>1 DEF RunState
<1> DEFINE Good(run) == /\ Known(r) => run.status # "absent"
                        /\ run.started = runs[r].started
<1>6. \E run : Update(r, run) /\ Good(run)
  <2>1. CASE \E n \in Nat : AddStep(r, n)
    <3>1. PICK x : Update(r, [runs[r] EXCEPT !.steps = x])
      BY <2>1 DEF AddStep
    <3>2. Good([runs[r] EXCEPT !.steps = x])
      BY <1>2 DEF Known
    <3>3. QED BY <3>1, <3>2
  <2>2. CASE Finish(r) \/ Stop(r)
    <3>1. PICK x \in {"done", "stopped"} : Update(r, [runs[r] EXCEPT !.status = x])
      BY <2>2 DEF Finish, Stop
    <3>2. Good([runs[r] EXCEPT !.status = x])
      BY <1>5 DEF Known
    <3>3. QED BY <3>1, <3>2
  <2>3. CASE \E k \in Kinds, d \in Nat : InjectEvent(r, k, d)
    <3>1. PICK x : Update(r, [runs[r] EXCEPT !.events = x])
      BY <2>3 DEF InjectEvent
    <3>2. Good([runs[r] EXCEPT !.events = x])
      BY <1>3 DEF Known
    <3>3. QED BY <3>1, <3>2
  <2>4. CASE \E e : AddCheckpointEvent(r, e)
    <3>1. PICK x : Update(r, [runs[r] EXCEPT !.ckpts = x])
      BY <2>4 DEF AddCheckpointEvent
    <3>2. Good([runs[r] EXCEPT !.ckpts = x])
      BY <1>4 DEF Known
    <3>3. QED BY <3>1, <3>2
  <2>5. QED BY <2>1, <2>2, <2>3, <2>4 DEF OtherMethod
<1>7. QED BY <1>1, <1>6 DEF Update, Held, Known

(* What a start leaves behind: at most one run is gone, and it was oldest.  *)
LEMMA StartEffect ==
  ASSUME StoreAssumption, StoreTypeOK, NEW r \in RunIds, NEW f \in Fabrics,
         NEW now \in Now, Start(r, f, now)
  PROVE  /\ clock' = now
         /\ Running(r)' /\ runs'[r].started = now /\ runs'[r].steps = <<>>
         /\ runs'[r] = Fresh(f, now)
         /\ \A k \in RunIds \ {r} : runs'[k] = runs[k] \/ runs'[k] = NoRun
         /\ \A k \in RunIds : (Known(k) /\ ~Known(k)') =>
              /\ k # r
              /\ \A j \in RunIds : Known(j)' => runs[k].started <= runs'[j].started
<1> DEFINE rs == [runs EXCEPT ![r] = Fresh(f, now)]
<1>1. /\ rs \in [RunIds -> RunState]
      /\ rs[r] = Fresh(f, now)
      /\ \A k \in RunIds \ {r} : rs[k] = runs[k]
  BY NowType, FreshType DEF StoreTypeOK
<1>2. /\ Fresh(f, now).status = "running"
      /\ Fresh(f, now).started = now
      /\ Fresh(f, now).steps = <<>>
  BY DEF Fresh, NoRun
<1>3. NoRun.status = "absent"
  BY DEF NoRun
<1>4. clock' = now
  BY DEF Start
<1>5. \/ runs' = rs
      \/ \E k \in Oldest(rs) \ {r} : runs' = [rs EXCEPT ![k] = NoRun]
  BY DEF Start
<1> HIDE DEF rs
<1>6. CASE runs' = rs
  BY <1>1, <1>2, <1>4, <1>6 DEF Known, Running
<1>7. CASE \E k \in Oldest(rs) \ {r} : runs' = [rs EXCEPT ![k] = NoRun]
  <2>1. PICK v \in Oldest(rs) \ {r} : runs' = [rs EXCEPT ![v] = NoRun]
    BY <1>7
  <2>2. /\ v \in RunIds /\ v # r
        /\ \A j \in RunIds : rs[j].status # "absent" => rs[v].started <= rs[j].started
    BY DEF Oldest, Held
  <2>3. /\ runs'[v] = NoRun
        /\ \A j \in RunIds \ {v} : runs'[j] = rs[j]
    BY <1>1, <2>1, <2>2
  <2>4. \A k \in RunIds : (Known(k) /\ ~Known(k)') => k = v
    BY <1>1, <1>2, <2>2, <2>3 DEF Known
  <2>5. \A j \in RunIds : Known(j)' => runs[v].started <= runs'[j].started
    BY <1>1, <1>3, <2>2, <2>3 DEF Known
  <2>6. Running(r)' /\ runs'[r].started = now /\ runs'[r].steps = <<>>
    BY <1>1, <1>2, <2>2, <2>3 DEF Running
  <2>7. QED BY <1>1, <1>4, <2>2, <2>3, <2>4, <2>5, <2>6
<1>8. QED BY <1>5, <1>6, <1>7

(* With a clock that does not regress, a start keeps the bound: when it     *)
(* makes the dict too long, some other run is at least as old as the new.   *)
LEMMA StartKeepsCap ==
  ASSUME StoreAssumption, ~ClockMayRegress, StoreInv,
         NEW r \in RunIds, NEW f \in Fabrics, NEW now \in Now, Start(r, f, now)
  PROVE  CapHolds'
<1> DEFINE rs == [runs EXCEPT ![r] = Fresh(f, now)]
<1>1. /\ now \in Nat /\ clock <= now /\ clock \in Nat
      /\ rs \in [RunIds -> RunState]
      /\ rs[r] = Fresh(f, now)
      /\ \A k \in RunIds \ {r} : rs[k] = runs[k]
  BY NowType, FreshType DEF StoreInv, StoreTypeOK
<1>2. Fresh(f, now).status = "running" /\ Fresh(f, now).started = now
  BY DEF Fresh, NoRun
<1>3. \/ Cardinality(Held(rs)) <= MaxRuns /\ runs' = rs
      \/ Oldest(rs) = {r} /\ runs' = rs
      \/ \E k \in Oldest(rs) \ {r} : runs' = [rs EXCEPT ![k] = NoRun]
  BY DEF Start
<1> HIDE DEF rs
<1>4. Held(rs) = Held(runs) \cup {r}
  BY <1>1, <1>2 DEF Held
<1>5. /\ Cardinality(Held(rs)) \in Nat
      /\ Cardinality(Held(rs)) <= MaxRuns + 1
  <2>1. IsFiniteSet(Held(runs)) /\ IsFiniteSet(Held(rs))
    BY HeldFinite
  <2>2. Cardinality(Held(runs)) \in Nat /\ Cardinality(Held(rs)) \in Nat
    BY <2>1, FS_CardinalityType
  <2>3. Cardinality(Held(rs)) <= Cardinality(Held(runs)) + 1
    BY <1>4, <2>1, <2>2, FS_AddElement
  <2>4. QED BY <2>2, <2>3 DEF StoreInv, CapHolds, StoreAssumption
<1>6. CASE Cardinality(Held(rs)) <= MaxRuns /\ runs' = rs
  BY <1>6 DEF CapHolds
<1>7. CASE Oldest(rs) = {r} /\ runs' = rs
  <2>1. \A k \in Held(rs) : rs[k].started <= now
    <3>1. \A k \in RunIds : runs[k].started \in Nat /\ runs[k].started <= clock
      BY DEF StoreInv, StartedInPast, StoreTypeOK, RunState
    <3>2. \A k \in RunIds : runs[k].started <= now
      BY <1>1, <3>1
    <3>3. QED BY <1>1, <1>2, <3>2 DEF Held
  <2>2. \A k \in Held(rs) : now <= rs[k].started
    BY <1>1, <1>2, <1>7 DEF Oldest
  <2>3. \A k \in Held(rs) : rs[k].started = now
    BY <1>1, <2>1, <2>2 DEF Held, RunState
  <2>4. Held(rs) \subseteq Oldest(rs)
    BY <1>1, <2>3 DEF Oldest
  <2>5. Held(rs) = {r}
    BY <1>4, <1>7, <2>4
  <2>6. Cardinality(Held(rs)) = 1
    BY <2>5, FS_Singleton
  <2>7. QED BY <1>7, <2>6 DEF CapHolds, StoreAssumption
<1>8. CASE \E k \in Oldest(rs) \ {r} : runs' = [rs EXCEPT ![k] = NoRun]
  <2>1. PICK v \in Oldest(rs) \ {r} : runs' = [rs EXCEPT ![v] = NoRun]
    BY <1>8
  <2>2. v \in Held(rs) /\ v \in RunIds
    BY DEF Oldest, Held
  <2>3. Held(runs') = Held(rs) \ {v}
    BY <1>1, <2>1, <2>2 DEF Held, NoRun
  <2>4. Cardinality(Held(runs')) = Cardinality(Held(rs)) - 1
    <3>1. IsFiniteSet(Held(rs))
      BY HeldFinite
    <3>2. Cardinality(Held(rs) \ {v})
            = IF v \in Held(rs) THEN Cardinality(Held(rs)) - 1 ELSE Cardinality(Held(rs))
      BY <3>1, FS_RemoveElement
    <3>3. QED BY <2>2, <2>3, <3>2
  <2>5. QED BY <1>5, <2>4 DEF CapHolds, StoreAssumption
<1>9. QED BY <1>3, <1>6, <1>7, <1>8

(* A call to the store starts a run or works on one.                        *)
LEMMA StoreNextCases ==
  ASSUME StoreAssumption, StoreNext
  PROVE  \/ \E r \in RunIds, f \in Fabrics, now \in Now : Start(r, f, now)
         \/ \E r \in RunIds : OtherMethod(r)
<1>1. \A inj \in Injections : inj.kind \in Kinds /\ inj.dur \in Nat
  BY DEF StoreAssumption
<1>2. 1 .. MaxStep \subseteq Nat
  BY DEF StoreAssumption
<1>3. PICK r \in RunIds :
        \/ \E f \in Fabrics, now \in Now : Start(r, f, now)
        \/ \E n \in 1 .. MaxStep : AddStep(r, n)
        \/ Finish(r)
        \/ Stop(r)
        \/ \E inj \in Injections : InjectEvent(r, inj.kind, inj.dur)
        \/ \E k \in {"save", "restore"} :
             AddCheckpointEvent(r, [kind |-> k, step |-> LatestStep(runs[r]), lost |-> 0])
  BY DEF StoreNext
<1>4. CASE \E f \in Fabrics, now \in Now : Start(r, f, now)
  BY <1>4
<1>5. CASE ~\E f \in Fabrics, now \in Now : Start(r, f, now)
  <2>1. CASE \E k \in {"save", "restore"} :
               AddCheckpointEvent(r, [kind |-> k, step |-> LatestStep(runs[r]), lost |-> 0])
    <3>1. \E e : AddCheckpointEvent(r, e)
      BY <2>1
    <3>2. QED BY <3>1 DEF OtherMethod
  <2>2. QED BY <1>1, <1>2, <1>3, <1>5, <2>1 DEF OtherMethod
<1>6. QED BY <1>4, <1>5

LEMMA StoreStepInv ==
  ASSUME StoreAssumption, ~ClockMayRegress, StoreInv, [StoreNext]_storeVars
  PROVE  StoreInv'
<1>1. StoreTypeOK'
  BY StoreStepType DEF StoreInv
<1>2. CASE UNCHANGED storeVars
  BY <1>1, <1>2 DEF StoreInv, storeVars, CapHolds, StartedInPast, Held
<1>3. CASE \E r \in RunIds, f \in Fabrics, now \in Now : Start(r, f, now)
  <2>1. PICK r \in RunIds, f \in Fabrics, now \in Now : Start(r, f, now)
    BY <1>3
  <2>2. CapHolds'
    BY <2>1, StartKeepsCap
  <2>3. now \in Nat /\ clock <= now /\ clock \in Nat
    BY NowType DEF StoreInv, StoreTypeOK
  <2>4. NoRun.started = 0
    BY DEF NoRun
  <2>5. /\ clock' = now /\ runs'[r].started = now
        /\ \A k \in RunIds \ {r} : runs'[k] = runs[k] \/ runs'[k] = NoRun
    BY <2>1, StartEffect DEF StoreInv
  <2>6. \A k \in RunIds : runs[k].started \in Nat /\ runs[k].started <= clock
    BY DEF StoreInv, StoreTypeOK, StartedInPast, RunState
  <2>7. \A k \in RunIds : runs'[k].started <= now
    BY <2>3, <2>4, <2>5, <2>6
  <2>8. QED BY <1>1, <2>2, <2>5, <2>7 DEF StoreInv, StartedInPast
<1>4. CASE \E r \in RunIds : OtherMethod(r)
  BY <1>1, <1>4, OtherMethodsKeep DEF StoreInv, CapHolds, StartedInPast
<1>5. QED BY <1>2, <1>3, <1>4, StoreNextCases

(* `max_runs' is a bound on the dict for every pattern of calls, as long as *)
(* the wall clock does not go back (runs_store.py:35-43).                   *)
THEOREM StoreCapped == ASSUME ~ClockMayRegress PROVE StoreSpec => []CapHolds
<1>1. StoreInit => StoreInv
  <2> SUFFICES ASSUME StoreInit PROVE StoreInv
    OBVIOUS
  <2>1. StoreTypeOK
    BY StoreAssumption, StoreInitType
  <2>2. Held(runs) = {}
    BY DEF StoreInit, Held, NoRun
  <2>3. CapHolds
    BY <2>2, FS_EmptySet, StoreAssumption DEF CapHolds, StoreAssumption
  <2>4. StartedInPast
    BY DEF StoreInit, StartedInPast, NoRun
  <2>5. QED BY <2>1, <2>3, <2>4 DEF StoreInv
<1>2. StoreInv /\ [StoreNext]_storeVars => StoreInv'
  BY StoreAssumption, StoreStepInv
<1>3. StoreInv => CapHolds
  BY DEF StoreInv
<1>4. QED BY <1>1, <1>2, <1>3, PTL DEF StoreSpec

(* A run leaves the dict only for a newer one, and oldest first, even when  *)
(* the clock goes back (runs_store.py:39-42).                               *)
THEOREM StoreEvictsOldest == StoreSpec => EvictsOldest
<1> DEFINE Fair ==
      \A k \in RunIds :
        (Known(k) /\ ~Known(k)') =>
           /\ \E r \in RunIds \ {k} : Running(r)' /\ runs'[r].started = clock'
           /\ \A r \in RunIds : Known(r)' => runs[k].started <= runs'[r].started
<1>1. StoreTypeOK /\ StoreNext => Fair
  <2> SUFFICES ASSUME StoreTypeOK, StoreNext PROVE Fair
    OBVIOUS
  <2>1. CASE \E r \in RunIds, f \in Fabrics, now \in Now : Start(r, f, now)
    BY <2>1, StoreAssumption, StartEffect
  <2>2. CASE \E r \in RunIds : OtherMethod(r)
    <3>1. Held(runs') = Held(runs)
      BY <2>2, OtherMethodsKeep
    <3>2. QED BY <3>1 DEF Held, Known
  <2>3. QED BY <2>1, <2>2, StoreAssumption, StoreNextCases
<1>2. StoreTypeOK /\ [StoreNext]_storeVars => [Fair]_storeVars
  BY <1>1
<1>3. StoreSpec => [][Fair]_storeVars
  BY <1>2, StoreTyped, PTL DEF StoreSpec
<1>4. QED BY <1>3 DEF EvictsOldest
=============================================================================
