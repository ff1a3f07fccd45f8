------------------------------ MODULE Scheduler ------------------------------
(***************************************************************************)
(* The multi-tenant GPU scheduler (engine/scheduler.py): simulate_scheduler *)
(* is a sequential program, a loop over a heap of arrival and completion   *)
(* events.  One action is one turn of the loop; CloseOut is what follows   *)
(* it.  What is hard here is a long history: a job may be preempted and    *)
(* resumed many times, and each time leaves a stale completion behind.     *)
(*                                                                         *)
(* A job is its place in the list of the request; times are integers; the  *)
(* team and the id of a job, which only label the answer, are left out.    *)
(***************************************************************************)
EXTENDS Integers, Sequences, FiniteSets

CONSTANTS
  NumJobs,   \* len(jobs)
  Pool,      \* pool.total_count
  Inputs     \* the requests that are simulated

Jobs      == 1 .. NumJobs
NoHorizon == -1    \* horizon is None

(* What the validation of simulate_scheduler and of its callers lets by.   *)
JobSpec == [prio : Int, gpus : 0 .. Pool, submit : Nat, dur : Nat]
Input   == [jobs : [Jobs -> JobSpec], preemption : BOOLEAN, horizon : Nat \cup {NoHorizon}]

ASSUME SchedAssumption ==
  /\ NumJobs \in Nat \ {0}
  /\ Pool \in Nat \ {0}
  /\ Inputs \subseteq Input

VARIABLES
  input,       \* the arguments of the call
  now,         \* time of the last event handled
  heap,        \* events to come
  running,     \* keys of running
  queued,      \* queued
  free,        \* free_gpus
  generation,  \* generation_counter
  state,       \* states, with the fields of running[j] of jobs that run
  phase        \* "loop", then "done"

schedVars == <<input, now, heap, running, queued, free, generation, state, phase>>

Arrival    == 0
Completion == 1

Event    == [time : Nat, type : {Arrival, Completion}, job : Jobs, gen : Nat]
Segment  == [start : Nat, end : Int]
JobState == [remaining : Nat, since : Nat, waited : Nat, preempted : Nat,
             resumedAt : Nat, gen : Nat, segments : Seq(Segment),
             status : {"never_started", "incomplete", "completed"}]

prio(j)   == input.jobs[j].prio
gpus(j)   == input.jobs[j].gpus
submit(j) == input.jobs[j].submit
dur(j)    == input.jobs[j].dur

(* The GPUs a set of jobs holds, counted one by one.                       *)
Gpus(S) == Cardinality({u \in S \X (1 .. Pool) : u[2] <= gpus(u[1])})

-----------------------------------------------------------------------------
(* Python compares tuples from the left.                                   *)
Less(x, y) ==
  \E i \in 1 .. Len(x) : x[i] < y[i] /\ \A k \in 1 .. i - 1 : x[k] = y[k]

QueueKey(j) == <<-prio(j), submit(j), j>>

EventKey(e) == <<e.time, e.type>> \o QueueKey(e.job) \o <<e.gen>>

(* sorted() is stable, and a dict is walked in order of insertion.         *)
VictimKey(j) == <<prio(j), gpus(j), -state[j].resumedAt, state[j].gen>>

First(e)  == e \in heap /\ \A f \in heap \ {e} : Less(EventKey(e), EventKey(f))

(* Mutant: no horizon is taken for zero.                                   *)
Beyond_NoneIsZero(e) == e.time > (IF input.horizon = NoHorizon THEN 0 ELSE input.horizon)

Beyond(e) == input.horizon # NoHorizon /\ e.time > input.horizon

(* Mutant: any completion of a running job counts.                         *)
Live_AnyGeneration(e) == e.job \in running

(* A completion is of the job's current stint.                             *)
Live(e) == e.job \in running /\ state[e.job].gen = e.gen

(* Mutant: equal priority may be preempted.                                *)
Candidates_Equal(j) == {k \in running : prio(k) <= prio(j)}

Candidates(j) == {k \in running : prio(k) < prio(j)}

(* The candidates in order, up to the one that frees enough.               *)
Victims(j) ==
  {c \in Candidates(j) :
     free + Gpus({d \in Candidates(j) : Less(VictimKey(d), VictimKey(c))}) < gpus(j)}

CanPreempt(j) == input.preemption /\ free + Gpus(Candidates(j)) >= gpus(j)

(* Mutants: nothing is placed; every job that fits alone is placed; a job  *)
(* that does not fit blocks the ones behind it.                            *)
Swept_None(P, avail) == P = {}
Swept_EachAlone(P, avail) == P = {j \in queued : gpus(j) <= avail}
Swept_Blocking(P, avail) ==
  P = {j \in queued : Gpus({k \in queued : ~Less(QueueKey(j), QueueKey(k))}) <= avail}

(* P is what a sweep with `avail' free GPUs places: in queue order, each   *)
(* job that fits beside the ones placed before it.                         *)
Swept(P, avail) ==
  \A j \in queued :
    j \in P <=> gpus(j) <= avail - Gpus({k \in P : Less(QueueKey(k), QueueKey(j))})

-----------------------------------------------------------------------------
(* Preempting jobs, and placing the jobs P in queue order.                 *)

Rank(P, j) == Cardinality({k \in P : ~Less(QueueKey(j), QueueKey(k))})

Preempted(j) ==
  LET left == state[j].remaining - (now' - state[j].resumedAt)
  IN  [state[j] EXCEPT !.segments  = Append(@, [start |-> state[j].resumedAt, end |-> now']),
                       !.remaining = IF left > 0 THEN left ELSE 0,
                       !.preempted = @ + 1,
                       !.since     = now']

Placed(P, j) ==
  [state[j] EXCEPT !.gen       = generation + Rank(P, j),
                   !.resumedAt = now',
                   !.waited    = @ + (now' - state[j].since)]

Completed(j) ==
  [state[j] EXCEPT !.segments = Append(@, [start |-> state[j].resumedAt, end |-> now']),
                   !.status   = "completed"]

Completions(P) ==
  {[time |-> now' + state[j].remaining, type |-> Completion, job |-> j,
    gen |-> generation + Rank(P, j)] : j \in P}

(* Mutant: preempting frees no GPU.                                        *)
FreeAfter_Forgets(left, P) == free - Gpus(P)

FreeAfter(left, P) == free + Gpus(left) - Gpus(P)

(* The jobs `left' leave the pool, and the jobs P enter it.                *)
Rearrange(e, left, P) ==
  /\ heap' = (heap \ {e}) \cup Completions(P)
  /\ running' = (running \ left) \cup P
  /\ free' = FreeAfter(left, P)
  /\ generation' = generation + Cardinality(P)

-----------------------------------------------------------------------------
(* A turn of the loop.                                                     *)

Pop(e) == /\ phase = "loop" /\ First(e) /\ ~Beyond(e)
          /\ now' = e.time
          /\ UNCHANGED <<input, phase>>

Admit(e) ==
  /\ Pop(e) /\ e.type = Arrival /\ gpus(e.job) <= free
  /\ Rearrange(e, {}, {e.job})
  /\ state' = [state EXCEPT ![e.job] = Placed({e.job}, e.job)]
  /\ UNCHANGED queued

AdmitByPreempting(e) ==
  /\ Pop(e) /\ e.type = Arrival /\ gpus(e.job) > free /\ CanPreempt(e.job)
  /\ Rearrange(e, Victims(e.job), {e.job})
  /\ state' = [j \in Jobs |-> IF j = e.job THEN Placed({e.job}, j)
                              ELSE IF j \in Victims(e.job) THEN Preempted(j)
                              ELSE state[j]]
  /\ queued' = queued \cup Victims(e.job)

Enqueue(e) ==
  /\ Pop(e) /\ e.type = Arrival /\ gpus(e.job) > free /\ ~CanPreempt(e.job)
  /\ queued' = queued \cup {e.job}
  /\ heap' = heap \ {e}
  /\ UNCHANGED <<running, free, generation, state>>

Complete(e) ==
  /\ Pop(e) /\ e.type = Completion /\ Live(e)
  /\ \E P \in SUBSET queued :
       /\ Swept(P, free + gpus(e.job))
       /\ Rearrange(e, {e.job}, P)
       /\ state' = [j \in Jobs |-> IF j = e.job THEN Completed(j)
                                   ELSE IF j \in P THEN Placed(P, j)
                                   ELSE state[j]]
       /\ queued' = queued \ P

SkipStale(e) ==
  /\ Pop(e) /\ e.type = Completion /\ ~Live(e)
  /\ heap' = heap \ {e}
  /\ UNCHANGED <<running, queued, free, generation, state>>

(* After the loop: cut off the jobs that still run, and name how each ends.*)
CloseOut ==
  LET hit == \E e \in heap : First(e) /\ Beyond(e)
      cutoff == IF hit THEN input.horizon
                ELSE CHOOSE t \in {state[j].resumedAt : j \in running} :
                       \A j \in running : state[j].resumedAt <= t
      cut(j) == IF j \in running
                THEN Append(state[j].segments, [start |-> state[j].resumedAt, end |-> cutoff])
                ELSE state[j].segments
  IN  /\ phase = "loop" /\ (heap = {} \/ hit)
      /\ phase' = "done"
      /\ state' = [j \in Jobs |->
           [state[j] EXCEPT !.segments = cut(j),
                            !.status = IF @ = "completed" THEN @
                                       ELSE IF cut(j) = <<>> THEN "never_started"
                                       ELSE "incomplete"]]
      /\ UNCHANGED <<input, now, heap, running, queued, free, generation>>

-----------------------------------------------------------------------------
SchedInit ==
  /\ input \in Inputs
  /\ now = 0
  /\ heap = {[time |-> submit(j), type |-> Arrival, job |-> j, gen |-> 0] : j \in Jobs}
  /\ running = {}
  /\ queued = {}
  /\ free = Pool
  /\ generation = 0
  /\ state = [j \in Jobs |-> [remaining |-> dur(j), since |-> submit(j), waited |-> 0,
                              preempted |-> 0, resumedAt |-> 0, gen |-> 0,
                              segments |-> <<>>, status |-> "never_started"]]
  /\ phase = "loop"

Turn(e) == \/ Admit(e) \/ AdmitByPreempting(e) \/ Enqueue(e)
           \/ Complete(e) \/ SkipStale(e)

SchedNext == (\E e \in heap : Turn(e)) \/ CloseOut

(* The loop runs until it ends: the function is called and not interrupted.*)
SchedSpec == SchedInit /\ [][SchedNext]_schedVars /\ WF_schedVars(SchedNext)

-----------------------------------------------------------------------------
SchedTypeOK ==
  /\ input \in Input
  /\ now \in Nat
  /\ heap \subseteq Event
  /\ running \subseteq Jobs
  /\ queued \subseteq Jobs
  /\ free \in 0 .. Pool
  /\ generation \in Nat
  /\ state \in [Jobs -> JobState]
  /\ phase \in {"loop", "done"}

(* No GPU is lost or counted twice, through any history of preemptions,    *)
(* resumptions and sweeps (scheduler.py:127-150, 195-196).                 *)
GpusConserved == free + Gpus(running) = Pool

(* A job's time adds up: what it waited and what it worked fill the time   *)
(* from its submission, so that a completed job ends exactly its duration  *)
(* and its wait after it was submitted, however often it was interrupted   *)
(* (scheduler.py:136, 144-148, 197-198).                                   *)
TimeAddsUp ==
  \A j \in Jobs :
    LET s == state[j]
    IN  /\ j \in running => s.resumedAt = submit(j) + s.waited + (dur(j) - s.remaining)
        /\ j \in queued => s.since = submit(j) + s.waited + (dur(j) - s.remaining)
        /\ s.status = "completed" =>
             s.segments[Len(s.segments)].end = submit(j) + s.waited + dur(j)

(* A queued job always has a running one to wait for: the queue is swept   *)
(* only when a job completes, so nothing would ever start it otherwise     *)
(* (scheduler.py:152-182, 200-203).                                        *)
QueuedWaitsOnRunning == queued # {} => running # {}

(* Without preemption no GPU idles that a queued job could use: a sweep    *)
(* skips what does not fit and places all that does (scheduler.py:177-182).*)
NoIdleFit == ~input.preemption => \A j \in queued : gpus(j) > free

(* The timeline that is returned never uses more GPUs at an instant than   *)
(* the pool has, and ends within the horizon; so the utilization is at     *)
(* most 100% (scheduler.py:205-219).                                       *)
SegmentsOf(j) == {state[j].segments[i] : i \in 1 .. Len(state[j].segments)}

TimelineFits ==
  phase = "done" =>
    \A j \in Jobs : \A s \in SegmentsOf(j) :
      /\ s.start >= submit(j) /\ s.start <= s.end
      /\ input.horizon # NoHorizon => s.end <= input.horizon
      /\ Gpus({k \in Jobs : \E u \in SegmentsOf(k) : u.start <= s.start /\ s.start < u.end})
           <= Pool

(* A running job gives way only to a job of strictly higher priority that  *)
(* starts in its place (scheduler.py:161, 172-174).                        *)
PreemptsOnlyLower ==
  [][\A v \in running \cap queued' :
       \E j \in running' \ running : prio(v) < prio(j)]_schedVars

(* With no horizon every job completes: none starves, whatever its size    *)
(* and priority (scheduler.py:184-203).                                    *)
AllComplete ==
  input.horizon = NoHorizon ~> \A j \in Jobs : state[j].status = "completed"

-----------------------------------------------------------------------------
(* What a comment says and the code does not do.                           *)

(* scheduler.py:106-108: a job that finishes frees its capacity before a   *)
(* same-instant arrival is made to queue.                                  *)
FinishingFreesFirst ==
  [][\A j \in Jobs : (j \in queued' \ queued /\ j \notin running) =>
       \A k \in running : state[k].resumedAt + state[k].remaining > now']_schedVars
=============================================================================
