----------------------------- MODULE MCScheduler -----------------------------
(* Scheduler for TLC: all requests of a few jobs with small numbers, and    *)
(* longer ones in which a job is preempted and resumed more than once.      *)
EXTENDS Scheduler

CONSTANTS Prios, MinGpus, Submits, Durations, Preemption, Ends,
          LongSubmits, LongDurations

(* Places in the list only break ties between jobs of equal priority and    *)
(* submission time, so a list sorted by these stands for its permutations.  *)
Sorted(jobs) ==
  \A j \in 1 .. NumJobs - 1 :
    ~Less(<<-jobs[j + 1].prio, jobs[j + 1].submit>>, <<-jobs[j].prio, jobs[j].submit>>)

MCRequests(submits, durations) ==
  {s \in [Jobs -> [prio : Prios, gpus : MinGpus .. Pool, submit : submits, dur : durations]] :
     Sorted(s)}

(* A request that is shifted in time runs alike, so the first job comes at  *)
(* once.  A horizon cuts a history short, of whichever kind: only those     *)
(* with preemption are cut.                                                 *)
MCShort == LET jobs == {s \in MCRequests(Submits, Durations) : \E j \in Jobs : s[j].submit = 0}
           IN  [jobs : jobs, preemption : {TRUE}, horizon : Ends]
               \cup [jobs : jobs, preemption : Preemption, horizon : {NoHorizon}]

(* All jobs but the last are spread over more instants; the last needs      *)
(* nothing, as a trace lets by.                                             *)
MCNothing == [prio |-> 0, gpus |-> 0, submit |-> 0, dur |-> 0]
MCLong ==
  [jobs : {s \in {[j \in Jobs |-> IF j = NumJobs THEN MCNothing ELSE t[j]] :
                     t \in [1 .. NumJobs - 1 -> [prio : Prios, gpus : MinGpus .. Pool,
                                                submit : LongSubmits, dur : LongDurations]]} :
             Sorted(s) /\ \E j \in 1 .. NumJobs - 1 : s[j].submit = 0},
   preemption : {TRUE}, horizon : {NoHorizon}]

MCInputs == MCShort \cup MCLong
=============================================================================
