---------------------------- MODULE EngineProofs ----------------------------
(***************************************************************************)
(* Theorems about the simulations of engine/: the GPU scheduler, the       *)
(* autoscaler and MIG packing, for any requests.                           *)
(*                                                                         *)
(* The scheduler: GPUs are conserved and never overdrawn, the queue never  *)
(* waits for nothing nor beside idle GPUs, preemption goes down in         *)
(* priority, the times of every job add up, and the timeline that is       *)
(* returned fits into the pool.  SchedInv says where a job is; TimesInv    *)
(* adds that a running job has one completion to come, at the end of its   *)
(* stint, and how far each job has come; PoolInTime adds who held GPUs at  *)
(* every instant that is past.                                             *)
(*                                                                         *)
(* The autoscaler: PointsInv says what the points reported so far tell of  *)
(* the turns, and of the window and the backlog that are kept of them.     *)
(*                                                                         *)
(* MIG packing: MigStock is the account of the slots of every GPU.  Both   *)
(* need sums over finite sets; no induction theorem can be used for them,  *)
(* so a smallest counterexample is shown not to exist.                     *)
(***************************************************************************)
EXTENDS Scheduler, Autoscaler, MigPacking, FiniteSetTheorems, FunctionTheorems,
        SequenceTheorems, WellFoundedInduction, TLAPS

-----------------------------------------------------------------------------
(* Counting GPUs.                                                           *)

LEMMA GpusType ==
  ASSUME SchedAssumption, NEW S \in SUBSET Jobs
  PROVE  /\ IsFiniteSet({u \in S \X (1 .. Pool) : u[2] <= gpus(u[1])})
         /\ Gpus(S) \in Nat
<1> DEFINE units == {u \in S \X (1 .. Pool) : u[2] <= gpus(u[1])}
<1>1. NumJobs \in Int /\ Pool \in Int
  BY DEF SchedAssumption
<1>2. IsFiniteSet(Jobs) /\ IsFiniteSet(1 .. Pool)
  BY <1>1, FS_Interval DEF Jobs
<1>3. IsFiniteSet(S)
  BY <1>2, FS_Subset
<1>4. IsFiniteSet(S \X (1 .. Pool))
  BY <1>2, <1>3, FS_Product
<1>5. units \in SUBSET (S \X (1 .. Pool))
  OBVIOUS
<1>6. IsFiniteSet(units)
  BY <1>4, <1>5, FS_Subset
<1>7. QED BY <1>6, FS_CardinalityType DEF Gpus

LEMMA GpusUnion ==
  ASSUME SchedAssumption, NEW S \in SUBSET Jobs, NEW T \in SUBSET Jobs, S \cap T = {}
  PROVE  Gpus(S \cup T) = Gpus(S) + Gpus(T)
<1> DEFINE units(X) == {u \in X \X (1 .. Pool) : u[2] <= gpus(u[1])}
<1>1. IsFiniteSet(units(S)) /\ IsFiniteSet(units(T))
  BY GpusType
<1>2. units(S \cup T) = units(S) \cup units(T) /\ units(S) \cap units(T) = {}
  OBVIOUS
<1>3. /\ Cardinality(units(S)) \in Nat
      /\ Cardinality(units(T)) \in Nat
  BY <1>1, FS_CardinalityType
<1> HIDE DEF units
<1>4. Cardinality(units(S) \cup units(T)) = Cardinality(units(S)) + Cardinality(units(T))
  BY <1>1, <1>2, <1>3, FS_Union, FS_EmptySet
<1>5. QED BY <1>2, <1>4 DEF Gpus, units

LEMMA GpusDifference ==
  ASSUME SchedAssumption, NEW S \in SUBSET Jobs, NEW T \in SUBSET S
  PROVE  Gpus(S \ T) = Gpus(S) - Gpus(T)
<1>1. S \ T \in SUBSET Jobs /\ T \in SUBSET Jobs /\ (S \ T) \cap T = {} /\ (S \ T) \cup T = S
  OBVIOUS
<1>2. Gpus(S) = Gpus(S \ T) + Gpus(T)
  BY <1>1, GpusUnion
<1>3. Gpus(S \ T) \in Nat /\ Gpus(T) \in Nat
  BY <1>1, GpusType
<1>4. QED BY <1>2, <1>3

LEMMA GpusNone ==
  ASSUME SchedAssumption PROVE Gpus({}) = 0
<1>1. {u \in {} \X (1 .. Pool) : u[2] <= gpus(u[1])} = {}
  OBVIOUS
<1>2. QED BY <1>1, FS_EmptySet DEF Gpus

LEMMA InputType ==
  ASSUME input \in Input, NEW j \in Jobs
  PROVE  /\ gpus(j) \in 0 .. Pool /\ prio(j) \in Int
         /\ submit(j) \in Nat /\ dur(j) \in Nat
  BY DEF Input, JobSpec, gpus, prio, submit, dur

LEMMA GpusOne ==
  ASSUME SchedAssumption, input \in Input, NEW j \in Jobs
  PROVE  Gpus({j}) = gpus(j)
<1> DEFINE n == gpus(j)
           units == {u \in {j} \X (1 .. Pool) : u[2] <= gpus(u[1])}
           f == [k \in 1 .. n |-> <<j, k>>]
<1>1. n \in Nat /\ n <= Pool /\ Pool \in Nat
  BY InputType DEF SchedAssumption
<1>2. units = {<<j, k>> : k \in 1 .. n}
  BY <1>1
<1>3. f \in Bijection(1 .. n, units)
  <2>1. f \in [1 .. n -> units]
    BY <1>2
  <2>2. \A a, b \in 1 .. n : f[a] = f[b] => a = b
    OBVIOUS
  <2>3. \A u \in units : \E k \in 1 .. n : f[k] = u
    BY <1>2
  <2> HIDE DEF f, units
  <2>4. QED BY <2>1, <2>2, <2>3, Fun_IsBij
<1>4. ExistsBijection(1 .. n, units)
  BY <1>3 DEF ExistsBijection
<1>5. Cardinality(units) = n
  BY ONLY <1>1, <1>4, FS_CountingElements
<1>6. QED BY <1>5 DEF Gpus

-----------------------------------------------------------------------------
(* Order.  Keys are compared from the left, and finitely many of them have  *)
(* a least one.                                                             *)

LEMMA LessIrreflexive ==
  ASSUME NEW x \in Seq(Int) PROVE ~Less(x, x)
BY DEF Less

LEMMA LessTransitive ==
  ASSUME NEW n \in Nat, NEW x \in Seq(Int), NEW y \in Seq(Int), NEW z \in Seq(Int),
         Len(x) = n, Len(y) = n, Len(z) = n, Less(x, y), Less(y, z)
  PROVE  Less(x, z)
<1>1. PICK i \in 1 .. n : x[i] < y[i] /\ \A k \in 1 .. i - 1 : x[k] = y[k]
  BY DEF Less
<1>2. PICK l \in 1 .. n : y[l] < z[l] /\ \A k \in 1 .. l - 1 : y[k] = z[k]
  BY DEF Less
<1>3. DOMAIN x = 1 .. n /\ DOMAIN y = 1 .. n /\ DOMAIN z = 1 .. n
  OBVIOUS
<1>4. \A k \in 1 .. n : x[k] \in Int /\ y[k] \in Int /\ z[k] \in Int
  OBVIOUS
<1>5. CASE i < l
  <2>1. y[i] = z[i] /\ \A k \in 1 .. i - 1 : x[k] = z[k]
    BY <1>1, <1>2, <1>5
  <2>2. x[i] < z[i]
    BY <1>1, <2>1
  <2>3. QED BY <2>1, <2>2 DEF Less
<1>6. CASE i >= l
  <2>1. x[l] <= y[l]
    <3>1. CASE i = l
      BY <1>1, <1>4, <3>1
    <3>2. CASE l < i
      BY <1>1, <1>4, <3>2
    <3>3. QED BY <1>6, <3>1, <3>2
  <2>2. \A k \in 1 .. l - 1 : x[k] = z[k]
    BY <1>1, <1>2, <1>6
  <2>3. x[l] < z[l]
    BY <1>2, <1>4, <2>1
  <2>4. QED BY <2>2, <2>3 DEF Less
<1>7. QED BY <1>5, <1>6

LEMMA SmallestOf ==
  ASSUME NEW T \in SUBSET Nat, T # {}
  PROVE  \E n \in T : \A m \in T : n <= m
<1> DEFINE R == OpToRel(<, Nat)
<1>1. IsWellFoundedOn(R, Nat)
  BY NatLessThanWellFounded
<1>2. PICK n \in T : \A m \in T : ~(<<m, n>> \in R)
  BY <1>1, WFMin
<1>3. ASSUME NEW m \in T PROVE n <= m
  <2>1. ~(<<m, n>> \in R)
    BY <1>2
  <2>2. m < n => <<m, n>> \in R
    BY DEF OpToRel
  <2> HIDE DEF R
  <2>3. QED BY <2>1, <2>2
<1>4. QED BY <1>3

LEMMA LeastJob ==
  ASSUME SchedAssumption, NEW S \in SUBSET Jobs, S # {}, NEW R,
         \A j \in S : <<j, j>> \notin R,
         \A j, k, l \in S : <<j, k>> \in R /\ <<k, l>> \in R => <<j, l>> \in R
  PROVE  \E c \in S : \A d \in S : <<d, c>> \notin R
<1> DEFINE below(c) == {d \in S : <<d, c>> \in R}
           T == {Cardinality(below(c)) : c \in S}
<1>0. IsFiniteSet(Jobs)
  <2>1. NumJobs \in Int
    BY DEF SchedAssumption
  <2>2. QED BY <2>1, FS_Interval DEF Jobs
<1>1. IsFiniteSet(S)
  BY <1>0, FS_Subset
<1>2. \A c \in S : IsFiniteSet(below(c)) /\ Cardinality(below(c)) \in Nat
  BY <1>1, FS_Subset, FS_CardinalityType
<1> HIDE DEF below
<1>3. T \in SUBSET Nat /\ T # {}
  BY <1>2
<1>4. PICK n \in T : \A m \in T : n <= m
  BY <1>3, SmallestOf
<1>5. PICK c \in S : n = Cardinality(below(c))
  OBVIOUS
<1>6. ASSUME NEW d \in S, <<d, c>> \in R PROVE FALSE
  <2>1. below(d) \in SUBSET below(c) /\ d \in below(c) /\ d \notin below(d)
    BY <1>6 DEF below
  <2>2. Cardinality(below(d)) <= Cardinality(below(c)) /\ Cardinality(below(c)) # Cardinality(below(d))
    BY <1>2, <2>1, FS_Subset
  <2>3. Cardinality(below(d)) \in T /\ n <= Cardinality(below(d))
    BY <1>4
  <2>4. QED BY <1>2, <1>5, <2>2, <2>3
<1>7. QED BY <1>6

LEMMA QueueKeyIs ==
  ASSUME input \in Input, NEW j \in Jobs, Jobs \in SUBSET Int
  PROVE  /\ QueueKey(j) \in Seq(Int) /\ Len(QueueKey(j)) = 3
         /\ QueueKey(j)[1] = -prio(j) /\ QueueKey(j)[2] = submit(j) /\ QueueKey(j)[3] = j
<1>1. -prio(j) \in Int /\ submit(j) \in Int /\ j \in Int
  BY InputType
<1>2. QED BY <1>1 DEF QueueKey

LEMMA QueueOrder ==
  ASSUME SchedAssumption, input \in Input, NEW j \in Jobs, NEW k \in Jobs
  PROVE  /\ ~Less(QueueKey(j), QueueKey(j))
         /\ \/ Less(QueueKey(j), QueueKey(k)) \/ Less(QueueKey(k), QueueKey(j)) \/ j = k
         /\ \A l \in Jobs : (Less(QueueKey(j), QueueKey(k)) /\ Less(QueueKey(k), QueueKey(l)))
              => Less(QueueKey(j), QueueKey(l))
<1>0. Jobs \in SUBSET Int
  BY DEF Jobs, SchedAssumption
<1>1. ~Less(QueueKey(j), QueueKey(j))
  BY <1>0, QueueKeyIs, LessIrreflexive
<1>2. \/ Less(QueueKey(j), QueueKey(k)) \/ Less(QueueKey(k), QueueKey(j)) \/ j = k
  <2> DEFINE x == QueueKey(j)
             y == QueueKey(k)
  <2>1. /\ x \in Seq(Int) /\ Len(x) = 3 /\ y \in Seq(Int) /\ Len(y) = 3
        /\ x[3] = j /\ y[3] = k
    BY <1>0, QueueKeyIs
  <2> HIDE DEF x, y
  <2>2. /\ x[1] \in Int /\ x[2] \in Int /\ x[3] \in Int
        /\ y[1] \in Int /\ y[2] \in Int /\ y[3] \in Int
    BY <2>1
  <2>3. x[1] # y[1] => Less(x, y) \/ Less(y, x)
    BY <2>1, <2>2 DEF Less
  <2>4. x[1] = y[1] /\ x[2] # y[2] => Less(x, y) \/ Less(y, x)
    BY <2>1, <2>2 DEF Less
  <2>5. x[1] = y[1] /\ x[2] = y[2] /\ x[3] # y[3] => Less(x, y) \/ Less(y, x)
    BY <2>1, <2>2 DEF Less
  <2>6. Less(x, y) \/ Less(y, x) \/ j = k
    BY <2>1, <2>3, <2>4, <2>5
  <2>7. QED BY <2>6 DEF x, y
<1>3. ASSUME NEW l \in Jobs, Less(QueueKey(j), QueueKey(k)), Less(QueueKey(k), QueueKey(l))
      PROVE  Less(QueueKey(j), QueueKey(l))
  BY <1>0, <1>3, QueueKeyIs, LessTransitive
<1>4. QED BY <1>1, <1>2, <1>3

(* A sweep places no more than there is: what is placed last fits beside    *)
(* the others.                                                              *)
LEMMA SweptFits ==
  ASSUME SchedAssumption, input \in Input, queued \in SUBSET Jobs,
         NEW avail \in Nat, NEW P \in SUBSET queued, Swept(P, avail)
  PROVE  Gpus(P) <= avail
<1>1. CASE P = {}
  BY <1>1, GpusNone
<1>2. CASE P # {}
  <2> DEFINE R == {p \in P \X P : Less(QueueKey(p[2]), QueueKey(p[1]))}
  <2>1. \A j \in P : <<j, j>> \notin R
    BY QueueOrder
  <2>2. \A j, k, l \in P : <<j, k>> \in R /\ <<k, l>> \in R => <<j, l>> \in R
    <3> SUFFICES ASSUME NEW j \in P, NEW k \in P, NEW l \in P, <<j, k>> \in R, <<k, l>> \in R
                 PROVE  <<j, l>> \in R
      OBVIOUS
    <3>1. Less(QueueKey(k), QueueKey(j)) /\ Less(QueueKey(l), QueueKey(k))
      OBVIOUS
    <3>2. Less(QueueKey(l), QueueKey(j))
      BY <3>1, QueueOrder
    <3>3. QED BY <3>2
  <2>3. PICK last \in P : \A k \in P : <<k, last>> \notin R
    <3> HIDE DEF R
    <3>1. P \in SUBSET Jobs
      OBVIOUS
    <3>2. QED BY <1>2, <2>1, <2>2, <3>1, LeastJob
  <2>4. {k \in P : Less(QueueKey(k), QueueKey(last))} = P \ {last}
    <3>1. \A k \in P : ~Less(QueueKey(last), QueueKey(k))
      BY <2>3
    <3>2. \A k \in P : k # last => Less(QueueKey(k), QueueKey(last))
      BY <3>1, QueueOrder
    <3>3. ~Less(QueueKey(last), QueueKey(last))
      BY <3>1
    <3>4. QED BY <3>2, <3>3
  <2>5. gpus(last) <= avail - Gpus(P \ {last})
    BY <2>4 DEF Swept
  <2>6. /\ Gpus(P \ {last}) = Gpus(P) - Gpus({last}) /\ Gpus({last}) = gpus(last)
        /\ Gpus(P) \in Nat /\ gpus(last) \in Nat
    <3>1. last \in Jobs /\ P \in SUBSET Jobs /\ {last} \in SUBSET P
      OBVIOUS
    <3>2. QED BY <3>1, GpusDifference, GpusOne, GpusType, InputType DEF SchedAssumption
  <2>7. QED BY <2>5, <2>6
<1>3. QED BY <1>1, <1>2

LEMMA GpusMonotone ==
  ASSUME SchedAssumption, NEW S \in SUBSET Jobs, NEW T \in SUBSET S
  PROVE  Gpus(T) <= Gpus(S)
<1>1. Gpus(S \ T) = Gpus(S) - Gpus(T)
  BY GpusDifference
<1>2. S \ T \in SUBSET Jobs /\ T \in SUBSET Jobs
  OBVIOUS
<1>3. Gpus(S \ T) \in Nat /\ Gpus(S) \in Nat /\ Gpus(T) \in Nat
  BY <1>2, GpusType
<1>4. QED BY <1>1, <1>3

-----------------------------------------------------------------------------
(* The inductive invariant: the jobs that arrive next are neither running   *)
(* nor queued, so that nobody is placed twice; the rest is what is proved.  *)

EventsOK ==
  /\ \A e \in heap : e.job \in Jobs /\ e.type \in {Arrival, Completion}
  /\ \A e, f \in heap : (e.type = Arrival /\ f.type = Arrival /\ e.job = f.job) => e = f

PlacesApart ==
  /\ running \in SUBSET Jobs
  /\ queued \in SUBSET Jobs
  /\ running \cap queued = {}
  /\ \A e \in heap : e.type = Arrival => e.job \notin running \cup queued

SchedInv ==
  /\ input \in Input
  /\ free \in Int
  /\ EventsOK
  /\ PlacesApart
  /\ GpusConserved
  /\ QueuedWaitsOnRunning

(* The GPUs after jobs have left and others have entered the pool.          *)
LEMMA RearrangeConserves ==
  ASSUME SchedAssumption, SchedInv, NEW e, NEW left \in SUBSET running,
         NEW P \in SUBSET Jobs, P \cap running = {}, Rearrange(e, left, P), input' = input
  PROVE  free' \in Int /\ GpusConserved'
<1>1. running \in SUBSET Jobs /\ left \in SUBSET Jobs /\ running \ left \in SUBSET Jobs
  BY DEF SchedInv, PlacesApart
<1>2. Gpus(left) \in Nat /\ Gpus(P) \in Nat /\ Gpus(running) \in Nat
  BY <1>1, GpusType
<1>3. Gpus(running \ left) = Gpus(running) - Gpus(left)
  BY <1>1, GpusDifference
<1>4. Gpus((running \ left) \cup P) = Gpus(running \ left) + Gpus(P)
  BY <1>1, GpusUnion
<1>5. Gpus(running)' = Gpus((running \ left) \cup P)
  BY DEF Gpus, gpus, Rearrange
<1>6. free' = free + Gpus(left) - Gpus(P)
  BY DEF Rearrange, FreeAfter
<1>7. free \in Int /\ free + Gpus(running) = Pool /\ Pool \in Nat
  BY DEF SchedInv, GpusConserved, SchedAssumption
<1>8. QED BY <1>2, <1>3, <1>4, <1>5, <1>6, <1>7 DEF GpusConserved

(* Completions are the only events that are added.                          *)
LEMMA RearrangeEvents ==
  ASSUME SchedInv, NEW e \in heap, NEW left, NEW P \in SUBSET Jobs, Rearrange(e, left, P)
  PROVE  /\ EventsOK'
         /\ \A f \in heap' : f.type = Arrival => f \in heap \ {e}
<1>1. \A f \in Completions(P) : f.type = Completion /\ f.job \in Jobs
  BY DEF Completions
<1>2. heap' = (heap \ {e}) \cup Completions(P)
  BY DEF Rearrange
<1>3. Arrival # Completion
  BY DEF Arrival, Completion
<1>4. QED BY <1>1, <1>2, <1>3 DEF SchedInv, EventsOK

LEMMA TurnInv ==
  ASSUME SchedAssumption, SchedInv, NEW e \in heap, Turn(e)
  PROVE  SchedInv'
<1> DEFINE j == e.job
<1>1. /\ e.job \in Jobs
      /\ input \in Input /\ free \in Int
      /\ running \in SUBSET Jobs /\ queued \in SUBSET Jobs /\ running \cap queued = {}
  BY DEF SchedInv, EventsOK, PlacesApart
<1>2. input' = input
  BY DEF Turn, Admit, AdmitByPreempting, Enqueue, Complete, SkipStale, Pop
<1>3. gpus(e.job) \in 0 .. Pool /\ Pool \in Nat
  BY <1>1, InputType DEF SchedAssumption
<1>4. e.type = Arrival =>
        /\ e.job \notin running \cup queued
        /\ \A f \in heap \ {e} : f.type = Arrival => f.job # e.job
  BY DEF SchedInv, EventsOK, PlacesApart
<1>5. CASE Admit(e)
  <2>1. /\ Rearrange(e, {}, {e.job}) /\ e.type = Arrival
        /\ queued' = queued /\ running' = running \cup {e.job}
    BY <1>5 DEF Admit, Rearrange
  <2>2. free' \in Int /\ GpusConserved'
    BY <1>1, <1>2, <1>4, <2>1, RearrangeConserves
  <2>3. EventsOK' /\ \A f \in heap' : f.type = Arrival => f \in heap \ {e}
    BY <1>1, <2>1, RearrangeEvents
  <2>4. PlacesApart'
    BY <1>1, <1>4, <2>1, <2>3 DEF SchedInv, PlacesApart
  <2>5. QueuedWaitsOnRunning'
    BY <2>1 DEF QueuedWaitsOnRunning
  <2>6. QED BY <1>1, <1>2, <2>2, <2>3, <2>4, <2>5 DEF SchedInv
<1>6. CASE AdmitByPreempting(e)
  <2> DEFINE V == Victims(e.job)
  <2>1. /\ Rearrange(e, V, {e.job}) /\ e.type = Arrival
        /\ queued' = queued \cup V /\ running' = (running \ V) \cup {e.job}
    BY <1>6 DEF AdmitByPreempting, Rearrange
  <2>2. V \in SUBSET running
    BY DEF Victims, Candidates
  <2> HIDE DEF V
  <2>3. free' \in Int /\ GpusConserved'
    BY <1>1, <1>2, <1>4, <2>1, <2>2, RearrangeConserves
  <2>4. EventsOK' /\ \A f \in heap' : f.type = Arrival => f \in heap \ {e}
    BY <1>1, <2>1, RearrangeEvents
  <2>5. PlacesApart'
    BY <1>1, <1>4, <2>1, <2>2, <2>4 DEF SchedInv, PlacesApart
  <2>6. QueuedWaitsOnRunning'
    BY <2>1 DEF QueuedWaitsOnRunning
  <2>7. QED BY <1>1, <1>2, <2>3, <2>4, <2>5, <2>6 DEF SchedInv
<1>7. CASE Enqueue(e)
  <2>1. /\ e.type = Arrival /\ gpus(e.job) > free
        /\ queued' = queued \cup {e.job} /\ heap' = heap \ {e}
        /\ running' = running /\ free' = free
    BY <1>7 DEF Enqueue
  <2>2. running # {}
    <3> SUFFICES ASSUME running = {} PROVE FALSE
      OBVIOUS
    <3>1. free = Pool
      BY <1>1, <1>3, GpusNone DEF SchedInv, GpusConserved
    <3>2. QED BY <1>3, <2>1, <3>1
  <2>3. GpusConserved'
    BY <1>2, <2>1 DEF SchedInv, GpusConserved, Gpus, gpus
  <2>4. EventsOK'
    BY <2>1 DEF SchedInv, EventsOK
  <2>5. PlacesApart'
    BY <1>1, <1>4, <2>1 DEF SchedInv, PlacesApart
  <2>6. QED BY <1>1, <1>2, <2>1, <2>2, <2>3, <2>4, <2>5 DEF SchedInv, QueuedWaitsOnRunning
<1>8. CASE Complete(e)
  <2>1. PICK P \in SUBSET queued :
          /\ Swept(P, free + gpus(e.job))
          /\ Rearrange(e, {e.job}, P)
          /\ queued' = queued \ P
    BY <1>8 DEF Complete
  <2>2. e.job \in running /\ running' = (running \ {e.job}) \cup P
    BY <1>8, <2>1 DEF Complete, Live, Rearrange
  <2>3. free' \in Int /\ GpusConserved'
    BY <1>1, <1>2, <2>1, <2>2, RearrangeConserves
  <2>4. EventsOK' /\ \A f \in heap' : f.type = Arrival => f \in heap \ {e}
    BY <1>1, <2>1, RearrangeEvents
  <2>5. PlacesApart'
    BY <1>1, <2>1, <2>2, <2>4 DEF SchedInv, PlacesApart
  <2>6. QueuedWaitsOnRunning'
    <3> SUFFICES ASSUME running' = {}, NEW k \in queued' PROVE FALSE
      BY DEF QueuedWaitsOnRunning
    <3>1. running = {e.job} /\ P = {} /\ k \in queued
      BY <2>1, <2>2
    <3>2. free + gpus(e.job) = Pool
      BY <1>1, <3>1, GpusOne DEF SchedInv, GpusConserved
    <3>3. {l \in P : Less(QueueKey(l), QueueKey(k))} = {}
      BY <3>1
    <3>4. gpus(k) <= (free + gpus(e.job)) - Gpus({l \in P : Less(QueueKey(l), QueueKey(k))})
      BY <1>1, <1>3, <3>1, <3>2, <3>3, GpusNone, InputType
    <3>5. k \in P
      BY <2>1, <3>1, <3>4 DEF Swept
    <3>6. QED BY <3>1, <3>5
  <2>7. QED BY <1>1, <1>2, <2>3, <2>4, <2>5, <2>6 DEF SchedInv
<1>9. CASE SkipStale(e)
  <2>1. heap' = heap \ {e} /\ UNCHANGED <<running, queued, free>>
    BY <1>9 DEF SkipStale
  <2>2. GpusConserved'
    BY <1>2, <2>1 DEF SchedInv, GpusConserved, Gpus, gpus
  <2>3. EventsOK' /\ PlacesApart'
    BY <2>1 DEF SchedInv, EventsOK, PlacesApart
  <2>4. QED BY <1>1, <1>2, <2>1, <2>2, <2>3 DEF SchedInv, QueuedWaitsOnRunning
<1>10. QED BY <1>5, <1>6, <1>7, <1>8, <1>9 DEF Turn

LEMMA SchedInvariant == SchedSpec => []SchedInv
<1>1. SchedInit => SchedInv
  <2> SUFFICES ASSUME SchedInit PROVE SchedInv
    OBVIOUS
  <2>1. input \in Input /\ free \in Int
    BY SchedAssumption DEF SchedInit, SchedAssumption
  <2>2. EventsOK /\ PlacesApart
    BY DEF SchedInit, EventsOK, PlacesApart
  <2>3. GpusConserved
    BY SchedAssumption, GpusNone DEF SchedInit, GpusConserved, SchedAssumption
  <2>4. QED BY <2>1, <2>2, <2>3 DEF SchedInit, SchedInv, QueuedWaitsOnRunning
<1>2. SchedInv /\ [SchedNext]_schedVars => SchedInv'
  <2> SUFFICES ASSUME SchedInv, [SchedNext]_schedVars PROVE SchedInv'
    OBVIOUS
  <2>1. CASE \E e \in heap : Turn(e)
    BY <2>1, SchedAssumption, TurnInv
  <2>2. CASE UNCHANGED <<input, heap, running, queued, free>>
    BY <2>2 DEF SchedInv, EventsOK, PlacesApart, GpusConserved, Gpus, gpus, QueuedWaitsOnRunning
  <2>3. QED BY <2>1, <2>2 DEF SchedNext, CloseOut, schedVars
<1>3. QED BY <1>1, <1>2, PTL DEF SchedSpec

-----------------------------------------------------------------------------
(* The free GPUs never fall below zero, so that every field is of its type. *)

LEMMA VictimKeyIs ==
  ASSUME input \in Input, state \in [Jobs -> JobState], NEW j \in Jobs
  PROVE  VictimKey(j) \in Seq(Int) /\ Len(VictimKey(j)) = 4
<1>1. prio(j) \in Int /\ gpus(j) \in Int
  BY InputType
<1>2. state[j].resumedAt \in Nat /\ state[j].gen \in Nat
  BY DEF JobState
<1>3. -state[j].resumedAt \in Int /\ state[j].gen \in Int
  BY <1>2
<1>4. QED BY <1>1, <1>3 DEF VictimKey

(* The jobs that are preempted free enough: the first candidate that is     *)
(* spared is spared because of those before it.                             *)
LEMMA VictimsFree ==
  ASSUME SchedAssumption, input \in Input, state \in [Jobs -> JobState], free \in Int,
         running \in SUBSET Jobs, NEW j \in Jobs, CanPreempt(j)
  PROVE  free + Gpus(Victims(j)) >= gpus(j)
<1> DEFINE C == Candidates(j)
           V == Victims(j)
           before(c) == {d \in C : Less(VictimKey(d), VictimKey(c))}
           R == {p \in C \X C : Less(VictimKey(p[1]), VictimKey(p[2]))}
<1>1. C \in SUBSET Jobs /\ V \in SUBSET C
  BY DEF Candidates, Victims
<1>2. gpus(j) \in Int /\ Gpus(C) \in Nat /\ Gpus(V) \in Nat
  <2>1. gpus(j) \in Int
    BY InputType
  <2>2. C \in SUBSET Jobs /\ V \in SUBSET Jobs
    BY <1>1
  <2> HIDE DEF C, V
  <2>3. QED BY <2>1, <2>2, GpusType
<1>3. CASE V = C
  BY <1>3 DEF CanPreempt
<1>4. CASE V # C
  <2>1. C \ V # {} /\ C \ V \in SUBSET Jobs
    BY <1>1, <1>4
  <2>2. \A c \in C : <<c, c>> \notin R
    BY <1>1, VictimKeyIs, LessIrreflexive
  <2>3. \A c, d, b \in C : <<c, d>> \in R /\ <<d, b>> \in R => <<c, b>> \in R
    <3> SUFFICES ASSUME NEW c \in C, NEW d \in C, NEW b \in C, <<c, d>> \in R, <<d, b>> \in R
                 PROVE  <<c, b>> \in R
      OBVIOUS
    <3>1. Less(VictimKey(c), VictimKey(d)) /\ Less(VictimKey(d), VictimKey(b))
      OBVIOUS
    <3>2. c \in Jobs /\ d \in Jobs /\ b \in Jobs
      BY <1>1
    <3> HIDE DEF C
    <3>3. Less(VictimKey(c), VictimKey(b))
      BY <3>1, <3>2, VictimKeyIs, LessTransitive
    <3>4. QED BY <3>3
  <2>4. PICK c \in C \ V : \A d \in C \ V : <<d, c>> \notin R
    <3> HIDE DEF R, C, V
    <3>1. QED BY <2>1, <2>2, <2>3, LeastJob
  <2>5. before(c) \in SUBSET V
    BY <2>4
  <2>6. free + Gpus(before(c)) >= gpus(j)
    <3>1. ~(free + Gpus(before(c)) < gpus(j))
      BY <2>4 DEF Victims
    <3>2. before(c) \in SUBSET Jobs
      BY <1>1
    <3>3. Gpus(before(c)) \in Nat
      BY <3>2, GpusType
    <3>4. QED BY <1>2, <3>1, <3>3
  <2>7. Gpus(before(c)) <= Gpus(V) /\ Gpus(before(c)) \in Nat
    <3>1. V \in SUBSET Jobs /\ before(c) \in SUBSET Jobs
      BY <1>1
    <3> HIDE DEF V, before
    <3>2. QED BY <2>5, <3>1, GpusMonotone, GpusType
  <2>8. QED BY <1>2, <2>6, <2>7
<1>5. QED BY <1>3, <1>4

LEMMA FreeStays ==
  ASSUME SchedAssumption, SchedInv, SchedInv', state \in [Jobs -> JobState],
         free \in 0 .. Pool, NEW e \in heap, Turn(e)
  PROVE  free' \in 0 .. Pool
<1>1. /\ e.job \in Jobs /\ input \in Input /\ input' = input
      /\ running \in SUBSET Jobs /\ queued \in SUBSET Jobs /\ running' \in SUBSET Jobs
  BY DEF SchedInv, EventsOK, PlacesApart, Turn, Admit, AdmitByPreempting, Enqueue, Complete,
         SkipStale, Pop
<1>2. Pool \in Nat /\ gpus(e.job) \in Nat /\ Gpus({e.job}) = gpus(e.job)
  BY <1>1, InputType, GpusOne DEF SchedAssumption
<1>3. free' \in Int /\ free' <= Pool
  <2>1. Gpus(running)' = Gpus(running')
    BY <1>1 DEF Gpus, gpus
  <2>2. Gpus(running') \in Nat
    BY <1>1, GpusType
  <2>3. free' \in Int /\ free' + Gpus(running') = Pool
    BY <2>1 DEF SchedInv, GpusConserved
  <2>4. QED BY <1>2, <2>2, <2>3
<1>4. free' >= 0
  <2>1. CASE Admit(e)
    <3>1. gpus(e.job) <= free /\ free' = free + Gpus({}) - Gpus({e.job})
      BY <2>1 DEF Admit, Rearrange, FreeAfter
    <3>2. QED BY <1>2, <3>1, GpusNone
  <2>2. CASE AdmitByPreempting(e)
    <3>1. CanPreempt(e.job) /\ free' = free + Gpus(Victims(e.job)) - Gpus({e.job})
      BY <2>2 DEF AdmitByPreempting, Rearrange, FreeAfter
    <3>2. free + Gpus(Victims(e.job)) >= gpus(e.job)
      BY <1>1, <3>1, VictimsFree
    <3>3. Victims(e.job) \in SUBSET Jobs
      BY <1>1 DEF Victims, Candidates
    <3>4. Gpus(Victims(e.job)) \in Nat
      BY <3>3, GpusType
    <3>5. QED BY <1>2, <3>1, <3>2, <3>4
  <2>3. CASE Complete(e)
    <3>1. PICK P \in SUBSET queued :
            /\ Swept(P, free + gpus(e.job))
            /\ free' = free + Gpus({e.job}) - Gpus(P)
      BY <2>3 DEF Complete, Rearrange, FreeAfter
    <3>2. free + gpus(e.job) \in Nat
      BY <1>2
    <3>3. Gpus(P) <= free + gpus(e.job)
      BY <1>1, <3>1, <3>2, SweptFits
    <3>4. Gpus(P) \in Nat
      <4>1. P \in SUBSET Jobs
        BY <1>1
      <4>2. QED BY <4>1, GpusType
    <3>5. QED BY <1>2, <3>1, <3>3, <3>4
  <2>4. CASE Enqueue(e) \/ SkipStale(e)
    BY <2>4 DEF Enqueue, SkipStale
  <2>5. QED BY <2>1, <2>2, <2>3, <2>4 DEF Turn
<1>5. QED BY <1>2, <1>3, <1>4

-----------------------------------------------------------------------------
(* What every turn has in common: `left' leave the pool, and `P' enter it.  *)

Arrived(e) == IF e.type = Arrival THEN {e.job} ELSE {}

Yielding(e, left) == IF e.type = Arrival THEN left ELSE {}

Moved(e, left, P, k) ==
  IF k \in P THEN Placed(P, k)
  ELSE IF k \notin left THEN state[k]
  ELSE IF e.type = Arrival THEN Preempted(k)
  ELSE Completed(k)

Moves(e, left, P) ==
  /\ First(e) /\ ~Beyond(e) /\ phase = "loop"
  /\ now' = e.time /\ input' = input /\ phase' = phase
  /\ left \in SUBSET running
  /\ P \in SUBSET (queued \cup Arrived(e))
  /\ e.type = Completion => left = {k \in {e.job} : Live(e)}
  /\ heap' = (heap \ {e}) \cup Completions(P)
  /\ running' = (running \ left) \cup P
  /\ queued' = (queued \cup Arrived(e) \cup Yielding(e, left)) \ P
  /\ generation' = generation + Cardinality(P)
  /\ state' = [k \in Jobs |-> Moved(e, left, P, k)]

LEMMA TurnMoves ==
  ASSUME SchedInv, SchedTypeOK, NEW e \in heap, Turn(e)
  PROVE  \E left \in SUBSET running : \E P \in SUBSET Jobs : Moves(e, left, P)
<1>1. /\ e.job \in Jobs /\ running \in SUBSET Jobs /\ queued \in SUBSET Jobs
      /\ state = [k \in Jobs |-> state[k]] /\ generation \in Nat
  BY DEF SchedInv, EventsOK, PlacesApart, SchedTypeOK
<1>2. Arrival # Completion
  BY DEF Arrival, Completion
<1>3. e.type = Arrival => e.job \notin running \cup queued
  BY DEF SchedInv, PlacesApart
<1>4. Pop(e)
  BY DEF Turn, Admit, AdmitByPreempting, Enqueue, Complete, SkipStale
<1>5. First(e) /\ ~Beyond(e) /\ phase = "loop" /\ now' = e.time /\ input' = input /\ phase' = phase
  BY <1>4 DEF Pop
<1>6. Completions({}) = {} /\ generation + Cardinality({}) = generation
  BY <1>1, FS_EmptySet DEF Completions
<1>7. CASE Admit(e)
  <2>1. /\ e.type = Arrival /\ Rearrange(e, {}, {e.job}) /\ queued' = queued
        /\ state' = [state EXCEPT ![e.job] = Placed({e.job}, e.job)]
    BY <1>7 DEF Admit
  <2>2. state' = [k \in Jobs |-> Moved(e, {}, {e.job}, k)]
    BY <1>1, <2>1 DEF Moved
  <2>3. queued' = (queued \cup Arrived(e) \cup Yielding(e, {})) \ {e.job}
    BY <1>3, <2>1 DEF Arrived, Yielding
  <2>4. {e.job} \in SUBSET (queued \cup Arrived(e))
    BY <2>1 DEF Arrived
  <2>5. Moves(e, {}, {e.job})
    BY <1>2, <1>5, <2>1, <2>2, <2>3, <2>4 DEF Moves, Rearrange
  <2>6. QED BY <1>1, <2>5
<1>8. CASE AdmitByPreempting(e)
  <2> DEFINE V == Victims(e.job)
  <2>1. /\ e.type = Arrival /\ Rearrange(e, V, {e.job}) /\ queued' = queued \cup V
        /\ state' = [k \in Jobs |-> IF k = e.job THEN Placed({e.job}, k)
                                    ELSE IF k \in V THEN Preempted(k) ELSE state[k]]
    BY <1>8 DEF AdmitByPreempting
  <2>2. V \in SUBSET running
    BY DEF Victims, Candidates
  <2> HIDE DEF V
  <2>3. state' = [k \in Jobs |-> Moved(e, V, {e.job}, k)]
    BY <2>1 DEF Moved
  <2>4. queued' = (queued \cup Arrived(e) \cup Yielding(e, V)) \ {e.job}
    BY <1>3, <2>1, <2>2 DEF Arrived, Yielding
  <2>5. {e.job} \in SUBSET (queued \cup Arrived(e))
    BY <2>1 DEF Arrived
  <2>6. Moves(e, V, {e.job})
    BY <1>2, <1>5, <2>1, <2>2, <2>3, <2>4, <2>5 DEF Moves, Rearrange
  <2>7. QED BY <1>1, <2>2, <2>6
<1>9. CASE Enqueue(e)
  <2>1. /\ e.type = Arrival /\ queued' = queued \cup {e.job} /\ heap' = heap \ {e}
        /\ running' = running /\ generation' = generation /\ state' = state
    BY <1>9 DEF Enqueue
  <2>2. state' = [k \in Jobs |-> Moved(e, {}, {}, k)]
    BY <1>1, <2>1 DEF Moved
  <2>3. queued' = (queued \cup Arrived(e) \cup Yielding(e, {})) \ {}
    BY <2>1 DEF Arrived, Yielding
  <2>4. Moves(e, {}, {})
    BY <1>2, <1>5, <1>6, <2>1, <2>2, <2>3 DEF Moves
  <2>5. QED BY <2>4
<1>10. CASE Complete(e)
  <2>1. PICK P \in SUBSET queued :
          /\ Rearrange(e, {e.job}, P)
          /\ state' = [k \in Jobs |-> IF k = e.job THEN Completed(k)
                                      ELSE IF k \in P THEN Placed(P, k) ELSE state[k]]
          /\ queued' = queued \ P
    BY <1>10 DEF Complete
  <2>2. e.type = Completion /\ Live(e) /\ e.job \in running
    BY <1>10 DEF Complete, Live
  <2>3. e.job \notin P
    BY <2>2 DEF SchedInv, PlacesApart
  <2>4. state' = [k \in Jobs |-> Moved(e, {e.job}, P, k)]
    BY <1>2, <2>1, <2>2, <2>3 DEF Moved
  <2>5. queued' = (queued \cup Arrived(e) \cup Yielding(e, {e.job})) \ P
    BY <1>2, <2>1, <2>2 DEF Arrived, Yielding
  <2>6. {e.job} = {k \in {e.job} : Live(e)}
    BY <2>2
  <2>7. Moves(e, {e.job}, P)
    BY <1>5, <2>1, <2>2, <2>4, <2>5, <2>6 DEF Moves, Rearrange
  <2>8. QED BY <1>1, <2>1, <2>2, <2>7
<1>11. CASE SkipStale(e)
  <2>1. /\ e.type = Completion /\ ~Live(e) /\ queued' = queued /\ heap' = heap \ {e}
        /\ running' = running /\ generation' = generation /\ state' = state
    BY <1>11 DEF SkipStale
  <2>2. state' = [k \in Jobs |-> Moved(e, {}, {}, k)]
    BY <1>1, <2>1 DEF Moved
  <2>3. queued' = (queued \cup Arrived(e) \cup Yielding(e, {})) \ {}
    BY <1>2, <2>1 DEF Arrived, Yielding
  <2>4. {} = {k \in {e.job} : Live(e)}
    BY <2>1
  <2>5. Moves(e, {}, {})
    BY <1>5, <1>6, <2>1, <2>2, <2>3, <2>4 DEF Moves
  <2>6. QED BY <2>5
<1>12. QED BY <1>7, <1>8, <1>9, <1>10, <1>11 DEF Turn

-----------------------------------------------------------------------------
(* Time.  The events to come are not before now, and a running job has one  *)
(* completion to come, where its last stint ends.                           *)

Arriving == {j \in Jobs : \E e \in heap : e.type = Arrival /\ e.job = j}

(* How far a job has come: what it waited and what it worked.               *)
Reached(j) == submit(j) + state[j].waited + (dur(j) - state[j].remaining)

Stint(j) == [time |-> state[j].resumedAt + state[j].remaining, type |-> Completion,
             job |-> j, gen |-> state[j].gen]

EventsInTime ==
  /\ \A e \in heap : now <= e.time
  /\ \A e \in heap : e.type = Arrival =>
       e.time = submit(e.job) /\ state[e.job].since = submit(e.job)
  /\ \A e \in heap : e.type = Completion => e.gen <= generation
  /\ \A e \in heap : e.type = Completion /\ Live(e) => e = Stint(e.job)
  /\ \A j \in running : Stint(j) \in heap

JobsInTime ==
  /\ \A j \in running :
       state[j].resumedAt = Reached(j) /\ submit(j) <= state[j].resumedAt
         /\ state[j].resumedAt <= now /\ state[j].gen <= generation
  /\ \A j \in queued :
       state[j].since = Reached(j) /\ submit(j) <= state[j].since /\ state[j].since <= now
  /\ \A j \in Arriving : state[j].since = Reached(j)

CompletedInTime ==
  \A j \in Jobs : state[j].status = "completed" =>
    /\ j \notin running \cup queued \cup Arriving
    /\ state[j].segments # <<>>
    /\ state[j].segments[Len(state[j].segments)].end = submit(j) + state[j].waited + dur(j)

TimesInv == SchedTypeOK /\ EventsInTime /\ JobsInTime /\ CompletedInTime

LEMMA FirstIsEarliest ==
  ASSUME SchedAssumption, SchedTypeOK, NEW e \in heap, NEW f \in heap, First(e)
  PROVE  e.time <= f.time
<1>0. \A g \in heap : g \in Event /\ g.time \in Nat /\ g.job \in Jobs
  BY DEF SchedTypeOK, Event
<1>1. CASE e = f
  BY <1>0, <1>1
<1>2. CASE e # f
  <2>1. Less(EventKey(e), EventKey(f))
    BY <1>2 DEF First
  <2>2. ASSUME NEW g \in heap PROVE EventKey(g)[1] = g.time
    <3> DEFINE a == <<g.time, g.type>>
               b == QueueKey(g.job)
               c == <<g.gen>>
    <3>1. a \in Seq(Int) /\ Len(a) = 2 /\ a[1] = g.time /\ c \in Seq(Int) /\ Len(c) = 1
      BY <1>0 DEF Event, Arrival, Completion
    <3>2. b \in Seq(Int) /\ Len(b) = 3
      <4>1. Jobs \in SUBSET Int
        BY DEF Jobs, SchedAssumption
      <4>2. QED BY <1>0, <4>1, QueueKeyIs DEF SchedTypeOK
    <3>3. EventKey(g) = (a \o b) \o c
      BY DEF EventKey
    <3> HIDE DEF a, b, c
    <3>4. a \o b \in Seq(Int) /\ Len(a \o b) = 5 /\ (a \o b)[1] = a[1]
      <4>1. /\ a \o b \in Seq(Int)
            /\ Len(a \o b) = Len(a) + Len(b)
            /\ \A i \in 1 .. Len(a) + Len(b) :
                 (a \o b)[i] = IF i <= Len(a) THEN a[i] ELSE b[i - Len(a)]
        BY ONLY <3>1, <3>2, ConcatProperties, Zenon
      <4>2. QED BY ONLY <3>1, <3>2, <4>1
    <3>5. ((a \o b) \o c)[1] = (a \o b)[1]
      <4> DEFINE d == a \o b
      <4>1. d \in Seq(Int) /\ Len(d) = 5
        BY <3>4
      <4> HIDE DEF d
      <4>2. \A i \in 1 .. Len(d) + Len(c) : (d \o c)[i] = IF i <= Len(d) THEN d[i] ELSE c[i - Len(d)]
        BY ONLY <3>1, <4>1, ConcatProperties, Zenon
      <4>3. (d \o c)[1] = d[1]
        BY ONLY <3>1, <4>1, <4>2
      <4>4. QED BY <4>3 DEF d
    <3>6. QED BY <3>1, <3>3, <3>4, <3>5
  <2>3. PICK i \in 1 .. Len(EventKey(e)) :
          /\ EventKey(e)[i] < EventKey(f)[i]
          /\ \A k \in 1 .. i - 1 : EventKey(e)[k] = EventKey(f)[k]
    BY <2>1 DEF Less
  <2>4. CASE i = 1
    BY <1>0, <2>2, <2>3, <2>4
  <2>5. CASE i # 1
    <3>1. 1 \in 1 .. i - 1
      BY <2>5
    <3>2. EventKey(e)[1] = EventKey(f)[1]
      BY <2>3, <3>1
    <3>3. QED BY <1>0, <2>2, <3>2
  <2>6. QED BY <2>4, <2>5
<1>3. QED BY <1>1, <1>2

LEMMA RankBounds ==
  ASSUME SchedAssumption, input \in Input, NEW P \in SUBSET Jobs, NEW j \in P
  PROVE  Rank(P, j) \in Nat /\ 1 <= Rank(P, j) /\ Rank(P, j) <= Cardinality(P)
         /\ Cardinality(P) \in Nat
<1> DEFINE Q == {k \in P : ~Less(QueueKey(j), QueueKey(k))}
<1>1. IsFiniteSet(P)
  <2>1. NumJobs \in Int
    BY DEF SchedAssumption
  <2>2. IsFiniteSet(Jobs)
    BY <2>1, FS_Interval DEF Jobs
  <2>3. QED BY <2>2, FS_Subset
<1>2. Q \in SUBSET P
  OBVIOUS
<1>3. j \in Q
  BY QueueOrder
<1> HIDE DEF Q
<1>4. IsFiniteSet(Q) /\ Cardinality(Q) <= Cardinality(P)
  BY <1>1, <1>2, FS_Subset
<1>5. Cardinality(Q) \in Nat /\ Cardinality(P) \in Nat
  BY <1>1, <1>4, FS_CardinalityType
<1>6. Cardinality(Q) # 0
  BY <1>3, <1>4, FS_EmptySet
<1>7. Rank(P, j) = Cardinality(Q)
  BY DEF Rank, Q
<1>8. QED BY <1>4, <1>5, <1>6, <1>7

LEMMA PlacedIs ==
  ASSUME NEW k, state[k] \in JobState, NEW P
  PROVE  /\ Placed(P, k).remaining = state[k].remaining
         /\ Placed(P, k).since = state[k].since
         /\ Placed(P, k).waited = state[k].waited + (now' - state[k].since)
         /\ Placed(P, k).preempted = state[k].preempted
         /\ Placed(P, k).resumedAt = now'
         /\ Placed(P, k).gen = generation + Rank(P, k)
         /\ Placed(P, k).segments = state[k].segments
         /\ Placed(P, k).status = state[k].status
         /\ (now' \in Nat /\ state[k].since <= now' /\ generation + Rank(P, k) \in Nat)
              => Placed(P, k) \in JobState
<1> DEFINE s == state[k]
           g == generation + Rank(P, k)
           w == s.waited + (now' - s.since)
<1>1. Placed(P, k) = [s EXCEPT !.gen = g, !.resumedAt = now', !.waited = w]
  BY DEF Placed
<1>2. s \in JobState
  OBVIOUS
<1>3. (now' \in Nat /\ s.since <= now') => w \in Nat
  BY <1>2 DEF JobState
<1> HIDE DEF s, g, w
<1>4. /\ Placed(P, k).remaining = s.remaining /\ Placed(P, k).since = s.since
      /\ Placed(P, k).waited = w /\ Placed(P, k).preempted = s.preempted
      /\ Placed(P, k).resumedAt = now' /\ Placed(P, k).gen = g
      /\ Placed(P, k).segments = s.segments /\ Placed(P, k).status = s.status
      /\ (now' \in Nat /\ w \in Nat /\ g \in Nat) => Placed(P, k) \in JobState
  BY <1>1, <1>2 DEF JobState
<1>5. QED BY <1>3, <1>4 DEF s, g, w

LEMMA CompletedIs ==
  ASSUME NEW k, state[k] \in JobState, now' \in Nat
  PROVE  /\ Completed(k).remaining = state[k].remaining
         /\ Completed(k).since = state[k].since
         /\ Completed(k).waited = state[k].waited
         /\ Completed(k).resumedAt = state[k].resumedAt
         /\ Completed(k).gen = state[k].gen
         /\ Completed(k).segments =
              Append(state[k].segments, [start |-> state[k].resumedAt, end |-> now'])
         /\ Completed(k).status = "completed"
         /\ Completed(k) \in JobState
<1> DEFINE s == state[k]
           q == Append(s.segments, [start |-> s.resumedAt, end |-> now'])
<1>1. Completed(k) = [s EXCEPT !.segments = q, !.status = "completed"]
  BY DEF Completed
<1>2. s \in JobState
  OBVIOUS
<1>3. q \in Seq(Segment)
  BY <1>2 DEF JobState, Segment
<1> HIDE DEF s, q
<1>4. /\ Completed(k).remaining = s.remaining /\ Completed(k).since = s.since
      /\ Completed(k).waited = s.waited /\ Completed(k).resumedAt = s.resumedAt
      /\ Completed(k).gen = s.gen /\ Completed(k).segments = q
      /\ Completed(k).status = "completed" /\ Completed(k) \in JobState
  BY <1>1, <1>2, <1>3 DEF JobState
<1>5. QED BY <1>4 DEF s, q

(* A job that is preempted before its stint ends keeps the rest of it.      *)
LEMMA PreemptedIs ==
  ASSUME NEW k, state[k] \in JobState, now' \in Nat,
         state[k].resumedAt <= now', now' <= state[k].resumedAt + state[k].remaining
  PROVE  /\ Preempted(k).remaining = state[k].remaining - (now' - state[k].resumedAt)
         /\ Preempted(k).since = now'
         /\ Preempted(k).waited = state[k].waited
         /\ Preempted(k).resumedAt = state[k].resumedAt
         /\ Preempted(k).gen = state[k].gen
         /\ Preempted(k).segments =
              Append(state[k].segments, [start |-> state[k].resumedAt, end |-> now'])
         /\ Preempted(k).status = state[k].status
         /\ Preempted(k) \in JobState
<1> DEFINE s == state[k]
           q == Append(s.segments, [start |-> s.resumedAt, end |-> now'])
           left == s.remaining - (now' - s.resumedAt)
           r == IF left > 0 THEN left ELSE 0
           n == s.preempted + 1
<1>1. Preempted(k) = [s EXCEPT !.segments = q, !.remaining = r, !.preempted = n, !.since = now']
  BY DEF Preempted
<1>2. s \in JobState
  OBVIOUS
<1>3. q \in Seq(Segment)
  BY <1>2 DEF JobState, Segment
<1>4. r = left /\ r \in Nat /\ n \in Nat
  <2>1. s.remaining \in Nat /\ s.resumedAt \in Nat /\ s.preempted \in Nat
    BY <1>2 DEF JobState
  <2>2. now' <= s.resumedAt + s.remaining
    OBVIOUS
  <2> HIDE DEF s
  <2>3. left \in Nat
    BY <2>1, <2>2
  <2>4. QED BY <2>1, <2>3
<1> HIDE DEF s, q, r, n
<1>5. /\ Preempted(k).remaining = r /\ Preempted(k).since = now'
      /\ Preempted(k).waited = s.waited /\ Preempted(k).resumedAt = s.resumedAt
      /\ Preempted(k).gen = s.gen /\ Preempted(k).segments = q
      /\ Preempted(k).status = s.status /\ Preempted(k) \in JobState
  BY <1>1, <1>2, <1>3, <1>4 DEF JobState
<1>6. QED BY <1>4, <1>5 DEF s, q

(* The jobs that are placed have come as far as their wait began, and those *)
(* that leave have come as far as their stint began.                        *)
LEMMA WhoMoves ==
  ASSUME SchedAssumption, SchedInv, TimesInv, NEW e \in heap,
         NEW left \in SUBSET running, NEW P \in SUBSET Jobs, Moves(e, left, P)
  PROVE  /\ now' \in Nat /\ now <= now' /\ e.time = now' /\ e.job \in Jobs
         /\ left \in SUBSET Jobs /\ P \cap running = {}
         /\ \A k \in P : /\ state[k].since = Reached(k) /\ submit(k) <= state[k].since
                         /\ state[k].since <= now' /\ state[k].status # "completed"
         /\ \A k \in running : /\ state[k].resumedAt = Reached(k)
                               /\ submit(k) <= state[k].resumedAt
                               /\ state[k].resumedAt <= now'
                               /\ now' <= state[k].resumedAt + state[k].remaining
                               /\ state[k].gen <= generation
                               /\ state[k].status # "completed"
         /\ \A k \in left : e.type = Completion => now' = state[k].resumedAt + state[k].remaining
<1>1. /\ e \in Event /\ e.time = now' /\ First(e)
      /\ now \in Nat /\ now <= e.time
  BY DEF TimesInv, SchedTypeOK, EventsInTime, Moves
<1>2. e.time \in Nat /\ e.job \in Jobs /\ e.type \in {Arrival, Completion}
  BY <1>1 DEF Event
<1>3. left \in SUBSET Jobs /\ P \cap running = {} /\ left \in SUBSET running
  <2>1. running \in SUBSET Jobs /\ running \cap queued = {} /\ (e.type = Arrival => e.job \notin running)
    BY DEF SchedInv, PlacesApart
  <2>2. P \in SUBSET (queued \cup Arrived(e)) /\ left \in SUBSET running
    BY DEF Moves
  <2>3. QED BY <2>1, <2>2 DEF Arrived
<1>4. ASSUME NEW k \in P
      PROVE  /\ state[k].since = Reached(k) /\ submit(k) <= state[k].since
             /\ state[k].since <= now' /\ state[k].status # "completed"
  <2>1. k \in queued \cup Arrived(e) /\ k \in Jobs
    BY <1>4 DEF Moves
  <2>2. submit(k) \in Nat /\ state[k].since \in Nat
    BY <2>1, InputType DEF TimesInv, SchedTypeOK, JobState
  <2>3. CASE k \in queued
    <3>1. /\ state[k].since = Reached(k) /\ submit(k) <= state[k].since /\ state[k].since <= now
      BY <2>3 DEF TimesInv, JobsInTime
    <3>2. state[k].status # "completed"
      BY <2>1, <2>3 DEF TimesInv, CompletedInTime
    <3>3. QED BY <1>1, <1>2, <2>2, <3>1, <3>2
  <2>4. CASE e.type = Arrival /\ k = e.job
    <3>1. k \in Arriving
      BY <2>1, <2>4 DEF Arriving
    <3>2. state[k].since = Reached(k)
      BY <3>1 DEF TimesInv, JobsInTime
    <3>3. e.time = submit(k) /\ state[k].since = submit(k)
      BY <2>4 DEF TimesInv, EventsInTime
    <3>4. state[k].status # "completed"
      BY <2>1, <3>1 DEF TimesInv, CompletedInTime
    <3>5. QED BY <1>1, <1>2, <2>2, <3>2, <3>3, <3>4
  <2>5. QED BY <2>1, <2>3, <2>4 DEF Arrived
<1>5. ASSUME NEW k \in running
      PROVE  /\ state[k].resumedAt = Reached(k) /\ submit(k) <= state[k].resumedAt
             /\ state[k].resumedAt <= now' /\ now' <= state[k].resumedAt + state[k].remaining
             /\ state[k].gen <= generation /\ state[k].status # "completed"
  <2>1. k \in Jobs
    BY <1>5 DEF SchedInv, PlacesApart
  <2>2. state[k].resumedAt \in Nat /\ state[k].remaining \in Nat /\ submit(k) \in Nat
    BY <2>1, InputType DEF TimesInv, SchedTypeOK, JobState
  <2>3. /\ state[k].resumedAt = Reached(k) /\ submit(k) <= state[k].resumedAt
        /\ state[k].resumedAt <= now /\ state[k].gen <= generation
    BY <1>5 DEF TimesInv, JobsInTime
  <2>4. Stint(k) \in heap
    BY <1>5 DEF TimesInv, EventsInTime
  <2>5. e.time <= Stint(k).time
    BY <1>1, <2>4, FirstIsEarliest DEF TimesInv
  <2>6. state[k].status # "completed"
    BY <1>5, <2>1 DEF TimesInv, CompletedInTime
  <2>7. QED BY <1>1, <1>2, <2>2, <2>3, <2>5, <2>6 DEF Stint
<1>6. ASSUME NEW k \in left, e.type = Completion
      PROVE  now' = state[k].resumedAt + state[k].remaining
  <2>1. k = e.job /\ Live(e)
    BY <1>6 DEF Moves
  <2>2. e = Stint(k)
    BY <1>6, <2>1 DEF TimesInv, EventsInTime
  <2>3. QED BY <1>1, <2>2 DEF Stint
<1>7. QED BY <1>1, <1>2, <1>3, <1>4, <1>5, <1>6

(* What a turn does to the record of each job.                              *)
LEMMA StaysPut ==
  ASSUME NEW e, NEW left, NEW P, Moves(e, left, P), NEW k \in Jobs, k \notin P, k \notin left
  PROVE  state'[k] = state[k]
BY DEF Moves, Moved

LEMMA Enters ==
  ASSUME SchedAssumption, SchedInv, TimesInv, NEW e \in heap,
         NEW left \in SUBSET running, NEW P \in SUBSET Jobs, Moves(e, left, P), NEW k \in P
  PROVE  /\ state'[k] \in JobState
         /\ state'[k].remaining = state[k].remaining
         /\ state'[k].resumedAt = now'
         /\ state'[k].waited = state[k].waited + (now' - state[k].since)
         /\ state'[k].gen = generation + Rank(P, k)
         /\ state'[k].segments = state[k].segments
         /\ state'[k].status = state[k].status
<1>1. now' \in Nat /\ state[k].since <= now' /\ k \in Jobs
  BY WhoMoves
<1>2. state'[k] = Placed(P, k)
  BY <1>1 DEF Moves, Moved
<1>3. state[k] \in JobState /\ generation \in Nat
  BY <1>1 DEF TimesInv, SchedTypeOK
<1>4. generation + Rank(P, k) \in Nat
  <2>1. Rank(P, k) \in Nat
    BY RankBounds DEF SchedInv
  <2>2. QED BY <1>3, <2>1
<1>5. QED BY <1>1, <1>2, <1>3, <1>4, PlacedIs

LEMMA Leaves ==
  ASSUME SchedAssumption, SchedInv, TimesInv, NEW e \in heap,
         NEW left \in SUBSET running, NEW P \in SUBSET Jobs, Moves(e, left, P), NEW k \in left
  PROVE  /\ state'[k] \in JobState
         /\ state'[k].waited = state[k].waited
         /\ state'[k].segments =
              Append(state[k].segments, [start |-> state[k].resumedAt, end |-> now'])
         /\ e.type = Arrival =>
              /\ state'[k].since = now'
              /\ state'[k].remaining = state[k].remaining - (now' - state[k].resumedAt)
              /\ state'[k].status = state[k].status
         /\ e.type = Completion => state'[k].status = "completed"
<1>1. /\ now' \in Nat /\ k \in Jobs /\ k \notin P
      /\ state[k].resumedAt <= now' /\ now' <= state[k].resumedAt + state[k].remaining
  BY WhoMoves
<1>2. state[k] \in JobState /\ e.type \in {Arrival, Completion} /\ Arrival # Completion
  BY <1>1 DEF TimesInv, SchedTypeOK, Event, Arrival, Completion
<1>3. CASE e.type = Arrival
  <2>1. state'[k] = Preempted(k)
    BY <1>1, <1>3 DEF Moves, Moved
  <2>2. QED BY <1>1, <1>2, <1>3, <2>1, PreemptedIs
<1>4. CASE e.type = Completion
  <2>1. state'[k] = Completed(k)
    BY <1>1, <1>2, <1>4 DEF Moves, Moved
  <2>2. QED BY <1>1, <1>2, <1>4, <2>1, CompletedIs
<1>5. QED BY <1>2, <1>3, <1>4

LEMMA MovedTyped ==
  ASSUME SchedAssumption, SchedInv, TimesInv, NEW e \in heap,
         NEW left \in SUBSET running, NEW P \in SUBSET Jobs, Moves(e, left, P), NEW k \in Jobs
  PROVE  state'[k] \in JobState
<1>1. CASE k \in P
  BY <1>1, Enters
<1>2. CASE k \in left
  BY <1>2, Leaves
<1>3. CASE k \notin P /\ k \notin left
  BY <1>3, StaysPut DEF TimesInv, SchedTypeOK
<1>4. QED BY <1>1, <1>2, <1>3

(* A job that is yet to arrive is not touched.                              *)
LEMMA WhoArrives ==
  ASSUME SchedAssumption, SchedInv, TimesInv, NEW e \in heap,
         NEW left \in SUBSET running, NEW P \in SUBSET Jobs, Moves(e, left, P),
         NEW f \in heap', f.type = Arrival
  PROVE  /\ f \in heap \ {e} /\ f.job \in Jobs /\ f.job \notin P /\ f.job \notin left
         /\ state'[f.job] = state[f.job] /\ f.job \in Arriving /\ f.job \notin running'
         /\ f.job \notin queued'
<1>1. f \in heap \ {e}
  BY DEF Moves, Completions, Arrival, Completion
<1>2. f.job \in Jobs /\ f.job \notin running \cup queued
  BY <1>1 DEF SchedInv, EventsOK, PlacesApart
<1>3. f.job \notin Arrived(e)
  BY <1>1 DEF SchedInv, EventsOK, Arrived
<1>4. f.job \notin P
  BY <1>2, <1>3 DEF Moves
<1>5. f.job \notin left
  BY <1>2 DEF Moves
<1>6. state'[f.job] = state[f.job]
  BY <1>2, <1>4, <1>5, StaysPut
<1>7. f.job \in Arriving
  BY <1>1, <1>2 DEF Arriving
<1>8. f.job \notin running' /\ f.job \notin queued'
  BY <1>2, <1>3, <1>4, <1>5 DEF Moves, Yielding
<1>9. QED BY <1>1, <1>2, <1>4, <1>5, <1>6, <1>7, <1>8

LEMMA MovesTyped ==
  ASSUME SchedAssumption, SchedInv, TimesInv, free' \in 0 .. Pool, NEW e \in heap,
         NEW left \in SUBSET running, NEW P \in SUBSET Jobs, Moves(e, left, P)
  PROVE  /\ SchedTypeOK'
         /\ generation \in Nat /\ generation' \in Nat /\ generation <= generation'
         /\ \A k \in P : generation + Rank(P, k) <= generation' /\ generation < generation + Rank(P, k)
<1>1. now' \in Nat /\ e.job \in Jobs /\ input \in Input /\ generation \in Nat
  BY WhoMoves DEF TimesInv, SchedTypeOK
<1>2. Cardinality(P) \in Nat
  <2>1. NumJobs \in Int
    BY DEF SchedAssumption
  <2>2. IsFiniteSet(Jobs)
    BY <2>1, FS_Interval DEF Jobs
  <2>3. QED BY <2>2, FS_Subset, FS_CardinalityType
<1>3. generation' = generation + Cardinality(P)
  BY DEF Moves
<1>4. \A k \in P : Rank(P, k) \in Nat /\ 1 <= Rank(P, k) /\ Rank(P, k) <= Cardinality(P)
  BY <1>1, RankBounds
<1>5. /\ generation' \in Nat /\ generation <= generation'
      /\ \A k \in P : /\ generation + Rank(P, k) <= generation'
                      /\ generation < generation + Rank(P, k)
                      /\ generation + Rank(P, k) \in Nat
  BY <1>1, <1>2, <1>3, <1>4
<1>6. heap' \subseteq Event
  <2>1. ASSUME NEW k \in P
        PROVE  [time |-> now' + state[k].remaining, type |-> Completion, job |-> k,
                gen |-> generation + Rank(P, k)] \in Event
    <3>1. state[k].remaining \in Nat
      BY DEF TimesInv, SchedTypeOK, JobState
    <3>2. now' + state[k].remaining \in Nat
      BY <1>1, <3>1
    <3>3. QED BY <1>5, <3>2 DEF Event
  <2>2. Completions(P) \subseteq Event
    BY <2>1 DEF Completions
  <2>3. heap \subseteq Event /\ heap' = (heap \ {e}) \cup Completions(P)
    BY DEF TimesInv, SchedTypeOK, Moves
  <2>4. QED BY <2>2, <2>3
<1>7. state' \in [Jobs -> JobState]
  <2>1. \A k \in Jobs : state'[k] \in JobState
    BY MovedTyped
  <2>2. state' = [k \in Jobs |-> Moved(e, left, P, k)]
    BY DEF Moves
  <2>3. state' = [k \in Jobs |-> state'[k]]
    BY <2>2
  <2>4. QED BY <2>1, <2>3
<1>8. running' \subseteq Jobs /\ queued' \subseteq Jobs
  <2>1. running \subseteq Jobs /\ queued \subseteq Jobs
    BY DEF TimesInv, SchedTypeOK
  <2>2. QED BY <1>1, <2>1 DEF Moves, Arrived, Yielding
<1>9. input' \in Input /\ phase' \in {"loop", "done"}
  BY <1>1 DEF Moves
<1>10. QED BY <1>1, <1>5, <1>6, <1>7, <1>8, <1>9 DEF SchedTypeOK

LEMMA MovesEvents ==
  ASSUME SchedAssumption, SchedInv, TimesInv, free' \in 0 .. Pool, NEW e \in heap,
         NEW left \in SUBSET running, NEW P \in SUBSET Jobs, Moves(e, left, P)
  PROVE  EventsInTime'
<1>1. /\ now' \in Nat /\ e.time = now' /\ P \cap running = {} /\ First(e)
      /\ input' = input /\ heap' = (heap \ {e}) \cup Completions(P)
      /\ running' = (running \ left) \cup P /\ running \in SUBSET Jobs
  BY WhoMoves DEF Moves, SchedInv, PlacesApart
<1>2. /\ generation \in Nat /\ generation' \in Nat /\ generation <= generation'
      /\ \A k \in P : generation + Rank(P, k) <= generation' /\ generation < generation + Rank(P, k)
  BY MovesTyped
<1>3. ASSUME NEW f \in Completions(P)
      PROVE  /\ f.job \in P /\ f.type = Completion /\ now' <= f.time
             /\ f = Stint(f.job)' /\ f.gen <= generation' /\ generation < f.gen
  <2>1. PICK k \in P : f = [time |-> now' + state[k].remaining, type |-> Completion, job |-> k,
                            gen |-> generation + Rank(P, k)]
    BY DEF Completions
  <2>2. state[k].remaining \in Nat
    BY DEF TimesInv, SchedTypeOK, JobState
  <2>3. /\ state'[k].remaining = state[k].remaining /\ state'[k].resumedAt = now'
        /\ state'[k].gen = generation + Rank(P, k)
    BY Enters
  <2>4. f.job = k /\ f.type = Completion /\ f.gen = generation + Rank(P, k)
        /\ f.time = now' + state[k].remaining
    BY <2>1
  <2>5. now' <= f.time
    BY <1>1, <2>2, <2>4
  <2>6. f = Stint(k)'
    BY <2>1, <2>3 DEF Stint
  <2>7. QED BY <1>2, <2>4, <2>5, <2>6
<1>4. ASSUME NEW f \in heap' PROVE now' <= f.time
  <2>1. CASE f \in heap
    BY <1>1, <2>1, FirstIsEarliest DEF TimesInv
  <2>2. CASE f \in Completions(P)
    BY <1>3, <2>2
  <2>3. QED BY <1>1, <2>1, <2>2
<1>5. ASSUME NEW f \in heap', f.type = Arrival
      PROVE  f.time = submit(f.job)' /\ state'[f.job].since = submit(f.job)'
  <2>1. f \in heap /\ state'[f.job] = state[f.job]
    BY <1>5, WhoArrives
  <2>2. f.time = submit(f.job) /\ state[f.job].since = submit(f.job)
    BY <1>5, <2>1 DEF TimesInv, EventsInTime
  <2>3. submit(f.job)' = submit(f.job)
    BY <1>1 DEF submit
  <2>4. QED BY <2>1, <2>2, <2>3
<1>6. ASSUME NEW f \in heap', f.type = Completion PROVE f.gen <= generation'
  <2>1. CASE f \in heap
    <3>1. f.gen <= generation /\ f.gen \in Nat
      BY <1>6, <2>1 DEF TimesInv, EventsInTime, SchedTypeOK, Event
    <3>2. QED BY <1>2, <3>1
  <2>2. CASE f \in Completions(P)
    BY <1>3, <2>2
  <2>3. QED BY <1>1, <2>1, <2>2
<1>7. ASSUME NEW f \in heap', f.type = Completion, Live(f)' PROVE f = Stint(f.job)'
  <2>1. CASE f \in Completions(P)
    BY <1>3, <2>1
  <2>2. CASE f \in heap
    <3>1. f.gen <= generation /\ f.gen \in Nat /\ f.job \in Jobs
      BY <1>7, <2>2 DEF TimesInv, EventsInTime, SchedTypeOK, Event
    <3>2. f.job \in running' /\ state'[f.job].gen = f.gen
      BY <1>7 DEF Live
    <3>3. f.job \notin P
      <4>1. f.job \in P => state'[f.job].gen = generation + Rank(P, f.job)
        BY Enters
      <4>2. f.job \in P => generation < f.gen
        BY <1>2, <3>2, <4>1
      <4>3. QED BY <1>2, <3>1, <4>2
    <3>4. f.job \in running /\ f.job \notin left
      BY <1>1, <3>2, <3>3
    <3>5. state'[f.job] = state[f.job]
      BY <3>1, <3>3, <3>4, StaysPut
    <3>6. Live(f)
      BY <3>2, <3>4, <3>5 DEF Live
    <3>7. f = Stint(f.job)
      BY <1>7, <2>2, <3>6 DEF TimesInv, EventsInTime
    <3>8. QED BY <3>5, <3>7 DEF Stint
  <2>3. QED BY <1>1, <2>1, <2>2
<1>8. ASSUME NEW j \in running' PROVE Stint(j)' \in heap'
  <2>1. CASE j \in P
    <3>1. /\ state'[j].remaining = state[j].remaining /\ state'[j].resumedAt = now'
          /\ state'[j].gen = generation + Rank(P, j)
      BY <2>1, Enters
    <3>2. Stint(j)' \in Completions(P)
      BY <2>1, <3>1 DEF Stint, Completions
    <3>3. QED BY <1>1, <3>2
  <2>2. CASE j \notin P
    <3>1. j \in running /\ j \notin left /\ j \in Jobs
      BY <1>1, <2>2
    <3>2. state'[j] = state[j]
      BY <2>2, <3>1, StaysPut
    <3>3. Stint(j) \in heap
      BY <3>1 DEF TimesInv, EventsInTime
    <3>4. Stint(j) # e
      <4> SUFFICES ASSUME Stint(j) = e PROVE FALSE
        OBVIOUS
      <4>1. e.type = Completion /\ e.job = j /\ e.gen = state[j].gen
        BY DEF Stint
      <4>2. Live(e)
        BY <3>1, <4>1 DEF Live
      <4>3. j \in left
        BY <4>1, <4>2 DEF Moves
      <4>4. QED BY <3>1, <4>3
    <3>5. Stint(j)' = Stint(j)
      BY <3>2 DEF Stint
    <3>6. QED BY <1>1, <3>3, <3>4, <3>5
  <2>3. QED BY <2>1, <2>2
<1>9. QED BY <1>4, <1>5, <1>6, <1>7, <1>8 DEF EventsInTime

LEMMA MovesJobs ==
  ASSUME SchedAssumption, SchedInv, TimesInv, free' \in 0 .. Pool, NEW e \in heap,
         NEW left \in SUBSET running, NEW P \in SUBSET Jobs, Moves(e, left, P)
  PROVE  JobsInTime'
<1>1. /\ now \in Nat /\ now' \in Nat /\ now <= now' /\ input' = input /\ input \in Input
      /\ left \in SUBSET Jobs /\ P \cap running = {} /\ e.time = now' /\ e.job \in Jobs
      /\ running' = (running \ left) \cup P
      /\ queued' = (queued \cup Arrived(e) \cup Yielding(e, left)) \ P
      /\ running \in SUBSET Jobs /\ queued \in SUBSET Jobs /\ running \cap queued = {}
  BY WhoMoves DEF Moves, SchedInv, PlacesApart, TimesInv, SchedTypeOK
<1>2. /\ generation \in Nat /\ generation' \in Nat /\ generation <= generation'
      /\ \A k \in P : generation + Rank(P, k) <= generation'
  BY MovesTyped
<1>3. \A k \in Jobs : submit(k)' = submit(k) /\ dur(k)' = dur(k)
  BY <1>1 DEF submit, dur
<1>4. ASSUME NEW k \in Jobs
      PROVE  /\ state[k].since \in Nat /\ state[k].resumedAt \in Nat /\ state[k].waited \in Nat
             /\ state[k].remaining \in Nat /\ state[k].gen \in Nat
             /\ submit(k) \in Nat /\ dur(k) \in Nat
  <2>1. state[k] \in JobState
    BY DEF TimesInv, SchedTypeOK
  <2>2. submit(k) \in Nat /\ dur(k) \in Nat
    BY <1>1, InputType
  <2>3. QED BY <2>1, <2>2 DEF JobState
<1>5. ASSUME NEW k \in Jobs, k \notin P, k \notin left
      PROVE  state'[k] = state[k] /\ Reached(k)' = Reached(k)
  <2>1. state'[k] = state[k]
    BY <1>5, StaysPut
  <2>2. QED BY <1>3, <2>1 DEF Reached
<1>6. ASSUME NEW j \in running'
      PROVE  /\ state'[j].resumedAt = Reached(j)' /\ submit(j)' <= state'[j].resumedAt
             /\ state'[j].resumedAt <= now' /\ state'[j].gen <= generation'
  <2>1. CASE j \in P
    <3>1. /\ state'[j].remaining = state[j].remaining /\ state'[j].resumedAt = now'
          /\ state'[j].waited = state[j].waited + (now' - state[j].since)
          /\ state'[j].gen = generation + Rank(P, j)
      BY <2>1, Enters
    <3>2. state[j].since = Reached(j) /\ submit(j) <= state[j].since /\ state[j].since <= now'
      BY <2>1, WhoMoves
    <3>3. Reached(j)' = submit(j) + (state[j].waited + (now' - state[j].since))
                        + (dur(j) - state[j].remaining)
      BY <1>3, <2>1, <3>1 DEF Reached
    <3>4. Reached(j) = submit(j) + state[j].waited + (dur(j) - state[j].remaining)
      BY DEF Reached
    <3>5. Reached(j)' = now'
      BY <1>1, <1>4, <2>1, <3>2, <3>3, <3>4
    <3>6. submit(j)' <= now'
      BY <1>1, <1>3, <1>4, <2>1, <3>2
    <3>7. QED BY <1>1, <1>2, <2>1, <3>1, <3>5, <3>6
  <2>2. CASE j \notin P
    <3>1. j \in running /\ j \notin left /\ j \in Jobs
      BY <1>1, <2>2
    <3>2. /\ state[j].resumedAt = Reached(j) /\ submit(j) <= state[j].resumedAt
          /\ state[j].resumedAt <= now /\ state[j].gen <= generation
      BY <3>1 DEF TimesInv, JobsInTime
    <3>3. state'[j] = state[j] /\ Reached(j)' = Reached(j)
      BY <1>5, <2>2, <3>1
    <3>4. QED BY <1>1, <1>2, <1>3, <1>4, <3>1, <3>2, <3>3
  <2>3. QED BY <2>1, <2>2
<1>7. ASSUME NEW j \in queued'
      PROVE  /\ state'[j].since = Reached(j)' /\ submit(j)' <= state'[j].since
             /\ state'[j].since <= now'
  <2>1. j \notin P /\ j \in queued \cup Arrived(e) \cup Yielding(e, left)
    BY <1>1
  <2>2. CASE j \in queued
    <3>1. j \notin left /\ j \in Jobs
      BY <1>1, <2>2
    <3>2. state[j].since = Reached(j) /\ submit(j) <= state[j].since /\ state[j].since <= now
      BY <2>2 DEF TimesInv, JobsInTime
    <3>3. state'[j] = state[j] /\ Reached(j)' = Reached(j)
      BY <1>5, <2>1, <3>1
    <3>4. QED BY <1>1, <1>3, <1>4, <3>1, <3>2, <3>3
  <2>3. CASE j \in Arrived(e)
    <3>1. e.type = Arrival /\ j = e.job
      BY <2>3 DEF Arrived
    <3>2. j \notin left
      BY <3>1 DEF SchedInv, PlacesApart
    <3>3. j \in Arriving
      BY <1>1, <3>1 DEF Arriving
    <3>4. state[j].since = Reached(j) /\ state[j].since = submit(j) /\ now' = submit(j)
      BY <1>1, <3>1, <3>3 DEF TimesInv, JobsInTime, EventsInTime
    <3>5. state'[j] = state[j] /\ Reached(j)' = Reached(j)
      BY <1>1, <1>5, <2>1, <3>1, <3>2
    <3>6. submit(j)' = submit(j) /\ submit(j) \in Nat
      BY <1>1, <1>3, <1>4, <3>1
    <3>7. state'[j].since = submit(j)
      BY <3>4, <3>5
    <3>8. state'[j].since = Reached(j)'
      BY <3>4, <3>5
    <3>9. submit(j)' <= state'[j].since /\ state'[j].since <= now'
      BY ONLY <3>4, <3>6, <3>7
    <3>10. QED BY <3>8, <3>9
  <2>4. CASE j \in Yielding(e, left)
    <3>1. e.type = Arrival /\ j \in left /\ j \in Jobs
      BY <1>1, <2>4 DEF Yielding
    <3>2. /\ state'[j].waited = state[j].waited /\ state'[j].since = now'
          /\ state'[j].remaining = state[j].remaining - (now' - state[j].resumedAt)
      BY <3>1, Leaves
    <3>3. /\ state[j].resumedAt = Reached(j) /\ submit(j) <= state[j].resumedAt
          /\ state[j].resumedAt <= now'
      BY <3>1, WhoMoves
    <3>4. Reached(j)' = submit(j) + state[j].waited
                        + (dur(j) - (state[j].remaining - (now' - state[j].resumedAt)))
      BY <1>3, <3>1, <3>2 DEF Reached
    <3>5. Reached(j) = submit(j) + state[j].waited + (dur(j) - state[j].remaining)
      BY DEF Reached
    <3>6. Reached(j)' = now'
      BY <1>1, <1>4, <3>1, <3>3, <3>4, <3>5
    <3>7. submit(j)' <= now'
      BY <1>1, <1>3, <1>4, <3>1, <3>3
    <3>8. QED BY <1>1, <3>2, <3>6, <3>7
  <2>5. QED BY <2>1, <2>2, <2>3, <2>4
<1>8. ASSUME NEW j \in Arriving' PROVE state'[j].since = Reached(j)'
  <2>1. PICK f \in heap' : f.type = Arrival /\ f.job = j
    BY DEF Arriving
  <2>2. j \in Jobs /\ j \notin P /\ j \notin left /\ j \in Arriving
    <3>1. f.type = Arrival
      BY <2>1
    <3>2. f.job \in Jobs /\ f.job \in Arriving
      BY <3>1, WhoArrives
    <3>3. f.job \notin P /\ f.job \notin left
      BY <3>1, WhoArrives
    <3>4. QED BY <2>1, <3>2, <3>3
  <2>3. state[j].since = Reached(j)
    BY <2>2 DEF TimesInv, JobsInTime
  <2>4. QED BY <1>5, <2>2, <2>3
<1>9. QED BY <1>6, <1>7, <1>8 DEF JobsInTime

LEMMA MovesCompleted ==
  ASSUME SchedAssumption, SchedInv, TimesInv, NEW e \in heap,
         NEW left \in SUBSET running, NEW P \in SUBSET Jobs, Moves(e, left, P)
  PROVE  CompletedInTime'
<1> SUFFICES ASSUME NEW j \in Jobs, state'[j].status = "completed"
             PROVE  /\ j \notin running' /\ j \notin queued' /\ j \notin Arriving'
                    /\ state'[j].segments # <<>>
                    /\ state'[j].segments[Len(state'[j].segments)].end
                         = submit(j)' + state'[j].waited + dur(j)'
  BY DEF CompletedInTime
<1>1. /\ P \cap running = {} /\ input' = input /\ e.job \in Jobs
      /\ running' = (running \ left) \cup P
      /\ queued' = (queued \cup Arrived(e) \cup Yielding(e, left)) \ P
      /\ running \cap queued = {}
      /\ e.type \in {Arrival, Completion} /\ Arrival # Completion
  BY WhoMoves DEF Moves, SchedInv, PlacesApart, EventsOK, Arrival, Completion
<1>2. submit(j)' = submit(j) /\ dur(j)' = dur(j)
  BY <1>1 DEF submit, dur
<1>3. j \in Arriving' => j \in Arriving /\ j \notin Arrived(e)
  <2> SUFFICES ASSUME j \in Arriving' PROVE j \in Arriving /\ j \notin Arrived(e)
    OBVIOUS
  <2>1. PICK f \in heap' : f.type = Arrival /\ f.job = j
    BY DEF Arriving
  <2>2. j \in Arriving /\ f \in heap \ {e}
    BY <2>1, WhoArrives
  <2>3. QED BY <2>1, <2>2 DEF SchedInv, EventsOK, Arrived
<1>4. CASE j \in P
  <2>1. state[j].status # "completed"
    BY <1>4, WhoMoves
  <2>2. state'[j].status = state[j].status
    BY <1>4, Enters
  <2>3. QED BY <2>1, <2>2
<1>5. CASE j \in left
  <2>1. j \in running /\ state[j].status # "completed"
    BY <1>5, WhoMoves
  <2>2. e.type = Completion
    BY <1>1, <1>5, <2>1, Leaves
  <2>3. /\ state'[j].waited = state[j].waited
        /\ state'[j].segments = Append(state[j].segments, [start |-> state[j].resumedAt, end |-> now'])
    BY <1>5, Leaves
  <2>4. now' = state[j].resumedAt + state[j].remaining /\ state[j].resumedAt = Reached(j)
        /\ now' \in Nat
    BY <1>5, <2>1, <2>2, WhoMoves
  <2>5. j \notin running' /\ j \notin queued'
    BY <1>1, <1>5, <2>1, <2>2 DEF Arrived, Yielding
  <2>6. j \notin Arriving'
    <3>1. j \notin Arriving
      BY <2>1 DEF Arriving, SchedInv, PlacesApart
    <3>2. QED BY <1>3, <3>1
  <2>7. /\ state[j].segments \in Seq(Segment) /\ state[j].resumedAt \in Nat
        /\ state[j].waited \in Nat /\ state[j].remaining \in Nat
    BY DEF TimesInv, SchedTypeOK, JobState
  <2>8. /\ state'[j].segments # <<>>
        /\ state'[j].segments[Len(state'[j].segments)].end = now'
    <3> DEFINE s == state[j].segments
               x == [start |-> state[j].resumedAt, end |-> now']
    <3>1. x \in Segment /\ s \in Seq(Segment) /\ x.end = now'
      BY <2>4, <2>7 DEF Segment
    <3> HIDE DEF s, x
    <3>2. /\ Append(s, x) # <<>> /\ Len(Append(s, x)) = Len(s) + 1
          /\ Append(s, x)[Len(s) + 1] = x
      BY ONLY <3>1, AppendProperties
    <3>3. Append(s, x) # <<>> /\ Append(s, x)[Len(Append(s, x))].end = now'
      BY ONLY <3>1, <3>2
    <3>4. QED BY <2>3, <3>3 DEF s, x
  <2>9. now' = submit(j) + state[j].waited + dur(j)
    <3>1. submit(j) \in Nat /\ dur(j) \in Nat
      BY InputType DEF SchedInv
    <3>2. now' = submit(j) + state[j].waited + dur(j) - state[j].remaining + state[j].remaining
      BY ONLY <2>4 DEF Reached
    <3>3. QED BY ONLY <2>7, <3>1, <3>2
  <2>10. QED BY <1>2, <2>3, <2>5, <2>6, <2>8, <2>9
<1>6. CASE j \notin P /\ j \notin left
  <2>1. state'[j] = state[j]
    BY <1>6, StaysPut
  <2>2. /\ j \notin running \cup queued \cup Arriving
        /\ state[j].segments # <<>>
        /\ state[j].segments[Len(state[j].segments)].end = submit(j) + state[j].waited + dur(j)
    BY <2>1 DEF TimesInv, CompletedInTime
  <2>3. j \notin Arrived(e)
    BY <1>1, <2>2 DEF Arrived, Arriving
  <2>4. j \notin running' /\ j \notin queued'
    BY <1>1, <1>6, <2>2, <2>3 DEF Yielding
  <2>5. j \notin Arriving'
    BY <1>3, <2>2
  <2>6. QED BY <1>2, <2>1, <2>2, <2>4, <2>5
<1>7. QED BY <1>4, <1>5, <1>6

(* Closing out changes nothing but the ends of the stints that are cut off, *)
(* and there are such only if the horizon was hit.                          *)
LEMMA CloseOutIs ==
  ASSUME SchedAssumption, TimesInv, CloseOut, NEW j \in Jobs
  PROVE  /\ state'[j] \in JobState /\ state' = [k \in Jobs |-> state'[k]] /\ phase' = "done"
         /\ state'[j].remaining = state[j].remaining /\ state'[j].since = state[j].since
         /\ state'[j].waited = state[j].waited /\ state'[j].resumedAt = state[j].resumedAt
         /\ state'[j].gen = state[j].gen
         /\ (state'[j].status = "completed") <=> (state[j].status = "completed")
         /\ j \notin running => state'[j].segments = state[j].segments
         /\ j \in running =>
              /\ \E e \in heap : First(e) /\ Beyond(e)
              /\ input.horizon \in Nat
              /\ state'[j].segments = Append(state[j].segments,
                   [start |-> state[j].resumedAt, end |-> input.horizon])
<1> DEFINE hit == \E e \in heap : First(e) /\ Beyond(e)
           cutoff == IF hit THEN input.horizon
                     ELSE CHOOSE u \in {state[k].resumedAt : k \in running} :
                            \A k \in running : state[k].resumedAt <= u
           cutOf(k) == IF k \in running
                       THEN Append(state[k].segments, [start |-> state[k].resumedAt, end |-> cutoff])
                       ELSE state[k].segments
           after(k) == [state[k] EXCEPT !.segments = cutOf(k),
                                        !.status = IF @ = "completed" THEN @
                                                   ELSE IF cutOf(k) = <<>> THEN "never_started"
                                                   ELSE "incomplete"]
           cut == IF j \in running
                  THEN Append(state[j].segments, [start |-> state[j].resumedAt, end |-> cutoff])
                  ELSE state[j].segments
           s == state[j]
           st == IF s.status = "completed" THEN "completed"
                 ELSE IF cut = <<>> THEN "never_started" ELSE "incomplete"
<1>0. state' = [k \in Jobs |-> after(k)]
  BY Zenon DEF CloseOut
<1>1. state'[j] = [s EXCEPT !.segments = cut, !.status = st]
  <2>1. state'[j] = after(j)
    <3> HIDE DEF after
    <3>1. QED BY <1>0
  <2> HIDE DEF cutoff
  <2>2. QED BY <2>1
<1>2. j \in running => hit
  <2>1. j \in running => heap # {}
    BY DEF TimesInv, EventsInTime
  <2>2. QED BY <2>1 DEF CloseOut
<1>3. hit => input.horizon \in Nat
  BY DEF Beyond, TimesInv, SchedTypeOK, Input
<1>4. s \in JobState
  BY DEF TimesInv, SchedTypeOK
<1>5. cut \in Seq(Segment)
  <2>1. s.segments \in Seq(Segment) /\ s.resumedAt \in Nat
    BY <1>4 DEF JobState
  <2>2. CASE j \in running
    <3>1. cutoff = input.horizon
      BY <1>2, <2>2
    <3>2. cutoff \in Int
      BY <1>2, <1>3, <2>2, <3>1
    <3> HIDE DEF cutoff
    <3>3. [start |-> s.resumedAt, end |-> cutoff] \in Segment
      BY <2>1, <3>2 DEF Segment
    <3>4. QED BY <2>1, <2>2, <3>3
  <2>3. QED BY <2>1, <2>2
<1>6. j \in running => cut = Append(s.segments, [start |-> s.resumedAt, end |-> input.horizon])
  BY <1>2
<1>7. j \notin running => cut = s.segments
  OBVIOUS
<1>8. st \in {"never_started", "incomplete", "completed"} /\ (st = "completed" <=> s.status = "completed")
  OBVIOUS
<1> HIDE DEF cut, st, s
<1>9. /\ state'[j] \in JobState
      /\ state'[j].remaining = s.remaining /\ state'[j].since = s.since
      /\ state'[j].waited = s.waited /\ state'[j].resumedAt = s.resumedAt
      /\ state'[j].gen = s.gen /\ state'[j].status = st /\ state'[j].segments = cut
  BY <1>1, <1>4, <1>5, <1>8 DEF JobState
<1>10. state' = [k \in Jobs |-> state'[k]]
  <2> HIDE DEF after
  <2>1. QED BY <1>0
<1>11. phase' = "done"
  BY Zenon DEF CloseOut
<1>12. QED BY <1>2, <1>3, <1>6, <1>7, <1>8, <1>9, <1>10, <1>11 DEF s

LEMMA CloseOutTimes ==
  ASSUME SchedAssumption, TimesInv, CloseOut
  PROVE  TimesInv'
<1>1. UNCHANGED <<input, now, heap, running, queued, free, generation>>
  BY DEF CloseOut
<1>2. /\ running \in SUBSET Jobs /\ queued \in SUBSET Jobs /\ heap \in SUBSET Event
  BY DEF TimesInv, SchedTypeOK
<1>3. \A j \in Jobs : /\ state'[j] \in JobState
                      /\ state'[j].since = state[j].since /\ state'[j].waited = state[j].waited
                      /\ state'[j].resumedAt = state[j].resumedAt
                      /\ state'[j].gen = state[j].gen
                      /\ state'[j].remaining = state[j].remaining
  BY CloseOutIs
<1>4. \A j \in Jobs : submit(j)' = submit(j) /\ dur(j)' = dur(j)
  BY <1>1 DEF submit, dur
<1>5. \A j \in Jobs : Reached(j)' = Reached(j) /\ Stint(j)' = Stint(j)
  BY <1>3, <1>4 DEF Reached, Stint
<1>6. Arriving' = Arriving
  BY <1>1 DEF Arriving
<1>7. SchedTypeOK'
  <2>1. state' = [j \in Jobs |-> state'[j]] /\ phase' \in {"loop", "done"}
    <3>1. 1 \in Jobs
      BY DEF Jobs, SchedAssumption
    <3>2. QED BY <3>1, CloseOutIs
  <2>2. state' \in [Jobs -> JobState]
    BY <1>3, <2>1
  <2>3. QED BY <1>1, <2>1, <2>2 DEF TimesInv, SchedTypeOK
<1>8. EventsInTime'
  <2>1. \A e \in heap : e.job \in Jobs
    BY <1>2 DEF Event
  <2>2. \A e \in heap : Live(e)' <=> Live(e)
    BY <1>1, <1>3, <2>1 DEF Live
  <2>3. \A e \in heap' : now' <= e.time
    BY <1>1 DEF TimesInv, EventsInTime
  <2>4. \A e \in heap' : e.type = Arrival =>
          e.time = submit(e.job)' /\ state'[e.job].since = submit(e.job)'
    BY <1>1, <1>3, <1>4, <2>1 DEF TimesInv, EventsInTime
  <2>5. \A e \in heap' : e.type = Completion => e.gen <= generation'
    BY <1>1 DEF TimesInv, EventsInTime
  <2>6. \A e \in heap' : (e.type = Completion /\ Live(e)') => e = Stint(e.job)'
    BY <1>1, <1>5, <2>1, <2>2 DEF TimesInv, EventsInTime
  <2>7. \A j \in running' : Stint(j)' \in heap'
    BY <1>1, <1>2, <1>5 DEF TimesInv, EventsInTime
  <2>8. QED BY <2>3, <2>4, <2>5, <2>6, <2>7 DEF EventsInTime
<1>9. JobsInTime'
  <2>1. \A j \in running' : /\ state'[j].resumedAt = Reached(j)' /\ submit(j)' <= state'[j].resumedAt
                            /\ state'[j].resumedAt <= now' /\ state'[j].gen <= generation'
    BY <1>1, <1>2, <1>3, <1>4, <1>5 DEF TimesInv, JobsInTime
  <2>2. \A j \in queued' : /\ state'[j].since = Reached(j)' /\ submit(j)' <= state'[j].since
                           /\ state'[j].since <= now'
    BY <1>1, <1>2, <1>3, <1>4, <1>5 DEF TimesInv, JobsInTime
  <2>3. \A j \in Arriving' : state'[j].since = Reached(j)'
    <3>1. Arriving \in SUBSET Jobs
      BY DEF Arriving
    <3>2. QED BY <1>3, <1>5, <1>6, <3>1 DEF TimesInv, JobsInTime
  <2>4. QED BY <2>1, <2>2, <2>3 DEF JobsInTime
<1>10. CompletedInTime'
  <2> SUFFICES ASSUME NEW j \in Jobs, state'[j].status = "completed"
               PROVE  /\ j \notin running' /\ j \notin queued' /\ j \notin Arriving'
                      /\ state'[j].segments # <<>>
                      /\ state'[j].segments[Len(state'[j].segments)].end
                           = submit(j)' + state'[j].waited + dur(j)'
    BY DEF CompletedInTime
  <2>1. state[j].status = "completed"
    BY CloseOutIs
  <2>2. /\ j \notin running \cup queued \cup Arriving
        /\ state[j].segments # <<>>
        /\ state[j].segments[Len(state[j].segments)].end = submit(j) + state[j].waited + dur(j)
    BY <2>1 DEF TimesInv, CompletedInTime
  <2>3. state'[j].segments = state[j].segments
    BY <2>2, CloseOutIs
  <2>4. QED BY <1>1, <1>3, <1>4, <1>6, <2>2, <2>3
<1>11. QED BY <1>7, <1>8, <1>9, <1>10 DEF TimesInv

LEMMA TimesStart == SchedAssumption /\ SchedInit => TimesInv
<1> SUFFICES ASSUME SchedAssumption, SchedInit PROVE TimesInv
  OBVIOUS
<1>1. input \in Input /\ Pool \in Nat
  BY DEF SchedInit, SchedAssumption
<1>2. \A j \in Jobs : submit(j) \in Nat /\ dur(j) \in Nat
  BY <1>1, InputType
<1>3. ASSUME NEW e \in heap
      PROVE  e \in Event /\ e.type = Arrival /\ e.job \in Jobs /\ e.time = submit(e.job)
  <2>1. PICK j \in Jobs : e = [time |-> submit(j), type |-> Arrival, job |-> j, gen |-> 0]
    BY DEF SchedInit
  <2>2. QED BY <1>2, <2>1 DEF Event
<1>4. ASSUME NEW j \in Jobs
      PROVE  /\ state[j] \in JobState /\ state[j].since = submit(j)
             /\ state[j].waited = 0 /\ state[j].remaining = dur(j)
             /\ state[j].status = "never_started"
  <2>1. state[j] = [remaining |-> dur(j), since |-> submit(j), waited |-> 0,
                    preempted |-> 0, resumedAt |-> 0, gen |-> 0,
                    segments |-> <<>>, status |-> "never_started"]
    BY DEF SchedInit
  <2>2. <<>> \in Seq(Segment)
    OBVIOUS
  <2>3. QED BY <1>2, <2>1, <2>2 DEF JobState
<1>5. state \in [Jobs -> JobState]
  <2>1. state = [j \in Jobs |-> state[j]]
    BY DEF SchedInit
  <2>2. QED BY <1>4, <2>1
<1>6. SchedTypeOK
  BY <1>1, <1>3, <1>5 DEF SchedInit, SchedTypeOK
<1>7. EventsInTime
  BY <1>2, <1>3, <1>4 DEF SchedInit, EventsInTime, Arrival, Completion
<1>8. JobsInTime
  <2>1. \A j \in Jobs : state[j].since = Reached(j)
    BY <1>2, <1>4 DEF Reached
  <2>2. QED BY <2>1 DEF SchedInit, JobsInTime, Arriving
<1>9. CompletedInTime
  BY <1>4 DEF CompletedInTime
<1>10. QED BY <1>6, <1>7, <1>8, <1>9 DEF TimesInv

LEMMA TimesStep ==
  ASSUME SchedAssumption, SchedInv, SchedInv', TimesInv, [SchedNext]_schedVars
  PROVE  TimesInv'
<1>1. ASSUME NEW e \in heap, Turn(e) PROVE TimesInv'
  <2>1. PICK left \in SUBSET running : \E P \in SUBSET Jobs : Moves(e, left, P)
    BY <1>1, TurnMoves DEF TimesInv
  <2>2. PICK P \in SUBSET Jobs : Moves(e, left, P)
    BY <2>1
  <2>3. free' \in 0 .. Pool
    BY <1>1, FreeStays DEF TimesInv, SchedTypeOK
  <2>4. SchedTypeOK'
    BY <2>2, <2>3, MovesTyped
  <2>5. EventsInTime'
    BY <2>2, <2>3, MovesEvents
  <2>6. JobsInTime'
    BY <2>2, <2>3, MovesJobs
  <2>7. CompletedInTime'
    BY <2>2, MovesCompleted
  <2>8. QED BY <2>4, <2>5, <2>6, <2>7 DEF TimesInv
<1>2. CASE UNCHANGED schedVars
  BY <1>2 DEF schedVars, TimesInv, SchedTypeOK, EventsInTime, JobsInTime, CompletedInTime,
              Stint, Reached, Arriving, Live, submit, dur
<1>3. CASE CloseOut
  BY <1>3, CloseOutTimes
<1>4. QED BY <1>1, <1>2, <1>3 DEF SchedNext

-----------------------------------------------------------------------------
(* The pool through time.  The jobs that hold GPUs at an instant are those  *)
(* with a segment, or an open stint, around it; a turn changes none of them *)
(* for the instants that are past.                                          *)

Held(x) == {j \in Jobs : \/ \E s \in SegmentsOf(j) : s.start <= x /\ x < s.end
                         \/ j \in running /\ state[j].resumedAt <= x}

ShownAt(x) == {j \in Jobs : \E s \in SegmentsOf(j) : s.start <= x /\ x < s.end}

SegmentsInTime ==
  \A j \in Jobs : \A s \in SegmentsOf(j) :
    submit(j) <= s.start /\ s.start <= s.end /\ s.end <= now

PoolInTime ==
  /\ input.horizon # NoHorizon => now <= input.horizon
  /\ phase = "loop" => SegmentsInTime
  /\ phase = "loop" => \A x \in Int : Gpus(Held(x)) <= Pool
  /\ TimelineFits

LEMMA SegmentsAppend ==
  ASSUME NEW q \in Seq(Segment), NEW x \in Segment, NEW r, r = Append(q, x)
  PROVE  {r[i] : i \in 1 .. Len(r)} = {q[i] : i \in 1 .. Len(q)} \cup {x}
<1>1. /\ Len(r) = Len(q) + 1 /\ Len(q) \in Nat /\ r[Len(q) + 1] = x
      /\ \A i \in 1 .. Len(q) : r[i] = q[i]
  BY ONLY AppendProperties, r = Append(q, x), q \in Seq(Segment), x \in Segment
<1>2. \A i \in 1 .. Len(r) : i \in 1 .. Len(q) \/ i = Len(q) + 1
  BY <1>1
<1>3. \A i \in 1 .. Len(q) : i \in 1 .. Len(r)
  BY <1>1
<1>4. Len(q) + 1 \in 1 .. Len(r)
  BY <1>1
<1>5. ASSUME NEW i \in 1 .. Len(r) PROVE r[i] \in {q[k] : k \in 1 .. Len(q)} \cup {x}
  BY <1>1, <1>2
<1>6. ASSUME NEW i \in 1 .. Len(q) PROVE q[i] \in {r[k] : k \in 1 .. Len(r)}
  BY <1>1, <1>3
<1>7. x \in {r[k] : k \in 1 .. Len(r)}
  BY <1>1, <1>4
<1>8. QED BY <1>5, <1>6, <1>7

(* The segments of a job that leaves, and those of the others.              *)
LEMMA SegmentsMoved ==
  ASSUME SchedAssumption, SchedInv, TimesInv, NEW e \in heap,
         NEW left \in SUBSET running, NEW P \in SUBSET Jobs, Moves(e, left, P), NEW j \in Jobs
  PROVE  /\ j \notin left => SegmentsOf(j)' = SegmentsOf(j)
         /\ j \in left => SegmentsOf(j)' =
              SegmentsOf(j) \cup {[start |-> state[j].resumedAt, end |-> now']}
<1>1. CASE j \in left
  <2>1. state'[j].segments = Append(state[j].segments, [start |-> state[j].resumedAt, end |-> now'])
    BY <1>1, Leaves
  <2>2. state[j].segments \in Seq(Segment) /\ state[j].resumedAt \in Nat /\ now' \in Nat
    <3>1. now' \in Nat
      BY WhoMoves
    <3>2. QED BY <3>1 DEF TimesInv, SchedTypeOK, JobState
  <2>3. [start |-> state[j].resumedAt, end |-> now'] \in Segment
    BY <2>2 DEF Segment
  <2> DEFINE q == state[j].segments
             x == [start |-> state[j].resumedAt, end |-> now']
             r == state'[j].segments
  <2>4. q \in Seq(Segment) /\ x \in Segment /\ r = Append(q, x)
    BY <2>1, <2>2, <2>3
  <2> HIDE DEF q, x, r
  <2>5. {r[i] : i \in 1 .. Len(r)} = {q[i] : i \in 1 .. Len(q)} \cup {x}
    BY <2>4, SegmentsAppend
  <2>6. SegmentsOf(j)' = {r[i] : i \in 1 .. Len(r)} /\ SegmentsOf(j) = {q[i] : i \in 1 .. Len(q)}
    BY DEF SegmentsOf, q, r
  <2>7. SegmentsOf(j)' = SegmentsOf(j) \cup {x}
    BY <2>5, <2>6
  <2>8. QED BY <1>1, <2>7 DEF x
<1>2. CASE j \notin left
  <2>1. state'[j].segments = state[j].segments
    <3>1. CASE j \in P
      BY <3>1, Enters
    <3>2. CASE j \notin P
      BY <1>2, <3>2, StaysPut
    <3>3. QED BY <3>1, <3>2
  <2>2. QED BY <1>2, <2>1 DEF SegmentsOf
<1>3. QED BY <1>1, <1>2

LEMMA SegmentTyped ==
  ASSUME TimesInv, NEW j \in Jobs, NEW s \in SegmentsOf(j)
  PROVE  s \in Segment /\ s.start \in Nat /\ s.end \in Int
<1>1. state[j].segments \in Seq(Segment)
  BY DEF TimesInv, SchedTypeOK, JobState
<1>2. s \in Segment
  BY <1>1 DEF SegmentsOf
<1>3. QED BY <1>2 DEF Segment

LEMMA MovesPool ==
  ASSUME SchedAssumption, SchedInv, SchedInv', TimesInv, TimesInv', PoolInTime, NEW e \in heap,
         NEW left \in SUBSET running, NEW P \in SUBSET Jobs, Moves(e, left, P)
  PROVE  PoolInTime'
<1>1. /\ phase = "loop" /\ phase' = "loop" /\ input' = input /\ ~Beyond(e)
      /\ now' \in Nat /\ now \in Nat /\ now <= now' /\ e.time = now' /\ P \cap running = {}
      /\ running' = (running \ left) \cup P /\ running \in SUBSET Jobs /\ left \in SUBSET Jobs
  BY WhoMoves DEF Moves, TimesInv, SchedTypeOK
<1>2. \A j \in Jobs : submit(j)' = submit(j)
  BY <1>1 DEF submit
<1>3. input'.horizon # NoHorizon => now' <= input'.horizon
  <2>1. input.horizon \in Int
    BY DEF TimesInv, SchedTypeOK, Input, NoHorizon
  <2>2. QED BY <1>1, <2>1 DEF Beyond
<1>4. SegmentsInTime'
  <2> SUFFICES ASSUME NEW j \in Jobs, NEW s \in SegmentsOf(j)'
               PROVE  submit(j)' <= s.start /\ s.start <= s.end /\ s.end <= now'
    BY DEF SegmentsInTime
  <2>1. CASE s \in SegmentsOf(j)
    <3>1. submit(j) <= s.start /\ s.start <= s.end /\ s.end <= now
      BY <1>1, <2>1 DEF PoolInTime, SegmentsInTime
    <3>2. s.end \in Int
      BY <2>1, SegmentTyped
    <3>3. QED BY <1>1, <1>2, <3>1, <3>2
  <2>2. CASE s \notin SegmentsOf(j)
    <3>1. j \in left /\ s = [start |-> state[j].resumedAt, end |-> now']
      BY <2>2, SegmentsMoved
    <3>2. submit(j) <= state[j].resumedAt /\ state[j].resumedAt <= now'
      BY <3>1, WhoMoves
    <3>3. s.start = state[j].resumedAt /\ s.end = now'
      BY <3>1
    <3>4. QED BY <1>1, <1>2, <3>2, <3>3
  <2>3. QED BY <2>1, <2>2
<1>5. ASSUME NEW x \in Int PROVE Gpus(Held(x))' <= Pool
  <2>1. Gpus(Held(x))' = Gpus(Held(x)')
    BY <1>1 DEF Gpus, gpus
  <2>2. CASE x >= now'
    <3>1. ASSUME NEW j \in Held(x)' PROVE j \in running'
      <4>1. j \in Jobs
        BY DEF Held
      <4>2. ASSUME NEW s \in SegmentsOf(j)', s.start <= x, x < s.end PROVE FALSE
        <5>1. s.end <= now'
          BY <1>4, <4>1 DEF SegmentsInTime
        <5>2. s.end \in Int
          <6>1. state'[j].segments \in Seq(Segment)
            BY <4>1 DEF TimesInv, SchedTypeOK, JobState
          <6>2. PICK i \in 1 .. Len(state'[j].segments) : s = state'[j].segments[i]
            BY DEF SegmentsOf
          <6>3. s \in Segment
            BY <6>1, <6>2
          <6>4. QED BY <6>3 DEF Segment
        <5>3. QED BY <1>1, <2>2, <4>2, <5>1, <5>2
      <4>3. QED BY <4>2 DEF Held
    <3>2. Gpus(running)' <= Pool /\ running' \in SUBSET Jobs
      <4>1. running' \in SUBSET Jobs
        BY DEF SchedInv, PlacesApart
      <4>2. free' \in 0 .. Pool /\ Pool \in Nat /\ free' + Gpus(running)' = Pool
        BY DEF SchedInv, GpusConserved, TimesInv, SchedTypeOK, SchedAssumption
      <4>3. Gpus(running)' = Gpus(running') /\ Gpus(running') \in Nat
        BY <1>1, <4>1, GpusType DEF Gpus, gpus
      <4>4. QED BY <4>1, <4>2, <4>3
    <3>3. Gpus(running)' = Gpus(running')
      BY <1>1 DEF Gpus, gpus
    <3>4. Gpus(Held(x)') <= Gpus(running')
      BY <3>1, <3>2, GpusMonotone
    <3>5. Gpus(Held(x)') \in Nat /\ Gpus(running') \in Nat /\ Pool \in Nat
      <4>1. Held(x)' \in SUBSET Jobs
        BY DEF Held
      <4>2. QED BY <3>2, <4>1, GpusType DEF SchedAssumption
    <3>6. QED BY <2>1, <3>2, <3>3, <3>4, <3>5
  <2>3. CASE x < now'
    <3>1. ASSUME NEW j \in Jobs PROVE j \in Held(x)' <=> j \in Held(x)
      <4>1. CASE j \in P
        <5>1. state'[j].resumedAt = now'
          BY <4>1, Enters
        <5>2. j \notin running /\ ~(state'[j].resumedAt <= x)
          BY <1>1, <2>3, <4>1, <5>1
        <5>3. j \notin left
          BY <5>2
        <5>4. SegmentsOf(j)' = SegmentsOf(j)
          BY <5>3, SegmentsMoved
        <5>5. QED BY <5>2, <5>4 DEF Held
      <4>2. CASE j \in left
        <5>1. j \notin running' /\ j \in running
          BY <1>1, <4>2
        <5>2. SegmentsOf(j)' = SegmentsOf(j) \cup {[start |-> state[j].resumedAt, end |-> now']}
          BY <4>2, SegmentsMoved
        <5>3. (\E s \in SegmentsOf(j)' : s.start <= x /\ x < s.end)
              <=> \/ \E s \in SegmentsOf(j) : s.start <= x /\ x < s.end
                  \/ state[j].resumedAt <= x
          <6> DEFINE y == [start |-> state[j].resumedAt, end |-> now']
          <6>1. y.start = state[j].resumedAt /\ y.end = now'
            OBVIOUS
          <6>2. SegmentsOf(j)' = SegmentsOf(j) \cup {y}
            BY <5>2
          <6> HIDE DEF y
          <6>3. QED BY <2>3, <6>1, <6>2
        <5>4. QED BY <5>1, <5>3 DEF Held
      <4>3. CASE j \notin P /\ j \notin left
        <5>1. state'[j] = state[j]
          BY <4>3, StaysPut
        <5>2. SegmentsOf(j)' = SegmentsOf(j)
          BY <4>3, SegmentsMoved
        <5>3. j \in running' <=> j \in running
          BY <1>1, <4>3
        <5>4. QED BY <5>1, <5>2, <5>3 DEF Held
      <4>4. QED BY <4>1, <4>2, <4>3
    <3>2. Held(x)' \in SUBSET Jobs /\ Held(x) \in SUBSET Jobs
      BY DEF Held
    <3>3. Held(x)' = Held(x)
      BY <3>1, <3>2
    <3>4. Gpus(Held(x)) <= Pool
      BY <1>1 DEF PoolInTime
    <3>5. QED BY <2>1, <3>3, <3>4
  <2>4. QED BY <1>1, <2>2, <2>3
<1>6. TimelineFits'
  BY <1>1 DEF TimelineFits
<1>7. \A x \in Int : Gpus(Held(x))' <= Pool
  BY <1>5
<1>8. QED BY <1>3, <1>4, <1>6, <1>7 DEF PoolInTime

LEMMA CloseOutPool ==
  ASSUME SchedAssumption, SchedInv, TimesInv, TimesInv', PoolInTime, CloseOut
  PROVE  PoolInTime'
<1>1. /\ phase = "loop" /\ UNCHANGED <<input, now, running>>
      /\ now \in Nat /\ running \in SUBSET Jobs
  BY Zenon DEF CloseOut, TimesInv, SchedTypeOK
<1>2. phase' = "done"
  BY Zenon DEF CloseOut
<1>3. ASSUME NEW j \in Jobs, NEW s \in SegmentsOf(j)'
      PROVE  \/ s \in SegmentsOf(j)
             \/ /\ j \in running /\ input.horizon \in Nat
                /\ s.start = state[j].resumedAt /\ s.end = input.horizon
  <2>1. CASE j \in running
    <3> DEFINE q == state[j].segments
               x == [start |-> state[j].resumedAt, end |-> input.horizon]
               r == state'[j].segments
    <3>1. r = Append(q, x) /\ input.horizon \in Nat
      BY <2>1, CloseOutIs
    <3>2. q \in Seq(Segment) /\ x \in Segment
      <4>1. state[j].segments \in Seq(Segment) /\ state[j].resumedAt \in Nat
        BY DEF TimesInv, SchedTypeOK, JobState
      <4>2. QED BY <3>1, <4>1 DEF Segment
    <3>3. SegmentsOf(j)' = {r[i] : i \in 1 .. Len(r)} /\ SegmentsOf(j) = {q[i] : i \in 1 .. Len(q)}
      BY DEF SegmentsOf
    <3>4. x.start = state[j].resumedAt /\ x.end = input.horizon
      OBVIOUS
    <3> HIDE DEF q, x, r
    <3>5. {r[i] : i \in 1 .. Len(r)} = {q[i] : i \in 1 .. Len(q)} \cup {x}
      BY <3>1, <3>2, SegmentsAppend
    <3>6. s \in SegmentsOf(j) \/ s = x
      BY <3>3, <3>5
    <3>7. QED BY <2>1, <3>1, <3>4, <3>6
  <2>2. CASE j \notin running
    <3>1. state'[j].segments = state[j].segments
      BY <2>2, CloseOutIs
    <3>2. QED BY <3>1 DEF SegmentsOf
  <2>3. QED BY <2>1, <2>2
<1>4. ASSUME NEW j \in running
      PROVE  /\ state[j].resumedAt \in Nat /\ submit(j) <= state[j].resumedAt
             /\ state[j].resumedAt <= now /\ j \in Jobs
  BY <1>1 DEF TimesInv, JobsInTime, SchedTypeOK, JobState
<1>5. ASSUME NEW j \in Jobs PROVE submit(j) \in Nat /\ submit(j)' = submit(j)
  BY <1>1, InputType DEF submit, SchedInv
<1>6. input.horizon # NoHorizon => now <= input.horizon
  BY DEF PoolInTime
<1>7. ASSUME NEW x \in Int PROVE Gpus(ShownAt(x))' <= Pool
  <2>1. ASSUME NEW j \in ShownAt(x)' PROVE j \in Held(x)
    <3>1. PICK s \in SegmentsOf(j)' : s.start <= x /\ x < s.end
      BY DEF ShownAt
    <3>2. j \in Jobs
      BY DEF ShownAt
    <3>3. s \in SegmentsOf(j) \/ (j \in running /\ s.start = state[j].resumedAt)
      BY <1>3, <3>2
    <3>4. QED BY <3>1, <3>2, <3>3 DEF Held
  <2>2. Held(x) \in SUBSET Jobs /\ ShownAt(x)' \in SUBSET Held(x)
    BY <2>1 DEF Held
  <2>3. Gpus(ShownAt(x)') <= Gpus(Held(x)) /\ Gpus(Held(x)) <= Pool
    BY <1>1, <2>2, GpusMonotone DEF PoolInTime
  <2>4. Gpus(ShownAt(x)') \in Nat /\ Gpus(Held(x)) \in Nat /\ Pool \in Nat
    <3>1. ShownAt(x)' \in SUBSET Jobs
      BY <2>2
    <3>2. QED BY <2>2, <3>1, GpusType DEF SchedAssumption
  <2>5. Gpus(ShownAt(x))' = Gpus(ShownAt(x)')
    BY <1>1 DEF Gpus, gpus
  <2>6. QED BY <2>3, <2>4, <2>5
<1>8. ASSUME NEW j \in Jobs, NEW s \in SegmentsOf(j)'
      PROVE  /\ s.start >= submit(j)' /\ s.start <= s.end /\ s.start \in Int
             /\ input'.horizon # NoHorizon => s.end <= input'.horizon
  <2>1. CASE s \in SegmentsOf(j)
    <3>1. submit(j) <= s.start /\ s.start <= s.end /\ s.end <= now
      BY <1>1, <2>1 DEF PoolInTime, SegmentsInTime
    <3>2. s.start \in Nat /\ s.end \in Int
      BY <2>1, SegmentTyped
    <3>3. input.horizon \in Int
      BY DEF TimesInv, SchedTypeOK, Input, NoHorizon
    <3>4. s.start >= submit(j)' /\ s.start <= s.end
      BY <1>5, <3>1, <3>2
    <3>5. input'.horizon # NoHorizon => s.end <= input'.horizon
      BY <1>1, <1>6, <3>1, <3>2, <3>3
    <3>6. QED BY <3>2, <3>4, <3>5
  <2>2. CASE /\ j \in running /\ input.horizon \in Nat
             /\ s.start = state[j].resumedAt /\ s.end = input.horizon
    <3>1. /\ state[j].resumedAt \in Nat /\ submit(j) <= state[j].resumedAt
          /\ state[j].resumedAt <= now
      BY <1>4, <2>2
    <3>2. input.horizon # NoHorizon
      BY <2>2 DEF NoHorizon
    <3>3. s.start <= s.end
      BY <1>1, <1>6, <2>2, <3>1, <3>2
    <3>4. QED BY <1>1, <1>5, <2>2, <3>1, <3>3
  <2>3. QED BY <1>3, <2>1, <2>2
<1>9. TimelineFits'
  <2> SUFFICES ASSUME NEW j \in Jobs, NEW s \in SegmentsOf(j)'
               PROVE  /\ s.start >= submit(j)' /\ s.start <= s.end
                      /\ input'.horizon # NoHorizon => s.end <= input'.horizon
                      /\ Gpus(ShownAt(s.start))' <= Pool
    BY <1>2 DEF TimelineFits, ShownAt
  <2>1. QED BY <1>7, <1>8
<1>10. QED BY <1>1, <1>2, <1>6, <1>9 DEF PoolInTime

LEMMA PoolStart == SchedAssumption /\ SchedInit => PoolInTime
<1> SUFFICES ASSUME SchedAssumption, SchedInit PROVE PoolInTime
  OBVIOUS
<1>1. input \in Input /\ now = 0 /\ running = {} /\ phase = "loop" /\ Pool \in Nat
  BY DEF SchedInit, SchedAssumption
<1>2. input.horizon # NoHorizon => now <= input.horizon
  BY <1>1 DEF Input
<1>3. \A j \in Jobs : SegmentsOf(j) = {}
  <2>1. \A j \in Jobs : state[j].segments = <<>>
    BY DEF SchedInit
  <2>2. QED BY <2>1 DEF SegmentsOf
<1>4. \A x \in Int : Held(x) = {}
  BY <1>1, <1>3 DEF Held
<1>5. \A x \in Int : Gpus(Held(x)) <= Pool
  BY <1>1, <1>4, GpusNone
<1>6. QED BY <1>1, <1>2, <1>3, <1>5 DEF PoolInTime, SegmentsInTime, TimelineFits

LEMMA PoolStep ==
  ASSUME SchedAssumption, SchedInv, SchedInv', TimesInv, TimesInv', PoolInTime,
         [SchedNext]_schedVars
  PROVE  PoolInTime'
<1>1. ASSUME NEW e \in heap, Turn(e) PROVE PoolInTime'
  <2>1. PICK left \in SUBSET running : \E P \in SUBSET Jobs : Moves(e, left, P)
    BY <1>1, TurnMoves DEF TimesInv
  <2>2. PICK P \in SUBSET Jobs : Moves(e, left, P)
    BY <2>1
  <2>3. QED BY <2>2, MovesPool
<1>2. CASE UNCHANGED schedVars
  <2>1. UNCHANGED <<input, now, running, state, phase>>
    BY <1>2 DEF schedVars
  <2>2. \A j \in Jobs : SegmentsOf(j)' = SegmentsOf(j) /\ submit(j)' = submit(j)
    BY <2>1 DEF SegmentsOf, submit
  <2>3. \A x : Held(x)' = Held(x)
    BY <2>1, <2>2 DEF Held
  <2>4. SegmentsInTime' <=> SegmentsInTime
    BY <2>1, <2>2 DEF SegmentsInTime
  <2>5. \A x \in Int : Gpus(Held(x))' = Gpus(Held(x))
    <3>1. \A x \in Int : Gpus(Held(x))' = Gpus(Held(x)')
      BY <2>1 DEF Gpus, gpus
    <3>2. QED BY <2>3, <3>1
  <2>6. \A x : Gpus(ShownAt(x))' = Gpus(ShownAt(x))
    <3>1. \A x : ShownAt(x)' = ShownAt(x)
      BY <2>2 DEF ShownAt
    <3>2. \A x : Gpus(ShownAt(x))' = Gpus(ShownAt(x)')
      BY <2>1 DEF Gpus, gpus
    <3>3. QED BY <3>1, <3>2
  <2>7. TimelineFits'
    <3> SUFFICES ASSUME phase = "done", NEW j \in Jobs, NEW s \in SegmentsOf(j)
                 PROVE  /\ s.start >= submit(j) /\ s.start <= s.end
                        /\ input.horizon # NoHorizon => s.end <= input.horizon
                        /\ Gpus(ShownAt(s.start)) <= Pool
      BY <2>1, <2>2, <2>6 DEF TimelineFits, ShownAt
    <3>1. QED BY DEF PoolInTime, TimelineFits, ShownAt
  <2>8. QED BY <2>1, <2>4, <2>5, <2>7 DEF PoolInTime
<1>3. CASE CloseOut
  BY <1>3, CloseOutPool
<1>4. QED BY <1>1, <1>2, <1>3 DEF SchedNext

-----------------------------------------------------------------------------
(* A sweep leaves no job that fits beside those it has placed.              *)
LEMMA NoIdleStep ==
  ASSUME SchedAssumption, SchedInv, TimesInv, NoIdleFit, [SchedNext]_schedVars
  PROVE  NoIdleFit'
<1> SUFFICES ASSUME ~input'.preemption, NEW j \in queued' PROVE gpus(j)' > free'
  BY DEF NoIdleFit
<1>1. /\ input' = input /\ free \in 0 .. Pool /\ Pool \in Nat /\ input \in Input
      /\ queued \in SUBSET Jobs
  BY Zenon DEF SchedNext, Turn, Admit, AdmitByPreempting, Enqueue, Complete, SkipStale, Pop,
         CloseOut, schedVars, TimesInv, SchedTypeOK, SchedAssumption
<1>2. \A k \in queued : gpus(k) > free
  BY <1>1 DEF NoIdleFit
<1>3. gpus(j)' = gpus(j)
  BY <1>1 DEF gpus
<1>4. ASSUME NEW e \in heap, Turn(e) PROVE gpus(j) > free'
  <2>1. e.job \in Jobs /\ gpus(e.job) \in Nat
    BY <1>1, InputType DEF SchedInv, EventsOK
  <2>2. CASE Admit(e)
    <3>1. j \in queued /\ free' = free + Gpus({}) - Gpus({e.job})
      BY <2>2 DEF Admit, Rearrange, FreeAfter
    <3>2. j \in Jobs /\ gpus(j) > free /\ gpus(j) \in Nat
      BY <1>1, <1>2, <3>1, InputType
    <3>3. Gpus({}) = 0 /\ Gpus({e.job}) = gpus(e.job)
      BY <1>1, <2>1, GpusNone, GpusOne
    <3>4. QED BY <1>1, <2>1, <3>1, <3>2, <3>3
  <2>3. CASE AdmitByPreempting(e)
    BY <1>1, <2>3 DEF AdmitByPreempting, CanPreempt
  <2>4. CASE Enqueue(e)
    BY <1>2, <2>4 DEF Enqueue
  <2>5. CASE Complete(e)
    <3>1. PICK P \in SUBSET queued :
            /\ Swept(P, free + gpus(e.job))
            /\ Rearrange(e, {e.job}, P)
            /\ queued' = queued \ P
      BY <2>5 DEF Complete
    <3>2. free' = free + Gpus({e.job}) - Gpus(P)
      BY <3>1 DEF Rearrange, FreeAfter
    <3> DEFINE Q == {k \in P : Less(QueueKey(k), QueueKey(j))}
    <3>3. j \in queued /\ j \notin P
      BY <3>1
    <3>4. ~(gpus(j) <= (free + gpus(e.job)) - Gpus(Q))
      BY <3>1, <3>3 DEF Swept
    <3>5. P \in SUBSET Jobs /\ Q \in SUBSET P /\ Q \in SUBSET Jobs /\ j \in Jobs
      BY <1>1, <3>3
    <3> HIDE DEF Q
    <3>6. /\ Gpus(Q) <= Gpus(P) /\ Gpus(Q) \in Nat /\ Gpus(P) \in Nat
          /\ Gpus({e.job}) = gpus(e.job) /\ gpus(j) \in Nat
      BY <1>1, <2>1, <3>5, GpusMonotone, GpusType, GpusOne, InputType
    <3>7. QED BY <1>1, <2>1, <3>2, <3>4, <3>6
  <2>6. CASE SkipStale(e)
    BY <1>2, <2>6 DEF SkipStale
  <2>7. QED BY <1>4, <2>2, <2>3, <2>4, <2>5, <2>6 DEF Turn
<1>5. CASE CloseOut
  <2>1. UNCHANGED <<queued, free>>
    BY <1>5, Zenon DEF CloseOut
  <2>2. QED BY <1>2, <1>3, <2>1
<1>6. CASE UNCHANGED schedVars
  BY <1>2, <1>3, <1>6 DEF schedVars
<1>7. QED BY <1>3, <1>4, <1>5, <1>6 DEF SchedNext

(* For every list of jobs and every pool, the free GPUs and those the       *)
(* running jobs hold are the whole pool, through any preemptions and sweeps *)
(* (scheduler.py:127-150).                                                  *)
THEOREM SchedConserves == SchedSpec => []GpusConserved
<1>1. SchedInv => GpusConserved
  BY DEF SchedInv
<1>2. QED BY <1>1, SchedInvariant, PTL

(* For every list of jobs, a queued job never waits while nothing runs,     *)
(* so the sweep it needs will come (scheduler.py:177-203).                  *)
THEOREM SchedQueueMoves == SchedSpec => []QueuedWaitsOnRunning
<1>1. SchedInv => QueuedWaitsOnRunning
  BY DEF SchedInv
<1>2. QED BY <1>1, SchedInvariant, PTL

(* For every list of jobs, a job that gives way does so to one of strictly  *)
(* higher priority that starts in its place (scheduler.py:161-174).         *)
THEOREM SchedPreemptsOnlyLower == SchedSpec => PreemptsOnlyLower
<1> DEFINE Step ==
      \A v \in running \cap queued' :
        \E j \in running' \ running : prio(v) < prio(j)
<1>1. SchedInv /\ [SchedNext]_schedVars => [Step]_schedVars
  <2> SUFFICES ASSUME SchedInv, SchedNext, NEW v \in running \cap queued'
               PROVE  \E j \in running' \ running : prio(v) < prio(j)
    OBVIOUS
  <2>1. v \notin queued
    BY DEF SchedInv, PlacesApart
  <2>2. PICK e \in heap : Turn(e)
    BY <2>1 DEF SchedNext, CloseOut
  <2>3. e.job \in Jobs /\ (e.type = Arrival => e.job \notin running)
    BY DEF SchedInv, EventsOK, PlacesApart
  <2>4. AdmitByPreempting(e)
    BY <2>1, <2>2, <2>3 DEF Turn, Admit, Enqueue, Complete, SkipStale
  <2>5. v \in Victims(e.job)
    BY <2>1, <2>4 DEF AdmitByPreempting
  <2>6. prio(v) < prio(e.job)
    BY <2>5 DEF Victims, Candidates
  <2>7. e.job \in running' \ running
    BY <2>3, <2>4 DEF AdmitByPreempting, Rearrange
  <2>8. QED BY <2>6, <2>7
<1>2. QED BY <1>1, SchedInvariant, PTL DEF SchedSpec, PreemptsOnlyLower

(* All that is invariant of the scheduler.                                  *)
SchedAlways == SchedInv /\ TimesInv /\ PoolInTime /\ NoIdleFit

LEMMA SchedAlwaysHolds == SchedSpec => []SchedAlways
<1>1. SchedInit /\ SchedInv => SchedAlways
  BY SchedAssumption, TimesStart, PoolStart DEF SchedInit, SchedAlways, NoIdleFit
<1>2. SchedAlways /\ SchedInv' /\ [SchedNext]_schedVars => SchedAlways'
  <2> SUFFICES ASSUME SchedAlways, SchedInv', [SchedNext]_schedVars PROVE SchedAlways'
    OBVIOUS
  <2>1. SchedInv /\ TimesInv /\ PoolInTime /\ NoIdleFit
    BY DEF SchedAlways
  <2>2. TimesInv'
    BY <2>1, SchedAssumption, TimesStep
  <2>3. PoolInTime'
    BY <2>1, <2>2, SchedAssumption, PoolStep
  <2>4. NoIdleFit'
    BY <2>1, SchedAssumption, NoIdleStep
  <2>5. QED BY <2>2, <2>3, <2>4 DEF SchedAlways
<1>3. QED BY <1>1, <1>2, SchedInvariant, PTL DEF SchedSpec

(* For every list of jobs and every pool, all numbers stay in their range:  *)
(* in particular a sweep, and a preemption, never take more GPUs than are   *)
(* free (scheduler.py:152-182).                                             *)
THEOREM SchedTyped == SchedSpec => []SchedTypeOK
<1>1. SchedAlways => SchedTypeOK
  BY DEF SchedAlways, TimesInv
<1>2. QED BY <1>1, SchedAlwaysHolds, PTL

(* For every list of jobs, without preemption no GPU idles that a queued    *)
(* job could use (scheduler.py:177-182).                                    *)
THEOREM SchedNoIdle == SchedSpec => []NoIdleFit
<1>1. SchedAlways => NoIdleFit
  BY DEF SchedAlways
<1>2. QED BY <1>1, SchedAlwaysHolds, PTL

(* For every list of jobs, what a job waited and what it worked fill the    *)
(* time since its submission, however often it was preempted and resumed:   *)
(* a completed job ends its duration and its wait after it was submitted    *)
(* (scheduler.py:136-148, 197-198).                                         *)
THEOREM SchedTimeAddsUp == SchedSpec => []TimeAddsUp
<1>1. SchedAlways => TimeAddsUp
  <2> SUFFICES ASSUME SchedAlways, NEW j \in Jobs
               PROVE  /\ j \in running => state[j].resumedAt = Reached(j)
                      /\ j \in queued => state[j].since = Reached(j)
                      /\ state[j].status = "completed" =>
                           state[j].segments[Len(state[j].segments)].end
                             = submit(j) + state[j].waited + dur(j)
    BY DEF TimeAddsUp, Reached
  <2>1. JobsInTime /\ CompletedInTime
    BY DEF SchedAlways, TimesInv
  <2>2. QED BY <2>1 DEF JobsInTime, CompletedInTime
<1>2. QED BY <1>1, SchedAlwaysHolds, PTL

(* For every list of jobs, any pool and any horizon, the timeline that is   *)
(* returned holds at no instant more GPUs than the pool has, and ends       *)
(* within the horizon (scheduler.py:205-219).                               *)
THEOREM SchedTimelineFits == SchedSpec => []TimelineFits
<1>1. SchedAlways => TimelineFits
  BY DEF SchedAlways, PoolInTime
<1>2. QED BY <1>1, SchedAlwaysHolds, PTL

-----------------------------------------------------------------------------
(* Sums over finite sets, as MapThenSumSet computes them: it picks a       *)
(* member, and adds the sum of the others.  Which it picks does not        *)
(* matter; that takes an induction, which the prover does as a search for  *)
(* the smallest counterexample.                                            *)

pick(s) == CHOOSE x \in s : TRUE

others(s) == s \ {pick(s)}

Adds(g, h, S) == g = [s \in SUBSET S |-> IF s = {} THEN 0 ELSE h[pick(s)] + g[others(s)]]

Total(h, S) == (CHOOSE g : Adds(g, h, S))[S]

LEMMA Others ==
  ASSUME NEW s, IsFiniteSet(s), s # {}
  PROVE  /\ pick(s) \in s /\ others(s) \in SUBSET s /\ IsFiniteSet(others(s))
         /\ Cardinality(others(s)) = Cardinality(s) - 1
         /\ Cardinality(s) \in Nat /\ Cardinality(others(s)) \in Nat
<1>1. pick(s) \in s
  BY DEF pick
<1>2. IsFiniteSet(others(s)) /\ Cardinality(others(s)) = Cardinality(s) - 1
  BY <1>1, FS_RemoveElement DEF others
<1>3. QED BY <1>1, <1>2, FS_CardinalityType DEF others

LEMMA FiniteParts ==
  ASSUME NEW S, IsFiniteSet(S)
  PROVE  /\ \A s \in SUBSET S : IsFiniteSet(s) /\ Cardinality(s) \in Nat
         /\ \A s \in SUBSET S : Cardinality(s) <= Cardinality(S)
         /\ \A s \in SUBSET S : s # {} => Cardinality(s) # 0
         /\ Cardinality({}) = 0
BY FS_Subset, FS_CardinalityType, FS_EmptySet

(* Up to n members the function exists, whatever n is.                     *)
LEMMA AddsExists ==
  ASSUME NEW S, IsFiniteSet(S), NEW h
  PROVE  \E g : Adds(g, h, S)
<1> DEFINE body(g, s) == IF s = {} THEN 0 ELSE h[pick(s)] + g[others(s)]
           UpTo(g, n) == \A s \in SUBSET S : Cardinality(s) <= n => g[s] = body(g, s)
           Bad == {n \in Nat : ~ \E g : UpTo(g, n)}
<1>1. \E g : UpTo(g, 0)
  <2> DEFINE g == [s \in SUBSET S |-> 0]
  <2>1. ASSUME NEW s \in SUBSET S, Cardinality(s) <= 0 PROVE g[s] = body(g, s)
    <3>1. s = {}
      BY <2>1, FiniteParts
    <3>2. QED BY <3>1
  <2>2. QED BY <2>1
<1>2. ASSUME NEW n \in Nat, \E g : UpTo(g, n) PROVE \E g : UpTo(g, n + 1)
  <2>1. PICK g : UpTo(g, n)
    BY <1>2
  <2> DEFINE f == [s \in SUBSET S |-> IF Cardinality(s) <= n THEN g[s] ELSE body(g, s)]
  <2>2. ASSUME NEW s \in SUBSET S, Cardinality(s) <= n + 1 PROVE f[s] = body(f, s)
    <3>1. IsFiniteSet(s) /\ Cardinality(s) \in Nat
      BY FiniteParts
    <3>2. CASE s = {}
      <4>1. Cardinality(s) <= n
        BY <3>2, FiniteParts
      <4>2. QED BY <2>1, <3>2, <4>1
    <3>3. CASE s # {}
      <4>1. /\ others(s) \in SUBSET S
            /\ Cardinality(others(s)) = Cardinality(s) - 1
        BY <3>1, <3>3, Others
      <4>2. Cardinality(others(s)) <= n
        BY <2>2, <3>1, <4>1
      <4>3. f[others(s)] = g[others(s)]
        BY <4>1, <4>2
      <4>4. f[s] = body(g, s)
        BY <2>1
      <4> HIDE DEF f
      <4>5. QED BY <3>3, <4>3, <4>4
    <3>4. QED BY <3>2, <3>3
  <2> HIDE DEF f
  <2>3. UpTo(f, n + 1)
    BY <2>2
  <2>4. QED BY <2>3
<1> HIDE DEF UpTo
<1>3. Bad = {}
  <2> SUFFICES ASSUME Bad # {} PROVE FALSE
    OBVIOUS
  <2>1. PICK n \in Bad : \A m \in Bad : n <= m
    BY SmallestOf
  <2>2. n \in Nat /\ n # 0 /\ n - 1 \notin Bad
    BY <1>1, <2>1
  <2>3. \E g : UpTo(g, n - 1)
    BY <2>2
  <2>4. \E g : UpTo(g, (n - 1) + 1)
    BY <1>2, <2>2, <2>3
  <2>5. (n - 1) + 1 = n
    BY <2>2
  <2>6. QED BY <2>1, <2>4, <2>5
<1>4. PICK g : UpTo(g, Cardinality(S))
  BY <1>3, FiniteParts
<1> DEFINE f == [s \in SUBSET S |-> g[s]]
<1>5. \A s \in SUBSET S : g[s] = body(g, s)
  BY <1>4, FiniteParts DEF UpTo
<1>6. ASSUME NEW s \in SUBSET S PROVE body(g, s) = body(f, s)
  <2>1. CASE s = {}
    BY <2>1
  <2>2. CASE s # {}
    <3>1. others(s) \in SUBSET S
      BY DEF others
    <3>2. f[others(s)] = g[others(s)]
      BY <3>1
    <3> HIDE DEF f
    <3>3. QED BY <2>2, <3>2
  <2>3. QED BY <2>1, <2>2
<1>7. f = [s \in SUBSET S |-> body(f, s)]
  BY <1>5, <1>6
<1> HIDE DEF f
<1>8. Adds(f, h, S)
  BY <1>7 DEF Adds
<1>9. QED BY <1>8

LEMMA AddsValue ==
  ASSUME NEW S, NEW h, NEW g, Adds(g, h, S), NEW s \in SUBSET S
  PROVE  /\ s = {} => g[s] = 0
         /\ s # {} => g[s] = h[pick(s)] + g[others(s)]
<1>1. g[s] = IF s = {} THEN 0 ELSE h[pick(s)] + g[others(s)]
  BY DEF Adds
<1>2. QED BY <1>1

LEMMA AddsUnique ==
  ASSUME NEW S, IsFiniteSet(S), NEW h, NEW g, Adds(g, h, S),
         NEW R \in SUBSET S, NEW f, NEW k, Adds(f, k, R), \A x \in R : k[x] = h[x]
  PROVE  g[R] = f[R]
<1> DEFINE Bad == {s \in SUBSET R : g[s] # f[s]}
           T == {Cardinality(s) : s \in Bad}
<1>1. Bad = {}
  <2> SUFFICES ASSUME Bad # {} PROVE FALSE
    OBVIOUS
  <2>1. T \in SUBSET Nat /\ T # {}
    BY FiniteParts
  <2>2. PICK n \in T : \A m \in T : n <= m
    BY <2>1, SmallestOf
  <2>3. PICK s \in Bad : n = Cardinality(s)
    BY <2>2
  <2>4. s \in SUBSET R /\ s \in SUBSET S /\ g[s] # f[s] /\ IsFiniteSet(s)
    BY <2>3, FiniteParts
  <2>5. s # {}
    BY <2>4, AddsValue
  <2>6. /\ pick(s) \in R /\ others(s) \in SUBSET R /\ Cardinality(others(s)) = Cardinality(s) - 1
        /\ Cardinality(s) \in Nat
    BY <2>4, <2>5, Others
  <2>7. g[others(s)] # f[others(s)]
    BY <2>4, <2>5, <2>6, AddsValue
  <2>8. Cardinality(others(s)) \in T
    BY <2>6, <2>7
  <2>9. Cardinality(s) <= Cardinality(others(s))
    BY <2>2, <2>3, <2>8
  <2>10. QED BY <2>6, <2>9
<1>2. QED BY <1>1

LEMMA TotalIs ==
  ASSUME NEW S, IsFiniteSet(S), NEW h, NEW g, Adds(g, h, S), NEW R \in SUBSET S, NEW k,
         \A x \in R : k[x] = h[x]
  PROVE  g[R] = Total(k, R)
<1>1. IsFiniteSet(R)
  BY FiniteParts
<1>2. \E f : Adds(f, k, R)
  BY <1>1, AddsExists
<1>3. Adds(CHOOSE f : Adds(f, k, R), k, R)
  BY <1>2
<1>4. QED BY <1>3, AddsUnique DEF Total

(* Only what is added matters.                                             *)
LEMMA TotalSame ==
  ASSUME NEW S, IsFiniteSet(S), NEW h, NEW k, \A x \in S : k[x] = h[x]
  PROVE  Total(k, S) = Total(h, S)
<1>1. PICK g : Adds(g, h, S)
  BY AddsExists
<1>2. g[S] = Total(k, S)
  BY <1>1, TotalIs
<1>3. g[S] = Total(h, S)
  BY <1>1, TotalIs
<1>4. QED BY <1>2, <1>3

LEMMA TotalSteps ==
  ASSUME NEW S, IsFiniteSet(S), NEW h
  PROVE  /\ S = {} => Total(h, S) = 0
         /\ S # {} => Total(h, S) = h[pick(S)] + Total(h, others(S))
<1>1. PICK g : Adds(g, h, S)
  BY AddsExists
<1>2. g[S] = Total(h, S)
  BY <1>1, TotalIs
<1>3. others(S) \in SUBSET S
  BY DEF others
<1>4. g[others(S)] = Total(h, others(S))
  BY <1>1, <1>3, TotalIs
<1>5. /\ S = {} => g[S] = 0
      /\ S # {} => g[S] = h[pick(S)] + g[others(S)]
  BY <1>1, AddsValue
<1>6. QED BY <1>2, <1>4, <1>5

LEMMA TotalInt ==
  ASSUME NEW S, IsFiniteSet(S), NEW h, \A x \in S : h[x] \in Int
  PROVE  Total(h, S) \in Int
<1> DEFINE Bad == {s \in SUBSET S : Total(h, s) \notin Int}
           T == {Cardinality(s) : s \in Bad}
<1>1. Bad = {}
  <2> SUFFICES ASSUME Bad # {} PROVE FALSE
    OBVIOUS
  <2>1. T \in SUBSET Nat /\ T # {}
    BY FiniteParts
  <2>2. PICK n \in T : \A m \in T : n <= m
    BY <2>1, SmallestOf
  <2>3. PICK s \in Bad : n = Cardinality(s)
    BY <2>2
  <2>4. s \in SUBSET S /\ Total(h, s) \notin Int /\ IsFiniteSet(s)
    BY <2>3, FiniteParts
  <2>5. s # {}
    BY <2>4, TotalSteps
  <2>6. /\ pick(s) \in S /\ others(s) \in SUBSET S /\ Cardinality(others(s)) = Cardinality(s) - 1
        /\ Cardinality(s) \in Nat
    BY <2>4, <2>5, Others
  <2>7. Total(h, s) = h[pick(s)] + Total(h, others(s))
    BY <2>4, <2>5, TotalSteps
  <2>8. Total(h, others(s)) \notin Int
    BY <2>4, <2>6, <2>7
  <2>9. Cardinality(others(s)) \in T
    BY <2>6, <2>8
  <2>10. Cardinality(s) <= Cardinality(others(s))
    BY <2>2, <2>3, <2>9
  <2>11. QED BY <2>6, <2>10
<1>2. QED BY <1>1

(* Any member may be added last.                                           *)
LEMMA TotalAdd ==
  ASSUME NEW S, IsFiniteSet(S), NEW h, \A x \in S : h[x] \in Int, NEW y \in S
  PROVE  Total(h, S) = h[y] + Total(h, S \ {y})
<1> DEFINE Wrong(s, x) == Total(h, s) # h[x] + Total(h, s \ {x})
           Bad == {s \in SUBSET S : \E x \in s : Wrong(s, x)}
           T == {Cardinality(s) : s \in Bad}
<1>1. Bad = {}
  <2> SUFFICES ASSUME Bad # {} PROVE FALSE
    OBVIOUS
  <2>1. T \in SUBSET Nat /\ T # {}
    BY FiniteParts
  <2>2. PICK n \in T : \A m \in T : n <= m
    BY <2>1, SmallestOf
  <2>3. PICK s \in Bad : n = Cardinality(s)
    BY <2>2
  <2>4. s \in SUBSET S /\ IsFiniteSet(s)
    BY <2>3, FiniteParts
  <2>5. PICK x \in s : Wrong(s, x)
    BY <2>3
  <2> DEFINE p == pick(s)
  <2>6. /\ p \in s /\ others(s) = s \ {p} /\ Total(h, s) = h[p] + Total(h, s \ {p})
    BY <2>4, <2>5, Others, TotalSteps DEF others
  <2> HIDE DEF p
  <2>7. p # x
    BY <2>5, <2>6
  <2>8. ASSUME NEW z \in s PROVE s \ {z} \in SUBSET S /\ s \ {z} \notin Bad
    <3>1. /\ Cardinality(s \ {z}) = Cardinality(s) - 1 /\ Cardinality(s) \in Nat
      BY <2>4, FS_RemoveElement, FS_CardinalityType
    <3>2. s \ {z} \in Bad => Cardinality(s \ {z}) \in T
      OBVIOUS
    <3> HIDE DEF T, Bad
    <3>3. ~(Cardinality(s \ {z}) \in T)
      BY <2>2, <2>3, <3>1
    <3>4. QED BY <2>4, <3>2, <3>3
  <2>9. Total(h, s \ {p}) = h[x] + Total(h, (s \ {p}) \ {x})
    BY <2>5, <2>6, <2>7, <2>8
  <2>10. Total(h, s \ {x}) = h[p] + Total(h, (s \ {x}) \ {p})
    BY <2>5, <2>6, <2>7, <2>8
  <2>11. (s \ {x}) \ {p} = (s \ {p}) \ {x}
    OBVIOUS
  <2> DEFINE rest == (s \ {p}) \ {x}
  <2>12. IsFiniteSet(rest) /\ \A z \in rest : h[z] \in Int
    BY <2>4, FS_Subset
  <2>13. Total(h, rest) \in Int /\ h[x] \in Int /\ h[p] \in Int
    BY <2>4, <2>5, <2>6, <2>12, TotalInt
  <2> HIDE DEF rest
  <2>14. Total(h, s) = h[p] + (h[x] + Total(h, rest)) /\ Total(h, s \ {x}) = h[p] + Total(h, rest)
    BY <2>6, <2>9, <2>10, <2>11 DEF rest
  <2>15. QED BY <2>5, <2>13, <2>14
<1>2. S \notin Bad
  BY <1>1
<1>3. QED BY <1>2

-----------------------------------------------------------------------------
(* Max and Min of the community modules, where they exist.                 *)

LEMMA MaxOfBounded ==
  ASSUME NEW lo \in Int, NEW hi \in Int, NEW S \in SUBSET (lo .. hi), S # {}
  PROVE  Max(S) \in S /\ \A y \in S : Max(S) >= y
<1> DEFINE T == {hi - x : x \in S}
<1>1. T \in SUBSET Nat /\ T # {}
  OBVIOUS
<1>2. PICK n \in T : \A m \in T : n <= m
  BY <1>1, SmallestOf
<1>3. PICK x \in S : n = hi - x
  BY <1>2
<1>4. ASSUME NEW y \in S PROVE x >= y
  <2>1. hi - y \in T
    OBVIOUS
  <2>2. n <= hi - y
    BY <1>2, <2>1
  <2>3. x \in Int /\ y \in Int
    OBVIOUS
  <2> HIDE DEF T
  <2> QED
    BY <1>3, <2>2, <2>3
<1>5. \E z \in S : \A y \in S : z >= y
  BY <1>3, <1>4
<1> QED
  BY <1>5 DEF Max

(* A value clamped between two bounds is between them.                     *)
LEMMA Clamped ==
  ASSUME NEW lo \in Nat, NEW hi \in Nat, lo <= hi, NEW x \in Int
  PROVE  Max({lo, Min({hi, x})}) \in lo .. hi
<1>1. Min({hi, x}) = IF hi <= x THEN hi ELSE x
  BY DEF Min
<1>2. Max({lo, Min({hi, x})}) = IF lo >= Min({hi, x}) THEN lo ELSE Min({hi, x})
  BY <1>1 DEF Max
<1> QED
  BY <1>1, <1>2

-----------------------------------------------------------------------------
(* The autoscaler.                                                         *)

AutoscalerTyped ==
  /\ workload \in Workload
  /\ t \in Nat
  /\ lastEval \in Nat \cup {Never}
  /\ recent \in SUBSET [at : Nat, wanted : workload.minReplicas .. workload.maxReplicas]

AutoscalerInv == AutoscalerTyped /\ ReplicasAreHeld

(* While the loop goes on some stage has not ended, so there is a demand.  *)
LEMMA DemandTyped ==
  ASSUME workload \in Workload, t \in Nat, t <= TotalDuration
  PROVE  Demand \in Int
<1>1. CASE Stages = <<>>
  BY <1>1 DEF Demand
<1>2. CASE Stages # <<>>
  <2> DEFINE Open == {i \in DOMAIN Stages : t <= Stages[i].end}
  <2>1. Stages \in Seq(Stage)
    BY DEF Workload, Stages
  <2>2. Len(Stages) \in Open
    BY <1>2, <2>1 DEF TotalDuration, Stage
  <2>3. Open \in SUBSET Nat /\ Open # {}
    BY <2>1, <2>2
  <2>4. PICK i \in Open : \A j \in Open : i <= j
    BY <2>3, SmallestOf
  <2>5. /\ i \in DOMAIN Stages
        /\ t <= Stages[i].end /\ \A j \in 1 .. i - 1 : Stages[j].end < t
    <3>1. i \in 1 .. Len(Stages)
      BY <2>1, <2>4
    <3>2. ASSUME NEW j \in 1 .. i - 1 PROVE Stages[j].end < t
      <4>1. j \in DOMAIN Stages /\ j \notin Open
        BY <2>1, <2>4, <3>1
      <4>2. Stages[j] \in Stage /\ t \in Nat
        BY <2>1, <4>1
      <4>3. Stages[j].end \in Nat
        BY <4>2 DEF Stage
      <4> QED
        BY <4>1, <4>2, <4>3
    <3> QED
      BY <2>4, <3>2
  <2>6. PICK k \in DOMAIN Stages : Demand = RampAt(k)
    BY <1>2, <2>5 DEF Demand
  <2>7. RampAt(k) \in Int
    <3>1. k \in 1 .. Len(Stages) /\ Stages[k] \in Stage /\ (k # 1 => Stages[k - 1] \in Stage)
      BY <2>1
    <3> DEFINE start == IF k = 1 THEN 0 ELSE Stages[k - 1].end
               before == IF k = 1 THEN Stages[1].target ELSE Stages[k - 1].target
    <3>2. start \in Nat /\ before \in Nat /\ Stages[k].end \in Nat /\ Stages[k].target \in Nat
      BY <3>1 DEF Stage
    <3>3. start <= Stages[k].end
      <4>1. \A a, b \in DOMAIN Stages : a <= b => Stages[a].end <= Stages[b].end
        BY DEF Workload, Stages
      <4>2. k # 1 => Stages[k - 1].end <= Stages[k].end
        <5>1. k # 1 => k - 1 \in DOMAIN Stages /\ k \in DOMAIN Stages /\ k - 1 <= k
          BY <2>1, <3>1
        <5> QED
          BY <4>1, <5>1
      <4> QED
        BY <3>2, <4>2
    <3>4. RampAt(k) = IF Stages[k].end = start THEN Stages[k].target
                      ELSE before + ((Stages[k].target - before) * (t - start)) \div (Stages[k].end - start)
      BY DEF RampAt
    <3> HIDE DEF start, before
    <3>5. ((Stages[k].target - before) * (t - start)) \in Int
      BY <3>2
    <3>6. Stages[k].end # start => Stages[k].end - start \in Nat \ {0}
      BY <3>2, <3>3
    <3> QED
      BY <3>2, <3>4, <3>5, <3>6
  <2> QED
    BY <2>6, <2>7
<1> QED
  BY <1>1, <1>2

LEMMA DesiredTyped ==
  ASSUME workload \in Workload, t \in Nat, t <= TotalDuration
  PROVE  Desired \in workload.minReplicas .. workload.maxReplicas
<1>1. Demand \in Int
  BY DemandTyped
<1>2. /\ workload.minReplicas \in Nat /\ workload.maxReplicas \in Nat
      /\ workload.minReplicas <= workload.maxReplicas
      /\ workload.perReplica \in Nat \ {0} /\ workload.utilization \in Nat \ {0}
  BY DEF Workload
<1>3. workload.perReplica * workload.utilization \in Nat \ {0}
  BY <1>2
<1>4. CeilDiv(100 * Demand, workload.perReplica * workload.utilization) \in Int
  BY <1>1, <1>3 DEF CeilDiv
<1> QED
  BY <1>2, <1>4, Clamped DEF Desired, DesiredFor

(* The window keeps the evaluation just made, and its floor is what one of *)
(* its evaluations wanted, the most demanding.                             *)
LEMMA WindowFloor ==
  ASSUME AutoscalerTyped, t <= TotalDuration
  PROVE  /\ Window \in SUBSET [at : Nat, wanted : workload.minReplicas .. workload.maxReplicas]
         /\ \A p \in Window : p \in recent \/ p.wanted = Desired
         /\ \E p \in Window : p.wanted = Desired
         /\ \E p \in Window : p.wanted = HeldFloor
         /\ \A p \in Window : p.wanted <= HeldFloor
<1> DEFINE new == [at |-> t, wanted |-> Desired]
           W == {p.wanted : p \in Window}
<1>1. Desired \in workload.minReplicas .. workload.maxReplicas
  BY DesiredTyped DEF AutoscalerTyped
<1>2. /\ workload.minReplicas \in Nat /\ workload.maxReplicas \in Nat
      /\ workload.stabilization \in Nat /\ t \in Nat
  BY DEF AutoscalerTyped, Workload
<1>3. new \in Window
  BY <1>2 DEF Window
<1>4. Window \in SUBSET [at : Nat, wanted : workload.minReplicas .. workload.maxReplicas]
  BY <1>1, <1>2 DEF Window, AutoscalerTyped
<1>5. \A p \in Window : p \in recent \/ p.wanted = Desired
  BY DEF Window
<1>6. W \in SUBSET (workload.minReplicas .. workload.maxReplicas) /\ W # {}
  BY <1>3, <1>4
<1>7. HeldFloor \in W /\ \A y \in W : HeldFloor >= y
  <2>1. Max(W) \in W /\ \A y \in W : Max(W) >= y
    <3>1. \A a, b \in Int : \A S \in SUBSET (a .. b) :
             S # {} => Max(S) \in S /\ \A y \in S : Max(S) >= y
      BY MaxOfBounded
    <3>2. workload.minReplicas \in Int /\ workload.maxReplicas \in Int
      BY <1>2
    <3> HIDE DEF W
    <3> QED
      BY <1>6, <3>1, <3>2, Zenon
  <2> QED
    BY <2>1 DEF HeldFloor
<1>8. \A p \in Window : p.wanted <= HeldFloor
  BY <1>2, <1>4, <1>7
<1> QED
  BY <1>3, <1>4, <1>5, <1>7, <1>8

LEMMA AutoscalerStart == AutoscalerInit => AutoscalerInv
BY AutoscalerAssumption
   DEF AutoscalerInit, AutoscalerInv, AutoscalerTyped, ReplicasAreHeld, Workload

LEMMA AutoscalerStep ==
  ASSUME AutoscalerInv, [AutoscalerNext]_autoscalerVars
  PROVE  AutoscalerInv'
<1> USE DEF AutoscalerInv
<1> DEFINE lo == workload.minReplicas
           hi == workload.maxReplicas
<1>0. lo \in Nat /\ hi \in Nat /\ lo <= hi /\ workload.tick \in Nat
  BY DEF AutoscalerTyped, Workload
<1>1. ASSUME Evaluate, Serve,
             replicas' \in lo .. hi, \A p \in Window : p.wanted <= replicas',
             \E p \in Window : p.wanted = replicas'
      PROVE  AutoscalerInv'
  <2>1. Window \in SUBSET [at : Nat, wanted : lo .. hi]
    BY <1>1, WindowFloor DEF Evaluate
  <2>2. AutoscalerTyped'
    BY <1>0, <1>1, <2>1 DEF AutoscalerTyped, Evaluate, Serve
  <2>3. ReplicasAreHeld'
    BY <1>1 DEF ReplicasAreHeld, Evaluate, Serve
  <2> QED
    BY <2>2, <2>3
<1>2. CASE ScaleUp
  <2>1. Evaluate /\ Serve /\ Desired > replicas /\ replicas' = Desired
    BY <1>2 DEF ScaleUp
  <2>2. Desired \in lo .. hi
    BY <2>1, DesiredTyped DEF AutoscalerTyped, Evaluate
  <2>3. \A p \in Window : p.wanted <= replicas'
    <3>1. \A p \in Window : p \in recent \/ p.wanted = Desired
      BY <2>1, WindowFloor DEF Evaluate
    <3>2. \A p \in recent : p.wanted <= replicas /\ p.wanted \in Int
      BY <1>0 DEF ReplicasAreHeld, AutoscalerTyped
    <3>3. replicas \in Int
      BY <1>0 DEF ReplicasAreHeld
    <3> QED
      BY <1>0, <2>1, <2>2, <3>1, <3>2, <3>3
  <2>4. \E p \in Window : p.wanted = replicas'
    BY <2>1, WindowFloor DEF Evaluate
  <2> QED
    BY <1>1, <2>1, <2>2, <2>3, <2>4
<1>3. CASE ScaleDown
  <2>1. Evaluate /\ Serve /\ replicas' = HeldFloor
    BY <1>3 DEF ScaleDown
  <2>2. /\ Window \in SUBSET [at : Nat, wanted : lo .. hi]
        /\ \E p \in Window : p.wanted = HeldFloor
        /\ \A p \in Window : p.wanted <= HeldFloor
    BY <2>1, WindowFloor DEF Evaluate
  <2> QED
    BY <1>1, <2>1, <2>2
<1>4. CASE Hold
  <2>1. Evaluate /\ Serve /\ replicas' = replicas /\ Desired <= replicas /\ HeldFloor >= replicas
    BY <1>4 DEF Hold
  <2>2. /\ Window \in SUBSET [at : Nat, wanted : lo .. hi]
        /\ \A p \in Window : p \in recent \/ p.wanted = Desired
        /\ \E p \in Window : p.wanted = HeldFloor
    BY <2>1, WindowFloor DEF Evaluate
  <2>3. \A p \in Window : p.wanted <= replicas
    BY <2>1, <2>2 DEF ReplicasAreHeld
  <2>4. \E p \in Window : p.wanted = replicas
    <3>1. PICK p \in Window : p.wanted = HeldFloor
      BY <2>2
    <3>2. p.wanted \in Int /\ replicas \in Int
      BY <1>0, <2>2 DEF ReplicasAreHeld
    <3>3. p.wanted = replicas
      BY <2>1, <2>3, <3>1, <3>2
    <3> QED
      BY <3>3
  <2> QED
    BY <1>1, <2>1, <2>3, <2>4 DEF ReplicasAreHeld
<1>5. CASE BetweenEvaluations
  BY <1>0, <1>5 DEF BetweenEvaluations, Serve, AutoscalerTyped, ReplicasAreHeld
<1>6. CASE UNCHANGED autoscalerVars
  BY <1>6 DEF autoscalerVars, AutoscalerTyped, ReplicasAreHeld
<1> QED
  BY <1>2, <1>3, <1>4, <1>5, <1>6 DEF AutoscalerNext

(* For any traffic and any settings, the replicas are between the bounds   *)
(* and are what the most demanding evaluation of the window wanted         *)
(* (autoscaling.py:131-144).                                               *)
THEOREM AutoscalerHolds == AutoscalerSpec => []ReplicasAreHeld
<1>1. AutoscalerInit => AutoscalerInv
  BY AutoscalerStart
<1>2. AutoscalerInv /\ [AutoscalerNext]_autoscalerVars => AutoscalerInv'
  BY AutoscalerStep
<1>3. AutoscalerInv => ReplicasAreHeld
  BY DEF AutoscalerInv
<1> QED
  BY <1>1, <1>2, <1>3, PTL DEF AutoscalerSpec

-----------------------------------------------------------------------------
(* Remainders.                                                             *)

LEMMA Products ==
  ASSUME NEW d \in Nat \ {0}, NEW a \in Int, NEW b \in Int, a > b
  PROVE  d * a >= d * b + d
<1>1. a - b - 1 \in Nat
  OBVIOUS
<1>2. d * (a - b - 1) >= 0
  BY <1>1
<1>3. QED BY <1>2

LEMMA DivisionIs ==
  ASSUME NEW n \in Nat, NEW d \in Nat \ {0}
  PROVE  /\ n \div d \in Nat /\ n % d \in 0 .. d - 1
         /\ n = d * (n \div d) + (n % d)
OBVIOUS

LEMMA RemainderIs ==
  ASSUME NEW d \in Nat \ {0}, NEW q \in Nat, NEW r \in 0 .. d - 1
  PROVE  (d * q + r) % d = r
<1> DEFINE n == d * q + r
           a == n \div d
           b == n % d
<1>1. n \in Nat
  OBVIOUS
<1>2. a \in Nat /\ b \in 0 .. d - 1 /\ n = d * a + b
  BY <1>1, DivisionIs
<1>3. n = d * q + r
  OBVIOUS
<1> HIDE DEF a, b, n
<1>4. d * a \in Int /\ d * q \in Int
  BY <1>2
<1>5. ~(a > q)
  BY <1>2, <1>3, <1>4, Products
<1>6. ~(q > a)
  BY <1>2, <1>3, <1>4, Products
<1>7. a = q
  BY <1>2, <1>5, <1>6
<1>8. b = r
  BY <1>2, <1>3, <1>4, <1>7
<1>9. QED BY <1>8 DEF b, n

(* The remainder counts up and starts again.                               *)
LEMMA RemainderNext ==
  ASSUME NEW n \in Nat, NEW d \in Nat \ {0}
  PROVE  (n + 1) % d = IF (n % d) + 1 = d THEN 0 ELSE (n % d) + 1
<1> DEFINE q == n \div d
           r == n % d
<1>1. q \in Nat /\ r \in 0 .. d - 1 /\ n = d * q + r
  BY DivisionIs
<1> HIDE DEF q, r
<1>2. CASE r + 1 = d
  <2>1. n + 1 = d * (q + 1) + 0
    BY <1>1, <1>2
  <2>2. q + 1 \in Nat /\ 0 \in 0 .. d - 1
    BY <1>1
  <2>3. (d * (q + 1) + 0) % d = 0
    BY <2>2, RemainderIs
  <2>4. QED BY <1>2, <2>1, <2>3 DEF r
<1>3. CASE r + 1 # d
  <2>1. n + 1 = d * q + (r + 1) /\ r + 1 \in 0 .. d - 1
    BY <1>1, <1>3
  <2>2. (d * q + (r + 1)) % d = r + 1
    BY <1>1, <2>1, RemainderIs
  <2>3. QED BY <1>3, <2>1, <2>2 DEF r
<1>4. QED BY <1>2, <1>3

(* The last of the first n turns whose number is divisible.                *)
LEMMA LastDivisible ==
  ASSUME NEW n \in Nat \ {0}, NEW d \in Nat \ {0}
  PROVE  LET M == n - ((n - 1) % d)
         IN  /\ M \in 1 .. n /\ (M - 1) % d = 0
             /\ \A m \in 1 .. n : (m - 1) % d = 0 => m <= M
<1> DEFINE q == (n - 1) \div d
           r == (n - 1) % d
           M == n - r
<1>1. n - 1 \in Nat
  OBVIOUS
<1>2. q \in Nat /\ r \in 0 .. d - 1 /\ n - 1 = d * q + r
  BY <1>1, DivisionIs
<1> HIDE DEF q, r
<1>3. d * q \in Nat
  BY <1>2
<1>4. M \in 1 .. n /\ M - 1 = d * q + 0
  BY <1>2, <1>3
<1>5. (d * q + 0) % d = 0
  <2>1. 0 \in 0 .. d - 1
    OBVIOUS
  <2>2. QED BY <1>2, <2>1, RemainderIs
<1>6. ASSUME NEW m \in 1 .. n, m > M PROVE (m - 1) % d # 0
  <2> DEFINE k == (m - 1) - d * q
  <2>1. k \in 0 .. d - 1 /\ k # 0 /\ m - 1 = d * q + k
    BY <1>2, <1>3, <1>4, <1>6
  <2> HIDE DEF k
  <2>2. (d * q + k) % d = k
    BY <1>2, <2>1, RemainderIs
  <2>3. QED BY <2>1, <2>2
<1>7. \A m \in 1 .. n : (m - 1) % d = 0 => m <= M
  BY <1>4, <1>6
<1>8. QED BY <1>4, <1>5, <1>7 DEF r

LEMMA CeilDivCovers ==
  ASSUME NEW i \in Nat, NEW d \in Nat \ {0}, NEW k \in Nat \ {0}
  PROVE  /\ Max({1, CeilDiv(i, d)}) \in Nat \ {0}
         /\ k * d >= i <=> k >= Max({1, CeilDiv(i, d)})
<1> DEFINE x == i + d - 1
           q == x \div d
           r == x % d
<1>1. x \in Nat
  OBVIOUS
<1>2. q \in Nat /\ r \in 0 .. d - 1 /\ x = d * q + r
  BY <1>1, DivisionIs
<1>3. CeilDiv(i, d) = q
  BY DEF CeilDiv
<1>4. x = i + d - 1
  OBVIOUS
<1> HIDE DEF q, r, x
<1>5. Max({1, q}) = IF 1 >= q THEN 1 ELSE q
  BY <1>2 DEF Max
<1>6. k * d = d * k /\ d * k \in Int /\ d * q \in Int
  BY <1>2
<1>7. ASSUME k >= q PROVE d * k >= i
  <2>1. CASE k = q
    BY <1>2, <1>4, <1>6, <2>1
  <2>2. CASE k > q
    BY <1>2, <1>4, <1>6, <2>2, Products
  <2>3. QED BY <1>2, <1>7, <2>1, <2>2
<1>8. ASSUME q > k PROVE ~(d * k >= i)
  BY <1>2, <1>4, <1>6, <1>8, Products
<1>9. QED BY <1>2, <1>3, <1>5, <1>6, <1>7, <1>8

LEMMA MaxIs ==
  ASSUME NEW S \in SUBSET Int, NEW x \in S, \A y \in S : y <= x
  PROVE  Max(S) = x
<1>1. \A z \in S : (\A y \in S : z >= y) <=> z = x
  OBVIOUS
<1>2. QED BY <1>1 DEF Max

-----------------------------------------------------------------------------
(* What the points say of the turns before, for any traffic w and points ps. *)

Point == [at : Nat, demand : Int, replicas : Nat, backlog : Nat]

Every(w) == Max({1, CeilDiv(w.evalInterval, w.tick)})

Turns(w, n) == {m \in 1 .. n : (m - 1) % Every(w) = 0}

WantedFor(w, demand) ==
  Max({w.minReplicas, Min({w.maxReplicas, CeilDiv(100 * demand, w.perReplica * w.utilization)})})

InWindow(w, ps, n) == {k \in Turns(w, n) : ps[Max(Turns(w, n))].at - ps[k].at <= w.stabilization}

Kept(w, ps, n) == {[at |-> ps[m].at, wanted |-> WantedFor(w, ps[m].demand)] : m \in InWindow(w, ps, n)}

Timed(w, ps, time) ==
  /\ ps \in Seq(Point)
  /\ time = Len(ps) * w.tick
  /\ \A k \in 1 .. Len(ps) : ps[k].at = (k - 1) * w.tick

Evaluated(w, ps, last) == last = IF Len(ps) = 0 THEN Never ELSE ps[Max(Turns(w, Len(ps)))].at

LargestOf(x, S) == S \subseteq Int /\ x \in S /\ \A y \in S : y <= x

Following(w, ps) ==
  \A n \in 1 .. Len(ps) : LargestOf(ps[n].replicas, {p.wanted : p \in Kept(w, ps, n)})

(* What each turn leaves unserved, and the sum of it over a stretch.       *)
Unmet(w, ps, n) == [k \in 1 .. n |-> (ps[k].demand - ps[k].replicas * w.perReplica) * w.tick]

Wait(w, ps, m, n) == Total(Unmet(w, ps, n), m .. n)

Worst(w, ps, n, x) == LargestOf(x, {Wait(w, ps, m, n) : m \in 1 .. n + 1})

Waiting(w, ps) == \A n \in 1 .. Len(ps) : Worst(w, ps, n, ps[n].backlog)

PointsInv ==
  /\ Timed(workload, points, t) /\ Evaluated(workload, points, lastEval)
  /\ recent = Kept(workload, points, Len(points))
  /\ Following(workload, points)
  /\ backlog \in Nat /\ Worst(workload, points, Len(points), backlog)
  /\ Waiting(workload, points)

-----------------------------------------------------------------------------
LEMMA EveryIs ==
  ASSUME NEW w \in Workload
  PROVE  /\ Every(w) \in Nat \ {0}
         /\ \A k \in Nat \ {0} : k * w.tick >= w.evalInterval <=> k >= Every(w)
<1>1. w.evalInterval \in Nat /\ w.tick \in Nat \ {0}
  BY DEF Workload
<1>2. 1 \in Nat \ {0}
  OBVIOUS
<1>3. \A k \in Nat \ {0} :
        /\ Max({1, CeilDiv(w.evalInterval, w.tick)}) \in Nat \ {0}
        /\ k * w.tick >= w.evalInterval <=> k >= Max({1, CeilDiv(w.evalInterval, w.tick)})
  BY <1>1, CeilDivCovers
<1>4. QED BY <1>2, <1>3 DEF Every

(* The last evaluation of the first n turns.                               *)
LEMMA LastTurn ==
  ASSUME NEW w \in Workload, NEW n \in Nat \ {0}
  PROVE  /\ Max(Turns(w, n)) = n - ((n - 1) % Every(w))
         /\ Max(Turns(w, n)) \in Turns(w, n)
         /\ \A m \in Turns(w, n) : m <= Max(Turns(w, n))
         /\ Turns(w, n) \in SUBSET (1 .. n)
<1> DEFINE M == n - ((n - 1) % Every(w))
<1>1. Every(w) \in Nat \ {0}
  BY EveryIs
<1>2. /\ M \in 1 .. n /\ (M - 1) % Every(w) = 0
      /\ \A m \in 1 .. n : (m - 1) % Every(w) = 0 => m <= M
  BY <1>1, LastDivisible
<1> HIDE DEF M
<1>3. M \in Turns(w, n) /\ \A m \in Turns(w, n) : m <= M
  BY <1>2 DEF Turns
<1>4. Turns(w, n) \in SUBSET (1 .. n) /\ Turns(w, n) \in SUBSET Int
  BY DEF Turns
<1>5. Max(Turns(w, n)) = M
  BY <1>3, <1>4, MaxIs
<1>6. QED BY <1>3, <1>4, <1>5 DEF M

LEMMA TurnsNext ==
  ASSUME NEW w \in Workload, NEW n \in Nat
  PROVE  /\ n % Every(w) = 0 => Turns(w, n + 1) = Turns(w, n) \cup {n + 1}
         /\ n % Every(w) # 0 => Turns(w, n + 1) = Turns(w, n)
         /\ Turns(w, 0) = {}
<1>1. \A m : m \in 1 .. n + 1 <=> (m \in 1 .. n \/ m = n + 1)
  OBVIOUS
<1>2. (n + 1) - 1 = n
  OBVIOUS
<1>3. QED BY <1>1, <1>2 DEF Turns

(* A turn is due exactly when its number says so.                          *)
LEMMA DueIs ==
  ASSUME NEW w \in Workload, NEW ps, NEW time, NEW last,
         Timed(w, ps, time), Evaluated(w, ps, last)
  PROVE  /\ (last = Never \/ time - last >= w.evalInterval) <=> (Len(ps) % Every(w) = 0)
         /\ last # Never => last \in Nat /\ last <= time
         /\ time \in Nat
<1> DEFINE n == Len(ps)
           d == Every(w)
           r == (n - 1) % d
<1>1. d \in Nat \ {0} /\ n \in Nat /\ w.tick \in Nat \ {0}
  <2>1. Every(w) \in Nat \ {0}
    BY EveryIs
  <2>2. w.tick \in Nat \ {0}
    BY DEF Workload
  <2>3. Len(ps) \in Nat
    BY DEF Timed
  <2>4. QED BY <2>1, <2>2, <2>3
<1>2. time = n * w.tick /\ time \in Nat
  BY <1>1 DEF Timed
<1>3. CASE n = 0
  <2>1. last = Never
    BY <1>3 DEF Evaluated
  <2>2. 0 % d = 0
    <3>1. 0 \in Nat /\ 0 \in 0 .. d - 1 /\ d * 0 + 0 = 0
      BY <1>1
    <3>2. (d * 0 + 0) % d = 0
      BY <1>1, <3>1, RemainderIs
    <3>3. QED BY <3>1, <3>2
  <2>3. QED BY <1>2, <1>3, <2>1, <2>2
<1>4. CASE n # 0
  <2>1. n \in Nat \ {0} /\ n - 1 \in Nat /\ (n - 1) + 1 = n
    BY <1>1, <1>4
  <2>2. /\ Max(Turns(w, n)) = n - r
        /\ Max(Turns(w, n)) \in 1 .. n
    BY <2>1, LastTurn
  <2>3. last = ps[n - r].at /\ n - r \in 1 .. n
    BY <1>4, <2>2 DEF Evaluated
  <2>4. last = ((n - r) - 1) * w.tick
    BY <2>3 DEF Timed
  <2>5. ((n - 1) + 1) % d = IF r + 1 = d THEN 0 ELSE r + 1
    BY <1>1, <2>1, RemainderNext
  <2>6. n % d = IF r + 1 = d THEN 0 ELSE r + 1
    BY <2>1, <2>5
  <2>7. r \in 0 .. d - 1
    BY <1>1, <2>1, DivisionIs
  <2> HIDE DEF r, d, n
  <2>8. (n - r) - 1 \in Nat /\ r + 1 \in Nat \ {0}
    BY <1>1, <2>3, <2>7
  <2>9. last \in Nat
    BY <1>1, <2>4, <2>8
  <2>10. time - last = (r + 1) * w.tick
    <3>1. n = ((n - r) - 1) + (r + 1)
      BY <1>1, <2>7
    <3>2. \A a, b, c \in Int : (a + b) * c - a * c = b * c
      OBVIOUS
    <3>3. n * w.tick - ((n - r) - 1) * w.tick = (r + 1) * w.tick
      BY <1>1, <2>8, <3>1, <3>2
    <3>4. QED BY <1>2, <2>4, <3>3
  <2>11. time - last >= w.evalInterval <=> r + 1 >= d
    BY <2>8, <2>10, EveryIs DEF d
  <2>12. last # Never
    BY <2>9 DEF Never
  <2>13. (r + 1) * w.tick >= 0
    BY <1>1, <2>8
  <2>14. last <= time
    BY <1>2, <2>9, <2>10, <2>13
  <2>15. r + 1 >= d <=> r + 1 = d
    BY <1>1, <2>7
  <2>16. QED BY <1>1, <1>2, <2>6, <2>8, <2>9, <2>11, <2>12, <2>14, <2>15 DEF n, d
<1>5. QED BY <1>3, <1>4

(* A point more leaves what is said of the turns before as it is.          *)
LEMMA KeptSame ==
  ASSUME NEW w \in Workload, NEW ps, NEW qs, NEW n \in Nat, \A k \in 1 .. n : qs[k] = ps[k]
  PROVE  Kept(w, qs, n) = Kept(w, ps, n)
<1>1. CASE n = 0
  <2>1. Turns(w, n) = {}
    BY <1>1, TurnsNext
  <2>2. QED BY <2>1 DEF Kept, InWindow
<1>2. CASE n # 0
  <2>1. Max(Turns(w, n)) \in 1 .. n /\ Turns(w, n) \in SUBSET (1 .. n)
    BY <1>2, LastTurn
  <2>2. InWindow(w, qs, n) = InWindow(w, ps, n)
    BY <2>1 DEF InWindow
  <2>3. \A m \in InWindow(w, ps, n) : qs[m] = ps[m]
    BY <2>1 DEF InWindow
  <2>4. QED BY <2>2, <2>3 DEF Kept
<1>3. QED BY <1>1, <1>2

-----------------------------------------------------------------------------
LEMMA KeptTyped ==
  ASSUME NEW w \in Workload, NEW ps, NEW time, Timed(w, ps, time)
  PROVE  /\ \A p \in Kept(w, ps, Len(ps)) : p.at \in Nat
         /\ Len(ps) # 0 => Kept(w, ps, Len(ps)) # {}
<1> DEFINE n == Len(ps)
           M == Max(Turns(w, n))
<1>1. n \in Nat /\ DOMAIN ps = 1 .. n /\ \A k \in 1 .. n : ps[k] \in Point
  BY DEF Timed
<1>2. \A k \in 1 .. n : ps[k].at \in Nat
  BY <1>1 DEF Point
<1>3. w.stabilization \in Nat
  BY DEF Workload
<1>4. InWindow(w, ps, n) \in SUBSET (1 .. n)
  BY DEF InWindow, Turns
<1>5. ASSUME n # 0 PROVE Kept(w, ps, n) # {}
  <2>1. M \in Turns(w, n) /\ M \in 1 .. n
    BY <1>1, <1>5, LastTurn
  <2>2. ps[M].at - ps[M].at <= w.stabilization
    BY <1>2, <1>3, <2>1
  <2>3. M \in InWindow(w, ps, n)
    BY <2>1, <2>2 DEF InWindow
  <2>4. QED BY <2>3 DEF Kept
<1>6. QED BY <1>2, <1>4, <1>5 DEF Kept

(* An evaluation more: what is too old goes.                               *)
LEMMA KeptNext ==
  ASSUME NEW w \in Workload, NEW ps, NEW time, NEW last, NEW e \in Point, NEW D,
         Timed(w, ps, time), Evaluated(w, ps, last), e.at = time,
         D = WantedFor(w, e.demand), Len(ps) % Every(w) = 0
  PROVE  /\ Kept(w, Append(ps, e), Len(ps) + 1)
              = {p \in Kept(w, ps, Len(ps)) \cup {[at |-> time, wanted |-> D]} : time - p.at <= w.stabilization}
         /\ Evaluated(w, Append(ps, e), time)
<1> DEFINE n == Len(ps)
           q == Append(ps, e)
           new == [at |-> time, wanted |-> D]
           M == Max(Turns(w, n + 1))
<1>1. /\ n \in Nat /\ Len(q) = n + 1 /\ q[n + 1] = e /\ \A k \in 1 .. n : q[k] = ps[k]
      /\ DOMAIN ps = 1 .. n /\ \A k \in 1 .. n : ps[k] \in Point
  BY AppendProperties DEF Timed
<1>2. Turns(w, n + 1) = Turns(w, n) \cup {n + 1}
  BY <1>1, TurnsNext
<1>3. n + 1 \in Nat \ {0}
  BY <1>1
<1>4. M = n + 1
  <2>1. M \in 1 .. n + 1 /\ n + 1 <= M
    BY <1>2, <1>3, LastTurn
  <2>2. QED BY <1>1, <2>1
<1>5. Turns(w, n) \in SUBSET (1 .. n)
  BY DEF Turns
<1>6. time \in Nat /\ w.stabilization \in Nat
  <2>1. time \in Nat
    BY DueIs
  <2>2. QED BY <2>1 DEF Workload
<1>7. \A k \in 1 .. n : ps[k].at \in Nat
  BY <1>1 DEF Point
<1> HIDE DEF q
<1>8. InWindow(w, q, n + 1) = {k \in Turns(w, n) : time - ps[k].at <= w.stabilization} \cup {n + 1}
  <2>1. InWindow(w, q, n + 1) = {k \in Turns(w, n) \cup {n + 1} : e.at - q[k].at <= w.stabilization}
    BY <1>1, <1>2, <1>4 DEF InWindow
  <2>2. \A k \in Turns(w, n) : q[k].at = ps[k].at
    BY <1>1, <1>5
  <2>3. e.at - q[n + 1].at <= w.stabilization
    BY <1>1, <1>6
  <2>4. QED BY <2>1, <2>2, <2>3
<1>9. \A k \in Turns(w, n) : time - ps[k].at <= w.stabilization => k \in InWindow(w, ps, n)
  <2> SUFFICES ASSUME NEW k \in Turns(w, n), time - ps[k].at <= w.stabilization
               PROVE  k \in InWindow(w, ps, n)
    OBVIOUS
  <2>1. n # 0 /\ k \in 1 .. n
    BY <1>1, <1>5
  <2>2. last = ps[Max(Turns(w, n))].at
    BY <2>1 DEF Evaluated
  <2>3. last \in Nat /\ last <= time
    <3>1. Max(Turns(w, n)) \in 1 .. n
      BY <1>1, <2>1, LastTurn
    <3>2. last \in Nat
      BY <1>7, <2>2, <3>1
    <3>3. last # Never
      BY <3>2 DEF Never
    <3>4. QED BY <3>2, <3>3, DueIs
  <2>4. last - ps[k].at <= w.stabilization
    BY <1>6, <1>7, <2>1, <2>3
  <2>5. QED BY <2>2, <2>4 DEF InWindow
<1>10. InWindow(w, q, n + 1) = {k \in InWindow(w, ps, n) : time - ps[k].at <= w.stabilization} \cup {n + 1}
  BY <1>8, <1>9 DEF InWindow
<1> DEFINE rec(k) == [at |-> ps[k].at, wanted |-> WantedFor(w, ps[k].demand)]
           old == InWindow(w, ps, n)
<1>11. Kept(w, q, n + 1)
         = {rec(k) : k \in {j \in old : time - ps[j].at <= w.stabilization}} \cup {new}
  <2>1. \A k \in old : q[k] = ps[k]
    BY <1>1, <1>5 DEF InWindow
  <2>2. [at |-> q[n + 1].at, wanted |-> WantedFor(w, q[n + 1].demand)] = new
    BY <1>1
  <2>3. QED BY <1>10, <2>1, <2>2 DEF Kept
<1>12. Kept(w, ps, n) = {rec(k) : k \in old}
  BY DEF Kept
<1>13. \A k : rec(k).at = ps[k].at
  OBVIOUS
<1>14. time - new.at <= w.stabilization
  BY <1>6
<1> HIDE DEF rec, old, new
<1>15. Kept(w, q, n + 1) = {p \in Kept(w, ps, n) \cup {new} : time - p.at <= w.stabilization}
  BY <1>11, <1>12, <1>13, <1>14
<1>16. Evaluated(w, q, time)
  BY <1>1, <1>3, <1>4 DEF Evaluated
<1>17. QED BY <1>15, <1>16 DEF q, new

(* A turn without an evaluation changes nothing of it.                     *)
LEMMA KeptStays ==
  ASSUME NEW w \in Workload, NEW ps, NEW time, NEW last, NEW e \in Point,
         Timed(w, ps, time), Evaluated(w, ps, last), Len(ps) % Every(w) # 0
  PROVE  /\ Kept(w, Append(ps, e), Len(ps) + 1) = Kept(w, ps, Len(ps))
         /\ Evaluated(w, Append(ps, e), last)
         /\ Len(ps) # 0
<1> DEFINE n == Len(ps)
           q == Append(ps, e)
<1>1. n \in Nat /\ Len(q) = n + 1 /\ \A k \in 1 .. n : q[k] = ps[k]
  BY AppendProperties DEF Timed
<1>2. Turns(w, n + 1) = Turns(w, n)
  BY <1>1, TurnsNext
<1>3. n # 0
  <2>1. Evaluated(w, ps, last) /\ Len(ps) = 0 => last = Never
    BY DEF Evaluated
  <2>2. QED BY <2>1, DueIs
<1>4. Max(Turns(w, n)) \in 1 .. n
  BY <1>1, <1>3, LastTurn
<1> HIDE DEF q
<1>5. Kept(w, q, n) = Kept(w, ps, n)
  BY <1>1, KeptSame
<1>6. Kept(w, q, n + 1) = Kept(w, q, n)
  BY <1>2 DEF Kept, InWindow
<1>7. Evaluated(w, q, last)
  <2>1. n + 1 # 0
    BY <1>1
  <2>2. q[Max(Turns(w, n + 1))] = ps[Max(Turns(w, n))]
    BY <1>1, <1>2, <1>4
  <2>3. QED BY <1>1, <1>3, <2>1, <2>2 DEF Evaluated
<1>8. QED BY <1>3, <1>5, <1>6, <1>7 DEF q

-----------------------------------------------------------------------------
(* What is left unserved.                                                  *)

LEMMA UnmetTyped ==
  ASSUME NEW w \in Workload, NEW ps \in Seq(Point), NEW n \in Nat, n <= Len(ps)
  PROVE  /\ \A k \in 1 .. n : Unmet(w, ps, n)[k] \in Int
         /\ \A m \in Nat \ {0} : Wait(w, ps, m, n) \in Int /\ IsFiniteSet(m .. n) /\ m .. n \in SUBSET (1 .. n)
<1>1. \A k \in 1 .. n : ps[k] \in Point
  BY ElementOfSeq
<1>2. w.perReplica \in Nat /\ w.tick \in Nat
  BY DEF Workload
<1>3. \A k \in 1 .. n : Unmet(w, ps, n)[k] \in Int
  <2> SUFFICES ASSUME NEW k \in 1 .. n PROVE Unmet(w, ps, n)[k] \in Int
    OBVIOUS
  <2>1. ps[k].demand \in Int /\ ps[k].replicas \in Nat
    BY <1>1 DEF Point
  <2>2. ps[k].replicas * w.perReplica \in Int
    BY <1>2, <2>1
  <2>3. ps[k].demand - ps[k].replicas * w.perReplica \in Int
    BY <2>1, <2>2
  <2>4. (ps[k].demand - ps[k].replicas * w.perReplica) * w.tick \in Int
    BY <1>2, <2>3
  <2>5. QED BY <2>4 DEF Unmet
<1>4. ASSUME NEW m \in Nat \ {0}
      PROVE  Wait(w, ps, m, n) \in Int /\ IsFiniteSet(m .. n) /\ m .. n \in SUBSET (1 .. n)
  <2>1. IsFiniteSet(m .. n) /\ m .. n \in SUBSET (1 .. n)
    BY FS_Interval
  <2>2. QED BY <1>3, <2>1, TotalInt DEF Wait
<1>5. QED BY <1>3, <1>4

LEMMA WaitSame ==
  ASSUME NEW w, NEW ps, NEW qs, NEW n \in Nat, \A k \in 1 .. n : qs[k] = ps[k]
  PROVE  \A m : Wait(w, qs, m, n) = Wait(w, ps, m, n)
<1>1. Unmet(w, qs, n) = Unmet(w, ps, n)
  BY DEF Unmet
<1>2. QED BY <1>1 DEF Wait

LEMMA WaitGrows ==
  ASSUME NEW w \in Workload, NEW ps \in Seq(Point), NEW e \in Point
  PROVE  LET n == Len(ps)
             u == (e.demand - e.replicas * w.perReplica) * w.tick
         IN  /\ u \in Int
             /\ \A m \in 1 .. n + 1 : /\ Wait(w, Append(ps, e), m, n + 1) = Wait(w, ps, m, n) + u
                                      /\ Wait(w, ps, m, n) \in Int
             /\ Wait(w, Append(ps, e), n + 2, n + 1) = 0
<1> DEFINE n == Len(ps)
           q == Append(ps, e)
           u == (e.demand - e.replicas * w.perReplica) * w.tick
           h == Unmet(w, q, n + 1)
<1>1. /\ n \in Nat /\ q \in Seq(Point) /\ Len(q) = n + 1 /\ q[n + 1] = e
      /\ \A k \in 1 .. n : q[k] = ps[k]
  BY AppendProperties
<1>2. n + 1 \in 1 .. n + 1 /\ n + 1 \in Nat
  BY <1>1
<1> HIDE DEF q
<1>3. h[n + 1] = u
  BY <1>1, <1>2 DEF Unmet
<1>4. \A k \in 1 .. n : h[k] = Unmet(w, ps, n)[k]
  BY <1>1 DEF Unmet
<1>5. \A k \in 1 .. n + 1 : h[k] \in Int
  BY <1>1, <1>2, UnmetTyped
<1>6. u \in Int
  BY <1>2, <1>3, <1>5
<1> HIDE DEF h, u
<1>7. ASSUME NEW m \in 1 .. n + 1
      PROVE  Wait(w, q, m, n + 1) = Wait(w, ps, m, n) + u /\ Wait(w, ps, m, n) \in Int
  <2>1. m \in Nat \ {0}
    BY <1>1
  <2>2. /\ IsFiniteSet(m .. n) /\ m .. n \in SUBSET (1 .. n) /\ Wait(w, ps, m, n) \in Int
    <3>1. Len(ps) <= Len(ps) /\ Len(ps) \in Nat
      BY <1>1
    <3>2. QED BY <2>1, <3>1, UnmetTyped
  <2>3. IsFiniteSet(m .. n + 1) /\ m .. n + 1 \in SUBSET (1 .. n + 1)
    <3>1. n + 1 <= Len(q)
      BY <1>1
    <3>2. QED BY <1>1, <1>2, <2>1, <3>1, UnmetTyped
  <2>4. n + 1 \in m .. n + 1 /\ (m .. n + 1) \ {n + 1} = m .. n
    BY <1>1, <2>1
  <2>5. \A k \in m .. n + 1 : h[k] \in Int
    BY <1>5, <2>3
  <2>6. Total(h, m .. n + 1) = h[n + 1] + Total(h, (m .. n + 1) \ {n + 1})
    BY <2>3, <2>4, <2>5, TotalAdd
  <2>7. \A k \in m .. n : h[k] = Unmet(w, ps, n)[k]
    BY <1>4, <2>2
  <2>8. Total(h, m .. n) = Wait(w, ps, m, n)
    BY <2>2, <2>7, TotalSame DEF Wait
  <2>9. Wait(w, q, m, n + 1) = Total(h, m .. n + 1)
    BY DEF Wait, h
  <2>10. Wait(w, q, m, n + 1) = u + Wait(w, ps, m, n)
    BY <1>3, <2>4, <2>6, <2>8, <2>9, Zenon
  <2>11. QED BY <1>6, <2>2, <2>10
<1>8. Wait(w, q, n + 2, n + 1) = 0
  <2>1. (n + 2) .. (n + 1) = {}
    BY <1>1
  <2>2. IsFiniteSet({})
    BY FS_EmptySet
  <2>3. QED BY <2>1, <2>2, TotalSteps DEF Wait
<1>9. QED BY <1>6, <1>7, <1>8 DEF q, u

(* A turn more: what waits is what the worst stretch left unserved.        *)
LEMMA WorstNext ==
  ASSUME NEW w \in Workload, NEW ps \in Seq(Point), NEW e \in Point, NEW b \in Int, NEW x,
         Worst(w, ps, Len(ps), b),
         x = Max({0, b - (e.replicas * w.perReplica - e.demand) * w.tick})
  PROVE  Worst(w, Append(ps, e), Len(ps) + 1, x) /\ x \in Nat
<1> DEFINE n == Len(ps)
           q == Append(ps, e)
           u == (e.demand - e.replicas * w.perReplica) * w.tick
           W(m) == Wait(w, ps, m, n)
           V(m) == Wait(w, q, m, n + 1)
<1>1. /\ u \in Int /\ n \in Nat
      /\ \A m \in 1 .. n + 1 : V(m) = W(m) + u /\ W(m) \in Int
      /\ V(n + 2) = 0
  BY WaitGrows
<1>2. b - (e.replicas * w.perReplica - e.demand) * w.tick = b + u
  <2>1. e.replicas \in Nat /\ e.demand \in Int /\ w.perReplica \in Nat /\ w.tick \in Nat
    BY DEF Point, Workload
  <2>2. \A a \in Int : \A d, c \in Int : (a - d) * c = -((d - a) * c)
    OBVIOUS
  <2>3. e.replicas * w.perReplica \in Int
    BY <2>1
  <2>4. (e.replicas * w.perReplica - e.demand) * w.tick = -u
    BY <2>1, <2>2, <2>3
  <2> HIDE DEF u
  <2>5. QED BY <1>1, <2>4
<1>3. b \in {W(m) : m \in 1 .. n + 1} /\ \A m \in 1 .. n + 1 : W(m) <= b
  BY DEF Worst, LargestOf
<1> HIDE DEF u, W
<1>4. x = IF 0 >= b + u THEN 0 ELSE b + u
  BY <1>1, <1>2 DEF Max
<1>5. x \in Nat /\ x >= 0 /\ x >= b + u /\ (x = 0 \/ x = b + u)
  BY <1>1, <1>4
<1> HIDE DEF V
<1>6. \A m \in 1 .. n + 2 : V(m) \in Int /\ V(m) <= x
  <2> SUFFICES ASSUME NEW m \in 1 .. n + 2 PROVE V(m) \in Int /\ V(m) <= x
    OBVIOUS
  <2>1. CASE m = n + 2
    BY <1>1, <1>5, <2>1
  <2>2. CASE m # n + 2
    <3>1. m \in 1 .. n + 1
      BY <1>1, <2>2
    <3>2. V(m) = W(m) + u /\ W(m) \in Int /\ W(m) <= b
      BY <1>1, <1>3, <3>1
    <3>3. QED BY ONLY <1>1, <1>5, <3>2, b \in Int
  <2>3. QED BY <2>1, <2>2
<1>7. \E m \in 1 .. n + 2 : V(m) = x
  <2>1. CASE x = 0
    BY <1>1, <2>1
  <2>2. CASE x = b + u
    <3>1. PICK m \in 1 .. n + 1 : b = W(m)
      BY <1>3
    <3>2. m \in 1 .. n + 2 /\ V(m) = b + u
      BY <1>1, <3>1
    <3>3. QED BY <2>2, <3>2
  <2>3. QED BY <1>5, <2>1, <2>2
<1>8. (n + 1) + 1 = n + 2
  BY <1>1
<1>9. LargestOf(x, {V(m) : m \in 1 .. n + 2})
  BY <1>6, <1>7 DEF LargestOf
<1>10. QED BY <1>5, <1>8, <1>9 DEF Worst, V

-----------------------------------------------------------------------------
LEMMA PointsStart == AutoscalerInit => PointsInv
<1> SUFFICES ASSUME AutoscalerInit PROVE PointsInv
  OBVIOUS
<1>1. /\ workload \in Workload /\ points = <<>> /\ t = 0 /\ backlog = 0 /\ recent = {}
      /\ lastEval = Never
  BY AutoscalerAssumption DEF AutoscalerInit
<1>2. Len(points) = 0 /\ points \in Seq(Point)
  BY <1>1
<1>3. Timed(workload, points, t)
  BY <1>1, <1>2 DEF Timed, Workload
<1>4. Evaluated(workload, points, lastEval)
  BY <1>1, <1>2 DEF Evaluated
<1>5. recent = Kept(workload, points, Len(points))
  <2>1. 0 \in Nat
    OBVIOUS
  <2>2. Turns(workload, 0) = {}
    BY <1>1, <2>1, TurnsNext
  <2>3. Kept(workload, points, 0) = {}
    BY <2>2 DEF Kept, InWindow
  <2>4. QED BY <1>1, <1>2, <2>3
<1>6. Following(workload, points) /\ Waiting(workload, points)
  BY <1>2 DEF Following, Waiting
<1>7. Worst(workload, points, Len(points), backlog)
  <2>1. Wait(workload, points, 1, 0) = 0
    <3>1. 1 .. 0 = {}
      OBVIOUS
    <3>2. IsFiniteSet({})
      BY FS_EmptySet
    <3>3. QED BY <3>1, <3>2, TotalSteps DEF Wait
  <2>2. \A m : m \in 1 .. 0 + 1 <=> m = 1
    OBVIOUS
  <2>3. {Wait(workload, points, m, 0) : m \in 1 .. 0 + 1} = {0}
    BY <2>1, <2>2
  <2>4. LargestOf(0, {0})
    BY DEF LargestOf
  <2>5. QED BY <1>1, <1>2, <2>3, <2>4 DEF Worst
<1>8. QED BY <1>1, <1>3, <1>4, <1>5, <1>6, <1>7 DEF PointsInv

LEMMA PointsStep ==
  ASSUME AutoscalerInv, AutoscalerInv', PointsInv, [AutoscalerNext]_autoscalerVars
  PROVE  PointsInv'
<1>1. CASE UNCHANGED autoscalerVars
  <2>1. /\ workload' = workload /\ points' = points /\ t' = t /\ backlog' = backlog
        /\ recent' = recent /\ lastEval' = lastEval
    BY <1>1 DEF autoscalerVars
  <2>2. QED BY <2>1 DEF PointsInv
<1>2. CASE AutoscalerNext
  <2> DEFINE w == workload
             n == Len(points)
             e == [at |-> t, demand |-> Demand, replicas |-> replicas', backlog |-> backlog']
  <2>1. Serve /\ t <= TotalDuration
    BY <1>2 DEF AutoscalerNext, ScaleUp, ScaleDown, Hold, BetweenEvaluations, Evaluate
  <2>2. \/ Due /\ recent' = Window /\ lastEval' = t
        \/ ~Due /\ recent' = recent /\ lastEval' = lastEval
    BY <1>2 DEF AutoscalerNext, ScaleUp, ScaleDown, Hold, BetweenEvaluations, Evaluate
  <2>3. /\ workload' = w /\ points' = Append(points, e) /\ t' = t + w.tick
        /\ backlog' = Max({0, backlog - (replicas' * w.perReplica - Demand) * w.tick})
    BY <2>1 DEF Serve
  <2>4. /\ w \in Workload /\ t \in Nat
        /\ w.tick \in Nat /\ w.perReplica \in Nat /\ w.minReplicas \in Nat /\ w.maxReplicas \in Nat
    BY DEF AutoscalerInv, AutoscalerTyped, Workload
  <2>5. Demand \in Int
    BY <2>1, <2>4, DemandTyped
  <2>6. replicas' \in Nat
    BY <2>3, <2>4 DEF AutoscalerInv, ReplicasAreHeld
  <2>7. backlog \in Nat /\ Timed(w, points, t) /\ Evaluated(w, points, lastEval)
    BY DEF PointsInv
  <2>8. backlog' \in Nat
    <3> DEFINE b == backlog - (replicas' * w.perReplica - Demand) * w.tick
    <3>1. b \in Int
      <4>1. replicas' * w.perReplica \in Int
        BY <2>4, <2>6
      <4>2. (replicas' * w.perReplica - Demand) * w.tick \in Int
        BY <2>4, <2>5, <4>1
      <4>3. QED BY <2>7, <4>2
    <3>2. backlog' = Max({0, b})
      BY <2>3
    <3> HIDE DEF b
    <3>3. Max({0, b}) = IF 0 >= b THEN 0 ELSE b
      BY <3>1 DEF Max
    <3>4. QED BY <3>1, <3>2, <3>3
  <2>9. e \in Point /\ e.at = t /\ e.demand = Demand /\ e.replicas = replicas' /\ e.backlog = backlog'
    BY <2>4, <2>5, <2>6, <2>8 DEF Point
  <2>10. points \in Seq(Point) /\ n \in Nat /\ t = n * w.tick
    BY <2>7 DEF Timed
  <2> HIDE DEF e
  <2>11. /\ points' \in Seq(Point) /\ Len(points') = n + 1 /\ points'[n + 1] = e
         /\ \A k \in 1 .. n : points'[k] = points[k]
    BY <2>3, <2>9, <2>10, AppendProperties
  <2>12. \A k \in 1 .. n + 1 : k \in 1 .. n \/ k = n + 1
    BY <2>10
  <2>13. Timed(w, points', t')
    <3>1. t' = (n + 1) * w.tick
      <4>1. \A a, c \in Int : (a + 1) * c = a * c + c
        OBVIOUS
      <4>2. (n + 1) * w.tick = n * w.tick + w.tick
        BY <2>4, <2>10, <4>1
      <4>3. QED BY <2>3, <2>10, <4>2
    <3>2. (n + 1) - 1 = n
      BY <2>10
    <3>3. \A k \in 1 .. n : points'[k].at = (k - 1) * w.tick
      BY <2>7, <2>11 DEF Timed
    <3>4. points'[n + 1].at = ((n + 1) - 1) * w.tick
      BY <2>9, <2>10, <2>11, <3>2
    <3>5. \A k \in 1 .. n + 1 : points'[k].at = (k - 1) * w.tick
      BY <2>12, <3>3, <3>4
    <3>6. QED BY <2>11, <3>1, <3>5 DEF Timed
  <2>14. Due <=> n % Every(w) = 0
    BY <2>4, <2>7, DueIs DEF Due
  <2>15. recent' = Kept(w, points', n + 1) /\ Evaluated(w, points', lastEval')
    <3>1. recent = Kept(w, points, n)
      BY DEF PointsInv
    <3>2. CASE Due
      <4>1. Desired = WantedFor(w, e.demand)
        BY <2>9 DEF Desired, DesiredFor, WantedFor
      <4>2. /\ Kept(w, Append(points, e), n + 1)
                  = {p \in Kept(w, points, n) \cup {[at |-> t, wanted |-> Desired]} : t - p.at <= w.stabilization}
            /\ Evaluated(w, Append(points, e), t)
        BY <2>4, <2>7, <2>9, <2>14, <3>2, <4>1, KeptNext
      <4>3. recent' = Window /\ lastEval' = t
        BY <2>2, <3>2
      <4>4. QED BY <2>3, <3>1, <4>2, <4>3 DEF Window
    <3>3. CASE ~Due
      <4>1. /\ Kept(w, Append(points, e), n + 1) = Kept(w, points, n)
            /\ Evaluated(w, Append(points, e), lastEval)
        BY <2>4, <2>7, <2>9, <2>14, <3>3, KeptStays
      <4>2. QED BY <2>2, <2>3, <3>1, <3>3, <4>1
    <3>4. QED BY <3>2, <3>3
  <2>16. Following(w, points')
    <3>1. \A k \in 1 .. n : LargestOf(points'[k].replicas, {p.wanted : p \in Kept(w, points', k)})
      <4> SUFFICES ASSUME NEW k \in 1 .. n
                   PROVE  LargestOf(points'[k].replicas, {p.wanted : p \in Kept(w, points', k)})
        OBVIOUS
      <4>1. k \in Nat /\ \A i \in 1 .. k : points'[i] = points[i]
        BY <2>10, <2>11
      <4>2. Kept(w, points', k) = Kept(w, points, k)
        BY <2>4, <4>1, KeptSame
      <4>3. QED BY <2>11, <4>2 DEF PointsInv, Following
    <3>2. LargestOf(replicas', {p.wanted : p \in Kept(w, points', n + 1)})
      <4>1. /\ \A p \in recent' : p.wanted <= replicas'
            /\ recent' # {} => \E p \in recent' : p.wanted = replicas'
        BY DEF AutoscalerInv, ReplicasAreHeld
      <4>2. \A p \in recent' : p.wanted \in Int
        BY <2>3, <2>4 DEF AutoscalerInv, AutoscalerTyped
      <4>3. recent' # {}
        <5>1. n + 1 # 0
          BY <2>10
        <5>2. Kept(w, points', Len(points')) # {}
          BY <2>4, <2>11, <2>13, <5>1, KeptTyped
        <5>3. QED BY <2>11, <2>15, <5>2
      <4>4. LargestOf(replicas', {p.wanted : p \in recent'})
        BY <4>1, <4>2, <4>3 DEF LargestOf
      <4>5. QED BY <2>15, <4>4
    <3>3. points'[n + 1].replicas = replicas'
      BY <2>9, <2>11
    <3>4. \A k \in 1 .. n + 1 : LargestOf(points'[k].replicas, {p.wanted : p \in Kept(w, points', k)})
      BY <2>12, <3>1, <3>2, <3>3
    <3>5. QED BY <2>11, <3>4 DEF Following
  <2>17. Worst(w, points', n + 1, backlog')
    <3>1. backlog' = Max({0, backlog - (e.replicas * w.perReplica - e.demand) * w.tick})
      BY <2>3, <2>9
    <3>2. Worst(w, points, n, backlog) /\ backlog \in Int
      BY <2>7 DEF PointsInv
    <3>3. Worst(w, Append(points, e), n + 1, backlog')
      BY <2>4, <2>9, <2>10, <3>1, <3>2, WorstNext
    <3>4. QED BY <2>3, <3>3
  <2>18. Waiting(w, points')
    <3>1. \A k \in 1 .. n : Worst(w, points', k, points'[k].backlog)
      <4> SUFFICES ASSUME NEW k \in 1 .. n PROVE Worst(w, points', k, points'[k].backlog)
        OBVIOUS
      <4>1. k \in Nat /\ \A i \in 1 .. k : points'[i] = points[i]
        BY <2>10, <2>11
      <4>2. \A m : Wait(w, points', m, k) = Wait(w, points, m, k)
        BY <4>1, WaitSame
      <4>3. {Wait(w, points', m, k) : m \in 1 .. k + 1} = {Wait(w, points, m, k) : m \in 1 .. k + 1}
        BY <4>2
      <4>4. Worst(w, points, k, points[k].backlog)
        BY DEF PointsInv, Waiting
      <4>5. QED BY <2>11, <4>3, <4>4 DEF Worst
    <3>2. points'[n + 1].backlog = backlog'
      BY <2>9, <2>11
    <3>3. \A k \in 1 .. n + 1 : Worst(w, points', k, points'[k].backlog)
      BY <2>12, <2>17, <3>1, <3>2
    <3>4. QED BY <2>11, <3>3 DEF Waiting
  <2>19. QED BY <2>3, <2>8, <2>11, <2>13, <2>15, <2>16, <2>17, <2>18 DEF PointsInv
<1>3. QED BY <1>1, <1>2

(* Over any stretch of turns the sum of the definition is the total here.  *)
LEMMA UnservedIs ==
  ASSUME NEW S, IsFiniteSet(S), NEW ps, NEW c, NEW d
  PROVE  MapThenSumSet(LAMBDA k : (ps[k].demand - ps[k].replicas * c) * d, S)
           = Total([k \in S |-> (ps[k].demand - ps[k].replicas * c) * d], S)
<1> DEFINE h == [k \in S |-> (ps[k].demand - ps[k].replicas * c) * d]
           body(g, s) == IF s = {} THEN 0
                         ELSE (ps[pick(s)].demand - ps[pick(s)].replicas * c) * d + g[others(s)]
           Is(g) == g = [s \in SUBSET S |-> body(g, s)]
<1>1. MapThenSumSet(LAMBDA k : (ps[k].demand - ps[k].replicas * c) * d, S) = (CHOOSE g : Is(g))[S]
  BY DEF MapThenSumSet, MapThenFoldSet, pick, others
<1>2. ASSUME NEW g PROVE Adds(g, h, S) <=> Is(g)
  <2>1. \A s \in SUBSET S : body(g, s) = IF s = {} THEN 0 ELSE h[pick(s)] + g[others(s)]
    BY DEF pick
  <2>2. [s \in SUBSET S |-> body(g, s)]
          = [s \in SUBSET S |-> IF s = {} THEN 0 ELSE h[pick(s)] + g[others(s)]]
    BY <2>1
  <2>3. QED BY <2>2 DEF Adds
<1> HIDE DEF h
<1>3. PICK f : Adds(f, h, S)
  BY AddsExists
<1> HIDE DEF Is
<1>4. Is(CHOOSE g : Is(g))
  BY <1>2, <1>3
<1>5. Adds(CHOOSE g : Is(g), h, S)
  BY <1>2, <1>4
<1>6. (CHOOSE g : Is(g))[S] = Total(h, S)
  BY <1>5, TotalIs
<1>7. QED BY <1>1, <1>6 DEF h

LEMMA LargestIsMax ==
  ASSUME NEW x, NEW S, LargestOf(x, S)
  PROVE  Max(S) = x
BY MaxIs DEF LargestOf

LEMMA PointsAreRight ==
  ASSUME workload \in Workload, PointsInv
  PROVE  PointsAreTrue
<1>1. points \in Seq(Point) /\ DOMAIN points = 1 .. Len(points) /\ Len(points) \in Nat
  BY DEF PointsInv, Timed
<1>2. ReplicasFollowWindow
  <2>1. \A k : Evaluations(k) = Turns(workload, k)
    BY DEF Evaluations, Turns, Every
  <2>2. \A d : DesiredFor(d) = WantedFor(workload, d)
    BY DEF DesiredFor, WantedFor
  <2> SUFFICES ASSUME NEW n \in 1 .. Len(points)
               PROVE  points[n].replicas =
                        Max({DesiredFor(points[m].demand) :
                               m \in {k \in Evaluations(n) :
                                        points[Max(Evaluations(n))].at - points[k].at <= workload.stabilization}})
    BY <1>1 DEF ReplicasFollowWindow
  <2>3. {k \in Evaluations(n) : points[Max(Evaluations(n))].at - points[k].at <= workload.stabilization}
          = InWindow(workload, points, n)
    BY <2>1 DEF InWindow
  <2>4. {p.wanted : p \in Kept(workload, points, n)}
          = {DesiredFor(points[m].demand) : m \in InWindow(workload, points, n)}
    <3> DEFINE rec(m) == [at |-> points[m].at, wanted |-> DesiredFor(points[m].demand)]
               I == InWindow(workload, points, n)
    <3>1. Kept(workload, points, n) = {rec(m) : m \in I}
      BY <2>2 DEF Kept
    <3>2. \A m : rec(m).wanted = DesiredFor(points[m].demand)
      OBVIOUS
    <3> HIDE DEF rec, I
    <3>3. {p.wanted : p \in {rec(m) : m \in I}} = {DesiredFor(points[m].demand) : m \in I}
      BY <3>2
    <3>4. QED BY <3>1, <3>3 DEF I
  <2>5. LargestOf(points[n].replicas, {p.wanted : p \in Kept(workload, points, n)})
    BY DEF PointsInv, Following
  <2>6. Max({p.wanted : p \in Kept(workload, points, n)}) = points[n].replicas
    BY <2>5, LargestIsMax
  <2>7. QED BY <2>3, <2>4, <2>6
<1>3. BacklogIsUnserved
  <2> SUFFICES ASSUME NEW n \in 1 .. Len(points)
               PROVE  points[n].backlog = Max({Unserved(m, n) : m \in 1 .. n + 1})
    BY <1>1 DEF BacklogIsUnserved
  <2>1. \A m \in 1 .. n + 1 : Unserved(m, n) = Wait(workload, points, m, n)
    <3> SUFFICES ASSUME NEW m \in 1 .. n + 1 PROVE Unserved(m, n) = Wait(workload, points, m, n)
      OBVIOUS
    <3> DEFINE h == [k \in m .. n |-> (points[k].demand - points[k].replicas * workload.perReplica) * workload.tick]
    <3>1. IsFiniteSet(m .. n) /\ \A k \in m .. n : k \in 1 .. n
      BY FS_Interval
    <3>2. Unserved(m, n) = Total(h, m .. n)
      BY <3>1, UnservedIs DEF Unserved
    <3>3. \A k \in m .. n : h[k] = Unmet(workload, points, n)[k]
      BY <3>1 DEF Unmet
    <3> HIDE DEF h
    <3>4. Total(h, m .. n) = Total(Unmet(workload, points, n), m .. n)
      BY <3>1, <3>3, TotalSame
    <3>5. QED BY <3>2, <3>4 DEF Wait
  <2>2. {Unserved(m, n) : m \in 1 .. n + 1} = {Wait(workload, points, m, n) : m \in 1 .. n + 1}
    BY <2>1
  <2>3. LargestOf(points[n].backlog, {Wait(workload, points, m, n) : m \in 1 .. n + 1})
    BY DEF PointsInv, Waiting, Worst
  <2>4. QED BY <2>2, <2>3, LargestIsMax
<1>4. QED BY <1>2, <1>3 DEF PointsAreTrue

(* For any traffic and any settings the points reported are the ones that  *)
(* follow from the traffic: replicas for the most demanding evaluation of  *)
(* the window, a backlog that saves no spare capacity                      *)
(* (autoscaling.py:131-150).                                               *)
THEOREM AutoscalerPoints == AutoscalerSpec => []PointsAreTrue
<1> DEFINE I == AutoscalerInv /\ PointsInv
<1>1. AutoscalerInit => I
  BY AutoscalerStart, PointsStart
<1>2. I /\ [AutoscalerNext]_autoscalerVars => I'
  BY AutoscalerStep, PointsStep
<1>3. I => PointsAreTrue
  BY PointsAreRight DEF AutoscalerInv, AutoscalerTyped
<1> HIDE DEF I
<1>4. QED
  BY <1>1, <1>2, <1>3, PTL DEF AutoscalerSpec

-----------------------------------------------------------------------------
(* MIG packing.                                                            *)

MigTyped ==
  /\ poolSize \in Nat \ {0}
  /\ wanted \in Seq(Profiles)
  /\ remainingCompute \in [PoolGpus -> Nat]
  /\ remainingMemory \in [PoolGpus -> Nat]
  /\ placed \in Seq(Nat)
  /\ Len(placed) <= Len(wanted)

MigInv == MigTyped /\ NothingFitsEarlier

(* Room only shrinks: where a request does not fit it will never fit.      *)
LEMMA RoomShrinks ==
  ASSUME MigTyped, MigNext, NEW g \in PoolGpus, NEW p \in Profiles, HasRoom(g, p)'
  PROVE  HasRoom(g, p)
<1>1. ComputeSlots[p] \in Nat /\ MemorySlots[p] \in Nat
  BY DEF ComputeSlots, MemorySlots, Profiles
<1>2. remainingCompute[g] \in Nat /\ remainingMemory[g] \in Nat
  BY DEF MigTyped
<1> DEFINE Shrinks(left, before) == left \in Int /\ left <= before
<1>3. Shrinks(remainingCompute'[g], remainingCompute[g]) /\ Shrinks(remainingMemory'[g], remainingMemory[g])
  <2>1. CASE LeaveUnplaced
    BY <1>2, <2>1 DEF LeaveUnplaced
  <2>2. ASSUME NEW h \in PoolGpus, Place(h)
        PROVE  Shrinks(remainingCompute'[g], remainingCompute[g]) /\ Shrinks(remainingMemory'[g], remainingMemory[g])
    <3>1. Profile \in Profiles
      BY <2>2 DEF Place, Profile, MigTyped
    <3>2. ComputeSlots[Profile] \in Nat /\ MemorySlots[Profile] \in Nat
      BY <3>1 DEF ComputeSlots, MemorySlots, Profiles
    <3>3. /\ remainingCompute' = [remainingCompute EXCEPT ![h] = @ - ComputeSlots[Profile]]
          /\ remainingMemory' = [remainingMemory EXCEPT ![h] = @ - MemorySlots[Profile]]
      BY <2>2 DEF Place
    <3> QED
      BY <1>2, <3>2, <3>3 DEF MigTyped
  <2> QED
    BY <2>1, <2>2 DEF MigNext
<1>4. remainingCompute'[g] >= ComputeSlots[p] /\ remainingMemory'[g] >= MemorySlots[p]
  BY DEF HasRoom
<1> QED
  BY <1>1, <1>2, <1>3, <1>4 DEF HasRoom

LEMMA MigStart == MigInit => MigInv
BY MigAssumption
   DEF MigInit, MigInv, MigTyped, NothingFitsEarlier, COMPUTE_SLOTS_TOTAL, MEMORY_SLOTS_TOTAL

LEMMA MigStep ==
  ASSUME MigInv, [MigNext]_migVars
  PROVE  MigInv'
<1>1. CASE UNCHANGED migVars
  BY <1>1 DEF migVars, MigInv, MigTyped, NothingFitsEarlier, HasRoom, PoolGpus
<1>2. ASSUME MigNext, NEW at \in Nat,
             Len(placed) < Len(wanted), placed' = Append(placed, at),
             UNCHANGED <<poolSize, wanted>>, MigTyped',
             \A g \in PoolGpus : (at = NoGpu \/ g < at) => ~HasRoom(g, Profile)
      PROVE  MigInv'
  <2>1. MigTyped /\ NothingFitsEarlier
    BY DEF MigInv
  <2>2. SUFFICES ASSUME NEW k \in DOMAIN placed', NEW g \in PoolGpus',
                        placed'[k] = NoGpu \/ g < placed'[k], HasRoom(g, wanted[k])'
                 PROVE  FALSE
    BY <1>2 DEF MigInv, NothingFitsEarlier
  <2>3. g \in PoolGpus /\ wanted' = wanted
    BY <1>2 DEF PoolGpus
  <2>4. k \in 1 .. Len(placed) + 1 /\ wanted[k] \in Profiles
    BY <1>2, <2>1 DEF MigTyped
  <2>5. HasRoom(g, wanted[k])
    <3>1. \A p \in Profiles : HasRoom(g, p)' => HasRoom(g, p)
      BY <1>2, <2>1, <2>3, RoomShrinks
    <3>2. PICK p \in Profiles : p = wanted[k]
      BY <2>4
    <3>3. HasRoom(g, p)'
      BY <2>2, <2>3, <3>2 DEF HasRoom
    <3> QED
      BY <3>1, <3>2, <3>3
  <2>6. CASE k = Len(placed) + 1
    <3>1. placed'[k] = at /\ wanted[k] = Profile
      BY <1>2, <2>1, <2>6 DEF MigTyped, Profile
    <3> QED
      BY <1>2, <2>2, <2>3, <2>5, <3>1
  <2>7. CASE k # Len(placed) + 1
    <3>1. k \in DOMAIN placed /\ placed'[k] = placed[k]
      BY <1>2, <2>1, <2>4, <2>7 DEF MigTyped
    <3> QED
      BY <2>1, <2>2, <2>3, <2>5, <3>1 DEF NothingFitsEarlier
  <2> QED
    BY <2>6, <2>7
<1>3. ASSUME NEW g \in PoolGpus, Place(g) PROVE MigInv'
  <2>1. MigTyped /\ poolSize \in Nat \ {0}
    BY DEF MigInv, MigTyped
  <2>2. Profile \in Profiles /\ HasRoom(g, Profile)
    BY <1>3, <2>1 DEF Place, Profile, MigTyped
  <2>3. ComputeSlots[Profile] \in Nat /\ MemorySlots[Profile] \in Nat
    BY <2>2 DEF ComputeSlots, MemorySlots, Profiles
  <2>4. /\ remainingCompute[g] - ComputeSlots[Profile] \in Nat
        /\ remainingMemory[g] - MemorySlots[Profile] \in Nat
    BY <2>1, <2>2, <2>3 DEF HasRoom, MigTyped
  <2>5. MigTyped'
    BY <1>3, <2>1, <2>4 DEF Place, MigTyped, PoolGpus
  <2>6. \A h \in PoolGpus : (g = NoGpu \/ h < g) => ~HasRoom(h, Profile)
    BY <1>3, <2>1 DEF Place, PoolGpus, NoGpu
  <2>7. MigNext /\ g \in Nat
    BY <1>3, <2>1 DEF MigNext, PoolGpus
  <2> QED
    BY <1>2, <1>3, <2>5, <2>6, <2>7 DEF Place
<1>4. CASE LeaveUnplaced
  <2>1. MigTyped
    BY DEF MigInv
  <2>2. MigTyped'
    BY <1>4, <2>1 DEF LeaveUnplaced, MigTyped, PoolGpus, NoGpu
  <2>3. \A h \in PoolGpus : ~HasRoom(h, Profile)
    BY <1>4 DEF LeaveUnplaced
  <2>4. MigNext /\ NoGpu \in Nat
    BY <1>4 DEF MigNext, NoGpu
  <2> QED
    BY <1>2, <1>4, <2>2, <2>3, <2>4 DEF LeaveUnplaced
<1> QED
  BY <1>1, <1>3, <1>4 DEF MigNext

-----------------------------------------------------------------------------
(* What is placed on a GPU and what is left of it make up its slots.       *)

LEMMA UsedIsTotal ==
  ASSUME NEW S, IsFiniteSet(S), NEW slots, NEW w
  PROVE  MapThenSumSet(LAMBDA k : slots[w[k]], S) = Total([k \in S |-> slots[w[k]]], S)
<1> DEFINE h == [k \in S |-> slots[w[k]]]
           body(g, s) == IF s = {} THEN 0 ELSE slots[w[pick(s)]] + g[others(s)]
           Is(g) == g = [s \in SUBSET S |-> body(g, s)]
<1>1. MapThenSumSet(LAMBDA k : slots[w[k]], S) = (CHOOSE g : Is(g))[S]
  BY DEF MapThenSumSet, MapThenFoldSet, pick, others
<1>2. ASSUME NEW g PROVE Adds(g, h, S) <=> Is(g)
  <2>1. \A s \in SUBSET S : body(g, s) = IF s = {} THEN 0 ELSE h[pick(s)] + g[others(s)]
    BY DEF pick
  <2>2. [s \in SUBSET S |-> body(g, s)]
          = [s \in SUBSET S |-> IF s = {} THEN 0 ELSE h[pick(s)] + g[others(s)]]
    BY <2>1
  <2>3. QED BY <2>2 DEF Adds
<1> HIDE DEF h
<1>3. PICK f : Adds(f, h, S)
  BY AddsExists
<1> HIDE DEF Is
<1>4. Is(CHOOSE g : Is(g))
  BY <1>2, <1>3
<1>5. Adds(CHOOSE g : Is(g), h, S)
  BY <1>2, <1>4
<1>6. (CHOOSE g : Is(g))[S] = Total(h, S)
  BY <1>5, TotalIs
<1>7. QED BY <1>1, <1>6 DEF h

(* The slots of each request, and the requests that are on a GPU.          *)
Load(slots, w) == [k \in DOMAIN w |-> slots[w[k]]]

OnGpu(p, g) == {k \in DOMAIN p : p[k] = g}

LEMMA OnGpuFinite ==
  ASSUME NEW p \in Seq(Nat), NEW g
  PROVE  IsFiniteSet(OnGpu(p, g)) /\ OnGpu(p, g) \in SUBSET (1 .. Len(p))
<1>1. DOMAIN p = 1 .. Len(p) /\ Len(p) \in Nat
  OBVIOUS
<1>2. OnGpu(p, g) \in SUBSET (1 .. Len(p))
  BY <1>1 DEF OnGpu
<1>3. IsFiniteSet(1 .. Len(p))
  BY <1>1, FS_Interval
<1>4. QED BY <1>2, <1>3, FS_Subset

LEMMA UsedIs ==
  ASSUME NEW slots, NEW w \in Seq(Profiles), NEW p \in Seq(Nat), Len(p) <= Len(w), NEW g
  PROVE  MapThenSumSet(LAMBDA k : slots[w[k]], OnGpu(p, g)) = Total(Load(slots, w), OnGpu(p, g))
<1> DEFINE S == OnGpu(p, g)
           h == [k \in S |-> slots[w[k]]]
<1>1. IsFiniteSet(S) /\ S \in SUBSET (1 .. Len(p))
  BY OnGpuFinite
<1> HIDE DEF S
<1>2. MapThenSumSet(LAMBDA k : slots[w[k]], S) = Total(h, S)
  BY <1>1, UsedIsTotal
<1>3. \A k \in S : k \in DOMAIN w
  BY <1>1
<1>4. \A k \in S : h[k] = Load(slots, w)[k]
  BY <1>3 DEF Load
<1> HIDE DEF h
<1>5. Total(h, S) = Total(Load(slots, w), S)
  BY <1>1, <1>4, TotalSame
<1>6. QED BY <1>2, <1>5 DEF S

(* A request more: one GPU's load grows by it, the others' do not.         *)
LEMMA LoadGrows ==
  ASSUME NEW slots \in [Profiles -> Nat], NEW w \in Seq(Profiles), NEW p \in Seq(Nat),
         Len(p) < Len(w), NEW at \in Nat, NEW g
  PROVE  /\ Total(Load(slots, w), OnGpu(p, g)) \in Int
         /\ at = g => Total(Load(slots, w), OnGpu(Append(p, at), g))
                        = Total(Load(slots, w), OnGpu(p, g)) + slots[w[Len(p) + 1]]
         /\ at # g => Total(Load(slots, w), OnGpu(Append(p, at), g))
                        = Total(Load(slots, w), OnGpu(p, g))
<1> DEFINE h == Load(slots, w)
           q == Append(p, at)
           n == Len(p) + 1
           S == OnGpu(p, g)
<1>1. q \in Seq(Nat) /\ Len(q) = n /\ q[n] = at /\ \A k \in 1 .. Len(p) : q[k] = p[k]
  BY AppendProperties
<1>2. /\ DOMAIN p = 1 .. Len(p) /\ DOMAIN q = 1 .. n /\ Len(p) \in Nat /\ n \in DOMAIN w
      /\ DOMAIN w = 1 .. Len(w) /\ Len(w) \in Nat
  BY <1>1
<1> HIDE DEF q
<1>3. \A k \in DOMAIN w : h[k] = slots[w[k]] /\ h[k] \in Int
  BY DEF Load
<1> HIDE DEF h
<1>4. IsFiniteSet(S) /\ S \in SUBSET (1 .. Len(p))
  BY OnGpuFinite
<1>5. S \in SUBSET DOMAIN w
  BY <1>2, <1>4
<1>6. Total(h, S) \in Int
  BY <1>3, <1>4, <1>5, TotalInt
<1>7. \A k : k \in 1 .. n <=> (k \in 1 .. Len(p) \/ k = n)
  BY <1>2
<1>8. CASE at = g
  <2>1. OnGpu(q, g) = S \cup {n}
    BY <1>1, <1>2, <1>7, <1>8 DEF OnGpu
  <2>2. n \notin S
    BY <1>2, <1>4
  <2>3. IsFiniteSet(S \cup {n}) /\ (S \cup {n}) \ {n} = S
    BY <1>4, <2>2, FS_AddElement
  <2>4. \A k \in S \cup {n} : h[k] \in Int
    BY <1>2, <1>3, <1>5
  <2>5. Total(h, S \cup {n}) = h[n] + Total(h, (S \cup {n}) \ {n})
    BY <2>3, <2>4, TotalAdd
  <2>6. h[n] = slots[w[n]] /\ h[n] \in Int
    BY <1>2, <1>3
  <2>7. Total(h, OnGpu(q, g)) = h[n] + Total(h, S)
    BY <2>1, <2>3, <2>5, Zenon
  <2> HIDE DEF n, S
  <2>9. Total(h, OnGpu(q, g)) = Total(h, S) + slots[w[n]]
    BY <1>6, <2>6, <2>7
  <2>8. QED BY <1>6, <1>8, <2>9 DEF h, q, n, S
<1>9. CASE at # g
  <2>1. OnGpu(q, g) = S
    BY <1>1, <1>2, <1>7, <1>9 DEF OnGpu
  <2>2. QED BY <1>6, <1>9, <2>1 DEF h, q
<1>10. QED BY <1>8, <1>9

-----------------------------------------------------------------------------
LEMMA SlotsTyped ==
  /\ ComputeSlots \in [Profiles -> Nat] /\ MemorySlots \in [Profiles -> Nat]
BY DEF ComputeSlots, MemorySlots, Profiles

MigBudget(slots, left, w, p, total) ==
  \A g \in DOMAIN left : Total(Load(slots, w), OnGpu(p, g)) + left[g] = total

LEMMA BudgetKept ==
  ASSUME NEW slots \in [Profiles -> Nat], NEW w \in Seq(Profiles), NEW p \in Seq(Nat),
         Len(p) < Len(w), NEW G, NEW left \in [G -> Nat], NEW total \in Nat,
         MigBudget(slots, left, w, p, total), NEW at \in Nat
  PROVE  /\ at \notin G => MigBudget(slots, left, w, Append(p, at), total)
         /\ at \in G =>
              MigBudget(slots, [left EXCEPT ![at] = @ - slots[w[Len(p) + 1]]], w, Append(p, at), total)
<1> DEFINE T(q, g) == Total(Load(slots, w), OnGpu(q, g))
           q == Append(p, at)
           c == slots[w[Len(p) + 1]]
<1>1. c \in Nat
  BY w[Len(p) + 1] \in Profiles
<1>2. ASSUME NEW g \in G
      PROVE  /\ T(p, g) \in Int /\ left[g] \in Nat /\ T(p, g) + left[g] = total
             /\ at = g => T(q, g) = T(p, g) + c
             /\ at # g => T(q, g) = T(p, g)
  <2>1. T(p, g) \in Int
    BY LoadGrows
  <2>2. at = g => T(q, g) = T(p, g) + c
    BY LoadGrows
  <2>3. at # g => T(q, g) = T(p, g)
    BY LoadGrows
  <2>4. T(p, g) + left[g] = total /\ left[g] \in Nat
    BY DEF MigBudget
  <2>5. QED BY <2>1, <2>2, <2>3, <2>4
<1> HIDE DEF T, q, c
<1>3. ASSUME at \notin G PROVE \A g \in G : T(q, g) + left[g] = total
  BY <1>2, <1>3
<1>4. ASSUME at \in G PROVE \A g \in G : T(q, g) + [left EXCEPT ![at] = @ - c][g] = total
  <2>1. \A g \in G : [left EXCEPT ![at] = @ - c][g] = IF g = at THEN left[g] - c ELSE left[g]
    OBVIOUS
  <2>2. ASSUME NEW g \in G PROVE T(q, g) + [left EXCEPT ![at] = @ - c][g] = total
    BY <1>1, <1>2, <2>1
  <2>3. QED BY <2>2
<1>5. QED BY <1>3, <1>4 DEF MigBudget, T, q, c
MigStock ==
  /\ MigBudget(ComputeSlots, remainingCompute, wanted, placed, COMPUTE_SLOTS_TOTAL)
  /\ MigBudget(MemorySlots, remainingMemory, wanted, placed, MEMORY_SLOTS_TOTAL)

LEMMA MigStockStart ==
  ASSUME MigTyped, MigInit
  PROVE  MigStock
<1>1. \A g : OnGpu(placed, g) = {}
  BY DEF MigInit, OnGpu
<1>2. \A h : Total(h, {}) = 0
  <2>1. IsFiniteSet({})
    BY FS_EmptySet
  <2>2. QED BY <2>1, TotalSteps
<1>3. /\ remainingCompute = [g \in PoolGpus |-> COMPUTE_SLOTS_TOTAL]
      /\ remainingMemory = [g \in PoolGpus |-> MEMORY_SLOTS_TOTAL]
  BY DEF MigInit
<1>4. COMPUTE_SLOTS_TOTAL \in Nat /\ MEMORY_SLOTS_TOTAL \in Nat
  BY DEF COMPUTE_SLOTS_TOTAL, MEMORY_SLOTS_TOTAL
<1>5. QED BY <1>1, <1>2, <1>3, <1>4 DEF MigStock, MigBudget

LEMMA MigStockStep ==
  ASSUME MigTyped, MigStock, [MigNext]_migVars
  PROVE  MigStock'
<1>1. CASE UNCHANGED migVars
  BY <1>1 DEF migVars, MigStock, MigBudget
<1>2. /\ ComputeSlots \in [Profiles -> Nat] /\ MemorySlots \in [Profiles -> Nat]
      /\ COMPUTE_SLOTS_TOTAL \in Nat /\ MEMORY_SLOTS_TOTAL \in Nat
  BY SlotsTyped DEF COMPUTE_SLOTS_TOTAL, MEMORY_SLOTS_TOTAL
<1>3. /\ wanted \in Seq(Profiles) /\ placed \in Seq(Nat)
      /\ remainingCompute \in [PoolGpus -> Nat] /\ remainingMemory \in [PoolGpus -> Nat]
  BY DEF MigTyped
<1>4. CASE LeaveUnplaced
  <2>1. /\ Len(placed) < Len(wanted) /\ placed' = Append(placed, NoGpu)
        /\ UNCHANGED <<wanted, remainingCompute, remainingMemory>>
    BY <1>4 DEF LeaveUnplaced
  <2>2. NoGpu \in Nat /\ NoGpu \notin PoolGpus
    BY DEF NoGpu, PoolGpus
  <2>3. MigBudget(ComputeSlots, remainingCompute, wanted, Append(placed, NoGpu), COMPUTE_SLOTS_TOTAL)
    BY <1>2, <1>3, <2>1, <2>2, BudgetKept DEF MigStock
  <2>4. MigBudget(MemorySlots, remainingMemory, wanted, Append(placed, NoGpu), MEMORY_SLOTS_TOTAL)
    BY <1>2, <1>3, <2>1, <2>2, BudgetKept DEF MigStock
  <2>5. QED BY <2>1, <2>3, <2>4 DEF MigStock
<1>5. ASSUME NEW g \in PoolGpus, Place(g) PROVE MigStock'
  <2>1. /\ Len(placed) < Len(wanted) /\ placed' = Append(placed, g) /\ wanted' = wanted
        /\ remainingCompute' = [remainingCompute EXCEPT ![g] = @ - ComputeSlots[wanted[Len(placed) + 1]]]
        /\ remainingMemory' = [remainingMemory EXCEPT ![g] = @ - MemorySlots[wanted[Len(placed) + 1]]]
    BY <1>5 DEF Place, Profile
  <2>2. g \in Nat
    BY DEF PoolGpus, MigTyped
  <2>3. MigBudget(ComputeSlots,
                  [remainingCompute EXCEPT ![g] = @ - ComputeSlots[wanted[Len(placed) + 1]]],
                  wanted, Append(placed, g), COMPUTE_SLOTS_TOTAL)
    BY <1>2, <1>3, <2>1, <2>2, BudgetKept DEF MigStock
  <2>4. MigBudget(MemorySlots,
                  [remainingMemory EXCEPT ![g] = @ - MemorySlots[wanted[Len(placed) + 1]]],
                  wanted, Append(placed, g), MEMORY_SLOTS_TOTAL)
    BY <1>2, <1>3, <2>1, <2>2, BudgetKept DEF MigStock
  <2>5. QED BY <2>1, <2>3, <2>4 DEF MigStock
<1>6. QED BY <1>1, <1>4, <1>5 DEF MigNext

LEMMA StockIsBudget ==
  ASSUME MigTyped, MigStock
  PROVE  BudgetsHold
<1>1. /\ wanted \in Seq(Profiles) /\ placed \in Seq(Nat) /\ Len(placed) <= Len(wanted)
      /\ remainingCompute \in [PoolGpus -> Nat] /\ remainingMemory \in [PoolGpus -> Nat]
  BY DEF MigTyped
<1>2. \A g : On(g) = OnGpu(placed, g)
  BY DEF On, OnGpu
<1>3. ASSUME NEW slots, NEW g
      PROVE  Used(slots, g) = Total(Load(slots, wanted), OnGpu(placed, g))
  <2>1. Used(slots, g) = MapThenSumSet(LAMBDA k : slots[wanted[k]], OnGpu(placed, g))
    BY <1>2 DEF Used
  <2>2. QED BY <1>1, <2>1, UsedIs
<1>4. QED BY <1>1, <1>3 DEF MigStock, MigBudget, BudgetsHold

(* For any pool and any list of requests, the packing is a first fit of    *)
(* legal loads: no GPU is ever overfilled (mig.py:19-23, 126-149).         *)
THEOREM MigPacks == MigSpec => []PackingIsFirstFit
<1>1. MigInit => MigInv
  BY MigStart
<1>2. MigInv /\ [MigNext]_migVars => MigInv'
  BY MigStep
<1>3. MigInit => MigStock
  BY MigStart, MigStockStart DEF MigInv
<1>4. MigInv /\ MigStock /\ [MigNext]_migVars => MigStock'
  BY MigStockStep DEF MigInv
<1>5. MigInv /\ MigStock => PackingIsFirstFit
  BY StockIsBudget DEF MigInv, PackingIsFirstFit
<1>6. QED BY <1>1, <1>2, <1>3, <1>4, <1>5, PTL DEF MigSpec
=============================================================================
