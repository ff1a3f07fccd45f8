------------------------------ MODULE MigPacking ------------------------------
(***************************************************************************)
(* MIG packing (engine/mig.py): slices of GPUs are requested one after the *)
(* other, and each goes to the first GPU of the pool that has room for it. *)
(* One step is one turn of the loop.  The names, tenants and gigabytes of  *)
(* a request only label the answer; a request is the profile it asks for.  *)
(***************************************************************************)
EXTENDS Integers, Sequences, FiniteSetsExt

CONSTANTS
  PoolSizes,   \* sizes of the pool that are tried
  Wanted       \* lists of profiles that are requested

COMPUTE_SLOTS_TOTAL == 7
MEMORY_SLOTS_TOTAL  == 8

(* The ladder is the same on every GPU that has one.                       *)
Profiles == {"1g", "2g", "3g", "4g", "7g"}

ComputeSlots ==
  [p \in Profiles |-> CASE p = "1g" -> 1 [] p = "2g" -> 2 [] p = "3g" -> 3 [] p = "4g" -> 4 [] OTHER -> 7]
MemorySlots ==
  [p \in Profiles |-> CASE p = "1g" -> 1 [] p = "2g" -> 2 [] p \in {"3g", "4g"} -> 4 [] OTHER -> 8]

ASSUME MigAssumption == PoolSizes \subseteq Nat \ {0} /\ Wanted \subseteq Seq(Profiles)

NoGpu == 0

VARIABLES
  poolSize,
  wanted,            \* requests
  remainingCompute,
  remainingMemory,
  placed             \* the GPU of each request handled, or NoGpu: placements and unplaced

migVars == <<poolSize, wanted, remainingCompute, remainingMemory, placed>>

PoolGpus == 1 .. poolSize

(* Mutant: memory is not looked at.                                        *)
HasRoom_ComputeOnly(g, p) == remainingCompute[g] >= ComputeSlots[p]

HasRoom(g, p) == remainingCompute[g] >= ComputeSlots[p] /\ remainingMemory[g] >= MemorySlots[p]

Profile == wanted[Len(placed) + 1]

-----------------------------------------------------------------------------
Place(g) ==
  /\ Len(placed) < Len(wanted)
  /\ HasRoom(g, Profile) /\ \A h \in 1 .. g - 1 : ~HasRoom(h, Profile)
  /\ remainingCompute' = [remainingCompute EXCEPT ![g] = @ - ComputeSlots[Profile]]
  /\ remainingMemory' = [remainingMemory EXCEPT ![g] = @ - MemorySlots[Profile]]
  /\ placed' = Append(placed, g)
  /\ UNCHANGED <<poolSize, wanted>>

LeaveUnplaced ==
  /\ Len(placed) < Len(wanted)
  /\ \A g \in PoolGpus : ~HasRoom(g, Profile)
  /\ placed' = Append(placed, NoGpu)
  /\ UNCHANGED <<poolSize, wanted, remainingCompute, remainingMemory>>

MigInit ==
  /\ poolSize \in PoolSizes
  /\ wanted \in Wanted
  /\ remainingCompute = [g \in PoolGpus |-> COMPUTE_SLOTS_TOTAL]
  /\ remainingMemory = [g \in PoolGpus |-> MEMORY_SLOTS_TOTAL]
  /\ placed = <<>>

MigNext == (\E g \in PoolGpus : Place(g)) \/ LeaveUnplaced

MigSpec == MigInit /\ [][MigNext]_migVars

-----------------------------------------------------------------------------
On(g) == {k \in DOMAIN placed : placed[k] = g}
Used(slots, g) == MapThenSumSet(LAMBDA k : slots[wanted[k]], On(g))

(* No GPU holds more slices than its slots, of either kind: what is left   *)
(* is what the placements on it do not take (mig.py:128-136).              *)
BudgetsHold ==
  \A g \in PoolGpus :
    /\ Used(ComputeSlots, g) + remainingCompute[g] = COMPUTE_SLOTS_TOTAL /\ remainingCompute[g] >= 0
    /\ Used(MemorySlots, g) + remainingMemory[g] = MEMORY_SLOTS_TOTAL /\ remainingMemory[g] >= 0

(* A request is never passed over: no GPU before the one it is on has room *)
(* for it even when all requests are handled, and no GPU at all has room   *)
(* for one that is left unplaced (mig.py:131-149).                         *)
NothingFitsEarlier ==
  \A k \in DOMAIN placed : \A g \in PoolGpus :
    (placed[k] = NoGpu \/ g < placed[k]) => ~HasRoom(g, wanted[k])

(* The packing is a first fit of legal loads: what greedy packing promises *)
(* (mig.py:19-23).                                                         *)
PackingIsFirstFit == BudgetsHold /\ NothingFitsEarlier
=============================================================================
