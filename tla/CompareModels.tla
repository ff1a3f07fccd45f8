---------------------------- MODULE CompareModels ----------------------------
(***************************************************************************)
(* The comparison of models (components/ComparePanel.tsx): a column for    *)
(* each slot, and one effect that computes all columns again when a slot   *)
(* or anything they share (GPU, topology, costs, workload) changes.  Here  *)
(* the effect before is cancelled: its answers are dropped.                *)
(*                                                                         *)
(* Of a result only its age matters, as in Fetch: whether it is of the     *)
(* slot's inputs as they are now or as they were before.                   *)
(***************************************************************************)
EXTENDS Integers, Sequences, FiniteSets, Fetch

CONSTANTS
  MAX_SLOTS,
  MaxSlotId,   \* bound: slots that are made
  MaxRequests  \* bound: requests in flight when the user makes a change

ASSUME CompareAssumption == {MAX_SLOTS, MaxSlotId, MaxRequests} \subseteq Nat

VARIABLES
  gpuKnown,    \* the catalogue is there
  slots,       \* ids of the columns
  nextSlotId,
  results,     \* of a slot that has one
  requests     \* in flight

compareVars == <<gpuKnown, slots, nextSlotId, results, requests>>

ColumnResult == [of : Ages \cup {"nothing"}, error : Ages \cup {"nothing"}, loading : BOOLEAN]

Request == [slot : Nat, age : Ages, cancelled : BOOLEAN]

NoResult == [of |-> "nothing", error |-> "nothing", loading |-> FALSE]

Columns == DOMAIN results

AgedColumn(s, changed) ==
  IF s \notin Columns THEN NoResult
  ELSE IF s \in changed THEN [results[s] EXCEPT !.of = Aged(@), !.error = Aged(@)]
  ELSE results[s]

(* The cleanup of the effect before, and the effect, which asks for every  *)
(* column; the inputs of the slots `changed' are others than they were.    *)
Recompute(changed) ==
  /\ Cardinality(requests) <= MaxRequests
  /\ results' = [s \in Columns \cup (IF gpuKnown' THEN slots' ELSE {}) |->
                   IF gpuKnown' /\ s \in slots' THEN [AgedColumn(s, changed) EXCEPT !.loading = TRUE]
                   ELSE AgedColumn(s, changed)]
  /\ requests' = {[r EXCEPT !.age = IF r.slot \in changed THEN Aged(@) ELSE @, !.cancelled = TRUE] : r \in requests}
                 \cup {[slot |-> s, age |-> "now", cancelled |-> FALSE] : s \in IF gpuKnown' THEN slots' ELSE {}}

-----------------------------------------------------------------------------
GpuArrives ==
  /\ ~gpuKnown /\ gpuKnown' = TRUE
  /\ UNCHANGED <<slots, nextSlotId>>
  /\ Recompute({})

(* Another GPU is picked above the columns; topology, costs and workload   *)
(* change on other tabs, which unmount this one.                           *)
PickSharedGpu ==
  /\ gpuKnown
  /\ UNCHANGED <<gpuKnown, slots, nextSlotId>>
  /\ Recompute(slots)

AddSlot ==
  /\ Cardinality(slots) < MAX_SLOTS /\ nextSlotId <= MaxSlotId
  /\ slots' = slots \cup {nextSlotId}
  /\ nextSlotId' = nextSlotId + 1
  /\ UNCHANGED gpuKnown
  /\ Recompute({})

RemoveSlot(s) ==
  /\ Cardinality(slots) > 1
  /\ slots' = slots \ {s}
  /\ UNCHANGED <<gpuKnown, nextSlotId>>
  /\ Recompute({})

(* A preset is picked, or a field of a custom model is edited.             *)
UpdateSlot(s) ==
  /\ UNCHANGED <<gpuKnown, slots, nextSlotId>>
  /\ Recompute({s})

(* The name of a custom model is no input, but the slot is another object. *)
RenameSlot(s) ==
  /\ UNCHANGED <<gpuKnown, slots, nextSlotId>>
  /\ Recompute({})

-----------------------------------------------------------------------------
Settle(r, column) ==
  /\ results' = IF r.cancelled THEN results
                ELSE [s \in Columns \cup {r.slot} |-> IF s = r.slot THEN column ELSE results[s]]
  /\ requests' = requests \ {r}
  /\ UNCHANGED <<gpuKnown, slots, nextSlotId>>

(* Mutant: an answer of a cancelled effect is taken as any other.          *)
ColumnAnswer_Cancelled(r) ==
  Settle([r EXCEPT !.cancelled = FALSE], [of |-> r.age, error |-> "nothing", loading |-> FALSE])

(* The three requests of a column are answered.                            *)
ColumnAnswer(r) == Settle(r, [of |-> r.age, error |-> "nothing", loading |-> FALSE])

(* One of them fails.                                                      *)
ColumnFailure(r) == Settle(r, [of |-> "nothing", error |-> r.age, loading |-> FALSE])

-----------------------------------------------------------------------------
CompareInit ==
  /\ gpuKnown \in BOOLEAN
  /\ slots = {1, 2} /\ nextSlotId = 3
  /\ results = [s \in (IF gpuKnown THEN slots ELSE {}) |-> [NoResult EXCEPT !.loading = TRUE]]
  /\ requests = {[slot |-> s, age |-> "now", cancelled |-> FALSE] : s \in Columns}

CompareNext ==
  \/ GpuArrives \/ PickSharedGpu \/ AddSlot
  \/ \E s \in slots : RemoveSlot(s) \/ UpdateSlot(s) \/ RenameSlot(s)
  \/ \E r \in requests : ColumnAnswer(r) \/ ColumnFailure(r)

CompareSpec == CompareInit /\ [][CompareNext]_compareVars

-----------------------------------------------------------------------------
(* In whatever order answers come, every column shows the figures or the   *)
(* error of its slot as it is, or waits for an answer that is on its way   *)
(* and will be taken (ComparePanel.tsx:196-285).                           *)
ColumnIsCurrent(s) ==
  IF results[s].loading
  THEN \E r \in requests : r.slot = s /\ r.age = "now" /\ ~r.cancelled
  ELSE results[s].of = "now" \/ results[s].error = "now"

ColumnsAreCurrent == gpuKnown => \A s \in slots : s \in Columns /\ ColumnIsCurrent(s)
=============================================================================
