------------------------------ MODULE GpuCompare ------------------------------
(***************************************************************************)
(* The comparison of GPUs (components/GpuComparePanel.tsx).  Which GPUs    *)
(* the columns show is computed in each render from the slots' gpuIds: the *)
(* GPUs that are found, one after the other, so that a slot whose GPU is   *)
(* not in the catalogue shifts the columns after it.                       *)
(***************************************************************************)
EXTENDS Integers, Sequences, FiniteSets, Best

CONSTANTS
  MAX_GPUS,    \* MAX_SLOTS
  MaxGpuSlot,  \* bound: slots that are made
  Catalogue,   \* GPU ids, in the catalogue's order
  Figures      \* of a row: for each GPU a number, or None

ASSUME GpuCompareAssumption ==
  /\ MAX_GPUS \in Nat /\ MaxGpuSlot \in Nat /\ Catalogue \in Seq(Range(Catalogue))
  /\ \A f \in Figures, i \in DOMAIN Catalogue : f[Catalogue[i]] \in {None} \cup Int

VARIABLES
  gpus,        \* the catalogue: none until it has arrived
  gpuSlots,
  nextGpuSlot,
  row,         \* a row of SECTIONS: its figures, and which way is better
  bestOnly     \* highlightBest

gpuCompareVars == <<gpus, gpuSlots, nextGpuSlot, row, bestOnly>>

Slot == [id : Nat, gpuId : Range(Catalogue) \cup {None}]

Row == [figure : Figures, lowerBetter : BOOLEAN]

GpuAt(i) == IF i \in DOMAIN gpus THEN gpus[i] ELSE IF gpus # <<>> THEN gpus[1] ELSE None

InCatalogue(g) == g \in Range(gpus)

(* The GPUs of the columns, from left to right.                            *)
slotGpus == Among([i \in DOMAIN gpuSlots |-> gpuSlots[i].gpuId], Range(gpus))

Entries == [i \in DOMAIN gpuSlots |->
              [id |-> gpuSlots[i].id,
               raw |-> IF i \in DOMAIN slotGpus THEN row.figure[slotGpus[i]] ELSE None]]

(* What a column's bar or cell shows, by its place.                        *)
Displayed(i) == IF i \in DOMAIN slotGpus THEN row.figure[slotGpus[i]] ELSE None

Highlighted == IF bestOnly THEN BestId(Entries, row.lowerBetter) ELSE None

Radar == Normalized(Entries, row.lowerBetter)

-----------------------------------------------------------------------------
GpusArrive ==
  /\ gpus = <<>> /\ gpus' = Catalogue
  /\ UNCHANGED <<gpuSlots, nextGpuSlot, row, bestOnly>>

(* The first GPU that no column has, or else the first one.                *)
AddGpu ==
  /\ Len(gpuSlots) < MAX_GPUS /\ nextGpuSlot <= MaxGpuSlot
  /\ LET unused == Among(gpus, Range(gpus) \ {gpuSlots[i].gpuId : i \in DOMAIN gpuSlots})
     IN  gpuSlots' = Append(gpuSlots, [id |-> nextGpuSlot,
                                       gpuId |-> IF unused # <<>> THEN unused[1] ELSE GpuAt(1)])
  /\ nextGpuSlot' = nextGpuSlot + 1
  /\ UNCHANGED <<gpus, row, bestOnly>>

RemoveGpu(i) ==
  /\ Len(gpuSlots) > 1
  /\ gpuSlots' = SubSeq(gpuSlots, 1, i - 1) \o SubSeq(gpuSlots, i + 1, Len(gpuSlots))
  /\ UNCHANGED <<gpus, nextGpuSlot, row, bestOnly>>

UpdateGpu(i, g) ==
  /\ InCatalogue(g)
  /\ gpuSlots' = [gpuSlots EXCEPT ![i].gpuId = g]
  /\ UNCHANGED <<gpus, nextGpuSlot, row, bestOnly>>

ToggleHighlight ==
  /\ bestOnly' = ~bestOnly
  /\ UNCHANGED <<gpus, gpuSlots, nextGpuSlot, row>>

-----------------------------------------------------------------------------
GpuCompareInit ==
  /\ gpus \in {<<>>, Catalogue}
  /\ gpuSlots = <<[id |-> 1, gpuId |-> GpuAt(1)], [id |-> 2, gpuId |-> GpuAt(2)]>>
  /\ nextGpuSlot = 3
  /\ row \in Row
  /\ bestOnly = TRUE

GpuCompareNext ==
  \/ GpusArrive \/ AddGpu \/ ToggleHighlight
  \/ \E i \in DOMAIN gpuSlots :
       RemoveGpu(i) \/ \E k \in DOMAIN gpus : UpdateGpu(i, gpus[k])

GpuCompareSpec == GpuCompareInit /\ [][GpuCompareNext]_gpuCompareVars

-----------------------------------------------------------------------------
(* If columns show different figures, the highlighted one is a column than *)
(* which no other shows a better figure, and it reaches the rim of the     *)
(* chart; otherwise none is (GpuComparePanel.tsx:209-221, 240-258,         *)
(* 387-394; ComparePanel.tsx:151-164, 310-325).                            *)
BestIsDisplayed ==
  LET shown == {i \in DOMAIN gpuSlots : Displayed(i) # None}
      noBetter(i) == \A j \in shown : ~Better(Displayed(j), Displayed(i), row.lowerBetter)
  IN  IF \E i, j \in shown : Displayed(i) # Displayed(j)
      THEN bestOnly => \E i \in shown : gpuSlots[i].id = Highlighted /\ noBetter(i) /\ Radar[Highlighted] = 100
      ELSE Highlighted = None

(* What the chart's comment says (GpuComparePanel.tsx:100-102): one bar    *)
(* for each selected GPU, in the column's colour.                          *)
OneBarPerGpu ==
  \A i \in DOMAIN gpuSlots :
    InCatalogue(gpuSlots[i].gpuId) => i \in DOMAIN slotGpus /\ slotGpus[i] = gpuSlots[i].gpuId
=============================================================================
