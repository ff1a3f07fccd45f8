-------------------------------- MODULE Best --------------------------------
(***************************************************************************)
(* How the two comparisons (ComparePanel.tsx, GpuComparePanel.tsx) find    *)
(* the column to highlight in a row, and scale a row for the radar chart.  *)
(* An entry has the id of its column and a figure, or None (null).         *)
(***************************************************************************)
EXTENDS Integers, FiniteSets, SequencesExt

CONSTANT None

Better(a, b, lowerBetter) == IF lowerBetter THEN a < b ELSE a > b

(* The members of s that are in S, in their order.                         *)
Among(s, S) == FoldLeft(LAMBDA kept, x : IF x \in S THEN Append(kept, x) ELSE kept, <<>>, s)

Valid(entries) == Among(entries, {e \in Range(entries) : e.raw # None})

(* Mutant: the comparison does not ask which way is better.                *)
BestId_AlwaysHigher(entries, lowerBetter) ==
  LET valid == Valid(entries)
      best == FoldLeft(LAMBDA b, e : IF e.raw > b.raw THEN e ELSE b, valid[1], valid)
  IN  IF Len(valid) < 2 \/ (\A i \in DOMAIN valid : valid[i].raw = best.raw) THEN None ELSE best.id

BestId(entries, lowerBetter) ==
  LET valid == Valid(entries)
      best == FoldLeft(LAMBDA b, e : IF Better(e.raw, b.raw, lowerBetter) THEN e ELSE b, valid[1], valid)
  IN  IF Len(valid) < 2 \/ (\A i \in DOMAIN valid : valid[i].raw = best.raw) THEN None ELSE best.id

(* From 20 to 100, in whole numbers.  Equal figures are all at the rim, or *)
(* all inside if lower is better.                                          *)
Normalized(entries, lowerBetter) ==
  LET valid == Valid(entries)
      raws == {valid[i].raw : i \in DOMAIN valid}
      scaled(v) == IF Min(raws) = Max(raws) THEN 80
                   ELSE (80 * (v - Min(raws))) \div (Max(raws) - Min(raws))
  IN  [id \in {valid[i].id : i \in DOMAIN valid} |->
         LET t == scaled(valid[CHOOSE i \in DOMAIN valid : valid[i].id = id].raw)
         IN  20 + (IF lowerBetter THEN 80 - t ELSE t)]
=============================================================================
