-------------------------------- MODULE MCWeb --------------------------------
(***************************************************************************)
(* The parts of the web page that share nothing but the form, one at a     *)
(* time: `part' says which of them moves.                                  *)
(***************************************************************************)
EXTENDS Page, Panels, CompareModels, GpuCompare, Desk, Serving, Stream

VARIABLE part

vars == <<part, pageVars, panelVars, compareVars, gpuCompareVars, deskVars, servingVars, streamVars>>

(* A part that does not move stays as this.                                *)
PageRests ==
  /\ watched = "vram" /\ tab = "training" /\ catalogue = "loading" /\ gpuId = DefaultGpu
  /\ model = DefaultModel /\ shape = "nvlink_node" /\ view = Ask(Nothing)

PanelsRest == panel = "inference" /\ ready = FALSE /\ fetch = Nothing /\ chosen = "nothing" /\ nlAsks = 0

CompareRests ==
  /\ gpuKnown = FALSE /\ slots = {1, 2} /\ nextSlotId = 3
  /\ results = <<>> /\ requests = {}

GpuCompareRests ==
  /\ gpus = <<>> /\ gpuSlots = <<>> /\ nextGpuSlot = 3 /\ bestOnly = TRUE
  /\ row = [figure |-> CHOOSE f \in Figures : TRUE, lowerBetter |-> TRUE]

DeskRests ==
  /\ desk = "scheduler" /\ choosable = "awaited" /\ choice = FALSE /\ rows = 2
  /\ sample = FALSE /\ loads = 0 /\ run = Nothing /\ edited = TRUE

StreamRests ==
  /\ reader = "chat" /\ script = <<>> /\ read = 0 /\ buffer = <<>> /\ open = FALSE
  /\ status = "idle" /\ generated = 0 /\ words = 0 /\ failed = FALSE

WebInit ==
  /\ part \in {"page", "panels", "compare", "gpus", "desk", "serving", "stream"}
  /\ IF part = "page" THEN PageInit ELSE PageRests
  /\ IF part = "panels" THEN PanelsInit ELSE PanelsRest
  /\ IF part = "compare" THEN CompareInit ELSE CompareRests
  /\ IF part = "gpus" THEN GpuCompareInit ELSE GpuCompareRests
  /\ IF part = "desk" THEN DeskInit ELSE DeskRests
  /\ ServingInit
  /\ IF part = "stream" THEN StreamInit ELSE StreamRests

WebNext ==
  /\ UNCHANGED part
  /\ \/ part = "page" /\ PageNext
     \/ part # "page" /\ UNCHANGED pageVars
  /\ \/ part = "panels" /\ PanelsNext
     \/ part # "panels" /\ UNCHANGED panelVars
  /\ \/ part = "compare" /\ CompareNext
     \/ part # "compare" /\ UNCHANGED compareVars
  /\ \/ part = "gpus" /\ GpuCompareNext
     \/ part # "gpus" /\ UNCHANGED gpuCompareVars
  /\ \/ part = "desk" /\ DeskNext
     \/ part # "desk" /\ UNCHANGED deskVars
  /\ \/ part = "serving" /\ ServingNext
     \/ part # "serving" /\ UNCHANGED servingVars
  /\ \/ part = "stream" /\ StreamNext
     \/ part # "stream" /\ UNCHANGED streamVars

WebSpec == WebInit /\ [][WebNext]_vars

MCCatalogue == <<"g1", "g2", "g3">>
MCFigures == {("g1" :> 1) @@ ("g2" :> 2) @@ ("g3" :> None), ("g1" :> 3) @@ ("g2" :> 1) @@ ("g3" :> 2),
              ("g1" :> 1) @@ ("g2" :> 1) @@ ("g3" :> 1)}
=============================================================================
