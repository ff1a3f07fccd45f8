-------------------------------- MODULE Page --------------------------------
(***************************************************************************)
(* The page (app/page.tsx), whose state is the form that the tabs share,   *)
(* with the panels that edit it (ModelPanel, GpuPicker, TopologyPanel,     *)
(* CostPanel) and its two results, VRAM and training cost.                 *)
(*                                                                         *)
(* Numbers are left out: editing one makes a request's body another.  The  *)
(* two effects differ in what they depend on; `watched' says which of them *)
(* a behaviour follows.                                                    *)
(***************************************************************************)
EXTENDS Integers, Sequences, Fetch

CONSTANTS
  Presets,     \* MODEL_PRESETS
  Gpus,        \* the GPU catalogue
  Linked,      \* those with NVLink
  DefaultGpu,
  SystemGpus,  \* the GPUs of AI_SYSTEM_PRESETS
  MaxPending   \* bound: requests in flight when the user makes a change

ASSUME PageAssumption ==
  /\ Presets # {} /\ "custom" \notin Presets
  /\ DefaultGpu \in Gpus /\ Linked \subseteq Gpus /\ SystemGpus \subseteq Gpus
  /\ MaxPending \in Nat

VARIABLES
  watched,     \* "vram" or "cost"
  tab,
  catalogue,   \* what has become of fetchGpus
  gpuId,
  model,       \* modelState
  shape,       \* topoState.shape
  view         \* vram or cost, with its loading and error

pageVars == <<watched, tab, catalogue, gpuId, model, shape, view>>

Tabs == {"training", "inference", "datacenter", "compare", "elsewhere"}
Shapes == {"single_gpu", "nvlink_node", "multi_node"}

(* `of' is the preset whose architecture the fields show, or "custom".     *)
ModelPanelState == [presetId : Presets \cup {"custom"}, of : Presets \cup {"custom"},
                    training : BOOLEAN, zeroStage : 0 .. 1, peftMethod : {"full", "lora"}]

FirstPreset == CHOOSE p \in Presets : TRUE

DefaultModel == [presetId |-> FirstPreset, of |-> FirstPreset, training |-> TRUE,
                 zeroStage |-> 0, peftMethod |-> "full"]

(* What the config of a link says of the model: nothing, a form of today,  *)
(* or one that was shared before peftMethod was a part of it.              *)
Links == {<<>>, [DefaultModel EXCEPT !.peftMethod = "lora"]} \cup
         [presetId : {FirstPreset}, of : {FirstPreset}, training : {TRUE}, zeroStage : 0 .. 1]

(* Mutant: the link's form replaces the default one.                       *)
Hydrated_Replaces(link) == IF link = <<>> THEN DefaultModel ELSE link

(* What the link says comes over the default.                              *)
Hydrated(link) ==
  [f \in DOMAIN DefaultModel |-> IF f \in DOMAIN link THEN link[f] ELSE DefaultModel[f]]

-----------------------------------------------------------------------------
(* What the body of a request says, and what its effect depends on.        *)
Reads == IF watched = "vram" THEN {"model"} ELSE {"model", "topology", "costs", "gpu"}

(* Mutant: the effect does not depend on the GPU.                          *)
Depends_NoGpu == IF watched = "vram" THEN {"model"} ELSE {"model", "topology", "costs", "catalogue"}

Depends == IF watched = "vram" THEN {"model"} ELSE {"model", "topology", "costs", "gpu", "catalogue"}

nvlinkAvailable == catalogue = "loaded" /\ gpuId \in Linked

(* The cost effect returns early for a GPU that is not in the catalogue,   *)
(* and for more than one GPU without NVLink.                               *)
Asks == \/ watched = "vram"
        \/ catalogue = "loaded" /\ (shape = "single_gpu" \/ nvlinkAvailable)

(* The effects that follow a change of these parts of the form.            *)
Rerender(parts) ==
  view' = LET f == IF parts \cap Reads = {} THEN view ELSE Outdated(view)
          IN  IF parts \cap Depends # {} /\ Asks' THEN Ask(f) ELSE f

(* The user acts while at most MaxPending requests are in flight.          *)
UserActs == Len(view.pending) < MaxPending /\ UNCHANGED watched

SelectTab(t) == tab' = t /\ UNCHANGED <<watched, catalogue, gpuId, model, shape, view>>

(* The catalogue arrives, or never: no request for it is repeated.         *)
CatalogueArrives ==
  /\ catalogue = "loading" /\ catalogue' = "loaded"
  /\ UNCHANGED <<watched, tab, gpuId, model, shape>>
  /\ Rerender({"catalogue"})

CatalogueFails ==
  /\ catalogue = "loading" /\ catalogue' = "failed"
  /\ UNCHANGED <<watched, tab, gpuId, model, shape, view>>

-----------------------------------------------------------------------------
(* ModelPanel, of the training and inference tabs.                         *)
SetModel(m) ==
  /\ UserActs /\ tab \in {"training", "inference"}
  /\ model' = m
  /\ UNCHANGED <<tab, catalogue, gpuId, shape>>
  /\ Rerender({"model"})

OnPreset(p) == SetModel([model EXCEPT !.presetId = p, !.of = p])

OnCustom == SetModel([model EXCEPT !.presetId = "custom"])

EditArchitecture == SetModel([model EXCEPT !.presetId = "custom", !.of = "custom"])

(* Precision, batch size, sequence length, optimizer, and the like.        *)
EditWorkload == SetModel(model)

ToggleTraining == SetModel([model EXCEPT !.training = ~@])

(* Mutant: sharding does not turn LoRA off.                                *)
PickZeroStage_KeepsPeft(z) == model.training /\ SetModel([model EXCEPT !.zeroStage = z])

PickZeroStage(z) ==
  /\ model.training
  /\ SetModel([model EXCEPT !.zeroStage = z, !.peftMethod = IF z > 0 THEN "full" ELSE @])

PickPeftMethod(v) ==
  /\ model.training
  /\ SetModel([model EXCEPT !.peftMethod = v, !.zeroStage = IF v # "full" THEN 0 ELSE @])

-----------------------------------------------------------------------------
(* GpuPicker, TopologyPanel and CostPanel.                                 *)

PickGpu(g) ==
  /\ UserActs /\ tab # "elsewhere" /\ catalogue = "loaded" /\ g # gpuId
  /\ gpuId' = g
  /\ UNCHANGED <<tab, catalogue, model, shape>>
  /\ Rerender({"gpu"})

(* A preset of the datacenter's scale, or the shape by itself; both are    *)
(* disabled for what needs NVLink, when the GPU has none.                  *)
PickShape(s) ==
  /\ UserActs /\ tab = "datacenter" /\ (s # "single_gpu" => nvlinkAvailable)
  /\ shape' = s
  /\ UNCHANGED <<tab, catalogue, gpuId, model>>
  /\ Rerender({"topology"})

(* An AI system is one click that chooses the GPU and the topology.        *)
PickAiSystem(g) ==
  /\ UserActs /\ tab = "datacenter" /\ catalogue = "loaded"
  /\ gpuId' = g /\ shape' = "nvlink_node"
  /\ UNCHANGED <<tab, catalogue, model>>
  /\ Rerender({"topology"} \cup (IF g = gpuId THEN {} ELSE {"gpu"}))

(* GPUs per node, number of nodes and fabric.                              *)
EditTopology ==
  /\ UserActs /\ tab = "datacenter" /\ shape # "single_gpu"
  /\ UNCHANGED <<tab, catalogue, gpuId, model, shape>>
  /\ Rerender({"topology"})

EditCosts ==
  /\ UserActs /\ tab = "training"
  /\ UNCHANGED <<tab, catalogue, gpuId, model, shape>>
  /\ Rerender({"costs"})

Answer(i) ==
  /\ view' = Answered(view, i)
  /\ UNCHANGED <<watched, tab, catalogue, gpuId, model, shape>>

Fail(i) ==
  /\ view' = Broken(view, i)
  /\ UNCHANGED <<watched, tab, catalogue, gpuId, model, shape>>

-----------------------------------------------------------------------------
(* The first effects run with the default form, and again once a link is   *)
(* read; the catalogue is not there yet.                                   *)
PageInit ==
  /\ watched \in {"vram", "cost"}
  /\ tab = "training" /\ catalogue = "loading"
  /\ \E link \in Links :
       /\ model = Hydrated(link)
       /\ gpuId \in (IF link = <<>> THEN {DefaultGpu} ELSE Gpus)
       /\ shape \in (IF link = <<>> THEN {"nvlink_node"} ELSE Shapes)
       /\ view = IF watched = "cost" THEN Nothing
                 ELSE IF link = <<>> THEN Ask(Nothing) ELSE Ask(Outdated(Ask(Nothing)))

UserStep ==
  \/ \E t \in Tabs : SelectTab(t)
  \/ \E p \in Presets : OnPreset(p)
  \/ OnCustom \/ EditArchitecture \/ EditWorkload \/ ToggleTraining
  \/ \E z \in 0 .. 1 : PickZeroStage(z)
  \/ \E v \in {"full", "lora"} : PickPeftMethod(v)
  \/ \E g \in Gpus : PickGpu(g)
  \/ \E s \in Shapes : PickShape(s)
  \/ \E g \in SystemGpus : PickAiSystem(g)
  \/ EditTopology \/ EditCosts

ApiStep ==
  \/ CatalogueArrives \/ CatalogueFails
  \/ \E i \in DOMAIN view.pending : Answer(i) \/ Fail(i)

PageNext == UserStep \/ ApiStep

PageSpec == PageInit /\ [][PageNext]_pageVars

-----------------------------------------------------------------------------
(* Whatever the order of the clicks, and whichever version made the link,  *)
(* every field of the form is there, a preset's name stands over that      *)
(* preset's architecture, and sharding and LoRA are never both on, which   *)
(* the API would refuse (page.tsx:137-147, ModelPanel.tsx:39-46, 161, 182, *)
(* src/engine/memory.py:406).                                              *)
FormIsConsistent ==
  /\ DOMAIN model = DOMAIN DefaultModel
  /\ model.presetId # "custom" => model.of = model.presetId
  /\ model.peftMethod # "full" => model.zeroStage = 0

(* Once nothing is in flight, what is shown is of the form as it is, and   *)
(* not marked as being calculated, unless answers crossed (nothing cancels *)
(* the request of the form before, page.tsx:172-230) or the cost of this   *)
(* form is not asked for at all, in which case the one before stays.       *)
QuietIsCurrent ==
  InOrder(view) /\ Asks => Visible(view) = "now" /\ ~view.loading
=============================================================================
