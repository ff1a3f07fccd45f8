-------------------------------- MODULE Panels --------------------------------
(***************************************************************************)
(* The panels that keep their result themselves and fetch it in an effect: *)
(* inference, throughput and parallelism curves, speculative decoding,     *)
(* spot pricing, the recommender, the list of an AI provider's models, and *)
(* a run's economics.                                                      *)
(* A panel is the effect of Fetch with a few differences, which its policy *)
(* names; `panel' says which of them a behaviour follows.                  *)
(***************************************************************************)
EXTENDS Integers, Sequences, Fetch

CONSTANT MaxInFlight  \* bound: requests in flight when the inputs change

ASSUME PanelsAssumption == MaxInFlight \in Nat

VARIABLES
  panel,
  ready,    \* the panel has what it needs to ask: its GPU, its provider, ...
  fetch,
  chosen,   \* of the list of models: whose model is in the field
  nlAsks    \* of the recommender: requests in plain English on their way

panelVars == <<panel, ready, fetch, chosen, nlAsks>>

(***************************************************************************)
(* What the effect does when it cannot ask (does the result go?), when it  *)
(* asks (what goes?), when the answer comes (does an error go?), and when  *)
(* the request fails (does the result go?); whether it asks again though   *)
(* its inputs are the same (the page renders, and its topology is an       *)
(* object made anew each time; or every few seconds); and whether the      *)
(* requests of other inputs are cancelled.                                 *)
(***************************************************************************)
Plain == [idleClears |-> FALSE, askClears |-> {"error"}, answerClears |-> FALSE,
          failClears |-> FALSE, asksAgain |-> FALSE, cancels |-> FALSE]

InferencePanel == Plain

(* Ten requests, of which the first to fail fails them all.                *)
ThroughputCurvePanel == Plain

(* Four requests, of which those that fail are left out; all of them must. *)
ParallelismCurvePanel == [Plain EXCEPT !.failClears = TRUE, !.asksAgain = TRUE]

SpeculativeDecodingPanel == Plain

(* Mutant: a success leaves the error of the request before.               *)
SpotPricingSection_KeepsError == [Plain EXCEPT !.idleClears = TRUE, !.askClears = {}]

SpotPricingSection == [Plain EXCEPT !.idleClears = TRUE, !.askClears = {}, !.answerClears = TRUE]

RecommenderPanel == Plain

AiModelSelect == [Plain EXCEPT !.idleClears = TRUE, !.askClears = {"shown", "error"}]

(* Its error, once there, is shown above whatever comes later.             *)
CostDashboardPanel == [Plain EXCEPT !.idleClears = TRUE, !.askClears = {}, !.asksAgain = TRUE, !.cancels = TRUE]

PanelNames == {"economics", "inference", "throughput", "parallelism", "speculative", "spot", "recommender", "models"}

Policy ==
  CASE panel = "inference" -> InferencePanel
    [] panel = "throughput" -> ThroughputCurvePanel
    [] panel = "parallelism" -> ParallelismCurvePanel
    [] panel = "speculative" -> SpeculativeDecodingPanel
    [] panel = "spot" -> SpotPricingSection
    [] panel = "recommender" -> RecommenderPanel
    [] panel = "models" -> AiModelSelect
    [] panel = "economics" -> CostDashboardPanel

(* The recommender and the parallelism curve need nothing of the page.     *)
AlwaysReady == panel \in {"recommender", "parallelism"}

-----------------------------------------------------------------------------
Effect(f, isReady) ==
  IF isReady
  THEN [Ask(f) EXCEPT !.shown = IF "shown" \in Policy.askClears THEN "nothing" ELSE @,
                      !.error = IF "error" \in Policy.askClears THEN @ ELSE f.error]
  ELSE [f EXCEPT !.shown = IF Policy.idleClears THEN "nothing" ELSE @]

(* Of other inputs, the requests in flight are of those before.            *)
Left == IF Policy.cancels THEN [Outdated(fetch) EXCEPT !.pending = <<>>] ELSE Outdated(fetch)

ChangeInputs ==
  /\ Len(fetch.pending) < MaxInFlight
  /\ fetch' = Effect(Left, ready)
  /\ chosen' = Aged(chosen)
  /\ UNCHANGED <<panel, ready, nlAsks>>

(* The GPU becomes known or unknown, the toggle is switched, a provider is *)
(* chosen or the choice undone, the first run starts or the last one is    *)
(* evicted: what is needed is there, or not any more.                      *)
ChangeReady ==
  /\ ~AlwaysReady /\ Len(fetch.pending) < MaxInFlight
  /\ ready' = ~ready
  /\ fetch' = Effect(Left, ready')
  /\ chosen' = Aged(chosen)
  /\ UNCHANGED <<panel, nlAsks>>

(* The page renders for a reason of its own, or it is time to poll.        *)
AsksAgain ==
  /\ Policy.asksAgain /\ ready /\ Len(fetch.pending) < MaxInFlight
  /\ fetch' = Effect(fetch, ready)
  /\ UNCHANGED <<panel, ready, chosen, nlAsks>>

PanelAnswer(i) ==
  /\ fetch' = [Answered(fetch, i) EXCEPT !.error = IF Policy.answerClears THEN "nothing" ELSE @]
  /\ chosen' = IF panel = "models" THEN fetch.pending[i] ELSE chosen
  /\ UNCHANGED <<panel, ready, nlAsks>>

(* A provider without models: the field is one to type in.                 *)
NoModels(i) ==
  /\ panel = "models"
  /\ fetch' = [Answered(fetch, i) EXCEPT !.shown = "nothing"]
  /\ UNCHANGED <<panel, ready, chosen, nlAsks>>

PanelFailure(i) ==
  /\ fetch' = [Broken(fetch, i) EXCEPT !.shown = IF Policy.failClears THEN "nothing" ELSE @]
  /\ UNCHANGED <<panel, ready, chosen, nlAsks>>

(* Another tab is opened, or the cost beside the spot prices fails, and    *)
(* the panel comes back: what is still in flight changes nothing any more. *)
Remount ==
  /\ fetch' = Effect(Nothing, ready)
  /\ chosen' = "nothing" /\ nlAsks' = 0
  /\ UNCHANGED <<panel, ready>>

-----------------------------------------------------------------------------
(* Typed while there is no list, or picked from the list that is shown.    *)
ChooseModel ==
  /\ panel = "models"
  /\ chosen' = IF fetch.shown = "nothing" THEN "now" ELSE fetch.shown
  /\ UNCHANGED <<panel, ready, fetch, nlAsks>>

(* The recommender's other request, whose answer takes the same place.     *)
(* The button is disabled while one is on its way; the Enter key is not.   *)
AskNl ==
  /\ panel = "recommender" /\ nlAsks < MaxInFlight
  /\ nlAsks' = nlAsks + 1
  /\ UNCHANGED <<panel, ready, fetch, chosen>>

NlAnswer ==
  /\ nlAsks > 0 /\ nlAsks' = nlAsks - 1
  /\ fetch' = [fetch EXCEPT !.shown = "other"]
  /\ UNCHANGED <<panel, ready, chosen>>

NlFailure ==
  /\ nlAsks > 0 /\ nlAsks' = nlAsks - 1
  /\ UNCHANGED <<panel, ready, fetch, chosen>>

-----------------------------------------------------------------------------
PanelsInit ==
  /\ panel \in PanelNames
  /\ ready \in (IF AlwaysReady THEN {TRUE} ELSE BOOLEAN)
  /\ fetch = Effect(Nothing, ready)
  /\ chosen = "nothing" /\ nlAsks = 0

PanelsNext ==
  \/ ChangeInputs \/ ChangeReady \/ AsksAgain
  \/ \E i \in DOMAIN fetch.pending : PanelAnswer(i) \/ NoModels(i) \/ PanelFailure(i)
  \/ Remount \/ ChooseModel \/ AskNl \/ NlAnswer \/ NlFailure

PanelsSpec == PanelsInit /\ [][PanelsNext]_panelVars

-----------------------------------------------------------------------------
(* Once nothing is in flight, and unless answers crossed, a panel that can *)
(* ask shows the answer or the error of its inputs as they are, and no     *)
(* error of inputs it has left behind; the recommender may show what was   *)
(* asked for in plain English instead, and the economics stay below an     *)
(* earlier error.  The model that is chosen is one of the provider whose   *)
(* list is shown (AiModelSelect.tsx:8-11, 32-35,                           *)
(* SpotPricingSection.tsx:48-52, RecommenderPanel.tsx:52, 80).             *)
PanelShowsCurrent ==
  InOrder(fetch) /\ ready =>
    /\ \/ Visible(fetch) = "now"
       \/ panel = "recommender" /\ Visible(fetch) = "other"
       \/ panel = "models" /\ Visible(fetch) = "nothing"
       \/ panel = "economics" /\ (fetch.shown = "now" \/ fetch.error = "now")
    /\ panel = "models" /\ fetch.shown = "now" => chosen = "now"
=============================================================================
