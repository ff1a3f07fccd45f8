-------------------------------- MODULE WebProofs --------------------------------
(***************************************************************************)
(* Proofs about the web page: the form, the results that its effects       *)
(* fetch, the panels with a button, the comparisons of models and of GPUs, *)
(* the inference servers and the event streams; for any number of          *)
(* requests, columns and servers, any figures, answers in any order and    *)
(* chunks cut anywhere.                                                    *)
(***************************************************************************)
EXTENDS Page, Panels, Desk, CompareModels, GpuCompare, Serving, Stream, FiniteSetTheorems,
        SequenceTheorems, WellFoundedInduction, TLAPS

-----------------------------------------------------------------------------
(* A fetched result: what each step of an effect leaves of one, field by   *)
(* field.                                                                  *)

(* The panels with a button may show the error of another request.         *)
AnyFetch == [pending : Seq(Ages), shown : Ages \cup {"nothing", "other"},
             error : Ages \cup {"nothing", "other"}, loading : BOOLEAN, crossed : BOOLEAN]

Busy(f) == f.pending # <<>>
Newest(f) == f.pending[Len(f.pending)]

LEMMA BusyIsLong ==
  ASSUME NEW f \in AnyFetch
  PROVE  Len(f.pending) \in Nat /\ (Busy(f) <=> Len(f.pending) > 0)
<1>1. f.pending \in Seq(Ages)
  BY DEF AnyFetch
<1> QED
  BY <1>1, EmptySeq, LenProperties DEF Busy

LEMMA AskGives ==
  ASSUME NEW f \in AnyFetch
  PROVE  /\ Ask(f) \in AnyFetch /\ Busy(Ask(f)) /\ Newest(Ask(f)) = "now"
         /\ Len(Ask(f).pending) = Len(f.pending) + 1
         /\ Ask(f).shown = f.shown /\ Ask(f).error = "nothing"
         /\ Ask(f).loading /\ (Ask(f).crossed <=> f.crossed /\ Busy(f))
<1> DEFINE asked == Append(f.pending, "now")
<1>1. f.pending \in Seq(Ages) /\ "now" \in Ages
  BY DEF AnyFetch, Ages
<1>2. asked \in Seq(Ages) /\ asked # <<>> /\ Len(asked) = Len(f.pending) + 1 /\ asked[Len(asked)] = "now"
  BY <1>1, AppendProperties, LenProperties
<1> HIDE DEF asked
<1>3. Ask(f) = [f EXCEPT !.pending = asked, !.error = "nothing", !.loading = TRUE,
                         !.crossed = @ /\ f.pending # <<>>]
  BY DEF Ask, asked
<1> QED
  BY <1>2, <1>3 DEF AnyFetch, Busy, Newest

LEMMA OutdatedGives ==
  ASSUME NEW f \in AnyFetch
  PROVE  /\ Outdated(f) \in AnyFetch /\ (Busy(Outdated(f)) <=> Busy(f))
         /\ Len(Outdated(f).pending) = Len(f.pending)
         /\ Outdated(f).shown = Aged(f.shown) /\ Outdated(f).error = Aged(f.error)
         /\ Outdated(f).loading = f.loading /\ Outdated(f).crossed = f.crossed
<1> DEFINE old == [i \in DOMAIN f.pending |-> Aged(f.pending[i])]
<1>1. f.pending \in Seq(Ages)
  BY DEF AnyFetch
<1>2. DOMAIN f.pending = 1 .. Len(f.pending) /\ Len(f.pending) \in Nat
  BY <1>1, LenProperties
<1>3. ASSUME NEW i \in 1 .. Len(f.pending) PROVE Aged(f.pending[i]) \in Ages
  <2>1. f.pending[i] \in Ages
    BY <1>1, ElementOfSeq
  <2> QED
    BY <2>1 DEF Aged, Ages
<1>4. old \in [1 .. Len(f.pending) -> Ages]
  BY <1>2, <1>3
<1>5. old \in Seq(Ages) /\ Len(old) = Len(f.pending)
  BY <1>2, <1>4, IsASeq, LenProperties
<1> HIDE DEF old
<1>6. Outdated(f) = [f EXCEPT !.pending = old, !.shown = Aged(@), !.error = Aged(@)]
  BY DEF Outdated, old
<1>7. ASSUME NEW a \in Ages \cup {"nothing", "other"} PROVE Aged(a) \in Ages \cup {"nothing", "other"}
  BY DEF Aged, Ages
<1>8. Outdated(f) \in AnyFetch
  BY <1>5, <1>6, <1>7 DEF AnyFetch
<1>9. Outdated(f).pending = old
  BY <1>6 DEF AnyFetch
<1> QED
  BY <1>5, <1>6, <1>8, <1>9, BusyIsLong DEF AnyFetch

LEMMA RestIs ==
  ASSUME NEW f \in AnyFetch, NEW i \in DOMAIN f.pending
  PROVE  /\ Rest(f, i) \in Seq(Ages) /\ f.pending[i] \in Ages
         /\ Len(Rest(f, i)) = Len(f.pending) - 1
         /\ i = 1 /\ Len(f.pending) > 1 => Rest(f, i)[Len(f.pending) - 1] = Newest(f)
<1> DEFINE s == f.pending
           u == SubSeq(s, 1, i - 1)
           v == SubSeq(s, i + 1, Len(s))
<1>1. s \in Seq(Ages)
  BY DEF AnyFetch
<1>2. i \in 1 .. Len(s) /\ Len(s) \in Nat /\ i \in Nat
  BY <1>1, LenProperties
<1>3. s[i] \in Ages
  BY <1>1, <1>2, ElementOfSeq
<1> HIDE DEF s
<1>4. u \in Seq(Ages) /\ Len(u) = i - 1
  <2>1. ASSUME NEW j \in 1 .. i - 1 PROVE s[j] \in Ages
    BY <1>1, <1>2, ElementOfSeq
  <2> QED
    BY <1>1, <1>2, <2>1, SubSeqProperties
<1>5. v \in Seq(Ages) /\ Len(v) = Len(s) - i /\ \A j \in 1 .. Len(v) : v[j] = s[i + j]
  <2>1. ASSUME NEW j \in i + 1 .. Len(s) PROVE s[j] \in Ages
    BY <1>1, <1>2, ElementOfSeq
  <2> QED
    BY <1>1, <1>2, <2>1, SubSeqProperties
<1> HIDE DEF u, v
<1>6. /\ u \o v \in Seq(Ages) /\ Len(u \o v) = Len(u) + Len(v)
      /\ \A j \in 1 .. Len(u) + Len(v) : (u \o v)[j] = IF j <= Len(u) THEN u[j] ELSE v[j - Len(u)]
  BY <1>4, <1>5, ConcatProperties
<1>7. Rest(f, i) = u \o v
  BY DEF Rest, u, v, s
<1>8. ASSUME i = 1, Len(s) > 1 PROVE (u \o v)[Len(s) - 1] = s[Len(s)]
  <2>1. (u \o v)[Len(s) - 1] = v[Len(s) - 1]
    BY <1>2, <1>4, <1>5, <1>6, <1>8
  <2> QED
    BY <1>2, <1>5, <1>8, <2>1
<1>9. Len(u \o v) = Len(s) - 1
  BY <1>2, <1>4, <1>5, <1>6
<1>10. u \o v \in Seq(Ages)
  BY <1>6
<1> HIDE DEF s
<1>11. Newest(f) = s[Len(s)]
  BY DEF Newest, s
<1> QED
  BY <1>3, <1>7, <1>8, <1>9, <1>10, <1>11 DEF s

LEMMA AnsweredGives ==
  ASSUME NEW f \in AnyFetch, NEW i \in DOMAIN f.pending
  PROVE  LET g == Answered(f, i)
         IN  /\ g \in AnyFetch /\ Busy(f) /\ f.pending[i] \in Ages
             /\ Len(g.pending) = Len(f.pending) - 1
             /\ g.shown = f.pending[i] /\ g.error = f.error
             /\ ~g.loading /\ (g.crossed <=> f.crossed \/ i > 1)
             /\ ~g.crossed /\ Busy(g) => Newest(g) = Newest(f)
             /\ ~g.crossed /\ ~Busy(g) => f.pending[i] = Newest(f)
<1> DEFINE g == Answered(f, i)
           rest == Rest(f, i)
<1>1. /\ rest \in Seq(Ages) /\ f.pending[i] \in Ages /\ Len(rest) = Len(f.pending) - 1
      /\ i = 1 /\ Len(f.pending) > 1 => rest[Len(f.pending) - 1] = Newest(f)
  BY RestIs
<1>2. i \in 1 .. Len(f.pending) /\ Len(f.pending) \in Nat
  BY LenProperties DEF AnyFetch
<1> HIDE DEF rest
<1>3. g = [f EXCEPT !.shown = f.pending[i], !.loading = FALSE, !.pending = rest, !.crossed = @ \/ i > 1]
  BY DEF Answered, rest
<1>4. /\ g \in AnyFetch /\ g.pending = rest
      /\ g.shown = f.pending[i] /\ g.error = f.error
      /\ ~g.loading /\ (g.crossed <=> f.crossed \/ i > 1)
  BY <1>1, <1>3 DEF AnyFetch
<1> HIDE DEF g
<1>5. Busy(f) /\ (Busy(g) <=> Len(f.pending) > 1)
  <2>1. Len(g.pending) = Len(f.pending) - 1
    BY <1>1, <1>4
  <2> QED
    BY <1>2, <1>4, <2>1, BusyIsLong
<1>6. ~g.crossed => ~(i > 1)
  BY <1>4
<1>7. ASSUME ~g.crossed, Busy(g) PROVE Newest(g) = Newest(f)
  <2>1. i = 1
    BY <1>2, <1>6, <1>7
  <2> QED
    BY <1>1, <1>4, <1>5, <1>7, <2>1 DEF Newest
<1>8. ASSUME ~g.crossed, ~Busy(g) PROVE f.pending[i] = Newest(f)
  <2>1. ~(Len(f.pending) > 1)
    BY <1>5, <1>8
  <2>2. \A n \in Nat : \A k \in 1 .. n : ~(n > 1) => n = 1 /\ k = 1
    OBVIOUS
  <2>3. Len(f.pending) = 1 /\ i = 1
    BY <1>2, <2>1, <2>2
  <2> QED
    BY <2>3 DEF Newest
<1>9. Len(g.pending) = Len(f.pending) - 1
  BY <1>1, <1>4
<1>10. f.pending[i] \in Ages
  BY <1>1
<1> QED
  BY <1>4, <1>5, <1>7, <1>8, <1>9, <1>10, Zenon DEF g

LEMMA BrokenGives ==
  ASSUME NEW f \in AnyFetch, NEW i \in DOMAIN f.pending
  PROVE  LET g == Broken(f, i)
         IN  /\ g \in AnyFetch /\ Busy(f) /\ f.pending[i] \in Ages
             /\ Len(g.pending) = Len(f.pending) - 1
             /\ g.error = f.pending[i] /\ g.shown = f.shown
             /\ ~g.loading /\ (f.crossed => g.crossed)
             /\ ~g.crossed => ~Busy(g) /\ f.pending[i] = Newest(f)
<1> DEFINE g == Broken(f, i)
           rest == Rest(f, i)
<1>1. rest \in Seq(Ages) /\ f.pending[i] \in Ages /\ Len(rest) = Len(f.pending) - 1
  BY RestIs
<1>2. i \in 1 .. Len(f.pending) /\ Len(f.pending) \in Nat
  BY LenProperties DEF AnyFetch
<1> HIDE DEF rest
<1>3. g = [f EXCEPT !.error = f.pending[i], !.loading = FALSE, !.pending = rest,
                    !.crossed = @ \/ Len(f.pending) > 1]
  BY DEF Broken, rest
<1>4. /\ g \in AnyFetch /\ g.pending = rest
      /\ g.error = f.pending[i] /\ g.shown = f.shown
      /\ ~g.loading /\ (g.crossed <=> f.crossed \/ Len(f.pending) > 1)
  BY <1>1, <1>3 DEF AnyFetch
<1> HIDE DEF g
<1>5. Busy(f) /\ (Busy(g) <=> Len(f.pending) > 1)
  <2>1. Len(g.pending) = Len(f.pending) - 1
    BY <1>1, <1>4
  <2> QED
    BY <1>2, <1>4, <2>1, BusyIsLong
<1>6. ASSUME ~g.crossed PROVE ~Busy(g) /\ f.pending[i] = Newest(f)
  <2>1. ~(Len(f.pending) > 1)
    BY <1>4, <1>6
  <2>2. \A n \in Nat : \A k \in 1 .. n : ~(n > 1) => n = 1 /\ k = 1
    OBVIOUS
  <2>3. Len(f.pending) = 1 /\ i = 1
    BY <1>2, <2>1, <2>2
  <2> QED
    BY <1>5, <2>3 DEF Newest
<1>7. Len(g.pending) = Len(f.pending) - 1
  BY <1>1, <1>4
<1>8. f.pending[i] \in Ages
  BY <1>1
<1> QED
  BY <1>4, <1>5, <1>6, <1>7, <1>8, Zenon DEF g

-----------------------------------------------------------------------------
(* The form, and the results of the page.                                  *)

(* An error goes when the next request is asked for, so that there is one  *)
(* beside a request only after answers have crossed.                       *)
Waits(f) ==
  /\ f \in AnyFetch
  /\ f.loading => Busy(f)
  /\ ~f.crossed /\ Busy(f) => f.error = "nothing"

(* The request that was asked for last is of the inputs as they are, and   *)
(* so is what it leaves.                                                   *)
Shows(f) == ~f.crossed => IF Busy(f) THEN Newest(f) = "now" ELSE Visible(f) = "now"

FormInv ==
  /\ model \in ModelPanelState
  /\ model.presetId # "custom" => model.of = model.presetId
  /\ model.peftMethod # "full" => model.zeroStage = 0

PageInv == FormInv /\ Waits(view) /\ (Asks => Shows(view))

(* Aging leaves no value as of now, and asking makes one.                   *)
LEMMA AgedIsNotNow == \A a : Aged(a) # "now" /\ (Aged(a) = "nothing" <=> a = "nothing")
  BY DEF Aged

LEMMA AskWaits ==
  ASSUME NEW f, Waits(f)
  PROVE  Waits(Ask(f)) /\ Shows(Ask(f))
  BY AskGives DEF Waits, Shows

LEMMA OutdatedWaits ==
  ASSUME NEW f, Waits(f)
  PROVE  Waits(Outdated(f))
  BY OutdatedGives, AgedIsNotNow DEF Waits

LEMMA AnsweredShows ==
  ASSUME NEW f, NEW i \in DOMAIN f.pending, Waits(f)
  PROVE  Waits(Answered(f, i)) /\ (Shows(f) => Shows(Answered(f, i)))
<1> DEFINE g == Answered(f, i)
<1>1. /\ g \in AnyFetch /\ Busy(f) /\ f.pending[i] \in Ages
      /\ g.shown = f.pending[i] /\ g.error = f.error
      /\ ~g.loading /\ (g.crossed <=> f.crossed \/ i > 1)
      /\ ~g.crossed /\ Busy(g) => Newest(g) = Newest(f)
      /\ ~g.crossed /\ ~Busy(g) => f.pending[i] = Newest(f)
  BY AnsweredGives DEF Waits
<1> HIDE DEF g
<1>2. ~g.crossed => ~f.crossed
  BY <1>1
<1>3. Waits(g)
  BY <1>1, <1>2 DEF Waits
<1>4. ASSUME Shows(f), ~g.crossed PROVE IF Busy(g) THEN Newest(g) = "now" ELSE Visible(g) = "now"
  <2>1. Newest(f) = "now" /\ f.error = "nothing"
    BY <1>1, <1>2, <1>4 DEF Waits, Shows
  <2> QED
    BY <1>1, <1>4, <2>1 DEF Visible
<1> QED
  BY <1>3, <1>4 DEF Shows, g

LEMMA BrokenShows ==
  ASSUME NEW f, NEW i \in DOMAIN f.pending, Waits(f)
  PROVE  Waits(Broken(f, i)) /\ (Shows(f) => Shows(Broken(f, i)))
<1> DEFINE g == Broken(f, i)
<1>1. /\ g \in AnyFetch /\ Busy(f) /\ f.pending[i] \in Ages
      /\ g.error = f.pending[i] /\ ~g.loading /\ (f.crossed => g.crossed)
      /\ ~g.crossed => ~Busy(g) /\ f.pending[i] = Newest(f)
  BY BrokenGives DEF Waits
<1> HIDE DEF g
<1>2. Waits(g)
  BY <1>1 DEF Waits
<1>3. Shows(f) => Shows(g)
  BY <1>1 DEF Shows, Visible, Ages
<1> QED
  BY <1>2, <1>3 DEF g

-----------------------------------------------------------------------------
(* The effects after a change of the form: either what they depend on has  *)
(* not changed, or they ask anew, or there is nothing to ask.              *)
LEMMA RerenderKeeps ==
  ASSUME NEW parts, PageInv, Rerender(parts), FormInv', watched' = watched,
         parts \cap Depends = {} => (Asks' => Asks)
  PROVE  PageInv'
<1> DEFINE f == IF parts \cap Reads = {} THEN view ELSE Outdated(view)
<1>1. Reads \subseteq Depends
  BY DEF Reads, Depends
<1>2. view' = IF parts \cap Depends # {} /\ Asks' THEN Ask(f) ELSE f
  BY DEF Rerender
<1>3. Waits(f)
  BY OutdatedWaits DEF PageInv
<1>4. Waits(view')
  BY <1>2, <1>3, AskWaits
<1>5. ASSUME Asks' PROVE Shows(view')
  <2>1. CASE parts \cap Depends # {}
    BY <1>2, <1>3, <1>5, <2>1, AskWaits
  <2>2. CASE parts \cap Depends = {}
    <3>1. view' = view
      BY <1>1, <1>2, <2>2
    <3> QED
      BY <1>5, <2>2, <3>1 DEF PageInv
  <2> QED
    BY <2>1, <2>2
<1>6. Waits(view)' /\ (Asks' => Shows(view)')
  BY <1>4, <1>5 DEF Waits, Shows
<1> QED
  BY <1>6 DEF PageInv

(* Whatever a link says, the form is whole and consistent.                 *)
LEMMA HydratedIsForm ==
  ASSUME PageAssumption, NEW link \in Links
  PROVE  LET m == Hydrated(link)
         IN  /\ m \in ModelPanelState
             /\ m.presetId = m.of
             /\ m.peftMethod # "full" => m.zeroStage = 0
<1>1. FirstPreset \in Presets
  BY DEF PageAssumption, FirstPreset
<1>2. DefaultModel = [presetId |-> FirstPreset, of |-> FirstPreset, training |-> TRUE,
                      zeroStage |-> 0, peftMethod |-> "full"]
  BY DEF DefaultModel
<1>3. DOMAIN DefaultModel = {"presetId", "of", "training", "zeroStage", "peftMethod"}
  BY <1>2
<1>4. CASE link = <<>>
  <2>1. Hydrated(link) = DefaultModel
    BY <1>2, <1>4 DEF Hydrated
  <2> QED
    BY <1>1, <1>2, <2>1 DEF ModelPanelState
<1>5. CASE link = [DefaultModel EXCEPT !.peftMethod = "lora"]
  <2>1. link = [presetId |-> FirstPreset, of |-> FirstPreset, training |-> TRUE,
                zeroStage |-> 0, peftMethod |-> "lora"]
    BY <1>2, <1>5
  <2>2. Hydrated(link) = link
    BY <1>3, <2>1 DEF Hydrated
  <2>3. link \in ModelPanelState /\ link.presetId = link.of /\ link.zeroStage = 0
    BY <1>1, <2>1 DEF ModelPanelState
  <2> QED
    BY <2>2, <2>3
<1>6. CASE link \in [presetId : {FirstPreset}, of : {FirstPreset}, training : {TRUE}, zeroStage : 0 .. 1]
  <2>1. DOMAIN link = {"presetId", "of", "training", "zeroStage"}
    BY <1>6
  <2>2. PICK z \in 0 .. 1 : z = link.zeroStage
    BY <1>6
  <2>3. link.presetId = FirstPreset /\ link.of = FirstPreset /\ link.training = TRUE
    BY <1>6
  <2> DEFINE h == [f \in DOMAIN DefaultModel |-> IF f \in DOMAIN link THEN link[f] ELSE DefaultModel[f]]
             form == [presetId |-> FirstPreset, of |-> FirstPreset, training |-> TRUE,
                      zeroStage |-> z, peftMethod |-> "full"]
  <2>4. /\ h["presetId"] = FirstPreset /\ h["of"] = FirstPreset /\ h["training"] = TRUE
        /\ h["zeroStage"] = z /\ h["peftMethod"] = "full"
    BY <1>2, <1>3, <2>1, <2>2, <2>3
  <2>5. DOMAIN h = DOMAIN form /\ DOMAIN form = {"presetId", "of", "training", "zeroStage", "peftMethod"}
    BY <1>3
  <2>6. h = [f \in DOMAIN form |-> h[f]]
    BY <2>5
  <2>7. h = form
    <3>1. form = [f \in DOMAIN form |-> form[f]]
      OBVIOUS
    <3>2. /\ form["presetId"] = FirstPreset /\ form["of"] = FirstPreset /\ form["training"] = TRUE
          /\ form["zeroStage"] = z /\ form["peftMethod"] = "full"
      OBVIOUS
    <3> HIDE DEF h, form
    <3>3. ASSUME NEW f \in DOMAIN form PROVE h[f] = form[f]
      BY <2>4, <2>5, <3>2
    <3> QED
      BY <2>6, <3>1, <3>3, Zenon
  <2>8. form \in ModelPanelState /\ form.presetId = form.of /\ form.peftMethod = "full"
    BY <1>1 DEF ModelPanelState
  <2> QED
    BY <2>7, <2>8 DEF Hydrated
<1> QED
  BY <1>4, <1>5, <1>6 DEF Links

LEMMA PageStarts == PageInit => PageInv
<1> SUFFICES ASSUME PageInit PROVE PageInv
  OBVIOUS
<1>1. PICK link \in Links :
        /\ model = Hydrated(link)
        /\ view = IF watched = "cost" THEN Nothing
                  ELSE IF link = <<>> THEN Ask(Nothing) ELSE Ask(Outdated(Ask(Nothing)))
  BY DEF PageInit
<1>2. FormInv
  BY <1>1, HydratedIsForm, PageAssumption DEF FormInv
<1>3. Nothing \in AnyFetch /\ Waits(Nothing)
  <2>1. <<>> \in Seq(Ages)
    BY EmptySeq
  <2> QED
    BY <2>1 DEF Nothing, AnyFetch, Waits, Busy
<1>4. ASSUME watched = "vram" PROVE Waits(view) /\ Shows(view)
  <2>1. view = Ask(Nothing) \/ view = Ask(Outdated(Ask(Nothing)))
    BY <1>1, <1>4
  <2> QED
    BY <1>3, <2>1, AskWaits, OutdatedWaits
<1>5. ASSUME watched = "cost" PROVE Waits(view) /\ ~Asks
  BY <1>1, <1>3, <1>5 DEF PageInit, Asks
<1> QED
  BY <1>2, <1>4, <1>5 DEF PageInit, PageInv

(* A change of the form's model, by a user who may make it.                *)
LEMMA SetModelKeeps ==
  ASSUME PageInv, NEW m, SetModel(m), m \in ModelPanelState,
         m.presetId # "custom" => m.of = m.presetId,
         m.peftMethod # "full" => m.zeroStage = 0
  PROVE  PageInv'
<1>1. model' = m /\ watched' = watched /\ Rerender({"model"})
  BY DEF SetModel, UserActs
<1>2. FormInv'
  BY <1>1 DEF FormInv
<1>3. {"model"} \cap Depends # {}
  BY DEF Depends
<1> QED
  BY <1>1, <1>2, <1>3, RerenderKeeps

LEMMA ModelPanelKeeps ==
  ASSUME PageInv,
         \/ \E p \in Presets : OnPreset(p)
         \/ OnCustom \/ EditArchitecture \/ EditWorkload \/ ToggleTraining
         \/ \E z \in 0 .. 1 : PickZeroStage(z)
         \/ \E v \in {"full", "lora"} : PickPeftMethod(v)
  PROVE  PageInv'
<1> USE DEF ModelPanelState
<1>1. FormInv
  BY DEF PageInv
<1>2. ASSUME NEW p \in Presets, OnPreset(p) PROVE PageInv'
  <2> DEFINE m == [model EXCEPT !.presetId = p, !.of = p]
  <2>1. m \in ModelPanelState /\ m.of = m.presetId /\ (m.peftMethod # "full" => m.zeroStage = 0)
    BY <1>1 DEF FormInv
  <2> QED
    BY <1>2, <2>1, SetModelKeeps DEF OnPreset
<1>3. CASE OnCustom
  <2> DEFINE m == [model EXCEPT !.presetId = "custom"]
  <2>1. m \in ModelPanelState /\ m.presetId = "custom" /\ (m.peftMethod # "full" => m.zeroStage = 0)
    BY <1>1 DEF FormInv
  <2> QED
    BY <1>3, <2>1, SetModelKeeps DEF OnCustom
<1>4. CASE EditArchitecture
  <2> DEFINE m == [model EXCEPT !.presetId = "custom", !.of = "custom"]
  <2>1. m \in ModelPanelState /\ m.presetId = "custom" /\ (m.peftMethod # "full" => m.zeroStage = 0)
    BY <1>1 DEF FormInv
  <2> QED
    BY <1>4, <2>1, SetModelKeeps DEF EditArchitecture
<1>5. CASE EditWorkload
  BY <1>1, <1>5, SetModelKeeps DEF EditWorkload, FormInv
<1>6. CASE ToggleTraining
  <2> DEFINE m == [model EXCEPT !.training = ~@]
  <2>1. /\ m \in ModelPanelState
        /\ m.presetId # "custom" => m.of = m.presetId
        /\ m.peftMethod # "full" => m.zeroStage = 0
    BY <1>1 DEF FormInv
  <2> QED
    BY <1>6, <2>1, SetModelKeeps DEF ToggleTraining
<1>7. ASSUME NEW z \in 0 .. 1, PickZeroStage(z) PROVE PageInv'
  <2> DEFINE m == [model EXCEPT !.zeroStage = z, !.peftMethod = IF z > 0 THEN "full" ELSE @]
  <2>0. /\ m.presetId = model.presetId /\ m.of = model.of
        /\ m.zeroStage = z /\ m.peftMethod = IF z > 0 THEN "full" ELSE model.peftMethod
    BY <1>1 DEF FormInv
  <2>1. m \in ModelPanelState
    BY <1>1 DEF FormInv
  <2>2. m.peftMethod # "full" => m.zeroStage = 0
    BY <2>0
  <2>3. m.presetId # "custom" => m.of = m.presetId
    BY <1>1, <2>0 DEF FormInv
  <2> QED
    BY <1>7, <2>1, <2>2, <2>3, SetModelKeeps DEF PickZeroStage
<1>8. ASSUME NEW v \in {"full", "lora"}, PickPeftMethod(v) PROVE PageInv'
  <2> DEFINE m == [model EXCEPT !.peftMethod = v, !.zeroStage = IF v # "full" THEN 0 ELSE @]
  <2>0. /\ m.presetId = model.presetId /\ m.of = model.of
        /\ m.peftMethod = v /\ m.zeroStage = IF v # "full" THEN 0 ELSE model.zeroStage
    BY <1>1 DEF FormInv
  <2>1. m \in ModelPanelState
    <3> HIDE DEF m
    <3>1. \A q \in {"full", "lora"}, z \in 0 .. 1 :
            [model EXCEPT !.peftMethod = q, !.zeroStage = z] \in ModelPanelState
      BY <1>1 DEF FormInv
    <3>2. model.zeroStage \in 0 .. 1 /\ (IF v # "full" THEN 0 ELSE model.zeroStage) \in 0 .. 1
      BY <1>1 DEF FormInv
    <3> QED
      BY <3>1, <3>2 DEF m
  <2>2. m.peftMethod # "full" => m.zeroStage = 0
    BY <2>0
  <2>3. m.presetId # "custom" => m.of = m.presetId
    BY <1>1, <2>0 DEF FormInv
  <2> QED
    BY <1>8, <2>1, <2>2, <2>3, SetModelKeeps DEF PickPeftMethod
<1> QED
  BY <1>2, <1>3, <1>4, <1>5, <1>6, <1>7, <1>8

(* The other changes of the form, and the catalogue's arrival.             *)
LEMMA OthersKeep ==
  ASSUME PageInv,
         \/ \E g \in Gpus : PickGpu(g)
         \/ \E s \in Shapes : PickShape(s)
         \/ \E g \in SystemGpus : PickAiSystem(g)
         \/ EditTopology \/ EditCosts \/ CatalogueArrives
  PROVE  PageInv'
<1>1. PICK parts : /\ Rerender(parts) /\ model' = model /\ watched' = watched
                   /\ \/ parts \cap {"topology", "gpu", "catalogue"} # {}
                      \/ UNCHANGED <<catalogue, gpuId, shape>>
  BY DEF PickGpu, PickShape, PickAiSystem, EditTopology, EditCosts, CatalogueArrives, UserActs
<1>2. FormInv'
  BY <1>1 DEF PageInv, FormInv
<1>3. parts \cap Depends = {} => (Asks' => Asks)
  BY <1>1 DEF Depends, Asks, nvlinkAvailable
<1> QED
  BY <1>1, <1>2, <1>3, RerenderKeeps

LEMMA PageKeeps == PageInv /\ [PageNext]_pageVars => PageInv'
<1> SUFFICES ASSUME PageInv, [PageNext]_pageVars PROVE PageInv'
  OBVIOUS
<1>1. ASSUME NEW i \in DOMAIN view.pending, Answer(i) \/ Fail(i) PROVE PageInv'
  <2>1. view' = Answered(view, i) \/ view' = Broken(view, i)
    BY <1>1 DEF Answer, Fail
  <2>2. UNCHANGED <<watched, tab, catalogue, gpuId, model, shape>>
    BY <1>1 DEF Answer, Fail
  <2>3. Waits(view') /\ (Shows(view) => Shows(view'))
    BY <2>1, AnsweredShows, BrokenShows DEF PageInv
  <2>4. (Asks' <=> Asks) /\ (FormInv' <=> FormInv)
    BY <2>2 DEF Asks, nvlinkAvailable, FormInv
  <2>5. Waits(view)' /\ (Asks' => Shows(view)')
    BY <2>3, <2>4 DEF PageInv, Waits, Shows
  <2> QED
    BY <2>4, <2>5 DEF PageInv
<1>2. ASSUME \/ UNCHANGED pageVars
             \/ \E t \in Tabs : SelectTab(t)
             \/ CatalogueFails
      PROVE  PageInv'
  <2>1. UNCHANGED <<watched, gpuId, model, shape, view>>
    BY <1>2 DEF pageVars, SelectTab, CatalogueFails
  <2>2. catalogue' = catalogue \/ (catalogue = "loading" /\ catalogue' = "failed")
    BY <1>2 DEF pageVars, SelectTab, CatalogueFails
  <2>3. (Asks' => Asks) /\ FormInv'
    BY <2>1, <2>2 DEF Asks, nvlinkAvailable, FormInv, PageInv
  <2>4. Waits(view)' /\ (Shows(view) => Shows(view)')
    BY <2>1 DEF PageInv, Waits, Shows
  <2> QED
    BY <2>3, <2>4 DEF PageInv
<1> QED
  BY <1>1, <1>2, ModelPanelKeeps, OthersKeep DEF PageNext, UserStep, ApiStep

(* Every field of the form is there, a preset's name stands over its own   *)
(* architecture, and sharding and LoRA are never both on, whatever the     *)
(* link and the order of the clicks (page.tsx:137-147,                     *)
(* ModelPanel.tsx:39-46, 161, 182).                                        *)
THEOREM FormStaysConsistent == PageSpec => []FormIsConsistent
<1>1. PageInv => FormIsConsistent
  <2>1. DOMAIN DefaultModel = {"presetId", "of", "training", "zeroStage", "peftMethod"}
    BY DEF DefaultModel
  <2>2. PageInv => DOMAIN model = {"presetId", "of", "training", "zeroStage", "peftMethod"}
    BY DEF PageInv, FormInv, ModelPanelState
  <2> QED
    BY <2>1, <2>2 DEF PageInv, FormInv, FormIsConsistent
<1> QED
  BY <1>1, PageStarts, PageKeeps, PTL DEF PageSpec

(* Once nothing is in flight the page shows the result of the form as it   *)
(* is, however many requests were on their way, as long as no answer       *)
(* overtook another (page.tsx:172-230).                                    *)
THEOREM QuietPageIsCurrent == PageSpec => []QuietIsCurrent
<1>1. PageInv => QuietIsCurrent
  BY DEF PageInv, Waits, Shows, QuietIsCurrent, InOrder, Busy
<1> QED
  BY <1>1, PageStarts, PageKeeps, PTL DEF PageSpec

-----------------------------------------------------------------------------
(* The panels that fetch for themselves.                                   *)

(* What a panel may show when it is quiet, the newest request's outcome    *)
(* being there.                                                            *)
PanelSettles ==
  \/ Visible(fetch) = "now"
  \/ panel = "recommender" /\ Visible(fetch) = "other"
  \/ panel = "models" /\ Visible(fetch) = "nothing"
  \/ panel = "economics" /\ (fetch.shown = "now" \/ fetch.error = "now")

(* Asking clears the error, where it does: so there is none beside a       *)
(* request, unless answers crossed.                                        *)
ErrorsGo == (panel \notin {"spot", "economics"} /\ ~fetch.crossed /\ Busy(fetch)) => fetch.error = "nothing"

NewestIsCurrent == ready /\ ~fetch.crossed => IF Busy(fetch) THEN Newest(fetch) = "now" ELSE PanelSettles

ChosenIsListed == panel = "models" /\ fetch.shown = "now" => chosen = "now"

PanelsInv ==
  /\ panel \in PanelNames /\ ready \in BOOLEAN /\ fetch \in AnyFetch
  /\ nlAsks \in Nat /\ (nlAsks > 0 => panel = "recommender")
  /\ ErrorsGo /\ NewestIsCurrent /\ ChosenIsListed

LEMMA PolicyIs ==
  ASSUME panel \in PanelNames
  PROVE  /\ "error" \in Policy.askClears <=> panel \notin {"spot", "economics"}
         /\ "shown" \in Policy.askClears <=> panel = "models"
         /\ Policy.answerClears <=> panel = "spot"
         /\ Policy.asksAgain => panel \in {"parallelism", "economics"}
<1> USE DEF Policy, Plain, InferencePanel, ThroughputCurvePanel, ParallelismCurvePanel,
            SpeculativeDecodingPanel, SpotPricingSection, RecommenderPanel, AiModelSelect, CostDashboardPanel
<1>1. CASE panel \in {"inference", "throughput", "speculative", "recommender"}
  <2>1. Policy = Plain
    BY <1>1
  <2> QED
    BY <1>1, <2>1
<1>2. CASE panel = "parallelism"
  BY <1>2
<1>3. CASE panel = "spot"
  BY <1>3
<1>4. CASE panel = "models"
  BY <1>4
<1>5. CASE panel = "economics"
  BY <1>5
<1> QED
  BY <1>1, <1>2, <1>3, <1>4, <1>5 DEF PanelNames

(* The effect, for a result f that is left.                                *)
LEMMA EffectGives ==
  ASSUME panel \in PanelNames, NEW f \in AnyFetch, NEW isReady \in BOOLEAN
  PROVE  LET g == Effect(f, isReady)
         IN  /\ g \in AnyFetch
             /\ isReady => Busy(g) /\ Newest(g) = "now"
             /\ isReady /\ panel \notin {"spot", "economics"} => g.error = "nothing"
             /\ ~isReady => (Busy(g) <=> Busy(f)) /\ g.error = f.error /\ g.crossed = f.crossed
             /\ g.shown \in {f.shown, "nothing"}
             /\ isReady /\ panel = "models" => g.shown = "nothing"
<1> DEFINE g == Effect(f, isReady)
<1>1. CASE isReady
  <2> DEFINE a == Ask(f)
             shown == IF "shown" \in Policy.askClears THEN "nothing" ELSE a.shown
             error == IF "error" \in Policy.askClears THEN a.error ELSE f.error
  <2>1. a \in AnyFetch /\ Busy(a) /\ Newest(a) = "now" /\ a.shown = f.shown /\ a.error = "nothing"
    BY AskGives
  <2>2. /\ shown \in {f.shown, "nothing"} /\ (panel = "models" => shown = "nothing")
        /\ error \in {f.error, "nothing"} /\ (panel \notin {"spot", "economics"} => error = "nothing")
    BY <2>1, PolicyIs
  <2>3. g = [a EXCEPT !.shown = shown, !.error = error]
    BY <1>1 DEF Effect
  <2> HIDE DEF a, shown, error, g
  <2>4. g \in AnyFetch /\ g.pending = a.pending /\ g.shown = shown /\ g.error = error
    BY <2>1, <2>2, <2>3 DEF AnyFetch
  <2> QED
    BY <1>1, <2>1, <2>2, <2>4 DEF Busy, Newest, g
<1>2. CASE ~isReady
  <2> DEFINE shown == IF Policy.idleClears THEN "nothing" ELSE f.shown
  <2>1. shown \in {f.shown, "nothing"}
    OBVIOUS
  <2>2. g = [f EXCEPT !.shown = shown]
    BY <1>2 DEF Effect
  <2> HIDE DEF shown, g
  <2>3. /\ g \in AnyFetch /\ g.pending = f.pending /\ g.shown = shown
        /\ g.error = f.error /\ g.crossed = f.crossed
    BY <2>1, <2>2 DEF AnyFetch
  <2> QED
    BY <1>2, <2>1, <2>3 DEF Busy, g
<1> QED
  BY <1>1, <1>2

(* What is left of the result when its inputs have changed.                *)
LEMMA LeftGives ==
  ASSUME fetch \in AnyFetch
  PROVE  /\ Left \in AnyFetch /\ (Busy(Left) => Busy(fetch))
         /\ Left.shown = Aged(fetch.shown) /\ Left.error = Aged(fetch.error) /\ Left.crossed = fetch.crossed
<1> DEFINE old == Outdated(fetch)
<1>1. /\ old \in AnyFetch /\ (Busy(old) <=> Busy(fetch))
      /\ old.shown = Aged(fetch.shown) /\ old.error = Aged(fetch.error) /\ old.crossed = fetch.crossed
  BY OutdatedGives
<1>2. Left = IF Policy.cancels THEN [old EXCEPT !.pending = <<>>] ELSE old
  BY DEF Left
<1> HIDE DEF old
<1>3. CASE Policy.cancels
  <2>1. <<>> \in Seq(Ages)
    BY EmptySeq
  <2>2. Left = [old EXCEPT !.pending = <<>>]
    BY <1>2, <1>3
  <2>3. /\ Left \in AnyFetch /\ Left.pending = <<>>
        /\ Left.shown = old.shown /\ Left.error = old.error /\ Left.crossed = old.crossed
    BY <1>1, <2>1, <2>2 DEF AnyFetch
  <2> QED
    BY <1>1, <2>3 DEF Busy
<1>4. CASE ~Policy.cancels
  BY <1>1, <1>2, <1>4
<1> QED
  BY <1>3, <1>4

-----------------------------------------------------------------------------
(* The inputs, or what a panel needs to ask, have changed.                 *)
LEMMA LeavingAsks ==
  ASSUME PanelsInv, ready' \in BOOLEAN, fetch' = Effect(Left, ready'), UNCHANGED <<panel, nlAsks>>
  PROVE  PanelsInv'
<1> USE DEF PanelsInv
<1>1. /\ Left \in AnyFetch /\ (Busy(Left) => Busy(fetch))
      /\ Left.shown = Aged(fetch.shown) /\ Left.error = Aged(fetch.error) /\ Left.crossed = fetch.crossed
  BY LeftGives
<1>2. /\ fetch' \in AnyFetch
      /\ ready' => Busy(fetch') /\ Newest(fetch') = "now"
      /\ ready' /\ panel \notin {"spot", "economics"} => fetch'.error = "nothing"
      /\ ~ready' => (Busy(fetch') <=> Busy(Left)) /\ fetch'.error = Left.error /\ fetch'.crossed = Left.crossed
      /\ fetch'.shown \in {Left.shown, "nothing"}
  BY <1>1, EffectGives
<1>3. ErrorsGo'
  <2>1. CASE ready'
    BY <1>2, <2>1 DEF ErrorsGo
  <2>2. CASE ~ready'
    <3>1. Busy(fetch') => Busy(fetch)
      BY <1>1, <1>2, <2>2
    <3>2. fetch'.error = Aged(fetch.error) /\ fetch'.crossed = fetch.crossed
      BY <1>1, <1>2, <2>2
    <3> QED
      BY <3>1, <3>2, AgedIsNotNow DEF ErrorsGo, Busy
  <2> QED
    BY <2>1, <2>2
<1>4. NewestIsCurrent'
  BY <1>2 DEF NewestIsCurrent, Busy, Newest
<1>5. ChosenIsListed'
  <2>1. fetch'.shown # "now"
    BY <1>1, <1>2, AgedIsNotNow
  <2> QED
    BY <2>1 DEF ChosenIsListed
<1> QED
  BY <1>2, <1>3, <1>4, <1>5

(* The panel asks again of the same inputs.                                *)
LEMMA AskingAgain ==
  ASSUME PanelsInv, AsksAgain
  PROVE  PanelsInv'
<1> USE DEF PanelsInv
<1>1. fetch' = Effect(fetch, ready) /\ ready /\ UNCHANGED <<panel, ready, chosen, nlAsks>>
  BY DEF AsksAgain
<1>2. panel # "models"
  BY PolicyIs DEF AsksAgain
<1>3. /\ fetch' \in AnyFetch /\ Busy(fetch') /\ Newest(fetch') = "now"
      /\ panel \notin {"spot", "economics"} => fetch'.error = "nothing"
  BY <1>1, EffectGives
<1>4. ErrorsGo' /\ NewestIsCurrent' /\ ChosenIsListed'
  BY <1>1, <1>2, <1>3 DEF ErrorsGo, NewestIsCurrent, ChosenIsListed, Busy, Newest
<1> QED
  BY <1>1, <1>3, <1>4

(* An answer, for the list of models perhaps an empty one.                 *)
LEMMA AnsweringKeeps ==
  ASSUME PanelsInv, NEW i \in DOMAIN fetch.pending, PanelAnswer(i) \/ NoModels(i)
  PROVE  PanelsInv'
<1> USE DEF PanelsInv
<1> DEFINE g == Answered(fetch, i)
<1>1. /\ g \in AnyFetch /\ Busy(fetch) /\ fetch.pending[i] \in Ages
      /\ g.shown = fetch.pending[i] /\ g.error = fetch.error
      /\ ~g.crossed => ~fetch.crossed
      /\ ~g.crossed /\ Busy(g) => Newest(g) = Newest(fetch)
      /\ ~g.crossed /\ ~Busy(g) => fetch.pending[i] = Newest(fetch)
  BY AnsweredGives
<1> HIDE DEF g
<1>2. UNCHANGED <<panel, ready, nlAsks>>
  BY DEF PanelAnswer, NoModels
<1>3. ASSUME PanelAnswer(i)
      PROVE  /\ fetch' \in AnyFetch /\ fetch'.pending = g.pending /\ fetch'.crossed = g.crossed
             /\ fetch'.shown = g.shown /\ fetch'.error \in {fetch.error, "nothing"}
             /\ panel = "spot" => fetch'.error = "nothing"
             /\ panel = "models" => chosen' = fetch.pending[i]
  <2> DEFINE error == IF Policy.answerClears THEN "nothing" ELSE g.error
  <2>1. error \in {fetch.error, "nothing"} /\ (panel = "spot" => error = "nothing")
    BY <1>1, PolicyIs
  <2>2. fetch' = [g EXCEPT !.error = error]
    BY <1>3 DEF PanelAnswer, g
  <2>3. panel = "models" => chosen' = fetch.pending[i]
    BY <1>3 DEF PanelAnswer
  <2> HIDE DEF error
  <2>4. /\ fetch' \in AnyFetch /\ fetch'.pending = g.pending /\ fetch'.crossed = g.crossed
        /\ fetch'.shown = g.shown /\ fetch'.error = error
    BY <1>1, <2>1, <2>2 DEF AnyFetch
  <2> QED
    BY <2>1, <2>3, <2>4
<1>4. ASSUME NoModels(i)
      PROVE  /\ fetch' \in AnyFetch /\ fetch'.pending = g.pending /\ fetch'.crossed = g.crossed
             /\ fetch'.shown = "nothing" /\ fetch'.error = fetch.error /\ panel = "models"
  <2>1. fetch' = [g EXCEPT !.shown = "nothing"] /\ panel = "models"
    BY <1>4 DEF NoModels, g
  <2> QED
    BY <1>1, <2>1 DEF AnyFetch
<1>5. /\ fetch' \in AnyFetch /\ (Busy(fetch') <=> Busy(g)) /\ (fetch'.crossed <=> g.crossed)
      /\ Newest(fetch') = Newest(g) /\ fetch'.error \in {fetch.error, "nothing"}
  BY <1>3, <1>4 DEF Busy, Newest
<1>6. ErrorsGo'
  BY <1>1, <1>2, <1>5 DEF ErrorsGo, Busy
<1>7. ASSUME ready, ~fetch'.crossed
      PROVE  IF Busy(fetch') THEN Newest(fetch') = "now" ELSE PanelSettles'
  <2>1. Newest(fetch) = "now" /\ ~fetch.crossed
    BY <1>1, <1>5, <1>7 DEF NewestIsCurrent
  <2>2. CASE Busy(fetch')
    BY <1>1, <1>5, <1>7, <2>1, <2>2
  <2>3. CASE ~Busy(fetch')
    <3>1. fetch.pending[i] = "now"
      BY <1>1, <1>5, <1>7, <2>1, <2>3
    <3>2. panel \notin {"spot", "economics"} => fetch.error = "nothing"
      BY <1>1, <2>1 DEF ErrorsGo
    <3>3. CASE PanelAnswer(i)
      <4>1. fetch'.shown = "now" /\ (panel = "economics" \/ fetch'.error = "nothing")
        BY <1>1, <1>3, <3>1, <3>2, <3>3
      <4> QED
        BY <1>2, <2>3, <4>1 DEF PanelSettles, Visible
    <3>4. CASE NoModels(i)
      BY <1>2, <1>4, <2>3, <3>2, <3>4 DEF PanelSettles, Visible
    <3> QED
      BY <3>3, <3>4
  <2> QED
    BY <2>2, <2>3
<1>8. NewestIsCurrent'
  BY <1>2, <1>7 DEF NewestIsCurrent, Busy, Newest
<1>9. ChosenIsListed'
  BY <1>1, <1>2, <1>3, <1>4 DEF ChosenIsListed
<1> QED
  BY <1>2, <1>5, <1>6, <1>8, <1>9

LEMMA FailingKeeps ==
  ASSUME PanelsInv, NEW i \in DOMAIN fetch.pending, PanelFailure(i)
  PROVE  PanelsInv'
<1> USE DEF PanelsInv
<1> DEFINE g == Broken(fetch, i)
           shown == IF Policy.failClears THEN "nothing" ELSE g.shown
<1>1. /\ g \in AnyFetch /\ Busy(fetch) /\ fetch.pending[i] \in Ages
      /\ g.error = fetch.pending[i] /\ g.shown = fetch.shown
      /\ (fetch.crossed => g.crossed)
      /\ ~g.crossed => ~Busy(g) /\ fetch.pending[i] = Newest(fetch)
  BY BrokenGives
<1>2. UNCHANGED <<panel, ready, chosen, nlAsks>>
  BY DEF PanelFailure
<1>3. shown \in {fetch.shown, "nothing"} /\ fetch' = [g EXCEPT !.shown = shown]
  BY <1>1 DEF PanelFailure
<1> HIDE DEF g, shown
<1>4. /\ fetch' \in AnyFetch /\ fetch'.pending = g.pending /\ fetch'.crossed = g.crossed
      /\ fetch'.shown = shown /\ fetch'.error = g.error
  BY <1>1, <1>3 DEF AnyFetch
<1>5. ~fetch'.crossed => ~Busy(fetch') /\ ~fetch.crossed
  BY <1>1, <1>4 DEF Busy
<1>6. ErrorsGo'
  BY <1>5 DEF ErrorsGo, Busy
<1>7. ASSUME ready, ~fetch'.crossed PROVE PanelSettles'
  <2>1. fetch'.error = "now"
    BY <1>1, <1>4, <1>5, <1>7 DEF NewestIsCurrent
  <2> QED
    BY <2>1 DEF PanelSettles, Visible
<1>8. NewestIsCurrent'
  BY <1>2, <1>5, <1>7 DEF NewestIsCurrent, Busy
<1>9. ChosenIsListed'
  BY <1>2, <1>3, <1>4 DEF ChosenIsListed
<1> QED
  BY <1>2, <1>4, <1>6, <1>8, <1>9

(* The panel comes back, and asks as at first.                             *)
LEMMA EffectStarts ==
  ASSUME panel \in PanelNames, NEW isReady \in BOOLEAN
  PROVE  LET g == Effect(Nothing, isReady)
         IN  /\ g \in AnyFetch
             /\ isReady => Busy(g) /\ Newest(g) = "now"
             /\ panel \notin {"spot", "economics"} => g.error = "nothing"
             /\ g.shown = "nothing"
<1>1. Nothing \in AnyFetch /\ Nothing.shown = "nothing" /\ Nothing.error = "nothing"
  <2>1. <<>> \in Seq(Ages)
    BY EmptySeq
  <2> QED
    BY <2>1 DEF Nothing, AnyFetch
<1> QED
  BY <1>1, EffectGives

LEMMA PanelsStart == PanelsInit => PanelsInv
<1> SUFFICES ASSUME PanelsInit PROVE PanelsInv
  OBVIOUS
<1>1. panel \in PanelNames /\ ready \in BOOLEAN /\ fetch = Effect(Nothing, ready) /\ nlAsks = 0
  BY DEF PanelsInit
<1>2. /\ fetch \in AnyFetch /\ (ready => Busy(fetch) /\ Newest(fetch) = "now")
      /\ panel \notin {"spot", "economics"} => fetch.error = "nothing"
      /\ fetch.shown = "nothing"
  BY <1>1, EffectStarts
<1> QED
  BY <1>1, <1>2 DEF PanelsInv, ErrorsGo, NewestIsCurrent, ChosenIsListed

LEMMA PanelsKeep == PanelsInv /\ [PanelsNext]_panelVars => PanelsInv'
<1> SUFFICES ASSUME PanelsInv, [PanelsNext]_panelVars PROVE PanelsInv'
  OBVIOUS
<1> USE DEF PanelsInv
<1>1. CASE ChangeInputs \/ ChangeReady
  <2>1. ready' \in BOOLEAN /\ fetch' = Effect(Left, ready') /\ UNCHANGED <<panel, nlAsks>>
    BY <1>1 DEF ChangeInputs, ChangeReady
  <2> QED
    BY <2>1, LeavingAsks
<1>2. CASE Remount
  <2>1. fetch' = Effect(Nothing, ready) /\ nlAsks' = 0 /\ UNCHANGED <<panel, ready>>
    BY <1>2 DEF Remount
  <2>2. /\ fetch' \in AnyFetch /\ (ready => Busy(fetch') /\ Newest(fetch') = "now")
        /\ panel \notin {"spot", "economics"} => fetch'.error = "nothing"
        /\ fetch'.shown = "nothing"
    BY <2>1, EffectStarts
  <2> QED
    BY <2>1, <2>2 DEF ErrorsGo, NewestIsCurrent, ChosenIsListed, Busy, Newest
<1>3. CASE ChooseModel
  <2>1. UNCHANGED <<panel, ready, fetch, nlAsks>> /\ (fetch.shown = "now" => chosen' = "now")
    BY <1>3 DEF ChooseModel
  <2> QED
    BY <2>1 DEF ErrorsGo, NewestIsCurrent, ChosenIsListed, PanelSettles, Busy, Newest, Visible
<1>4. CASE AskNl \/ NlFailure \/ UNCHANGED panelVars
  <2>1. UNCHANGED <<panel, ready, fetch, chosen>>
    BY <1>4 DEF AskNl, NlFailure, panelVars
  <2>2. nlAsks' \in Nat /\ (nlAsks' > 0 => panel = "recommender")
    BY <1>4 DEF AskNl, NlFailure, panelVars
  <2> QED
    BY <2>1, <2>2 DEF ErrorsGo, NewestIsCurrent, ChosenIsListed, PanelSettles, Busy, Newest, Visible
<1>5. CASE NlAnswer
  <2>1. /\ fetch' = [fetch EXCEPT !.shown = "other"] /\ UNCHANGED <<panel, ready, chosen>>
        /\ nlAsks' \in Nat /\ panel = "recommender"
    BY <1>5 DEF NlAnswer
  <2>2. /\ fetch' \in AnyFetch /\ fetch'.pending = fetch.pending /\ fetch'.crossed = fetch.crossed
        /\ fetch'.shown = "other" /\ fetch'.error = fetch.error
    BY <2>1 DEF AnyFetch
  <2>3. ErrorsGo' /\ ChosenIsListed'
    BY <2>1, <2>2 DEF ErrorsGo, ChosenIsListed, Busy
  <2>4. PanelSettles => PanelSettles'
    BY <2>1, <2>2 DEF PanelSettles, Visible
  <2>5. NewestIsCurrent'
    BY <2>1, <2>2, <2>4 DEF NewestIsCurrent, Busy, Newest
  <2> QED
    BY <2>1, <2>2, <2>3, <2>5
<1> QED
  BY <1>1, <1>2, <1>3, <1>4, <1>5, AskingAgain, AnsweringKeeps, FailingKeeps DEF PanelsNext

(* A panel that can ask shows, once nothing is in flight and unless        *)
(* answers crossed, what it asked for last; and the model that is chosen   *)
(* is of the list that is shown (AiModelSelect.tsx:8-11, 32-35,            *)
(* SpotPricingSection.tsx:48-52, RecommenderPanel.tsx:52, 80).             *)
THEOREM PanelsShowCurrent == PanelsSpec => []PanelShowsCurrent
<1>1. PanelsInv => PanelShowsCurrent
  BY DEF PanelsInv, NewestIsCurrent, PanelSettles, ChosenIsListed, PanelShowsCurrent, InOrder, Busy
<1> QED
  BY <1>1, PanelsStart, PanelsKeep, PTL DEF PanelsSpec

-----------------------------------------------------------------------------
(* The panels with a button.  One run is under way at a time, and it is of *)
(* the form as it is until somebody changes it; beside its answer there    *)
(* may be the error of a list or a text.                                   *)
Follows(f, changed) ==
  /\ f \in AnyFetch /\ (f.loading <=> Busy(f)) /\ Len(f.pending) <= 1
  /\ ~changed => IF Busy(f) THEN Newest(f) = "now" /\ f.error \in {"nothing", "other"}
                 ELSE Visible(f) \in {"now", "other"}

DeskInv == Follows(run, edited)

LEMMA AskFollows ==
  ASSUME NEW f, Follows(f, TRUE), ~f.loading
  PROVE  Follows(Ask(f), FALSE)
<1>1. f \in AnyFetch /\ Len(f.pending) = 0
  BY BusyIsLong DEF Follows
<1> QED
  BY <1>1, AskGives DEF Follows

LEMMA OutdatedFollows ==
  ASSUME NEW f, NEW changed, Follows(f, changed)
  PROVE  Follows(Outdated(f), TRUE)
  BY OutdatedGives DEF Follows

LEMMA OneIsFirst ==
  ASSUME NEW f \in AnyFetch, NEW i \in DOMAIN f.pending, Len(f.pending) <= 1
  PROVE  i = 1 /\ Len(f.pending) = 1 /\ f.pending[i] = Newest(f)
<1>1. i \in 1 .. Len(f.pending) /\ Len(f.pending) \in Nat
  BY LenProperties DEF AnyFetch
<1>2. \A n \in Nat : \A k \in 1 .. n : n <= 1 => n = 1 /\ k = 1
  OBVIOUS
<1> QED
  BY <1>1, <1>2 DEF Newest

LEMMA AnsweredFollows ==
  ASSUME NEW f, NEW changed, NEW i \in DOMAIN f.pending, Follows(f, changed)
  PROVE  Follows(Answered(f, i), changed)
<1> DEFINE g == Answered(f, i)
<1>1. /\ g \in AnyFetch /\ Busy(f) /\ Len(g.pending) = Len(f.pending) - 1
      /\ g.shown = f.pending[i] /\ g.error = f.error /\ ~g.loading
  BY AnsweredGives DEF Follows
<1>2. Len(f.pending) = 1 /\ f.pending[i] = Newest(f)
  BY OneIsFirst DEF Follows
<1> HIDE DEF g
<1>3. ~Busy(g) /\ Len(g.pending) = 0
  BY <1>1, <1>2, BusyIsLong
<1>4. ~changed => Visible(g) \in {"now", "other"}
  BY <1>1, <1>2 DEF Follows, Visible
<1> QED
  BY <1>1, <1>3, <1>4 DEF Follows, g

LEMMA BrokenFollows ==
  ASSUME NEW f, NEW changed, NEW i \in DOMAIN f.pending, Follows(f, changed)
  PROVE  Follows(Broken(f, i), changed)
<1> DEFINE g == Broken(f, i)
<1>1. /\ g \in AnyFetch /\ Busy(f) /\ Len(g.pending) = Len(f.pending) - 1
      /\ g.error = f.pending[i] /\ ~g.loading
  BY BrokenGives DEF Follows
<1>2. Len(f.pending) = 1 /\ f.pending[i] = Newest(f)
  BY OneIsFirst DEF Follows
<1> HIDE DEF g
<1>3. ~Busy(g) /\ Len(g.pending) = 0
  BY <1>1, <1>2, BusyIsLong
<1>4. ~changed => Visible(g) \in {"now", "other"}
  BY <1>1, <1>2 DEF Follows, Visible
<1> QED
  BY <1>1, <1>3, <1>4 DEF Follows, g

(* The error of another request, in the place of a run's.                  *)
LEMMA OtherErrorFollows ==
  ASSUME NEW f, NEW changed, Follows(f, changed)
  PROVE  Follows([f EXCEPT !.error = "other"], changed)
<1> DEFINE g == [f EXCEPT !.error = "other"]
<1>1. /\ g \in AnyFetch /\ g.pending = f.pending /\ g.error = "other"
      /\ g.loading = f.loading
  BY DEF Follows, AnyFetch
<1> HIDE DEF g
<1>2. Visible(g) = "other"
  BY <1>1 DEF Visible
<1> QED
  BY <1>1, <1>2 DEF Follows, Busy, Newest, g

LEMMA DeskStarts == DeskInit => DeskInv
<1>1. <<>> \in Seq(Ages) /\ Len(<<>>) = 0
  BY EmptySeq
<1> QED
  BY <1>1 DEF DeskInit, DeskInv, Follows, Nothing, AnyFetch, Busy

LEMMA DeskKeeps == DeskInv /\ [DeskNext]_deskVars => DeskInv'
<1> SUFFICES ASSUME DeskInv, [DeskNext]_deskVars PROVE Follows(run', edited')
  BY DEF DeskInv, Follows, Busy, Newest, Visible
<1> USE DEF DeskInv
<1>1. ASSUME FormChanges PROVE Follows(run', edited')
  BY <1>1, OutdatedFollows DEF FormChanges
<1>2. ASSUME UNCHANGED <<run, edited>> PROVE Follows(run', edited')
  BY <1>2
<1>3. ASSUME run' = [run EXCEPT !.error = "other"], UNCHANGED edited PROVE Follows(run', edited')
  BY <1>3, OtherErrorFollows
<1>4. CASE Submit
  <2>1. run' = Ask(run) /\ edited' = FALSE /\ ~run.loading
    BY <1>4 DEF Submit
  <2>2. Follows(run, TRUE)
    BY DEF Follows
  <2> QED
    BY <2>1, <2>2, AskFollows
<1>5. ASSUME NEW i \in DOMAIN run.pending, RunAnswer(i) \/ RunFailure(i) PROVE Follows(run', edited')
  <2>1. (run' = Answered(run, i) \/ run' = Broken(run, i)) /\ edited' = edited
    BY <1>5 DEF RunAnswer, RunFailure
  <2> QED
    BY <2>1, AnsweredFollows, BrokenFollows
<1>6. CASE EditField \/ EditRow \/ EditText \/ AddRow \/ RemoveRow \/ Choose
           \/ ListArrives \/ ProfilesArrive \/ TextArrives \/ SampleArrives
  <2>1. FormChanges
    BY <1>6 DEF EditField, EditRow, EditText, AddRow, RemoveRow, Choose,
                ListArrives, ProfilesArrive, TextArrives, SampleArrives
  <2> QED
    BY <1>1, <2>1
<1>7. CASE RunsArrive
  <2>1. FormChanges \/ UNCHANGED <<run, edited>>
    BY <1>7 DEF RunsArrive
  <2> QED
    BY <1>1, <1>2, <2>1
<1>8. CASE PageListArrives \/ LoadRuns \/ GenerateText \/ UNCHANGED deskVars
  <2>1. UNCHANGED <<run, edited>>
    BY <1>8 DEF PageListArrives, LoadRuns, GenerateText, deskVars
  <2> QED
    BY <1>2, <2>1
<1>9. CASE SampleFails \/ LoadFails \/ ListFails
  <2>1. (run' = [run EXCEPT !.error = "other"] \/ run' = run) /\ edited' = edited
    BY <1>9 DEF SampleFails, LoadFails, ListFails
  <2> QED
    BY <1>2, <1>3, <2>1
<1> QED
  BY <1>4, <1>5, <1>6, <1>7, <1>8, <1>9 DEF DeskNext

(* A panel whose form has not changed since its button was pressed shows   *)
(* what that run found, or an error that came later; never what an earlier *)
(* run found, whatever arrived meanwhile (SchedulerPanel.tsx:54-74, 183,   *)
(* NetworkContentionPanel.tsx:132-170, 258, MigPlannerPanel.tsx:43-78).    *)
THEOREM LastRunStaysShown == DeskSpec => []LastRunIsShown
<1>1. DeskInv => LastRunIsShown
  BY DEF DeskInv, Follows, LastRunIsShown
<1> QED
  BY <1>1, DeskStarts, DeskKeeps, PTL DEF DeskSpec

-----------------------------------------------------------------------------
(* The comparison of models.                                               *)

(* What is in flight is well formed, and what will be taken is of the      *)
(* columns as they are: every change of them cancels what was asked before *)
(* it.                                                                     *)
RequestsTyped == requests \subseteq Request

TakenAreCurrent == \A r \in requests : ~r.cancelled => r.age = "now"

CompareInv ==
  /\ results \in [Columns -> ColumnResult]
  /\ RequestsTyped
  /\ TakenAreCurrent
  /\ ColumnsAreCurrent

LEMMA AgedIsAge == ASSUME NEW a \in Ages \cup {"nothing"} PROVE Aged(a) \in Ages \cup {"nothing"}
  BY DEF Aged, Ages

(* The effect asks for every column, so that each waits for an answer.     *)
LEMMA RecomputeKeeps ==
  ASSUME CompareInv, NEW changed, Recompute(changed), slots' \subseteq Nat
  PROVE  CompareInv'
<1> USE DEF CompareInv
<1> DEFINE Asked == IF gpuKnown' THEN slots' ELSE {}
           Waiting(s) == [AgedColumn(s, changed) EXCEPT !.loading = TRUE]
           Before(r) == [r EXCEPT !.age = IF r.slot \in changed THEN Aged(@) ELSE @, !.cancelled = TRUE]
           New(s) == [slot |-> s, age |-> "now", cancelled |-> FALSE]
<1>1. ASSUME NEW s PROVE AgedColumn(s, changed) \in ColumnResult
  <2>1. NoResult \in ColumnResult
    BY DEF NoResult, ColumnResult
  <2>2. ASSUME s \in Columns PROVE results[s] \in ColumnResult
    BY <2>2
  <2>3. ASSUME NEW v \in ColumnResult PROVE [v EXCEPT !.of = Aged(@), !.error = Aged(@)] \in ColumnResult
    BY AgedIsAge DEF ColumnResult
  <2> QED
    BY <2>1, <2>2, <2>3 DEF AgedColumn
<1>2. ASSUME NEW s PROVE Waiting(s) \in ColumnResult /\ Waiting(s).loading
  BY <1>1 DEF ColumnResult
<1>3. results' = [s \in Columns \cup Asked |-> IF gpuKnown' /\ s \in slots' THEN Waiting(s) ELSE AgedColumn(s, changed)]
  BY DEF Recompute
<1>4. requests' = {Before(r) : r \in requests} \cup {New(s) : s \in Asked}
  BY DEF Recompute
<1>5. ASSUME NEW r \in requests PROVE Before(r) \in Request /\ Before(r).cancelled
  BY AgedIsAge DEF RequestsTyped, Request, Aged, Ages
<1>6. ASSUME NEW s \in Asked PROVE New(s) \in Request
  BY DEF Request, Ages
<1> HIDE DEF Waiting, Before
<1>7. Columns' = Columns \cup Asked /\ results' \in [Columns' -> ColumnResult]
  BY <1>1, <1>2, <1>3 DEF Columns
<1>8. RequestsTyped'
  BY <1>4, <1>5, <1>6 DEF RequestsTyped
<1>9. TakenAreCurrent'
  BY <1>4, <1>5 DEF TakenAreCurrent
<1>10. ColumnsAreCurrent'
  <2> SUFFICES ASSUME gpuKnown', NEW s \in slots' PROVE s \in Columns' /\ ColumnIsCurrent(s)'
    BY DEF ColumnsAreCurrent
  <2>1. s \in Columns' /\ results'[s] = Waiting(s)
    BY <1>3, <1>7
  <2>2. New(s) \in requests' /\ New(s).slot = s /\ New(s).age = "now" /\ ~New(s).cancelled
    BY <1>4
  <2> QED
    BY <2>1, <2>2, <1>2 DEF ColumnIsCurrent
<1> QED
  BY <1>7, <1>8, <1>9, <1>10

(* An answer that is taken is of its column as it is.                      *)
LEMMA SettleKeeps ==
  ASSUME CompareInv, NEW r \in requests, NEW column \in ColumnResult, Settle(r, column),
         ~column.loading, column.of = r.age \/ column.error = r.age
  PROVE  CompareInv'
<1> USE DEF CompareInv
<1>1. RequestsTyped' /\ TakenAreCurrent'
  BY DEF Settle, RequestsTyped, TakenAreCurrent
<1>2. CASE r.cancelled
  <2>1. results' = results /\ Columns' = Columns
    BY <1>2 DEF Settle, Columns
  <2>2. ASSUME NEW s \in slots, ColumnIsCurrent(s) PROVE ColumnIsCurrent(s)'
    BY <1>2, <2>1, <2>2 DEF ColumnIsCurrent, Settle
  <2> QED
    BY <1>1, <2>1, <2>2 DEF ColumnsAreCurrent, Settle
<1>3. CASE ~r.cancelled
  <2>1. results' = [s \in Columns \cup {r.slot} |-> IF s = r.slot THEN column ELSE results[s]]
    BY <1>3 DEF Settle
  <2>2. Columns' = Columns \cup {r.slot} /\ results' \in [Columns' -> ColumnResult]
    BY <2>1 DEF Columns
  <2>3. r.age = "now"
    BY <1>3 DEF TakenAreCurrent
  <2>4. ASSUME NEW s \in slots, s \in Columns, ColumnIsCurrent(s) PROVE ColumnIsCurrent(s)'
    <3>1. CASE s = r.slot
      BY <2>1, <2>3, <3>1 DEF ColumnIsCurrent
    <3>2. CASE s # r.slot
      BY <2>1, <2>4, <3>2 DEF ColumnIsCurrent, Settle
    <3> QED
      BY <3>1, <3>2
  <2> QED
    BY <1>1, <2>2, <2>4 DEF ColumnsAreCurrent, Settle
<1> QED
  BY <1>2, <1>3

LEMMA CompareStarts == CompareInit => CompareInv
<1> SUFFICES ASSUME CompareInit PROVE CompareInv
  OBVIOUS
<1> DEFINE Start == [NoResult EXCEPT !.loading = TRUE]
           New(s) == [slot |-> s, age |-> "now", cancelled |-> FALSE]
<1>1. Start \in ColumnResult /\ Start.loading
  BY DEF NoResult, ColumnResult
<1>2. /\ results = [s \in IF gpuKnown THEN slots ELSE {} |-> Start]
      /\ requests = {New(s) : s \in Columns}
      /\ slots = {1, 2}
  BY DEF CompareInit
<1> HIDE DEF Start
<1>3. Columns = IF gpuKnown THEN slots ELSE {}
  BY <1>2 DEF Columns
<1>4. results \in [Columns -> ColumnResult]
  BY <1>1, <1>2, <1>3
<1>5. RequestsTyped /\ TakenAreCurrent
  <2>1. ASSUME NEW s \in Columns PROVE New(s) \in Request /\ New(s).age = "now"
    BY <1>2, <1>3 DEF Request, Ages
  <2> QED
    BY <1>2, <2>1 DEF RequestsTyped, TakenAreCurrent
<1>6. ColumnsAreCurrent
  <2> SUFFICES ASSUME gpuKnown, NEW s \in slots PROVE s \in Columns /\ ColumnIsCurrent(s)
    BY DEF ColumnsAreCurrent
  <2>1. s \in Columns /\ results[s] = Start /\ New(s) \in requests
    BY <1>2, <1>3
  <2>2. New(s).slot = s /\ New(s).age = "now" /\ ~New(s).cancelled
    OBVIOUS
  <2> QED
    BY <1>1, <2>1, <2>2 DEF ColumnIsCurrent
<1> QED
  BY <1>4, <1>5, <1>6 DEF CompareInv

(* Slots are numbers.                                                      *)
SlotsTyped == slots \subseteq Nat /\ nextSlotId \in Nat

LEMMA CompareKeeps == SlotsTyped /\ CompareInv /\ [CompareNext]_compareVars => (SlotsTyped /\ CompareInv)'
<1> SUFFICES ASSUME SlotsTyped, CompareInv, [CompareNext]_compareVars PROVE (SlotsTyped /\ CompareInv)'
  OBVIOUS
<1>1. SlotsTyped'
  <2>1. CASE AddSlot
    <3>1. slots' = slots \cup {nextSlotId} /\ nextSlotId' = nextSlotId + 1
      BY <2>1 DEF AddSlot
    <3> QED
      BY <3>1 DEF SlotsTyped
  <2>2. ASSUME NEW s \in slots, RemoveSlot(s) PROVE SlotsTyped'
    <3>1. slots' = slots \ {s} /\ nextSlotId' = nextSlotId
      BY <2>2 DEF RemoveSlot
    <3> QED
      BY <3>1 DEF SlotsTyped
  <2>3. CASE UNCHANGED <<slots, nextSlotId>>
    BY <2>3 DEF SlotsTyped
  <2>4. ASSUME NEW s \in slots, UpdateSlot(s) \/ RenameSlot(s) PROVE UNCHANGED <<slots, nextSlotId>>
    BY <2>4 DEF UpdateSlot, RenameSlot
  <2>5. ASSUME NEW r \in requests, ColumnAnswer(r) \/ ColumnFailure(r) PROVE UNCHANGED <<slots, nextSlotId>>
    BY <2>5 DEF ColumnAnswer, ColumnFailure, Settle
  <2>6. GpuArrives \/ PickSharedGpu \/ UNCHANGED compareVars => UNCHANGED <<slots, nextSlotId>>
    BY DEF GpuArrives, PickSharedGpu, compareVars
  <2> QED
    BY <2>1, <2>2, <2>3, <2>4, <2>5, <2>6 DEF CompareNext
<1>2. CASE GpuArrives \/ PickSharedGpu \/ AddSlot \/ \E s \in slots : RemoveSlot(s) \/ UpdateSlot(s) \/ RenameSlot(s)
  <2>1. PICK changed : Recompute(changed)
    BY <1>2 DEF GpuArrives, PickSharedGpu, AddSlot, RemoveSlot, UpdateSlot, RenameSlot
  <2> QED
    BY <1>1, <2>1, RecomputeKeeps DEF SlotsTyped
<1>3. ASSUME NEW r \in requests, ColumnAnswer(r) PROVE CompareInv'
  <2> DEFINE column == [of |-> r.age, error |-> "nothing", loading |-> FALSE]
  <2>1. column \in ColumnResult
    BY DEF CompareInv, RequestsTyped, Request, ColumnResult
  <2> QED
    BY <1>3, <2>1, SettleKeeps DEF ColumnAnswer
<1>4. ASSUME NEW r \in requests, ColumnFailure(r) PROVE CompareInv'
  <2> DEFINE column == [of |-> "nothing", error |-> r.age, loading |-> FALSE]
  <2>1. column \in ColumnResult
    BY DEF CompareInv, RequestsTyped, Request, ColumnResult
  <2> QED
    BY <1>4, <2>1, SettleKeeps DEF ColumnFailure
<1>5. CASE UNCHANGED compareVars
  <2>1. UNCHANGED <<gpuKnown, slots, nextSlotId, results, requests>>
    BY <1>5 DEF compareVars
  <2>2. Columns' = Columns /\ RequestsTyped' /\ TakenAreCurrent'
    BY <2>1 DEF Columns, CompareInv, RequestsTyped, TakenAreCurrent
  <2>3. ASSUME NEW s \in slots, ColumnIsCurrent(s) PROVE ColumnIsCurrent(s)'
    BY <2>1, <2>3 DEF ColumnIsCurrent
  <2> QED
    BY <1>1, <2>1, <2>2, <2>3 DEF CompareInv, ColumnsAreCurrent
<1> QED
  BY <1>1, <1>2, <1>3, <1>4, <1>5 DEF CompareNext

-----------------------------------------------------------------------------
(* However many columns there are, and in whatever order the answers come, *)
(* no column stays with figures of inputs that were changed: the cleanup   *)
(* of the effect drops what was asked before (ComparePanel.tsx:196-285).   *)
THEOREM CompareShowsCurrent == CompareSpec => []ColumnsAreCurrent
<1>1. CompareInit => SlotsTyped
  BY DEF CompareInit, SlotsTyped
<1>2. CompareInv => ColumnsAreCurrent
  BY DEF CompareInv
<1> QED
  BY <1>1, <1>2, CompareStarts, CompareKeeps, PTL DEF CompareSpec

-----------------------------------------------------------------------------
(* Folds over the members of a sequence, from the first to the last: what  *)
(* holds at first, and after a member if before, holds in the end, for in  *)
(* a sequence the first failure would have none before it.                 *)

LEMMA NoFirstFailure ==
  ASSUME NEW n \in Nat, NEW Good, 0 \in Good, \A k \in 1 .. n : k - 1 \in Good => k \in Good
  PROVE  \A k \in 0 .. n : k \in Good
<1> DEFINE R == OpToRel(<, Nat)
           Bad == (0 .. n) \ Good
<1> SUFFICES ASSUME Bad # {} PROVE FALSE
  OBVIOUS
<1>1. IsWellFoundedOn(R, Nat)
  BY NatLessThanWellFounded
<1>2. Bad \in SUBSET Nat
  OBVIOUS
<1> HIDE DEF Bad
<1>3. PICK k \in Bad : \A m \in Bad : ~(<<m, k>> \in R)
  BY <1>1, <1>2, WFMin
<1>4. k \in 1 .. n
  BY DEF Bad
<1>5. k - 1 \in Bad
  <2>1. k \notin Good
    BY <1>3 DEF Bad
  <2>3. k - 1 \in 0 .. n
    BY ONLY <1>4, n \in Nat
  <2>2. k - 1 \notin Good
    BY <1>4, <2>1
  <2>4. QED BY <2>2, <2>3 DEF Bad
<1>6. <<k - 1, k>> \in R
  BY <1>4 DEF OpToRel
<1>7. QED BY <1>3, <1>5, <1>6

LEMMA MaxIs ==
  ASSUME NEW S \in SUBSET Int, NEW x \in S, \A y \in S : y <= x
  PROVE  Max(S) = x
<1>1. \A z \in S : (\A y \in S : z >= y) <=> z = x
  OBVIOUS
<1>2. QED BY <1>1 DEF Max

LEMMA MinIs ==
  ASSUME NEW S \in SUBSET Int, NEW x \in S, \A y \in S : x <= y
  PROVE  Min(S) = x
<1>1. \A z \in S : (\A y \in S : z <= y) <=> z = x
  OBVIOUS
<1>2. QED BY <1>1 DEF Min

LEMMA MaxOfPrefix ==
  ASSUME NEW k \in Nat, NEW s \in SUBSET (1 .. k), s # {}
  PROVE  Max(s) \in s /\ \A y \in s : y <= Max(s)
<1> DEFINE R == OpToRel(<, Nat)
           T == {k - y : y \in s}
<1>1. IsWellFoundedOn(R, Nat)
  BY NatLessThanWellFounded
<1>2. T \in SUBSET Nat /\ T # {}
  <2>1. \A y \in s : k - y \in Nat
    OBVIOUS
  <2>2. QED BY <2>1
<1>3. PICK n \in T : \A m \in T : ~(<<m, n>> \in R)
  BY <1>1, <1>2, WFMin
<1>4. PICK x \in s : n = k - x
  BY <1>3
<1>5. ASSUME NEW y \in s PROVE y <= x
  <2>1. k - y \in T /\ k - y \in Nat /\ n \in Nat
    BY <1>2
  <2>2. ~(<<k - y, n>> \in R)
    BY <1>3, <2>1
  <2>3. k - y < n => <<k - y, n>> \in R
    BY <2>1 DEF OpToRel
  <2>4. x \in Int /\ y \in Int
    OBVIOUS
  <2> HIDE DEF T, R
  <2>5. QED BY <1>4, <2>1, <2>2, <2>3, <2>4
<1>6. s \in SUBSET Int
  OBVIOUS
<1>7. Max(s) = x
  BY <1>5, <1>6, MaxIs
<1>8. QED BY <1>5, <1>7

LEMMA WholePrefix ==
  ASSUME NEW k \in Nat \ {0}
  PROVE  Max(1 .. k) = k /\ (1 .. k) \ {k} = 1 .. k - 1
<1>1. 1 .. k \in SUBSET Int /\ k \in 1 .. k /\ \A y \in 1 .. k : y <= k
  OBVIOUS
<1>2. Max(1 .. k) = k
  BY <1>1, MaxIs
<1>3. QED BY <1>2

(* The function that a fold of steps is the value of.                      *)
Steps(g, n, base, step) ==
  g = [s \in SUBSET (1 .. n) |-> IF s = {} THEN base ELSE step[Max(s)][g[s \ {Max(s)}]]]

LEMMA StepsExist ==
  ASSUME NEW n \in Nat, NEW A, NEW base \in A, NEW step \in [1 .. n -> [A -> A]]
  PROVE  \E g \in [SUBSET (1 .. n) -> A] : Steps(g, n, base, step)
<1> DEFINE D == SUBSET (1 .. n)
           body(g, s) == IF s = {} THEN base ELSE step[Max(s)][g[s \ {Max(s)}]]
           Upto(g, k) == g \in [D -> A] /\ \A s \in SUBSET (1 .. k) : g[s] = body(g, s)
           Good == {k \in 0 .. n : \E g : Upto(g, k)}
<1>0. \A s \in D : s # {} => Max(s) \in s /\ s \ {Max(s)} \in D /\ Max(s) \in 1 .. n
  BY MaxOfPrefix
<1>1. 0 \in Good
  <2> DEFINE g == [s \in D |-> base]
  <2>1. g \in [D -> A]
    OBVIOUS
  <2>2. \A s \in SUBSET (1 .. 0) : s = {}
    OBVIOUS
  <2>3. {} \in D
    OBVIOUS
  <2>4. Upto(g, 0)
    BY <2>1, <2>2, <2>3
  <2>5. 0 \in 0 .. n
    OBVIOUS
  <2> HIDE DEF Upto
  <2>6. QED BY <2>4, <2>5
<1>2. ASSUME NEW k \in 1 .. n, k - 1 \in Good PROVE k \in Good
  <2>1. PICK g : Upto(g, k - 1)
    BY <1>2
  <2> DEFINE f == [s \in D |-> IF s \in SUBSET (1 .. k - 1) THEN g[s] ELSE body(g, s)]
  <2>2. \A s \in D : body(g, s) \in A
    <3> SUFFICES ASSUME NEW s \in D, s # {} PROVE step[Max(s)][g[s \ {Max(s)}]] \in A
      OBVIOUS
    <3>1. Max(s) \in 1 .. n /\ g[s \ {Max(s)}] \in A
      BY <1>0, <2>1
    <3>2. QED BY <3>1
  <2>3. f \in [D -> A]
    BY <2>1, <2>2
  <2>4. ASSUME NEW s \in SUBSET (1 .. k) PROVE f[s] = body(f, s)
    <3>1. s \in D
      OBVIOUS
    <3>2. CASE s = {}
      BY <2>1, <3>1, <3>2
    <3>3. CASE s # {}
      <4>1. Max(s) \in s /\ (\A y \in s : y <= Max(s)) /\ k \in Nat
        <5>1. k \in Nat
          OBVIOUS
        <5>2. QED BY <3>3, <5>1, MaxOfPrefix
      <4>2. s \ {Max(s)} \in SUBSET (1 .. k - 1)
        <5> SUFFICES ASSUME NEW y \in s, y # Max(s) PROVE y \in 1 .. k - 1
          OBVIOUS
        <5>1. y \in 1 .. k /\ Max(s) \in 1 .. k /\ y <= Max(s)
          BY <4>1
        <5>2. QED BY <5>1
      <4>3. f[s \ {Max(s)}] = g[s \ {Max(s)}]
        BY <3>1, <4>2
      <4>4. f[s] = body(g, s)
        BY <2>1, <3>1
      <4> HIDE DEF f
      <4>5. QED BY <3>3, <4>3, <4>4
    <3>4. QED BY <3>2, <3>3
  <2> HIDE DEF f
  <2>5. Upto(f, k)
    <3> HIDE DEF body
    <3>1. \A s \in SUBSET (1 .. k) : f[s] = body(f, s)
      BY <2>4
    <3>2. QED BY <2>3, <3>1
  <2>6. k \in 0 .. n
    OBVIOUS
  <2> HIDE DEF Upto
  <2>7. QED BY <2>5, <2>6
<1> HIDE DEF Good
<1>3. n \in Good
  <2>1. \A k \in 1 .. n : k - 1 \in Good => k \in Good
    BY <1>2
  <2>2. \A k \in 0 .. n : k \in Good
    BY <1>1, <2>1, NoFirstFailure
  <2>3. QED BY <2>2
<1>4. PICK g : Upto(g, n)
  BY <1>3 DEF Good
<1>5. g = [s \in D |-> g[s]]
  BY <1>4
<1>6. g = [s \in D |-> body(g, s)]
  BY <1>4, <1>5
<1>7. QED BY <1>4, <1>6 DEF Steps

-----------------------------------------------------------------------------
(* The members of a sequence that are in a set.                            *)
LEMMA AmongGives ==
  ASSUME NEW E, NEW s \in Seq(E), NEW S
  PROVE  /\ Among(s, S) \in Seq(E)
         /\ \A i \in DOMAIN Among(s, S) : Among(s, S)[i] \in S /\ \E k \in DOMAIN s : s[k] = Among(s, S)[i]
         /\ \A k \in DOMAIN s : s[k] \in S => \E i \in DOMAIN Among(s, S) : Among(s, S)[i] = s[k]
<1> DEFINE n == Len(s)
           add(x, kept) == IF x \in S THEN Append(kept, x) ELSE kept
           Is(g) == g = [t \in SUBSET (1 .. n) |-> IF t = {} THEN <<>> ELSE add(s[Max(t)], g[t \ {Max(t)}])]
           G == CHOOSE g : Is(g)
<1>1. DOMAIN s = 1 .. n /\ n \in Nat /\ \A k \in 1 .. n : s[k] \in E
  OBVIOUS
<1>2. Among(s, S) = G[1 .. n]
  BY <1>1 DEF Among, FoldLeft, MapThenFoldSet
<1>3. \E g : Is(g)
  <2> DEFINE A == Seq(E)
             step == [k \in 1 .. n |-> [a \in A |-> add(s[k], a)]]
  <2>1. \A k \in 1 .. n : \A a \in A : add(s[k], a) \in A
    BY <1>1, AppendProperties
  <2>2. step \in [1 .. n -> [A -> A]]
    BY <2>1
  <2>3. <<>> \in A
    OBVIOUS
  <2> HIDE DEF step, A
  <2>4. PICK g \in [SUBSET (1 .. n) -> A] : Steps(g, n, <<>>, step)
    BY <1>1, <2>2, <2>3, StepsExist
  <2>5. \A t \in SUBSET (1 .. n) : t # {} => step[Max(t)][g[t \ {Max(t)}]] = add(s[Max(t)], g[t \ {Max(t)}])
    <3> SUFFICES ASSUME NEW t \in SUBSET (1 .. n), t # {}
                 PROVE  step[Max(t)][g[t \ {Max(t)}]] = add(s[Max(t)], g[t \ {Max(t)}])
      OBVIOUS
    <3>1. Max(t) \in 1 .. n
      BY <1>1, MaxOfPrefix
    <3>2. g[t \ {Max(t)}] \in A
      BY <2>4
    <3> HIDE DEF add
    <3>3. QED BY <3>1, <3>2 DEF step
  <2> HIDE DEF add
  <2>6. Is(g)
    BY <2>4, <2>5 DEF Steps
  <2>7. QED BY <2>6
<1>4. Is(G)
  BY <1>3
<1>5. G[{}] = <<>>
  BY <1>4
<1>6. ASSUME NEW k \in 1 .. n PROVE G[1 .. k] = add(s[k], G[1 .. k - 1])
  <2>1. Max(1 .. k) = k /\ (1 .. k) \ {k} = 1 .. k - 1 /\ 1 .. k # {} /\ 1 .. k \in SUBSET (1 .. n)
    BY <1>1, WholePrefix
  <2>2. G[1 .. k] = IF 1 .. k = {} THEN <<>> ELSE add(s[Max(1 .. k)], G[(1 .. k) \ {Max(1 .. k)}])
    BY <1>4, <2>1
  <2> HIDE DEF add, G
  <2>3. QED BY <2>1, <2>2
<1> HIDE DEF G, Is
<1> DEFINE Sifted(k) ==
             /\ G[1 .. k] \in Seq(E)
             /\ \A i \in DOMAIN G[1 .. k] : G[1 .. k][i] \in S /\ \E m \in 1 .. k : s[m] = G[1 .. k][i]
             /\ \A m \in 1 .. k : s[m] \in S => \E i \in DOMAIN G[1 .. k] : G[1 .. k][i] = s[m]
           Good == {k \in 0 .. n : Sifted(k)}
<1>7. 0 \in Good
  <2>1. 1 .. 0 = {}
    OBVIOUS
  <2>2. G[1 .. 0] = <<>> /\ 0 \in 0 .. n
    BY <1>1, <1>5, <2>1
  <2>3. Sifted(0)
    BY <2>1, <2>2
  <2>4. QED BY <2>2, <2>3
<1>8. ASSUME NEW k \in 1 .. n, k - 1 \in Good PROVE k \in Good
  <2> DEFINE old == G[1 .. k - 1]
             new == G[1 .. k]
  <2>1. Sifted(k - 1)
    BY <1>8
  <2>2. s[k] \in E /\ \A m : m \in 1 .. k <=> (m \in 1 .. k - 1 \/ m = k)
    BY <1>1
  <2>3. CASE s[k] \in S
    <3>1. new = Append(old, s[k])
      BY <1>6, <2>3
    <3>2. /\ new \in Seq(E) /\ Len(new) = Len(old) + 1 /\ new[Len(old) + 1] = s[k]
          /\ \A i \in 1 .. Len(old) : new[i] = old[i]
      BY <2>1, <2>2, <3>1, AppendProperties
    <3>3. /\ DOMAIN old = 1 .. Len(old) /\ DOMAIN new = 1 .. Len(old) + 1 /\ Len(old) \in Nat
          /\ \A i : i \in 1 .. Len(old) + 1 <=> (i \in 1 .. Len(old) \/ i = Len(old) + 1)
      BY <2>1, <3>2
    <3>4. /\ \A i \in DOMAIN old : old[i] \in S /\ \E m \in 1 .. k - 1 : s[m] = old[i]
          /\ \A m \in 1 .. k - 1 : s[m] \in S => \E i \in DOMAIN old : old[i] = s[m]
      BY <2>1
    <3> HIDE DEF old, new
    <3>5. \A i \in DOMAIN new : new[i] \in S /\ \E m \in 1 .. k : s[m] = new[i]
      BY <2>2, <2>3, <3>2, <3>3, <3>4
    <3>6. \A m \in 1 .. k : s[m] \in S => \E i \in DOMAIN new : new[i] = s[m]
      BY <2>2, <3>2, <3>3, <3>4
    <3>7. Sifted(k)
      BY <3>2, <3>5, <3>6 DEF new
    <3> HIDE DEF Sifted
    <3>8. QED BY <3>7
  <2>4. CASE s[k] \notin S
    <3>1. new = old
      BY <1>6, <2>4
    <3>2. Sifted(k)
      BY <2>1, <2>2, <2>4, <3>1
    <3> HIDE DEF Sifted
    <3>3. QED BY <3>2
  <2>5. QED BY <2>3, <2>4
<1> HIDE DEF Good
<1>9. n \in Good
  <2>1. \A k \in 1 .. n : k - 1 \in Good => k \in Good
    BY <1>8
  <2>2. \A k \in 0 .. n : k \in Good
    BY <1>1, <1>7, <2>1, NoFirstFailure
  <2>3. QED BY <1>1, <2>2
<1>10. Sifted(n)
  BY <1>9 DEF Good
<1>11. QED BY <1>1, <1>2, <1>10

-----------------------------------------------------------------------------
(* The comparison of GPUs.                                                 *)

Figure == [id : Nat, raw : Int]

BestOf(valid, lowerBetter) ==
  FoldLeft(LAMBDA b, e : IF Better(e.raw, b.raw, lowerBetter) THEN e ELSE b, valid[1], valid)

(* The best entry is one of them, and none is better.                      *)
LEMMA BestOfIs ==
  ASSUME NEW V \in Seq(Figure), V # <<>>, NEW lower \in BOOLEAN
  PROVE  \E m \in DOMAIN V : /\ BestOf(V, lower) = V[m]
                             /\ \A k \in DOMAIN V : ~Better(V[k].raw, V[m].raw, lower)
<1> DEFINE n == Len(V)
           A == {V[m] : m \in 1 .. n}
           best(e, b) == IF Better(e.raw, b.raw, lower) THEN e ELSE b
           Is(g) == g = [t \in SUBSET (1 .. n) |-> IF t = {} THEN V[1] ELSE best(V[Max(t)], g[t \ {Max(t)}])]
           G == CHOOSE g : Is(g)
<1>1. DOMAIN V = 1 .. n /\ n \in Nat \ {0} /\ \A k \in 1 .. n : V[k] \in Figure
  <2>1. DOMAIN V = 1 .. n /\ n \in Nat /\ \A k \in 1 .. n : V[k] \in Figure
    OBVIOUS
  <2>2. n # 0
    BY EmptySeq
  <2>3. QED BY <2>1, <2>2
<1>2. BestOf(V, lower) = G[1 .. n]
  BY <1>1 DEF BestOf, FoldLeft, MapThenFoldSet
<1>3. V[1] \in A
  BY <1>1
<1>4. \E g : Is(g)
  <2> DEFINE step == [k \in 1 .. n |-> [a \in A |-> best(V[k], a)]]
  <2>1. \A k \in 1 .. n : \A a \in A : best(V[k], a) \in A
    BY <1>1
  <2>2. step \in [1 .. n -> [A -> A]]
    BY <2>1
  <2> HIDE DEF step, A
  <2>3. PICK g \in [SUBSET (1 .. n) -> A] : Steps(g, n, V[1], step)
    BY <1>1, <1>3, <2>2, StepsExist
  <2>4. \A t \in SUBSET (1 .. n) : t # {} => step[Max(t)][g[t \ {Max(t)}]] = best(V[Max(t)], g[t \ {Max(t)}])
    <3> SUFFICES ASSUME NEW t \in SUBSET (1 .. n), t # {}
                 PROVE  step[Max(t)][g[t \ {Max(t)}]] = best(V[Max(t)], g[t \ {Max(t)}])
      OBVIOUS
    <3>1. Max(t) \in 1 .. n
      BY <1>1, MaxOfPrefix
    <3>2. g[t \ {Max(t)}] \in A
      BY <2>3
    <3> HIDE DEF best
    <3>3. QED BY <3>1, <3>2 DEF step
  <2> HIDE DEF best
  <2>5. Is(g)
    BY <2>3, <2>4 DEF Steps
  <2>6. QED BY <2>5
<1>5. Is(G)
  BY <1>4
<1>6. G[{}] = V[1]
  BY <1>5
<1>7. ASSUME NEW k \in 1 .. n PROVE G[1 .. k] = best(V[k], G[1 .. k - 1])
  <2>1. Max(1 .. k) = k /\ (1 .. k) \ {k} = 1 .. k - 1 /\ 1 .. k # {} /\ 1 .. k \in SUBSET (1 .. n)
    BY <1>1, WholePrefix
  <2>2. G[1 .. k] = IF 1 .. k = {} THEN V[1] ELSE best(V[Max(1 .. k)], G[(1 .. k) \ {Max(1 .. k)}])
    BY <1>5, <2>1
  <2> HIDE DEF best, G
  <2>3. QED BY <2>1, <2>2
<1> HIDE DEF G, Is
<1> DEFINE Found(k) == \E m \in 1 .. n : /\ G[1 .. k] = V[m]
                                         /\ \A i \in 1 .. k : ~Better(V[i].raw, V[m].raw, lower)
           Good == {k \in 0 .. n : Found(k)}
<1>8. 0 \in Good
  <2>1. 1 .. 0 = {}
    OBVIOUS
  <2>2. G[1 .. 0] = V[1] /\ 0 \in 0 .. n /\ 1 \in 1 .. n
    BY <1>1, <1>6, <2>1
  <2>3. QED BY <2>1, <2>2
<1>9. ASSUME NEW k \in 1 .. n, k - 1 \in Good PROVE k \in Good
  <2>1. PICK m \in 1 .. n : /\ G[1 .. k - 1] = V[m]
                            /\ \A i \in 1 .. k - 1 : ~Better(V[i].raw, V[m].raw, lower)
    BY <1>9
  <2>2. G[1 .. k] = best(V[k], V[m])
    BY <1>7, <2>1
  <2>3. k \in 0 .. n /\ \A i : i \in 1 .. k <=> (i \in 1 .. k - 1 \/ i = k)
    BY <1>1
  <2>4. V[k].raw \in Int /\ V[m].raw \in Int /\ \A i \in 1 .. k - 1 : V[i].raw \in Int
    BY <1>1 DEF Figure
  <2> HIDE DEF Good
  <2>5. CASE Better(V[k].raw, V[m].raw, lower)
    <3>1. G[1 .. k] = V[k]
      BY <2>2, <2>5
    <3>2. \A i \in 1 .. k - 1 : ~Better(V[i].raw, V[k].raw, lower)
      BY <2>1, <2>4, <2>5 DEF Better
    <3>3. ~Better(V[k].raw, V[k].raw, lower)
      BY <2>4 DEF Better
    <3>4. QED BY <2>3, <3>1, <3>2, <3>3 DEF Good
  <2>6. CASE ~Better(V[k].raw, V[m].raw, lower)
    <3>1. G[1 .. k] = V[m]
      BY <2>2, <2>6
    <3>2. QED BY <2>1, <2>3, <2>6, <3>1 DEF Good
  <2>7. QED BY <2>5, <2>6
<1> HIDE DEF Good
<1>10. n \in Good
  <2>1. \A k \in 1 .. n : k - 1 \in Good => k \in Good
    BY <1>9
  <2>2. \A k \in 0 .. n : k \in Good
    BY <1>1, <1>8, <2>1, NoFirstFailure
  <2>3. QED BY <1>1, <2>2
<1>11. QED BY <1>1, <1>2, <1>10 DEF Good

(* So figures have a least and a greatest.                                 *)
LEMMA RawBounds ==
  ASSUME NEW V \in Seq(Figure), V # <<>>
  PROVE  LET raws == {V[i].raw : i \in DOMAIN V}
         IN  /\ Min(raws) \in raws /\ \A v \in raws : Min(raws) <= v
             /\ Max(raws) \in raws /\ \A v \in raws : v <= Max(raws)
             /\ raws \in SUBSET Int
<1> DEFINE raws == {V[i].raw : i \in DOMAIN V}
<1>0. \A k \in DOMAIN V : V[k].raw \in Int
  <2>1. \A k \in DOMAIN V : V[k] \in Figure
    OBVIOUS
  <2>2. QED BY <2>1 DEF Figure
<1>1. raws \in SUBSET Int
  BY <1>0
<1>2. PICK m \in DOMAIN V : \A k \in DOMAIN V : ~Better(V[k].raw, V[m].raw, TRUE)
  BY BestOfIs
<1>3. PICK p \in DOMAIN V : \A k \in DOMAIN V : ~Better(V[k].raw, V[p].raw, FALSE)
  BY BestOfIs
<1>4. V[m].raw \in raws /\ \A v \in raws : V[m].raw <= v
  <2>1. \A k \in DOMAIN V : V[m].raw <= V[k].raw
    BY <1>0, <1>2 DEF Better
  <2>2. QED BY <2>1
<1>5. V[p].raw \in raws /\ \A v \in raws : v <= V[p].raw
  <2>1. \A k \in DOMAIN V : V[k].raw <= V[p].raw
    BY <1>0, <1>3 DEF Better
  <2>2. QED BY <2>1
<1> HIDE DEF raws
<1>6. Min(raws) = V[m].raw
  BY <1>1, <1>4, MinIs
<1>7. Max(raws) = V[p].raw
  BY <1>1, <1>5, MaxIs
<1>8. QED BY <1>1, <1>4, <1>5, <1>6, <1>7 DEF raws

LEMMA Quotients ==
  ASSUME NEW d \in Nat \ {0}
  PROVE  (80 * d) \div d = 80 /\ (80 * 0) \div d = 0
<1>1. ASSUME NEW q \in Nat PROVE (q * d) \div d = q
  <2> DEFINE n == q * d
             a == n \div d
             r == n % d
  <2>1. n \in Nat
    OBVIOUS
  <2>2. a \in Int /\ r \in 0 .. d - 1 /\ n = d * a + r
    BY <2>1
  <2>3. n = d * q
    OBVIOUS
  <2> HIDE DEF a, r, n
  <2>4. \A x, y \in Int : x > y => d * x >= d * y + d
    <3> SUFFICES ASSUME NEW x \in Int, NEW y \in Int, x > y PROVE d * x >= d * y + d
      OBVIOUS
    <3>1. x - y - 1 \in Nat
      OBVIOUS
    <3>2. d * (x - y - 1) >= 0
      BY <3>1
    <3>3. QED BY <3>2
  <2>5. d * a \in Int /\ d * q \in Int
    BY <2>2
  <2>6. ~(a > q) /\ ~(q > a)
    BY <2>2, <2>3, <2>4, <2>5
  <2>7. QED BY <2>2, <2>6 DEF a, n
<1>2. 80 * 0 = 0 * d
  OBVIOUS
<1>3. QED BY <1>1, <1>2

-----------------------------------------------------------------------------
(* Columns have ids of their own, and GPUs of the catalogue, if any.       *)
GpuCompareInv ==
  /\ gpus \in {<<>>, Catalogue}
  /\ gpuSlots \in Seq(Slot)
  /\ nextGpuSlot \in Nat
  /\ \A i \in DOMAIN gpuSlots : gpuSlots[i].id < nextGpuSlot
  /\ \A i, j \in DOMAIN gpuSlots : gpuSlots[i].id = gpuSlots[j].id => i = j
  /\ row \in Row /\ bestOnly \in BOOLEAN

LEMMA GpusTyped ==
  ASSUME GpuCompareAssumption, gpus \in {<<>>, Catalogue}
  PROVE  /\ gpus \in Seq(Range(Catalogue)) /\ Range(gpus) \in SUBSET Range(Catalogue)
         /\ \A i : GpuAt(i) \in Range(Catalogue) \cup {None}
<1>1. gpus \in Seq(Range(Catalogue)) /\ Range(gpus) \in SUBSET Range(Catalogue)
  <2>1. Catalogue \in Seq(Range(Catalogue))
    BY DEF GpuCompareAssumption
  <2>2. <<>> \in Seq(Range(Catalogue)) /\ DOMAIN <<>> = {}
    OBVIOUS
  <2>3. CASE gpus = <<>>
    BY <2>2, <2>3 DEF Range
  <2>4. CASE gpus = Catalogue
    BY <2>1, <2>4
  <2>5. QED BY <2>3, <2>4
<1>2. gpus # <<>> => 1 \in DOMAIN gpus
  BY <1>1, EmptySeq
<1>3. \A i \in DOMAIN gpus : gpus[i] \in Range(Catalogue)
  BY <1>1
<1>4. QED BY <1>1, <1>2, <1>3 DEF GpuAt

LEMMA GpuCompareStart == GpuCompareAssumption /\ GpuCompareInit => GpuCompareInv
<1> SUFFICES ASSUME GpuCompareAssumption, GpuCompareInit PROVE GpuCompareInv
  OBVIOUS
<1>1. gpus \in {<<>>, Catalogue} /\ nextGpuSlot = 3 /\ row \in Row /\ bestOnly = TRUE
  BY DEF GpuCompareInit
<1>2. GpuAt(1) \in Range(Catalogue) \cup {None} /\ GpuAt(2) \in Range(Catalogue) \cup {None}
  BY <1>1, GpusTyped
<1> DEFINE a == [id |-> 1, gpuId |-> GpuAt(1)]
           b == [id |-> 2, gpuId |-> GpuAt(2)]
<1>3. a \in Slot /\ b \in Slot /\ a.id = 1 /\ b.id = 2
  BY <1>2 DEF Slot
<1>4. gpuSlots = <<a, b>>
  BY DEF GpuCompareInit
<1> HIDE DEF a, b
<1>5. /\ gpuSlots \in Seq(Slot) /\ DOMAIN gpuSlots = {1, 2}
      /\ gpuSlots[1].id = 1 /\ gpuSlots[2].id = 2
  BY <1>3, <1>4
<1>6. QED BY <1>1, <1>5 DEF GpuCompareInv

LEMMA GpuCompareStep ==
  ASSUME GpuCompareAssumption, GpuCompareInv, [GpuCompareNext]_gpuCompareVars
  PROVE  GpuCompareInv'
<1>1. /\ gpus \in {<<>>, Catalogue} /\ gpuSlots \in Seq(Slot) /\ nextGpuSlot \in Nat
      /\ \A i \in DOMAIN gpuSlots : gpuSlots[i].id < nextGpuSlot /\ gpuSlots[i].id \in Nat
      /\ \A i, j \in DOMAIN gpuSlots : gpuSlots[i].id = gpuSlots[j].id => i = j
      /\ row \in Row /\ bestOnly \in BOOLEAN
      /\ DOMAIN gpuSlots = 1 .. Len(gpuSlots) /\ Len(gpuSlots) \in Nat
  <2>1. \A i \in DOMAIN gpuSlots : gpuSlots[i] \in Slot
    BY DEF GpuCompareInv
  <2>2. QED BY <2>1 DEF GpuCompareInv, Slot
<1>2. CASE GpusArrive
  BY <1>1, <1>2 DEF GpusArrive, GpuCompareInv
<1>3. CASE AddGpu
  <2> DEFINE unused == Among(gpus, Range(gpus) \ {gpuSlots[i].gpuId : i \in DOMAIN gpuSlots})
             g == IF unused # <<>> THEN unused[1] ELSE GpuAt(1)
             e == [id |-> nextGpuSlot, gpuId |-> g]
             n == Len(gpuSlots)
  <2>1. /\ gpuSlots' = Append(gpuSlots, e) /\ nextGpuSlot' = nextGpuSlot + 1
        /\ gpus' = gpus /\ row' = row /\ bestOnly' = bestOnly
    BY <1>3 DEF AddGpu
  <2>2. g \in Range(Catalogue) \cup {None}
    <3>1. gpus \in Seq(Range(Catalogue)) /\ GpuAt(1) \in Range(Catalogue) \cup {None}
      BY <1>1, GpusTyped
    <3>2. unused \in Seq(Range(Catalogue))
      BY <3>1, AmongGives
    <3> HIDE DEF unused
    <3>3. unused # <<>> => unused[1] \in Range(Catalogue)
      BY <3>2, EmptySeq
    <3>4. QED BY <3>1, <3>3
  <2> HIDE DEF g
  <2>3. e \in Slot /\ e.id = nextGpuSlot
    BY <1>1, <2>2 DEF Slot
  <2> HIDE DEF e
  <2>4. /\ gpuSlots' \in Seq(Slot) /\ Len(gpuSlots') = n + 1 /\ gpuSlots'[n + 1] = e
        /\ \A i \in 1 .. n : gpuSlots'[i] = gpuSlots[i]
    BY <1>1, <2>1, <2>3, AppendProperties
  <2>5. DOMAIN gpuSlots' = 1 .. n + 1 /\ \A i : i \in 1 .. n + 1 <=> (i \in 1 .. n \/ i = n + 1)
    BY <1>1, <2>4
  <2>6. \A i \in DOMAIN gpuSlots' : gpuSlots'[i].id < nextGpuSlot'
    BY <1>1, <2>1, <2>3, <2>4, <2>5
  <2>7. \A i, j \in DOMAIN gpuSlots' : gpuSlots'[i].id = gpuSlots'[j].id => i = j
    BY <1>1, <2>3, <2>4, <2>5
  <2>8. QED BY <1>1, <2>1, <2>4, <2>6, <2>7 DEF GpuCompareInv
<1>4. ASSUME NEW i \in DOMAIN gpuSlots, RemoveGpu(i) PROVE GpuCompareInv'
  <2> DEFINE n == Len(gpuSlots)
             s == SubSeq(gpuSlots, 1, i - 1)
             u == SubSeq(gpuSlots, i + 1, n)
             at(k) == IF k < i THEN k ELSE k + 1
  <2>1. /\ gpuSlots' = s \o u /\ nextGpuSlot' = nextGpuSlot
        /\ gpus' = gpus /\ row' = row /\ bestOnly' = bestOnly
    BY <1>4 DEF RemoveGpu
  <2>2. i \in 1 .. n
    BY <1>1
  <2>3. s \in Seq(Slot) /\ Len(s) = i - 1 /\ \A k \in 1 .. i - 1 : s[k] = gpuSlots[k]
    <3>1. 1 \in 1 .. n + 1 /\ i - 1 \in 0 .. n /\ (i - 1) - 1 + 1 = i - 1
      BY <1>1, <2>2
    <3>2. QED BY <1>1, <2>2, <3>1, SubSeqProperties
  <2>4. u \in Seq(Slot) /\ Len(u) = n - i /\ \A k \in 1 .. n - i : u[k] = gpuSlots[i + k]
    <3>1. i + 1 \in 1 .. n + 1 /\ n \in 0 .. n /\ n - (i + 1) + 1 = n - i
      BY <1>1, <2>2
    <3>2. /\ u \in Seq(Slot)
          /\ Len(u) = IF i + 1 <= n THEN n - (i + 1) + 1 ELSE 0
          /\ \A k \in 1 .. n - (i + 1) + 1 : u[k] = gpuSlots[(i + 1) + k - 1]
      BY <1>1, <3>1, SubSeqProperties
    <3> HIDE DEF u
    <3>3. Len(u) = n - i
      BY <1>1, <2>2, <3>2
    <3>4. \A k \in 1 .. n - i : (i + 1) + k - 1 = i + k
      BY <1>1, <2>2
    <3>5. QED BY <3>1, <3>2, <3>3, <3>4
  <2> HIDE DEF s, u
  <2>5. /\ gpuSlots' \in Seq(Slot) /\ Len(gpuSlots') = n - 1
        /\ \A k \in 1 .. i - 1 : gpuSlots'[k] = s[k]
        /\ \A k \in 1 .. n - i : gpuSlots'[(i - 1) + k] = u[k]
    <3>1. /\ s \o u \in Seq(Slot) /\ Len(s \o u) = Len(s) + Len(u)
          /\ \A k \in 1 .. Len(s) : (s \o u)[k] = s[k]
          /\ \A k \in 1 .. Len(u) : (s \o u)[Len(s) + k] = u[k]
      <4>1. /\ s \o u \in Seq(Slot) /\ Len(s \o u) = Len(s) + Len(u)
            /\ \A k \in 1 .. Len(s) + Len(u) : (s \o u)[k] = IF k <= Len(s) THEN s[k] ELSE u[k - Len(s)]
        BY <2>3, <2>4, ConcatProperties
      <4>2. Len(s) \in Nat /\ Len(u) \in Nat
        BY <2>3, <2>4
      <4> HIDE DEF s, u
      <4>3. \A k \in 1 .. Len(u) : Len(s) + k \in 1 .. Len(s) + Len(u) /\ ~(Len(s) + k <= Len(s)) /\ (Len(s) + k) - Len(s) = k
        BY <4>2
      <4>4. QED BY <4>1, <4>2, <4>3
    <3>2. (i - 1) + (n - i) = n - 1
      BY <1>1, <2>2
    <3>3. QED BY <2>1, <2>3, <2>4, <3>1, <3>2
  <2>6. \A k \in 1 .. n - 1 : gpuSlots'[k] = gpuSlots[at(k)] /\ at(k) \in 1 .. n
    <3> SUFFICES ASSUME NEW k \in 1 .. n - 1 PROVE gpuSlots'[k] = gpuSlots[at(k)] /\ at(k) \in 1 .. n
      OBVIOUS
    <3>1. CASE k < i
      <4>1. k \in 1 .. i - 1 /\ k \in 1 .. n
        BY <1>1, <2>2, <3>1
      <4>2. QED BY <2>3, <2>5, <3>1, <4>1
    <3>2. CASE ~(k < i)
      <4> DEFINE m == k - (i - 1)
      <4>1. m \in 1 .. n - i /\ (i - 1) + m = k /\ i + m = k + 1 /\ k + 1 \in 1 .. n
        BY <1>1, <2>2, <3>2
      <4>2. gpuSlots'[(i - 1) + m] = gpuSlots[i + m]
        BY <2>4, <2>5, <4>1
      <4> HIDE DEF m
      <4>3. QED BY <3>2, <4>1, <4>2
    <3>3. QED BY <3>1, <3>2
  <2>7. \A k, m \in 1 .. n - 1 : at(k) = at(m) => k = m
    BY <1>1, <2>2
  <2>8. DOMAIN gpuSlots' = 1 .. n - 1
    BY <2>5
  <2> HIDE DEF at
  <2>9. \A k \in DOMAIN gpuSlots' : gpuSlots'[k].id < nextGpuSlot'
    BY <1>1, <2>1, <2>6, <2>8
  <2>10. \A k, m \in DOMAIN gpuSlots' : gpuSlots'[k].id = gpuSlots'[m].id => k = m
    BY <1>1, <2>6, <2>7, <2>8
  <2>11. QED BY <1>1, <2>1, <2>5, <2>9, <2>10 DEF GpuCompareInv
<1>5. ASSUME NEW i \in DOMAIN gpuSlots, NEW k \in DOMAIN gpus, UpdateGpu(i, gpus[k]) PROVE GpuCompareInv'
  <2> DEFINE e == [gpuSlots[i] EXCEPT !.gpuId = gpus[k]]
  <2>1. /\ gpuSlots' = [gpuSlots EXCEPT ![i] = e] /\ nextGpuSlot' = nextGpuSlot
        /\ gpus' = gpus /\ row' = row /\ bestOnly' = bestOnly
    BY <1>5 DEF UpdateGpu
  <2>2. e \in Slot /\ e.id = gpuSlots[i].id
    <3>1. gpus[k] \in Range(Catalogue)
      BY <1>1, GpusTyped
    <3>2. gpuSlots[i] \in Slot
      BY <1>1
    <3>3. QED BY <3>1, <3>2 DEF Slot
  <2> HIDE DEF e
  <2>3. gpuSlots' \in Seq(Slot) /\ DOMAIN gpuSlots' = DOMAIN gpuSlots
    BY <1>1, <2>1, <2>2
  <2>4. \A m \in DOMAIN gpuSlots : gpuSlots'[m].id = gpuSlots[m].id
    BY <1>1, <2>1, <2>2
  <2>5. QED BY <1>1, <2>1, <2>3, <2>4 DEF GpuCompareInv
<1>6. CASE ToggleHighlight
  BY <1>1, <1>6 DEF ToggleHighlight, GpuCompareInv
<1>7. CASE UNCHANGED gpuCompareVars
  BY <1>7 DEF gpuCompareVars, GpuCompareInv
<1>8. QED BY <1>2, <1>3, <1>4, <1>5, <1>6, <1>7 DEF GpuCompareNext

-----------------------------------------------------------------------------
LEMMA GpuBest ==
  ASSUME GpuCompareAssumption, GpuCompareInv
  PROVE  BestIsDisplayed
<1> DEFINE low == row.lowerBetter
           E == Entries
           V == Valid(E)
           shown == {i \in DOMAIN gpuSlots : Displayed(i) # None}
           AnyEntry == [id : Nat, raw : Int \cup {None}]
<1>1. low \in BOOLEAN /\ row.figure \in Figures
  BY DEF GpuCompareInv, Row
<1>2. \A i \in DOMAIN slotGpus : slotGpus[i] \in Range(Catalogue)
  <2> DEFINE ids == [i \in DOMAIN gpuSlots |-> gpuSlots[i].gpuId]
             all == Range(Catalogue) \cup {None}
  <2>1. \A i \in DOMAIN gpuSlots : gpuSlots[i] \in Slot
    BY DEF GpuCompareInv
  <2>2. DOMAIN gpuSlots = 1 .. Len(gpuSlots) /\ Len(gpuSlots) \in Nat
    BY DEF GpuCompareInv
  <2>3. \A i \in DOMAIN gpuSlots : gpuSlots[i].gpuId \in all
    BY <2>1 DEF Slot
  <2>4. ids \in Seq(all)
    BY <2>2, <2>3
  <2>5. Range(gpus) \in SUBSET Range(Catalogue)
    BY GpusTyped DEF GpuCompareInv
  <2>6. slotGpus = Among(ids, Range(gpus))
    BY DEF slotGpus
  <2> HIDE DEF ids, all
  <2>7. \A i \in DOMAIN Among(ids, Range(gpus)) : Among(ids, Range(gpus))[i] \in Range(gpus)
    BY <2>4, AmongGives
  <2>8. QED BY <2>5, <2>6, <2>7
<1>3. \A i : Displayed(i) \in Int \cup {None}
  BY <1>1, <1>2 DEF GpuCompareAssumption, Displayed, Range
<1>4. /\ DOMAIN E = DOMAIN gpuSlots
      /\ \A i \in DOMAIN gpuSlots : E[i].id = gpuSlots[i].id /\ E[i].raw = Displayed(i) /\ E[i] \in AnyEntry
      /\ E \in Seq(AnyEntry)
  <2>1. DOMAIN gpuSlots = 1 .. Len(gpuSlots) /\ Len(gpuSlots) \in Nat /\ \A i \in DOMAIN gpuSlots : gpuSlots[i] \in Slot
    BY DEF GpuCompareInv
  <2>2. \A i \in DOMAIN gpuSlots : gpuSlots[i].id \in Nat
    BY <2>1 DEF Slot
  <2>3. E = [i \in DOMAIN gpuSlots |-> [id |-> gpuSlots[i].id, raw |-> Displayed(i)]]
    BY DEF Entries, Displayed
  <2> HIDE DEF E
  <2>4. \A i \in DOMAIN gpuSlots : [id |-> gpuSlots[i].id, raw |-> Displayed(i)] \in AnyEntry
    BY <1>3, <2>2
  <2> HIDE DEF AnyEntry
  <2>5. QED BY <2>1, <2>3, <2>4
<1>5. \A i, j \in DOMAIN gpuSlots : E[i].id = E[j].id => i = j
  BY <1>4 DEF GpuCompareInv
<1> HIDE DEF E
<1>6. /\ \A k \in DOMAIN V : \E i \in shown : V[k] = E[i]
      /\ \A i \in shown : \E k \in DOMAIN V : V[k] = E[i]
      /\ V \in Seq(AnyEntry)
  <2> DEFINE S == {e \in Range(E) : e.raw # None}
  <2>1. V = Among(E, S)
    BY DEF Valid
  <2>2. /\ V \in Seq(AnyEntry)
        /\ \A k \in DOMAIN V : V[k] \in S /\ \E i \in DOMAIN E : E[i] = V[k]
        /\ \A i \in DOMAIN E : E[i] \in S => \E k \in DOMAIN V : V[k] = E[i]
    <3> HIDE DEF S
    <3>1. QED BY <1>4, <2>1, AmongGives
  <2>3. \A i \in DOMAIN E : E[i] \in S <=> i \in shown
    BY <1>4 DEF Range
  <2> HIDE DEF S, V, shown
  <2>4. DOMAIN E = DOMAIN gpuSlots
    BY <1>4
  <2>5. \A k \in DOMAIN V : \E i \in shown : V[k] = E[i]
    BY <2>2, <2>3
  <2>6. shown \in SUBSET DOMAIN E
    BY <2>4 DEF shown
  <2>7. \A i \in shown : \E k \in DOMAIN V : V[k] = E[i]
    BY <2>2, <2>3, <2>6
  <2>8. QED BY <2>2, <2>5, <2>7
<1>7. V \in Seq(Figure) /\ DOMAIN V = 1 .. Len(V) /\ Len(V) \in Nat
  <2>1. \A i \in shown : E[i] \in Figure
    BY <1>3, <1>4 DEF Figure
  <2>2. \A k \in DOMAIN V : V[k] \in Figure
    BY <1>6, <2>1
  <2>3. DOMAIN V = 1 .. Len(V) /\ Len(V) \in Nat /\ V = [k \in 1 .. Len(V) |-> V[k]]
    BY <1>6
  <2> HIDE DEF V
  <2>4. QED BY <2>2, <2>3
<1> DEFINE best == BestOf(V, low)
           tied == Len(V) < 2 \/ (\A k \in DOMAIN V : V[k].raw = best.raw)
<1>8. BestId(E, low) = IF tied THEN None ELSE best.id
  BY DEF BestId, BestOf
<1> HIDE DEF V
<1>9. V # <<>> => \E m \in DOMAIN V : /\ best = V[m]
                                      /\ \A k \in DOMAIN V : ~Better(V[k].raw, V[m].raw, low)
  BY <1>1, <1>7, BestOfIs
<1>10. CASE \E i, j \in shown : Displayed(i) # Displayed(j)
  <2>1. PICK i \in shown, j \in shown : Displayed(i) # Displayed(j)
    BY <1>10
  <2>2. PICK k \in DOMAIN V, l \in DOMAIN V : V[k] = E[i] /\ V[l] = E[j]
    BY <1>6
  <2>3. V[k].raw # V[l].raw
    BY <1>4, <2>1, <2>2
  <2>4. V # <<>> /\ Len(V) >= 2
    <3>1. k # l /\ k \in 1 .. Len(V) /\ l \in 1 .. Len(V)
      BY <1>7, <2>3
    <3>2. Len(V) >= 2
      BY <1>7, <3>1
    <3>3. QED BY <3>2, EmptySeq
  <2>5. ~tied
    BY <1>7, <2>3, <2>4
  <2>6. PICK m \in DOMAIN V : best = V[m] /\ \A p \in DOMAIN V : ~Better(V[p].raw, V[m].raw, low)
    BY <1>9, <2>4
  <2>7. PICK w \in shown : V[m] = E[w]
    BY <1>6
  <2>8. w \in DOMAIN gpuSlots /\ gpuSlots[w].id = best.id /\ best.raw = Displayed(w)
    BY <1>4, <2>6, <2>7
  <2>9. \A j2 \in shown : ~Better(Displayed(j2), Displayed(w), low)
    <3> SUFFICES ASSUME NEW j2 \in shown PROVE ~Better(Displayed(j2), Displayed(w), low)
      OBVIOUS
    <3>1. PICK p \in DOMAIN V : V[p] = E[j2]
      BY <1>6
    <3>2. V[p].raw = Displayed(j2) /\ V[m].raw = Displayed(w)
      BY <1>4, <2>7, <3>1
    <3>3. QED BY <2>6, <3>2
  <2>10. Normalized(E, low)[best.id] = 100
    <3> DEFINE raws == {V[p].raw : p \in DOMAIN V}
               x == CHOOSE p \in DOMAIN V : V[p].id = best.id
               hi == Max(raws)
               lo == Min(raws)
               scaled(v) == IF lo = hi THEN 80 ELSE (80 * (v - lo)) \div (hi - lo)
    <3>1. V[x].raw = best.raw
      <4>1. x \in DOMAIN V /\ V[x].id = V[m].id
        BY <2>6
      <4> HIDE DEF x
      <4>2. PICK z \in shown : V[x] = E[z]
        BY <1>6, <4>1
      <4>3. z = w
        BY <1>5, <2>7, <4>1, <4>2
      <4>4. QED BY <2>6, <2>7, <4>2, <4>3
    <3>2. best.id \in {V[p].id : p \in DOMAIN V}
      BY <2>6
    <3>3. Normalized(E, low)[best.id]
            = 20 + (IF low THEN 80 - scaled(V[x].raw) ELSE scaled(V[x].raw))
      BY <3>2 DEF Normalized, V
    <3>4. /\ lo \in raws /\ \A v \in raws : lo <= v
          /\ hi \in raws /\ \A v \in raws : v <= hi
          /\ raws \in SUBSET Int
      BY <1>7, <2>4, RawBounds
    <3>5. \A p \in DOMAIN V : V[p].raw \in raws
      OBVIOUS
    <3>6. best.raw \in raws /\ \A v \in raws : ~Better(v, best.raw, low)
      BY <2>6
    <3>7. lo # hi
      <4>1. V[k].raw \in raws /\ V[l].raw \in raws
        BY <2>2, <3>5
      <4> HIDE DEF raws, lo, hi
      <4>2. /\ lo <= V[k].raw /\ V[k].raw <= hi /\ lo <= V[l].raw /\ V[l].raw <= hi
            /\ V[k].raw \in Int /\ V[l].raw \in Int /\ lo \in Int /\ hi \in Int
        BY <3>4, <4>1
      <4>3. QED BY ONLY <2>3, <4>2
    <3> HIDE DEF raws, lo, hi, x, best
    <3>8. hi - lo \in Nat \ {0}
      BY <3>4, <3>7
    <3>9. best.raw = IF low THEN lo ELSE hi
      <4>1. best.raw \in Int /\ lo \in Int /\ hi \in Int /\ lo <= best.raw /\ best.raw <= hi
        BY <3>4, <3>6
      <4>2. ~Better(lo, best.raw, low) /\ ~Better(hi, best.raw, low)
        BY <3>4, <3>6
      <4>3. CASE low
        BY <4>1, <4>2, <4>3 DEF Better
      <4>4. CASE ~low
        BY <4>1, <4>2, <4>4 DEF Better
      <4>5. QED BY <4>3, <4>4
    <3>10. (80 * (hi - lo)) \div (hi - lo) = 80 /\ (80 * 0) \div (hi - lo) = 0
      BY <3>8, Quotients
    <3>11. lo - lo = 0
      BY <3>4
    <3>12. scaled(V[x].raw) = IF low THEN 0 ELSE 80
      BY <1>1, <3>1, <3>7, <3>9, <3>10, <3>11
    <3> HIDE DEF scaled
    <3>13. QED BY <1>1, <3>3, <3>12
  <2> HIDE DEF best, tied
  <2>11. bestOnly => Highlighted = best.id /\ Radar[Highlighted] = 100
    BY <1>8, <2>5, <2>10 DEF Highlighted, Radar, E
  <2>12. QED BY <1>10, <2>8, <2>9, <2>11 DEF BestIsDisplayed
<1>11. CASE ~ \E i, j \in shown : Displayed(i) # Displayed(j)
  <2>1. \A k, l \in DOMAIN V : V[k].raw = V[l].raw
    <3> SUFFICES ASSUME NEW k \in DOMAIN V, NEW l \in DOMAIN V PROVE V[k].raw = V[l].raw
      OBVIOUS
    <3>1. PICK i \in shown, j \in shown : V[k] = E[i] /\ V[l] = E[j]
      BY <1>6
    <3>2. QED BY <1>4, <1>11, <3>1
  <2>2. tied
    <3>1. CASE Len(V) < 2
      BY <3>1
    <3>2. CASE Len(V) >= 2
      <4>1. V # <<>>
        BY <1>7, <3>2, EmptySeq
      <4>2. QED BY <1>9, <2>1, <4>1
    <3>3. QED BY <1>7, <3>1, <3>2
  <2> HIDE DEF best, tied
  <2>3. Highlighted = None
    BY <1>8, <2>2 DEF Highlighted, E
  <2>4. QED BY <1>11, <2>3 DEF BestIsDisplayed
<1>12. QED BY <1>10, <1>11

(* For any catalogue, any figures and any number of columns: the column    *)
(* that is highlighted is one than which none shows a better figure, and   *)
(* it reaches the rim of the chart; and none is if all show the same       *)
(* (GpuComparePanel.tsx:209-221, 240-258).                                 *)
THEOREM BestStaysDisplayed == GpuCompareSpec => []BestIsDisplayed
<1>1. GpuCompareInit => GpuCompareInv
  BY GpuCompareAssumption, GpuCompareStart
<1>2. GpuCompareInv /\ [GpuCompareNext]_gpuCompareVars => GpuCompareInv'
  BY GpuCompareAssumption, GpuCompareStep
<1>3. GpuCompareInv => BestIsDisplayed
  BY GpuCompareAssumption, GpuBest
<1>4. QED BY <1>1, <1>2, <1>3, PTL DEF GpuCompareSpec

-----------------------------------------------------------------------------
(* The inference servers of the Kubernetes launcher.                       *)

(* A call of the panel that creates or deletes.                            *)
Owns(c) == c.mine /\ c.kind # "complete"

(* What the launcher has done when such a call is at a point, if nothing   *)
(* went wrong by half.                                                     *)
Reached(c) ==
  /\ c.name \in deployments <=> \/ c.kind = "launch" /\ c.at \in {"service", "answered"}
                                \/ c.kind = "stop" /\ c.at \in {"deployment", "failed"}
  /\ c.name \in services <=> \/ c.kind = "launch" /\ c.at = "answered"
                             \/ c.kind = "stop" /\ c.at \in {"deployment", "service", "failed"}

ServingTyped ==
  /\ calls \subseteq Call /\ given \subseteq Servers
  /\ deployments \cup services \subseteq given
  /\ serverName \in given \cup {NoServer}
  /\ \A c \in calls : c.name \in given /\ (c.kind # "complete" => c.at # "pod")

(* A launch is under way only while no server is shown, a stop only of the *)
(* one that is.                                                            *)
OneAtATime ==
  /\ \A c, d \in calls : Owns(c) /\ Owns(d) => c = d
  /\ \A c \in calls : Owns(c) => IF c.kind = "launch" THEN launching /\ serverName = NoServer
                                 ELSE stopping /\ serverName = c.name

Known(n) == n = serverName \/ \E c \in calls : Owns(c) /\ c.name = n

ServingInv ==
  /\ ServingTyped
  /\ \A c \in calls : ~c.mine => c.name \in faulted
  /\ OneAtATime
  /\ \A c \in calls : Owns(c) /\ c.name \notin faulted => Reached(c)
  /\ \A n \in deployments \cup services : n \notin faulted => Known(n)
  /\ (serverName # NoServer /\ serverName \notin faulted /\ \A c \in calls : ~Owns(c))
       => serverName \in deployments \cap services

LEMMA InvTracks == ASSUME ServingInv PROVE ServersAreTracked
<1> DEFINE handled == {c.name : c \in {d \in calls : d.mine /\ d.kind # "complete"}}
<1>1. ASSUME NEW n PROVE n \in handled <=> \E c \in calls : Owns(c) /\ c.name = n
  BY DEF Owns
<1> HIDE DEF handled
<1>2. (deployments \cup services) \ faulted \subseteq {serverName} \cup handled
  BY <1>1 DEF ServingInv, Known
<1>3. serverName \notin {NoServer} \cup faulted \cup handled => serverName \in deployments \cap services
  <2> SUFFICES ASSUME serverName \notin {NoServer} \cup faulted \cup handled
               PROVE serverName \in deployments \cap services
    OBVIOUS
  <2>1. ASSUME NEW c \in calls, Owns(c) PROVE FALSE
    <3>1. c.kind \in {"launch", "stop"} /\ c.name # serverName
      BY <1>1, <2>1 DEF Owns, ServingInv, ServingTyped, Call
    <3> QED
      BY <2>1, <3>1 DEF ServingInv, OneAtATime
  <2> QED
    BY <2>1 DEF ServingInv
<1> QED
  BY <1>2, <1>3 DEF ServersAreTracked, handled

-----------------------------------------------------------------------------
(* The API's side: a call moves on, and at most its own server's objects   *)
(* change.                                                                 *)
LEMMA CallMoves ==
  ASSUME ServingInv, NEW c \in calls,
         NEW at \in {"deployment", "service", "pod", "answered", "failed"}, Moved(c, at),
         c.kind # "complete" => at # "pod",
         UNCHANGED <<given, panelState>>, faulted \subseteq faulted',
         deployments' \cup services' \subseteq given,
         \A n : n # c.name => (n \in deployments' <=> n \in deployments) /\ (n \in services' <=> n \in services),
         c.kind = "complete" => UNCHANGED cluster,
         c.mine /\ c.kind # "complete" /\ c.name \notin faulted' => Reached([c EXCEPT !.at = at])'
  PROVE  ServingInv'
<1> USE DEF ServingInv
<1> DEFINE moved == [c EXCEPT !.at = at]
<1>1. /\ c \in Call /\ moved \in Call
      /\ moved.kind = c.kind /\ moved.name = c.name /\ moved.mine = c.mine /\ moved.at = at
  BY DEF ServingTyped, Call
<1>2. calls' = (calls \ {c}) \cup {moved}
  BY DEF Moved
<1>3. UNCHANGED <<serverName, launching, stopping>>
  BY DEF panelState
<1> HIDE DEF moved
<1>4. ServingTyped'
  BY <1>1, <1>2, <1>3 DEF ServingTyped
<1>5. Owns(moved) <=> Owns(c)
  BY <1>1 DEF Owns
<1>6. OneAtATime'
  BY <1>1, <1>2, <1>3, <1>5 DEF OneAtATime, Owns
<1>7. \A d \in calls' : ~d.mine => d.name \in faulted'
  BY <1>1, <1>2
<1>8. ASSUME NEW d \in calls', Owns(d), d.name \notin faulted' PROVE Reached(d)'
  <2>1. CASE d = moved
    BY <1>1, <1>8, <2>1 DEF Owns, moved
  <2>2. CASE d # moved
    <3>1. d \in calls /\ d # c /\ Reached(d)
      BY <1>2, <1>8, <2>2
    <3>2. c.kind = "complete" \/ ~c.mine
      BY <1>8, <3>1 DEF OneAtATime, Owns
    <3>3. (d.name \in deployments' <=> d.name \in deployments) /\ (d.name \in services' <=> d.name \in services)
      <4>1. CASE c.kind = "complete"
        BY <4>1 DEF cluster
      <4>2. CASE ~c.mine
        BY <1>8, <4>2
      <4> QED
        BY <3>2, <4>1, <4>2
    <3> QED
      BY <3>1, <3>3 DEF Reached
  <2> QED
    BY <2>1, <2>2
<1>9. ASSUME NEW n, Known(n) PROVE Known(n)'
  BY <1>1, <1>2, <1>3, <1>5, <1>9 DEF Known
<1>10. ASSUME NEW n \in deployments' \cup services', n \notin faulted' PROVE Known(n)'
  <2>1. CASE n \in deployments \cup services
    BY <1>9, <1>10, <2>1
  <2>2. CASE n \notin deployments \cup services
    <3>1. n = c.name /\ c.kind # "complete" /\ c.mine
      BY <1>10, <2>2 DEF cluster
    <3> QED
      BY <1>9, <3>1 DEF Known, Owns
  <2> QED
    BY <2>1, <2>2
<1>11. ASSUME serverName' # NoServer, serverName' \notin faulted', \A d \in calls' : ~Owns(d)
       PROVE serverName' \in deployments' \cap services'
  <2>1. \A d \in calls : ~Owns(d)
    BY <1>2, <1>5, <1>11
  <2>2. serverName \in deployments \cap services
    BY <1>3, <1>11, <2>1
  <2>3. CASE c.kind = "complete"
    BY <1>3, <2>2, <2>3 DEF cluster
  <2>4. CASE c.kind # "complete"
    <3>1. c.name \in faulted
      BY <2>1, <2>4 DEF Owns
    <3> QED
      BY <1>3, <1>11, <2>2, <3>1
  <2> QED
    BY <2>3, <2>4
<1> QED
  BY <1>4, <1>6, <1>7, <1>8, <1>10, <1>11 DEF Owns

LEMMA LauncherKeeps ==
  ASSUME ServingInv, NEW c \in calls,
         CreateDeployment(c) \/ CreateService(c) \/ DeleteDeployment(c) \/ DeleteService(c)
  PROVE  ServingInv'
<1>1. c \in Call /\ c.name \in given /\ deployments \cup services \subseteq given
  BY DEF ServingInv, ServingTyped
<1>2. Owns(c) /\ c.name \notin faulted => Reached(c)
  BY DEF ServingInv
<1>3. CASE CreateDeployment(c)
  <2>1. c.mine /\ c.name \notin faulted' => Reached([c EXCEPT !.at = "service"])'
    BY <1>1, <1>2, <1>3 DEF CreateDeployment, Reached, Owns, Call
  <2> QED
    BY <1>1, <1>3, <2>1, CallMoves DEF CreateDeployment
<1>4. CASE CreateService(c)
  <2>1. c.mine /\ c.name \notin faulted' => Reached([c EXCEPT !.at = "answered"])'
    BY <1>1, <1>2, <1>4 DEF CreateService, Reached, Owns, Call
  <2> QED
    BY <1>1, <1>4, <2>1, CallMoves DEF CreateService
<1>5. CASE DeleteDeployment(c)
  <2>1. c.mine /\ c.name \notin faulted' => Reached([c EXCEPT !.at = "service"])'
    BY <1>1, <1>2, <1>5 DEF DeleteDeployment, Reached, Owns, Call
  <2> QED
    BY <1>1, <1>5, <2>1, CallMoves DEF DeleteDeployment
<1>6. CASE DeleteService(c)
  <2>1. c.mine /\ c.name \notin faulted' => Reached([c EXCEPT !.at = "answered"])'
    BY <1>1, <1>2, <1>6 DEF DeleteService, Reached, Owns, Call
  <2> QED
    BY <1>1, <1>6, <2>1, CallMoves DEF DeleteService
<1> QED
  BY <1>3, <1>4, <1>5, <1>6

LEMMA FaultsKeep ==
  ASSUME ServingInv, NEW c \in calls, Refused(c) \/ Complete(c) \/ AnswerLost(c)
  PROVE  ServingInv'
<1>1. c \in Call /\ deployments \cup services \subseteq given /\ (c.kind # "complete" => c.at # "pod")
  BY DEF ServingInv, ServingTyped
<1>2. Owns(c) /\ c.name \notin faulted => Reached(c)
  BY DEF ServingInv
<1>3. CASE Refused(c)
  <2>1. Moved(c, "failed") /\ UNCHANGED <<cluster, given, panelState>>
    BY <1>3 DEF Refused
  <2>2. faulted \subseteq faulted' /\ (c.name \notin faulted' => c.at = "deployment")
    BY <1>1, <1>3 DEF Refused, Call
  <2>3. c.mine /\ c.kind # "complete" /\ c.name \notin faulted' => Reached([c EXCEPT !.at = "failed"])'
    BY <1>1, <1>2, <2>1, <2>2 DEF Reached, Owns, Call, cluster
  <2> QED
    BY <1>1, <2>1, <2>2, <2>3, CallMoves DEF cluster
<1>4. CASE Complete(c)
  <2>1. c.kind = "complete" /\ UNCHANGED <<cluster, given, panelState, faulted>>
    BY <1>1, <1>4 DEF Complete
  <2>2. Moved(c, "answered") \/ Moved(c, "failed")
    BY <1>4 DEF Complete
  <2> QED
    BY <1>1, <2>1, <2>2, CallMoves DEF cluster
<1>5. CASE AnswerLost(c)
  <2>1. Moved(c, "failed") /\ UNCHANGED <<cluster, given, panelState>> /\ faulted \subseteq faulted'
    BY <1>5 DEF AnswerLost
  <2>2. c.kind # "complete" => c.name \in faulted'
    BY <1>5 DEF AnswerLost
  <2> QED
    BY <1>1, <2>1, <2>2, CallMoves DEF cluster
<1> QED
  BY <1>3, <1>4, <1>5

-----------------------------------------------------------------------------
(* The panel's side.  A call that has an answer ends.                      *)
LEMMA AnswerTaken ==
  ASSUME ServingAssumption, ServingInv, NEW c \in calls,
         Launched(c) \/ LaunchFailed(c) \/ Stopped(c) \/ StopFailed(c) \/ Completed(c) \/ Unheard(c)
  PROVE  ServingInv'
<1> USE DEF ServingInv
<1>1. calls' = calls \ {c} /\ UNCHANGED <<deployments, services, given, faulted>>
  BY DEF Launched, LaunchFailed, Stopped, StopFailed, Completed, Unheard, Ends, cluster
<1>2. c \in Call /\ c.name \in given /\ given \subseteq Servers
  BY DEF ServingTyped
<1>3. ServingTyped'
  <2>1. serverName' \in {serverName, NoServer, c.name}
    BY DEF Launched, LaunchFailed, Stopped, StopFailed, Completed, Unheard, panelState
  <2> QED
    BY <1>1, <1>2, <2>1 DEF ServingTyped
<1>4. \A d \in calls' : ~d.mine => d.name \in faulted'
  BY <1>1
<1>5. ASSUME NEW d \in calls', Owns(d), d.name \notin faulted' PROVE Reached(d)'
  BY <1>1, <1>5 DEF Reached
<1>6. CASE ~Owns(c)
  <2>1. (Completed(c) \/ Unheard(c)) /\ UNCHANGED <<serverName, launching, stopping>>
    BY <1>6 DEF Owns, Launched, LaunchFailed, Stopped, StopFailed, Completed, Unheard, panelState
  <2>2. \A d \in calls : Owns(d) => d \in calls'
    BY <1>1, <1>6
  <2>3. OneAtATime'
    BY <1>1, <2>1 DEF OneAtATime
  <2>4. ASSUME NEW n, Known(n) PROVE Known(n)'
    BY <2>1, <2>2, <2>4 DEF Known
  <2> QED
    BY <1>1, <1>3, <1>4, <1>5, <2>1, <2>2, <2>3, <2>4
<1>7. CASE Owns(c)
  <2>1. \A d \in calls' : ~Owns(d)
    BY <1>1, <1>7 DEF OneAtATime
  <2>2. OneAtATime'
    BY <2>1 DEF OneAtATime
  <2>3. \A n \in deployments \cup services : n \notin faulted => n = serverName \/ n = c.name
    BY <1>7 DEF OneAtATime, Known
  <2>4. c.name \notin faulted => Reached(c)
    BY <1>7
  <2>5. CASE c.kind = "launch"
    <3>1. serverName = NoServer /\ NoServer \notin Servers
      BY <1>7, <2>5 DEF OneAtATime, ServingAssumption
    <3>2. CASE c.at = "answered"
      <4>1. serverName' = c.name
        BY <1>7, <2>5, <3>2 DEF Owns, Launched, LaunchFailed, Stopped, StopFailed, Completed, Unheard
      <4>2. c.name \notin faulted => c.name \in deployments \cap services
        BY <2>4, <2>5, <3>2 DEF Reached
      <4> QED
        BY <1>1, <1>2, <1>3, <1>4, <1>5, <2>1, <2>2, <2>3, <3>1, <4>1, <4>2 DEF Known, ServingTyped
    <3>3. CASE c.at # "answered"
      <4>1. serverName' = serverName /\ c.at = "failed"
        BY <1>7, <2>5, <3>3 DEF Owns, Launched, LaunchFailed, Stopped, StopFailed, Completed, Unheard
      <4>2. c.name \notin faulted => c.name \notin deployments \cup services
        BY <2>4, <2>5, <4>1 DEF Reached
      <4> QED
        BY <1>1, <1>2, <1>3, <1>4, <1>5, <2>1, <2>2, <2>3, <3>1, <4>1, <4>2 DEF Known, ServingTyped
    <3> QED
      BY <3>2, <3>3
  <2>6. CASE c.kind = "stop"
    <3>1. serverName = c.name
      BY <1>7, <2>6 DEF OneAtATime
    <3>2. CASE c.at = "answered"
      <4>1. serverName' = NoServer
        BY <1>7, <2>6, <3>2 DEF Owns, Launched, LaunchFailed, Stopped, StopFailed, Completed, Unheard
      <4>2. c.name \notin faulted => c.name \notin deployments \cup services
        BY <2>4, <2>6, <3>2 DEF Reached
      <4> QED
        BY <1>1, <1>3, <1>4, <1>5, <2>1, <2>2, <2>3, <3>1, <4>1, <4>2
    <3>3. CASE c.at # "answered"
      <4>1. serverName' = serverName /\ c.at = "failed"
        BY <1>7, <2>6, <3>3 DEF Owns, Launched, LaunchFailed, Stopped, StopFailed, Completed, Unheard
      <4>2. c.name \notin faulted => c.name \in deployments \cap services
        BY <2>4, <2>6, <4>1 DEF Reached
      <4> QED
        BY <1>1, <1>3, <1>4, <1>5, <2>1, <2>2, <2>3, <3>1, <4>1, <4>2 DEF Known
    <3> QED
      BY <3>2, <3>3
  <2> QED
    BY <1>2, <1>7, <2>5, <2>6 DEF Owns, Call
<1> QED
  BY <1>6, <1>7

(* A call that is begun.                                                   *)
LEMMA ButtonsKeep ==
  ASSUME ServingAssumption, ServingInv, Launch \/ Stop \/ SendTestRequest
  PROVE  ServingInv'
<1> USE DEF ServingInv
<1>1. UNCHANGED <<deployments, services, serverName, faulted>>
  BY DEF Launch, Stop, SendTestRequest, cluster
<1>2. CASE Launch
  <2>1. PICK n \in Servers \ given : given' = given \cup {n} /\ NewCall("launch", n, "deployment")
    BY <1>2 DEF Launch
  <2> DEFINE c == [kind |-> "launch", name |-> n, mine |-> TRUE, at |-> "deployment"]
  <2>2. /\ calls' = calls \cup {c} /\ c \in Call /\ Owns(c)
        /\ c.kind = "launch" /\ c.name = n /\ c.mine /\ c.at = "deployment"
    BY <2>1 DEF NewCall, Call, Owns
  <2> HIDE DEF c
  <2>3. serverName = NoServer /\ launching' /\ \A d \in calls : ~Owns(d)
    <3>1. serverName = NoServer /\ ~launching /\ launching'
      BY <1>2 DEF Launch
    <3>2. ASSUME NEW d \in calls, Owns(d) PROVE FALSE
      <4>1. serverName = d.name /\ d.name \in Servers
        BY <3>1, <3>2 DEF OneAtATime, ServingTyped
      <4> QED
        BY <3>1, <4>1 DEF ServingAssumption
    <3> QED
      BY <3>1, <3>2
  <2>4. n \notin deployments \cup services
    BY DEF ServingTyped
  <2>5. ServingTyped'
    BY <1>1, <2>1, <2>2 DEF ServingTyped
  <2>6. OneAtATime'
    BY <1>1, <2>2, <2>3 DEF OneAtATime
  <2>7. Reached(c)'
    BY <1>1, <2>2, <2>4 DEF Reached
  <2>8. ASSUME NEW m, Known(m) PROVE Known(m)'
    BY <1>1, <2>2, <2>8 DEF Known
  <2> QED
    BY <1>1, <2>2, <2>3, <2>5, <2>6, <2>7, <2>8
<1>3. CASE Stop
  <2>0. PICK c : c = [kind |-> "stop", name |-> serverName, mine |-> TRUE, at |-> "deployment"]
    OBVIOUS
  <2>1. /\ given' = given /\ calls' = calls \cup {c} /\ Owns(c)
        /\ c.kind = "stop" /\ c.name = serverName /\ c.mine /\ c.at = "deployment"
    BY <1>3, <2>0 DEF Stop, NewCall, Owns
  <2>2. serverName # NoServer /\ ~stopping /\ stopping' /\ launching' = launching
    BY <1>3 DEF Stop
  <2>3. serverName \in given /\ c \in Call
    BY <2>0, <2>2 DEF ServingTyped, Call
  <2>4. \A d \in calls : ~Owns(d)
    BY <2>2 DEF OneAtATime
  <2>5. ServingTyped'
    BY <1>1, <2>1, <2>3 DEF ServingTyped
  <2>6. OneAtATime'
    BY <1>1, <2>1, <2>2, <2>4 DEF OneAtATime
  <2>7. c.name \notin faulted => Reached(c)'
    <3>1. serverName \notin faulted => serverName \in deployments \cap services
      BY <2>2, <2>4
    <3> QED
      BY <1>1, <2>1, <3>1 DEF Reached
  <2>8. ASSUME NEW m, Known(m) PROVE Known(m)'
    BY <1>1, <2>1, <2>8 DEF Known
  <2> QED
    <3>1. ASSUME NEW d \in calls', Owns(d), d.name \notin faulted' PROVE Reached(d)'
      BY <1>1, <2>1, <2>4, <2>7, <3>1
    <3>2. \A d \in calls' : ~d.mine => d.name \in faulted'
      BY <1>1, <2>1
    <3> QED
      BY <1>1, <2>1, <2>5, <2>6, <2>8, <3>1, <3>2
<1>4. CASE SendTestRequest
  <2>0. PICK c : c = [kind |-> "complete", name |-> serverName, mine |-> TRUE, at |-> "pod"]
    OBVIOUS
  <2>1. /\ given' = given /\ calls' = calls \cup {c} /\ ~Owns(c) /\ UNCHANGED <<launching, stopping>>
        /\ c.kind = "complete" /\ c.name = serverName /\ c.mine
    BY <1>4, <2>0 DEF SendTestRequest, NewCall, Owns
  <2>2. serverName \in given /\ c \in Call
    BY <1>4, <2>0 DEF SendTestRequest, ServingTyped, Call
  <2>3. ServingTyped'
    BY <1>1, <2>1, <2>2 DEF ServingTyped
  <2>4. OneAtATime'
    BY <1>1, <2>1 DEF OneAtATime
  <2>5. ASSUME NEW d \in calls', Owns(d) PROVE d \in calls /\ (Reached(d) => Reached(d)')
    BY <1>1, <2>1, <2>5 DEF Reached
  <2>6. ASSUME NEW m, Known(m) PROVE Known(m)'
    BY <1>1, <2>1, <2>6 DEF Known
  <2> QED
    BY <1>1, <2>1, <2>3, <2>4, <2>5, <2>6
<1> QED
  BY <1>2, <1>3, <1>4

(* What the panel forgets counts as touched by a fault.                    *)
LEMMA LeavingKeeps == ASSUME ServingAssumption, ServingInv, LeaveTab PROVE ServingInv'
<1> USE DEF ServingInv
<1> DEFINE left(c) == [c EXCEPT !.mine = FALSE]
<1>1. ASSUME NEW c \in calls
      PROVE left(c) \in Call /\ ~left(c).mine /\ left(c).name = c.name /\ left(c).kind = c.kind /\ left(c).at = c.at
  BY DEF ServingTyped, Call
<1>2. calls' = {left(c) : c \in calls} /\ serverName' = NoServer /\ UNCHANGED <<deployments, services, given>>
  BY DEF LeaveTab, cluster
<1>3. /\ faulted \subseteq faulted'
      /\ serverName # NoServer => serverName \in faulted'
      /\ \A c \in calls : c.mine => c.name \in faulted'
  BY DEF LeaveTab
<1> HIDE DEF left
<1>4. ServingTyped'
  BY <1>1, <1>2 DEF ServingTyped
<1>5. \A c \in calls' : ~c.mine /\ c.name \in faulted' /\ ~Owns(c)
  BY <1>1, <1>2, <1>3 DEF Owns
<1>6. OneAtATime'
  BY <1>5 DEF OneAtATime
<1>7. ASSUME NEW n \in deployments \cup services PROVE n \in faulted'
  <2>1. n \in faulted \/ n = serverName \/ \E c \in calls : c.mine /\ c.name = n
    BY DEF Known, Owns
  <2>2. n # NoServer
    BY DEF ServingTyped, ServingAssumption
  <2> QED
    BY <1>3, <2>1, <2>2
<1> QED
  BY <1>2, <1>4, <1>5, <1>6, <1>7

-----------------------------------------------------------------------------
(* For any number of servers: as long as no fault and no change of tab has *)
(* touched a server, whatever exists of it is shown by the panel or being  *)
(* created or deleted for it (RealInferenceServerPanel.tsx:38-58,          *)
(* k8s_launcher.py:173-184).                                               *)
THEOREM ServersStayTracked == ServingSpec => []ServersAreTracked
<1>1. ServingInit => ServingInv
  BY DEF ServingInit, ServingInv, ServingTyped, OneAtATime
<1>2. ServingInv /\ [ServingNext]_servingVars => ServingInv'
  <2> SUFFICES ASSUME ServingInv, [ServingNext]_servingVars PROVE ServingInv'
    OBVIOUS
  <2>1. ASSUME NEW c \in calls, CallStep(c) PROVE ServingInv'
    BY <2>1, LauncherKeeps, FaultsKeep, AnswerTaken, ServingAssumption DEF CallStep
  <2>2. CASE UNCHANGED servingVars
    <3>1. UNCHANGED <<deployments, services, given, serverName, launching, stopping, calls, faulted>>
      BY <2>2 DEF servingVars
    <3> QED
      BY <3>1 DEF ServingInv, ServingTyped, OneAtATime, Known, Reached
  <2> QED
    BY <2>1, <2>2, ButtonsKeep, LeavingKeeps, ServingAssumption DEF ServingNext
<1> QED
  BY <1>1, <1>2, InvTracks, PTL DEF ServingSpec

-----------------------------------------------------------------------------
(* Event streams.  Every sequence is reached by appending, so a set with   *)
(* the empty one that is closed under Append has them all: that replaces   *)
(* the induction on the length of a text.                                  *)

LEMMA SequencesGrow ==
  ASSUME NEW E, NEW G, <<>> \in G, \A s \in Seq(E) \cap G : \A c \in E : Append(s, c) \in G
  PROVE  Seq(E) \subseteq G
<1> SUFFICES ASSUME NEW s \in Seq(E) PROVE s \in G
  OBVIOUS
<1> DEFINE n == Len(s)
           Good == {k \in 0 .. n : SubSeq(s, 1, k) \in G}
<1>1. n \in Nat /\ DOMAIN s = 1 .. n /\ \A k \in 1 .. n : s[k] \in E
  OBVIOUS
<1>2. 0 \in Good
  <2>1. SubSeq(s, 1, 0) = <<>>
    BY SubSeqEmpty
  <2>2. 0 \in 0 .. n
    BY <1>1
  <2>3. QED BY <2>1, <2>2
<1>3. ASSUME NEW k \in 1 .. n, k - 1 \in Good PROVE k \in Good
  <2> DEFINE p == SubSeq(s, 1, k - 1)
  <2>0. k \in Nat /\ k - 1 \in Nat /\ k \in 0 .. n /\ k - 1 < n
    BY <1>1
  <2>1. p \in Seq(E) /\ p \in G
    BY <1>1, <1>3, SubSeqProperties
  <2>2. Append(p, s[k]) \in G
    BY <1>1, <2>1
  <2>3. SubSeq(s, 1, k) = Append(p, s[k])
    BY <1>1, <2>0, SubSeqRecursiveSecond
  <2> HIDE DEF p
  <2>4. QED BY <2>0, <2>2, <2>3
<1> HIDE DEF Good
<1>4. \A k \in 0 .. n : k \in Good
  BY <1>1, <1>2, <1>3, NoFirstFailure
<1>5. SubSeq(s, 1, n) \in G
  <2>1. n \in 0 .. n
    BY <1>1
  <2>2. QED BY <1>4, <2>1 DEF Good
<1>6. QED BY <1>5, SubSeqFull

-----------------------------------------------------------------------------
(* One more character with its line end shortened.                         *)
Ended(t, c) == IF c = LF /\ t # <<>> /\ Last(t) = CR THEN Append(Front(t), LF) ELSE Append(t, c)

LEMMA EndedTyped ==
  ASSUME NEW E, LF \in E, NEW t \in Seq(E), NEW c \in E
  PROVE  Ended(t, c) \in Seq(E)
<1>1. Append(t, c) \in Seq(E)
  BY AppendProperties
<1>2. t # <<>> => Front(t) \in Seq(E)
  BY DEF Front
<1>3. t # <<>> => Append(Front(t), LF) \in Seq(E)
  BY <1>2, AppendProperties
<1>4. QED BY <1>1, <1>3 DEF Ended

(* The fold, unfolded.                                                     *)
LEMMA LineEndsUnfolds ==
  ASSUME NEW E, LF \in E, NEW s \in Seq(E)
  PROVE  \E f \in [0 .. Len(s) -> Seq(E)] :
           /\ f[0] = <<>> /\ f[Len(s)] = LineEnds(s)
           /\ \A k \in 1 .. Len(s) : f[k] = Ended(f[k - 1], s[k])
<1> DEFINE n == Len(s)
           A == Seq(E)
           Is(g) == g = [t \in SUBSET (1 .. n) |-> IF t = {} THEN <<>> ELSE Ended(g[t \ {Max(t)}], s[Max(t)])]
           G == CHOOSE g : Is(g)
<1>1. DOMAIN s = 1 .. n /\ n \in Nat /\ \A k \in 1 .. n : s[k] \in E
  OBVIOUS
<1>2. LineEnds(s) = G[1 .. n]
  BY <1>1 DEF LineEnds, FoldLeft, MapThenFoldSet, Ended
<1>3. \E g \in [SUBSET (1 .. n) -> A] : Is(g)
  <2> DEFINE step == [k \in 1 .. n |-> [a \in A |-> Ended(a, s[k])]]
  <2>1. \A k \in 1 .. n : \A a \in A : Ended(a, s[k]) \in A
    BY <1>1, EndedTyped
  <2>2. step \in [1 .. n -> [A -> A]]
    BY <2>1
  <2>3. <<>> \in A
    OBVIOUS
  <2> HIDE DEF step, A
  <2>4. PICK g \in [SUBSET (1 .. n) -> A] : Steps(g, n, <<>>, step)
    BY <1>1, <2>2, <2>3, StepsExist
  <2>5. \A t \in SUBSET (1 .. n) : t # {} => step[Max(t)][g[t \ {Max(t)}]] = Ended(g[t \ {Max(t)}], s[Max(t)])
    <3> SUFFICES ASSUME NEW t \in SUBSET (1 .. n), t # {}
                 PROVE  step[Max(t)][g[t \ {Max(t)}]] = Ended(g[t \ {Max(t)}], s[Max(t)])
      OBVIOUS
    <3>1. Max(t) \in 1 .. n
      BY <1>1, MaxOfPrefix
    <3>2. g[t \ {Max(t)}] \in A
      BY <2>4
    <3>3. QED BY <3>1, <3>2 DEF step
  <2>6. Is(g)
    BY <2>4, <2>5 DEF Steps
  <2>7. QED BY <2>6
<1>4. Is(G)
  BY <1>3
<1>5. ASSUME NEW k \in 1 .. n PROVE G[1 .. k] = Ended(G[1 .. k - 1], s[k])
  <2>1. Max(1 .. k) = k /\ (1 .. k) \ {k} = 1 .. k - 1 /\ 1 .. k # {} /\ 1 .. k \in SUBSET (1 .. n)
    BY <1>1, WholePrefix
  <2>2. G[1 .. k] = IF 1 .. k = {} THEN <<>> ELSE Ended(G[(1 .. k) \ {Max(1 .. k)}], s[Max(1 .. k)])
    BY <1>4, <2>1
  <2> HIDE DEF G
  <2>3. QED BY <2>1, <2>2
<1>6. G[{}] = <<>>
  BY <1>4
<1>14. G[1 .. 0] = <<>>
  <2>1. 1 .. 0 = {}
    OBVIOUS
  <2> HIDE DEF G
  <2>2. QED BY <1>6, <2>1
<1> HIDE DEF G, Is
<1> DEFINE Good == {k \in 0 .. n : G[1 .. k] \in A}
<1>7. 0 \in Good
  <2>1. 0 \in 0 .. n /\ <<>> \in A
    BY <1>1
  <2>2. QED BY <1>14, <2>1
<1>8. ASSUME NEW k \in 1 .. n, k - 1 \in Good PROVE k \in Good
  <2>1. G[1 .. k - 1] \in A /\ k \in 0 .. n
    BY <1>8
  <2>2. Ended(G[1 .. k - 1], s[k]) \in A
    BY <1>1, <2>1, EndedTyped
  <2>3. QED BY <1>5, <2>1, <2>2
<1> HIDE DEF Good
<1>9. \A k \in 0 .. n : k \in Good
  BY <1>1, <1>7, <1>8, NoFirstFailure
<1> DEFINE f == [k \in 0 .. n |-> G[1 .. k]]
<1>10. f \in [0 .. n -> A]
  BY <1>9 DEF Good
<1>11. f[0] = <<>> /\ f[n] = LineEnds(s)
  <2>1. 0 \in 0 .. n /\ n \in 0 .. n
    BY <1>1
  <2>2. QED BY <1>2, <1>14, <2>1
<1>12. \A k \in 1 .. n : f[k] = Ended(f[k - 1], s[k])
  <2> SUFFICES ASSUME NEW k \in 1 .. n PROVE f[k] = Ended(f[k - 1], s[k])
    OBVIOUS
  <2>1. k \in 0 .. n /\ k - 1 \in 0 .. n
    BY <1>1
  <2>2. QED BY <1>5, <2>1
<1> HIDE DEF f
<1>13. QED BY <1>10, <1>11, <1>12

(* Normalizing is done character by character.                             *)
LEMMA LineEndsNext ==
  ASSUME NEW E, LF \in E, NEW s \in Seq(E), NEW c \in E
  PROVE  /\ LineEnds(s) \in Seq(E)
         /\ LineEnds(Append(s, c)) = Ended(LineEnds(s), c)
<1> DEFINE n == Len(s)
           t == Append(s, c)
<1>1. /\ n \in Nat /\ t \in Seq(E) /\ Len(t) = n + 1 /\ t[n + 1] = c
      /\ \A k \in 1 .. n : t[k] = s[k]
  BY AppendProperties
<1> HIDE DEF t
<1>2. PICK f \in [0 .. n -> Seq(E)] :
           /\ f[0] = <<>> /\ f[n] = LineEnds(s)
           /\ \A k \in 1 .. n : f[k] = Ended(f[k - 1], s[k])
  BY LineEndsUnfolds
<1>3. PICK g \in [0 .. n + 1 -> Seq(E)] :
           /\ g[0] = <<>> /\ g[n + 1] = LineEnds(t)
           /\ \A k \in 1 .. n + 1 : g[k] = Ended(g[k - 1], t[k])
  <2> HIDE DEF n
  <2>1. \E g \in [0 .. Len(t) -> Seq(E)] :
           /\ g[0] = <<>> /\ g[Len(t)] = LineEnds(t)
           /\ \A k \in 1 .. Len(t) : g[k] = Ended(g[k - 1], t[k])
    BY <1>1, LineEndsUnfolds
  <2>2. Len(t) = n + 1
    BY <1>1
  <2>3. QED BY <2>1, <2>2
<1> DEFINE Good == {k \in 0 .. n : f[k] = g[k]}
<1>4. 0 \in Good
  BY <1>1, <1>2, <1>3
<1>5. ASSUME NEW k \in 1 .. n, k - 1 \in Good PROVE k \in Good
  <2>1. k \in 0 .. n /\ k \in 1 .. n + 1 /\ f[k - 1] = g[k - 1]
    BY <1>1, <1>5
  <2>2. f[k] = Ended(f[k - 1], s[k]) /\ g[k] = Ended(g[k - 1], t[k]) /\ t[k] = s[k]
    BY <1>1, <1>2, <1>3, <2>1
  <2>3. QED BY <2>1, <2>2
<1> HIDE DEF Good
<1>6. \A k \in 0 .. n : k \in Good
  BY <1>1, <1>4, <1>5, NoFirstFailure
<1>7. f[n] = g[n] /\ f[n] \in Seq(E)
  <2>1. n \in 0 .. n
    BY <1>1
  <2>2. QED BY <1>2, <1>6, <2>1 DEF Good
<1>8. g[n + 1] = Ended(g[n], c)
  <2>1. n + 1 \in 1 .. n + 1 /\ (n + 1) - 1 = n
    BY <1>1
  <2>2. g[n + 1] = Ended(g[(n + 1) - 1], t[n + 1])
    BY <1>3, <2>1
  <2>3. QED BY <1>1, <2>1, <2>2
<1>9. QED BY <1>2, <1>3, <1>7, <1>8 DEF t

LEMMA LineEndsOfNothing == LineEnds(<<>>) = <<>>
<1>1. <<>> \in Seq({LF}) /\ Len(<<>>) = 0
  BY EmptySeq
<1>2. PICK f \in [0 .. 0 -> Seq({LF})] : f[0] = <<>> /\ f[0] = LineEnds(<<>>)
  BY <1>1, LineEndsUnfolds
<1>3. QED BY <1>2

(* Sequences that end alike.                                               *)
LEMMA AppendAfter ==
  ASSUME NEW E, NEW a \in Seq(E), NEW b \in Seq(E), NEW c \in E
  PROVE  a \o Append(b, c) = Append(a \o b, c) /\ a \o b \in Seq(E)
<1>1. a \o b \in Seq(E) /\ <<c>> \in Seq(E)
  BY ConcatProperties
<1>2. Append(b, c) = b \o <<c>> /\ Append(a \o b, c) = (a \o b) \o <<c>>
  BY <1>1, AppendIsConcat
<1>3. (a \o b) \o <<c>> = a \o (b \o <<c>>)
  BY <1>1, ConcatAssociative
<1>4. QED BY <1>1, <1>2, <1>3

(* What is normalized already may be normalized again with what comes.     *)
LEMMA LineEndsSame ==
  ASSUME NEW E, LF \in E, NEW a \in Seq(E), NEW d \in Seq(E), LineEnds(a) = LineEnds(d), NEW b \in Seq(E)
  PROVE  LineEnds(a \o b) = LineEnds(d \o b)
<1> DEFINE G == {x \in Seq(E) : LineEnds(a \o x) = LineEnds(d \o x)}
<1>1. <<>> \in G
  <2>1. a \o <<>> = a /\ d \o <<>> = d /\ <<>> \in Seq(E)
    BY ConcatEmptySeq, EmptySeq
  <2>2. QED BY <2>1
<1>2. ASSUME NEW x \in Seq(E) \cap G, NEW c \in E PROVE Append(x, c) \in G
  <2>1. /\ a \o Append(x, c) = Append(a \o x, c) /\ a \o x \in Seq(E)
        /\ d \o Append(x, c) = Append(d \o x, c) /\ d \o x \in Seq(E)
    BY AppendAfter
  <2>2. /\ LineEnds(Append(a \o x, c)) = Ended(LineEnds(a \o x), c)
        /\ LineEnds(Append(d \o x, c)) = Ended(LineEnds(d \o x), c)
    BY <2>1, LineEndsNext
  <2>3. LineEnds(a \o x) = LineEnds(d \o x) /\ Append(x, c) \in Seq(E)
    BY <1>2, AppendProperties
  <2>4. QED BY <2>1, <2>2, <2>3
<1> HIDE DEF G
<1>3. Seq(E) \subseteq G
  BY <1>1, <1>2, SequencesGrow
<1>4. QED BY <1>3 DEF G

LEMMA FrontIs ==
  ASSUME NEW E, NEW t \in Seq(E), t # <<>>
  PROVE  /\ Len(t) \in Nat \ {0}
         /\ Front(t) \in Seq(E) /\ Len(Front(t)) = Len(t) - 1
         /\ \A i \in 1 .. Len(t) - 1 : Front(t)[i] = t[i]
<1> DEFINE n == Len(t) - 1
<1>1. Len(t) \in Nat \ {0} /\ n \in Nat /\ \A i \in 1 .. n : t[i] \in E
  BY EmptySeq, ElementOfSeq
<1> HIDE DEF n
<1>2. /\ SubSeq(t, 1, n) \in Seq(E)
      /\ Len(SubSeq(t, 1, n)) = IF 1 <= n THEN n - 1 + 1 ELSE 0
      /\ \A i \in 1 .. n - 1 + 1 : SubSeq(t, 1, n)[i] = t[1 + i - 1]
  BY <1>1, SubSeqProperties
<1>3. Len(SubSeq(t, 1, n)) = n /\ \A i \in 1 .. n : SubSeq(t, 1, n)[i] = t[i]
  BY <1>1, <1>2
<1>4. QED BY <1>1, <1>2, <1>3 DEF Front, n

LEMMA LastOfAfter ==
  ASSUME NEW E, NEW p \in Seq(E), NEW t \in Seq(E), t # <<>>
  PROVE  p \o t # <<>> /\ Last(p \o t) = Last(t) /\ Front(p \o t) = p \o Front(t) /\ Front(t) \in Seq(E)
<1>1. /\ Len(p) \in Nat /\ Len(t) \in Nat \ {0} /\ p \o t \in Seq(E) /\ Len(p \o t) = Len(p) + Len(t)
      /\ \A i \in 1 .. Len(p) + Len(t) : (p \o t)[i] = IF i <= Len(p) THEN p[i] ELSE t[i - Len(p)]
  BY ConcatProperties, EmptySeq, LenProperties
<1>2. /\ Front(t) \in Seq(E) /\ Len(Front(t)) = Len(t) - 1
      /\ \A i \in 1 .. Len(t) - 1 : Front(t)[i] = t[i]
  BY FrontIs
<1>7. p \o t # <<>>
  BY <1>1, EmptySeq
<1>3. /\ Front(p \o t) \in Seq(E) /\ Len(Front(p \o t)) = Len(p) + Len(t) - 1
      /\ \A i \in 1 .. Len(p) + Len(t) - 1 : Front(p \o t)[i] = (p \o t)[i]
  <2> DEFINE w == p \o t
  <2>1. w \in Seq(E) /\ w # <<>> /\ Len(w) = Len(p) + Len(t)
    BY <1>1, <1>7
  <2> HIDE DEF w
  <2>2. /\ Front(w) \in Seq(E) /\ Len(Front(w)) = Len(w) - 1
        /\ \A i \in 1 .. Len(w) - 1 : Front(w)[i] = w[i]
    BY <2>1, FrontIs
  <2>3. QED BY <2>1, <2>2 DEF w
<1>4. /\ p \o Front(t) \in Seq(E) /\ Len(p \o Front(t)) = Len(p) + (Len(t) - 1)
      /\ \A i \in 1 .. Len(p) + (Len(t) - 1) :
           (p \o Front(t))[i] = IF i <= Len(p) THEN p[i] ELSE Front(t)[i - Len(p)]
  <2> DEFINE u == Front(t)
  <2>1. u \in Seq(E) /\ Len(u) = Len(t) - 1
    BY <1>2
  <2> HIDE DEF u
  <2>2. /\ p \o u \in Seq(E) /\ Len(p \o u) = Len(p) + Len(u)
        /\ \A i \in 1 .. Len(p) + Len(u) : (p \o u)[i] = IF i <= Len(p) THEN p[i] ELSE u[i - Len(p)]
    BY <2>1, ConcatProperties
  <2>3. QED BY <2>1, <2>2 DEF u
<1>5. Front(p \o t) = p \o Front(t)
  <2>1. ASSUME NEW i \in 1 .. Len(p) + Len(t) - 1 PROVE Front(p \o t)[i] = (p \o Front(t))[i]
    <3>1. i > Len(p) => i - Len(p) \in 1 .. Len(t) - 1
      BY <1>1
    <3>2. i \in 1 .. Len(p) + Len(t) /\ i \in 1 .. Len(p) + (Len(t) - 1) /\ i \in Int
      BY <1>1
    <3>3. /\ Front(p \o t)[i] = IF i <= Len(p) THEN p[i] ELSE t[i - Len(p)]
          /\ (p \o Front(t))[i] = IF i <= Len(p) THEN p[i] ELSE Front(t)[i - Len(p)]
      BY <1>1, <1>3, <1>4, <3>2
    <3>4. CASE i <= Len(p)
      BY <3>3, <3>4
    <3>5. CASE ~(i <= Len(p))
      <4>1. i - Len(p) \in 1 .. Len(t) - 1
        BY <1>1, <3>1, <3>5
      <4>2. QED BY <1>2, <3>3, <3>5, <4>1
    <3>6. QED BY <3>4, <3>5
  <2>2. Len(p) + Len(t) - 1 = Len(p) + (Len(t) - 1)
    BY <1>1
  <2>3. QED BY <1>3, <1>4, <2>1, <2>2, SeqEqual
<1>6. Last(p \o t) = Last(t)
  <2>1. Len(p) + Len(t) \in 1 .. Len(p) + Len(t) /\ ~(Len(p) + Len(t) <= Len(p)) /\ (Len(p) + Len(t)) - Len(p) = Len(t)
    BY <1>1
  <2>2. (p \o t)[Len(p) + Len(t)] = t[Len(t)]
    BY <1>1, <2>1
  <2>3. QED BY <1>1, <2>2 DEF Last
<1>8. QED BY <1>2, <1>5, <1>6, <1>7

LEMMA EndsApart == CR # LF
  BY DEF CR, LF, Char

(* After a line end the text is normalized for itself.                     *)
LEMMA LineEndsAfter ==
  ASSUME NEW E, LF \in E, NEW a \in Seq(E), LineEnds(a) # <<>>, Last(LineEnds(a)) = LF, NEW b \in Seq(E)
  PROVE  LineEnds(a \o b) = LineEnds(a) \o LineEnds(b)
<1> DEFINE p == LineEnds(a)
           G == {x \in Seq(E) : LineEnds(a \o x) = p \o LineEnds(x)}
<1>0. p \in Seq(E)
  BY LineEndsNext
<1>1. <<>> \in G
  <2>1. a \o <<>> = a /\ p \o <<>> = p /\ <<>> \in Seq(E)
    BY <1>0, ConcatEmptySeq, EmptySeq
  <2>2. QED BY <2>1, LineEndsOfNothing
<1>2. ASSUME NEW x \in Seq(E) \cap G, NEW c \in E PROVE Append(x, c) \in G
  <2> DEFINE t == LineEnds(x)
  <2>1. /\ a \o Append(x, c) = Append(a \o x, c) /\ a \o x \in Seq(E) /\ Append(x, c) \in Seq(E)
        /\ t \in Seq(E) /\ LineEnds(Append(x, c)) = Ended(t, c)
    BY AppendAfter, AppendProperties, LineEndsNext
  <2>2. LineEnds(Append(a \o x, c)) = Ended(p \o t, c)
    <3>1. LineEnds(Append(a \o x, c)) = Ended(LineEnds(a \o x), c)
      BY <2>1, LineEndsNext
    <3>2. LineEnds(a \o x) = p \o t
      BY <1>2
    <3>3. QED BY <3>1, <3>2
  <2>3. Ended(p \o t, c) = p \o Ended(t, c)
    <3> HIDE DEF p, t
    <3>0. p # <<>> /\ Last(p) = LF
      BY DEF p
    <3>1. CASE t = <<>>
      <4>1. p \o t = p /\ p \o Append(t, c) = Append(p, c)
        BY <1>0, <2>1, <3>1, ConcatEmptySeq, AppendAfter
      <4>2. QED BY <3>0, <3>1, <4>1, EndsApart DEF Ended
    <3>2. CASE t # <<>>
      <4>1. p \o t # <<>> /\ Last(p \o t) = Last(t) /\ Front(p \o t) = p \o Front(t) /\ Front(t) \in Seq(E)
        BY <1>0, <2>1, <3>2, LastOfAfter
      <4>2. p \o Append(t, c) = Append(p \o t, c)
        BY <1>0, <2>1, AppendAfter
      <4>3. p \o Append(Front(t), LF) = Append(p \o Front(t), LF)
        BY <1>0, <4>1, AppendAfter
      <4>4. QED BY <3>2, <4>1, <4>2, <4>3 DEF Ended
    <3>3. QED BY <3>1, <3>2
  <2> HIDE DEF t
  <2>4. LineEnds(a \o Append(x, c)) = p \o LineEnds(Append(x, c))
    BY <2>1, <2>2, <2>3
  <2>5. QED BY <2>1, <2>4
<1> HIDE DEF G
<1>3. Seq(E) \subseteq G
  BY <1>1, <1>2, SequencesGrow
<1>4. QED BY <1>3 DEF G

-----------------------------------------------------------------------------
(* On the wire a CR is always before an LF; and what is normalized has one *)
(* at most at its end, where the LF is still to come.                      *)
Paired(s) == \A i \in 1 .. Len(s) - 1 : s[i] = CR => s[i + 1] = LF

Normal(t) == \A i \in 1 .. Len(t) - 1 : t[i] # CR

LEMMA NormalStays ==
  ASSUME NEW E, LF \in E, NEW t \in Seq(E), Normal(t)
  PROVE  LineEnds(t) = t
<1> DEFINE G == {x \in Seq(E) : Normal(x) => LineEnds(x) = x}
<1>1. <<>> \in G
  BY EmptySeq, LineEndsOfNothing
<1>2. ASSUME NEW x \in Seq(E) \cap G, NEW c \in E PROVE Append(x, c) \in G
  <2> SUFFICES ASSUME Normal(Append(x, c)) PROVE LineEnds(Append(x, c)) = Append(x, c)
    BY AppendProperties
  <2>1. /\ Len(x) \in Nat /\ Len(Append(x, c)) = Len(x) + 1
        /\ \A i \in 1 .. Len(x) : Append(x, c)[i] = x[i]
    BY AppendProperties, LenProperties
  <2>2. \A i \in 1 .. Len(x) : x[i] # CR
    BY <2>1 DEF Normal
  <2>3. LineEnds(x) = x
    BY <1>2, <2>1, <2>2 DEF Normal
  <2>4. x # <<>> => Last(x) # CR
    <3>1. x # <<>> => Len(x) \in 1 .. Len(x)
      BY <2>1, EmptySeq
    <3>2. QED BY <2>2, <3>1 DEF Last
  <2>5. LineEnds(Append(x, c)) = Ended(x, c)
    BY <2>3, LineEndsNext
  <2>6. QED BY <2>4, <2>5 DEF Ended
<1> HIDE DEF G
<1>3. Seq(E) \subseteq G
  BY <1>1, <1>2, SequencesGrow
<1>4. QED BY <1>3 DEF G

LEMMA PairedGivesNormal ==
  ASSUME NEW E, LF \in E, NEW s \in Seq(E), Paired(s)
  PROVE  Normal(LineEnds(s))
<1> DEFINE Kept(x) == /\ Normal(LineEnds(x))
                      /\ (LineEnds(x) # <<>> /\ Last(LineEnds(x)) = CR) => x # <<>> /\ Last(x) = CR
           G == {x \in Seq(E) : Paired(x) => Kept(x)}
<1>1. <<>> \in G
  BY EmptySeq, LineEndsOfNothing DEF Normal
<1>2. ASSUME NEW x \in Seq(E) \cap G, NEW c \in E PROVE Append(x, c) \in G
  <2> DEFINE y == Append(x, c)
             t == LineEnds(x)
  <2> SUFFICES ASSUME Paired(y) PROVE Kept(y)
    BY AppendProperties
  <2>1. /\ Len(x) \in Nat /\ y \in Seq(E) /\ y # <<>> /\ Len(y) = Len(x) + 1 /\ y[Len(x) + 1] = c
        /\ \A i \in 1 .. Len(x) : y[i] = x[i]
    BY AppendProperties, LenProperties
  <2>2. t \in Seq(E) /\ LineEnds(y) = Ended(t, c)
    BY LineEndsNext
  <2> HIDE DEF y
  <2>3. Paired(x)
    <3> SUFFICES ASSUME NEW i \in 1 .. Len(x) - 1, x[i] = CR PROVE x[i + 1] = LF
      BY DEF Paired
    <3>1. i \in 1 .. Len(y) - 1 /\ i \in 1 .. Len(x) /\ i + 1 \in 1 .. Len(x)
      BY <2>1
    <3>2. QED BY <2>1, <3>1 DEF Paired
  <2>4. Normal(t) /\ ((t # <<>> /\ Last(t) = CR) => x # <<>> /\ Last(x) = CR)
    BY <1>2, <2>3
  <2>5. (t # <<>> /\ Last(t) = CR) => c = LF
    <3>1. x # <<>> => Len(x) \in 1 .. Len(y) - 1 /\ Len(x) \in 1 .. Len(x)
      BY <2>1, EmptySeq
    <3>2. x # <<>> /\ Last(x) = CR => y[Len(x) + 1] = LF
      BY <2>1, <3>1 DEF Last, Paired
    <3>3. QED BY <2>1, <2>4, <3>2
  <2>6. Last(y) = c
    BY <2>1 DEF Last
  <2> HIDE DEF t
  <2>7. Len(t) \in Nat /\ (t # <<>> => Len(t) \in Nat \ {0})
    BY <2>2, LenProperties, EmptySeq
  <2>8. CASE t # <<>> /\ Last(t) = CR
    <3> DEFINE u == Front(t)
    <3>1. u \in Seq(E) /\ Len(u) = Len(t) - 1 /\ \A i \in 1 .. Len(u) : u[i] = t[i]
      BY <2>2, <2>7, <2>8, FrontIs
    <3>2. Ended(t, c) = Append(u, LF)
      BY <2>5, <2>8 DEF Ended
    <3> HIDE DEF u
    <3>3. /\ Append(u, LF) # <<>> /\ Len(Append(u, LF)) = Len(u) + 1
          /\ Append(u, LF)[Len(u) + 1] = LF
          /\ \A i \in 1 .. Len(u) : Append(u, LF)[i] = u[i]
      BY <3>1, AppendProperties
    <3>4. \A i \in 1 .. Len(u) : u[i] # CR
      BY <2>4, <3>1 DEF Normal
    <3>5. Len(u) \in Nat
      BY <3>1, LenProperties
    <3>6. Normal(Append(u, LF))
      BY <3>3, <3>4, <3>5 DEF Normal
    <3>7. Last(Append(u, LF)) = LF
      BY <3>3 DEF Last
    <3>8. QED BY <2>2, <3>2, <3>6, <3>7, EndsApart
  <2>9. CASE ~(t # <<>> /\ Last(t) = CR)
    <3>1. Ended(t, c) = Append(t, c)
      BY <2>9 DEF Ended
    <3>2. /\ Append(t, c) # <<>> /\ Len(Append(t, c)) = Len(t) + 1
          /\ Append(t, c)[Len(t) + 1] = c
          /\ \A i \in 1 .. Len(t) : Append(t, c)[i] = t[i]
      BY <2>2, AppendProperties
    <3>3. \A i \in 1 .. Len(t) : t[i] # CR
      <4> SUFFICES ASSUME NEW i \in 1 .. Len(t) PROVE t[i] # CR
        OBVIOUS
      <4>1. t # <<>>
        BY <2>7, EmptySeq
      <4>2. CASE i = Len(t)
        BY <2>9, <4>1, <4>2 DEF Last
      <4>3. CASE i # Len(t)
        BY <2>4, <2>7, <4>3 DEF Normal
      <4>4. QED BY <4>2, <4>3
    <3>4. Normal(Append(t, c))
      BY <2>7, <3>2, <3>3 DEF Normal
    <3>5. Last(Append(t, c)) = c
      BY <3>2 DEF Last
    <3>6. QED BY <2>1, <2>2, <2>6, <3>1, <3>4, <3>5
  <2>10. QED BY <2>8, <2>9
<1> HIDE DEF G
<1>3. Seq(E) \subseteq G
  BY <1>1, <1>2, SequencesGrow
<1>4. QED BY <1>3 DEF G

(* A chunk is normalized with what came before it, normalized or not.      *)
LEMMA ChunksJoin ==
  ASSUME NEW E, LF \in E, NEW a \in Seq(E), NEW b \in Seq(E), Paired(a)
  PROVE  LineEnds(LineEnds(a) \o b) = LineEnds(a \o b)
<1>1. LineEnds(a) \in Seq(E)
  BY LineEndsNext
<1>2. LineEnds(LineEnds(a)) = LineEnds(a)
  BY <1>1, PairedGivesNormal, NormalStays
<1>3. QED BY <1>1, <1>2, LineEndsSame

-----------------------------------------------------------------------------
(* The wire, block after block.                                            *)
LEMMA FlattenUnfolds ==
  ASSUME NEW E, NEW B \in Seq(Seq(E))
  PROVE  \E f \in [0 .. Len(B) -> Seq(E)] :
           /\ f[0] = <<>> /\ f[Len(B)] = FlattenSeq(B)
           /\ \A k \in 1 .. Len(B) : f[k] = f[k - 1] \o B[k]
<1> DEFINE n == Len(B)
           A == Seq(E)
           Upto(f, k) == f[0] = <<>> /\ \A j \in 1 .. k : f[j] = f[j - 1] \o B[j]
           Good == {k \in 0 .. n : \E f \in [0 .. n -> A] : Upto(f, k)}
           Is(g) == g = [i \in 1 .. n |-> IF i = 1 THEN B[i] ELSE g[i - 1] \o B[i]]
           G == CHOOSE g : Is(g)
<1>0. n \in Nat /\ B \in [1 .. n -> Seq(E)] /\ DOMAIN B = 1 .. n
  OBVIOUS
<1>5. Len(B) = n
  OBVIOUS
<1> HIDE DEF n
<1>1. 0 \in Good
  <2> DEFINE f == [k \in 0 .. n |-> <<>>]
  <2>1. f \in [0 .. n -> A] /\ 0 \in 0 .. n /\ f[0] = <<>> /\ 1 .. 0 = {}
    BY <1>0
  <2> HIDE DEF f
  <2>2. Upto(f, 0)
    BY <2>1
  <2> HIDE DEF Upto
  <2>3. QED BY <2>1, <2>2
<1>2. ASSUME NEW k \in 1 .. n, k - 1 \in Good PROVE k \in Good
  <2>1. PICK f \in [0 .. n -> A] : Upto(f, k - 1)
    BY <1>2
  <2> DEFINE g == [f EXCEPT ![k] = f[k - 1] \o B[k]]
  <2>2. k - 1 \in 0 .. n /\ k \in 0 .. n /\ k # 0
    BY <1>0
  <2>3. f[k - 1] \o B[k] \in A
    <3>1. f[k - 1] \in Seq(E) /\ B[k] \in Seq(E)
      BY <1>0, <2>2
    <3>2. QED BY <3>1, ConcatProperties
  <2>4. g \in [0 .. n -> A] /\ g[k] = f[k - 1] \o B[k] /\ \A j \in 0 .. n : j # k => g[j] = f[j]
    BY <2>2, <2>3
  <2> HIDE DEF g
  <2>5. Upto(g, k)
    <3>1. g[0] = <<>>
      BY <1>0, <2>1, <2>2, <2>4
    <3>2. ASSUME NEW j \in 1 .. k PROVE g[j] = g[j - 1] \o B[j]
      <4>1. j \in 0 .. n /\ j - 1 \in 0 .. n /\ j - 1 # k /\ g[j - 1] = f[j - 1]
        BY <1>0, <2>2, <2>4
      <4>2. CASE j = k
        BY <2>4, <4>1, <4>2
      <4>3. CASE j # k
        <5>1. j \in 1 .. k - 1
          BY <4>3
        <5>2. QED BY <2>1, <2>4, <4>1, <4>3, <5>1
      <4>4. QED BY <4>2, <4>3
    <3>3. QED BY <3>1, <3>2
  <2> HIDE DEF Upto
  <2>6. QED BY <2>2, <2>4, <2>5
<1>3. n \in Good
  <2> HIDE DEF Good
  <2>1. \A k \in 0 .. n : k \in Good
    BY <1>0, <1>1, <1>2, NoFirstFailure
  <2>2. QED BY <1>0, <2>1
<1>4. PICK f \in [0 .. n -> A] : f[0] = <<>> /\ \A j \in 1 .. n : f[j] = f[j - 1] \o B[j]
  BY <1>3
<1>6. f[n] = FlattenSeq(B)
  <2>1. CASE n = 0
    <3>1. B = <<>>
      BY <1>5, <2>1, EmptySeq
    <3>2. FlattenSeq(B) = B
      BY <1>5, <2>1 DEF FlattenSeq
    <3>3. QED BY <1>4, <2>1, <3>1, <3>2
  <2>2. CASE n # 0
    <3> DEFINE h == [i \in 1 .. n |-> f[i]]
    <3>1. Is(h)
      <4>1. ASSUME NEW i \in 1 .. n PROVE h[i] = IF i = 1 THEN B[i] ELSE h[i - 1] \o B[i]
        <5>1. f[i] = f[i - 1] \o B[i] /\ B[i] \in Seq(E)
          BY <1>0, <1>4
        <5>2. CASE i = 1
          <6>1. i - 1 = 0
            BY <5>2
          <6>2. f[i] = <<>> \o B[i]
            BY <1>4, <5>1, <6>1
          <6>3. QED BY <5>1, <5>2, <6>2, ConcatEmptySeq
        <5>3. CASE i # 1
          <6>1. i - 1 \in 1 .. n
            BY <1>0, <5>3
          <6>2. QED BY <5>1, <5>3, <6>1
        <5>4. QED BY <5>2, <5>3
      <4>2. h = [i \in 1 .. n |-> h[i]]
        OBVIOUS
      <4> HIDE DEF h
      <4>3. QED BY <4>1, <4>2
    <3>2. Is(G)
      BY <3>1
    <3>3. FlattenSeq(B) = G[n]
      <4>1. FlattenSeq(B) = (CHOOSE g : g = [i \in 1 .. Len(B) |-> IF i = 1 THEN B[i] ELSE g[i - 1] \o B[i]])[Len(B)]
        <5>1. Len(B) # 0
          BY <1>5, <2>2
        <5>2. QED BY <5>1 DEF FlattenSeq
      <4>2. QED BY <1>5, <4>1
    <3> HIDE DEF G
    <3>4. \A i \in 1 .. n : G[i] = IF i = 1 THEN B[i] ELSE G[i - 1] \o B[i]
      BY <3>2
    <3> HIDE DEF Is
    <3> DEFINE Same == {k \in 0 .. n : k # 0 => G[k] = f[k]}
    <3>5. 0 \in Same
      BY <1>0
    <3>6. ASSUME NEW k \in 1 .. n, k - 1 \in Same PROVE k \in Same
      <4>1. f[k] = f[k - 1] \o B[k] /\ B[k] \in Seq(E) /\ G[k] = IF k = 1 THEN B[k] ELSE G[k - 1] \o B[k]
        BY <1>0, <1>4, <3>4
      <4>2. CASE k = 1
        <5>1. k - 1 = 0
          BY <4>2
        <5>2. f[k] = <<>> \o B[k]
          BY <1>4, <4>1, <5>1
        <5>3. <<>> \o B[k] = B[k]
          BY <4>1, ConcatEmptySeq
        <5>4. QED BY <4>1, <4>2, <5>2, <5>3
      <4>3. CASE k # 1
        <5>1. G[k - 1] = f[k - 1]
          BY <1>0, <3>6, <4>3
        <5>2. G[k] = G[k - 1] \o B[k]
          BY <4>1, <4>3
        <5>3. G[k] = f[k]
          BY ONLY <4>1, <5>1, <5>2
        <5>4. QED BY <5>3
      <4>4. QED BY <4>2, <4>3
    <3> HIDE DEF Same
    <3>7. \A k \in 0 .. n : k \in Same
      BY <1>0, <3>5, <3>6, NoFirstFailure
    <3>8. G[n] = f[n]
      BY <1>0, <2>2, <3>7 DEF Same
    <3>9. QED BY <3>3, <3>8
  <2>3. QED BY <2>1, <2>2
<1>7. QED BY <1>4, <1>6 DEF n

-----------------------------------------------------------------------------
(* What is on the wire.                                                    *)
Events == {"start", "ttft", "token", "ping", "done", "error"}

Letters == [char : Events \cup {"data", "CR", "LF"}, of : Nat]

LEMMA EndsAreLetters == CR \in Letters /\ LF \in Letters
  BY DEF CR, LF, Char, Letters

LEMMA TokensCount ==
  ASSUME NEW k \in Nat
  PROVE  /\ Tokens(k) \in Nat /\ IsFiniteSet({j \in 1 .. k : script[j] = "token"})
         /\ k # 0 => Tokens(k) = IF script[k] = "token" THEN Tokens(k - 1) + 1 ELSE Tokens(k - 1)
<1> DEFINE T(m) == {j \in 1 .. m : script[j] = "token"}
<1>1. ASSUME NEW m \in Nat PROVE IsFiniteSet(T(m))
  <2>1. IsFiniteSet(1 .. m)
    BY FS_Interval
  <2>2. T(m) \subseteq 1 .. m
    OBVIOUS
  <2>3. QED BY <2>1, <2>2, FS_Subset
<1>2. ASSUME k # 0
      PROVE  Tokens(k) = IF script[k] = "token" THEN Tokens(k - 1) + 1 ELSE Tokens(k - 1)
  <2>1. k - 1 \in Nat /\ IsFiniteSet(T(k - 1)) /\ k \notin T(k - 1)
    BY <1>1, <1>2
  <2>2. T(k) = IF script[k] = "token" THEN T(k - 1) \cup {k} ELSE T(k - 1)
    BY <1>2
  <2> HIDE DEF T
  <2>3. Cardinality(T(k - 1) \cup {k}) = Cardinality(T(k - 1)) + 1
    BY <2>1, FS_AddElement
  <2>4. Tokens(k) = Cardinality(T(k)) /\ Tokens(k - 1) = Cardinality(T(k - 1))
    BY DEF T, Tokens
  <2>5. QED BY <2>2, <2>3, <2>4
<1>3. Tokens(k) \in Nat
  BY <1>1, FS_CardinalityType DEF Tokens
<1>4. QED BY <1>1, <1>2, <1>3

LEMMA BlockTyped ==
  ASSUME script \in Seq(Events), NEW k \in 1 .. Len(script)
  PROVE  Block(k) \in Seq(Letters)
<1>1. script[k] \in Events /\ k \in Nat
  BY ElementOfSeq, LenProperties
<1>2. Tokens(k) \in Nat
  BY <1>1, TokensCount
<1>3. /\ Char(script[k], 0) \in Letters /\ Char("ping", 0) \in Letters /\ Char("data", Tokens(k)) \in Letters
      /\ CR \in Letters /\ LF \in Letters
  BY <1>1, <1>2, EndsAreLetters DEF Char, Letters, Events
<1>4. QED BY <1>3 DEF Block

LEMMA TextNext ==
  ASSUME script \in Seq(Events)
  PROVE  /\ Text(0) = <<>>
         /\ \A k \in 0 .. Len(script) : Text(k) \in Seq(Letters)
         /\ \A k \in 1 .. Len(script) : Text(k) = Text(k - 1) \o Block(k)
<1> DEFINE n == Len(script)
           B(k) == [j \in 1 .. k |-> Block(j)]
           A == Seq(Letters)
<1>0. n \in Nat
  BY LenProperties
<1>1. ASSUME NEW k \in 0 .. n
      PROVE  \E f \in [0 .. k -> A] : /\ f[0] = <<>> /\ f[k] = Text(k)
                                      /\ \A j \in 1 .. k : f[j] = f[j - 1] \o Block(j)
  <2>1. k \in Nat /\ \A j \in 1 .. k : j \in 1 .. n
    BY <1>0
  <2>2. \A j \in 1 .. k : Block(j) \in A
    BY <2>1, BlockTyped
  <2>3. B(k) \in Seq(A) /\ Len(B(k)) = k /\ \A j \in 1 .. k : B(k)[j] = Block(j)
    <3>1. B(k) \in [1 .. k -> A] /\ \A j \in 1 .. k : B(k)[j] = Block(j)
      BY <2>2
    <3> HIDE DEF A
    <3>2. QED BY <2>1, <3>1
  <2>4. Text(k) = FlattenSeq(B(k))
    BY DEF Text
  <2> HIDE DEF B
  <2>5. \E f \in [0 .. Len(B(k)) -> Seq(Letters)] :
           /\ f[0] = <<>> /\ f[Len(B(k))] = FlattenSeq(B(k))
           /\ \A j \in 1 .. Len(B(k)) : f[j] = f[j - 1] \o B(k)[j]
    BY <2>3, FlattenUnfolds
  <2>6. PICK f \in [0 .. k -> Seq(Letters)] : /\ f[0] = <<>> /\ f[k] = FlattenSeq(B(k))
                                            /\ \A j \in 1 .. k : f[j] = f[j - 1] \o B(k)[j]
    BY <2>3, <2>5
  <2>7. \A j \in 1 .. k : f[j] = f[j - 1] \o Block(j)
    BY <2>3, <2>6
  <2>8. QED BY <2>4, <2>6, <2>7
<1>2. Text(0) = <<>>
  <2>1. 0 \in 0 .. n
    BY <1>0
  <2>2. PICK f \in [0 .. 0 -> A] : f[0] = <<>> /\ f[0] = Text(0)
    BY <1>1, <2>1
  <2>3. QED BY <2>2
<1>3. ASSUME NEW k \in 0 .. n PROVE Text(k) \in A
  <2>1. k \in 0 .. k
    BY <1>0
  <2>2. PICK f \in [0 .. k -> A] : f[k] = Text(k)
    BY <1>1
  <2>3. QED BY <2>1, <2>2
<1>4. ASSUME NEW k \in 1 .. n PROVE Text(k) = Text(k - 1) \o Block(k)
  <2>1. k \in 0 .. n /\ k - 1 \in 0 .. n /\ k - 1 \in Nat
    BY <1>0
  <2>2. PICK f \in [0 .. k -> A] : /\ f[0] = <<>> /\ f[k] = Text(k)
                                   /\ \A j \in 1 .. k : f[j] = f[j - 1] \o Block(j)
    BY <1>1, <2>1
  <2>3. PICK g \in [0 .. k - 1 -> A] : /\ g[0] = <<>> /\ g[k - 1] = Text(k - 1)
                                       /\ \A j \in 1 .. k - 1 : g[j] = g[j - 1] \o Block(j)
    BY <1>1, <2>1
  <2> DEFINE Same == {j \in 0 .. k - 1 : f[j] = g[j]}
  <2>4. 0 \in Same
    BY <2>1, <2>2, <2>3
  <2>5. ASSUME NEW j \in 1 .. k - 1, j - 1 \in Same PROVE j \in Same
    <3>1. j \in 1 .. k /\ j \in 0 .. k - 1
      BY <2>1
    <3>2. QED BY <2>2, <2>3, <2>5, <3>1
  <2> HIDE DEF Same
  <2>6. \A j \in 0 .. k - 1 : j \in Same
    BY <2>1, <2>4, <2>5, NoFirstFailure
  <2>7. f[k - 1] = g[k - 1]
    BY <2>1, <2>6 DEF Same
  <2>8. f[k] = f[k - 1] \o Block(k)
    <3>1. k \in 1 .. k
      BY <1>0
    <3>2. QED BY <2>2, <3>1
  <2>9. QED BY <2>2, <2>3, <2>7, <2>8
<1>5. QED BY <1>2, <1>3, <1>4

-----------------------------------------------------------------------------
(* A block that is read character by character: a line end after a CR      *)
(* takes its place, anything else is appended.                             *)
Longer(E, u, t, c) ==
  u \in Seq(E) /\ Len(u) = Len(t) + 1 /\ u[Len(t) + 1] = c /\ \A i \in 1 .. Len(t) : u[i] = t[i]

LEMMA EndedAppends ==
  ASSUME NEW E, NEW t \in Seq(E), NEW c \in E, c # LF
  PROVE  Longer(E, Ended(t, c), t, c)
<1>1. Ended(t, c) = Append(t, c)
  BY DEF Ended
<1>2. Longer(E, Append(t, c), t, c)
  BY AppendProperties DEF Longer
<1>3. QED BY <1>1, <1>2

Shortened(E, u, t) ==
  u \in Seq(E) /\ Len(u) = Len(t) /\ u[Len(t)] = LF /\ \A i \in 1 .. Len(t) - 1 : u[i] = t[i]

LEMMA EndedShortens ==
  ASSUME NEW E, LF \in E, NEW t \in Seq(E), t # <<>>, t[Len(t)] = CR
  PROVE  Shortened(E, Ended(t, LF), t)
<1> DEFINE u == Front(t)
<1>1. Ended(t, LF) = Append(u, LF)
  BY DEF Ended, Last
<1>2. Len(t) \in Nat /\ u \in Seq(E) /\ Len(u) = Len(t) - 1 /\ \A i \in 1 .. Len(t) - 1 : u[i] = t[i]
  BY FrontIs, LenProperties
<1> HIDE DEF u
<1>3. /\ Append(u, LF) \in Seq(E) /\ Len(Append(u, LF)) = Len(u) + 1 /\ Append(u, LF)[Len(u) + 1] = LF
      /\ \A i \in 1 .. Len(u) : Append(u, LF)[i] = u[i]
  BY <1>2, AppendProperties
<1>4. Len(u) + 1 = Len(t)
  BY <1>2
<1>5. QED BY <1>1, <1>2, <1>3, <1>4 DEF Shortened

(* No blank line.                                                          *)
NoBlank(t) == \A i \in 1 .. Len(t) - 1 : ~(t[i] = LF /\ t[i + 1] = LF)

LEMMA PrefixNext ==
  ASSUME NEW E, LF \in E, NEW b \in Seq(E), NEW n \in 1 .. Len(b)
  PROVE  /\ LineEnds(SubSeq(b, 1, n - 1)) \in Seq(E)
         /\ LineEnds(SubSeq(b, 1, n)) = Ended(LineEnds(SubSeq(b, 1, n - 1)), b[n])
         /\ b[n] \in E
<1> DEFINE p == SubSeq(b, 1, n - 1)
<1>1. Len(b) \in Nat /\ n \in Nat /\ n - 1 \in Nat /\ n - 1 < Len(b) /\ \A i \in 1 .. Len(b) : b[i] \in E
  BY LenProperties, ElementOfSeq
<1>2. p \in Seq(E)
  BY <1>1, SubSeqProperties
<1>3. SubSeq(b, 1, n) = Append(p, b[n])
  BY <1>1, SubSeqRecursiveSecond
<1> HIDE DEF p
<1>4. LineEnds(Append(p, b[n])) = Ended(LineEnds(p), b[n]) /\ LineEnds(p) \in Seq(E)
  BY <1>1, <1>2, LineEndsNext
<1>5. QED BY <1>1, <1>3, <1>4 DEF p

(* A comment's block, read up to n.                                        *)
LEMMA CommentRead ==
  ASSUME NEW E, CR \in E, LF \in E, NEW b \in Seq(E), Len(b) = 5,
         b[1] # CR, b[1] # LF, b[2] = CR, b[3] = LF, b[4] = CR, b[5] = LF
  PROVE  /\ \A n \in 0 .. 4 : NoBlank(LineEnds(SubSeq(b, 1, n)))
         /\ LET t == LineEnds(SubSeq(b, 1, 5))
            IN  t \in Seq(E) /\ Len(t) = 3 /\ t[1] = b[1] /\ t[2] = LF /\ t[3] = LF
<1> DEFINE t0 == LineEnds(SubSeq(b, 1, 0))
           t1 == LineEnds(SubSeq(b, 1, 1))
           t2 == LineEnds(SubSeq(b, 1, 2))
           t3 == LineEnds(SubSeq(b, 1, 3))
           t4 == LineEnds(SubSeq(b, 1, 4))
           t5 == LineEnds(SubSeq(b, 1, 5))
<1>0. CR # LF
  BY EndsApart
<1>1. \A n \in 1 .. 5 : /\ LineEnds(SubSeq(b, 1, n)) = Ended(LineEnds(SubSeq(b, 1, n - 1)), b[n])
                      /\ b[n] \in E
  BY PrefixNext
<1>2. /\ t1 = Ended(t0, b[1])
      /\ t2 = Ended(t1, b[2])
      /\ t3 = Ended(t2, b[3])
      /\ t4 = Ended(t3, b[4])
      /\ t5 = Ended(t4, b[5])
  BY <1>1
<1>3. b[1] \in E
  BY <1>1
<1>4. t0 = <<>> /\ t0 \in Seq(E) /\ Len(t0) = 0
  <2>1. SubSeq(b, 1, 0) = <<>>
    BY SubSeqEmpty
  <2>2. QED BY <2>1, LineEndsOfNothing, EmptySeq
<1>5. /\ 1 \in 1 .. 1
      /\ 1 \in 1 .. 2 /\ 2 \in 1 .. 2
      /\ 1 \in 1 .. 3 /\ 2 \in 1 .. 3 /\ 3 \in 1 .. 3
  OBVIOUS
<1> HIDE DEF t0, t1, t2, t3, t4, t5
<1>6. t1 \in Seq(E) /\ Len(t1) = 1 /\ t1[1] = b[1]
  <2>1. t1 = Ended(t0, b[1])
    BY <1>2
  <2>2. t0 \in Seq(E)
    BY <1>4
  <2>3. b[1] \in E
    BY <1>3
  <2>4. b[1] # LF
    BY <1>0
  <2>5. Longer(E, t1, t0, b[1])
    <3>1. Longer(E, Ended(t0, b[1]), t0, b[1])
      BY <2>2, <2>3, <2>4, EndedAppends
    <3>2. QED BY <2>1, <3>1
  <2>6. QED BY <1>5, <1>4, <2>5 DEF Longer
<1>7. t2 \in Seq(E) /\ Len(t2) = 2 /\ t2[1] = b[1] /\ t2[2] = CR
  <2>1. t2 = Ended(t1, CR)
    BY <1>2
  <2>2. t1 \in Seq(E)
    BY <1>6
  <2>3. CR \in E
    BY <1>3
  <2>4. CR # LF
    BY <1>0
  <2>5. Longer(E, t2, t1, CR)
    <3>1. Longer(E, Ended(t1, CR), t1, CR)
      BY <2>2, <2>3, <2>4, EndedAppends
    <3>2. QED BY <2>1, <3>1
  <2>6. QED BY <1>5, <1>6, <2>5 DEF Longer
<1>8. t3 \in Seq(E) /\ Len(t3) = 2 /\ t3[1] = b[1] /\ t3[2] = LF
  <2>1. t3 = Ended(t2, LF)
    BY <1>2
  <2>2. t2 \in Seq(E)
    BY <1>7
  <2>3. t2 # <<>>
    BY <1>7, EmptySeq
  <2>4. t2[Len(t2)] = CR
    BY <1>7
  <2>5. Shortened(E, t3, t2)
    <3>1. Shortened(E, Ended(t2, LF), t2)
      BY <2>2, <2>3, <2>4, EndedShortens
    <3>2. QED BY <2>1, <3>1
  <2>6. Len(t2) = 2 /\ Len(t2) - 1 = 1
    BY <1>7
  <2>7. QED BY <1>5, <1>7, <2>5, <2>6 DEF Shortened
<1>9. t4 \in Seq(E) /\ Len(t4) = 3 /\ t4[1] = b[1] /\ t4[2] = LF /\ t4[3] = CR
  <2>1. t4 = Ended(t3, CR)
    BY <1>2
  <2>2. t3 \in Seq(E)
    BY <1>8
  <2>3. CR \in E
    BY <1>3
  <2>4. CR # LF
    BY <1>0
  <2>5. Longer(E, t4, t3, CR)
    <3>1. Longer(E, Ended(t3, CR), t3, CR)
      BY <2>2, <2>3, <2>4, EndedAppends
    <3>2. QED BY <2>1, <3>1
  <2>6. QED BY <1>5, <1>8, <2>5 DEF Longer
<1>10. t5 \in Seq(E) /\ Len(t5) = 3 /\ t5[1] = b[1] /\ t5[2] = LF /\ t5[3] = LF
  <2>1. t5 = Ended(t4, LF)
    BY <1>2
  <2>2. t4 \in Seq(E)
    BY <1>9
  <2>3. t4 # <<>>
    BY <1>9, EmptySeq
  <2>4. t4[Len(t4)] = CR
    BY <1>9
  <2>5. Shortened(E, t5, t4)
    <3>1. Shortened(E, Ended(t4, LF), t4)
      BY <2>2, <2>3, <2>4, EndedShortens
    <3>2. QED BY <2>1, <3>1
  <2>6. Len(t4) = 3 /\ Len(t4) - 1 = 2
    BY <1>9
  <2>7. QED BY <1>5, <1>9, <2>5, <2>6 DEF Shortened
<1>11. NoBlank(t0) /\ NoBlank(t1) /\ NoBlank(t2) /\ NoBlank(t3) /\ NoBlank(t4)
  <2>1. NoBlank(t0)
    BY <1>4 DEF NoBlank
  <2>2. NoBlank(t1)
    BY <1>6 DEF NoBlank
  <2>3. NoBlank(t2)
    <3>1. \A i \in 1 .. 2 - 1 : i = 1
      OBVIOUS
    <3>2. QED BY <1>0, <1>7, <3>1 DEF NoBlank
  <2>4. NoBlank(t3)
    <3>1. \A i \in 1 .. 2 - 1 : i = 1
      OBVIOUS
    <3>2. QED BY <1>0, <1>8, <3>1 DEF NoBlank
  <2>5. NoBlank(t4)
    <3>1. \A i \in 1 .. 3 - 1 : i = 1 \/ i = 2
      OBVIOUS
    <3>2. QED BY <1>0, <1>9, <3>1 DEF NoBlank
  <2>6. QED BY <2>1, <2>2, <2>3, <2>4, <2>5
<1>12. \A n \in 0 .. 4 : n = 0 \/ n = 1 \/ n = 2 \/ n = 3 \/ n = 4
  OBVIOUS
<1>13. \A n \in 0 .. 4 : NoBlank(LineEnds(SubSeq(b, 1, n)))
  BY <1>11, <1>12 DEF t0, t1, t2, t3, t4
<1>14. QED BY <1>10, <1>13 DEF t5

(* An event's block, read up to n.                                         *)
LEMMA EventRead ==
  ASSUME NEW E, CR \in E, LF \in E, NEW b \in Seq(E), Len(b) = 8,
         b[1] # CR, b[1] # LF, b[2] = CR, b[3] = LF, b[4] # CR, b[4] # LF,
         b[5] = CR, b[6] = LF, b[7] = CR, b[8] = LF
  PROVE  /\ \A n \in 0 .. 7 : NoBlank(LineEnds(SubSeq(b, 1, n)))
         /\ LET t == LineEnds(SubSeq(b, 1, 8))
            IN  t \in Seq(E) /\ Len(t) = 5 /\ t[1] = b[1] /\ t[2] = LF /\ t[3] = b[4] /\ t[4] = LF /\ t[5] = LF
<1> DEFINE t0 == LineEnds(SubSeq(b, 1, 0))
           t1 == LineEnds(SubSeq(b, 1, 1))
           t2 == LineEnds(SubSeq(b, 1, 2))
           t3 == LineEnds(SubSeq(b, 1, 3))
           t4 == LineEnds(SubSeq(b, 1, 4))
           t5 == LineEnds(SubSeq(b, 1, 5))
           t6 == LineEnds(SubSeq(b, 1, 6))
           t7 == LineEnds(SubSeq(b, 1, 7))
           t8 == LineEnds(SubSeq(b, 1, 8))
<1>0. CR # LF
  BY EndsApart
<1>1. \A n \in 1 .. 8 : /\ LineEnds(SubSeq(b, 1, n)) = Ended(LineEnds(SubSeq(b, 1, n - 1)), b[n])
                      /\ b[n] \in E
  BY PrefixNext
<1>2. /\ t1 = Ended(t0, b[1])
      /\ t2 = Ended(t1, b[2])
      /\ t3 = Ended(t2, b[3])
      /\ t4 = Ended(t3, b[4])
      /\ t5 = Ended(t4, b[5])
      /\ t6 = Ended(t5, b[6])
      /\ t7 = Ended(t6, b[7])
      /\ t8 = Ended(t7, b[8])
  BY <1>1
<1>3. b[1] \in E /\ b[4] \in E
  BY <1>1
<1>4. t0 = <<>> /\ t0 \in Seq(E) /\ Len(t0) = 0
  <2>1. SubSeq(b, 1, 0) = <<>>
    BY SubSeqEmpty
  <2>2. QED BY <2>1, LineEndsOfNothing, EmptySeq
<1>5. /\ 1 \in 1 .. 1
      /\ 1 \in 1 .. 2 /\ 2 \in 1 .. 2
      /\ 1 \in 1 .. 3 /\ 2 \in 1 .. 3 /\ 3 \in 1 .. 3
      /\ 1 \in 1 .. 4 /\ 2 \in 1 .. 4 /\ 3 \in 1 .. 4 /\ 4 \in 1 .. 4
      /\ 1 \in 1 .. 5 /\ 2 \in 1 .. 5 /\ 3 \in 1 .. 5 /\ 4 \in 1 .. 5 /\ 5 \in 1 .. 5
  OBVIOUS
<1> HIDE DEF t0, t1, t2, t3, t4, t5, t6, t7, t8
<1>6. t1 \in Seq(E) /\ Len(t1) = 1 /\ t1[1] = b[1]
  <2>1. t1 = Ended(t0, b[1])
    BY <1>2
  <2>2. t0 \in Seq(E)
    BY <1>4
  <2>3. b[1] \in E
    BY <1>3
  <2>4. b[1] # LF
    BY <1>0
  <2>5. Longer(E, t1, t0, b[1])
    <3>1. Longer(E, Ended(t0, b[1]), t0, b[1])
      BY <2>2, <2>3, <2>4, EndedAppends
    <3>2. QED BY <2>1, <3>1
  <2>6. QED BY <1>5, <1>4, <2>5 DEF Longer
<1>7. t2 \in Seq(E) /\ Len(t2) = 2 /\ t2[1] = b[1] /\ t2[2] = CR
  <2>1. t2 = Ended(t1, CR)
    BY <1>2
  <2>2. t1 \in Seq(E)
    BY <1>6
  <2>3. CR \in E
    BY <1>3
  <2>4. CR # LF
    BY <1>0
  <2>5. Longer(E, t2, t1, CR)
    <3>1. Longer(E, Ended(t1, CR), t1, CR)
      BY <2>2, <2>3, <2>4, EndedAppends
    <3>2. QED BY <2>1, <3>1
  <2>6. QED BY <1>5, <1>6, <2>5 DEF Longer
<1>8. t3 \in Seq(E) /\ Len(t3) = 2 /\ t3[1] = b[1] /\ t3[2] = LF
  <2>1. t3 = Ended(t2, LF)
    BY <1>2
  <2>2. t2 \in Seq(E)
    BY <1>7
  <2>3. t2 # <<>>
    BY <1>7, EmptySeq
  <2>4. t2[Len(t2)] = CR
    BY <1>7
  <2>5. Shortened(E, t3, t2)
    <3>1. Shortened(E, Ended(t2, LF), t2)
      BY <2>2, <2>3, <2>4, EndedShortens
    <3>2. QED BY <2>1, <3>1
  <2>6. Len(t2) = 2 /\ Len(t2) - 1 = 1
    BY <1>7
  <2>7. QED BY <1>5, <1>7, <2>5, <2>6 DEF Shortened
<1>9. t4 \in Seq(E) /\ Len(t4) = 3 /\ t4[1] = b[1] /\ t4[2] = LF /\ t4[3] = b[4]
  <2>1. t4 = Ended(t3, b[4])
    BY <1>2
  <2>2. t3 \in Seq(E)
    BY <1>8
  <2>3. b[4] \in E
    BY <1>3
  <2>4. b[4] # LF
    BY <1>0
  <2>5. Longer(E, t4, t3, b[4])
    <3>1. Longer(E, Ended(t3, b[4]), t3, b[4])
      BY <2>2, <2>3, <2>4, EndedAppends
    <3>2. QED BY <2>1, <3>1
  <2>6. QED BY <1>5, <1>8, <2>5 DEF Longer
<1>10. t5 \in Seq(E) /\ Len(t5) = 4 /\ t5[1] = b[1] /\ t5[2] = LF /\ t5[3] = b[4] /\ t5[4] = CR
  <2>1. t5 = Ended(t4, CR)
    BY <1>2
  <2>2. t4 \in Seq(E)
    BY <1>9
  <2>3. CR \in E
    BY <1>3
  <2>4. CR # LF
    BY <1>0
  <2>5. Longer(E, t5, t4, CR)
    <3>1. Longer(E, Ended(t4, CR), t4, CR)
      BY <2>2, <2>3, <2>4, EndedAppends
    <3>2. QED BY <2>1, <3>1
  <2>6. QED BY <1>5, <1>9, <2>5 DEF Longer
<1>11. t6 \in Seq(E) /\ Len(t6) = 4 /\ t6[1] = b[1] /\ t6[2] = LF /\ t6[3] = b[4] /\ t6[4] = LF
  <2>1. t6 = Ended(t5, LF)
    BY <1>2
  <2>2. t5 \in Seq(E)
    BY <1>10
  <2>3. t5 # <<>>
    BY <1>10, EmptySeq
  <2>4. t5[Len(t5)] = CR
    BY <1>10
  <2>5. Shortened(E, t6, t5)
    <3>1. Shortened(E, Ended(t5, LF), t5)
      BY <2>2, <2>3, <2>4, EndedShortens
    <3>2. QED BY <2>1, <3>1
  <2>6. Len(t5) = 4 /\ Len(t5) - 1 = 3
    BY <1>10
  <2>7. QED BY <1>5, <1>10, <2>5, <2>6 DEF Shortened
<1>12. /\ t7 \in Seq(E)
      /\ Len(t7) = 5 /\ t7[1] = b[1] /\ t7[2] = LF /\ t7[3] = b[4] /\ t7[4] = LF /\ t7[5] = CR
  <2>1. t7 = Ended(t6, CR)
    BY <1>2
  <2>2. t6 \in Seq(E)
    BY <1>11
  <2>3. CR \in E
    BY <1>3
  <2>4. CR # LF
    BY <1>0
  <2>5. Longer(E, t7, t6, CR)
    <3>1. Longer(E, Ended(t6, CR), t6, CR)
      BY <2>2, <2>3, <2>4, EndedAppends
    <3>2. QED BY <2>1, <3>1
  <2>6. QED BY <1>5, <1>11, <2>5 DEF Longer
<1>13. /\ t8 \in Seq(E)
      /\ Len(t8) = 5 /\ t8[1] = b[1] /\ t8[2] = LF /\ t8[3] = b[4] /\ t8[4] = LF /\ t8[5] = LF
  <2>1. t8 = Ended(t7, LF)
    BY <1>2
  <2>2. t7 \in Seq(E)
    BY <1>12
  <2>3. t7 # <<>>
    BY <1>12, EmptySeq
  <2>4. t7[Len(t7)] = CR
    BY <1>12
  <2>5. Shortened(E, t8, t7)
    <3>1. Shortened(E, Ended(t7, LF), t7)
      BY <2>2, <2>3, <2>4, EndedShortens
    <3>2. QED BY <2>1, <3>1
  <2>6. Len(t7) = 5 /\ Len(t7) - 1 = 4
    BY <1>12
  <2>7. QED BY <1>5, <1>12, <2>5, <2>6 DEF Shortened
<1>14. NoBlank(t0) /\ NoBlank(t1) /\ NoBlank(t2) /\ NoBlank(t3) /\ NoBlank(t4) /\ NoBlank(t5) /\ NoBlank(t6) /\ NoBlank(t7)
  <2>1. NoBlank(t0)
    BY <1>4 DEF NoBlank
  <2>2. NoBlank(t1)
    BY <1>6 DEF NoBlank
  <2>3. NoBlank(t2)
    <3>1. \A i \in 1 .. 2 - 1 : i = 1
      OBVIOUS
    <3>2. QED BY <1>0, <1>7, <3>1 DEF NoBlank
  <2>4. NoBlank(t3)
    <3>1. \A i \in 1 .. 2 - 1 : i = 1
      OBVIOUS
    <3>2. QED BY <1>0, <1>8, <3>1 DEF NoBlank
  <2>5. NoBlank(t4)
    <3>1. \A i \in 1 .. 3 - 1 : i = 1 \/ i = 2
      OBVIOUS
    <3>2. QED BY <1>0, <1>9, <3>1 DEF NoBlank
  <2>6. NoBlank(t5)
    <3>1. \A i \in 1 .. 4 - 1 : i = 1 \/ i = 2 \/ i = 3
      OBVIOUS
    <3>2. QED BY <1>0, <1>10, <3>1 DEF NoBlank
  <2>7. NoBlank(t6)
    <3>1. \A i \in 1 .. 4 - 1 : i = 1 \/ i = 2 \/ i = 3
      OBVIOUS
    <3>2. QED BY <1>0, <1>11, <3>1 DEF NoBlank
  <2>8. NoBlank(t7)
    <3>1. \A i \in 1 .. 5 - 1 : i = 1 \/ i = 2 \/ i = 3 \/ i = 4
      OBVIOUS
    <3>2. QED BY <1>0, <1>12, <3>1 DEF NoBlank
  <2>9. QED BY <2>1, <2>2, <2>3, <2>4, <2>5, <2>6, <2>7, <2>8
<1>15. \A n \in 0 .. 7 : n = 0 \/ n = 1 \/ n = 2 \/ n = 3 \/ n = 4 \/ n = 5 \/ n = 6 \/ n = 7
  OBVIOUS
<1>16. \A n \in 0 .. 7 : NoBlank(LineEnds(SubSeq(b, 1, n)))
  BY <1>14, <1>15 DEF t0, t1, t2, t3, t4, t5, t6, t7
<1>17. QED BY <1>13, <1>16 DEF t8

LEMMA CharIs ==
  ASSUME NEW c, NEW d, NEW m, NEW n
  PROVE  /\ Char(c, m).char = c /\ Char(c, m).of = m
         /\ c # d => Char(c, m) # Char(d, n)
BY DEF Char

(* The two kinds of blocks.                                                *)
LEMMA BlockOfComment ==
  ASSUME script \in Seq(Events), NEW k \in 1 .. Len(script), script[k] = "ping"
  PROVE  LET b == Block(k)
         IN  /\ Len(b) = 5 /\ b[1] # CR /\ b[1] # LF /\ b[1].char = "ping"
             /\ b[2] = CR /\ b[3] = LF /\ b[4] = CR /\ b[5] = LF
<1> DEFINE c == Char("ping", 0)
<1>1. c # CR /\ c # LF /\ c.char = "ping"
  BY CharIs DEF CR, LF
<1> HIDE DEF c
<1>2. Block(k) = <<c, CR, LF, CR, LF>>
  BY DEF Block, c
<1>3. QED BY <1>1, <1>2

LEMMA BlockOfEvent ==
  ASSUME script \in Seq(Events), NEW k \in 1 .. Len(script), script[k] # "ping"
  PROVE  LET b == Block(k)
         IN  /\ Len(b) = 8 /\ b[1] # CR /\ b[1] # LF /\ b[1].char = script[k]
             /\ b[2] = CR /\ b[3] = LF
             /\ b[4] # CR /\ b[4] # LF /\ b[4].char = "data" /\ b[4].of = Tokens(k)
             /\ b[5] = CR /\ b[6] = LF /\ b[7] = CR /\ b[8] = LF
<1> DEFINE c == Char(script[k], 0)
           d == Char("data", Tokens(k))
<1>1. script[k] \in Events
  BY ElementOfSeq
<1>2. c # CR /\ c # LF /\ c.char = script[k]
  BY <1>1, CharIs DEF CR, LF, Events
<1>3. d # CR /\ d # LF /\ d.char = "data" /\ d.of = Tokens(k)
  BY CharIs DEF CR, LF
<1> HIDE DEF c, d
<1>4. Block(k) = <<c, CR, LF, d, CR, LF, CR, LF>>
  BY DEF Block, c, d
<1>5. QED BY <1>2, <1>3, <1>4

(* What a block is once it is normalized, t up to its first blank line at  *)
(* e and e + 1.                                                            *)
Read(t, e, k) ==
  /\ t \in Seq(Letters) /\ e \in Nat \ {0} /\ Len(t) = e + 1 /\ t[e] = LF /\ t[e + 1] = LF
  /\ \A i \in 1 .. e - 1 : ~(t[i] = LF /\ t[i + 1] = LF)
  /\ t[1].char = script[k]
  /\ IF script[k] = "ping" THEN {i \in 1 .. e : t[i].char = "data"} = {}
     ELSE \E d \in 1 .. e : {i \in 1 .. e : t[i].char = "data"} = {d} /\ t[d].of = Tokens(k)

LEMMA BlockRead ==
  ASSUME script \in Seq(Events), NEW k \in 1 .. Len(script)
  PROVE  /\ \A n \in 0 .. Len(Block(k)) - 1 : NoBlank(LineEnds(SubSeq(Block(k), 1, n)))
         /\ \E e \in Nat \ {0} : Read(LineEnds(Block(k)), e, k)
         /\ Len(Block(k)) \in Nat \ {0}
<1> DEFINE b == Block(k)
           t == LineEnds(b)
<1>1. b \in Seq(Letters) /\ CR \in Letters /\ LF \in Letters /\ script[k] \in Events
  BY BlockTyped, EndsAreLetters, ElementOfSeq
<1>2. CR.char = "CR" /\ LF.char = "LF" /\ CR # LF
  BY EndsApart, CharIs DEF CR, LF
<1>3. SubSeq(b, 1, Len(b)) = b
  BY <1>1, SubSeqFull
<1>4. CASE script[k] = "ping"
  <2>1. /\ Len(b) = 5 /\ b[1] # CR /\ b[1] # LF /\ b[1].char = "ping"
        /\ b[2] = CR /\ b[3] = LF /\ b[4] = CR /\ b[5] = LF
    BY <1>4, BlockOfComment
  <2> HIDE DEF b
  <2>2. /\ \A n \in 0 .. 4 : NoBlank(LineEnds(SubSeq(b, 1, n)))
        /\ LET u == LineEnds(SubSeq(b, 1, 5))
           IN  u \in Seq(Letters) /\ Len(u) = 3 /\ u[1] = b[1] /\ u[2] = LF /\ u[3] = LF
    BY <1>1, <2>1, CommentRead
  <2>3. t \in Seq(Letters) /\ Len(t) = 3 /\ t[1] = b[1] /\ t[2] = LF /\ t[3] = LF
    BY <1>3, <2>1, <2>2
  <2> HIDE DEF t
  <2>4. \A i \in 1 .. 2 : i = 1 \/ i = 2
    OBVIOUS
  <2>5. {i \in 1 .. 2 : t[i].char = "data"} = {}
    BY <1>2, <2>1, <2>3, <2>4
  <2>6. \A i \in 1 .. 2 - 1 : ~(t[i] = LF /\ t[i + 1] = LF)
    <3>1. \A i \in 1 .. 2 - 1 : i = 1
      OBVIOUS
    <3>2. QED BY <2>1, <2>3, <3>1
  <2>7. Read(t, 2, k)
    BY <1>4, <2>1, <2>3, <2>5, <2>6 DEF Read
  <2>8. Len(b) - 1 = 4 /\ Len(b) \in Nat \ {0} /\ 2 \in Nat \ {0}
    BY <2>1
  <2>9. \A n \in 0 .. Len(b) - 1 : NoBlank(LineEnds(SubSeq(b, 1, n)))
    BY <2>2, <2>8
  <2>10. \E e \in Nat \ {0} : Read(t, e, k)
    BY <2>7, <2>8
  <2>11. QED BY <2>8, <2>9, <2>10 DEF b, t
<1>5. CASE script[k] # "ping"
  <2>1. /\ Len(b) = 8 /\ b[1] # CR /\ b[1] # LF /\ b[1].char = script[k]
        /\ b[2] = CR /\ b[3] = LF
        /\ b[4] # CR /\ b[4] # LF /\ b[4].char = "data" /\ b[4].of = Tokens(k)
        /\ b[5] = CR /\ b[6] = LF /\ b[7] = CR /\ b[8] = LF
    BY <1>5, BlockOfEvent
  <2> HIDE DEF b
  <2>2. /\ \A n \in 0 .. 7 : NoBlank(LineEnds(SubSeq(b, 1, n)))
        /\ LET u == LineEnds(SubSeq(b, 1, 8))
           IN  /\ u \in Seq(Letters) /\ Len(u) = 5 /\ u[1] = b[1] /\ u[2] = LF /\ u[3] = b[4]
               /\ u[4] = LF /\ u[5] = LF
    BY <1>1, <2>1, EventRead
  <2>3. /\ t \in Seq(Letters) /\ Len(t) = 5 /\ t[1] = b[1] /\ t[2] = LF /\ t[3] = b[4]
        /\ t[4] = LF /\ t[5] = LF
    BY <1>3, <2>1, <2>2
  <2> HIDE DEF t
  <2>4. (\A i \in 1 .. 4 : i = 1 \/ i = 2 \/ i = 3 \/ i = 4) /\ 3 \in 1 .. 4
    OBVIOUS
  <2>5. {i \in 1 .. 4 : t[i].char = "data"} = {3}
    <3>1. t[1].char # "data" /\ t[2].char # "data" /\ t[4].char # "data" /\ t[3].char = "data"
      BY <1>1, <1>2, <2>1, <2>3 DEF Events
    <3>2. QED BY <2>4, <3>1
  <2>6. \A i \in 1 .. 4 - 1 : ~(t[i] = LF /\ t[i + 1] = LF)
    <3>1. \A i \in 1 .. 4 - 1 : i = 1 \/ i = 2 \/ i = 3
      OBVIOUS
    <3>2. QED BY <2>1, <2>3, <3>1
  <2>7. Read(t, 4, k)
    BY <1>5, <2>1, <2>3, <2>4, <2>5, <2>6 DEF Read
  <2>8. Len(b) - 1 = 7 /\ Len(b) \in Nat \ {0} /\ 4 \in Nat \ {0}
    BY <2>1
  <2>9. \A n \in 0 .. Len(b) - 1 : NoBlank(LineEnds(SubSeq(b, 1, n)))
    BY <2>2, <2>8
  <2>10. \E e \in Nat \ {0} : Read(t, e, k)
    BY <2>7, <2>8
  <2>11. QED BY <2>8, <2>9, <2>10 DEF b, t
<1>6. QED BY <1>4, <1>5

-----------------------------------------------------------------------------
(* Every CR on the wire is followed by its LF.                             *)
LEMMA BlockPaired ==
  ASSUME script \in Seq(Events), NEW k \in 1 .. Len(script), NEW i \in 1 .. Len(Block(k)), Block(k)[i] = CR
  PROVE  i + 1 \in 1 .. Len(Block(k)) /\ Block(k)[i + 1] = LF
<1> DEFINE b == Block(k)
<1>0. CR # LF
  BY EndsApart
<1>1. CASE script[k] = "ping"
  <2>1. Len(b) = 5 /\ b[1] # CR /\ b[2] = CR /\ b[3] = LF /\ b[4] = CR /\ b[5] = LF
    BY <1>1, BlockOfComment
  <2>2. b[i] = CR /\ i \in 1 .. 5
    BY <2>1
  <2> HIDE DEF b
  <2>3. i = 2 \/ i = 4
    BY <1>0, <2>1, <2>2
  <2>4. i + 1 \in 1 .. 5 /\ b[i + 1] = LF
    BY <2>1, <2>3
  <2>5. QED BY <2>1, <2>4 DEF b
<1>2. CASE script[k] # "ping"
  <2>1. /\ Len(b) = 8 /\ b[1] # CR /\ b[2] = CR /\ b[3] = LF /\ b[4] # CR
        /\ b[5] = CR /\ b[6] = LF /\ b[7] = CR /\ b[8] = LF
    BY <1>2, BlockOfEvent
  <2>2. b[i] = CR /\ i \in 1 .. 8
    BY <2>1
  <2> HIDE DEF b
  <2>3. i = 2 \/ i = 5 \/ i = 7
    BY <1>0, <2>1, <2>2
  <2>4. i + 1 \in 1 .. 8 /\ b[i + 1] = LF
    BY <2>1, <2>3
  <2>5. QED BY <2>1, <2>4 DEF b
<1>3. QED BY <1>1, <1>2

LEMMA TextPaired ==
  ASSUME script \in Seq(Events)
  PROVE  \A i \in 1 .. Len(Wire) : Wire[i] = CR => i + 1 \in 1 .. Len(Wire) /\ Wire[i + 1] = LF
<1> DEFINE n == Len(script)
           Good == {k \in 0 .. n : \A i \in 1 .. Len(Text(k)) :
                      Text(k)[i] = CR => i + 1 \in 1 .. Len(Text(k)) /\ Text(k)[i + 1] = LF}
<1>0. n \in Nat
  BY LenProperties
<1>1. 0 \in Good
  <2>1. Len(Text(0)) = 0
    BY TextNext, EmptySeq
  <2>2. 0 \in 0 .. n
    BY <1>0
  <2>3. QED BY <2>1, <2>2
<1>2. ASSUME NEW k \in 1 .. n, k - 1 \in Good PROVE k \in Good
  <2> DEFINE a == Text(k - 1)
             b == Block(k)
  <2>0. k \in 0 .. n /\ k - 1 \in 0 .. n
    BY <1>0
  <2>1. a \in Seq(Letters) /\ b \in Seq(Letters) /\ Text(k) = a \o b
    BY <2>0, TextNext, BlockTyped
  <2>2. \A i \in 1 .. Len(a) : a[i] = CR => i + 1 \in 1 .. Len(a) /\ a[i + 1] = LF
    BY <1>2
  <2>3. \A i \in 1 .. Len(b) : b[i] = CR => i + 1 \in 1 .. Len(b) /\ b[i + 1] = LF
    BY BlockPaired
  <2> HIDE DEF a, b
  <2>4. /\ Len(a) \in Nat /\ Len(b) \in Nat /\ Len(a \o b) = Len(a) + Len(b)
        /\ \A i \in 1 .. Len(a) + Len(b) : (a \o b)[i] = IF i <= Len(a) THEN a[i] ELSE b[i - Len(a)]
    BY <2>1, ConcatProperties, LenProperties
  <2>5. ASSUME NEW i \in 1 .. Len(a) + Len(b), (a \o b)[i] = CR
        PROVE  i + 1 \in 1 .. Len(a) + Len(b) /\ (a \o b)[i + 1] = LF
    <3>1. CASE i <= Len(a)
      <4>1. i \in 1 .. Len(a) /\ a[i] = CR
        BY <2>4, <2>5, <3>1
      <4>2. i + 1 \in 1 .. Len(a) /\ a[i + 1] = LF
        BY <2>2, <4>1
      <4>3. i + 1 \in 1 .. Len(a) + Len(b) /\ i + 1 <= Len(a)
        BY <2>4, <4>2
      <4>4. QED BY <2>4, <4>2, <4>3
    <3>2. CASE ~(i <= Len(a))
      <4> DEFINE j == i - Len(a)
      <4>1. j \in 1 .. Len(b) /\ b[j] = CR
        BY <2>4, <2>5, <3>2
      <4>2. j + 1 \in 1 .. Len(b) /\ b[j + 1] = LF
        BY <2>3, <4>1
      <4>3. i + 1 \in 1 .. Len(a) + Len(b) /\ ~(i + 1 <= Len(a)) /\ i + 1 - Len(a) = j + 1
        BY <2>4, <3>2, <4>2
      <4> HIDE DEF j
      <4>4. QED BY <2>4, <4>2, <4>3
    <3>3. QED BY <3>1, <3>2
  <2>6. \A i \in 1 .. Len(Text(k)) : Text(k)[i] = CR => i + 1 \in 1 .. Len(Text(k)) /\ Text(k)[i + 1] = LF
    BY <2>1, <2>4, <2>5
  <2>7. QED BY <2>0, <2>6
<1> HIDE DEF Good
<1>3. \A k \in 0 .. n : k \in Good
  BY <1>0, <1>1, <1>2, NoFirstFailure
<1>4. n \in Good
  BY <1>0, <1>3
<1>5. QED BY <1>4 DEF Good, Wire

(* Where a block lies on the wire.                                         *)
LEMMA BlockOnWire ==
  ASSUME script \in Seq(Events), NEW k \in 1 .. Len(script)
  PROVE  /\ Len(Text(k - 1)) \in Nat /\ Len(Text(k)) = Len(Text(k - 1)) + Len(Block(k))
         /\ Len(Wire) \in Nat /\ Wire \in Seq(Letters) /\ Len(Text(k)) <= Len(Wire)
         /\ \A i \in 1 .. Len(Block(k)) : Wire[Len(Text(k - 1)) + i] = Block(k)[i]
<1> DEFINE n == Len(script)
           T == Len(Text(k - 1))
           L == Len(Block(k))
           Good == {j \in 0 .. n : j >= k => /\ Len(Text(j)) >= T + L
                                             /\ \A i \in 1 .. L : Text(j)[T + i] = Block(k)[i]}
<1>0. n \in Nat /\ k \in Nat /\ k - 1 \in 0 .. n /\ k \in 0 .. n /\ n \in 0 .. n
  BY LenProperties
<1>1. Text(k - 1) \in Seq(Letters) /\ T \in Nat /\ L \in Nat /\ Block(k) \in Seq(Letters)
  BY <1>0, TextNext, BlockTyped, LenProperties
<1>2. Len(Text(k)) = T + L /\ \A i \in 1 .. L : Text(k)[T + i] = Block(k)[i]
  <2> DEFINE a == Text(k - 1)
             b == Block(k)
  <2>1. Text(k) = a \o b
    BY TextNext
  <2>2. /\ Len(a \o b) = Len(a) + Len(b)
        /\ \A i \in 1 .. Len(a) + Len(b) : (a \o b)[i] = IF i <= Len(a) THEN a[i] ELSE b[i - Len(a)]
    BY <1>1, ConcatProperties
  <2>3. ASSUME NEW i \in 1 .. L PROVE Text(k)[T + i] = Block(k)[i]
    <3>1. T + i \in 1 .. T + L /\ ~(T + i <= T) /\ T + i - T = i
      BY <1>1
    <3>2. QED BY <2>1, <2>2, <3>1
  <2>4. QED BY <2>1, <2>2, <2>3
<1>3. 0 \in Good
  BY <1>0
<1>4. ASSUME NEW j \in 1 .. n, j - 1 \in Good PROVE j \in Good
  <2>0. j \in 0 .. n /\ j - 1 \in 0 .. n
    BY <1>0
  <2> SUFFICES ASSUME j >= k PROVE Len(Text(j)) >= T + L /\ \A i \in 1 .. L : Text(j)[T + i] = Block(k)[i]
    BY <2>0
  <2>1. CASE j = k
    <3>1. Len(Text(j)) = T + L
      BY <1>2, <2>1
    <3>2. QED BY <1>1, <1>2, <2>1, <3>1
  <2>2. CASE j # k
    <3> DEFINE a == Text(j - 1)
               b == Block(j)
    <3>1. a \in Seq(Letters) /\ b \in Seq(Letters) /\ Text(j) = a \o b
      BY <2>0, TextNext, BlockTyped
    <3>2. Len(a) >= T + L /\ \A i \in 1 .. L : a[T + i] = Block(k)[i]
      <4>1. j - 1 >= k
        BY <1>0, <2>2
      <4>2. QED BY <1>4, <4>1
    <3> HIDE DEF a, b
    <3>3. /\ Len(a) \in Nat /\ Len(b) \in Nat /\ Len(a \o b) = Len(a) + Len(b)
          /\ \A i \in 1 .. Len(a) + Len(b) : (a \o b)[i] = IF i <= Len(a) THEN a[i] ELSE b[i - Len(a)]
      BY <3>1, ConcatProperties, LenProperties
    <3>4. ASSUME NEW i \in 1 .. L PROVE (a \o b)[T + i] = Block(k)[i]
      <4> HIDE DEF T, L
      <4>1. T + i \in 1 .. Len(a) + Len(b) /\ T + i <= Len(a)
        BY <1>1, <3>2, <3>3
      <4>2. QED BY <3>2, <3>3, <4>1
    <3>5. Len(a \o b) >= T + L
      <4> HIDE DEF T, L
      <4>1. QED BY <1>1, <3>2, <3>3
    <3>6. QED BY <3>1, <3>4, <3>5
  <2>3. QED BY <2>1, <2>2
<1> HIDE DEF Good
<1>5. \A j \in 0 .. n : j \in Good
  BY <1>0, <1>3, <1>4, NoFirstFailure
<1>6. n \in Good /\ n >= k
  BY <1>0, <1>5
<1>7. Wire \in Seq(Letters) /\ Len(Wire) \in Nat
  <2>1. Wire \in Seq(Letters)
    BY <1>0, TextNext DEF Wire
  <2>2. QED BY <2>1, LenProperties
<1>8. Len(Text(n)) >= T + L /\ \A i \in 1 .. L : Text(n)[T + i] = Block(k)[i]
  BY <1>6 DEF Good
<1>9. Len(Wire) >= T + L /\ \A i \in 1 .. L : Wire[T + i] = Block(k)[i]
  BY <1>8 DEF Wire
<1> HIDE DEF T, L
<1>10. T + L <= Len(Wire)
  BY <1>1, <1>7, <1>9
<1>11. QED BY <1>1, <1>2, <1>7, <1>9, <1>10 DEF T, L

-----------------------------------------------------------------------------
(* Cuts of a sequence.                                                     *)
LEMMA Cut ==
  ASSUME NEW E, NEW w \in Seq(E), NEW i \in Nat, NEW j \in Nat, i <= j, j <= Len(w)
  PROVE  /\ SubSeq(w, i + 1, j) \in Seq(E) /\ Len(SubSeq(w, i + 1, j)) = j - i
         /\ \A n \in 1 .. j - i : SubSeq(w, i + 1, j)[n] = w[i + n]
<1> DEFINE u == SubSeq(w, i + 1, j)
<1>1. Len(w) \in Nat /\ \A n \in i + 1 .. j : w[n] \in E
  BY LenProperties, ElementOfSeq
<1>2. /\ u \in Seq(E) /\ Len(u) = IF i + 1 <= j THEN j - (i + 1) + 1 ELSE 0
      /\ \A n \in 1 .. j - (i + 1) + 1 : u[n] = w[i + 1 + n - 1]
  BY <1>1, SubSeqProperties
<1> HIDE DEF u
<1>3. j - (i + 1) + 1 = j - i /\ \A n \in 1 .. j - i : i + 1 + n - 1 = i + n
  OBVIOUS
<1>4. QED BY <1>2, <1>3 DEF u

LEMMA Joined ==
  ASSUME NEW E, NEW w \in Seq(E), NEW i \in Nat, NEW j \in Nat, NEW k \in Nat, i <= j, j <= k, k <= Len(w)
  PROVE  SubSeq(w, i + 1, k) = SubSeq(w, i + 1, j) \o SubSeq(w, j + 1, k)
<1> DEFINE a == SubSeq(w, i + 1, j)
           b == SubSeq(w, j + 1, k)
           u == SubSeq(w, i + 1, k)
<1>1. j <= Len(w) /\ i <= k
  BY LenProperties
<1>2. /\ a \in Seq(E) /\ Len(a) = j - i /\ \A n \in 1 .. j - i : a[n] = w[i + n]
      /\ b \in Seq(E) /\ Len(b) = k - j /\ \A n \in 1 .. k - j : b[n] = w[j + n]
      /\ u \in Seq(E) /\ Len(u) = k - i /\ \A n \in 1 .. k - i : u[n] = w[i + n]
  BY <1>1, Cut
<1> HIDE DEF a, b, u
<1>3. /\ a \o b \in Seq(E) /\ Len(a \o b) = Len(a) + Len(b)
      /\ \A n \in 1 .. Len(a) + Len(b) : (a \o b)[n] = IF n <= Len(a) THEN a[n] ELSE b[n - Len(a)]
  BY <1>2, ConcatProperties
<1>4. Len(a) + Len(b) = k - i
  BY <1>2
<1>5. ASSUME NEW n \in 1 .. k - i PROVE u[n] = (a \o b)[n]
  <2>1. u[n] = w[i + n] /\ (a \o b)[n] = IF n <= Len(a) THEN a[n] ELSE b[n - Len(a)]
    BY <1>2, <1>3, <1>4
  <2>2. CASE n <= Len(a)
    <3>1. n \in 1 .. j - i
      BY <1>2, <2>2
    <3>2. QED BY <1>2, <2>1, <2>2, <3>1
  <2>3. CASE ~(n <= Len(a))
    <3>1. n - Len(a) \in 1 .. k - j /\ j + (n - Len(a)) = i + n
      BY <1>2, <2>3
    <3>2. b[n - Len(a)] = w[j + (n - Len(a))]
      BY <1>2, <3>1
    <3>3. QED BY <2>1, <2>3, <3>1, <3>2
  <2>4. QED BY <2>2, <2>3
<1>6. u = a \o b
  BY <1>2, <1>3, <1>4, <1>5, SeqEqual
<1>7. QED BY <1>6 DEF a, b, u

(* What has been read of a block that is not whole yet.                    *)
LEMMA PartRead ==
  ASSUME script \in Seq(Events), NEW k \in 1 .. Len(script), NEW r \in Nat,
         Len(Text(k - 1)) <= r, r < Len(Text(k))
  PROVE  NoBlank(LineEnds(SubSeq(Wire, Len(Text(k - 1)) + 1, r)))
<1> DEFINE T == Len(Text(k - 1))
           b == Block(k)
           w == Wire
           u == SubSeq(w, T + 1, r)
           v == SubSeq(b, 1, r - T)
<1>1. /\ T \in Nat /\ Len(Text(k)) = T + Len(b) /\ Len(w) \in Nat /\ w \in Seq(Letters)
      /\ Len(Text(k)) <= Len(w) /\ \A i \in 1 .. Len(b) : w[T + i] = b[i]
  BY BlockOnWire
<1>2. b \in Seq(Letters) /\ Len(b) \in Nat
  BY BlockTyped, LenProperties
<1>3. T <= r /\ r < Len(Text(k)) /\ \A n \in 0 .. Len(b) - 1 : NoBlank(LineEnds(SubSeq(b, 1, n)))
  BY BlockRead
<1> HIDE DEF T, b, w
<1>4. r - T \in Nat /\ r - T \in 0 .. Len(b) - 1 /\ r <= Len(w) /\ r < T + Len(b) /\ r - T <= Len(b)
  BY <1>1, <1>2, <1>3
<1>5. u \in Seq(Letters) /\ Len(u) = r - T /\ \A i \in 1 .. r - T : u[i] = w[T + i]
  BY <1>1, <1>3, <1>4, Cut
<1>6. v \in Seq(Letters) /\ Len(v) = r - T /\ \A i \in 1 .. r - T : v[i] = b[i]
  <2>1. /\ SubSeq(b, 0 + 1, r - T) \in Seq(Letters) /\ Len(SubSeq(b, 0 + 1, r - T)) = r - T - 0
        /\ \A i \in 1 .. r - T - 0 : SubSeq(b, 0 + 1, r - T)[i] = b[0 + i]
    BY <1>2, <1>4, Cut
  <2>2. SubSeq(b, 0 + 1, r - T) = v /\ r - T - 0 = r - T /\ \A i \in 1 .. r - T : 0 + i = i
    BY <1>4
  <2> HIDE DEF v
  <2>3. QED BY <2>1, <2>2
<1> HIDE DEF u, v
<1>7. u = v
  <2>1. \A i \in 1 .. r - T : i \in 1 .. Len(b)
    BY <1>1, <1>2, <1>4
  <2>2. \A i \in 1 .. r - T : u[i] = v[i]
    BY <1>1, <1>5, <1>6, <2>1
  <2>3. QED BY <1>5, <1>6, <2>2, SeqEqual
<1>8. NoBlank(LineEnds(v))
  BY <1>3, <1>4 DEF v
<1>9. QED BY <1>7, <1>8 DEF u, w, T

(* A whole block is normalized by itself, and so is what follows it.       *)
LEMMA WholeRead ==
  ASSUME script \in Seq(Events), NEW k \in 1 .. Len(script), NEW r \in Nat,
         Len(Text(k)) <= r, r <= Len(Wire)
  PROVE  /\ LineEnds(SubSeq(Wire, Len(Text(k - 1)) + 1, r))
              = LineEnds(Block(k)) \o LineEnds(SubSeq(Wire, Len(Text(k)) + 1, r))
         /\ LineEnds(SubSeq(Wire, Len(Text(k)) + 1, r)) \in Seq(Letters)
<1> DEFINE T == Len(Text(k - 1))
           K == Len(Text(k))
           b == Block(k)
           w == Wire
           c == SubSeq(w, T + 1, K)
           v == SubSeq(w, K + 1, r)
           t == LineEnds(b)
<1>1. /\ T \in Nat /\ K = T + Len(b) /\ Len(w) \in Nat /\ w \in Seq(Letters)
      /\ \A i \in 1 .. Len(b) : w[T + i] = b[i]
  BY BlockOnWire
<1>2. b \in Seq(Letters) /\ Len(b) \in Nat
  BY BlockTyped, LenProperties
<1>3. K <= r /\ r <= Len(w)
  OBVIOUS
<1>4. t \in Seq(Letters) /\ t # <<>> /\ Last(t) = LF
  <2>1. PICK e \in Nat \ {0} : Read(t, e, k)
    BY BlockRead
  <2> HIDE DEF t
  <2>2. t \in Seq(Letters) /\ Len(t) = e + 1 /\ t[e + 1] = LF
    BY <2>1 DEF Read
  <2>3. QED BY <2>2, EmptySeq DEF Last
<1> HIDE DEF T, K, b, w
<1>5. K \in Nat /\ T <= K /\ K <= Len(w) /\ K - T = Len(b)
  BY <1>1, <1>2, <1>3
<1>5a. w \in Seq(Letters) /\ T \in Nat /\ K \in Nat /\ r \in Nat /\ T <= K /\ K <= r /\ r <= Len(w) /\ K <= Len(w)
  BY <1>1, <1>3, <1>5
<1>6. v \in Seq(Letters) /\ SubSeq(w, T + 1, r) = c \o v
  <2>1. v \in Seq(Letters)
    BY ONLY <1>5a, Cut
  <2>2. SubSeq(w, T + 1, r) = c \o v
    BY ONLY <1>5a, Joined
  <2>3. QED BY <2>1, <2>2
<1>7. c = b
  <2>1. c \in Seq(Letters) /\ Len(c) = K - T /\ \A i \in 1 .. K - T : c[i] = w[T + i]
    BY ONLY <1>5a, Cut
  <2> HIDE DEF c
  <2>2. Len(c) = Len(b) /\ \A i \in 1 .. Len(c) : c[i] = b[i]
    BY <1>1, <1>5, <2>1
  <2>3. QED BY <1>2, <2>1, <2>2, SeqEqual
<1> HIDE DEF c, v
<1>8. LineEnds(b \o v) = t \o LineEnds(v)
  BY <1>2, <1>4, <1>6, LineEndsAfter, EndsAreLetters
<1>9. LineEnds(v) \in Seq(Letters)
  BY <1>6, EndsAreLetters, LineEndsNext
<1>10. QED BY <1>6, <1>7, <1>8, <1>9 DEF v, w, T, K, b, t

(* What taking a block finds in a buffer that begins with one.             *)
Begins(e, k, x) ==
  /\ e \in BlockEnds
  /\ (CHOOSE i \in BlockEnds : \A j \in BlockEnds : i <= j) = e
  /\ SubSeq(buffer, e + 2, Len(buffer)) = x
  /\ buffer[1].char = script[k]
  /\ IF script[k] = "ping" THEN {i \in 1 .. e : buffer[i].char = "data"} = {}
     ELSE \E d \in 1 .. e : {i \in 1 .. e : buffer[i].char = "data"} = {d} /\ buffer[d].of = Tokens(k)

LEMMA FirstBlock ==
  ASSUME NEW t, NEW e \in Nat \ {0}, NEW k, Read(t, e, k), NEW x \in Seq(Letters), buffer = t \o x
  PROVE  Begins(e, k, x)
<1>1. /\ t \in Seq(Letters) /\ e \in Nat \ {0} /\ Len(t) = e + 1 /\ t[e] = LF /\ t[e + 1] = LF
      /\ \A i \in 1 .. e - 1 : ~(t[i] = LF /\ t[i + 1] = LF)
      /\ t[1].char = script[k]
      /\ IF script[k] = "ping" THEN {i \in 1 .. e : t[i].char = "data"} = {}
         ELSE \E d \in 1 .. e : {i \in 1 .. e : t[i].char = "data"} = {d} /\ t[d].of = Tokens(k)
  BY DEF Read
<1>2. /\ Len(x) \in Nat /\ buffer \in Seq(Letters) /\ Len(buffer) = e + 1 + Len(x)
      /\ \A i \in 1 .. e + 1 + Len(x) : buffer[i] = IF i <= e + 1 THEN t[i] ELSE x[i - (e + 1)]
  <2>1. /\ t \o x \in Seq(Letters) /\ Len(t \o x) = Len(t) + Len(x)
        /\ \A i \in 1 .. Len(t) + Len(x) : (t \o x)[i] = IF i <= Len(t) THEN t[i] ELSE x[i - Len(t)]
    BY <1>1, ConcatProperties
  <2>2. Len(x) \in Nat /\ Len(t) = e + 1
    BY <1>1, LenProperties
  <2>3. QED BY <2>1, <2>2
<1>3. \A i \in 1 .. e + 1 : buffer[i] = t[i]
  BY <1>2
<1>4. e \in BlockEnds
  <2>1. e \in 1 .. e + 1 /\ e + 1 \in 1 .. e + 1 /\ e \in 1 .. Len(buffer) - 1
    BY <1>2
  <2>2. QED BY <1>1, <1>3, <2>1 DEF BlockEnds
<1>5. \A j \in BlockEnds : j \in Int /\ e <= j
  <2> SUFFICES ASSUME NEW j \in 1 .. Len(buffer) - 1, buffer[j] = LF, buffer[j + 1] = LF, j < e PROVE FALSE
    BY <1>2 DEF BlockEnds
  <2>1. j \in 1 .. e - 1 /\ j \in 1 .. e + 1 /\ j + 1 \in 1 .. e + 1
    OBVIOUS
  <2>2. t[j] = LF /\ t[j + 1] = LF
    BY <1>3, <2>1
  <2>3. QED BY <1>1, <2>1, <2>2
<1>6. (CHOOSE i \in BlockEnds : \A j \in BlockEnds : i <= j) = e
  <2>1. \A i \in BlockEnds : (\A j \in BlockEnds : i <= j) => i = e
    BY <1>4, <1>5
  <2>2. QED BY <1>4, <1>5, <2>1
<1>7. SubSeq(buffer, e + 2, Len(buffer)) = x
  <2> DEFINE v == SubSeq(buffer, e + 2, Len(buffer))
             n == Len(buffer)
  <2>1. \A i \in e + 2 .. n : buffer[i] \in Letters
    BY <1>2, ElementOfSeq
  <2>2. v \in Seq(Letters) /\ Len(v) = IF e + 2 <= n THEN n - (e + 2) + 1 ELSE 0
    BY <1>2, <2>1, SubSeqProperties
  <2>3. \A i \in 1 .. n - (e + 2) + 1 : v[i] = buffer[e + 2 + i - 1]
    BY <1>2, <2>1, SubSeqProperties
  <2> HIDE DEF v
  <2>4. n - (e + 2) + 1 = Len(x)
    BY <1>2
  <2>5. Len(v) = Len(x)
    BY <1>2, <2>2
  <2>6. ASSUME NEW i \in 1 .. Len(x) PROVE v[i] = x[i]
    <3>1. /\ e + 2 + i - 1 \in 1 .. e + 1 + Len(x) /\ ~(e + 2 + i - 1 <= e + 1)
          /\ e + 2 + i - 1 - (e + 1) = i
      BY <1>2
    <3>2. buffer[e + 2 + i - 1] = x[e + 2 + i - 1 - (e + 1)]
      BY <1>2, <3>1
    <3>3. QED BY <2>3, <2>4, <3>1, <3>2
  <2>7. v = x
    BY <2>2, <2>5, <2>6, SeqEqual
  <2>8. QED BY <2>7 DEF v
<1>8. buffer[1].char = script[k]
  <2>1. 1 \in 1 .. e + 1
    OBVIOUS
  <2>2. QED BY <1>1, <1>3, <2>1
<1>8a. ASSUME NEW i \in 1 .. e PROVE buffer[i] = t[i]
  <2>1. i \in 1 .. e + 1
    OBVIOUS
  <2>2. QED BY <1>3, <2>1
<1>9. {i \in 1 .. e : buffer[i].char = "data"} = {i \in 1 .. e : t[i].char = "data"}
  BY <1>8a
<1>11. IF script[k] = "ping" THEN {i \in 1 .. e : buffer[i].char = "data"} = {}
       ELSE \E d \in 1 .. e : {i \in 1 .. e : buffer[i].char = "data"} = {d} /\ buffer[d].of = Tokens(k)
  <2>1. CASE script[k] = "ping"
    BY <1>1, <1>9, <2>1
  <2>2. CASE script[k] # "ping"
    <3>1. PICK d \in 1 .. e : {i \in 1 .. e : t[i].char = "data"} = {d} /\ t[d].of = Tokens(k)
      BY <1>1, <2>2
    <3>2. {i \in 1 .. e : buffer[i].char = "data"} = {d} /\ buffer[d].of = Tokens(k)
      BY <1>9, <1>8a, <3>1
    <3>3. QED BY <2>2, <3>2
  <2>3. QED BY <2>1, <2>2
<1>12. QED BY <1>4, <1>6, <1>7, <1>8, <1>11 DEF Begins

(* The events lie one after the other.                                     *)
LEMMA TextGrows ==
  ASSUME script \in Seq(Events), NEW k \in 0 .. Len(script), NEW j \in 0 .. Len(script), j <= k
  PROVE  Len(Text(j)) \in Nat /\ Len(Text(k)) \in Nat /\ Len(Text(j)) <= Len(Text(k))
<1> DEFINE n == Len(script)
           Good == {m \in 0 .. n : j <= m => Len(Text(j)) <= Len(Text(m))}
<1>0. n \in Nat /\ j \in Nat
  BY LenProperties
<1>1. ASSUME NEW m \in 0 .. n PROVE Len(Text(m)) \in Nat
  BY TextNext, LenProperties
<1>2. 0 \in Good
  <2>1. 0 \in 0 .. n /\ (j <= 0 => j = 0)
    BY <1>0
  <2>2. Len(Text(0)) <= Len(Text(0))
    BY <1>1, <2>1
  <2>3. QED BY <2>1, <2>2
<1>3. ASSUME NEW m \in 1 .. n, m - 1 \in Good PROVE m \in Good
  <2>1. m \in 0 .. n /\ m - 1 \in 0 .. n
    BY <1>0
  <2>2. Len(Text(m)) = Len(Text(m - 1)) + Len(Block(m)) /\ Len(Block(m)) \in Nat
    BY BlockOnWire, BlockRead
  <2>3. Len(Text(m - 1)) \in Nat /\ Len(Text(m)) \in Nat /\ Len(Text(j)) \in Nat
    BY <1>1, <2>1
  <2>4. CASE j = m
    BY <2>1, <2>3, <2>4
  <2>5. CASE j # m
    <3>1. j <= m => j <= m - 1
      BY <1>0, <2>5
    <3>2. j <= m => Len(Text(j)) <= Len(Text(m - 1))
      BY <1>3, <3>1
    <3>3. j <= m => Len(Text(j)) <= Len(Text(m))
      BY <2>2, <2>3, <3>2
    <3>4. QED BY <2>1, <3>3
  <2>6. QED BY <2>4, <2>5
<1> HIDE DEF Good
<1>4. \A m \in 0 .. n : m \in Good
  BY <1>0, <1>2, <1>3, NoFirstFailure
<1>5. k \in Good
  BY <1>4
<1>6. QED BY <1>1, <1>5 DEF Good

-----------------------------------------------------------------------------
(* While the script stays, so does its text.                               *)
LEMMA SameTokens == ASSUME script' = script, NEW m PROVE Tokens(m)' = Tokens(m)
BY DEF Tokens

LEMMA SameBlock == ASSUME script' = script, NEW m PROVE Block(m)' = Block(m)
<1>1. Tokens(m)' = Tokens(m)
  BY SameTokens
<1>2. QED BY <1>1 DEF Block, Char, CR, LF

LEMMA SameText == ASSUME script' = script, NEW m PROVE Text(m)' = Text(m)
<1>1. \A j \in 1 .. m : Block(j)' = Block(j)
  BY SameBlock
<1>2. [j \in 1 .. m |-> Block(j)'] = [j \in 1 .. m |-> Block(j)]
  BY <1>1
<1>3. QED BY <1>2 DEF Text

LEMMA WireTyped == script \in Seq(Events) => Len(Wire) \in Nat
BY TextNext, LenProperties DEF Wire

LEMMA WireTypedNext == script' \in Seq(Events) => Len(Wire)' \in Nat
<1>1. (script \in Seq(Events) => Len(Wire) \in Nat)'
  BY WireTyped, PTL
<1>2. QED BY <1>1 DEF Events

-----------------------------------------------------------------------------
(* The inductive invariant.                                                *)
HasCome(m, e) == \E j \in 1 .. m : script[j] = e

(* The first m events have been handled, and the buffer holds the rest of  *)
(* what has been read.                                                     *)
Handled(m) ==
  /\ Len(Text(m)) <= read
  /\ buffer = LineEnds(SubSeq(Wire, Len(Text(m)) + 1, read))
  /\ words = Tokens(m)
  /\ reader = "prompt" => /\ generated = words
                          /\ status = "done" <=> HasCome(m, "done")
                          /\ HasCome(m, "error") => status = "idle"
  /\ HasCome(m, "error") => failed

StreamTyped ==
  /\ reader \in {"prompt", "chat"}
  /\ script \in Seq(Events)
  /\ read \in Nat /\ read <= Len(Wire)

StreamInv ==
  /\ StreamTyped
  /\ reader = "chat" => (status = "decoding" <=> open)
  /\ \A j \in 1 .. Len(script) - 1 : script[j] \notin {"done", "error"}
  /\ \E m \in 0 .. Len(script) : Handled(m)

(* The buffer begins with the next event as soon as all of it is read.     *)
LEMMA NextEvent ==
  ASSUME StreamTyped, NEW m \in 0 .. Len(script), Handled(m), m # Len(script), Len(Text(m + 1)) <= read
  PROVE  /\ m + 1 \in 1 .. Len(script)
         /\ \E e \in Nat \ {0} : \E t : /\ Read(t, e, m + 1)
                                        /\ buffer = t \o LineEnds(SubSeq(Wire, Len(Text(m + 1)) + 1, read))
         /\ LineEnds(SubSeq(Wire, Len(Text(m + 1)) + 1, read)) \in Seq(Letters)
<1> USE DEF StreamTyped
<1>1. m + 1 \in 1 .. Len(script) /\ (m + 1) - 1 = m
  BY LenProperties
<1> DEFINE k == m + 1
<1> HIDE DEF k
<1>2. k \in 1 .. Len(script) /\ k - 1 = m /\ Len(Text(k)) <= read
  BY <1>1 DEF k
<1>3. /\ LineEnds(SubSeq(Wire, Len(Text(k - 1)) + 1, read))
           = LineEnds(Block(k)) \o LineEnds(SubSeq(Wire, Len(Text(k)) + 1, read))
      /\ LineEnds(SubSeq(Wire, Len(Text(k)) + 1, read)) \in Seq(Letters)
  BY <1>2, WholeRead
<1>4. PICK e \in Nat \ {0} : Read(LineEnds(Block(k)), e, k)
  BY <1>2, BlockRead
<1>5. buffer = LineEnds(Block(k)) \o LineEnds(SubSeq(Wire, Len(Text(k)) + 1, read))
  BY <1>2, <1>3 DEF Handled
<1>6. QED BY <1>1, <1>3, <1>4, <1>5 DEF k

LEMMA QuietMeans ==
  ASSUME StreamTyped, NEW m \in 0 .. Len(script), Handled(m)
  PROVE  Quiet <=> (m = Len(script) \/ read < Len(Text(m + 1)))
<1> USE DEF StreamTyped
<1>0. Len(script) \in Nat /\ Len(Text(m)) \in Nat
  BY LenProperties, TextGrows
<1>1. CASE m = Len(script)
  <2>1. read = Len(Text(m)) /\ read < read + 1 /\ read + 1 \in Int
    BY <1>0, <1>1 DEF Handled, Wire
  <2>2. SubSeq(Wire, Len(Text(m)) + 1, read) = <<>>
    <3>1. SubSeq(Wire, read + 1, read) = <<>>
      BY <2>1, SubSeqEmpty
    <3>2. QED BY <2>1, <3>1
  <2>3. buffer = <<>>
    BY <2>2, LineEndsOfNothing DEF Handled
  <2>4. \A i \in 1 .. Len(buffer) - 1 : FALSE
    BY <2>3, EmptySeq
  <2>5. QED BY <1>1, <2>4 DEF Quiet, BlockEnds
<1>2. CASE m # Len(script) /\ read < Len(Text(m + 1))
  <2> DEFINE k == m + 1
  <2>1. k \in 1 .. Len(script) /\ k - 1 = m
    BY <1>0, <1>2
  <2>2. read < Len(Text(k)) /\ Len(Text(m)) <= read
    BY <1>2 DEF Handled
  <2> HIDE DEF k
  <2>3. Len(Text(k - 1)) <= read
    BY <2>1, <2>2
  <2>4. NoBlank(LineEnds(SubSeq(Wire, Len(Text(k - 1)) + 1, read)))
    BY <2>1, <2>2, <2>3, PartRead
  <2>5. NoBlank(buffer)
    BY <2>1, <2>4 DEF Handled
  <2>6. Quiet
    BY <2>5 DEF NoBlank, Quiet, BlockEnds
  <2>7. QED BY <1>2, <2>6
<1>3. CASE m # Len(script) /\ ~(read < Len(Text(m + 1)))
  <2>1. m + 1 \in 0 .. Len(script)
    BY <1>0, <1>3
  <2>2. Len(Text(m + 1)) \in Nat
    BY <2>1, TextGrows
  <2>3. Len(Text(m + 1)) <= read
    BY <1>3, <2>2
  <2>4. PICK e \in Nat \ {0} : \E t : /\ Read(t, e, m + 1)
                                      /\ buffer = t \o LineEnds(SubSeq(Wire, Len(Text(m + 1)) + 1, read))
    BY <1>3, <2>3, NextEvent
  <2>5. LineEnds(SubSeq(Wire, Len(Text(m + 1)) + 1, read)) \in Seq(Letters)
    BY <1>3, <2>3, NextEvent
  <2>6. e \in BlockEnds
    BY <2>4, <2>5, FirstBlock DEF Begins
  <2>7. QED BY <1>3, <2>6 DEF Quiet
<1>4. QED BY <1>1, <1>2, <1>3

-----------------------------------------------------------------------------
(* What has arrived with its blank line has been handled.                  *)
LEMMA InvShows == ASSUME StreamInv PROVE ArrivedIsShown
<1> SUFFICES ASSUME Quiet
             PROVE  /\ words = Arrived("token")
                    /\ reader = "prompt" => /\ generated = words
                                            /\ status = "done" <=> Arrived("done") > 0
                                            /\ Arrived("error") > 0 => status = "idle"
                    /\ reader = "chat" => (status = "decoding" <=> open)
                    /\ Arrived("error") > 0 => failed
  BY DEF ArrivedIsShown
<1> DEFINE n == Len(script)
           A(m, e) == {j \in 1 .. m : script[j] = e}
<1>1. PICK m \in 0 .. n : Handled(m)
  BY DEF StreamInv
<1>2. n \in Nat /\ m \in Nat /\ script \in Seq(Events) /\ read \in Nat /\ DOMAIN script = 1 .. n
  BY LenProperties DEF StreamInv, StreamTyped
<1>3. m = n \/ read < Len(Text(m + 1))
  BY <1>1, QuietMeans DEF StreamInv
<1>4. ASSUME NEW j \in 1 .. n PROVE Len(Text(j)) <= read <=> j <= m
  <2>1. j \in 0 .. n
    BY <1>2
  <2>2. CASE j <= m
    <3>1. Len(Text(j)) \in Nat /\ Len(Text(m)) \in Nat /\ Len(Text(j)) <= Len(Text(m))
      BY <1>2, <2>1, <2>2, TextGrows
    <3>2. Len(Text(m)) <= read
      BY <1>1 DEF Handled
    <3>3. QED BY <1>2, <2>2, <3>1, <3>2
  <2>3. CASE ~(j <= m)
    <3> DEFINE k == m + 1
    <3>1. k \in 0 .. n /\ k <= j /\ m # n
      <4>1. n \in Nat /\ m \in Nat /\ j \in Nat /\ j <= n
        BY <1>2
      <4> HIDE DEF n
      <4>2. QED BY ONLY <2>3, <4>1
    <3>3. read < Len(Text(k))
      BY <1>3, <3>1
    <3> HIDE DEF k
    <3>2. /\ Len(Text(k)) \in Nat /\ Len(Text(j)) \in Nat /\ Len(Text(k)) <= Len(Text(j))
      BY <1>2, <2>1, <3>1, TextGrows
    <3>4. QED BY <1>2, <2>3, <3>2, <3>3
  <2>4. QED BY <2>2, <2>3
<1>5. ASSUME NEW e PROVE Arrived(e) = Cardinality(A(m, e))
  <2>1. {j \in DOMAIN script : script[j] = e /\ Len(Text(j)) <= read} = A(m, e)
    BY <1>2, <1>4
  <2>2. QED BY <2>1 DEF Arrived
<1>6. ASSUME NEW e PROVE Cardinality(A(m, e)) > 0 <=> HasCome(m, e)
  <2>1. IsFiniteSet(A(m, e))
    <3>1. IsFiniteSet(1 .. m)
      BY <1>2, FS_Interval
    <3>3. A(m, e) \in SUBSET (1 .. m)
      OBVIOUS
    <3> HIDE DEF A
    <3>2. QED BY <3>1, <3>3, FS_Subset
  <2>2. A(m, e) = {} <=> ~HasCome(m, e)
    BY DEF HasCome
  <2> HIDE DEF A
  <2>3. Cardinality(A(m, e)) \in Nat /\ (Cardinality(A(m, e)) = 0 <=> A(m, e) = {})
    BY <2>1, FS_CardinalityType, FS_EmptySet
  <2>4. QED BY <2>2, <2>3
<1>7. Cardinality(A(m, "token")) = Tokens(m)
  BY DEF Tokens
<1> HIDE DEF A
<1>8. /\ Arrived("token") = Tokens(m)
      /\ Arrived("done") > 0 <=> HasCome(m, "done")
      /\ Arrived("error") > 0 <=> HasCome(m, "error")
  BY <1>5, <1>6, <1>7
<1>9. QED BY <1>1, <1>8 DEF Handled, StreamInv

-----------------------------------------------------------------------------
(* A chunk, cut anywhere, is normalized with what is left of the others.   *)
LEMMA ChunkKeeps == ASSUME StreamInv, ReadChunk PROVE StreamInv'
<1>1. PICK n \in read + 1 .. Len(Wire) : buffer' = Received(SubSeq(Wire, read + 1, n)) /\ read' = n
  BY DEF ReadChunk
<1>2. UNCHANGED <<reader, script, open, status, generated, words, failed>>
  BY DEF ReadChunk
<1>3. PICK m \in 0 .. Len(script) : Handled(m)
  BY DEF StreamInv
<1>4. StreamTyped /\ script \in Seq(Events) /\ read \in Nat
  BY DEF StreamInv, StreamTyped
<1> DEFINE T == Len(Text(m))
           w == Wire
           a == SubSeq(w, T + 1, read)
           c == SubSeq(w, read + 1, n)
<1>5. T \in Nat /\ T <= read /\ w \in Seq(Letters) /\ Len(w) \in Nat
  <2>1. T <= read /\ T \in Nat
    BY <1>3, <1>4, TextGrows DEF Handled
  <2>2. w \in Seq(Letters)
    <3>1. Len(script) \in 0 .. Len(script)
      BY <1>4, LenProperties
    <3>2. QED BY <1>4, <3>1, TextNext DEF Wire
  <2>3. QED BY <2>1, <2>2, LenProperties
<1>6. \A i \in 1 .. Len(w) : w[i] = CR => i + 1 \in 1 .. Len(w) /\ w[i + 1] = LF
  BY <1>4, TextPaired
<1>7. n \in Nat /\ read <= n /\ n <= Len(w) /\ read <= Len(w)
  BY <1>1, <1>4, <1>5
<1>8. buffer = LineEnds(a)
  BY <1>3 DEF Handled
<1>9. buffer' = LineEnds(LineEnds(a) \o c)
  BY <1>1, <1>8 DEF Received
<1> HIDE DEF T, w
<1>10. a \in Seq(Letters) /\ Len(a) = read - T /\ \A i \in 1 .. read - T : a[i] = w[T + i]
  BY ONLY <1>4, <1>5, <1>7, Cut
<1>11. c \in Seq(Letters)
  BY ONLY <1>4, <1>5, <1>7, Cut
<1>12. SubSeq(w, T + 1, n) = a \o c
  BY ONLY <1>4, <1>5, <1>7, Joined
<1> HIDE DEF a, c
<1>13. Paired(a)
  <2> SUFFICES ASSUME NEW i \in 1 .. Len(a) - 1, a[i] = CR PROVE a[i + 1] = LF
    BY DEF Paired
  <2>1. i \in 1 .. read - T /\ i + 1 \in 1 .. read - T /\ T + i \in 1 .. Len(w) /\ T + i + 1 = T + (i + 1)
    BY <1>4, <1>5, <1>7, <1>10
  <2>2. w[T + i] = CR
    BY <1>10, <2>1
  <2>3. w[T + i + 1] = LF
    BY <1>6, <2>1, <2>2
  <2>4. QED BY <1>10, <2>1, <2>3
<1>14. buffer' = LineEnds(SubSeq(w, T + 1, n))
  BY <1>9, <1>10, <1>11, <1>12, <1>13, EndsAreLetters, ChunksJoin
<1>15. /\ Text(m)' = Text(m) /\ Tokens(m)' = Tokens(m) /\ Wire' = Wire
  <2>1. Text(m)' = Text(m) /\ Tokens(m)' = Tokens(m)
    BY <1>2, SameText, SameTokens
  <2>2. Text(Len(script))' = Text(Len(script))
    BY <1>2, SameText
  <2>3. QED BY <1>2, <2>1, <2>2 DEF Wire
<1>16. Handled(m)'
  <2>1. T <= n
    BY <1>4, <1>5, <1>7
  <2>2. Len(Text(m)') <= read' /\ buffer' = LineEnds(SubSeq(Wire', Len(Text(m)') + 1, read'))
    BY <1>1, <1>14, <1>15, <2>1 DEF T, w
  <2>3. QED BY <1>2, <1>3, <1>15, <2>2 DEF Handled, HasCome
<1>17. StreamTyped'
  BY <1>1, <1>2, <1>4, <1>7, <1>15 DEF StreamTyped, w, Events
<1>18. QED BY <1>2, <1>16, <1>17 DEF StreamInv

(* The first block of the buffer is the next event, whole.                 *)
LEMMA BlockKeeps == ASSUME StreamInv, TakeBlock PROVE StreamInv'
<1>1. ~Quiet /\ UNCHANGED <<reader, script, read, open>>
  BY DEF TakeBlock
<1>2. PICK m \in 0 .. Len(script) : Handled(m)
  BY DEF StreamInv
<1>3. StreamTyped /\ script \in Seq(Events) /\ read \in Nat /\ Len(script) \in Nat
  BY LenProperties DEF StreamInv, StreamTyped
<1>4. m # Len(script) /\ ~(read < Len(Text(m + 1)))
  BY <1>1, <1>2, <1>3, QuietMeans
<1> DEFINE k == m + 1
           x == LineEnds(SubSeq(Wire, Len(Text(k)) + 1, read))
<1>5. k \in 1 .. Len(script) /\ k \in 0 .. Len(script) /\ k - 1 = m /\ k \in Nat /\ k # 0
  BY <1>3, <1>4
<1>6. Len(Text(k)) <= read
  <2>1. Len(Text(k)) \in Nat
    BY <1>3, <1>5, TextGrows
  <2>2. QED BY <1>3, <1>4, <2>1
<1>7. x \in Seq(Letters) /\ \E e \in Nat \ {0} : \E t : Read(t, e, k) /\ buffer = t \o x
  BY <1>2, <1>3, <1>4, <1>6, NextEvent
<1> HIDE DEF x, k
<1>8. PICK e \in Nat \ {0} : Begins(e, k, x)
  <2>1. PICK e \in Nat \ {0} : \E t : Read(t, e, k) /\ buffer = t \o x
    BY <1>7
  <2>2. PICK t : Read(t, e, k) /\ buffer = t \o x
    BY <2>1
  <2>3. Begins(e, k, x)
    BY <1>7, <2>2, FirstBlock
  <2>4. QED BY <2>3
<1>9. /\ (CHOOSE i \in BlockEnds : \A j \in BlockEnds : i <= j) = e
      /\ SubSeq(buffer, e + 2, Len(buffer)) = x
      /\ buffer[1].char = script[k]
      /\ IF script[k] = "ping" THEN {i \in 1 .. e : buffer[i].char = "data"} = {}
         ELSE \E d \in 1 .. e : {i \in 1 .. e : buffer[i].char = "data"} = {d} /\ buffer[d].of = Tokens(k)
  BY <1>8 DEF Begins
<1>10. /\ buffer' = x
       /\ IF script[k] = "ping" THEN UNCHANGED <<status, words, generated, failed>>
          ELSE Handle(script[k], Tokens(k))
  <2> DEFINE data == {i \in 1 .. e : buffer[i].char = "data"}
  <2>1. /\ buffer' = SubSeq(buffer, e + 2, Len(buffer))
        /\ IF data = {} THEN UNCHANGED <<status, words, generated, failed>>
           ELSE \E i \in data : Handle(buffer[1].char, buffer[i].of)
    BY <1>9 DEF TakeBlock
  <2>2. CASE script[k] = "ping"
    BY <1>9, <2>1, <2>2
  <2>3. CASE script[k] # "ping"
    <3>1. PICK d \in 1 .. e : data = {d} /\ buffer[d].of = Tokens(k)
      BY <1>9, <2>3
    <3> HIDE DEF data
    <3>2. Handle(buffer[1].char, buffer[d].of)
      BY <2>1, <3>1
    <3>3. QED BY <1>9, <2>1, <2>3, <3>1, <3>2
  <2>4. QED BY <2>2, <2>3
<1>11. /\ Text(k)' = Text(k) /\ Tokens(k)' = Tokens(k) /\ Wire' = Wire
  <2>1. Text(k)' = Text(k) /\ Tokens(k)' = Tokens(k)
    BY <1>1, SameText, SameTokens
  <2>2. Text(Len(script))' = Text(Len(script))
    BY <1>1, SameText
  <2>3. QED BY <1>1, <2>1, <2>2 DEF Wire
<1>12. Tokens(k) = IF script[k] = "token" THEN Tokens(m) + 1 ELSE Tokens(m)
  BY <1>5, TokensCount
<1>13. ~HasCome(m, "done") /\ ~HasCome(m, "error")
  <2>1. \A j \in 1 .. m : j \in 1 .. Len(script) - 1
    BY <1>3, <1>4
  <2>2. QED BY <2>1 DEF HasCome, StreamInv
<1>14. \A e2 \in {"done", "error"} : HasCome(k, e2)' <=> script[k] = e2
  <2>1. ASSUME NEW e2 \in {"done", "error"} PROVE (\E j \in 1 .. k : script[j] = e2) <=> script[k] = e2
    <3>1. \A j \in 1 .. k : j = k \/ j \in 1 .. m
      BY <1>3, <1>5 DEF k
    <3>2. k \in 1 .. k
      BY <1>5
    <3>3. \A j \in 1 .. m : script[j] # e2
      BY <1>13 DEF HasCome
    <3>4. QED BY <3>1, <3>2, <3>3
  <2>2. QED BY <1>1, <2>1 DEF HasCome
<1>15. words' = Tokens(k) /\ (reader = "prompt" => generated' = words')
  BY <1>2, <1>10, <1>12 DEF Handled, Handle
<1>16. reader = "prompt" => /\ status' = "done" <=> script[k] = "done"
                            /\ script[k] = "error" => status' = "idle"
  BY <1>2, <1>10, <1>13 DEF Handled, Handle
<1>17. script[k] = "error" => failed'
  BY <1>10 DEF Handle
<1>18. Handled(k)'
  <2>1. Len(Text(k)') <= read' /\ buffer' = LineEnds(SubSeq(Wire', Len(Text(k)') + 1, read'))
    BY <1>1, <1>6, <1>10, <1>11 DEF x
  <2>2. words' = Tokens(k)'
    BY <1>11, <1>15
  <2>3. QED BY <1>1, <1>14, <1>15, <1>16, <1>17, <2>1, <2>2 DEF Handled
<1>19. StreamTyped'
  BY <1>1, <1>3, <1>11 DEF StreamTyped, Events
<1>20. reader = "chat" => status' = status
  BY <1>10 DEF Handle
<1>21. QED BY <1>1, <1>5, <1>18, <1>19, <1>20 DEF StreamInv

(* The end of a stream, however it comes, handles no event.                *)
LEMMA SameHandled ==
  ASSUME StreamInv, UNCHANGED <<reader, script, read, buffer, words, generated>>,
         failed => failed', reader = "chat" => (status' = "decoding" <=> open'),
         \A m \in 0 .. Len(script) : (reader = "prompt" /\ Handled(m)) =>
           (status' = "done" <=> HasCome(m, "done")) /\ (HasCome(m, "error") => status' = "idle")
  PROVE  StreamInv'
<1>1. PICK m \in 0 .. Len(script) : Handled(m)
  BY DEF StreamInv
<1>2. Text(m)' = Text(m) /\ Tokens(m)' = Tokens(m)
  BY SameText, SameTokens
<1>3. Text(Len(script))' = Text(Len(script))
  BY SameText
<1>4. Wire' = Wire
  BY <1>3 DEF Wire
<1>5. Handled(m)'
  BY <1>1, <1>2, <1>4 DEF Handled, HasCome
<1>6. StreamTyped'
  BY <1>4 DEF StreamInv, StreamTyped, Events
<1>7. QED BY <1>5, <1>6 DEF StreamInv

LEMMA EndsKeep ==
  ASSUME StreamInv, StreamEnds \/ StreamBreaks \/ OutOfMemory \/ StopPrompt
  PROVE  StreamInv'
<1>1. UNCHANGED <<reader, script, read, buffer, words, generated>> /\ (failed => failed')
  BY DEF StreamEnds, StreamBreaks, OutOfMemory, StopPrompt
<1>2. reader = "chat" => (status' = "decoding" <=> open')
  BY DEF StreamEnds, StreamBreaks, OutOfMemory, StopPrompt
<1>3. ASSUME NEW m \in 0 .. Len(script), reader = "prompt" /\ Handled(m)
      PROVE  (status' = "done" <=> HasCome(m, "done")) /\ (HasCome(m, "error") => status' = "idle")
  <2>1. (status = "done" <=> HasCome(m, "done")) /\ (HasCome(m, "error") => status = "idle")
    BY <1>3 DEF Handled
  <2>2. status' = status \/ (status # "done" /\ status' = "idle")
    BY <1>3 DEF StreamEnds, StreamBreaks, OutOfMemory, StopPrompt, Running
  <2>3. QED BY <2>1, <2>2
<1>4. QED BY <1>1, <1>2, <1>3, SameHandled

-----------------------------------------------------------------------------
(* The scripts of the API.                                                 *)
LEMMA RepliesTyped ==
  ASSUME NEW t \in Replies
  PROVE  t \in Seq({"token", "ping"})
<1>1. PICK n \in 0 .. MaxReply : t \in [1 .. n -> {"token", "ping"}]
  BY DEF Replies, SeqOf
<1>2. n \in Nat
  BY StreamAssumption
<1>3. QED BY <1>1, <1>2

(* Only the last event of a script ends it.                                *)
Script(s) == s \in Seq(Events) /\ \A j \in 1 .. Len(s) - 1 : s[j] \notin {"done", "error"}

LEMMA ChatScriptsAre == ASSUME NEW s \in ChatScripts PROVE Script(s)
<1>1. PICK t \in Replies, e \in {"error", "done"} : s = t \o <<e>>
  BY DEF ChatScripts
<1>2. t \in Seq(Events) /\ \A j \in 1 .. Len(t) : t[j] \in {"token", "ping"}
  <2>1. t \in Seq({"token", "ping"})
    BY RepliesTyped
  <2>2. QED BY <2>1, ElementOfSeq DEF Events
<1>3. <<e>> \in Seq(Events) /\ Len(<<e>>) = 1
  BY DEF Events
<1>4. /\ s \in Seq(Events) /\ Len(s) = Len(t) + 1
      /\ \A j \in 1 .. Len(t) + 1 : s[j] = IF j <= Len(t) THEN t[j] ELSE <<e>>[j - Len(t)]
  <2> DEFINE l == <<e>>
  <2>1. l \in Seq(Events) /\ Len(l) = 1 /\ s = t \o l
    BY <1>1, <1>3
  <2> HIDE DEF l
  <2>2. /\ t \o l \in Seq(Events) /\ Len(t \o l) = Len(t) + Len(l)
        /\ \A j \in 1 .. Len(t) + Len(l) : (t \o l)[j] = IF j <= Len(t) THEN t[j] ELSE l[j - Len(t)]
    BY <1>2, <2>1, ConcatProperties
  <2>3. QED BY <2>1, <2>2 DEF l
<1>5. Len(t) \in Nat
  BY <1>2, LenProperties
<1>6. ASSUME NEW j \in 1 .. Len(s) - 1 PROVE s[j] \notin {"done", "error"}
  <2>1. j \in 1 .. Len(t) /\ j \in 1 .. Len(t) + 1 /\ j <= Len(t)
    BY <1>4, <1>5
  <2>2. s[j] = t[j] /\ t[j] \in {"token", "ping"}
    BY <1>2, <1>4, <2>1
  <2>3. QED BY <2>2
<1>7. QED BY <1>4, <1>6 DEF Script

LEMMA PromptScriptsAre == ASSUME NEW s \in PromptScripts PROVE Script(s)
<1>1. CASE s = <<"error">>
  BY <1>1 DEF Script, Events
<1>2. CASE \E t \in Replies : s = <<"start", "ttft">> \o t \o <<"done">>
  <2>1. PICK t \in Replies : s = <<"start", "ttft">> \o t \o <<"done">>
    BY <1>2
  <2> DEFINE h == <<"start", "ttft">>
             u == h \o t
             l == <<"done">>
  <2>2. t \in Seq(Events) /\ \A j \in 1 .. Len(t) : t[j] \in {"token", "ping"}
    <3>1. t \in Seq({"token", "ping"})
      BY RepliesTyped
    <3>2. QED BY <3>1, ElementOfSeq DEF Events
  <2>3. /\ h \in Seq(Events) /\ Len(h) = 2 /\ (\A j \in 1 .. 2 : h[j] \in {"start", "ttft"})
        /\ l \in Seq(Events) /\ Len(l) = 1
    BY DEF Events
  <2>4. s = u \o l
    BY <2>1
  <2> HIDE DEF h, l
  <2>5. /\ u \in Seq(Events) /\ Len(u) = Len(h) + Len(t)
        /\ \A j \in 1 .. Len(h) + Len(t) : u[j] = IF j <= Len(h) THEN h[j] ELSE t[j - Len(h)]
    BY <2>2, <2>3, ConcatProperties
  <2> HIDE DEF u
  <2>6. Len(t) \in Nat /\ Len(u) = 2 + Len(t)
    BY <2>2, <2>3, <2>5, LenProperties
  <2>7. \A j \in 1 .. Len(u) : u[j] \notin {"done", "error"}
    <3> SUFFICES ASSUME NEW j \in 1 .. Len(u) PROVE u[j] \notin {"done", "error"}
      OBVIOUS
    <3>1. CASE j <= 2
      <4>1. j \in 1 .. 2 /\ u[j] = h[j]
        BY <2>3, <2>5, <2>6, <3>1
      <4>2. QED BY <2>3, <4>1
    <3>2. CASE ~(j <= 2)
      <4>1. j - 2 \in 1 .. Len(t) /\ u[j] = t[j - 2]
        BY <2>3, <2>5, <2>6, <3>2
      <4>2. QED BY <2>2, <4>1
    <3>3. QED BY <3>1, <3>2
  <2>8. /\ s \in Seq(Events) /\ Len(s) = Len(u) + Len(l)
        /\ \A j \in 1 .. Len(u) + Len(l) : s[j] = IF j <= Len(u) THEN u[j] ELSE l[j - Len(u)]
    <3>1. u \in Seq(Events) /\ l \in Seq(Events)
      BY <2>3, <2>5
    <3>2. /\ u \o l \in Seq(Events) /\ Len(u \o l) = Len(u) + Len(l)
          /\ \A j \in 1 .. Len(u) + Len(l) : (u \o l)[j] = IF j <= Len(u) THEN u[j] ELSE l[j - Len(u)]
      BY ONLY <3>1, ConcatProperties
    <3>3. QED BY <2>4, <3>2
  <2>9. ASSUME NEW j \in 1 .. Len(s) - 1 PROVE s[j] \notin {"done", "error"}
    <3>1. j \in 1 .. Len(u) /\ j \in 1 .. Len(u) + Len(l) /\ j <= Len(u)
      BY <2>3, <2>6, <2>8
    <3>2. QED BY <2>7, <2>8, <3>1
  <2>10. QED BY <2>8, <2>9 DEF Script
<1>3. QED BY <1>1, <1>2 DEF PromptScripts

(* A new stream: nothing of it is read, handled or shown.                  *)
LEMMA FreshStream ==
  ASSUME reader' \in {"prompt", "chat"}, Script(script'), read' = 0, buffer' = <<>>, words' = 0,
         reader' = "prompt" => generated' = 0 /\ status' # "done",
         reader' = "chat" => (status' = "decoding" <=> open')
  PROVE  StreamInv'
<1>1. script' \in Seq(Events) /\ Len(script') \in Nat
  BY LenProperties DEF Script
<1>2. Len(Wire') \in Nat
  BY <1>1, WireTypedNext
<1>3. Text(0)' = <<>>
  <2>1. (script \in Seq(Events) => Text(0) = <<>>)
    BY TextNext
  <2>2. Text(0)' = FlattenSeq([j \in 1 .. 0 |-> Block(j)'])
    BY DEF Text
  <2>3. [j \in 1 .. 0 |-> Block(j)'] = <<>>
    OBVIOUS
  <2>4. FlattenSeq(<<>>) = <<>>
    BY EmptySeq DEF FlattenSeq
  <2>5. QED BY <2>2, <2>3, <2>4
<1>4. Tokens(0)' = 0
  <2>1. {j \in 1 .. 0 : script'[j] = "token"} = {}
    OBVIOUS
  <2>2. QED BY <2>1, FS_EmptySet DEF Tokens
<1>5. buffer' = LineEnds(SubSeq(Wire', Len(Text(0)') + 1, read'))
  <2>1. Len(Text(0)') = 0
    BY <1>3, EmptySeq
  <2>2. SubSeq(Wire', 0 + 1, 0) = <<>>
    BY SubSeqEmpty
  <2>3. QED BY <2>1, <2>2, LineEndsOfNothing
<1>6. ~HasCome(0, "done")' /\ ~HasCome(0, "error")'
  BY DEF HasCome
<1>7. Handled(0)'
  <2>1. Len(Text(0)') = 0
    BY <1>3, EmptySeq
  <2>2. QED BY <1>4, <1>5, <1>6, <2>1 DEF Handled
<1>8. StreamTyped'
  BY <1>1, <1>2 DEF StreamTyped, Events
<1>9. 0 \in 0 .. Len(script')
  BY <1>1
<1>10. QED BY <1>7, <1>8, <1>9 DEF StreamInv, Script

LEMMA StartsKeep == ASSUME StreamInv, RunPrompt \/ Send PROVE StreamInv'
<1>1. CASE RunPrompt
  <2>1. PICK s \in PromptScripts : Fresh(s, "prefill") /\ generated' = 0 /\ reader' = "prompt"
    BY <1>1 DEF RunPrompt
  <2>2. QED BY <2>1, PromptScriptsAre, FreshStream DEF Fresh
<1>2. CASE Send
  <2>1. PICK s \in ChatScripts : Fresh(s, "decoding") /\ reader' = "chat"
    BY <1>2 DEF Send
  <2>2. QED BY <2>1, ChatScriptsAre, FreshStream DEF Fresh
<1>3. QED BY <1>1, <1>2

LEMMA StreamStarts == StreamInit => StreamInv
<1> SUFFICES ASSUME StreamInit PROVE StreamInv
  OBVIOUS
<1>1. script = <<>> /\ script \in Seq(Events) /\ Len(script) = 0
  BY EmptySeq DEF StreamInit
<1>2. Text(0) = <<>> /\ Len(Text(0)) = 0
  BY <1>1, TextNext, EmptySeq
<1>3. Len(Wire) = 0
  BY <1>1, <1>2 DEF Wire
<1>4. Tokens(0) = 0
  <2>1. {j \in 1 .. 0 : script[j] = "token"} = {}
    OBVIOUS
  <2>2. QED BY <2>1, FS_EmptySet DEF Tokens
<1>5. LineEnds(SubSeq(Wire, 0 + 1, 0)) = <<>>
  <2>1. SubSeq(Wire, 0 + 1, 0) = <<>>
    BY SubSeqEmpty
  <2>2. QED BY <2>1, LineEndsOfNothing
<1>6. Handled(0)
  BY <1>2, <1>4, <1>5 DEF StreamInit, Handled, HasCome
<1>7. StreamTyped
  BY <1>1, <1>3 DEF StreamInit, StreamTyped
<1>8. 0 \in 0 .. Len(script) /\ \A j \in 1 .. Len(script) - 1 : FALSE
  BY <1>1
<1>9. QED BY <1>6, <1>7, <1>8 DEF StreamInit, StreamInv

-----------------------------------------------------------------------------
(* For replies of any length and chunks cut anywhere, between a CR and its *)
(* LF too: whenever the browser has nothing left to handle, what is shown  *)
(* is what has arrived (api.ts:117-141,                                    *)
(* LiveInferencePlayground.tsx:96-124, AiChatPanel.tsx:90-108).            *)
THEOREM ArrivedStaysShown == StreamSpec => []ArrivedIsShown
<1>1. StreamInv /\ [StreamNext]_streamVars => StreamInv'
  <2> SUFFICES ASSUME StreamInv, [StreamNext]_streamVars PROVE StreamInv'
    OBVIOUS
  <2>1. CASE UNCHANGED streamVars
    <3>1. UNCHANGED <<reader, script, read, buffer, words, generated, failed, status, open>>
      BY <2>1 DEF streamVars
    <3>2. reader = "chat" => (status' = "decoding" <=> open')
      BY <3>1 DEF StreamInv
    <3>3. \A m \in 0 .. Len(script) : (reader = "prompt" /\ Handled(m)) =>
             (status' = "done" <=> HasCome(m, "done")) /\ (HasCome(m, "error") => status' = "idle")
      BY <3>1 DEF Handled
    <3>4. QED BY <3>1, <3>2, <3>3, SameHandled
  <2>2. QED BY <2>1, ChunkKeeps, BlockKeeps, EndsKeep, StartsKeep DEF StreamNext
<1>2. StreamInv => ArrivedIsShown
  BY InvShows
<1>3. QED BY <1>1, <1>2, StreamStarts, PTL DEF StreamSpec

=============================================================================
