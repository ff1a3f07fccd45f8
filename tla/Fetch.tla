-------------------------------- MODULE Fetch --------------------------------
(***************************************************************************)
(* A result that a React effect fetches: when its inputs change, the       *)
(* effect asks again; nothing cancels or recognises the requests of the    *)
(* inputs before.  All panels that calculate as one types do so; Page and  *)
(* Panels say which of them does what, and when.                           *)
(*                                                                         *)
(* Of a value only one thing matters: whether it is of the inputs as they  *)
(* are now or as they were before.                                         *)
(***************************************************************************)
EXTENDS Integers, Sequences

Ages == {"now", "before"}

(* crossed is history: since the last time no request was in flight, an    *)
(* answer has overtaken another, or a request has failed with a later one  *)
(* on its way.                                                             *)
FetchState == [pending : Seq(Ages), shown : Ages \cup {"nothing", "other"},
               error : Ages \cup {"nothing"}, loading : BOOLEAN, crossed : BOOLEAN]

Nothing == [pending |-> <<>>, shown |-> "nothing", error |-> "nothing",
            loading |-> FALSE, crossed |-> FALSE]

Aged(a) == IF a = "now" THEN "before" ELSE a

(* The inputs have changed.                                                *)
Outdated(f) == [f EXCEPT !.pending = [i \in DOMAIN @ |-> Aged(@[i])],
                         !.shown = Aged(@), !.error = Aged(@)]

(* setLoading(true), setError(null), and the request.                      *)
Ask(f) == [f EXCEPT !.pending = Append(@, "now"), !.error = "nothing", !.loading = TRUE,
                    !.crossed = @ /\ f.pending # <<>>]

Rest(f, i) == SubSeq(f.pending, 1, i - 1) \o SubSeq(f.pending, i + 1, Len(f.pending))

(* .then(setResult).finally(() => setLoading(false)): an error of another  *)
(* request is left as it is.                                               *)
Answered(f, i) == [f EXCEPT !.shown = f.pending[i], !.loading = FALSE, !.pending = Rest(f, i),
                            !.crossed = @ \/ i > 1]

(* .catch(setError).finally(() => setLoading(false)).                      *)
Broken(f, i) == [f EXCEPT !.error = f.pending[i], !.loading = FALSE, !.pending = Rest(f, i),
                          !.crossed = @ \/ Len(f.pending) > 1]

(* What the user sees: the error if there is one.                          *)
Visible(f) == IF f.error # "nothing" THEN f.error ELSE f.shown

InOrder(f) == f.pending = <<>> /\ ~f.crossed
=============================================================================
