------------------------------ MODULE Playground ------------------------------
(***************************************************************************)
(* The multi-request playground (components/MultiRequestPlayground.tsx):   *)
(* each lane streams a request of its own, the next lane's prefill starts  *)
(* when the first token of the one before is there.  A run has a number    *)
(* (runIdRef), by which a stream tells whether it is of the current run;   *)
(* here its record says so (`current').                                    *)
(*                                                                         *)
(* What is hard is identity: a stream writes into the lane object it was   *)
(* started with, and an edit replaces that object by a copy.  `attached'   *)
(* says that a stream's object is still the one that is shown.             *)
(* Prompts, rates, times and error texts are left out.                                  *)
(***************************************************************************)
EXTENDS Integers, Sequences, FiniteSets

CONSTANTS
  MAX_LANES,
  MaxLaneId,   \* bound: lanes that are made
  MaxTokens,   \* maxOutputTokens, which the server sends, of every lane
  MaxStale,    \* bound: streams that are left of the run before
  MaxDisturbed \* bound: edits and broken streams of one run

VARIABLES
  lanes,       \* lanes, and lanesRef.current after its effect
  nextLaneId,
  running,
  streams,     \* the calls of runLane that have not ended
  started,     \* history: lanes of the current run, in the order they started
  disturbed    \* history: lanes edited and streams broken during this run

playVars == <<lanes, nextLaneId, running, streams, started, disturbed>>

ASSUME PlayAssumption ==
  /\ {MAX_LANES, MaxLaneId, MaxTokens, MaxStale, MaxDisturbed} \subseteq Nat
  /\ MAX_LANES >= 2 /\ MaxLaneId >= 2

Lane == [id : 1 .. MaxLaneId, status : {"idle", "queued", "prefilling", "decoding", "done"},
         generated : 0 .. MaxTokens]

(* index is the lane's place, next whether the lane after it was started.  *)
Stream == [current : BOOLEAN, index : 1 .. MAX_LANES, lane : 1 .. MaxLaneId,
           at : {"prefilling", "decoding", "done"}, generated : 0 .. MaxTokens,
           next : BOOLEAN, attached : BOOLEAN]

makeLane(id) == [id |-> id, status |-> "idle", generated |-> 0]

-----------------------------------------------------------------------------
(* Mutant: a stream of an earlier run goes on writing.                     *)
Current_Any(s) == s.index > 0

Current(s) == s.current

(* The lanes after stream s has written its state into its object.         *)
Written(ls, s) ==
  [k \in DOMAIN ls |-> IF s.attached /\ ls[k].id = s.lane
                       THEN [ls[k] EXCEPT !.status = s.at, !.generated = s.generated]
                       ELSE ls[k]]

Begun(ls, k) == [current |-> TRUE, index |-> k, lane |-> ls[k].id, at |-> "prefilling",
                 generated |-> 0, next |-> FALSE, attached |-> TRUE]

(* runLane(k), for the streams ss and the lanes ls as they are by then.    *)
RunLane(k, ss, ls) ==
  IF k <= Len(ls)
  THEN /\ streams' = ss \cup {Begun(ls, k)}
       /\ lanes' = Written(ls, Begun(ls, k))
       /\ started' = Append(started, ls[k].id)
  ELSE streams' = ss /\ lanes' = ls /\ UNCHANGED started

Advance(s, t) == RunLane(Len(lanes) + 1, (streams \ {s}) \cup {t}, Written(lanes, t))

-----------------------------------------------------------------------------
(* The controls, with what disables them.                                  *)

AddLane ==
  /\ ~running /\ Len(lanes) < MAX_LANES /\ nextLaneId <= MaxLaneId
  /\ lanes' = Append(lanes, makeLane(nextLaneId))
  /\ nextLaneId' = nextLaneId + 1
  /\ UNCHANGED <<running, streams, started, disturbed>>

RemoveLane(k) ==
  /\ ~running /\ Len(lanes) > 1
  /\ lanes' = SubSeq(lanes, 1, k - 1) \o SubSeq(lanes, k + 1, Len(lanes))
  /\ UNCHANGED <<nextLaneId, running, streams, started, disturbed>>

(* updateLane puts a copy in the lane's place.  The prompt cannot be       *)
(* edited during a run; the number of output tokens can.                   *)
UpdateLane(k) ==
  /\ streams' = {IF s.lane = lanes[k].id THEN [s EXCEPT !.attached = FALSE] ELSE s : s \in streams}
  /\ IF running THEN disturbed < MaxDisturbed /\ disturbed' = disturbed + 1
     ELSE UNCHANGED disturbed
  /\ UNCHANGED <<lanes, nextLaneId, running, started>>

(* A run starts if the KV caches of all lanes fit, decoding at once;       *)
(* otherwise nothing changes but the error that is shown.                  *)
RunAll ==
  /\ ~running
  /\ Cardinality(streams) <= MaxStale
  /\ running' = TRUE /\ disturbed' = 0
  /\ LET reset == [k \in DOMAIN lanes |->
                     [lanes[k] EXCEPT !.status = IF k = 1 THEN "prefilling" ELSE "queued",
                                      !.generated = 0]]
     IN  /\ lanes' = reset
         /\ streams' = {[s EXCEPT !.current = FALSE, !.attached = FALSE] : s \in streams} \cup {Begun(reset, 1)}
         /\ started' = <<reset[1].id>>
  /\ UNCHANGED nextLaneId

(* Every stream is waiting for its server: aborted, it throws, and finds   *)
(* in its `finally' that the run's number has changed.                     *)
StopAll ==
  /\ running
  /\ running' = FALSE
  /\ streams' = {} /\ started' = <<>> /\ disturbed' = 0
  /\ UNCHANGED <<lanes, nextLaneId>>

-----------------------------------------------------------------------------
(* The events of a stream: start, ttft, tokens, done; or one error.        *)

(* Mutant: the next lane starts from the lanes that were rendered before.   *)
FirstToken_FromRender(s) ==
  /\ Current(s) /\ s.at = "prefilling"
  /\ RunLane(s.index + 1, (streams \ {s}) \cup {[s EXCEPT !.at = "decoding", !.next = TRUE]}, lanes)
  /\ UNCHANGED <<nextLaneId, running, disturbed>>

FirstToken(s) ==
  /\ Current(s) /\ s.at = "prefilling"
  /\ LET t == [s EXCEPT !.at = "decoding", !.next = TRUE]
     IN  RunLane(s.index + 1, (streams \ {s}) \cup {t}, Written(lanes, t))
  /\ UNCHANGED <<nextLaneId, running, disturbed>>

Token(s) ==
  /\ Current(s) /\ s.at = "decoding" /\ s.generated < MaxTokens
  /\ Advance(s, [s EXCEPT !.generated = @ + 1])
  /\ UNCHANGED <<nextLaneId, running, disturbed>>

Done(s) ==
  /\ Current(s) /\ s.at = "decoding" /\ s.generated = MaxTokens
  /\ Advance(s, [s EXCEPT !.at = "done"])
  /\ UNCHANGED <<nextLaneId, running, disturbed>>

ErrorEvent(s) ==
  /\ Current(s) /\ s.at = "prefilling"
  /\ Advance(s, [s EXCEPT !.at = "done"])
  /\ UNCHANGED <<nextLaneId, running, disturbed>>

(* Mutant: the next lane is started again.                                 *)
Finally_Again(s) ==
  /\ RunLane(s.index + 1, streams \ {s}, lanes)
  /\ running' = (running /\ \E k \in DOMAIN lanes' : lanes'[k].status # "done")

(* Mutant: a run is over when its last lane is.                            *)
Finally_LastLane(s) ==
  /\ RunLane(IF s.next THEN Len(lanes) + 1 ELSE s.index + 1, streams \ {s}, lanes)
  /\ running' = (running /\ lanes'[Len(lanes')].status # "done")

(* Mutant: a broken stream does not start the next lane.                   *)
Finally_NoNext(s) ==
  /\ RunLane(Len(lanes) + 1, streams \ {s}, lanes)
  /\ running' = (running /\ \E k \in DOMAIN lanes' : lanes'[k].status # "done")

(* The `finally' clause, of a stream of the current run.                   *)
Finally(s) ==
  /\ RunLane(IF s.next THEN Len(lanes) + 1 ELSE s.index + 1, streams \ {s}, lanes)
  /\ running' = (running /\ \E k \in DOMAIN lanes' : lanes'[k].status # "done")

Ends(s) ==
  /\ Current(s) /\ s.at = "done"
  /\ Finally(s)
  /\ UNCHANGED <<nextLaneId, disturbed>>

(* The request is refused, or the connection breaks: an error is shown.    *)
Breaks(s) ==
  /\ Current(s)
  /\ Finally(s)
  /\ disturbed < MaxDisturbed /\ disturbed' = disturbed + 1
  /\ UNCHANGED <<nextLaneId>>

(* A stream that outlives its run, having got its `done', ends later.      *)
Stale(s) ==
  /\ ~Current(s)
  /\ streams' = streams \ {s}
  /\ UNCHANGED <<lanes, nextLaneId, running, started, disturbed>>

-----------------------------------------------------------------------------
PlayInit ==
  /\ lanes = <<makeLane(1), makeLane(2)>>
  /\ nextLaneId = 3
  /\ running = FALSE
  /\ streams = {} /\ started = <<>> /\ disturbed = 0

StreamStep(s) == FirstToken(s) \/ Token(s) \/ Done(s) \/ ErrorEvent(s) \/ Ends(s)

PlayNext ==
  \/ AddLane \/ RunAll \/ StopAll
  \/ \E k \in DOMAIN lanes : RemoveLane(k) \/ UpdateLane(k)
  \/ \E s \in streams : StreamStep(s) \/ Breaks(s) \/ Stale(s)

PlaySpec == PlayInit /\ [][PlayNext]_playVars

(* The server goes on with every stream; the user need not do anything.    *)
PlayFairSpec ==
  /\ PlaySpec
  /\ \A k \in 1 .. MAX_LANES :
       WF_playVars(\E s \in streams : s.index = k /\ Current(s) /\ StreamStep(s))

-----------------------------------------------------------------------------
ofRun(k) == {s \in streams : Current(s) /\ s.index = k}

(* Lanes prefill one at a time and in their order, and none is streamed    *)
(* twice, however their streams end (MultiRequestPlayground.tsx:86-93,     *)
(* 157-177).                                                               *)
PrefillsQueue ==
  /\ Cardinality({s \in streams : Current(s) /\ s.at = "prefilling"}) <= 1
  /\ running => /\ Len(started) <= Len(lanes)
                /\ \A k \in DOMAIN started : started[k] = lanes[k].id

(* During a run a lane shows what its own stream of this run got, never    *)
(* what a stream of an earlier run still delivers; only a lane that was     *)
(* edited meanwhile falls behind (MultiRequestPlayground.tsx:129-172).     *)
ShownIsStreamed ==
  \A s \in streams : (running /\ Current(s) /\ s.attached) =>
    lanes[s.index] = [id |-> s.lane, status |-> s.at, generated |-> s.generated]

(* A run that is over by itself has served every lane                      *)
(* (MultiRequestPlayground.tsx:176-181).                                   *)
EndsWhenAllDone ==
  [][(running /\ ~running' /\ ~StopAll) =>
       /\ Len(started) = Len(lanes)
       /\ \A k \in DOMAIN lanes : lanes[k].status = "done"]_playVars

(* A run comes to an end, the errors the server reports included, unless   *)
(* a stream breaks or a lane is edited while it runs: then the lane it     *)
(* left behind is never done, and the run is shown as running until it is  *)
(* stopped (MultiRequestPlayground.tsx:174-181, 211).                      *)
UndisturbedRunsEnd == running ~> (~running \/ disturbed > 0)
=============================================================================
