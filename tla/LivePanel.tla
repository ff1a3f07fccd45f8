------------------------------ MODULE LivePanel ------------------------------
(***************************************************************************)
(* The panel of live training runs (components/LiveTrainingPanel.tsx).  It *)
(* polls the list of runs and the detail of the selected one, selects the  *)
(* newest run until the user picks one, and starts, stops and disturbs     *)
(* runs.  A poll does not wait for the one before, and an answer is a      *)
(* state of the run that may be over by the time it is shown.              *)
(*                                                                         *)
(* The runs move as RunLife says.  Of a run's detail only its status       *)
(* matters here; the numbers and charts made of its steps are left out.    *)
(***************************************************************************)
EXTENDS RunLife, Integers, Sequences, FiniteSets

CONSTANTS
  NoRun,      \* selectedId is ""
  K8sAvailable, \* the answer of /k8s-available, TRUE or FALSE, fetched once
  MayForget,  \* the store may drop runs: it is restarted, or full
  InOrder,    \* the polls of a run are answered in the order they were sent
  MaxPolls,   \* bound: polls of one run in flight
  MaxRequests \* bound: requests of buttons in flight

VARIABLES
  given,         \* ids the API has given to runs it was asked to start
  listed,        \* runs
  listPoll,      \* the poll of the list in flight
  selected,      \* selectedId
  picked,        \* userPicked.current
  detail,        \* which run's detail is shown, with which status
  polling,       \* the interval of the effect for `selected' is on
  polls,         \* its polls in flight; those of an earlier selection are cancelled
  request        \* the request of each button: starting, launchingK8s, stopping, injecting

server == <<life, given>>
view   == <<listed, selected, picked, detail, polling, polls>>
liveVars == <<server, view, listPoll, request>>

ASSUME LiveAssumption ==
  /\ Runs \subseteq Nat /\ NoRun \notin Runs
  /\ {K8sAvailable, MayForget, InOrder} \subseteq BOOLEAN
  /\ MaxPolls \in Nat \ {0}
  /\ MaxRequests \in Nat

Buttons == {"start", "launch", "stop", "inject"}
Known(r) == life[r] \in {"running", "stopped", "done"}

Newest(S) == CHOOSE r \in S : \A k \in S : k <= r    \* list[0]

(* A request that was sent, then served, waits for its answer to arrive.   *)
Idle    == [at |-> "idle"]
Sent(r) == [at |-> "sent", run |-> r]
NoDetail == [run |-> NoRun, status |-> "none"]

-----------------------------------------------------------------------------
(* The API and whoever else uses it.                                       *)

(* Ids are numbered in the order of the starts; the model lets nothing     *)
(* else depend on them.                                                    *)
RunMoves(r) ==
  /\ life[r] = "unknown" => \A k \in Runs : k < r => life[k] # "unknown"
  /\ \E l \in {"running", "stopped", "done"} \cup (IF MayForget THEN {"gone"} ELSE {}) :
       <<life[r], l>> \in Moves /\ life' = [life EXCEPT ![r] = l]
  /\ UNCHANGED <<given, view, listPoll, request>>

ServeList ==
  /\ listPoll.at = "sent"
  /\ listPoll' = [at |-> "served", runs |-> {r \in Runs : Known(r)}]
  /\ UNCHANGED <<server, view, request>>

ServePoll(i) ==
  /\ polls[i].at = "sent"
  /\ InOrder => \A k \in 1 .. i - 1 : polls[k].at = "served"
  /\ polls' = [polls EXCEPT ![i] = [at |-> "served", run |-> @.run,
                 status |-> IF Known(@.run) THEN life[@.run] ELSE "error"]]
  /\ UNCHANGED <<server, listed, selected, picked, detail, polling, listPoll, request>>

(* simulate and launch-k8s-job answer with a new id; its run may not be in *)
(* the store yet.                                                          *)
ServeStart(b) ==
  /\ b \in {"start", "launch"} /\ request[b].at = "sent"
  /\ \E r \in Runs \ given :
       /\ life[r] = "unknown" /\ \A k \in Runs : k < r => life[k] # "unknown" \/ k \in given
       /\ given' = given \cup {r}
       /\ request' = [request EXCEPT ![b] = [at |-> "served", run |-> r, status |-> "ok"]]
  /\ UNCHANGED <<life, view, listPoll>>

(* A run that is over is answered as it is.                                *)
ServeStop ==
  LET r == request["stop"].run IN
  /\ request["stop"].at = "sent" /\ Known(r)
  /\ life' = IF life[r] = "running" THEN [life EXCEPT ![r] = "stopped"] ELSE life
  /\ request' = [request EXCEPT !["stop"] = [at |-> "served", run |-> r, status |-> life'[r]]]
  /\ UNCHANGED <<given, view, listPoll>>

(* An injection changes no status.                                         *)
ServeInject ==
  /\ request["inject"].at = "sent" /\ life[request["inject"].run] = "running"
  /\ request' = [request EXCEPT !["inject"] = [at |-> "served", run |-> @.run, status |-> "ok"]]
  /\ UNCHANGED <<server, view, listPoll>>

-----------------------------------------------------------------------------
(* The panel.                                                              *)

(* Mutant: the interval is left as it was.                                 *)
Select_KeepsInterval(r) ==
  /\ selected' = r
  /\ IF r = selected THEN UNCHANGED <<polling, polls>>
     ELSE polls' = <<Sent(r)>> /\ UNCHANGED polling

(* setSelectedId: a new selection cancels the effect of the old one and    *)
(* polls at once; the detail stays until the first answer.                 *)
Select(r) ==
  /\ selected' = r
  /\ IF r = selected THEN UNCHANGED <<polling, polls>>
     ELSE polls' = <<Sent(r)>> /\ polling' = TRUE

PollList ==
  /\ listPoll.at = "idle"
  /\ listPoll' = Sent(NoRun)
  /\ UNCHANGED <<server, view, request>>

(* Mutant: every list selects its newest run.                              *)
ListAnswer_ForgetsPick ==
  /\ listPoll.at = "served"
  /\ listPoll' = Idle
  /\ listed' = listPoll.runs
  /\ IF listed' # {} THEN Select(Newest(listed'))
     ELSE UNCHANGED <<selected, polling, polls>>
  /\ UNCHANGED <<server, picked, detail, request>>

ListAnswer ==
  /\ listPoll.at = "served"
  /\ listPoll' = Idle
  /\ listed' = listPoll.runs
  /\ IF ~picked /\ listed' # {} THEN Select(Newest(listed'))
     ELSE UNCHANGED <<selected, polling, polls>>
  /\ UNCHANGED <<server, picked, detail, request>>

ListFails ==
  /\ listPoll.at # "idle" /\ listPoll' = Idle
  /\ UNCHANGED <<server, view, request>>

PollDetail ==
  /\ polling /\ Len(polls) < MaxPolls
  /\ polls' = Append(polls, Sent(selected))
  /\ UNCHANGED <<server, listed, selected, picked, detail, polling, listPoll, request>>

Without(i) == SubSeq(polls, 1, i - 1) \o SubSeq(polls, i + 1, Len(polls))

(* Mutant: the first answer ends the polling.                              *)
PollAnswer_Once(i) ==
  /\ polls[i].at = "served" /\ polls[i].status # "error" /\ (InOrder => i = 1)
  /\ detail' = [run |-> polls[i].run, status |-> polls[i].status]
  /\ polling' = FALSE
  /\ polls' = Without(i)
  /\ UNCHANGED <<server, listed, selected, picked, listPoll, request>>

(* The interval ends with the first answer that is not running; a 404      *)
(* leaves the last-known detail.                                           *)
PollAnswer(i) ==
  /\ polls[i].at = "served" /\ (InOrder => i = 1)
  /\ IF polls[i].status = "error" THEN UNCHANGED <<detail, polling>>
     ELSE /\ detail' = [run |-> polls[i].run, status |-> polls[i].status]
          /\ polling' = (polling /\ polls[i].status = "running")
  /\ polls' = Without(i)
  /\ UNCHANGED <<server, listed, selected, picked, listPoll, request>>

(* The network fails, before the API has served the poll or after.         *)
PollFails(i) ==
  /\ polls' = Without(i)
  /\ UNCHANGED <<server, listed, selected, picked, detail, polling, listPoll, request>>

(* The select offers the runs of the last list.                            *)
PickRun(r) ==
  /\ r \in listed
  /\ picked' = TRUE
  /\ Select(r)
  /\ UNCHANGED <<server, listed, detail, listPoll, request>>

(* A button is disabled while its request is pending; stop and inject are  *)
(* shown for a detail that is running, and act on the selection.           *)
Click(b) ==
  /\ request[b].at = "idle" /\ Cardinality({c \in Buttons : request[c].at # "idle"}) < MaxRequests
  /\ b = "launch" => K8sAvailable
  /\ b \in {"stop", "inject"} => detail.status = "running" /\ selected # NoRun
  /\ request' = [request EXCEPT ![b] = Sent(selected)]
  /\ UNCHANGED <<server, view, listPoll>>

(* startNewRun and launchRealJob show the new run.                         *)
StartAnswer(b) ==
  /\ b \in {"start", "launch"} /\ request[b].at = "served"
  /\ request' = [request EXCEPT ![b] = Idle]
  /\ picked' = TRUE
  /\ Select(request[b].run)
  /\ UNCHANGED <<server, listed, detail, listPoll>>

(* Mutant: the run is taken to be over, and is not polled any more.        *)
StopAnswer_StopsPolling ==
  /\ request["stop"].at = "served"
  /\ request' = [request EXCEPT !["stop"] = Idle]
  /\ detail' = [detail EXCEPT !.status = request["stop"].status]
  /\ polling' = FALSE
  /\ UNCHANGED <<server, listed, selected, picked, polls, listPoll>>

(* stopSelectedRun: the answer's status is put into whatever detail is     *)
(* shown by then.                                                          *)
StopAnswer ==
  /\ request["stop"].at = "served"
  /\ request' = [request EXCEPT !["stop"] = Idle]
  /\ detail' = [detail EXCEPT !.status = request["stop"].status]
  /\ UNCHANGED <<server, listed, selected, picked, polling, polls, listPoll>>

InjectAnswer ==
  /\ request["inject"].at = "served"
  /\ request' = [request EXCEPT !["inject"] = Idle]
  /\ UNCHANGED <<server, view, listPoll>>

(* An error is shown and the button comes back; the API may have acted.    *)
RequestFails(b) ==
  /\ request[b].at # "idle"
  /\ request' = [request EXCEPT ![b] = Idle]
  /\ UNCHANGED <<server, view, listPoll>>

-----------------------------------------------------------------------------
LiveInit ==
  /\ LifeInit
  /\ given = {}
  /\ listed = {} /\ listPoll = Sent(NoRun)
  /\ selected = NoRun /\ picked = FALSE
  /\ detail = NoDetail
  /\ polling = FALSE /\ polls = <<>>
  /\ request = [b \in Buttons |-> Idle]

Serve == ServeList \/ ServeStop \/ ServeInject \/ \E b \in Buttons : ServeStart(b)

Receive == \/ ListAnswer \/ ListFails \/ StopAnswer \/ InjectAnswer
           \/ \E b \in Buttons : StartAnswer(b) \/ RequestFails(b)
           \/ \E i \in DOMAIN polls : PollAnswer(i) \/ PollFails(i)

LiveNext ==
  \/ \E r \in Runs : RunMoves(r) \/ PickRun(r)
  \/ Serve \/ \E i \in DOMAIN polls : ServePoll(i)
  \/ Receive
  \/ PollList \/ PollDetail
  \/ \E b \in Buttons : Click(b)

LiveSpec == LiveInit /\ [][LiveNext]_liveVars

(* The interval fires, the API serves what it is sent, and the network     *)
(* does not fail for ever.                                                 *)
LiveFairness ==
  /\ WF_liveVars(PollDetail)
  /\ \A i \in 1 .. MaxPolls : /\ SF_liveVars(i \in DOMAIN polls /\ ServePoll(i))
                             /\ SF_liveVars(i \in DOMAIN polls /\ PollAnswer(i))

LiveFairSpec == LiveSpec /\ LiveFairness

-----------------------------------------------------------------------------
(* LiveTrainingPanel.tsx:84: the detail is polled while it is running.     *)
(* So what is no longer polled is the selected run, and it is shown as     *)
(* over (LiveTrainingPanel.tsx:85-114, 160-168).                           *)
SettledIsOver ==
  (selected # NoRun /\ ~polling) => detail.run = selected /\ detail.status # "running"

(* Once the user has picked or started a run, no list moves the selection, *)
(* not even one that was asked for before (LiveTrainingPanel.tsx:62-82).   *)
SelectionSticks ==
  [][(picked /\ listPoll.at = "served" /\ listPoll' = Idle) => UNCHANGED selected]_liveVars

(* A selected run that is over is shown as over in the end, whatever stop  *)
(* answers and changes of selection come in between.                       *)
OverIsShown ==
  \A r \in Runs :
    (selected = r /\ life[r] \in {"stopped", "done"})
      ~> (selected # r \/ life[r] = "gone" \/ (detail.run = r /\ detail.status # "running"))

(* The answer to a stop of another run may mark a running one as stopped,  *)
(* but only until the next poll (LiveTrainingPanel.tsx:160-168, 94-107).   *)
StillRunningIsShown ==
  \A r \in Runs :
    (selected = r /\ life[r] = "running")
      ~> (selected # r \/ life[r] # "running" \/ detail = [run |-> r, status |-> "running"])
=============================================================================
