--------------------------- MODULE LivePanelProofs ---------------------------
(***************************************************************************)
(* The live panel stops polling only a run that is over, and no list moves *)
(* the selection of the user: for any number of runs, of polls and of      *)
(* requests in flight, whatever the network loses.                         *)
(***************************************************************************)
EXTENDS LivePanel, SequenceTheorems, WellFoundedInduction, TLAPS

Over   == {"stopped", "done"}
Ended  == Over \cup {"gone"}

Poll   == [at : {"sent"}, run : Runs]
          \cup [at : {"served"}, run : Runs, status : {"running", "error"} \cup Over]

ListPoll == {Idle, Sent(NoRun)} \cup [at : {"served"}, runs : SUBSET Runs]

Request == {Idle} \cup [at : {"sent"}, run : Runs \cup {NoRun}]
           \cup [at : {"served"}, run : Runs, status : {"ok"} \cup Over]

LiveTyped ==
  /\ life \in [Runs -> Lives] /\ given \subseteq Runs
  /\ listed \subseteq Runs /\ listPoll \in ListPoll
  /\ selected \in Runs \cup {NoRun} /\ picked \in BOOLEAN
  /\ polling \in BOOLEAN /\ (polling => selected \in Runs)
  /\ detail \in [run : Runs \cup {NoRun}, status : {"none", "running"} \cup Over]
  /\ polls \in Seq(Poll)
  /\ request \in [Buttons -> Request]

(* The polls in flight are all of the selection.                           *)
PollsAreOfSelection == \A i \in DOMAIN polls : polls[i].run = selected

(* A stop or an injection is asked of a run, and what a stop answers is    *)
(* not running.                                                            *)
AskedOfRuns ==
  /\ \A b \in {"stop", "inject"} : request[b].at = "sent" => request[b].run \in Runs
  /\ request["stop"].at = "served" => request["stop"].status \in Over

Served(i) == polls[i].at = "served"

(* The API answers the polls in order, so an answer that says the run is   *)
(* over is true from then on, and of every answer after it.                *)
AnswersAgree ==
  /\ \A i, j \in DOMAIN polls : i < j /\ Served(j) => Served(i)
  /\ \A i \in DOMAIN polls : Served(i) /\ polls[i].status \in Over => life[selected] \in Ended
  /\ \A i, j \in DOMAIN polls :
       i < j /\ Served(j) /\ polls[i].status \in Over => polls[j].status # "running"

(* What is no longer polled is over, is shown as over, and no answer in    *)
(* flight says otherwise.                                                  *)
Settled ==
  (selected # NoRun /\ ~polling) =>
     /\ detail.run = selected /\ detail.status # "running"
     /\ life[selected] \in Ended
     /\ \A i \in DOMAIN polls : Served(i) => polls[i].status # "running"

LiveInv == LiveTyped /\ PollsAreOfSelection /\ AskedOfRuns /\ AnswersAgree /\ Settled

(* The runs of a list are known for good, and only so many ever are: a     *)
(* list that is not empty has a newest run.                                *)
KnownInv ==
  /\ life \in [Runs -> Lives]
  /\ listed \subseteq Runs /\ \A r \in listed : life[r] # "unknown"
  /\ listPoll.at = "served" =>
       listPoll.runs \subseteq Runs /\ \A r \in listPoll.runs : life[r] # "unknown"
  /\ \E n \in Nat : \A r \in Runs : life[r] # "unknown" => r <= n

-----------------------------------------------------------------------------
LEMMA Largest ==
  ASSUME NEW S \in SUBSET Nat, S # {}, NEW hi \in Nat, \A r \in S : r <= hi
  PROVE  \E r \in S : \A k \in S : k <= r
<1> DEFINE T == {hi - r : r \in S}
<1>1. T \in SUBSET Nat /\ T # {}
  <2>1. \A r \in S : hi - r \in Nat
    OBVIOUS
  <2> QED
    BY <2>1
<1> HIDE DEF T
<1> DEFINE R == OpToRel(<, Nat)
<1>2. IsWellFoundedOn(R, Nat)
  BY NatLessThanWellFounded
<1>3. PICK n \in T : \A m \in T : ~(<<m, n>> \in R)
  BY <1>1, <1>2, WFMin
<1>4. PICK r \in S : n = hi - r
  BY <1>3 DEF T
<1>5. ASSUME NEW k \in S PROVE k <= r
  <2>1. hi - k \in T /\ hi - k \in Nat /\ n \in Nat /\ k \in Nat /\ r \in Nat
    BY <1>1, <1>4 DEF T
  <2>2. hi - k < n => <<hi - k, n>> \in R
    BY <2>1 DEF OpToRel
  <2>3. ~(<<hi - k, n>> \in R)
    BY <1>3, <2>1
  <2> HIDE DEF R
  <2>4. ~(hi - k < n)
    BY <2>2, <2>3
  <2> QED
    BY <1>4, <2>1, <2>4
<1> QED
  BY <1>5

LEMMA NewestIsListed ==
  ASSUME NEW S \in SUBSET Runs, S # {}, NEW n \in Nat, \A r \in S : r <= n
  PROVE  Newest(S) \in S /\ \A r \in S : r <= Newest(S)
<1>1. S \in SUBSET Nat
  BY LiveAssumption
<1>2. \E r \in S : \A k \in S : k <= r
  BY <1>1, Largest
<1> QED
  BY <1>2 DEF Newest

(* No step makes a known run unknown, and a step makes one known at most.  *)
LEMMA KnownStep == KnownInv /\ [LiveNext]_liveVars => KnownInv'
<1> SUFFICES ASSUME KnownInv, [LiveNext]_liveVars PROVE KnownInv'
  OBVIOUS
<1> USE DEF KnownInv
<1>1. ASSUME UNCHANGED <<life, listed, listPoll>> PROVE KnownInv'
  BY <1>1
<1>2. ASSUME NEW r \in Runs, RunMoves(r) PROVE KnownInv'
  <2>1. PICK l \in {"running", "stopped", "done"} \cup (IF MayForget THEN {"gone"} ELSE {}) :
          life' = [life EXCEPT ![r] = l]
    BY <1>2 DEF RunMoves
  <2>2. UNCHANGED <<listed, listPoll>>
    BY <1>2 DEF RunMoves, view
  <2>3. l \in Lives /\ l # "unknown"
    BY DEF Lives
  <2>4. life' \in [Runs -> Lives] /\ \A s \in Runs : life'[s] = IF s = r THEN l ELSE life[s]
    BY <2>1, <2>3
  <2>5. PICK n \in Nat : \A s \in Runs : life[s] # "unknown" => s <= n
    OBVIOUS
  <2>6. \E m \in Nat : \A s \in Runs : life'[s] # "unknown" => s <= m
    <3> DEFINE m == IF n <= r THEN r ELSE n
    <3>1. m \in Nat /\ r <= m /\ n <= m
      BY LiveAssumption
    <3> HIDE DEF m
    <3>2. \A s \in Runs : s <= n => s <= m
      BY <3>1, LiveAssumption
    <3> QED
      BY <2>4, <2>5, <3>1, <3>2
  <2> QED
    BY <2>2, <2>3, <2>4, <2>6
<1>3. CASE ServeList
  BY <1>3 DEF ServeList, Known, server, view
<1>4. CASE ServeStop
  <2>1. UNCHANGED <<listed, listPoll>>
    BY <1>4 DEF ServeStop, view
  <2>2. \/ life' = life
        \/ life' = [life EXCEPT ![request["stop"].run] = "stopped"]
    BY <1>4 DEF ServeStop
  <2>3. life' \in [Runs -> Lives] /\ \A s \in Runs : life'[s] # life[s] => life'[s] = "stopped" /\ s = request["stop"].run
    BY <2>2 DEF Lives
  <2>4. \A s \in Runs : life[s] # "unknown" => life'[s] # "unknown"
    BY <2>3
  <2>5. \A s \in Runs : life'[s] # "unknown" => life[s] # "unknown"
    BY <1>4 DEF ServeStop, Known
  <2> QED
    BY <2>1, <2>3, <2>4, <2>5
<1>5. CASE ListAnswer
  BY <1>5 DEF ListAnswer, server, Idle
<1>6. CASE ListFails \/ PollList
  BY <1>6 DEF ListFails, PollList, server, view, Idle, Sent
<1>7. CASE UNCHANGED liveVars \/ \E r \in Runs : PickRun(r)
  BY <1>1, <1>7 DEF liveVars, server, view, PickRun
<1>8. ASSUME NEW b \in Buttons, ServeStart(b) \/ Click(b) \/ StartAnswer(b) \/ RequestFails(b)
      PROVE KnownInv'
  BY <1>1, <1>8 DEF ServeStart, Click, StartAnswer, RequestFails, server, view
<1>9. CASE ServeInject \/ PollDetail \/ StopAnswer \/ InjectAnswer
  BY <1>1, <1>9 DEF ServeInject, PollDetail, StopAnswer, InjectAnswer, server, view
<1>10. ASSUME NEW i \in DOMAIN polls, ServePoll(i) \/ PollAnswer(i) \/ PollFails(i) PROVE KnownInv'
  BY <1>1, <1>10 DEF ServePoll, PollAnswer, PollFails, server, view
<1> QED
  BY <1>2, <1>3, <1>4, <1>5, <1>6, <1>7, <1>8, <1>9, <1>10 DEF LiveNext, Serve, Receive

-----------------------------------------------------------------------------
LEMMA Shown == LiveInv => SettledIsOver
BY DEF LiveInv, Settled, SettledIsOver

LEMMA InitTyped == LiveInit => LiveInv
<1> SUFFICES ASSUME LiveInit PROVE LiveInv
  OBVIOUS
<1> USE LiveAssumption DEF LiveInit, LifeInit
<1>1. LiveTyped
  <2>1. life \in [Runs -> Lives]
    BY DEF Lives
  <2>2. request \in [Buttons -> Request]
    BY DEF Request
  <2>3. listPoll \in ListPoll
    BY DEF ListPoll
  <2>4. detail \in [run : Runs \cup {NoRun}, status : {"none", "running"} \cup Over]
    BY DEF NoDetail
  <2>5. polls \in Seq(Poll)
    OBVIOUS
  <2> QED
    BY <2>1, <2>2, <2>3, <2>4, <2>5 DEF LiveTyped
<1>2. polls = <<>> /\ DOMAIN polls = {}
  OBVIOUS
<1>3. PollsAreOfSelection /\ AnswersAgree /\ Settled
  BY <1>2 DEF PollsAreOfSelection, AnswersAgree, Settled
<1>4. AskedOfRuns
  BY DEF AskedOfRuns, Buttons, Idle
<1> QED
  BY <1>1, <1>3, <1>4 DEF LiveInv

-----------------------------------------------------------------------------
(* What one poll more, or one less, makes of the polls in flight.          *)
LEMMA DomPolls == ASSUME polls \in Seq(Poll) PROVE DOMAIN polls = 1 .. Len(polls) /\ Len(polls) \in Nat
OBVIOUS

LEMMA WithoutOne ==
  ASSUME polls \in Seq(Poll), NEW i \in DOMAIN polls
  PROVE  /\ Without(i) \in Seq(Poll) /\ Len(Without(i)) = Len(polls) - 1
         /\ \A k \in DOMAIN Without(i) :
              Without(i)[k] = IF k < i THEN polls[k] ELSE polls[k + 1]
<1> DEFINE a == SubSeq(polls, 1, i - 1)
           b == SubSeq(polls, i + 1, Len(polls))
           ab == a \o b
<1>1. i \in 1 .. Len(polls) /\ Len(polls) \in Nat
  OBVIOUS
<1>2. a \in Seq(Poll) /\ Len(a) = i - 1 /\ \A k \in 1 .. i - 1 : a[k] = polls[k]
  BY <1>1, SubSeqProperties
<1>3. b \in Seq(Poll) /\ Len(b) = Len(polls) - i /\ \A k \in 1 .. Len(polls) - i : b[k] = polls[i + k]
  BY <1>1, SubSeqProperties
<1> HIDE DEF a, b
<1>4. /\ ab \in Seq(Poll) /\ Len(ab) = Len(a) + Len(b)
      /\ \A k \in 1 .. Len(a) + Len(b) : ab[k] = IF k <= Len(a) THEN a[k] ELSE b[k - Len(a)]
  BY <1>2, <1>3, ConcatProperties
<1>5. Without(i) = ab
  BY DEF Without, a, b
<1> HIDE DEF ab
<1>6. Len(ab) = Len(polls) - 1 /\ DOMAIN ab = 1 .. Len(polls) - 1
  BY <1>1, <1>2, <1>3, <1>4
<1>7. ASSUME NEW k \in 1 .. Len(polls) - 1
      PROVE  ab[k] = IF k < i THEN polls[k] ELSE polls[k + 1]
  <2>1. k \in 1 .. Len(a) + Len(b)
    BY <1>1, <1>2, <1>3
  <2>2. ab[k] = IF k <= i - 1 THEN a[k] ELSE b[k - (i - 1)]
    BY <1>2, <1>4, <2>1
  <2>3. CASE k < i
    BY <1>1, <1>2, <2>2, <2>3
  <2>4. CASE ~ (k < i)
    <3>1. k - (i - 1) \in 1 .. Len(polls) - i /\ i + (k - (i - 1)) = k + 1
      BY <1>1, <2>4
    <3>2. b[k - (i - 1)] = polls[k + 1]
      BY <1>3, <3>1
    <3> QED
      BY <1>1, <2>2, <2>4, <3>2
  <2> QED
    BY <2>3, <2>4
<1> QED
  BY <1>4, <1>5, <1>6, <1>7

(* The selection, its polls and its life as they were, or over by now:     *)
(* nothing the polls say becomes false.                                    *)
LEMMA PollsFrame ==
  ASSUME LiveInv, UNCHANGED <<selected, polls>>, life[selected] \in Ended => life'[selected] \in Ended
  PROVE  PollsAreOfSelection' /\ AnswersAgree'
BY DEF LiveInv, PollsAreOfSelection, AnswersAgree, Served

LEMMA SettledFrame ==
  ASSUME LiveInv, UNCHANGED <<selected, polls, polling>>,
         life[selected] \in Ended => life'[selected] \in Ended,
         detail'.run = detail.run,
         detail'.status # detail.status => detail'.status # "running"
  PROVE  Settled'
BY DEF LiveInv, Settled, Served

LEMMA DropKeeps ==
  ASSUME LiveInv, NEW i \in DOMAIN polls, polls' = Without(i), UNCHANGED <<selected, life>>
  PROVE  /\ polls' \in Seq(Poll) /\ PollsAreOfSelection' /\ AnswersAgree'
         /\ \A k \in DOMAIN polls' : \E m \in DOMAIN polls : polls'[k] = polls[m] /\ (i = 1 => m = k + 1)
<1> USE DEF LiveInv
<1>1. polls \in Seq(Poll)
  BY DEF LiveTyped
<1>2. /\ polls' \in Seq(Poll) /\ Len(polls') = Len(polls) - 1
      /\ \A k \in DOMAIN polls' : polls'[k] = IF k < i THEN polls[k] ELSE polls[k + 1]
  BY <1>1, WithoutOne
<1> DEFINE was(k) == IF k < i THEN k ELSE k + 1
<1>3. ASSUME NEW k \in DOMAIN polls'
      PROVE  was(k) \in DOMAIN polls /\ polls'[k] = polls[was(k)] /\ k \in Nat /\ (i = 1 => was(k) = k + 1)
  BY <1>1, <1>2
<1>4. i \in Nat
  BY <1>1
<1>5. ASSUME NEW k \in DOMAIN polls', NEW m \in DOMAIN polls', k < m PROVE was(k) < was(m)
  BY <1>3, <1>4, <1>5
<1> HIDE DEF was
<1>6. PollsAreOfSelection'
  BY <1>3 DEF PollsAreOfSelection
<1>7. AnswersAgree'
  <2>1. ASSUME NEW k \in DOMAIN polls', NEW m \in DOMAIN polls', k < m, polls'[m].at = "served"
        PROVE  /\ polls'[k].at = "served"
               /\ polls'[k].status \in Over => polls'[m].status # "running"
    BY <1>3, <1>5, <2>1 DEF AnswersAgree, Served
  <2>2. ASSUME NEW k \in DOMAIN polls', polls'[k].at = "served", polls'[k].status \in Over
        PROVE  life[selected] \in Ended
    BY <1>3, <2>2 DEF AnswersAgree, Served
  <2> QED
    BY <2>1, <2>2 DEF AnswersAgree, Served
<1> QED
  BY <1>2, <1>3, <1>6, <1>7

(* A new selection is polled, and nothing is known of it.                  *)
LEMMA SelectKeeps ==
  ASSUME LiveInv, NEW r \in Runs, Select(r), UNCHANGED life, detail' = detail
  PROVE  /\ selected' \in Runs /\ polling' \in BOOLEAN /\ polls' \in Seq(Poll)
         /\ PollsAreOfSelection' /\ AnswersAgree' /\ Settled'
<1>1. selected' = r
  BY DEF Select
<1>2. CASE r = selected
  <2>1. UNCHANGED <<selected, polling, polls>>
    BY <1>2 DEF Select
  <2>2. PollsAreOfSelection' /\ AnswersAgree' /\ Settled'
    BY <2>1, PollsFrame, SettledFrame
  <2> QED
    BY <1>1, <2>1, <2>2 DEF LiveInv, LiveTyped
<1>3. CASE r # selected
  <2>1. polls' = <<Sent(r)>> /\ polling' = TRUE
    BY <1>3 DEF Select
  <2>2. Sent(r) \in Poll /\ Sent(r).run = r /\ Sent(r).at = "sent"
    BY DEF Sent, Poll
  <2>3. polls' \in Seq(Poll) /\ DOMAIN polls' = {1} /\ polls'[1] = Sent(r)
    BY <2>1, <2>2
  <2>4. PollsAreOfSelection'
    BY <1>1, <2>2, <2>3 DEF PollsAreOfSelection
  <2>5. AnswersAgree'
    BY <2>2, <2>3 DEF AnswersAgree, Served
  <2>6. Settled'
    BY <2>1 DEF Settled
  <2> QED
    BY <1>1, <2>1, <2>3, <2>4, <2>5, <2>6
<1> QED
  BY <1>2, <1>3

-----------------------------------------------------------------------------
(* One lemma for each group of actions.                                    *)
LEMMA TypedParts ==
  ASSUME LiveInv
  PROVE  /\ life \in [Runs -> Lives] /\ polls \in Seq(Poll) /\ request \in [Buttons -> Request]
         /\ listPoll \in ListPoll /\ selected \in Runs \cup {NoRun}
BY DEF LiveInv, LiveTyped

(* Without a selection there is nothing to poll.                           *)
LEMMA NothingSelected == ASSUME LiveInv, selected = NoRun PROVE DOMAIN polls = {}
<1> SUFFICES ASSUME NEW i \in DOMAIN polls PROVE FALSE
  OBVIOUS
<1>1. polls[i].run \in Runs
  BY TypedParts DEF Poll
<1> QED
  BY <1>1, LiveAssumption DEF LiveInv, PollsAreOfSelection

(* A request moves on, and all else is as it was.                          *)
LEMMA RequestKeeps ==
  ASSUME LiveInv, NEW b \in Buttons, NEW q \in Request, request' = [request EXCEPT ![b] = q],
         b \in {"stop", "inject"} /\ q.at = "sent" => q.run \in Runs,
         b = "stop" /\ q.at = "served" => q.status \in Over
  PROVE  request' \in [Buttons -> Request] /\ AskedOfRuns'
<1>1. request' \in [Buttons -> Request] /\ \A c \in Buttons : request'[c] = IF c = b THEN q ELSE request[c]
  BY TypedParts
<1>2. {"stop", "inject"} \subseteq Buttons
  BY DEF Buttons
<1>3. AskedOfRuns
  BY DEF LiveInv
<1> QED
  BY <1>1, <1>2, <1>3 DEF AskedOfRuns

LEMMA RunMovesKeeps == ASSUME LiveInv, NEW r \in Runs, RunMoves(r) PROVE LiveInv'
<1>1. PICK l \in {"running", "stopped", "done"} \cup (IF MayForget THEN {"gone"} ELSE {}) :
        <<life[r], l>> \in Moves /\ life' = [life EXCEPT ![r] = l]
  BY DEF RunMoves
<1>2. UNCHANGED <<given, view, listPoll, request>>
  BY DEF RunMoves
<1>3. l \in Lives /\ (life[r] \in Ended => l \in Ended)
  BY <1>1 DEF Moves, Lives, Ended, Over
<1>4. life' \in [Runs -> Lives] /\ \A s \in Runs : life[s] \in Ended => life'[s] \in Ended
  BY <1>1, <1>3, TypedParts
<1>5. LiveTyped' /\ AskedOfRuns'
  BY <1>2, <1>4 DEF LiveInv, LiveTyped, AskedOfRuns, view
<1>6. PollsAreOfSelection' /\ AnswersAgree' /\ Settled'
  <2>1. CASE selected \in Runs
    BY <1>2, <1>4, <2>1, PollsFrame, SettledFrame DEF view
  <2>2. CASE selected = NoRun
    <3>1. UNCHANGED <<selected, polls>>
      BY <1>2 DEF view
    <3>2. DOMAIN polls = {}
      BY <2>2, NothingSelected
    <3> QED
      BY <2>2, <3>1, <3>2 DEF PollsAreOfSelection, AnswersAgree, Settled
  <2> QED
    BY <2>1, <2>2, TypedParts
<1> QED
  BY <1>5, <1>6 DEF LiveInv

(* The API answers the list, a start, a stop or an injection.              *)
LEMMA ServeListKeeps == ASSUME LiveInv, ServeList PROVE LiveInv'
<1> USE DEF ServeList, server, view
<1>1. listPoll' \in ListPoll
  BY DEF ListPoll
<1>2. PollsAreOfSelection' /\ AnswersAgree' /\ Settled'
  BY PollsFrame, SettledFrame
<1> QED
  BY <1>1, <1>2 DEF LiveInv, LiveTyped, AskedOfRuns

LEMMA ServeStartKeeps == ASSUME LiveInv, NEW b \in Buttons, ServeStart(b) PROVE LiveInv'
<1>1. PICK r \in Runs : /\ given' = given \cup {r}
                        /\ request' = [request EXCEPT ![b] = [at |-> "served", run |-> r, status |-> "ok"]]
  BY DEF ServeStart
<1>2. UNCHANGED <<life, view, listPoll>> /\ b # "stop"
  BY DEF ServeStart
<1>3. [at |-> "served", run |-> r, status |-> "ok"] \in Request
  BY DEF Request
<1>4. request' \in [Buttons -> Request] /\ AskedOfRuns'
  BY <1>1, <1>2, <1>3, RequestKeeps
<1>5. PollsAreOfSelection' /\ AnswersAgree' /\ Settled'
  BY <1>2, PollsFrame, SettledFrame DEF view
<1> QED
  BY <1>1, <1>2, <1>4, <1>5 DEF LiveInv, LiveTyped, view

LEMMA ServeStopKeeps == ASSUME LiveInv, ServeStop PROVE LiveInv'
<1> DEFINE r == request["stop"].run
           q == [at |-> "served", run |-> r, status |-> life'[r]]
<1>1. /\ request["stop"].at = "sent" /\ Known(r)
      /\ life' = IF life[r] = "running" THEN [life EXCEPT ![r] = "stopped"] ELSE life
      /\ request' = [request EXCEPT !["stop"] = q]
      /\ UNCHANGED <<given, view, listPoll>>
  BY DEF ServeStop
<1>2. r \in Runs
  BY <1>1 DEF LiveInv, AskedOfRuns
<1> HIDE DEF r
<1>3. /\ life' \in [Runs -> Lives] /\ life'[r] \in Over
      /\ \A s \in Runs : life[s] \in Ended => life'[s] \in Ended
  BY <1>1, <1>2, TypedParts DEF Known, Lives, Over, Ended
<1>4. q \in Request /\ q.at = "served" /\ q.status \in Over
  BY <1>2, <1>3 DEF Request
<1> HIDE DEF q
<1>5. request' \in [Buttons -> Request] /\ AskedOfRuns'
  BY <1>1, <1>4, RequestKeeps DEF Buttons
<1>6. PollsAreOfSelection' /\ AnswersAgree' /\ Settled'
  <2>1. CASE selected \in Runs
    BY <1>1, <1>3, <2>1, PollsFrame, SettledFrame DEF view
  <2>2. CASE selected = NoRun
    <3>1. UNCHANGED <<selected, polls>>
      BY <1>1 DEF view
    <3>2. DOMAIN polls = {}
      BY <2>2, NothingSelected
    <3> QED
      BY <2>2, <3>1, <3>2 DEF PollsAreOfSelection, AnswersAgree, Settled
  <2> QED
    BY <2>1, <2>2, TypedParts
<1> QED
  BY <1>1, <1>3, <1>5, <1>6 DEF LiveInv, LiveTyped, view

LEMMA ServeInjectKeeps == ASSUME LiveInv, ServeInject PROVE LiveInv'
<1> DEFINE q == [at |-> "served", run |-> request["inject"].run, status |-> "ok"]
<1>1. /\ request["inject"].at = "sent" /\ life[request["inject"].run] = "running"
      /\ request' = [request EXCEPT !["inject"] = q]
      /\ UNCHANGED <<server, view, listPoll>>
  BY DEF ServeInject
<1>2. q \in Request /\ q.at = "served"
  BY <1>1 DEF AskedOfRuns, LiveInv, Request
<1> HIDE DEF q
<1>3. request' \in [Buttons -> Request] /\ AskedOfRuns'
  BY <1>1, <1>2, RequestKeeps DEF Buttons
<1>4. PollsAreOfSelection' /\ AnswersAgree' /\ Settled'
  BY <1>1, PollsFrame, SettledFrame DEF view, server
<1> QED
  BY <1>1, <1>3, <1>4 DEF LiveInv, LiveTyped, view, server

-----------------------------------------------------------------------------
(* The panel polls, is answered, and is told to select, stop or disturb.   *)
LEMMA ServePollKeeps == ASSUME InOrder, LiveInv, NEW i \in DOMAIN polls, ServePoll(i) PROVE LiveInv'
<1> USE DEF LiveInv
<1> DEFINE r == polls[i].run
           q == [at |-> "served", run |-> r, status |-> IF Known(r) THEN life[r] ELSE "error"]
<1>1. /\ polls[i].at = "sent" /\ \A k \in 1 .. i - 1 : polls[k].at = "served"
      /\ polls' = [polls EXCEPT ![i] = q]
      /\ UNCHANGED <<server, listed, selected, picked, detail, polling, listPoll, request>>
  BY DEF ServePoll
<1>2. /\ polls[i] \in Poll /\ r = selected /\ r \in Runs
      /\ DOMAIN polls = 1 .. Len(polls) /\ Len(polls) \in Nat
  BY <1>1, TypedParts DEF PollsAreOfSelection, Poll
<1> HIDE DEF r
<1>3. /\ q \in Poll /\ q.at = "served" /\ q.run = r
      /\ q.status \in Over => life[selected] \in Ended
      /\ q.status = "running" => life[selected] = "running"
  BY <1>2 DEF Poll, Known, Over, Ended
<1> HIDE DEF q
<1>4. /\ polls' \in Seq(Poll) /\ DOMAIN polls' = DOMAIN polls
      /\ \A k \in DOMAIN polls : polls'[k] = IF k = i THEN q ELSE polls[k]
  BY <1>1, <1>2, <1>3, TypedParts
<1>5. PollsAreOfSelection'
  BY <1>1, <1>2, <1>3, <1>4 DEF PollsAreOfSelection
<1>6. AnswersAgree'
  <2>1. UNCHANGED <<selected, life>>
    BY <1>1 DEF server
  <2>2. ASSUME NEW k \in DOMAIN polls', NEW m \in DOMAIN polls', k < m, polls'[m].at = "served"
        PROVE  /\ polls'[k].at = "served"
               /\ polls'[k].status \in Over => polls'[m].status # "running"
    <3>1. CASE m = i
      <4>1. k \in 1 .. i - 1 /\ k # i /\ polls'[k] = polls[k] /\ polls'[m] = q
        BY <1>2, <1>4, <2>2, <3>1
      <4>2. polls[k].at = "served"
        BY <1>1, <4>1
      <4>3. polls[k].status \in Over => life[selected] \in Ended
        BY <1>4, <2>2, <4>2 DEF AnswersAgree, Served
      <4> QED
        BY <1>3, <4>1, <4>2, <4>3 DEF Ended, Over
    <3>2. CASE m # i
      <4>1. polls[i].at # "served" /\ polls'[m] = polls[m] /\ polls[k].at = "served"
        BY <1>1, <1>4, <2>2, <3>2 DEF AnswersAgree, Served
      <4>2. polls'[k] = polls[k]
        BY <1>4, <2>2, <4>1
      <4> QED
        BY <1>4, <2>2, <4>1, <4>2 DEF AnswersAgree, Served
    <3> QED
      BY <3>1, <3>2
  <2>3. ASSUME NEW k \in DOMAIN polls', polls'[k].at = "served", polls'[k].status \in Over
        PROVE  life[selected] \in Ended
    BY <1>3, <1>4, <2>3 DEF AnswersAgree, Served
  <2> QED
    BY <2>1, <2>2, <2>3 DEF AnswersAgree, Served
<1>7. Settled'
  <2>1. UNCHANGED <<selected, polling, detail, life>>
    BY <1>1 DEF server
  <2> QED
    BY <1>3, <1>4, <2>1 DEF Settled, Served, Ended, Over
<1> QED
  BY <1>1, <1>4, <1>5, <1>6, <1>7 DEF LiveTyped, AskedOfRuns, server

LEMMA PollDetailKeeps == ASSUME LiveInv, PollDetail PROVE LiveInv'
<1> USE DEF LiveInv
<1>1. /\ polling /\ polls' = Append(polls, Sent(selected))
      /\ UNCHANGED <<server, listed, selected, picked, detail, polling, listPoll, request>>
  BY DEF PollDetail
<1>2. selected \in Runs
  BY <1>1 DEF LiveTyped
<1>3. LiveInv'
  <2> DEFINE q == Sent(selected)
             n == Len(polls)
  <2>1. q \in Poll /\ q.run = selected /\ q.at = "sent" /\ polls' = Append(polls, q)
    BY <1>1, <1>2 DEF Sent, Poll
  <2> HIDE DEF q
  <2>2. /\ polls' \in Seq(Poll) /\ Len(polls') = n + 1 /\ polls'[n + 1] = q
        /\ \A k \in 1 .. n : polls'[k] = polls[k]
    BY <2>1, TypedParts, AppendProperties
  <2>3. DOMAIN polls = 1 .. n /\ n \in Nat /\ DOMAIN polls' = 1 .. n + 1
    BY <2>2, TypedParts
  <2> HIDE DEF n
  <2>4. \A k \in DOMAIN polls' : (k \in DOMAIN polls /\ polls'[k] = polls[k]) \/ (k = n + 1 /\ polls'[k] = q)
    BY <2>2, <2>3
  <2>5. PollsAreOfSelection'
    BY <1>1, <2>1, <2>4 DEF PollsAreOfSelection
  <2>6. AnswersAgree'
    <3>1. UNCHANGED <<selected, life>>
      BY <1>1 DEF server
    <3>2. ASSUME NEW k \in DOMAIN polls', polls'[k].at = "served"
          PROVE  k \in DOMAIN polls /\ polls'[k] = polls[k]
      BY <2>1, <2>4, <3>2
    <3>3. ASSUME NEW k \in DOMAIN polls', NEW m \in DOMAIN polls', k < m, polls'[m].at = "served"
          PROVE  k \in DOMAIN polls /\ polls'[k] = polls[k]
      <4>1. m \in 1 .. n /\ k \in 1 .. n + 1
        BY <2>3, <3>2, <3>3
      <4> QED
        BY <2>2, <2>3, <3>3, <4>1
    <3> QED
      BY <3>1, <3>2, <3>3 DEF AnswersAgree, Served
  <2>7. Settled'
    BY <1>1 DEF Settled
  <2> QED
    BY <1>1, <2>2, <2>5, <2>6, <2>7 DEF LiveTyped, AskedOfRuns, server
<1> QED
  BY <1>3

LEMMA PollFailsKeeps == ASSUME LiveInv, NEW i \in DOMAIN polls, PollFails(i) PROVE LiveInv'
<1> USE DEF LiveInv
<1>1. /\ polls' = Without(i)
      /\ UNCHANGED <<server, listed, selected, picked, detail, polling, listPoll, request>>
  BY DEF PollFails
<1>2. /\ polls' \in Seq(Poll) /\ PollsAreOfSelection' /\ AnswersAgree'
      /\ \A k \in DOMAIN polls' : \E m \in DOMAIN polls : polls'[k] = polls[m]
  BY <1>1, DropKeeps DEF server
<1>3. Settled'
  BY <1>1, <1>2 DEF Settled, Served, server
<1> QED
  BY <1>1, <1>2, <1>3 DEF LiveTyped, AskedOfRuns, server

(* The answer is the oldest: what it says of a run that is over, every     *)
(* answer behind it says too.                                              *)
LEMMA PollAnswerKeeps ==
  ASSUME InOrder, LiveInv, NEW i \in DOMAIN polls, PollAnswer(i) PROVE LiveInv'
<1> USE DEF LiveInv
<1>1. /\ polls[i].at = "served" /\ i = 1 /\ polls' = Without(i)
      /\ UNCHANGED <<server, listed, selected, picked, listPoll, request>>
  BY DEF PollAnswer
<1>2. /\ polls' \in Seq(Poll) /\ PollsAreOfSelection' /\ AnswersAgree'
      /\ \A k \in DOMAIN polls' : k + 1 \in DOMAIN polls /\ polls'[k] = polls[k + 1]
  BY <1>1, DropKeeps DEF server
<1>3. \A k \in DOMAIN polls' : 1 < k + 1 /\ 1 \in DOMAIN polls
  BY <1>1, <1>2
<1>4. polls[i] \in Poll /\ polls[i].run = selected /\ selected \in Runs
  BY <1>1, TypedParts DEF PollsAreOfSelection, Poll
<1>5. CASE polls[i].status = "error"
  <2>1. UNCHANGED <<detail, polling>>
    BY <1>5 DEF PollAnswer
  <2>2. Settled'
    BY <1>1, <1>2, <2>1 DEF Settled, Served, server
  <2> QED
    BY <1>1, <1>2, <2>1, <2>2 DEF LiveTyped, AskedOfRuns, server
<1>6. CASE polls[i].status # "error"
  <2>1. /\ detail' = [run |-> selected, status |-> polls[i].status]
        /\ polling' = (polling /\ polls[i].status = "running")
    BY <1>4, <1>6 DEF PollAnswer
  <2>2. polls[i].status \in {"running"} \cup Over
    BY <1>1, <1>4, <1>6 DEF Poll
  <2>3. ASSUME ~polling' PROVE polls[i].status \in Over
    BY <1>1, <1>4, <2>1, <2>2, <2>3, LiveAssumption DEF Settled, Served
  <2>4. Settled'
    <3> SUFFICES ASSUME ~polling' PROVE Settled'
      BY DEF Settled
    <3>1. life[selected] \in Ended /\ polls[i].status # "running"
      BY <1>1, <2>3 DEF AnswersAgree, Served, Over
    <3>2. \A k \in DOMAIN polls' : polls'[k].at = "served" => polls'[k].status # "running"
      BY <1>1, <1>2, <1>3, <2>3 DEF AnswersAgree, Served
    <3> QED
      BY <1>1, <2>1, <3>1, <3>2 DEF Settled, Served, server
  <2>5. /\ detail' \in [run : Runs \cup {NoRun}, status : {"none", "running"} \cup Over]
        /\ polling' \in BOOLEAN /\ (polling' => polling)
    BY <1>4, <2>1, <2>2 DEF LiveTyped
  <2> QED
    BY <1>1, <1>2, <1>4, <2>4, <2>5 DEF LiveTyped, AskedOfRuns, server
<1> QED
  BY <1>5, <1>6

LEMMA ListKeeps == ASSUME LiveInv, KnownInv', ListAnswer \/ ListFails \/ PollList PROVE LiveInv'
<1> USE DEF LiveInv
<1>1. UNCHANGED <<server, detail, picked, request>> /\ listPoll' \in ListPoll
  BY DEF ListAnswer, ListFails, PollList, ListPoll, view
<1>2. CASE ListAnswer
  <2>1. listed' \subseteq Runs
    BY <1>2, TypedParts DEF ListAnswer, ListPoll, Idle, Sent
  <2>2. CASE ~picked /\ listed' # {}
    <3>1. Newest(listed') \in listed'
      <4>1. PICK n \in Nat : \A r \in Runs : life'[r] # "unknown" => r <= n
        BY DEF KnownInv
      <4>2. listed' \in SUBSET Runs /\ \A r \in listed' : r <= n
        BY <4>1 DEF KnownInv
      <4> QED
        BY <2>2, <4>2, NewestIsListed
    <3>2. Select(Newest(listed'))
      BY <1>2, <2>2 DEF ListAnswer
    <3>3. /\ selected' \in Runs /\ polling' \in BOOLEAN /\ polls' \in Seq(Poll)
          /\ PollsAreOfSelection' /\ AnswersAgree' /\ Settled'
      BY <1>1, <2>1, <3>1, <3>2, SelectKeeps DEF server
    <3> QED
      BY <1>1, <2>1, <3>3 DEF LiveTyped, AskedOfRuns, server
  <2>3. CASE ~(~picked /\ listed' # {})
    <3>1. UNCHANGED <<selected, polling, polls>>
      BY <1>2, <2>3 DEF ListAnswer
    <3>2. PollsAreOfSelection' /\ AnswersAgree' /\ Settled'
      BY <1>1, <3>1, PollsFrame, SettledFrame DEF server
    <3> QED
      BY <1>1, <2>1, <3>1, <3>2 DEF LiveTyped, AskedOfRuns, server
  <2> QED
    BY <2>2, <2>3
<1>3. CASE ListFails \/ PollList
  <2>1. UNCHANGED view
    BY <1>3 DEF ListFails, PollList
  <2>2. PollsAreOfSelection' /\ AnswersAgree' /\ Settled'
    BY <1>1, <2>1, PollsFrame, SettledFrame DEF server, view
  <2> QED
    BY <1>1, <2>1, <2>2 DEF LiveTyped, AskedOfRuns, server, view
<1> QED
  BY <1>2, <1>3

(* The buttons: only a pick and a new run move the selection.              *)
LEMMA PickRunKeeps == ASSUME LiveInv, NEW r \in Runs, PickRun(r) PROVE LiveInv'
<1>1. /\ picked' = TRUE /\ Select(r)
      /\ UNCHANGED <<server, listed, detail, listPoll, request>>
  BY DEF PickRun
<1>2. /\ selected' \in Runs /\ polling' \in BOOLEAN /\ polls' \in Seq(Poll)
      /\ PollsAreOfSelection' /\ AnswersAgree' /\ Settled'
  BY <1>1, SelectKeeps DEF server
<1> QED
  BY <1>1, <1>2 DEF LiveInv, LiveTyped, AskedOfRuns, server

LEMMA StartAnswerKeeps == ASSUME LiveInv, NEW b \in Buttons, StartAnswer(b) PROVE LiveInv'
<1>1. /\ b \in {"start", "launch"} /\ request[b].at = "served"
      /\ request' = [request EXCEPT ![b] = Idle] /\ picked' = TRUE /\ Select(request[b].run)
      /\ UNCHANGED <<server, listed, detail, listPoll>>
  BY DEF StartAnswer
<1>2. request[b].run \in Runs
  BY <1>1, TypedParts DEF Request, Idle
<1>3. /\ selected' \in Runs /\ polling' \in BOOLEAN /\ polls' \in Seq(Poll)
      /\ PollsAreOfSelection' /\ AnswersAgree' /\ Settled'
  BY <1>1, <1>2, SelectKeeps DEF server
<1>4. request' \in [Buttons -> Request] /\ AskedOfRuns'
  BY <1>1, RequestKeeps DEF Request, Idle
<1> QED
  BY <1>1, <1>3, <1>4 DEF LiveInv, LiveTyped, server

LEMMA ClickKeeps == ASSUME LiveInv, NEW b \in Buttons, Click(b) PROVE LiveInv'
<1>1. /\ request' = [request EXCEPT ![b] = Sent(selected)]
      /\ b \in {"stop", "inject"} => selected # NoRun
      /\ UNCHANGED <<server, view, listPoll>>
  BY DEF Click
<1>2. Sent(selected) \in Request /\ Sent(selected).at = "sent" /\ Sent(selected).run = selected
  BY TypedParts DEF Sent, Request
<1>3. request' \in [Buttons -> Request] /\ AskedOfRuns'
  BY <1>1, <1>2, TypedParts, RequestKeeps
<1>4. PollsAreOfSelection' /\ AnswersAgree' /\ Settled'
  BY <1>1, PollsFrame, SettledFrame DEF server, view
<1> QED
  BY <1>1, <1>3, <1>4 DEF LiveInv, LiveTyped, server, view

LEMMA StopAnswerKeeps == ASSUME LiveInv, StopAnswer PROVE LiveInv'
<1>1. /\ request["stop"].at = "served" /\ request' = [request EXCEPT !["stop"] = Idle]
      /\ detail' = [detail EXCEPT !.status = request["stop"].status]
      /\ UNCHANGED <<server, listed, selected, picked, polling, polls, listPoll>>
  BY DEF StopAnswer
<1>2. request["stop"].status \in Over
  BY <1>1 DEF LiveInv, AskedOfRuns
<1>3. request' \in [Buttons -> Request] /\ AskedOfRuns'
  BY <1>1, RequestKeeps DEF Request, Idle, Buttons
<1>4. /\ detail' \in [run : Runs \cup {NoRun}, status : {"none", "running"} \cup Over]
      /\ detail'.run = detail.run /\ detail'.status # "running"
  BY <1>1, <1>2 DEF LiveInv, LiveTyped, Over
<1>5. PollsAreOfSelection' /\ AnswersAgree' /\ Settled'
  BY <1>1, <1>4, PollsFrame, SettledFrame DEF server
<1> QED
  BY <1>1, <1>3, <1>4, <1>5 DEF LiveInv, LiveTyped, server

LEMMA RequestEnds ==
  ASSUME LiveInv, InjectAnswer \/ \E b \in Buttons : RequestFails(b)
  PROVE  LiveInv'
<1>1. PICK b \in Buttons : request' = [request EXCEPT ![b] = Idle]
  BY DEF InjectAnswer, RequestFails, Buttons
<1>2. UNCHANGED <<server, view, listPoll>>
  BY DEF InjectAnswer, RequestFails
<1>3. request' \in [Buttons -> Request] /\ AskedOfRuns'
  BY <1>1, RequestKeeps DEF Request, Idle
<1>4. PollsAreOfSelection' /\ AnswersAgree' /\ Settled'
  BY <1>2, PollsFrame, SettledFrame DEF server, view
<1> QED
  BY <1>2, <1>3, <1>4 DEF LiveInv, LiveTyped, server, view

LEMMA LiveStep == ASSUME InOrder, LiveInv, KnownInv', [LiveNext]_liveVars PROVE LiveInv'
<1>1. CASE UNCHANGED liveVars
  <2>1. PollsAreOfSelection' /\ AnswersAgree' /\ Settled'
    BY <1>1, PollsFrame, SettledFrame DEF liveVars, server, view
  <2> QED
    BY <1>1, <2>1 DEF LiveInv, LiveTyped, AskedOfRuns, liveVars, server, view
<1>2. CASE \E r \in Runs : RunMoves(r) \/ PickRun(r)
  BY <1>2, RunMovesKeeps, PickRunKeeps
<1>3. CASE Serve \/ \E i \in DOMAIN polls : ServePoll(i)
  BY <1>3, ServeListKeeps, ServeStopKeeps, ServeInjectKeeps, ServeStartKeeps, ServePollKeeps DEF Serve
<1>4. CASE Receive
  BY <1>4, ListKeeps, StopAnswerKeeps, RequestEnds, StartAnswerKeeps, PollAnswerKeeps, PollFailsKeeps DEF Receive
<1>5. CASE PollList \/ PollDetail
  BY <1>5, ListKeeps, PollDetailKeeps
<1>6. CASE \E b \in Buttons : Click(b)
  BY <1>6, ClickKeeps
<1> QED
  BY <1>1, <1>2, <1>3, <1>4, <1>5, <1>6 DEF LiveNext

-----------------------------------------------------------------------------
(* Every list that is shown is of known runs and has a newest one, so that *)
(* the panel always has a run to select (LiveTrainingPanel.tsx:62-82).     *)
THEOREM ListsAreOfKnownRuns == LiveSpec => []KnownInv
<1>1. LiveInit => KnownInv
  <2> SUFFICES ASSUME LiveInit PROVE KnownInv
    OBVIOUS
  <2>1. life = [r \in Runs |-> "unknown"] /\ listed = {} /\ listPoll.at = "sent"
    BY DEF LiveInit, LifeInit, Sent
  <2>2. life \in [Runs -> Lives]
    BY <2>1 DEF Lives
  <2>3. \A r \in Runs : life[r] # "unknown" => r <= 0
    BY <2>1
  <2> QED
    BY <2>1, <2>2, <2>3 DEF KnownInv
<1> QED
  BY <1>1, KnownStep, PTL DEF LiveSpec

(* When the API answers the polls of a run in order, what is no longer     *)
(* polled is the selected run, it is over, and it is shown as over,        *)
(* whatever is lost and however many polls, stops and starts are in flight *)
(* (LiveTrainingPanel.tsx:85-114, 160-168).                                *)
THEOREM WhatIsNotPolledIsOver == ASSUME InOrder PROVE LiveSpec => []SettledIsOver
<1>1. LiveInv /\ KnownInv' /\ [LiveNext]_liveVars => LiveInv'
  BY LiveStep
<1> QED
  BY <1>1, InitTyped, Shown, ListsAreOfKnownRuns, PTL DEF LiveSpec

(* The user's pick outlives every list, answered in whatever order         *)
(* (LiveTrainingPanel.tsx:62-82).                                          *)
THEOREM PicksOutliveLists == LiveSpec => SelectionSticks
<1>1. ASSUME [LiveNext]_liveVars
      PROVE  [(picked /\ listPoll.at = "served" /\ listPoll' = Idle) => UNCHANGED selected]_liveVars
  <2> SUFFICES ASSUME picked, listPoll.at = "served", listPoll' = Idle PROVE UNCHANGED selected
    OBVIOUS
  <2>1. listPoll' # listPoll
    BY DEF Idle
  <2>2. CASE ListAnswer \/ ListFails
    BY <2>2 DEF ListAnswer, ListFails, view
  <2>3. CASE PollList \/ ServeList
    BY <2>3 DEF PollList, ServeList, Idle
  <2>4. ~UNCHANGED liveVars
    BY <2>1 DEF liveVars
  <2> QED
    BY <1>1, <2>1, <2>2, <2>3, <2>4
    DEF LiveNext, Serve, Receive, RunMoves, PickRun, ServeStop, ServeInject, ServeStart, ServePoll,
        StopAnswer, InjectAnswer, StartAnswer, RequestFails, PollAnswer, PollFails, PollDetail, Click
<1> QED
  BY <1>1, PTL DEF LiveSpec, SelectionSticks
=============================================================================
