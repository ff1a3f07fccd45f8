--------------------------- MODULE PlaygroundProofs ---------------------------
(***************************************************************************)
(* Theorems about the request playground, for any number of lanes, tokens, *)
(* edits and broken streams: lanes prefill one at a time and in order, a   *)
(* lane shows what its own stream got, and a run that ends by itself has   *)
(* served every lane.                                                      *)
(*                                                                         *)
(* The streams of a run hand a token on: only the stream that was started  *)
(* last has not started the next one.  The parts of the invariant say so   *)
(* for any set of streams, list of lanes and list of the started ones, as  *)
(* a handler goes through states that are seen by nobody.                  *)
(***************************************************************************)
EXTENDS Playground, FiniteSetTheorems, SequenceTheorems, TLAPS

(* No two lanes have one id.                                               *)
Apart(ls) == \A j, k \in 1 .. Len(ls) : ls[j].id = ls[k].id => j = k

Ordered(ss, st) ==
  /\ \A s \in ss : s.current =>
       /\ s.index <= Len(st) /\ s.lane = st[s.index]
       /\ ~s.next => s.index = Len(st)
       /\ s.at = "prefilling" => ~s.next
  /\ \A s, u \in ss : (s.current /\ u.current /\ s.index = u.index) => s = u

(* The lanes of a run have started up to a place, and the others wait.     *)
InPlace(ls, st) ==
  /\ Len(st) <= Len(ls)
  /\ \A k \in 1 .. Len(st) : st[k] = ls[k].id
  /\ \A k \in 1 .. Len(ls) : k > Len(st) => ls[k].status = "queued"

Shown(ss, ls) ==
  \A s \in ss : (s.current /\ s.attached) =>
    ls[s.index] = [id |-> s.lane, status |-> s.at, generated |-> s.generated]

Sound(ls, next, run, ss, st) ==
  /\ ls \in Seq(Lane) /\ Len(ls) \in 1 .. MAX_LANES
  /\ Apart(ls) /\ \A k \in 1 .. Len(ls) : ls[k].id < next
  /\ ss \in SUBSET Stream /\ st \in Seq(1 .. MaxLaneId)
  /\ Ordered(ss, st)
  /\ run => InPlace(ls, st) /\ Shown(ss, ls)

PlayInv ==
  /\ nextLaneId \in Nat /\ running \in BOOLEAN
  /\ Sound(lanes, nextLaneId, running, streams, started)

-----------------------------------------------------------------------------
(* Writing into a lane.                                                    *)

LEMMA LaneIs ==
  ASSUME NEW x \in Lane
  PROVE  /\ x = [id |-> x.id, status |-> x.status, generated |-> x.generated]
         /\ x.id \in 1 .. MaxLaneId /\ x.generated \in 0 .. MaxTokens
BY DEF Lane

LEMMA WrittenIs ==
  ASSUME NEW ls \in Seq(Lane), NEW s \in Stream
  PROVE  /\ Written(ls, s) \in Seq(Lane) /\ Len(Written(ls, s)) = Len(ls)
         /\ \A k \in 1 .. Len(ls) :
              /\ Written(ls, s)[k].id = ls[k].id
              /\ (s.attached /\ ls[k].id = s.lane) =>
                   Written(ls, s)[k] = [id |-> s.lane, status |-> s.at, generated |-> s.generated]
              /\ ~(s.attached /\ ls[k].id = s.lane) => Written(ls, s)[k] = ls[k]
         /\ Apart(ls) => Apart(Written(ls, s))
<1> DEFINE w == Written(ls, s)
           upd(k) == [ls[k] EXCEPT !.status = s.at, !.generated = s.generated]
<1>1. w = [k \in 1 .. Len(ls) |-> IF s.attached /\ ls[k].id = s.lane THEN upd(k) ELSE ls[k]]
  BY DEF Written
<1>2. \A k \in 1 .. Len(ls) : ls[k] \in Lane
  OBVIOUS
<1>3. s.at \in {"prefilling", "decoding", "done"} /\ s.generated \in 0 .. MaxTokens
  BY DEF Stream
<1>4. ASSUME NEW k \in 1 .. Len(ls)
      PROVE  /\ upd(k) \in Lane /\ upd(k).id = ls[k].id
             /\ upd(k) = [id |-> ls[k].id, status |-> s.at, generated |-> s.generated]
  <2> DEFINE x == ls[k]
  <2>1. x \in Lane
    BY <1>2
  <2>2. upd(k) = [x EXCEPT !.status = s.at, !.generated = s.generated]
    OBVIOUS
  <2> HIDE DEF x, upd
  <2>3. /\ upd(k) \in Lane /\ upd(k).id = x.id
        /\ upd(k) = [id |-> x.id, status |-> s.at, generated |-> s.generated]
    BY <1>3, <2>1, <2>2 DEF Lane
  <2>4. QED BY <2>3 DEF x
<1> HIDE DEF w, upd
<1>5. w \in [1 .. Len(ls) -> Lane]
  BY <1>1, <1>2, <1>4
<1>6. w \in Seq(Lane) /\ Len(w) = Len(ls)
  BY <1>5
<1>7. \A k \in 1 .. Len(ls) : w[k].id = ls[k].id
  BY <1>1, <1>4
<1>8. ASSUME NEW k \in 1 .. Len(ls), s.attached, ls[k].id = s.lane
      PROVE  w[k] = [id |-> s.lane, status |-> s.at, generated |-> s.generated]
  BY <1>1, <1>4, <1>8
<1>9. ASSUME NEW k \in 1 .. Len(ls), ~(s.attached /\ ls[k].id = s.lane)
      PROVE  w[k] = ls[k]
  BY <1>1, <1>9
<1>10. Apart(ls) => Apart(w)
  BY <1>6, <1>7 DEF Apart
<1>11. QED BY <1>6, <1>7, <1>8, <1>9, <1>10 DEF w

LEMMA BegunIs ==
  ASSUME NEW ls \in Seq(Lane), NEW k \in 1 .. Len(ls), MAX_LANES \in Nat, MaxTokens \in Nat
  PROVE  /\ Len(ls) <= MAX_LANES => Begun(ls, k) \in Stream
         /\ Begun(ls, k).current /\ Begun(ls, k).index = k /\ Begun(ls, k).lane = ls[k].id
         /\ Begun(ls, k).at = "prefilling" /\ ~Begun(ls, k).next /\ Begun(ls, k).attached
         /\ Begun(ls, k).generated = 0
<1>1. ls[k] \in Lane /\ Len(ls) \in Nat
  OBVIOUS
<1>2. ls[k].id \in 1 .. MaxLaneId
  BY <1>1, LaneIs
<1>3. Len(ls) <= MAX_LANES => k \in 1 .. MAX_LANES
  BY <1>1
<1>4. 0 \in 0 .. MaxTokens
  OBVIOUS
<1>5. QED BY <1>2, <1>3, <1>4 DEF Begun, Stream

-----------------------------------------------------------------------------
(* The order of the streams.                                               *)

LEMMA OrderedReplace ==
  ASSUME NEW ss, NEW st, Ordered(ss, st), NEW s \in ss, NEW u, u.current, s.current,
         u.index = s.index, u.lane = s.lane, ~u.next => ~s.next, u.at = "prefilling" => ~u.next
  PROVE  Ordered((ss \ {s}) \cup {u}, st)
BY DEF Ordered

LEMMA OrderedRemove ==
  ASSUME NEW ss, NEW st, Ordered(ss, st), NEW s
  PROVE  Ordered(ss \ {s}, st)
BY DEF Ordered

(* The stream that has not handed on is the only one.                      *)
LEMMA OthersHandedOn ==
  ASSUME NEW ss, NEW st, Ordered(ss, st), NEW s \in ss, s.current, ~s.next,
         NEW u \in ss, u # s, u.current
  PROVE  ~ ~u.next
<1> SUFFICES ASSUME ~u.next PROVE FALSE
  OBVIOUS
<1>1. u.index = Len(st) /\ s.index = Len(st)
  BY DEF Ordered
<1>2. QED BY <1>1 DEF Ordered

LEMMA OrderedStart ==
  ASSUME NEW ss \in SUBSET Stream, NEW st \in Seq(1 .. MaxLaneId), NEW ls \in Seq(Lane),
         Ordered(ss, st), \A u \in ss : u.current => u.next,
         NEW k \in 1 .. Len(ls), k = Len(st) + 1, MAX_LANES \in Nat, MaxTokens \in Nat
  PROVE  Ordered(ss \cup {Begun(ls, k)}, Append(st, ls[k].id))
<1> DEFINE b == Begun(ls, k)
           r == Append(st, ls[k].id)
<1>1. /\ b.current /\ b.index = k /\ b.lane = ls[k].id /\ b.at = "prefilling" /\ ~b.next
  BY BegunIs
<1>2. ls[k].id \in 1 .. MaxLaneId
  BY LaneIs
<1>3. /\ Len(r) = Len(st) + 1 /\ r[Len(st) + 1] = ls[k].id /\ Len(st) \in Nat
      /\ \A i \in 1 .. Len(st) : r[i] = st[i]
  BY <1>2, AppendProperties
<1>4. \A u \in ss : u.index \in Nat /\ 1 <= u.index
  BY DEF Stream
<1> HIDE DEF b, r
<1>5. ASSUME NEW u \in ss, u.current
      PROVE  /\ u.index <= Len(r) /\ u.lane = r[u.index] /\ u.next
             /\ u.at # "prefilling" /\ u.index # k
  <2>1. /\ u.index <= Len(st) /\ u.lane = st[u.index] /\ u.next
        /\ u.at = "prefilling" => ~u.next
    BY <1>5 DEF Ordered
  <2>2. u.index \in 1 .. Len(st)
    BY <1>3, <1>4, <2>1
  <2>3. QED BY <1>3, <1>4, <2>1, <2>2
<1>6. /\ b.index <= Len(r) /\ b.lane = r[b.index] /\ b.index = Len(r)
  BY <1>1, <1>3
<1>7. \A u, v \in ss \cup {b} : (u.current /\ v.current /\ u.index = v.index) => u = v
  BY <1>1, <1>5 DEF Ordered
<1>8. ASSUME NEW u \in ss \cup {b}, u.current
      PROVE  /\ u.index <= Len(r) /\ u.lane = r[u.index]
             /\ ~u.next => u.index = Len(r)
             /\ u.at = "prefilling" => ~u.next
  <2>1. CASE u \in ss
    BY <1>5, <1>8, <2>1
  <2>2. CASE u = b
    BY <1>1, <1>6, <2>2
  <2>3. QED BY <2>1, <2>2
<1>9. Ordered(ss \cup {b}, r)
  BY <1>7, <1>8 DEF Ordered
<1>10. QED BY <1>9 DEF b, r

-----------------------------------------------------------------------------
(* The lanes of a run.                                                     *)

LEMMA InPlaceWrite ==
  ASSUME NEW ls \in Seq(Lane), NEW st \in Seq(1 .. MaxLaneId), InPlace(ls, st), Apart(ls),
         NEW u \in Stream, u.index <= Len(st), u.lane = st[u.index]
  PROVE  InPlace(Written(ls, u), st)
<1> DEFINE w == Written(ls, u)
<1>0. Len(ls) \in Nat /\ Len(st) \in Nat
  OBVIOUS
<1>a. Len(w) = Len(ls)
  BY WrittenIs
<1>b. \A k \in 1 .. Len(ls) : w[k].id = ls[k].id
  BY WrittenIs
<1>c. \A k \in 1 .. Len(ls) : ~(u.attached /\ ls[k].id = u.lane) => w[k] = ls[k]
  BY WrittenIs
<1>1. /\ Len(w) = Len(ls) /\ Len(ls) \in Nat /\ Len(st) \in Nat
      /\ \A k \in 1 .. Len(ls) :
           w[k].id = ls[k].id /\ (~(u.attached /\ ls[k].id = u.lane) => w[k] = ls[k])
  BY ONLY <1>0, <1>a, <1>b, <1>c
<1>2. u.index \in Nat /\ 1 <= u.index
  BY DEF Stream
<1>3. u.index \in 1 .. Len(ls) /\ ls[u.index].id = u.lane
  BY <1>1, <1>2 DEF InPlace
<1> HIDE DEF w
<1>4. ASSUME NEW k \in 1 .. Len(w), k > Len(st) PROVE w[k].status = "queued"
  <2>1. k # u.index /\ k \in 1 .. Len(ls)
    BY <1>1, <1>2, <1>4
  <2>2. ls[k].id # u.lane
    BY <1>3, <2>1 DEF Apart
  <2>3. w[k] = ls[k]
    BY <1>1, <2>1, <2>2
  <2>4. QED BY <1>4, <2>1, <2>3 DEF InPlace
<1>5. \A k \in 1 .. Len(st) : st[k] = w[k].id
  BY <1>1 DEF InPlace
<1>6. InPlace(w, st)
  BY <1>1, <1>4, <1>5 DEF InPlace
<1>7. QED BY <1>6 DEF w

LEMMA InPlaceStart ==
  ASSUME NEW ls \in Seq(Lane), NEW st \in Seq(1 .. MaxLaneId), InPlace(ls, st), Apart(ls),
         NEW k \in 1 .. Len(ls), k = Len(st) + 1, Len(ls) <= MAX_LANES,
         MAX_LANES \in Nat, MaxTokens \in Nat
  PROVE  InPlace(Written(ls, Begun(ls, k)), Append(st, ls[k].id))
<1> DEFINE b == Begun(ls, k)
           w == Written(ls, b)
           r == Append(st, ls[k].id)
<1>1. b \in Stream /\ b.lane = ls[k].id
  BY BegunIs
<1>2. ls[k].id \in 1 .. MaxLaneId
  BY LaneIs
<1>3. /\ Len(r) = Len(st) + 1 /\ r[Len(st) + 1] = ls[k].id /\ Len(st) \in Nat
      /\ \A i \in 1 .. Len(st) : r[i] = st[i]
  BY <1>2, AppendProperties
<1> HIDE DEF b, r
<1>0. Len(ls) \in Nat
  OBVIOUS
<1>a. Len(w) = Len(ls)
  BY <1>1, WrittenIs
<1>b. \A j \in 1 .. Len(ls) : w[j].id = ls[j].id
  BY <1>1, WrittenIs
<1>c. \A j \in 1 .. Len(ls) : ~(b.attached /\ ls[j].id = b.lane) => w[j] = ls[j]
  BY <1>1, WrittenIs
<1>4. /\ Len(w) = Len(ls) /\ Len(ls) \in Nat
      /\ \A j \in 1 .. Len(ls) :
           w[j].id = ls[j].id /\ (~(b.attached /\ ls[j].id = b.lane) => w[j] = ls[j])
  BY ONLY <1>0, <1>a, <1>b, <1>c
<1> HIDE DEF w
<1>5. ASSUME NEW j \in 1 .. Len(w), j > Len(r) PROVE w[j].status = "queued"
  <2>1. j # k /\ j \in 1 .. Len(ls) /\ j > Len(st)
    BY <1>3, <1>4, <1>5
  <2>2. ls[j].id # b.lane
    BY <1>1, <2>1 DEF Apart
  <2>3. w[j] = ls[j]
    BY <1>4, <2>1, <2>2
  <2>4. QED BY <2>1, <2>3 DEF InPlace
<1>6. ASSUME NEW j \in 1 .. Len(r) PROVE r[j] = w[j].id
  <2>1. CASE j = Len(st) + 1
    BY <1>3, <1>4, <2>1
  <2>2. CASE j # Len(st) + 1
    <3>1. j \in 1 .. Len(st) /\ j \in 1 .. Len(ls)
      BY <1>3, <2>2
    <3>2. QED BY <1>3, <1>4, <3>1 DEF InPlace
  <2>3. QED BY <2>1, <2>2
<1>7. Len(r) <= Len(w)
  BY <1>3, <1>4
<1>8. InPlace(w, r)
  BY <1>5, <1>6, <1>7 DEF InPlace
<1>9. QED BY <1>8 DEF b, r, w

-----------------------------------------------------------------------------
(* What is shown.                                                          *)

LEMMA ShownWrite ==
  ASSUME NEW ls \in Seq(Lane), NEW st \in Seq(1 .. MaxLaneId), InPlace(ls, st), Apart(ls),
         NEW ss \in SUBSET Stream, Ordered(ss, st), Shown(ss, ls),
         NEW s \in ss, NEW u \in Stream, s.current, u.current, u.index = s.index, u.lane = s.lane
  PROVE  Shown((ss \ {s}) \cup {u}, Written(ls, u))
<1> DEFINE w == Written(ls, u)
<1>1. \A k \in 1 .. Len(ls) :
        /\ (u.attached /\ ls[k].id = u.lane) =>
             w[k] = [id |-> u.lane, status |-> u.at, generated |-> u.generated]
        /\ ~(u.attached /\ ls[k].id = u.lane) => w[k] = ls[k]
  BY WrittenIs
<1>2. Len(ls) \in Nat /\ Len(st) \in Nat /\ Len(st) <= Len(ls)
  BY DEF InPlace
<1>3. ASSUME NEW v \in ss, v.current
      PROVE  v.index \in 1 .. Len(ls) /\ ls[v.index].id = v.lane
  <2>1. v.index \in Nat /\ 1 <= v.index
    BY DEF Stream
  <2>2. v.index <= Len(st) /\ v.lane = st[v.index]
    BY <1>3 DEF Ordered
  <2>3. v.index \in 1 .. Len(st)
    BY <1>2, <2>1, <2>2
  <2>4. QED BY <1>2, <2>2, <2>3 DEF InPlace
<1> HIDE DEF w
<1>4. ASSUME NEW v \in ss \ {s}, v.current, v.attached
      PROVE  w[v.index] = [id |-> v.lane, status |-> v.at, generated |-> v.generated]
  <2>1. v.index # s.index
    BY <1>4 DEF Ordered
  <2>2. v.index \in 1 .. Len(ls) /\ s.index \in 1 .. Len(ls) /\ ls[s.index].id = u.lane
    BY <1>3, <1>4
  <2>3. ls[v.index].id # u.lane
    BY <2>1, <2>2 DEF Apart
  <2>4. w[v.index] = ls[v.index]
    BY <1>1, <2>2, <2>3
  <2>5. QED BY <1>4, <2>4 DEF Shown
<1>5. u.attached => w[u.index] = [id |-> u.lane, status |-> u.at, generated |-> u.generated]
  <2>1. u.index \in 1 .. Len(ls) /\ ls[u.index].id = u.lane
    BY <1>3
  <2>2. QED BY <1>1, <2>1
<1>6. Shown((ss \ {s}) \cup {u}, w)
  BY <1>4, <1>5 DEF Shown
<1>7. QED BY <1>6 DEF w

LEMMA ShownStart ==
  ASSUME NEW ls \in Seq(Lane), NEW st \in Seq(1 .. MaxLaneId), InPlace(ls, st), Apart(ls),
         NEW ss \in SUBSET Stream, Ordered(ss, st), Shown(ss, ls),
         NEW k \in 1 .. Len(ls), k = Len(st) + 1, Len(ls) <= MAX_LANES,
         MAX_LANES \in Nat, MaxTokens \in Nat
  PROVE  Shown(ss \cup {Begun(ls, k)}, Written(ls, Begun(ls, k)))
<1> DEFINE b == Begun(ls, k)
           w == Written(ls, b)
<1>1. b \in Stream /\ b.lane = ls[k].id /\ b.index = k
  BY BegunIs
<1> HIDE DEF b
<1>2. \A j \in 1 .. Len(ls) :
        /\ (b.attached /\ ls[j].id = b.lane) =>
             w[j] = [id |-> b.lane, status |-> b.at, generated |-> b.generated]
        /\ ~(b.attached /\ ls[j].id = b.lane) => w[j] = ls[j]
  BY <1>1, WrittenIs
<1>3. Len(ls) \in Nat /\ Len(st) \in Nat /\ Len(st) <= Len(ls)
  BY DEF InPlace
<1> HIDE DEF w
<1>4. ASSUME NEW v \in ss, v.current, v.attached
      PROVE  w[v.index] = [id |-> v.lane, status |-> v.at, generated |-> v.generated]
  <2>1. v.index \in Nat /\ 1 <= v.index
    BY DEF Stream
  <2>2. v.index <= Len(st)
    BY <1>4 DEF Ordered
  <2>3. v.index \in 1 .. Len(ls) /\ v.index # k
    BY <1>3, <2>1, <2>2
  <2>4. ls[v.index].id # b.lane
    BY <1>1, <2>3 DEF Apart
  <2>5. w[v.index] = ls[v.index]
    BY <1>2, <2>3, <2>4
  <2>6. QED BY <1>4, <2>5 DEF Shown
<1>5. b.attached => w[b.index] = [id |-> b.lane, status |-> b.at, generated |-> b.generated]
  BY <1>1, <1>2
<1>6. Shown(ss \cup {b}, w)
  BY <1>4, <1>5 DEF Shown
<1>7. QED BY <1>6 DEF b, w

-----------------------------------------------------------------------------
(* The three things a stream's handler does: write, leave, start a lane.   *)

LEMMA WriteKeeps ==
  ASSUME NEW ls, NEW n \in Nat, NEW run, NEW ss, NEW st, Sound(ls, n, run, ss, st),
         NEW s \in ss, NEW u \in Stream, s.current, u.current, u.index = s.index,
         u.lane = s.lane, ~u.next => ~s.next, u.at = "prefilling" => ~u.next
  PROVE  Sound(Written(ls, u), n, run, (ss \ {s}) \cup {u}, st)
<1> DEFINE w == Written(ls, u)
           r == (ss \ {s}) \cup {u}
<1>1. /\ ls \in Seq(Lane) /\ Len(ls) \in 1 .. MAX_LANES /\ Apart(ls)
      /\ \A k \in 1 .. Len(ls) : ls[k].id < n
      /\ ss \in SUBSET Stream /\ st \in Seq(1 .. MaxLaneId) /\ Ordered(ss, st)
  BY DEF Sound
<1>2. w \in Seq(Lane) /\ Len(w) = Len(ls)
  BY <1>1, WrittenIs
<1>3. \A k \in 1 .. Len(ls) : w[k].id = ls[k].id
  BY <1>1, WrittenIs
<1>4. Apart(w)
  BY <1>1, WrittenIs
<1>5. Ordered(r, st)
  BY <1>1, OrderedReplace
<1>6. r \in SUBSET Stream
  BY <1>1
<1>7. ASSUME run PROVE InPlace(w, st) /\ Shown(r, w)
  <2>1. InPlace(ls, st) /\ Shown(ss, ls)
    BY <1>7 DEF Sound
  <2>2. s.index <= Len(st) /\ s.lane = st[s.index]
    BY <1>1 DEF Ordered
  <2>3. InPlace(w, st)
    BY <1>1, <2>1, <2>2, InPlaceWrite
  <2>4. Shown(r, w)
    BY <1>1, <2>1, ShownWrite
  <2>5. QED BY <2>3, <2>4
<1> HIDE DEF w, r
<1>8. Sound(w, n, run, r, st)
  BY <1>1, <1>2, <1>3, <1>4, <1>5, <1>6, <1>7 DEF Sound
<1>9. QED BY <1>8 DEF w, r

LEMMA LeaveKeeps ==
  ASSUME NEW ls, NEW n, NEW run, NEW ss, NEW st, Sound(ls, n, run, ss, st), NEW s
  PROVE  Sound(ls, n, run, ss \ {s}, st)
<1>1. Ordered(ss \ {s}, st)
  BY OrderedRemove DEF Sound
<1>2. Shown(ss, ls) => Shown(ss \ {s}, ls)
  BY DEF Shown
<1>3. QED BY <1>1, <1>2 DEF Sound

(* Lane k is started only by the stream of the lane before it.             *)
LEMMA RunLaneKeeps ==
  ASSUME PlayAssumption, NEW ls, NEW n \in Nat, NEW run, NEW ss, Sound(ls, n, run, ss, started),
         NEW k \in Nat \ {0}, RunLane(k, ss, ls),
         k <= Len(ls) => k = Len(started) + 1 /\ \A u \in ss : u.current => u.next
  PROVE  Sound(lanes', n, run, streams', started')
<1>1. CASE ~(k <= Len(ls))
  BY <1>1 DEF RunLane
<1>2. CASE k <= Len(ls)
  <2> DEFINE b == Begun(ls, k)
             w == Written(ls, b)
             r == Append(started, ls[k].id)
             t == ss \cup {b}
  <2>1. lanes' = w /\ streams' = t /\ started' = r
    BY <1>2 DEF RunLane
  <2>2. /\ ls \in Seq(Lane) /\ Len(ls) \in 1 .. MAX_LANES /\ Apart(ls)
        /\ \A j \in 1 .. Len(ls) : ls[j].id < n
        /\ ss \in SUBSET Stream /\ started \in Seq(1 .. MaxLaneId) /\ Ordered(ss, started)
    BY DEF Sound
  <2>3. MAX_LANES \in Nat /\ MaxTokens \in Nat
    BY DEF PlayAssumption
  <2>4. k \in 1 .. Len(ls) /\ Len(ls) <= MAX_LANES
    BY <1>2, <2>2, <2>3
  <2>5. b \in Stream /\ t \in SUBSET Stream
    BY <2>2, <2>3, <2>4, BegunIs
  <2>6. w \in Seq(Lane) /\ Len(w) = Len(ls)
    BY <2>2, <2>5, WrittenIs
  <2>7. \A j \in 1 .. Len(ls) : w[j].id = ls[j].id
    BY <2>2, <2>5, WrittenIs
  <2>8. Apart(w)
    BY <2>2, <2>5, WrittenIs
  <2>9. ls[k].id \in 1 .. MaxLaneId
    BY <2>2, <2>4, LaneIs
  <2>10. r \in Seq(1 .. MaxLaneId)
    BY <2>2, <2>9
  <2>11. Ordered(t, r)
    BY <1>2, <2>2, <2>3, <2>4, OrderedStart
  <2>12. ASSUME run PROVE InPlace(w, r) /\ Shown(t, w)
    <3>1. InPlace(ls, started) /\ Shown(ss, ls)
      BY <2>12 DEF Sound
    <3>2. InPlace(w, r)
      BY <1>2, <2>2, <2>3, <2>4, <3>1, InPlaceStart
    <3>3. Shown(t, w)
      BY <1>2, <2>2, <2>3, <2>4, <3>1, ShownStart
    <3>4. QED BY <3>2, <3>3
  <2> HIDE DEF b, w, r, t
  <2>13. Sound(w, n, run, t, r)
    BY <2>2, <2>5, <2>6, <2>7, <2>8, <2>10, <2>11, <2>12 DEF Sound
  <2>14. QED BY <2>1, <2>13
<1>3. QED BY <1>1, <1>2

-----------------------------------------------------------------------------
(* The controls.                                                           *)

LEMMA AddLaneKeeps ==
  ASSUME PlayAssumption, PlayInv, AddLane
  PROVE  PlayInv'
<1> DEFINE x == makeLane(nextLaneId)
           r == Append(lanes, x)
<1>1. /\ lanes \in Seq(Lane) /\ Len(lanes) \in 1 .. MAX_LANES /\ Apart(lanes)
      /\ \A k \in 1 .. Len(lanes) : lanes[k].id < nextLaneId
      /\ nextLaneId \in Nat /\ Len(lanes) \in Nat
  BY DEF PlayInv, Sound
<1>2. lanes' = r /\ nextLaneId' = nextLaneId + 1 /\ ~running' /\ Len(lanes) < MAX_LANES
  BY DEF AddLane
<1>3. nextLaneId \in 1 .. MaxLaneId
  <2>1. nextLaneId <= MaxLaneId /\ lanes[1].id < nextLaneId /\ lanes[1] \in Lane
    BY <1>1 DEF AddLane
  <2>2. lanes[1].id \in 1 .. MaxLaneId
    BY <2>1, LaneIs
  <2>3. QED BY <1>1, <2>1, <2>2 DEF PlayAssumption
<1>4. x \in Lane /\ x.id = nextLaneId
  BY <1>3 DEF makeLane, Lane, PlayAssumption
<1> HIDE DEF x
<1>5. r \in Seq(Lane) /\ Len(r) = Len(lanes) + 1
  BY <1>1, <1>4
<1>6. \A k \in 1 .. Len(lanes) : r[k] = lanes[k]
  BY <1>1, <1>4
<1>7. r[Len(lanes) + 1] = x
  BY <1>1, <1>4
<1> HIDE DEF r
<1>8. ASSUME NEW k \in 1 .. Len(r)
      PROVE  \/ k \in 1 .. Len(lanes) /\ r[k].id = lanes[k].id /\ r[k].id < nextLaneId
             \/ k = Len(lanes) + 1 /\ r[k].id = nextLaneId
  BY <1>1, <1>4, <1>5, <1>6, <1>7
<1>9. Apart(r)
  <2>1. \A k \in 1 .. Len(r) : r[k].id \in Nat
    <3>1. \A k \in 1 .. Len(r) : r[k] \in Lane
      BY <1>5
    <3>2. QED BY <3>1, LaneIs
  <2>2. ASSUME NEW j \in 1 .. Len(r), NEW k \in 1 .. Len(r), r[j].id = r[k].id
        PROVE  j = k
    <3>1. CASE j \in 1 .. Len(lanes) /\ k \in 1 .. Len(lanes)
      BY <1>1, <1>6, <2>2, <3>1 DEF Apart
    <3>2. CASE ~(j \in 1 .. Len(lanes) /\ k \in 1 .. Len(lanes))
      BY <1>1, <1>8, <2>1, <2>2, <3>2
    <3>3. QED BY <3>1, <3>2
  <2>3. QED BY <2>2 DEF Apart
<1>10. \A k \in 1 .. Len(r) : r[k].id < nextLaneId + 1
  <2>1. \A k \in 1 .. Len(r) : r[k] \in Lane
    BY <1>5
  <2>2. \A k \in 1 .. Len(r) : r[k].id \in Nat
    BY <2>1, LaneIs
  <2>3. QED BY <1>1, <1>8, <2>2
<1>11. Len(r) \in 1 .. MAX_LANES
  BY <1>1, <1>2, <1>5 DEF PlayAssumption
<1>12. /\ streams' = streams /\ started' = started /\ running' = running
       /\ streams \in SUBSET Stream /\ started \in Seq(1 .. MaxLaneId)
       /\ Ordered(streams, started) /\ running \in BOOLEAN
  BY DEF AddLane, PlayInv, Sound
<1>13. QED BY <1>1, <1>2, <1>5, <1>9, <1>10, <1>11, <1>12 DEF PlayInv, Sound

(* Each lane that is left was in its place or the next one.                *)
LEMMA WithoutIs ==
  ASSUME NEW S, NEW q \in Seq(S), NEW k \in 1 .. Len(q)
  PROVE  LET r == SubSeq(q, 1, k - 1) \o SubSeq(q, k + 1, Len(q))
         IN  /\ r \in Seq(S) /\ Len(r) = Len(q) - 1
             /\ \A i \in 1 .. Len(r) : r[i] = q[IF i < k THEN i ELSE i + 1]
<1> DEFINE a == SubSeq(q, 1, k - 1)
           b == SubSeq(q, k + 1, Len(q))
           r == a \o b
<1>1. Len(q) \in Nat /\ k \in Nat /\ 1 <= k /\ k <= Len(q)
  OBVIOUS
<1>2. \A i \in 1 .. k - 1 : q[i] \in S
  BY <1>1
<1>3. \A i \in k + 1 .. Len(q) : q[i] \in S
  BY <1>1
<1>4. a \in Seq(S) /\ Len(a) = k - 1 /\ \A i \in 1 .. k - 1 : a[i] = q[i]
  <2>1. a \in Seq(S)
    BY <1>1, SubSeqProperties
  <2>2. Len(a) = k - 1
    BY <1>1
  <2>3. \A i \in 1 .. k - 1 : a[i] = q[i]
    BY <1>1
  <2>4. QED BY <2>1, <2>2, <2>3
<1>5. b \in Seq(S) /\ Len(b) = Len(q) - k /\ \A i \in 1 .. Len(q) - k : b[i] = q[k + i]
  <2>1. b \in Seq(S)
    BY <1>1, SubSeqProperties
  <2>2. Len(b) = Len(q) - k
    BY <1>1
  <2>3. \A i \in 1 .. Len(q) - (k + 1) + 1 : b[i] = q[(k + 1) + i - 1]
    BY <1>1, <1>3, SubSeqProperties
  <2>4. \A i \in 1 .. Len(q) - k : (k + 1) + i - 1 = k + i
    BY <1>1
  <2>5. Len(q) - (k + 1) + 1 = Len(q) - k
    BY <1>1
  <2> HIDE DEF b
  <2>6. \A i \in 1 .. Len(q) - k : b[i] = q[k + i]
    BY <2>3, <2>4, <2>5
  <2>7. QED BY <2>1, <2>2, <2>6
<1> HIDE DEF a, b
<1>6. r \in Seq(S) /\ Len(r) = Len(q) - 1
  <2>1. r \in Seq(S) /\ Len(r) = Len(a) + Len(b)
    BY <1>4, <1>5, ConcatProperties
  <2>2. Len(a) + Len(b) = Len(q) - 1
    BY <1>1, <1>4, <1>5
  <2>3. QED BY <2>1, <2>2
<1>7. ASSUME NEW i \in 1 .. Len(r) PROVE r[i] = q[IF i < k THEN i ELSE i + 1]
  <2>1. CASE i < k
    <3>1. i \in 1 .. Len(a)
      BY <1>1, <1>4, <2>1
    <3>2. r[i] = a[i]
      BY <1>4, <1>5, <3>1, ConcatProperties
    <3>3. QED BY <1>1, <1>4, <2>1, <3>1, <3>2
  <2>2. CASE ~(i < k)
    <3>1. i - Len(a) \in 1 .. Len(b) /\ i > Len(a) /\ i \in Nat
      BY <1>1, <1>4, <1>5, <1>6, <2>2
    <3>2. r[i] = b[i - Len(a)]
      BY <1>4, <1>5, <1>6, <3>1, ConcatProperties
    <3>3. k + (i - Len(a)) = i + 1
      BY <1>1, <1>4, <3>1
    <3>4. QED BY <1>1, <1>4, <1>5, <2>2, <3>1, <3>2, <3>3
  <2>3. QED BY <2>1, <2>2
<1>8. QED BY <1>6, <1>7 DEF a, b

LEMMA RemoveLaneKeeps ==
  ASSUME PlayAssumption, PlayInv, NEW k \in DOMAIN lanes, RemoveLane(k)
  PROVE  PlayInv'
<1> DEFINE r == SubSeq(lanes, 1, k - 1) \o SubSeq(lanes, k + 1, Len(lanes))
           at(i) == IF i < k THEN i ELSE i + 1
<1>1. /\ lanes \in Seq(Lane) /\ Len(lanes) \in 1 .. MAX_LANES /\ Apart(lanes)
      /\ \A i \in 1 .. Len(lanes) : lanes[i].id < nextLaneId
      /\ nextLaneId \in Nat /\ Len(lanes) \in Nat /\ k \in 1 .. Len(lanes)
  BY DEF PlayInv, Sound
<1>2. lanes' = r /\ nextLaneId' = nextLaneId /\ ~running' /\ Len(lanes) > 1
  BY DEF RemoveLane
<1>3. /\ r \in Seq(Lane) /\ Len(r) = Len(lanes) - 1
      /\ \A i \in 1 .. Len(r) : r[i] = lanes[at(i)]
  BY <1>1, WithoutIs
<1> HIDE DEF r
<1>4. \A i \in 1 .. Len(r) : at(i) \in 1 .. Len(lanes)
  BY <1>1, <1>3
<1>5. \A i, j \in 1 .. Len(r) : at(i) = at(j) => i = j
  BY <1>1, <1>3
<1> HIDE DEF at
<1>6. Apart(r)
  BY <1>1, <1>3, <1>4, <1>5 DEF Apart
<1>7. \A i \in 1 .. Len(r) : r[i].id < nextLaneId
  BY <1>1, <1>3, <1>4
<1>8. Len(r) \in 1 .. MAX_LANES
  BY <1>1, <1>2, <1>3 DEF PlayAssumption
<1>9. /\ streams' = streams /\ started' = started /\ running' = running
      /\ streams \in SUBSET Stream /\ started \in Seq(1 .. MaxLaneId)
      /\ Ordered(streams, started) /\ running \in BOOLEAN
  BY DEF RemoveLane, PlayInv, Sound
<1>10. QED BY <1>1, <1>2, <1>3, <1>6, <1>7, <1>8, <1>9 DEF PlayInv, Sound

(* A copy in a lane's place detaches the lane's streams, and no more.      *)
LEMMA UpdateLaneKeeps ==
  ASSUME PlayAssumption, PlayInv, NEW k \in DOMAIN lanes, UpdateLane(k)
  PROVE  PlayInv'
<1> DEFINE d(s) == IF s.lane = lanes[k].id THEN [s EXCEPT !.attached = FALSE] ELSE s
           r == {d(s) : s \in streams}
<1>1. /\ streams \in SUBSET Stream /\ Ordered(streams, started)
      /\ running => InPlace(lanes, started) /\ Shown(streams, lanes)
  BY DEF PlayInv, Sound
<1>2. streams' = r
  BY DEF UpdateLane
<1>3. ASSUME NEW s \in streams
      PROVE  /\ d(s) \in Stream /\ d(s).index = s.index /\ d(s).lane = s.lane
             /\ d(s).at = s.at /\ d(s).generated = s.generated
             /\ (d(s).current <=> s.current) /\ (d(s).next <=> s.next)
             /\ d(s).attached => d(s) = s
  <2>1. s \in Stream
    BY <1>1
  <2>2. CASE s.lane = lanes[k].id
    <3> DEFINE x == [s EXCEPT !.attached = FALSE]
    <3>1. d(s) = x
      BY <2>2
    <3>2. x \in Stream
      BY <2>1 DEF Stream
    <3>3. /\ x.index = s.index /\ x.lane = s.lane /\ x.at = s.at
          /\ x.generated = s.generated /\ x.current = s.current /\ x.next = s.next
          /\ x.attached = FALSE
      BY <2>1 DEF Stream
    <3> HIDE DEF x, d
    <3>4. QED BY <3>1, <3>2, <3>3
  <2>3. CASE s.lane # lanes[k].id
    <3>1. d(s) = s
      BY <2>3
    <3> HIDE DEF d
    <3>2. QED BY <2>1, <3>1
  <2>4. QED BY <2>2, <2>3
<1> HIDE DEF d
<1>4. r \in SUBSET Stream
  BY <1>3
<1>5. ASSUME NEW u \in r, u.current
      PROVE  /\ u.index <= Len(started) /\ u.lane = started[u.index]
             /\ ~u.next => u.index = Len(started)
             /\ u.at = "prefilling" => ~u.next
  <2>1. PICK s \in streams : u = d(s)
    OBVIOUS
  <2>2. s.current
    BY <1>3, <1>5, <2>1
  <2>3. /\ s.index <= Len(started) /\ s.lane = started[s.index]
        /\ ~s.next => s.index = Len(started)
        /\ s.at = "prefilling" => ~s.next
    BY <1>1, <2>2 DEF Ordered
  <2>4. QED BY <1>3, <2>1, <2>3
<1>6. ASSUME NEW u \in r, NEW v \in r, u.current, v.current, u.index = v.index
      PROVE  u = v
  <2>1. PICK s \in streams, t \in streams : u = d(s) /\ v = d(t)
    OBVIOUS
  <2>2. s.current /\ t.current /\ s.index = t.index
    BY <1>3, <1>6, <2>1
  <2>3. s = t
    BY <1>1, <2>2 DEF Ordered
  <2>4. QED BY <2>1, <2>3
<1>7. Ordered(r, started)
  BY <1>5, <1>6 DEF Ordered
<1>8. ASSUME running PROVE Shown(r, lanes)
  <2>1. ASSUME NEW u \in r, u.current, u.attached
        PROVE  lanes[u.index] = [id |-> u.lane, status |-> u.at, generated |-> u.generated]
    <3>1. PICK s \in streams : u = d(s)
      OBVIOUS
    <3>2. u = s
      BY <1>3, <2>1, <3>1
    <3>3. QED BY <1>1, <1>8, <2>1, <3>2 DEF Shown
  <2>2. QED BY <2>1 DEF Shown
<1> HIDE DEF r
<1>9. /\ lanes' = lanes /\ nextLaneId' = nextLaneId /\ running' = running
      /\ started' = started
  BY DEF UpdateLane
<1>10. Sound(lanes, nextLaneId, running, r, started)
  BY <1>1, <1>4, <1>7, <1>8 DEF PlayInv, Sound
<1>11. QED BY <1>2, <1>9, <1>10 DEF PlayInv

LEMMA RunAllKeeps ==
  ASSUME PlayAssumption, PlayInv, RunAll
  PROVE  PlayInv'
<1> DEFINE f(k) == [lanes[k] EXCEPT !.status = IF k = 1 THEN "prefilling" ELSE "queued",
                                    !.generated = 0]
           ls == [k \in DOMAIN lanes |-> f(k)]
           old(s) == [s EXCEPT !.current = FALSE, !.attached = FALSE]
           olds == {old(s) : s \in streams}
           b == Begun(ls, 1)
           st == <<ls[1].id>>
<1>1. /\ lanes \in Seq(Lane) /\ Len(lanes) \in 1 .. MAX_LANES /\ Apart(lanes)
      /\ \A k \in 1 .. Len(lanes) : lanes[k].id < nextLaneId
      /\ nextLaneId \in Nat /\ streams \in SUBSET Stream
  BY DEF PlayInv, Sound
<1>2. /\ lanes' = ls /\ streams' = olds \cup {b} /\ started' = st /\ running' = TRUE
      /\ nextLaneId' = nextLaneId
  BY DEF RunAll
<1>3. MAX_LANES \in Nat /\ MaxTokens \in Nat
  BY DEF PlayAssumption
<1>4. ASSUME NEW k \in 1 .. Len(lanes)
      PROVE  /\ f(k) \in Lane /\ f(k).id = lanes[k].id
             /\ k > 1 => f(k).status = "queued"
             /\ k = 1 => f(k) = [id |-> lanes[k].id, status |-> "prefilling", generated |-> 0]
  <2> DEFINE x == lanes[k]
             a == IF k = 1 THEN "prefilling" ELSE "queued"
  <2>1. x \in Lane
    BY <1>1
  <2>2. a \in {"queued", "prefilling"} /\ (k > 1 => a = "queued") /\ (k = 1 => a = "prefilling")
    OBVIOUS
  <2>3. f(k) = [x EXCEPT !.status = a, !.generated = 0]
    OBVIOUS
  <2> HIDE DEF x, a, f
  <2>4. f(k) = [id |-> x.id, status |-> a, generated |-> 0]
    BY <2>1, <2>3 DEF Lane
  <2>5. 0 \in 0 .. MaxTokens /\ x.id \in 1 .. MaxLaneId
    BY <1>3, <2>1, LaneIs
  <2>6. f(k) \in Lane /\ f(k).id = x.id /\ f(k).status = a
    BY <2>2, <2>4, <2>5 DEF Lane
  <2>7. QED BY <2>2, <2>4, <2>6 DEF x
<1> HIDE DEF f
<1>5. ls \in Seq(Lane) /\ Len(ls) = Len(lanes)
  <2>1. ls \in [1 .. Len(lanes) -> Lane]
    BY <1>1, <1>4
  <2>2. QED BY <1>1, <2>1
<1>6. \A k \in 1 .. Len(lanes) : ls[k] = f(k)
  BY <1>1
<1> HIDE DEF ls
<1>7. \A k \in 1 .. Len(lanes) : ls[k].id = lanes[k].id
  BY <1>4, <1>6
<1>8. Apart(ls) /\ \A k \in 1 .. Len(ls) : ls[k].id < nextLaneId
  BY <1>1, <1>5, <1>7 DEF Apart
<1>9. 1 \in 1 .. Len(ls) /\ Len(ls) <= MAX_LANES
  BY <1>1, <1>3, <1>5
<1>10. b \in Stream
  BY <1>3, <1>5, <1>9, BegunIs
<1>11. /\ b.current /\ b.index = 1 /\ b.lane = ls[1].id /\ b.at = "prefilling" /\ ~b.next
       /\ b.generated = 0
  BY <1>3, <1>5, <1>9, BegunIs
<1> HIDE DEF b
<1>12. \A s \in streams : old(s) \in Stream /\ ~old(s).current
  BY <1>1 DEF Stream
<1> HIDE DEF old
<1>13. \A s \in olds \cup {b} : s \in Stream /\ (s.current => s = b)
  BY <1>10, <1>12
<1> HIDE DEF olds
<1>14. ls[1].id \in 1 .. MaxLaneId
  BY <1>5, <1>9, LaneIs
<1>15. st \in Seq(1 .. MaxLaneId) /\ Len(st) = 1 /\ st[1] = ls[1].id
  BY <1>14
<1> HIDE DEF st
<1>16. Ordered(olds \cup {b}, st)
  BY <1>11, <1>13, <1>15 DEF Ordered
<1>17. InPlace(ls, st)
  <2>1. \A k \in 1 .. Len(ls) : k > 1 => ls[k].status = "queued"
    BY <1>4, <1>5, <1>6
  <2>2. Len(st) <= Len(ls) /\ \A k \in 1 .. Len(st) : st[k] = ls[k].id
    BY <1>9, <1>15
  <2>3. QED BY <1>15, <2>1, <2>2 DEF InPlace
<1>18. Shown(olds \cup {b}, ls)
  <2>1. ls[1] = [id |-> b.lane, status |-> b.at, generated |-> b.generated]
    BY <1>4, <1>5, <1>6, <1>7, <1>9, <1>11
  <2>2. QED BY <1>11, <1>13, <2>1 DEF Shown
<1>19. Sound(ls, nextLaneId, TRUE, olds \cup {b}, st)
  BY <1>1, <1>5, <1>8, <1>13, <1>15, <1>16, <1>17, <1>18 DEF Sound
<1>20. QED BY <1>1, <1>2, <1>19 DEF PlayInv

LEMMA StopAllKeeps ==
  ASSUME PlayAssumption, PlayInv, StopAll
  PROVE  PlayInv'
<1>1. /\ streams' = {} /\ started' = <<>> /\ running' = FALSE
      /\ lanes' = lanes /\ nextLaneId' = nextLaneId
  BY DEF StopAll
<1>2. Ordered({}, <<>>)
  BY DEF Ordered
<1>3. <<>> \in Seq(1 .. MaxLaneId)
  OBVIOUS
<1>4. Sound(lanes, nextLaneId, FALSE, {}, <<>>)
  BY <1>2, <1>3 DEF PlayInv, Sound
<1>5. QED BY <1>1, <1>4 DEF PlayInv

-----------------------------------------------------------------------------
(* The streams.                                                            *)

LEMMA OrderIs ==
  ASSUME PlayInv, NEW s \in streams, s.current
  PROVE  /\ s \in Stream /\ s.index \in Nat \ {0} /\ started \in Seq(1 .. MaxLaneId)
         /\ s.at = "prefilling" => ~s.next
         /\ ~s.next => s.index = Len(started)
<1>1. streams \in SUBSET Stream /\ Ordered(streams, started) /\ started \in Seq(1 .. MaxLaneId)
  BY DEF PlayInv, Sound
<1>2. s \in Stream
  BY <1>1
<1>3. s.index \in Nat \ {0}
  BY <1>2 DEF Stream
<1>4. QED BY <1>1, <1>2, <1>3 DEF Ordered

(* A handler that only writes into its lane.                               *)
LEMMA AdvanceKeeps ==
  ASSUME PlayAssumption, PlayInv, NEW s \in streams, s.current, NEW t \in Stream,
         t.current, t.index = s.index, t.lane = s.lane, t.next <=> s.next,
         t.at = "prefilling" => s.at = "prefilling",
         Advance(s, t), UNCHANGED <<nextLaneId, running>>
  PROVE  PlayInv'
<1> DEFINE w == Written(lanes, t)
           r == (streams \ {s}) \cup {t}
           k == Len(lanes) + 1
<1>1. Sound(lanes, nextLaneId, running, streams, started) /\ nextLaneId \in Nat
  BY DEF PlayInv
<1>2. t.at = "prefilling" => ~t.next
  BY OrderIs
<1>3. Sound(w, nextLaneId, running, r, started)
  BY <1>1, <1>2, WriteKeeps
<1>4. lanes \in Seq(Lane)
  BY <1>1 DEF Sound
<1>5. Len(w) = Len(lanes)
  BY <1>4, WrittenIs
<1>6. Len(lanes) \in Nat
  BY <1>4
<1>7. RunLane(k, r, w)
  BY DEF Advance
<1> HIDE DEF w, r
<1>8. k \in Nat \ {0} /\ ~(k <= Len(w))
  BY <1>5, <1>6
<1> HIDE DEF k
<1>9. Sound(lanes', nextLaneId, running, streams', started')
  BY <1>1, <1>3, <1>7, <1>8, RunLaneKeeps
<1>10. QED BY <1>1, <1>9 DEF PlayInv

LEMMA FirstTokenKeeps ==
  ASSUME PlayAssumption, PlayInv, NEW s \in streams, FirstToken(s)
  PROVE  PlayInv'
<1> DEFINE t == [s EXCEPT !.at = "decoding", !.next = TRUE]
           w == Written(lanes, t)
           r == (streams \ {s}) \cup {t}
           k == s.index + 1
<1>1. Sound(lanes, nextLaneId, running, streams, started) /\ nextLaneId \in Nat
  BY DEF PlayInv
<1>2. /\ s.current /\ s.at = "prefilling" /\ RunLane(k, r, w)
      /\ nextLaneId' = nextLaneId /\ running' = running
  BY DEF FirstToken, Current
<1>3. /\ s \in Stream /\ s.index \in Nat \ {0} /\ started \in Seq(1 .. MaxLaneId)
      /\ ~s.next /\ s.index = Len(started)
  BY <1>2, OrderIs
<1>4. t \in Stream
  BY <1>3 DEF Stream
<1>5. t.current /\ t.index = s.index /\ t.lane = s.lane /\ t.next /\ t.at = "decoding"
  BY <1>2, <1>3 DEF Stream
<1> HIDE DEF t
<1>6. Sound(w, nextLaneId, running, r, started)
  BY <1>1, <1>2, <1>3, <1>4, <1>5, WriteKeeps
<1>7. ASSUME NEW u \in r, u.current PROVE u.next
  <2>1. CASE u = t
    BY <1>5, <2>1
  <2>2. CASE u \in streams /\ u # s
    <3>1. Ordered(streams, started) /\ u \in Stream
      BY <1>1, <2>2 DEF Sound
    <3>2. ~ ~u.next
      BY <1>2, <1>3, <1>7, <2>2, <3>1, OthersHandedOn
    <3>3. QED BY <3>2
  <2>3. QED BY <2>1, <2>2
<1>8. k \in Nat \ {0} /\ k = Len(started) + 1
  BY <1>3
<1> HIDE DEF w, r, k
<1>9. Sound(lanes', nextLaneId, running, streams', started')
  BY <1>1, <1>2, <1>6, <1>7, <1>8, RunLaneKeeps
<1>10. QED BY <1>1, <1>2, <1>9 DEF PlayInv

LEMMA TokenKeeps ==
  ASSUME PlayAssumption, PlayInv, NEW s \in streams, Token(s)
  PROVE  PlayInv'
<1> DEFINE t == [s EXCEPT !.generated = @ + 1]
<1>1. /\ s.current /\ s.at = "decoding" /\ s.generated < MaxTokens /\ Advance(s, t)
      /\ UNCHANGED <<nextLaneId, running>>
  BY DEF Token, Current
<1>2. s \in Stream
  BY DEF PlayInv, Sound
<1>3. s.generated + 1 \in 0 .. MaxTokens
  BY <1>1, <1>2 DEF Stream, PlayAssumption
<1>4. t \in Stream
  BY <1>2, <1>3 DEF Stream
<1>5. /\ t.current = s.current /\ t.index = s.index /\ t.lane = s.lane /\ t.next = s.next
      /\ t.at = s.at
  BY <1>2 DEF Stream
<1> HIDE DEF t
<1>6. QED BY <1>1, <1>4, <1>5, AdvanceKeeps

LEMMA StreamDone ==
  ASSUME NEW s \in Stream
  PROVE  LET t == [s EXCEPT !.at = "done"]
         IN  /\ t \in Stream /\ t.at = "done" /\ t.index = s.index /\ t.lane = s.lane
             /\ t.current = s.current /\ t.next = s.next
BY DEF Stream

LEMMA DoneKeeps ==
  ASSUME PlayAssumption, PlayInv, NEW s \in streams, Done(s) \/ ErrorEvent(s)
  PROVE  PlayInv'
<1> DEFINE t == [s EXCEPT !.at = "done"]
<1>1. s.current /\ Advance(s, t) /\ UNCHANGED <<nextLaneId, running>>
  BY DEF Done, ErrorEvent, Current
<1>2. s \in Stream
  BY DEF PlayInv, Sound
<1>3. /\ t \in Stream /\ t.at = "done" /\ t.index = s.index /\ t.lane = s.lane
      /\ t.current = s.current /\ t.next = s.next
  BY <1>2, StreamDone
<1> HIDE DEF t
<1>4. QED BY <1>1, <1>3, AdvanceKeeps

LEMMA FinallyKeeps ==
  ASSUME PlayAssumption, PlayInv, NEW s \in streams, s.current, Finally(s),
         UNCHANGED nextLaneId
  PROVE  PlayInv'
<1> DEFINE r == streams \ {s}
           k == IF s.next THEN Len(lanes) + 1 ELSE s.index + 1
<1>1. Sound(lanes, nextLaneId, running, streams, started) /\ nextLaneId \in Nat
  BY DEF PlayInv
<1>2. Sound(lanes, nextLaneId, running, r, started)
  BY <1>1, LeaveKeeps
<1>3. RunLane(k, r, lanes)
  BY DEF Finally
<1>4. Len(lanes) \in Nat /\ s.index \in Nat \ {0} /\ (~s.next => s.index = Len(started))
  BY <1>1, OrderIs DEF Sound
<1>5. k \in Nat \ {0}
  BY <1>4
<1>6. ASSUME k <= Len(lanes)
      PROVE  k = Len(started) + 1 /\ \A u \in r : u.current => u.next
  <2>1. ~s.next /\ k = Len(started) + 1
    BY <1>4, <1>6
  <2>2. ASSUME NEW u \in r, u.current PROVE u.next
    <3>1. Ordered(streams, started) /\ u \in Stream
      BY <1>1 DEF Sound
    <3>2. ~ ~u.next
      BY <2>1, <2>2, <3>1, OthersHandedOn
    <3>3. QED BY <3>2
  <2>3. QED BY <2>1, <2>2
<1> HIDE DEF r, k
<1>7. Sound(lanes', nextLaneId, running, streams', started')
  BY <1>1, <1>2, <1>3, <1>5, <1>6, RunLaneKeeps
<1>8. running' \in BOOLEAN /\ (running' => running)
  BY DEF Finally
<1>9. Sound(lanes', nextLaneId, running', streams', started')
  BY <1>7, <1>8 DEF Sound
<1>10. QED BY <1>1, <1>8, <1>9 DEF PlayInv

LEMMA StaleKeeps ==
  ASSUME PlayAssumption, PlayInv, NEW s \in streams, Stale(s)
  PROVE  PlayInv'
<1>1. Sound(lanes, nextLaneId, running, streams \ {s}, started)
  BY LeaveKeeps DEF PlayInv
<1>2. QED BY <1>1 DEF Stale, PlayInv

LEMMA PlayStep ==
  ASSUME PlayAssumption, PlayInv, [PlayNext]_playVars
  PROVE  PlayInv'
<1>1. CASE AddLane
  BY <1>1, AddLaneKeeps
<1>2. CASE RunAll
  BY <1>2, RunAllKeeps
<1>3. CASE StopAll
  BY <1>3, StopAllKeeps
<1>4. CASE \E k \in DOMAIN lanes : RemoveLane(k) \/ UpdateLane(k)
  BY <1>4, RemoveLaneKeeps, UpdateLaneKeeps
<1>5. ASSUME NEW s \in streams, StreamStep(s) \/ Breaks(s) \/ Stale(s)
      PROVE  PlayInv'
  <2>1. CASE FirstToken(s)
    BY <2>1, FirstTokenKeeps
  <2>2. CASE Token(s)
    BY <2>2, TokenKeeps
  <2>3. CASE Done(s) \/ ErrorEvent(s)
    BY <2>3, DoneKeeps
  <2>4. CASE Ends(s) \/ Breaks(s)
    <3>1. s.current /\ Finally(s) /\ UNCHANGED nextLaneId
      BY <2>4 DEF Ends, Breaks, Current
    <3>2. QED BY <3>1, FinallyKeeps
  <2>5. CASE Stale(s)
    BY <2>5, StaleKeeps
  <2>6. QED BY <1>5, <2>1, <2>2, <2>3, <2>4, <2>5 DEF StreamStep
<1>6. CASE UNCHANGED playVars
  BY <1>6 DEF playVars, PlayInv
<1>7. QED BY <1>1, <1>2, <1>3, <1>4, <1>5, <1>6 DEF PlayNext

LEMMA PlayInitial ==
  ASSUME PlayAssumption, PlayInit
  PROVE  PlayInv
<1> DEFINE a == makeLane(1)
           b == makeLane(2)
           ls == <<a, b>>
<1>1. a \in Lane /\ b \in Lane /\ a.id = 1 /\ b.id = 2
  BY DEF makeLane, Lane, PlayAssumption
<1>2. /\ lanes = ls /\ nextLaneId = 3 /\ running = FALSE /\ streams = {} /\ started = <<>>
  BY DEF PlayInit
<1> HIDE DEF a, b
<1>3. ls \in Seq(Lane) /\ Len(ls) = 2 /\ ls[1] = a /\ ls[2] = b
  BY <1>1
<1> HIDE DEF ls
<1>4. \A k \in 1 .. Len(ls) : (k = 1 \/ k = 2) /\ ls[k].id = k
  BY <1>1, <1>3
<1>5. Apart(ls) /\ \A k \in 1 .. Len(ls) : ls[k].id < 3
  BY <1>3, <1>4 DEF Apart
<1>6. Len(ls) \in 1 .. MAX_LANES
  BY <1>3 DEF PlayAssumption
<1>7. <<>> \in Seq(1 .. MaxLaneId) /\ Ordered({}, <<>>)
  BY DEF Ordered
<1>8. Sound(ls, 3, FALSE, {}, <<>>)
  BY <1>3, <1>5, <1>6, <1>7 DEF Sound
<1>9. QED BY <1>2, <1>8 DEF PlayInv

(* What the other proofs start from: in every state of a run of the        *)
(* playground the streams are in order and write where they belong.        *)
THEOREM PlayIsSound == PlaySpec => []PlayInv
<1>1. PlayInit => PlayInv
  BY PlayAssumption, PlayInitial
<1>2. PlayInv /\ [PlayNext]_playVars => PlayInv'
  BY PlayAssumption, PlayStep
<1>3. QED BY <1>1, <1>2, PTL DEF PlaySpec

-----------------------------------------------------------------------------
(* Lanes prefill one at a time and in their order, and none is streamed    *)
(* twice, for any number of lanes, edits and broken streams                *)
(* (MultiRequestPlayground.tsx:86-93, 157-177).                            *)
THEOREM LanesPrefillInTurn == PlaySpec => []PrefillsQueue
<1>1. ASSUME PlayInv PROVE PrefillsQueue
  <2> DEFINE q == {s \in streams : Current(s) /\ s.at = "prefilling"}
  <2>1. Ordered(streams, started) /\ (running => InPlace(lanes, started))
    BY <1>1 DEF PlayInv, Sound
  <2>2. ASSUME NEW s \in q, NEW u \in q PROVE s = u
    <3>1. s.current /\ u.current /\ s.at = "prefilling" /\ u.at = "prefilling"
      BY DEF Current
    <3>2. s.index = Len(started) /\ u.index = Len(started)
      BY <2>1, <3>1 DEF Ordered
    <3>3. QED BY <2>1, <3>1, <3>2 DEF Ordered
  <2> HIDE DEF q
  <2>3. Cardinality(q) <= 1
    <3>1. CASE q = {}
      BY <3>1, FS_EmptySet
    <3>2. CASE q # {}
      <4>1. PICK s \in q : TRUE
        BY <3>2
      <4>2. q = {s}
        BY <2>2, <4>1
      <4>3. QED BY <4>2, FS_Singleton
    <3>3. QED BY <3>1, <3>2
  <2>4. DOMAIN started = 1 .. Len(started)
    BY <1>1 DEF PlayInv, Sound
  <2>5. QED BY <2>1, <2>3, <2>4 DEF PrefillsQueue, InPlace, q
<1>2. QED BY <1>1, PlayIsSound, PTL

(* During a run a lane shows what its own stream of this run got, whatever *)
(* the streams of the runs before still deliver, unless the lane was       *)
(* edited meanwhile (MultiRequestPlayground.tsx:129-172).                  *)
THEOREM LanesShowTheirStream == PlaySpec => []ShownIsStreamed
<1>1. ASSUME PlayInv PROVE ShownIsStreamed
  BY <1>1 DEF PlayInv, Sound, Shown, ShownIsStreamed, Current
<1>2. QED BY <1>1, PlayIsSound, PTL

(* A stream that ends the run has started no lane, as one that was just    *)
(* started is not done; and the lanes that were not started are not done.  *)
LEMMA LastFinally ==
  ASSUME PlayAssumption, PlayInv, running, NEW s \in streams, Finally(s), ~running'
  PROVE  /\ Len(started) = Len(lanes)
         /\ \A k \in DOMAIN lanes : lanes[k].status = "done"
<1> DEFINE i == IF s.next THEN Len(lanes) + 1 ELSE s.index + 1
<1>1. /\ lanes \in Seq(Lane) /\ Len(lanes) \in 1 .. MAX_LANES /\ InPlace(lanes, started)
      /\ streams \in SUBSET Stream /\ started \in Seq(1 .. MaxLaneId)
  BY DEF PlayInv, Sound
<1>2. Len(lanes) \in Nat /\ Len(started) \in Nat /\ DOMAIN lanes = 1 .. Len(lanes)
  BY <1>1
<1>3. i \in Nat \ {0}
  <2>1. s.index \in 1 .. MAX_LANES
    BY <1>1 DEF Stream
  <2>2. QED BY <1>2, <2>1 DEF PlayAssumption
<1>4. RunLane(i, streams \ {s}, lanes)
  BY DEF Finally
<1>5. \A k \in DOMAIN lanes' : lanes'[k].status = "done"
  BY DEF Finally
<1> HIDE DEF i
<1>6. ~(i <= Len(lanes))
  <2> SUFFICES ASSUME i <= Len(lanes) PROVE FALSE
    OBVIOUS
  <2> DEFINE b == Begun(lanes, i)
             w == Written(lanes, b)
  <2>1. i \in 1 .. Len(lanes)
    BY <1>2, <1>3
  <2>2. MAX_LANES \in Nat /\ MaxTokens \in Nat
    BY DEF PlayAssumption
  <2>3. b \in Stream /\ b.attached /\ b.lane = lanes[i].id /\ b.at = "prefilling"
    BY <1>1, <2>1, <2>2, BegunIs
  <2>4. lanes' = w
    BY <1>4 DEF RunLane
  <2> HIDE DEF b
  <2>5. w \in Seq(Lane) /\ Len(w) = Len(lanes)
    BY <1>1, <2>3, WrittenIs
  <2>6. w[i] = [id |-> b.lane, status |-> b.at, generated |-> b.generated]
    BY <1>1, <2>1, <2>3, WrittenIs
  <2> HIDE DEF w
  <2>7. i \in DOMAIN w /\ w[i].status = "prefilling"
    BY <2>1, <2>3, <2>5, <2>6
  <2>8. QED BY <1>5, <2>4, <2>7
<1>7. lanes' = lanes
  BY <1>4, <1>6 DEF RunLane
<1>8. \A k \in DOMAIN lanes : lanes[k].status = "done"
  BY <1>5, <1>7
<1>9. Len(started) = Len(lanes)
  <2> SUFFICES ASSUME Len(started) < Len(lanes) PROVE FALSE
    BY <1>1, <1>2 DEF InPlace
  <2>1. Len(lanes) \in 1 .. Len(lanes)
    BY <1>1, <1>2
  <2>2. lanes[Len(lanes)].status = "queued"
    BY <1>1, <2>1 DEF InPlace
  <2>3. QED BY <1>2, <1>8, <2>1, <2>2
<1>10. QED BY <1>8, <1>9

(* A run that is over by itself has served every lane, those the server    *)
(* refused included (MultiRequestPlayground.tsx:176-181).                  *)
THEOREM RunsEndWhenServed == PlaySpec => EndsWhenAllDone
<1> DEFINE A == (running /\ ~running' /\ ~StopAll) =>
                  /\ Len(started) = Len(lanes)
                  /\ \A k \in DOMAIN lanes : lanes[k].status = "done"
<1>1. ASSUME PlayInv, [PlayNext]_playVars PROVE [A]_playVars
  <2> SUFFICES ASSUME PlayNext, running, ~running', ~StopAll
               PROVE  /\ Len(started) = Len(lanes)
                      /\ \A k \in DOMAIN lanes : lanes[k].status = "done"
    BY <1>1
  <2>1. CASE AddLane \/ RunAll
    BY <2>1 DEF AddLane, RunAll
  <2>2. CASE \E k \in DOMAIN lanes : RemoveLane(k) \/ UpdateLane(k)
    BY <2>2 DEF RemoveLane, UpdateLane
  <2>3. ASSUME NEW s \in streams, StreamStep(s) \/ Breaks(s) \/ Stale(s)
        PROVE  /\ Len(started) = Len(lanes)
               /\ \A k \in DOMAIN lanes : lanes[k].status = "done"
    <3>1. CASE FirstToken(s) \/ Token(s) \/ Done(s) \/ ErrorEvent(s) \/ Stale(s)
      BY <3>1 DEF FirstToken, Token, Done, ErrorEvent, Stale
    <3>2. CASE Ends(s) \/ Breaks(s)
      <4>1. Finally(s)
        BY <3>2 DEF Ends, Breaks
      <4>2. QED BY <1>1, <4>1, PlayAssumption, LastFinally
    <3>3. QED BY <2>3, <3>1, <3>2 DEF StreamStep
  <2>4. QED BY <2>1, <2>2, <2>3 DEF PlayNext
<1>2. PlayInv /\ [PlayNext]_playVars => [A]_playVars
  BY <1>1
<1>3. QED BY <1>2, PlayIsSound, PTL DEF PlaySpec, EndsWhenAllDone
=============================================================================
