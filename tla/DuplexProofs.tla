---------------------------- MODULE DuplexProofs ----------------------------
(***************************************************************************)
(* Theorems about Duplex, for every number of sockets, every limit on what *)
(* is in flight and any commands, private calls and subscriptions: the     *)
(* inductive invariant, the lemmas about queues and wires, one lemma per   *)
(* action and the safety they imply.                                       *)
(***************************************************************************)
EXTENDS Duplex, FiniteSetTheorems, TLAPS

-----------------------------------------------------------------------------
(* The inductive invariant.                                                *)

ActType == [at : {"none", "run", "stopping", "draining", "gone"}, stop : BOOLEAN,
            queue : Seq(Items), pending : SUBSET Reqs, subs : SUBSET Subs]
SrvType == [up : BOOLEAN, busy : SUBSET Works, subs : SUBSET Subs]
ReqType == [at : {"idle", "handle", "queued", "pending", "open", "done"},
            sock : 0..MaxSockets, waits : BOOLEAN,
            result : {"none", "replied", "refused", "unknown"}]

\* The slot, the watch channel and the sockets opened: one socket at most is
\* published, the one the slot holds, and losses add up.
SlotInv ==
  /\ slot \in [conn : 0..MaxSockets, connecting : BOOLEAN, stopped : BOOLEAN]
  /\ state \in [socket : 0..MaxSockets, loss : Nat]
  /\ seen \in [socket : 0..MaxSockets, loss : Nat]
  /\ opened \in 0..MaxSockets
  /\ state.socket \in {0, slot.conn} /\ slot.conn <= opened
  /\ slot.connecting => slot.conn = 0 /\ opened < MaxSockets
  /\ seen.loss <= state.loss
  /\ EachLossCountedOnce /\ LossIsNeverHidden

\* An actor keeps to its limits; a socket that is not opened yet has none.
Limits(a) ==
  /\ Len(a.queue) <= MaxInFlight
  /\ IsFiniteSet(a.pending) /\ Cardinality(a.pending) <= MaxInFlight
Unborn(a) == a.at = "none" /\ a.queue = << >> /\ a.pending = {} /\ a.subs = {}
ActInv ==
  /\ act \in [Sockets -> ActType]
  /\ \A k \in Sockets : Limits(act[k]) /\ (k > opened => Unborn(act[k]))

\* The wire and Vessel's end.
Slots(v) == IsFiniteSet(v.busy) /\ Cardinality(v.busy) <= MaxInFlight
WireInv ==
  /\ c2s \in [Sockets -> Seq(Items)] /\ s2c \in [Sockets -> Seq(Frames)]
  /\ srv \in [Sockets -> SrvType]
  /\ \A k \in Sockets : Slots(srv[k]) /\ (k > opened => c2s[k] = << >> /\ ~srv[k].up)

\* A request n at its caller, written to the sockets of S: nothing is written
\* before the actor takes it, and a refused one never was.
Call(n, S) ==
  /\ S \subseteq {n.sock}
  /\ n.at \in {"idle", "handle", "queued"} \/ n.result = "refused" => S = {}
  /\ n.result = "refused" => n.at = "done"
  /\ ~n.waits => n.result = "unknown"
  /\ n.at \in {"idle", "handle", "queued", "pending"} => n.result \in {"none", "unknown"}
  /\ n.at \in {"handle", "queued", "pending", "open"} => n.sock \in Sockets
CallInv ==
  /\ req \in [Reqs -> ReqType]
  /\ sentOn \in [Reqs -> SUBSET Sockets]
  /\ \A r \in Reqs : Call(req[r], sentOn[r])

\* Commands, and they alone, are commands.
Kinds(q) == \A i \in DOMAIN q : (q[i].op = "command") = (q[i].r \in Works)

\* A request is in one queue, once, or pending at one actor.
QueueAt(k) ==
  /\ Kinds(act[k].queue)
  /\ \A i \in DOMAIN act[k].queue : act[k].queue[i].op # "unsubscribe" =>
       /\ req[act[k].queue[i].r].at = "queued" /\ req[act[k].queue[i].r].sock = k
       /\ \A j \in DOMAIN act[k].queue : act[k].queue[j] = act[k].queue[i] => j = i
  /\ \A r \in act[k].pending : req[r].at = "pending" /\ req[r].sock = k
  /\ \A s \in act[k].subs : req[s].at \in {"open", "done"} /\ req[s].sock = k
QueueInv == \A k \in Sockets : QueueAt(k)

\* What was answered has run, and what has run was written to a socket.
RanInv ==
  /\ ran \in [Works -> Nat]
  /\ \A r \in Works :
       /\ ran[r] <= 1
       /\ ran[r] # 0 => sentOn[r] # {}
       /\ req[r].result = "replied" => ran[r] = 1

\* A command is on the wire, at Vessel, or has run: one of them, once.
RunAt(k) ==
  /\ Kinds(c2s[k])
  /\ \A r \in srv[k].busy : ran[r] = 0 /\ k \in sentOn[r]
  /\ \A i \in DOMAIN c2s[k] : c2s[k][i].op = "command" =>
       /\ ran[c2s[k][i].r] = 0 /\ k \in sentOn[c2s[k][i].r]
       /\ c2s[k][i].r \notin srv[k].busy
       /\ \A j \in DOMAIN c2s[k] : c2s[k][j] = c2s[k][i] => j = i
  /\ \A i \in DOMAIN s2c[k] :
       /\ (s2c[k][i].op = "reply") = (s2c[k][i].r \in Works)
       /\ s2c[k][i].op = "reply" => ran[s2c[k][i].r] = 1
RunInv == \A k \in Sockets : RunAt(k)

\* A subscription Vessel was asked to drop is one it has, or will have by then;
\* one the actor knows has not been dropped.
Asked(k, s, i) == c2s[k][i] = Item("subscribe", s)
Dropped(k, s, i) == c2s[k][i] = Item("unsubscribe", s)
Known(k) == act[k].pending \cup act[k].subs
SubAt(k) ==
  \A s \in Subs :
    /\ k \notin sentOn[s] => \A i \in DOMAIN c2s[k] : ~Asked(k, s, i) /\ ~Dropped(k, s, i)
    /\ \A i, j \in DOMAIN c2s[k] : Dropped(k, s, i) /\ Dropped(k, s, j) => i = j
    /\ srv[k].up => \A i \in DOMAIN c2s[k] : Dropped(k, s, i) =>
         s \in srv[k].subs \/ \E j \in DOMAIN c2s[k] : j < i /\ Asked(k, s, j)
    /\ s \in Known(k) =>
         /\ k \in sentOn[s]
         /\ \A i \in DOMAIN c2s[k] : ~Dropped(k, s, i)
         /\ srv[k].up => s \in srv[k].subs \/ \E j \in DOMAIN c2s[k] : Asked(k, s, j)
SubInv == \A k \in Sockets : SubAt(k)

DuplexInv ==
  SlotInv /\ ActInv /\ WireInv /\ CallInv /\ QueueInv /\ RanInv /\ RunInv /\ SubInv

-----------------------------------------------------------------------------
(* Queues, sets and records.                                               *)

\* q is p without its head; q is p with x behind it.
\* q is p without its head; q is p with x behind it.
Behead(p, q) ==
  /\ Len(p) \in Nat /\ Len(p) >= 1 /\ Len(q) = Len(p) - 1
  /\ DOMAIN p = 1..Len(p) /\ DOMAIN q = 1..Len(q)
  /\ Head(p) = p[1] /\ \A i \in 1..Len(q) : q[i] = p[i + 1]
Behind(p, q, x) ==
  /\ Len(p) \in Nat /\ Len(q) = Len(p) + 1
  /\ DOMAIN p = 1..Len(p) /\ DOMAIN q = 1..Len(q)
  /\ q[Len(p) + 1] = x /\ \A i \in 1..Len(p) : q[i] = p[i]

LEMMA TailBeheads ==
  ASSUME NEW S, NEW p \in Seq(S), p # << >>
  PROVE  Tail(p) \in Seq(S) /\ Behead(p, Tail(p)) /\ Head(p) \in S
<1>1. Len(p) \in Nat /\ Len(p) >= 1 OBVIOUS
<1>2. QED BY <1>1 DEF Behead

LEMMA AppendIsBehind ==
  ASSUME NEW S, NEW p \in Seq(S), NEW x \in S
  PROVE  Append(p, x) \in Seq(S) /\ Behind(p, Append(p, x), x)
BY DEF Behind

LEMMA WriteIsBehind ==
  ASSUME NEW S, NEW p \in Seq(S), NEW x \in S
  PROVE  (p \o <<x>>) \in Seq(S) /\ Behind(p, p \o <<x>>, x)
BY DEF Behind

LEMMA KindsStay ==
  ASSUME NEW p, NEW q, Kinds(p), Behead(p, q)
  PROVE  Kinds(q)
<1> SUFFICES ASSUME NEW i \in DOMAIN q PROVE (q[i].op = "command") = (q[i].r \in Works)
  BY DEF Kinds
<1>1. i \in 1..Len(q) /\ i + 1 \in DOMAIN p /\ q[i] = p[i + 1] BY DEF Behead
<1>2. QED BY <1>1 DEF Kinds

LEMMA KindsGrow ==
  ASSUME NEW p, NEW q, NEW x, Kinds(p), Behind(p, q, x), (x.op = "command") = (x.r \in Works)
  PROVE  Kinds(q)
<1> SUFFICES ASSUME NEW i \in DOMAIN q PROVE (q[i].op = "command") = (q[i].r \in Works)
  BY DEF Kinds
<1>1. i \in 1..Len(p) \/ i = Len(p) + 1 BY DEF Behind
<1>2. CASE i \in 1..Len(p) BY <1>2 DEF Kinds, Behind
<1>3. CASE i = Len(p) + 1 BY <1>3 DEF Behind
<1>4. QED BY <1>1, <1>2, <1>3

LEMMA OneMore ==
  ASSUME NEW S, NEW x, IsFiniteSet(S), DuplexAssumption, Cardinality(S) < MaxInFlight
  PROVE  IsFiniteSet(S \cup {x}) /\ Cardinality(S \cup {x}) <= MaxInFlight
<1>1. Cardinality(S) \in Nat /\ MaxInFlight \in Nat BY FS_CardinalityType DEF DuplexAssumption
<1>2. IsFiniteSet(S \cup {x}) BY FS_AddElement
<1>3. Cardinality(S \cup {x}) = Cardinality(S) \/ Cardinality(S \cup {x}) = Cardinality(S) + 1
  BY FS_AddElement
<1>4. QED BY <1>1, <1>2, <1>3

LEMMA OneLess ==
  ASSUME NEW S, NEW x, IsFiniteSet(S), DuplexAssumption, Cardinality(S) <= MaxInFlight
  PROVE  IsFiniteSet(S \ {x}) /\ Cardinality(S \ {x}) <= MaxInFlight
<1>1. Cardinality(S) \in Nat /\ MaxInFlight \in Nat BY FS_CardinalityType DEF DuplexAssumption
<1>2. QED BY <1>1, FS_RemoveElement

LEMMA ItemsAreTyped ==
  /\ \A r \in Reqs : /\ Item(OpOf(r), r) \in Items /\ Item("unsubscribe", r) \in Items
                     /\ Item("command", r) \in Items /\ Item("subscribe", r) \in Items
                     /\ Item("reply", r) \in Frames /\ Item("subscribed", r) \in Frames
                     /\ Item("event", r) \in Frames
  /\ \A r, op : Item(op, r).op = op /\ Item(op, r).r = r
  /\ Works \subseteq Reqs /\ Subs \subseteq Reqs /\ Commands \subseteq Works
  /\ Privates \subseteq Works
BY DEF Item, Items, Frames, OpOf, Works, Reqs

LEMMA Apart == ASSUME DuplexAssumption, NEW r \in Reqs PROVE (r \in Works) = (r \notin Subs)
BY DEF DuplexAssumption, Works, Reqs

\* What a queued item is, by its kind.
LEMMA QueuedItem ==
  ASSUME DuplexAssumption, NEW q \in Seq(Items), Kinds(q), NEW i \in DOMAIN q
  PROVE  /\ q[i] \in Items /\ q[i].r \in Reqs /\ q[i] = Item(q[i].op, q[i].r)
         /\ q[i].op # "unsubscribe" => q[i].op = OpOf(q[i].r)
         /\ q[i].op # "command" => q[i].r \in Subs
<1>1. q[i] \in Items OBVIOUS
<1>2. q[i].r \in Reqs /\ q[i].op \in {"command", "subscribe", "unsubscribe"}
      /\ q[i] = Item(q[i].op, q[i].r)
  BY <1>1 DEF Items, Item
<1>3. (q[i].op = "command") = (q[i].r \in Works) BY DEF Kinds
<1>4. (q[i].r \in Works) = (q[i].r \notin Subs) BY <1>2, Apart
<1>5. QED BY <1>1, <1>2, <1>3, <1>4 DEF OpOf

-----------------------------------------------------------------------------
(* One actor, one request, one end of the wire moves.                      *)

LEMMA ActorMoves ==
  ASSUME ActInv, NEW k \in Sockets, NEW n \in ActType, Limits(n), k <= opened,
         opened \in Nat, act' = [act EXCEPT ![k] = n], opened' = opened
  PROVE  /\ ActInv' /\ act'[k] = n
         /\ \A j \in Sockets : j # k => act'[j] = act[j]
<1>1. act'[k] = n /\ \A j \in Sockets : j # k => act'[j] = act[j] BY DEF ActInv
<1>2. act' \in [Sockets -> ActType] BY DEF ActInv
<1>3. ASSUME NEW j \in Sockets PROVE Limits(act'[j]) /\ (j > opened => Unborn(act'[j]))
  <2>1. CASE j = k
    <3>1. k \in Nat BY DEF Sockets
    <3>2. QED BY <1>1, <2>1, <3>1
  <2>2. CASE j # k BY <1>1, <2>2 DEF ActInv
  <2>3. QED BY <2>1, <2>2
<1>4. QED BY <1>1, <1>2, <1>3 DEF ActInv, Limits, Unborn

LEMMA ActorsRest == ASSUME ActInv, UNCHANGED <<act, opened>> PROVE ActInv'
BY DEF ActInv, Limits, Unborn

LEMMA VesselMoves ==
  ASSUME WireInv, NEW k \in Sockets, NEW n \in SrvType, Slots(n), k <= opened,
         opened \in Nat, srv' = [srv EXCEPT ![k] = n], opened' = opened,
         c2s' \in [Sockets -> Seq(Items)], s2c' \in [Sockets -> Seq(Frames)],
         \A j \in Sockets : j # k => c2s'[j] = c2s[j]
  PROVE  /\ WireInv' /\ srv'[k] = n
         /\ \A j \in Sockets : j # k => srv'[j] = srv[j]
<1>1. srv'[k] = n /\ \A j \in Sockets : j # k => srv'[j] = srv[j] BY DEF WireInv
<1>2. srv' \in [Sockets -> SrvType] BY DEF WireInv
<1>3. ASSUME NEW j \in Sockets
      PROVE  Slots(srv'[j]) /\ (j > opened => c2s'[j] = << >> /\ ~srv'[j].up)
  <2>1. CASE j = k
    <3>1. k \in Nat BY DEF Sockets
    <3>2. QED BY <1>1, <2>1, <3>1
  <2>2. CASE j # k BY <1>1, <2>2 DEF WireInv
  <2>3. QED BY <2>1, <2>2
<1>4. QED BY <1>1, <1>2, <1>3 DEF WireInv, Slots

LEMMA FramesMove ==
  ASSUME WireInv, NEW k \in Sockets, k <= opened, opened \in Nat, UNCHANGED <<srv, opened>>,
         c2s' \in [Sockets -> Seq(Items)], s2c' \in [Sockets -> Seq(Frames)],
         \A j \in Sockets : j # k => c2s'[j] = c2s[j]
  PROVE  WireInv'
<1>1. ASSUME NEW j \in Sockets
      PROVE  Slots(srv[j]) /\ (j > opened => c2s'[j] = << >> /\ ~srv[j].up)
  <2>1. CASE j = k
    <3>1. k \in Nat BY DEF Sockets
    <3>2. QED BY <2>1, <3>1 DEF WireInv
  <2>2. CASE j # k BY <2>2 DEF WireInv
  <2>3. QED BY <2>1, <2>2
<1>2. QED BY <1>1 DEF WireInv, Slots

LEMMA WireRests == ASSUME WireInv, UNCHANGED <<wireVars, opened>> PROVE WireInv'
BY DEF WireInv, wireVars, Slots

\* One request moves at its caller.
LEMMA CallerMoves ==
  ASSUME CallInv, RanInv, NEW r \in Reqs, NEW n \in ReqType, req' = [req EXCEPT ![r] = n],
         UNCHANGED <<sentOn, ran>>, Call(n, sentOn[r]),
         r \in Works /\ n.result = "replied" => ran[r] = 1
  PROVE  /\ CallInv' /\ RanInv' /\ req'[r] = n
         /\ \A x \in Reqs : x # r => req'[x] = req[x]
<1>1. req'[r] = n /\ \A x \in Reqs : x # r => req'[x] = req[x] BY DEF CallInv
<1>2. req' \in [Reqs -> ReqType] BY DEF CallInv
<1>3. ASSUME NEW x \in Reqs PROVE Call(req'[x], sentOn[x])
  BY <1>1 DEF CallInv
<1>4. CallInv' BY <1>2, <1>3 DEF CallInv, Call
<1>5. ASSUME NEW x \in Works
      PROVE  ran[x] <= 1 /\ (ran[x] # 0 => sentOn[x] # {})
             /\ (req'[x].result = "replied" => ran[x] = 1)
  <2>1. x \in Reqs BY ItemsAreTyped
  <2>2. CASE x = r BY <1>1, <2>2 DEF RanInv
  <2>3. CASE x # r BY <1>1, <2>1, <2>3 DEF RanInv
  <2>4. QED BY <2>2, <2>3
<1>6. RanInv' BY <1>5 DEF RanInv
<1>7. QED BY <1>1, <1>4, <1>6

\* What its ending does to a request.
LEMMA Finishing ==
  ASSUME NEW r \in Reqs, NEW w \in {"refused", "unknown", "replied"}, req[r] \in ReqType
  PROVE  /\ Finish(r, w) \in ReqType /\ Finish(r, w).at = "done"
         /\ Finish(r, w).sock = req[r].sock /\ Finish(r, w).waits = req[r].waits
         /\ Finish(r, w).result = IF req[r].result = "none" THEN w ELSE req[r].result
BY DEF Finish, ReqType

-----------------------------------------------------------------------------
(* What is not touched.                                                    *)

LEMMA SlotRests == ASSUME SlotInv, UNCHANGED <<slot, state, seen, opened>> PROVE SlotInv'
BY DEF SlotInv, EachLossCountedOnce, LossIsNeverHidden

LEMMA CallsRest == ASSUME CallInv, RanInv, UNCHANGED callVars PROVE CallInv' /\ RanInv'
BY DEF CallInv, RanInv, callVars, Call

\* Requests that move are free, or belong to another socket.
LEMMA QueueElsewhere ==
  ASSUME ActInv, NEW j \in Sockets, QueueAt(j), act'[j] = act[j],
         \A x \in Reqs : \/ req'[x].at = req[x].at /\ req'[x].sock = req[x].sock
                         \/ req[x].at \in {"idle", "handle"}
                         \/ req[x].sock # j
  PROVE  QueueAt(j)'
<1>1. act[j] \in ActType BY DEF ActInv
<1>2. ASSUME NEW i \in DOMAIN act[j].queue PROVE act[j].queue[i].r \in Reqs
  <2>1. act[j].queue \in Seq(Items) BY <1>1 DEF ActType
  <2>2. act[j].queue[i] \in Items BY <2>1
  <2>3. QED BY <2>2 DEF Items
<1>3. act[j].pending \subseteq Reqs /\ act[j].subs \subseteq Reqs
  BY <1>1 DEF ActType, Reqs
<1>4. Kinds(act'[j].queue) BY DEF QueueAt, Kinds
<1>5. ASSUME NEW i \in DOMAIN act'[j].queue, act'[j].queue[i].op # "unsubscribe"
      PROVE  /\ req'[act'[j].queue[i].r].at = "queued" /\ req'[act'[j].queue[i].r].sock = j
             /\ \A m \in DOMAIN act'[j].queue : act'[j].queue[m] = act'[j].queue[i] => m = i
  BY <1>2, <1>5 DEF QueueAt
<1>6. \A r \in act'[j].pending : req'[r].at = "pending" /\ req'[r].sock = j
  BY <1>3 DEF QueueAt
<1>7. \A s \in act'[j].subs : req'[s].at \in {"open", "done"} /\ req'[s].sock = j
  BY <1>3 DEF QueueAt
<1>8. QED BY <1>4, <1>5, <1>6, <1>7 DEF QueueAt, Kinds

LEMMA QueuesRest == ASSUME QueueInv, UNCHANGED <<act, req>> PROVE QueueInv'
BY DEF QueueInv, QueueAt, Kinds

LEMMA RunElsewhere ==
  ASSUME WireInv, NEW j \in Sockets, RunAt(j), c2s'[j] = c2s[j], s2c'[j] = s2c[j],
         srv'[j].busy = srv[j].busy, UNCHANGED ran,
         \A x \in Reqs : j \in sentOn[x] => j \in sentOn'[x]
  PROVE  RunAt(j)'
<1>1. srv[j].busy \subseteq Reqs BY ItemsAreTyped DEF WireInv, SrvType
<1>2. ASSUME NEW i \in DOMAIN c2s[j] PROVE c2s[j][i].r \in Reqs
  <2>1. c2s[j] \in Seq(Items) BY DEF WireInv
  <2>2. c2s[j][i] \in Items BY <2>1
  <2>3. QED BY <2>2 DEF Items
<1>3. QED BY <1>1, <1>2 DEF RunAt, Kinds

LEMMA RunsRest == ASSUME RunInv, UNCHANGED <<wireVars, sentOn, ran>> PROVE RunInv'
BY DEF RunInv, RunAt, Kinds, wireVars

LEMMA SubElsewhere ==
  ASSUME NEW j \in Sockets, SubAt(j), c2s'[j] = c2s[j], srv'[j].up => srv[j].up,
         srv'[j].up => srv'[j].subs = srv[j].subs, Known(j)' \subseteq Known(j),
         \A s \in Subs : (j \in sentOn'[s]) = (j \in sentOn[s])
  PROVE  SubAt(j)'
<1> SUFFICES ASSUME NEW s \in Subs PROVE SubAt(j)!(s)'
  BY DEF SubAt
<1>1. SubAt(j)!(s) BY DEF SubAt
<1>2. QED BY <1>1 DEF Asked, Dropped

LEMMA SubsRest == ASSUME SubInv, UNCHANGED <<act, wireVars, sentOn>> PROVE SubInv'
BY DEF SubInv, SubAt, Known, Asked, Dropped, wireVars

LEMMA RestRests ==
  ASSUME DuplexInv, UNCHANGED <<act, wireVars, callVars, opened>>
  PROVE  ActInv' /\ WireInv' /\ CallInv' /\ QueueInv' /\ RanInv' /\ RunInv' /\ SubInv'
BY ActorsRest, WireRests, CallsRest, QueuesRest, RunsRest, SubsRest DEF DuplexInv, callVars

-----------------------------------------------------------------------------
(* The slot.                                                               *)

\* The published socket is fenced: it is counted as lost, once.
LEMMA LossIsPublished ==
  ASSUME DuplexAssumption, SlotInv, NEW k, state' = Lost(k), k = state.socket
  PROVE  /\ state' \in [socket : 0..MaxSockets, loss : Nat] /\ state'.socket = 0
         /\ state'.loss = state.loss + (IF state.socket = 0 THEN 0 ELSE 1)
<1>1. state \in [socket : 0..MaxSockets, loss : Nat] BY DEF SlotInv
<1>2. CASE state.socket = 0
  <2>1. state' = state BY <1>2 DEF Lost
  <2>2. QED BY <1>1, <1>2, <2>1
<1>3. CASE state.socket # 0
  <2>1. state' = [socket |-> 0, loss |-> state.loss + 1] BY <1>3 DEF Lost
  <2>2. 0 \in 0..MaxSockets /\ state.loss \in Nat BY <1>1 DEF DuplexAssumption
  <2>3. QED BY <1>3, <2>1, <2>2
<1>4. QED BY <1>2, <1>3

LEMMA BeginConnectKeeps == ASSUME DuplexAssumption, DuplexInv, BeginConnect PROVE DuplexInv'
<1>0. SlotInv /\ MaxSockets \in Nat BY DEF DuplexInv, DuplexAssumption
<1>1. /\ slot' \in [conn : 0..MaxSockets, connecting : BOOLEAN, stopped : BOOLEAN]
      /\ slot'.conn = 0 /\ seen' = seen /\ opened' = opened /\ opened < MaxSockets
  <2>1. slot \in [conn : 0..MaxSockets, connecting : BOOLEAN, stopped : BOOLEAN]
        /\ 0 \in 0..MaxSockets
    BY <1>0 DEF SlotInv
  <2>2. slot' = [slot EXCEPT !.conn = 0, !.connecting = TRUE] BY DEF BeginConnect
  <2>3. seen' = seen /\ opened' = opened /\ opened < MaxSockets BY DEF BeginConnect
  <2>4. QED BY <2>1, <2>2, <2>3
<1>2. /\ state' \in [socket : 0..MaxSockets, loss : Nat] /\ state'.socket = 0
      /\ state'.loss = state.loss + (IF state.socket = 0 THEN 0 ELSE 1)
  <2>1. CASE slot.conn # 0
    <3>1. state' = Lost(state.socket) BY <2>1 DEF BeginConnect
    <3>2. QED BY <1>0, <3>1, LossIsPublished
  <2>2. CASE slot.conn = 0
    <3>1. state' = state BY <2>2 DEF BeginConnect
    <3>2. state.socket = 0 BY <1>0, <2>2 DEF SlotInv
    <3>3. state \in [socket : 0..MaxSockets, loss : Nat] BY <1>0 DEF SlotInv
    <3>4. QED BY <3>1, <3>2, <3>3
  <2>3. QED BY <2>1, <2>2
<1>3. SlotInv'
  BY <1>0, <1>1, <1>2 DEF SlotInv, EachLossCountedOnce, LossIsNeverHidden
<1>4. UNCHANGED <<act, wireVars, callVars, opened>> BY DEF BeginConnect
<1>5. QED BY <1>3, <1>4, RestRests DEF DuplexInv

LEMMA ConnectFailsKeeps == ASSUME DuplexAssumption, DuplexInv, ConnectFails PROVE DuplexInv'
<1>1. SlotInv'
  BY DEF ConnectFails, DuplexInv, SlotInv, EachLossCountedOnce, LossIsNeverHidden
<1>2. UNCHANGED <<act, wireVars, callVars, opened>> BY DEF ConnectFails
<1>3. QED BY <1>1, <1>2, RestRests DEF DuplexInv

LEMMA DisconnectKeeps == ASSUME DuplexAssumption, DuplexInv, Disconnect PROVE DuplexInv'
<1>0. SlotInv BY DEF DuplexInv
<1>1. /\ slot' \in [conn : 0..MaxSockets, connecting : BOOLEAN, stopped : BOOLEAN]
      /\ slot'.conn = slot.conn /\ slot'.connecting = slot.connecting
      /\ seen' = seen /\ opened' = opened
  BY <1>0 DEF Disconnect, SlotInv
<1>2. /\ state' \in [socket : 0..MaxSockets, loss : Nat] /\ state'.socket = 0
      /\ state'.loss = state.loss + (IF state.socket = 0 THEN 0 ELSE 1)
  <2>1. state' = Lost(state.socket) BY DEF Disconnect
  <2>2. QED BY <1>0, <2>1, LossIsPublished
<1>3. SlotInv'
  BY <1>0, <1>1, <1>2 DEF SlotInv, EachLossCountedOnce, LossIsNeverHidden
<1>4. UNCHANGED <<act, wireVars, callVars, opened>> BY DEF Disconnect
<1>5. QED BY <1>3, <1>4, RestRests DEF DuplexInv

LEMMA ObserveKeeps == ASSUME DuplexAssumption, DuplexInv, Observe PROVE DuplexInv'
<1>1. SlotInv' BY DEF Observe, DuplexInv, SlotInv, EachLossCountedOnce, LossIsNeverHidden
<1>2. UNCHANGED <<act, wireVars, callVars, opened>> BY DEF Observe
<1>3. QED BY <1>1, <1>2, RestRests DEF DuplexInv

\* The new socket is fresh.
LEMMA FinishConnectKeeps == ASSUME DuplexAssumption, DuplexInv, FinishConnect PROVE DuplexInv'
<1> DEFINE k == opened + 1
<1>0. SlotInv /\ ActInv /\ WireInv /\ CallInv /\ QueueInv /\ RanInv /\ RunInv /\ SubInv
      /\ MaxSockets \in Nat
  BY DEF DuplexInv, DuplexAssumption
<1>1. opened \in Nat /\ slot.connecting /\ opened < MaxSockets /\ slot.conn = 0
      /\ state.socket = 0 /\ state.loss = opened
  BY <1>0 DEF FinishConnect, SlotInv, EachLossCountedOnce
<1>2. k \in Sockets /\ k > opened /\ opened' = k BY <1>0, <1>1 DEF FinishConnect, Sockets
<1>3. SlotInv'
  <2>1. /\ slot' \in [conn : 0..MaxSockets, connecting : BOOLEAN, stopped : BOOLEAN]
        /\ slot'.conn = k /\ ~slot'.connecting
    <3>1. slot \in [conn : 0..MaxSockets, connecting : BOOLEAN, stopped : BOOLEAN]
          /\ k \in 0..MaxSockets
      BY <1>0, <1>2 DEF SlotInv, Sockets
    <3>2. slot' = [slot EXCEPT !.conn = k, !.connecting = FALSE] BY DEF FinishConnect
    <3>3. QED BY <3>1, <3>2
  <2>2. state \in [socket : 0..MaxSockets, loss : Nat]
        /\ state' = [state EXCEPT !.socket = k] /\ k \in 0..MaxSockets
    BY <1>0, <1>2 DEF FinishConnect, SlotInv, Sockets
  <2>3. /\ state' \in [socket : 0..MaxSockets, loss : Nat]
        /\ state'.socket = k /\ state'.loss = state.loss
    BY <2>2
  <2>4. seen' = seen /\ seen \in [socket : 0..MaxSockets, loss : Nat]
        /\ seen.loss <= state.loss
        /\ (seen.socket # 0 /\ seen.loss = state.loss => state.socket = seen.socket)
    BY <1>0 DEF SlotInv, LossIsNeverHidden, FinishConnect
  <2>5. EachLossCountedOnce' BY <1>1, <1>2, <2>3 DEF EachLossCountedOnce
  <2>6. LossIsNeverHidden' BY <1>1, <2>3, <2>4 DEF LossIsNeverHidden
  <2>7. opened' \in 0..MaxSockets BY <1>2, <2>2
  <2>8. state'.socket \in {0, slot'.conn} /\ slot'.conn <= opened' BY <1>1, <1>2, <2>1, <2>3
  <2>9. QED BY <2>1, <2>3, <2>4, <2>5, <2>6, <2>7, <2>8 DEF SlotInv
<1>4. /\ act' \in [Sockets -> ActType] /\ act'[k].at = "run" /\ act'[k].queue = act[k].queue
      /\ act'[k].pending = act[k].pending /\ act'[k].subs = act[k].subs
      /\ \A j \in Sockets : j # k => act'[j] = act[j]
  <2>1. act[k] \in ActType /\ act \in [Sockets -> ActType] BY <1>0, <1>2 DEF ActInv
  <2>2. act' = [act EXCEPT ![k].at = "run"] BY DEF FinishConnect
  <2>3. QED BY <1>2, <2>1, <2>2 DEF ActType
<1>5. /\ srv' \in [Sockets -> SrvType] /\ srv'[k].busy = srv[k].busy
      /\ srv'[k].subs = srv[k].subs
      /\ \A j \in Sockets : j # k => srv'[j] = srv[j]
  <2>1. srv[k] \in SrvType /\ srv \in [Sockets -> SrvType] BY <1>0, <1>2 DEF WireInv
  <2>2. srv' = [srv EXCEPT ![k].up = TRUE] BY DEF FinishConnect
  <2>3. QED BY <1>2, <2>1, <2>2 DEF SrvType
<1>6. UNCHANGED <<c2s, s2c, callVars>> /\ UNCHANGED <<req, sentOn, ran>>
  BY DEF FinishConnect, callVars
<1>7. c2s[k] = << >> /\ Unborn(act[k]) BY <1>0, <1>2 DEF ActInv, WireInv
<1>8. \A j \in Sockets : j > k => j > opened BY <1>1, <1>2 DEF Sockets
<1> HIDE DEF k
<1>9. ActInv'
  <2>1. ASSUME NEW j \in Sockets PROVE Limits(act'[j]) /\ (j > k => Unborn(act'[j]))
    <3>1. CASE j = k BY <1>0, <1>2, <1>4, <3>1 DEF ActInv, Limits, Sockets
    <3>2. CASE j # k BY <1>0, <1>4, <1>8, <3>2 DEF ActInv
    <3>3. QED BY <3>1, <3>2
  <2>2. QED BY <1>2, <1>4, <2>1 DEF ActInv, Limits, Unborn
<1>10. WireInv'
  <2>1. ASSUME NEW j \in Sockets
        PROVE  Slots(srv'[j]) /\ (j > k => c2s[j] = << >> /\ ~srv'[j].up)
    <3>1. CASE j = k BY <1>0, <1>2, <1>5, <3>1 DEF WireInv, Slots, Sockets
    <3>2. CASE j # k BY <1>0, <1>5, <1>8, <3>2 DEF WireInv
    <3>3. QED BY <3>1, <3>2
  <2>2. QED BY <1>0, <1>2, <1>5, <1>6, <2>1 DEF WireInv, Slots
<1>11. CallInv' /\ RanInv' BY <1>0, <1>6, CallsRest
<1>12. QueueInv'
  <2> SUFFICES ASSUME NEW j \in Sockets PROVE QueueAt(j)' BY DEF QueueInv
  <2>1. CASE j = k
    <3>1. Kinds(act'[k].queue) BY <1>4, <1>7 DEF Kinds, Unborn
    <3>2. QED BY <1>4, <1>7, <2>1, <3>1 DEF QueueAt, Kinds, Unborn
  <2>2. CASE j # k BY <1>0, <1>4, <1>6, <2>2, QueueElsewhere DEF QueueInv
  <2>3. QED BY <2>1, <2>2
<1>13. RunInv'
  <2> SUFFICES ASSUME NEW j \in Sockets PROVE RunAt(j)' BY DEF RunInv
  <2>1. srv'[j].busy = srv[j].busy BY <1>5
  <2>2. QED BY <1>0, <1>6, <2>1, RunElsewhere DEF RunInv
<1>14. SubInv'
  <2> SUFFICES ASSUME NEW j \in Sockets PROVE SubAt(j)' BY DEF SubInv
  <2>1. CASE j = k
    <3>1. DOMAIN c2s'[j] = {} BY <1>6, <1>7, <2>1
    <3>2. act'[j].pending \cup act'[j].subs = {} BY <1>4, <1>7, <2>1 DEF Unborn
    <3>3. QED BY <3>1, <3>2 DEF SubAt, Known
  <2>2. CASE j # k
    <3>1. Known(j)' = Known(j) BY <1>4, <2>2 DEF Known
    <3>2. QED BY <1>0, <1>5, <1>6, <2>2, <3>1, SubElsewhere DEF SubInv
  <2>3. QED BY <2>1, <2>2
<1>15. QED BY <1>3, <1>9, <1>10, <1>11, <1>12, <1>13, <1>14 DEF DuplexInv

-----------------------------------------------------------------------------
(* Callers.                                                                *)

LEMMA TakeHandleKeeps ==
  ASSUME DuplexAssumption, DuplexInv, NEW r \in Reqs, TakeHandle(r) PROVE DuplexInv'
<1> DEFINE n == [req[r] EXCEPT !.at = "handle", !.sock = slot.conn]
<1>0. SlotInv /\ ActInv /\ WireInv /\ CallInv /\ QueueInv /\ RanInv /\ RunInv /\ SubInv
  BY DEF DuplexInv
<1>1. slot.conn \in 0..MaxSockets /\ slot.conn # 0 /\ MaxSockets \in Nat
  BY <1>0 DEF TakeHandle, Usable, SlotInv, DuplexAssumption
<1>2. slot.conn \in Sockets BY <1>1 DEF Sockets
<1>3. req[r] \in ReqType /\ req[r].at = "idle" /\ Call(req[r], sentOn[r])
  BY <1>0 DEF CallInv, TakeHandle
<1>4. n \in ReqType /\ n.at = "handle" /\ n.sock = slot.conn /\ n.waits = req[r].waits
      /\ n.result = req[r].result
  BY <1>1, <1>3 DEF ReqType
<1>5. req' = [req EXCEPT ![r] = n]
      /\ UNCHANGED <<slot, state, seen, act, wireVars, sentOn, ran, opened>>
  BY DEF TakeHandle
<1> HIDE DEF n
<1>6. Call(n, sentOn[r]) /\ n.result # "replied" BY <1>2, <1>3, <1>4 DEF Call
<1>7. CallInv' /\ RanInv' /\ req'[r] = n /\ \A x \in Reqs : x # r => req'[x] = req[x]
  BY <1>0, <1>4, <1>5, <1>6, CallerMoves
<1>8. QueueInv'
  <2> SUFFICES ASSUME NEW j \in Sockets PROVE QueueAt(j)' BY DEF QueueInv
  <2>1. QED BY <1>0, <1>3, <1>5, <1>7, QueueElsewhere DEF QueueInv
<1>9. SlotInv' /\ ActInv' /\ WireInv' /\ RunInv' /\ SubInv'
  BY <1>0, <1>5, SlotRests, ActorsRest, WireRests, RunsRest, SubsRest
<1>10. QED BY <1>7, <1>8, <1>9 DEF DuplexInv

LEMMA AbandonKeeps ==
  ASSUME DuplexAssumption, DuplexInv, NEW r \in Reqs, Abandon(r) PROVE DuplexInv'
<1> DEFINE n == [req[r] EXCEPT !.waits = FALSE, !.result = "unknown"]
<1>0. SlotInv /\ ActInv /\ WireInv /\ CallInv /\ QueueInv /\ RanInv /\ RunInv /\ SubInv
  BY DEF DuplexInv
<1>3. req[r] \in ReqType /\ req[r].at \in {"queued", "pending"} /\ Call(req[r], sentOn[r])
  BY <1>0 DEF CallInv, Abandon
<1>4. n \in ReqType /\ n.at = req[r].at /\ n.sock = req[r].sock /\ n.result = "unknown"
  BY <1>3 DEF ReqType
<1>5. req' = [req EXCEPT ![r] = n]
      /\ UNCHANGED <<slot, state, seen, act, wireVars, sentOn, ran, opened>>
  BY DEF Abandon
<1> HIDE DEF n
<1>6. Call(n, sentOn[r]) BY <1>3, <1>4 DEF Call
<1>7. CallInv' /\ RanInv' /\ req'[r] = n /\ \A x \in Reqs : x # r => req'[x] = req[x]
  BY <1>0, <1>4, <1>5, <1>6, CallerMoves
<1>8. QueueInv'
  <2> SUFFICES ASSUME NEW j \in Sockets PROVE QueueAt(j)' BY DEF QueueInv
  <2>1. \A x \in Reqs : req'[x].at = req[x].at /\ req'[x].sock = req[x].sock
    BY <1>4, <1>7
  <2>2. QED BY <1>0, <1>5, <2>1, QueueElsewhere DEF QueueInv
<1>9. SlotInv' /\ ActInv' /\ WireInv' /\ RunInv' /\ SubInv'
  BY <1>0, <1>5, SlotRests, ActorsRest, WireRests, RunsRest, SubsRest
<1>10. QED BY <1>7, <1>8, <1>9 DEF DuplexInv

\* A free request is refused.
LEMMA RefusalKeeps ==
  ASSUME DuplexAssumption, DuplexInv, NEW r \in Reqs, NEW n \in ReqType,
         req[r].at \in {"idle", "handle"}, n.at = "done", Call(n, sentOn[r]),
         n.result # "replied", req' = [req EXCEPT ![r] = n],
         UNCHANGED <<slot, state, seen, act, wireVars, sentOn, ran, opened>>
  PROVE  DuplexInv'
<1>0. SlotInv /\ ActInv /\ WireInv /\ CallInv /\ QueueInv /\ RanInv /\ RunInv /\ SubInv
  BY DEF DuplexInv
<1>1. CallInv' /\ RanInv' /\ req'[r] = n /\ \A x \in Reqs : x # r => req'[x] = req[x]
  BY <1>0, CallerMoves
<1>2. QueueInv'
  <2> SUFFICES ASSUME NEW j \in Sockets PROVE QueueAt(j)' BY DEF QueueInv
  <2>1. QED BY <1>0, <1>1, QueueElsewhere DEF QueueInv
<1>3. SlotInv' /\ ActInv' /\ WireInv' /\ RunInv' /\ SubInv'
  BY <1>0, SlotRests, ActorsRest, WireRests, RunsRest, SubsRest
<1>4. QED BY <1>1, <1>2, <1>3 DEF DuplexInv

\* An item is pushed behind an actor's queue.
LEMMA PushMoves ==
  ASSUME DuplexAssumption, ActInv, opened \in Nat, NEW k \in Sockets, Accepts(k),
         NEW x \in Items, Push(k, x), opened' = opened
  PROVE  /\ ActInv' /\ act[k].queue \in Seq(Items)
         /\ Behind(act[k].queue, act'[k].queue, x)
         /\ act'[k].pending = act[k].pending /\ act'[k].subs = act[k].subs
         /\ \A j \in Sockets : j # k => act'[j] = act[j]
<1> DEFINE n == [act[k] EXCEPT !.queue = Append(@, x)]
<1>1. act[k] \in ActType /\ Limits(act[k]) /\ (k > opened => Unborn(act[k])) BY DEF ActInv
<1>2. act[k].queue \in Seq(Items) /\ Len(act[k].queue) < MaxInFlight
      /\ act[k].at # "none"
  BY <1>1 DEF ActType, Accepts
<1>3. Append(act[k].queue, x) \in Seq(Items) /\ Behind(act[k].queue, Append(act[k].queue, x), x)
  BY <1>2, AppendIsBehind
<1>4. n \in ActType /\ n.queue = Append(act[k].queue, x) /\ n.pending = act[k].pending
      /\ n.subs = act[k].subs
  BY <1>1, <1>3 DEF ActType
<1>5. act' = [act EXCEPT ![k] = n] BY DEF Push
<1> HIDE DEF n
<1>6. Len(n.queue) <= MaxInFlight BY <1>2, <1>3, <1>4 DEF Behind, DuplexAssumption
<1>7. Limits(n) BY <1>1, <1>4, <1>6 DEF Limits
<1>8. k <= opened BY <1>1, <1>2 DEF Unborn, Sockets
<1>9. QED BY <1>2, <1>3, <1>4, <1>5, <1>7, <1>8, ActorMoves

\* The queue of an actor takes a request that was free.
LEMMA QueueTakes ==
  ASSUME DuplexAssumption, ActInv, NEW k \in Sockets, QueueAt(k), NEW r \in Reqs,
         req[r].at \in {"idle", "handle"},
         Behind(act[k].queue, act'[k].queue, Item(OpOf(r), r)),
         act'[k].pending = act[k].pending, act'[k].subs = act[k].subs,
         req'[r].at = "queued", req'[r].sock = k,
         \A x \in Reqs : x # r => req'[x] = req[x]
  PROVE  QueueAt(k)'
<1> DEFINE p == act[k].queue
           q == act'[k].queue
           m == Len(p) + 1
<1>1. act[k] \in ActType /\ p \in Seq(Items) BY DEF ActInv, ActType
<1>2. Kinds(p) BY DEF QueueAt
<1>3. Kinds(q)
  <2>1. (Item(OpOf(r), r).op = "command") = (Item(OpOf(r), r).r \in Works)
    BY Apart DEF OpOf, Item
  <2>2. QED BY <1>2, <2>1, KindsGrow
<1>4. ASSUME NEW i \in DOMAIN p
      PROVE  /\ p[i].r \in Reqs
             /\ p[i].op # "unsubscribe" => p[i].r # r /\ req'[p[i].r] = req[p[i].r]
  BY <1>1, <1>2, QueuedItem DEF QueueAt
<1>5. m \in Nat /\ DOMAIN p = 1..(m - 1) /\ DOMAIN q = 1..m /\ q[m] = Item(OpOf(r), r)
      /\ \A i \in DOMAIN p : q[i] = p[i]
  BY DEF Behind
<1>6. q[m].r = r BY <1>5 DEF Item
<1>7. \A r2 \in act[k].pending \cup act[k].subs : r2 \in Reqs /\ r2 # r
  BY <1>1 DEF QueueAt, ActType, Reqs
<1> HIDE DEF p, q, m
<1>8. ASSUME NEW i \in DOMAIN q, q[i].op # "unsubscribe"
      PROVE  /\ req'[q[i].r].at = "queued" /\ req'[q[i].r].sock = k
             /\ \A j \in DOMAIN q : q[j] = q[i] => j = i
  <2>1. CASE i = m
    <3>1. \A j \in DOMAIN q : q[j] = q[i] => j = i
      <4> SUFFICES ASSUME NEW j \in DOMAIN q, q[j] = q[i], j # m PROVE FALSE BY <2>1
      <4>1. j \in DOMAIN p /\ q[j] = p[j] BY <1>5
      <4>2. p[j].r = r /\ p[j].op # "unsubscribe" BY <1>6, <1>8, <2>1, <4>1
      <4>3. QED BY <1>4, <4>1, <4>2
    <3>2. QED BY <1>6, <2>1, <3>1
  <2>2. CASE i # m
    <3>1. i \in DOMAIN p /\ q[i] = p[i] BY <1>5, <2>2
    <3>2. p[i].op # "unsubscribe" /\ p[i].r # r /\ req'[p[i].r] = req[p[i].r]
      BY <1>4, <1>8, <3>1
    <3>3. req'[q[i].r].at = "queued" /\ req'[q[i].r].sock = k BY <3>1, <3>2 DEF QueueAt, p
    <3>4. \A j \in DOMAIN q : q[j] = q[i] => j = i
      <4> SUFFICES ASSUME NEW j \in DOMAIN q, q[j] = q[i] PROVE j = i OBVIOUS
      <4>1. j # m BY <1>6, <3>1, <3>2
      <4>2. j \in DOMAIN p /\ q[j] = p[j] BY <1>5, <4>1
      <4>3. QED BY <3>1, <3>2, <4>2 DEF QueueAt, p
    <3>5. QED BY <3>3, <3>4
  <2>3. QED BY <2>1, <2>2
<1>9. \A r2 \in act'[k].pending : req'[r2].at = "pending" /\ req'[r2].sock = k
  BY <1>7 DEF QueueAt
<1>10. \A s \in act'[k].subs : req'[s].at \in {"open", "done"} /\ req'[s].sock = k
  BY <1>7 DEF QueueAt
<1>11. QED BY <1>3, <1>8, <1>9, <1>10 DEF QueueAt, q

\* A free request enters an actor's queue.
LEMMA EntryKeeps ==
  ASSUME DuplexAssumption, DuplexInv, NEW r \in Reqs, NEW n \in ReqType, NEW k \in Sockets,
         req[r].at \in {"idle", "handle"}, n.at = "queued", n.sock = k,
         n.waits = req[r].waits, n.result = req[r].result, Accepts(k),
         Push(k, Item(OpOf(r), r)), req' = [req EXCEPT ![r] = n],
         UNCHANGED <<slot, state, seen, wireVars, sentOn, ran, opened>>
  PROVE  DuplexInv'
<1>0. SlotInv /\ ActInv /\ WireInv /\ CallInv /\ QueueInv /\ RanInv /\ RunInv /\ SubInv
      /\ opened \in Nat
  BY DEF DuplexInv, SlotInv
<1>1. Item(OpOf(r), r) \in Items BY ItemsAreTyped
<1>2. /\ ActInv' /\ Behind(act[k].queue, act'[k].queue, Item(OpOf(r), r))
      /\ act'[k].pending = act[k].pending /\ act'[k].subs = act[k].subs
      /\ \A j \in Sockets : j # k => act'[j] = act[j]
  BY <1>0, <1>1, PushMoves
<1>3. Call(n, sentOn[r]) /\ n.result # "replied" BY <1>0 DEF CallInv, Call
<1>4. CallInv' /\ RanInv' /\ req'[r] = n /\ \A x \in Reqs : x # r => req'[x] = req[x]
  BY <1>0, <1>3, CallerMoves
<1>5. QueueInv'
  <2> SUFFICES ASSUME NEW j \in Sockets PROVE QueueAt(j)' BY DEF QueueInv
  <2>1. CASE j = k
    <3>1. QueueAt(k) BY <1>0 DEF QueueInv
    <3>2. QueueAt(k)' BY <1>0, <1>2, <1>4, <3>1, QueueTakes
    <3>3. QED BY <2>1, <3>2
  <2>2. CASE j # k BY <1>0, <1>2, <1>4, <2>2, QueueElsewhere DEF QueueInv
  <2>3. QED BY <2>1, <2>2
<1>6. SlotInv' /\ WireInv' /\ RunInv' BY <1>0, SlotRests, WireRests, RunsRest
<1>7. SubInv'
  <2> SUFFICES ASSUME NEW j \in Sockets PROVE SubAt(j)' BY DEF SubInv
  <2>1. act'[j].pending = act[j].pending /\ act'[j].subs = act[j].subs BY <1>2
  <2>2. Known(j)' = Known(j) BY <2>1 DEF Known
  <2>3. QED BY <1>0, <2>2, SubElsewhere DEF SubInv, wireVars
<1>8. QED BY <1>2, <1>4, <1>5, <1>6, <1>7 DEF DuplexInv

LEMMA EnqueueKeeps ==
  ASSUME DuplexAssumption, DuplexInv, NEW r \in Reqs, Enqueue(r) PROVE DuplexInv'
<1> DEFINE k == req[r].sock
<1>1. req[r] \in ReqType /\ req[r].at = "handle" /\ Call(req[r], sentOn[r])
  BY DEF DuplexInv, CallInv, Enqueue
<1>2. k \in Sockets BY <1>1 DEF Call
<1>3. CASE Accepts(k)
  <2> DEFINE n == [req[r] EXCEPT !.at = "queued"]
  <2>1. n \in ReqType /\ n.at = "queued" /\ n.sock = k /\ n.waits = req[r].waits
        /\ n.result = req[r].result
    BY <1>1 DEF ReqType
  <2>2. Push(k, Item(OpOf(r), r)) /\ req' = [req EXCEPT ![r] = n]
        /\ UNCHANGED <<slot, state, seen, wireVars, sentOn, ran, opened>>
    BY <1>3 DEF Enqueue
  <2> HIDE DEF n
  <2> QED BY <1>1, <1>2, <1>3, <2>1, <2>2, EntryKeeps
<1>4. CASE ~Accepts(k)
  <2> DEFINE n == Finish(r, "refused")
  <2>1. n \in ReqType /\ n.at = "done" /\ n.sock = req[r].sock /\ n.waits = req[r].waits
        /\ n.result = IF req[r].result = "none" THEN "refused" ELSE req[r].result
    BY <1>1, Finishing
  <2>2. req' = [req EXCEPT ![r] = n]
        /\ UNCHANGED <<slot, state, seen, act, wireVars, sentOn, ran, opened>>
    BY <1>4 DEF Enqueue
  <2> HIDE DEF n
  <2>3. Call(n, sentOn[r]) /\ n.result # "replied" BY <1>1, <2>1 DEF Call
  <2> QED BY <1>1, <2>1, <2>2, <2>3, RefusalKeeps
<1>5. QED BY <1>3, <1>4

LEMMA EnqueueBoundKeeps ==
  ASSUME DuplexAssumption, DuplexInv, NEW r \in Privates, EnqueueBound(r) PROVE DuplexInv'
<1> DEFINE k == slot.conn
<1>1. req[r] \in ReqType /\ req[r].at = "idle" /\ Call(req[r], sentOn[r]) /\ r \in Reqs
      /\ seen.socket \in 0..MaxSockets
  BY ItemsAreTyped DEF DuplexInv, CallInv, EnqueueBound, SlotInv
<1>2. CASE state.socket = seen.socket /\ Usable(k) /\ Accepts(k)
  <2> DEFINE n == [req[r] EXCEPT !.at = "queued", !.sock = seen.socket]
  <2>1. seen.socket # 0 /\ state.socket \in {0, k} /\ k \in 0..MaxSockets
        /\ MaxSockets \in Nat
    BY DEF EnqueueBound, DuplexInv, SlotInv, DuplexAssumption
  <2>2. k = seen.socket /\ k \in Sockets BY <1>2, <2>1 DEF Sockets
  <2>3. n \in ReqType /\ n.at = "queued" /\ n.sock = k /\ n.waits = req[r].waits
        /\ n.result = req[r].result
    BY <1>1, <2>2 DEF ReqType
  <2>4. r \notin Subs BY <1>1, Apart, ItemsAreTyped
  <2>5. Item(OpOf(r), r) = Item("command", r) BY <2>4 DEF OpOf
  <2>6. Push(k, Item("command", r)) /\ req' = [req EXCEPT ![r] = n]
        /\ UNCHANGED <<slot, state, seen, wireVars, sentOn, ran, opened>>
    BY <1>2 DEF EnqueueBound
  <2> HIDE DEF n
  <2> QED BY <1>1, <1>2, <2>2, <2>3, <2>5, <2>6, EntryKeeps
<1>3. CASE ~(state.socket = seen.socket /\ Usable(k) /\ Accepts(k))
  <2> DEFINE f == Finish(r, "refused")
             n == [f EXCEPT !.sock = seen.socket]
  <2>1. f \in ReqType /\ f.at = "done" /\ f.waits = req[r].waits
        /\ f.result = IF req[r].result = "none" THEN "refused" ELSE req[r].result
    BY <1>1, Finishing
  <2>2. req' = [req EXCEPT ![r] = n]
        /\ UNCHANGED <<slot, state, seen, act, wireVars, sentOn, ran, opened>>
    <3>1. req' = [req EXCEPT ![r] = f, ![r].sock = seen.socket]
          /\ UNCHANGED <<slot, state, seen, act, wireVars, sentOn, ran, opened>>
      BY <1>3 DEF EnqueueBound
    <3>2. req \in [Reqs -> ReqType] BY DEF DuplexInv, CallInv
    <3> HIDE DEF f
    <3>3. QED BY <1>1, <3>1, <3>2
  <2> HIDE DEF f
  <2>3. n \in ReqType /\ n.at = "done" /\ n.waits = req[r].waits
        /\ n.result = IF req[r].result = "none" THEN "refused" ELSE req[r].result
    BY <1>1, <2>1 DEF ReqType
  <2> HIDE DEF n
  <2>4. Call(n, sentOn[r]) /\ n.result # "replied" BY <1>1, <2>3 DEF Call
  <2> QED BY <1>1, <2>2, <2>3, <2>4, RefusalKeeps
<1>4. QED BY <1>2, <1>3

\* The reader's guard asks for an unsubscribe, or stops the socket.
LEMMA DropReaderKeeps ==
  ASSUME DuplexAssumption, DuplexInv, NEW s \in Subs, DropReader(s) PROVE DuplexInv'
<1> DEFINE k == req[s].sock
           n == [req[s] EXCEPT !.at = "done"]
           x == Item("unsubscribe", s)
<1>0. SlotInv /\ ActInv /\ WireInv /\ CallInv /\ QueueInv /\ RanInv /\ RunInv /\ SubInv
      /\ opened \in Nat
  BY DEF DuplexInv, SlotInv
<1>1. s \in Reqs /\ x \in Items /\ s \notin Works BY Apart, ItemsAreTyped
<1>2. req[s] \in ReqType /\ req[s].at = "open" /\ Call(req[s], sentOn[s])
  BY <1>0, <1>1 DEF CallInv, DropReader
<1>3. k \in Sockets BY <1>2 DEF Call
<1>4. n \in ReqType /\ n.at = "done" /\ n.sock = k /\ n.waits = req[s].waits
      /\ n.result = req[s].result
  BY <1>2 DEF ReqType
<1>5. req' = [req EXCEPT ![s] = n]
      /\ UNCHANGED <<slot, state, seen, wireVars, sentOn, ran, opened>>
  BY DEF DropReader
<1>6. IF Accepts(k) THEN Push(k, x) ELSE act' = [act EXCEPT ![k].stop = TRUE]
  BY DEF DropReader
<1> HIDE DEF n, k
<1>7. Call(n, sentOn[s]) BY <1>2, <1>4 DEF Call, k
<1>8. CallInv' /\ RanInv' /\ req'[s] = n /\ \A y \in Reqs : y # s => req'[y] = req[y]
  BY <1>0, <1>1, <1>4, <1>5, <1>7, CallerMoves
<1>9. /\ ActInv' /\ act'[k].pending = act[k].pending /\ act'[k].subs = act[k].subs
      /\ act'[k].queue = act[k].queue \/ Behind(act[k].queue, act'[k].queue, x)
      /\ \A j \in Sockets : j # k => act'[j] = act[j]
  <2>1. CASE Accepts(k) BY <1>0, <1>1, <1>3, <1>5, <1>6, <2>1, PushMoves
  <2>2. CASE ~Accepts(k)
    <3> DEFINE a == [act[k] EXCEPT !.stop = TRUE]
    <3>1. act[k] \in ActType /\ Limits(act[k]) /\ act \in [Sockets -> ActType]
      BY <1>0, <1>3 DEF ActInv
    <3>2. act' = [act EXCEPT ![k] = a] BY <1>6, <2>2
    <3>3. a \in ActType /\ a.at = act[k].at /\ a.queue = act[k].queue
          /\ a.pending = act[k].pending /\ a.subs = act[k].subs
      BY <3>1 DEF ActType
    <3> HIDE DEF a
    <3>4. act'[k] = a /\ act' \in [Sockets -> ActType]
          /\ \A j \in Sockets : j # k => act'[j] = act[j]
      BY <1>3, <3>1, <3>2, <3>3
    <3>5. ASSUME NEW j \in Sockets PROVE Limits(act'[j]) /\ (j > opened => Unborn(act'[j]))
      BY <1>0, <3>3, <3>4 DEF ActInv, Limits, Unborn
    <3>6. ActInv' BY <1>5, <3>4, <3>5 DEF ActInv, Limits, Unborn
    <3>7. QED BY <3>3, <3>4, <3>6
  <2>3. QED BY <2>1, <2>2
<1>10. QueueInv'
  <2> SUFFICES ASSUME NEW j \in Sockets PROVE QueueAt(j)' BY DEF QueueInv
  <2>1. CASE j # k
    <3>1. req[s].sock # j BY <2>1 DEF k
    <3>2. QED BY <1>0, <1>8, <1>9, <2>1, <3>1, QueueElsewhere DEF QueueInv
  <2>2. CASE j = k
    <3>1. QueueAt(j) /\ act[j] \in ActType BY <1>0 DEF QueueInv, ActInv
    <3>2. act[j].queue \in Seq(Items) BY <3>1 DEF ActType
    <3>3. ASSUME NEW i \in DOMAIN act[j].queue, act[j].queue[i].op # "unsubscribe"
          PROVE  req'[act[j].queue[i].r] = req[act[j].queue[i].r]
      BY <1>2, <1>8, <3>1, <3>2, <3>3, QueuedItem DEF QueueAt
    <3>4. ASSUME NEW y \in act[j].pending PROVE req'[y] = req[y]
      BY <1>2, <1>8, <3>1 DEF QueueAt, ActType
    <3>5. ASSUME NEW y \in act[j].subs PROVE req'[y].at \in {"open", "done"} /\ req'[y].sock = j
      <4>1. y \in Reqs BY <3>1 DEF ActType, Reqs
      <4>2. CASE y = s BY <1>4, <1>8, <2>2, <4>2
      <4>3. CASE y # s BY <1>8, <3>1, <4>1, <4>3 DEF QueueAt
      <4>4. QED BY <4>2, <4>3
    <3>6. CASE act'[j].queue = act[j].queue
      BY <1>9, <2>2, <3>1, <3>3, <3>4, <3>5, <3>6 DEF QueueAt, Kinds
    <3>7. CASE Behind(act[j].queue, act'[j].queue, x)
      <4>1. x.op = "unsubscribe" /\ x.r \notin Works BY <1>1 DEF Item
      <4>2. Kinds(act'[j].queue) BY <3>1, <3>7, <4>1, KindsGrow DEF QueueAt
      <4>3. ASSUME NEW i \in DOMAIN act'[j].queue, act'[j].queue[i].op # "unsubscribe"
            PROVE  i \in DOMAIN act[j].queue /\ act'[j].queue[i] = act[j].queue[i]
        BY <3>7, <4>1, <4>3 DEF Behind
      <4>4. ASSUME NEW i \in DOMAIN act'[j].queue, act'[j].queue[i].op # "unsubscribe"
            PROVE  /\ req'[act'[j].queue[i].r].at = "queued" /\ req'[act'[j].queue[i].r].sock = j
                   /\ \A m \in DOMAIN act'[j].queue : act'[j].queue[m] = act'[j].queue[i] => m = i
        BY <3>1, <3>3, <4>3, <4>4 DEF QueueAt
      <4>5. QED BY <1>9, <2>2, <3>1, <3>4, <3>5, <4>2, <4>4 DEF QueueAt
    <3>8. QED BY <1>9, <2>2, <3>6, <3>7
  <2>3. QED BY <2>1, <2>2
<1>11. SlotInv' /\ WireInv' /\ RunInv' BY <1>0, <1>5, SlotRests, WireRests, RunsRest
<1>12. SubInv'
  <2> SUFFICES ASSUME NEW j \in Sockets PROVE SubAt(j)' BY DEF SubInv
  <2>1. act'[j].pending = act[j].pending /\ act'[j].subs = act[j].subs BY <1>9
  <2>2. Known(j)' = Known(j) BY <2>1 DEF Known
  <2>3. QED BY <1>0, <1>5, <2>2, SubElsewhere DEF SubInv, wireVars
<1>13. QED BY <1>8, <1>9, <1>10, <1>11, <1>12 DEF DuplexInv

-----------------------------------------------------------------------------
(* The actor.                                                              *)

\* An actor that is at work has a socket that was opened.
LEMMA AtWork ==
  ASSUME ActInv, SlotInv, NEW k \in Sockets, act[k].at # "none"
  PROVE  /\ k <= opened /\ opened \in Nat /\ act[k] \in ActType /\ Limits(act[k])
         /\ act \in [Sockets -> ActType] /\ act[k].queue \in Seq(Items)
         /\ act[k].pending \subseteq Reqs /\ act[k].subs \subseteq Subs
<1>1. opened \in Nat /\ k \in Nat BY DEF SlotInv, Sockets
<1>2. ~(k > opened) BY DEF ActInv, Unborn
<1>3. act[k] \in ActType /\ Limits(act[k]) /\ act \in [Sockets -> ActType] BY DEF ActInv
<1>4. QED BY <1>1, <1>2, <1>3 DEF ActType

\* A frame is written behind what is on the wire.
LEMMA WriteMoves ==
  ASSUME WireInv, NEW k \in Sockets, k <= opened, opened \in Nat, NEW x \in Items,
         Write(k, <<x>>), UNCHANGED <<srv, opened>>,
         s2c' \in [Sockets -> Seq(Frames)]
  PROVE  /\ WireInv' /\ Behind(c2s[k], c2s'[k], x)
         /\ \A j \in Sockets : j # k => c2s'[j] = c2s[j]
<1>1. c2s \in [Sockets -> Seq(Items)] /\ c2s[k] \in Seq(Items) BY DEF WireInv
<1>2. (c2s[k] \o <<x>>) \in Seq(Items) /\ Behind(c2s[k], c2s[k] \o <<x>>, x)
  BY <1>1, WriteIsBehind
<1>3. c2s' = [c2s EXCEPT ![k] = c2s[k] \o <<x>>] BY DEF Write
<1>4. /\ c2s'[k] = c2s[k] \o <<x>> /\ c2s' \in [Sockets -> Seq(Items)]
      /\ \A j \in Sockets : j # k => c2s'[j] = c2s[j]
  BY <1>1, <1>2, <1>3
<1>5. WireInv'
  <2>1. c2s' \in [Sockets -> Seq(Items)] /\ \A j \in Sockets : j # k => c2s'[j] = c2s[j]
    BY <1>4
  <2>2. srv' = srv /\ opened' = opened OBVIOUS
  <2>3. QED BY <2>1, <2>2, FramesMove
<1>6. Behind(c2s[k], c2s'[k], x) BY <1>2, <1>4
<1>7. QED BY <1>4, <1>5, <1>6

\* What waits for Helm waited before.
FromFrames(k) ==
  \A i \in DOMAIN s2c'[k] : \E j \in DOMAIN s2c[k] : s2c'[k][i] = s2c[k][j]

LEMMA RunWrites ==
  ASSUME WireInv, NEW k \in Sockets, RunAt(k), NEW x \in Items,
         Behind(c2s[k], c2s'[k], x), (x.op = "command") = (x.r \in Works),
         x.op = "command" =>
           ran[x.r] = 0 /\ k \notin sentOn[x.r] /\ k \in sentOn'[x.r],
         srv'[k].busy = srv[k].busy, UNCHANGED ran, FromFrames(k),
         \A y \in Reqs : k \in sentOn[y] => k \in sentOn'[y]
  PROVE  RunAt(k)'
<1> DEFINE m == Len(c2s[k]) + 1
<1>1. m \in Nat /\ m >= 1 /\ DOMAIN c2s[k] = 1..(m - 1) /\ DOMAIN c2s'[k] = 1..m /\ c2s'[k][m] = x
      /\ \A i \in DOMAIN c2s[k] : c2s'[k][i] = c2s[k][i]
  BY DEF Behind
<1> HIDE DEF m
<1>2. Kinds(c2s'[k]) BY KindsGrow DEF RunAt
<1>3. srv[k].busy \subseteq Reqs /\ c2s[k] \in Seq(Items) BY ItemsAreTyped DEF WireInv, SrvType
<1>4. ASSUME NEW i \in DOMAIN c2s[k] PROVE c2s[k][i].r \in Reqs
  <2>1. c2s[k][i] \in Items BY <1>3
  <2>2. QED BY <2>1 DEF Items
<1>5. \A r \in srv'[k].busy : ran'[r] = 0 /\ k \in sentOn'[r] BY <1>3 DEF RunAt
<1>6. ASSUME NEW i \in DOMAIN c2s[k], c2s[k][i].op = "command" PROVE c2s[k][i] # x
  <2>1. k \in sentOn[c2s[k][i].r] BY <1>6 DEF RunAt
  <2>2. QED BY <1>6, <2>1
<1>7. ASSUME NEW i \in DOMAIN c2s'[k], c2s'[k][i].op = "command"
      PROVE  /\ ran'[c2s'[k][i].r] = 0 /\ k \in sentOn'[c2s'[k][i].r]
             /\ c2s'[k][i].r \notin srv'[k].busy
             /\ \A j \in DOMAIN c2s'[k] : c2s'[k][j] = c2s'[k][i] => j = i
  <2>1. CASE i = m
    <3>1. x.op = "command" /\ x.r \notin srv[k].busy BY <1>1, <1>7, <2>1 DEF RunAt
    <3>2. \A j \in DOMAIN c2s'[k] : c2s'[k][j] = x => j = m
      <4> SUFFICES ASSUME NEW j \in DOMAIN c2s'[k], c2s'[k][j] = x, j # m PROVE FALSE
        OBVIOUS
      <4>1. j \in DOMAIN c2s[k] /\ c2s[k][j] = x BY <1>1
      <4>2. QED BY <1>6, <3>1, <4>1
    <3>3. QED BY <1>1, <2>1, <3>1, <3>2
  <2>2. CASE i # m
    <3>1. i \in DOMAIN c2s[k] /\ c2s'[k][i] = c2s[k][i] BY <1>1, <2>2
    <3>2. ran[c2s[k][i].r] = 0 /\ k \in sentOn[c2s[k][i].r] /\ c2s[k][i].r \notin srv[k].busy
      BY <1>7, <3>1 DEF RunAt
    <3>3. \A j \in DOMAIN c2s'[k] : c2s'[k][j] = c2s[k][i] => j = i
      <4> SUFFICES ASSUME NEW j \in DOMAIN c2s'[k], c2s'[k][j] = c2s[k][i] PROVE j = i
        OBVIOUS
      <4>1. j # m BY <1>1, <1>6, <1>7, <3>1
      <4>2. j \in DOMAIN c2s[k] /\ c2s[k][j] = c2s[k][i] BY <1>1, <4>1
      <4>3. QED BY <1>7, <3>1, <4>2 DEF RunAt
    <3>4. QED BY <1>4, <3>1, <3>2, <3>3
  <2>3. QED BY <2>1, <2>2
<1>8. \A i \in DOMAIN s2c'[k] : /\ (s2c'[k][i].op = "reply") = (s2c'[k][i].r \in Works)
                                /\ s2c'[k][i].op = "reply" => ran'[s2c'[k][i].r] = 1
  BY DEF RunAt, FromFrames
<1>9. QED BY <1>2, <1>5, <1>7, <1>8 DEF RunAt

LEMMA RunReads ==
  ASSUME NEW k \in Sockets, RunAt(k), c2s'[k] = c2s[k], srv'[k].busy = srv[k].busy,
         UNCHANGED <<sentOn, ran>>, FromFrames(k)
  PROVE  RunAt(k)'
<1>1. \A i \in DOMAIN s2c'[k] : /\ (s2c'[k][i].op = "reply") = (s2c'[k][i].r \in Works)
                                /\ s2c'[k][i].op = "reply" => ran'[s2c'[k][i].r] = 1
  BY DEF RunAt, FromFrames
<1>2. QED BY <1>1 DEF RunAt, Kinds

LEMMA FramesStay == ASSUME NEW k, s2c'[k] = s2c[k] PROVE FromFrames(k)
BY DEF FromFrames

LEMMA FramesShift == ASSUME NEW k, Behead(s2c[k], s2c'[k]) PROVE FromFrames(k)
<1> SUFFICES ASSUME NEW i \in DOMAIN s2c'[k]
             PROVE  \E j \in DOMAIN s2c[k] : s2c'[k][i] = s2c[k][j]
  BY DEF FromFrames
<1>1. i + 1 \in DOMAIN s2c[k] /\ s2c'[k][i] = s2c[k][i + 1] BY DEF Behead
<1>2. QED BY <1>1

\* A subscription the actor knows is retired, and Vessel is asked to drop it.
LEMMA SubUnsubscribes ==
  ASSUME WireInv, NEW k \in Sockets, SubAt(k), NEW r \in Subs, r \in Known(k),
         Behind(c2s[k], c2s'[k], Item("unsubscribe", r)),
         srv'[k].up = srv[k].up, srv'[k].subs = srv[k].subs, UNCHANGED sentOn,
         Known(k)' \subseteq Known(k) \ {r}
  PROVE  SubAt(k)'
<1> DEFINE m == Len(c2s[k]) + 1
<1>1. m \in Nat /\ m >= 1 /\ DOMAIN c2s[k] = 1..(m - 1) /\ DOMAIN c2s'[k] = 1..m
      /\ c2s'[k][m] = Item("unsubscribe", r)
      /\ \A i \in DOMAIN c2s[k] : c2s'[k][i] = c2s[k][i] /\ i < m
  BY DEF Behind
<1> HIDE DEF m
<1> SUFFICES ASSUME NEW s \in Subs PROVE SubAt(k)!(s)' BY DEF SubAt
<1>2. SubAt(k)!(s) /\ SubAt(k)!(r) BY DEF SubAt
<1>3. ASSUME NEW i \in DOMAIN c2s'[k], i # m
      PROVE  i \in DOMAIN c2s[k] /\ c2s'[k][i] = c2s[k][i]
  BY <1>1, <1>3
<1>4. Item("unsubscribe", r) # Item("subscribe", s)
      /\ (s # r => Item("unsubscribe", r) # Item("unsubscribe", s))
  BY ItemsAreTyped
<1>5. k \in sentOn[r] BY <1>2
<1>6. k \notin sentOn'[s] => \A i \in DOMAIN c2s'[k] :
        c2s'[k][i] # Item("subscribe", s) /\ c2s'[k][i] # Item("unsubscribe", s)
  <2> SUFFICES ASSUME k \notin sentOn[s], NEW i \in DOMAIN c2s'[k]
               PROVE  c2s'[k][i] # Item("subscribe", s) /\ c2s'[k][i] # Item("unsubscribe", s)
    OBVIOUS
  <2>1. CASE i = m BY <1>1, <1>4, <1>5, <2>1
  <2>2. CASE i # m BY <1>2, <1>3, <2>2 DEF Asked, Dropped
  <2>3. QED BY <2>1, <2>2
<1>7. ASSUME NEW i \in DOMAIN c2s'[k], NEW j \in DOMAIN c2s'[k],
             c2s'[k][i] = Item("unsubscribe", s), c2s'[k][j] = Item("unsubscribe", s)
      PROVE  i = j
  <2>1. CASE s = r
    <3>1. i = m /\ j = m BY <1>2, <1>3, <1>7, <2>1 DEF Dropped
    <3>2. QED BY <3>1
  <2>2. CASE s # r
    <3>1. i # m /\ j # m BY <1>1, <1>4, <1>7, <2>2
    <3>2. QED BY <1>2, <1>3, <1>7, <3>1 DEF Dropped
  <2>3. QED BY <2>1, <2>2
<1>8. ASSUME srv'[k].up, NEW i \in DOMAIN c2s'[k], c2s'[k][i] = Item("unsubscribe", s)
      PROVE  \/ s \in srv'[k].subs
             \/ \E j \in DOMAIN c2s'[k] : j < i /\ c2s'[k][j] = Item("subscribe", s)
  <2>1. CASE i = m
    <3>1. s = r BY <1>1, <1>4, <1>8, <2>1
    <3>2. CASE r \in srv[k].subs BY <3>1, <3>2
    <3>3. CASE \E j \in DOMAIN c2s[k] : Asked(k, r, j)
      <4>1. PICK j \in DOMAIN c2s[k] : c2s[k][j] = Item("subscribe", r) BY <3>3 DEF Asked
      <4>2. j \in DOMAIN c2s'[k] /\ j < i /\ c2s'[k][j] = Item("subscribe", s)
        BY <1>1, <2>1, <3>1, <4>1
      <4>3. QED BY <4>2
    <3>4. QED BY <1>2, <1>8, <3>2, <3>3
  <2>2. CASE i # m
    <3>1. i \in DOMAIN c2s[k] /\ Dropped(k, s, i) BY <1>3, <1>8, <2>2 DEF Dropped
    <3>2. CASE s \in srv[k].subs BY <3>2
    <3>3. CASE \E j \in DOMAIN c2s[k] : j < i /\ Asked(k, s, j)
      <4>1. PICK j \in DOMAIN c2s[k] : j < i /\ c2s[k][j] = Item("subscribe", s)
        BY <3>3 DEF Asked
      <4>2. j \in DOMAIN c2s'[k] /\ c2s'[k][j] = Item("subscribe", s) BY <1>1, <4>1
      <4>3. QED BY <4>1, <4>2
    <3>4. QED BY <1>2, <1>8, <3>1, <3>2, <3>3
  <2>3. QED BY <2>1, <2>2
<1>9. ASSUME s \in Known(k)'
      PROVE  /\ k \in sentOn'[s]
             /\ \A i \in DOMAIN c2s'[k] : c2s'[k][i] # Item("unsubscribe", s)
             /\ srv'[k].up => \/ s \in srv'[k].subs
                              \/ \E j \in DOMAIN c2s'[k] : c2s'[k][j] = Item("subscribe", s)
  <2>1. s \in Known(k) /\ s # r BY <1>9
  <2>2. ASSUME NEW i \in DOMAIN c2s'[k] PROVE c2s'[k][i] # Item("unsubscribe", s)
    <3>1. CASE i = m BY <1>1, <1>4, <2>1, <3>1
    <3>2. CASE i # m BY <1>2, <1>3, <2>1, <3>2 DEF Dropped
    <3>3. QED BY <3>1, <3>2
  <2>3. ASSUME srv'[k].up, s \notin srv'[k].subs
        PROVE  \E j \in DOMAIN c2s'[k] : c2s'[k][j] = Item("subscribe", s)
    <3>1. PICK j \in DOMAIN c2s[k] : c2s[k][j] = Item("subscribe", s)
      BY <1>2, <2>1, <2>3 DEF Asked
    <3>2. j \in DOMAIN c2s'[k] /\ c2s'[k][j] = Item("subscribe", s) BY <1>1, <3>1
    <3>3. QED BY <3>2
  <2>4. QED BY <1>2, <2>1, <2>2, <2>3
<1>10. QED BY <1>6, <1>7, <1>8, <1>9 DEF Asked, Dropped

\* A request is written, for the first time.
LEMMA SubSends ==
  ASSUME DuplexAssumption, WireInv, NEW k \in Sockets, SubAt(k), NEW r \in Reqs,
         k \notin sentOn[r], k \in sentOn'[r],
         Behind(c2s[k], c2s'[k], Item(OpOf(r), r)),
         srv'[k].up = srv[k].up, srv'[k].subs = srv[k].subs,
         \A s \in Subs : s # r => sentOn'[s] = sentOn[s],
         Known(k)' \subseteq Known(k) \cup {r}
  PROVE  SubAt(k)'
<1> DEFINE m == Len(c2s[k]) + 1
<1>1. m \in Nat /\ m >= 1 /\ DOMAIN c2s[k] = 1..(m - 1) /\ DOMAIN c2s'[k] = 1..m
      /\ c2s'[k][m] = Item(OpOf(r), r)
      /\ \A i \in DOMAIN c2s[k] : c2s'[k][i] = c2s[k][i] /\ i < m
  BY DEF Behind
<1> HIDE DEF m
<1> SUFFICES ASSUME NEW s \in Subs PROVE SubAt(k)!(s)' BY DEF SubAt
<1>2. SubAt(k)!(s) BY DEF SubAt
<1>3. ASSUME NEW i \in DOMAIN c2s'[k], i # m
      PROVE  i \in DOMAIN c2s[k] /\ c2s'[k][i] = c2s[k][i]
  BY <1>1, <1>3
<1>4. /\ Item(OpOf(r), r) # Item("unsubscribe", s)
      /\ s # r => Item(OpOf(r), r) # Item("subscribe", s)
      /\ s = r => Item(OpOf(r), r) = Item("subscribe", s)
  BY ItemsAreTyped DEF OpOf
<1>5. ASSUME NEW i \in DOMAIN c2s'[k], c2s'[k][i] = Item("unsubscribe", s)
      PROVE  i # m /\ i \in DOMAIN c2s[k] /\ Dropped(k, s, i)
  BY <1>1, <1>3, <1>4, <1>5 DEF Dropped
<1>6. k \notin sentOn'[s] => \A i \in DOMAIN c2s'[k] :
        c2s'[k][i] # Item("subscribe", s) /\ c2s'[k][i] # Item("unsubscribe", s)
  <2> SUFFICES ASSUME k \notin sentOn'[s], NEW i \in DOMAIN c2s'[k]
               PROVE  c2s'[k][i] # Item("subscribe", s) /\ c2s'[k][i] # Item("unsubscribe", s)
    OBVIOUS
  <2>0. s # r /\ k \notin sentOn[s] OBVIOUS
  <2>1. CASE i = m BY <1>1, <1>4, <2>0, <2>1
  <2>2. CASE i # m BY <1>2, <1>3, <2>0, <2>2 DEF Asked, Dropped
  <2>3. QED BY <2>1, <2>2
<1>7. ASSUME NEW i \in DOMAIN c2s'[k], NEW j \in DOMAIN c2s'[k],
             c2s'[k][i] = Item("unsubscribe", s), c2s'[k][j] = Item("unsubscribe", s)
      PROVE  i = j
  BY <1>2, <1>5, <1>7
<1>8. ASSUME srv'[k].up, NEW i \in DOMAIN c2s'[k], c2s'[k][i] = Item("unsubscribe", s)
      PROVE  \/ s \in srv'[k].subs
             \/ \E j \in DOMAIN c2s'[k] : j < i /\ c2s'[k][j] = Item("subscribe", s)
  <2>1. i \in DOMAIN c2s[k] /\ Dropped(k, s, i) BY <1>5, <1>8
  <2>2. CASE s \in srv[k].subs BY <2>2
  <2>3. CASE \E j \in DOMAIN c2s[k] : j < i /\ Asked(k, s, j)
    <3>1. PICK j \in DOMAIN c2s[k] : j < i /\ c2s[k][j] = Item("subscribe", s)
      BY <2>3 DEF Asked
    <3>2. j \in DOMAIN c2s'[k] /\ c2s'[k][j] = Item("subscribe", s) BY <1>1, <3>1
    <3>3. QED BY <3>1, <3>2
  <2>4. QED BY <1>2, <1>8, <2>1, <2>2, <2>3
<1>9. ASSUME s \in Known(k)'
      PROVE  /\ k \in sentOn'[s]
             /\ \A i \in DOMAIN c2s'[k] : c2s'[k][i] # Item("unsubscribe", s)
             /\ srv'[k].up => \/ s \in srv'[k].subs
                              \/ \E j \in DOMAIN c2s'[k] : c2s'[k][j] = Item("subscribe", s)
  <2>1. CASE s = r
    <3>1. \A i \in DOMAIN c2s'[k] : c2s'[k][i] # Item("unsubscribe", s)
      BY <1>2, <1>5, <2>1
    <3>2. m \in DOMAIN c2s'[k] /\ c2s'[k][m] = Item("subscribe", s) BY <1>1, <1>4, <2>1
    <3>3. QED BY <2>1, <3>1, <3>2
  <2>2. CASE s # r
    <3>0. s \in Known(k) BY <1>9, <2>2
    <3>1. \A i \in DOMAIN c2s'[k] : c2s'[k][i] # Item("unsubscribe", s)
      BY <1>2, <1>5, <3>0
    <3>2. ASSUME srv'[k].up, s \notin srv'[k].subs
          PROVE  \E j \in DOMAIN c2s'[k] : c2s'[k][j] = Item("subscribe", s)
      <4>1. PICK j \in DOMAIN c2s[k] : c2s[k][j] = Item("subscribe", s)
        BY <1>2, <3>0, <3>2 DEF Asked
      <4>2. j \in DOMAIN c2s'[k] /\ c2s'[k][j] = Item("subscribe", s) BY <1>1, <4>1
      <4>3. QED BY <4>2
    <3>3. QED BY <1>2, <2>2, <3>0, <3>1, <3>2
  <2>3. QED BY <2>1, <2>2
<1>10. QED BY <1>6, <1>7, <1>8, <1>9 DEF Asked, Dropped

\* An item leaves an actor's queue; its request ends there, or goes on.
LEMMA QueueGives ==
  ASSUME DuplexAssumption, ActInv, NEW k \in Sockets, QueueAt(k), NEW x,
         act[k].queue \in Seq(Items), act[k].queue # << >>, x = Head(act[k].queue),
         act'[k].queue = Tail(act[k].queue), act'[k].subs \subseteq act[k].subs,
         act'[k].pending \subseteq act[k].pending
           \/ /\ x.op # "unsubscribe" /\ req'[x.r].at = "pending" /\ req'[x.r].sock = k
              /\ act'[k].pending = act[k].pending \cup {x.r},
         \A y \in Reqs : x.op = "unsubscribe" \/ y # x.r => req'[y] = req[y]
  PROVE  QueueAt(k)'
<1> DEFINE p == act[k].queue
           q == act'[k].queue
<1>1. Behead(p, q) BY TailBeheads
<1>2. Kinds(p) /\ p \in Seq(Items) BY DEF QueueAt
<1>3. Kinds(q) BY <1>1, <1>2, KindsStay
<1>4. x = p[1] /\ 1 \in DOMAIN p
      /\ \A i \in DOMAIN q : i \in Nat /\ i >= 1 /\ i + 1 \in DOMAIN p /\ q[i] = p[i + 1]
  BY <1>1 DEF Behead
<1>5. ASSUME NEW i \in DOMAIN p, p[i].op # "unsubscribe", p[i].r = x.r, x.op # "unsubscribe"
      PROVE  i = 1
  <2>1. p[i] = Item(OpOf(x.r), x.r) BY <1>2, <1>5, QueuedItem
  <2>2. p[1] = Item(OpOf(x.r), x.r) BY <1>2, <1>4, <1>5, QueuedItem
  <2>3. \A j \in DOMAIN p : p[j] = p[i] => j = i BY <1>5 DEF QueueAt
  <2>4. QED BY <1>4, <2>1, <2>2, <2>3
<1>6. act[k].pending \subseteq Reqs /\ act[k].subs \subseteq Reqs BY DEF ActInv, ActType, Reqs
<1>7. x.op # "unsubscribe" => req[x.r].at = "queued" BY <1>4 DEF QueueAt
<1>8. \A y \in act[k].pending \cup act[k].subs : req'[y] = req[y]
  BY <1>6, <1>7 DEF QueueAt
<1>9. ASSUME NEW i \in DOMAIN p PROVE p[i].r \in Reqs BY <1>2, QueuedItem
<1> HIDE DEF p, q
<1>10. ASSUME NEW i \in DOMAIN q, q[i].op # "unsubscribe"
       PROVE  /\ req'[q[i].r].at = "queued" /\ req'[q[i].r].sock = k
              /\ \A j \in DOMAIN q : q[j] = q[i] => j = i
  <2>1. i + 1 \in DOMAIN p /\ q[i] = p[i + 1] /\ i + 1 # 1 /\ i \in Nat BY <1>4
  <2>2. req'[p[i + 1].r] = req[p[i + 1].r] BY <1>5, <1>9, <1>10, <2>1
  <2>3. req[p[i + 1].r].at = "queued" /\ req[p[i + 1].r].sock = k
    BY <1>10, <2>1 DEF QueueAt, p
  <2>4. \A j \in DOMAIN q : q[j] = q[i] => j = i
    <3> SUFFICES ASSUME NEW j \in DOMAIN q, q[j] = q[i] PROVE j = i OBVIOUS
    <3>1. j + 1 \in DOMAIN p /\ q[j] = p[j + 1] /\ j \in Nat BY <1>4
    <3>2. j + 1 = i + 1 BY <1>10, <2>1, <3>1 DEF QueueAt, p
    <3>3. QED BY <2>1, <3>1, <3>2
  <2>5. QED BY <2>1, <2>2, <2>3, <2>4
<1>11. \A y \in act'[k].pending : req'[y].at = "pending" /\ req'[y].sock = k
  BY <1>8 DEF QueueAt
<1>12. \A y \in act'[k].subs : req'[y].at \in {"open", "done"} /\ req'[y].sock = k
  BY <1>8 DEF QueueAt
<1>13. QED BY <1>3, <1>10, <1>11, <1>12 DEF QueueAt, q

\* A request that was pending is released.
LEMMA QueueReleases ==
  ASSUME DuplexAssumption, ActInv, NEW k \in Sockets, QueueAt(k), NEW r \in act[k].pending,
         act'[k].queue = act[k].queue, act'[k].pending = act[k].pending \ {r},
         \/ act'[k].subs = act[k].subs
         \/ /\ act'[k].subs = act[k].subs \cup {r}
            /\ req'[r].at = "open" /\ req'[r].sock = k,
         \A y \in Reqs : y # r => req'[y] = req[y]
  PROVE  QueueAt(k)'
<1>1. act[k].pending \subseteq Reqs /\ act[k].subs \subseteq Reqs /\ act[k].queue \in Seq(Items)
  BY DEF ActInv, ActType, Reqs
<1>2. req[r].at = "pending" BY DEF QueueAt
<1>3. ASSUME NEW i \in DOMAIN act[k].queue, act[k].queue[i].op # "unsubscribe"
      PROVE  req'[act[k].queue[i].r] = req[act[k].queue[i].r]
  BY <1>1, <1>2, <1>3, QueuedItem DEF QueueAt
<1>4. Kinds(act'[k].queue) BY DEF QueueAt, Kinds
<1>5. ASSUME NEW i \in DOMAIN act'[k].queue, act'[k].queue[i].op # "unsubscribe"
      PROVE  /\ req'[act'[k].queue[i].r].at = "queued" /\ req'[act'[k].queue[i].r].sock = k
             /\ \A j \in DOMAIN act'[k].queue : act'[k].queue[j] = act'[k].queue[i] => j = i
  BY <1>3, <1>5 DEF QueueAt
<1>6. \A y \in act'[k].pending : req'[y].at = "pending" /\ req'[y].sock = k
  BY <1>1 DEF QueueAt
<1>7. \A y \in act'[k].subs : req'[y].at \in {"open", "done"} /\ req'[y].sock = k
  BY <1>1, <1>2 DEF QueueAt
<1>8. QED BY <1>4, <1>5, <1>6, <1>7 DEF QueueAt

\* An actor forgets nothing but what it no longer has.
LEMMA QueueShrinks ==
  ASSUME ActInv, NEW k \in Sockets, QueueAt(k), act'[k].queue = act[k].queue,
         act'[k].pending \subseteq act[k].pending, act'[k].subs \subseteq act[k].subs,
         UNCHANGED req
  PROVE  QueueAt(k)'
<1>1. Kinds(act'[k].queue) BY DEF QueueAt, Kinds
<1>2. QED BY <1>1 DEF QueueAt

\* The head of its queue.
LEMMA TakenItem ==
  ASSUME DuplexAssumption, DuplexInv, NEW k \in Sockets, act[k].at = "run",
         act[k].queue # << >>, NEW x, x = Head(act[k].queue)
  PROVE  /\ x \in Items /\ x.r \in Reqs /\ x = Item(x.op, x.r)
         /\ (x.op = "command") = (x.r \in Works)
         /\ x.op = "unsubscribe" => x.r \in Subs
         /\ x.op # "unsubscribe" =>
              /\ x = Item(OpOf(x.r), x.r) /\ req[x.r].at = "queued" /\ req[x.r].sock = k
              /\ sentOn[x.r] = {} /\ x.r \notin act[k].pending /\ x.r \notin act[k].subs
<1>1. act[k].queue \in Seq(Items) /\ QueueAt(k)
  BY DEF DuplexInv, ActInv, ActType, QueueInv
<1>2. x = act[k].queue[1] /\ 1 \in DOMAIN act[k].queue BY <1>1, TailBeheads DEF Behead
<1>3. Kinds(act[k].queue) BY <1>1 DEF QueueAt
<1>4. x \in Items /\ x.r \in Reqs /\ x = Item(x.op, x.r)
      /\ (x.op # "unsubscribe" => x.op = OpOf(x.r)) /\ (x.op # "command" => x.r \in Subs)
  BY <1>1, <1>2, <1>3, QueuedItem
<1>5. (x.op = "command") = (x.r \in Works) BY <1>2, <1>3 DEF Kinds
<1>6. ASSUME x.op # "unsubscribe"
      PROVE  req[x.r].at = "queued" /\ req[x.r].sock = k
  BY <1>1, <1>2, <1>6 DEF QueueAt
<1>7. ASSUME x.op # "unsubscribe"
      PROVE  sentOn[x.r] = {} /\ x.r \notin act[k].pending /\ x.r \notin act[k].subs
  <2>1. Call(req[x.r], sentOn[x.r]) BY <1>4 DEF DuplexInv, CallInv
  <2>2. QED BY <1>1, <1>6, <1>7, <2>1 DEF QueueAt, Call
<1>8. QED BY <1>4, <1>5, <1>6, <1>7

\* The actor without the head of its queue.
LEMMA RestOfQueue ==
  ASSUME DuplexAssumption, ActInv, SlotInv, NEW k \in Sockets, act[k].at = "run", act[k].queue # << >>, NEW n,
         n = [act[k] EXCEPT !.queue = Tail(@)]
  PROVE  /\ n \in ActType /\ Limits(n) /\ n.at = act[k].at /\ n.stop = act[k].stop
         /\ n.queue = Tail(act[k].queue)
         /\ n.pending = act[k].pending /\ n.subs = act[k].subs
<1>1. act[k] \in ActType /\ Limits(act[k]) /\ act[k].queue \in Seq(Items) BY AtWork
<1>2. Tail(act[k].queue) \in Seq(Items) /\ Behead(act[k].queue, Tail(act[k].queue))
  BY <1>1, TailBeheads
<1>3. /\ n \in ActType /\ n.at = act[k].at /\ n.stop = act[k].stop
      /\ n.queue = Tail(act[k].queue) /\ n.pending = act[k].pending /\ n.subs = act[k].subs
  BY <1>1, <1>2 DEF ActType
<1>4. Len(n.queue) <= MaxInFlight
  <2>1. Len(n.queue) \in Nat /\ Len(n.queue) = Len(act[k].queue) - 1
        /\ Len(act[k].queue) <= MaxInFlight
    BY <1>1, <1>2, <1>3 DEF Behead, Limits
  <2>2. Len(act[k].queue) \in Nat BY <1>1
  <2>3. MaxInFlight \in Nat BY DEF DuplexAssumption
  <2>4. QED BY <2>1, <2>2, <2>3
<1>5. QED BY <1>1, <1>3, <1>4 DEF Limits

\* What happens at one socket leaves the others alone.
LEMMA OneSocket ==
  ASSUME DuplexInv, NEW k \in Sockets, UNCHANGED ran,
         \A j \in Sockets : j # k =>
           /\ act'[j] = act[j] /\ c2s'[j] = c2s[j] /\ s2c'[j] = s2c[j] /\ srv'[j] = srv[j]
           /\ \A x \in Reqs : (j \in sentOn'[x]) = (j \in sentOn[x]),
         \A x \in Reqs : req'[x] = req[x] \/ req[x].sock = k,
         QueueAt(k)', RunAt(k)', SubAt(k)'
  PROVE  QueueInv' /\ RunInv' /\ SubInv'
<1>0. ActInv /\ WireInv /\ QueueInv /\ RunInv /\ SubInv BY DEF DuplexInv
<1>1. ASSUME NEW j \in Sockets, j # k PROVE QueueAt(j)' /\ RunAt(j)' /\ SubAt(j)'
  <2>1. QueueAt(j) /\ RunAt(j) /\ SubAt(j) BY <1>0 DEF QueueInv, RunInv, SubInv
  <2>2. \A x \in Reqs : req'[x] = req[x] \/ req[x].sock # j BY <1>1
  <2>3. act'[j] = act[j] /\ c2s'[j] = c2s[j] /\ s2c'[j] = s2c[j] /\ srv'[j] = srv[j]
        /\ \A x \in Reqs : (j \in sentOn'[x]) = (j \in sentOn[x])
    BY <1>1
  <2>4. Known(j)' = Known(j) BY <2>3 DEF Known
  <2>5. QueueAt(j)' BY <1>0, <2>1, <2>2, <2>3, QueueElsewhere
  <2>6. RunAt(j)' BY <1>0, <2>1, <2>3, RunElsewhere
  <2>7. SubAt(j)' BY <2>1, <2>3, <2>4, SubElsewhere, ItemsAreTyped
  <2>8. QED BY <2>5, <2>6, <2>7
<1>2. \A j \in Sockets : QueueAt(j)' /\ RunAt(j)' /\ SubAt(j)' BY <1>1
<1>3. QED BY <1>2 DEF QueueInv, RunInv, SubInv

\* An unsubscribe is written for a subscription the actor knew.
LEMMA UnsubscribeWritten ==
  ASSUME DuplexAssumption, DuplexInv, NEW k \in Sockets, k <= opened, opened \in Nat,
         NEW r \in Subs, r \in Known(k), Write(k, <<Item("unsubscribe", r)>>),
         UNCHANGED <<srv, sentOn, ran, opened>>, s2c' \in [Sockets -> Seq(Frames)],
         FromFrames(k), Known(k)' \subseteq Known(k) \ {r}
  PROVE  /\ WireInv' /\ RunAt(k)' /\ SubAt(k)'
         /\ \A j \in Sockets : j # k => c2s'[j] = c2s[j]
<1> DEFINE x == Item("unsubscribe", r)
<1>0. WireInv /\ RunAt(k) /\ SubAt(k) BY DEF DuplexInv, RunInv, SubInv
<1>1. x \in Items /\ x.op = "unsubscribe" /\ x.r = r /\ r \notin Works
  BY Apart, ItemsAreTyped
<1>2. WireInv' /\ Behind(c2s[k], c2s'[k], x) /\ \A j \in Sockets : j # k => c2s'[j] = c2s[j]
  BY <1>0, <1>1, WriteMoves
<1> HIDE DEF x
<1>3. RunAt(k)'
  <2>1. srv'[k].busy = srv[k].busy OBVIOUS
  <2>2. (x.op = "command") = (x.r \in Works) /\ x.op # "command" BY <1>1
  <2>3. \A y \in Reqs : k \in sentOn[y] => k \in sentOn'[y] OBVIOUS
  <2>4. QED BY <1>0, <1>1, <1>2, <2>1, <2>2, <2>3, RunWrites
<1>4. SubAt(k)'
  <2>1. srv'[k].up = srv[k].up /\ srv'[k].subs = srv[k].subs OBVIOUS
  <2>2. QED BY <1>0, <1>2, <2>1, SubUnsubscribes DEF x
<1>5. QED BY <1>2, <1>3, <1>4

\* Nothing is written.
LEMMA NothingWritten ==
  ASSUME DuplexInv, NEW k \in Sockets, k <= opened, opened \in Nat,
         UNCHANGED <<c2s, srv, sentOn, ran, opened>>, s2c' \in [Sockets -> Seq(Frames)],
         FromFrames(k), Known(k)' \subseteq Known(k)
  PROVE  WireInv' /\ RunAt(k)' /\ SubAt(k)'
<1>0. WireInv /\ RunAt(k) /\ SubAt(k) BY DEF DuplexInv, RunInv, SubInv
<1>1. WireInv'
  <2>1. c2s' \in [Sockets -> Seq(Items)] /\ \A j \in Sockets : j # k => c2s'[j] = c2s[j]
    BY <1>0 DEF WireInv
  <2>2. QED BY <1>0, <2>1, FramesMove
<1>2. RunAt(k)'
  <2>1. c2s'[k] = c2s[k] /\ srv'[k].busy = srv[k].busy OBVIOUS
  <2>2. QED BY <1>0, <2>1, RunReads
<1>3. SubAt(k)'
  <2>1. c2s'[k] = c2s[k] /\ srv'[k] = srv[k] /\ \A s \in Subs : sentOn'[s] = sentOn[s] OBVIOUS
  <2>2. QED BY <1>0, <2>1, SubElsewhere
<1>4. QED BY <1>1, <1>2, <1>3

\* The item asks for an unsubscribe: it is forwarded if the actor still knows
\* the subscription.
LEMMA TakeUnsubscribe ==
  ASSUME DuplexAssumption, DuplexInv, NEW k \in Sockets, TakeItem(k),
         Head(act[k].queue).op = "unsubscribe"
  PROVE  DuplexInv'
<1> DEFINE x == Head(act[k].queue)
           r == x.r
           rest == [act[k] EXCEPT !.queue = Tail(@)]
           n == [rest EXCEPT !.subs = @ \ {r}]
<1>0. SlotInv /\ ActInv /\ WireInv /\ CallInv /\ QueueAt(k) /\ RanInv
  BY DEF DuplexInv, QueueInv
<1>1. act[k].at = "run" /\ act[k].queue # << >>
      /\ UNCHANGED <<slot, state, seen, s2c, srv, ran, opened>>
  BY DEF TakeItem
<1>2. /\ act' = [act EXCEPT ![k] = n]
      /\ IF r \in act[k].subs THEN Write(k, <<x>>) ELSE UNCHANGED c2s
      /\ UNCHANGED <<req, sentOn>>
  <2>1. x.op = "unsubscribe" OBVIOUS
  <2>2. CASE r \in act[k].subs BY <2>1, <2>2 DEF TakeItem
  <2>3. CASE r \notin act[k].subs BY <2>1, <2>3 DEF TakeItem
  <2>4. QED BY <2>2, <2>3
<1>3. k <= opened /\ opened \in Nat /\ act[k].queue \in Seq(Items) BY <1>0, <1>1, AtWork
<1>4. x \in Items /\ r \in Subs /\ x = Item("unsubscribe", r)
  BY <1>1, TakenItem
<1>5. rest \in ActType /\ Limits(rest) /\ rest.queue = Tail(act[k].queue)
      /\ rest.pending = act[k].pending /\ rest.subs = act[k].subs
  BY <1>0, <1>1, RestOfQueue
<1> HIDE DEF rest
<1>6. n \in ActType /\ Limits(n) /\ n.queue = Tail(act[k].queue)
      /\ n.pending = act[k].pending /\ n.subs = act[k].subs \ {r}
  BY <1>5 DEF ActType, Limits
<1> HIDE DEF n
<1>7. ActInv' /\ act'[k] = n /\ \A j \in Sockets : j # k => act'[j] = act[j]
  BY <1>0, <1>1, <1>2, <1>3, <1>6, ActorMoves
<1>8. QueueAt(k)'
  <2>1. act'[k].queue = Tail(act[k].queue) /\ act'[k].pending \subseteq act[k].pending
        /\ act'[k].subs \subseteq act[k].subs
    BY <1>6, <1>7
  <2>2. x.op = "unsubscribe" /\ \A y \in Reqs : req'[y] = req[y] BY <1>2
  <2> HIDE DEF x
  <2>3. QED BY <1>0, <1>1, <1>3, <2>1, <2>2, QueueGives DEF x
<1>9. SlotInv' /\ CallInv' /\ RanInv'
  BY <1>0, <1>1, <1>2, SlotRests, CallsRest DEF callVars
<1>10. s2c' \in [Sockets -> Seq(Frames)] /\ FromFrames(k)
  BY <1>0, <1>1, FramesStay DEF WireInv
<1>11. /\ WireInv' /\ RunAt(k)' /\ SubAt(k)'
       /\ \A j \in Sockets : j # k => c2s'[j] = c2s[j]
  <2>1. CASE r \in act[k].subs
    <3>1. Write(k, <<Item("unsubscribe", r)>>) BY <1>2, <1>4, <2>1
    <3>2. r \notin act[k].pending BY <1>0, <2>1 DEF QueueAt
    <3>3. r \in Known(k) BY <2>1 DEF Known
    <3>4. Known(k)' \subseteq Known(k) \ {r} BY <1>6, <1>7, <3>2 DEF Known
    <3>5. UNCHANGED <<srv, sentOn, ran, opened>> BY <1>1, <1>2
    <3> HIDE DEF r
    <3>6. QED BY <1>3, <1>4, <1>10, <3>1, <3>3, <3>4, <3>5, UnsubscribeWritten
  <2>2. CASE r \notin act[k].subs
    <3>1. UNCHANGED <<c2s, srv, sentOn, ran, opened>> BY <1>1, <1>2, <2>2
    <3>2. Known(k)' \subseteq Known(k) BY <1>6, <1>7 DEF Known
    <3>3. QED BY <1>3, <1>10, <3>1, <3>2, NothingWritten
  <2>3. QED BY <2>1, <2>2
<1>12. QueueInv' /\ RunInv' /\ SubInv'
  <2>1. \A j \in Sockets : j # k =>
           /\ act'[j] = act[j] /\ c2s'[j] = c2s[j] /\ s2c'[j] = s2c[j] /\ srv'[j] = srv[j]
           /\ \A y \in Reqs : (j \in sentOn'[y]) = (j \in sentOn[y])
    BY <1>1, <1>2, <1>7, <1>11
  <2>2. ran' = ran /\ \A y \in Reqs : req'[y] = req[y] BY <1>1, <1>2
  <2>3. QED BY <1>8, <1>11, <2>1, <2>2, OneSocket
<1>13. QED BY <1>7, <1>9, <1>11, <1>12 DEF DuplexInv

\* The item's caller is told at once: it gave up, or there is no room.
LEMMA TakeEnds ==
  ASSUME DuplexAssumption, DuplexInv, NEW k \in Sockets, act[k].at = "run",
         act[k].queue # << >>, NEW x, x = Head(act[k].queue), x.op # "unsubscribe",
         NEW n \in ReqType, n.at = "done", n.sock = k, Call(n, {}), n.result # "replied",
         act' = [act EXCEPT ![k] = [act[k] EXCEPT !.queue = Tail(@)]],
         req' = [req EXCEPT ![x.r] = n],
         UNCHANGED <<c2s, sentOn, slot, state, seen, s2c, srv, ran, opened>>
  PROVE  DuplexInv'
<1> DEFINE a == [act[k] EXCEPT !.queue = Tail(@)]
<1>0. SlotInv /\ ActInv /\ WireInv /\ CallInv /\ QueueAt(k) /\ RanInv
  BY DEF DuplexInv, QueueInv
<1>1. k <= opened /\ opened \in Nat /\ act[k].queue \in Seq(Items) BY <1>0, AtWork
<1>2. x.r \in Reqs /\ req[x.r].at = "queued" /\ req[x.r].sock = k /\ sentOn[x.r] = {}
  BY TakenItem
<1>3. a \in ActType /\ Limits(a) /\ a.queue = Tail(act[k].queue)
      /\ a.pending = act[k].pending /\ a.subs = act[k].subs
  BY <1>0, RestOfQueue
<1>4. act' = [act EXCEPT ![k] = a] OBVIOUS
<1> HIDE DEF a
<1>5. ActInv' /\ act'[k] = a /\ \A j \in Sockets : j # k => act'[j] = act[j]
  BY <1>0, <1>1, <1>3, <1>4, ActorMoves
<1>6. CallInv' /\ RanInv' /\ req'[x.r] = n /\ \A y \in Reqs : y # x.r => req'[y] = req[y]
  BY <1>0, <1>2, CallerMoves
<1>7. QueueAt(k)'
  <2>1. act'[k].queue = Tail(act[k].queue) /\ act'[k].pending \subseteq act[k].pending
        /\ act'[k].subs \subseteq act[k].subs
    BY <1>3, <1>5
  <2>2. QED BY <1>0, <1>1, <1>6, <2>1, QueueGives
<1>8. SlotInv' BY <1>0, SlotRests
<1>9. WireInv' /\ RunAt(k)' /\ SubAt(k)'
  <2>1. s2c' \in [Sockets -> Seq(Frames)] /\ FromFrames(k) BY <1>0, FramesStay DEF WireInv
  <2>2. Known(k)' \subseteq Known(k) BY <1>3, <1>5 DEF Known
  <2>3. QED BY <1>1, <2>1, <2>2, NothingWritten
<1>10. QueueInv' /\ RunInv' /\ SubInv'
  <2>1. \A y \in Reqs : req'[y] = req[y] \/ req[y].sock = k BY <1>2, <1>6
  <2>2. \A j \in Sockets : j # k =>
           /\ act'[j] = act[j] /\ c2s'[j] = c2s[j] /\ s2c'[j] = s2c[j] /\ srv'[j] = srv[j]
           /\ \A y \in Reqs : (j \in sentOn'[y]) = (j \in sentOn[y])
    BY <1>5
  <2>3. QED BY <1>7, <1>9, <2>1, <2>2, OneSocket
<1>11. QED BY <1>5, <1>6, <1>8, <1>9, <1>10 DEF DuplexInv

\* The request is written to its socket.
LEMMA CallerSends ==
  ASSUME CallInv, RanInv, NEW r \in Reqs, NEW n \in ReqType, NEW k \in Sockets,
         req[r].at = "queued", req[r].sock = k,
         n.at = "pending", n.sock = k, n.waits = req[r].waits, n.result = req[r].result,
         req' = [req EXCEPT ![r] = n], sentOn' = [sentOn EXCEPT ![r] = @ \cup {k}], ran' = ran
  PROVE  /\ CallInv' /\ RanInv' /\ req'[r] = n /\ sentOn[r] = {} /\ sentOn'[r] = {k}
         /\ (r \in Works => ran[r] = 0)
         /\ \A x \in Reqs : x # r => req'[x] = req[x] /\ sentOn'[x] = sentOn[x]
<1>1. Call(req[r], sentOn[r]) BY DEF CallInv
<1>2. sentOn[r] = {} BY <1>1 DEF Call
<1>3. /\ req'[r] = n /\ sentOn'[r] = {k} /\ req' \in [Reqs -> ReqType]
      /\ sentOn' \in [Reqs -> SUBSET Sockets]
      /\ \A x \in Reqs : x # r => req'[x] = req[x] /\ sentOn'[x] = sentOn[x]
  BY <1>2 DEF CallInv
<1>4. Call(n, {k}) BY <1>1 DEF Call
<1>5. ASSUME NEW x \in Reqs PROVE Call(req'[x], sentOn'[x])
  BY <1>3, <1>4 DEF CallInv
<1>6. CallInv' BY <1>3, <1>5 DEF CallInv, Call
<1>7. r \in Works => ran[r] = 0 BY <1>2 DEF RanInv
<1>8. ASSUME NEW x \in Works
      PROVE  /\ ran[x] <= 1 /\ (ran[x] # 0 => sentOn'[x] # {})
             /\ (req'[x].result = "replied" => ran[x] = 1)
  <2>1. x \in Reqs BY ItemsAreTyped
  <2>2. CASE x = r BY <1>3, <2>2 DEF RanInv
  <2>3. CASE x # r BY <1>3, <2>1, <2>3 DEF RanInv
  <2>4. QED BY <2>2, <2>3
<1>9. RanInv' BY <1>8 DEF RanInv
<1>10. QED BY <1>2, <1>3, <1>6, <1>7, <1>9

LEMMA TakeSends ==
  ASSUME DuplexAssumption, DuplexInv, NEW k \in Sockets, act[k].at = "run",
         act[k].queue # << >>, NEW x, x = Head(act[k].queue), x.op # "unsubscribe",
         NEW r, r = x.r,
         Cardinality(act[k].pending) < MaxInFlight,
         NEW b, b = [act[k] EXCEPT !.queue = Tail(@)],
         act' = [act EXCEPT ![k] = [b EXCEPT !.pending = @ \cup {r}]],
         req' = [req EXCEPT ![r].at = "pending"],
         sentOn' = [sentOn EXCEPT ![r] = @ \cup {k}], Write(k, <<x>>),
         UNCHANGED <<slot, state, seen, s2c, srv, ran, opened>>
  PROVE  DuplexInv'
<1> DEFINE a == [b EXCEPT !.pending = @ \cup {r}]
           n == [req[r] EXCEPT !.at = "pending"]
<1>0. SlotInv /\ ActInv /\ WireInv /\ CallInv /\ QueueAt(k) /\ RanInv /\ RunAt(k) /\ SubAt(k)
  BY DEF DuplexInv, QueueInv, RunInv, SubInv
<1>1. k <= opened /\ opened \in Nat /\ act[k].queue \in Seq(Items) /\ Limits(act[k])
      /\ act[k].pending \subseteq Reqs
  BY <1>0, AtWork
<1>2. /\ x \in Items /\ r \in Reqs /\ x = Item(OpOf(r), r)
      /\ (x.op = "command") = (r \in Works)
      /\ req[r].at = "queued" /\ req[r].sock = k
  BY TakenItem
<1>3. b \in ActType /\ Limits(b) /\ b.queue = Tail(act[k].queue)
      /\ b.pending = act[k].pending /\ b.subs = act[k].subs
  BY <1>0, RestOfQueue
<1>4. IsFiniteSet(act[k].pending \cup {r}) /\ Cardinality(act[k].pending \cup {r}) <= MaxInFlight
  BY <1>1, OneMore DEF Limits
<1>5. a \in ActType /\ a.queue = Tail(act[k].queue)
      /\ a.pending = act[k].pending \cup {r} /\ a.subs = act[k].subs
  BY <1>2, <1>3 DEF ActType
<1>6. act' = [act EXCEPT ![k] = a] OBVIOUS
<1> HIDE DEF a
<1>7. Limits(a) BY <1>3, <1>4, <1>5 DEF Limits
<1>8. ActInv' /\ act'[k] = a /\ \A j \in Sockets : j # k => act'[j] = act[j]
  BY <1>0, <1>1, <1>5, <1>6, <1>7, ActorMoves
<1>9. req[r] \in ReqType /\ req \in [Reqs -> ReqType] BY <1>0, <1>2 DEF CallInv
<1>10. n \in ReqType /\ n.at = "pending" /\ n.sock = k /\ n.waits = req[r].waits
       /\ n.result = req[r].result
  BY <1>2, <1>9 DEF ReqType
<1>11. req' = [req EXCEPT ![r] = n] OBVIOUS
<1> HIDE DEF n
<1>12. /\ CallInv' /\ RanInv' /\ req'[r] = n /\ sentOn[r] = {} /\ sentOn'[r] = {k}
       /\ (r \in Works => ran[r] = 0)
       /\ \A y \in Reqs : y # r => req'[y] = req[y] /\ sentOn'[y] = sentOn[y]
  <2>1. ran' = ran /\ sentOn' = [sentOn EXCEPT ![r] = @ \cup {k}] OBVIOUS
  <2>2. CallInv /\ RanInv /\ r \in Reqs /\ n \in ReqType /\ k \in Sockets BY <1>0, <1>2, <1>10
  <2>3. req[r].at = "queued" /\ req[r].sock = k /\ n.at = "pending" /\ n.sock = k BY <1>0, <1>2, <1>10
  <2>4. n.waits = req[r].waits /\ n.result = req[r].result BY <1>10
  <2>5. req' = [req EXCEPT ![r] = n] BY <1>11
  <2>6. QED BY ONLY <2>1, <2>2, <2>3, <2>4, <2>5, CallerSends
<1>13. QueueAt(k)'
  <2>1. act'[k].queue = Tail(act[k].queue) /\ act'[k].subs \subseteq act[k].subs
        /\ act'[k].pending = act[k].pending \cup {r}
    BY <1>5, <1>8
  <2>2. req'[r].at = "pending" /\ req'[r].sock = k BY <1>10, <1>12
  <2>3. \A y \in Reqs : x.op = "unsubscribe" \/ y # x.r => req'[y] = req[y] BY <1>12
  <2>4. req'[x.r].at = "pending" /\ req'[x.r].sock = k /\ act'[k].pending = act[k].pending \cup {x.r}
    BY <2>1, <2>2
  <2>5. /\ DuplexAssumption /\ ActInv /\ k \in Sockets /\ QueueAt(k) /\ act[k].queue \in Seq(Items)
        /\ act[k].queue # << >> /\ x = Head(act[k].queue) /\ x.op # "unsubscribe"
    BY <1>0, <1>1
  <2>6. QED BY ONLY <2>1, <2>3, <2>4, <2>5, QueueGives
<1>14. SlotInv' BY <1>0, SlotRests
<1>15. s2c' \in [Sockets -> Seq(Frames)] /\ FromFrames(k) BY <1>0, FramesStay DEF WireInv
<1>16. WireInv' /\ Behind(c2s[k], c2s'[k], x) /\ \A j \in Sockets : j # k => c2s'[j] = c2s[j]
  BY <1>0, <1>1, <1>2, <1>15, WriteMoves
<1>17. RunAt(k)'
  <2>1. srv'[k].busy = srv[k].busy OBVIOUS
  <2>2. x.op = "command" => ran[r] = 0 /\ k \notin sentOn[r] /\ k \in sentOn'[r]
    BY <1>2, <1>12
  <2>3. \A y \in Reqs : k \in sentOn[y] => k \in sentOn'[y] BY <1>12
  <2>4. QED BY <1>0, <1>2, <1>15, <1>16, <2>1, <2>2, <2>3, RunWrites
<1>18. SubAt(k)'
  <2>1. Known(k)' \subseteq Known(k) \cup {r} BY <1>5, <1>8 DEF Known
  <2>2. srv'[k].up = srv[k].up /\ srv'[k].subs = srv[k].subs OBVIOUS
  <2>3. \A s \in Subs : s # r => sentOn'[s] = sentOn[s] BY <1>12, ItemsAreTyped
  <2>4. k \notin sentOn[r] /\ k \in sentOn'[r] BY <1>12
  <2>5. Behind(c2s[k], c2s'[k], Item(OpOf(r), r)) BY <1>2, <1>16
  <2>6. QED BY <1>0, <1>2, <2>1, <2>2, <2>3, <2>4, <2>5, SubSends
<1>19. QueueInv' /\ RunInv' /\ SubInv'
  <2>1. \A y \in Reqs : req'[y] = req[y] \/ req[y].sock = k BY <1>2, <1>12
  <2>2. ASSUME NEW j \in Sockets, j # k, NEW y \in Reqs
        PROVE  (j \in sentOn'[y]) = (j \in sentOn[y])
    <3>1. CASE y = r BY <1>12, <2>2, <3>1
    <3>2. CASE y # r BY <1>12, <3>2
    <3>3. QED BY <3>1, <3>2
  <2>3. \A j \in Sockets : j # k =>
           /\ act'[j] = act[j] /\ c2s'[j] = c2s[j] /\ s2c'[j] = s2c[j] /\ srv'[j] = srv[j]
           /\ \A y \in Reqs : (j \in sentOn'[y]) = (j \in sentOn[y])
    BY <1>8, <1>16, <2>2
  <2>4. QED BY <1>13, <1>17, <1>18, <2>1, <2>3, OneSocket
<1>20. QED BY <1>8, <1>12, <1>14, <1>16, <1>19 DEF DuplexInv

LEMMA TakeItemKeeps ==
  ASSUME DuplexAssumption, DuplexInv, NEW k \in Sockets, TakeItem(k) PROVE DuplexInv'
<1> DEFINE x == Head(act[k].queue)
           b == [act[k] EXCEPT !.queue = Tail(@)]
           full == \/ Cardinality(act[k].pending) >= MaxInFlight
                   \/ x.r \in Subs /\ Cardinality(act[k].subs) >= MaxInFlight
<1>0. act[k].at = "run" /\ act[k].queue # << >>
      /\ UNCHANGED <<slot, state, seen, s2c, srv, ran, opened>>
  BY DEF TakeItem
<1>1. CASE x.op = "unsubscribe" BY <1>1, TakeUnsubscribe
<1>2. ASSUME x.op # "unsubscribe"
      PROVE  /\ x.r \in Reqs /\ req[x.r].at = "queued" /\ req[x.r].sock = k
             /\ req[x.r] \in ReqType /\ Call(req[x.r], {})
  <2>1. x.r \in Reqs /\ req[x.r].at = "queued" /\ req[x.r].sock = k /\ sentOn[x.r] = {}
    BY <1>0, <1>2, TakenItem
  <2>2. req[x.r] \in ReqType /\ Call(req[x.r], sentOn[x.r]) BY <2>1 DEF DuplexInv, CallInv
  <2>3. QED BY <2>1, <2>2
<1>3. CASE x.op # "unsubscribe" /\ ~req[x.r].waits
  <2> DEFINE n == [req[x.r] EXCEPT !.at = "done"]
  <2>1. act' = [act EXCEPT ![k] = b] /\ req' = [req EXCEPT ![x.r].at = "done"]
        /\ UNCHANGED <<c2s, sentOn>>
    BY <1>3 DEF TakeItem
  <2>2. n \in ReqType /\ n.at = "done" /\ n.sock = k /\ n.waits = req[x.r].waits
        /\ n.result = req[x.r].result
    BY <1>2, <1>3 DEF ReqType
  <2>3. req' = [req EXCEPT ![x.r] = n] BY <2>1
  <2> HIDE DEF n
  <2>4. Call(n, {}) /\ n.result # "replied" BY <1>2, <1>3, <2>2 DEF Call
  <2>5. QED BY <1>0, <1>3, <2>1, <2>2, <2>3, <2>4, TakeEnds
<1>4. CASE x.op # "unsubscribe" /\ req[x.r].waits /\ full
  <2> DEFINE n == Finish(x.r, "refused")
  <2>1. act' = [act EXCEPT ![k] = b] /\ req' = [req EXCEPT ![x.r] = n]
        /\ UNCHANGED <<c2s, sentOn>>
    BY <1>4 DEF TakeItem
  <2>2. n \in ReqType /\ n.at = "done" /\ n.sock = k /\ n.waits = req[x.r].waits
        /\ n.result = IF req[x.r].result = "none" THEN "refused" ELSE req[x.r].result
    BY <1>2, <1>4, Finishing
  <2> HIDE DEF n
  <2>3. Call(n, {}) /\ n.result # "replied" BY <1>2, <1>4, <2>2 DEF Call
  <2>4. QED BY <1>0, <1>4, <2>1, <2>2, <2>3, TakeEnds
<1>5. CASE x.op # "unsubscribe" /\ req[x.r].waits /\ ~full
  <2>1. /\ act' = [act EXCEPT ![k] = [b EXCEPT !.pending = @ \cup {x.r}]]
        /\ req' = [req EXCEPT ![x.r].at = "pending"]
        /\ sentOn' = [sentOn EXCEPT ![x.r] = @ \cup {k}] /\ Write(k, <<x>>)
    BY <1>5 DEF TakeItem
  <2>2. Cardinality(act[k].pending) < MaxInFlight
    <3>1. IsFiniteSet(act[k].pending) BY DEF DuplexInv, ActInv, Limits
    <3>2. Cardinality(act[k].pending) \in Nat /\ MaxInFlight \in Nat
      BY <3>1, FS_CardinalityType DEF DuplexAssumption
    <3>3. ~(Cardinality(act[k].pending) >= MaxInFlight) BY <1>5
    <3>4. QED BY <3>2, <3>3
  <2> HIDE DEF b, x
  <2>3. b = [act[k] EXCEPT !.queue = Tail(@)] /\ x = Head(act[k].queue) BY DEF b, x
  <2>4. QED BY <1>0, <1>5, <2>1, <2>2, <2>3, TakeSends
<1>6. QED BY <1>1, <1>3, <1>4, <1>5

\* A pending request is released: answered, expired or opened; an unsubscribe is
\* written if its subscription may be known to Vessel and nobody will read it.
LEMMA ReleaseKeeps ==
  ASSUME DuplexAssumption, DuplexInv, NEW k \in Sockets, act[k].at = "run",
         NEW r \in act[k].pending, NEW n \in ReqType, NEW a \in ActType,
         n.sock = k, Call(n, sentOn[r]), r \in Works /\ n.result = "replied" => ran[r] = 1,
         a.queue = act[k].queue, a.pending = act[k].pending \ {r},
         \/ a.subs = act[k].subs
         \/ n.at = "open" /\ a.subs = act[k].subs \cup {r} /\ UNCHANGED c2s,
         c2s' = c2s \/ (r \in Subs /\ Write(k, <<Item("unsubscribe", r)>>)),
         act' = [act EXCEPT ![k] = a], req' = [req EXCEPT ![r] = n],
         UNCHANGED <<slot, state, seen, srv, sentOn, ran, opened>>,
         s2c' \in [Sockets -> Seq(Frames)], FromFrames(k),
         \A j \in Sockets : j # k => s2c'[j] = s2c[j]
  PROVE  DuplexInv'
<1>0. SlotInv /\ ActInv /\ WireInv /\ CallInv /\ QueueAt(k) /\ RanInv
  BY DEF DuplexInv, QueueInv
<1>1. k <= opened /\ opened \in Nat /\ Limits(act[k]) /\ act[k].pending \subseteq Reqs
  BY <1>0, AtWork
<1>2. r \in Reqs /\ req[r].at = "pending" /\ req[r].sock = k BY <1>0, <1>1 DEF QueueAt
<1>3. Limits(a)
  <2>1. IsFiniteSet(act[k].pending) /\ Cardinality(act[k].pending) <= MaxInFlight
    BY <1>1 DEF Limits
  <2>2. IsFiniteSet(act[k].pending \ {r}) /\ Cardinality(act[k].pending \ {r}) <= MaxInFlight
    BY <2>1, OneLess
  <2>3. QED BY <1>1, <2>2 DEF Limits
<1>4. ActInv' /\ act'[k] = a /\ \A j \in Sockets : j # k => act'[j] = act[j]
  BY <1>0, <1>1, <1>3, ActorMoves
<1>5. CallInv' /\ RanInv' /\ req'[r] = n /\ \A y \in Reqs : y # r => req'[y] = req[y]
  BY <1>0, <1>2, CallerMoves
<1>6. QueueAt(k)'
  <2>1. act'[k].queue = act[k].queue /\ act'[k].pending = act[k].pending \ {r} BY <1>4
  <2>2. \/ act'[k].subs = act[k].subs
        \/ /\ act'[k].subs = act[k].subs \cup {r}
           /\ req'[r].at = "open" /\ req'[r].sock = k
    BY <1>4, <1>5
  <2>3. QED BY <1>0, <1>5, <2>1, <2>2, QueueReleases
<1>7. SlotInv' BY <1>0, SlotRests
<1>8. /\ WireInv' /\ RunAt(k)' /\ SubAt(k)'
      /\ \A j \in Sockets : j # k => c2s'[j] = c2s[j]
  <2>1. CASE UNCHANGED c2s
    <3>1. Known(k)' \subseteq Known(k) BY <1>4 DEF Known
    <3>2. QED BY <1>1, <2>1, <3>1, NothingWritten
  <2>2. CASE a.subs = act[k].subs /\ r \in Subs /\ Write(k, <<Item("unsubscribe", r)>>)
    <3>1. r \notin act[k].subs BY <1>0, <1>2 DEF QueueAt
    <3>2. r \in Known(k) /\ Known(k)' \subseteq Known(k) \ {r} BY <1>4, <2>2, <3>1 DEF Known
    <3>3. QED BY <1>1, <2>2, <3>2, UnsubscribeWritten
  <2>3. QED BY <2>1, <2>2
<1>9. QueueInv' /\ RunInv' /\ SubInv'
  <2>1. \A y \in Reqs : req'[y] = req[y] \/ req[y].sock = k BY <1>2, <1>5
  <2>2. \A j \in Sockets : j # k =>
           /\ act'[j] = act[j] /\ c2s'[j] = c2s[j] /\ s2c'[j] = s2c[j] /\ srv'[j] = srv[j]
           /\ \A y \in Reqs : (j \in sentOn'[y]) = (j \in sentOn[y])
    BY <1>4, <1>8
  <2>3. QED BY <1>6, <1>8, <2>1, <2>2, OneSocket
<1>10. QED BY <1>4, <1>5, <1>7, <1>8, <1>9 DEF DuplexInv

\* What a pending request is, and what remains of its actor when it is released.
LEMMA Pending ==
  ASSUME DuplexInv, NEW k \in Sockets, act[k].at = "run", NEW r \in act[k].pending
  PROVE  /\ r \in Reqs /\ req[r] \in ReqType /\ req[r].at = "pending" /\ req[r].sock = k
         /\ Call(req[r], sentOn[r]) /\ req[r].result \in {"none", "unknown"}
         /\ act[k] \in ActType
<1>0. SlotInv /\ ActInv /\ QueueAt(k) /\ CallInv BY DEF DuplexInv, QueueInv
<1>1. act[k] \in ActType /\ act[k].pending \subseteq Reqs BY <1>0, AtWork
<1>2. r \in Reqs /\ req[r].at = "pending" /\ req[r].sock = k BY <1>0, <1>1 DEF QueueAt
<1>3. req[r] \in ReqType /\ Call(req[r], sentOn[r]) BY <1>0, <1>2 DEF CallInv
<1>4. req[r].result \in {"none", "unknown"} BY <1>2, <1>3 DEF Call
<1>5. QED BY <1>1, <1>2, <1>3, <1>4

LEMMA ExpireKeeps ==
  ASSUME DuplexAssumption, DuplexInv, NEW k \in Sockets, Expire(k) PROVE DuplexInv'
<1>1. PICK r \in act[k].pending :
         /\ act' = [act EXCEPT ![k].pending = @ \ {r}]
         /\ req' = [req EXCEPT ![r] = Finish(r, "unknown")]
         /\ IF r \in Subs THEN Write(k, <<Item("unsubscribe", r)>>) ELSE UNCHANGED c2s
  BY DEF Expire
<1> DEFINE n == Finish(r, "unknown")
           a == [act[k] EXCEPT !.pending = @ \ {r}]
<1>2. act[k].at = "run" /\ UNCHANGED <<slot, state, seen, s2c, srv, sentOn, ran, opened>>
  BY DEF Expire
<1>3. /\ r \in Reqs /\ req[r] \in ReqType /\ req[r].at = "pending" /\ req[r].sock = k
      /\ Call(req[r], sentOn[r]) /\ req[r].result \in {"none", "unknown"} /\ act[k] \in ActType
  BY <1>2, Pending
<1>4. n \in ReqType /\ n.at = "done" /\ n.sock = k /\ n.waits = req[r].waits
      /\ n.result = "unknown"
  BY <1>3, Finishing
<1>5. a \in ActType /\ a.queue = act[k].queue /\ a.pending = act[k].pending \ {r}
      /\ a.subs = act[k].subs
  BY <1>3 DEF ActType
<1>6. act' = [act EXCEPT ![k] = a] /\ req' = [req EXCEPT ![r] = n] BY <1>1
<1> HIDE DEF a, n
<1>7. Call(n, sentOn[r]) BY <1>3, <1>4 DEF Call
<1>8. s2c' \in [Sockets -> Seq(Frames)] /\ FromFrames(k) /\ \A j \in Sockets : j # k => s2c'[j] = s2c[j]
  BY <1>2, FramesStay DEF DuplexInv, WireInv
<1>9. c2s' = c2s \/ (r \in Subs /\ Write(k, <<Item("unsubscribe", r)>>)) BY <1>1
<1>10. n.result # "replied" BY <1>4
<1>11. QED
  BY ONLY DuplexAssumption, DuplexInv, k \in Sockets, r \in act[k].pending, <1>2, <1>4, <1>5,
          <1>6, <1>7, <1>8, <1>9, <1>10, ReleaseKeeps

LEMMA ReceiveKeeps ==
  ASSUME DuplexAssumption, DuplexInv, NEW k \in Sockets, NEW full \in BOOLEAN, Receive(k, full)
  PROVE  DuplexInv'
<1> DEFINE x == Head(s2c[k])
           r == x.r
<1>0. SlotInv /\ ActInv /\ WireInv /\ CallInv /\ QueueAt(k) /\ RanInv /\ RunAt(k)
  BY DEF DuplexInv, QueueInv, RunInv
<1>1. act[k].at = "run" /\ s2c[k] # << >> /\ s2c' = [s2c EXCEPT ![k] = Tail(@)]
      /\ UNCHANGED <<slot, state, seen, srv, sentOn, ran, opened>>
  BY DEF Receive
<1>2. k <= opened /\ opened \in Nat /\ act[k] \in ActType /\ Limits(act[k])
      /\ act[k].pending \subseteq Reqs /\ act[k].subs \subseteq Subs
  BY <1>0, <1>1, AtWork
<1>3. s2c \in [Sockets -> Seq(Frames)] /\ s2c[k] \in Seq(Frames) BY <1>0 DEF WireInv
<1>4. Tail(s2c[k]) \in Seq(Frames) /\ Behead(s2c[k], Tail(s2c[k])) /\ x \in Frames
  BY <1>1, <1>3, TailBeheads
<1>5. /\ s2c' \in [Sockets -> Seq(Frames)] /\ s2c'[k] = Tail(s2c[k])
      /\ \A j \in Sockets : j # k => s2c'[j] = s2c[j]
  BY <1>1, <1>3, <1>4
<1>6. FromFrames(k) BY <1>4, <1>5, FramesShift
<1>7. r \in Reqs /\ x.op \in {"reply", "subscribed", "event"} BY <1>4 DEF Frames
<1>8. /\ (x.op = "reply") = (r \in Works)
      /\ x.op = "reply" => ran[r] = 1
  BY <1>0, <1>4 DEF RunAt, Behead
<1>9. x.op # "reply" => r \in Subs BY <1>7, <1>8, Apart
\* Nothing but the frame is gone.
<1>10. CASE UNCHANGED <<act, req, c2s>>
  <2>1. ActInv' /\ SlotInv' /\ CallInv' /\ RanInv'
    BY <1>0, <1>1, <1>10, ActorsRest, SlotRests, CallsRest DEF callVars
  <2>2. Known(k)' \subseteq Known(k) BY <1>10 DEF Known
  <2>3. WireInv' /\ RunAt(k)' /\ SubAt(k)' BY <1>1, <1>2, <1>5, <1>6, <1>10, <2>2, NothingWritten
  <2>4. QueueAt(k)' BY <1>0, <1>10, QueueShrinks
  <2>5. QueueInv' /\ RunInv' /\ SubInv'
    <3>1. \A j \in Sockets : j # k =>
             /\ act'[j] = act[j] /\ c2s'[j] = c2s[j] /\ s2c'[j] = s2c[j] /\ srv'[j] = srv[j]
             /\ \A y \in Reqs : (j \in sentOn'[y]) = (j \in sentOn[y])
      BY <1>1, <1>5, <1>10
    <3>2. ran' = ran /\ \A y \in Reqs : req'[y] = req[y] BY <1>1, <1>10
    <3>3. QED BY <2>3, <2>4, <3>1, <3>2, OneSocket
  <2>6. QED BY <2>1, <2>3, <2>5 DEF DuplexInv
<1> DEFINE a == [act[k] EXCEPT !.pending = @ \ {r}]
<1>11. a \in ActType /\ a.queue = act[k].queue /\ a.pending = act[k].pending \ {r}
       /\ a.subs = act[k].subs
  BY <1>2 DEF ActType
<1>12. CASE x.op = "reply"
  <2>1. act' = [act EXCEPT ![k] = a] /\ UNCHANGED c2s BY <1>12 DEF Receive
  <2>2. CASE r \notin act[k].pending
    <3>1. req' = req BY <1>12, <2>2 DEF Receive
    <3>2. a = act[k]
      <4>1. act[k].pending \ {r} = act[k].pending BY <2>2
      <4>2. QED BY <1>2, <4>1 DEF ActType
    <3>3. act \in [Sockets -> ActType] BY <1>0 DEF ActInv
    <3> HIDE DEF a
    <3>4. act' = act BY <2>1, <3>2, <3>3
    <3>5. QED BY <1>10, <2>1, <3>1, <3>4
  <2>3. CASE r \in act[k].pending
    <3> DEFINE n == Finish(r, "replied")
    <3>1. req' = [req EXCEPT ![r] = n] BY <1>12, <2>3 DEF Receive
    <3>2. /\ req[r] \in ReqType /\ req[r].at = "pending" /\ req[r].sock = k
          /\ Call(req[r], sentOn[r]) /\ req[r].result \in {"none", "unknown"}
      BY <1>1, <2>3, Pending
    <3>3. n \in ReqType /\ n.at = "done" /\ n.sock = k /\ n.waits = req[r].waits
          /\ n.result = IF req[r].result = "none" THEN "replied" ELSE req[r].result
      BY <1>7, <3>2, Finishing
    <3> HIDE DEF n
    <3>4. Call(n, sentOn[r]) BY <3>2, <3>3 DEF Call
    <3>5. ran[r] = 1 BY <1>8, <1>12
    <3> HIDE DEF a, r
    <3>6. QED
      BY ONLY DuplexAssumption, DuplexInv, k \in Sockets, <2>3, <1>1, <1>5, <1>6, <1>11,
              <2>1, <3>1, <3>3, <3>4, <3>5, ReleaseKeeps
  <2>4. QED BY <2>2, <2>3
<1>13. CASE x.op = "subscribed" /\ r \in act[k].pending
  <2>1. /\ req[r] \in ReqType /\ req[r].at = "pending" /\ req[r].sock = k
        /\ Call(req[r], sentOn[r]) /\ req[r].result \in {"none", "unknown"}
    BY <1>1, <1>13, Pending
  <2>2. r \in Subs /\ r \notin Works BY <1>8, <1>9, <1>13
  <2>3. CASE req[r].waits
    <3> DEFINE n == [req[r] EXCEPT !.at = "open", !.result = "replied"]
               b == [a EXCEPT !.subs = @ \cup {r}]
    <3>1. req' = [req EXCEPT ![r] = n] /\ UNCHANGED c2s
      <4>1. req' = [req EXCEPT ![r].at = "open", ![r].result = "replied"] /\ UNCHANGED c2s
        BY <1>13, <2>3 DEF Receive
      <4>2. req \in [Reqs -> ReqType] BY <1>0 DEF CallInv
      <4>3. QED BY <1>7, <4>1, <4>2
    <3>2. act' = [act EXCEPT ![k] = b]
      <4>1. act' = [act EXCEPT ![k].pending = @ \ {r}, ![k].subs = @ \cup {r}]
        BY <1>13, <2>3 DEF Receive
      <4>2. act \in [Sockets -> ActType] BY <1>0 DEF ActInv
      <4>3. QED BY <4>1, <4>2
    <3>3. b \in ActType /\ b.queue = act[k].queue /\ b.pending = act[k].pending \ {r}
          /\ b.subs = act[k].subs \cup {r}
      BY <1>11, <2>2 DEF ActType
    <3>4. n \in ReqType /\ n.at = "open" /\ n.sock = k /\ n.waits /\ n.result = "replied"
      BY <2>1, <2>3 DEF ReqType
    <3> HIDE DEF n, a, b
    <3>5. Call(n, sentOn[r]) BY <2>1, <3>4 DEF Call
    <3> HIDE DEF r
    <3>6. QED
      BY ONLY DuplexAssumption, DuplexInv, k \in Sockets, <1>13, <1>1, <1>5, <1>6, <2>2,
              <3>1, <3>2, <3>3, <3>4, <3>5, ReleaseKeeps
  <2>4. CASE ~req[r].waits
    <3> DEFINE n == [req[r] EXCEPT !.at = "done"]
    <3>1. act' = [act EXCEPT ![k] = a] /\ req' = [req EXCEPT ![r] = n]
          /\ Write(k, <<Item("unsubscribe", r)>>)
      BY <1>13, <2>4 DEF Receive
    <3>2. n \in ReqType /\ n.at = "done" /\ n.sock = k /\ n.waits = req[r].waits
          /\ n.result = req[r].result /\ n.result # "replied"
      BY <2>1 DEF ReqType
    <3> HIDE DEF n, a
    <3>3. Call(n, sentOn[r]) BY <2>1, <3>2 DEF Call
    <3> HIDE DEF r
    <3>4. QED
      BY ONLY DuplexAssumption, DuplexInv, k \in Sockets, <1>13, <1>1, <1>5, <1>6, <1>11, <2>2,
              <3>1, <3>2, <3>3, ReleaseKeeps
  <2>5. QED BY <2>3, <2>4
<1>14. CASE x.op = "event" /\ r \in act[k].subs /\ full
  <2> DEFINE b == [act[k] EXCEPT !.subs = @ \ {r}]
  <2>1. act' = [act EXCEPT ![k] = b] /\ Write(k, <<Item("unsubscribe", r)>>) /\ UNCHANGED req
    BY <1>14 DEF Receive
  <2>2. b \in ActType /\ b.queue = act[k].queue /\ b.pending = act[k].pending
        /\ b.subs = act[k].subs \ {r}
    BY <1>2 DEF ActType
  <2> HIDE DEF b
  <2>3. Limits(b) BY <1>2, <2>2 DEF Limits
  <2>4. ActInv' /\ act'[k] = b /\ \A j \in Sockets : j # k => act'[j] = act[j]
    BY <1>0, <1>1, <1>2, <2>1, <2>2, <2>3, ActorMoves
  <2>5. r \notin act[k].pending BY <1>0, <1>14 DEF QueueAt
  <2>6. r \in Known(k) /\ Known(k)' \subseteq Known(k) \ {r} BY <1>14, <2>2, <2>4, <2>5 DEF Known
  <2>7. r \in Subs BY <1>9, <1>14
  <2>8. SlotInv' /\ CallInv' /\ RanInv' BY <1>0, <1>1, <2>1, SlotRests, CallsRest DEF callVars
  <2>9. QueueAt(k)'
    <3>1. act'[k].queue = act[k].queue /\ act'[k].pending \subseteq act[k].pending
          /\ act'[k].subs \subseteq act[k].subs
      BY <2>2, <2>4
    <3>2. QED BY <1>0, <2>1, <3>1, QueueShrinks
  <2> HIDE DEF r
  <2>10. /\ WireInv' /\ RunAt(k)' /\ SubAt(k)'
         /\ \A j \in Sockets : j # k => c2s'[j] = c2s[j]
    BY <1>1, <1>2, <1>5, <1>6, <2>1, <2>6, <2>7, UnsubscribeWritten
  <2>11. QueueInv' /\ RunInv' /\ SubInv'
    <3>1. \A j \in Sockets : j # k =>
             /\ act'[j] = act[j] /\ c2s'[j] = c2s[j] /\ s2c'[j] = s2c[j] /\ srv'[j] = srv[j]
             /\ \A y \in Reqs : (j \in sentOn'[y]) = (j \in sentOn[y])
      BY <1>1, <1>5, <2>4, <2>10
    <3>2. ran' = ran /\ \A y \in Reqs : req'[y] = req[y] BY <1>1, <2>1
    <3>3. QED BY <2>9, <2>10, <3>1, <3>2, OneSocket
  <2>12. QED BY <2>4, <2>8, <2>10, <2>11 DEF DuplexInv
<1>15. QED
  <2>1. CASE /\ x.op # "reply" /\ ~(x.op = "subscribed" /\ r \in act[k].pending)
             /\ ~(x.op = "event" /\ r \in act[k].subs /\ full)
    <3>1. UNCHANGED <<act, req, c2s>> BY <2>1 DEF Receive
    <3>2. QED BY <1>10, <3>1
  <2>2. QED BY <1>12, <1>13, <1>14, <2>1

LEMMA StopKeeps ==
  ASSUME DuplexAssumption, DuplexInv, NEW k \in Sockets, Stop(k) PROVE DuplexInv'
<1> DEFINE a == [act[k] EXCEPT !.at = "stopping", !.stop = TRUE]
<1>0. SlotInv /\ ActInv /\ WireInv /\ CallInv /\ QueueAt(k) /\ RanInv
  BY DEF DuplexInv, QueueInv
<1>1. act[k].at = "run" /\ UNCHANGED <<slot, state, seen, wireVars, callVars, opened>>
      /\ UNCHANGED <<c2s, s2c, srv, req, sentOn, ran>>
  BY DEF Stop, wireVars, callVars
<1>2. k <= opened /\ opened \in Nat /\ act[k] \in ActType /\ Limits(act[k])
      /\ act \in [Sockets -> ActType]
  BY <1>0, <1>1, AtWork
<1>3. a \in ActType /\ a.queue = act[k].queue /\ a.pending = act[k].pending
      /\ a.subs = act[k].subs
  BY <1>2 DEF ActType
<1>4. act' = [act EXCEPT ![k] = a] BY <1>2 DEF Stop
<1> HIDE DEF a
<1>5. Limits(a) BY <1>2, <1>3 DEF Limits
<1>6. ActInv' /\ act'[k] = a /\ \A j \in Sockets : j # k => act'[j] = act[j]
  BY <1>0, <1>1, <1>2, <1>3, <1>4, <1>5, ActorMoves
<1>7. SlotInv' /\ CallInv' /\ RanInv' BY <1>0, <1>1, SlotRests, CallsRest
<1>8. QueueAt(k)'
  <2>1. act'[k].queue = act[k].queue /\ act'[k].pending \subseteq act[k].pending
        /\ act'[k].subs \subseteq act[k].subs
    BY <1>3, <1>6
  <2>2. QED BY <1>0, <1>1, <2>1, QueueShrinks
<1>9. WireInv' /\ RunAt(k)' /\ SubAt(k)'
  <2>1. s2c' \in [Sockets -> Seq(Frames)] /\ FromFrames(k) BY <1>0, <1>1, FramesStay DEF WireInv
  <2>2. Known(k)' \subseteq Known(k) BY <1>3, <1>6 DEF Known
  <2>3. QED BY <1>1, <1>2, <2>1, <2>2, NothingWritten
<1>10. QueueInv' /\ RunInv' /\ SubInv'
  <2>1. \A j \in Sockets : j # k =>
           /\ act'[j] = act[j] /\ c2s'[j] = c2s[j] /\ s2c'[j] = s2c[j] /\ srv'[j] = srv[j]
           /\ \A y \in Reqs : (j \in sentOn'[y]) = (j \in sentOn[y])
    BY <1>1, <1>6
  <2>2. ran' = ran /\ \A y \in Reqs : req'[y] = req[y] BY <1>1
  <2>3. QED BY <1>8, <1>9, <2>1, <2>2, OneSocket
<1>11. QED BY <1>6, <1>7, <1>9, <1>10 DEF DuplexInv

\* Callers that were waiting learn that the outcome is unknown.
LEMMA CallersEnd ==
  ASSUME CallInv, RanInv, NEW T,
         \A r \in Reqs : r \in T => req[r].at \in {"queued", "pending"},
         req' = [r \in Reqs |-> IF r \in T THEN Finish(r, "unknown") ELSE req[r]],
         UNCHANGED <<sentOn, ran>>
  PROVE  /\ CallInv' /\ RanInv'
         /\ \A r \in Reqs : r \notin T => req'[r] = req[r]
<1>1. ASSUME NEW r \in Reqs
      PROVE  /\ req'[r] \in ReqType /\ Call(req'[r], sentOn[r])
             /\ req'[r].result = "replied" => req[r].result = "replied"
             /\ r \notin T => req'[r] = req[r]
  <2>1. req[r] \in ReqType /\ Call(req[r], sentOn[r]) BY DEF CallInv
  <2>2. CASE r \in T
    <3> DEFINE n == Finish(r, "unknown")
    <3>1. req'[r] = n /\ req[r].at \in {"queued", "pending"} BY <2>2
    <3>2. n \in ReqType /\ n.at = "done" /\ n.sock = req[r].sock /\ n.waits = req[r].waits
          /\ n.result = IF req[r].result = "none" THEN "unknown" ELSE req[r].result
      BY <2>1, Finishing
    <3> HIDE DEF n
    <3>3. n.result = "unknown" BY <2>1, <3>1, <3>2 DEF Call
    <3>4. Call(n, sentOn[r]) BY <2>1, <3>1, <3>2, <3>3 DEF Call
    <3>5. QED BY <2>2, <3>1, <3>2, <3>3, <3>4
  <2>3. CASE r \notin T BY <2>1, <2>3
  <2>4. QED BY <2>2, <2>3
<1>2. CallInv'
  <2>1. req' \in [Reqs -> ReqType]
    <3>1. req' = [r \in Reqs |-> req'[r]] OBVIOUS
    <3>2. QED BY <1>1, <3>1
  <2>2. QED BY <1>1, <2>1 DEF CallInv, Call
<1>3. RanInv'
  <2>1. \A r \in Works : r \in Reqs BY ItemsAreTyped
  <2>2. QED BY <1>1, <2>1 DEF RanInv
<1>4. QED BY <1>1, <1>2, <1>3

\* A socket's loss is published, unless it was.
LEMMA LostKeeps ==
  ASSUME DuplexAssumption, SlotInv, NEW k \in Sockets, state' = Lost(k),
         UNCHANGED <<slot, seen, opened>>
  PROVE  SlotInv'
<1>1. CASE state.socket = k
  <2>1. /\ state' \in [socket : 0..MaxSockets, loss : Nat] /\ state'.socket = 0
        /\ state'.loss = state.loss + (IF state.socket = 0 THEN 0 ELSE 1)
    BY <1>1, LossIsPublished
  <2>2. MaxSockets \in Nat BY DEF DuplexAssumption
  <2>3. QED BY <2>1, <2>2 DEF SlotInv, EachLossCountedOnce, LossIsNeverHidden
<1>2. CASE state.socket # k
  <2>1. state' = state BY <1>2 DEF Lost
  <2>2. QED BY <2>1, SlotRests
<1>3. QED BY <1>1, <1>2

LEMMA RetireKeeps ==
  ASSUME DuplexAssumption, DuplexInv, NEW k \in Sockets, Retire(k) PROVE DuplexInv'
<1> DEFINE a == [act[k] EXCEPT !.at = "draining", !.pending = {}, !.subs = {}]
<1>0. SlotInv /\ ActInv /\ WireInv /\ CallInv /\ QueueAt(k) /\ RanInv
  BY DEF DuplexInv, QueueInv
<1>1. /\ act[k].at = "stopping" /\ state' = Lost(k)
      /\ req' = [r \in Reqs |-> IF r \in act[k].pending THEN Finish(r, "unknown") ELSE req[r]]
      /\ UNCHANGED <<slot, seen, c2s, s2c, srv, sentOn, ran, opened>>
  BY DEF Retire, wireVars
<1>2. k <= opened /\ opened \in Nat /\ act[k] \in ActType /\ Limits(act[k])
      /\ act \in [Sockets -> ActType] /\ act[k].queue \in Seq(Items)
      /\ act[k].pending \subseteq Reqs
  BY <1>0, <1>1, AtWork
<1>3. a \in ActType /\ a.queue = act[k].queue /\ a.pending = {} /\ a.subs = {}
  BY <1>2 DEF ActType
<1>4. act' = [act EXCEPT ![k] = a] BY <1>2 DEF Retire
<1> HIDE DEF a
<1>5. Limits(a)
  <2>1. IsFiniteSet({}) /\ Cardinality({}) = 0 BY FS_EmptySet
  <2>2. MaxInFlight \in Nat BY DEF DuplexAssumption
  <2>3. QED BY <1>2, <1>3, <2>1, <2>2 DEF Limits
<1>6. ActInv' /\ act'[k] = a /\ \A j \in Sockets : j # k => act'[j] = act[j]
  BY <1>0, <1>1, <1>2, <1>3, <1>4, <1>5, ActorMoves
<1>7. SlotInv' BY <1>0, <1>1, LostKeeps
<1>8. \A r \in act[k].pending : req[r].at = "pending" /\ req[r].sock = k
  BY <1>0 DEF QueueAt
<1>9. CallInv' /\ RanInv' /\ \A r \in Reqs : r \notin act[k].pending => req'[r] = req[r]
  <2>1. \A r \in Reqs : r \in act[k].pending => req[r].at \in {"queued", "pending"} BY <1>8
  <2>2. QED BY <1>0, <1>1, <2>1, CallersEnd
<1>10. QueueAt(k)'
  <2>1. act'[k].queue = act[k].queue /\ act'[k].pending = {} /\ act'[k].subs = {} BY <1>3, <1>6
  <2>2. Kinds(act'[k].queue) BY <1>0, <2>1 DEF QueueAt, Kinds
  <2>3. ASSUME NEW i \in DOMAIN act[k].queue, act[k].queue[i].op # "unsubscribe"
        PROVE  req'[act[k].queue[i].r] = req[act[k].queue[i].r]
    <3>1. act[k].queue[i].r \in Reqs BY <1>0, <1>2, QueuedItem DEF QueueAt
    <3>2. act[k].queue[i].r \notin act[k].pending BY <1>0, <1>8, <2>3 DEF QueueAt
    <3>3. QED BY <1>9, <3>1, <3>2
  <2>4. ASSUME NEW i \in DOMAIN act'[k].queue, act'[k].queue[i].op # "unsubscribe"
        PROVE  /\ req'[act'[k].queue[i].r].at = "queued" /\ req'[act'[k].queue[i].r].sock = k
               /\ \A j \in DOMAIN act'[k].queue : act'[k].queue[j] = act'[k].queue[i] => j = i
    BY <1>0, <2>1, <2>3, <2>4 DEF QueueAt
  <2>5. QED BY <2>1, <2>2, <2>4 DEF QueueAt
<1>11. WireInv' /\ RunAt(k)' /\ SubAt(k)'
  <2>1. s2c' \in [Sockets -> Seq(Frames)] /\ FromFrames(k) BY <1>0, <1>1, FramesStay DEF WireInv
  <2>2. Known(k)' \subseteq Known(k) BY <1>3, <1>6 DEF Known
  <2>3. QED BY <1>1, <1>2, <2>1, <2>2, NothingWritten
<1>12. QueueInv' /\ RunInv' /\ SubInv'
  <2>1. \A j \in Sockets : j # k =>
           /\ act'[j] = act[j] /\ c2s'[j] = c2s[j] /\ s2c'[j] = s2c[j] /\ srv'[j] = srv[j]
           /\ \A y \in Reqs : (j \in sentOn'[y]) = (j \in sentOn[y])
    BY <1>1, <1>6
  <2>2. ran' = ran /\ \A y \in Reqs : req'[y] = req[y] \/ req[y].sock = k BY <1>1, <1>8, <1>9
  <2>3. QED BY <1>10, <1>11, <2>1, <2>2, OneSocket
<1>13. QED BY <1>6, <1>7, <1>9, <1>11, <1>12 DEF DuplexInv

LEMMA DropKeeps ==
  ASSUME DuplexAssumption, DuplexInv, NEW k \in Sockets, Drop(k) PROVE DuplexInv'
<1> DEFINE a == [act[k] EXCEPT !.at = "gone", !.queue = << >>]
           v == [srv[k] EXCEPT !.up = FALSE, !.subs = {}]
           T == {r \in Reqs : \E i \in DOMAIN act[k].queue : act[k].queue[i] = Item(OpOf(r), r)}
<1>0. SlotInv /\ ActInv /\ WireInv /\ CallInv /\ QueueAt(k) /\ RanInv /\ RunAt(k) /\ SubAt(k)
  BY DEF DuplexInv, QueueInv, RunInv, SubInv
<1>1. /\ act[k].at = "draining"
      /\ c2s' = [c2s EXCEPT ![k] = << >>] /\ s2c' = [s2c EXCEPT ![k] = << >>]
      /\ UNCHANGED <<slot, state, seen, sentOn, ran, opened>>
  BY DEF Drop
<1>2. k <= opened /\ opened \in Nat /\ act[k] \in ActType /\ Limits(act[k])
      /\ act \in [Sockets -> ActType] /\ act[k].queue \in Seq(Items)
      /\ act[k].pending \subseteq Reqs /\ act[k].subs \subseteq Subs
  BY <1>0, <1>1, AtWork
<1>3. srv[k] \in SrvType /\ Slots(srv[k]) /\ srv \in [Sockets -> SrvType] BY <1>0 DEF WireInv
<1>4. a \in ActType /\ a.queue = << >> /\ a.pending = act[k].pending /\ a.subs = act[k].subs
  <2>1. << >> \in Seq(Items) OBVIOUS
  <2>2. QED BY <1>2, <2>1 DEF ActType
<1>5. v \in SrvType /\ v.busy = srv[k].busy /\ ~v.up BY <1>3 DEF SrvType
<1>6. act' = [act EXCEPT ![k] = a] BY <1>2 DEF Drop
<1>7. srv' = [srv EXCEPT ![k] = v] BY <1>3 DEF Drop
<1>8. req' = [r \in Reqs |-> IF r \in T THEN Finish(r, "unknown") ELSE req[r]]
  BY DEF Drop
<1> HIDE DEF a, v
<1>9. Limits(a) /\ Slots(v)
  <2>1. MaxInFlight \in Nat BY DEF DuplexAssumption
  <2>2. QED BY <1>2, <1>3, <1>4, <1>5, <2>1 DEF Limits, Slots
<1>10. ActInv' /\ act'[k] = a /\ \A j \in Sockets : j # k => act'[j] = act[j]
  BY <1>0, <1>1, <1>2, <1>4, <1>6, <1>9, ActorMoves
<1>11. /\ c2s' \in [Sockets -> Seq(Items)] /\ c2s'[k] = << >>
       /\ s2c' \in [Sockets -> Seq(Frames)] /\ s2c'[k] = << >>
       /\ \A j \in Sockets : j # k => c2s'[j] = c2s[j] /\ s2c'[j] = s2c[j]
  BY <1>0, <1>1 DEF WireInv
<1>12. WireInv' /\ srv'[k] = v /\ \A j \in Sockets : j # k => srv'[j] = srv[j]
  <2>1. \A j \in Sockets : j # k => c2s'[j] = c2s[j] BY <1>11
  <2>2. QED BY <1>0, <1>1, <1>2, <1>5, <1>7, <1>9, <1>11, <2>1, VesselMoves
<1>13. SlotInv' BY <1>0, <1>1, SlotRests
<1>14. ASSUME NEW r \in T PROVE req[r].at = "queued" /\ req[r].sock = k
  <2>1. PICK i \in DOMAIN act[k].queue : act[k].queue[i] = Item(OpOf(r), r) BY <1>14
  <2>2. act[k].queue[i].op # "unsubscribe" /\ act[k].queue[i].r = r
    BY <2>1, ItemsAreTyped DEF OpOf
  <2>3. QED BY <1>0, <2>2 DEF QueueAt
<1> HIDE DEF T
<1>15. CallInv' /\ RanInv' /\ \A r \in Reqs : r \notin T => req'[r] = req[r]
  <2>1. \A r \in Reqs : r \in T => req[r].at \in {"queued", "pending"} BY <1>14
  <2>2. QED BY <1>0, <1>1, <1>8, <2>1, CallersEnd
<1>16. QueueAt(k)'
  <2>1. act'[k].queue = << >> /\ act'[k].pending = act[k].pending /\ act'[k].subs = act[k].subs
    BY <1>4, <1>10
  <2>2. \A r \in act[k].pending \cup act[k].subs : r \in Reqs /\ r \notin T
    <3>1. Subs \subseteq Reqs BY ItemsAreTyped
    <3>2. QED BY <1>0, <1>2, <1>14, <3>1 DEF QueueAt
  <2>3. \A r \in act[k].pending \cup act[k].subs : req'[r] = req[r] BY <1>15, <2>2
  <2>4. DOMAIN act'[k].queue = {} BY <2>1
  <2>5. Kinds(act'[k].queue) BY <2>4 DEF Kinds
  <2>6. QED BY <1>0, <2>1, <2>3, <2>4, <2>5 DEF QueueAt
<1>17. DOMAIN c2s'[k] = {} /\ DOMAIN s2c'[k] = {} BY <1>11
<1>18. RunAt(k)'
  <2>1. Kinds(c2s'[k]) BY <1>17 DEF Kinds
  <2>2. \A r \in srv'[k].busy : ran'[r] = 0 /\ k \in sentOn'[r] BY <1>0, <1>1, <1>5, <1>12 DEF RunAt
  <2>3. QED BY <1>17, <2>1, <2>2 DEF RunAt
<1>19. SubAt(k)'
  <2>1. Known(k)' = Known(k) BY <1>4, <1>10 DEF Known
  <2>2. ~srv'[k].up BY <1>5, <1>12
  <2> SUFFICES ASSUME NEW s \in Subs PROVE SubAt(k)!(s)' BY DEF SubAt
  <2>3. SubAt(k)!(s) BY <1>0 DEF SubAt
  <2>4. QED BY <1>1, <1>17, <2>1, <2>2, <2>3
<1>20. QueueInv' /\ RunInv' /\ SubInv'
  <2>1. \A j \in Sockets : j # k =>
           /\ act'[j] = act[j] /\ c2s'[j] = c2s[j] /\ s2c'[j] = s2c[j] /\ srv'[j] = srv[j]
           /\ \A y \in Reqs : (j \in sentOn'[y]) = (j \in sentOn[y])
    BY <1>1, <1>10, <1>11, <1>12
  <2>2. ran' = ran /\ \A y \in Reqs : req'[y] = req[y] \/ req[y].sock = k BY <1>1, <1>14, <1>15
  <2>3. QED BY <1>16, <1>18, <1>19, <2>1, <2>2, OneSocket
<1>21. QED BY <1>10, <1>12, <1>13, <1>15, <1>20 DEF DuplexInv

-----------------------------------------------------------------------------
(* Vessel's end.                                                           *)

\* Replies are about commands that ran.
Answers(k) ==
  \A i \in DOMAIN s2c'[k] : /\ (s2c'[k][i].op = "reply") = (s2c'[k][i].r \in Works)
                            /\ s2c'[k][i].op = "reply" => ran'[s2c'[k][i].r] = 1

LEMMA AnswersStay ==
  ASSUME NEW k, RunAt(k), s2c'[k] = s2c[k], UNCHANGED ran PROVE Answers(k)
BY DEF RunAt, Answers

LEMMA AnswersGrow ==
  ASSUME NEW k, RunAt(k), NEW y, Behind(s2c[k], s2c'[k], y),
         (y.op = "reply") = (y.r \in Works), y.op = "reply" => ran'[y.r] = 1,
         \A r \in Works : ran[r] = 1 => ran'[r] = 1
  PROVE  Answers(k)
<1> SUFFICES ASSUME NEW i \in DOMAIN s2c'[k]
             PROVE  /\ (s2c'[k][i].op = "reply") = (s2c'[k][i].r \in Works)
                    /\ s2c'[k][i].op = "reply" => ran'[s2c'[k][i].r] = 1
  BY DEF Answers
<1>1. i \in 1..Len(s2c[k]) \/ i = Len(s2c[k]) + 1 BY DEF Behind
<1>2. CASE i \in 1..Len(s2c[k])
  <2>1. i \in DOMAIN s2c[k] /\ s2c'[k][i] = s2c[k][i] BY <1>2 DEF Behind
  <2>2. QED BY <2>1 DEF RunAt
<1>3. CASE i = Len(s2c[k]) + 1 BY <1>3 DEF Behind
<1>4. QED BY <1>1, <1>2, <1>3

\* Vessel reads a frame; a command takes a slot.
LEMMA RunShift ==
  ASSUME DuplexAssumption, WireInv, NEW k \in Sockets, RunAt(k), c2s[k] # << >>, NEW x, x = Head(c2s[k]),
         Behead(c2s[k], c2s'[k]), UNCHANGED <<sentOn, ran>>, Answers(k),
         \/ srv'[k].busy = srv[k].busy
         \/ x.op = "command" /\ srv'[k].busy = srv[k].busy \cup {x.r}
  PROVE  RunAt(k)'
<1> DEFINE p == c2s[k]
           q == c2s'[k]
<1>1. p \in Seq(Items) /\ Kinds(p) BY DEF WireInv, RunAt
<1>2. Kinds(q) BY <1>1, KindsStay
<1>3. x = p[1] /\ 1 \in DOMAIN p
      /\ \A i \in DOMAIN q : i \in Nat /\ i >= 1 /\ i + 1 \in DOMAIN p /\ q[i] = p[i + 1]
  BY DEF Behead
<1>4. x.op = "command" => ran[x.r] = 0 /\ k \in sentOn[x.r] BY <1>3 DEF RunAt
<1>5. \A r \in srv'[k].busy : ran'[r] = 0 /\ k \in sentOn'[r] BY <1>4 DEF RunAt
<1> HIDE DEF p, q
<1>6. ASSUME NEW i \in DOMAIN q, q[i].op = "command"
      PROVE  /\ ran[q[i].r] = 0 /\ k \in sentOn[q[i].r] /\ q[i].r \notin srv'[k].busy
             /\ \A j \in DOMAIN q : q[j] = q[i] => j = i
  <2>1. i + 1 \in DOMAIN p /\ q[i] = p[i + 1] /\ i + 1 # 1 /\ i \in Nat BY <1>3
  <2>2. ran[q[i].r] = 0 /\ k \in sentOn[q[i].r] /\ q[i].r \notin srv[k].busy
    BY <1>6, <2>1 DEF RunAt, p
  <2>3. x.op = "command" => q[i].r # x.r
    <3> SUFFICES ASSUME x.op = "command", q[i].r = x.r PROVE FALSE OBVIOUS
    <3>1. p[i + 1] = Item("command", x.r) BY <1>1, <1>6, <2>1, QueuedItem
    <3>2. p[1] = Item("command", x.r) BY <1>1, <1>3, QueuedItem
    <3>3. i + 1 = 1 BY <1>3, <1>6, <2>1, <3>1, <3>2 DEF RunAt, p
    <3>4. QED BY <2>1, <3>3
  <2>4. \A j \in DOMAIN q : q[j] = q[i] => j = i
    <3> SUFFICES ASSUME NEW j \in DOMAIN q, q[j] = q[i] PROVE j = i OBVIOUS
    <3>1. j + 1 \in DOMAIN p /\ q[j] = p[j + 1] /\ j \in Nat BY <1>3
    <3>2. j + 1 = i + 1 BY <1>6, <2>1, <3>1 DEF RunAt, p
    <3>3. QED BY <2>1, <3>1, <3>2
  <2>5. QED BY <2>2, <2>3, <2>4
<1>7. QED BY <1>2, <1>5, <1>6 DEF RunAt, Answers, q

\* ... and a subscription begins or ends.
LEMMA SubShift ==
  ASSUME DuplexAssumption, WireInv, NEW k \in Sockets, RunAt(k), SubAt(k), c2s[k] # << >>,
         NEW x, x = Head(c2s[k]),
         Behead(c2s[k], c2s'[k]), UNCHANGED sentOn, Known(k)' = Known(k),
         srv'[k].up => /\ srv[k].up
                       /\ \/ x.op = "command" /\ srv'[k].subs = srv[k].subs
                          \/ x.op = "subscribe" /\ srv'[k].subs = srv[k].subs \cup {x.r}
                          \/ x.op = "unsubscribe" /\ srv'[k].subs = srv[k].subs \ {x.r}
  PROVE  SubAt(k)'
<1> DEFINE p == c2s[k]
           q == c2s'[k]
<1>1. p \in Seq(Items) /\ Kinds(p) BY DEF WireInv, RunAt
<1>2. /\ x = p[1] /\ 1 \in DOMAIN p
      /\ \A i \in DOMAIN q : i \in Nat /\ i >= 1 /\ i + 1 \in DOMAIN p /\ q[i] = p[i + 1]
      /\ \A i \in DOMAIN p : i \in Nat /\ (i # 1 => i - 1 \in DOMAIN q /\ q[i - 1] = p[i])
  BY DEF Behead
<1>3. p[1] = Item(x.op, x.r) BY <1>1, <1>2, QueuedItem
<1> SUFFICES ASSUME NEW s \in Subs PROVE SubAt(k)!(s)' BY DEF SubAt
<1> DEFINE A(i) == p[i] = Item("subscribe", s)
           D(i) == p[i] = Item("unsubscribe", s)
<1>4. /\ k \notin sentOn[s] => \A i \in DOMAIN p : ~A(i) /\ ~D(i)
      /\ \A i, j \in DOMAIN p : D(i) /\ D(j) => i = j
      /\ srv[k].up => \A i \in DOMAIN p : D(i) =>
           s \in srv[k].subs \/ \E j \in DOMAIN p : j < i /\ A(j)
      /\ s \in Known(k) =>
           /\ k \in sentOn[s] /\ \A i \in DOMAIN p : ~D(i)
           /\ srv[k].up => s \in srv[k].subs \/ \E j \in DOMAIN p : A(j)
  BY DEF SubAt, Asked, Dropped
<1>5. A(1) => x.op = "subscribe" /\ x.r = s BY <1>3, ItemsAreTyped
<1>6. x.op = "unsubscribe" /\ x.r = s => D(1) BY <1>3
<1>7. srv'[k].up /\ A(1) => s \in srv'[k].subs BY <1>5
<1>8. srv'[k].up /\ s \in srv[k].subs /\ ~D(1) => s \in srv'[k].subs BY <1>6
<1> HIDE DEF p, q
<1>9. k \notin sentOn'[s] => \A i \in DOMAIN q :
        q[i] # Item("subscribe", s) /\ q[i] # Item("unsubscribe", s)
  BY <1>2, <1>4
<1>10. ASSUME NEW i \in DOMAIN q, NEW j \in DOMAIN q,
              q[i] = Item("unsubscribe", s), q[j] = Item("unsubscribe", s)
       PROVE  i = j
  <2>1. i + 1 = j + 1 /\ i \in Nat /\ j \in Nat BY <1>2, <1>4, <1>10
  <2>2. QED BY <2>1
<1>11. ASSUME srv'[k].up, NEW i \in DOMAIN q, q[i] = Item("unsubscribe", s)
       PROVE  s \in srv'[k].subs \/ \E j \in DOMAIN q : j < i /\ q[j] = Item("subscribe", s)
  <2>1. i + 1 \in DOMAIN p /\ D(i + 1) /\ i \in Nat /\ i >= 1 /\ i + 1 # 1 BY <1>2, <1>11
  <2>2. ~D(1) BY <1>2, <1>4, <2>1
  <2>3. CASE s \in srv[k].subs BY <1>8, <1>11, <2>2, <2>3
  <2>4. CASE \E j \in DOMAIN p : j < i + 1 /\ A(j)
    <3>1. PICK j \in DOMAIN p : j < i + 1 /\ A(j) BY <2>4
    <3>2. CASE j = 1 BY <1>7, <1>11, <3>1, <3>2
    <3>3. CASE j # 1
      <4>1. j - 1 \in DOMAIN q /\ q[j - 1] = Item("subscribe", s) /\ j \in Nat
        BY <1>2, <3>1, <3>3
      <4>2. j - 1 < i BY <2>1, <3>1, <4>1
      <4>3. QED BY <4>1, <4>2
    <3>4. QED BY <3>2, <3>3
  <2>5. QED BY <1>4, <1>11, <2>1, <2>3, <2>4
<1>12. ASSUME s \in Known(k)'
       PROVE  /\ k \in sentOn'[s]
              /\ \A i \in DOMAIN q : q[i] # Item("unsubscribe", s)
              /\ srv'[k].up => \/ s \in srv'[k].subs
                               \/ \E j \in DOMAIN q : q[j] = Item("subscribe", s)
  <2>1. s \in Known(k) BY <1>12
  <2>2. k \in sentOn'[s] /\ \A i \in DOMAIN p : ~D(i) BY <1>4, <2>1
  <2>3. \A i \in DOMAIN q : q[i] # Item("unsubscribe", s) BY <1>2, <2>2
  <2>4. ASSUME srv'[k].up, s \notin srv'[k].subs
        PROVE  \E j \in DOMAIN q : q[j] = Item("subscribe", s)
    <3>1. s \notin srv[k].subs BY <1>2, <1>8, <2>2, <2>4
    <3>2. PICK j \in DOMAIN p : A(j) BY <1>4, <2>1, <2>4, <3>1
    <3>3. j # 1 BY <1>7, <2>4, <3>2
    <3>4. QED BY <1>2, <3>2, <3>3
  <2>5. QED BY <2>2, <2>3, <2>4
<1>13. QED BY <1>9, <1>10, <1>11, <1>12 DEF Asked, Dropped, q

\* Vessel's end moves, and neither the actor nor a caller.
LEMMA VesselKeeps ==
  ASSUME DuplexAssumption, DuplexInv, NEW k \in Sockets, k <= opened, opened \in Nat,
         NEW v \in SrvType, Slots(v), srv' = [srv EXCEPT ![k] = v],
         UNCHANGED <<slot, state, seen, act, req, sentOn, ran, opened>>,
         c2s' \in [Sockets -> Seq(Items)], s2c' \in [Sockets -> Seq(Frames)],
         \A j \in Sockets : j # k => c2s'[j] = c2s[j] /\ s2c'[j] = s2c[j],
         srv'[k] = v => RunAt(k)' /\ SubAt(k)'
  PROVE  DuplexInv'
<1>0. SlotInv /\ ActInv /\ WireInv /\ CallInv /\ QueueAt(k) /\ RanInv
  BY DEF DuplexInv, QueueInv
<1>1. WireInv' /\ srv'[k] = v /\ \A j \in Sockets : j # k => srv'[j] = srv[j]
  <2>1. \A j \in Sockets : j # k => c2s'[j] = c2s[j] OBVIOUS
  <2>2. opened' = opened OBVIOUS
  <2>3. QED
    BY ONLY k \in Sockets, v \in SrvType, Slots(v), k <= opened, opened \in Nat,
            srv' = [srv EXCEPT ![k] = v], c2s' \in [Sockets -> Seq(Items)],
            s2c' \in [Sockets -> Seq(Frames)], <1>0, <2>1, <2>2, VesselMoves
<1>2. SlotInv' /\ ActInv' /\ CallInv' /\ RanInv'
  BY <1>0, SlotRests, ActorsRest, CallsRest DEF callVars
<1>3. QueueAt(k)' BY <1>0, QueueShrinks
<1>4. QueueInv' /\ RunInv' /\ SubInv'
  <2>1. \A j \in Sockets : j # k =>
           /\ act'[j] = act[j] /\ c2s'[j] = c2s[j] /\ s2c'[j] = s2c[j] /\ srv'[j] = srv[j]
           /\ \A y \in Reqs : (j \in sentOn'[y]) = (j \in sentOn[y])
    BY <1>1
  <2>2. ran' = ran /\ \A y \in Reqs : req'[y] = req[y] OBVIOUS
  <2>3. QED BY <1>1, <1>3, <2>1, <2>2, OneSocket
<1>5. QED BY <1>1, <1>2, <1>4 DEF DuplexInv

\* A socket Vessel reads from was opened.
LEMMA Opened ==
  ASSUME DuplexInv, NEW k \in Sockets, srv[k].up \/ c2s[k] # << >>
  PROVE  /\ k <= opened /\ opened \in Nat /\ srv[k] \in SrvType /\ Slots(srv[k])
         /\ c2s[k] \in Seq(Items) /\ s2c[k] \in Seq(Frames)
<1>1. opened \in Nat /\ k \in Nat BY DEF DuplexInv, SlotInv, Sockets
<1>2. ~(k > opened) BY DEF DuplexInv, WireInv
<1>3. QED BY <1>1, <1>2 DEF DuplexInv, WireInv

LEMMA ServeKeeps ==
  ASSUME DuplexAssumption, DuplexInv, NEW k \in Sockets, Serve(k) PROVE DuplexInv'
<1> DEFINE x == Head(c2s[k])
           closed == [srv[k] EXCEPT !.up = FALSE, !.subs = {}]
<1>0. WireInv /\ RunAt(k) /\ SubAt(k) BY DEF DuplexInv, RunInv, SubInv
<1>1. /\ srv[k].up /\ c2s[k] # << >> /\ c2s' = [c2s EXCEPT ![k] = Tail(@)]
      /\ UNCHANGED <<slot, state, seen, act, req, sentOn, ran, opened>>
  BY DEF Serve, callVars
<1>2. k <= opened /\ opened \in Nat /\ srv[k] \in SrvType /\ Slots(srv[k])
      /\ c2s[k] \in Seq(Items) /\ s2c[k] \in Seq(Frames)
  BY <1>1, Opened
<1>3. Tail(c2s[k]) \in Seq(Items) /\ Behead(c2s[k], Tail(c2s[k])) /\ x \in Items
  BY <1>1, <1>2, TailBeheads
<1>4. /\ c2s' \in [Sockets -> Seq(Items)] /\ Behead(c2s[k], c2s'[k])
      /\ \A j \in Sockets : j # k => c2s'[j] = c2s[j]
  BY <1>0, <1>1, <1>3 DEF WireInv
<1>5. x.op \in {"command", "subscribe", "unsubscribe"} /\ x.r \in Reqs
      /\ (x.op = "command") = (x.r \in Works)
  <2>1. x = c2s[k][1] /\ 1 \in DOMAIN c2s[k] BY <1>3 DEF Behead
  <2>2. Kinds(c2s[k]) BY <1>0 DEF RunAt
  <2>3. (x.op = "command") = (x.r \in Works) BY <2>1, <2>2 DEF Kinds
  <2>4. QED BY <1>3, <2>3 DEF Items
<1>6. x.op # "command" => x.r \in Subs BY <1>5, Apart
<1>7. Known(k)' = Known(k) BY <1>1 DEF Known
<1>8. srv \in [Sockets -> SrvType] BY <1>0 DEF WireInv
\* What Vessel's end becomes, and what it answers.
<1>9. ASSUME NEW v \in SrvType, Slots(v), srv' = [srv EXCEPT ![k] = v],
             s2c' \in [Sockets -> Seq(Frames)], \A j \in Sockets : j # k => s2c'[j] = s2c[j],
             Answers(k),
             v.busy = srv[k].busy \/ (x.op = "command" /\ v.busy = srv[k].busy \cup {x.r}),
             v.up => \/ x.op = "command" /\ v.subs = srv[k].subs
                     \/ x.op = "subscribe" /\ v.subs = srv[k].subs \cup {x.r}
                     \/ x.op = "unsubscribe" /\ v.subs = srv[k].subs \ {x.r}
      PROVE  DuplexInv'
  <2> HIDE DEF x
  <2>0. x = Head(c2s[k]) BY DEF x
  <2>1. srv'[k] = v BY <1>8, <1>9
  <2>2. RunAt(k)' BY <1>0, <1>1, <1>4, <1>9, <2>0, <2>1, RunShift
  <2>3. SubAt(k)' BY <1>0, <1>1, <1>4, <1>7, <1>9, <2>0, <2>1, SubShift
  <2>4. QED BY <1>1, <1>2, <1>4, <1>9, <2>2, <2>3, VesselKeeps
<1>10. closed \in SrvType /\ closed.busy = srv[k].busy /\ ~closed.up BY <1>2 DEF SrvType
<1>11. s2c \in [Sockets -> Seq(Frames)] BY <1>0 DEF WireInv
<1>12. ASSUME CloseServer(k), UNCHANGED s2c PROVE DuplexInv'
  <2>1. srv' = [srv EXCEPT ![k] = closed] BY <1>8, <1>12 DEF CloseServer
  <2> HIDE DEF closed, x
  <2>2. Slots(closed) BY <1>2, <1>10 DEF Slots
  <2>3. Answers(k) BY <1>0, <1>1, <1>12, AnswersStay
  <2>4. s2c' \in [Sockets -> Seq(Frames)] /\ \A j \in Sockets : j # k => s2c'[j] = s2c[j]
    BY <1>11, <1>12
  <2>5. closed.busy = srv[k].busy \/ (x.op = "command" /\ closed.busy = srv[k].busy \cup {x.r})
    BY <1>10
  <2>6. closed.up =>
         \/ x.op = "command" /\ closed.subs = srv[k].subs
         \/ x.op = "subscribe" /\ closed.subs = srv[k].subs \cup {x.r}
         \/ x.op = "unsubscribe" /\ closed.subs = srv[k].subs \ {x.r}
    BY <1>10
  <2>7. closed \in SrvType BY <1>10
  <2>8. QED BY ONLY <1>9, <2>1, <2>2, <2>3, <2>4, <2>5, <2>6, <2>7
<1>13. CASE x.op = "command"
  <2>1. UNCHANGED s2c
        /\ IF Cardinality(srv[k].busy) < MaxInFlight
           THEN srv' = [srv EXCEPT ![k].busy = @ \cup {x.r}] ELSE CloseServer(k)
    BY <1>13 DEF Serve
  <2>2. CASE Cardinality(srv[k].busy) < MaxInFlight
    <3> DEFINE v == [srv[k] EXCEPT !.busy = @ \cup {x.r}]
    <3>1. srv' = [srv EXCEPT ![k] = v] BY <1>8, <2>1, <2>2
    <3>2. v \in SrvType /\ v.busy = srv[k].busy \cup {x.r} /\ v.subs = srv[k].subs
      BY <1>2, <1>5, <1>13 DEF SrvType
    <3> HIDE DEF v, x
    <3>3. IsFiniteSet(srv[k].busy \cup {x.r}) /\ Cardinality(srv[k].busy \cup {x.r}) <= MaxInFlight
      BY <1>2, <2>2, OneMore DEF Slots
    <3>4. Slots(v) BY <3>2, <3>3 DEF Slots
    <3>5. Answers(k) BY <1>0, <1>1, <2>1, AnswersStay
    <3>6. s2c' \in [Sockets -> Seq(Frames)] /\ \A j \in Sockets : j # k => s2c'[j] = s2c[j]
      BY <1>11, <2>1
    <3>7. QED BY ONLY <1>9, <1>13, <3>1, <3>2, <3>4, <3>5, <3>6
  <2>3. CASE ~(Cardinality(srv[k].busy) < MaxInFlight) BY <1>12, <2>1, <2>3
  <2>4. QED BY <2>2, <2>3
<1>14. CASE x.op = "subscribe"
  <2> DEFINE v == [srv[k] EXCEPT !.subs = @ \cup {x.r}]
             y == Item("subscribed", x.r)
  <2>1. srv' = [srv EXCEPT ![k] = v] /\ s2c' = [s2c EXCEPT ![k] = Append(@, y)]
    BY <1>8, <1>14 DEF Serve
  <2>2. v \in SrvType /\ v.busy = srv[k].busy /\ v.subs = srv[k].subs \cup {x.r}
    BY <1>2, <1>6, <1>14 DEF SrvType
  <2>3. y \in Frames /\ y.op = "subscribed" /\ y.r = x.r BY <1>5, ItemsAreTyped
  <2> HIDE DEF v, x, y
  <2>4. Slots(v) BY <1>2, <2>2 DEF Slots
  <2>5. Append(s2c[k], y) \in Seq(Frames) /\ Behind(s2c[k], Append(s2c[k], y), y)
    BY <1>2, <2>3, AppendIsBehind
  <2>6. s2c' \in [Sockets -> Seq(Frames)] /\ s2c'[k] = Append(s2c[k], y)
        /\ \A j \in Sockets : j # k => s2c'[j] = s2c[j]
    BY <1>11, <2>1, <2>5
  <2>7. Answers(k)
    <3>1. (y.op = "reply") = (y.r \in Works) /\ y.op # "reply" BY <1>5, <1>14, <2>3
    <3>2. Behind(s2c[k], s2c'[k], y) BY <2>5, <2>6
    <3>3. \A r \in Works : ran[r] = 1 => ran'[r] = 1 BY <1>1
    <3>4. QED BY <1>0, <3>1, <3>2, <3>3, AnswersGrow
  <2>8. srv' = [srv EXCEPT ![k] = v] BY <2>1
  <2>9. v.busy = srv[k].busy \/ (x.op = "command" /\ v.busy = srv[k].busy \cup {x.r})
    BY <1>14, <2>2
  <2>10. v.up =>
         \/ x.op = "command" /\ v.subs = srv[k].subs
         \/ x.op = "subscribe" /\ v.subs = srv[k].subs \cup {x.r}
         \/ x.op = "unsubscribe" /\ v.subs = srv[k].subs \ {x.r}
    BY <1>14, <2>2
  <2>11. v \in SrvType BY <2>2
  <2>12. QED BY ONLY <1>9, <2>4, <2>6, <2>7, <2>8, <2>9, <2>10, <2>11
<1>15. CASE x.op = "unsubscribe"
  <2>1. UNCHANGED s2c
        /\ IF x.r \in srv[k].subs
           THEN srv' = [srv EXCEPT ![k].subs = @ \ {x.r}] ELSE CloseServer(k)
    BY <1>15 DEF Serve
  <2>2. CASE x.r \in srv[k].subs
    <3> DEFINE v == [srv[k] EXCEPT !.subs = @ \ {x.r}]
    <3>1. srv' = [srv EXCEPT ![k] = v] BY <1>8, <2>1, <2>2
    <3>2. v \in SrvType /\ v.busy = srv[k].busy /\ v.subs = srv[k].subs \ {x.r}
      BY <1>2 DEF SrvType
    <3> HIDE DEF v, x
    <3>3. Slots(v) BY <1>2, <3>2 DEF Slots
    <3>4. Answers(k) BY <1>0, <1>1, <2>1, AnswersStay
    <3>5. s2c' \in [Sockets -> Seq(Frames)] /\ \A j \in Sockets : j # k => s2c'[j] = s2c[j]
      BY <1>11, <2>1
    <3>6. v.busy = srv[k].busy \/ (x.op = "command" /\ v.busy = srv[k].busy \cup {x.r})
      BY <1>15, <3>2
    <3>7. v.up =>
           \/ x.op = "command" /\ v.subs = srv[k].subs
           \/ x.op = "subscribe" /\ v.subs = srv[k].subs \cup {x.r}
           \/ x.op = "unsubscribe" /\ v.subs = srv[k].subs \ {x.r}
      BY <1>15, <3>2
    <3>8. v \in SrvType BY <3>2
    <3>9. QED BY ONLY <1>9, <3>1, <3>3, <3>4, <3>5, <3>6, <3>7, <3>8
  <2>3. CASE x.r \notin srv[k].subs BY <1>12, <2>1, <2>3
  <2>4. QED BY <2>2, <2>3
<1>16. QED BY <1>5, <1>13, <1>14, <1>15

\* A command runs: at one socket, and for the first time.
LEMMA RunCommandKeeps ==
  ASSUME DuplexAssumption, DuplexInv, NEW k \in Sockets, NEW r \in Works, RunCommand(k, r)
  PROVE  DuplexInv'
<1> DEFINE v == [srv[k] EXCEPT !.busy = @ \ {r}]
           y == Item("reply", r)
<1>0. SlotInv /\ ActInv /\ WireInv /\ CallInv /\ QueueInv /\ RanInv /\ RunInv /\ SubInv
      /\ RunAt(k)
  BY DEF DuplexInv, RunInv
<1>1. /\ r \in srv[k].busy /\ ran' = [ran EXCEPT ![r] = @ + 1]
      /\ s2c' = IF srv[k].up THEN [s2c EXCEPT ![k] = Append(@, y)] ELSE s2c
      /\ UNCHANGED <<slot, state, seen, act, c2s, req, sentOn, opened>>
  BY DEF RunCommand
<1>2. srv \in [Sockets -> SrvType] /\ srv[k] \in SrvType /\ Slots(srv[k])
      /\ s2c \in [Sockets -> Seq(Frames)] /\ c2s \in [Sockets -> Seq(Items)]
  BY <1>0 DEF WireInv
<1>3. srv' = [srv EXCEPT ![k] = v] BY <1>2 DEF RunCommand
<1>4. v \in SrvType /\ v.busy = srv[k].busy \ {r} /\ v.up = srv[k].up /\ v.subs = srv[k].subs
  BY <1>2 DEF SrvType
<1>5. y \in Frames /\ y.op = "reply" /\ y.r = r /\ r \in Reqs BY ItemsAreTyped
<1> HIDE DEF v, y
<1>6. Slots(v)
  <2>1. IsFiniteSet(srv[k].busy \ {r}) /\ Cardinality(srv[k].busy \ {r}) <= MaxInFlight
    BY <1>2, OneLess DEF Slots
  <2>2. QED BY <1>4, <2>1 DEF Slots
<1>7. ran[r] = 0 /\ k \in sentOn[r] BY <1>0, <1>1 DEF RunAt
<1>8. ran' \in [Works -> Nat] /\ ran'[r] = 1 /\ \A w \in Works : w # r => ran'[w] = ran[w]
  BY <1>0, <1>1, <1>7 DEF RanInv
<1>9. \A j \in Sockets : j \in sentOn[r] => j = k
  <2>1. sentOn[r] \subseteq {req[r].sock} BY <1>0, <1>5 DEF CallInv, Call
  <2>2. QED BY <1>7, <2>1
<1>10. Append(s2c[k], y) \in Seq(Frames) /\ Behind(s2c[k], Append(s2c[k], y), y)
  BY <1>2, <1>5, AppendIsBehind
<1>11. /\ s2c' \in [Sockets -> Seq(Frames)]
       /\ IF srv[k].up THEN s2c'[k] = Append(s2c[k], y) ELSE s2c'[k] = s2c[k]
       /\ \A j \in Sockets : j # k => s2c'[j] = s2c[j]
  BY <1>1, <1>2, <1>10
<1>12. srv'[k] = v /\ srv' \in [Sockets -> SrvType] /\ \A j \in Sockets : j # k => srv'[j] = srv[j]
  BY <1>2, <1>3, <1>4
<1>13. WireInv'
  <2>1. ASSUME NEW j \in Sockets
        PROVE  Slots(srv'[j]) /\ (j > opened => c2s[j] = << >> /\ ~srv'[j].up)
    <3>1. CASE j = k BY <1>0, <1>4, <1>6, <1>12, <3>1 DEF WireInv
    <3>2. CASE j # k BY <1>0, <1>12, <3>2 DEF WireInv
    <3>3. QED BY <3>1, <3>2
  <2>2. QED BY <1>1, <1>2, <1>11, <1>12, <2>1 DEF WireInv, Slots
<1>14. SlotInv' /\ ActInv' /\ QueueInv' BY <1>0, <1>1, SlotRests, ActorsRest, QueuesRest
<1>15. CallInv' BY <1>0, <1>1 DEF CallInv, Call
<1>16. RanInv'
  <2> SUFFICES ASSUME NEW w \in Works
               PROVE  /\ ran'[w] <= 1 /\ (ran'[w] # 0 => sentOn[w] # {})
                      /\ (req[w].result = "replied" => ran'[w] = 1)
    BY <1>1, <1>8 DEF RanInv
  <2>1. CASE w = r BY <1>7, <1>8, <2>1
  <2>2. CASE w # r BY <1>0, <1>8, <2>2 DEF RanInv
  <2>3. QED BY <2>1, <2>2
<1>17. RunInv'
  <2> SUFFICES ASSUME NEW j \in Sockets PROVE RunAt(j)' BY DEF RunInv
  <2>1. RunAt(j) /\ c2s[j] \in Seq(Items) /\ srv[j] \in SrvType BY <1>0, <1>2 DEF RunInv
  <2>2. /\ srv'[j].busy \subseteq srv[j].busy /\ r \notin srv'[j].busy
        /\ r \in srv[j].busy \/ j \notin sentOn[r]
    <3>1. CASE j = k BY <1>1, <1>4, <1>12, <3>1
    <3>2. CASE j # k
      <4>1. j \notin sentOn[r] BY <1>9, <3>2
      <4>2. r \notin srv[j].busy BY <2>1, <4>1 DEF RunAt
      <4>3. QED BY <1>12, <3>2, <4>1, <4>2
    <3>3. QED BY <3>1, <3>2
  <2>3. Kinds(c2s[j]) BY <2>1 DEF RunAt
  <2>4. ASSUME NEW i \in DOMAIN c2s[j], c2s[j][i].op = "command"
        PROVE  /\ ran'[c2s[j][i].r] = 0 /\ j \in sentOn[c2s[j][i].r]
               /\ c2s[j][i].r \notin srv'[j].busy
               /\ \A m \in DOMAIN c2s[j] : c2s[j][m] = c2s[j][i] => m = i
    <3>1. /\ ran[c2s[j][i].r] = 0 /\ j \in sentOn[c2s[j][i].r] /\ c2s[j][i].r \notin srv[j].busy
          /\ \A m \in DOMAIN c2s[j] : c2s[j][m] = c2s[j][i] => m = i
      BY <2>1, <2>4 DEF RunAt
    <3>2. c2s[j][i].r \in Works BY <2>3, <2>4 DEF Kinds
    <3>3. c2s[j][i].r # r BY <2>2, <3>1
    <3>4. QED BY <1>8, <2>2, <3>1, <3>2, <3>3
  <2>5. \A w \in srv'[j].busy : ran'[w] = 0 /\ j \in sentOn[w]
    <3>1. srv[j].busy \subseteq Works BY <2>1 DEF SrvType
    <3>2. QED BY <1>8, <2>1, <2>2, <3>1 DEF RunAt
  <2>6. Answers(j)
    <3>1. \A w \in Works : ran[w] = 1 => ran'[w] = 1 BY <1>7, <1>8
    <3>2. CASE j = k /\ srv[k].up
      <4>1. Behind(s2c[j], s2c'[j], y) BY <1>10, <1>11, <3>2
      <4>2. (y.op = "reply") = (y.r \in Works) /\ ran'[y.r] = 1 BY <1>5, <1>8
      <4>3. QED BY <2>1, <3>1, <4>1, <4>2, AnswersGrow
    <3>3. CASE ~(j = k /\ srv[k].up)
      <4>1. s2c'[j] = s2c[j] BY <1>11, <3>3
      <4>2. QED BY <2>1, <3>1, <4>1 DEF RunAt, Answers
    <3>4. QED BY <3>2, <3>3
  <2>7. QED BY <1>1, <2>3, <2>4, <2>5, <2>6 DEF RunAt, Answers, Kinds
<1>18. SubInv'
  <2> SUFFICES ASSUME NEW j \in Sockets PROVE SubAt(j)' BY DEF SubInv
  <2>1. SubAt(j) /\ c2s'[j] = c2s[j] BY <1>0, <1>1 DEF SubInv
  <2>2. srv'[j].up = srv[j].up /\ srv'[j].subs = srv[j].subs BY <1>4, <1>12
  <2>3. Known(j)' \subseteq Known(j) BY <1>1 DEF Known
  <2>4. QED BY <1>1, <2>1, <2>2, <2>3, SubElsewhere
<1>19. QED BY <1>13, <1>14, <1>15, <1>16, <1>17, <1>18 DEF DuplexInv

LEMMA PublishEventKeeps ==
  ASSUME DuplexAssumption, DuplexInv, NEW k \in Sockets, NEW s \in Subs, PublishEvent(k, s)
  PROVE  DuplexInv'
<1> DEFINE y == Item("event", s)
           v == srv[k]
<1>0. WireInv /\ RunAt(k) /\ SubAt(k) BY DEF DuplexInv, RunInv, SubInv
<1>1. /\ srv[k].up /\ s2c' = [s2c EXCEPT ![k] = Append(@, y)]
      /\ UNCHANGED <<slot, state, seen, act, c2s, srv, req, sentOn, ran, opened>>
  BY DEF PublishEvent, callVars
<1>2. k <= opened /\ opened \in Nat /\ v \in SrvType /\ Slots(v) BY <1>1, Opened
<1>3. srv \in [Sockets -> SrvType] /\ c2s \in [Sockets -> Seq(Items)]
      /\ s2c \in [Sockets -> Seq(Frames)]
  BY <1>0 DEF WireInv
<1>4. srv' = [srv EXCEPT ![k] = v] BY <1>1, <1>3
<1>5. y \in Frames /\ y.op = "event" /\ y.r = s /\ s \in Reqs BY ItemsAreTyped
<1> HIDE DEF y, v
<1>6. Append(s2c[k], y) \in Seq(Frames) /\ Behind(s2c[k], Append(s2c[k], y), y)
  BY <1>3, <1>5, AppendIsBehind
<1>7. s2c' \in [Sockets -> Seq(Frames)] /\ s2c'[k] = Append(s2c[k], y)
      /\ \A j \in Sockets : j # k => s2c'[j] = s2c[j]
  BY <1>1, <1>3, <1>6
<1>8. Answers(k)
  <2>1. (y.op = "reply") = (y.r \in Works) /\ y.op # "reply" BY <1>5, Apart
  <2>2. \A w \in Works : ran[w] = 1 => ran'[w] = 1 BY <1>1
  <2>3. Behind(s2c[k], s2c'[k], y) BY <1>6, <1>7
  <2>4. QED BY <1>0, <2>1, <2>2, <2>3, AnswersGrow
<1>9. RunAt(k)' BY <1>0, <1>1, <1>8 DEF RunAt, Answers, Kinds
<1>10. SubAt(k)'
  <2>1. Known(k)' \subseteq Known(k) BY <1>1 DEF Known
  <2>2. QED BY <1>0, <1>1, <2>1, SubElsewhere
<1>11. c2s' \in [Sockets -> Seq(Items)]
       /\ \A j \in Sockets : j # k => c2s'[j] = c2s[j] /\ s2c'[j] = s2c[j]
  BY <1>1, <1>3, <1>7
<1>12. QED BY <1>1, <1>2, <1>4, <1>7, <1>9, <1>10, <1>11, VesselKeeps

LEMMA ServerEndsKeeps ==
  ASSUME DuplexAssumption, DuplexInv, NEW k \in Sockets, ServerEnds(k) PROVE DuplexInv'
<1> DEFINE v == [srv[k] EXCEPT !.up = FALSE, !.subs = {}]
<1>0. WireInv /\ RunAt(k) /\ SubAt(k) BY DEF DuplexInv, RunInv, SubInv
<1>1. srv[k].up /\ UNCHANGED <<slot, state, seen, act, c2s, s2c, req, sentOn, ran, opened>>
  BY DEF ServerEnds, callVars
<1>2. k <= opened /\ opened \in Nat /\ srv[k] \in SrvType /\ Slots(srv[k]) BY <1>1, Opened
<1>3. srv \in [Sockets -> SrvType] /\ c2s \in [Sockets -> Seq(Items)]
      /\ s2c \in [Sockets -> Seq(Frames)]
  BY <1>0 DEF WireInv
<1>4. srv' = [srv EXCEPT ![k] = v] BY <1>3 DEF ServerEnds, CloseServer
<1>5. v \in SrvType /\ v.busy = srv[k].busy /\ ~v.up BY <1>2 DEF SrvType
<1> HIDE DEF v
<1>6. Slots(v) /\ srv'[k] = v BY <1>2, <1>3, <1>4, <1>5 DEF Slots
<1>7. RunAt(k)' BY <1>0, <1>1, <1>5, <1>6, RunElsewhere
<1>8. SubAt(k)'
  <2>1. Known(k)' \subseteq Known(k) BY <1>1 DEF Known
  <2>2. QED BY <1>0, <1>1, <1>5, <1>6, <2>1, SubElsewhere
<1>9. c2s' \in [Sockets -> Seq(Items)] /\ s2c' \in [Sockets -> Seq(Frames)]
      /\ \A j \in Sockets : j # k => c2s'[j] = c2s[j] /\ s2c'[j] = s2c[j]
  BY <1>1, <1>3
<1>10. QED BY <1>1, <1>2, <1>4, <1>5, <1>6, <1>7, <1>8, <1>9, VesselKeeps

-----------------------------------------------------------------------------
(* The theorem.                                                            *)

LEMMA DuplexRests == ASSUME DuplexInv, UNCHANGED vars PROVE DuplexInv'
<1>1. UNCHANGED <<slot, state, seen, opened, act, wireVars, callVars>>
  BY DEF vars, wireVars, callVars
<1>2. SlotInv' BY <1>1, SlotRests DEF DuplexInv
<1>3. QED BY <1>1, <1>2, RestRests DEF DuplexInv

LEMMA DuplexBegins == ASSUME DuplexAssumption, Init PROVE DuplexInv
<1>1. MaxSockets \in Nat /\ MaxInFlight \in Nat /\ 0 \in 0..MaxSockets
      /\ \A k \in Sockets : k \in Nat /\ k > 0
  BY DEF DuplexAssumption, Sockets
<1>2. IsFiniteSet({}) /\ Cardinality({}) = 0 BY FS_EmptySet
<1>3. SlotInv BY <1>1 DEF Init, SlotInv, EachLossCountedOnce, LossIsNeverHidden
<1>4. ActInv
  <2> DEFINE a == [at |-> "none", stop |-> FALSE, queue |-> << >>, pending |-> {}, subs |-> {}]
  <2>1. a \in ActType
    <3>1. << >> \in Seq(Items) OBVIOUS
    <3>2. QED BY <3>1 DEF ActType
  <2>2. a.at = "none" /\ a.queue = << >> /\ a.pending = {} /\ a.subs = {} OBVIOUS
  <2>3. act = [k \in Sockets |-> a] BY DEF Init
  <2> HIDE DEF a
  <2>4. Limits(a) /\ Unborn(a) BY <1>1, <1>2, <2>2 DEF Limits, Unborn
  <2>5. QED BY <2>1, <2>3, <2>4 DEF ActInv
<1>5. WireInv
  <2> DEFINE v == [up |-> FALSE, busy |-> {}, subs |-> {}]
  <2>1. v \in SrvType /\ v.busy = {} /\ ~v.up BY DEF SrvType
  <2>2. srv = [k \in Sockets |-> v] /\ c2s = [k \in Sockets |-> << >>]
        /\ s2c = [k \in Sockets |-> << >>]
    BY DEF Init
  <2> HIDE DEF v
  <2>3. Slots(v) BY <1>1, <1>2, <2>1 DEF Slots
  <2>4. << >> \in Seq(Items) /\ << >> \in Seq(Frames) OBVIOUS
  <2>5. QED BY <2>1, <2>2, <2>3, <2>4 DEF WireInv
<1>6. CallInv
  <2> DEFINE n == [at |-> "idle", sock |-> 0, waits |-> TRUE, result |-> "none"]
  <2>1. n \in ReqType /\ Call(n, {}) BY <1>1 DEF ReqType, Call
  <2>2. req = [r \in Reqs |-> n] /\ sentOn = [r \in Reqs |-> {}] BY DEF Init
  <2> HIDE DEF n
  <2>3. QED BY <2>1, <2>2 DEF CallInv
<1>7. RanInv
  <2>1. ran = [r \in Works |-> 0] BY DEF Init
  <2>2. \A r \in Works : r \in Reqs /\ req[r].result = "none"
    BY ItemsAreTyped DEF Init
  <2>3. QED BY <2>1, <2>2 DEF RanInv
<1>8. ASSUME NEW k \in Sockets
      PROVE  /\ act[k].queue = << >> /\ act[k].pending = {} /\ act[k].subs = {}
             /\ c2s[k] = << >> /\ s2c[k] = << >> /\ srv[k].busy = {}
  BY DEF Init
<1>9. QueueInv BY <1>8 DEF QueueInv, QueueAt, Kinds
<1>10. RunInv BY <1>8 DEF RunInv, RunAt, Kinds
<1>11. SubInv BY <1>8 DEF SubInv, SubAt, Known
<1>12. QED BY <1>3, <1>4, <1>5, <1>6, <1>7, <1>9, <1>10, <1>11 DEF DuplexInv

LEMMA DuplexKeeps == ASSUME DuplexAssumption, DuplexInv, [Next]_vars PROVE DuplexInv'
<1>1. CASE BeginConnect \/ ConnectFails \/ FinishConnect \/ Disconnect \/ Observe
  BY <1>1, BeginConnectKeeps, ConnectFailsKeeps, FinishConnectKeeps, DisconnectKeeps, ObserveKeeps
<1>2. CASE \E r \in Reqs : TakeHandle(r) \/ Enqueue(r) \/ Abandon(r)
  BY <1>2, TakeHandleKeeps, EnqueueKeeps, AbandonKeeps
<1>3. CASE \E r \in Privates : EnqueueBound(r) BY <1>3, EnqueueBoundKeeps
<1>4. CASE \E s \in Subs : DropReader(s) BY <1>4, DropReaderKeeps
<1>5. CASE \E k \in Sockets : TakeItem(k) \/ Expire(k) \/ Stop(k) \/ Retire(k) \/ Drop(k)
  BY <1>5, TakeItemKeeps, ExpireKeeps, StopKeeps, RetireKeeps, DropKeeps
<1>6. CASE \E k \in Sockets : \E full \in BOOLEAN : Receive(k, full) BY <1>6, ReceiveKeeps
<1>7. CASE \E k \in Sockets : Serve(k) \/ ServerEnds(k) BY <1>7, ServeKeeps, ServerEndsKeeps
<1>8. CASE \E k \in Sockets : \E r \in Works : RunCommand(k, r) BY <1>8, RunCommandKeeps
<1>9. CASE \E k \in Sockets : \E s \in Subs : PublishEvent(k, s) BY <1>9, PublishEventKeeps
<1>10. CASE UNCHANGED vars BY <1>10, DuplexRests
<1>11. QED
  BY <1>1, <1>2, <1>3, <1>4, <1>5, <1>6, <1>7, <1>8, <1>9, <1>10 DEF Next

LEMMA DuplexIsSafe == ASSUME DuplexAssumption, DuplexInv PROVE Safety
<1>0. SlotInv /\ ActInv /\ WireInv /\ CallInv /\ RanInv /\ SubInv BY DEF DuplexInv
<1>1. TypeOK BY <1>0 DEF TypeOK, SlotInv, ActInv, WireInv, CallInv, RanInv,
                         ActType, SrvType, ReqType, Limits, Slots
<1>2. RefusedNeverSent
  <2> SUFFICES ASSUME NEW r \in Reqs, req[r].result = "refused"
               PROVE  sentOn[r] = {} /\ (r \in Works => ran[r] = 0)
    BY DEF RefusedNeverSent
  <2>1. sentOn[r] = {} BY <1>0 DEF CallInv, Call
  <2>2. QED BY <1>0, <2>1 DEF RanInv
<1>3. RunsAtMostOnce BY <1>0 DEF RunsAtMostOnce, RanInv
<1>4. PrivateStaysBound
  <2>1. Privates \subseteq Reqs BY ItemsAreTyped
  <2>2. QED BY <1>0, <2>1 DEF PrivateStaysBound, CallInv, Call
<1>5. EachLossCountedOnce /\ LossIsNeverHidden BY <1>0 DEF SlotInv
<1>6. UnsubscribesOnce
  <2> SUFFICES ASSUME NEW k \in Sockets, srv[k].up, c2s[k] # << >>,
                      Head(c2s[k]).op = "unsubscribe"
               PROVE  Head(c2s[k]).r \in srv[k].subs
    BY DEF UnsubscribesOnce
  <2> DEFINE s == Head(c2s[k]).r
  <2>1. c2s[k] \in Seq(Items) /\ Kinds(c2s[k]) /\ SubAt(k)
    BY <1>0 DEF WireInv, DuplexInv, RunInv, RunAt, SubInv
  <2>2. Head(c2s[k]) = c2s[k][1] /\ 1 \in DOMAIN c2s[k]
        /\ \A j \in DOMAIN c2s[k] : ~(j < 1)
    BY <2>1, TailBeheads DEF Behead
  <2>3. s \in Subs /\ Dropped(k, s, 1) BY <2>1, <2>2, QueuedItem DEF Dropped
  <2> HIDE DEF s
  <2>4. s \in srv[k].subs BY <2>1, <2>2, <2>3 DEF SubAt
  <2>5. QED BY <2>4 DEF s
<1>7. QED BY <1>1, <1>2, <1>3, <1>4, <1>5, <1>6 DEF Safety

(* Whatever callers, actors and Vessel do, and whenever either side drops    *)
(* the socket, what Helm reports as not sent was not, no command runs twice, *)
(* private input stays on its socket, each loss counts once and no           *)
(* unsubscribe is wasted (helm duplex.rs, vessel duplex.rs).                 *)
THEOREM DuplexSafe == ASSUME DuplexAssumption PROVE Spec => []Safety
<1>1. Init => DuplexInv BY DuplexBegins
<1>2. DuplexInv /\ [Next]_vars => DuplexInv' BY DuplexKeeps
<1>3. DuplexInv => Safety BY DuplexIsSafe
<1>4. QED BY <1>1, <1>2, <1>3, PTL DEF Spec
=============================================================================
