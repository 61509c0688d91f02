------------------------------- MODULE Duplex -------------------------------
(***************************************************************************)
(* The WebSocket that Helm's clones of one connection share, and Vessel's  *)
(* end of it.  A slot holds the current socket's handle; an actor task per *)
(* socket multiplexes commands and event subscriptions over it and fails   *)
(* whatever is outstanding when the socket ends; a later operation opens   *)
(* another socket and resends nothing.  Vessel runs every command in a     *)
(* detached task and closes the socket on anything out of protocol.        *)
(*                                                                         *)
(* Callers, actors and Vessel interleave freely; either side may drop the  *)
(* socket at any moment, callers may stop waiting, deadlines may pass.     *)
(* Payloads, authority checks, pings, byte budgets and the reverse         *)
(* (browser) requests are left out.                                        *)
(***************************************************************************)
EXTENDS Naturals, Sequences, FiniteSets, SequencesExt

CONSTANTS
    Commands,      \* ordinary commands, sent on whatever socket is current
    Privates,      \* private terminal input, bound to the socket observed
    Subs,          \* event subscriptions
    MaxSockets,    \* sockets opened
    MaxInFlight    \* MAX_IN_FLIGHT: queue, pending requests, command slots

DuplexAssumption ==
    /\ Commands \cap Privates = {} /\ (Commands \cup Privates) \cap Subs = {}
    /\ MaxSockets \in Nat \ {0} /\ MaxInFlight \in Nat \ {0}

Works == Commands \cup Privates
Reqs == Works \cup Subs
Sockets == 1..MaxSockets

VARIABLES
    slot,    \* the shared connection and its lock
    state,   \* the watch channel: current socket and losses so far
    seen,    \* what a consumer of the watch last read
    act,     \* Helm's actor, per socket
    c2s,     \* frames to Vessel, per socket
    s2c,     \* frames to Helm, per socket
    srv,     \* Vessel's end, per socket
    req,     \* each request at its caller
    sentOn,  \* sockets a request was written to: not in the code
    ran,     \* how often Vessel ran a command: not in the code
    opened   \* sockets opened so far

vars == <<slot, state, seen, act, c2s, s2c, srv, req, sentOn, ran, opened>>

Items == [op : {"command", "subscribe", "unsubscribe"}, r : Reqs]
Frames == [op : {"reply", "subscribed", "event"}, r : Reqs]
Item(op, r) == [op |-> op, r |-> r]

TypeOK ==
    /\ slot \in [conn : 0..MaxSockets, connecting : BOOLEAN, stopped : BOOLEAN]
    /\ state \in [socket : 0..MaxSockets, loss : Nat]
    /\ seen \in [socket : 0..MaxSockets, loss : Nat]
    /\ act \in [Sockets -> [at : {"none", "run", "stopping", "draining", "gone"}, stop : BOOLEAN,
                            queue : Seq(Items), pending : SUBSET Reqs,
                            subs : SUBSET Subs]]
    /\ \A k \in Sockets :
          /\ Len(act[k].queue) <= MaxInFlight
          /\ Cardinality(act[k].pending) <= MaxInFlight
          /\ Cardinality(srv[k].busy) <= MaxInFlight
    /\ c2s \in [Sockets -> Seq(Items)] /\ s2c \in [Sockets -> Seq(Frames)]
    /\ srv \in [Sockets -> [up : BOOLEAN, busy : SUBSET Works, subs : SUBSET Subs]]
    /\ req \in [Reqs -> [at : {"idle", "handle", "queued", "pending", "open", "done"},
                         sock : 0..MaxSockets, waits : BOOLEAN,
                         result : {"none", "replied", "refused", "unknown"}]]
    /\ sentOn \in [Reqs -> SUBSET Sockets] /\ ran \in [Works -> Nat]
    /\ opened \in 0..MaxSockets

Init ==
    /\ slot = [conn |-> 0, connecting |-> FALSE, stopped |-> FALSE]
    /\ state = [socket |-> 0, loss |-> 0] /\ seen = state
    /\ act = [k \in Sockets |-> [at |-> "none", stop |-> FALSE, queue |-> << >>,
                                 pending |-> {}, subs |-> {}]]
    /\ c2s = [k \in Sockets |-> << >>] /\ s2c = [k \in Sockets |-> << >>]
    /\ srv = [k \in Sockets |-> [up |-> FALSE, busy |-> {}, subs |-> {}]]
    /\ req = [r \in Reqs |-> [at |-> "idle", sock |-> 0, waits |-> TRUE, result |-> "none"]]
    /\ sentOn = [r \in Reqs |-> {}] /\ ran = [r \in Works |-> 0]
    /\ opened = 0

callVars == <<req, sentOn, ran>>
wireVars == <<c2s, s2c, srv>>

---------------------------------------------------------------------------
\* The slot

\* A handle whose actor has neither stopped nor been told to.
Usable(k) == k # 0 /\ act[k].at = "run" /\ ~act[k].stop /\ ~slot.stopped

\* A socket that is still the published one is fenced and counted; one that was
\* fenced before is not counted again.
Lost(k) ==
    IF state.socket = k /\ k # 0 THEN [socket |-> 0, loss |-> state.loss + 1] ELSE state

\* Mutation: the old socket is forgotten without publishing its loss.
BeginConnect_NoFence ==
    /\ ~slot.connecting /\ ~slot.stopped /\ ~Usable(slot.conn)
    /\ opened < MaxSockets
    /\ slot' = [slot EXCEPT !.conn = 0, !.connecting = TRUE]
    /\ UNCHANGED <<state, seen, act, wireVars, callVars, opened>>

\* connection: under the lock, the handle of a stopped actor is dropped and its
\* loss is published before a new socket is.
BeginConnect ==
    /\ ~slot.connecting /\ ~slot.stopped /\ ~Usable(slot.conn)
    /\ opened < MaxSockets
    /\ slot' = [slot EXCEPT !.conn = 0, !.connecting = TRUE]
    /\ state' = IF slot.conn # 0 THEN Lost(state.socket) ELSE state
    /\ UNCHANGED <<seen, act, wireVars, callVars, opened>>

ConnectFails ==
    /\ slot.connecting
    /\ slot' = [slot EXCEPT !.connecting = FALSE]
    /\ UNCHANGED <<state, seen, act, wireVars, callVars, opened>>

\* Mutation: a new socket starts with what the old one left unanswered.
FinishConnect_Resends ==
    /\ slot.connecting /\ ~slot.stopped
    /\ LET k == opened + 1
           lost == {r \in Commands : req[r].at = "done" /\ req[r].result = "unknown"}
       IN /\ opened' = k
          /\ slot' = [slot EXCEPT !.conn = k, !.connecting = FALSE]
          /\ state' = [state EXCEPT !.socket = k]
          /\ act' = [act EXCEPT ![k].at = "run",
                                ![k].queue = SetToSeq({Item("command", r) : r \in lost})]
          /\ srv' = [srv EXCEPT ![k].up = TRUE]
    /\ UNCHANGED <<seen, c2s, s2c, callVars>>

FinishConnect ==
    /\ slot.connecting /\ ~slot.stopped
    /\ LET k == opened + 1
       IN /\ opened' = k
          /\ slot' = [slot EXCEPT !.conn = k, !.connecting = FALSE]
          /\ state' = [state EXCEPT !.socket = k]
          /\ act' = [act EXCEPT ![k].at = "run"]
          /\ srv' = [srv EXCEPT ![k].up = TRUE]
    /\ UNCHANGED <<seen, c2s, s2c, callVars>>

\* Slot::disconnect retires the activation for good.
Disconnect ==
    /\ ~slot.stopped
    /\ slot' = [slot EXCEPT !.stopped = TRUE]
    /\ state' = Lost(state.socket)
    /\ UNCHANGED <<seen, act, wireVars, callVars, opened>>

Observe ==
    /\ seen # state /\ seen' = state
    /\ UNCHANGED <<slot, state, act, wireVars, callVars, opened>>

---------------------------------------------------------------------------
\* Callers

Finish(r, result) ==
    [req[r] EXCEPT !.at = "done", !.result = IF @ = "none" THEN result ELSE @]

\* exchange and events take the current handle and give the lock back.
TakeHandle(r) ==
    /\ r \in Commands \cup Subs
    /\ req[r].at = "idle" /\ ~slot.connecting /\ Usable(slot.conn)
    /\ req' = [req EXCEPT ![r].at = "handle", ![r].sock = slot.conn]
    /\ UNCHANGED <<slot, state, seen, act, wireVars, sentOn, ran, opened>>

\* Mutation: the queue takes whatever is offered.
Accepts_Unbounded(k) == act[k].at \in {"run", "stopping", "draining"}

\* try_send on an actor's queue: refused when it is full or the actor is gone.
Accepts(k) == act[k].at \in {"run", "stopping", "draining"} /\ Len(act[k].queue) < MaxInFlight
Push(k, item) == act' = [act EXCEPT ![k].queue = Append(@, item)]

OpOf(r) == IF r \in Subs THEN "subscribe" ELSE "command"

Enqueue(r) ==
    /\ req[r].at = "handle"
    /\ LET k == req[r].sock
       IN IF Accepts(k)
          THEN Push(k, Item(OpOf(r), r)) /\ req' = [req EXCEPT ![r].at = "queued"]
          ELSE req' = [req EXCEPT ![r] = Finish(r, "refused")] /\ UNCHANGED act
    /\ UNCHANGED <<slot, state, seen, wireVars, sentOn, ran, opened>>

\* Mutation: the current handle is used whatever socket was observed.
EnqueueBound_AnySocket(r) ==
    /\ r \in Privates /\ req[r].at = "idle" /\ seen.socket # 0
    /\ ~slot.connecting
    /\ IF Usable(slot.conn) /\ Accepts(slot.conn)
       THEN /\ Push(slot.conn, Item("command", r))
            /\ req' = [req EXCEPT ![r].at = "queued", ![r].sock = seen.socket]
       ELSE /\ UNCHANGED act
            /\ req' = [req EXCEPT ![r] = Finish(r, "refused"), ![r].sock = seen.socket]
    /\ UNCHANGED <<slot, state, seen, wireVars, sentOn, ran, opened>>

\* exchange_bound holds the lock throughout and never opens a socket.
EnqueueBound(r) ==
    /\ r \in Privates /\ req[r].at = "idle" /\ seen.socket # 0
    /\ ~slot.connecting
    /\ IF state.socket = seen.socket /\ Usable(slot.conn) /\ Accepts(slot.conn)
       THEN /\ Push(slot.conn, Item("command", r))
            /\ req' = [req EXCEPT ![r].at = "queued", ![r].sock = seen.socket]
       ELSE /\ UNCHANGED act
            /\ req' = [req EXCEPT ![r] = Finish(r, "refused"), ![r].sock = seen.socket]
    /\ UNCHANGED <<slot, state, seen, wireVars, sentOn, ran, opened>>

\* The caller's own deadline passes, or its future is dropped.
Abandon(r) ==
    /\ req[r].at \in {"queued", "pending"} /\ req[r].waits
    /\ req' = [req EXCEPT ![r].waits = FALSE, ![r].result = "unknown"]
    /\ UNCHANGED <<slot, state, seen, act, wireVars, sentOn, ran, opened>>

\* The reader of an open stream drops it: its guard asks for an unsubscribe, and
\* stops the socket if it cannot even ask.
DropReader(s) ==
    /\ s \in Subs /\ req[s].at = "open"
    /\ LET k == req[s].sock
       IN IF Accepts(k) THEN Push(k, Item("unsubscribe", s))
          ELSE act' = [act EXCEPT ![k].stop = TRUE]
    /\ req' = [req EXCEPT ![s].at = "done"]
    /\ UNCHANGED <<slot, state, seen, wireVars, sentOn, ran, opened>>

---------------------------------------------------------------------------
\* The actor (run)

Write(k, frames) == c2s' = [c2s EXCEPT ![k] = @ \o frames]

\* Mutation: a reader's unsubscribe is forwarded even when the actor has already
\* retired the subscription.
TakeItem_AlwaysUnsubscribes(k) ==
    /\ act[k].at = "run" /\ act[k].queue # << >>
    /\ LET item == Head(act[k].queue)
           r == item.r
           rest == [act[k] EXCEPT !.queue = Tail(@)]
       IN \/ /\ item.op = "unsubscribe"
             /\ act' = [act EXCEPT ![k] = [rest EXCEPT !.subs = @ \ {r}]]
             /\ Write(k, <<item>>)
             /\ UNCHANGED <<req, sentOn>>
          \/ /\ item.op # "unsubscribe" /\ ~req[r].waits
             /\ act' = [act EXCEPT ![k] = rest]
             /\ req' = [req EXCEPT ![r].at = "done"]
             /\ UNCHANGED <<c2s, sentOn>>
          \/ /\ item.op # "unsubscribe" /\ req[r].waits
             /\ act' = [act EXCEPT ![k] = [rest EXCEPT !.pending = @ \cup {r}]]
             /\ req' = [req EXCEPT ![r].at = "pending"]
             /\ sentOn' = [sentOn EXCEPT ![r] = @ \cup {k}]
             /\ Write(k, <<item>>)
    /\ UNCHANGED <<slot, state, seen, s2c, srv, ran, opened>>

\* Mutation: the limit is checked after the frame was written.
TakeItem_SentThenRefused(k) ==
    /\ act[k].at = "run" /\ act[k].queue # << >>
    /\ LET item == Head(act[k].queue)
           r == item.r
           rest == [act[k] EXCEPT !.queue = Tail(@)]
       IN /\ item.op # "unsubscribe"
          /\ Write(k, <<item>>)
          /\ sentOn' = [sentOn EXCEPT ![r] = @ \cup {k}]
          /\ IF Cardinality(act[k].pending) >= MaxInFlight
             THEN act' = [act EXCEPT ![k] = rest] /\ req' = [req EXCEPT ![r] = Finish(r, "refused")]
             ELSE /\ act' = [act EXCEPT ![k] = [rest EXCEPT !.pending = @ \cup {r}]]
                  /\ req' = [req EXCEPT ![r].at = "pending"]
    /\ UNCHANGED <<slot, state, seen, s2c, srv, ran, opened>>

TakeItem(k) ==
    /\ act[k].at = "run" /\ act[k].queue # << >>
    /\ LET item == Head(act[k].queue)
           r == item.r
           rest == [act[k] EXCEPT !.queue = Tail(@)]
           full == \/ Cardinality(act[k].pending) >= MaxInFlight
                   \/ r \in Subs /\ Cardinality(act[k].subs) >= MaxInFlight
       IN \/ /\ item.op = "unsubscribe"
             /\ act' = [act EXCEPT ![k] = [rest EXCEPT !.subs = @ \ {r}]]
             /\ IF r \in act[k].subs THEN Write(k, <<item>>) ELSE UNCHANGED c2s
             /\ UNCHANGED <<req, sentOn>>
          \/ /\ item.op # "unsubscribe" /\ ~req[r].waits
             /\ act' = [act EXCEPT ![k] = rest]
             /\ req' = [req EXCEPT ![r].at = "done"]
             /\ UNCHANGED <<c2s, sentOn>>
          \/ /\ item.op # "unsubscribe" /\ req[r].waits /\ full
             /\ act' = [act EXCEPT ![k] = rest]
             /\ req' = [req EXCEPT ![r] = Finish(r, "refused")]
             /\ UNCHANGED <<c2s, sentOn>>
          \/ /\ item.op # "unsubscribe" /\ req[r].waits /\ ~full
             /\ act' = [act EXCEPT ![k] = [rest EXCEPT !.pending = @ \cup {r}]]
             /\ req' = [req EXCEPT ![r].at = "pending"]
             /\ sentOn' = [sentOn EXCEPT ![r] = @ \cup {k}]
             /\ Write(k, <<item>>)
    /\ UNCHANGED <<slot, state, seen, s2c, srv, ran, opened>>

\* Mutation: an expired subscription is dropped without telling Vessel.
Expire_Silent(k) ==
    /\ act[k].at = "run"
    /\ \E r \in act[k].pending :
          /\ act' = [act EXCEPT ![k].pending = @ \ {r}]
          /\ req' = [req EXCEPT ![r] = Finish(r, "unknown")]
          /\ UNCHANGED c2s
    /\ UNCHANGED <<slot, state, seen, s2c, srv, sentOn, ran, opened>>

\* A tick finds a request past its deadline, or a command nobody waits for.  An
\* expired subscription is unsubscribed, acknowledged or not.
Expire(k) ==
    /\ act[k].at = "run"
    /\ \E r \in act[k].pending :
          /\ act' = [act EXCEPT ![k].pending = @ \ {r}]
          /\ req' = [req EXCEPT ![r] = Finish(r, "unknown")]
          /\ IF r \in Subs THEN Write(k, <<Item("unsubscribe", r)>>) ELSE UNCHANGED c2s
    /\ UNCHANGED <<slot, state, seen, s2c, srv, sentOn, ran, opened>>

(* A frame from Vessel.  A reply nobody waits for is dropped.  An acknowledged *)
(* subscription whose caller is gone, and one whose reader's buffer is full    *)
(* (`full`), are unsubscribed at once.                                         *)
Receive(k, full) ==
    /\ act[k].at = "run" /\ s2c[k] # << >>
    /\ s2c' = [s2c EXCEPT ![k] = Tail(@)]
    /\ LET frame == Head(s2c[k])
           r == frame.r
       IN CASE frame.op = "reply" ->
                 /\ ~full
                 /\ act' = [act EXCEPT ![k].pending = @ \ {r}]
                 /\ req' = IF r \in act[k].pending
                           THEN [req EXCEPT ![r] = Finish(r, "replied")] ELSE req
                 /\ UNCHANGED c2s
            [] frame.op = "subscribed" /\ r \in act[k].pending ->
                 /\ ~full
                 /\ IF req[r].waits
                    THEN /\ act' = [act EXCEPT ![k].pending = @ \ {r}, ![k].subs = @ \cup {r}]
                         /\ req' = [req EXCEPT ![r].at = "open", ![r].result = "replied"]
                         /\ UNCHANGED c2s
                    ELSE /\ act' = [act EXCEPT ![k].pending = @ \ {r}]
                         /\ req' = [req EXCEPT ![r].at = "done"]
                         /\ Write(k, <<Item("unsubscribe", r)>>)
            [] frame.op = "event" /\ r \in act[k].subs /\ full ->
                 /\ act' = [act EXCEPT ![k].subs = @ \ {r}]
                 /\ Write(k, <<Item("unsubscribe", r)>>)
                 /\ UNCHANGED req
            [] OTHER -> ~full /\ UNCHANGED <<act, req, c2s>>
    /\ UNCHANGED <<slot, state, seen, srv, sentOn, ran, opened>>

\* The socket closes, fails, stalls or is told to stop: the handle is retired
\* before the loss is published.
Stop(k) ==
    /\ act[k].at = "run"
    /\ act' = [act EXCEPT ![k].at = "stopping", ![k].stop = TRUE]
    /\ UNCHANGED <<slot, state, seen, wireVars, callVars, opened>>

\* Mutation: the loss is counted whether or not it was published already.
Retire_CountsAgain(k) ==
    /\ act[k].at = "stopping"
    /\ act' = [act EXCEPT ![k].at = "draining", ![k].pending = {}, ![k].subs = {}]
    /\ state' = [socket |-> IF state.socket = k THEN 0 ELSE state.socket,
                 loss |-> state.loss + 1]
    /\ req' = [r \in Reqs |-> IF r \in act[k].pending THEN Finish(r, "unknown") ELSE req[r]]
    /\ UNCHANGED <<slot, seen, wireVars, sentOn, ran, opened>>

\* Mutation: what is outstanding is left waiting for an answer.
Retire_KeepsPending(k) ==
    /\ act[k].at = "stopping"
    /\ act' = [act EXCEPT ![k].at = "draining", ![k].subs = {}]
    /\ state' = Lost(k)
    /\ UNCHANGED <<slot, seen, wireVars, req, sentOn, ran, opened>>

\* The loss is published and every outstanding request fails as unknown.
Retire(k) ==
    /\ act[k].at = "stopping"
    /\ act' = [act EXCEPT ![k].at = "draining", ![k].pending = {}, ![k].subs = {}]
    /\ state' = Lost(k)
    /\ req' = [r \in Reqs |-> IF r \in act[k].pending THEN Finish(r, "unknown") ELSE req[r]]
    /\ UNCHANGED <<slot, seen, wireVars, sentOn, ran, opened>>

\* The actor returns and its queue is dropped: those callers learn that the
\* socket was lost.
Drop(k) ==
    /\ act[k].at = "draining"
    /\ act' = [act EXCEPT ![k].at = "gone", ![k].queue = << >>]
    /\ c2s' = [c2s EXCEPT ![k] = << >>] /\ s2c' = [s2c EXCEPT ![k] = << >>]
    /\ srv' = [srv EXCEPT ![k].up = FALSE, ![k].subs = {}]
    /\ req' = [r \in Reqs |->
                 IF \E i \in DOMAIN act[k].queue :
                        act[k].queue[i] = Item(OpOf(r), r)
                 THEN Finish(r, "unknown") ELSE req[r]]
    /\ UNCHANGED <<slot, state, seen, sentOn, ran, opened>>

---------------------------------------------------------------------------
\* Vessel's end (serve)

CloseServer(k) == srv' = [srv EXCEPT ![k].up = FALSE, ![k].subs = {}]

\* A frame arrives.  A command beyond the socket's slots and an unsubscribe for
\* nothing close the socket.
Serve(k) ==
    /\ srv[k].up /\ c2s[k] # << >>
    /\ c2s' = [c2s EXCEPT ![k] = Tail(@)]
    /\ LET item == Head(c2s[k])
           r == item.r
       IN CASE item.op = "command" ->
                 /\ IF Cardinality(srv[k].busy) < MaxInFlight
                    THEN srv' = [srv EXCEPT ![k].busy = @ \cup {r}] ELSE CloseServer(k)
                 /\ UNCHANGED s2c
            [] item.op = "subscribe" ->
                 /\ srv' = [srv EXCEPT ![k].subs = @ \cup {r}]
                 /\ s2c' = [s2c EXCEPT ![k] = Append(@, Item("subscribed", r))]
            [] OTHER ->
                 /\ IF r \in srv[k].subs
                    THEN srv' = [srv EXCEPT ![k].subs = @ \ {r}] ELSE CloseServer(k)
                 /\ UNCHANGED s2c
    /\ UNCHANGED <<slot, state, seen, act, callVars, opened>>

\* The detached task runs the command, whether the socket is still there or not;
\* its slot is released once the reply is queued.
RunCommand(k, r) ==
    /\ r \in srv[k].busy
    /\ ran' = [ran EXCEPT ![r] = @ + 1]
    /\ srv' = [srv EXCEPT ![k].busy = @ \ {r}]
    /\ s2c' = IF srv[k].up THEN [s2c EXCEPT ![k] = Append(@, Item("reply", r))] ELSE s2c
    /\ UNCHANGED <<slot, state, seen, act, c2s, req, sentOn, opened>>

\* An observation finds something new; at most one event waits in the model.
PublishEvent(k, s) ==
    /\ srv[k].up /\ s \in srv[k].subs
    /\ Item("event", s) \notin Range(s2c[k])
    /\ s2c' = [s2c EXCEPT ![k] = Append(@, Item("event", s))]
    /\ UNCHANGED <<slot, state, seen, act, c2s, srv, callVars, opened>>

\* Heartbeat, authority, write deadline or shutdown: nothing more is read.
ServerEnds(k) ==
    /\ srv[k].up
    /\ CloseServer(k)
    /\ UNCHANGED <<slot, state, seen, act, c2s, s2c, callVars, opened>>

---------------------------------------------------------------------------
Next ==
    \/ BeginConnect \/ ConnectFails \/ FinishConnect \/ Disconnect \/ Observe
    \/ \E r \in Reqs : TakeHandle(r) \/ Enqueue(r) \/ Abandon(r)
    \/ \E r \in Privates : EnqueueBound(r)
    \/ \E s \in Subs : DropReader(s)
    \/ \E k \in Sockets :
          \/ TakeItem(k) \/ Expire(k) \/ Stop(k) \/ Retire(k) \/ Drop(k)
          \/ \E full \in BOOLEAN : Receive(k, full)
          \/ Serve(k) \/ ServerEnds(k)
          \/ \E r \in Works : RunCommand(k, r)
          \/ \E s \in Subs : PublishEvent(k, s)

Spec == Init /\ [][Next]_vars

(* Tokio runs the callers, the actor and Vessel's tasks; a tick comes every    *)
(* five seconds, so what is expired or stopped is found; an actor whose server *)
(* is gone notices (closed stream or heartbeat); draining takes a second.      *)
Fairness ==
    /\ WF_vars(\E r \in Reqs : Enqueue(r))
    /\ \A k \in Sockets :
          /\ WF_vars(TakeItem(k)) /\ WF_vars(Expire(k)) /\ WF_vars(Drop(k))
          /\ WF_vars(~srv[k].up /\ Stop(k)) /\ WF_vars(act[k].stop /\ Stop(k))
          /\ WF_vars(Retire(k))
          /\ WF_vars(Serve(k))
          /\ WF_vars(\E full \in BOOLEAN : Receive(k, full))

FairSpec == Spec /\ Fairness

---------------------------------------------------------------------------
\* A command Helm reports as refused, "request not sent", was never written to a
\* socket and never runs: that is what lets the layers above make its draft
\* editable again (Refusal in transport.rs).
RefusedNeverSent ==
    \A r \in Reqs : req[r].result = "refused" => sentOn[r] = {} /\ (r \in Works => ran[r] = 0)

\* No command runs twice, whatever became of the socket that carried it, and one
\* that was answered did run: reconnecting resends nothing.
RunsAtMostOnce ==
    \A r \in Works : ran[r] <= 1 /\ (req[r].result = "replied" => ran[r] = 1)

\* Private input travels on the socket its terminal was attached to, or not at
\* all, even when a reconnection races with it.
PrivateStaysBound ==
    \A r \in Privates : sentOn[r] \subseteq {req[r].sock}

\* Every socket that ends is counted exactly once in loss_generation, by
\* whichever of the actor, the next connection and disconnect gets there first.
EachLossCountedOnce ==
    state.loss + (IF state.socket = 0 THEN 0 ELSE 1) = opened

\* A consumer that skipped states of the watch cannot take one socket for another:
\* if the loss counter has not moved, neither has the socket it saw.
LossIsNeverHidden ==
    seen.socket # 0 /\ seen.loss = state.loss => state.socket = seen.socket

\* Vessel never has to close a healthy socket over an unsubscribe for a
\* subscription it does not have: the actor's own cleanup, an expired
\* acknowledgement and the reader's guard never ask for the same one twice.
UnsubscribesOnce ==
    \A k \in Sockets :
        srv[k].up /\ c2s[k] # << >> /\ Head(c2s[k]).op = "unsubscribe"
            => Head(c2s[k]).r \in srv[k].subs

\* Every caller that handed its request over gets an answer, a refusal or the
\* news that the outcome is unknown.
CallersReturn ==
    \A r \in Reqs : req[r].at \in {"handle", "queued", "pending"} ~> req[r].result # "none"

\* A subscription nobody reads is dropped by Vessel, or its socket is.
ReadersRetire ==
    \A s \in Subs : \A k \in Sockets :
        (s \in srv[k].subs /\ req[s].at = "done") ~> s \notin srv[k].subs

\* The socket delivers a command at most once, says so truthfully and counts every
\* loss once (duplex client and Vessel's end).
Safety ==
    /\ TypeOK /\ RefusedNeverSent /\ RunsAtMostOnce /\ PrivateStaysBound
    /\ EachLossCountedOnce /\ LossIsNeverHidden /\ UnsubscribesOnce
=============================================================================
