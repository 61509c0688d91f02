----------------------------- MODULE HostBrowser -----------------------------
(***************************************************************************)
(* Who drives the voyage's browser.  The runtime (host) relays an agent's  *)
(* actions and the operations of human viewers to one worker process over  *)
(* a pipe; the worker keeps the page, the control mode and the epochs that *)
(* fence stale work, and runs two FIFO lanes: ordinary (agent, join,       *)
(* input) and urgent (control, claim, disconnect, status).  The host keeps *)
(* a cached status, its viewers and a fence counter.  Replies resume their *)
(* callers later; sockets drop silently; exchanges time out.               *)
(***************************************************************************)
EXTENDS Naturals, Sequences, FiniteSets

CONSTANTS Sockets,     \* authenticated duplex sockets
          Principal(_),\* the principal behind a socket
          Atts,        \* attachment identities
          Calls,       \* agent tool calls
          MaxEpoch,    \* bound: control epochs
          MaxDoc,      \* bound: document epochs
          MaxStarts,   \* bound: browsers started
          MaxOps       \* bound: human operations

None == "none"
Null == [bw |-> 0, c |-> 0, d |-> 0, mode |-> "agent", ctl |-> None]

VARIABLES
  \* the host (HostBrowser, Inner)
  st,      \* cached status; Null when there is none
  viewers, \* the socket bound to each attachment, None
  seq,     \* input_sequence of each attachment
  lost,    \* disconnected sockets
  powner,  \* private_owner: attachment and principal, None
  fence,   \* the fence counter
  run,     \* the browser whose worker the host owns, 0 for none
  failed,  \* transport unresolved
  call,    \* each caller's operation: pc, op, request data, reply
  rcpt,    \* durable receipt of each agent call
  \* the worker
  wk,      \* browser, mode, controller, epochs, closing
  wview,   \* sequence of each joined viewer, NoSeq when not joined
  lane,    \* the two lanes, oldest first; a head may be executing
  act,     \* the agent effect in progress: none, running or acting
  \* environment and ghosts
  up,      \* sockets still connected
  acted,   \* agent calls whose effect reached the page
  shown,   \* private pages delivered: principal shown, principal owning
  used,    \* attachment identities minted by viewers so far
  wpriv,   \* the principal who last made the browser private
  ops, starts

host == <<st, viewers, seq, lost, powner, fence, run, failed, rcpt>>
worker == <<wk, wview, lane, act>>
env == <<up, acted, shown, wpriv, used, ops, starts>>
vars == <<host, call, worker, env>>

NoSeq == MaxOps + 1
Callers == Sockets \cup {"agent", "lease"}
IdleCall == [pc |-> "idle", op |-> None, att |-> None, mode |-> None, id |-> None, bw |-> 0, c |-> 0,
             d |-> 0, n |-> 0, fence |-> 0, ok |-> FALSE, code |-> None, st |-> Null, sock |-> None]
Status == [bw |-> wk.bw, c |-> wk.c, d |-> wk.d, mode |-> wk.mode, ctl |-> wk.ctl]
Urgent == {"control", "claim", "disconnect", "status"}
LaneOf(op) == IF op \in Urgent THEN "urgent" ELSE "ordinary"

Init ==
  /\ st = Null /\ viewers = [a \in Atts |-> None] /\ seq = [a \in Atts |-> 0] /\ lost = {}
  /\ powner = [att |-> None, who |-> None] /\ fence = 0 /\ run = 0 /\ failed = FALSE
  /\ call = [x \in Callers |-> IdleCall] /\ rcpt = [i \in Calls |-> None]
  /\ wk = [bw |-> 0, mode |-> "agent", ctl |-> None, c |-> 1, d |-> 1, closing |-> FALSE]
  /\ wview = [a \in Atts |-> NoSeq] /\ lane = [l \in {"urgent", "ordinary"} |-> <<>>]
  /\ act = None /\ up = Sockets /\ acted = {} /\ shown = {}
  /\ wpriv = None /\ used = {} /\ ops = 0 /\ starts = 0

----------------------------------------------------------------------------
(* Exchanges. *)

\* exchange: refused while the transport is unresolved, otherwise queued.
Send(x, r) ==
  /\ ~failed
  /\ call' = [call EXCEPT ![x] = [r EXCEPT !.pc = "sent", !.ok = FALSE, !.code = None]]
  /\ lane' = [lane EXCEPT ![LaneOf(r.op)] = Append(@, [x |-> x, phase |-> "queued", op |-> r.op, att |-> r.att, mode |-> r.mode,
                                                 id |-> r.id, bw |-> r.bw, c |-> r.c, d |-> r.d, n |-> r.n])]

\* The worker answers the request at the head of a lane.
Answer(l, ok, code, s) ==
  LET x == Head(lane[l]).x IN
  /\ lane' = [lane EXCEPT ![l] = Tail(@)]
  /\ call' = IF call[x].pc = "sent"
             THEN [call EXCEPT ![x].pc = "replied", ![x].ok = ok, ![x].code = code, ![x].st = s]
             ELSE call

\* update_status keeps a status only when no epoch goes backwards.
Newer(s) == IF s.c >= st.c /\ s.d >= st.d THEN s ELSE st

\* 25 s without a reply to an effectful request: outcome unknown, never replay.
Timeout(x) ==
  /\ call[x].pc = "sent" /\ call[x].op # "mirror"
  /\ failed' = TRUE
  /\ call' = [call EXCEPT ![x].pc = "replied", ![x].ok = FALSE, ![x].code = "timeout", ![x].st = Null]
  /\ UNCHANGED <<st, viewers, seq, lost, powner, fence, run, rcpt, worker, env>>

\* start: a worker is spawned and opened, and its status read.
Start ==
  /\ run = 0 /\ starts < MaxStarts
  /\ starts' = starts + 1 /\ run' = starts + 1 /\ failed' = FALSE
  /\ wk' = [bw |-> starts + 1, mode |-> "agent", ctl |-> None, c |-> 1, d |-> 1, closing |-> FALSE]
  /\ wview' = [a \in Atts |-> NoSeq] /\ lane' = [l \in DOMAIN lane |-> <<>>] /\ act' = None
  /\ st' = [bw |-> starts + 1, c |-> 1, d |-> 1, mode |-> "agent", ctl |-> None]
  /\ UNCHANGED <<viewers, seq, lost, powner, fence, rcpt, call, up, acted, shown, wpriv, used, ops>>

\* Everything close does: fence, stop the worker, forget the viewers.  Whoever
\* still waited for a reply gets none.  r is the calls' new value otherwise.
Closing(r) ==
  /\ fence' = fence + 1 /\ run' = 0 /\ failed' = FALSE /\ st' = Null
  /\ viewers' = [a \in Atts |-> None] /\ seq' = [a \in Atts |-> 0]
  /\ powner' = [att |-> None, who |-> None]
  /\ wk' = [wk EXCEPT !.bw = 0] /\ wview' = [a \in Atts |-> NoSeq]
  /\ lane' = [l \in DOMAIN lane |-> <<>>] /\ act' = None
  /\ call' = [x \in Callers |-> IF r[x].pc = "sent"
                THEN [r[x] EXCEPT !.pc = "replied", !.ok = FALSE, !.code = "timeout", !.st = Null]
                ELSE r[x]]

\* finish_run, or an attached viewer's Close: the browser is given up.
FinishRun ==
  /\ run # 0 /\ failed
  /\ Closing(call)
  /\ UNCHANGED <<lost, rcpt, env>>

CloseOp(k, a) ==
  /\ k \notin lost /\ call[k].pc = "idle" /\ run # 0 /\ viewers[a] = k /\ ops < MaxOps
  /\ Closing(call) /\ ops' = ops + 1
  /\ UNCHANGED <<lost, rcpt, up, acted, shown, wpriv, used, starts>>

----------------------------------------------------------------------------
(* Human operations: an exact binding is checked against the cached status, *)
(* the fence moves before the request leaves.                               *)

Human(k) == k \in up /\ k \notin lost /\ call[k].pc = "idle" /\ run # 0 /\ ~failed /\ ops < MaxOps
Req(op, a) == [IdleCall EXCEPT !.op = op, !.att = a, !.bw = st.bw, !.c = st.c, !.d = st.d]

\* Mutation: a private browser may be rejoined by any principal.
RejoinedByAny(p) == powner.att # None
\* A private browser is rejoined only as its owner, under the owner's attachment.
RejoinedBy(p) == powner.att # None /\ powner.who = p

\* Own before dispatch, including an uncertain join.
Attach(k, a) ==
  /\ Human(k) /\ \A b \in Atts : viewers[b] # k
  /\ IF st.mode = "private" THEN RejoinedBy(Principal(k)) /\ a = powner.att ELSE a \notin used
  /\ viewers[a] = None
  /\ viewers' = [viewers EXCEPT ![a] = k] /\ seq' = [seq EXCEPT ![a] = 0]
  /\ Send(k, Req("join", a)) /\ ops' = ops + 1 /\ used' = used \cup {a}
  /\ UNCHANGED <<st, lost, powner, fence, run, failed, rcpt, wk, wview, act, up, acted, shown, wpriv, starts>>

Control(k, a, m) ==
  /\ Human(k) /\ viewers[a] = k
  /\ fence' = fence + 1
  /\ Send(k, [Req("control", a) EXCEPT !.mode = m]) /\ ops' = ops + 1
  /\ UNCHANGED <<st, viewers, seq, lost, powner, run, failed, rcpt, wk, wview, act, up, acted, shown, wpriv, used, starts>>

\* The sequence is consumed before dispatch; a claim takes the agent's browser.
Input(k, a, claim) ==
  /\ Human(k) /\ viewers[a] = k
  /\ claim => st.mode = "agent"
  /\ seq' = [seq EXCEPT ![a] = @ + 1]
  /\ fence' = IF claim THEN fence + 1 ELSE fence
  /\ Send(k, [Req(IF claim THEN "claim" ELSE "input", a) EXCEPT !.n = seq[a] + 1]) /\ ops' = ops + 1
  /\ UNCHANGED <<st, viewers, lost, powner, run, failed, rcpt, wk, wview, act, up, acted, shown, wpriv, used, starts>>

\* Detach is a disconnect by request.
Detach(k, a) ==
  /\ Human(k) /\ viewers[a] = k
  /\ powner' = IF st.mode = "private" /\ st.ctl = a THEN [att |-> a, who |-> Principal(k)] ELSE powner
  /\ fence' = fence + 1
  /\ Send(k, Req("disconnect", a)) /\ ops' = ops + 1
  /\ UNCHANGED <<st, viewers, seq, lost, run, failed, rcpt, wk, wview, act, up, acted, shown, wpriv, used, starts>>

\* Mirror reads outside the lanes; the fence is remembered.
Mirror(k, a) ==
  /\ Human(k) /\ viewers[a] = k
  /\ call' = [call EXCEPT ![k] = [Req("mirror", a) EXCEPT !.pc = "sent", !.fence = fence]]
  /\ ops' = ops + 1
  /\ UNCHANGED <<host, worker, up, acted, shown, wpriv, used, starts>>

\* A reply resumes its caller.
\* Mutation: the viewer is forgotten although the worker refused to drop it.
DropsAlways(r) == r.op = "disconnect"
Drops(r) == r.op = "disconnect" /\ r.ok

Resume(k) ==
  /\ k \in Sockets /\ call[k].pc = "replied" /\ call[k].op # "mirror"
  /\ st' = IF call[k].ok THEN Newer(call[k].st) ELSE st
  /\ viewers' = IF Drops(call[k]) THEN [viewers EXCEPT ![call[k].att] = None] ELSE viewers
  /\ call' = [call EXCEPT ![k] = IdleCall]
  /\ UNCHANGED <<seq, lost, powner, fence, run, failed, rcpt, worker, env>>

\* The private page the reply of a mirror shows reaches the viewer only if no
\* fence moved, it is still bound and the projection still matches.
ResumeMirror(k) ==
  LET r == call[k]
      s == IF r.ok THEN Newer(r.st) ELSE st
      delivered == /\ r.ok /\ r.fence = fence /\ viewers[r.att] = k /\ k \notin lost
                   /\ r.bw = s.bw /\ r.c = s.c /\ r.d = s.d
                   /\ s.mode = "private" => s.ctl = r.att
  IN
  /\ r.pc = "replied" /\ r.op = "mirror"
  /\ st' = IF r.ok /\ r.fence = fence /\ viewers[r.att] = k /\ k \notin lost THEN s ELSE st
  /\ shown' = IF delivered /\ r.st.mode = "private" THEN shown \cup {<<Principal(k), r.mode>>} ELSE shown
  /\ call' = [call EXCEPT ![k] = IdleCall]
  /\ UNCHANGED <<viewers, seq, lost, powner, fence, run, failed, rcpt, worker, up, acted, wpriv, used, ops, starts>>

\* The socket goes away; its notification may never arrive.
SocketLost(k) ==
  /\ k \in up /\ up' = up \ {k}
  /\ UNCHANGED <<host, call, worker, acted, shown, wpriv, used, ops, starts>>

\* Mutation: maintain skips a socket already remembered as disconnected.
ExpiredOnce(k) == k \notin up /\ k \notin lost
\* maintain finds the viewers whose lease ran out or whose grant was withdrawn.
Expired(k) == k \notin up
PrivateOwner ==
  IF st.mode = "private" /\ st.ctl # None /\ viewers[st.ctl] # None
  THEN [att |-> st.ctl, who |-> Principal(viewers[st.ctl])] ELSE powner
\* disconnect, notified by the gateway or by the expired lease: the socket is
\* remembered, a private controller's principal kept, and the worker told
\* before the viewer is forgotten.
Disconnect(k, by) ==
  /\ call["lease"].pc = "idle"
  /\ IF by = "notice" THEN k \notin up /\ k \notin lost ELSE Expired(k)
  /\ fence' = fence + 1 /\ lost' = lost \cup {k} /\ powner' = PrivateOwner
  /\ IF run # 0 /\ \E a \in Atts : viewers[a] = k
     THEN /\ \E a \in Atts :
               viewers[a] = k /\ Send("lease", [Req("disconnect", a) EXCEPT !.sock = k, !.mode = by])
          /\ UNCHANGED <<st, viewers, seq, run, failed, rcpt, wk, wview, act, env>>
     ELSE /\ k \notin lost
          /\ UNCHANGED <<st, viewers, seq, run, failed, rcpt, call, worker, env>>

\* maintain on an unresolved transport: the disconnect fails at once, and closes.
LeaseOnFailed(k) ==
  /\ Expired(k) /\ call["lease"].pc = "idle" /\ failed /\ run # 0 /\ \E a \in Atts : viewers[a] = k
  /\ Closing(call) /\ lost' = lost \cup {k}
  /\ UNCHANGED <<rcpt, env>>

\* maintain closes the browser when its disconnect failed.
MustClose(r) == ~r.ok /\ r.mode = "lease" /\ run # 0

ResumeLease ==
  LET r == call["lease"]
      idle == [call EXCEPT !["lease"] = IdleCall] IN
  /\ r.pc = "replied"
  /\ IF MustClose(r) THEN Closing(idle)
     ELSE /\ call' = idle
          /\ st' = IF r.ok THEN Newer(r.st) ELSE st
          /\ viewers' = IF r.ok THEN [viewers EXCEPT ![r.att] = None] ELSE viewers
          /\ UNCHANGED <<seq, powner, fence, run, failed, worker>>
  /\ UNCHANGED <<lost, rcpt, env>>

----------------------------------------------------------------------------
(* The agent. *)

\* agent: an earlier receipt answers for the call; otherwise the status is refreshed.
AgentCall(i) ==
  /\ call["agent"].pc = "idle" /\ run # 0 /\ rcpt[i] = None
  /\ Send("agent", [IdleCall EXCEPT !.op = "status", !.id = i])
  /\ UNCHANGED <<host, wk, wview, act, env>>

\* The refreshed mode must be the agent's; then the fence is stamped, the receipt
\* made durable and the action sent under the epochs just read.
AgentDispatch ==
  LET r == call["agent"] IN
  /\ r.pc = "replied" /\ r.op = "status"
  /\ st' = IF r.ok THEN Newer(r.st) ELSE st
  /\ IF r.ok /\ r.st.mode = "agent" /\ ~failed
     THEN /\ rcpt' = [rcpt EXCEPT ![r.id] = "dispatched"]
          /\ Send("agent", [r EXCEPT !.op = "agent", !.bw = r.st.bw, !.c = r.st.c, !.d = r.st.d,
                                     !.fence = fence])
     ELSE /\ call' = [call EXCEPT !["agent"] = IdleCall]
          /\ UNCHANGED <<rcpt, lane>>
  /\ UNCHANGED <<viewers, seq, lost, powner, fence, run, failed, wk, wview, act, env>>

\* Mutation: every failed action is recorded as refused before its effect.
OutcomeRefused(r) == IF r.ok THEN "completed" ELSE "refused"
\* The durable outcome: refused only when the worker says nothing happened.
Outcome(r) == IF r.ok THEN "completed" ELSE IF r.code = "before" THEN "refused" ELSE "unknown"

\* The outcome is recorded; an unknown one closes the browser, and an
\* observation is withheld when any human fence moved since the stamp.
AgentResume ==
  LET r == call["agent"] IN
  /\ r.pc = "replied" /\ r.op = "agent"
  /\ rcpt' = [rcpt EXCEPT ![r.id] = Outcome(r)]
  /\ IF ~r.ok /\ r.code # "before" /\ run # 0
     THEN Closing([call EXCEPT !["agent"] = IdleCall])
     ELSE /\ call' = [call EXCEPT !["agent"] = IdleCall]
          /\ st' = IF r.ok /\ r.fence = fence THEN Newer(r.st) ELSE st
          /\ UNCHANGED <<viewers, seq, powner, fence, run, failed, worker>>
  /\ UNCHANGED <<lost, up, acted, shown, ops, starts, wpriv, used>>

----------------------------------------------------------------------------
(* The worker. *)

Ready(l, op) == lane[l] # <<>> /\ Head(lane[l]).phase = "queued" /\ Head(lane[l]).op = op
Going(l, op) == lane[l] # <<>> /\ Head(lane[l]).phase = "exec" /\ Head(lane[l]).op = op
Held(l) == lane[l] # <<>> /\ Head(lane[l]).phase = "exec"
Executing(l) == lane' = [lane EXCEPT ![l] = <<[Head(@) EXCEPT !.phase = "exec"]>> \o Tail(@)]

\* exact: joins, mirrors and disconnects survive navigation, nothing else does.
Exact(r) ==
  /\ r.bw = wk.bw /\ r.c = wk.c
  /\ r.op \in {"join", "mirror", "disconnect"} \/ r.d = wk.d

May(r) == Exact(r) /\ ~wk.closing
\* viewer: joined, and in private mode the controller.
Viewer(r) == wview[r.att] # NoSeq /\ (wk.mode = "private" => wk.ctl = r.att)
Unmoved == UNCHANGED <<host, env>>

\* An operation the worker refuses before it starts.
Admissible(r) ==
  CASE r.op = "status" -> TRUE
    [] r.op = "agent" -> May(r) /\ wk.mode = "agent"
    [] r.op = "join" -> /\ May(r) /\ wview[r.att] = NoSeq
                        /\ wk.mode = "private" => wk.ctl = r.att
    [] r.op = "control" -> /\ May(r) /\ Viewer(r) /\ wk.ctl \in {None, r.att}
                           /\ r.mode = "agent" => wk.ctl = r.att
    [] r.op = "claim" -> May(r) /\ Viewer(r) /\ wk.mode = "agent" /\ r.n = wview[r.att] + 1
    [] r.op = "input" -> May(r) /\ Viewer(r) /\ wk.mode # "agent" /\ wk.ctl = r.att /\ r.n = wview[r.att] + 1
    [] OTHER -> May(r)

Refuse(l) ==
  /\ lane[l] # <<>> /\ Head(lane[l]).phase = "queued" /\ ~Admissible(Head(lane[l]))
  /\ Answer(l, FALSE, "refused", Null)
  /\ UNCHANGED <<wk, wview, act>> /\ Unmoved

DoStatus ==
  /\ Ready("urgent", "status") /\ Answer("urgent", TRUE, None, Status)
  /\ UNCHANGED <<wk, wview, act>> /\ Unmoved

DoJoin ==
  /\ Ready("ordinary", "join") /\ Admissible(Head(lane["ordinary"]))
  /\ wview' = [wview EXCEPT ![Head(lane["ordinary"]).att] = 0]
  /\ Answer("ordinary", TRUE, None, Status)
  /\ UNCHANGED <<wk, act>> /\ Unmoved

DoInput ==
  LET r == Head(lane["ordinary"]) IN
  /\ Ready("ordinary", "input") /\ Admissible(r)
  /\ wview' = [wview EXCEPT ![r.att] = r.n]
  /\ Answer("ordinary", TRUE, None, Status)
  /\ UNCHANGED <<wk, act>> /\ Unmoved

\* Mutation: giving the browser back keeps its controller.
ControllerKept(r, mode) == IF r.op = "disconnect" /\ mode = "private" THEN wk.ctl ELSE r.att
Controller(r, mode) ==
  IF r.op = "disconnect" /\ mode = "private" THEN wk.ctl ELSE IF mode = "agent" THEN None ELSE r.att
\* control and a claim change the mode and advance the epoch at once; a controller's
\* disconnect gives the browser back to the agent unless it is private.
Fencing ==
  LET r == Head(lane["urgent"])
      mode == CASE r.op = "control" -> r.mode
                [] r.op = "claim" -> "human"
                [] wk.mode = "private" -> "private"
                [] OTHER -> "agent"
  IN
  /\ lane["urgent"] # <<>> /\ r.phase = "queued" /\ r.op \in {"control", "claim", "disconnect"}
  /\ Admissible(r) /\ wk.c < MaxEpoch
  /\ r.op = "disconnect" => wk.ctl = r.att
  /\ wk' = [wk EXCEPT !.mode = mode, !.c = @ + 1, !.ctl = Controller(r, mode)]
  /\ wpriv' = IF r.op = "control" /\ mode = "private" THEN Principal(r.x) ELSE wpriv
  /\ wview' = IF r.op = "control" /\ mode = "private" THEN [b \in Atts |-> IF b = r.att THEN wview[b] ELSE NoSeq]
              ELSE IF r.op = "disconnect" THEN [wview EXCEPT ![r.att] = NoSeq]
              ELSE wview
  /\ Executing("urgent")
  /\ UNCHANGED <<act, call, host, up, acted, shown, used, ops, starts>>

DoDisconnect ==
  LET r == Head(lane["urgent"]) IN
  /\ Ready("urgent", "disconnect") /\ Admissible(r) /\ wk.ctl # r.att
  /\ wview' = [wview EXCEPT ![r.att] = NoSeq]
  /\ Answer("urgent", TRUE, None, Status)
  /\ UNCHANGED <<wk, act>> /\ Unmoved

\* Mutation: the fence is acknowledged while an old effect may still land.
SettledAtOnce == TRUE
\* Acknowledgement means the old effect settled, not merely its raced reply.
Settled == act = None

\* The claimed input is applied after the fence, unless the document moved.
Fenced ==
  LET r == Head(lane["urgent"]) IN
  /\ Held("urgent") /\ Settled
  /\ IF r.op = "claim"
     THEN IF r.d = wk.d
          THEN wview' = [wview EXCEPT ![r.att] = r.n] /\ Answer("urgent", TRUE, None, Status)
          ELSE UNCHANGED wview /\ Answer("urgent", FALSE, "before", Null)
     ELSE UNCHANGED wview /\ Answer("urgent", TRUE, None, Status)
  /\ UNCHANGED <<wk, act>> /\ Unmoved

\* The old effect did not settle within five seconds: the browser is torn down.
Quarantine ==
  /\ Held("urgent") /\ act # None
  /\ wk' = [wk EXCEPT !.closing = TRUE] /\ act' = None
  /\ Answer("urgent", FALSE, "refused", Null)
  /\ UNCHANGED wview /\ Unmoved

AgentBegin ==
  /\ Ready("ordinary", "agent") /\ Admissible(Head(lane["ordinary"])) /\ act = None
  /\ act' = "running" /\ Executing("ordinary")
  /\ UNCHANGED <<wk, wview, call>> /\ Unmoved

\* guard: the control epoch the action began under, and the same document.
Guard(r) == r.c = wk.c /\ r.d = wk.d

\* perform checks its guard, then touches the page.
AgentGuard ==
  /\ Going("ordinary", "agent") /\ act = "running" /\ Guard(Head(lane["ordinary"]))
  /\ act' = "acting"
  /\ UNCHANGED <<wk, wview, lane, call>> /\ Unmoved

AgentActs ==
  LET r == Head(lane["ordinary"])
      ok == r.c = wk.c /\ wk.mode = "agent" IN
  /\ Going("ordinary", "agent") /\ act = "acting"
  /\ acted' = acted \cup {r.id} /\ act' = None
  /\ Answer("ordinary", ok, IF ok THEN None ELSE "refused", IF ok THEN Status ELSE Null)
  /\ UNCHANGED <<wk, wview, host, up, shown, ops, starts, wpriv, used>>

\* Refused before the effect (stale reference), or cut off by a fence.
AgentStops ==
  /\ Going("ordinary", "agent") /\ act # "acting"
  /\ act' = None
  /\ Answer("ordinary", FALSE, IF act = "running" /\ Guard(Head(lane["ordinary"])) THEN "before" ELSE "refused", Null)
  /\ UNCHANGED <<wk, wview>> /\ Unmoved

\* mirror runs outside the lanes, for a joined viewer under the current capture.
DoMirror(k) ==
  LET r == call[k] IN
  /\ r.pc = "sent" /\ r.op = "mirror"
  /\ IF wk.bw # 0 /\ May(r) /\ Viewer(r)
     THEN call' = [call EXCEPT ![k].pc = "replied", ![k].ok = TRUE, ![k].st = Status, ![k].mode = wpriv]
     ELSE call' = [call EXCEPT ![k].pc = "replied", ![k].ok = FALSE]
  /\ UNCHANGED <<host, worker, env>>

\* The page navigates by itself.
Navigate ==
  /\ wk.bw # 0 /\ wk.d < MaxDoc
  /\ wk' = [wk EXCEPT !.d = @ + 1]
  /\ UNCHANGED <<host, call, wview, lane, act, env>>

----------------------------------------------------------------------------
HumanStep ==
  \E k \in Sockets :
    \/ SocketLost(k) \/ DoMirror(k) \/ ResumeMirror(k)
    \/ \E a \in Atts :
         \/ Attach(k, a) \/ Detach(k, a) \/ CloseOp(k, a) \/ Mirror(k, a)
         \/ \E m \in {"agent", "human", "private"} : Control(k, a, m)
         \/ \E claim \in BOOLEAN : Input(k, a, claim)
HostStep ==
  \/ Start \/ FinishRun \/ ResumeLease \/ AgentDispatch \/ AgentResume
  \/ \E x \in Callers : Timeout(x)
  \/ \E i \in Calls : AgentCall(i)
  \/ \E k \in Sockets : Resume(k) \/ LeaseOnFailed(k) \/ \E by \in {"notice", "lease"} : Disconnect(k, by)
WorkerStep ==
  \/ \E l \in {"urgent", "ordinary"} : Refuse(l)
  \/ DoStatus \/ DoJoin \/ DoInput \/ Fencing \/ DoDisconnect \/ Fenced \/ Quarantine
  \/ AgentBegin \/ AgentGuard \/ AgentActs \/ AgentStops \/ Navigate
Next == HumanStep \/ HostStep \/ WorkerStep

Spec == Init /\ [][Next]_vars

\* The worker answers what it was sent, resumed callers run, and maintain ticks
\* every few seconds for as long as the runtime lives.
Fairness ==
  /\ WF_vars((\E l \in {"urgent", "ordinary"} : Refuse(l)) \/ DoStatus \/ DoJoin \/ DoInput
            \/ Fencing \/ DoDisconnect \/ Fenced)
  /\ WF_vars(AgentBegin \/ AgentActs \/ AgentStops)
  /\ WF_vars(AgentDispatch \/ AgentResume) /\ WF_vars(ResumeLease)
  /\ \A k \in Sockets : /\ WF_vars(Resume(k)) /\ WF_vars(DoMirror(k)) /\ WF_vars(ResumeMirror(k))
                        /\ SF_vars(Disconnect(k, "lease")) /\ SF_vars(LeaseOnFailed(k))

FairSpec == Spec /\ Fairness

----------------------------------------------------------------------------
TypeOK ==
  /\ st.bw \in 0 .. MaxStarts /\ st.c \in 0 .. MaxEpoch /\ st.d \in 0 .. MaxDoc
  /\ viewers \in [Atts -> Sockets \cup {None}] /\ seq \in [Atts -> 0 .. MaxOps]
  /\ lost \subseteq Sockets /\ run \in 0 .. MaxStarts /\ failed \in BOOLEAN
  /\ rcpt \in [Calls -> {None, "dispatched", "completed", "unknown", "refused"}]
  /\ wk.mode \in {"agent", "human", "private"} /\ wk.ctl \in Atts \cup {None}
  /\ wview \in [Atts -> 0 .. NoSeq] /\ act \in {None, "running", "acting"}
  /\ up \subseteq Sockets /\ acted \subseteq Calls
  /\ (wk.mode = "agent") = (wk.ctl = None)

\* "Acknowledgement means the old effect settled": once the host has the reply that
\* gave a human the browser, no agent effect reaches the page until it is given back
\* ([][AckSettles]_vars).
AckSettles ==
  acted' # acted => ~(st.bw = wk.bw /\ st.c = wk.c /\ st.mode # "agent")

\* A durable receipt never understates what happened: refused means the page was
\* not touched, completed means it was.
ReceiptsAreHonest ==
  \A i \in Calls : /\ rcpt[i] = "refused" => i \notin acted
                   /\ rcpt[i] = "completed" => i \in acted

\* A private page is shown only to the principal that made the browser private,
\* through disconnects, rejoins and stale bindings.
PrivateToOwner == \A s \in shown : s[1] = s[2]

\* A human who controls the browser is still a viewer the host would expire: no
\* refused disconnect leaves the agent locked out by nobody.
ControllerIsOwned ==
  run # 0 /\ wk.bw = run /\ wk.mode = "human" => viewers[wk.ctl] # None

\* A lost socket is eventually detached, even when its notification is lost, the
\* disconnect is refused as stale or the transport failed.
LeaseEnds == \A k \in Sockets : (k \notin up) ~> (\A a \in Atts : viewers[a] # k)

\* The consecutive attachment sequence is one sequence: with no input under way the
\* host and the worker expect the same next number.
SequencesAgree ==
  \A a \in Atts : viewers[a] # None /\ call[viewers[a]].pc = "idle" /\ run # 0 /\ ~failed
                  /\ wview[a] # NoSeq => seq[a] = wview[a]

\* Receipts tell what reached the page, a private page stays private, and control
\* always has an owner the host knows (host_browser.rs, worker).
Safety == TypeOK /\ ReceiptsAreHonest /\ PrivateToOwner /\ ControllerIsOwned
============================================================================
