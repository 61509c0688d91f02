----------------------------- MODULE Ownership -----------------------------
(***************************************************************************)
(* One voyage's execution ownership: the supervisor (Vessel) routes a      *)
(* session's commands to the runtime process that owns it, restarts that   *)
(* runtime when it suspended or died, and reports what it knows of each    *)
(* command.  A runtime is one incarnation: it takes the startup lock and   *)
(* the execution guard, listens on runtime.sock, dispatches under a fair   *)
(* reader-writer lock, suspends itself when idle and leaves stopped.json   *)
(* as cleanup evidence.  Either process may crash anywhere.                *)
(***************************************************************************)
EXTENDS Naturals, Sequences, FiniteSets

CONSTANTS Turns,       \* commands that start work
          Lives,       \* Steer, Respond, Cancel, Terminal, ExecuteTool
          Reads,       \* observations (Snapshot, History, Receipt, ...)
          Resolves,    \* resolutions of an earlier command
          Stops,       \* explicit stops
          MaxInc,      \* bound: incarnations
          MaxCrashes,  \* bound: crashes of runtimes and of the supervisor
          MaxIdle      \* bound: suspension attempts

Commands == Turns \cup Lives \cup Reads \cup Resolves \cup Stops
Incs == 1 .. MaxInc
None == 0
\* Commands that change a run when a runtime dispatches them.
Effects == Turns \cup Lives

OwnershipAssumption ==
  /\ MaxInc \in Nat /\ MaxInc > 0
  /\ {"none", "suspend"} \cap Commands = {}
  /\ Effects \cap (Reads \cup Resolves) = {}
  /\ Lives \cap Stops = {}

VARIABLES
  reg,      \* registration.json: incarnation and recorded state
  evid,     \* stopped.json: incarnation, suspended, startup_failed
  recv,     \* recovered.json: the incarnation whose restart is permitted
  sock,     \* runtime.sock: the incarnation that bound it, None when absent
  lock,     \* startup.lock: the incarnation holding it, None when free
  guard,    \* execution guard: the incarnation holding it, None when free
  rt,       \* phase of each incarnation's process
  susp,     \* suspend_requested of each incarnation
  active,   \* the incarnation with an active run, None
  queue,    \* fair request lock: waiters, oldest first
  held,     \* fair request lock: holders
  conn,     \* connection of each command at the runtime
  cinc,     \* the incarnation each request was addressed to
  hold,     \* the command holding the session's lifecycle lock
  pc,       \* where its dispatch is
  late,     \* its 12 s deadline has passed
  took,     \* the incarnation registered when a command took the lock
  out,      \* what the supervisor answered
  done,     \* ghost: incarnations that dispatched each effect
  unfenced, \* ghost: a restart replaced an incarnation that held the guard
  crashes, idles

disk == <<evid, recv, sock>>
locks == <<lock, guard>>
proc == <<rt, susp, active>>
rw == <<queue, held>>
wire == <<conn, cinc>>
vessel == <<hold, pc, late, took, out>>
ghost == <<done, unfenced>>
vars == <<reg, disk, locks, proc, rw, wire, vessel, ghost, crashes, idles>>

Running == {"listening", "draining", "closing"}
Owning == {"owner"} \cup Running
NoEvidence == [inc |-> None, suspended |-> FALSE, failed |-> FALSE]
Writers == Resolves \cup {"suspend"}

\* An existing voyage, suspended by its first incarnation.
Init ==
  /\ reg = [inc |-> 1, state |-> "starting"]
  /\ evid = [inc |-> 1, suspended |-> TRUE, failed |-> FALSE] /\ recv = None /\ sock = None
  /\ lock = None /\ guard = None
  /\ rt = [i \in Incs |-> IF i = 1 THEN "gone" ELSE "none"]
  /\ susp = [i \in Incs |-> FALSE] /\ active = None
  /\ queue = <<>> /\ held = {}
  /\ conn = [c \in Commands |-> "none"] /\ cinc = [c \in Commands |-> None]
  /\ hold = "none" /\ pc = "idle" /\ late = FALSE
  /\ took = [c \in Lives |-> None] /\ out = [c \in Commands |-> "none"]
  /\ done = [c \in Effects |-> <<>>] /\ unfenced = FALSE
  /\ crashes = 0 /\ idles = 0

\* What the supervisor concludes from the session's private directory.
CleanStop == evid.inc = reg.inc
Suspended == /\ sock = None /\ reg.state # "stopped"
             /\ CleanStop /\ evid.suspended
StartupFailed == CleanStop /\ evid.failed
ObservesSuspended == Reads \cup Resolves \cup Stops
Accepting == sock # None /\ rt[sock] = "listening"
\* Until a draining owner drops its listener the kernel still connects.
Reachable == sock # None /\ rt[sock] \in {"listening", "draining"}
-----------------------------------------------------------------------------
(* The supervisor: dispatch_lifecycle and stop, one command at a time. *)

\* The lifecycle lock is taken and the registration read under it.
Take(c) ==
  /\ hold = "none" /\ out[c] = "none"
  /\ hold' = c /\ late' = FALSE
  /\ took' = IF c \in Lives THEN [took EXCEPT ![c] = reg.inc] ELSE took
  /\ pc' = IF c \in Stops THEN "stop" ELSE "loop"
  /\ UNCHANGED <<reg, disk, locks, proc, rw, wire, out, ghost, crashes, idles>>

Answer(c, o) ==
  /\ out' = [out EXCEPT ![c] = o]
  /\ hold' = "none" /\ pc' = "idle" /\ late' = FALSE
  /\ UNCHANGED took
Goto(p) == pc' = p /\ UNCHANGED <<hold, late, took, out>>

\* Mutation: live commands follow the voyage to the replacement owner.
ForwardLive(c, p) == Goto(p)

\* Live resources never follow a voyage to another owner.
RefuseLive(c, p) == IF c \in Lives THEN Answer(c, "refused") ELSE Goto(p)

\* The head of the dispatch loop.
Route(c) ==
  /\ hold = c /\ pc = "loop"
  /\ CASE c \in Resolves /\ sock = None /\ CleanStop -> Goto("observe")
       [] sock = None /\ ~CleanStop -> RefuseLive(c, "recover")
       [] (Suspended \/ StartupFailed) /\ c \notin ObservesSuspended ->
            RefuseLive(c, "restart")
       [] OTHER -> Goto("connect")
  /\ UNCHANGED <<reg, disk, locks, proc, rw, wire, ghost, crashes, idles>>

\* A stop of a suspended voyage is recorded; otherwise the owner is told.
Stop(c) ==
  /\ hold = c /\ pc = "stop"
  /\ IF Suspended
     THEN reg' = [reg EXCEPT !.state = "stopped"] /\ Answer(c, "ok")
     ELSE reg' = [reg EXCEPT !.state = "unconfirmed"] /\ Goto("connect")
  /\ UNCHANGED <<disk, locks, proc, rw, wire, ghost, crashes, idles>>

\* A failed connect wrote no request bytes.
Disconnected(c) ==
  CASE c \in Reads /\ CleanStop -> Goto("observe")
    [] c \in Stops -> Answer(c, "unknown")
    [] ~CleanStop /\ ~late -> RefuseLive(c, "recover")
    [] c \in ObservesSuspended /\ ~late -> Goto("loop")
    [] CleanStop /\ ~late /\ Suspended -> Goto("loop")
    [] OTHER -> Answer(c, "unknown")

\* forward_scope: observe a suspended voyage, or connect to the endpoint.
Connect(c) ==
  /\ hold = c /\ pc = "connect"
  /\ \/ /\ Suspended /\ c \in Reads \cup Resolves
        /\ Goto("observe") /\ UNCHANGED wire
     \/ /\ ~(Suspended /\ c \in Reads \cup Resolves)
        /\ ~Accepting
        /\ Disconnected(c) /\ UNCHANGED wire
     \/ /\ Reachable
        /\ conn' = [conn EXCEPT ![c] = "backlog"]
        /\ cinc' = [cinc EXCEPT ![c] = reg.inc]
        /\ Goto("wait")
  /\ UNCHANGED <<reg, disk, locks, proc, rw, ghost, crashes, idles>>

\* Mutation: any lost connection is retried like a not-dispatched answer.
SettleReplay(c) ==
  CASE conn[c] = "answered" -> Answer(c, "ok")
    [] conn[c] = "rejected" -> Answer(c, "refused")
    [] conn[c] \in {"suspending", "lost"} ->
         IF late THEN Answer(c, "refused") ELSE Goto("loop")

\* The answer, an explicit not-dispatched answer, or a lost connection.
Settle(c) ==
  CASE conn[c] = "answered" -> Answer(c, "ok")
    [] conn[c] = "rejected" -> Answer(c, "refused")
    [] conn[c] = "suspending" ->
         IF c \in Stops THEN Answer(c, "ok")
         ELSE IF late THEN Answer(c, "refused") ELSE Goto("loop")
    [] conn[c] = "lost" ->
         IF c \in Reads \cup Resolves /\ ~late THEN Goto("loop")
         ELSE Answer(c, "unknown")

Receive(c) ==
  /\ hold = c /\ pc = "wait"
  /\ conn[c] \in {"answered", "rejected", "suspending", "lost"}
  /\ Settle(c)
  /\ conn' = [conn EXCEPT ![c] = "none"]
  /\ UNCHANGED <<reg, disk, locks, proc, rw, cinc, ghost, crashes, idles>>

\* Mutation: a command that was given up is reported as not dispatched.
GiveUpRefused(c) ==
  /\ hold = c /\ pc = "wait"
  /\ conn[c] \in {"backlog", "waiting", "granted", "dispatched"}
  /\ Answer(c, "refused")
  /\ UNCHANGED <<reg, disk, locks, proc, rw, wire, ghost, crashes, idles>>

\* 15 s without an answer is past the 12 s deadline; the handler runs on.
GiveUp(c) ==
  /\ hold = c /\ pc = "wait"
  /\ conn[c] \in {"backlog", "waiting", "granted", "dispatched"}
  /\ Answer(c, "unknown")
  /\ UNCHANGED <<reg, disk, locks, proc, rw, wire, ghost, crashes, idles>>

Deadline ==
  /\ hold # "none" /\ ~late /\ late' = TRUE
  /\ UNCHANGED <<reg, disk, locks, proc, rw, wire, hold, pc, took, out, ghost,
                 crashes, idles>>

\* observe-suspended: a one-shot process under both fences; only durable
\* reads do without evidence that the owner retired.
OneShot(c) == /\ lock = None /\ guard = None
              /\ c \in Reads \/ (sock = None /\ CleanStop)
Observe(c) ==
  /\ hold = c /\ pc = "observe"
  /\ \/ OneShot(c) /\ Answer(c, "ok")
     \/ Answer(c, "failed")
  /\ UNCHANGED <<reg, disk, locks, proc, rw, wire, ghost, crashes, idles>>

\* The offline recovery process takes both fences, publishes the restart
\* permission and removes the stale endpoint.
OfflineRecovery == /\ lock = None /\ guard = None
                   /\ recv' = reg.inc /\ sock' = None /\ UNCHANGED evid

\* recover_abandoned and recover: one recovery per incarnation.
Recover(c) ==
  /\ hold = c /\ pc = "recover"
  /\ \/ /\ recv = reg.inc
        /\ UNCHANGED disk /\ Goto(IF c \in Reads THEN "observe" ELSE "restart")
     \/ /\ recv # reg.inc /\ OfflineRecovery
        /\ Goto(IF c \in Reads THEN "observe" ELSE "restart")
     \/ /\ recv # reg.inc
        /\ UNCHANGED disk
        /\ IF c \in Reads THEN Goto("observe")
           ELSE \/ Answer(c, "unknown")
                \* inspect found the owner alive: nothing was recovered.
                \/ Accepting /\ sock = reg.inc /\ Answer(c, "refused")
  /\ UNCHANGED <<reg, locks, proc, rw, wire, ghost, crashes, idles>>

\* restart's evidence: a clean stop, a suspension, or a recovery marker.
RestartPermitted ==
  \/ sock = None /\ CleanStop
  \/ reg.state = "stopped" /\ ~Accepting
  \/ recv = reg.inc

\* restart: under the startup gate, a new registration and a new process.
Restart(c) ==
  /\ hold = c /\ pc = "restart"
  /\ \/ /\ lock = None /\ RestartPermitted /\ reg.inc < MaxInc
        /\ reg' = [inc |-> reg.inc + 1, state |-> "starting"]
        /\ unfenced' = (unfenced \/ guard = reg.inc)
        /\ rt' = [rt EXCEPT ![reg.inc + 1] = "launched"]
        /\ Goto("await")
     \/ /\ lock # None \/ ~RestartPermitted \/ reg.inc = MaxInc
        /\ Answer(c, "refused")
        /\ UNCHANGED <<reg, rt, unfenced>>
  /\ UNCHANGED <<disk, locks, susp, active, rw, wire, done, crashes, idles>>

\* Mutation: the supervisor waits for the new owner without a deadline.
AwaitForever(c) ==
  /\ hold = c /\ pc = "await"
  /\ Reachable /\ sock = reg.inc /\ Goto("loop")
  /\ UNCHANGED <<reg, disk, locks, proc, rw, wire, ghost, crashes, idles>>

\* The new incarnation answers a health probe within 10 s, or it does not.
Await(c) ==
  /\ hold = c /\ pc = "await"
  /\ \/ Reachable /\ sock = reg.inc /\ Goto("loop")
     \/ Answer(c, "unknown")
  /\ UNCHANGED <<reg, disk, locks, proc, rw, wire, ghost, crashes, idles>>

\* The supervisor dies; a later one has no lock and no pending answer.
VesselCrash ==
  /\ hold # "none" /\ crashes < MaxCrashes
  /\ crashes' = crashes + 1
  /\ out' = [out EXCEPT ![hold] = "unknown"]
  /\ hold' = "none" /\ pc' = "idle" /\ late' = FALSE
  /\ UNCHANGED <<reg, disk, locks, proc, rw, wire, took, ghost, idles>>
-----------------------------------------------------------------------------
(* The runtime: startup, request handling, suspension and shutdown. *)

\* Startup lock, and the registration read again under it.
StartLock(i) ==
  /\ rt[i] = "launched"
  /\ \/ /\ lock = None /\ reg.inc = i
        /\ lock' = i /\ rt' = [rt EXCEPT ![i] = "locked"]
     \/ /\ lock # None \/ reg.inc # i
        /\ rt' = [rt EXCEPT ![i] = "gone"] /\ UNCHANGED lock
  /\ UNCHANGED <<reg, disk, guard, susp, active, rw, wire, vessel, ghost,
                 crashes, idles>>

\* Mutation: the execution guard is taken from whoever holds it.
StartOwnUnfenced(i) ==
  /\ rt[i] = "locked" /\ lock' = None
  /\ guard' = i /\ rt' = [rt EXCEPT ![i] = "owner"]
  /\ UNCHANGED <<reg, evid, recv, sock, susp, active, rw, wire, vessel, ghost,
                 crashes, idles>>

\* Bootstrap fails with clean evidence, or the execution guard is taken (a
\* guard still held after 5 s ends the process without evidence).
StartOwn(i) ==
  /\ rt[i] = "locked" /\ lock' = None
  /\ \/ /\ guard = None /\ guard' = i
        /\ rt' = [rt EXCEPT ![i] = "owner"] /\ UNCHANGED evid
     \/ /\ guard # None
        /\ rt' = [rt EXCEPT ![i] = "gone"] /\ UNCHANGED <<guard, evid>>
     \/ /\ rt' = [rt EXCEPT ![i] = "gone"]
        /\ evid' = [inc |-> i, suspended |-> FALSE, failed |-> TRUE]
        /\ UNCHANGED guard
  /\ UNCHANGED <<reg, recv, sock, susp, active, rw, wire, vessel, ghost,
                 crashes, idles>>

\* The old evidence is removed, interrupted work recorded, the socket bound.
Listen(i) ==
  /\ rt[i] = "owner"
  /\ evid' = NoEvidence /\ sock' = i
  /\ rt' = [rt EXCEPT ![i] = "listening"]
  /\ queue' = <<>> /\ held' = {}
  /\ UNCHANGED <<reg, recv, locks, susp, active, wire, vessel, ghost, crashes,
                 idles>>

\* Nobody reads the answer of a command the supervisor gave up.
Ended(c, s) == IF hold = c THEN s ELSE "none"

\* A connection is accepted (the drained backlog too) and authenticated.
Accept(c) ==
  /\ conn[c] = "backlog" /\ guard # None
  /\ rt[guard] = "listening" \/ (rt[guard] = "draining" /\ susp[guard])
  /\ IF cinc[c] = guard
     THEN conn' = [conn EXCEPT ![c] = "waiting"] /\ queue' = Append(queue, c)
     ELSE conn' = [conn EXCEPT ![c] = Ended(c, "lost")] /\ UNCHANGED queue
  /\ cinc' = [cinc EXCEPT ![c] = None]
  /\ UNCHANGED <<reg, disk, locks, proc, held, vessel, ghost, crashes, idles>>

\* Tokio's fair lock serves its waiters in order: a waiting writer holds
\* back every later reader.
Compatible(w) == IF w \in Writers THEN held = {} ELSE held \cap Writers = {}
Grant ==
  /\ queue # <<>> /\ Compatible(Head(queue))
  /\ held' = held \cup {Head(queue)} /\ queue' = Tail(queue)
  /\ conn' = [c \in Commands |->
                IF c = Head(queue) THEN "granted" ELSE conn[c]]
  /\ UNCHANGED <<reg, disk, locks, proc, cinc, vessel, ghost, crashes, idles>>

\* A granted request is dispatched unless the owner is suspending.
Dispatch(c) ==
  /\ conn[c] = "granted"
  /\ IF rt[guard] # "listening" /\ susp[guard]
     THEN /\ conn' = [conn EXCEPT ![c] = Ended(c, "suspending")]
          /\ held' = held \ {c}
          /\ UNCHANGED <<rt, active, done>>
     ELSE IF \/ c \in Turns /\ (rt[guard] # "listening" \/ active # None)
             \/ c \in Lives /\ active = None
     THEN /\ conn' = [conn EXCEPT ![c] =
            Ended(c, IF rt[guard] # "listening" THEN "lost" ELSE "rejected")]
          /\ held' = held \ {c}
          /\ UNCHANGED <<rt, active, done>>
     ELSE /\ conn' = [conn EXCEPT ![c] = "dispatched"]
          /\ done' = IF c \in Effects THEN [done EXCEPT ![c] = Append(@, guard)]
                                   ELSE done
          /\ active' = IF c \in Turns THEN guard ELSE active
          /\ rt' = [rt EXCEPT ![guard] = IF c \in Stops THEN "draining" ELSE @]
          /\ UNCHANGED held
  /\ UNCHANGED <<reg, disk, locks, susp, queue, cinc, vessel, unfenced,
                 crashes, idles>>

\* A waiter is in the queue once.
Without(c) ==
  IF \E k \in 1 .. Len(queue) : queue[k] = c
  THEN LET k == CHOOSE k \in 1 .. Len(queue) : queue[k] = c
       IN  [j \in 1 .. Len(queue) - 1 |-> IF j < k THEN queue[j] ELSE queue[j + 1]]
  ELSE queue

Reply(c) ==
  /\ conn[c] = "dispatched"
  /\ conn' = [conn EXCEPT ![c] = Ended(c, "answered")] /\ held' = held \ {c}
  /\ UNCHANGED <<reg, disk, locks, proc, queue, cinc, vessel, ghost, crashes,
                 idles>>

\* Mutation: a handler that is already dispatching is never dropped.
HandlerTimeoutWaiting(c) ==
  /\ conn[c] = "waiting"
  /\ conn' = [conn EXCEPT ![c] = Ended(c, "lost")]
  /\ queue' = Without(c) /\ held' = held \ {c}
  /\ UNCHANGED <<reg, disk, locks, proc, cinc, vessel, ghost, crashes, idles>>

\* 30 s per connection: a stuck handler is dropped and its lock released.
HandlerTimeout(c) ==
  /\ conn[c] \in {"waiting", "granted", "dispatched"}
  /\ conn' = [conn EXCEPT ![c] = Ended(c, "lost")]
  /\ queue' = Without(c) /\ held' = held \ {c}
  /\ UNCHANGED <<reg, disk, locks, proc, cinc, vessel, ghost, crashes, idles>>

FinishRun ==
  /\ active # None /\ active' = None
  /\ UNCHANGED <<reg, disk, locks, rt, susp, rw, wire, vessel, ghost, crashes,
                 idles>>

\* Every two seconds one task asks for the write side of the request lock.
SuspendTick(i) ==
  /\ rt[i] = "listening" /\ idles < MaxIdle
  /\ "suspend" \notin held /\ \A k \in 1 .. Len(queue) : queue[k] # "suspend"
  /\ queue' = Append(queue, "suspend") /\ idles' = idles + 1
  /\ UNCHANGED <<reg, disk, locks, proc, held, wire, vessel, ghost, crashes>>

\* Mutation: suspension does not look at the active run.
MaySuspendAlways(i) == rt[i] = "listening"

MaySuspend(i) == rt[i] = "listening" /\ active = None

Suspend ==
  /\ "suspend" \in held
  /\ held' = held \ {"suspend"}
  /\ IF MaySuspend(guard)
     THEN /\ susp' = [susp EXCEPT ![guard] = TRUE]
          /\ rt' = [rt EXCEPT ![guard] = "draining"]
     ELSE UNCHANGED <<susp, rt>>
  /\ UNCHANGED <<reg, disk, locks, active, queue, wire, vessel, ghost, crashes,
                 idles>>

\* Connections the runtime will not serve any more end with it.
Dropped(bound) ==
  [c \in Commands |->
     IF conn[c] \in {"backlog", "waiting", "granted", "dispatched"} /\ bound
     THEN Ended(c, "lost") ELSE conn[c]]

\* Mutation: stop evidence is written although a run was not seen to end.
CloseDownUnobserved(i) ==
  /\ rt[i] = "draining"
  /\ "suspend" \notin held /\ \A k \in 1 .. Len(queue) : queue[k] # "suspend"
  /\ conn' = Dropped(TRUE)
  /\ queue' = <<>> /\ held' = {}
  /\ rt' = [rt EXCEPT ![i] = "closing"]
  /\ evid' = [inc |-> i, suspended |-> susp[i], failed |-> FALSE]
  /\ UNCHANGED <<reg, recv, sock, locks, susp, active, cinc, vessel, ghost,
                 crashes, idles>>

\* Handlers are waited for and aborted; evidence is written only when the
\* run and every owned resource were seen to end.
CloseDown(i) ==
  /\ rt[i] = "draining"
  /\ "suspend" \notin held /\ \A k \in 1 .. Len(queue) : queue[k] # "suspend"
  /\ conn' = Dropped(TRUE)
  /\ queue' = <<>> /\ held' = {}
  /\ rt' = [rt EXCEPT ![i] = "closing"]
  /\ IF active = None
     THEN evid' = [inc |-> i, suspended |-> susp[i], failed |-> FALSE]
     ELSE UNCHANGED evid
  /\ UNCHANGED <<reg, recv, sock, locks, susp, active, cinc, vessel, ghost,
                 crashes, idles>>

\* The endpoint is removed, then the process exits and drops the guard.
Exit(i) ==
  /\ rt[i] = "closing"
  /\ IF sock # None
     THEN sock' = None /\ UNCHANGED <<rt, guard, active>>
     ELSE /\ rt' = [rt EXCEPT ![i] = "gone"]
          /\ guard' = None /\ active' = None /\ UNCHANGED sock
  /\ susp' = [susp EXCEPT ![i] = @ /\ sock # None]
  /\ UNCHANGED <<reg, evid, recv, lock, rw, wire, vessel, ghost, crashes,
                 idles>>

\* The process dies: the kernel frees its locks, the endpoint stays.
RuntimeCrash(i) ==
  /\ rt[i] \notin {"none", "gone"} /\ crashes < MaxCrashes
  /\ crashes' = crashes + 1
  /\ rt' = [rt EXCEPT ![i] = "gone"]
  /\ lock' = IF lock = i THEN None ELSE lock
  /\ guard' = IF guard = i THEN None ELSE guard
  /\ active' = IF guard = i THEN None ELSE active
  /\ conn' = Dropped(guard = i)
  /\ queue' = IF guard = i THEN <<>> ELSE queue
  /\ held' = IF guard = i THEN {} ELSE held
  /\ UNCHANGED <<reg, disk, susp, cinc, vessel, ghost, idles>>
-----------------------------------------------------------------------------
Vessel(c) == \/ Take(c) \/ Route(c) \/ Stop(c) \/ Connect(c) \/ Receive(c)
             \/ GiveUp(c) \/ Observe(c) \/ Recover(c) \/ Restart(c) \/ Await(c)
Runtime(i) == \/ StartLock(i) \/ StartOwn(i) \/ Listen(i) \/ SuspendTick(i)
              \/ CloseDown(i) \/ Exit(i) \/ RuntimeCrash(i)
Handler(c) == Accept(c) \/ Dispatch(c) \/ Reply(c) \/ HandlerTimeout(c)

Next == \/ \E c \in Commands : Vessel(c) \/ Handler(c)
        \/ \E i \in Incs : Runtime(i)
        \/ Deadline \/ VesselCrash \/ Grant \/ Suspend \/ FinishRun

Spec == Init /\ [][Next]_vars

\* Every process that stays alive keeps running, timers fire, runs end.
\* Nothing promises that a dispatch finishes, nor that an owner is idle.
Fairness ==
  /\ \A c \in Commands :
       /\ WF_vars(Route(c) \/ Stop(c) \/ Connect(c) \/ Receive(c) \/ GiveUp(c)
                 \/ Observe(c) \/ Recover(c) \/ Restart(c) \/ Await(c))
       /\ WF_vars(Accept(c)) /\ WF_vars(HandlerTimeout(c))
  /\ \A i \in Incs :
       WF_vars(StartLock(i) \/ StartOwn(i) \/ Listen(i) \/ CloseDown(i) \/ Exit(i))
  /\ WF_vars(Deadline) /\ WF_vars(Grant) /\ WF_vars(Suspend)

FairSpec == Spec /\ Fairness
-----------------------------------------------------------------------------
Phases == {"none", "launched", "locked", "owner", "gone"} \cup Running
TypeOK ==
  /\ reg \in [inc : Incs, state : {"starting", "stopped", "unconfirmed"}]
  /\ evid \in [inc : 0 .. MaxInc, suspended : BOOLEAN, failed : BOOLEAN]
  /\ {recv, sock, lock, guard, active} \subseteq 0 .. MaxInc
  /\ rt \in [Incs -> Phases] /\ susp \in [Incs -> BOOLEAN]
  /\ held \subseteq Commands \cup {"suspend"}
  /\ out \in [Commands -> {"none", "ok", "refused", "unknown", "failed"}]
  \* The guard is held by the one process past startup.
  /\ \A i \in Incs : (rt[i] \in Owning) <=> guard = i

\* A command reaches a run at most once, over every retry, restart and
\* crash of dispatch_lifecycle: only an explicit not-dispatched answer or a
\* connection that never opened is tried again.
AtMostOnce == \A c \in Effects : Len(done[c]) <= 1

\* What the supervisor reports as refused never ran and never will: the 15 s
\* and 12 s deadlines racing a late handler end as unknown.
HonestRefusal == \A c \in Effects : out[c] = "refused" => done[c] = <<>>

\* Suspension is never cancellation: an incarnation that decided to suspend
\* has no run and admits none, whatever was queued at its socket.
SuspensionIsIdle == \A i \in Incs : susp[i] => active # i

\* stopped.json names an incarnation whose run and handlers have all ended:
\* it is what lets another process take the voyage over.
EvidenceIsQuiet ==
  evid.inc # None =>
    /\ active # evid.inc
    /\ guard = evid.inc => held = {} /\ queue = <<>>

\* Cancel, Steer, Respond and terminal input act only on the incarnation
\* that was registered when the command was taken.
LiveStaysWithOwner ==
  \A c \in Lives : \A k \in 1 .. Len(done[c]) : done[c][k] = took[c]

\* recovery.rs: "Restart requires positive runtime cleanup evidence;
\* unavailability never grants it."  A restart never replaces an incarnation
\* whose process still holds the execution guard.
RestartIsFenced == ~unfenced

\* Every command that took the lifecycle lock is answered.
CommandAnswered == \A c \in Commands : (hold = c) ~> (out[c] # "none")

\* No request waits at the runtime for ever: neither behind a resolution or
\* suspension waiting for the write side, nor behind a stuck dispatch.
HandlersFinish ==
  \A c \in Commands :
    (conn[c] \in {"waiting", "granted", "dispatched"}) ~>
      (conn[c] \in {"none", "answered", "rejected", "suspending", "lost"})

\* One owner at a time, one execution at most, and honest answers: what
\* dispatch_lifecycle, suspension and the request lock promise together.
OwnershipSafety ==
  /\ TypeOK /\ AtMostOnce /\ HonestRefusal
  /\ SuspensionIsIdle /\ EvidenceIsQuiet /\ LiveStaysWithOwner
=============================================================================
