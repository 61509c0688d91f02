--------------------------- MODULE OwnershipProofs ---------------------------
(***************************************************************************)
(* Theorems about who owns a session: Ownership, with any number of        *)
(* commands, incarnations, crashes and suspensions and a request queue of  *)
(* any length; and OwnerMove, with any number of transfers, destinations,  *)
(* commands and chunks, lost replies, crashes and restarts. The two have no *)
(* state in common.                                                        *)
(***************************************************************************)
EXTENDS Ownership, OwnerMove, FiniteSetTheorems, TLAPS

-----------------------------------------------------------------------------
(* The inductive invariant.                                                *)

Waiters == Commands \cup {"suspend"}
\* What a command's connection can be while a handler may still act on it.
Open == {"backlog", "waiting", "granted", "dispatched"}
Closed == {"none", "answered", "rejected", "suspending", "lost"}
Places == {"idle", "loop", "stop", "connect", "wait", "observe", "recover", "restart",
          "await"}
Outcomes == {"none", "ok", "refused", "unknown", "failed"}

\* The owner takes requests; nobody else has any.
Serving == guard # None /\ rt[guard] \in {"listening", "draining"}

\* Incarnations follow one another and the guard's holder is the one process
\* past startup; a run is the owner's, a suspended owner never listens again,
\* and evidence is about a process that has ended its work.
ProcessOK ==
  /\ TypeOK
  /\ \A i \in Incs : rt[i] = "none" <=> i > reg.inc
  /\ \A i \in Incs : susp[i] => rt[i] \in {"draining", "closing", "gone"}
  /\ active # None => active = guard
  /\ \A i \in Incs : susp[i] => active # i
  /\ evid.inc # None => rt[evid.inc] \in {"closing", "gone"} /\ active # evid.inc

\* A request waits once, and only at an owner that takes requests.
QueueOK ==
  /\ queue \in Seq(Waiters)
  /\ queue # <<>> \/ held # {} => Serving
  /\ \A k \in 1 .. Len(queue) : queue[k] \in Commands => conn[queue[k]] = "waiting"
  /\ \A k, l \in 1 .. Len(queue) : queue[k] = queue[l] => k = l

\* A command is with the supervisor, at its handler, or answered; it is only
\* sent again when its last handler is known to have done nothing.
CommandOK(c) ==
  /\ conn[c] \in Open \cup Closed
  /\ conn[c] \in Open => Serving
  /\ hold = c => out[c] = "none"
  /\ hold = c /\ pc # "wait" => conn[c] = "none"
  /\ hold # c /\ out[c] = "none" => conn[c] = "none"
  /\ out[c] = "refused" => conn[c] = "none"

EffectOK(c) ==
  /\ done[c] \in Seq(Incs)
  /\ Len(done[c]) <= 1
  /\ conn[c] \in {"backlog", "waiting", "granted", "rejected", "suspending"} =>
       done[c] = <<>>
  /\ hold = c /\ pc # "wait" => done[c] = <<>>
  /\ hold # c /\ out[c] \in {"none", "refused"} => done[c] = <<>>

\* A live command is addressed to, and handled by, the incarnation that was
\* registered when it was taken.
LiveOK(c) ==
  /\ hold = c => took[c] = reg.inc /\ pc \in {"loop", "connect", "wait"}
  /\ conn[c] = "backlog" => cinc[c] = took[c]
  /\ conn[c] \in {"waiting", "granted", "dispatched"} => took[c] = guard
  /\ \A k \in 1 .. Len(done[c]) : done[c][k] = took[c]

CommandsOK ==
  /\ hold \in Commands \cup {"none"} /\ pc \in Places
  /\ conn \in [Commands -> Open \cup Closed] /\ cinc \in [Commands -> 0 .. MaxInc]
  /\ took \in [Lives -> 0 .. MaxInc] /\ DOMAIN done = Effects
  /\ \A c \in Commands : CommandOK(c)
  /\ \A c \in Effects : EffectOK(c)
  /\ \A c \in Lives : LiveOK(c)

IInv == ProcessOK /\ QueueOK /\ CommandsOK

-----------------------------------------------------------------------------
(* The supervisor: the command that holds the lifecycle lock goes on, or is *)
(* answered.                                                                *)

LEMMA Names ==
  ASSUME OwnershipAssumption
  PROVE  /\ MaxInc \in Nat /\ 1 \in Incs /\ None \notin Incs /\ None \in 0 .. MaxInc
         /\ Incs \subseteq 0 .. MaxInc /\ Incs \subseteq Nat
         /\ "none" \notin Commands /\ "suspend" \notin Commands
         /\ Effects \subseteq Commands /\ Lives \subseteq Effects
         /\ \A c \in Effects : c \notin Reads /\ c \notin Resolves
         /\ \A c \in Lives : c \notin Stops
BY DEF OwnershipAssumption, Incs, None, Commands, Effects

\* What the supervisor's steps leave alone.
Kept ==
  /\ UNCHANGED <<evid, guard, rt, susp, active, queue, held, done>>
  /\ reg' \in [inc : Incs, state : {"starting", "stopped", "unconfirmed"}]
  /\ reg'.inc = reg.inc
  /\ {recv', sock', lock'} \subseteq 0 .. MaxInc
  /\ out' \in [Commands -> Outcomes]

LEMMA KeptIsKept ==
  ASSUME OwnershipAssumption, IInv, Kept,
         \A d \in Commands : conn[d] = "waiting" => conn'[d] = "waiting"
  PROVE  ProcessOK' /\ QueueOK' /\ Serving' = Serving
<1>1. TypeOK' BY DEF IInv, ProcessOK, TypeOK, Kept, Outcomes
<1>2. ProcessOK' BY <1>1 DEF IInv, ProcessOK, Kept
<1>3. Serving' = Serving BY DEF Kept, Serving
<1>4. QueueOK' BY <1>3 DEF IInv, QueueOK, Kept
<1>5. QED BY <1>2, <1>3, <1>4

\* It goes on, with no connection.
LEMMA GoesOn ==
  ASSUME OwnershipAssumption, IInv, Kept, NEW c \in Commands, hold = c,
         NEW p \in Places \ {"wait"}, Goto(p), UNCHANGED cinc,
         conn' = conn \/ conn' = [conn EXCEPT ![c] = "none"], conn'[c] = "none",
         conn[c] # "waiting",
         c \in Effects => done[c] = <<>>,
         c \in Lives => p \in {"loop", "connect"}
  PROVE  IInv'
<1>0. /\ hold' = c /\ pc' = p /\ took' = took /\ out' = out /\ cinc' = cinc
      /\ CommandsOK /\ UNCHANGED <<done, guard>> /\ reg'.inc = reg.inc
      /\ conn' \in [Commands -> Open \cup Closed]
      /\ \A d \in Commands : d # c => conn'[d] = conn[d]
  BY DEF Goto, IInv, CommandsOK, Kept, Closed
<1>1. ProcessOK' /\ QueueOK' /\ Serving' = Serving BY <1>0, KeptIsKept
<1>2. ASSUME NEW d \in Commands PROVE CommandOK(d)'
  BY <1>0, <1>1, <1>2 DEF CommandsOK, CommandOK, Open, Closed
<1>3. ASSUME NEW d \in Effects PROVE EffectOK(d)'
  BY <1>0, <1>3, Names DEF CommandsOK, EffectOK
<1>4. ASSUME NEW d \in Lives PROVE LiveOK(d)'
  BY <1>0, <1>4, Names DEF CommandsOK, LiveOK
<1>5. QED BY <1>0, <1>1, <1>2, <1>3, <1>4 DEF CommandsOK, IInv

\* It is answered, and refused only when it did nothing and cannot any more.
LEMMA IsAnswered ==
  ASSUME OwnershipAssumption, IInv, NEW c \in Commands, hold = c,
         NEW o \in Outcomes \ {"none"}, Kept, Answer(c, o), UNCHANGED cinc,
         conn' = conn \/ (conn' = [conn EXCEPT ![c] = "none"] /\ conn[c] # "waiting"),
         o = "refused" => conn'[c] = "none" /\ (c \in Effects => done[c] = <<>>)
  PROVE  IInv'
<1>1. out \in [Commands -> Outcomes] BY DEF IInv, ProcessOK, TypeOK, Outcomes
<1>2. /\ conn' \in [Commands -> Open \cup Closed]
      /\ conn'[c] = "none" \/ conn'[c] = conn[c]
      /\ \A d \in Commands : d # c => conn'[d] = conn[d]
  BY DEF IInv, CommandsOK, Closed
<1>3. /\ hold' = "none" /\ pc' = "idle" /\ took' = took /\ cinc' = cinc
      /\ out' = [out EXCEPT ![c] = o] /\ CommandsOK /\ UNCHANGED <<done, guard>>
      /\ reg'.inc = reg.inc
  BY DEF Answer, IInv, Kept
<1>4. out'[c] = o /\ \A d \in Commands : d # c => out'[d] = out[d] BY <1>1, <1>3
<1>5. ProcessOK' /\ QueueOK' /\ Serving' = Serving BY <1>2, <1>3, KeptIsKept
<1>6. ASSUME NEW d \in Commands PROVE CommandOK(d)'
  BY <1>2, <1>3, <1>4, <1>5, <1>6, Names DEF CommandsOK, CommandOK, Open, Closed
<1>7. ASSUME NEW d \in Effects PROVE EffectOK(d)'
  BY <1>2, <1>3, <1>4, <1>7, Names DEF CommandsOK, EffectOK
<1>8. ASSUME NEW d \in Lives PROVE LiveOK(d)'
  BY <1>2, <1>3, <1>4, <1>8, Names DEF CommandsOK, LiveOK
<1>9. QED BY <1>2, <1>3, <1>4, <1>5, <1>6, <1>7, <1>8 DEF CommandsOK, IInv, Places

\* Before it is connected, a command has done nothing and has no connection.
LEMMA Unconnected ==
  ASSUME OwnershipAssumption, IInv, NEW c \in Commands, hold = c, pc # "wait"
  PROVE  conn[c] = "none" /\ (c \in Effects => done[c] = <<>>)
BY DEF IInv, CommandsOK, CommandOK, EffectOK

\* A step that only moves the command, or moves it with the supervisor's files.
LEMMA KeptBy ==
  ASSUME OwnershipAssumption, IInv,
         UNCHANGED <<reg, evid, lock, guard, rt, susp, active, queue, held, done>>,
         {recv', sock'} \subseteq 0 .. MaxInc,
         out' \in [Commands -> Outcomes]
  PROVE  Kept
BY DEF IInv, ProcessOK, TypeOK, Kept

LEMMA OutIs ==
  ASSUME IInv
  PROVE  /\ out \in [Commands -> Outcomes]
         /\ \A c \in Commands, o \in Outcomes : Answer(c, o) => out' \in [Commands -> Outcomes]
         /\ \A p \in Places : Goto(p) => out' \in [Commands -> Outcomes]
BY DEF IInv, ProcessOK, TypeOK, Outcomes, Answer, Goto

LEMMA FilesAre ==
  ASSUME IInv
  PROVE  /\ {recv, sock, lock, guard, active} \subseteq 0 .. MaxInc
         /\ reg \in [inc : Incs, state : {"starting", "stopped", "unconfirmed"}]
         /\ reg.inc \in Incs
BY DEF IInv, ProcessOK, TypeOK

LEMMA TakeKeeps == ASSUME OwnershipAssumption, IInv, NEW c \in Commands, Take(c) PROVE IInv'
<1>1. /\ hold = "none" /\ out[c] = "none" /\ hold' = c /\ pc' \in {"stop", "loop"}
      /\ c \notin Stops => pc' = "loop"
      /\ UNCHANGED <<reg, evid, recv, sock, lock, guard, rt, susp, active, queue, held, conn,
                     cinc, out, done>>
  BY DEF Take, disk, locks, proc, rw, wire, ghost
<1>2. /\ took' \in [Lives -> 0 .. MaxInc]
      /\ c \in Lives => took'[c] = reg.inc
      /\ \A d \in Lives : d # c => took'[d] = took[d]
  BY FilesAre, Names DEF Take, IInv, CommandsOK
<1>3. Kept BY <1>1, KeptBy, OutIs, FilesAre
<1>4. ProcessOK' /\ QueueOK' /\ Serving' = Serving BY <1>1, <1>3, KeptIsKept
<1>5. CommandsOK /\ CommandOK(c) BY DEF IInv, CommandsOK
<1>6. conn[c] = "none" /\ (c \in Effects => done[c] = <<>>)
  BY <1>1, <1>5, Names DEF CommandsOK, CommandOK, EffectOK
<1>7. ASSUME NEW d \in Commands PROVE CommandOK(d)'
  BY <1>1, <1>4, <1>5, <1>6, Names DEF CommandsOK, CommandOK
<1>8. ASSUME NEW d \in Effects PROVE EffectOK(d)'
  BY <1>1, <1>5, <1>6, Names DEF CommandsOK, EffectOK
<1>9. ASSUME NEW d \in Lives PROVE LiveOK(d)'
  <2>1. CASE d = c
    BY <1>1, <1>2, <1>6, <2>1, Names DEF LiveOK
  <2>2. CASE d # c
    BY <1>1, <1>2, <1>5, <2>2, Names DEF CommandsOK, LiveOK
  <2>3. QED BY <2>1, <2>2
<1>10. QED BY <1>1, <1>2, <1>4, <1>5, <1>7, <1>8, <1>9 DEF IInv, CommandsOK, Places

\* Where the supervisor's steps lead: on, or to an answer.
Onward(c) ==
  \/ \E p \in {"loop", "connect", "observe", "recover", "restart", "await"} :
       Goto(p) /\ (c \in Lives => p \in {"loop", "connect"})
  \/ \E o \in Outcomes \ {"none"} : Answer(c, o)

\* A command with no connection goes onward.
LEMMA OnwardKeeps ==
  ASSUME OwnershipAssumption, IInv, NEW c \in Commands, hold = c, pc # "wait",
         UNCHANGED <<evid, lock, guard, rt, susp, active, queue, held, done, conn, cinc>>,
         reg' \in [inc : Incs, state : {"starting", "stopped", "unconfirmed"}],
         reg'.inc = reg.inc, {recv', sock'} \subseteq 0 .. MaxInc, Onward(c)
  PROVE  IInv'
<1>1. conn[c] = "none" /\ (c \in Effects => done[c] = <<>>) BY Unconnected
<1>2. ASSUME NEW p \in {"loop", "connect", "observe", "recover", "restart", "await"},
             Goto(p), c \in Lives => p \in {"loop", "connect"}
      PROVE  IInv'
  <2>1. p \in Places \ {"wait"} BY DEF Places
  <2>2. Kept BY <1>2, <2>1, OutIs, FilesAre DEF Kept
  <2>3. QED BY <1>1, <1>2, <2>1, <2>2, GoesOn
<1>3. ASSUME NEW o \in Outcomes \ {"none"}, Answer(c, o) PROVE IInv'
  <2>1. Kept BY <1>3, OutIs, FilesAre DEF Kept
  <2>2. QED BY <1>1, <1>3, <2>1, IsAnswered
<1>4. QED BY <1>2, <1>3 DEF Onward

LEMMA SupervisorMoves ==
  ASSUME OwnershipAssumption, IInv, NEW c \in Commands,
         Route(c) \/ Stop(c) \/ Observe(c) \/ Recover(c) \/ Await(c)
  PROVE  IInv'
<1>0. (Lives \cap (Reads \cup Resolves \cup Stops)) = {} BY Names
<1>1. CASE Route(c)
  <2>1. Onward(c) BY <1>0, <1>1 DEF Route, Onward, RefuseLive, Outcomes
  <2>2. QED BY <1>1, <2>1, FilesAre, OnwardKeeps DEF Route, disk, locks, proc, rw, wire, ghost
<1>2. CASE Stop(c)
  <2>1. /\ Onward(c)
        /\ reg' \in [inc : Incs, state : {"starting", "stopped", "unconfirmed"}]
        /\ reg'.inc = reg.inc
    BY <1>2, FilesAre DEF Stop, Onward, Outcomes
  <2>2. QED BY <1>2, <2>1, FilesAre, OnwardKeeps DEF Stop, disk, locks, proc, rw, wire, ghost
<1>3. CASE Observe(c)
  <2>1. Onward(c) BY <1>3 DEF Observe, Onward, Outcomes
  <2>2. QED BY <1>3, <2>1, FilesAre, OnwardKeeps DEF Observe, disk, locks, proc, rw, wire, ghost
<1>4. CASE Recover(c)
  <2>1. c \notin Lives
    BY <1>4 DEF Recover, IInv, CommandsOK, LiveOK
  <2>2. Onward(c) /\ {recv', sock'} \subseteq 0 .. MaxInc /\ evid' = evid
    BY <1>4, <2>1, FilesAre, Names DEF Recover, Onward, Outcomes, OfflineRecovery, disk
  <2>3. QED BY <1>4, <2>2, FilesAre, OnwardKeeps DEF Recover, locks, proc, rw, wire, ghost
<1>5. CASE Await(c)
  <2>1. Onward(c) BY <1>5 DEF Await, Onward, Outcomes
  <2>2. QED BY <1>5, <2>1, FilesAre, OnwardKeeps DEF Await, disk, locks, proc, rw, wire, ghost
<1>6. QED BY <1>1, <1>2, <1>3, <1>4, <1>5

\* The owner's socket was bound by the guard's holder if it answers.
LEMMA Reached ==
  ASSUME OwnershipAssumption, IInv, Reachable
  PROVE  Serving
<1>1. sock \in Incs /\ rt[sock] \in Owning
  BY FilesAre DEF Reachable, Owning, Running, Incs, None
<1>2. guard = sock BY <1>1 DEF IInv, ProcessOK, TypeOK
<1>3. QED BY <1>2 DEF Reachable, Serving

LEMMA ConnectKeeps ==
  ASSUME OwnershipAssumption, IInv, NEW c \in Commands, Connect(c) PROVE IInv'
<1>0. /\ hold = c /\ pc = "connect"
      /\ UNCHANGED <<reg, evid, recv, sock, lock, guard, rt, susp, active, queue, held, done>>
  BY DEF Connect, disk, locks, proc, rw, ghost
<1>1. CASE /\ UNCHANGED wire
           /\ Disconnected(c) \/ (c \in Reads \cup Resolves /\ Goto("observe"))
  <2>1. UNCHANGED <<conn, cinc>> BY <1>1 DEF wire
  <2>2. Onward(c) BY <1>1, Names DEF Disconnected, RefuseLive, Onward, Outcomes
  <2>3. QED BY <1>0, <2>1, <2>2, FilesAre, OnwardKeeps
<1>2. CASE /\ Reachable /\ Goto("wait")
           /\ conn' = [conn EXCEPT ![c] = "backlog"]
           /\ cinc' = [cinc EXCEPT ![c] = reg.inc]
  <2>1. /\ hold' = c /\ pc' = "wait" /\ took' = took /\ out' = out
    BY <1>0, <1>2 DEF Goto
  <2>2. CommandsOK /\ conn[c] = "none" /\ (c \in Effects => done[c] = <<>>)
    BY <1>0, Unconnected DEF IInv
  <2>3. /\ conn' \in [Commands -> Open \cup Closed] /\ cinc' \in [Commands -> 0 .. MaxInc]
        /\ conn'[c] = "backlog" /\ cinc'[c] = reg.inc
        /\ \A d \in Commands : d # c => conn'[d] = conn[d] /\ cinc'[d] = cinc[d]
    BY <1>2, <2>2, FilesAre, Names DEF CommandsOK, Open
  <2>4. Kept BY <1>0, <2>1, KeptBy, OutIs, FilesAre
  <2>5. ProcessOK' /\ QueueOK' /\ Serving' = Serving BY <2>2, <2>3, <2>4, KeptIsKept
  <2>6. Serving BY <1>2, Reached
  <2>7. ASSUME NEW d \in Commands PROVE CommandOK(d)'
    BY <1>0, <2>1, <2>2, <2>3, <2>5, <2>6 DEF CommandsOK, CommandOK, Open
  <2>8. ASSUME NEW d \in Effects PROVE EffectOK(d)'
    BY <1>0, <2>1, <2>2, <2>3, Names DEF CommandsOK, EffectOK
  <2>9. ASSUME NEW d \in Lives PROVE LiveOK(d)'
    BY <1>0, <2>1, <2>2, <2>3, Names DEF CommandsOK, LiveOK
  <2>10. QED BY <1>0, <2>1, <2>2, <2>3, <2>5, <2>7, <2>8, <2>9 DEF CommandsOK, IInv, Places
<1>3. QED BY <1>1, <1>2 DEF Connect

LEMMA ReceiveKeeps ==
  ASSUME OwnershipAssumption, IInv, NEW c \in Commands, Receive(c) PROVE IInv'
<1>0. /\ hold = c /\ pc = "wait" /\ Settle(c)
      /\ conn[c] \in {"answered", "rejected", "suspending", "lost"}
      /\ conn' = [conn EXCEPT ![c] = "none"] /\ cinc' = cinc
      /\ UNCHANGED <<reg, evid, recv, sock, lock, guard, rt, susp, active, queue, held, done>>
  BY DEF Receive, disk, locks, proc, rw, ghost
<1>1. conn'[c] = "none" /\ conn[c] # "waiting" BY <1>0 DEF IInv, CommandsOK
<1>2. c \in Effects /\ conn[c] \in {"rejected", "suspending"} => done[c] = <<>>
  BY DEF IInv, CommandsOK, EffectOK
<1>3. CASE Goto("loop") /\ (conn[c] = "suspending" \/ c \in Reads \cup Resolves)
  <2>1. c \in Effects => done[c] = <<>> BY <1>2, <1>3, Names
  <2>2. Kept BY <1>0, <1>3, KeptBy, OutIs, FilesAre DEF Places
  <2>3. "loop" \in Places \ {"wait"} BY DEF Places
  <2>4. QED BY <1>0, <1>1, <1>3, <2>1, <2>2, <2>3, GoesOn
<1>4. ASSUME NEW o \in {"ok", "unknown", "refused"}, Answer(c, o),
             o = "refused" => conn[c] \in {"rejected", "suspending"}
      PROVE  IInv'
  <2>1. o \in Outcomes \ {"none"} BY DEF Outcomes
  <2>2. Kept BY <1>0, <1>4, <2>1, KeptBy, OutIs, FilesAre
  <2>3. QED BY <1>0, <1>1, <1>2, <1>4, <2>1, <2>2, IsAnswered
<1>5. QED BY <1>0, <1>3, <1>4 DEF Settle

LEMMA GiveUpKeeps ==
  ASSUME OwnershipAssumption, IInv, NEW c \in Commands, GiveUp(c) PROVE IInv'
<1>0. /\ hold = c /\ pc = "wait" /\ Answer(c, "unknown") /\ conn' = conn /\ cinc' = cinc
      /\ UNCHANGED <<reg, evid, recv, sock, lock, guard, rt, susp, active, queue, held, done>>
  BY DEF GiveUp, disk, locks, proc, rw, ghost, wire
<1>1. "unknown" \in Outcomes \ {"none"} BY DEF Outcomes
<1>2. Kept BY <1>0, <1>1, KeptBy, OutIs, FilesAre
<1>3. QED BY <1>0, <1>1, <1>2, IsAnswered

LEMMA VesselCrashKeeps == ASSUME OwnershipAssumption, IInv, VesselCrash PROVE IInv'
<1>0. /\ hold \in Commands /\ Answer(hold, "unknown") /\ conn' = conn /\ cinc' = cinc
      /\ UNCHANGED <<reg, evid, recv, sock, lock, guard, rt, susp, active, queue, held, done>>
  BY DEF VesselCrash, Answer, IInv, CommandsOK, disk, locks, proc, rw, ghost, wire
<1>1. "unknown" \in Outcomes \ {"none"} BY DEF Outcomes
<1>2. Kept BY <1>0, <1>1, KeptBy, OutIs, FilesAre
<1>3. QED BY <1>0, <1>1, <1>2, IsAnswered

LEMMA RestartKeeps ==
  ASSUME OwnershipAssumption, IInv, NEW c \in Commands, Restart(c) PROVE IInv'
<1>0. /\ hold = c /\ pc = "restart"
      /\ UNCHANGED <<evid, recv, sock, lock, guard, susp, active, queue, held, conn, cinc, done>>
  BY DEF Restart, disk, locks, rw, wire
<1>1. CASE Answer(c, "refused") /\ UNCHANGED <<reg, rt>>
  <2>1. Onward(c) BY <1>1 DEF Onward, Outcomes
  <2>2. QED BY <1>0, <1>1, <2>1, FilesAre, OnwardKeeps
<1>2. CASE /\ reg.inc < MaxInc /\ reg' = [inc |-> reg.inc + 1, state |-> "starting"]
           /\ rt' = [rt EXCEPT ![reg.inc + 1] = "launched"] /\ Goto("await")
  <2> DEFINE n == reg.inc + 1
  <2>1. /\ n \in Incs /\ n > reg.inc /\ reg.inc \in Incs
        /\ \A i \in Incs : (i > n) <=> (i > reg.inc /\ i # n)
    BY <1>2, FilesAre, Names DEF Incs
  <2>2. /\ reg' = [inc |-> n, state |-> "starting"] /\ rt' = [rt EXCEPT ![n] = "launched"]
        /\ hold' = c /\ pc' = "await" /\ took' = took /\ out' = out
    BY <1>0, <1>2 DEF Goto
  <2> HIDE DEF n
  <2>3. /\ rt \in [Incs -> Phases] /\ rt[n] = "none" /\ guard # n /\ evid.inc # n
    BY <2>1 DEF IInv, ProcessOK, TypeOK, Owning, Running, None, Incs
  <2>4. /\ rt' \in [Incs -> Phases] /\ rt'[n] = "launched"
        /\ \A i \in Incs : i # n => rt'[i] = rt[i]
    BY <2>1, <2>2, <2>3 DEF Phases
  <2>5. TypeOK'
    <3>1. \A i \in Incs : (rt'[i] \in Owning) <=> guard' = i
      BY <1>0, <2>3, <2>4 DEF IInv, ProcessOK, TypeOK, Owning, Running
    <3>2. reg' \in [inc : Incs, state : {"starting", "stopped", "unconfirmed"}]
      BY <2>1, <2>2
    <3>3. QED BY <1>0, <2>2, <2>4, <3>1, <3>2 DEF IInv, ProcessOK, TypeOK
  <2>6. evid.inc # None => evid.inc \in Incs
    BY DEF IInv, ProcessOK, TypeOK, Incs, None
  <2>7. guard # None => guard \in Incs BY FilesAre DEF Incs, None
  <2>8. ProcessOK'
    BY <1>0, <2>1, <2>2, <2>3, <2>4, <2>5, <2>6 DEF IInv, ProcessOK
  <2>9. Serving' = Serving BY <1>0, <2>3, <2>4, <2>7 DEF Serving
  <2>10. QueueOK' BY <1>0, <2>9 DEF IInv, QueueOK
  <2>11. c \notin Lives /\ CommandsOK BY <1>0 DEF IInv, CommandsOK, LiveOK
  <2>12. ASSUME NEW d \in Commands PROVE CommandOK(d)'
    BY <1>0, <2>2, <2>9, <2>11 DEF CommandsOK, CommandOK
  <2>13. ASSUME NEW d \in Effects PROVE EffectOK(d)'
    BY <1>0, <2>2, <2>11, Names DEF CommandsOK, EffectOK
  <2>14. ASSUME NEW d \in Lives PROVE LiveOK(d)'
    BY <1>0, <2>2, <2>11, Names DEF CommandsOK, LiveOK
  <2>15. QED BY <1>0, <2>2, <2>8, <2>10, <2>11, <2>12, <2>13, <2>14 DEF IInv, CommandsOK, Places
<1>3. QED BY <1>0, <1>1, <1>2 DEF Restart

LEMMA IdleKeeps ==
  ASSUME OwnershipAssumption, IInv,
         UNCHANGED <<reg, disk, locks, proc, rw, wire, hold, pc, took, out, done>>
  PROVE  IInv'
<1>1. UNCHANGED <<reg, evid, recv, sock, lock, guard, rt, susp, active, queue, held, conn,
                  cinc, hold, pc, took, out, done>>
  BY DEF disk, locks, proc, rw, wire
<1>2. Kept BY <1>1, KeptBy, OutIs, FilesAre
<1>3. ProcessOK' /\ QueueOK' /\ Serving' = Serving BY <1>1, <1>2, KeptIsKept
<1>4. CommandsOK' BY <1>1, <1>3 DEF IInv, CommandsOK, CommandOK, EffectOK, LiveOK
<1>5. QED BY <1>3, <1>4 DEF IInv

-----------------------------------------------------------------------------
(* The runtime: its processes.                                             *)

\* One process changes its phase; no run and no command does.
PhaseStep(i, x) ==
  /\ UNCHANGED <<reg, recv, susp, active, conn, cinc, vessel, done>>
  /\ x \in Phases \ {"none"} /\ rt[i] # "none" /\ rt' = [rt EXCEPT ![i] = x]
  /\ \/ queue' = queue /\ held' = held
     \/ queue' = <<>> /\ held' = {}
  /\ {sock', lock', guard'} \subseteq 0 .. MaxInc
  /\ evid' \in [inc : 0 .. MaxInc, suspended : BOOLEAN, failed : BOOLEAN]
  /\ \A j \in Incs : (rt'[j] \in Owning) <=> guard' = j
  /\ active # None => guard' = guard
  /\ susp[i] => x \in {"draining", "closing", "gone"}
  /\ evid'.inc # None =>
       \/ evid'.inc = i /\ x \in {"closing", "gone"} /\ active # i
       \/ evid'.inc = evid.inc /\ (evid.inc = i => x \in {"closing", "gone"})
  /\ Serving => Serving' /\ guard' = guard

LEMMA PhaseKeeps ==
  ASSUME OwnershipAssumption, IInv, NEW i \in Incs, NEW x, PhaseStep(i, x)
  PROVE  IInv'
<1>0. /\ rt \in [Incs -> Phases] /\ rt' \in [Incs -> Phases] /\ rt'[i] = x
      /\ \A j \in Incs : j # i => rt'[j] = rt[j]
  BY DEF IInv, ProcessOK, TypeOK, PhaseStep
<1>1. UNCHANGED <<hold, pc, took, out>> BY DEF vessel, PhaseStep
<1>2. TypeOK' BY <1>0, <1>1 DEF IInv, ProcessOK, TypeOK, PhaseStep
<1>3. evid'.inc # None => evid'.inc \in Incs BY DEF Incs, None, PhaseStep
<1>4. ProcessOK' BY <1>0, <1>2, <1>3 DEF IInv, ProcessOK, PhaseStep
<1>5. QueueOK'
  <2>1. CASE queue' = queue /\ held' = held BY <2>1 DEF IInv, QueueOK, PhaseStep
  <2>2. CASE queue' = <<>> /\ held' = {} BY <2>2 DEF QueueOK
  <2>3. QED BY <2>1, <2>2 DEF PhaseStep
<1>6. ASSUME NEW d \in Commands PROVE CommandOK(d)'
  BY <1>1 DEF IInv, CommandsOK, CommandOK, PhaseStep
<1>7. ASSUME NEW d \in Effects PROVE EffectOK(d)'
  BY <1>1 DEF IInv, CommandsOK, EffectOK, PhaseStep
<1>8. ASSUME NEW d \in Lives PROVE LiveOK(d)'
  <2>1. conn[d] \in Open => Serving BY Names DEF IInv, CommandsOK, CommandOK
  <2>2. QED BY <1>1, <2>1 DEF IInv, CommandsOK, LiveOK, Open, PhaseStep
<1>9. QED BY <1>1, <1>4, <1>5, <1>6, <1>7, <1>8 DEF IInv, CommandsOK, PhaseStep

LEMMA Owner ==
  ASSUME IInv, NEW i \in Incs
  PROVE  /\ rt[i] \in Owning <=> guard = i
         /\ rt \in [Incs -> Phases] /\ guard \in 0 .. MaxInc
         /\ rt[i] = "owner" => ~Serving /\ guard = i
         /\ rt[i] = "closing" => ~Serving /\ guard = i
         /\ rt[i] \in {"listening", "draining"} => Serving /\ guard = i
         /\ guard = None => ~Serving
BY DEF IInv, ProcessOK, TypeOK, Serving, Owning, Running, None, Incs

LEMMA StartLockKeeps ==
  ASSUME OwnershipAssumption, IInv, NEW i \in Incs, StartLock(i) PROVE IInv'
<1>0. /\ rt[i] = "launched" /\ lock' \in {lock, i}
      /\ UNCHANGED <<reg, evid, recv, sock, guard, susp, active, queue, held, conn, cinc,
                     vessel, done>>
  BY DEF StartLock, disk, rw, wire, ghost
<1>1. PICK x \in {"locked", "gone"} : rt' = [rt EXCEPT ![i] = x] BY DEF StartLock
<1>2. x \in Phases \ {"none"} BY DEF Phases
<1>3. guard # i /\ rt \in [Incs -> Phases] BY <1>0, Owner DEF Owning, Running
<1>4. \A j \in Incs : (rt'[j] \in Owning) <=> guard' = j
  BY <1>0, <1>1, <1>3 DEF IInv, ProcessOK, TypeOK, Owning, Running
<1>5. ~susp[i] /\ evid.inc # i BY <1>0 DEF IInv, ProcessOK, None, Incs
<1>6. Serving => Serving' /\ guard' = guard
  BY <1>0, <1>1, <1>3, Owner, FilesAre DEF Serving, Incs, None
<1>7. {sock', lock', guard'} \subseteq 0 .. MaxInc BY <1>0, FilesAre, Names
<1>8. evid' \in [inc : 0 .. MaxInc, suspended : BOOLEAN, failed : BOOLEAN]
  BY <1>0 DEF IInv, ProcessOK, TypeOK
<1>9. PhaseStep(i, x)
  BY <1>0, <1>1, <1>2, <1>3, <1>4, <1>5, <1>6, <1>7, <1>8 DEF PhaseStep
<1>10. QED BY <1>9, PhaseKeeps

LEMMA StartOwnKeeps ==
  ASSUME OwnershipAssumption, IInv, NEW i \in Incs, StartOwn(i) PROVE IInv'
<1>0. /\ rt[i] = "locked" /\ lock' = None
      /\ UNCHANGED <<reg, recv, sock, susp, active, queue, held, conn, cinc, vessel, done>>
  BY DEF StartOwn, rw, wire, ghost
<1>1. guard # i /\ rt \in [Incs -> Phases] BY <1>0, Owner DEF Owning, Running
<1>2. ~susp[i] /\ evid.inc # i BY <1>0 DEF IInv, ProcessOK, None, Incs
<1>3. evid \in [inc : 0 .. MaxInc, suspended : BOOLEAN, failed : BOOLEAN]
  BY DEF IInv, ProcessOK, TypeOK
<1>4. active # None => active = guard BY DEF IInv, ProcessOK
<1>5. i \in 0 .. MaxInc /\ i # None BY Names
<1>6. CASE guard = None /\ guard' = i /\ rt' = [rt EXCEPT ![i] = "owner"] /\ evid' = evid
  <2>1. \A j \in Incs : (rt'[j] \in Owning) <=> guard' = j
    BY <1>0, <1>1, <1>6, Names DEF IInv, ProcessOK, TypeOK, Owning, Running
  <2>2. ~Serving BY <1>6, Owner
  <2>3. "owner" \in Phases \ {"none"} BY DEF Phases
  <2>4. {sock', lock', guard'} \subseteq 0 .. MaxInc BY <1>0, <1>5, <1>6, FilesAre, Names
  <2>5. PhaseStep(i, "owner")
    BY <1>0, <1>1, <1>2, <1>3, <1>4, <1>6, <2>1, <2>2, <2>3, <2>4 DEF PhaseStep
  <2>6. QED BY <2>5, PhaseKeeps
<1>7. CASE /\ rt' = [rt EXCEPT ![i] = "gone"] /\ guard' = guard
           /\ evid' = evid \/ evid' = [inc |-> i, suspended |-> FALSE, failed |-> TRUE]
  <2>1. \A j \in Incs : (rt'[j] \in Owning) <=> guard' = j
    BY <1>1, <1>7 DEF IInv, ProcessOK, TypeOK, Owning, Running
  <2>2. Serving => Serving' /\ guard' = guard
    BY <1>1, <1>7, Owner, FilesAre DEF Serving, Incs, None
  <2>3. "gone" \in Phases \ {"none"} BY DEF Phases
  <2>4. {sock', lock', guard'} \subseteq 0 .. MaxInc BY <1>0, <1>7, FilesAre, Names
  <2>5. /\ evid' \in [inc : 0 .. MaxInc, suspended : BOOLEAN, failed : BOOLEAN]
        /\ evid'.inc = i \/ evid'.inc = evid.inc
    <3>1. CASE evid' = evid BY <1>3, <3>1
    <3>2. CASE evid' = [inc |-> i, suspended |-> FALSE, failed |-> TRUE] BY <1>5, <3>2
    <3>3. QED BY <1>7, <3>1, <3>2
  <2>6. active # i BY <1>1, <1>4, <1>5
  <2>7. PhaseStep(i, "gone")
    BY <1>0, <1>1, <1>2, <1>7, <2>1, <2>2, <2>3, <2>4, <2>5, <2>6 DEF PhaseStep
  <2>8. QED BY <2>7, PhaseKeeps
<1>8. QED BY <1>6, <1>7 DEF StartOwn

LEMMA ListenKeeps ==
  ASSUME OwnershipAssumption, IInv, NEW i \in Incs, Listen(i) PROVE IInv'
<1>0. /\ rt[i] = "owner" /\ evid' = NoEvidence /\ sock' = i
      /\ rt' = [rt EXCEPT ![i] = "listening"] /\ queue' = <<>> /\ held' = {}
      /\ UNCHANGED <<reg, recv, lock, guard, susp, active, conn, cinc, vessel, done>>
  BY DEF Listen, locks, wire, ghost
<1>1. guard = i /\ ~Serving /\ rt \in [Incs -> Phases] BY <1>0, Owner
<1>2. ~susp[i] BY <1>0 DEF IInv, ProcessOK
<1>3. \A j \in Incs : (rt'[j] \in Owning) <=> guard' = j
  BY <1>0, <1>1, Names DEF IInv, ProcessOK, TypeOK, Owning, Running
<1>4. "listening" \in Phases \ {"none"} BY DEF Phases, Running
<1>5. {sock', lock', guard'} \subseteq 0 .. MaxInc BY <1>0, FilesAre, Names
<1>6. /\ evid' \in [inc : 0 .. MaxInc, suspended : BOOLEAN, failed : BOOLEAN]
      /\ evid'.inc = None
  BY <1>0, Names DEF NoEvidence
<1>7. PhaseStep(i, "listening")
  BY <1>0, <1>1, <1>2, <1>3, <1>4, <1>5, <1>6 DEF PhaseStep
<1>8. QED BY <1>7, PhaseKeeps

\* When the owner stops serving, its connections end.
LEMMA DropKeeps ==
  ASSUME OwnershipAssumption, IInv, conn' = Dropped(TRUE),
         UNCHANGED <<reg, cinc, hold, pc, took, out, done>>
  PROVE  CommandsOK'
<1>0. CommandsOK BY DEF IInv
<1>1. conn' = [c \in Commands |-> IF conn[c] \in Open THEN Ended(c, "lost") ELSE conn[c]]
  BY DEF Dropped, Open
<1>2. /\ conn' \in [Commands -> Open \cup Closed]
      /\ \A c \in Commands :
           /\ conn[c] \in Closed => conn'[c] = conn[c]
           /\ conn[c] \in Open => conn'[c] = Ended(c, "lost")
  BY <1>0, <1>1 DEF CommandsOK, Open, Closed, Ended
<1>3. ASSUME NEW d \in Commands PROVE CommandOK(d)'
  BY <1>0, <1>2 DEF CommandsOK, CommandOK, Open, Closed, Ended
<1>4. ASSUME NEW d \in Effects PROVE EffectOK(d)'
  BY <1>0, <1>2, Names DEF CommandsOK, CommandOK, EffectOK, Open, Closed, Ended
<1>5. ASSUME NEW d \in Lives PROVE LiveOK(d)'
  BY <1>0, <1>2, Names DEF CommandsOK, CommandOK, LiveOK, Open, Closed, Ended
<1>6. QED BY <1>0, <1>2, <1>3, <1>4, <1>5 DEF CommandsOK

\* One process ends its work, and a run with it or before it.
LEMMA EndingKeeps ==
  ASSUME OwnershipAssumption, IInv, NEW i \in Incs, NEW x \in {"closing", "gone"},
         rt[i] # "none", rt' = [rt EXCEPT ![i] = x], UNCHANGED <<reg, recv, out>>,
         susp' \in [Incs -> BOOLEAN], \A j \in Incs : susp'[j] => susp[j],
         {sock', lock', guard'} \subseteq 0 .. MaxInc, active' \in {active, None},
         evid' \in [inc : 0 .. MaxInc, suspended : BOOLEAN, failed : BOOLEAN],
         \A j \in Incs : (rt'[j] \in Owning) <=> guard' = j,
         active' # None => guard' = guard,
         evid'.inc = evid.inc \/ (evid'.inc = i /\ active' # i),
         held' \subseteq Waiters
  PROVE  ProcessOK'
<1>0. /\ rt \in [Incs -> Phases] /\ rt' \in [Incs -> Phases] /\ rt'[i] = x
      /\ \A j \in Incs : j # i => rt'[j] = rt[j]
  BY DEF IInv, ProcessOK, TypeOK, Phases, Running
<1>1. active' \in 0 .. MaxInc BY FilesAre, Names
<1>2. TypeOK' BY <1>0, <1>1 DEF IInv, ProcessOK, TypeOK, Waiters
<1>3. evid'.inc # None => evid'.inc \in Incs BY DEF Incs, None
<1>4. evid'.inc # None => rt'[evid'.inc] \in {"closing", "gone"} /\ active' # evid'.inc
  BY <1>0, <1>3 DEF IInv, ProcessOK
<1>5. \A j \in Incs : rt'[j] = "none" <=> j > reg'.inc
  BY <1>0 DEF IInv, ProcessOK
<1>6. \A j \in Incs : susp'[j] => rt'[j] \in {"draining", "closing", "gone"} /\ active' # j
  BY <1>0, Names DEF IInv, ProcessOK
<1>7. active' # None => active' = guard' BY DEF IInv, ProcessOK
<1>8. QED BY <1>2, <1>4, <1>5, <1>6, <1>7 DEF ProcessOK

LEMMA EmptyQueue == ASSUME queue' = <<>>, held' = {} PROVE QueueOK'
BY DEF QueueOK

LEMMA CloseDownKeeps ==
  ASSUME OwnershipAssumption, IInv, NEW i \in Incs, CloseDown(i) PROVE IInv'
<1>0. /\ rt[i] = "draining" /\ rt' = [rt EXCEPT ![i] = "closing"] /\ conn' = Dropped(TRUE)
      /\ queue' = <<>> /\ held' = {}
      /\ UNCHANGED <<reg, recv, sock, lock, guard, susp, active, cinc, hold, pc, took, out,
                     done>>
  BY DEF CloseDown, locks, vessel, ghost
<1>1. guard = i /\ rt \in [Incs -> Phases] BY <1>0, Owner
<1>2. \A j \in Incs : (rt'[j] \in Owning) <=> guard' = j
  BY <1>0, <1>1 DEF IInv, ProcessOK, TypeOK, Owning, Running
<1>3. /\ susp \in [Incs -> BOOLEAN]
      /\ evid \in [inc : 0 .. MaxInc, suspended : BOOLEAN, failed : BOOLEAN]
      /\ active # None => active = guard
  BY DEF IInv, ProcessOK, TypeOK
<1>4. /\ evid' \in [inc : 0 .. MaxInc, suspended : BOOLEAN, failed : BOOLEAN]
      /\ evid'.inc = evid.inc \/ (evid'.inc = i /\ active' # i)
  <2>1. CASE evid' = evid BY <1>3, <2>1
  <2>2. CASE active = None /\ evid' = [inc |-> i, suspended |-> susp[i], failed |-> FALSE]
    BY <1>0, <1>3, <2>2, Names
  <2>3. QED BY <2>1, <2>2 DEF CloseDown
<1>5. {sock', lock', guard'} \subseteq 0 .. MaxInc BY <1>0, FilesAre
<1>6. ProcessOK' BY <1>0, <1>2, <1>3, <1>4, <1>5, EndingKeeps
<1>7. QED BY <1>0, <1>6, DropKeeps, EmptyQueue DEF IInv

LEMMA ExitKeeps ==
  ASSUME OwnershipAssumption, IInv, NEW i \in Incs, Exit(i) PROVE IInv'
<1>0. /\ rt[i] = "closing" /\ susp' = [susp EXCEPT ![i] = @ /\ sock # None]
      /\ UNCHANGED <<reg, evid, recv, lock, queue, held, conn, cinc, hold, pc, took, out, done>>
  BY DEF Exit, rw, wire, vessel, ghost
<1>1. /\ guard = i /\ ~Serving /\ rt \in [Incs -> Phases] /\ susp \in [Incs -> BOOLEAN]
      /\ evid \in [inc : 0 .. MaxInc, suspended : BOOLEAN, failed : BOOLEAN]
  BY <1>0, Owner DEF IInv, ProcessOK, TypeOK
<1>2. susp' \in [Incs -> BOOLEAN] /\ \A j \in Incs : susp'[j] => susp[j] BY <1>0, <1>1
<1>3. PICK x \in {"closing", "gone"} :
        /\ rt' = [rt EXCEPT ![i] = x] /\ sock' = None
        /\ x = "closing" => guard' = guard /\ active' = active
        /\ x = "gone" => guard' = None /\ active' = None
  <2>1. CASE sock # None
    <3>1. rt' = [rt EXCEPT ![i] = "closing"] BY <1>0, <1>1, <2>1 DEF Exit
    <3>2. QED BY <2>1, <3>1 DEF Exit
  <2>2. CASE sock = None BY <2>2 DEF Exit
  <2>3. QED BY <2>1, <2>2
<1>4. \A j \in Incs : (rt'[j] \in Owning) <=> guard' = j
  BY <1>1, <1>3, Names DEF IInv, ProcessOK, TypeOK, Owning, Running
<1>5. {sock', lock', guard'} \subseteq 0 .. MaxInc /\ active' \in {active, None}
  BY <1>0, <1>3, FilesAre, Names
<1>6. held' \subseteq Waiters BY <1>0 DEF IInv, ProcessOK, TypeOK, Waiters
<1>7. active' # None => guard' = guard BY <1>3
<1>8. ProcessOK' BY <1>0, <1>1, <1>2, <1>3, <1>4, <1>5, <1>6, <1>7, EndingKeeps
<1>9. QueueOK' BY <1>0, <1>1 DEF IInv, QueueOK
<1>10. CommandsOK' BY <1>0, <1>1, Names DEF IInv, CommandsOK, CommandOK, EffectOK, LiveOK, Open
<1>11. QED BY <1>8, <1>9, <1>10 DEF IInv

LEMMA RuntimeCrashKeeps ==
  ASSUME OwnershipAssumption, IInv, NEW i \in Incs, RuntimeCrash(i) PROVE IInv'
<1>0. /\ rt[i] \notin {"none", "gone"} /\ rt' = [rt EXCEPT ![i] = "gone"]
      /\ UNCHANGED <<reg, evid, recv, sock, susp, cinc, hold, pc, took, late, out, done>>
      /\ lock' \in {lock, None}
  BY DEF RuntimeCrash, disk, vessel, ghost
<1>1. /\ rt \in [Incs -> Phases] /\ susp \in [Incs -> BOOLEAN] /\ held \subseteq Waiters
      /\ evid \in [inc : 0 .. MaxInc, suspended : BOOLEAN, failed : BOOLEAN]
  BY DEF IInv, ProcessOK, TypeOK, Waiters
<1>2. CASE guard = i
  <2>1. /\ guard' = None /\ active' = None /\ conn' = Dropped(TRUE)
        /\ queue' = <<>> /\ held' = {}
    BY <1>2 DEF RuntimeCrash
  <2>2. \A j \in Incs : (rt'[j] \in Owning) <=> guard' = j
    BY <1>0, <1>1, <1>2, <2>1, Names DEF IInv, ProcessOK, TypeOK, Owning, Running
  <2>3. {sock', lock', guard'} \subseteq 0 .. MaxInc BY <1>0, <2>1, FilesAre, Names
  <2>4. ProcessOK' BY <1>0, <1>1, <2>1, <2>2, <2>3, EndingKeeps
  <2>5. QED BY <1>0, <2>1, <2>4, DropKeeps, EmptyQueue DEF IInv
<1>3. CASE guard # i
  <2>1. guard' = guard /\ active' = active /\ queue' = queue /\ held' = held
    BY <1>3 DEF RuntimeCrash
  <2>2. conn' = conn
    <3>1. conn \in [Commands -> Open \cup Closed] BY DEF IInv, CommandsOK
    <3>2. conn' = [c \in Commands |-> conn[c]] BY <1>3 DEF RuntimeCrash, Dropped
    <3>3. QED BY <3>1, <3>2
  <2>3. \A j \in Incs : (rt'[j] \in Owning) <=> guard' = j
    BY <1>0, <1>1, <1>3, <2>1 DEF IInv, ProcessOK, TypeOK, Owning, Running
  <2>4. {sock', lock', guard'} \subseteq 0 .. MaxInc BY <1>0, <2>1, FilesAre, Names
  <2>5. Serving' = Serving
    BY <1>0, <1>1, <1>3, <2>1, FilesAre DEF Serving, Incs, None
  <2>6. PhaseStep(i, "gone")
    BY <1>0, <1>1, <1>3, <2>1, <2>2, <2>3, <2>4, <2>5
       DEF PhaseStep, vessel, Phases, IInv, ProcessOK
  <2>7. QED BY <2>6, PhaseKeeps
<1>4. QED BY <1>2, <1>3

-----------------------------------------------------------------------------
(* The runtime: its requests.                                              *)

\* A waiter more, at the end of the queue.
LEMMA Queued ==
  ASSUME NEW S, NEW q \in Seq(S), NEW w \in S,
         \A k, l \in 1 .. Len(q) : q[k] = q[l] => k = l,
         \A k \in 1 .. Len(q) : q[k] # w
  PROVE  /\ Append(q, w) \in Seq(S)
         /\ \A k \in 1 .. Len(Append(q, w)) :
              \/ k \in 1 .. Len(q) /\ Append(q, w)[k] = q[k]
              \/ k = Len(q) + 1 /\ Append(q, w)[k] = w
         /\ \A k, l \in 1 .. Len(Append(q, w)) : Append(q, w)[k] = Append(q, w)[l] => k = l
<1>1. Append(q, w) \in Seq(S) /\ Len(Append(q, w)) = Len(q) + 1 OBVIOUS
<1>2. \A k \in 1 .. Len(q) + 1 :
        \/ k \in 1 .. Len(q) /\ Append(q, w)[k] = q[k]
        \/ k = Len(q) + 1 /\ Append(q, w)[k] = w
  OBVIOUS
<1>3. QED BY <1>1, <1>2

\* The first waiter leaves.
LEMMA Dequeued ==
  ASSUME NEW S, NEW q \in Seq(S), q # <<>>,
         \A k, l \in 1 .. Len(q) : q[k] = q[l] => k = l
  PROVE  /\ Tail(q) \in Seq(S) /\ Head(q) = q[1] /\ Head(q) \in S /\ 1 \in 1 .. Len(q)
         /\ \A k \in 1 .. Len(Tail(q)) :
              k + 1 \in 1 .. Len(q) /\ Tail(q)[k] = q[k + 1] /\ Tail(q)[k] # Head(q)
         /\ \A k, l \in 1 .. Len(Tail(q)) : Tail(q)[k] = Tail(q)[l] => k = l
<1>1. /\ Tail(q) \in Seq(S) /\ Len(Tail(q)) = Len(q) - 1 /\ Head(q) = q[1]
      /\ Len(q) > 0 /\ Len(q) \in Nat /\ 1 \in 1 .. Len(q)
  OBVIOUS
<1>2. \A k \in 1 .. Len(q) - 1 : Tail(q)[k] = q[k + 1] OBVIOUS
<1>3. \A k \in 1 .. Len(q) - 1 : k + 1 \in 1 .. Len(q) /\ k + 1 # 1 BY <1>1
<1>4. QED BY <1>1, <1>2, <1>3

\* A waiter leaves wherever it stands.
LEMMA Left ==
  ASSUME NEW c, queue \in Seq(Waiters),
         \A k, l \in 1 .. Len(queue) : queue[k] = queue[l] => k = l
  PROVE  /\ Without(c) \in Seq(Waiters)
         /\ Without(c) # <<>> => queue # <<>>
         /\ \A k \in 1 .. Len(Without(c)) :
              Without(c)[k] # c /\ \E l \in 1 .. Len(queue) : Without(c)[k] = queue[l]
         /\ \A k, l \in 1 .. Len(Without(c)) : Without(c)[k] = Without(c)[l] => k = l
<1>1. CASE ~ \E k \in 1 .. Len(queue) : queue[k] = c BY <1>1 DEF Without
<1>2. CASE \E k \in 1 .. Len(queue) : queue[k] = c
  <2> DEFINE n == Len(queue)
             m == CHOOSE k \in 1 .. Len(queue) : queue[k] = c
             w == [j \in 1 .. Len(queue) - 1 |-> IF j < m THEN queue[j] ELSE queue[j + 1]]
  <2>1. Without(c) = w BY <1>2 DEF Without
  <2>2. m \in 1 .. n /\ queue[m] = c /\ n \in Nat BY <1>2
  <2>3. \A j \in 1 .. n - 1 :
          w[j] = IF j < m THEN queue[j] ELSE queue[j + 1]
    OBVIOUS
  <2>4. w \in Seq(Waiters) /\ Len(w) = n - 1
    <3>1. \A j \in 1 .. n - 1 : j \in 1 .. n /\ j + 1 \in 1 .. n BY <2>2
    <3>2. n - 1 \in Nat BY <2>2
    <3> HIDE DEF m
    <3>3. w \in [1 .. n - 1 -> Waiters] BY <3>1
    <3> HIDE DEF n, w
    <3>4. QED BY <3>2, <3>3
  <2>5. queue # <<>> BY <2>2
  <2> HIDE DEF w, m
  <2>6. ASSUME NEW j \in 1 .. n - 1
        PROVE  \E l \in 1 .. n : l # m /\ w[j] = queue[l]
    BY <2>2, <2>3
  <2>7. ASSUME NEW j \in 1 .. n - 1, NEW l \in 1 .. n - 1, w[j] = w[l] PROVE j = l
    BY <2>2, <2>3, <2>7
  <2>8. QED BY <2>1, <2>2, <2>4, <2>5, <2>6, <2>7
<1>3. QED BY <1>1, <1>2

\* The handler of one command moves on.
LEMMA RequestKeeps ==
  ASSUME OwnershipAssumption, IInv, NEW c \in Commands, conn[c] \in Open,
         NEW s \in (Open \cup Closed) \ {"backlog"}, conn' = [conn EXCEPT ![c] = s],
         cinc' \in [Commands -> 0 .. MaxInc],
         \A d \in Commands : d # c => cinc'[d] = cinc[d],
         UNCHANGED <<reg, hold, pc, took, out, guard>>, Serving',
         DOMAIN done' = Effects, \A d \in Effects : d # c => done'[d] = done[d],
         c \in Effects =>
           /\ done'[c] \in Seq(Incs) /\ Len(done'[c]) <= 1
           /\ s \in {"waiting", "granted", "rejected", "suspending"} => done'[c] = <<>>,
         c \in Lives =>
           /\ s \in {"waiting", "granted", "dispatched"} => took[c] = guard
           /\ \A k \in 1 .. Len(done'[c]) : done'[c][k] = took[c]
  PROVE  CommandsOK'
<1>0. CommandsOK /\ CommandOK(c) BY DEF IInv, CommandsOK
<1>1. /\ conn' \in [Commands -> Open \cup Closed] /\ conn'[c] = s
      /\ \A d \in Commands : d # c => conn'[d] = conn[d]
  BY <1>0 DEF CommandsOK
<1>2. conn[c] # "none" /\ s # "backlog" BY DEF Open
<1>3. ASSUME NEW d \in Commands PROVE CommandOK(d)'
  BY <1>0, <1>1, <1>2 DEF CommandsOK, CommandOK
<1>4. ASSUME NEW d \in Effects PROVE EffectOK(d)'
  <2>1. CASE d = c BY <1>0, <1>1, <1>2, <2>1 DEF CommandOK, EffectOK
  <2>2. CASE d # c BY <1>0, <1>1, <2>2, Names DEF CommandsOK, EffectOK
  <2>3. QED BY <2>1, <2>2
<1>5. ASSUME NEW d \in Lives PROVE LiveOK(d)'
  <2>1. CASE d = c BY <1>0, <1>1, <1>2, <2>1 DEF CommandsOK, LiveOK
  <2>2. CASE d # c BY <1>0, <1>1, <2>2, Names DEF CommandsOK, LiveOK
  <2>3. QED BY <2>1, <2>2
<1>6. QED BY <1>0, <1>1, <1>3, <1>4, <1>5 DEF CommandsOK

\* It ends, or is granted, without an effect more.
LEMMA QuietRequest ==
  ASSUME OwnershipAssumption, IInv, NEW c \in Commands, conn[c] \in Open,
         NEW s \in (Open \cup Closed) \ {"backlog"}, conn' = [conn EXCEPT ![c] = s],
         cinc' = cinc \/ cinc' = [cinc EXCEPT ![c] = None],
         UNCHANGED <<reg, hold, pc, took, out, guard, done>>, Serving',
         s \in {"waiting", "granted", "rejected", "suspending"} =>
            conn[c] \in {"backlog", "waiting", "granted"},
         s \in {"waiting", "granted", "dispatched"} =>
            conn[c] # "backlog" \/ cinc[c] = guard
  PROVE  CommandsOK'
<1>0. /\ cinc \in [Commands -> 0 .. MaxInc] /\ DOMAIN done = Effects
      /\ c \in Effects => EffectOK(c)
      /\ c \in Lives => LiveOK(c)
  BY DEF IInv, CommandsOK
<1>1. /\ cinc' \in [Commands -> 0 .. MaxInc]
      /\ \A d \in Commands : d # c => cinc'[d] = cinc[d]
  BY <1>0, Names
<1>2. c \in Effects =>
        /\ done'[c] \in Seq(Incs) /\ Len(done'[c]) <= 1
        /\ s \in {"waiting", "granted", "rejected", "suspending"} => done'[c] = <<>>
  BY <1>0 DEF EffectOK
<1>3. c \in Lives =>
        /\ s \in {"waiting", "granted", "dispatched"} => took[c] = guard
        /\ \A k \in 1 .. Len(done'[c]) : done'[c][k] = took[c]
  BY <1>0 DEF LiveOK, Open
<1>4. QED BY <1>0, <1>1, <1>2, <1>3, RequestKeeps

\* Neither the processes nor their evidence change.
LEMMA SameProcesses ==
  ASSUME IInv, held' \subseteq Waiters,
         UNCHANGED <<reg, evid, recv, sock, lock, guard, rt, susp, active, out>>
  PROVE  ProcessOK' /\ Serving' = Serving
BY DEF IInv, ProcessOK, TypeOK, Serving, Waiters

LEMMA Connections ==
  ASSUME IInv
  PROVE  /\ conn \in [Commands -> Open \cup Closed]
         /\ \A c \in Commands : conn[c] \in Open => Serving
         /\ held \subseteq Waiters /\ queue \in Seq(Waiters)
         /\ \A k, l \in 1 .. Len(queue) : queue[k] = queue[l] => k = l
         /\ \A k \in 1 .. Len(queue) : queue[k] \in Commands => conn[queue[k]] = "waiting"
         /\ queue # <<>> \/ held # {} => Serving
BY DEF IInv, ProcessOK, TypeOK, QueueOK, CommandsOK, CommandOK, Waiters

LEMMA AcceptKeeps ==
  ASSUME OwnershipAssumption, IInv, NEW c \in Commands, Accept(c) PROVE IInv'
<1>0. /\ conn[c] = "backlog" /\ cinc' = [cinc EXCEPT ![c] = None] /\ held' = held
      /\ UNCHANGED <<reg, evid, recv, sock, lock, guard, rt, susp, active, hold, pc, took, out,
                     done>>
  BY DEF Accept, disk, locks, proc, vessel, ghost
<1>1. ProcessOK' /\ Serving /\ Serving'
  BY <1>0, SameProcesses, Connections DEF Open
<1>2. CASE cinc[c] = guard
  <2>1. conn' = [conn EXCEPT ![c] = "waiting"] /\ queue' = Append(queue, c)
    BY <1>2 DEF Accept
  <2>2. "waiting" \in (Open \cup Closed) \ {"backlog"} BY DEF Open
  <2>3. CommandsOK' BY <1>0, <1>1, <1>2, <2>1, <2>2, QuietRequest DEF Open
  <2>4. \A k \in 1 .. Len(queue) : queue[k] # c BY <1>0, Connections
  <2>5. c \in Waiters BY DEF Waiters
  <2>6. /\ queue' \in Seq(Waiters)
        /\ \A k \in 1 .. Len(queue') :
             \/ k \in 1 .. Len(queue) /\ queue'[k] = queue[k]
             \/ k = Len(queue) + 1 /\ queue'[k] = c
        /\ \A k, l \in 1 .. Len(queue') : queue'[k] = queue'[l] => k = l
    BY <2>1, <2>4, <2>5, Queued, Connections
  <2>7. \A d \in Commands : conn'[d] = IF d = c THEN "waiting" ELSE conn[d]
    BY <2>1, Connections
  <2>8. QueueOK'
    BY <1>1, <2>4, <2>6, <2>7, Connections DEF QueueOK
  <2>9. QED BY <1>1, <2>3, <2>8 DEF IInv
<1>3. CASE cinc[c] # guard
  <2>1. conn' = [conn EXCEPT ![c] = Ended(c, "lost")] /\ queue' = queue BY <1>3 DEF Accept
  <2>2. Ended(c, "lost") \in {"lost", "none"} BY DEF Ended
  <2> DEFINE s == Ended(c, "lost")
  <2>3. s \in (Open \cup Closed) \ {"backlog"} BY <2>2 DEF Open, Closed
  <2> HIDE DEF s
  <2>4. CommandsOK' BY <1>0, <1>1, <2>1, <2>2, <2>3, QuietRequest DEF s, Open
  <2>5. \A d \in Commands : d # c => conn'[d] = conn[d] BY <2>1
  <2>6. QueueOK' BY <1>0, <1>1, <2>1, <2>5, Connections DEF QueueOK
  <2>7. QED BY <1>1, <2>4, <2>6 DEF IInv
<1>4. QED BY <1>2, <1>3

LEMMA GrantKeeps == ASSUME OwnershipAssumption, IInv, Grant PROVE IInv'
<1> DEFINE c == Head(queue)
<1>0. /\ queue # <<>> /\ held' = held \cup {c} /\ queue' = Tail(queue)
      /\ conn' = [d \in Commands |-> IF d = c THEN "granted" ELSE conn[d]]
      /\ UNCHANGED <<reg, evid, recv, sock, lock, guard, rt, susp, active, cinc, hold, pc, took,
                     out, done>>
  BY DEF Grant, disk, locks, proc, vessel, ghost
<1>1. /\ queue' \in Seq(Waiters) /\ c = queue[1] /\ c \in Waiters /\ 1 \in 1 .. Len(queue)
      /\ \A k \in 1 .. Len(queue') :
           k + 1 \in 1 .. Len(queue) /\ queue'[k] = queue[k + 1] /\ queue'[k] # c
      /\ \A k, l \in 1 .. Len(queue') : queue'[k] = queue'[l] => k = l
  BY <1>0, Connections, Dequeued
<1> HIDE DEF c
<1>2. ProcessOK' /\ Serving /\ Serving'
  <2>1. held' \subseteq Waiters BY <1>0, <1>1, Connections
  <2>2. Serving BY <1>0, Connections
  <2>3. QED BY <1>0, <2>1, <2>2, SameProcesses
<1>3. QueueOK'
  <2>1. \A k \in 1 .. Len(queue') : queue'[k] \in Commands => conn'[queue'[k]] = "waiting"
    BY <1>0, <1>1, Connections
  <2>2. QED BY <1>1, <1>2, <2>1 DEF QueueOK
<1>4. CASE c \in Commands
  <2>1. conn[c] = "waiting" BY <1>1, <1>4, Connections
  <2>2. conn' = [conn EXCEPT ![c] = "granted"] BY <1>0, <1>4, Connections
  <2>3. "granted" \in (Open \cup Closed) \ {"backlog"} BY DEF Open
  <2>4. CommandsOK' BY <1>0, <1>2, <1>4, <2>1, <2>2, <2>3, QuietRequest DEF Open
  <2>5. QED BY <1>2, <1>3, <2>4 DEF IInv
<1>5. CASE c \notin Commands
  <2>1. conn' = conn BY <1>0, <1>5, Connections
  <2>2. CommandsOK' BY <1>0, <1>2, <2>1 DEF IInv, CommandsOK, CommandOK, EffectOK, LiveOK
  <2>3. QED BY <1>2, <1>3, <2>2 DEF IInv
<1>6. QED BY <1>4, <1>5
\* A handler that no longer waits leaves the queue as it is.
LEMMA QueueStays ==
  ASSUME IInv, NEW c \in Commands, conn[c] # "waiting", Serving', queue' = queue,
         \A d \in Commands : d # c => conn'[d] = conn[d]
  PROVE  QueueOK'
BY Connections DEF QueueOK

LEMMA Endings ==
  ASSUME OwnershipAssumption, NEW c \in Commands, NEW s \in {"suspending", "lost", "rejected",
         "answered"}
  PROVE  /\ Ended(c, s) \in (Open \cup Closed) \ {"backlog"}
         /\ Ended(c, s) \in {s, "none"}
BY DEF Ended, Open, Closed

\* A handler ends without having changed anything.
LEMMA EndsQuietly ==
  ASSUME OwnershipAssumption, IInv, NEW c \in Commands,
         conn[c] \in {"granted", "dispatched"},
         NEW s \in {"suspending", "lost", "rejected", "answered"},
         s \in {"suspending", "rejected"} => conn[c] = "granted",
         conn' = [conn EXCEPT ![c] = Ended(c, s)], held' = held \ {c}, queue' = queue,
         UNCHANGED <<reg, evid, recv, sock, lock, guard, rt, susp, active, cinc, hold, pc, took,
                     out, done>>
  PROVE  IInv'
<1>1. ProcessOK' /\ Serving /\ Serving' BY SameProcesses, Connections DEF Open
<1>2. QueueOK' BY <1>1, QueueStays
<1>3. conn[c] \in Open /\ conn[c] # "backlog" BY DEF Open
<1> DEFINE e == Ended(c, s)
<1>4. /\ e \in (Open \cup Closed) \ {"backlog"}
      /\ e \in {"waiting", "granted", "rejected", "suspending"} => conn[c] = "granted"
      /\ e \notin {"waiting", "granted", "dispatched"}
  BY Endings
<1>5. conn' = [conn EXCEPT ![c] = e] OBVIOUS
<1> HIDE DEF e
<1>6. CommandsOK' BY <1>1, <1>3, <1>4, <1>5, QuietRequest
<1>7. QED BY <1>1, <1>2, <1>6 DEF IInv

LEMMA DispatchKeeps ==
  ASSUME OwnershipAssumption, IInv, NEW c \in Commands, Dispatch(c) PROVE IInv'
<1>0. /\ conn[c] = "granted" /\ queue' = queue
      /\ UNCHANGED <<reg, evid, recv, sock, lock, guard, susp, cinc, hold, pc, took, out>>
  BY DEF Dispatch, disk, locks, vessel
<1>1. CASE \E s \in {"suspending", "lost", "rejected"} :
             /\ conn' = [conn EXCEPT ![c] = Ended(c, s)] /\ held' = held \ {c}
             /\ UNCHANGED <<rt, active, done>>
  BY <1>0, <1>1, EndsQuietly
<1>2. CASE /\ conn' = [conn EXCEPT ![c] = "dispatched"] /\ held' = held
           /\ ~(rt[guard] # "listening" /\ susp[guard])
           /\ ~(c \in Turns /\ (rt[guard] # "listening" \/ active # None))
           /\ done' = IF c \in Effects THEN [done EXCEPT ![c] = Append(@, guard)] ELSE done
           /\ active' = IF c \in Turns THEN guard ELSE active
           /\ rt' = [rt EXCEPT ![guard] = IF c \in Stops THEN "draining" ELSE @]
  <2>1. /\ guard \in Incs /\ rt[guard] \in {"listening", "draining"} /\ guard # None
        /\ rt \in [Incs -> Phases]
    BY <1>0, FilesAre, Connections DEF Open, Serving, Incs, None, IInv, ProcessOK, TypeOK
  <2>2. /\ rt' \in [Incs -> Phases] /\ rt'[guard] \in {"listening", "draining"}
        /\ \A i \in Incs : i # guard => rt'[i] = rt[i]
    BY <1>2, <2>1 DEF Phases, Running
  <2>3. /\ active' \in {active, guard} /\ (active' = guard => active = guard \/ ~susp[guard])
        /\ susp[guard] => rt[guard] = "draining" /\ active' = active
    BY <1>2, <2>1 DEF IInv, ProcessOK
  <2>4. evid.inc # None => evid.inc # guard /\ evid.inc \in Incs
    BY <2>1 DEF IInv, ProcessOK, TypeOK, Incs, None
  <2>5. TypeOK'
    <3>1. \A i \in Incs : (rt'[i] \in Owning) <=> guard' = i
      BY <1>0, <2>1, <2>2 DEF IInv, ProcessOK, TypeOK, Owning, Running
    <3>2. active' \in 0 .. MaxInc BY <2>1, <2>3, FilesAre, Names
    <3>3. QED BY <1>0, <1>2, <2>2, <3>1, <3>2 DEF IInv, ProcessOK, TypeOK
  <2>6. ProcessOK'
    <3>1. \A i \in Incs : susp'[i] =>
             rt'[i] \in {"draining", "closing", "gone"} /\ active' # i
      BY <1>0, <1>2, <2>1, <2>2, <2>3 DEF IInv, ProcessOK
    <3>2. \A i \in Incs : rt'[i] = "none" <=> i > reg'.inc
      BY <1>0, <2>1, <2>2 DEF IInv, ProcessOK
    <3>3. active' # None => active' = guard' BY <1>0, <2>3 DEF IInv, ProcessOK
    <3>4. evid'.inc # None => rt'[evid'.inc] \in {"closing", "gone"} /\ active' # evid'.inc
      BY <1>0, <2>2, <2>3, <2>4 DEF IInv, ProcessOK
    <3>5. QED BY <2>5, <3>1, <3>2, <3>3, <3>4 DEF ProcessOK
  <2>7. Serving' BY <1>0, <2>1, <2>2 DEF Serving
  <2>8. QueueOK' BY <1>0, <1>2, <2>7, QueueStays
  <2>9. /\ DOMAIN done = Effects /\ DOMAIN done' = Effects
        /\ \A d \in Effects : d # c => done'[d] = done[d]
        /\ c \in Effects => done'[c] = Append(done[c], guard) /\ done[c] = <<>>
        /\ c \in Lives => took[c] = guard
    BY <1>0, <1>2, Names DEF IInv, CommandsOK, EffectOK, LiveOK
  <2>10. c \in Effects => done'[c] = <<guard>> BY <2>9
  <2>11. c \in Effects =>
           /\ done'[c] \in Seq(Incs) /\ Len(done'[c]) <= 1
           /\ \A k \in 1 .. Len(done'[c]) : done'[c][k] = guard
    <3>1. /\ <<guard>> \in Seq(Incs) /\ Len(<<guard>>) <= 1
          /\ \A k \in 1 .. Len(<<guard>>) : <<guard>>[k] = guard
      BY <2>1
    <3>2. QED BY <2>10, <3>1
  <2>12. "dispatched" \in (Open \cup Closed) \ {"backlog"} /\ conn[c] \in Open
    BY <1>0 DEF Open
  <2>13. cinc' \in [Commands -> 0 .. MaxInc] BY <1>0 DEF IInv, CommandsOK
  <2>14. c \in Lives => \A k \in 1 .. Len(done'[c]) : done'[c][k] = took[c]
    BY <2>9, <2>11, Names
  <2>15. CommandsOK'
    <3>1. \A d \in Commands : d # c => cinc'[d] = cinc[d] BY <1>0
    <3>2. /\ conn' = [conn EXCEPT ![c] = "dispatched"]
          /\ DOMAIN done' = Effects /\ \A d \in Effects : d # c => done'[d] = done[d]
          /\ UNCHANGED <<reg, hold, pc, took, out, guard>>
      BY <1>0, <1>2, <2>9
    <3> DEFINE s == "dispatched"
    <3>3. /\ s \in (Open \cup Closed) \ {"backlog"} /\ conn' = [conn EXCEPT ![c] = s]
          /\ s \notin {"waiting", "granted", "rejected", "suspending"}
      BY <2>12, <3>2
    <3> HIDE DEF s
    <3>4. c \in Effects =>
            /\ done'[c] \in Seq(Incs) /\ Len(done'[c]) <= 1
            /\ s \in {"waiting", "granted", "rejected", "suspending"} => done'[c] = <<>>
      BY <2>11, <3>3
    <3>5. c \in Lives =>
            /\ s \in {"waiting", "granted", "dispatched"} => took[c] = guard
            /\ \A k \in 1 .. Len(done'[c]) : done'[c][k] = took[c]
      BY <2>9, <2>14
    <3>6. QED BY <2>7, <2>12, <2>13, <3>1, <3>2, <3>3, <3>4, <3>5, RequestKeeps
  <2>16. QED BY <2>6, <2>8, <2>15 DEF IInv
<1>3. QED
  <2>1. CASE rt[guard] # "listening" /\ susp[guard] BY <1>1, <2>1 DEF Dispatch
  <2>2. CASE /\ ~(rt[guard] # "listening" /\ susp[guard])
             /\ \/ c \in Turns /\ (rt[guard] # "listening" \/ active # None)
                \/ c \in Lives /\ active = None
    <3>1. CASE rt[guard] # "listening" BY <1>1, <2>2, <3>1 DEF Dispatch
    <3>2. CASE rt[guard] = "listening" BY <1>1, <2>2, <3>2 DEF Dispatch
    <3>3. QED BY <3>1, <3>2
  <2>3. CASE /\ ~(rt[guard] # "listening" /\ susp[guard])
             /\ ~ \/ c \in Turns /\ (rt[guard] # "listening" \/ active # None)
                  \/ c \in Lives /\ active = None
    BY <1>2, <2>3 DEF Dispatch
  <2>4. QED BY <2>1, <2>2, <2>3

LEMMA ReplyKeeps ==
  ASSUME OwnershipAssumption, IInv, NEW c \in Commands, Reply(c) PROVE IInv'
BY EndsQuietly DEF Reply, disk, locks, proc, vessel, ghost
LEMMA HandlerTimeoutKeeps ==
  ASSUME OwnershipAssumption, IInv, NEW c \in Commands, HandlerTimeout(c) PROVE IInv'
<1>0. /\ conn[c] \in {"waiting", "granted", "dispatched"}
      /\ conn' = [conn EXCEPT ![c] = Ended(c, "lost")]
      /\ queue' = Without(c) /\ held' = held \ {c}
      /\ UNCHANGED <<reg, evid, recv, sock, lock, guard, rt, susp, active, cinc, hold, pc, took,
                     out, done>>
  BY DEF HandlerTimeout, disk, locks, proc, vessel, ghost
<1>1. ProcessOK' /\ Serving /\ Serving' BY <1>0, SameProcesses, Connections DEF Open
<1>2. /\ queue' \in Seq(Waiters)
      /\ \A k \in 1 .. Len(queue') :
           queue'[k] # c /\ \E l \in 1 .. Len(queue) : queue'[k] = queue[l]
      /\ \A k, l \in 1 .. Len(queue') : queue'[k] = queue'[l] => k = l
  BY <1>0, Connections, Left
<1>3. \A d \in Commands : d # c => conn'[d] = conn[d] BY <1>0
<1>4. \A k \in 1 .. Len(queue') : queue'[k] \in Commands => conn'[queue'[k]] = "waiting"
  BY <1>2, <1>3, Connections
<1>5. QueueOK' BY <1>1, <1>2, <1>4 DEF QueueOK
<1> DEFINE s == Ended(c, "lost")
<1>6. /\ s \in (Open \cup Closed) \ {"backlog"} /\ s \in {"lost", "none"}
      /\ conn' = [conn EXCEPT ![c] = s]
  BY <1>0, Endings
<1> HIDE DEF s
<1>7. conn[c] \in Open BY <1>0 DEF Open
<1>8. CommandsOK' BY <1>0, <1>1, <1>6, <1>7, QuietRequest
<1>9. QED BY <1>1, <1>5, <1>8 DEF IInv

LEMMA FinishRunKeeps == ASSUME OwnershipAssumption, IInv, FinishRun PROVE IInv'
<1>0. /\ active' = None
      /\ UNCHANGED <<reg, evid, recv, sock, lock, guard, rt, susp, queue, held, conn, cinc, hold,
                     pc, took, out, done>>
  BY DEF FinishRun, disk, locks, rw, wire, vessel, ghost
<1>1. TypeOK' BY <1>0, Names DEF IInv, ProcessOK, TypeOK
<1>2. evid'.inc # None => evid'.inc \in Incs /\ active' # evid'.inc
  BY <1>0, <1>1 DEF TypeOK, Incs, None
<1>3. ProcessOK' BY <1>0, <1>1, <1>2, Names DEF IInv, ProcessOK
<1>4. Serving' = Serving BY <1>0 DEF Serving
<1>5. QueueOK' BY <1>0, <1>4 DEF IInv, QueueOK
<1>6. CommandsOK' BY <1>0, <1>4 DEF IInv, CommandsOK, CommandOK, EffectOK, LiveOK
<1>7. QED BY <1>3, <1>5, <1>6 DEF IInv

LEMMA SuspendTickKeeps ==
  ASSUME OwnershipAssumption, IInv, NEW i \in Incs, SuspendTick(i) PROVE IInv'
<1>0. /\ rt[i] = "listening" /\ queue' = Append(queue, "suspend") /\ held' = held
      /\ \A k \in 1 .. Len(queue) : queue[k] # "suspend"
      /\ UNCHANGED <<reg, evid, recv, sock, lock, guard, rt, susp, active, conn, cinc, hold, pc,
                     took, out, done>>
  BY DEF SuspendTick, disk, locks, proc, wire, vessel, ghost
<1>1. ProcessOK' /\ Serving /\ Serving'
  BY <1>0, SameProcesses, Connections, Owner
<1>2. "suspend" \in Waiters BY DEF Waiters
<1>3. /\ queue' \in Seq(Waiters)
      /\ \A k \in 1 .. Len(queue') :
           \/ k \in 1 .. Len(queue) /\ queue'[k] = queue[k]
           \/ k = Len(queue) + 1 /\ queue'[k] = "suspend"
      /\ \A k, l \in 1 .. Len(queue') : queue'[k] = queue'[l] => k = l
  BY <1>0, <1>2, Queued, Connections
<1>4. \A k \in 1 .. Len(queue') : queue'[k] \in Commands => conn'[queue'[k]] = "waiting"
  BY <1>0, <1>3, Connections, Names
<1>5. QueueOK' BY <1>1, <1>3, <1>4 DEF QueueOK
<1>6. CommandsOK' BY <1>0, <1>1 DEF IInv, CommandsOK, CommandOK, EffectOK, LiveOK
<1>7. QED BY <1>1, <1>5, <1>6 DEF IInv

LEMMA SuspendKeeps == ASSUME OwnershipAssumption, IInv, Suspend PROVE IInv'
<1>0. /\ "suspend" \in held /\ held' = held \ {"suspend"}
      /\ UNCHANGED <<reg, evid, recv, sock, lock, guard, active, queue, conn, cinc, hold, pc,
                     took, out, done>>
  BY DEF Suspend, disk, locks, wire, vessel, ghost
<1>1. /\ Serving /\ guard \in Incs /\ guard # None
      /\ rt \in [Incs -> Phases] /\ susp \in [Incs -> BOOLEAN] /\ held' \subseteq Waiters
  BY <1>0, FilesAre, Connections DEF Serving, Incs, None, IInv, ProcessOK, TypeOK
<1>2. CASE UNCHANGED <<susp, rt>>
  <2>1. ProcessOK' /\ Serving' BY <1>0, <1>1, <1>2, SameProcesses
  <2>2. QueueOK' BY <1>0, <2>1 DEF IInv, QueueOK
  <2>3. CommandsOK' BY <1>0, <1>1, <2>1 DEF IInv, CommandsOK, CommandOK, EffectOK, LiveOK
  <2>4. QED BY <2>1, <2>2, <2>3 DEF IInv
<1>3. CASE /\ rt[guard] = "listening" /\ active = None
           /\ susp' = [susp EXCEPT ![guard] = TRUE]
           /\ rt' = [rt EXCEPT ![guard] = "draining"]
  <2>1. /\ rt' \in [Incs -> Phases] /\ rt'[guard] = "draining"
        /\ \A i \in Incs : i # guard => rt'[i] = rt[i] /\ susp'[i] = susp[i]
        /\ susp' \in [Incs -> BOOLEAN]
    BY <1>1, <1>3 DEF Phases, Running
  <2>2. TypeOK'
    <3>1. \A i \in Incs : (rt'[i] \in Owning) <=> guard' = i
      BY <1>0, <1>1, <1>3, <2>1 DEF IInv, ProcessOK, TypeOK, Owning, Running
    <3>2. QED BY <1>0, <1>1, <2>1, <3>1 DEF IInv, ProcessOK, TypeOK, Waiters
  <2>3. ProcessOK'
    <3>1. \A i \in Incs : susp'[i] =>
             rt'[i] \in {"draining", "closing", "gone"} /\ active' # i
      BY <1>0, <1>3, <2>1, Names DEF IInv, ProcessOK
    <3>2. \A i \in Incs : rt'[i] = "none" <=> i > reg'.inc
      BY <1>0, <1>3, <2>1 DEF IInv, ProcessOK
    <3>3. evid'.inc # None => rt'[evid'.inc] \in {"closing", "gone"} /\ active' # evid'.inc
      <4>1. evid.inc # None => evid.inc # guard /\ evid.inc \in Incs
        BY <1>3 DEF IInv, ProcessOK, TypeOK, Incs, None
      <4>2. QED BY <1>0, <2>1, <4>1 DEF IInv, ProcessOK
    <3>4. QED BY <1>0, <1>3, <2>2, <3>1, <3>2, <3>3 DEF ProcessOK
  <2>4. Serving' BY <1>0, <1>1, <2>1 DEF Serving
  <2>5. QueueOK' BY <1>0, <2>4 DEF IInv, QueueOK
  <2>6. CommandsOK' BY <1>0, <1>1, <2>4 DEF IInv, CommandsOK, CommandOK, EffectOK, LiveOK
  <2>7. QED BY <2>3, <2>5, <2>6 DEF IInv
<1>4. QED BY <1>2, <1>3 DEF Suspend, MaySuspend

-----------------------------------------------------------------------------
(* The theorems.                                                           *)

LEMMA OwnershipBegins == ASSUME OwnershipAssumption, Init PROVE IInv
<1>1. /\ reg = [inc |-> 1, state |-> "starting"]
      /\ evid = [inc |-> 1, suspended |-> TRUE, failed |-> FALSE]
      /\ recv = None /\ sock = None /\ lock = None /\ guard = None /\ active = None
      /\ rt = [i \in Incs |-> IF i = 1 THEN "gone" ELSE "none"]
      /\ susp = [i \in Incs |-> FALSE] /\ queue = <<>> /\ held = {}
      /\ conn = [c \in Commands |-> "none"] /\ cinc = [c \in Commands |-> None]
      /\ hold = "none" /\ pc = "idle"
      /\ took = [c \in Lives |-> None] /\ out = [c \in Commands |-> "none"]
      /\ done = [c \in Effects |-> <<>>]
  BY DEF Init
<1>2. /\ 1 \in 0 .. MaxInc /\ evid.inc = 1 /\ rt[1] = "gone" /\ reg.inc = 1
      /\ rt \in [Incs -> Phases] /\ \A i \in Incs : rt[i] \notin Owning /\ ~susp[i]
  BY <1>1, Names DEF Phases, Owning, Running
<1>3. TypeOK
  <2>1. reg \in [inc : Incs, state : {"starting", "stopped", "unconfirmed"}] BY <1>1, Names
  <2>2. evid \in [inc : 0 .. MaxInc, suspended : BOOLEAN, failed : BOOLEAN] BY <1>1, <1>2
  <2>3. out \in [Commands -> {"none", "ok", "refused", "unknown", "failed"}] BY <1>1
  <2>4. \A i \in Incs : (rt[i] \in Owning) <=> guard = i BY <1>1, <1>2, Names
  <2>5. susp \in [Incs -> BOOLEAN] BY <1>1
  <2>6. QED BY <1>1, <1>2, <2>1, <2>2, <2>3, <2>4, <2>5, Names DEF TypeOK
<1>4. \A i \in Incs : rt[i] = "none" <=> i > reg.inc BY <1>1, <1>2 DEF Incs
<1>5. ProcessOK BY <1>1, <1>2, <1>3, <1>4 DEF ProcessOK, None
<1>6. QueueOK BY <1>1 DEF QueueOK
<1>7. ASSUME NEW c \in Commands PROVE CommandOK(c)
  BY <1>1, Names DEF CommandOK, Open, Closed
<1>8. ASSUME NEW c \in Effects PROVE EffectOK(c) BY <1>1, Names DEF EffectOK
<1>9. ASSUME NEW c \in Lives PROVE LiveOK(c) BY <1>1, Names DEF LiveOK
<1>10. CommandsOK
  <2>1. DOMAIN done = Effects BY <1>1
  <2>2. /\ conn \in [Commands -> Open \cup Closed] /\ cinc \in [Commands -> 0 .. MaxInc]
        /\ took \in [Lives -> 0 .. MaxInc]
    BY <1>1, Names DEF Closed
  <2>3. QED BY <1>1, <1>7, <1>8, <1>9, <2>1, <2>2 DEF CommandsOK, Places
<1>11. QED BY <1>5, <1>6, <1>10 DEF IInv

LEMMA OwnershipKeeps == ASSUME OwnershipAssumption, IInv, [Next]_vars PROVE IInv'
<1>1. ASSUME NEW c \in Commands, Vessel(c) PROVE IInv'
  BY <1>1, TakeKeeps, SupervisorMoves, ConnectKeeps, ReceiveKeeps, GiveUpKeeps, RestartKeeps
     DEF Vessel
<1>2. ASSUME NEW c \in Commands, Handler(c) PROVE IInv'
  BY <1>2, AcceptKeeps, DispatchKeeps, ReplyKeeps, HandlerTimeoutKeeps DEF Handler
<1>3. ASSUME NEW i \in Incs, Runtime(i) PROVE IInv'
  BY <1>3, StartLockKeeps, StartOwnKeeps, ListenKeeps, SuspendTickKeeps, CloseDownKeeps,
     ExitKeeps, RuntimeCrashKeeps
     DEF Runtime
<1>4. CASE Deadline BY <1>4, IdleKeeps DEF Deadline, ghost
<1>5. CASE VesselCrash BY <1>5, VesselCrashKeeps
<1>6. CASE Grant BY <1>6, GrantKeeps
<1>7. CASE Suspend BY <1>7, SuspendKeeps
<1>8. CASE FinishRun BY <1>8, FinishRunKeeps
<1>9. CASE UNCHANGED vars BY <1>9, IdleKeeps DEF vars, vessel, ghost
<1>10. QED BY <1>1, <1>2, <1>3, <1>4, <1>5, <1>6, <1>7, <1>8, <1>9 DEF Next

(* Who runs, what waits and what was done agree at every step of supervisor  *)
(* and runtimes: what the supervisor may conclude from a lost connection,    *)
(* stopped.json or an explicit not-dispatched answer (routing.rs).           *)
THEOREM OwnershipInvariant == OwnershipAssumption => (Spec => []IInv)
<1> SUFFICES ASSUME OwnershipAssumption PROVE Spec => []IInv OBVIOUS
<1>1. Init => IInv BY OwnershipBegins
<1>2. IInv /\ [Next]_vars => IInv' BY OwnershipKeeps
<1>3. QED BY <1>1, <1>2, PTL DEF Spec

LEMMA OwnershipIsSafe == ASSUME OwnershipAssumption, IInv PROVE OwnershipSafety
<1>1. TypeOK /\ SuspensionIsIdle BY DEF IInv, ProcessOK, SuspensionIsIdle
<1>2. AtMostOnce BY DEF IInv, CommandsOK, EffectOK, AtMostOnce
<1>3. HonestRefusal
  <2>1. ASSUME NEW c \in Effects, out[c] = "refused" PROVE done[c] = <<>>
    BY <2>1, Names DEF IInv, CommandsOK, CommandOK, EffectOK
  <2>2. QED BY <2>1 DEF HonestRefusal
<1>4. EvidenceIsQuiet
  <2>1. guard # None /\ guard = evid.inc => ~Serving BY DEF IInv, ProcessOK, Serving
  <2>2. QED BY <2>1 DEF IInv, ProcessOK, QueueOK, EvidenceIsQuiet
<1>5. LiveStaysWithOwner BY DEF IInv, CommandsOK, LiveOK, LiveStaysWithOwner
<1>6. QED BY <1>1, <1>2, <1>3, <1>4, <1>5 DEF OwnershipSafety

(* However many commands, incarnations, crashes and suspensions there are:   *)
(* over every retry, restart and recovery of dispatch_lifecycle a command    *)
(* reaches a run at most once, a refusal means it never did and never will,  *)
(* a suspended owner has no run and admits none, stopped.json names a        *)
(* process whose work has ended, and live input is handled by the            *)
(* incarnation it was taken for (routing.rs, recovery.rs, suspension.rs).    *)
THEOREM OneOwnerOneExecution == OwnershipAssumption => (Spec => []OwnershipSafety)
<1> SUFFICES ASSUME OwnershipAssumption PROVE Spec => []OwnershipSafety OBVIOUS
<1>1. Spec => []IInv BY OwnershipInvariant
<1>2. IInv => OwnershipSafety BY OwnershipIsSafe
<1>3. QED BY <1>1, <1>2, PTL

-----------------------------------------------------------------------------
(* The inductive invariant, part by part.                                  *)

Source ==
  [inc : 1..MaxIncarnation, relinquished : BOOLEAN,
   rt : {"live", "suspended", "closing", "stopped", "dead"}, active : BOOLEAN,
   hist : SUBSET Submissions, moved : Transfers \cup {NoTransfer}]

Exporting ==
  [pc : {"none", "forward", "relinquish", "observe", "mark"}, run : 0..MaxGiveUps,
   recorded : BOOLEAN, manifest : BOOLEAN]

Courier ==
  [pc : Ops \cup {"new", "off", "done"}, run : 0..MaxGiveUps, inc : 0..MaxIncarnation,
   rev : 0..Cardinality(Submissions), preparation : BOOLEAN, manifest : BOOLEAN,
   pending : BOOLEAN, off : 0..Chunks]

Receiver ==
  [pc : {"none", "start", "launch", "settle"}, run : 0..MaxGiveUps, prepared : BOOLEAN,
   manifest : BOOLEAN, bytes : 0..Chunks, intent : BOOLEAN, admitted : BOOLEAN,
   launches : Nat, receipt : BOOLEAN, activated : BOOLEAN]

OwnerRecord ==
  [init : Transfers \cup {NoTransfer}, inc : 0..MaxIncarnation,
   rt : {"none", "starting", "live", "dead"}, imported : Transfers \cup {NoTransfer},
   hist : SUBSET Submissions, bound : SUBSET Submissions]

\* An artifact exists only for the transfer the journal committed, and holds
\* what the journal holds: a relinquished journal admits nothing.
SourceOK ==
  /\ src \in Source
  /\ relay \in [t : Transfers \cup {NoTransfer}, committed : BOOLEAN]
  /\ sealed \in [Transfers -> SUBSET Submissions]
  /\ files \subseteq Transfers
  /\ relay.committed => relay.t # NoTransfer /\ src.moved = relay.t
  /\ \A t \in files : src.moved = t
  /\ src.moved # NoTransfer => sealed[src.moved] = src.hist

\* An export handler observes a written artifact and hands out a manifest of
\* one.
ExportOK(e, t) ==
  /\ e \in Exporting
  /\ e.pc = "observe" => t \in files
  /\ e.pc = "mark" => e.manifest
  /\ e.manifest => t \in files

\* What a courier sends once it holds the manifest.
Late == {"status", "accept", "upload", "activate"}

CourierOK(k, t) ==
  /\ k \in Courier
  /\ k.manifest => t \in files
  /\ k.pc \in Late => k.manifest
  /\ k.pc = "upload" => k.off < Chunks
  /\ k.run <= giveUps

\* A request stays true however late it is handled.
MessageOK(m) ==
  /\ m \in Message
  /\ m.op \in Late => m.t \in files
  /\ m.op = "upload" => m.off < Chunks

\* Each stage of an activation presupposes the one before it; o is the session
\* at the transfer's destination.
ReceiverOK(r, t, o) ==
  /\ r \in Receiver
  /\ r.manifest => t \in files
  /\ r.intent => r.manifest /\ r.bytes = Chunks
  /\ r.pc # "none" => r.intent
  /\ r.pc \in {"launch", "settle"} => r.admitted
  /\ r.pc = "launch" => r.launches = 0
  /\ r.admitted => r.intent /\ o.init = t
  /\ r.launches <= 1
  /\ r.launches = 1 => r.admitted
  /\ r.receipt => r.admitted /\ o.imported = t

\* A destination's session is the one admitted transfer's, and its history
\* continues the source's.
OwnerOK(o, d) ==
  /\ o \in OwnerRecord
  /\ o.init # NoTransfer => Dest[o.init] = d
  /\ o.imported \in {NoTransfer, o.init}
  /\ o.rt = "live" => o.imported # NoTransfer
  /\ o.rt = "starting" => o.init # NoTransfer
  /\ o.imported = NoTransfer => o.bound = {}
  /\ o.imported # NoTransfer => src.hist \subseteq o.hist /\ src.hist \subseteq o.bound

\* What has run is in some owner's history.
RanOK ==
  /\ ran \in [Submissions -> Nat]
  /\ \A c \in Submissions :
       /\ ran[c] <= 1
       /\ ran[c] = 1 => c \in src.hist \/ \E d \in Dests : c \in own[d].bound

ExportsOK ==
  /\ exp \in [Transfers -> Exporting]
  /\ \A t \in Transfers : ExportOK(exp[t], t)

CouriersOK ==
  /\ cour \in [Transfers -> Courier]
  /\ \A t \in Transfers : CourierOK(cour[t], t)

NetOK == \A m \in net : MessageOK(m)

ReceiversOK ==
  /\ dst \in [Transfers -> Receiver]
  /\ \A t \in Transfers : ReceiverOK(dst[t], t, own[Dest[t]])

OwnersOK ==
  /\ own \in [Dests -> OwnerRecord]
  /\ \A d \in Dests : OwnerOK(own[d], d)
  /\ \A d \in Dests : own[d].init # NoTransfer => dst[own[d].init].admitted

BudgetOK == expired \in BOOLEAN /\ giveUps \in 0..MaxGiveUps /\ faults \in 0..MaxFaults

MoveIInv ==
  /\ SourceOK /\ ExportsOK /\ CouriersOK /\ NetOK
  /\ ReceiversOK /\ OwnersOK /\ RanOK /\ BudgetOK

-----------------------------------------------------------------------------
(* Couriers and their requests.                                            *)

\* What a courier's transitions keep.
LEMMA CourierTransitions ==
  ASSUME MoveAssumption, NEW t \in Transfers, NEW k, CourierOK(k, t)
  PROVE  /\ CourierOK([k EXCEPT !.pc = "off"], t)
         /\ CourierOK([k EXCEPT !.pc = "off", !.off = 0], t)
         /\ CourierOK([k EXCEPT !.pc = "done"], t)
         /\ CourierOK([k EXCEPT !.preparation = TRUE, !.pc = "export"], t)
         /\ t \in files => CourierOK([k EXCEPT !.manifest = TRUE, !.pc = "accept"], t)
         /\ k.manifest => \A o \in 0..Chunks :
              CourierOK([k EXCEPT !.pc = "accept", !.pending = FALSE, !.off = o], t)
         /\ \A i \in 0..MaxIncarnation, r \in 0..Cardinality(Submissions) :
              CourierOK([k EXCEPT !.inc = i, !.rev = r], t)
<1>0. Chunks \in Nat /\ 0 \in 0..Chunks BY DEF MoveAssumption
<1>1. k \in Courier /\ (k.manifest => t \in files) /\ (k.pc \in Late => k.manifest)
      /\ (k.pc = "upload" => k.off < Chunks) /\ k.run <= giveUps
  BY DEF CourierOK
<1>2. CourierOK([k EXCEPT !.pc = "off"], t)
  BY <1>0, <1>1 DEF CourierOK, Courier, Late
<1>3. CourierOK([k EXCEPT !.pc = "off", !.off = 0], t)
  BY <1>0, <1>1 DEF CourierOK, Courier, Late
<1>4. CourierOK([k EXCEPT !.pc = "done"], t)
  BY <1>0, <1>1 DEF CourierOK, Courier, Late
<1>5. CourierOK([k EXCEPT !.preparation = TRUE, !.pc = "export"], t)
  BY <1>0, <1>1 DEF CourierOK, Courier, Late, Ops
<1>6. t \in files => CourierOK([k EXCEPT !.manifest = TRUE, !.pc = "accept"], t)
  BY <1>0, <1>1 DEF CourierOK, Courier, Late, Ops
<1>7. k.manifest => \A o \in 0..Chunks :
        CourierOK([k EXCEPT !.pc = "accept", !.pending = FALSE, !.off = o], t)
  BY <1>0, <1>1 DEF CourierOK, Courier, Late, Ops
<1>8. \A i \in 0..MaxIncarnation, r \in 0..Cardinality(Submissions) :
        CourierOK([k EXCEPT !.inc = i, !.rev = r], t)
  BY <1>0, <1>1 DEF CourierOK, Courier, Late
<1>9. QED BY <1>2, <1>3, <1>4, <1>5, <1>6, <1>7, <1>8

\* A courier that goes on sends what its journal allows.
LEMMA CourierGoesOn ==
  ASSUME MoveAssumption, NEW t \in Transfers, NEW k, CourierOK(k, t)
  PROVE  /\ CourierOK(Resumed(k), t) /\ Resumed(k).pc \in Ops
         /\ k.manifest => /\ CourierOK(NextUpload(k), t)
                          /\ NextUpload(k).pc \in Ops
         /\ \A o \in 0..Chunks :
              /\ k.manifest => CourierOK(NextUpload([k EXCEPT !.off = o]), t)
              /\ NextUpload([k EXCEPT !.off = o]).pc \in Ops
<1>0. Chunks \in Nat \ {0} BY DEF MoveAssumption
<1>1. k \in Courier /\ (k.manifest => t \in files) /\ (k.pc \in Late => k.manifest)
      /\ (k.pc = "upload" => k.off < Chunks) /\ k.run <= giveUps
  BY DEF CourierOK
<1>2. ASSUME NEW op \in {"prepare", "export"}
      PROVE  CourierOK([k EXCEPT !.pc = op], t) /\ [k EXCEPT !.pc = op].pc \in Ops
  BY <1>0, <1>1 DEF CourierOK, Courier, Late, Ops
<1>3. k.manifest => CourierOK([k EXCEPT !.pc = "status"], t)
                    /\ [k EXCEPT !.pc = "status"].pc \in Ops
  BY <1>0, <1>1 DEF CourierOK, Courier, Late, Ops
<1>4. CourierOK(Resumed(k), t) /\ Resumed(k).pc \in Ops
  <2>1. k.manifest \in BOOLEAN /\ k.preparation \in BOOLEAN BY <1>1 DEF Courier
  <2>2. CASE ~k.preparation BY <1>2, <2>2 DEF Resumed, Enter
  <2>3. CASE k.preparation /\ ~k.manifest BY <1>2, <2>3 DEF Resumed, Enter
  <2>4. CASE k.preparation /\ k.manifest BY <1>3, <2>4 DEF Resumed, Enter
  <2>5. QED BY <2>1, <2>2, <2>3, <2>4
<1>5. ASSUME NEW q, q \in Courier, q.run = k.run, q.manifest = k.manifest
      PROVE  NextUpload(q).pc \in Ops /\ (q.manifest => CourierOK(NextUpload(q), t))
  <2>1. CASE q.off < Chunks
    <3>1. NextUpload(q) = [q EXCEPT !.pc = "upload"] BY <2>1 DEF NextUpload, Enter
    <3>2. [q EXCEPT !.pc = "upload"] \in Courier
          /\ [q EXCEPT !.pc = "upload"].pc = "upload"
          /\ [q EXCEPT !.pc = "upload"].off = q.off
          /\ [q EXCEPT !.pc = "upload"].manifest = q.manifest
          /\ [q EXCEPT !.pc = "upload"].run = q.run
      BY <1>5 DEF Courier, Ops
    <3>3. QED BY <1>1, <1>5, <2>1, <3>1, <3>2 DEF CourierOK, Ops
  <2>2. CASE ~(q.off < Chunks)
    <3> DEFINE a == [[q EXCEPT !.pc = "activate"] EXCEPT !.pending = TRUE]
    <3>1. NextUpload(q) = a BY <2>2 DEF NextUpload, Enter
    <3>2. a \in Courier /\ a.pc = "activate" /\ a.manifest = q.manifest /\ a.run = q.run
      BY <1>5 DEF Courier, Ops
    <3> HIDE DEF a
    <3>3. QED BY <1>1, <1>5, <3>1, <3>2 DEF CourierOK, Ops
  <2>3. QED BY <2>1, <2>2
<1>6. ASSUME NEW o \in 0..Chunks
      PROVE  /\ [k EXCEPT !.off = o] \in Courier
             /\ [k EXCEPT !.off = o].manifest = k.manifest
             /\ [k EXCEPT !.off = o].run = k.run
  BY <1>1 DEF Courier
<1>7. QED BY <1>1, <1>4, <1>5, <1>6

\* The request of a courier.
LEMMA RequestIsOK ==
  ASSUME NEW t \in Transfers, NEW k, CourierOK(k, t), k.pc \in Ops
  PROVE  MessageOK(Request(t, k))
<1>1. /\ k.pc \in Ops /\ k.run \in 0..MaxGiveUps /\ k.off \in 0..Chunks
  BY DEF CourierOK, Courier
<1>2. QED BY <1>1 DEF CourierOK, MessageOK, Message, Request

-----------------------------------------------------------------------------
(* The source session.                                                     *)

\* What the transitions of the source's record keep.
LEMMA SourceUpdates ==
  ASSUME MoveAssumption, NEW s \in Source
  PROVE  /\ \A h \in SUBSET Submissions :
              LET n == [s EXCEPT !.active = TRUE, !.hist = h]
              IN  n \in Source /\ n.hist = h /\ n.moved = s.moved
         /\ \A n \in {[s EXCEPT !.active = FALSE], [s EXCEPT !.relinquished = TRUE],
                      [s EXCEPT !.rt = "dead", !.active = FALSE]} :
              n \in Source /\ n.hist = s.hist /\ n.moved = s.moved
         /\ \A r \in {"live", "suspended", "closing", "stopped", "dead"} :
              LET n == [s EXCEPT !.rt = r]
              IN  n \in Source /\ n.hist = s.hist /\ n.moved = s.moved
         /\ s.inc < MaxIncarnation =>
              Restarted(s) \in Source /\ Restarted(s).hist = s.hist
              /\ Restarted(s).moved = s.moved
<1>1. \A h \in SUBSET Submissions :
        LET n == [s EXCEPT !.active = TRUE, !.hist = h]
        IN  n \in Source /\ n.hist = h /\ n.moved = s.moved
  BY DEF Source
<1>2. \A n \in {[s EXCEPT !.active = FALSE], [s EXCEPT !.relinquished = TRUE],
                [s EXCEPT !.rt = "dead", !.active = FALSE]} :
        n \in Source /\ n.hist = s.hist /\ n.moved = s.moved
  BY DEF Source
<1>3. \A r \in {"live", "suspended", "closing", "stopped", "dead"} :
        LET n == [s EXCEPT !.rt = r]
        IN  n \in Source /\ n.hist = s.hist /\ n.moved = s.moved
  BY DEF Source
<1>4. ASSUME s.inc < MaxIncarnation
      PROVE  /\ Restarted(s) \in Source /\ Restarted(s).hist = s.hist
             /\ Restarted(s).moved = s.moved
  <2>1. s.inc \in 1..MaxIncarnation /\ MaxIncarnation \in Nat \ {0}
    BY DEF Source, MoveAssumption
  <2>2. s.inc + 1 \in 1..MaxIncarnation BY <1>4, <2>1
  <2>3. QED BY <2>2 DEF Source, Restarted
<1>5. QED BY <1>1, <1>2, <1>3, <1>4

\* A journal that was relinquished keeps its transfer and its history, and an
\* artifact stays.
SourceGrows ==
  /\ files \subseteq files'
  /\ src.hist \subseteq src'.hist
  /\ src.moved # NoTransfer => src'.moved = src.moved /\ src'.hist = src.hist

LEMMA QuietSource ==
  ASSUME SourceOK, src' \in Source, src'.hist = src.hist, src'.moved = src.moved,
         \/ relay' = relay
         \/ \E t \in Transfers \cup {NoTransfer} : relay' = [t |-> t, committed |-> FALSE],
         UNCHANGED <<sealed, files>>
  PROVE  SourceOK' /\ SourceGrows
<1>1. SourceGrows BY DEF SourceGrows
<1>2. /\ relay' \in [t : Transfers \cup {NoTransfer}, committed : BOOLEAN]
      /\ relay'.committed => relay'.t # NoTransfer /\ src.moved = relay'.t
  <2>1. CASE relay' = relay BY <2>1 DEF SourceOK
  <2>2. CASE \E t \in Transfers \cup {NoTransfer} : relay' = [t |-> t, committed |-> FALSE]
    BY <2>2
  <2>3. QED BY <2>1, <2>2
<1>3. QED BY <1>1, <1>2 DEF SourceOK

LEMMA SourceKeeps ==
  ASSUME MoveAssumption, SourceOK, [MoveNext]_moveVars
  PROVE  SourceOK' /\ SourceGrows
<1>0. src \in Source /\ NoTransfer \notin Transfers
  BY DEF SourceOK, MoveAssumption
<1>1. ASSUME UNCHANGED <<src, relay, sealed, files>> PROVE SourceOK' /\ SourceGrows
  BY <1>0, <1>1, QuietSource
<1>2. CASE UNCHANGED moveVars BY <1>1, <1>2 DEF moveVars
<1>3. ASSUME NEW t \in Transfers, CourierStep(t) PROVE SourceOK' /\ SourceGrows
  BY <1>1, <1>3 DEF CourierStep, CourierRun, CourierGivesUp, sourceVars
<1>4. ASSUME NEW t \in Transfers, ExportSteps(t) PROVE SourceOK' /\ SourceGrows
  <2>1. CASE ExportForward(t)
    <3>1. CASE UNCHANGED <<src, relay>> BY <1>1, <2>1, <3>1 DEF ExportForward
    <3>2. CASE src' = src /\ relay' = [t |-> t, committed |-> FALSE]
      BY <1>0, <2>1, <3>2, QuietSource DEF ExportForward
    <3>3. CASE /\ src' = Restarted(src) /\ src.inc < MaxIncarnation
               /\ relay' = [t |-> t, committed |-> FALSE]
      BY <1>0, <2>1, <3>3, QuietSource, SourceUpdates DEF ExportForward
    <3>4. QED BY <2>1, <3>1, <3>2, <3>3 DEF ExportForward
  <2>2. CASE ExportMark(t)
    <3>1. CASE UNCHANGED src BY <1>1, <2>2, <3>1 DEF ExportMark
    <3>2. CASE src' = [src EXCEPT !.relinquished = TRUE]
      <4>1. src' \in Source /\ src'.hist = src.hist /\ src'.moved = src.moved
        BY <1>0, <3>2, SourceUpdates
      <4>2. QED BY <2>2, <4>1, QuietSource DEF ExportMark
    <3>3. QED BY <2>2, <3>1, <3>2 DEF ExportMark
  <2>3. CASE ExportAnswered(t) \/ ExportObserve(t) \/ ExportTimesOut(t)
    BY <1>1, <2>3 DEF ExportAnswered, ExportObserve, ExportTimesOut
  <2>4. QED BY <1>4, <2>1, <2>2, <2>3 DEF ExportSteps
<1>5. ASSUME NEW t \in Transfers, DestSteps(t) PROVE SourceOK' /\ SourceGrows
  BY <1>1, <1>5 DEF DestSteps, StartAdmit, Launch, SettleStart, SettleTimesOut, sourceVars
<1>6. ASSUME NEW m \in net, Handle(m) PROVE SourceOK' /\ SourceGrows
  BY <1>1, <1>6 DEF Handle, Prepare, Export, AcceptTransfer, Upload, Status, Activate, sourceVars
<1>7. CASE SourceStep
  <2>1. ASSUME NEW c \in Submissions, SourceSubmit(c) PROVE SourceOK' /\ SourceGrows
    <3> DEFINE h == src.hist \cup {c}
    <3>1. h \in SUBSET Submissions BY <1>0, <2>1 DEF Source
    <3>2. src' = [src EXCEPT !.active = TRUE, !.hist = h]
      BY <1>0, <2>1 DEF SourceSubmit, Source
    <3>3. src' \in Source /\ src'.hist = h /\ src'.moved = src.moved
      BY <1>0, <3>1, <3>2, SourceUpdates
    <3>4. src.moved = NoTransfer /\ UNCHANGED <<relay, sealed, files>>
      BY <2>1 DEF SourceSubmit, Fenced
    <3>5. QED BY <3>3, <3>4 DEF SourceOK, SourceGrows
  <2>2. CASE SourceFinish
    <3>1. src' \in Source /\ src'.hist = src.hist /\ src'.moved = src.moved
      BY <1>0, <2>2, SourceUpdates DEF SourceFinish
    <3>2. QED BY <2>2, <3>1, QuietSource DEF SourceFinish
  <2>3. CASE SourceSuspend
    <3>1. src' \in Source /\ src'.hist = src.hist /\ src'.moved = src.moved
      BY <1>0, <2>3, SourceUpdates DEF SourceSuspend
    <3>2. QED BY <2>3, <3>1, QuietSource DEF SourceSuspend
  <2>4. CASE SourceDies
    <3>1. src' \in Source /\ src'.hist = src.hist /\ src'.moved = src.moved
      BY <1>0, <2>4, SourceUpdates DEF SourceDies
    <3>2. QED BY <2>4, <3>1, QuietSource DEF SourceDies, NoRelay
  <2>5. CASE SourceResume \/ SourceRestart
    <3>1. src.inc < MaxIncarnation /\ src' = Restarted(src)
          /\ UNCHANGED <<relay, sealed, files>>
      BY <1>0, <2>5 DEF SourceResume, SourceRestart, Source, MoveAssumption
    <3>2. QED BY <1>0, <3>1, QuietSource, SourceUpdates
  <2>6. CASE Expire BY <1>1, <2>6 DEF Expire, sourceVars
  <2>7. QED BY <1>7, <2>1, <2>2, <2>3, <2>4, <2>5, <2>6 DEF SourceStep
<1>8. CASE Relinquish
  <2>0. /\ relay.t \in Transfers /\ relay \in [t : Transfers \cup {NoTransfer}, committed : BOOLEAN]
        /\ UNCHANGED files
    BY <1>8 DEF Relinquish, SourceOK
  <2> DEFINE t == relay.t
  <2>1. CASE relay' = NoRelay /\ UNCHANGED <<src, sealed>>
    BY <1>0, <2>0, <2>1, QuietSource DEF NoRelay
  <2>2. CASE src.moved = t /\ relay' = [relay EXCEPT !.committed = TRUE]
             /\ UNCHANGED <<src, sealed>>
    <3>1. relay'.t = t /\ relay' \in [t : Transfers \cup {NoTransfer}, committed : BOOLEAN]
      BY <2>0, <2>2
    <3>2. QED BY <1>0, <2>0, <2>2, <3>1 DEF SourceOK, SourceGrows
  <2>3. CASE /\ src.moved = NoTransfer
             /\ src' = [src EXCEPT !.moved = t]
             /\ sealed' = [sealed EXCEPT ![t] = src.hist]
             /\ relay' = [relay EXCEPT !.committed = TRUE]
    <3>1. relay'.t = t /\ relay' \in [t : Transfers \cup {NoTransfer}, committed : BOOLEAN]
      BY <2>0, <2>3
    <3>2. src' \in Source /\ src'.hist = src.hist /\ src'.moved = t
      <4>1. [src EXCEPT !.moved = t] \in Source BY <1>0, <2>0 DEF Source
      <4>2. /\ [src EXCEPT !.moved = t].hist = src.hist
            /\ [src EXCEPT !.moved = t].moved = t
        BY <1>0 DEF Source
      <4>3. QED BY <2>3, <4>1, <4>2
    <3>3. src.hist \in SUBSET Submissions BY <1>0 DEF Source
    <3>4. sealed' \in [Transfers -> SUBSET Submissions] /\ sealed'[t] = src.hist
      BY <2>0, <2>3, <3>3 DEF SourceOK
    <3>5. files' = {} BY <1>0, <2>0, <2>3 DEF SourceOK
    <3>6. QED BY <1>0, <2>0, <2>3, <3>1, <3>2, <3>4, <3>5 DEF SourceOK, SourceGrows
  <2>4. QED BY <1>8, <2>1, <2>2, <2>3 DEF Relinquish, MayRelinquish, Fenced
<1>9. CASE WriteArtifact
  <2>1. src' \in Source /\ src'.hist = src.hist /\ src'.moved = src.moved
    BY <1>0, <1>9, SourceUpdates DEF WriteArtifact
  <2>2. /\ relay.t \in Transfers /\ src.moved = relay.t /\ files' = files \cup {relay.t}
        /\ relay' = [t |-> NoTransfer, committed |-> FALSE] /\ UNCHANGED sealed
    BY <1>9 DEF WriteArtifact, SourceOK, NoRelay
  <2>3. QED BY <2>1, <2>2 DEF SourceOK, SourceGrows
<1>10. CASE WriteFails BY <1>0, <1>10, QuietSource DEF WriteFails, NoRelay
<1>11. CASE SourceStops
  <2>1. src' \in Source /\ src'.hist = src.hist /\ src'.moved = src.moved
    BY <1>0, <1>11, SourceUpdates DEF SourceStops
  <2>2. QED BY <1>11, <2>1, QuietSource DEF SourceStops
<1>12. CASE SourceVesselCrash BY <1>1, <1>12 DEF SourceVesselCrash
<1>13. ASSUME NEW d \in Dests, OwnStep(d) PROVE SourceOK' /\ SourceGrows
  BY <1>1, <1>13
     DEF OwnStep, Import, DestDies, DestResume, DestVesselCrash, DestSubmit, sourceVars
<1>14. QED
  BY <1>2, <1>3, <1>4, <1>5, <1>6, <1>7, <1>8, <1>9, <1>10, <1>11, <1>12, <1>13 DEF MoveNext

-----------------------------------------------------------------------------
(* Couriers, requests and export handlers, step by step.                   *)

\* Couriers and requests stay good while artifacts are added and replies lost.
LEMMA CouriersStay ==
  ASSUME CouriersOK, NetOK, files \subseteq files', cour' = cour, net' \subseteq net,
         giveUps' = giveUps
  PROVE  CouriersOK' /\ NetOK'
<1>1. CouriersOK' BY DEF CouriersOK, CourierOK
<1>2. NetOK' BY DEF NetOK, MessageOK
<1>3. QED BY <1>1, <1>2

LEMMA CourierChanges ==
  ASSUME CouriersOK, NetOK, files \subseteq files', giveUps' = giveUps,
         NEW t \in Transfers, NEW k, CourierOK(k, t), cour' = [cour EXCEPT ![t] = k],
         net' \subseteq net \/ (net' \subseteq net \cup {Request(t, k)} /\ k.pc \in Ops)
  PROVE  CouriersOK' /\ NetOK'
<1>1. CouriersOK'
  <2>1. cour' \in [Transfers -> Courier] BY DEF CouriersOK, CourierOK
  <2>2. ASSUME NEW u \in Transfers PROVE CourierOK(cour[u], u)'
    <3>1. CourierOK(cour'[u], u)
      BY DEF CouriersOK
    <3>2. QED BY <3>1 DEF CourierOK
  <2>3. QED BY <2>1, <2>2 DEF CouriersOK
<1>2. NetOK'
  <2>1. ASSUME NEW m \in net' PROVE MessageOK(m)
    BY RequestIsOK DEF NetOK
  <2>2. QED BY <2>1 DEF NetOK, MessageOK
<1>3. QED BY <1>1, <1>2

\* An answer reaches the courier that waits for it, or nobody.
LEMMA MoveReplyKeeps ==
  ASSUME CouriersOK, NetOK, files \subseteq files', giveUps' = giveUps,
         NEW m, m.t \in Transfers, NEW k, NEW more \in BOOLEAN, ReplyTo(m, k, more),
         Waits(m) => CourierOK(k, m.t) /\ (more => k.pc \in Ops)
  PROVE  CouriersOK' /\ NetOK'
<1>1. CASE Waits(m)
  <2>1. cour' = [cour EXCEPT ![m.t] = k] /\ net' \subseteq net \cup {Request(m.t, k)}
        /\ (~more => net' \subseteq net)
    BY <1>1 DEF ReplyTo
  <2>2. QED BY <1>1, <2>1, CourierChanges
<1>2. CASE ~Waits(m)
  <2>1. cour' = cour /\ net' \subseteq net BY <1>2 DEF ReplyTo
  <2>2. QED BY <2>1, CouriersStay
<1>3. QED BY <1>1, <1>2

LEMMA RefuseKeeps ==
  ASSUME MoveAssumption, CouriersOK, NetOK, files \subseteq files', giveUps' = giveUps,
         NEW m, m.t \in Transfers, Refuse(m)
  PROVE  CouriersOK' /\ NetOK'
<1>1. CourierOK([cour[m.t] EXCEPT !.pc = "off", !.off = 0], m.t)
  BY CourierTransitions DEF CouriersOK
<1>2. QED BY <1>1, MoveReplyKeeps DEF Refuse

\* A Vessel restart turns waiting couriers off.
LEMMA CouriersTurnedOff ==
  ASSUME MoveAssumption, CouriersOK, NetOK, UNCHANGED <<files, giveUps, net>>,
         cour' = [t \in Transfers |-> cour'[t]],
         \A t \in Transfers :
            cour'[t] \in {cour[t], [cour[t] EXCEPT !.pc = "off"],
                          [cour[t] EXCEPT !.pc = "off", !.off = 0]}
  PROVE  CouriersOK' /\ NetOK'
<1>1. ASSUME NEW t \in Transfers PROVE CourierOK(cour'[t], t)
  <2> DEFINE j == [cour[t] EXCEPT !.pc = "off"]
             k == [cour[t] EXCEPT !.pc = "off", !.off = 0]
  <2>1. CourierOK(cour[t], t) BY DEF CouriersOK
  <2>2. CourierOK(j, t) /\ CourierOK(k, t) BY <2>1, CourierTransitions
  <2>3. cour'[t] \in {cour[t], j, k} OBVIOUS
  <2> HIDE DEF j, k
  <2>4. QED BY <2>1, <2>2, <2>3
<1>2. cour' \in [Transfers -> Courier] BY <1>1 DEF CourierOK
<1>3. CouriersOK'
  <2>1. ASSUME NEW t \in Transfers PROVE CourierOK(cour[t], t)'
    BY <1>1 DEF CourierOK
  <2>2. QED BY <1>2, <2>1 DEF CouriersOK
<1>4. NetOK' BY DEF NetOK, MessageOK
<1>5. QED BY <1>3, <1>4

\* What a handled request says of its courier.
LEMMA WaitingCourier ==
  ASSUME CouriersOK, NEW m, m.t \in Transfers, Waits(m), m.op \in Late
  PROVE  cour[m.t].manifest
  BY DEF CouriersOK, CourierOK, Waits

LEMMA HandleKeepsCouriers ==
  ASSUME MoveAssumption, CouriersOK, NetOK, ExportsOK, NEW m \in net, Handle(m)
  PROVE  CouriersOK' /\ NetOK'
<1>0. /\ MessageOK(m) /\ m.t \in Transfers /\ m.off \in 0..Chunks /\ Chunks \in Nat
      /\ CourierOK(cour[m.t], m.t) /\ ExportOK(exp[m.t], m.t)
  BY DEF NetOK, MessageOK, Message, CouriersOK, ExportsOK, MoveAssumption
<1>1. UNCHANGED <<files, giveUps>>
  BY DEF Handle, Prepare, Export, AcceptTransfer, Upload, Status, Activate, sourceVars, budget
<1>2. ASSUME Refuse(m) PROVE CouriersOK' /\ NetOK'
  BY <1>0, <1>1, <1>2, RefuseKeeps
<1>3. CASE Prepare(m)
  <2> DEFINE k == [cour[m.t] EXCEPT !.preparation = TRUE, !.pc = "export"]
  <2>1. CourierOK(k, m.t) /\ k.pc \in Ops
    <3>1. k.pc = "export" BY <1>0 DEF CourierOK, Courier
    <3>2. QED BY <1>0, <3>1, CourierTransitions DEF Ops
  <2>2. Refuse(m) \/ ReplyTo(m, k, TRUE) BY <1>3 DEF Prepare
  <2> HIDE DEF k
  <2>3. QED BY <1>0, <1>1, <1>2, <2>1, <2>2, MoveReplyKeeps
<1>4. CASE Export(m)
  <2> DEFINE k == [cour[m.t] EXCEPT !.manifest = TRUE, !.pc = "accept"]
  <2>1. exp[m.t].manifest => CourierOK(k, m.t) /\ k.pc \in Ops
    <3>1. k.pc = "accept" BY <1>0 DEF CourierOK, Courier
    <3>2. QED BY <1>0, <3>1, CourierTransitions DEF Ops, ExportOK
  <2>2. \/ Refuse(m)
        \/ exp[m.t].manifest /\ ReplyTo(m, k, TRUE)
        \/ net' = net \ {m} /\ cour' = cour
    BY <1>4 DEF Export
  <2> HIDE DEF k
  <2>3. CASE exp[m.t].manifest /\ ReplyTo(m, k, TRUE)
    BY <1>0, <1>1, <2>1, <2>3, MoveReplyKeeps
  <2>4. CASE net' = net \ {m} /\ cour' = cour BY <1>1, <2>4, CouriersStay
  <2>5. QED BY <1>2, <2>2, <2>3, <2>4
<1>5. CASE AcceptTransfer(m)
  <2>1. m.op = "accept" /\ ReplyTo(m, NextUpload(cour[m.t]), TRUE)
    BY <1>5 DEF AcceptTransfer, Handles
  <2>2. Waits(m) => CourierOK(NextUpload(cour[m.t]), m.t) /\ NextUpload(cour[m.t]).pc \in Ops
    BY <1>0, <2>1, WaitingCourier, CourierGoesOn DEF Late
  <2>3. QED BY <1>0, <1>1, <2>1, <2>2, MoveReplyKeeps
<1>6. CASE Upload(m)
  <2> DEFINE k == NextUpload([cour[m.t] EXCEPT !.off = m.off + 1])
  <2>1. m.op = "upload" /\ (Refuse(m) \/ ReplyTo(m, k, TRUE))
    BY <1>6 DEF Upload, Handles
  <2>2. m.off + 1 \in 0..Chunks BY <1>0, <2>1 DEF MessageOK
  <2>3. Waits(m) => CourierOK(k, m.t) /\ k.pc \in Ops
    BY <1>0, <2>1, <2>2, WaitingCourier, CourierGoesOn DEF Late
  <2> HIDE DEF k
  <2>4. QED BY <1>0, <1>1, <1>2, <2>1, <2>3, MoveReplyKeeps
<1>7. CASE Status(m)
  <2> DEFINE settled == [cour[m.t] EXCEPT !.pc = "done"]
             o == IF dst[m.t].bytes = Chunks THEN Chunks ELSE 0
             again == [cour[m.t] EXCEPT !.pc = "accept", !.pending = FALSE, !.off = o]
  <2>1. m.op = "status"
        /\ (Refuse(m) \/ ReplyTo(m, settled, FALSE) \/ ReplyTo(m, again, TRUE))
    BY <1>7 DEF Status, Handles
  <2>2. CourierOK(settled, m.t) BY <1>0, CourierTransitions
  <2>3. Waits(m) => CourierOK(again, m.t) /\ again.pc \in Ops
    <3>1. again.pc = "accept" BY <1>0 DEF CourierOK, Courier
    <3>2. o \in 0..Chunks BY <1>0
    <3>3. Waits(m) => cour[m.t].manifest BY <1>0, <2>1, WaitingCourier DEF Late
    <3> HIDE DEF o
    <3>4. QED BY <1>0, <3>1, <3>2, <3>3, CourierTransitions DEF Ops
  <2> HIDE DEF settled, again
  <2>4. QED BY <1>0, <1>1, <1>2, <2>1, <2>2, <2>3, MoveReplyKeeps
<1>8. CASE Activate(m)
  <2>1. Refuse(m) \/ (net' = net \ {m} /\ cour' = cour) BY <1>8 DEF Activate
  <2>2. QED BY <1>1, <1>2, <2>1, CouriersStay
<1>9. QED BY <1>3, <1>4, <1>5, <1>6, <1>7, <1>8 DEF Handle

LEMMA RunKeepsCouriers ==
  ASSUME MoveAssumption, SourceOK, CouriersOK, NetOK, NEW t \in Transfers, CourierRun(t)
  PROVE  CouriersOK' /\ NetOK'
<1> DEFINE pinned == [cour[t] EXCEPT !.inc = src.inc, !.rev = Cardinality(src.hist)]
           k == IF cour[t].pc = "new" THEN pinned ELSE cour[t]
<1>1. CourierOK(cour[t], t) BY DEF CouriersOK
<1>2. src.inc \in 0..MaxIncarnation /\ src.hist \subseteq Submissions
  BY DEF SourceOK, Source, MoveAssumption
<1>3. Cardinality(src.hist) \in 0..Cardinality(Submissions)
  <2>1. IsFiniteSet(Submissions) BY DEF MoveAssumption
  <2>2. /\ IsFiniteSet(src.hist) /\ Cardinality(src.hist) <= Cardinality(Submissions)
    BY <1>2, <2>1, FS_Subset
  <2>3. Cardinality(src.hist) \in Nat /\ Cardinality(Submissions) \in Nat
    BY <2>1, <2>2, FS_CardinalityType
  <2>4. QED BY <2>2, <2>3
<1>4. CourierOK(pinned, t) BY <1>1, <1>2, <1>3, CourierTransitions
<1>5. CourierOK(k, t) BY <1>1, <1>4
<1>6. CourierOK(Resumed(k), t) /\ Resumed(k).pc \in Ops BY <1>5, CourierGoesOn
<1>7. /\ cour' = [cour EXCEPT ![t] = Resumed(k)]
      /\ net' = net \cup {Request(t, Resumed(k))}
      /\ UNCHANGED <<files, giveUps>>
  BY DEF CourierRun, sourceVars, budget
<1> HIDE DEF k
<1>8. QED BY <1>6, <1>7, CourierChanges

LEMMA GivingUpKeepsCouriers ==
  ASSUME MoveAssumption, CouriersOK, NetOK, BudgetOK, NEW t \in Transfers, CourierGivesUp(t)
  PROVE  CouriersOK' /\ NetOK'
<1> DEFINE k == [cour[t] EXCEPT !.pc = "off", !.run = cour[t].run + 1, !.off = 0]
<1>1. CourierOK(cour[t], t) /\ cour[t] \in Courier
  BY DEF CouriersOK
<1>2. /\ giveUps' = giveUps + 1 /\ giveUps < MaxGiveUps /\ giveUps \in Nat
      /\ UNCHANGED <<files, net>>
  BY DEF CourierGivesUp, sourceVars, BudgetOK
<1>3. cour' = [cour EXCEPT ![t] = k]
  BY DEF CourierGivesUp, CouriersOK
<1>4. cour[t].run \in 0..MaxGiveUps /\ cour[t].run <= giveUps
  BY <1>1 DEF CourierOK, Courier
<1>5. cour[t].run + 1 \in 0..MaxGiveUps /\ MaxGiveUps \in Nat
      /\ Chunks \in Nat /\ 0 \in 0..Chunks
  BY <1>2, <1>4 DEF MoveAssumption
<1>6. k \in Courier /\ k.pc = "off" /\ k.manifest = cour[t].manifest
      /\ k.run = cour[t].run + 1
  BY <1>1, <1>5 DEF Courier
<1> HIDE DEF k
<1>7. CouriersOK'
  <2>1. cour' \in [Transfers -> Courier] BY <1>3, <1>6 DEF CouriersOK
  <2>2. ASSUME NEW u \in Transfers PROVE CourierOK(cour[u], u)'
    <3>1. CASE u = t
      <4>1. cour'[u] = k BY <1>3, <3>1 DEF CouriersOK
      <4>2. k.run <= giveUps' BY <1>2, <1>4, <1>6
      <4>3. k.manifest => t \in files BY <1>1, <1>6 DEF CourierOK
      <4>4. QED BY <1>2, <1>6, <3>1, <4>1, <4>2, <4>3 DEF CourierOK, Late
    <3>2. CASE u # t
      <4>1. cour'[u] = cour[u] /\ CourierOK(cour[u], u) BY <1>3, <3>2 DEF CouriersOK
      <4>2. cour[u].run \in Nat /\ cour[u].run <= giveUps BY <4>1 DEF CourierOK, Courier
      <4>3. cour[u].run <= giveUps' BY <1>2, <4>2
      <4>4. QED BY <1>2, <4>1, <4>3 DEF CourierOK
    <3>3. QED BY <3>1, <3>2
  <2>3. QED BY <2>1, <2>2 DEF CouriersOK
<1>8. NetOK' BY <1>2 DEF NetOK, MessageOK
<1>9. QED BY <1>7, <1>8

LEMMA CouriersKeep ==
  ASSUME MoveAssumption, SourceOK, ExportsOK, CouriersOK, NetOK, BudgetOK, [MoveNext]_moveVars
  PROVE  CouriersOK' /\ NetOK'
<1>0. files \subseteq files' BY SourceKeeps DEF SourceGrows
<1>1. ASSUME UNCHANGED <<cour, net, giveUps>> PROVE CouriersOK' /\ NetOK'
  BY <1>0, <1>1, CouriersStay
<1>2. CASE UNCHANGED moveVars BY <1>1, <1>2 DEF moveVars
<1>3. ASSUME NEW t \in Transfers, CourierStep(t) PROVE CouriersOK' /\ NetOK'
  BY <1>3, RunKeepsCouriers, GivingUpKeepsCouriers DEF CourierStep
<1>4. ASSUME NEW t \in Transfers, ExportSteps(t) PROVE CouriersOK' /\ NetOK'
  <2>0. ExportRequest(t).t = t BY DEF ExportRequest
  <2>1. giveUps' = giveUps
    BY <1>4 DEF ExportSteps, ExportForward, ExportAnswered, ExportObserve, ExportTimesOut,
       ExportMark, budget
  <2>2. CASE ExportFails(t)
    BY <1>0, <2>0, <2>1, <2>2, RefuseKeeps DEF ExportFails
  <2>3. CASE ExportMark(t) /\ ~ExportFails(t)
    <3> DEFINE k == [cour[t] EXCEPT !.manifest = TRUE, !.pc = "accept"]
    <3>1. ReplyTo(ExportRequest(t), k, TRUE) /\ exp[t].pc = "mark"
      BY <2>3 DEF ExportMark
    <3>2. t \in files BY <3>1 DEF ExportsOK, ExportOK
    <3>3. CourierOK(cour[t], t) BY DEF CouriersOK
    <3>4. k.pc = "accept" BY <3>3 DEF CourierOK, Courier
    <3>5. CourierOK(k, t) /\ k.pc \in Ops BY <3>2, <3>3, <3>4, CourierTransitions DEF Ops
    <3> HIDE DEF k
    <3>6. QED BY <1>0, <2>0, <2>1, <3>1, <3>5, MoveReplyKeeps
  <2>4. CASE UNCHANGED <<cour, net>> BY <1>1, <2>1, <2>4
  <2>5. QED
    BY <1>4, <2>2, <2>3, <2>4
       DEF ExportSteps, ExportForward, ExportAnswered, ExportObserve, ExportTimesOut, ExportMark
<1>5. ASSUME NEW t \in Transfers, DestSteps(t) PROVE CouriersOK' /\ NetOK'
  <2>0. ActivateRequest(t).t = t BY DEF ActivateRequest
  <2>1. giveUps' = giveUps
    BY <1>5 DEF DestSteps, StartAdmit, Launch, SettleStart, SettleTimesOut, budget
  <2>2. CASE ActivateFails(t)
    BY <1>0, <2>0, <2>1, <2>2, RefuseKeeps DEF ActivateFails
  <2>3. CASE Finished(t)
    <3>1. CourierOK([cour[t] EXCEPT !.pc = "done"], t)
      BY CourierTransitions DEF CouriersOK
    <3>2. QED BY <1>0, <2>0, <2>1, <2>3, <3>1, MoveReplyKeeps DEF Finished
  <2>4. CASE UNCHANGED <<cour, net>> BY <1>1, <2>1, <2>4
  <2>5. QED
    BY <1>5, <2>2, <2>3, <2>4 DEF DestSteps, StartAdmit, Launch, SettleStart, SettleTimesOut
<1>6. ASSUME NEW m \in net, Handle(m) PROVE CouriersOK' /\ NetOK'
  BY <1>6, HandleKeepsCouriers
<1>7. CASE SourceStep
  BY <1>1, <1>7 DEF SourceStep, SourceSubmit, SourceFinish, SourceSuspend, SourceDies,
     SourceResume, SourceRestart, Expire, budget
<1>8. CASE Relinquish \/ WriteArtifact \/ WriteFails \/ SourceStops
  BY <1>1, <1>8 DEF Relinquish, WriteArtifact, WriteFails, SourceStops, budget
<1>9. CASE SourceVesselCrash
  <2>1. /\ UNCHANGED <<files, giveUps, net>>
        /\ cour' = [t \in Transfers |-> cour'[t]]
        /\ \A t \in Transfers : cour'[t] \in {cour[t], [cour[t] EXCEPT !.pc = "off"]}
    BY <1>9 DEF SourceVesselCrash
  <2>2. QED BY <2>1, CouriersTurnedOff
<1>10. ASSUME NEW d \in Dests, OwnStep(d) PROVE CouriersOK' /\ NetOK'
  <2>1. CASE DestVesselCrash(d)
    <3>1. /\ UNCHANGED <<files, giveUps, net>>
          /\ cour' = [t \in Transfers |-> cour'[t]]
          /\ \A t \in Transfers :
               cour'[t] \in {cour[t], [cour[t] EXCEPT !.pc = "off", !.off = 0]}
      BY <2>1 DEF DestVesselCrash, sourceVars
    <3>2. QED BY <3>1, CouriersTurnedOff
  <2>2. CASE ~DestVesselCrash(d)
    BY <1>1, <1>10, <2>2 DEF OwnStep, Import, DestDies, DestResume, DestSubmit, budget
  <2>3. QED BY <2>1, <2>2
<1>11. QED BY <1>2, <1>3, <1>4, <1>5, <1>6, <1>7, <1>8, <1>9, <1>10 DEF MoveNext

-----------------------------------------------------------------------------
(* Export handlers.                                                        *)

LEMMA ExportTransitions ==
  ASSUME MoveAssumption, NEW t \in Transfers, NEW e, ExportOK(e, t)
  PROVE  /\ ExportOK([e EXCEPT !.pc = "none"], t)
         /\ ExportOK([e EXCEPT !.pc = "relinquish"], t)
         /\ t \in files => ExportOK([e EXCEPT !.pc = "observe"], t)
         /\ t \in files => ExportOK([e EXCEPT !.pc = "mark", !.manifest = TRUE], t)
         /\ \A r \in 0..MaxGiveUps, p \in {"observe", "forward"} :
              (p = "observe" => t \in files) =>
                ExportOK([e EXCEPT !.recorded = TRUE, !.run = r, !.pc = p], t)
  BY DEF ExportOK, Exporting

LEMMA ExportChanges ==
  ASSUME ExportsOK, files \subseteq files', NEW t \in Transfers, NEW e, ExportOK(e, t),
         exp' = [exp EXCEPT ![t] = e]
  PROVE  ExportsOK'
<1>1. exp' \in [Transfers -> Exporting] BY DEF ExportsOK, ExportOK
<1>2. ASSUME NEW u \in Transfers PROVE ExportOK(exp[u], u)'
  <2>1. ExportOK(exp'[u], u) BY DEF ExportsOK
  <2>2. QED BY <2>1 DEF ExportOK
<1>3. QED BY <1>1, <1>2 DEF ExportsOK

LEMMA ExportsKeep ==
  ASSUME MoveAssumption, SourceOK, ExportsOK, NetOK, [MoveNext]_moveVars
  PROVE  ExportsOK'
<1>0. files \subseteq files' BY SourceKeeps DEF SourceGrows
<1>1. ASSUME exp' = exp PROVE ExportsOK' BY <1>0, <1>1 DEF ExportsOK, ExportOK
<1>2. CASE UNCHANGED moveVars BY <1>1, <1>2 DEF moveVars
<1>3. ASSUME NEW t \in Transfers, CourierStep(t) PROVE ExportsOK'
  BY <1>1, <1>3 DEF CourierStep, CourierRun, CourierGivesUp, sourceVars
<1>4. ASSUME NEW t \in Transfers, ExportSteps(t) PROVE ExportsOK'
  <2>0. ExportOK(exp[t], t) /\ exp \in [Transfers -> Exporting] BY DEF ExportsOK
  <2>1. CASE exp' = [exp EXCEPT ![t].pc = "none"]
    BY <1>0, <2>0, <2>1, ExportChanges, ExportTransitions
  <2>2. CASE exp' = [exp EXCEPT ![t].pc = "relinquish"]
    BY <1>0, <2>0, <2>2, ExportChanges, ExportTransitions
  <2>3. CASE t \in files /\ exp' = [exp EXCEPT ![t].pc = "observe"]
    BY <1>0, <2>0, <2>3, ExportChanges, ExportTransitions
  <2>4. CASE ExportObserve(t)
    <3>1. t \in files /\ exp' = [exp EXCEPT ![t] = [exp[t] EXCEPT !.pc = "mark", !.manifest = TRUE]]
      BY <2>0, <2>4 DEF ExportObserve, ExportOK
    <3>2. QED BY <1>0, <2>0, <3>1, ExportChanges, ExportTransitions
  <2>5. QED
    BY <1>4, <2>1, <2>2, <2>3, <2>4
       DEF ExportSteps, ExportForward, ExportAnswered, ExportTimesOut, ExportMark, ExportFails
<1>5. ASSUME NEW t \in Transfers, DestSteps(t) PROVE ExportsOK'
  BY <1>1, <1>5 DEF DestSteps, StartAdmit, Launch, SettleStart, SettleTimesOut, sourceVars
<1>6. ASSUME NEW m \in net, Handle(m) PROVE ExportsOK'
  <2>1. CASE Export(m)
    <3> DEFINE t == m.t
               p == IF t \in files THEN "observe" ELSE "forward"
    <3>1. t \in Transfers /\ m.run \in 0..MaxGiveUps BY DEF NetOK, MessageOK, Message
    <3>2. ExportOK(exp[t], t) BY <3>1 DEF ExportsOK
    <3>3. \/ exp' = exp
          \/ exp' = [exp EXCEPT ![t] = [@ EXCEPT !.recorded = TRUE, !.run = m.run, !.pc = p]]
      BY <2>1 DEF Export
    <3>4. ExportOK([exp[t] EXCEPT !.recorded = TRUE, !.run = m.run, !.pc = p], t)
      BY <3>1, <3>2, ExportTransitions
    <3> HIDE DEF p
    <3>5. QED BY <1>0, <1>1, <3>1, <3>3, <3>4, ExportChanges DEF ExportsOK
  <2>2. CASE ~Export(m)
    BY <1>1, <1>6, <2>2 DEF Handle, Prepare, AcceptTransfer, Upload, Status, Activate, sourceVars
  <2>3. QED BY <2>1, <2>2
<1>7. CASE SourceStep
  BY <1>1, <1>7 DEF SourceStep, SourceSubmit, SourceFinish, SourceSuspend, SourceDies,
     SourceResume, SourceRestart, Expire, sourceVars
<1>8. CASE Relinquish \/ WriteArtifact \/ WriteFails \/ SourceStops
  BY <1>1, <1>8 DEF Relinquish, WriteArtifact, WriteFails, SourceStops
<1>9. CASE SourceVesselCrash
  <2>1. exp' = [t \in Transfers |-> [exp[t] EXCEPT !.pc = "none"]]
    BY <1>9 DEF SourceVesselCrash
  <2>2. ASSUME NEW t \in Transfers PROVE ExportOK(exp'[t], t)
    BY <2>1, ExportTransitions DEF ExportsOK
  <2>3. exp' \in [Transfers -> Exporting] BY <2>1, <2>2 DEF ExportOK
  <2>4. ASSUME NEW t \in Transfers PROVE ExportOK(exp[t], t)'
    BY <1>0, <2>2 DEF ExportOK
  <2>5. QED BY <2>3, <2>4 DEF ExportsOK
<1>10. ASSUME NEW d \in Dests, OwnStep(d) PROVE ExportsOK'
  BY <1>1, <1>10
     DEF OwnStep, Import, DestDies, DestResume, DestVesselCrash, DestSubmit, sourceVars
<1>11. QED BY <1>2, <1>3, <1>4, <1>5, <1>6, <1>7, <1>8, <1>9, <1>10 DEF MoveNext

-----------------------------------------------------------------------------
(* The destinations.                                                       *)

\* Whoever imported did so for the transfer the source's journal names.
LEMMA OwnersAreMoved ==
  ASSUME MoveAssumption, SourceOK, ReceiversOK, OwnersOK, NEW d \in Dests,
         own[d].imported # NoTransfer
  PROVE  /\ own[d].imported \in Transfers /\ own[d].imported = own[d].init
         /\ src.moved = own[d].imported /\ Dest[src.moved] = d
<1> DEFINE t == own[d].init
<1>1. t \in Transfers /\ own[d].imported = t /\ Dest[t] = d /\ dst[t].admitted
  BY DEF OwnersOK, OwnerOK, OwnerRecord
<1>2. ReceiverOK(dst[t], t, own[Dest[t]]) BY <1>1 DEF ReceiversOK
<1>3. t \in files BY <1>1, <1>2 DEF ReceiverOK
<1>4. QED BY <1>1, <1>3 DEF SourceOK

\* Nothing happens at the destinations.
LEMMA DestinationsStay ==
  ASSUME MoveAssumption, SourceOK, ReceiversOK, OwnersOK, SourceGrows,
         UNCHANGED <<dst, own>>
  PROVE  ReceiversOK' /\ OwnersOK'
<1>1. ASSUME NEW t \in Transfers PROVE ReceiverOK(dst[t], t, own[Dest[t]])'
  BY DEF ReceiversOK, ReceiverOK, SourceGrows
<1>2. ReceiversOK' BY <1>1 DEF ReceiversOK
<1>3. ASSUME NEW d \in Dests PROVE OwnerOK(own[d], d)'
  <2>1. CASE own[d].imported = NoTransfer BY <2>1 DEF OwnersOK, OwnerOK
  <2>2. CASE own[d].imported # NoTransfer
    <3>1. src'.hist = src.hist BY <2>2, OwnersAreMoved DEF SourceGrows, MoveAssumption
    <3>2. QED BY <3>1 DEF OwnersOK, OwnerOK
  <2>3. QED BY <2>1, <2>2
<1>4. OwnersOK' BY <1>3 DEF OwnersOK
<1>5. QED BY <1>2, <1>4

\* A step of one transfer and of the session at its destination.
LEMMA DestinationChanges ==
  ASSUME MoveAssumption, SourceOK, ReceiversOK, OwnersOK, UNCHANGED <<src, files>>,
         NEW t \in Transfers, NEW d \in Dests, Dest[t] = d, NEW r, NEW o,
         dst' = [dst EXCEPT ![t] = r], own' = [own EXCEPT ![d] = o],
         ReceiverOK(r, t, o), OwnerOK(o, d),
         own[d].init # NoTransfer => o.init = own[d].init,
         own[d].imported # NoTransfer => o.imported = own[d].imported,
         dst[t].admitted => r.admitted,
         o.init = own[d].init \/ (o.init = t /\ r.admitted)
  PROVE  ReceiversOK' /\ OwnersOK'
<1>0. dst \in [Transfers -> Receiver] /\ own \in [Dests -> OwnerRecord]
  BY DEF ReceiversOK, OwnersOK
<1>1. /\ dst'[t] = r /\ \A u \in Transfers : u # t => dst'[u] = dst[u]
      /\ own'[d] = o /\ \A e \in Dests : e # d => own'[e] = own[e]
      /\ dst' \in [Transfers -> Receiver] /\ own' \in [Dests -> OwnerRecord]
  BY <1>0 DEF ReceiverOK, OwnerOK
<1>2. ASSUME NEW u \in Transfers PROVE ReceiverOK(dst[u], u, own[Dest[u]])'
  <2>0. Dest[u] \in Dests BY DEF MoveAssumption
  <2>1. CASE u = t BY <1>1, <2>1 DEF ReceiverOK
  <2>2. CASE u # t /\ Dest[u] # d BY <1>1, <2>0, <2>2 DEF ReceiversOK, ReceiverOK
  <2>3. CASE u # t /\ Dest[u] = d
    <3>1. ReceiverOK(dst[u], u, own[d]) BY <2>3 DEF ReceiversOK
    <3>2. dst[u].admitted => o.init = u BY <3>1 DEF ReceiverOK, MoveAssumption
    <3>3. dst[u].receipt => o.imported = u BY <3>1 DEF ReceiverOK, MoveAssumption
    <3>4. ReceiverOK(dst[u], u, o) BY <3>1, <3>2, <3>3 DEF ReceiverOK
    <3>5. QED BY <1>1, <2>3, <3>4 DEF ReceiverOK
  <2>4. QED BY <2>1, <2>2, <2>3
<1>3. ReceiversOK' BY <1>1, <1>2 DEF ReceiversOK
<1>4. ASSUME NEW e \in Dests PROVE OwnerOK(own[e], e)'
  <2>1. OwnerOK(own'[e], e) BY <1>1 DEF OwnersOK
  <2>2. QED BY <2>1 DEF OwnerOK
<1>5. ASSUME NEW e \in Dests, own'[e].init # NoTransfer PROVE dst'[own'[e].init].admitted
  <2>1. CASE e = d
    <3>1. CASE o.init = t /\ r.admitted BY <1>1, <2>1, <3>1
    <3>2. CASE o.init = own[d].init
      <4>1. o.init \in Transfers /\ dst[o.init].admitted
        BY <1>0, <1>1, <1>5, <2>1, <3>2 DEF OwnersOK, OwnerRecord
      <4>2. QED BY <1>1, <2>1, <4>1
    <3>3. QED BY <3>1, <3>2
  <2>2. CASE e # d
    <3>1. own'[e] = own[e] BY <1>1, <2>2
    <3>2. own[e].init \in Transfers /\ dst[own[e].init].admitted /\ Dest[own[e].init] = e
      BY <1>0, <1>5, <3>1 DEF OwnersOK, OwnerOK, OwnerRecord
    <3>3. own[e].init # t BY <2>2, <3>2
    <3>4. QED BY <1>1, <3>1, <3>2, <3>3
  <2>3. QED BY <2>1, <2>2
<1>6. OwnersOK' BY <1>1, <1>4, <1>5 DEF OwnersOK
<1>7. QED BY <1>3, <1>6

\* A step of one transfer alone, or of its session alone.
LEMMA ReceiverChanges ==
  ASSUME MoveAssumption, SourceOK, ReceiversOK, OwnersOK, UNCHANGED <<src, files, own>>,
         NEW t \in Transfers, NEW r, dst' = [dst EXCEPT ![t] = r],
         ReceiverOK(r, t, own[Dest[t]]), dst[t].admitted => r.admitted
  PROVE  ReceiversOK' /\ OwnersOK'
<1> DEFINE d == Dest[t]
<1>1. d \in Dests BY DEF MoveAssumption
<1>2. own' = [own EXCEPT ![d] = own[d]] BY <1>1 DEF OwnersOK
<1>3. OwnerOK(own[d], d) BY <1>1 DEF OwnersOK
<1>4. QED BY <1>1, <1>2, <1>3, DestinationChanges

LEMMA OwnerChanges ==
  ASSUME MoveAssumption, SourceOK, ReceiversOK, OwnersOK, UNCHANGED <<src, files, dst>>,
         NEW d \in Dests, NEW o, own' = [own EXCEPT ![d] = o], OwnerOK(o, d),
         own[d].init # NoTransfer, o.init = own[d].init,
         own[d].imported # NoTransfer => o.imported = own[d].imported
  PROVE  ReceiversOK' /\ OwnersOK'
<1> DEFINE t == own[d].init
<1>1. t \in Transfers /\ Dest[t] = d BY DEF OwnersOK, OwnerOK, OwnerRecord
<1>2. dst' = [dst EXCEPT ![t] = dst[t]] BY <1>1 DEF ReceiversOK
<1>3. ReceiverOK(dst[t], t, own[d]) BY <1>1 DEF ReceiversOK
<1>4. dst[t].receipt => o.imported = t
  BY <1>1, <1>3 DEF ReceiverOK, MoveAssumption
<1>5. ReceiverOK(dst[t], t, o) BY <1>3, <1>4 DEF ReceiverOK
<1>6. QED BY <1>1, <1>2, <1>5, DestinationChanges

\* A receiver of the same standing, or one with a start record; an owner of the same identity.
StillPrepared(n, r, t, o) == ReceiverOK(n, t, o) /\ n.admitted = r.admitted
Started(n, t, q) == ReceiverOK(n, t, q) /\ n.admitted
SameOwner(n, o, d) == OwnerOK(n, d) /\ n.init = o.init /\ n.imported = o.imported

\* What the transitions of an activation keep.
LEMMA ReceiverTransitions ==
  ASSUME MoveAssumption, NEW t \in Transfers, NEW o, NEW r, ReceiverOK(r, t, o)
  PROVE  /\ StillPrepared([r EXCEPT !.prepared = TRUE], r, t, o)
         /\ t \in files =>
              StillPrepared([r EXCEPT !.manifest = TRUE], r, t, o)
         /\ ~r.intent => \A b \in 0..Chunks :
              StillPrepared([r EXCEPT !.bytes = b], r, t, o)
         /\ (r.manifest /\ r.bytes = Chunks) => \A x \in 0..MaxGiveUps :
              StillPrepared([r EXCEPT !.intent = TRUE, !.pc = "start", !.run = x], r, t, o)
         /\ StillPrepared([r EXCEPT !.pc = "none"], r, t, o)
         /\ StillPrepared([r EXCEPT !.pc = "none", !.activated = TRUE], r, t, o)
         /\ (r.admitted /\ o.imported = t) =>
              StillPrepared([[r EXCEPT !.pc = "none", !.activated = TRUE]
                             EXCEPT !.receipt = TRUE], r, t, o)
<1>1. StillPrepared([r EXCEPT !.prepared = TRUE], r, t, o)
  BY DEF ReceiverOK, Receiver, StillPrepared
<1>2. t \in files =>
        StillPrepared([r EXCEPT !.manifest = TRUE], r, t, o)
  BY DEF ReceiverOK, Receiver, StillPrepared
<1>3. ~r.intent => \A b \in 0..Chunks :
        StillPrepared([r EXCEPT !.bytes = b], r, t, o)
  BY DEF ReceiverOK, Receiver, StillPrepared
<1>4. (r.manifest /\ r.bytes = Chunks) => \A x \in 0..MaxGiveUps :
        StillPrepared([r EXCEPT !.intent = TRUE, !.pc = "start", !.run = x], r, t, o)
  BY DEF ReceiverOK, Receiver, StillPrepared
<1>5. StillPrepared([r EXCEPT !.pc = "none"], r, t, o)
  BY DEF ReceiverOK, Receiver, StillPrepared
<1>6. StillPrepared([r EXCEPT !.pc = "none", !.activated = TRUE], r, t, o)
  BY DEF ReceiverOK, Receiver, StillPrepared
<1>7. (r.admitted /\ o.imported = t) =>
        StillPrepared([[r EXCEPT !.pc = "none", !.activated = TRUE] EXCEPT !.receipt = TRUE], r, t, o)
  BY DEF ReceiverOK, Receiver, StillPrepared
<1>8. QED BY <1>1, <1>2, <1>3, <1>4, <1>5, <1>6, <1>7

\* Admission and launch, which change the session too.
LEMMA StartTransitions ==
  ASSUME MoveAssumption, NEW t \in Transfers, NEW o, NEW q, NEW r, ReceiverOK(r, t, o)
  PROVE  /\ (r.pc = "start" /\ ~r.admitted /\ q.init = t) =>
              Started([r EXCEPT !.admitted = TRUE, !.pc = "launch"], t, q)
         /\ (r.pc = "launch" /\ q.init = o.init /\ q.imported = o.imported) =>
              Started([r EXCEPT !.pc = "settle", !.launches = r.launches + 1], t, q)
<1>1. ASSUME r.pc = "start", ~r.admitted, q.init = t
      PROVE  Started([r EXCEPT !.admitted = TRUE, !.pc = "launch"], t, q)
  <2>1. r.launches = 0 BY <1>1 DEF ReceiverOK, Receiver
  <2>2. QED BY <1>1, <2>1 DEF ReceiverOK, Receiver, Started
<1>2. ASSUME r.pc = "launch", q.init = o.init, q.imported = o.imported
      PROVE  Started([r EXCEPT !.pc = "settle", !.launches = r.launches + 1], t, q)
  <2> DEFINE n == [r EXCEPT !.pc = "settle", !.launches = r.launches + 1]
  <2>1. r.launches + 1 = 1 /\ r.admitted /\ r.intent BY <1>2 DEF ReceiverOK
  <2>2. r \in Receiver BY DEF ReceiverOK
  <2>3. /\ n \in Receiver /\ n.pc = "settle" /\ n.launches = 1 /\ n.admitted = r.admitted
        /\ n.manifest = r.manifest /\ n.intent = r.intent /\ n.bytes = r.bytes
        /\ n.receipt = r.receipt
    <3>1. n = [r EXCEPT !.pc = "settle", !.launches = 1] BY <2>1
    <3>2. [r EXCEPT !.pc = "settle", !.launches = 1] \in Receiver BY <2>2 DEF Receiver
    <3>3. QED BY <2>2, <3>1, <3>2 DEF Receiver
  <2> HIDE DEF n
  <2>4. ReceiverOK(n, t, q) BY <1>2, <2>1, <2>3 DEF ReceiverOK
  <2>5. QED BY <2>1, <2>3, <2>4 DEF n, Started
<1>3. QED BY <1>1, <1>2

\* What the life of a destination's session keeps.
LEMMA OwnerTransitions ==
  ASSUME MoveAssumption, NEW d \in Dests, NEW o, OwnerOK(o, d)
  PROVE  /\ o.init # NoTransfer => SameOwner([o EXCEPT !.rt = "starting"], o, d)
         /\ o.imported # NoTransfer => SameOwner([o EXCEPT !.rt = "live"], o, d)
         /\ SameOwner([o EXCEPT !.rt = "dead"], o, d)
         /\ (o.init # NoTransfer /\ o.inc < MaxIncarnation) =>
              SameOwner([o EXCEPT !.rt = "starting", !.inc = o.inc + 1], o, d)
         /\ o.imported # NoTransfer => \A c \in Submissions :
              SameOwner([o EXCEPT !.hist = o.hist \cup {c}, !.bound = o.bound \cup {c}], o, d)
<1>0. MaxIncarnation \in Nat \ {0} BY DEF MoveAssumption
<1>1. o.init # NoTransfer => SameOwner([o EXCEPT !.rt = "starting"], o, d)
  BY DEF OwnerOK, OwnerRecord, SameOwner
<1>2. o.imported # NoTransfer => SameOwner([o EXCEPT !.rt = "live"], o, d)
  BY DEF OwnerOK, OwnerRecord, SameOwner
<1>3. SameOwner([o EXCEPT !.rt = "dead"], o, d)
  BY DEF OwnerOK, OwnerRecord, SameOwner
<1>4. (o.init # NoTransfer /\ o.inc < MaxIncarnation) =>
        SameOwner([o EXCEPT !.rt = "starting", !.inc = o.inc + 1], o, d)
  <2>1. o.inc < MaxIncarnation => o.inc + 1 \in 0..MaxIncarnation
    BY <1>0 DEF OwnerOK, OwnerRecord
  <2>2. QED BY <2>1 DEF OwnerOK, OwnerRecord, SameOwner
<1>5. o.imported # NoTransfer => \A c \in Submissions :
        SameOwner([o EXCEPT !.hist = o.hist \cup {c}, !.bound = o.bound \cup {c}], o, d)
  <2>1. ASSUME NEW c \in Submissions
        PROVE  o.hist \cup {c} \in SUBSET Submissions /\ o.bound \cup {c} \in SUBSET Submissions
    BY DEF OwnerOK, OwnerRecord
  <2>2. QED BY <2>1 DEF OwnerOK, OwnerRecord, SameOwner
<1>6. QED BY <1>1, <1>2, <1>3, <1>4, <1>5

LEMMA FirstIncarnation == ASSUME MoveAssumption PROVE 1 \in 0..MaxIncarnation
BY DEF MoveAssumption

\* Admission names the session's transfer; the import gives it its history.
LEMMA OwnerBegins ==
  ASSUME MoveAssumption, NEW d \in Dests, NEW o, OwnerOK(o, d), NEW n,
         \/ /\ o.init = NoTransfer
            /\ \E t \in Transfers : Dest[t] = d /\ n = [o EXCEPT !.init = t, !.inc = 1]
         \/ /\ o.init # NoTransfer
            /\ \E h \in SUBSET Submissions :
                 /\ src.hist \subseteq h
                 /\ n = [o EXCEPT !.rt = "live", !.imported = o.init, !.hist = h, !.bound = h]
  PROVE  OwnerOK(n, d)
<1>0. NoTransfer \notin Transfers BY DEF MoveAssumption
<1>1. 1 \in 0..MaxIncarnation BY FirstIncarnation
<1>2. CASE /\ o.init = NoTransfer
           /\ \E t \in Transfers : Dest[t] = d /\ n = [o EXCEPT !.init = t, !.inc = 1]
  BY <1>0, <1>1, <1>2 DEF OwnerOK, OwnerRecord
<1>3. CASE /\ o.init # NoTransfer
           /\ \E h \in SUBSET Submissions :
                /\ src.hist \subseteq h
                /\ n = [o EXCEPT !.rt = "live", !.imported = o.init, !.hist = h, !.bound = h]
  <2>1. PICK h \in SUBSET Submissions :
          /\ src.hist \subseteq h
          /\ n = [o EXCEPT !.rt = "live", !.imported = o.init, !.hist = h, !.bound = h]
    BY <1>3
  <2>2. o \in OwnerRecord /\ o.init # NoTransfer /\ Dest[o.init] = d BY <1>3 DEF OwnerOK
  <2>3. /\ n \in OwnerRecord /\ n.init = o.init /\ n.imported = o.init /\ n.rt = "live"
        /\ n.hist = h /\ n.bound = h
    BY <2>1, <2>2 DEF OwnerRecord
  <2>4. QED BY <2>1, <2>2, <2>3 DEF OwnerOK
<1>4. QED BY <1>2, <1>3

LEMMA HandleKeepsDestinations ==
  ASSUME MoveAssumption, SourceOK, ReceiversOK, OwnersOK, NetOK, NEW m \in net, Handle(m)
  PROVE  ReceiversOK' /\ OwnersOK'
<1> DEFINE t == m.t
           r == dst[t]
           o == own[Dest[t]]
<1>0. /\ MessageOK(m) /\ t \in Transfers /\ m.run \in 0..MaxGiveUps /\ m.off \in 0..Chunks
      /\ ReceiverOK(r, t, o) /\ dst \in [Transfers -> Receiver]
      /\ r \in Receiver /\ Chunks \in Nat
  BY DEF NetOK, MessageOK, Message, ReceiversOK, MoveAssumption
<1>1. UNCHANGED <<src, files, own>>
  BY DEF Handle, Prepare, Export, AcceptTransfer, Upload, Status, Activate, sourceVars, destVars
<1>2. ASSUME dst' = dst PROVE ReceiversOK' /\ OwnersOK'
  <2>1. SourceGrows BY <1>1 DEF SourceGrows
  <2>2. QED BY <1>1, <1>2, <2>1, DestinationsStay
<1>3. CASE Prepare(m)
  <2> DEFINE n == [r EXCEPT !.prepared = TRUE]
  <2>1. dst' = dst \/ dst' = [dst EXCEPT ![t] = n] BY <1>0, <1>3 DEF Prepare
  <2>2. StillPrepared(n, r, t, o) BY <1>0, ReceiverTransitions
  <2> HIDE DEF n
  <2>3. QED BY <1>0, <1>1, <1>2, <2>1, <2>2, ReceiverChanges DEF StillPrepared
<1>4. CASE Export(m) BY <1>2, <1>4 DEF Export, destVars
<1>5. CASE AcceptTransfer(m)
  <2> DEFINE n == [r EXCEPT !.manifest = TRUE]
  <2>1. dst' = [dst EXCEPT ![t] = n] /\ m.op = "accept"
    BY <1>0, <1>5 DEF AcceptTransfer, Handles
  <2>2. t \in files BY <1>0, <2>1 DEF MessageOK, Late
  <2>3. StillPrepared(n, r, t, o)
    BY <1>0, <2>2, ReceiverTransitions
  <2> HIDE DEF n
  <2>4. QED BY <1>0, <1>1, <2>1, <2>3, ReceiverChanges DEF StillPrepared
<1>6. CASE Upload(m)
  <2> DEFINE b == IF m.off = r.bytes THEN r.bytes + 1 ELSE r.bytes
  <2> DEFINE n == [r EXCEPT !.bytes = b]
  <2>1. dst' = dst \/ (~r.intent /\ dst' = [dst EXCEPT ![t] = n])
    BY <1>0, <1>6 DEF Upload, MayUpload
  <2>2. b \in 0..Chunks
    <3>1. m.off < Chunks BY <1>0, <1>6 DEF Upload, Handles, MessageOK
    <3>2. r.bytes \in 0..Chunks BY <1>0 DEF Receiver
    <3>3. QED BY <1>0, <3>1, <3>2
  <2> HIDE DEF b
  <2>3. ~r.intent => StillPrepared(n, r, t, o)
    BY <1>0, <2>2, ReceiverTransitions
  <2> HIDE DEF n
  <2>4. QED BY <1>0, <1>1, <1>2, <2>1, <2>3, ReceiverChanges DEF StillPrepared
<1>7. CASE Status(m) BY <1>2, <1>7 DEF Status, destVars
<1>8. CASE Activate(m)
  <2> DEFINE n == [r EXCEPT !.intent = TRUE, !.pc = "start", !.run = m.run]
  <2>1. dst' = dst \/ (r.manifest /\ r.bytes = Chunks /\ dst' = [dst EXCEPT ![t] = n])
    BY <1>0, <1>8 DEF Activate
  <2>2. (r.manifest /\ r.bytes = Chunks) => StillPrepared(n, r, t, o)
    BY <1>0, ReceiverTransitions
  <2> HIDE DEF n
  <2>3. QED BY <1>0, <1>1, <1>2, <2>1, <2>2, ReceiverChanges DEF StillPrepared
<1>9. QED BY <1>3, <1>4, <1>5, <1>6, <1>7, <1>8 DEF Handle

LEMMA StartKeepsDestinations ==
  ASSUME MoveAssumption, SourceOK, ReceiversOK, OwnersOK, NEW t \in Transfers, DestSteps(t)
  PROVE  ReceiversOK' /\ OwnersOK'
<1> DEFINE r == dst[t]
           d == Dest[t]
           o == own[d]
<1>0. /\ ReceiverOK(r, t, o) /\ OwnerOK(o, d) /\ d \in Dests
      /\ dst \in [Transfers -> Receiver] /\ own \in [Dests -> OwnerRecord]
      /\ NoTransfer \notin Transfers
  BY DEF ReceiversOK, OwnersOK, MoveAssumption
<1>1. UNCHANGED <<src, files>>
  BY DEF DestSteps, StartAdmit, Launch, SettleStart, SettleTimesOut, sourceVars
<1>2. ASSUME dst' = [dst EXCEPT ![t].pc = "none"], own' = own
      PROVE  ReceiversOK' /\ OwnersOK'
  <2> DEFINE n == [r EXCEPT !.pc = "none"]
  <2>1. dst' = [dst EXCEPT ![t] = n] BY <1>0, <1>2
  <2>2. StillPrepared(n, r, t, o) BY <1>0, ReceiverTransitions
  <2> HIDE DEF n
  <2>3. QED BY <1>0, <1>1, <1>2, <2>1, <2>2, ReceiverChanges DEF StillPrepared
<1>3. CASE StartAdmit(t)
  <2>1. CASE dst' = Activated(t) /\ own' = own
    <3> DEFINE n == [r EXCEPT !.pc = "none", !.activated = TRUE]
    <3>1. dst' = [dst EXCEPT ![t] = n] BY <1>0, <2>1 DEF Activated
    <3>2. StillPrepared(n, r, t, o) BY <1>0, ReceiverTransitions
    <3> HIDE DEF n
    <3>3. QED BY <1>0, <1>1, <2>1, <3>1, <3>2, ReceiverChanges DEF StillPrepared
  <2>2. CASE /\ ~r.admitted /\ o.init = NoTransfer
             /\ dst' = [dst EXCEPT ![t].admitted = TRUE, ![t].pc = "launch"]
             /\ own' = [own EXCEPT ![d].init = t, ![d].inc = 1]
    <3> DEFINE n == [r EXCEPT !.admitted = TRUE, !.pc = "launch"]
               q == [o EXCEPT !.init = t, !.inc = 1]
    <3>1. dst' = [dst EXCEPT ![t] = n] /\ own' = [own EXCEPT ![d] = q]
      BY <1>0, <2>2
    <3>2. OwnerOK(q, d) /\ q.init = t /\ q.imported = o.imported
      <4>1. OwnerOK(q, d) BY <1>0, <2>2, OwnerBegins
      <4>2. QED BY <1>0, <4>1 DEF OwnerOK, OwnerRecord
    <3>3. r.pc = "start" BY <1>3 DEF StartAdmit
    <3>4. Started(n, t, q)
      BY <1>0, <2>2, <3>2, <3>3, StartTransitions
    <3> HIDE DEF n, q
    <3>5. QED BY <1>0, <1>1, <2>2, <3>1, <3>2, <3>4, DestinationChanges DEF Started, SameOwner
  <2>3. QED BY <1>2, <1>3, <2>1, <2>2 DEF StartAdmit, Known, ActivateFails
<1>4. CASE Launch(t)
  <2> DEFINE n == [r EXCEPT !.pc = "settle", !.launches = r.launches + 1]
             q == [o EXCEPT !.rt = "starting"]
  <2>1. dst' = [dst EXCEPT ![t] = n] /\ own' = [own EXCEPT ![d] = q] /\ r.pc = "launch"
    BY <1>0, <1>4 DEF Launch
  <2>2. o.init = t BY <1>0, <2>1 DEF ReceiverOK
  <2>3. SameOwner(q, o, d)
    BY <1>0, <2>2, OwnerTransitions
  <2>4. Started(n, t, q)
    <3>1. q.init = o.init /\ q.imported = o.imported BY <2>3 DEF SameOwner
    <3> HIDE DEF q
    <3>2. QED BY <1>0, <2>1, <3>1, StartTransitions
  <2> HIDE DEF n, q
  <2>5. QED BY <1>0, <1>1, <2>1, <2>3, <2>4, DestinationChanges DEF Started, SameOwner
<1>5. CASE SettleStart(t)
  <2> DEFINE n == [[r EXCEPT !.pc = "none", !.activated = TRUE] EXCEPT !.receipt = TRUE]
  <2>1. dst' = [dst EXCEPT ![t] = n] /\ own' = own /\ r.pc = "settle" /\ o.rt = "live"
    BY <1>0, <1>5 DEF SettleStart, Activated
  <2>2. r.admitted /\ o.imported = t
    BY <1>0, <2>1 DEF ReceiverOK, OwnerOK
  <2>3. StillPrepared(n, r, t, o)
    BY <1>0, <2>2, ReceiverTransitions
  <2> HIDE DEF n
  <2>4. QED BY <1>0, <1>1, <2>1, <2>3, ReceiverChanges DEF StillPrepared
<1>6. CASE SettleTimesOut(t) BY <1>2, <1>6 DEF SettleTimesOut, ActivateFails
<1>7. QED BY <1>3, <1>4, <1>5, <1>6 DEF DestSteps

LEMMA CrashKeepsDestinations ==
  ASSUME MoveAssumption, SourceOK, ReceiversOK, OwnersOK, NEW d \in Dests, DestVesselCrash(d)
  PROVE  ReceiversOK' /\ OwnersOK'
<1>1. /\ UNCHANGED <<src, files, own>> /\ dst' = [t \in Transfers |-> dst'[t]]
      /\ \A t \in Transfers : dst'[t] \in {dst[t], [dst[t] EXCEPT !.pc = "none"]}
  BY DEF DestVesselCrash, sourceVars
<1>2. ASSUME NEW t \in Transfers
      PROVE  /\ ReceiverOK(dst'[t], t, own[Dest[t]])
             /\ dst'[t].admitted = dst[t].admitted
  <2> DEFINE n == [dst[t] EXCEPT !.pc = "none"]
  <2>1. ReceiverOK(dst[t], t, own[Dest[t]]) BY DEF ReceiversOK
  <2>2. StillPrepared(n, dst[t], t, own[Dest[t]]) BY <2>1, ReceiverTransitions
  <2>3. dst'[t] \in {dst[t], n} BY <1>1
  <2> HIDE DEF n
  <2>4. QED BY <2>1, <2>2, <2>3 DEF StillPrepared
<1>3. dst' \in [Transfers -> Receiver] BY <1>1, <1>2 DEF ReceiverOK
<1>4. ASSUME NEW t \in Transfers PROVE ReceiverOK(dst[t], t, own[Dest[t]])'
  BY <1>1, <1>2 DEF ReceiverOK
<1>5. ReceiversOK' BY <1>3, <1>4 DEF ReceiversOK
<1>6. ASSUME NEW e \in Dests
      PROVE  OwnerOK(own[e], e)' /\ (own'[e].init # NoTransfer => dst'[own'[e].init].admitted)
  <2>1. OwnerOK(own[e], e) /\ own[e] \in OwnerRecord BY DEF OwnersOK
  <2>2. own[e].init # NoTransfer => own[e].init \in Transfers /\ dst[own[e].init].admitted
    BY <2>1 DEF OwnersOK, OwnerRecord
  <2>3. QED BY <1>1, <1>2, <2>1, <2>2 DEF OwnerOK
<1>7. OwnersOK' BY <1>1, <1>6 DEF OwnersOK
<1>8. QED BY <1>5, <1>7

LEMMA OwnerKeepsDestinations ==
  ASSUME MoveAssumption, SourceOK, ReceiversOK, OwnersOK, NEW d \in Dests, OwnStep(d)
  PROVE  ReceiversOK' /\ OwnersOK'
<1> DEFINE o == own[d]
<1>0. /\ OwnerOK(o, d) /\ own \in [Dests -> OwnerRecord] /\ o \in OwnerRecord
      /\ o.imported # NoTransfer => o.init = o.imported
      /\ NoTransfer \notin Transfers
  BY DEF OwnersOK, OwnerOK, MoveAssumption
<1>1. CASE Import(d)
  <2>1. o.rt = "starting" /\ UNCHANGED <<src, files, dst>> /\ o.init # NoTransfer
    BY <1>0, <1>1 DEF Import, sourceVars, OwnerOK
  <2>2. CASE o.imported = o.init
    <3> DEFINE n == [o EXCEPT !.rt = "live"]
    <3>1. own' = [own EXCEPT ![d] = n] BY <1>0, <1>1, <2>2 DEF Import
    <3>2. SameOwner(n, o, d)
      BY <1>0, <2>1, <2>2, OwnerTransitions
    <3> HIDE DEF n
    <3>3. QED BY <2>1, <3>1, <3>2, OwnerChanges DEF SameOwner
  <2>3. CASE o.imported # o.init
    <3> DEFINE h == sealed[o.init]
               n == [o EXCEPT !.rt = "live", !.imported = o.init, !.hist = h, !.bound = h]
    <3>1. own' = [own EXCEPT ![d] = n]
      BY <1>0, <1>1, <2>3 DEF Import
    <3>2. o.imported = NoTransfer /\ o.init \in Transfers BY <1>0, <2>1, <2>3 DEF OwnerOK, OwnerRecord
    <3>3. src.moved = o.init
      <4>1. dst[o.init].admitted /\ ReceiverOK(dst[o.init], o.init, own[Dest[o.init]])
        BY <2>1, <3>2 DEF OwnersOK, ReceiversOK
      <4>2. QED BY <4>1 DEF ReceiverOK, SourceOK
    <3>4. h \in SUBSET Submissions /\ src.hist \subseteq h
      BY <2>1, <3>2, <3>3 DEF SourceOK
    <3> HIDE DEF h
    <3>5. OwnerOK(n, d) /\ n.init = o.init /\ n.imported = o.init
      <4>1. OwnerOK(n, d) BY <1>0, <2>1, <3>4, OwnerBegins
      <4>2. QED BY <1>0, <4>1 DEF OwnerRecord
    <3> HIDE DEF n
    <3>6. QED BY <2>1, <3>1, <3>2, <3>5, OwnerChanges DEF SameOwner
  <2>4. QED BY <2>2, <2>3
<1>2. CASE DestDies(d)
  <2> DEFINE n == [o EXCEPT !.rt = "dead"]
  <2>1. own' = [own EXCEPT ![d] = n] /\ UNCHANGED <<src, files, dst>>
    BY <1>0, <1>2 DEF DestDies, sourceVars
  <2>2. o.init # NoTransfer BY <1>0, <1>2 DEF DestDies, OwnerOK
  <2>3. SameOwner(n, o, d)
    BY <1>0, OwnerTransitions
  <2> HIDE DEF n
  <2>4. QED BY <2>1, <2>2, <2>3, OwnerChanges DEF SameOwner
<1>3. CASE DestResume(d)
  <2> DEFINE n == [o EXCEPT !.rt = "starting", !.inc = o.inc + 1]
  <2>1. /\ own' = [own EXCEPT ![d] = n] /\ UNCHANGED <<src, files, dst>>
        /\ o.init # NoTransfer /\ o.inc < MaxIncarnation
    BY <1>0, <1>3 DEF DestResume, sourceVars
  <2>2. SameOwner(n, o, d)
    BY <1>0, <2>1, OwnerTransitions
  <2> HIDE DEF n
  <2>3. QED BY <2>1, <2>2, OwnerChanges DEF SameOwner
<1>4. CASE DestVesselCrash(d) BY <1>4, CrashKeepsDestinations
<1>5. ASSUME NEW c \in Submissions, DestSubmit(d, c) PROVE ReceiversOK' /\ OwnersOK'
  <2> DEFINE n == [o EXCEPT !.hist = o.hist \cup {c}, !.bound = o.bound \cup {c}]
  <2>1. /\ own' = [own EXCEPT ![d] = n] /\ UNCHANGED <<src, files, dst>> /\ o.rt = "live"
    BY <1>0, <1>5 DEF DestSubmit, sourceVars
  <2>2. o.imported # NoTransfer /\ o.init # NoTransfer BY <1>0, <2>1 DEF OwnerOK
  <2>3. SameOwner(n, o, d)
    BY <1>0, <2>2, OwnerTransitions
  <2> HIDE DEF n
  <2>4. QED BY <2>1, <2>2, <2>3, OwnerChanges DEF SameOwner
<1>6. QED BY <1>1, <1>2, <1>3, <1>4, <1>5 DEF OwnStep

LEMMA DestinationsKeep ==
  ASSUME MoveAssumption, SourceOK, NetOK, ReceiversOK, OwnersOK, [MoveNext]_moveVars
  PROVE  ReceiversOK' /\ OwnersOK'
<1>1. ASSUME UNCHANGED destVars PROVE ReceiversOK' /\ OwnersOK'
  BY <1>1, SourceKeeps, DestinationsStay DEF destVars
<1>2. CASE UNCHANGED moveVars BY <1>1, <1>2 DEF moveVars, destVars
<1>3. ASSUME NEW t \in Transfers, CourierStep(t) PROVE ReceiversOK' /\ OwnersOK'
  BY <1>1, <1>3 DEF CourierStep, CourierRun, CourierGivesUp
<1>4. ASSUME NEW t \in Transfers, ExportSteps(t) PROVE ReceiversOK' /\ OwnersOK'
  BY <1>1, <1>4 DEF ExportSteps, ExportForward, ExportAnswered, ExportObserve,
     ExportTimesOut, ExportMark
<1>5. ASSUME NEW t \in Transfers, DestSteps(t) PROVE ReceiversOK' /\ OwnersOK'
  BY <1>5, StartKeepsDestinations
<1>6. ASSUME NEW m \in net, Handle(m) PROVE ReceiversOK' /\ OwnersOK'
  BY <1>6, HandleKeepsDestinations
<1>7. CASE SourceStep
  BY <1>1, <1>7 DEF SourceStep, SourceSubmit, SourceFinish, SourceSuspend, SourceDies,
     SourceResume, SourceRestart, Expire
<1>8. CASE Relinquish \/ WriteArtifact \/ WriteFails \/ SourceStops \/ SourceVesselCrash
  BY <1>1, <1>8 DEF Relinquish, WriteArtifact, WriteFails, SourceStops, SourceVesselCrash
<1>9. ASSUME NEW d \in Dests, OwnStep(d) PROVE ReceiversOK' /\ OwnersOK'
  BY <1>9, OwnerKeepsDestinations
<1>10. QED BY <1>2, <1>3, <1>4, <1>5, <1>6, <1>7, <1>8, <1>9 DEF MoveNext

-----------------------------------------------------------------------------
(* What has run.                                                           *)

\* No session forgets a command identity.
LEMMA BoundGrows ==
  ASSUME MoveAssumption, OwnersOK, [MoveNext]_moveVars, NEW d \in Dests
  PROVE  own[d].bound \subseteq own'[d].bound
<1>0. /\ own \in [Dests -> OwnerRecord] /\ own[d].imported \in {NoTransfer, own[d].init}
      /\ own[d].imported = NoTransfer => own[d].bound = {}
      /\ \A t \in Transfers : Dest[t] \in Dests
  BY DEF OwnersOK, OwnerOK, MoveAssumption
<1>1. ASSUME own' = own PROVE own[d].bound \subseteq own'[d].bound BY <1>1
<1>2. CASE UNCHANGED moveVars BY <1>1, <1>2 DEF moveVars
<1>3. ASSUME NEW t \in Transfers, CourierStep(t) \/ ExportSteps(t)
      PROVE  own[d].bound \subseteq own'[d].bound
  BY <1>1, <1>3 DEF CourierStep, CourierRun, CourierGivesUp, ExportSteps, ExportForward,
     ExportAnswered, ExportObserve, ExportTimesOut, ExportMark, destVars
<1>4. ASSUME NEW t \in Transfers, DestSteps(t) PROVE own[d].bound \subseteq own'[d].bound
  <2>1. CASE own' = own BY <1>1, <2>1
  <2>2. CASE own' = [own EXCEPT ![Dest[t]].init = t, ![Dest[t]].inc = 1]
    BY <1>0, <2>2 DEF OwnerRecord
  <2>3. CASE own' = [own EXCEPT ![Dest[t]].rt = "starting"] BY <1>0, <2>3 DEF OwnerRecord
  <2>4. QED BY <1>4, <2>1, <2>2, <2>3 DEF DestSteps, StartAdmit, Launch, SettleStart, SettleTimesOut
<1>5. ASSUME NEW m \in net, Handle(m) PROVE own[d].bound \subseteq own'[d].bound
  BY <1>1, <1>5 DEF Handle, Prepare, Export, AcceptTransfer, Upload, Status, Activate, destVars
<1>6. CASE SourceStep
  BY <1>1, <1>6 DEF SourceStep, SourceSubmit, SourceFinish, SourceSuspend, SourceDies,
     SourceResume, SourceRestart, Expire, destVars
<1>7. CASE Relinquish \/ WriteArtifact \/ WriteFails \/ SourceStops \/ SourceVesselCrash
  BY <1>1, <1>7
     DEF Relinquish, WriteArtifact, WriteFails, SourceStops, SourceVesselCrash, destVars
<1>8. ASSUME NEW e \in Dests, OwnStep(e) PROVE own[d].bound \subseteq own'[d].bound
  <2>1. CASE Import(e)
    <3>1. CASE d # e BY <1>0, <2>1, <3>1 DEF Import
    <3>2. CASE d = e /\ own[d].imported = own[d].init
      BY <1>0, <2>1, <3>2 DEF Import, OwnerRecord
    <3>3. CASE own[d].bound = {} BY <3>3
    <3>4. QED BY <1>0, <3>1, <3>2, <3>3
  <2>2. CASE DestDies(e) BY <1>0, <2>2 DEF DestDies, OwnerRecord
  <2>3. CASE DestResume(e) BY <1>0, <2>3 DEF DestResume, OwnerRecord
  <2>4. CASE DestVesselCrash(e) BY <1>1, <2>4 DEF DestVesselCrash
  <2>5. ASSUME NEW c \in Submissions, DestSubmit(e, c) PROVE own[d].bound \subseteq own'[d].bound
    BY <1>0, <2>5 DEF DestSubmit, OwnerRecord
  <2>6. QED BY <1>8, <2>1, <2>2, <2>3, <2>4, <2>5 DEF OwnStep
<1>9. QED BY <1>2, <1>3, <1>4, <1>5, <1>6, <1>7, <1>8 DEF MoveNext

\* Who admits a command knows every command that has run.
LEMMA NothingRanBefore ==
  ASSUME MoveAssumption, SourceOK, ReceiversOK, OwnersOK, RanOK, NEW c \in Submissions,
         \/ src.moved = NoTransfer /\ c \notin src.hist
         \/ \E d \in Dests : own[d].imported # NoTransfer /\ c \notin own[d].bound
  PROVE  ran[c] = 0
<1>0. ran[c] \in Nat /\ ran[c] <= 1 BY DEF RanOK
<1>1. SUFFICES ASSUME ran[c] = 1 PROVE FALSE BY <1>0
<1>2. c \in src.hist \/ \E e \in Dests : c \in own[e].bound BY <1>1 DEF RanOK
<1>3. ASSUME NEW e \in Dests, c \in own[e].bound PROVE src.moved # NoTransfer /\ Dest[src.moved] = e
  <2>1. own[e].imported # NoTransfer BY <1>3 DEF OwnersOK, OwnerOK
  <2>2. QED BY <2>1, OwnersAreMoved DEF MoveAssumption
<1>4. CASE src.moved = NoTransfer /\ c \notin src.hist BY <1>2, <1>3, <1>4
<1>5. ASSUME NEW d \in Dests, own[d].imported # NoTransfer, c \notin own[d].bound PROVE FALSE
  <2>1. Dest[src.moved] = d BY <1>5, OwnersAreMoved
  <2>2. src.hist \subseteq own[d].bound BY <1>5 DEF OwnersOK, OwnerOK
  <2>3. QED BY <1>2, <1>3, <1>5, <2>1, <2>2
<1>6. QED BY <1>4, <1>5

LEMMA RanKeeps ==
  ASSUME MoveAssumption, SourceOK, ReceiversOK, OwnersOK, RanOK, [MoveNext]_moveVars
  PROVE  RanOK'
<1>0. /\ src.hist \subseteq src'.hist
      /\ \A d \in Dests : own[d].bound \subseteq own'[d].bound
  BY SourceKeeps, BoundGrows DEF SourceGrows
<1>1. ASSUME ran' = ran PROVE RanOK' BY <1>0, <1>1 DEF RanOK
<1>2. ASSUME NEW c \in Submissions, ran' = [ran EXCEPT ![c] = @ + 1], ran[c] = 0,
             c \in src'.hist \/ \E d \in Dests : c \in own'[d].bound
      PROVE  RanOK'
  <2>1. ran \in [Submissions -> Nat] BY DEF RanOK
  <2>2. ran' \in [Submissions -> Nat] /\ ran'[c] = 1 BY <1>2, <2>1
  <2>3. ASSUME NEW b \in Submissions
        PROVE  /\ ran'[b] <= 1
               /\ ran'[b] = 1 => b \in src'.hist \/ \E d \in Dests : b \in own'[d].bound
    <3>1. CASE b = c BY <1>2, <2>2, <3>1
    <3>2. CASE b # c
      <4>1. ran'[b] = ran[b] BY <1>2, <2>1, <3>2
      <4>2. QED BY <1>0, <4>1 DEF RanOK
    <3>3. QED BY <3>1, <3>2
  <2>4. QED BY <2>2, <2>3 DEF RanOK
<1>3. CASE UNCHANGED moveVars BY <1>1, <1>3 DEF moveVars
<1>4. ASSUME NEW t \in Transfers, CourierStep(t) \/ ExportSteps(t) \/ DestSteps(t) PROVE RanOK'
  BY <1>1, <1>4 DEF CourierStep, CourierRun, CourierGivesUp, ExportSteps, ExportForward,
     ExportAnswered, ExportObserve, ExportTimesOut, ExportMark,
     DestSteps, StartAdmit, Launch, SettleStart, SettleTimesOut
<1>5. ASSUME NEW m \in net, Handle(m) PROVE RanOK'
  BY <1>1, <1>5 DEF Handle, Prepare, Export, AcceptTransfer, Upload, Status, Activate
<1>6. ASSUME NEW c \in Submissions, SourceSubmit(c) PROVE RanOK'
  <2>1. ran[c] = 0 BY <1>6, NothingRanBefore DEF SourceSubmit, Fenced
  <2>2. c \in src'.hist BY <1>6 DEF SourceSubmit, SourceOK, Source
  <2>3. QED BY <1>2, <1>6, <2>1, <2>2 DEF SourceSubmit
<1>7. CASE \/ SourceFinish \/ SourceSuspend \/ SourceDies \/ SourceResume \/ SourceRestart
           \/ Expire \/ Relinquish \/ WriteArtifact \/ WriteFails \/ SourceStops
           \/ SourceVesselCrash
  BY <1>1, <1>7 DEF SourceFinish, SourceSuspend, SourceDies, SourceResume, SourceRestart,
     Expire, Relinquish, WriteArtifact, WriteFails, SourceStops, SourceVesselCrash
<1>8. ASSUME NEW d \in Dests, OwnStep(d) PROVE RanOK'
  <2>1. ASSUME NEW c \in Submissions, DestSubmit(d, c) PROVE RanOK'
    <3>1. own[d].imported # NoTransfer BY <2>1 DEF DestSubmit, OwnersOK, OwnerOK
    <3>2. ran[c] = 0 BY <2>1, <3>1, NothingRanBefore DEF DestSubmit
    <3>3. c \in own'[d].bound BY <2>1 DEF DestSubmit, OwnersOK, OwnerRecord
    <3>4. QED BY <1>2, <2>1, <3>2, <3>3 DEF DestSubmit
  <2>2. CASE Import(d) \/ DestDies(d) \/ DestResume(d) \/ DestVesselCrash(d)
    BY <1>1, <2>2 DEF Import, DestDies, DestResume, DestVesselCrash
  <2>3. QED BY <1>8, <2>1, <2>2 DEF OwnStep
<1>9. QED BY <1>3, <1>4, <1>5, <1>6, <1>7, <1>8 DEF MoveNext, SourceStep

-----------------------------------------------------------------------------
(* The invariant.                                                          *)

LEMMA BudgetKeeps == ASSUME MoveAssumption, BudgetOK, [MoveNext]_moveVars PROVE BudgetOK'
<1>0. /\ expired \in BOOLEAN /\ giveUps \in 0..MaxGiveUps /\ faults \in 0..MaxFaults
      /\ MaxGiveUps \in Nat /\ MaxFaults \in Nat
  BY DEF BudgetOK, MoveAssumption
<1>1. expired' \in {expired, TRUE}
  BY ZenonT(30)
     DEF moveVars, MoveNext, CourierStep, CourierRun, CourierGivesUp, ExportSteps,
       ExportForward,
     ExportAnswered, ExportObserve, ExportTimesOut, ExportMark, DestSteps, StartAdmit,
     Launch, SettleStart, SettleTimesOut, Handle, Prepare, Export, AcceptTransfer, Upload, Status,
     Activate, SourceStep, SourceSubmit, SourceFinish, SourceSuspend, SourceDies,
     SourceResume, SourceRestart, Expire, Relinquish, WriteArtifact, WriteFails,
     SourceStops, SourceVesselCrash, OwnStep, Import, DestDies, DestResume,
     DestVesselCrash, DestSubmit
<1>2. giveUps' = giveUps \/ (giveUps < MaxGiveUps /\ giveUps' = giveUps + 1)
  BY ZenonT(30) DEF moveVars, budget, MoveNext, CourierStep, CourierRun, CourierGivesUp, ExportSteps,
     ExportForward, ExportAnswered, ExportObserve, ExportTimesOut, ExportMark, DestSteps,
     StartAdmit, Launch, SettleStart, SettleTimesOut, Handle, Prepare, Export, AcceptTransfer, Upload,
     Status, Activate, SourceStep, SourceSubmit, SourceFinish, SourceSuspend, SourceDies,
     SourceResume, SourceRestart, Expire, Relinquish, WriteArtifact, WriteFails,
     SourceStops, SourceVesselCrash, OwnStep, Import, DestDies, DestResume,
     DestVesselCrash, DestSubmit
<1>3. faults' = faults \/ (faults < MaxFaults /\ faults' = faults + 1)
  <2>1. ASSUME NEW t \in Transfers, ExportTimesOut(t)
        PROVE  faults' = faults \/ (faults < MaxFaults /\ faults' = faults + 1)
    BY <2>1 DEF ExportTimesOut
  <2>2. QED
    BY ZenonT(30), <2>1
       DEF moveVars, budget, MoveNext, CourierStep, CourierRun, CourierGivesUp, ExportSteps,
       ExportForward, ExportAnswered, ExportObserve, ExportMark, DestSteps,
       StartAdmit, Launch, SettleStart, SettleTimesOut, Handle, Prepare, Export,
       AcceptTransfer, Upload,
       Status, Activate, SourceStep, SourceSubmit, SourceFinish, SourceSuspend, SourceDies,
       SourceResume, SourceRestart, Expire, Relinquish, WriteArtifact, WriteFails,
       SourceStops, SourceVesselCrash, OwnStep, Import, DestDies, DestResume,
       DestVesselCrash, DestSubmit
<1>4. giveUps' \in 0..MaxGiveUps BY <1>0, <1>2
<1>5. faults' \in 0..MaxFaults BY <1>0, <1>3
<1>6. QED BY <1>0, <1>1, <1>4, <1>5 DEF BudgetOK

LEMMA MoveBegins == ASSUME MoveAssumption, MoveInit PROVE MoveIInv
<1>0. /\ Chunks \in Nat /\ MaxIncarnation \in Nat \ {0} /\ MaxGiveUps \in Nat
      /\ MaxFaults \in Nat /\ NoTransfer \notin Transfers
      /\ IsFiniteSet(Submissions)
  BY DEF MoveAssumption
<1>1. Cardinality(Submissions) \in Nat BY <1>0, FS_CardinalityType
<1>2. /\ 1 \in 1..MaxIncarnation /\ 0 \in 0..MaxIncarnation /\ 0 \in 0..MaxGiveUps
      /\ 0 \in 0..MaxFaults /\ 0 \in 0..Cardinality(Submissions) /\ 0 \in 0..Chunks
  BY <1>0, <1>1
<1>3. SourceOK
  <2>1. src \in Source /\ src.moved = NoTransfer /\ relay = NoRelay /\ files = {}
    BY <1>2 DEF MoveInit, Source
  <2>2. sealed \in [Transfers -> SUBSET Submissions] BY DEF MoveInit
  <2>3. QED BY <2>1, <2>2 DEF SourceOK, NoRelay
<1>4. ExportsOK
  <2> DEFINE e == [pc |-> "none", run |-> 0, recorded |-> FALSE, manifest |-> FALSE]
  <2>1. e \in Exporting /\ e.pc = "none" /\ ~e.manifest BY <1>2 DEF Exporting
  <2>2. exp = [t \in Transfers |-> e] BY DEF MoveInit
  <2> HIDE DEF e
  <2>3. QED BY <2>1, <2>2 DEF ExportsOK, ExportOK
<1>5. CouriersOK
  <2> DEFINE k == [pc |-> "new", run |-> 0, inc |-> 0, rev |-> 0, preparation |-> FALSE,
                   manifest |-> FALSE, pending |-> FALSE, off |-> 0]
  <2>1. k \in Courier /\ k.run <= giveUps /\ k.pc = "new" /\ ~k.manifest
    BY <1>2 DEF Courier, MoveInit
  <2>2. cour = [t \in Transfers |-> k] BY DEF MoveInit
  <2> HIDE DEF k
  <2>3. QED BY <2>1, <2>2 DEF CouriersOK, CourierOK, Late
<1>6. NetOK BY DEF MoveInit, NetOK
<1>7. ReceiversOK
  <2> DEFINE r == [pc |-> "none", run |-> 0, prepared |-> FALSE, manifest |-> FALSE,
                   bytes |-> 0, intent |-> FALSE, admitted |-> FALSE, launches |-> 0,
                   receipt |-> FALSE, activated |-> FALSE]
  <2>1. /\ r \in Receiver /\ r.pc = "none" /\ ~r.manifest /\ ~r.intent /\ ~r.admitted
        /\ r.launches = 0 /\ ~r.receipt
    BY <1>2 DEF Receiver
  <2>2. dst = [t \in Transfers |-> r] BY DEF MoveInit
  <2> HIDE DEF r
  <2>3. QED BY <2>1, <2>2 DEF ReceiversOK, ReceiverOK
<1>8. OwnersOK
  <2> DEFINE o == [init |-> NoTransfer, inc |-> 0, rt |-> "none", imported |-> NoTransfer,
                   hist |-> {}, bound |-> {}]
  <2>1. /\ o \in OwnerRecord /\ o.init = NoTransfer /\ o.rt = "none" /\ o.imported = NoTransfer
        /\ o.bound = {}
    BY <1>2 DEF OwnerRecord
  <2>2. own = [d \in Dests |-> o] BY DEF MoveInit
  <2> HIDE DEF o
  <2>3. QED BY <2>1, <2>2 DEF OwnersOK, OwnerOK
<1>9. RanOK BY DEF MoveInit, RanOK
<1>10. BudgetOK BY <1>2 DEF MoveInit, BudgetOK
<1>11. QED BY <1>3, <1>4, <1>5, <1>6, <1>7, <1>8, <1>9, <1>10 DEF MoveIInv

\* Every step of the move keeps every part of the invariant.
LEMMA MoveKeeps == ASSUME MoveAssumption, MoveIInv, [MoveNext]_moveVars PROVE MoveIInv'
<1>1. SourceOK' BY SourceKeeps DEF MoveIInv
<1>2. ExportsOK' BY ExportsKeep DEF MoveIInv
<1>3. CouriersOK' /\ NetOK' BY CouriersKeep DEF MoveIInv
<1>4. ReceiversOK' /\ OwnersOK' BY DestinationsKeep DEF MoveIInv
<1>5. RanOK' BY RanKeeps DEF MoveIInv
<1>6. BudgetOK' BY BudgetKeeps DEF MoveIInv
<1>7. QED BY <1>1, <1>2, <1>3, <1>4, <1>5, <1>6 DEF MoveIInv

(* Artifacts, manifests, requests, start records and sessions presuppose one *)
(* another in the order the move creates them (courier.rs, transfer.rs).     *)
THEOREM MoveInvariant == MoveAssumption => (MoveSpec => []MoveIInv)
<1> SUFFICES ASSUME MoveAssumption PROVE MoveSpec => []MoveIInv OBVIOUS
<1>1. MoveInit => MoveIInv BY MoveBegins
<1>2. MoveIInv /\ [MoveNext]_moveVars => MoveIInv' BY MoveKeeps
<1>3. QED BY <1>1, <1>2, PTL DEF MoveSpec

-----------------------------------------------------------------------------
(* What the invariant says of the move.                                    *)

LEMMA MoveTypes == ASSUME MoveAssumption, MoveIInv PROVE MoveTypeOK
<1>1. /\ src \in Source /\ relay \in [t : Transfers \cup {NoTransfer}, committed : BOOLEAN]
      /\ sealed \in [Transfers -> SUBSET Submissions] /\ files \subseteq Transfers
  BY DEF MoveIInv, SourceOK
<1>2. exp \in [Transfers -> Exporting] BY DEF MoveIInv, ExportsOK
<1>3. cour \in [Transfers -> Courier] BY DEF MoveIInv, CouriersOK
<1>4. net \subseteq Message BY DEF MoveIInv, NetOK, MessageOK
<1>5. dst \in [Transfers -> Receiver] BY DEF MoveIInv, ReceiversOK
<1>6. own \in [Dests -> OwnerRecord] BY DEF MoveIInv, OwnersOK
<1>7. ran \in [Submissions -> Nat] BY DEF MoveIInv, RanOK
<1>8. expired \in BOOLEAN /\ giveUps \in 0..MaxGiveUps /\ faults \in 0..MaxFaults
  BY DEF MoveIInv, BudgetOK
<1>9. QED
  BY <1>1, <1>2, <1>3, <1>4, <1>5, <1>6, <1>7, <1>8
     DEF MoveTypeOK, Source, Exporting, Courier, Receiver, OwnerRecord

\* All who imported did so at the destination of the one moved transfer.
LEMMA MoveHasOneOwner == ASSUME MoveAssumption, MoveIInv PROVE SingleOwner
<1>1. SourceOK /\ ReceiversOK /\ OwnersOK BY DEF MoveIInv
<1>2. ASSUME NEW d \in Owners
      PROVE  d \in Dests /\ own[d].imported = src.moved /\ d = Dest[src.moved]
  BY <1>1, OwnersAreMoved DEF Owners
<1>3. Cardinality(Owners) <= 1
  <2> DEFINE D == {Dest[src.moved]}
  <2>1. Owners \subseteq D BY <1>2
  <2>2. IsFiniteSet(D) /\ Cardinality(D) = 1 BY FS_Singleton
  <2> HIDE DEF D
  <2>3. Cardinality(Owners) <= Cardinality(D) BY <2>1, <2>2, FS_Subset
  <2>4. QED BY <2>2, <2>3
<1>4. QED BY <1>2, <1>3 DEF SingleOwner

LEMMA MoveIsSafe == ASSUME MoveAssumption, MoveIInv PROVE OwnerMoveSafety
<1>1. MoveTypeOK BY MoveTypes
<1>2. SingleOwner BY MoveHasOneOwner
<1>3. HistoryMoves BY DEF MoveIInv, OwnersOK, OwnerOK, Owners, HistoryMoves
<1>4. ExecutedOnce BY DEF MoveIInv, RanOK, ExecutedOnce
<1>5. StartedOnce BY DEF MoveIInv, ReceiversOK, ReceiverOK, StartedOnce
<1>6. ReceiptIsProof BY DEF MoveIInv, ReceiversOK, ReceiverOK, ReceiptIsProof
<1>7. ManifestIsFinal
  BY DEF MoveIInv, SourceOK, ExportsOK, ExportOK, CouriersOK, CourierOK, ManifestIsFinal
<1>8. QED BY <1>1, <1>2, <1>3, <1>4, <1>5, <1>6, <1>7 DEF OwnerMoveSafety

(* One owner at every instant of a move: whatever couriers race, whatever is *)
(* lost, repeated or restarted, at most the destination of the transfer the  *)
(* source's journal committed holds the session, with the source's whole     *)
(* history; no command runs twice, no start is launched twice, a receipt and *)
(* a manifest are proofs (transfer.rs, courier.rs, bootstrap.rs).            *)
THEOREM SessionMovesOnce == MoveAssumption => (MoveSpec => []OwnerMoveSafety)
<1> SUFFICES ASSUME MoveAssumption PROVE MoveSpec => []OwnerMoveSafety OBVIOUS
<1>1. MoveSpec => []MoveIInv BY MoveInvariant
<1>2. MoveIInv => OwnerMoveSafety BY MoveIsSafe
<1>3. QED BY <1>1, <1>2, PTL
=============================================================================
