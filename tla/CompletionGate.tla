--------------------------- MODULE CompletionGate ---------------------------
(***************************************************************************)
(* How a root run is accepted (voyage/src/completion, agent/gate.rs and    *)
(* the end of the agent loop).                                             *)
(*                                                                         *)
(* A run owns obligations: the todo items and agents registered in its     *)
(* durable ledger before they are published.  When the model ends its      *)
(* answer the runtime takes the workspace coordinator's lock, reads the    *)
(* durable record of every obligation and decides: everything succeeded,   *)
(* one reminder to the model, or the remaining agents are stopped and the  *)
(* run ends incomplete.  The decision is sealed in the ledger while the    *)
(* lock still keeps the other writers out.  A cancelled run stops its      *)
(* agents and seals the ledger as interrupted.                             *)
(***************************************************************************)
EXTENDS Naturals, FiniteSets

CONSTANTS
    Agents,      \* agents a run may delegate to
    Todos,       \* todo items
    MaxTurns,    \* tool calls of the model and of the agents
    MaxSteers,   \* user messages steered into the run
    MaxFaults    \* failed writes

\* An agent is not a todo item: two stores, each with its own ids.
GateAssumption ==
    /\ MaxTurns \in Nat /\ MaxSteers \in Nat /\ MaxFaults \in Nat
    /\ Agents \cap Todos = {}

Items == Agents \cup Todos

VARIABLES
    owned,     \* obligations of the run's ledger
    state,     \* "open" or the sealed outcome
    disk,      \* durable record: "none", "live", "ok" or "bad"
    mem,       \* the agent runtime's own status of an agent
    written,   \* agents whose terminal write was tried
    pending,   \* registered, not yet created
    guard,     \* holder of the coordinator: "free", "root" or "seal"
    snap,      \* what the readiness lease observed: record of each obligation
    seen,      \* obligations the lease observed
    pc,        \* where the root run stands
    reminded,  \* the one automatic reminder was given
    steers,    \* steered messages queued
    inputOpen, \* the run still accepts steering
    cancel,    \* the run's cancellation token
    stopping,  \* agents told to stop
    sealed,    \* the run knows that it sealed the ledger
    result,    \* what the caller of the run was told
    turns, faults

ledger == <<owned, state>>
agents == <<mem, written, stopping>>
root == <<snap, seen, pc, reminded, sealed, result>>
gateVars == <<ledger, disk, agents, pending, guard, root, steers, inputOpen, cancel,
          turns, faults>>

RootStages == {"work", "gate", "judge", "stop", "relock", "close", "hook", "save",
               "seal", "accept", "estop", "elease", "ended"}

GateInit ==
    /\ owned = {} /\ state = "open"
    /\ disk = [i \in Items |-> "none"]
    /\ mem = [a \in Agents |-> "none"]
    /\ written = {} /\ pending = {} /\ stopping = {}
    /\ guard = "free"
    /\ snap = [i \in Items |-> "none"] /\ seen = {}
    /\ pc = "work" /\ reminded = FALSE
    /\ steers = 0 /\ inputOpen = TRUE /\ cancel = FALSE
    /\ sealed = FALSE /\ result = "none"
    /\ turns = 0 /\ faults = 0

Fails == faults < MaxFaults /\ faults' = faults + 1

\* Mutation: a missing record does not count against the run.
Clean_ignoresmissing(own, rec) == \A i \in own : rec[i] \in {"ok", "none"}

\* Readiness::ready with nothing incomplete: each obligation has a record,
\* no agent is active, and every recorded outcome is a success.
Clean(own, rec) == \A i \in own : rec[i] = "ok"

-----------------------------------------------------------------------------
(* Obligations: registered under the coordinator, then published. *)

\* The model's tool calls and those of a live agent reach the stores.
Busy == pc = "work" \/ \E a \in Agents : mem[a] = "live"

\* RunHandle::register, before the todo is published or the child started; a
\* sealed ledger refuses.
Register(i) ==
    /\ Busy /\ guard = "free" /\ turns < MaxTurns
    /\ state = "open"
    /\ i \notin owned
    /\ owned' = owned \cup {i}
    /\ pending' = pending \cup {i}
    /\ turns' = turns + 1
    /\ UNCHANGED <<state, disk, agents, guard, root, steers, inputOpen, cancel, faults>>

\* The record is created and, for an agent, its worker starts.
Create(i) ==
    /\ i \in pending /\ guard = "free"
    /\ pending' = pending \ {i}
    /\ disk' = [disk EXCEPT ![i] = IF i \in Agents THEN "live" ELSE "bad"]
    /\ mem' = IF i \in Agents THEN [mem EXCEPT ![i] = "live"] ELSE mem
    /\ UNCHANGED <<ledger, written, stopping, guard, root, steers, inputOpen,
                   cancel, turns, faults>>

\* "Failure after this commit leaves an unresolved missing obligation, never
\* untracked work."
CreateFails(i) ==
    /\ i \in pending /\ Fails
    /\ pending' = pending \ {i}
    /\ UNCHANGED <<ledger, disk, agents, guard, root, steers, inputOpen, cancel, turns>>

\* set_status and remove of the todo store; also another run's, later.
TodoEdit(t) ==
    /\ guard = "free" /\ turns < MaxTurns /\ disk[t] # "none"
    /\ \E s \in {"ok", "bad", "none"} \ {disk[t]} : disk' = [disk EXCEPT ![t] = s]
    /\ turns' = turns + 1
    /\ UNCHANGED <<ledger, agents, pending, guard, root, steers, inputOpen, cancel, faults>>

\* An agent ends.  Its in-memory status precedes its durable one.
AgentEnds(a) ==
    /\ mem[a] = "live"
    /\ \E s \in IF a \in stopping THEN {"bad"} ELSE {"ok", "bad"} :
         mem' = [mem EXCEPT ![a] = s]
    /\ UNCHANGED <<ledger, disk, written, stopping, pending, guard, root, steers,
                   inputOpen, cancel, turns, faults>>

\* The terminal write, under the coordinator; a failed one is only logged.
AgentWrites(a) ==
    /\ mem[a] \in {"ok", "bad"} /\ a \notin written
    /\ written' = written \cup {a}
    /\ \/ guard = "free" /\ disk' = [disk EXCEPT ![a] = mem[a]] /\ UNCHANGED faults
       \/ UNCHANGED disk /\ Fails
    /\ UNCHANGED <<ledger, mem, stopping, pending, guard, root, steers, inputOpen,
                   cancel, turns>>

\* Coordinator::lock gives up after five seconds and the write is lost with a
\* log line.  Only the extension hook, which may run two minutes, holds the
\* lock that long.
WriteTimesOut(a) ==
    /\ mem[a] \in {"ok", "bad"} /\ a \notin written
    /\ guard = "root" /\ pc = "hook"
    /\ written' = written \cup {a}
    /\ UNCHANGED <<ledger, disk, mem, stopping, pending, guard, root, steers,
                   inputOpen, cancel, turns, faults>>

-----------------------------------------------------------------------------
(* The end of the agent loop. *)

\* A user message is queued for the running model.
Steer ==
    /\ inputOpen /\ steers < MaxSteers /\ pc # "ended"
    /\ steers' = steers + 1
    /\ UNCHANGED <<ledger, disk, agents, pending, guard, root, inputOpen, cancel,
                   turns, faults>>

\* The operator cancels the run.
CancelRun ==
    /\ ~cancel /\ pc # "ended"
    /\ cancel' = TRUE
    /\ UNCHANGED <<ledger, disk, agents, pending, guard, root, steers, inputOpen,
                   turns, faults>>

\* The model ends its answer; steering that is queued already goes first.
Propose ==
    /\ pc = "work" /\ ~cancel
    /\ IF steers > 0
       THEN steers' = 0 /\ UNCHANGED pc
       ELSE pc' = "gate" /\ UNCHANGED steers
    /\ UNCHANGED <<ledger, disk, agents, pending, guard, snap, seen, reminded,
                   sealed, result, inputOpen, cancel, turns, faults>>

\* Mutation: the lease is read without taking the coordinator.
TakeLease_unlocked(next) ==
    /\ guard = "free"
    /\ snap' = disk /\ seen' = owned
    /\ pc' = next
    /\ UNCHANGED <<ledger, disk, agents, pending, guard, reminded, sealed, result,
                   steers, inputOpen, cancel, turns, faults>>

\* readiness_lease: take the coordinator, read ledger and records.
TakeLease(next) ==
    /\ guard = "free"
    /\ guard' = "root"
    /\ snap' = disk /\ seen' = owned
    /\ pc' = next
    /\ UNCHANGED <<ledger, disk, agents, pending, reminded, sealed, result, steers,
                   inputOpen, cancel, turns, faults>>

\* The first look after an answer, and the one after the agents were stopped.
Lease  == pc = "gate" /\ ~cancel /\ TakeLease("judge")
Relock == pc = "relock" /\ ~cancel /\ TakeLease("close")

\* Release, if the root run itself holds it.
Released == IF guard = "root" THEN "free" ELSE guard

\* Mutation: the model is reminded after every unclean answer.
Judge_nag ==
    /\ pc = "judge"
    /\ IF Clean(seen, snap)
       THEN pc' = "close" /\ UNCHANGED guard
       ELSE guard' = Released /\ pc' = "work"
    /\ UNCHANGED <<ledger, disk, agents, pending, snap, seen, reminded, sealed, result,
                   steers, inputOpen, cancel, turns, faults>>

\* Clean work goes on under this lease; the first unclean look drops it and
\* reminds the model; a later one drops it and stops the agents.
Judge ==
    /\ pc = "judge"
    /\ IF Clean(seen, snap)
       THEN pc' = "close" /\ UNCHANGED <<guard, reminded>>
       ELSE /\ guard' = Released
            /\ pc' = IF reminded THEN "stop" ELSE "work"
            /\ reminded' = TRUE
    /\ UNCHANGED <<ledger, disk, agents, pending, snap, seen, sealed, result, steers,
                   inputOpen, cancel, turns, faults>>

\* shutdown_owned: cancel every owned agent that still runs; look again until
\* each one is durably stopped, or until the time is up.
LiveOwned == {a \in owned \cap Agents : mem[a] = "live"}

StopOwned(from, next) ==
    /\ pc = from
    /\ \/ /\ LiveOwned \ stopping # {}
          /\ stopping' = stopping \cup LiveOwned
          /\ UNCHANGED pc
       \/ /\ pc' = next
          /\ UNCHANGED stopping
    /\ UNCHANGED <<ledger, disk, mem, written, pending, guard, snap, seen, reminded,
                   sealed, result, steers, inputOpen, cancel, turns, faults>>

Stop == ~cancel /\ StopOwned("stop", "relock")

\* Mutation: input closes whatever is queued.
CloseInput_deaf ==
    /\ pc = "close" /\ ~cancel
    /\ inputOpen' = FALSE /\ pc' = "hook"
    /\ UNCHANGED <<ledger, disk, agents, pending, guard, snap, seen, reminded, sealed,
                   result, steers, cancel, turns, faults>>

\* drain_or_close under the lease: a queued message reopens the loop, an
\* empty queue closes input for good.
CloseInput ==
    /\ pc = "close" /\ ~cancel
    /\ IF steers > 0
       THEN /\ steers' = 0 /\ guard' = Released /\ pc' = "work"
            /\ UNCHANGED inputOpen
       ELSE /\ inputOpen' = FALSE /\ pc' = "hook"
            /\ UNCHANGED <<steers, guard>>
    /\ UNCHANGED <<ledger, disk, agents, pending, snap, seen, reminded, sealed,
                   result, cancel, turns, faults>>

\* The run_finish handlers of the extensions end.
Hook ==
    /\ pc = "hook" /\ ~cancel
    /\ pc' = "save"
    /\ UNCHANGED <<ledger, disk, agents, pending, guard, snap, seen, reminded, sealed,
                   result, steers, inputOpen, cancel, turns, faults>>

\* The canonical text is checkpointed and the decision sent to the store.
Save ==
    /\ pc = "save" /\ ~cancel
    /\ pc' = "seal"
    /\ guard' = "seal"
    /\ UNCHANGED <<ledger, disk, agents, pending, snap, seen, reminded, sealed,
                   result, steers, inputOpen, cancel, turns, faults>>

\* What the observed records make of the run.
Verdict == IF Clean(seen, snap) THEN "completed" ELSE "incomplete"

\* The blocking seal commits and gives the lock back, whether or not the run
\* still waits for it.
SealLands ==
    /\ guard = "seal"
    /\ guard' = "free"
    /\ state' = IF state = "open" THEN Verdict ELSE state
    /\ IF pc = "seal" THEN pc' = "accept" /\ sealed' = TRUE ELSE UNCHANGED <<pc, sealed>>
    /\ UNCHANGED <<owned, disk, agents, pending, snap, seen, reminded, result, steers,
                   inputOpen, cancel, turns, faults>>

\* Mutation: acceptance reports the answer without its verdict.
Accept_unjudged ==
    /\ pc = "accept" /\ ~cancel
    /\ pc' = "ended"
    /\ result' = "completed"
    /\ UNCHANGED <<ledger, disk, agents, pending, guard, snap, seen, reminded, sealed,
                   steers, inputOpen, cancel, turns, faults>>

\* checkpoint.accepted, then the answer goes to the caller.
Accept ==
    /\ pc = "accept" /\ ~cancel
    /\ pc' = "ended"
    /\ result' = Verdict
    /\ UNCHANGED <<ledger, disk, agents, pending, guard, snap, seen, reminded, sealed,
                   steers, inputOpen, cancel, turns, faults>>

\* Cancellation, a failed checkpoint, lease or seal: drop the lease unless it
\* travels with a seal, and go to the error path.
Abandon ==
    /\ pc \in {"work", "gate", "judge", "stop", "relock", "close", "hook", "save",
               "seal", "accept"}
    /\ (cancel /\ UNCHANGED faults) \/ (~cancel /\ Fails)
    /\ guard' = Released
    /\ pc' = "estop"
    /\ UNCHANGED <<ledger, disk, agents, pending, snap, seen, reminded, sealed, result,
                   steers, inputOpen, cancel, turns>>

ErrorStop == StopOwned("estop", "elease")

\* Mutation: the caller is told the ledger's word instead of an error.
ErrorSeal_worded ==
    /\ pc = "elease" /\ guard = "free"
    /\ state' = IF state = "open" THEN "interrupted" ELSE state
    /\ pc' = "ended"
    /\ result' = state'
    /\ UNCHANGED <<owned, disk, agents, pending, guard, snap, seen, reminded, sealed,
                   steers, inputOpen, cancel, turns, faults>>

\* Seal as interrupted unless a decision is known or found; give up when the
\* lease cannot be had in time.
ErrorSeal ==
    /\ pc = "elease"
    /\ \/ sealed /\ UNCHANGED <<state, faults>>
       \/ /\ ~sealed /\ guard = "free"
          /\ state' = IF state = "open" THEN "interrupted" ELSE state
          /\ UNCHANGED faults
       \/ ~sealed /\ Fails /\ UNCHANGED state
    /\ pc' = "ended"
    /\ result' = "error"
    /\ UNCHANGED <<owned, disk, agents, pending, guard, snap, seen, reminded, sealed,
                   steers, inputOpen, cancel, turns>>

RootStep ==
    \/ Propose \/ Lease \/ Judge \/ Stop \/ Relock \/ CloseInput \/ Hook \/ Save
    \/ Accept \/ Abandon \/ ErrorStop \/ ErrorSeal

GateNext ==
    \/ \E i \in Items : Register(i) \/ Create(i) \/ CreateFails(i)
    \/ \E t \in Todos : TodoEdit(t)
    \/ \E a \in Agents : AgentEnds(a) \/ AgentWrites(a) \/ WriteTimesOut(a)
    \/ Steer \/ CancelRun \/ SealLands
    \/ RootStep

GateSpec == GateInit /\ [][GateNext]_gateVars

\* The run's task is scheduled, a sent seal completes, agents end and write,
\* and a registered item is created or fails.
GateFairness ==
    /\ WF_gateVars(RootStep) /\ WF_gateVars(SealLands)
    /\ \A i \in Items : WF_gateVars(Create(i))
    /\ \A a \in Agents : WF_gateVars(AgentEnds(a)) /\ WF_gateVars(AgentWrites(a))

GateFairSpec == GateSpec /\ GateFairness

-----------------------------------------------------------------------------
(* Properties. *)

GateTypeOK ==
    /\ owned \subseteq Items /\ pending \subseteq Items /\ seen \subseteq Items
    /\ state \in {"open", "completed", "incomplete", "interrupted"}
    /\ disk \in [Items -> {"none", "live", "ok", "bad"}]
    /\ snap \in [Items -> {"none", "live", "ok", "bad"}]
    /\ mem \in [Agents -> {"none", "live", "ok", "bad"}]
    /\ written \subseteq Agents /\ stopping \subseteq Agents
    /\ guard \in {"free", "root", "seal"}
    /\ pc \in RootStages
    /\ reminded \in BOOLEAN /\ inputOpen \in BOOLEAN /\ cancel \in BOOLEAN
    /\ sealed \in BOOLEAN
    /\ steers \in 0..MaxSteers /\ turns \in 0..MaxTurns /\ faults \in 0..MaxFaults
    /\ result \in {"none", "completed", "incomplete", "error"}

\* A run sealed as completed owns no work that is unfinished, running or still
\* to be created: not when it was sealed, and not later through its own agents.
CompletedIsQuiet ==
    state = "completed" =>
        /\ pending \cap owned = {}
        /\ \A a \in owned \cap Agents : mem[a] = "ok" /\ disk[a] = "ok"

\* The decision is about the records of that moment: when the seal commits, no
\* obligation and no owned record has changed since the lease observed them
\* ([][SealedAsObserved]_vars).
SealedAsObserved ==
    state = "open" /\ state' \in {"completed", "incomplete"} =>
        owned = seen /\ \A i \in owned : disk[i] = snap[i]

\* The caller is told what the ledger says: an accepted answer has that sealed
\* outcome, and only an error leaves the two apart.
ReportMatchesLedger ==
    result \in {"completed", "incomplete"} => state = result

\* A message that was taken as steering is never left unread by an accepted
\* run: input closes only when nothing is queued.
AcceptedReadAll == result \in {"completed", "incomplete"} => steers = 0

\* The lease keeps writers out only while the decision is recorded: no agent's
\* terminal record is lost to it.
WritesSurviveGate ==
    faults = 0 => \A a \in Agents : a \in written => disk[a] = mem[a]

\* The reminder, the stopping of agents and queued steering each send the run
\* back, yet every run ends, and without a failed write its ledger is sealed:
\* unless a user steers it for ever, and a cancelled one even then.
Ended == pc = "ended" /\ (faults = 0 => state # "open")
RunEnds == (<>Ended \/ []<>(steers > 0)) /\ (cancel ~> Ended)

\* A run is reported, and sealed, as what its obligations were.
GateSafety == GateTypeOK /\ CompletedIsQuiet /\ ReportMatchesLedger /\ AcceptedReadAll
=============================================================================
