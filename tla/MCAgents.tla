------------------------------ MODULE MCAgents ------------------------------
(***************************************************************************)
(* The work a session does on its own: goal continuation, the budget of a  *)
(* goal and its children, the completion gate, the delegated agents and    *)
(* the browser slots, side by side. Each behaviour runs one of them and    *)
(* leaves the others at rest.                                              *)
(***************************************************************************)
EXTENDS Integers, Parts

CONSTANTS a1, a2, Root, Nil, s1, s2, s3

VARIABLES
  goal, rev, srev, goalTurn, run, input, decision, cleanup, owner, driver, task,
  goalLock, wake, issued, used, consent, contested, acts, goalCrashes,  \* GoalTurns
  budgetTurn, live, local, row, meter, call, budgetLock, child,  \* GoalBudget
  owned, state, gateDisk, gateMem, written, pending, guard, snap, seen, gatePc,
  reminded, steers, inputOpen, cancel, stopping, sealed, result, gateTurns, gateFaults,  \* CompletionGate
  parent, agentMem, wt, agentDisk, dwt, archive, cancelled, permit, waitingFor, op,
  inbox, outcome, res, agentPc, agentTurns, agentLock, open, up, late, creating,
  agentFaults, dropped, agentCrashes,  \* Subagents
  slot, rt, mine, gen, rows, workerLock, slotsMarker, tree, sg, clean, stopped, rec,
  fails  \* BrowserCapacity

\* One goal, two acts of its owner, one crash, a browser that may refuse a run.
\* Two delegated agents and one todo at the gate. Two sessions for one slot, two
\* browsers each. Two children and the root that spend from one goal.
Work == INSTANCE WorkProofs WITH
  Budgets <- {2}, RunLimit <- 2, StallLimit <- 2, Costs <- {2}, MaxRequests <- 1,
  MaxGoals <- 1, BrowserBusy <- TRUE, MaxActs <- 2, MaxCrashes <- 1,
  Agents <- {"a1", "a2"}, Todos <- {"t1"}, MaxTurns <- 3, MaxSteers <- 1, MaxFaults <- 1,
  Sessions <- {s1, s2}, Slots <- 1, MaxGen <- 2, MaxFails <- 2, Retain <- FALSE,
  Children <- {"c1", "c2"}, Limit <- 4, RequestCosts <- {2}, MaxLocal <- 2,
  disk <- gateDisk, mem <- gateMem, pc <- gatePc, turns <- gateTurns,
  faults <- gateFaults, marker <- slotsMarker, turn <- goalTurn, lock <- goalLock,
  crashes <- goalCrashes

\* A third session that wants the slot while it is reclaimed. One child, and a
\* root with more calls of its own. (Nothing runs of its goal and its gate.)
Wide == INSTANCE WorkProofs WITH
  Budgets <- {1}, RunLimit <- 1, StallLimit <- 1, Costs <- {1}, MaxRequests <- 1,
  MaxGoals <- 1, BrowserBusy <- FALSE, MaxActs <- 0, MaxCrashes <- 0,
  Agents <- {"a1"}, Todos <- {}, MaxTurns <- 1, MaxSteers <- 0, MaxFaults <- 0,
  Sessions <- {s1, s2, s3}, Slots <- 1, MaxGen <- 1, MaxFails <- 1, Retain <- FALSE,
  Children <- {"c1"}, Limit <- 6, RequestCosts <- {2}, MaxLocal <- 3,
  disk <- gateDisk, mem <- gateMem, pc <- gatePc, turns <- gateTurns,
  faults <- gateFaults, marker <- slotsMarker, turn <- goalTurn, lock <- goalLock,
  crashes <- goalCrashes

\* Two agents, one slot, a process that crashes and reopens the store.
Crash == INSTANCE Subagents WITH
  Agents <- {a1, a2}, Root <- Root, Nil <- Nil, Slots <- 1, InboxMax <- 1,
  TreeChoices <- {TRUE, FALSE}, MaxTurns <- 1, MaxFaults <- 0, MaxDropped <- 0,
  MaxCrashes <- 1, mem <- agentMem, disk <- agentDisk, pc <- agentPc,
  turns <- agentTurns, lock <- agentLock, faults <- agentFaults, crashes <- agentCrashes

\* A write that fails.
Storage == INSTANCE Subagents WITH
  Agents <- {a1, a2}, Root <- Root, Nil <- Nil, Slots <- 1, InboxMax <- 1,
  TreeChoices <- {FALSE}, MaxTurns <- 1, MaxFaults <- 1, MaxDropped <- 0,
  MaxCrashes <- 0, mem <- agentMem, disk <- agentDisk, pc <- agentPc,
  turns <- agentTurns, lock <- agentLock, faults <- agentFaults, crashes <- agentCrashes

\* A caller dropped while its write is in flight.
Dropped == INSTANCE Subagents WITH
  Agents <- {a1}, Root <- Root, Nil <- Nil, Slots <- 1, InboxMax <- 1,
  TreeChoices <- {TRUE, FALSE}, MaxTurns <- 2, MaxFaults <- 1, MaxDropped <- 1,
  MaxCrashes <- 1, mem <- agentMem, disk <- agentDisk, pc <- agentPc,
  turns <- agentTurns, lock <- agentLock, faults <- agentFaults, crashes <- agentCrashes

goalVars ==
  <<goal, rev, srev, goalTurn, run, input, decision, cleanup, owner, driver, task,
    goalLock, wake, issued, used, consent, contested, acts, goalCrashes>>
budgetVars ==
  <<budgetTurn, live, local, row, meter, call, budgetLock, child>>
gateVars ==
  <<owned, state, gateDisk, gateMem, written, pending, guard, snap, seen, gatePc,
    reminded, steers, inputOpen, cancel, stopping, sealed, result, gateTurns, gateFaults>>
agentVars ==
  <<parent, agentMem, wt, agentDisk, dwt, archive, cancelled, permit, waitingFor, op,
    inbox, outcome, res, agentPc, agentTurns, agentLock, open, up, late, creating,
    agentFaults, dropped, agentCrashes>>
slotsVars ==
  <<slot, rt, mine, gen, rows, workerLock, slotsMarker, tree, sg, clean, stopped, rec,
    fails>>
sessionVars == <<component, goalVars, budgetVars, gateVars, agentVars, slotsVars>>

ASSUME SessionBounds ==
  /\ Work!LimitsAssumption /\ Work!GateAssumption
  /\ Work!CapacityAssumption /\ Wide!CapacityAssumption
  /\ Work!BudgetAssumption /\ Wide!BudgetAssumption
  /\ Crash!SlotsAssumption
  /\ Storage!SlotsAssumption
  /\ Dropped!SlotsAssumption

GoalAtRest ==
  /\ goal = Rest /\ rev = Rest /\ srev = Rest /\ goalTurn = Rest /\ run = Rest
  /\ input = Rest /\ decision = Rest /\ cleanup = Rest /\ owner = Rest
  /\ driver = Rest /\ task = Rest /\ goalLock = Rest /\ wake = Rest /\ issued = Rest
  /\ used = Rest /\ consent = Rest /\ contested = Rest /\ acts = Rest
  /\ goalCrashes = Rest
BudgetAtRest ==
  /\ budgetTurn = Rest /\ live = Rest /\ local = Rest /\ row = Rest /\ meter = Rest
  /\ call = Rest /\ budgetLock = Rest /\ child = Rest
GateAtRest ==
  /\ owned = Rest /\ state = Rest /\ gateDisk = Rest /\ gateMem = Rest
  /\ written = Rest /\ pending = Rest /\ guard = Rest /\ snap = Rest /\ seen = Rest
  /\ gatePc = Rest /\ reminded = Rest /\ steers = Rest /\ inputOpen = Rest
  /\ cancel = Rest /\ stopping = Rest /\ sealed = Rest /\ result = Rest
  /\ gateTurns = Rest /\ gateFaults = Rest
AgentAtRest ==
  /\ parent = Rest /\ agentMem = Rest /\ wt = Rest /\ agentDisk = Rest /\ dwt = Rest
  /\ archive = Rest /\ cancelled = Rest /\ permit = Rest /\ waitingFor = Rest
  /\ op = Rest /\ inbox = Rest /\ outcome = Rest /\ res = Rest /\ agentPc = Rest
  /\ agentTurns = Rest /\ agentLock = Rest /\ open = Rest /\ up = Rest /\ late = Rest
  /\ creating = Rest /\ agentFaults = Rest /\ dropped = Rest /\ agentCrashes = Rest
SlotsAtRest ==
  /\ slot = Rest /\ rt = Rest /\ mine = Rest /\ gen = Rest /\ rows = Rest
  /\ workerLock = Rest /\ slotsMarker = Rest /\ tree = Rest /\ sg = Rest
  /\ clean = Rest /\ stopped = Rest /\ rec = Rest /\ fails = Rest

SessionInit ==
  /\ component \in {"goal", "family", "child", "gate", "crash", "storage", "dropped",
                    "slots", "reclaim"}
  /\ CASE component = "goal" -> Work!GoalInit
       [] OTHER -> GoalAtRest
  /\ CASE component = "family" -> Work!BudgetInit
       [] component = "child" -> Wide!BudgetInit
       [] OTHER -> BudgetAtRest
  /\ CASE component = "gate" -> Work!GateInit
       [] OTHER -> GateAtRest
  /\ CASE component = "crash" -> Crash!Init
       [] component = "storage" -> Storage!Init
       [] component = "dropped" -> Dropped!Init
       [] OTHER -> AgentAtRest
  /\ CASE component = "slots" -> Work!SlotsInit
       [] component = "reclaim" -> Wide!SlotsInit
       [] OTHER -> SlotsAtRest

\* Every other part keeps its state.
SessionNext ==
  \/ /\ component = "goal" /\ Work!GoalNext
     /\ UNCHANGED <<component, budgetVars, gateVars, agentVars, slotsVars>>
  \/ /\ component = "family" /\ Work!BudgetNext
     /\ UNCHANGED <<component, goalVars, gateVars, agentVars, slotsVars>>
  \/ /\ component = "child" /\ Wide!BudgetNext
     /\ UNCHANGED <<component, goalVars, gateVars, agentVars, slotsVars>>
  \/ /\ component = "gate" /\ Work!GateNext
     /\ UNCHANGED <<component, goalVars, budgetVars, agentVars, slotsVars>>
  \/ /\ component = "crash" /\ Crash!Next
     /\ UNCHANGED <<component, goalVars, budgetVars, gateVars, slotsVars>>
  \/ /\ component = "storage" /\ Storage!Next
     /\ UNCHANGED <<component, goalVars, budgetVars, gateVars, slotsVars>>
  \/ /\ component = "dropped" /\ Dropped!Next
     /\ UNCHANGED <<component, goalVars, budgetVars, gateVars, slotsVars>>
  \/ /\ component = "slots" /\ Work!SlotsNext
     /\ UNCHANGED <<component, goalVars, budgetVars, gateVars, agentVars>>
  \/ /\ component = "reclaim" /\ Wide!SlotsNext
     /\ UNCHANGED <<component, goalVars, budgetVars, gateVars, agentVars>>

SessionSpec == SessionInit /\ [][SessionNext]_sessionVars

-----------------------------------------------------------------------------

\* A goal is charged what the provider charged for it, never twice, whatever
\* crashes between a report and its settlement (goals.rs, settlement.rs).
GoalTurnsSafety ==
  component = "goal" => Work!GoalSafety

\* The root and its children together stay within the goal, a closed
\* allocation never runs, rows and meter balance and tell the truth after an
\* import, and a goal is ready only when no child can spend (allocations.rs,
\* metering).
GoalBudgetSafety ==
  /\ component = "family" => Work!BudgetSafety
  /\ component = "child" => Wide!BudgetSafety

\* A run is completed only when every owned obligation is settled and read,
\* and the caller is told what the ledger says (agent.rs, completion.rs).
CompletionGateSafety ==
  component = "gate" => Work!GateSafety

\* An agent that executes holds a slot, waits never form a cycle, the tree of
\* records stays whole, waiters find their targets and the store opens again
\* (subagent/runtime.rs, subagent/persistence.rs).
SubagentsSafety ==
  /\ component = "crash" => Crash!Safety
  /\ component = "storage" => Storage!Safety
  /\ component = "dropped" => Dropped!Safety

\* A browser that may be alive has a slot, a held slot belongs to the session
\* that runs in it, a session has one browser, and evidence of cleanup names
\* a quiet process (host_browser_capacity.rs).
BrowserCapacitySafety ==
  /\ component = "slots" => Work!SlotsSafety
  /\ component = "reclaim" => Wide!SlotsSafety

\* No step starts, repeats or closes work that the consent of the owner, the
\* budget or the reservation does not cover, and no seal commits over records
\* that changed since the lease observed them (scheduling.rs, settlement.rs,
\* completion.rs).
AgentSteps ==
  [][/\ component = "goal" => Work!GoalSteps
     /\ component = "gate" => Work!SealedAsObserved]_sessionVars
=============================================================================
