---------------------------- MODULE SystemProofs ----------------------------
(***************************************************************************)
(* Theorems about MCAgents, MCHost and MCDelivery: what is proved of a     *)
(* component for every value of its constants holds of each of its         *)
(* instances beside the others, whose steps leave it alone. The three      *)
(* specifications are separate: a theorem is about one of them.            *)
(***************************************************************************)
EXTENDS MCAgents, MCHost, MCDelivery, TLAPS

-----------------------------------------------------------------------------
(* The completion gate of a run.                                           *)

GateInv == component = "gate" => Work!GateIInv

LEMMA GateBegins == ASSUME SessionInit PROVE GateInv
<1> SUFFICES ASSUME component = "gate" PROVE Work!GateIInv BY DEF GateInv
<1>1. Work!GateInit BY DEF SessionInit
<1>2. QED BY <1>1, SessionBounds, Work!GateBegins

LEMMA GateSteps ==
  ASSUME component = "gate", [SessionNext]_sessionVars
  PROVE  [Work!GateNext]_(Work!gateVars)
BY DEF SessionNext, sessionVars, gateVars, Work!gateVars, Work!ledger, Work!agents,
       Work!root

LEMMA GateKeeps == ASSUME GateInv, [SessionNext]_sessionVars PROVE GateInv'
<1> SUFFICES ASSUME component' = "gate" PROVE Work!GateIInv' BY DEF GateInv
<1>1. component = "gate" BY DEF SessionNext, sessionVars
<1>2. [Work!GateNext]_(Work!gateVars) BY <1>1, GateSteps
<1>3. QED BY <1>1, <1>2, Work!GateKeeps DEF GateInv

(* A run is completed only when what it owns is settled and read, and its    *)
(* caller is told what the ledger says (agent.rs, completion.rs).            *)
THEOREM RunsCompleteHonestly == SessionSpec => []CompletionGateSafety
<1>1. SessionInit => GateInv BY GateBegins
<1>2. GateInv /\ [SessionNext]_sessionVars => GateInv' BY GateKeeps
<1>3. GateInv => CompletionGateSafety
  BY Work!GateIsSafe DEF GateInv, CompletionGateSafety
<1>4. QED BY <1>1, <1>2, <1>3, PTL DEF SessionSpec

-----------------------------------------------------------------------------
(* The browser slots of a host.                                            *)

SlotsInv ==
  /\ component = "slots" => Work!SlotsIInv
  /\ component = "reclaim" => Wide!SlotsIInv

LEMMA BoundsHold == Work!SlotsBounds /\ Wide!SlotsBounds
BY SessionBounds DEF Work!SlotsBounds, Wide!SlotsBounds

LEMMA SlotsBegin == ASSUME SessionInit PROVE SlotsInv
<1>1. CASE component = "slots"
  <2>1. Work!SlotsInit BY <1>1 DEF SessionInit
  <2>2. QED BY <1>1, <2>1, BoundsHold, Work!SlotsBegin DEF SlotsInv
<1>2. CASE component = "reclaim"
  <2>1. Wide!SlotsInit BY <1>2 DEF SessionInit
  <2>2. QED BY <1>2, <2>1, BoundsHold, Wide!SlotsBegin DEF SlotsInv
<1>3. QED BY <1>1, <1>2 DEF SlotsInv

LEMMA SlotsKeep == ASSUME SlotsInv, [SessionNext]_sessionVars PROVE SlotsInv'
<1>1. component' = component BY DEF SessionNext, sessionVars
<1>2. CASE component = "slots"
  <2>1. [Work!SlotsNext]_(Work!slotsVars)
    BY <1>2 DEF SessionNext, sessionVars, slotsVars, Work!slotsVars
  <2>2. QED BY <1>1, <1>2, <2>1, Work!SlotsKeep DEF SlotsInv
<1>3. CASE component = "reclaim"
  <2>1. [Wide!SlotsNext]_(Wide!slotsVars)
    BY <1>3 DEF SessionNext, sessionVars, slotsVars, Wide!slotsVars
  <2>2. QED BY <1>1, <1>3, <2>1, Wide!SlotsKeep DEF SlotsInv
<1>4. QED BY <1>1, <1>2, <1>3 DEF SlotsInv

(* A browser that may be alive has a slot, a held slot belongs to its        *)
(* session, a session has one browser and evidence of cleanup names a quiet  *)
(* process, for two sessions and while a third wants the slot                *)
(* (host_browser_capacity.rs).                                               *)
THEOREM BrowsersHaveSlots == SessionSpec => []BrowserCapacitySafety
<1>1. SessionInit => SlotsInv BY SlotsBegin
<1>2. SlotsInv /\ [SessionNext]_sessionVars => SlotsInv' BY SlotsKeep
<1>3. SlotsInv => BrowserCapacitySafety
  BY Work!SlotsAreSafe, Wide!SlotsAreSafe DEF SlotsInv, BrowserCapacitySafety
<1>4. QED BY <1>1, <1>2, <1>3, PTL DEF SessionSpec

-----------------------------------------------------------------------------
(* The budget that a turn shares with its children.                        *)

BudgetInv ==
  /\ component = "family" => Work!BudgetIInv
  /\ component = "child" => Wide!BudgetIInv

LEMMA BudgetsBegin == ASSUME SessionInit PROVE BudgetInv
<1>1. CASE component = "family"
  <2>1. Work!BudgetInit BY <1>1 DEF SessionInit
  <2>2. QED BY <1>1, <2>1, SessionBounds, Work!BudgetStarts DEF BudgetInv
<1>2. CASE component = "child"
  <2>1. Wide!BudgetInit BY <1>2 DEF SessionInit
  <2>2. QED BY <1>2, <2>1, SessionBounds, Wide!BudgetStarts DEF BudgetInv
<1>3. QED BY <1>1, <1>2 DEF BudgetInv

LEMMA BudgetsKeep == ASSUME BudgetInv, [SessionNext]_sessionVars PROVE BudgetInv'
<1>1. component' = component BY DEF SessionNext, sessionVars
<1>2. CASE component = "family"
  <2>1. [Work!BudgetNext]_(Work!budgetVars)
    BY <1>2 DEF SessionNext, sessionVars, budgetVars, Work!budgetVars
  <2>2. QED BY <1>1, <1>2, <2>1, Work!BudgetStep DEF BudgetInv
<1>3. CASE component = "child"
  <2>1. [Wide!BudgetNext]_(Wide!budgetVars)
    BY <1>3 DEF SessionNext, sessionVars, budgetVars, Wide!budgetVars
  <2>2. QED BY <1>1, <1>3, <2>1, Wide!BudgetStep DEF BudgetInv
<1>4. QED BY <1>1, <1>2, <1>3 DEF BudgetInv

(* The root and its children together stay within the goal, a closed         *)
(* allocation never runs, and rows and meter balance and tell the truth      *)
(* after an import, for two children and for one (allocations.rs,            *)
(* goal_meter.rs).                                                           *)
THEOREM BudgetsBalance == SessionSpec => []GoalBudgetSafety
<1>1. SessionInit => BudgetInv BY BudgetsBegin
<1>2. BudgetInv /\ [SessionNext]_sessionVars => BudgetInv' BY BudgetsKeep
<1>3. BudgetInv => GoalBudgetSafety
  BY Work!BudgetIsSafe, Wide!BudgetIsSafe DEF BudgetInv, GoalBudgetSafety
<1>4. QED BY <1>1, <1>2, <1>3, PTL DEF SessionSpec

-----------------------------------------------------------------------------
(* The automatic turns of a goal.                                          *)

GoalInv == component = "goal" => Work!GoalIInv

LEMMA GoalBegins == ASSUME SessionInit PROVE GoalInv
<1> SUFFICES ASSUME component = "goal" PROVE Work!GoalIInv BY DEF GoalInv
<1>1. Work!GoalInit BY DEF SessionInit
<1>2. QED BY <1>1, SessionBounds, Work!GoalBegins

LEMMA GoalSteps ==
  ASSUME component = "goal", [SessionNext]_sessionVars
  PROVE  [Work!GoalNext]_(Work!goalVars)
BY DEF SessionNext, sessionVars, goalVars, Work!goalVars

LEMMA GoalKeeps == ASSUME GoalInv, [SessionNext]_sessionVars PROVE GoalInv'
<1> SUFFICES ASSUME component' = "goal" PROVE Work!GoalIInv' BY DEF GoalInv
<1>1. component = "goal" BY DEF SessionNext, sessionVars
<1>2. [Work!GoalNext]_(Work!goalVars) BY <1>1, GoalSteps
<1>3. QED BY <1>1, <1>2, Work!GoalKeeps DEF GoalInv

(* A goal is charged what the provider charged for it, never twice, whatever *)
(* crashes between a report and its settlement (goals.rs, settlement.rs).    *)
THEOREM GoalsAreCharged == SessionSpec => []GoalTurnsSafety
<1>1. SessionInit => GoalInv BY GoalBegins
<1>2. GoalInv /\ [SessionNext]_sessionVars => GoalInv' BY GoalKeeps
<1>3. GoalInv => GoalTurnsSafety
  BY Work!GoalIsSafe DEF GoalInv, GoalTurnsSafety
<1>4. QED BY <1>1, <1>2, <1>3, PTL DEF SessionSpec

(* No step starts, repeats or closes work that the owner's consent, the      *)
(* budget or the reservation does not cover, and no seal commits over        *)
(* records that changed since the lease observed them (scheduling.rs,        *)
(* settlement.rs, completion.rs).                                            *)
THEOREM AgentsAreLawful == SessionSpec => AgentSteps
<1> DEFINE Lawful == /\ component = "goal" => Work!GoalSteps
                     /\ component = "gate" => Work!SealedAsObserved
<1>1. SessionInit => GoalInv /\ GateInv BY GoalBegins, GateBegins
<1>2. GoalInv /\ GateInv /\ [SessionNext]_sessionVars => GoalInv' /\ GateInv'
  BY GoalKeeps, GateKeeps
<1>3. ASSUME GoalInv, GateInv, [SessionNext]_sessionVars PROVE Lawful
  <2>1. component = "goal" => Work!GoalSteps
    BY <1>3, GoalSteps, Work!GoalStepsAre DEF GoalInv
  <2>2. component = "gate" => Work!SealedAsObserved
    BY <1>3, GateSteps, Work!SealIsObserved DEF GateInv
  <2>3. QED BY <2>1, <2>2
<1>4. GoalInv /\ GateInv /\ [SessionNext]_sessionVars => [Lawful]_sessionVars BY <1>3
<1>5. AgentSteps <=> [][Lawful]_sessionVars BY PTL DEF AgentSteps
<1> HIDE DEF Lawful
<1>6. QED BY <1>1, <1>2, <1>4, <1>5, PTL DEF SessionSpec

-----------------------------------------------------------------------------
(* The installations of a release.                                         *)

InstallationsInv ==
  /\ component = "service" => Service!InstallInv
  /\ component = "files" => Files!InstallInv

LEMMA InstallationsBegin == ASSUME HostInit PROVE InstallationsInv
<1>1. CASE component = "service"
  <2>1. Service!Init BY <1>1 DEF HostInit
  <2>2. Service!InstallInv BY <2>1, HostBounds, Service!InstallBegins
  <2>3. QED BY <1>1, <2>2 DEF InstallationsInv
<1>2. CASE component = "files"
  <2>1. Files!Init BY <1>2 DEF HostInit
  <2>2. Files!InstallInv BY <2>1, HostBounds, Files!InstallBegins
  <2>3. QED BY <1>2, <2>2 DEF InstallationsInv
<1>3. QED BY <1>1, <1>2 DEF InstallationsInv

LEMMA InstallationsKeep ==
  ASSUME InstallationsInv, [HostNext]_hostVars
  PROVE  InstallationsInv'
<1>1. component' = component BY DEF HostNext, hostVars
<1>2. CASE component = "service"
  <2>1. [Service!Next]_(Service!vars)
    BY <1>2 DEF HostNext, hostVars, installVars, Service!vars, Service!store,
                Service!links, Service!svc, Service!bounds
  <2>2. Service!InstallInv BY <1>2 DEF InstallationsInv
  <2>3. Service!InstallInv' BY <2>1, <2>2, HostBounds, Service!InstallKeeps
  <2>4. QED BY <1>1, <1>2, <2>3 DEF InstallationsInv
<1>3. CASE component = "files"
  <2>1. [Files!Next]_(Files!vars)
    BY <1>3 DEF HostNext, hostVars, installVars, Files!vars, Files!store, Files!links,
                Files!svc, Files!bounds
  <2>2. Files!InstallInv BY <1>3 DEF InstallationsInv
  <2>3. Files!InstallInv' BY <2>1, <2>2, HostBounds, Files!InstallKeeps
  <2>4. QED BY <1>1, <1>3, <2>3 DEF InstallationsInv
<1>4. QED BY <1>1, <1>2, <1>3 DEF InstallationsInv

(* A published release is complete, a rollback undoes the last publication,  *)
(* a restored failure restores what ran before, a success is whole and no    *)
(* file of the user is lost, in an upgrade of a running service that is      *)
(* killed and fails, and in a first installation over files of the user      *)
(* (install/transaction.rs, service/systemd.rs).                             *)
THEOREM InstallationsStayWhole == HostSpec => []InstallSafety
<1>1. HostInit => InstallationsInv BY InstallationsBegin
<1>2. InstallationsInv /\ [HostNext]_hostVars => InstallationsInv' BY InstallationsKeep
<1>3. InstallationsInv => InstallSafety
  <2>1. ASSUME InstallationsInv, component = "service" PROVE Service!Safety
    BY <2>1, HostBounds, Service!InstallIsSafe DEF InstallationsInv
  <2>2. ASSUME InstallationsInv, component = "files" PROVE Files!Safety
    BY <2>2, HostBounds, Files!InstallIsSafe DEF InstallationsInv
  <2>3. QED BY <2>1, <2>2 DEF InstallSafety
<1>4. QED BY <1>1, <1>2, <1>3, PTL DEF HostSpec

-----------------------------------------------------------------------------
(* The duplex sockets between a client and Vessel.                         *)

SocketsInv ==
  /\ component = "commands" => Socket!DuplexInv
  /\ component = "subscriptions" => Watcher!DuplexInv

LEMMA SocketsBegin == ASSUME DeliveryInit PROVE SocketsInv
<1>1. CASE component = "commands"
  <2>1. Socket!Init BY <1>1 DEF DeliveryInit
  <2>2. QED BY <1>1, <2>1, DeliveryBounds, Socket!DuplexBegins DEF SocketsInv
<1>2. CASE component = "subscriptions"
  <2>1. Watcher!Init BY <1>2 DEF DeliveryInit
  <2>2. QED BY <1>2, <2>1, DeliveryBounds, Watcher!DuplexBegins DEF SocketsInv
<1>3. QED BY <1>1, <1>2 DEF SocketsInv

LEMMA SocketsKeep == ASSUME SocketsInv, [DeliveryNext]_deliveryVars PROVE SocketsInv'
<1>1. component' = component BY DEF DeliveryNext, deliveryVars
<1>2. CASE component = "commands"
  <2>1. [Socket!Next]_(Socket!vars)
    BY <1>2 DEF DeliveryNext, deliveryVars, duplexVars, Socket!vars, Socket!wireVars,
                Socket!callVars
  <2>2. Socket!DuplexInv BY <1>2 DEF SocketsInv
  <2>3. QED
    BY <1>1, <1>2, <2>1, <2>2, DeliveryBounds, Socket!DuplexKeeps DEF SocketsInv
<1>3. CASE component = "subscriptions"
  <2>1. [Watcher!Next]_(Watcher!vars)
    BY <1>3 DEF DeliveryNext, deliveryVars, duplexVars, Watcher!vars, Watcher!wireVars,
                Watcher!callVars
  <2>2. Watcher!DuplexInv BY <1>3 DEF SocketsInv
  <2>3. QED
    BY <1>1, <1>3, <2>1, <2>2, DeliveryBounds, Watcher!DuplexKeeps DEF SocketsInv
<1>4. QED BY <1>1, <1>2, <1>3 DEF SocketsInv

(* A refused command was never sent, one sent runs at most once, private     *)
(* control stays on its socket, every loss is counted once and shown, and a  *)
(* subscription is cancelled once, for a command beside a private call and   *)
(* for a subscription, over two sockets each (duplex.rs).                    *)
THEOREM SocketsDeliverOnce == DeliverySpec => []DuplexSafety
<1>1. DeliveryInit => SocketsInv BY SocketsBegin
<1>2. SocketsInv /\ [DeliveryNext]_deliveryVars => SocketsInv' BY SocketsKeep
<1>3. SocketsInv => DuplexSafety
  <2>1. ASSUME SocketsInv, component = "commands" PROVE Socket!Safety
    BY <2>1, DeliveryBounds, Socket!DuplexIsSafe DEF SocketsInv
  <2>2. ASSUME SocketsInv, component = "subscriptions" PROVE Watcher!Safety
    BY <2>2, DeliveryBounds, Watcher!DuplexIsSafe DEF SocketsInv
  <2>3. QED BY <2>1, <2>2 DEF DuplexSafety
<1>4. QED BY <1>1, <1>2, <1>3, PTL DEF DeliverySpec
=============================================================================
