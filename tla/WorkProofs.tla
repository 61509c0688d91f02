----------------------------- MODULE WorkProofs -----------------------------
(***************************************************************************)
(* Theorems about the work a session does on its own: the completion gate  *)
(* of a run, the browser slots of the sessions of a host, the automatic    *)
(* turns of a goal and the budget that a turn shares with its children.    *)
(***************************************************************************)
EXTENDS CompletionGate, BrowserCapacity, GoalTurns, GoalBudget, FiniteSetTheorems, TLAPS

-----------------------------------------------------------------------------
(* CompletionGate. What holds in every reachable state.                    *)

\* What a record of an item can be, and the ends among them.
Records == {"none", "live", "ok", "bad"}
Ends == {"ok", "bad"}

\* An item is registered before it has a record, and what is registered but
\* not created has none.
Registered ==
  /\ pending \subseteq owned
  /\ \A i \in Items : i \notin owned \/ i \in pending => disk[i] = "none"
  /\ \A a \in Agents : a \notin owned \/ a \in pending => mem[a] = "none"

\* A terminal record of an agent is its own last word.
RecordsFollow == \A a \in Agents : disk[a] \in Ends => mem[a] = disk[a]

\* While the coordinator is held, nothing the lease observed has changed.
LeaseHolds == guard # "free" => seen = owned /\ snap = disk

\* The run holds the coordinator exactly while it decides, and its seal has it
\* until it lands, whether or not the run still waits.
HolderOK ==
  /\ guard = "root" <=> pc \in {"judge", "close", "hook", "save"}
  /\ pc = "seal" => guard = "seal"
  /\ guard = "seal" => pc \in {"seal", "estop", "elease", "ended"}

\* The ledger is open until the seal, and then says what the run will report.
DecisionOK ==
  /\ pc \in {"work", "gate", "judge", "stop", "relock", "close", "hook", "save", "seal"}
       => state = "open"
  /\ pc = "accept" => state = Verdict
  /\ pc # "ended" => result = "none"

\* From the hook on nothing can be queued.
InputClosed ==
  pc \in {"hook", "save", "seal", "accept"} \/ result \in {"completed", "incomplete"}
    => ~inputOpen /\ steers = 0

\* The inductive invariant: the two safety properties are not inductive without
\* who holds the coordinator, what its lease observed and who has a record.
GateIInv ==
  /\ GateAssumption /\ GateTypeOK /\ Registered /\ RecordsFollow /\ LeaseHolds /\ HolderOK
  /\ DecisionOK /\ InputClosed /\ CompletedIsQuiet /\ ReportMatchesLedger

-----------------------------------------------------------------------------
(* Preservation.                                                           *)

USE DEF GateAssumption, GateIInv, GateTypeOK, Registered, RecordsFollow, LeaseHolds,
  HolderOK, DecisionOK, InputClosed, CompletedIsQuiet, ReportMatchesLedger, Records, Ends,
  Items, RootStages, ledger, agents, root

(* The steps of the owned work: registration, records and todo edits.       *)
LEMMA RegisterKeeps == ASSUME GateIInv, NEW i \in Items, Register(i) PROVE GateIInv'
BY DEF Register, Verdict

LEMMA CreateKeeps == ASSUME GateIInv, NEW i \in Items, Create(i) PROVE GateIInv'
BY DEF Create, Verdict

LEMMA CreateFailsKeeps == ASSUME GateIInv, NEW i \in Items, CreateFails(i) PROVE GateIInv'
BY DEF CreateFails, Fails, Verdict

LEMMA TodoEditKeeps == ASSUME GateIInv, NEW t \in Todos, TodoEdit(t) PROVE GateIInv'
BY DEF TodoEdit, Verdict

LEMMA AgentEndsKeeps == ASSUME GateIInv, NEW a \in Agents, AgentEnds(a) PROVE GateIInv'
BY DEF AgentEnds, Verdict

LEMMA AgentWritesKeeps ==
  ASSUME GateIInv, NEW a \in Agents, AgentWrites(a) PROVE GateIInv'
BY DEF AgentWrites, Fails, Verdict

LEMMA WriteTimesOutKeeps ==
  ASSUME GateIInv, NEW a \in Agents, WriteTimesOut(a) PROVE GateIInv'
BY DEF WriteTimesOut, Verdict

(* The steps of the user and the seal that lands on its own.                *)
LEMMA SteerKeeps == ASSUME GateIInv, Steer PROVE GateIInv'
BY DEF Steer, Verdict

LEMMA CancelRunKeeps == ASSUME GateIInv, CancelRun PROVE GateIInv'
BY DEF CancelRun, Verdict

LEMMA SealLandsKeeps == ASSUME GateIInv, SealLands PROVE GateIInv'
<1>1. seen = owned /\ snap = disk BY DEF SealLands
<1>2. CASE state = "open" /\ Clean(seen, snap)
  <2>1. \A i \in owned : disk[i] = "ok" BY <1>1, <1>2 DEF Clean
  <2>2. pending = {} BY <2>1
  <2>3. \A a \in owned \cap Agents : mem[a] = "ok" BY <2>1
  <2>4. state' = "completed" /\ Verdict = "completed" /\ Verdict' = Verdict
    BY <1>2 DEF SealLands, Verdict, Clean
  <2>5. CASE pc = "seal" BY <2>1, <2>2, <2>3, <2>4, <2>5, SMTT(30) DEF SealLands
  <2>6. CASE pc # "seal" BY <2>1, <2>2, <2>3, <2>4, <2>6, SMTT(30) DEF SealLands
  <2>7. QED BY <2>5, <2>6
<1>3. CASE ~(state = "open" /\ Clean(seen, snap))
  <2>1. state' # "completed" \/ state' = state BY <1>3 DEF SealLands, Verdict
  <2>2. (pc = "seal" => state' = Verdict) /\ Verdict' = Verdict
    BY <1>3 DEF SealLands, Verdict, Clean
  <2>3. state' \in {"completed", "incomplete", "interrupted"} BY DEF SealLands, Verdict
  <2>4. CASE pc = "seal" BY <2>1, <2>2, <2>3, <2>4, SMTT(30) DEF SealLands
  <2>5. CASE pc # "seal" BY <2>1, <2>2, <2>3, <2>5, SMTT(30) DEF SealLands
  <2>6. QED BY <2>4, <2>5
<1>4. QED BY <1>2, <1>3

(* The steps of the run, in the order in which it takes them.               *)
LEMMA ProposeKeeps == ASSUME GateIInv, Propose PROVE GateIInv'
BY DEF Propose, Verdict

LEMMA LeaseKeeps == ASSUME GateIInv, Lease PROVE GateIInv'
BY DEF Lease, TakeLease, Verdict

LEMMA JudgeKeeps == ASSUME GateIInv, Judge PROVE GateIInv'
BY DEF Judge, Released, Verdict

LEMMA StopKeeps == ASSUME GateIInv, Stop PROVE GateIInv'
BY SMTT(30) DEF Stop, StopOwned, LiveOwned, Verdict

LEMMA RelockKeeps == ASSUME GateIInv, Relock PROVE GateIInv'
BY DEF Relock, TakeLease, Verdict

LEMMA CloseInputKeeps == ASSUME GateIInv, CloseInput PROVE GateIInv'
<1>1. CASE steers > 0 BY <1>1 DEF CloseInput, Released, Verdict
<1>2. CASE steers = 0 BY <1>2 DEF CloseInput, Released, Verdict
<1>3. QED BY <1>1, <1>2

LEMMA HookKeeps == ASSUME GateIInv, Hook PROVE GateIInv'
BY DEF Hook, Verdict

LEMMA SaveKeeps == ASSUME GateIInv, Save PROVE GateIInv'
BY DEF Save, Verdict

LEMMA AcceptKeeps == ASSUME GateIInv, Accept PROVE GateIInv'
BY DEF Accept, Verdict

LEMMA AbandonKeeps == ASSUME GateIInv, Abandon PROVE GateIInv'
BY DEF Abandon, Fails, Released, Verdict

LEMMA ErrorStopKeeps == ASSUME GateIInv, ErrorStop PROVE GateIInv'
BY DEF ErrorStop, StopOwned, LiveOwned, Verdict

LEMMA ErrorSealKeeps == ASSUME GateIInv, ErrorSeal PROVE GateIInv'
BY DEF ErrorSeal, Fails, Verdict

(* The start, every step, and what the invariant says of a run.             *)
LEMMA GateBegins == ASSUME GateAssumption, GateInit PROVE GateIInv
<1>1. steers \in 0 .. MaxSteers /\ turns \in 0 .. MaxTurns /\ faults \in 0 .. MaxFaults
  BY DEF GateInit
<1>2. QED BY <1>1 DEF GateInit

LEMMA GateKeeps == ASSUME GateIInv, [GateNext]_gateVars PROVE GateIInv'
<1>1. CASE UNCHANGED gateVars BY <1>1 DEF gateVars, Verdict, Clean
<1>2. CASE RootStep
  BY <1>2, ProposeKeeps, LeaseKeeps, JudgeKeeps, StopKeeps, RelockKeeps, CloseInputKeeps,
    HookKeeps, SaveKeeps, AcceptKeeps, AbandonKeeps, ErrorStopKeeps, ErrorSealKeeps
    DEF RootStep
<1>3. CASE Steer \/ CancelRun \/ SealLands
  BY <1>3, SteerKeeps, CancelRunKeeps, SealLandsKeeps
<1>4. CASE \E i \in Items : Register(i) \/ Create(i) \/ CreateFails(i)
  BY <1>4, RegisterKeeps, CreateKeeps, CreateFailsKeeps
<1>5. CASE \E t \in Todos : TodoEdit(t) BY <1>5, TodoEditKeeps
<1>6. CASE \E a \in Agents : AgentEnds(a) \/ AgentWrites(a) \/ WriteTimesOut(a)
  BY <1>6, AgentEndsKeeps, AgentWritesKeeps, WriteTimesOutKeeps
<1>7. QED BY <1>1, <1>2, <1>3, <1>4, <1>5, <1>6 DEF GateNext

LEMMA GateIsSafe == ASSUME GateIInv PROVE GateSafety
BY DEF GateSafety, AcceptedReadAll

LEMMA SealIsObserved == ASSUME GateIInv, [GateNext]_gateVars PROVE SealedAsObserved
<1>1. CASE SealLands BY <1>1 DEF SealLands, SealedAsObserved
<1>2. CASE ErrorSeal BY <1>2 DEF ErrorSeal, SealedAsObserved
<1>3. CASE UNCHANGED state BY <1>3 DEF SealedAsObserved
<1>4. SealLands \/ ErrorSeal \/ UNCHANGED state
  BY DEF GateNext, gateVars, RootStep, Register, Create, CreateFails, TodoEdit,
    AgentEnds, AgentWrites, WriteTimesOut, Steer, CancelRun, Propose, Lease, Judge, Stop,
    Relock, CloseInput, Hook, Save, Accept, Abandon, ErrorStop, TakeLease, StopOwned
<1>5. QED BY <1>1, <1>2, <1>3, <1>4

HIDE DEF GateAssumption, GateIInv, GateTypeOK, Registered, RecordsFollow, LeaseHolds,
  HolderOK, DecisionOK, InputClosed, CompletedIsQuiet, ReportMatchesLedger, Records, Ends,
  Items, RootStages, ledger, agents, root

(* A run at the gate holds the coordinator exactly while it decides, nothing*)
(* it observed changes meanwhile, its ledger says what it will report and   *)
(* its input is closed from the hook on (agent.rs, completion.rs), for any  *)
(* agents, todos, turns, steers and faults.                                 *)
THEOREM GateInvariant == GateAssumption => (GateSpec => []GateIInv)
<1> SUFFICES ASSUME GateAssumption PROVE GateSpec => []GateIInv OBVIOUS
<1>1. GateInit => GateIInv BY GateBegins
<1>2. GateIInv /\ [GateNext]_gateVars => GateIInv' BY GateKeeps
<1>3. QED BY <1>1, <1>2, PTL DEF GateSpec

(* A run ends as completed only when every owned obligation is settled and  *)
(* read, and what its caller is told is what the ledger says (completion.rs),*)
(* whatever agents end late, writes time out or locks are abandoned.        *)
THEOREM GateSafe == GateAssumption => (GateSpec => []GateSafety)
<1> SUFFICES ASSUME GateAssumption PROVE GateSpec => []GateSafety OBVIOUS
<1>1. GateIInv => GateSafety BY GateIsSafe
<1>2. GateSpec => []GateIInv BY GateInvariant
<1>3. QED BY <1>1, <1>2, PTL

(* No seal commits over records that changed since the lease observed them  *)
(* (completion.rs, seal).                                                   *)
THEOREM GateSeal == GateAssumption => (GateSpec => [][SealedAsObserved]_gateVars)
<1> SUFFICES ASSUME GateAssumption PROVE GateSpec => [][SealedAsObserved]_gateVars OBVIOUS
<1>1. GateIInv /\ [GateNext]_gateVars => [SealedAsObserved]_gateVars BY SealIsObserved
<1>2. GateSpec => []GateIInv BY GateInvariant
<1>3. QED BY <1>1, <1>2, PTL DEF GateSpec

-----------------------------------------------------------------------------
(* BrowserCapacity. What holds in every reachable state.                   *)

\* The stages of a runtime before its browser is spawned, with its slot written, and
\* with a slot at all.
Before == {"idle", "created", "held"}
Open == {"held", "started", "up", "stopping"}
Holding == {"created"} \cup Open

\* A reclaim in progress is of some session's slot.
ReclaimOK ==
  \A s \in Sessions : rec[s].stage # "none" =>
    rec[s].victim \in Sessions /\ rec[s].at \in 1 .. Slots

\* Nothing of a launch runs.
Dead(s, g) == ~Live(s, g) /\ ~GuardAlive(s, g)

\* Only the latest launch can be alive, and it is not while the runtime has
\* not spawned, was launched on evidence, or left a positive marker.
TreeOK ==
  \A s \in Sessions :
    /\ \A g \in Gens : g # gen[s] => Dead(s, g)
    /\ \A g \in Gens : tree[s][g].guard = "done" => ~Live(s, g)
    /\ clean[s] => rt[s] = "off" /\ ~sg[s] /\ Quiet(s)
    /\ rt[s] \in Before => Quiet(s)
    /\ marker[s] = "observed" => Quiet(s)

\* A launch holds its reservation row and its slot from before it is spawned
\* until it is dead.
PaidOK ==
  \A s \in Sessions :
    /\ rt[s] \in Holding => gen[s] \in Gens
    /\ rt[s] \in Open => gen[s] \in rows[s]
    /\ \A g \in Gens : Live(s, g) => g \in rows[s] /\ \E k \in 1 .. Slots : slot[k] = s

\* The slot of a runtime is its own and nobody else's.
SlotOK ==
  /\ \A s \in Sessions : mine[s] # 0 <=> rt[s] \in Holding
  /\ HeldIsOwned
  /\ \A s, t \in Sessions : s # t /\ mine[s] = mine[t] => mine[s] = 0

\* Whoever is being reclaimed is gone.
FenceOK ==
  \A r \in Sessions : rec[r].stage \in {"fenced", "removed"} =>
    LET v == rec[r].victim IN rt[v] = "off" /\ ~sg[v] /\ Quiet(v)

\* A session whose cleanup is unresolved is not launched again (Retain), and
\* the bounds are what the code requires.
SlotsBounds == CapacityAssumption /\ Retain = FALSE

\* The inductive invariant: that a live browser has a slot needs that only the
\* latest launch lives, that evidence is about it, and that a reclaimer's victim is gone.
SlotsIInv == SlotsBounds /\ SlotsTypeOK /\ ReclaimOK /\ TreeOK /\ PaidOK /\ SlotOK /\ FenceOK

\* A step that only kills, and leaves a positive marker only over a launch that is dead.
Decays(s, g) ==
  /\ UNCHANGED <<slot, rt, mine, gen, rows, sg, clean, stopped, rec>>
  /\ workerLock' \in [Sessions -> 0 .. MaxGen] /\ fails' \in 0 .. MaxFails
  /\ marker' \in [Sessions -> {"none", "incomplete", "observed"}]
  /\ tree' \in [Sessions -> [Gens -> Trees]]
  /\ \A t \in Sessions, h \in Gens : t # s \/ h # g => tree'[t][h] = tree[t][h]
  /\ Live(s, g)' => Live(s, g)
  /\ GuardAlive(s, g)' => GuardAlive(s, g)
  /\ tree'[s][g].guard = "done" => ~Live(s, g)'
  /\ \A t \in Sessions : marker'[t] = "observed" =>
       marker[t] = "observed" \/ (t = s /\ Dead(s, g)' /\ g = gen[s])

\* The reclaim of s is at stage x, with the victim and the slot it had.
StageBecomes(s, x) ==
  /\ rec' \in [Sessions -> Reclaims]
  /\ rec'[s].stage = x /\ rec'[s].victim = rec[s].victim /\ rec'[s].at = rec[s].at
  /\ \A t \in Sessions : t # s => rec'[t] = rec[t]

\* One launch becomes x, the others stay what they are.
Turns(s, g, x) ==
  /\ tree' \in [Sessions -> [Gens -> Trees]]
  /\ tree'[s][g] = x
  /\ \A t \in Sessions, h \in Gens : t # s \/ h # g => tree'[t][h] = tree[t][h]

(* What an update of one field of one launch or one reclaim makes of it.    *)
LEMMA TreeIs ==
  ASSUME tree \in [Sessions -> [Gens -> Trees]], NEW s \in Sessions, NEW g \in Gens,
         NEW x \in Trees, tree' = [tree EXCEPT ![s] = [tree[s] EXCEPT ![g] = x]]
  PROVE  Turns(s, g, x)
BY DEF Turns

LEMMA GuardIs ==
  ASSUME tree \in [Sessions -> [Gens -> Trees]], NEW s \in Sessions, NEW g \in Gens,
         NEW x \in {"none", "up", "closing", "done", "dead"},
         tree' = [tree EXCEPT ![s][g].guard = x]
  PROVE  Turns(s, g, [tree[s][g] EXCEPT !.guard = x])
<1> DEFINE r == tree[s][g]  y == [r EXCEPT !.guard = x]
<1>1. r \in Trees OBVIOUS
<1>2. y \in Trees
  <2> HIDE DEF r
  <2> QED BY <1>1 DEF Trees
<1>3. tree' = [tree EXCEPT ![s] = [tree[s] EXCEPT ![g] = y]] BY Zenon
<1> HIDE DEF y
<1>4. Turns(s, g, y) BY <1>2, <1>3 DEF Turns
<1>5. QED BY <1>4, Zenon DEF y

LEMMA WorkerIs ==
  ASSUME tree \in [Sessions -> [Gens -> Trees]], NEW s \in Sessions, NEW g \in Gens,
         NEW x \in {"none", "boot", "up", "gone"},
         tree' = [tree EXCEPT ![s][g].worker = x]
  PROVE  Turns(s, g, [tree[s][g] EXCEPT !.worker = x])
<1> DEFINE r == tree[s][g]  y == [r EXCEPT !.worker = x]
<1>1. r \in Trees OBVIOUS
<1>2. y \in Trees
  <2> HIDE DEF r
  <2> QED BY <1>1 DEF Trees
<1>3. tree' = [tree EXCEPT ![s] = [tree[s] EXCEPT ![g] = y]] BY Zenon
<1> HIDE DEF y
<1>4. Turns(s, g, y) BY <1>2, <1>3 DEF Turns
<1>5. QED BY <1>4, Zenon DEF y

LEMMA KidsAre ==
  ASSUME tree \in [Sessions -> [Gens -> Trees]], NEW s \in Sessions, NEW g \in Gens,
         NEW x \in BOOLEAN, tree' = [tree EXCEPT ![s][g].kids = x]
  PROVE  Turns(s, g, [tree[s][g] EXCEPT !.kids = x])
<1> DEFINE r == tree[s][g]  y == [r EXCEPT !.kids = x]
<1>1. r \in Trees OBVIOUS
<1>2. y \in Trees
  <2> HIDE DEF r
  <2> QED BY <1>1 DEF Trees
<1>3. tree' = [tree EXCEPT ![s] = [tree[s] EXCEPT ![g] = y]] BY Zenon
<1> HIDE DEF y
<1>4. Turns(s, g, y) BY <1>2, <1>3 DEF Turns
<1>5. QED BY <1>4, Zenon DEF y

LEMMA StageIs ==
  ASSUME rec \in [Sessions -> Reclaims], NEW s \in Sessions,
         NEW x \in {"none", "read", "fenced", "removed"},
           rec' = [rec EXCEPT ![s].stage = x]
  PROVE  StageBecomes(s, x)
<1> DEFINE r == rec[s]  y == [r EXCEPT !.stage = x]
<1>1. r \in Reclaims OBVIOUS
<1>2. y \in Reclaims /\ y.stage = x /\ y.victim = r.victim /\ y.at = r.at
  <2> HIDE DEF r
  <2> QED BY <1>1 DEF Reclaims
<1>3. rec' = [rec EXCEPT ![s] = y] BY Zenon
<1> HIDE DEF y
<1>4. QED BY <1>2, <1>3 DEF StageBecomes

(* Sessions are not the words of an empty slot; a tree that does not change *)
(* lives as it did; a slot that is held is blank or its holder's.           *)
LEMMA NoOwnerWord ==
  ASSUME SlotsBounds PROVE \A t \in Sessions : t # "free" /\ t # "blank" /\ t # "nobody"
BY DEF SlotsBounds, CapacityAssumption, Free, Blank, Nobody

LEMMA SameTree ==
  ASSUME tree' = tree
  PROVE  \A s \in Sessions :
           /\ Quiet(s)' <=> Quiet(s)
           /\ \A g \in Gens : (Live(s, g)' <=> Live(s, g)) /\ (Dead(s, g)' <=> Dead(s, g))
BY DEF Quiet, Dead, Live, GuardAlive, WorkerAlive

LEMMA QuietIs ==
  ASSUME NEW s \in Sessions, Quiet(s) PROVE \A g \in Gens : Dead(s, g) /\ ~Live(s, g)
BY DEF Quiet, Dead

LEMMA Held ==
  ASSUME SlotsIInv, NEW t \in Sessions, NEW k \in 1 .. Slots, mine[t] = k
  PROVE  \/ rt[t] = "created" /\ slot[k] = "blank"
         \/ rt[t] \in Open /\ slot[k] = t
<1>1. mine[t] # 0 /\ rt[t] \in Holding BY DEF SlotsIInv, SlotOK
<1>2. slot[k] = IF rt[t] = "created" THEN "blank" ELSE t
  BY <1>1 DEF SlotsIInv, SlotOK, HeldIsOwned, Blank
<1>3. QED BY <1>1, <1>2 DEF Holding, Open

(* The deaths of a browser's processes share one argument: nothing revives. *)
LEMMA DecayKeeps ==
  ASSUME SlotsIInv, NEW s \in Sessions, NEW g \in Gens, Decays(s, g) PROVE SlotsIInv'
<1>1. SlotsBounds /\ SlotsTypeOK /\ ReclaimOK /\ TreeOK /\ PaidOK /\ SlotOK /\ FenceOK
  BY DEF SlotsIInv
<1>2. UNCHANGED <<slot, rt, mine, gen, rows, sg, clean, stopped, rec>> BY DEF Decays
<1>3. \A t \in Sessions, h \in Gens : t # s \/ h # g =>
        /\ Live(t, h)' <=> Live(t, h)
        /\ GuardAlive(t, h)' <=> GuardAlive(t, h)
        /\ tree'[t][h] = tree[t][h]
  BY DEF Decays, Live, GuardAlive, WorkerAlive
<1>4. \A t \in Sessions, h \in Gens :
        (Live(t, h)' => Live(t, h)) /\ (GuardAlive(t, h)' => GuardAlive(t, h))
  BY <1>3 DEF Decays
<1>5. \A t \in Sessions : Quiet(t) => Quiet(t)' BY <1>4 DEF Quiet
<1>6. SlotsTypeOK' BY <1>1, <1>2 DEF Decays, SlotsTypeOK
<1>7. ReclaimOK' BY <1>1, <1>2 DEF ReclaimOK
<1>8. TreeOK'
  <2>1. \A t \in Sessions, h \in Gens : h # gen[t] => Dead(t, h)' BY <1>1, <1>4
    DEF TreeOK, Dead
  <2>2. ASSUME NEW t \in Sessions, NEW h \in Gens,
    tree'[t][h].guard = "done" PROVE ~Live(t, h)'
    <3>1. CASE t = s /\ h = g BY <2>2, <3>1 DEF Decays
    <3>2. CASE t # s \/ h # g BY <1>1, <1>3, <2>2, <3>2 DEF TreeOK
    <3>3. QED BY <3>1, <3>2
  <2>3. \A t \in Sessions : marker'[t] = "observed" => Quiet(t)'
    <3>1. Dead(s, g)' /\ g = gen[s] => Quiet(s)' BY <1>2, <2>1 DEF Quiet, Dead
    <3>2. \A t \in Sessions : marker'[t] = "observed" => marker[t] = "observed"
      \/ (t = s /\ Quiet(s)')
      BY <3>1 DEF Decays
    <3>3. QED BY <1>1, <1>5, <3>2 DEF TreeOK
  <2>4. QED BY <1>1, <1>2, <1>5, <2>1, <2>2, <2>3 DEF TreeOK
<1>9. PaidOK' BY <1>1, <1>2, <1>4 DEF PaidOK
<1>10. SlotOK' BY <1>1, <1>2 DEF SlotOK, HeldIsOwned
<1>11. FenceOK' BY <1>1, <1>2, <1>5 DEF FenceOK, ReclaimOK
<1>12. QED BY <1>1, <1>6, <1>7, <1>8, <1>9, <1>10, <1>11 DEF SlotsIInv, SlotsBounds

(* The steps of a session's runtime: start, slot, launch and cleanup.       *)
LEMMA LaunchKeeps == ASSUME SlotsIInv, NEW s \in Sessions, Launch(s) PROVE SlotsIInv'
<1>1. /\ rt[s] = "off" /\ ~sg[s] /\ ~Fenced(s) /\ (clean[s] \/ Retain)
      /\ rt' = [rt EXCEPT ![s] = "idle"] /\ sg' = [sg EXCEPT ![s] = TRUE]
      /\ clean' = [clean EXCEPT ![s] = FALSE] /\ stopped' = [stopped EXCEPT ![s] = FALSE]
      /\ rows' = [rows EXCEPT ![s] = {}]
      /\ UNCHANGED <<slot, mine, gen, workerLock, marker, tree, rec, fails>>
  BY DEF Launch
<1>2. SlotsBounds /\ SlotsTypeOK /\ ReclaimOK /\ TreeOK /\ PaidOK /\ SlotOK /\ FenceOK
  BY DEF SlotsIInv
<1>3. Quiet(s) BY <1>1, <1>2 DEF SlotsBounds, TreeOK
<1>4. SlotsTypeOK' BY <1>1, <1>2 DEF SlotsTypeOK
<1>5. ReclaimOK' BY <1>1, <1>2 DEF ReclaimOK
<1>6. TreeOK' BY <1>1, <1>2, <1>3, SameTree DEF SlotsTypeOK, TreeOK, Before
<1>7. PaidOK'
  <2>1. \A g \in Gens : ~Live(s, g) BY <1>3, QuietIs
  <2>2. \A t \in Sessions : t # s => rows'[t] = rows[t] /\ rt'[t] = rt[t] BY <1>1, <1>2
    DEF SlotsTypeOK
  <2>3. rt'[s] = "idle" BY <1>1, <1>2 DEF SlotsTypeOK
  <2>4. QED BY <1>1, <1>2, <2>1, <2>2, <2>3, SameTree DEF PaidOK, Holding, Open
<1>8. SlotOK' BY <1>1, <1>2 DEF SlotsTypeOK, SlotOK, HeldIsOwned, Holding, Open
<1>9. FenceOK' BY <1>1, <1>2, SameTree DEF SlotsTypeOK, ReclaimOK, FenceOK, Fenced
<1>10. QED BY <1>2, <1>4, <1>5, <1>6, <1>7, <1>8, <1>9 DEF SlotsIInv, SlotsBounds

LEMMA AcquireKeeps == ASSUME SlotsIInv, NEW s \in Sessions, Acquire(s) PROVE SlotsIInv'
<1>1. PICK k \in 1 .. Slots : /\ slot[k] = "free" /\ slot' = [slot EXCEPT ![k] = "blank"]
                             /\ mine' = [mine EXCEPT ![s] = k]
  BY DEF Acquire, FirstFree, Free, Blank
<1>2. /\ rt[s] = "idle" /\ gen[s] < MaxGen /\ rt' = [rt EXCEPT ![s] = "created"]
      /\ gen' = [gen EXCEPT ![s] = @ + 1] /\ marker' = [marker EXCEPT ![s] = "none"]
      /\ UNCHANGED <<rows, workerLock, tree, sg, clean, stopped, rec, fails>>
  BY DEF Acquire, Admitted
<1>3. SlotsBounds /\ SlotsTypeOK /\ ReclaimOK /\ TreeOK /\ PaidOK /\ SlotOK /\ FenceOK
  BY DEF SlotsIInv
<1>4. \A t \in Sessions : mine[t] # k
  <2>1. ASSUME NEW t \in Sessions, mine[t] = k PROVE FALSE
    <3>1. \/ rt[t] = "created" /\ slot[k] = "blank"
          \/ rt[t] \in Open /\ slot[k] = t
      BY <2>1, Held
    <3>2. QED BY <1>1, <1>3, <3>1, NoOwnerWord
  <2>2. QED BY <2>1
<1>5. SlotOK'
  <2>1. k # 0 BY <1>1
  <2>2. \A t \in Sessions : t # s => mine'[t] = mine[t] /\ mine'[t] # k BY <1>1, <1>3,
    <1>4 DEF SlotsTypeOK
  <2>3. \A t \in Sessions : mine'[t] # 0 <=> rt'[t] \in Holding
    BY <1>1, <1>2, <1>3, <2>1 DEF SlotsTypeOK, SlotOK, Holding, Open
  <2>4. HeldIsOwned' BY <1>1, <1>2, <1>3, <1>4 DEF SlotsTypeOK, SlotOK, HeldIsOwned, Blank
  <2>5. QED BY <1>1, <1>3, <2>1, <2>2, <2>3, <2>4 DEF SlotsTypeOK, SlotOK
<1>6. SlotsTypeOK'
  BY <1>1, <1>2, <1>3 DEF SlotsTypeOK, SlotsBounds, CapacityAssumption, Blank
<1>7. ReclaimOK' BY <1>2, <1>3 DEF ReclaimOK
<1>8. FenceOK' BY <1>2, <1>3, SameTree DEF SlotsTypeOK, FenceOK, ReclaimOK
<1>9. TreeOK'
  <2>1. Quiet(s) BY <1>2, <1>3 DEF TreeOK, Before
  <2>2. QED BY <1>2, <1>3, <2>1, SameTree, QuietIs DEF SlotsTypeOK, TreeOK, Before
<1>10. PaidOK'
  <2>1. gen'[s] \in Gens BY <1>2, <1>3 DEF SlotsTypeOK, Gens, SlotsBounds,
    CapacityAssumption
  <2>2. \A t \in Sessions, g \in Gens :
          Live(t, g) => g \in rows[t] /\ \E j \in 1 .. Slots : slot'[j] = t
    BY <1>1, <1>3, NoOwnerWord DEF PaidOK, SlotsTypeOK
  <2>3. QED BY <1>2, <1>3, <2>1, <2>2, SameTree DEF SlotsTypeOK, PaidOK, Holding, Open
<1>11. QED BY <1>3, <1>5, <1>6, <1>7, <1>8, <1>9, <1>10 DEF SlotsIInv, SlotsBounds

LEMMA ReserveKeeps == ASSUME SlotsIInv, NEW s \in Sessions, Reserve(s) PROVE SlotsIInv'
<1>1. /\ rt[s] = "created" /\ rt' = [rt EXCEPT ![s] = "held"]
      /\ slot' = [slot EXCEPT ![mine[s]] = s] /\ rows' = [rows EXCEPT ![s] = @ \cup {gen[s]}]
      /\ UNCHANGED <<mine, gen, workerLock, marker, tree, sg, clean, stopped, rec, fails>>
  BY DEF Reserve, Now
<1>2. SlotsBounds /\ SlotsTypeOK /\ ReclaimOK /\ TreeOK /\ PaidOK /\ SlotOK /\ FenceOK
  BY DEF SlotsIInv
<1>3. mine[s] \in 1 .. Slots /\ slot[mine[s]] = "blank"
  BY <1>1, <1>2 DEF SlotsTypeOK, SlotOK, HeldIsOwned, Holding, Open, SlotsBounds,
    CapacityAssumption, Blank
<1>4. gen[s] \in Gens BY <1>1, <1>2 DEF PaidOK, Holding
<1>5. SlotsTypeOK' BY <1>1, <1>2, <1>3, <1>4 DEF SlotsTypeOK
<1>6. ReclaimOK' BY <1>1, <1>2 DEF ReclaimOK
<1>7. TreeOK' BY <1>1, <1>2, SameTree DEF SlotsTypeOK, TreeOK, Before
<1>8. PaidOK'
  <2>1. \A t \in Sessions : rows[t] \subseteq rows'[t] BY <1>1, <1>2 DEF SlotsTypeOK
  <2>2. gen[s] \in rows'[s] BY <1>1, <1>2 DEF SlotsTypeOK
  <2>3. \A t \in Sessions, k \in 1 .. Slots : slot[k] = t => slot'[k] = t
    BY <1>1, <1>2, <1>3, NoOwnerWord DEF SlotsTypeOK
  <2>4. QED BY <1>1, <1>2, <1>4, <2>1, <2>2, <2>3, SameTree DEF SlotsTypeOK, PaidOK,
    Holding, Open
<1>9. SlotOK' BY <1>1, <1>2, <1>3 DEF SlotsTypeOK, SlotOK, HeldIsOwned, Holding, Open
<1>10. FenceOK' BY <1>1, <1>2, SameTree DEF SlotsTypeOK, ReclaimOK, FenceOK
<1>11. QED BY <1>2, <1>5, <1>6, <1>7, <1>8, <1>9, <1>10 DEF SlotsIInv, SlotsBounds

LEMMA ReserveRefusedKeeps ==
  ASSUME SlotsIInv, NEW s \in Sessions, ReserveRefused(s) PROVE SlotsIInv'
<1>1. /\ rt[s] = "created" /\ rt' = [rt EXCEPT ![s] = "idle"]
      /\ slot' = [slot EXCEPT ![mine[s]] = "free"] /\ mine' = [mine EXCEPT ![s] = 0]
      /\ UNCHANGED <<gen, rows, workerLock, marker, tree, sg, clean, stopped, rec, fails>>
  BY DEF ReserveRefused, Free
<1>2. SlotsBounds /\ SlotsTypeOK /\ ReclaimOK /\ TreeOK /\ PaidOK /\ SlotOK /\ FenceOK
  BY DEF SlotsIInv
<1>3. mine[s] \in 1 .. Slots
  BY <1>1, <1>2 DEF SlotsTypeOK, SlotOK, Holding, Open, SlotsBounds, CapacityAssumption
<1>4. Quiet(s) BY <1>1, <1>2 DEF TreeOK, Before
<1>5. \A t \in Sessions : t # s /\ mine[t] # 0 => mine[t] # mine[s]
  BY <1>2, <1>3 DEF SlotOK
<1>6. SlotOK'
  <2>1. \A t \in Sessions : t # s => mine'[t] = mine[t] /\ rt'[t] = rt[t] BY <1>1, <1>2
    DEF SlotsTypeOK
  <2>2. mine'[s] = 0 /\ rt'[s] = "idle" BY <1>1, <1>2 DEF SlotsTypeOK
  <2>3. \A t \in Sessions : t # s /\ mine[t] # 0 => slot'[mine[t]] = slot[mine[t]]
    BY <1>1, <1>2, <1>3, <1>5 DEF SlotsTypeOK
  <2>4. HeldIsOwned' BY <1>2, <2>1, <2>2, <2>3 DEF SlotOK, HeldIsOwned, Blank
  <2>5. QED BY <1>2, <2>1, <2>2, <2>4 DEF SlotOK, Holding, Open
<1>7. SlotsTypeOK'
  BY <1>1, <1>2, <1>3 DEF SlotsTypeOK, Free, SlotsBounds, CapacityAssumption, Gens
<1>8. ReclaimOK' BY <1>1, <1>2 DEF ReclaimOK
<1>9. TreeOK' BY <1>1, <1>2, <1>4, SameTree DEF SlotsTypeOK, TreeOK, Before
<1>10. PaidOK'
  <2>1. \A t \in Sessions, g \in Gens : Live(t, g) => t # s BY <1>4, QuietIs
  <2>2. slot[mine[s]] = s \/ slot[mine[s]] = "blank" BY <1>2, <1>3 DEF SlotOK,
    HeldIsOwned, Blank
  <2>3. ASSUME NEW t \in Sessions, NEW g \in Gens, Live(t, g)
        PROVE  g \in rows'[t] /\ \E j \in 1 .. Slots : slot'[j] = t
    <3>1. t # s BY <2>1, <2>3
    <3>2. PICK j \in 1 .. Slots : slot[j] = t BY <1>2, <2>3 DEF PaidOK
    <3>3. j # mine[s] BY <1>2, <2>2, <3>1, <3>2, NoOwnerWord
    <3>4. slot'[j] = t BY <1>1, <1>2, <3>2, <3>3 DEF SlotsTypeOK
    <3>5. g \in rows[t] BY <1>2, <2>3 DEF PaidOK
    <3>6. QED BY <1>1, <1>2, <3>1, <3>4, <3>5 DEF SlotsTypeOK
  <2>4. QED BY <1>1, <1>2, <2>3, SameTree DEF SlotsTypeOK, PaidOK, Holding, Open
<1>11. FenceOK' BY <1>1, <1>2, SameTree DEF SlotsTypeOK, ReclaimOK, FenceOK
<1>12. QED BY <1>2, <1>6, <1>7, <1>8, <1>9, <1>10, <1>11 DEF SlotsIInv, SlotsBounds

LEMMA SpawnKeeps == ASSUME SlotsIInv, NEW s \in Sessions, Spawn(s) PROVE SlotsIInv'
<1> DEFINE x == [guard |-> "up", worker |-> "boot", kids |-> FALSE]
<1>1. /\ rt[s] = "held" /\ rt' = [rt EXCEPT ![s] = "started"]
      /\ marker' = [marker EXCEPT ![s] = "none"]
      /\ tree' = [tree EXCEPT ![s] = [tree[s] EXCEPT ![gen[s]] = x]]
      /\ UNCHANGED <<slot, mine, gen, rows, workerLock, sg, clean, stopped, rec, fails>>
  BY DEF Spawn, Now
<1>2. SlotsBounds /\ SlotsTypeOK /\ ReclaimOK /\ TreeOK /\ PaidOK /\ SlotOK /\ FenceOK
  BY DEF SlotsIInv
<1>3. gen[s] \in Gens BY <1>1, <1>2 DEF PaidOK, Holding, Open
<1>4. x \in Trees BY DEF Trees
<1>5. Turns(s, gen[s], x) BY <1>1, <1>2, <1>3, <1>4, TreeIs DEF SlotsTypeOK
<1>6. \A t \in Sessions, g \in Gens : t # s \/ g # gen[s] =>
        (Live(t, g)' <=> Live(t, g)) /\ (Dead(t, g)' <=> Dead(t, g)) /\ tree'[t][g] = tree[t][g]
  BY <1>5 DEF Turns, Dead, Live, GuardAlive, WorkerAlive
<1>7. \A t \in Sessions : t # s => (Quiet(t)' <=> Quiet(t)) BY <1>6 DEF Quiet, Dead
<1>8. tree'[s][gen[s]].guard = "up" BY <1>5 DEF Turns
<1>9. SlotsTypeOK' BY <1>1, <1>2, <1>5 DEF SlotsTypeOK, Turns
<1>10. ReclaimOK' BY <1>1, <1>2 DEF ReclaimOK
<1>11. TreeOK' BY <1>1, <1>2, <1>6, <1>7, <1>8 DEF SlotsTypeOK, TreeOK, Before
<1>12. PaidOK'
  <2>1. gen[s] \in rows[s] /\ slot[mine[s]] = s /\ mine[s] \in 1 .. Slots
    BY <1>1, <1>2 DEF SlotsTypeOK, PaidOK, SlotOK, HeldIsOwned, Holding, Open
  <2>2. QED BY <1>1, <1>2, <1>6, <2>1 DEF SlotsTypeOK, PaidOK, Holding, Open
<1>13. SlotOK' BY <1>1, <1>2 DEF SlotsTypeOK, SlotOK, HeldIsOwned, Holding, Open
<1>14. FenceOK' BY <1>1, <1>2, <1>7 DEF SlotsTypeOK, ReclaimOK, FenceOK
<1>15. QED BY <1>2, <1>9, <1>10, <1>11, <1>12, <1>13, <1>14 DEF SlotsIInv, SlotsBounds

LEMMA SpawnRefusedKeeps ==
  ASSUME SlotsIInv, NEW s \in Sessions, SpawnRefused(s) PROVE SlotsIInv'
<1>1. /\ rt[s] = "held" /\ rt' = [rt EXCEPT ![s] = "idle"]
      /\ slot' = [slot EXCEPT ![mine[s]] = "free"] /\ mine' = [mine EXCEPT ![s] = 0]
      /\ rows' = [rows EXCEPT ![s] = @ \ {gen[s]}]
      /\ UNCHANGED <<gen, workerLock, marker, tree, sg, clean, stopped, rec, fails>>
  BY DEF SpawnRefused, Free, Now
<1>2. SlotsBounds /\ SlotsTypeOK /\ ReclaimOK /\ TreeOK /\ PaidOK /\ SlotOK /\ FenceOK
  BY DEF SlotsIInv
<1>3. mine[s] \in 1 .. Slots
  BY <1>1, <1>2 DEF SlotsTypeOK, SlotOK, Holding, Open, SlotsBounds, CapacityAssumption
<1>4. Quiet(s) BY <1>1, <1>2 DEF TreeOK, Before
<1>5. \A t \in Sessions : t # s /\ mine[t] # 0 => mine[t] # mine[s]
  BY <1>2, <1>3 DEF SlotOK
<1>6. SlotOK'
  <2>1. \A t \in Sessions : t # s => mine'[t] = mine[t] /\ rt'[t] = rt[t] BY <1>1, <1>2
    DEF SlotsTypeOK
  <2>2. mine'[s] = 0 /\ rt'[s] = "idle" BY <1>1, <1>2 DEF SlotsTypeOK
  <2>3. \A t \in Sessions : t # s /\ mine[t] # 0 => slot'[mine[t]] = slot[mine[t]]
    BY <1>1, <1>2, <1>3, <1>5 DEF SlotsTypeOK
  <2>4. HeldIsOwned' BY <1>2, <2>1, <2>2, <2>3 DEF SlotOK, HeldIsOwned, Blank
  <2>5. QED BY <1>2, <2>1, <2>2, <2>4 DEF SlotOK, Holding, Open
<1>7. SlotsTypeOK'
  BY <1>1, <1>2, <1>3 DEF SlotsTypeOK, Free, SlotsBounds, CapacityAssumption, Gens
<1>8. ReclaimOK' BY <1>1, <1>2 DEF ReclaimOK
<1>9. TreeOK' BY <1>1, <1>2, <1>4, SameTree DEF SlotsTypeOK, TreeOK, Before
<1>10. PaidOK'
  <2>1. \A t \in Sessions, g \in Gens : Live(t, g) => t # s BY <1>4, QuietIs
  <2>2. slot[mine[s]] = s \/ slot[mine[s]] = "blank" BY <1>2, <1>3 DEF SlotOK,
    HeldIsOwned, Blank
  <2>3. ASSUME NEW t \in Sessions, NEW g \in Gens, Live(t, g)
        PROVE  g \in rows'[t] /\ \E j \in 1 .. Slots : slot'[j] = t
    <3>1. t # s BY <2>1, <2>3
    <3>2. PICK j \in 1 .. Slots : slot[j] = t BY <1>2, <2>3 DEF PaidOK
    <3>3. j # mine[s] BY <1>2, <2>2, <3>1, <3>2, NoOwnerWord
    <3>4. slot'[j] = t BY <1>1, <1>2, <3>2, <3>3 DEF SlotsTypeOK
    <3>5. g \in rows[t] BY <1>2, <2>3 DEF PaidOK
    <3>6. QED BY <1>1, <1>2, <3>1, <3>4, <3>5 DEF SlotsTypeOK
  <2>4. QED BY <1>1, <1>2, <2>3, SameTree DEF SlotsTypeOK, PaidOK, Holding, Open
<1>11. FenceOK' BY <1>1, <1>2, SameTree DEF SlotsTypeOK, ReclaimOK, FenceOK
<1>12. QED BY <1>2, <1>6, <1>7, <1>8, <1>9, <1>10, <1>11 DEF SlotsIInv, SlotsBounds

LEMMA WorkerInitKeeps ==
  ASSUME SlotsIInv, NEW s \in Sessions, WorkerInit(s) PROVE SlotsIInv'
<1>1. /\ rt[s] = "started" /\ tree[s][gen[s]].worker = "boot"
      /\ tree' = [tree EXCEPT ![s][gen[s]].worker = "up"] /\ workerLock' = [workerLock EXCEPT ![s] = gen[s]]
      /\ UNCHANGED <<slot, rt, mine, gen, rows, marker, sg, clean, stopped, rec, fails>>
  BY DEF WorkerInit, Now
<1>2. SlotsBounds /\ SlotsTypeOK /\ ReclaimOK /\ TreeOK /\ PaidOK /\ SlotOK /\ FenceOK
  BY DEF SlotsIInv
<1>3. gen[s] \in Gens BY <1>1, <1>2 DEF PaidOK, Holding, Open
<1>4. Turns(s, gen[s], [tree[s][gen[s]] EXCEPT !.worker = "up"])
  BY <1>1, <1>2, <1>3, WorkerIs DEF SlotsTypeOK
<1>5. tree[s][gen[s]] \in Trees BY <1>2, <1>3 DEF SlotsTypeOK
<1>6. tree'[s][gen[s]].guard = tree[s][gen[s]].guard /\ Live(s, gen[s])
  BY <1>1, <1>4, <1>5 DEF Turns, Trees, Live, WorkerAlive
<1>7. \A t \in Sessions, g \in Gens : t # s \/ g # gen[s] =>
        (Live(t, g)' <=> Live(t, g)) /\ (Dead(t, g)' <=> Dead(t, g)) /\ tree'[t][g] = tree[t][g]
  BY <1>4 DEF Turns, Dead, Live, GuardAlive, WorkerAlive
<1>8. ~Quiet(s) BY <1>3, <1>6, QuietIs
<1>9. \A t \in Sessions : t # s => (Quiet(t)' <=> Quiet(t)) BY <1>7 DEF Quiet, Dead
<1>10. SlotsTypeOK' BY <1>1, <1>2, <1>4 DEF SlotsTypeOK, Turns
<1>11. ReclaimOK' BY <1>1, <1>2 DEF ReclaimOK
<1>12. TreeOK' BY <1>1, <1>2, <1>3, <1>6, <1>7, <1>8, <1>9 DEF SlotsTypeOK, TreeOK, Before
<1>13. PaidOK' BY <1>1, <1>2, <1>3, <1>6, <1>7 DEF SlotsTypeOK, PaidOK, Holding, Open
<1>14. SlotOK' BY <1>1, <1>2 DEF SlotsTypeOK, SlotOK, HeldIsOwned, Holding, Open
<1>15. FenceOK' BY <1>1, <1>2, <1>8, <1>9 DEF SlotsTypeOK, ReclaimOK, FenceOK
<1>16. QED BY <1>2, <1>10, <1>11, <1>12, <1>13, <1>14, <1>15 DEF SlotsIInv, SlotsBounds

LEMMA WorkerOpenKeeps ==
  ASSUME SlotsIInv, NEW s \in Sessions, WorkerOpen(s) PROVE SlotsIInv'
<1>1. /\ rt[s] = "started" /\ tree[s][gen[s]].worker = "up"
      /\ tree' = [tree EXCEPT ![s][gen[s]].kids = TRUE] /\ rt' = [rt EXCEPT ![s] = "up"]
      /\ UNCHANGED <<slot, mine, gen, rows, workerLock, marker, sg, clean, stopped, rec,
        fails>>
  BY DEF WorkerOpen, Now
<1>2. SlotsBounds /\ SlotsTypeOK /\ ReclaimOK /\ TreeOK /\ PaidOK /\ SlotOK /\ FenceOK
  BY DEF SlotsIInv
<1>3. gen[s] \in Gens BY <1>1, <1>2 DEF PaidOK, Holding, Open
<1>4. Turns(s, gen[s], [tree[s][gen[s]] EXCEPT !.kids = TRUE])
  BY <1>1, <1>2, <1>3, KidsAre DEF SlotsTypeOK
<1>5. tree[s][gen[s]] \in Trees BY <1>2, <1>3 DEF SlotsTypeOK
<1>6. tree'[s][gen[s]].guard = tree[s][gen[s]].guard /\ Live(s, gen[s])
  BY <1>1, <1>4, <1>5 DEF Turns, Trees, Live, WorkerAlive
<1>7. \A t \in Sessions, g \in Gens : t # s \/ g # gen[s] =>
        (Live(t, g)' <=> Live(t, g)) /\ (Dead(t, g)' <=> Dead(t, g)) /\ tree'[t][g] = tree[t][g]
  BY <1>4 DEF Turns, Dead, Live, GuardAlive, WorkerAlive
<1>8. ~Quiet(s) BY <1>3, <1>6, QuietIs
<1>9. \A t \in Sessions : t # s => (Quiet(t)' <=> Quiet(t)) BY <1>7 DEF Quiet, Dead
<1>10. SlotsTypeOK' BY <1>1, <1>2, <1>4 DEF SlotsTypeOK, Turns
<1>11. ReclaimOK' BY <1>1, <1>2 DEF ReclaimOK
<1>12. TreeOK' BY <1>1, <1>2, <1>3, <1>6, <1>7, <1>8, <1>9 DEF SlotsTypeOK, TreeOK, Before
<1>13. PaidOK' BY <1>1, <1>2, <1>3, <1>6, <1>7 DEF SlotsTypeOK, PaidOK, Holding, Open
<1>14. SlotOK' BY <1>1, <1>2 DEF SlotsTypeOK, SlotOK, HeldIsOwned, Holding, Open
<1>15. FenceOK' BY <1>1, <1>2, <1>8, <1>9 DEF SlotsTypeOK, ReclaimOK, FenceOK
<1>16. QED BY <1>2, <1>10, <1>11, <1>12, <1>13, <1>14, <1>15 DEF SlotsIInv, SlotsBounds

LEMMA CloseBeginKeeps ==
  ASSUME SlotsIInv, NEW s \in Sessions, CloseBegin(s) PROVE SlotsIInv'
<1>1. tree' = tree BY DEF CloseBegin
<1>2. SlotsTypeOK'
  BY DEF SlotsIInv, SlotsTypeOK, CloseBegin, SlotsBounds, CapacityAssumption
<1>3. ReclaimOK' BY DEF SlotsIInv, SlotsTypeOK, ReclaimOK, Reclaims, CloseBegin
<1>4. TreeOK'
  BY <1>1, SameTree, QuietIs DEF SlotsIInv, SlotsTypeOK, TreeOK, Before, CloseBegin
<1>5. PaidOK'
  BY <1>1, SameTree, QuietIs, NoOwnerWord DEF SlotsIInv, SlotsTypeOK, TreeOK, PaidOK,
    Holding, Open, Before, Gens, CloseBegin
<1>6. SlotOK'
  BY NoOwnerWord DEF SlotsIInv, SlotsTypeOK, SlotOK, HeldIsOwned, Holding, Open,
    CloseBegin
<1>7. FenceOK'
  BY <1>1, SameTree DEF SlotsIInv, SlotsTypeOK, ReclaimOK, FenceOK, CloseBegin
<1>8. QED BY <1>2, <1>3, <1>4, <1>5, <1>6, <1>7 DEF SlotsIInv, SlotsBounds

LEMMA CloseDoneKeeps ==
  ASSUME SlotsIInv, NEW s \in Sessions, CloseDone(s) PROVE SlotsIInv'
<1>1. /\ rt[s] = "stopping" /\ rt' = [rt EXCEPT ![s] = "idle"] /\ marker[s] = "observed"
      /\ slot' = [slot EXCEPT ![mine[s]] = "free"] /\ mine' = [mine EXCEPT ![s] = 0]
      /\ rows' = [rows EXCEPT ![s] = @ \ {gen[s]}]
      /\ UNCHANGED <<gen, workerLock, marker, tree, sg, clean, stopped, rec, fails>>
  BY DEF CloseDone, Observed, Free, Now
<1>2. SlotsBounds /\ SlotsTypeOK /\ ReclaimOK /\ TreeOK /\ PaidOK /\ SlotOK /\ FenceOK
  BY DEF SlotsIInv
<1>3. mine[s] \in 1 .. Slots
  BY <1>1, <1>2 DEF SlotsTypeOK, SlotOK, Holding, Open, SlotsBounds, CapacityAssumption
<1>4. Quiet(s) BY <1>1, <1>2 DEF TreeOK
<1>5. \A t \in Sessions : t # s /\ mine[t] # 0 => mine[t] # mine[s]
  BY <1>2, <1>3 DEF SlotOK
<1>6. SlotOK'
  <2>1. \A t \in Sessions : t # s => mine'[t] = mine[t] /\ rt'[t] = rt[t] BY <1>1, <1>2
    DEF SlotsTypeOK
  <2>2. mine'[s] = 0 /\ rt'[s] = "idle" BY <1>1, <1>2 DEF SlotsTypeOK
  <2>3. \A t \in Sessions : t # s /\ mine[t] # 0 => slot'[mine[t]] = slot[mine[t]]
    BY <1>1, <1>2, <1>3, <1>5 DEF SlotsTypeOK
  <2>4. HeldIsOwned' BY <1>2, <2>1, <2>2, <2>3 DEF SlotOK, HeldIsOwned, Blank
  <2>5. QED BY <1>2, <2>1, <2>2, <2>4 DEF SlotOK, Holding, Open
<1>7. SlotsTypeOK'
  BY <1>1, <1>2, <1>3 DEF SlotsTypeOK, Free, SlotsBounds, CapacityAssumption, Gens
<1>8. ReclaimOK' BY <1>1, <1>2 DEF ReclaimOK
<1>9. TreeOK' BY <1>1, <1>2, <1>4, SameTree DEF SlotsTypeOK, TreeOK, Before
<1>10. PaidOK'
  <2>1. \A t \in Sessions, g \in Gens : Live(t, g) => t # s BY <1>4, QuietIs
  <2>2. slot[mine[s]] = s \/ slot[mine[s]] = "blank" BY <1>2, <1>3 DEF SlotOK,
    HeldIsOwned, Blank
  <2>3. ASSUME NEW t \in Sessions, NEW g \in Gens, Live(t, g)
        PROVE  g \in rows'[t] /\ \E j \in 1 .. Slots : slot'[j] = t
    <3>1. t # s BY <2>1, <2>3
    <3>2. PICK j \in 1 .. Slots : slot[j] = t BY <1>2, <2>3 DEF PaidOK
    <3>3. j # mine[s] BY <1>2, <2>2, <3>1, <3>2, NoOwnerWord
    <3>4. slot'[j] = t BY <1>1, <1>2, <3>2, <3>3 DEF SlotsTypeOK
    <3>5. g \in rows[t] BY <1>2, <2>3 DEF PaidOK
    <3>6. QED BY <1>1, <1>2, <3>1, <3>4, <3>5 DEF SlotsTypeOK
  <2>4. QED BY <1>1, <1>2, <2>3, SameTree DEF SlotsTypeOK, PaidOK, Holding, Open
<1>11. FenceOK' BY <1>1, <1>2, SameTree DEF SlotsTypeOK, ReclaimOK, FenceOK
<1>12. QED BY <1>2, <1>6, <1>7, <1>8, <1>9, <1>10, <1>11 DEF SlotsIInv, SlotsBounds

LEMMA SuspendKeeps == ASSUME SlotsIInv, NEW s \in Sessions, Suspend(s) PROVE SlotsIInv'
<1>1. tree' = tree BY DEF Suspend
<1>2. SlotsTypeOK'
  BY DEF SlotsIInv, SlotsTypeOK, Suspend, NoReclaim, SlotsBounds, CapacityAssumption
<1>3. ReclaimOK' BY DEF SlotsIInv, SlotsTypeOK, ReclaimOK, Reclaims, Suspend, NoReclaim
<1>4. TreeOK'
  BY <1>1, SameTree, QuietIs DEF SlotsIInv, SlotsTypeOK, TreeOK, Before, Suspend,
    NoReclaim
<1>5. PaidOK'
  BY <1>1, SameTree, QuietIs, NoOwnerWord DEF SlotsIInv, SlotsTypeOK, TreeOK, PaidOK,
    Holding, Open, Before, Gens, Suspend, NoReclaim
<1>6. SlotOK'
  BY NoOwnerWord DEF SlotsIInv, SlotsTypeOK, SlotOK, HeldIsOwned, Holding, Open, Suspend,
    NoReclaim
<1>7. FenceOK'
  BY <1>1, SameTree DEF SlotsIInv, SlotsTypeOK, ReclaimOK, FenceOK, Suspend, NoReclaim
<1>8. QED BY <1>2, <1>3, <1>4, <1>5, <1>6, <1>7 DEF SlotsIInv, SlotsBounds

LEMMA AttestKeeps == ASSUME SlotsIInv, NEW s \in Sessions, Attest(s) PROVE SlotsIInv'
<1>1. tree' = tree BY DEF Attest
<1>2. SlotsTypeOK' BY DEF SlotsIInv, SlotsTypeOK, Attest, SlotsBounds, CapacityAssumption
<1>3. ReclaimOK' BY DEF SlotsIInv, SlotsTypeOK, ReclaimOK, Reclaims, Attest
<1>4. TreeOK'
  BY <1>1, SameTree, QuietIs DEF SlotsIInv, SlotsTypeOK, TreeOK, Before, Attest
<1>5. PaidOK'
  BY <1>1, SameTree, QuietIs, NoOwnerWord DEF SlotsIInv, SlotsTypeOK, TreeOK, PaidOK,
    Holding, Open, Before, Gens, Attest
<1>6. SlotOK'
  BY NoOwnerWord DEF SlotsIInv, SlotsTypeOK, SlotOK, HeldIsOwned, Holding, Open, Attest
<1>7. FenceOK' BY <1>1, SameTree DEF SlotsIInv, SlotsTypeOK, ReclaimOK, FenceOK, Attest
<1>8. QED BY <1>2, <1>3, <1>4, <1>5, <1>6, <1>7 DEF SlotsIInv, SlotsBounds

LEMMA RuntimeDiesKeeps ==
  ASSUME SlotsIInv, NEW s \in Sessions, RuntimeDies(s) PROVE SlotsIInv'
<1>1. tree' = tree BY DEF RuntimeDies
<1>2. SlotsTypeOK'
  BY DEF SlotsIInv, SlotsTypeOK, Reclaims, Nobody, RuntimeDies, NoReclaim, SlotsBounds,
    CapacityAssumption
<1>3. ReclaimOK'
  BY DEF SlotsIInv, SlotsTypeOK, ReclaimOK, Reclaims, RuntimeDies, NoReclaim
<1>4. TreeOK'
  BY <1>1, SameTree, QuietIs DEF SlotsIInv, SlotsTypeOK, TreeOK, Before, RuntimeDies,
    NoReclaim
<1>5. PaidOK'
  BY <1>1, SameTree, QuietIs, NoOwnerWord DEF SlotsIInv, SlotsTypeOK, TreeOK, PaidOK,
    Holding, Open, Before, Gens, RuntimeDies, NoReclaim
<1>6. SlotOK'
  BY NoOwnerWord DEF SlotsIInv, SlotsTypeOK, SlotOK, HeldIsOwned, Holding, Open,
    RuntimeDies, NoReclaim
<1>7. FenceOK'
  BY <1>1, SameTree DEF SlotsIInv, SlotsTypeOK, ReclaimOK, FenceOK, RuntimeDies, NoReclaim
<1>8. QED BY <1>2, <1>3, <1>4, <1>5, <1>6, <1>7 DEF SlotsIInv, SlotsBounds

LEMMA DrainedKeeps == ASSUME SlotsIInv, NEW s \in Sessions, Drained(s) PROVE SlotsIInv'
<1>1. tree' = tree BY DEF Drained
<1>2. SlotsTypeOK' BY DEF SlotsIInv, SlotsTypeOK, Drained, SlotsBounds, CapacityAssumption
<1>3. ReclaimOK' BY DEF SlotsIInv, SlotsTypeOK, ReclaimOK, Reclaims, Drained
<1>4. TreeOK'
  BY <1>1, SameTree, QuietIs DEF SlotsIInv, SlotsTypeOK, TreeOK, Before, Drained
<1>5. PaidOK'
  BY <1>1, SameTree, QuietIs, NoOwnerWord DEF SlotsIInv, SlotsTypeOK, TreeOK, PaidOK,
    Holding, Open, Before, Gens, Drained
<1>6. SlotOK'
  BY NoOwnerWord DEF SlotsIInv, SlotsTypeOK, SlotOK, HeldIsOwned, Holding, Open, Drained
<1>7. FenceOK' BY <1>1, SameTree DEF SlotsIInv, SlotsTypeOK, ReclaimOK, FenceOK, Drained
<1>8. QED BY <1>2, <1>3, <1>4, <1>5, <1>6, <1>7 DEF SlotsIInv, SlotsBounds

LEMMA GuardianLostKeeps ==
  ASSUME SlotsIInv, NEW s \in Sessions, GuardianLost(s) PROVE SlotsIInv'
<1>1. tree' = tree BY DEF GuardianLost
<1>2. SlotsTypeOK'
  BY DEF SlotsIInv, SlotsTypeOK, GuardianLost, SlotsBounds, CapacityAssumption
<1>3. ReclaimOK' BY DEF SlotsIInv, SlotsTypeOK, ReclaimOK, Reclaims, GuardianLost
<1>4. TreeOK'
  BY <1>1, SameTree, QuietIs DEF SlotsIInv, SlotsTypeOK, TreeOK, Before, GuardianLost
<1>5. PaidOK'
  BY <1>1, SameTree, QuietIs, NoOwnerWord DEF SlotsIInv, SlotsTypeOK, TreeOK, PaidOK,
    Holding, Open, Before, Gens, GuardianLost
<1>6. SlotOK'
  BY NoOwnerWord DEF SlotsIInv, SlotsTypeOK, SlotOK, HeldIsOwned, Holding, Open,
    GuardianLost
<1>7. FenceOK'
  BY <1>1, SameTree DEF SlotsIInv, SlotsTypeOK, ReclaimOK, FenceOK, GuardianLost
<1>8. QED BY <1>2, <1>3, <1>4, <1>5, <1>6, <1>7 DEF SlotsIInv, SlotsBounds

(* The steps of a reclaim, whose victim may be any session.                 *)
LEMMA ReclaimReadKeeps ==
  ASSUME SlotsIInv, NEW s \in Sessions, ReclaimRead(s) PROVE SlotsIInv'
<1>0. PICK n \in 1 .. Slots : \E k \in 1 .. n, v \in Sessions :
        rec' = [rec EXCEPT ![s] = [victim |-> v, at |-> k, stage |-> "read"]]
  BY DEF ReclaimRead
<1>1. PICK k \in 1 .. n, v \in Sessions :
        rec' = [rec EXCEPT ![s] = [victim |-> v, at |-> k, stage |-> "read"]]
  BY <1>0
<1>2. /\ marker' = [marker EXCEPT ![s] = "none"]
      /\ UNCHANGED <<slot, rt, mine, gen, rows, workerLock, tree, sg, clean, stopped,
        fails>>
  BY DEF ReclaimRead
<1>3. SlotsBounds /\ SlotsTypeOK /\ ReclaimOK /\ TreeOK /\ PaidOK /\ SlotOK /\ FenceOK
  BY DEF SlotsIInv
<1> DEFINE x == [victim |-> v, at |-> k, stage |-> "read"]
<1>4. k \in 1 .. Slots BY <1>1, <1>3 DEF SlotsBounds, CapacityAssumption
<1>5. x \in Reclaims BY <1>4 DEF Reclaims
<1>6. \A t \in Sessions : t # s => rec'[t] = rec[t] BY <1>1, <1>3 DEF SlotsTypeOK
<1>7. rec'[s] = x BY <1>1, <1>3 DEF SlotsTypeOK
<1>8. rec' \in [Sessions -> Reclaims] BY <1>1, <1>3, <1>5 DEF SlotsTypeOK
<1>9. SlotsTypeOK' BY <1>2, <1>3, <1>8 DEF SlotsTypeOK
<1>10. ReclaimOK' BY <1>3, <1>4, <1>6, <1>7 DEF ReclaimOK
<1>11. TreeOK' BY <1>2, <1>3, SameTree DEF SlotsTypeOK, TreeOK, Before
<1>12. PaidOK' BY <1>2, <1>3, SameTree DEF PaidOK
<1>13. SlotOK' BY <1>2, <1>3 DEF SlotOK, HeldIsOwned
<1>14. FenceOK' BY <1>2, <1>3, <1>6, <1>7, SameTree DEF FenceOK, ReclaimOK
<1>15. QED BY <1>3, <1>9, <1>10, <1>11, <1>12, <1>13, <1>14 DEF SlotsIInv, SlotsBounds

LEMMA ReclaimFenceKeeps ==
  ASSUME SlotsIInv, NEW s \in Sessions, ReclaimFence(s) PROVE SlotsIInv'
<1>1. /\ rec' = [rec EXCEPT ![s].stage = "fenced"] /\ rec[s].stage # "none"
      /\ UNCHANGED <<slot, rt, mine, gen, rows, workerLock, marker, tree, sg, clean,
        stopped, fails>>
      /\ rt[rec[s].victim] = "off" /\ ~sg[rec[s].victim] /\ marker[rec[s].victim] = "observed"
  BY DEF ReclaimFence, Unlocked, Evidence
<1>2. SlotsBounds /\ SlotsTypeOK /\ ReclaimOK /\ TreeOK /\ PaidOK /\ SlotOK /\ FenceOK
  BY DEF SlotsIInv
<1>3. StageBecomes(s, "fenced") BY <1>1, <1>2, StageIs DEF SlotsTypeOK
<1>4. rec[s].victim \in Sessions /\ Quiet(rec[s].victim)
  BY <1>1, <1>2 DEF ReclaimOK, TreeOK
<1>5. ReclaimOK' BY <1>1, <1>2, <1>3 DEF ReclaimOK, StageBecomes
<1>6. SlotsTypeOK' BY <1>1, <1>2, <1>3 DEF SlotsTypeOK, StageBecomes
<1>7. FenceOK' BY <1>1, <1>2, <1>3, <1>4, SameTree DEF FenceOK, ReclaimOK, StageBecomes
<1>8. TreeOK' BY <1>1, <1>2, SameTree DEF TreeOK
<1>9. PaidOK' BY <1>1, <1>2, SameTree DEF PaidOK
<1>10. SlotOK' BY <1>1, <1>2 DEF SlotOK, HeldIsOwned
<1>11. QED BY <1>2, <1>5, <1>6, <1>7, <1>8, <1>9, <1>10 DEF SlotsIInv, SlotsBounds

LEMMA ReclaimSlotKeeps ==
  ASSUME SlotsIInv, NEW s \in Sessions, ReclaimSlot(s) PROVE SlotsIInv'
<1> DEFINE v == rec[s].victim  k == rec[s].at
<1>1. /\ rec' = [rec EXCEPT ![s].stage = "removed"] /\ rec[s].stage = "fenced"
      /\ slot' = [slot EXCEPT ![k] = "free"] /\ slot[k] = v
      /\ UNCHANGED <<rt, mine, gen, rows, workerLock, marker, tree, sg, clean, stopped,
        fails>>
  BY DEF ReclaimSlot, StillOwned, Free
<1>2. SlotsBounds /\ SlotsTypeOK /\ ReclaimOK /\ TreeOK /\ PaidOK /\ SlotOK /\ FenceOK
  BY DEF SlotsIInv
<1>3. StageBecomes(s, "removed") BY <1>1, <1>2, StageIs DEF SlotsTypeOK
<1>4. v \in Sessions /\ k \in 1 .. Slots BY <1>1, <1>2 DEF ReclaimOK
<1>5. rt[v] = "off" /\ ~sg[v] /\ Quiet(v) BY <1>1, <1>2 DEF FenceOK
<1>6. ReclaimOK' BY <1>1, <1>2, <1>3 DEF ReclaimOK, StageBecomes
<1>7. FenceOK'
  BY <1>1, <1>2, <1>3, <1>4, <1>5, SameTree DEF FenceOK, ReclaimOK, StageBecomes
<1> HIDE DEF v, k
<1>8. \A t \in Sessions : mine[t] # k
  <2>1. ASSUME NEW t \in Sessions, mine[t] = k PROVE FALSE
    <3>1. \/ rt[t] = "created" /\ slot[k] = "blank"
          \/ rt[t] \in Open /\ slot[k] = t
      BY <1>4, <2>1, Held
    <3>2. QED BY <1>1, <1>2, <1>4, <1>5, <3>1, NoOwnerWord DEF Open
  <2>2. QED BY <2>1
<1>9. SlotsTypeOK' BY <1>1, <1>2, <1>3 DEF SlotsTypeOK, StageBecomes, Free
<1>10. TreeOK' BY <1>1, <1>2, SameTree DEF TreeOK
<1>11. PaidOK'
  <2>1. \A t \in Sessions, g \in Gens : Live(t, g) => t # v BY <1>4, <1>5, QuietIs
  <2>2. \A t \in Sessions, g \in Gens : Live(t, g) => \E j \in 1 .. Slots : slot'[j] = t
    BY <1>1, <1>2, <2>1 DEF PaidOK, SlotsTypeOK
  <2>3. QED BY <1>1, <1>2, <2>2, SameTree DEF PaidOK
<1>12. SlotOK' BY <1>1, <1>2, <1>8 DEF SlotsTypeOK, SlotOK, HeldIsOwned
<1>13. QED BY <1>2, <1>6, <1>7, <1>9, <1>10, <1>11, <1>12 DEF SlotsIInv, SlotsBounds

LEMMA ReclaimAbandonedKeeps ==
  ASSUME SlotsIInv, NEW s \in Sessions, ReclaimAbandoned(s) PROVE SlotsIInv'
<1>1. tree' = tree BY DEF ReclaimAbandoned
<1>2. SlotsTypeOK'
  BY DEF SlotsIInv, SlotsTypeOK, Reclaims, Nobody, ReclaimAbandoned, NoReclaim,
    SlotsBounds, CapacityAssumption
<1>3. ReclaimOK'
  BY DEF SlotsIInv, SlotsTypeOK, ReclaimOK, Reclaims, ReclaimAbandoned, NoReclaim
<1>4. TreeOK'
  BY <1>1, SameTree, QuietIs DEF SlotsIInv, SlotsTypeOK, TreeOK, Before,
    ReclaimAbandoned, NoReclaim
<1>5. PaidOK'
  BY <1>1, SameTree, QuietIs, NoOwnerWord DEF SlotsIInv, SlotsTypeOK, TreeOK, PaidOK,
    Holding, Open, Before, Gens, ReclaimAbandoned, NoReclaim
<1>6. SlotOK'
  BY NoOwnerWord DEF SlotsIInv, SlotsTypeOK, SlotOK, HeldIsOwned, Holding, Open,
    ReclaimAbandoned, NoReclaim
<1>7. FenceOK'
  BY <1>1, SameTree DEF SlotsIInv, SlotsTypeOK, ReclaimOK, FenceOK, ReclaimAbandoned,
    NoReclaim
<1>8. QED BY <1>2, <1>3, <1>4, <1>5, <1>6, <1>7 DEF SlotsIInv, SlotsBounds

LEMMA ReclaimLockKeeps ==
  ASSUME SlotsIInv, NEW s \in Sessions, ReclaimLock(s) PROVE SlotsIInv'
<1>1. tree' = tree BY DEF ReclaimLock
<1>2. SlotsTypeOK'
  BY DEF SlotsIInv, SlotsTypeOK, Reclaims, Nobody, ReclaimOK, ReclaimLock, NoReclaim,
    SlotsBounds, CapacityAssumption
<1>3. ReclaimOK'
  BY DEF SlotsIInv, SlotsTypeOK, ReclaimOK, Reclaims, ReclaimLock, NoReclaim
<1>4. TreeOK'
  BY <1>1, SameTree, QuietIs DEF SlotsIInv, SlotsTypeOK, TreeOK, Before, ReclaimLock,
    NoReclaim
<1>5. PaidOK'
  BY <1>1, SameTree, QuietIs, NoOwnerWord DEF SlotsIInv, SlotsTypeOK, TreeOK, PaidOK,
    Holding, Open, Before, Gens, ReclaimLock, NoReclaim
<1>6. SlotOK'
  BY NoOwnerWord DEF SlotsIInv, SlotsTypeOK, SlotOK, HeldIsOwned, Holding, Open,
    ReclaimLock, NoReclaim
<1>7. FenceOK'
  BY <1>1, SameTree DEF SlotsIInv, SlotsTypeOK, ReclaimOK, FenceOK, ReclaimLock, NoReclaim
<1>8. QED BY <1>2, <1>3, <1>4, <1>5, <1>6, <1>7 DEF SlotsIInv, SlotsBounds

LEMMA RecoverSlotsKeeps ==
  ASSUME SlotsIInv, NEW s \in Sessions, RecoverSlots(s) PROVE SlotsIInv'
<1>1. /\ rt[s] = "off" /\ Quiet(s) /\ workerLock' = [workerLock EXCEPT ![s] = 0]
      /\ slot' = [k \in 1 .. Slots |-> IF slot[k] = s THEN "free" ELSE slot[k]]
      /\ UNCHANGED <<rt, mine, gen, rows, marker, tree, sg, clean, stopped, rec, fails>>
  BY DEF RecoverSlots, Free
<1>2. SlotsBounds /\ SlotsTypeOK /\ ReclaimOK /\ TreeOK /\ PaidOK /\ SlotOK /\ FenceOK
  BY DEF SlotsIInv
<1>3. \A t \in Sessions : mine[t] # 0 => slot[mine[t]] # s
  <2>1. ASSUME NEW t \in Sessions, mine[t] # 0, slot[mine[t]] = s PROVE FALSE
    <3>1. mine[t] \in 1 .. Slots BY <1>2, <2>1 DEF SlotsTypeOK, SlotsBounds,
      CapacityAssumption
    <3>2. slot[mine[t]] = "blank" \/ (slot[mine[t]] = t /\ rt[t] \in Open) BY <3>1, Held
    <3>3. QED BY <1>1, <1>2, <2>1, <3>2, NoOwnerWord DEF Open
  <2>2. QED BY <2>1
<1>4. SlotOK'
  BY <1>1, <1>2, <1>3 DEF SlotsTypeOK, SlotOK, HeldIsOwned, SlotsBounds,
    CapacityAssumption
<1>5. SlotsTypeOK' BY <1>1, <1>2 DEF SlotsTypeOK, SlotsBounds, CapacityAssumption, Free
<1>6. ReclaimOK' BY <1>1, <1>2 DEF ReclaimOK
<1>7. TreeOK' BY <1>1, <1>2, SameTree DEF TreeOK
<1>8. FenceOK' BY <1>1, <1>2, SameTree DEF FenceOK, ReclaimOK
<1>9. PaidOK'
  <2>1. \A t \in Sessions, g \in Gens : Live(t, g) => t # s BY <1>1, QuietIs
  <2>2. \A t \in Sessions, g \in Gens : Live(t, g) => \E j \in 1 .. Slots : slot'[j] = t
    BY <1>1, <1>2, <2>1 DEF PaidOK, SlotsTypeOK
  <2>3. QED BY <1>1, <1>2, <2>2, SameTree DEF PaidOK
<1>10. QED BY <1>2, <1>4, <1>5, <1>6, <1>7, <1>8, <1>9 DEF SlotsIInv, SlotsBounds

(* The deaths: guardian, worker and their descendants.                      *)
LEMMA GuardianEofKeeps ==
  ASSUME SlotsIInv, NEW s \in Sessions, NEW g \in Gens, GuardianEof(s, g) PROVE SlotsIInv'
<1>1. /\ tree' = [tree EXCEPT ![s][g].guard = "closing"] /\ tree[s][g].guard = "up"
      /\ UNCHANGED <<slot, rt, mine, gen, rows, workerLock, marker, sg, clean, stopped,
        rec, fails>>
  BY DEF GuardianEof
<1>2. SlotsTypeOK /\ TreeOK /\ SlotsBounds BY DEF SlotsIInv
<1>3. Turns(s, g, [tree[s][g] EXCEPT !.guard = "closing"])
  BY <1>1, <1>2, GuardIs DEF SlotsTypeOK
<1>4. tree[s][g] \in Trees BY <1>2 DEF SlotsTypeOK
<1>5. fails' \in 0 .. MaxFails BY <1>1, <1>2 DEF SlotsTypeOK
<1>6. /\ Live(s, g)' => Live(s, g)
      /\ GuardAlive(s, g)' => GuardAlive(s, g)
      /\ tree'[s][g].guard = "done" => ~Live(s, g)'
  BY <1>1, <1>2, <1>3, <1>4 DEF Turns, Trees, TreeOK, Live, WorkerAlive, GuardAlive
<1>7. Decays(s, g) BY <1>1, <1>2, <1>3, <1>5, <1>6 DEF SlotsTypeOK, Turns, Decays
<1>8. QED BY <1>7, DecayKeeps

LEMMA WorkerFinishesKeeps ==
  ASSUME SlotsIInv, NEW s \in Sessions, NEW g \in Gens,
    WorkerFinishes(s, g) PROVE SlotsIInv'
<1> DEFINE b == FALSE
           x == [guard |-> tree[s][g].guard, worker |-> "gone", kids |-> b]
<1>1. /\ tree' = [tree EXCEPT ![s] = [tree[s] EXCEPT ![g] = x]]
      /\ UNCHANGED <<slot, rt, mine, gen, rows, marker, sg, clean, stopped, rec, fails>>
  BY DEF WorkerFinishes
<1>2. SlotsTypeOK /\ TreeOK /\ SlotsBounds BY DEF SlotsIInv
<1>3. tree[s][g] \in Trees BY <1>2 DEF SlotsTypeOK
<1>4. b \in BOOLEAN /\ (b => tree[s][g].kids) BY <1>3 DEF Trees
<1>5. workerLock' \in [Sessions -> 0 .. MaxGen]
  BY <1>2 DEF SlotsTypeOK, WorkerFinishes, SlotsBounds, CapacityAssumption
<1> HIDE DEF b
<1>6. x \in Trees BY <1>3, <1>4 DEF Trees
<1>7. Turns(s, g, x) BY <1>1, <1>2, <1>6, TreeIs DEF SlotsTypeOK
<1>8. /\ Live(s, g)' => Live(s, g)
      /\ GuardAlive(s, g)' => GuardAlive(s, g)
      /\ tree'[s][g].guard = "done" => ~Live(s, g)'
  BY <1>2, <1>4, <1>7 DEF Turns, TreeOK, Live, WorkerAlive, GuardAlive
<1>9. Decays(s, g) BY <1>1, <1>2, <1>5, <1>7, <1>8 DEF SlotsTypeOK, Turns, Decays
<1>10. QED BY <1>9, DecayKeeps

LEMMA WorkerDiesKeeps ==
  ASSUME SlotsIInv, NEW s \in Sessions, NEW g \in Gens, WorkerDies(s, g) PROVE SlotsIInv'
<1>1. /\ tree' = [tree EXCEPT ![s][g].worker = "gone"] /\ WorkerAlive(s, g)
      /\ UNCHANGED <<slot, rt, mine, gen, rows, workerLock, marker, sg, clean, stopped,
        rec>>
  BY DEF WorkerDies
<1>2. SlotsTypeOK /\ TreeOK /\ SlotsBounds BY DEF SlotsIInv
<1>3. Turns(s, g, [tree[s][g] EXCEPT !.worker = "gone"])
  BY <1>1, <1>2, WorkerIs DEF SlotsTypeOK
<1>4. tree[s][g] \in Trees BY <1>2 DEF SlotsTypeOK
<1>5. fails' \in 0 .. MaxFails
  BY <1>2 DEF SlotsTypeOK, SlotsBounds, CapacityAssumption, WorkerDies
<1>6. /\ Live(s, g)' => Live(s, g)
      /\ GuardAlive(s, g)' => GuardAlive(s, g)
      /\ tree'[s][g].guard = "done" => ~Live(s, g)'
  BY <1>1, <1>2, <1>3, <1>4 DEF Turns, Trees, TreeOK, Live, WorkerAlive, GuardAlive
<1>7. Decays(s, g) BY <1>1, <1>2, <1>3, <1>5, <1>6 DEF SlotsTypeOK, Turns, Decays
<1>8. QED BY <1>7, DecayKeeps

LEMMA KillDescendantsKeeps ==
  ASSUME SlotsIInv, NEW s \in Sessions, NEW g \in Gens,
    KillDescendants(s, g) PROVE SlotsIInv'
<1>1. /\ tree' = [tree EXCEPT ![s][g].kids = FALSE] /\ tree[s][g].kids
      /\ UNCHANGED <<slot, rt, mine, gen, rows, workerLock, marker, sg, clean, stopped,
        rec, fails>>
  BY DEF KillDescendants
<1>2. SlotsTypeOK /\ TreeOK /\ SlotsBounds BY DEF SlotsIInv
<1>3. Turns(s, g, [tree[s][g] EXCEPT !.kids = FALSE])
  BY <1>1, <1>2, KidsAre DEF SlotsTypeOK
<1>4. tree[s][g] \in Trees BY <1>2 DEF SlotsTypeOK
<1>5. fails' \in 0 .. MaxFails BY <1>1, <1>2 DEF SlotsTypeOK
<1>6. /\ Live(s, g)' => Live(s, g)
      /\ GuardAlive(s, g)' => GuardAlive(s, g)
      /\ tree'[s][g].guard = "done" => ~Live(s, g)'
  BY <1>1, <1>2, <1>3, <1>4 DEF Turns, Trees, TreeOK, Live, WorkerAlive, GuardAlive
<1>7. Decays(s, g) BY <1>1, <1>2, <1>3, <1>5, <1>6 DEF SlotsTypeOK, Turns, Decays
<1>8. QED BY <1>7, DecayKeeps

LEMMA GuardianEndsKeeps ==
  ASSUME SlotsIInv, NEW s \in Sessions, NEW g \in Gens,
    GuardianEnds(s, g) PROVE SlotsIInv'
<1>1. PICK ok \in BOOLEAN :
        /\ ok => ~Live(s, g)
        /\ tree' = [tree EXCEPT ![s][g].guard = IF ok THEN "done" ELSE "dead"]
        /\ marker' = [marker EXCEPT ![s] = IF ok THEN "observed" ELSE "incomplete"]
        /\ fails' = IF ok THEN fails ELSE fails + 1
  BY DEF GuardianEnds, Complete
<1>2. /\ tree[s][g].guard = "closing" /\ fails' <= MaxFails
      /\ UNCHANGED <<slot, rt, mine, gen, rows, workerLock, sg, clean, stopped, rec>>
  BY DEF GuardianEnds
<1>3. SlotsTypeOK /\ TreeOK /\ SlotsBounds BY DEF SlotsIInv
<1> DEFINE w == IF ok THEN "done" ELSE "dead"
<1>4. Turns(s, g, [tree[s][g] EXCEPT !.guard = w]) BY <1>1, <1>3, GuardIs DEF SlotsTypeOK
<1>5. tree[s][g] \in Trees BY <1>3 DEF SlotsTypeOK
<1>6. /\ tree'[s][g].guard = w /\ tree'[s][g].worker = tree[s][g].worker
      /\ tree'[s][g].kids = tree[s][g].kids
  BY <1>4, <1>5 DEF Turns, Trees
<1>7. (Live(s, g)' => Live(s, g)) /\ ~GuardAlive(s, g)' /\ (w = "done" => ~Live(s, g)')
  BY <1>1, <1>6 DEF Live, WorkerAlive, GuardAlive
<1>8. g = gen[s] BY <1>2, <1>3 DEF TreeOK, Dead, GuardAlive
<1>9. /\ marker' \in [Sessions -> {"none", "incomplete", "observed"}]
      /\ \A t \in Sessions : marker'[t] = "observed" =>
           marker[t] = "observed" \/ (t = s /\ Dead(s, g)' /\ g = gen[s])
  BY <1>1, <1>3, <1>7, <1>8 DEF SlotsTypeOK, Dead
<1>10. fails' \in 0 .. MaxFails
  BY <1>1, <1>2, <1>3 DEF SlotsTypeOK, SlotsBounds, CapacityAssumption
<1>11. Decays(s, g)
  BY <1>2, <1>3, <1>4, <1>6, <1>7, <1>9, <1>10 DEF SlotsTypeOK, Turns, Decays
<1>12. QED BY <1>11, DecayKeeps

LEMMA DrainGuardianKeeps ==
  ASSUME SlotsIInv, NEW s \in Sessions, NEW g \in Gens,
    DrainGuardian(s, g) PROVE SlotsIInv'
<1>1. /\ tree' = [tree EXCEPT ![s][g].guard = "dead"] /\ GuardAlive(s, g)
      /\ UNCHANGED <<slot, rt, mine, gen, rows, workerLock, marker, sg, clean, stopped,
        rec, fails>>
  BY DEF DrainGuardian
<1>2. SlotsTypeOK /\ TreeOK /\ SlotsBounds BY DEF SlotsIInv
<1>3. Turns(s, g, [tree[s][g] EXCEPT !.guard = "dead"])
  BY <1>1, <1>2, GuardIs DEF SlotsTypeOK
<1>4. tree[s][g] \in Trees BY <1>2 DEF SlotsTypeOK
<1>5. fails' \in 0 .. MaxFails BY <1>1, <1>2 DEF SlotsTypeOK
<1>6. /\ Live(s, g)' => Live(s, g)
      /\ GuardAlive(s, g)' => GuardAlive(s, g)
      /\ tree'[s][g].guard = "done" => ~Live(s, g)'
  BY <1>1, <1>2, <1>3, <1>4 DEF Turns, Trees, TreeOK, Live, WorkerAlive, GuardAlive
<1>7. Decays(s, g) BY <1>1, <1>2, <1>3, <1>5, <1>6 DEF SlotsTypeOK, Turns, Decays
<1>8. QED BY <1>7, DecayKeeps

LEMMA DrainWorkerKeeps ==
  ASSUME SlotsIInv, NEW s \in Sessions, NEW g \in Gens, DrainWorker(s, g) PROVE SlotsIInv'
<1> DEFINE b == tree[s][g].kids /\ tree[s][g].worker # "gone"
           x == [guard |-> tree[s][g].guard, worker |-> "gone", kids |-> b]
<1>1. /\ tree' = [tree EXCEPT ![s] = [tree[s] EXCEPT ![g] = x]]
      /\ UNCHANGED <<slot, rt, mine, gen, rows, workerLock, marker, sg, clean, stopped,
        rec, fails>>
  BY DEF DrainWorker
<1>2. SlotsTypeOK /\ TreeOK /\ SlotsBounds BY DEF SlotsIInv
<1>3. tree[s][g] \in Trees BY <1>2 DEF SlotsTypeOK
<1>4. b \in BOOLEAN /\ (b => tree[s][g].kids) BY <1>3 DEF Trees
<1>5. workerLock' \in [Sessions -> 0 .. MaxGen] BY <1>1, <1>2 DEF SlotsTypeOK
<1> HIDE DEF b
<1>6. x \in Trees BY <1>3, <1>4 DEF Trees
<1>7. Turns(s, g, x) BY <1>1, <1>2, <1>6, TreeIs DEF SlotsTypeOK
<1>8. /\ Live(s, g)' => Live(s, g)
      /\ GuardAlive(s, g)' => GuardAlive(s, g)
      /\ tree'[s][g].guard = "done" => ~Live(s, g)'
  BY <1>2, <1>4, <1>7 DEF Turns, TreeOK, Live, WorkerAlive, GuardAlive
<1>9. Decays(s, g) BY <1>1, <1>2, <1>5, <1>7, <1>8 DEF SlotsTypeOK, Turns, Decays
<1>10. QED BY <1>9, DecayKeeps

(* The start, every step, and what the invariant says of the slots.         *)
LEMMA SlotsBegin == ASSUME SlotsBounds, SlotsInit PROVE SlotsIInv
<1>1. tree \in [Sessions -> [Gens -> Trees]] BY DEF SlotsInit, NoTree, Trees
<1>2. rec \in [Sessions -> Reclaims]
  BY DEF SlotsInit, NoReclaim, Reclaims, SlotsBounds, CapacityAssumption
<1>3. SlotsTypeOK
  BY <1>1, <1>2 DEF SlotsInit, SlotsTypeOK, SlotsBounds, CapacityAssumption
<1>4. \A s \in Sessions : Quiet(s) /\ \A g \in Gens : Dead(s, g)
  BY DEF SlotsInit, NoTree, Quiet, Dead, Live, GuardAlive, WorkerAlive
<1>5. TreeOK BY <1>4 DEF SlotsInit, TreeOK, Before, Dead
<1>6. PaidOK BY <1>4 DEF SlotsInit, PaidOK, Holding, Open, Dead
<1>7. SlotOK BY DEF SlotsInit, SlotOK, HeldIsOwned, Holding, Open
<1>8. ReclaimOK /\ FenceOK BY DEF SlotsInit, ReclaimOK, FenceOK, NoReclaim
<1>9. QED BY <1>3, <1>5, <1>6, <1>7, <1>8 DEF SlotsIInv

LEMMA SlotsKeep == ASSUME SlotsIInv, [SlotsNext]_slotsVars PROVE SlotsIInv'
<1>1. CASE UNCHANGED slotsVars
  <2>1. UNCHANGED <<slot, rt, mine, gen, rows, workerLock, marker, tree, sg, clean,
    stopped, rec, fails>>
    BY <1>1 DEF slotsVars
  <2>2. SlotsTypeOK' /\ ReclaimOK' /\ SlotOK' BY <2>1 DEF SlotsIInv, SlotsTypeOK,
    ReclaimOK, SlotOK, HeldIsOwned
  <2>3. TreeOK' /\ PaidOK' /\ FenceOK'
    BY <2>1, SameTree DEF SlotsIInv, TreeOK, PaidOK, FenceOK, ReclaimOK
  <2>4. QED BY <2>2, <2>3 DEF SlotsIInv, SlotsBounds
<1>2. ASSUME NEW s \in Sessions, NEW g \in Gens,
             GuardianEof(s, g) \/ WorkerFinishes(s, g) \/ WorkerDies(s, g)
               \/ KillDescendants(s, g)
               \/ GuardianEnds(s, g) \/ DrainGuardian(s, g) \/ DrainWorker(s, g)
      PROVE  SlotsIInv'
  BY <1>2, GuardianEofKeeps, WorkerFinishesKeeps, WorkerDiesKeeps, KillDescendantsKeeps,
    GuardianEndsKeeps, DrainGuardianKeeps, DrainWorkerKeeps
<1>3. ASSUME NEW s \in Sessions,
             Launch(s) \/ Acquire(s) \/ Reserve(s) \/ ReserveRefused(s) \/ Spawn(s)
               \/ SpawnRefused(s) \/ WorkerInit(s) \/ WorkerOpen(s) \/ CloseBegin(s)
               \/ CloseDone(s) \/ Suspend(s) \/ Attest(s) \/ RuntimeDies(s) \/ Drained(s)
               \/ GuardianLost(s)
      PROVE  SlotsIInv'
  BY <1>3, LaunchKeeps, AcquireKeeps, ReserveKeeps, ReserveRefusedKeeps, SpawnKeeps,
    SpawnRefusedKeeps, WorkerInitKeeps, WorkerOpenKeeps, CloseBeginKeeps, CloseDoneKeeps,
    SuspendKeeps, AttestKeeps, RuntimeDiesKeeps, DrainedKeeps, GuardianLostKeeps
<1>4. ASSUME NEW s \in Sessions,
             ReclaimRead(s) \/ ReclaimFence(s) \/ ReclaimSlot(s) \/ ReclaimAbandoned(s)
               \/ ReclaimLock(s) \/ RecoverSlots(s)
      PROVE  SlotsIInv'
  BY <1>4, ReclaimReadKeeps, ReclaimFenceKeeps, ReclaimSlotKeeps, ReclaimAbandonedKeeps,
    ReclaimLockKeeps, RecoverSlotsKeeps
<1>5. QED BY <1>1, <1>2, <1>3, <1>4 DEF SlotsNext

LEMMA SlotsAreSafe == ASSUME SlotsIInv PROVE SlotsSafety
<1>1. OneBrowser /\ ObservedRowsAreQuiet
  BY DEF SlotsIInv, TreeOK, PaidOK, Dead, OneBrowser, ObservedRowsAreQuiet
<1>2. ASSUME NEW s \in Sessions
      PROVE  Cardinality({g \in Gens : Live(s, g)}) <= Cardinality(Owned(s))
  <2> DEFINE L == {g \in Gens : Live(s, g)}
  <2>1. IsFiniteSet(1 .. Slots) /\ Owned(s) \subseteq 1 .. Slots
    BY FS_Interval DEF Owned, SlotsIInv, SlotsBounds, CapacityAssumption
  <2>2. IsFiniteSet(Owned(s)) /\ Cardinality(Owned(s)) \in Nat BY <2>1, FS_Subset,
    FS_CardinalityType
  <2>3. CASE L = {} BY <2>2, <2>3, FS_EmptySet
  <2>4. CASE L # {}
    <3>1. PICK g \in Gens : Live(s, g) BY <2>4
    <3>2. L = {g} /\ \E k \in 1 .. Slots : slot[k] = s
      BY <3>1 DEF SlotsIInv, TreeOK, PaidOK, Dead
    <3>3. Owned(s) # {} BY <3>2 DEF Owned
    <3>4. Cardinality(L) = 1 BY <3>2, FS_Singleton
    <3>5. Cardinality(Owned(s)) # 0 BY <2>2, <3>3, FS_EmptySet
    <3>6. QED BY <2>2, <3>4, <3>5
  <2>5. QED BY <2>3, <2>4
<1>3. QED BY <1>1, <1>2 DEF SlotsSafety, LiveHasSlot, SlotsIInv, SlotOK

(* Only the latest launch of a session can be alive, it holds its slot and  *)
(* its reservation from before it is spawned until it is dead, and whoever is*)
(* reclaimed is gone (host_browser_capacity.rs), for any number of sessions,*)
(* slots and launches, when a session is launched again only after its      *)
(* cleanup was observed.                                                    *)
THEOREM SlotsInvariant == SlotsBounds => (SlotsSpec => []SlotsIInv)
<1> SUFFICES ASSUME SlotsBounds PROVE SlotsSpec => []SlotsIInv OBVIOUS
<1>1. SlotsInit => SlotsIInv BY SlotsBegin
<1>2. SlotsIInv /\ [SlotsNext]_slotsVars => SlotsIInv' BY SlotsKeep
<1>3. QED BY <1>1, <1>2, PTL DEF SlotsSpec

(* A browser that may be alive has a slot of its own, a held slot is owned by*)
(* its holder, a session has one browser and evidence of cleanup names a    *)
(* quiet process (host_browser_capacity.rs, guardian cleanup).              *)
THEOREM SlotsSafe == SlotsBounds => (SlotsSpec => []SlotsSafety)
<1> SUFFICES ASSUME SlotsBounds PROVE SlotsSpec => []SlotsSafety OBVIOUS
<1>1. SlotsIInv => SlotsSafety BY SlotsAreSafe
<1>2. SlotsSpec => []SlotsIInv BY SlotsInvariant
<1>3. QED BY <1>1, <1>2, PTL

-----------------------------------------------------------------------------
(* GoalTurns. What holds in every reachable state.                         *)

\* What the latest reservation and a run may be.
TurnRows ==
  [goal : 0..MaxGoals, state : {"none", "reserved", "settled", "abandoned"},
   srev : Nat, born : Nat]
Runs ==
  [state : LiveStates \cup Terminal, cmd : Nat, open : Nat, seen : Nat, requests : Nat,
   metered : BOOLEAN, allowance : Nat, asked : BOOLEAN,
   report : {"none", "Complete", "Blocked"}, context : Nat]
DriverSteps == {"gate", "reserved", "dispatch", "abandon", "submit", "wait"}

NumbersOK ==
  /\ rev \in Nat /\ srev \in Nat /\ turn \in TurnRows
  /\ issued \in 0..MaxGoals /\ used \in [1..MaxGoals -> Nat]
  /\ acts \in Nat /\ crashes \in Nat

GhostOK == consent \in BOOLEAN /\ contested \in BOOLEAN

RunOK == run \in {NoRun} \cup Runs

WakeOK == driver \in [step : {"wait", "down"}] \cup [step : DriverSteps, rev : Nat]

\* Goals, revisions and commands are named once.
NamesOK ==
  /\ HasGoal => goal.id <= issued
  /\ turn.srev <= srev /\ run.cmd <= srev
  /\ run.state # "none" => run.context <= rev

\* Nothing was charged for a goal that was never set.
UnusedOK == \A g \in 1..MaxGoals : g > issued => used[g] = 0

\* An active goal is an authorised one, by the owner's last word.
ConsentOK ==
  /\ HasGoal => (goal.authorized <=> goal.status = "Active")
  /\ Continuing => consent

\* While a turn is reserved its goal stays, and what was charged to it since is
\* the run's.
TurnOK ==
  Reserved =>
    /\ HasGoal /\ turn.goal = goal.id /\ goal.stall < StallLimit /\ goal.unmeasured = 0
    /\ used[goal.id] = goal.spent + IF OfTurn THEN run.seen + run.open ELSE 0

\* Only the task of the reserved run charges, and only while it runs.
TaskOK ==
  /\ Reserved /\ OfTurn /\ driver.step # "down" /\ task \in {"none", "setup", "refused"}
       => run.seen = 0 /\ run.open = 0
  /\ task # "none" => driver.step # "down" /\ run.state # "none"
  /\ task = "setup" => run.state = "Accepted" /\ run.report = "none"
  /\ task = "running" => run.state = "Running" /\ (run.metered => Reserved /\ OfTurn)

\* A report that still has the goal's revision was given under consent, and
\* the owner has not acted since.
ReportOK ==
  run.state # "none" /\ run.report # "none" /\ run.context = rev => Continuing /\ ~contested

\* What the driver reserved, it reserved in this life of the process.
DriverOK == driver.step \in {"reserved", "dispatch"} => turn.born = crashes

\* The inductive invariant: the account is right only together with what the
\* open reservation, its run and the task that meters it have charged so far,
\* and a report is worth something only under the revision it was given.
GoalIInv ==
  /\ LimitsAssumption /\ GoalTypeOK /\ NumbersOK /\ GhostOK /\ RunOK /\ WakeOK /\ NamesOK
  /\ UnusedOK /\ ConsentOK /\ TurnOK /\ TaskOK /\ ReportOK /\ DriverOK
  /\ ChargesAreTrue /\ NeverOvercharged

-----------------------------------------------------------------------------
(* What the invariant says of each variable.                               *)

USE DEF Terminal, LiveStates, Step, Persist

LEMMA PartsHold ==
  ASSUME GoalIInv
  PROVE  /\ GoalTypeOK /\ NumbersOK /\ GhostOK /\ RunOK /\ WakeOK /\ NamesOK /\ UnusedOK /\ ConsentOK
         /\ TurnOK /\ TaskOK /\ ReportOK /\ DriverOK /\ ChargesAreTrue /\ NeverOvercharged
         /\ LimitsAssumption
BY DEF GoalIInv

LEMMA Limits ==
  ASSUME GoalIInv
  PROVE  /\ RunLimit \in Nat /\ RunLimit > 0 /\ StallLimit \in Nat /\ StallLimit > 0
         /\ MaxGoals \in Nat /\ MaxGoals > 0
BY DEF GoalIInv, LimitsAssumption

LEMMA Prices ==
  ASSUME GoalIInv, NEW c \in Costs
  PROVE  c \in Nat
BY DEF GoalIInv, LimitsAssumption

LEMMA GoalIs ==
  ASSUME GoalIInv
  PROVE  /\ ~HasGoal => goal = NoGoal
         /\ HasGoal => /\ goal \in Goals /\ goal.id \in 1..MaxGoals /\ goal.status \in Statuses
                       /\ goal.authorized \in BOOLEAN
                       /\ goal.budget \in Nat /\ goal.spent \in Nat
                       /\ goal.unmeasured \in Nat /\ goal.runs \in Nat /\ goal.stall \in Nat
                       /\ goal.runs <= RunLimit /\ goal.stall <= StallLimit
<1>1. goal \in {NoGoal} \cup Goals /\ LimitsAssumption BY DEF GoalIInv, GoalTypeOK
<1>2. goal \in Goals => goal.id # 0 BY DEF Goals
<1>3. HasGoal => goal \in Goals BY <1>1 DEF HasGoal, NoGoal
<1>4. ~HasGoal => goal = NoGoal BY <1>1, <1>2 DEF HasGoal
<1>5. ASSUME goal \in Goals
      PROVE  /\ goal.id \in 1..MaxGoals /\ goal.status \in Statuses /\ goal.authorized \in BOOLEAN
             /\ goal.budget \in Nat /\ goal.spent \in Nat /\ goal.unmeasured \in Nat
             /\ goal.runs \in 0..RunLimit /\ goal.stall \in 0..StallLimit
  <2>1. Budgets \subseteq Nat BY <1>1 DEF LimitsAssumption
  <2>2. QED BY <1>5, <2>1 DEF Goals
<1>6. RunLimit \in Nat /\ StallLimit \in Nat BY <1>1 DEF LimitsAssumption
<1>7. QED BY <1>3, <1>4, <1>5, <1>6

LEMMA RunIs ==
  ASSUME GoalIInv
  PROVE  /\ run.cmd \in Nat
         /\ run.state \in {"none", "Accepted", "Running", "Completed", "Failed", "Cancelled", "Interrupted"}
         /\ run.state = "none" => run.cmd = 0
         /\ run.state # "none" => /\ run \in Runs /\ run.open \in Nat /\ run.seen \in Nat
                                  /\ run.context \in Nat /\ run.metered \in BOOLEAN
                                  /\ run.report \in {"none", "Complete", "Blocked"}
<1>1. run \in {NoRun} \cup Runs BY DEF GoalIInv, RunOK
<1>2. CASE run \in Runs BY <1>2 DEF Runs
<1>3. CASE run = NoRun BY <1>3 DEF NoRun
<1>4. QED BY <1>1, <1>2, <1>3

LEMMA TurnIs ==
  ASSUME GoalIInv
  PROVE  /\ turn \in TurnRows /\ turn.srev \in Nat /\ turn.goal \in 0..MaxGoals
         /\ turn.state \in {"none", "reserved", "settled", "abandoned"}
BY DEF GoalIInv, NumbersOK, TurnRows

LEMMA DriverIs ==
  ASSUME GoalIInv
  PROVE  /\ driver.step \in DriverSteps \cup {"down"}
         /\ driver.step \notin {"wait", "down"} => driver \in [step : DriverSteps, rev : Nat]
BY DEF GoalIInv, WakeOK, DriverSteps

LEMMA NumbersAre ==
  ASSUME GoalIInv
  PROVE  /\ rev \in Nat /\ srev \in Nat /\ issued \in 0..MaxGoals /\ used \in [1..MaxGoals -> Nat]
         /\ consent \in BOOLEAN /\ contested \in BOOLEAN /\ acts \in Nat /\ crashes \in Nat
         /\ HasGoal => used[goal.id] \in Nat
<1>1. HasGoal => goal.id \in 1..MaxGoals BY GoalIs
<1>2. QED BY <1>1 DEF GoalIInv, NumbersOK, GhostOK

LEMMA NumbersHold ==
  ASSUME GoalIInv, rev' \in {rev, rev + 1}, srev' \in {srev, srev + 1}, turn' \in TurnRows,
         issued' \in 0..MaxGoals, used' \in [1..MaxGoals -> Nat],
         acts' \in {acts, acts + 1}, crashes' \in {crashes, crashes + 1}
  PROVE  NumbersOK'
BY NumbersAre DEF NumbersOK

\* The names of a revision stay in the past while the goal, its turn and its
\* run stay as they are and the revisions only grow.
LEMMA NamesHold ==
  ASSUME GoalIInv, rev' \in {rev, rev + 1}, srev' \in {srev, srev + 1}, issued' = issued,
         UNCHANGED <<turn, run>>, goal'.id = goal.id
  PROVE  NamesOK'
<1>1. rev \in Nat /\ srev \in Nat /\ issued \in Nat BY NumbersAre, PartsHold
<1>2. turn.srev \in Nat /\ run.cmd \in Nat BY RunIs, TurnIs
<1>3. turn.srev <= srev' /\ run.cmd <= srev' BY <1>1, <1>2, PartsHold DEF NamesOK
<1>4. run.state # "none" => run.context <= rev' BY <1>1, RunIs, PartsHold DEF NamesOK
<1>5. goal'.id # 0 => goal'.id <= issued' BY PartsHold DEF NamesOK, HasGoal
<1>6. QED BY <1>3, <1>4, <1>5 DEF NamesOK, HasGoal

LEMMA FlagsAre ==
  ASSUME GoalIInv
  PROVE  /\ input \in BOOLEAN /\ decision \in BOOLEAN
         /\ cleanup \in {"observed", "pending", "attested"}
         /\ task \in {"none", "setup", "refused", "running", "ended", "terminal", "settle"}
         /\ lock \in {"free", "driver", "submit", "task"}
BY DEF GoalIInv, GoalTypeOK

\* A goal g becomes x: a new status and authority, the same account.
Marked(g, x, s, b) ==
  /\ x \in Goals /\ x.id = g.id /\ x.status = s /\ x.authorized = b
  /\ x.budget = g.budget /\ x.runs = g.runs /\ x.spent = g.spent
  /\ x.unmeasured = g.unmeasured /\ x.stall = g.stall

LEMMA MarkIs ==
  ASSUME NEW g \in Goals, NEW s \in Statuses, NEW b \in BOOLEAN
  PROVE  Marked(g, [g EXCEPT !.status = s, !.authorized = b], s, b)
BY DEF Marked, Goals

\* What a stop that is not an assessment makes of an active goal.
Halts == {"NeedsAttention", "Limited"}

\* The goal stops, if it is active.
GoalStops ==
  \/ UNCHANGED <<goal, rev>> /\ srev' \in {srev, srev + 1} /\ ~Active
  \/ /\ Active /\ rev' = rev + 1 /\ srev' = srev + 1
     /\ \E s \in Halts : Marked(goal, goal', s, FALSE)

LEMMA StopIs ==
  ASSUME GoalIInv, Active, NEW s \in Halts, goal' = StopWith(goal, s)
  PROVE  Marked(goal, goal', s, FALSE)
BY GoalIs, MarkIs DEF Active, HasGoal, StopWith, Statuses, Stopped, Halts

LEMMA AbandonIs ==
  ASSUME GoalIInv, HasGoal, goal' = [StopWith(goal, "NeedsAttention") EXCEPT !.authorized = FALSE]
  PROVE  \E s \in Stopped : Marked(goal, goal', s, FALSE) /\ (s \in Halts \/ s = goal.status)
<1>1. goal \in Goals /\ goal.status \in Statuses BY GoalIs
<1>2. CASE goal.status = "Active"
  <2>1. goal' = [goal EXCEPT !.status = "NeedsAttention", !.authorized = FALSE]
    BY <1>1, <1>2 DEF StopWith, HasGoal, Goals
  <2>2. "NeedsAttention" \in Stopped /\ "NeedsAttention" \in Statuses BY DEF Statuses, Stopped
  <2>3. Marked(goal, goal', "NeedsAttention", FALSE) BY <1>1, <2>1, <2>2 DEF Marked, Goals
  <2>4. QED BY <2>2, <2>3 DEF Halts
<1>3. CASE goal.status # "Active"
  <2>1. goal' = [goal EXCEPT !.authorized = FALSE] BY <1>3 DEF StopWith
  <2>2. Marked(goal, goal', goal.status, FALSE) BY <1>1, <2>1 DEF Marked, Goals
  <2>3. QED BY <1>1, <1>3, <2>2 DEF Statuses, Stopped
<1>4. QED BY <1>2, <1>3

-----------------------------------------------------------------------------
(* Preservation. First the steps that several actions share.               *)

\* A step of the driver that only moves it, or of the task or a user's
\* command that touches neither the goal nor the run.
LEMMA QuietKeeps ==
  ASSUME GoalIInv,
         UNCHANGED <<goal, rev, srev, turn, run, used, issued, consent, contested, crashes>>,
         acts' \in {acts, acts + 1}, input' \in BOOLEAN, decision' \in BOOLEAN,
         cleanup' \in {"observed", "pending", "attested"},
         lock' \in {"free", "driver", "submit", "task"},
         task' = task \/ (task = "ended" /\ task' = "terminal"),
         \/ driver' = driver
         \/ /\ driver' \in [step : {"wait", "down"}] \cup [step : DriverSteps, rev : Nat]
            /\ driver'.step # "down" /\ (driver.step # "down" \/ ~Reserved)
            /\ driver'.step # "reserved"
            /\ (driver'.step = "dispatch" => driver.step = "reserved")
  PROVE  GoalIInv'
<1>1. GoalTypeOK' BY PartsHold, GoalIs, FlagsAre DEF GoalTypeOK, HasGoal, ConsentOK, Active
<1>2. NumbersOK' BY NumbersHold, NumbersAre, TurnIs
<1>3. GhostOK' BY PartsHold DEF GhostOK
<1>4. RunOK' BY PartsHold, RunIs DEF RunOK
<1>5. WakeOK' BY PartsHold, DriverIs DEF WakeOK
<1>6. NamesOK' BY PartsHold, NumbersAre, RunIs, TurnIs DEF NamesOK, HasGoal
<1>7. UnusedOK' BY PartsHold, NumbersAre, GoalIs DEF UnusedOK, HasGoal, NamesOK
<1>8. ConsentOK' BY PartsHold, GoalIs DEF ConsentOK, HasGoal, Active, Continuing
<1>9. TurnOK'
  BY PartsHold, NumbersAre, GoalIs, RunIs, TurnIs DEF TurnOK, Reserved, OfTurn, HasGoal, TaskOK,
     NamesOK, ChargesAreTrue
<1>10. TaskOK'
  BY PartsHold, RunIs, TurnIs, DriverIs, FlagsAre, NumbersAre DEF TaskOK, Reserved, OfTurn,
     NamesOK, DriverSteps
<1>11. ReportOK'
  BY PartsHold, NumbersAre, GoalIs, RunIs DEF ReportOK, Continuing, Active, HasGoal, NamesOK,
     ConsentOK, TaskOK
<1>12. DriverOK' BY PartsHold, DriverIs DEF DriverOK, DriverSteps
<1>13. ChargesAreTrue'
  BY PartsHold, NumbersAre, GoalIs, RunIs DEF ChargesAreTrue, Reserved, HasGoal, TurnOK, OfTurn
<1>14. NeverOvercharged'
  BY PartsHold, NumbersAre, GoalIs, RunIs DEF NeverOvercharged, HasGoal, TurnOK, OfTurn, Reserved
<1>15. QED BY PartsHold, <1>1, <1>2, <1>3, <1>4, <1>5, <1>6, <1>7, <1>8, <1>9, <1>10, <1>11,
    <1>12, <1>13, <1>14 DEF GoalIInv, LimitsAssumption

\* A reservation that was not submitted is abandoned.
LEMMA AbandonTurnKeeps ==
  ASSUME GoalIInv, Reserved, ~OfTurn, AbandonTurn,
         UNCHANGED <<issued, run, input, decision, cleanup, task, used, consent, contested,
                     acts, crashes>>,
         driver' = [step |-> "wait"], lock' \in {"free", "driver", "submit", "task"}
  PROVE  GoalIInv'
<1>1. HasGoal BY PartsHold DEF TurnOK
<1>2. /\ rev' = rev + 1 /\ srev' = srev + 1
      /\ goal' = [StopWith(goal, "NeedsAttention") EXCEPT !.authorized = FALSE]
      /\ turn' = [turn EXCEPT !.state = "abandoned"]
  BY DEF AbandonTurn
<1>3. PICK s \in Stopped : Marked(goal, goal', s, FALSE) BY <1>1, <1>2, AbandonIs
<1>4. /\ turn' \in TurnRows /\ turn'.state = "abandoned" /\ turn'.srev = turn.srev
      /\ turn'.goal = turn.goal
  BY <1>2, TurnIs DEF TurnRows
<1>5. driver'.step = "wait" OBVIOUS
<1>6. GoalTypeOK'
  BY PartsHold, <1>1, <1>2, <1>3, <1>4, GoalIs, FlagsAre DEF GoalTypeOK, HasGoal, ConsentOK,
     Active, Marked, Stopped
<1>7. NumbersOK' BY <1>1, <1>2, <1>4, NumbersHold, NumbersAre, TurnIs
<1>8. GhostOK' BY PartsHold, <1>1 DEF GhostOK
<1>9. RunOK' BY PartsHold, <1>1, RunIs DEF RunOK
<1>10. WakeOK' BY PartsHold, <1>1, <1>5, DriverIs DEF WakeOK
<1>11. NamesOK'
  BY PartsHold, <1>1, <1>2, <1>3, <1>4, NumbersAre, RunIs, TurnIs DEF NamesOK, HasGoal, Marked,
     Stopped
<1>12. UnusedOK'
  BY PartsHold, <1>1, NumbersAre, GoalIs DEF UnusedOK, HasGoal, NamesOK, Marked, Stopped
<1>13. ConsentOK'
  BY PartsHold, <1>1, <1>2, <1>3, GoalIs DEF ConsentOK, HasGoal, Active, Continuing, Marked,
     Stopped
<1>14. TurnOK'
  BY PartsHold, <1>1, <1>2, <1>3, <1>4, NumbersAre, GoalIs, RunIs, TurnIs DEF TurnOK, Reserved,
     OfTurn, HasGoal, TaskOK, NamesOK, ChargesAreTrue, Marked, Stopped
<1>15. TaskOK'
  BY PartsHold, <1>1, <1>2, <1>4, <1>5, RunIs, TurnIs, DriverIs, FlagsAre, NumbersAre DEF TaskOK,
     Reserved, OfTurn, NamesOK, DriverSteps
<1>16. ReportOK'
  BY PartsHold, <1>1, <1>2, <1>3, NumbersAre, GoalIs, RunIs DEF ReportOK, Continuing, Active,
     HasGoal, NamesOK, ConsentOK, TaskOK, Marked, Stopped
<1>17. DriverOK' BY PartsHold, <1>1, <1>2, <1>4, <1>5, DriverIs DEF DriverOK, DriverSteps
<1>18. ChargesAreTrue'
  BY PartsHold, <1>1, <1>2, <1>3, <1>4, NumbersAre, GoalIs, RunIs DEF ChargesAreTrue, Reserved,
     HasGoal, TurnOK, OfTurn, Marked, Stopped
<1>19. NeverOvercharged'
  BY PartsHold, <1>1, <1>2, <1>3, NumbersAre, GoalIs, RunIs DEF NeverOvercharged, HasGoal,
     TurnOK, OfTurn, Reserved, Marked, Stopped
<1>20. QED BY PartsHold, <1>6, <1>7, <1>8, <1>9, <1>10, <1>11, <1>12, <1>13, <1>14, <1>15, <1>16,
    <1>17, <1>18, <1>19 DEF GoalIInv, LimitsAssumption

\* What settlement makes of the goal: the run's cost is charged once; the goal
\* keeps its status or stops.
LEMMA SettledIs ==
  ASSUME GoalIInv, Reserved, OfTurn, NEW measured \in BOOLEAN, NEW tidy \in BOOLEAN,
         NEW progress \in BOOLEAN, goal' = Settled(measured, tidy, progress)
  PROVE  /\ goal' \in Goals /\ goal'.id = goal.id /\ goal'.spent = goal.spent + run.seen
         /\ goal'.unmeasured = goal.unmeasured + (IF measured THEN 0 ELSE 1)
         /\ \/ goal'.status = goal.status /\ goal'.authorized = goal.authorized
            \/ goal'.status \in Stopped /\ goal'.authorized = FALSE
         /\ goal'.status \in {"Complete", "Blocked"} /\ goal.status \notin {"Complete", "Blocked"}
              => run.report # "none" /\ run.context = rev
<1>1. /\ HasGoal /\ goal.stall < StallLimit /\ run.state # "none"
  BY RunIs DEF GoalIInv, TurnOK, OfTurn
<1>2. /\ goal \in Goals /\ run.seen \in Nat /\ goal.spent \in Nat /\ goal.unmeasured \in Nat
      /\ goal.stall \in Nat /\ goal.status \in Statuses
      /\ run.report \in {"none", "Complete", "Blocked"}
      /\ StallLimit \in Nat /\ StallLimit > 0
  BY <1>1, GoalIs, RunIs, Limits
<1> DEFINE used1 == [goal EXCEPT !.spent = @ + run.seen,
                                 !.unmeasured = IF measured THEN @ ELSE @ + 1,
                                 !.stall = IF progress THEN 0 ELSE @ + 1]
<1>3. /\ used1 \in Goals /\ used1.id = goal.id /\ used1.spent = goal.spent + run.seen
      /\ used1.unmeasured = goal.unmeasured + (IF measured THEN 0 ELSE 1)
      /\ used1.status = goal.status /\ used1.authorized = goal.authorized
  <2> DEFINE sp == goal.spent + run.seen
             un == IF measured THEN goal.unmeasured ELSE goal.unmeasured + 1
             st == IF progress THEN 0 ELSE goal.stall + 1
  <2>1. sp \in Nat /\ un \in Nat /\ st \in 0..StallLimit BY <1>1, <1>2
  <2>2. un = goal.unmeasured + (IF measured THEN 0 ELSE 1) BY <1>2
  <2>3. used1 = [goal EXCEPT !.spent = sp, !.unmeasured = un, !.stall = st] OBVIOUS
  <2> HIDE DEF sp, un, st, used1
  <2>4. /\ used1 \in Goals /\ used1.id = goal.id /\ used1.spent = sp /\ used1.unmeasured = un
        /\ used1.status = goal.status /\ used1.authorized = goal.authorized
    BY <1>2, <2>1, <2>3 DEF Goals
  <2>5. sp = goal.spent + run.seen BY DEF sp
  <2>6. QED BY <2>2, <2>4, <2>5
<1> DEFINE ends == run.report # "none" /\ run.context = rev
           stops == {"NeedsAttention", "Limited"}
<1>4. \/ goal' = used1
      \/ ends /\ goal' = [used1 EXCEPT !.status = run.report, !.authorized = FALSE]
      \/ \E s \in stops : goal' = StopWith(used1, s)
  <2> DEFINE stop ==
               CASE ~tidy -> "NeedsAttention"
                 [] run.state = "Cancelled" -> IF used1.spent >= used1.budget THEN "Limited"
                                                                     ELSE "NeedsAttention"
                 [] run.state = "Interrupted" -> "NeedsAttention"
                 [] run.asked -> "NeedsAttention"
                 [] used1.spent >= used1.budget -> "Limited"
                 [] run.state # "Completed" -> "NeedsAttention"
                 [] ~measured -> "NeedsAttention"
                 [] OTHER -> IF LimitReached(used1) THEN "Limited" ELSE "Active"
             assessed ==
               /\ goal.status = "Active" /\ run.state = "Completed"
               /\ measured /\ tidy /\ ~run.asked /\ ~Obstructed /\ ~(used1.spent >= used1.budget)
               /\ run.report # "none" /\ run.context = rev
  <2>1. goal' = CASE assessed -> [used1 EXCEPT !.status = run.report, !.authorized = FALSE]
                  [] ~assessed /\ stop # "Active" -> StopWith(used1, stop)
                  [] OTHER -> used1
    BY DEF Settled
  <2>2. stop \in stops \cup {"Active"} OBVIOUS
  <2>3. assessed => ends OBVIOUS
  <2> HIDE DEF used1, stop, assessed, ends, stops
  <2>4. QED BY <2>1, <2>2, <2>3
<1> HIDE DEF used1, ends, stops
<1>5. CASE goal' = used1 BY <1>3, <1>5
<1>6. CASE ends /\ goal' = [used1 EXCEPT !.status = run.report, !.authorized = FALSE]
  <2>1. run.report \in Stopped /\ run.report \in Statuses
    BY <1>2, <1>6 DEF ends, Stopped, Statuses
  <2>2. Marked(used1, goal', run.report, FALSE) BY <1>3, <1>6, <2>1, MarkIs
  <2>3. QED BY <1>3, <1>6, <2>1, <2>2 DEF Marked, ends
<1>7. ASSUME NEW s \in stops, goal' = StopWith(used1, s)
      PROVE  goal' = used1 \/ Marked(used1, goal', s, FALSE)
  <2>1. s \in Statuses BY <1>7 DEF stops, Statuses, Stopped
  <2>2. goal' = used1 \/ goal' = [used1 EXCEPT !.status = s, !.authorized = FALSE]
    BY <1>7 DEF StopWith
  <2>3. QED BY <1>3, <2>1, <2>2 DEF Marked, Goals
<1>8. ASSUME NEW s \in stops, Marked(used1, goal', s, FALSE)
      PROVE  /\ goal' \in Goals /\ goal'.id = goal.id /\ goal'.spent = goal.spent + run.seen
             /\ goal'.unmeasured = goal.unmeasured + (IF measured THEN 0 ELSE 1)
             /\ goal'.status \in Stopped /\ goal'.authorized = FALSE
             /\ goal'.status \notin {"Complete", "Blocked"}
  BY <1>3, <1>8 DEF Marked, stops, Stopped
<1>9. QED BY <1>4, <1>5, <1>6, <1>7, <1>8

\* A settlement, by the task that ran the turn or by recovery.
LEMMA SettleKeeps ==
  ASSUME GoalIInv, NEW measured \in BOOLEAN, NEW tidy \in BOOLEAN, NEW progress \in BOOLEAN,
         SettleTurn(measured, tidy, progress), measured => run.open = 0,
         UNCHANGED <<issued, run, input, decision, cleanup, used, consent, contested, acts,
                     crashes>>,
         task' = "none", lock' \in {"free", "driver", "submit", "task"},
         driver' \in [step : {"wait", "down"}] \cup [step : DriverSteps, rev : Nat],
         driver'.step \in {driver.step, "wait", "abandon"},
         Reserved /\ ~OfTurn => driver.step # "down" \/ run.cmd # turn.srev
  PROVE  GoalIInv'
<1>1. CASE ~(OfTurn /\ Reserved)
  <2>1. UNCHANGED <<turn, goal, rev, srev>> BY <1>1 DEF SettleTurn
  <2>2. GoalTypeOK'
    BY PartsHold, <1>1, <2>1, GoalIs, FlagsAre DEF GoalTypeOK, HasGoal, ConsentOK, Active
  <2>3. NumbersOK' BY <1>1, <2>1, NumbersHold, NumbersAre, TurnIs
  <2>4. GhostOK' BY PartsHold, <1>1 DEF GhostOK
  <2>5. RunOK' BY PartsHold, <1>1, RunIs DEF RunOK
  <2>6. WakeOK' BY PartsHold, <1>1, DriverIs DEF WakeOK
  <2>7. NamesOK' BY PartsHold, <1>1, <2>1, NumbersAre, RunIs, TurnIs DEF NamesOK, HasGoal
  <2>8. UnusedOK' BY PartsHold, <1>1, NumbersAre, GoalIs DEF UnusedOK, HasGoal, NamesOK
  <2>9. ConsentOK' BY PartsHold, <1>1, <2>1, GoalIs DEF ConsentOK, HasGoal, Active, Continuing
  <2>10. TurnOK'
    BY PartsHold, <1>1, <2>1, NumbersAre, GoalIs, RunIs, TurnIs DEF TurnOK, Reserved, OfTurn,
       HasGoal, TaskOK, NamesOK, ChargesAreTrue
  <2>11. TaskOK'
    BY PartsHold, <1>1, <2>1, RunIs, TurnIs, DriverIs, FlagsAre, NumbersAre DEF TaskOK, Reserved,
       OfTurn, NamesOK, DriverSteps
  <2>12. ReportOK'
    BY PartsHold, <1>1, <2>1, NumbersAre, GoalIs, RunIs DEF ReportOK, Continuing, Active,
       HasGoal, NamesOK, ConsentOK, TaskOK
  <2>13. DriverOK' BY PartsHold, <1>1, <2>1, DriverIs DEF DriverOK, DriverSteps
  <2>14. ChargesAreTrue'
    BY PartsHold, <1>1, <2>1, NumbersAre, GoalIs, RunIs DEF ChargesAreTrue, Reserved, HasGoal,
       TurnOK, OfTurn
  <2>15. NeverOvercharged'
    BY PartsHold, <1>1, <2>1, NumbersAre, GoalIs, RunIs DEF NeverOvercharged, HasGoal, TurnOK,
       OfTurn, Reserved
  <2>16. QED BY PartsHold, <2>2, <2>3, <2>4, <2>5, <2>6, <2>7, <2>8, <2>9, <2>10, <2>11, <2>12,
      <2>13, <2>14, <2>15 DEF GoalIInv, LimitsAssumption
<1>2. CASE OfTurn /\ Reserved
  <2>1. /\ turn' = [turn EXCEPT !.state = "settled"] /\ goal' = Settled(measured, tidy, progress)
        /\ rev' = rev + 1 /\ srev' = srev + 1
    BY <1>2 DEF SettleTurn
  <2>2. /\ goal' \in Goals /\ goal'.id = goal.id /\ goal'.spent = goal.spent + run.seen
        /\ goal'.unmeasured = goal.unmeasured + (IF measured THEN 0 ELSE 1)
        /\ \/ goal'.status = goal.status /\ goal'.authorized = goal.authorized
           \/ goal'.status \in Stopped /\ goal'.authorized = FALSE
    BY <1>2, <2>1, SettledIs
  <2>3. /\ turn' \in TurnRows /\ turn'.state = "settled" /\ turn'.srev = turn.srev
        /\ turn'.goal = turn.goal
    BY <2>1, TurnIs DEF TurnRows
  <2>4. HasGoal /\ goal.unmeasured \in Nat /\ run.state # "none"
    BY PartsHold, <1>2, GoalIs, RunIs DEF TurnOK, OfTurn
  <2>5. goal'.unmeasured = 0 => goal'.spent = used[goal.id]
    <3>1. goal'.unmeasured = 0 => measured BY <2>2, <2>4
    <3>2. measured => used[goal.id] = goal.spent + run.seen
      BY PartsHold, <1>2, RunIs, <2>4 DEF TurnOK
    <3>3. QED BY <2>2, <3>1, <3>2
  <2>6. goal'.id = goal.id /\ goal'.spent <= used[goal.id]
    <3>1. run.seen \in Nat /\ run.open \in Nat /\ goal.spent \in Nat BY <2>4, GoalIs, RunIs
    <3>2. used[goal.id] = goal.spent + (run.seen + run.open) BY PartsHold, <1>2 DEF TurnOK
    <3>3. QED BY <2>2, <3>1, <3>2
  <2>7. GoalTypeOK'
    BY PartsHold, <1>2, <2>1, <2>2, <2>3, <2>4, <2>5, <2>6, GoalIs, FlagsAre DEF GoalTypeOK,
       HasGoal, ConsentOK, Active, Stopped
  <2>8. NumbersOK' BY <2>1, <2>3, NumbersHold, NumbersAre, TurnIs
  <2>9. GhostOK' BY PartsHold, <1>2, <2>4 DEF GhostOK
  <2>10. RunOK' BY <1>2, <2>4, RunIs DEF RunOK
  <2>11. WakeOK' BY PartsHold, <1>2, <2>4, DriverIs DEF WakeOK
  <2>12. NamesOK'
    BY PartsHold, <2>1, <2>3, <2>6, NumbersAre, RunIs, TurnIs DEF NamesOK, HasGoal, Stopped
  <2>13. UnusedOK'
    BY PartsHold, <1>2, <2>4, NumbersAre, GoalIs DEF UnusedOK, HasGoal, NamesOK, Stopped
  <2>14. ConsentOK'
    BY PartsHold, <1>2, <2>1, <2>2, <2>4, <2>5, <2>6, GoalIs DEF ConsentOK, HasGoal, Active,
       Continuing, Stopped
  <2>15. TurnOK'
    BY PartsHold, <1>2, <2>1, <2>2, <2>3, <2>4, <2>5, <2>6, NumbersAre, GoalIs, RunIs, TurnIs
       DEF TurnOK, Reserved, OfTurn, HasGoal, TaskOK, NamesOK, ChargesAreTrue, Stopped
  <2>16. TaskOK'
    BY PartsHold, <1>2, <2>1, <2>3, <2>4, RunIs, TurnIs, DriverIs, FlagsAre, NumbersAre
       DEF TaskOK, Reserved, OfTurn, NamesOK, DriverSteps
  <2>17. ReportOK'
    BY PartsHold, <1>2, <2>1, <2>2, <2>4, <2>5, <2>6, NumbersAre, GoalIs, RunIs DEF ReportOK,
       Continuing, Active, HasGoal, NamesOK, ConsentOK, TaskOK, Stopped
  <2>18. DriverOK' BY PartsHold, <1>2, <2>1, <2>3, <2>4, DriverIs DEF DriverOK, DriverSteps
  <2>19. ChargesAreTrue'
    BY <2>5, <2>6, NumbersAre, GoalIs, RunIs DEF ChargesAreTrue, Reserved, HasGoal, TurnOK,
       OfTurn, Stopped
  <2>20. NeverOvercharged'
    BY <2>6, NumbersAre, GoalIs, RunIs DEF NeverOvercharged, HasGoal, TurnOK, OfTurn, Reserved,
       Stopped
  <2>21. QED BY PartsHold, <2>7, <2>8, <2>9, <2>10, <2>11, <2>12, <2>13, <2>14, <2>15, <2>16,
      <2>17, <2>18, <2>19, <2>20 DEF GoalIInv, LimitsAssumption
<1>3. QED BY <1>1, <1>2

(* The owner's commands and his input.                                     *)
LEMMA GoalSetInv ==
  ASSUME GoalIInv, NEW b \in Budgets, NEW auto \in BOOLEAN, GoalSet(b, auto)
  PROVE  GoalIInv'
<1>1. /\ acts' = acts + 1 /\ UNCHANGED crashes /\ driver.step # "down"
      /\ rev' = rev + 1 /\ srev' = srev + 1 /\ contested' = TRUE /\ consent' = auto
      /\ UNCHANGED <<turn, run, input, decision, cleanup, owner, driver, task, lock, used>>
      /\ issued' = issued + 1 /\ issued < MaxGoals /\ turn.state # "reserved"
  BY DEF GoalSet, Update, Act, Idle, Reserved
<1>2. /\ goal' \in Goals /\ goal'.id = issued + 1
      /\ goal'.status = (IF auto THEN "Active" ELSE "Paused")
      /\ goal'.authorized = auto /\ goal'.spent = 0 /\ goal'.unmeasured = 0
  <2>1. issued \in Nat /\ MaxGoals \in Nat /\ RunLimit \in Nat /\ StallLimit \in Nat
    BY NumbersAre, Limits
  <2>2. issued + 1 \in 1..MaxGoals /\ 0 \in 0..RunLimit /\ 0 \in 0..StallLimit BY <1>1, <2>1
  <2>3. QED BY <2>2 DEF GoalSet, Update, Goals, Statuses, Stopped
<1>3. /\ goal'.id # 0 /\ goal'.id \in 1..MaxGoals /\ goal'.id > issued /\ used[goal'.id] = 0
      /\ issued' \in 0..MaxGoals
  <2>1. issued \in Nat /\ MaxGoals \in Nat BY NumbersAre, Limits
  <2>2. issued + 1 \in 1..MaxGoals /\ issued + 1 > issued /\ issued + 1 \in 0..MaxGoals
    BY <1>1, <2>1
  <2>3. used[issued + 1] = 0 BY PartsHold, <2>2 DEF UnusedOK
  <2>4. QED BY <1>1, <1>2, <2>1, <2>2, <2>3
<1>4. GoalTypeOK'
  BY PartsHold, <1>1, <1>2, <1>3, GoalIs, FlagsAre DEF GoalTypeOK, HasGoal, ConsentOK, Active
<1>5. NumbersOK' BY <1>1, <1>3, NumbersHold, NumbersAre, TurnIs
<1>6. GhostOK' BY <1>1 DEF GhostOK
<1>7. RunOK' BY PartsHold, <1>1, RunIs DEF RunOK
<1>8. WakeOK' BY PartsHold, <1>1, DriverIs DEF WakeOK
<1>9. NamesOK'
  <2>1. goal'.id <= issued' BY <1>1, <1>2, NumbersAre
  <2>2. turn.srev <= srev + 1 /\ run.cmd <= srev + 1
    BY PartsHold, NumbersAre, RunIs, TurnIs DEF NamesOK
  <2>3. run.state # "none" => run.context <= rev + 1
    BY PartsHold, NumbersAre, RunIs DEF NamesOK
  <2>4. QED BY <1>1, <2>1, <2>2, <2>3 DEF NamesOK, HasGoal
<1>10. UnusedOK' BY PartsHold, <1>1, <1>3, NumbersAre, GoalIs DEF UnusedOK, HasGoal, NamesOK
<1>11. ConsentOK'
  BY PartsHold, <1>1, <1>2, <1>3, GoalIs DEF ConsentOK, HasGoal, Active, Continuing
<1>12. TurnOK'
  BY PartsHold, <1>1, <1>2, <1>3, NumbersAre, GoalIs, RunIs, TurnIs DEF TurnOK, Reserved, OfTurn,
     HasGoal, TaskOK, NamesOK, ChargesAreTrue
<1>13. TaskOK'
  BY PartsHold, <1>1, RunIs, TurnIs, DriverIs, FlagsAre, NumbersAre DEF TaskOK, Reserved, OfTurn,
     NamesOK, DriverSteps
<1>14. ReportOK'
  BY PartsHold, <1>1, <1>2, <1>3, NumbersAre, GoalIs, RunIs DEF ReportOK, Continuing, Active,
     HasGoal, NamesOK, ConsentOK, TaskOK
<1>15. DriverOK' BY PartsHold, <1>1, DriverIs DEF DriverOK, DriverSteps
<1>16. ChargesAreTrue'
  BY PartsHold, <1>1, <1>2, <1>3, NumbersAre, GoalIs, RunIs DEF ChargesAreTrue, Reserved,
     HasGoal, TurnOK, OfTurn
<1>17. NeverOvercharged'
  BY PartsHold, <1>1, <1>2, <1>3, NumbersAre, GoalIs, RunIs DEF NeverOvercharged, HasGoal,
     TurnOK, OfTurn, Reserved
<1>18. QED BY PartsHold, <1>4, <1>5, <1>6, <1>7, <1>8, <1>9, <1>10, <1>11, <1>12, <1>13, <1>14,
    <1>15, <1>16, <1>17 DEF GoalIInv, LimitsAssumption

LEMMA GoalEditInv ==
  ASSUME GoalIInv, NEW b \in Budgets, GoalEdit(b)
  PROVE  GoalIInv'
<1>1. /\ acts' = acts + 1 /\ UNCHANGED crashes /\ driver.step # "down"
      /\ rev' = rev + 1 /\ srev' = srev + 1 /\ contested' = TRUE /\ consent' = FALSE
      /\ UNCHANGED <<turn, run, input, decision, cleanup, owner, driver, task, lock, used>>
      /\ issued' = issued /\ turn.state # "reserved" /\ HasGoal
  BY DEF GoalEdit, Update, Act, Idle, Reserved
<1>2. PICK s \in {"Limited", "Paused"} :
        /\ goal' \in Goals /\ goal'.id = goal.id /\ goal'.status = s /\ goal'.authorized = FALSE
        /\ goal'.spent = goal.spent /\ goal'.unmeasured = goal.unmeasured
  <2>1. goal \in Goals BY <1>1, GoalIs
  <2> DEFINE h == [goal EXCEPT !.budget = b, !.authorized = FALSE]
  <2>2. /\ h \in Goals /\ h.id = goal.id /\ h.authorized = FALSE /\ h.spent = goal.spent
        /\ h.unmeasured = goal.unmeasured
    BY <2>1 DEF Goals
  <2>3. goal' = [h EXCEPT !.status = IF LimitReached(h) THEN "Limited" ELSE "Paused"]
    BY DEF GoalEdit, Update
  <2> HIDE DEF h
  <2>4. PICK s \in {"Limited", "Paused"} : goal' = [h EXCEPT !.status = s] BY <2>3
  <2>5. QED BY <2>2, <2>4 DEF Goals, Statuses, Stopped
<1>3. GoalTypeOK'
  BY PartsHold, <1>1, <1>2, GoalIs, FlagsAre DEF GoalTypeOK, HasGoal, ConsentOK, Active
<1>4. NumbersOK' BY <1>1, NumbersHold, NumbersAre, TurnIs
<1>5. GhostOK' BY <1>1 DEF GhostOK
<1>6. RunOK' BY PartsHold, <1>1, RunIs DEF RunOK
<1>7. WakeOK' BY PartsHold, <1>1, DriverIs DEF WakeOK
<1>8. NamesOK' BY <1>1, <1>2, NamesHold
<1>9. UnusedOK' BY PartsHold, <1>1, NumbersAre, GoalIs DEF UnusedOK, HasGoal, NamesOK
<1>10. ConsentOK' BY PartsHold, <1>1, <1>2, GoalIs DEF ConsentOK, HasGoal, Active, Continuing
<1>11. TurnOK'
  BY PartsHold, <1>1, <1>2, NumbersAre, GoalIs, RunIs, TurnIs DEF TurnOK, Reserved, OfTurn,
     HasGoal, TaskOK, NamesOK, ChargesAreTrue
<1>12. TaskOK'
  BY PartsHold, <1>1, RunIs, TurnIs, DriverIs, FlagsAre, NumbersAre DEF TaskOK, Reserved, OfTurn,
     NamesOK, DriverSteps
<1>13. ReportOK'
  BY PartsHold, <1>1, <1>2, NumbersAre, GoalIs, RunIs DEF ReportOK, Continuing, Active, HasGoal,
     NamesOK, ConsentOK, TaskOK
<1>14. DriverOK' BY PartsHold, <1>1, DriverIs DEF DriverOK, DriverSteps
<1>15. ChargesAreTrue'
  BY PartsHold, <1>1, <1>2, NumbersAre, GoalIs, RunIs DEF ChargesAreTrue, Reserved, HasGoal,
     TurnOK, OfTurn
<1>16. NeverOvercharged'
  BY PartsHold, <1>1, <1>2, NumbersAre, GoalIs, RunIs DEF NeverOvercharged, HasGoal, TurnOK,
     OfTurn, Reserved
<1>17. QED BY PartsHold, <1>3, <1>4, <1>5, <1>6, <1>7, <1>8, <1>9, <1>10, <1>11, <1>12, <1>13,
    <1>14, <1>15, <1>16 DEF GoalIInv, LimitsAssumption

LEMMA GoalPauseInv ==
  ASSUME GoalIInv, GoalPause
  PROVE  GoalIInv'
<1>1. /\ acts' = acts + 1 /\ UNCHANGED crashes /\ driver.step # "down"
      /\ rev' = rev + 1 /\ srev' = srev + 1 /\ contested' = TRUE /\ consent' = FALSE
      /\ UNCHANGED <<turn, run, input, decision, cleanup, owner, driver, task, lock, used>>
      /\ issued' = issued /\ HasGoal
  BY DEF GoalPause, Update, Act
<1>2. Marked(goal, goal', "Paused", FALSE)
  <2>1. goal \in Goals /\ "Paused" \in Statuses BY <1>1, GoalIs DEF Statuses, Stopped
  <2>2. goal' = [goal EXCEPT !.status = "Paused", !.authorized = FALSE] BY DEF GoalPause, Update
  <2>3. QED BY <2>1, <2>2, MarkIs
<1>3. GoalTypeOK'
  BY PartsHold, <1>1, <1>2, GoalIs, FlagsAre DEF GoalTypeOK, HasGoal, ConsentOK, Active, Marked
<1>4. NumbersOK' BY <1>1, NumbersHold, NumbersAre, TurnIs
<1>5. GhostOK' BY <1>1 DEF GhostOK
<1>6. RunOK' BY PartsHold, <1>1, RunIs DEF RunOK
<1>7. WakeOK' BY PartsHold, <1>1, DriverIs DEF WakeOK
<1>8. NamesOK' BY <1>1, <1>2, NamesHold DEF Marked
<1>9. UnusedOK' BY PartsHold, <1>1, NumbersAre, GoalIs DEF UnusedOK, HasGoal, NamesOK, Marked
<1>10. ConsentOK'
  BY PartsHold, <1>1, <1>2, GoalIs DEF ConsentOK, HasGoal, Active, Continuing, Marked
<1>11. TurnOK'
  BY PartsHold, <1>1, <1>2, NumbersAre, GoalIs, RunIs, TurnIs DEF TurnOK, Reserved, OfTurn,
     HasGoal, TaskOK, NamesOK, ChargesAreTrue, Marked
<1>12. TaskOK'
  BY PartsHold, <1>1, RunIs, TurnIs, DriverIs, FlagsAre, NumbersAre DEF TaskOK, Reserved, OfTurn,
     NamesOK, DriverSteps
<1>13. ReportOK'
  BY PartsHold, <1>1, <1>2, NumbersAre, GoalIs, RunIs DEF ReportOK, Continuing, Active, HasGoal,
     NamesOK, ConsentOK, TaskOK, Marked
<1>14. DriverOK' BY PartsHold, <1>1, DriverIs DEF DriverOK, DriverSteps
<1>15. ChargesAreTrue'
  BY PartsHold, <1>1, <1>2, NumbersAre, GoalIs, RunIs DEF ChargesAreTrue, Reserved, HasGoal,
     TurnOK, OfTurn, Marked
<1>16. NeverOvercharged'
  BY PartsHold, <1>1, <1>2, NumbersAre, GoalIs, RunIs DEF NeverOvercharged, HasGoal, TurnOK,
     OfTurn, Reserved, Marked
<1>17. QED BY PartsHold, <1>3, <1>4, <1>5, <1>6, <1>7, <1>8, <1>9, <1>10, <1>11, <1>12, <1>13,
    <1>14, <1>15, <1>16 DEF GoalIInv, LimitsAssumption

LEMMA GoalResumeInv ==
  ASSUME GoalIInv, GoalResume
  PROVE  GoalIInv'
<1>1. /\ acts' = acts + 1 /\ UNCHANGED crashes /\ driver.step # "down"
      /\ rev' = rev + 1 /\ srev' = srev + 1 /\ contested' = TRUE /\ consent' = TRUE
      /\ UNCHANGED <<turn, run, input, decision, cleanup, owner, driver, task, lock, used>>
      /\ issued' = issued /\ HasGoal /\ turn.state # "reserved"
  BY DEF GoalResume, Update, Act, Idle, Reserved
<1>2. Marked(goal, goal', "Active", TRUE)
  <2>1. goal \in Goals /\ "Active" \in Statuses BY <1>1, GoalIs DEF Statuses, Stopped
  <2>2. goal' = [goal EXCEPT !.status = "Active", !.authorized = TRUE] BY DEF GoalResume, Update
  <2>3. QED BY <2>1, <2>2, MarkIs
<1>3. GoalTypeOK'
  BY PartsHold, <1>1, <1>2, GoalIs, FlagsAre DEF GoalTypeOK, HasGoal, ConsentOK, Active, Marked
<1>4. NumbersOK' BY <1>1, NumbersHold, NumbersAre, TurnIs
<1>5. GhostOK' BY <1>1 DEF GhostOK
<1>6. RunOK' BY PartsHold, <1>1, RunIs DEF RunOK
<1>7. WakeOK' BY PartsHold, <1>1, DriverIs DEF WakeOK
<1>8. NamesOK' BY <1>1, <1>2, NamesHold DEF Marked
<1>9. UnusedOK' BY PartsHold, <1>1, NumbersAre, GoalIs DEF UnusedOK, HasGoal, NamesOK, Marked
<1>10. ConsentOK'
  BY PartsHold, <1>1, <1>2, GoalIs DEF ConsentOK, HasGoal, Active, Continuing, Marked
<1>11. TurnOK'
  BY PartsHold, <1>1, <1>2, NumbersAre, GoalIs, RunIs, TurnIs DEF TurnOK, Reserved, OfTurn,
     HasGoal, TaskOK, NamesOK, ChargesAreTrue, Marked
<1>12. TaskOK'
  BY PartsHold, <1>1, RunIs, TurnIs, DriverIs, FlagsAre, NumbersAre DEF TaskOK, Reserved, OfTurn,
     NamesOK, DriverSteps
<1>13. ReportOK'
  BY PartsHold, <1>1, <1>2, NumbersAre, GoalIs, RunIs DEF ReportOK, Continuing, Active, HasGoal,
     NamesOK, ConsentOK, TaskOK, Marked
<1>14. DriverOK' BY PartsHold, <1>1, DriverIs DEF DriverOK, DriverSteps
<1>15. ChargesAreTrue'
  BY PartsHold, <1>1, <1>2, NumbersAre, GoalIs, RunIs DEF ChargesAreTrue, Reserved, HasGoal,
     TurnOK, OfTurn, Marked
<1>16. NeverOvercharged'
  BY PartsHold, <1>1, <1>2, NumbersAre, GoalIs, RunIs DEF NeverOvercharged, HasGoal, TurnOK,
     OfTurn, Reserved, Marked
<1>17. QED BY PartsHold, <1>3, <1>4, <1>5, <1>6, <1>7, <1>8, <1>9, <1>10, <1>11, <1>12, <1>13,
    <1>14, <1>15, <1>16 DEF GoalIInv, LimitsAssumption

LEMMA GoalClearInv ==
  ASSUME GoalIInv, GoalClear
  PROVE  GoalIInv'
<1>1. /\ acts' = acts + 1 /\ UNCHANGED crashes /\ driver.step # "down"
      /\ rev' = rev + 1 /\ srev' = srev + 1 /\ contested' = TRUE /\ consent' = FALSE
      /\ UNCHANGED <<turn, run, input, decision, cleanup, owner, driver, task, lock, used>>
      /\ issued' = issued /\ turn.state # "reserved" /\ goal' = NoGoal /\ goal'.id = 0
  BY DEF GoalClear, Update, Act, Idle, Reserved, NoGoal
<1>2. GoalTypeOK' BY PartsHold, <1>1, GoalIs, FlagsAre DEF GoalTypeOK, HasGoal, ConsentOK, Active
<1>3. NumbersOK' BY <1>1, NumbersHold, NumbersAre, TurnIs
<1>4. GhostOK' BY <1>1 DEF GhostOK
<1>5. RunOK' BY PartsHold, <1>1, RunIs DEF RunOK
<1>6. WakeOK' BY PartsHold, <1>1, DriverIs DEF WakeOK
<1>7. NamesOK' BY PartsHold, <1>1, NumbersAre, RunIs, TurnIs DEF NamesOK, HasGoal
<1>8. UnusedOK' BY PartsHold, <1>1, NumbersAre, GoalIs DEF UnusedOK, HasGoal, NamesOK
<1>9. ConsentOK' BY PartsHold, <1>1, GoalIs DEF ConsentOK, HasGoal, Active, Continuing
<1>10. TurnOK'
  BY PartsHold, <1>1, NumbersAre, GoalIs, RunIs, TurnIs DEF TurnOK, Reserved, OfTurn, HasGoal,
     TaskOK, NamesOK, ChargesAreTrue
<1>11. TaskOK'
  BY PartsHold, <1>1, RunIs, TurnIs, DriverIs, FlagsAre, NumbersAre DEF TaskOK, Reserved, OfTurn,
     NamesOK, DriverSteps
<1>12. ReportOK'
  BY PartsHold, <1>1, NumbersAre, GoalIs, RunIs DEF ReportOK, Continuing, Active, HasGoal,
     NamesOK, ConsentOK, TaskOK
<1>13. DriverOK' BY PartsHold, <1>1, DriverIs DEF DriverOK, DriverSteps
<1>14. ChargesAreTrue'
  BY PartsHold, <1>1, NumbersAre, GoalIs, RunIs DEF ChargesAreTrue, Reserved, HasGoal, TurnOK,
     OfTurn
<1>15. NeverOvercharged'
  BY PartsHold, <1>1, NumbersAre, GoalIs, RunIs DEF NeverOvercharged, HasGoal, TurnOK, OfTurn,
     Reserved
<1>16. QED BY PartsHold, <1>2, <1>3, <1>4, <1>5, <1>6, <1>7, <1>8, <1>9, <1>10, <1>11, <1>12,
    <1>13, <1>14, <1>15 DEF GoalIInv, LimitsAssumption

LEMMA RevokeInv ==
  ASSUME GoalIInv, Revoke
  PROVE  GoalIInv'
BY QuietKeeps, FlagsAre, NumbersAre, DriverIs DEF Revoke, Act, journal, volatile, ghost,
   DriverSteps

LEMMA RestoreInv ==
  ASSUME GoalIInv, Restore
  PROVE  GoalIInv'
BY QuietKeeps, FlagsAre, NumbersAre, DriverIs DEF Restore, Act, journal, volatile, ghost,
   DriverSteps

LEMMA InputBindInv ==
  ASSUME GoalIInv, InputBind
  PROVE  GoalIInv'
BY QuietKeeps, FlagsAre, NumbersAre, DriverIs DEF InputBind, Act, journal, volatile, ghost,
   DriverSteps

LEMMA InputAdmitInv ==
  ASSUME GoalIInv, InputAdmit
  PROVE  GoalIInv'
<1>1. /\ UNCHANGED <<acts, crashes, issued, turn, decision, cleanup, owner, driver, wake, used>>
      /\ driver.step # "down" /\ task = "none" /\ input' = FALSE /\ task' = "setup"
      /\ lock' = "submit"
      /\ consent' = FALSE /\ contested' = TRUE
  BY DEF InputAdmit
<1>2. GoalStops BY StopIs DEF InputAdmit, GoalStops, Halts
<1>3. /\ run' \in Runs /\ run'.state = "Accepted" /\ run'.cmd = 0 /\ run'.open = 0
      /\ run'.seen = 0
      /\ run'.metered = FALSE /\ run'.report = "none" /\ run'.context = 0
  BY DEF InputAdmit, NewRun, Runs
<1>4. Reserved => used[goal.id] = goal.spent
  <2>1. Reserved /\ OfTurn => run.seen = 0 /\ run.open = 0 BY PartsHold, <1>1 DEF TaskOK
  <2>2. QED BY PartsHold, <2>1, GoalIs DEF TurnOK
<1>5. /\ goal'.id = goal.id
      /\ Reserved => /\ goal'.spent = goal.spent /\ goal'.stall = goal.stall
                     /\ goal'.unmeasured = goal.unmeasured
  BY <1>2 DEF GoalStops, Marked
<1>6. ~OfTurn' BY <1>3 DEF OfTurn
<1>7. GoalTypeOK'
  BY PartsHold, <1>1, <1>2, <1>3, <1>4, GoalIs, FlagsAre DEF GoalTypeOK, HasGoal, ConsentOK,
     Active, GoalStops, Marked, Stopped, Halts
<1>8. NumbersOK'
  BY <1>1, <1>2, <1>4, NumbersHold, NumbersAre, TurnIs DEF GoalStops, Marked, Stopped, Halts
<1>9. GhostOK' BY <1>1, <1>4 DEF GhostOK
<1>10. RunOK' BY <1>3, <1>4, RunIs DEF RunOK
<1>11. WakeOK' BY PartsHold, <1>1, <1>4, DriverIs DEF WakeOK
<1>12. NamesOK'
  BY PartsHold, <1>1, <1>2, <1>3, <1>4, NumbersAre, RunIs, TurnIs DEF NamesOK, HasGoal,
     GoalStops, Marked, Stopped, Halts
<1>13. UnusedOK'
  BY PartsHold, <1>1, <1>4, NumbersAre, GoalIs DEF UnusedOK, HasGoal, NamesOK, GoalStops, Marked,
     Stopped, Halts
<1>14. ConsentOK'
  BY PartsHold, <1>1, <1>2, <1>4, GoalIs DEF ConsentOK, HasGoal, Active, Continuing, GoalStops,
     Marked, Stopped, Halts
<1>15. TurnOK'
  BY PartsHold, <1>1, <1>4, <1>5, <1>6, NumbersAre, GoalIs, RunIs, TurnIs DEF TurnOK, Reserved,
     OfTurn, HasGoal, TaskOK, NamesOK, ChargesAreTrue, GoalStops, Marked, Stopped, Halts
<1>16. TaskOK'
  BY PartsHold, <1>1, <1>3, <1>4, RunIs, TurnIs, DriverIs, FlagsAre, NumbersAre DEF TaskOK,
     Reserved, OfTurn, NamesOK, DriverSteps
<1>17. ReportOK'
  BY PartsHold, <1>1, <1>2, <1>3, <1>4, NumbersAre, GoalIs, RunIs DEF ReportOK, Continuing,
     Active, HasGoal, NamesOK, ConsentOK, TaskOK, GoalStops, Marked, Stopped, Halts
<1>18. DriverOK' BY PartsHold, <1>1, <1>4, DriverIs DEF DriverOK, DriverSteps
<1>19. ChargesAreTrue'
  BY PartsHold, <1>1, <1>2, <1>4, NumbersAre, GoalIs, RunIs DEF ChargesAreTrue, Reserved,
     HasGoal, TurnOK, OfTurn, GoalStops, Marked, Stopped, Halts
<1>20. NeverOvercharged'
  BY PartsHold, <1>1, <1>2, <1>4, NumbersAre, GoalIs, RunIs DEF NeverOvercharged, HasGoal,
     TurnOK, OfTurn, Reserved, GoalStops, Marked, Stopped, Halts
<1>21. QED BY PartsHold, <1>7, <1>8, <1>9, <1>10, <1>11, <1>12, <1>13, <1>14, <1>15, <1>16,
    <1>17, <1>18, <1>19, <1>20 DEF GoalIInv, LimitsAssumption

LEMMA InputRejectInv ==
  ASSUME GoalIInv, InputReject
  PROVE  GoalIInv'
BY QuietKeeps, FlagsAre, NumbersAre, DriverIs DEF InputReject, journal, volatile, ghost,
   DriverSteps

LEMMA SteerRunInv ==
  ASSUME GoalIInv, SteerRun
  PROVE  GoalIInv'
<1>1. /\ acts' = acts + 1 /\ consent' = FALSE /\ contested' = TRUE
      /\ UNCHANGED <<crashes, issued, turn, run, input, decision, cleanup, owner, driver, task,
                     lock, used>>
  BY DEF SteerRun, Act, volatile
<1>2. GoalStops BY StopIs DEF SteerRun, GoalStops, Halts
<1>3. GoalTypeOK'
  BY PartsHold, <1>1, <1>2, GoalIs, FlagsAre DEF GoalTypeOK, HasGoal, ConsentOK, Active,
     GoalStops, Marked, Stopped, Halts
<1>4. NumbersOK'
  BY <1>1, <1>2, NumbersHold, NumbersAre, TurnIs DEF GoalStops, Marked, Stopped, Halts
<1>5. GhostOK' BY <1>1 DEF GhostOK
<1>6. RunOK' BY PartsHold, <1>1, RunIs DEF RunOK
<1>7. WakeOK' BY PartsHold, <1>1, DriverIs DEF WakeOK
<1>8. NamesOK' BY <1>1, <1>2, NamesHold DEF GoalStops, Marked
<1>9. UnusedOK'
  BY PartsHold, <1>1, NumbersAre, GoalIs DEF UnusedOK, HasGoal, NamesOK, GoalStops, Marked,
     Stopped, Halts
<1>10. ConsentOK'
  BY PartsHold, <1>1, <1>2, GoalIs DEF ConsentOK, HasGoal, Active, Continuing, GoalStops, Marked,
     Stopped, Halts
<1>11. TurnOK'
  BY PartsHold, <1>1, <1>2, NumbersAre, GoalIs, RunIs, TurnIs DEF TurnOK, Reserved, OfTurn,
     HasGoal, TaskOK, NamesOK, ChargesAreTrue, GoalStops, Marked, Stopped, Halts
<1>12. TaskOK'
  BY PartsHold, <1>1, RunIs, TurnIs, DriverIs, FlagsAre, NumbersAre DEF TaskOK, Reserved, OfTurn,
     NamesOK, DriverSteps
<1>13. ReportOK'
  BY PartsHold, <1>1, <1>2, NumbersAre, GoalIs, RunIs DEF ReportOK, Continuing, Active, HasGoal,
     NamesOK, ConsentOK, TaskOK, GoalStops, Marked, Stopped, Halts
<1>14. DriverOK' BY PartsHold, <1>1, DriverIs DEF DriverOK, DriverSteps
<1>15. ChargesAreTrue'
  BY PartsHold, <1>1, <1>2, NumbersAre, GoalIs, RunIs DEF ChargesAreTrue, Reserved, HasGoal,
     TurnOK, OfTurn, GoalStops, Marked, Stopped, Halts
<1>16. NeverOvercharged'
  BY PartsHold, <1>1, <1>2, NumbersAre, GoalIs, RunIs DEF NeverOvercharged, HasGoal, TurnOK,
     OfTurn, Reserved, GoalStops, Marked, Stopped, Halts
<1>17. QED BY PartsHold, <1>3, <1>4, <1>5, <1>6, <1>7, <1>8, <1>9, <1>10, <1>11, <1>12, <1>13,
    <1>14, <1>15, <1>16 DEF GoalIInv, LimitsAssumption

LEMMA DecisionAnswerInv ==
  ASSUME GoalIInv, DecisionAnswer
  PROVE  GoalIInv'
BY QuietKeeps, FlagsAre, NumbersAre, DriverIs DEF DecisionAnswer, journal, volatile, ghost,
   DriverSteps

LEMMA CleanupObserveInv ==
  ASSUME GoalIInv, NEW e \in {"observed","attested"}, CleanupObserve(e)
  PROVE  GoalIInv'
BY QuietKeeps, FlagsAre, NumbersAre, DriverIs DEF CleanupObserve, journal, volatile, ghost,
   DriverSteps

(* The driver.                                                             *)
LEMMA DriverWakeInv ==
  ASSUME GoalIInv, DriverWake
  PROVE  GoalIInv'
<1>1. \/ driver' = driver
      \/ /\ driver' \in [step : DriverSteps, rev : Nat] /\ driver'.step = "gate"
         /\ driver.step = "wait"
  BY NumbersAre, DriverIs DEF DriverWake, DriverSteps
<1>2. QED BY <1>1, QuietKeeps, FlagsAre, NumbersAre DEF DriverWake, journal, volatile, ghost

LEMMA DriverStopInv ==
  ASSUME GoalIInv, DriverStop
  PROVE  GoalIInv'
<1>1. /\ UNCHANGED <<acts, crashes, issued, turn, run, input, decision, cleanup, owner, task,
                     used,
                     consent, contested>>
      /\ driver' = [step |-> "wait"] /\ driver'.step = "wait" /\ lock' = "free"
      /\ driver.step = "gate"
  BY DEF DriverStop, ghost
<1>2. GoalStops \/ UNCHANGED <<goal, rev, srev>>
  BY StopIs DEF DriverStop, StopGoal, GoalStops, Halts
<1>3. GoalTypeOK'
  BY PartsHold, <1>1, <1>2, GoalIs, FlagsAre DEF GoalTypeOK, HasGoal, ConsentOK, Active,
     GoalStops, Marked, Stopped, Halts
<1>4. NumbersOK'
  BY <1>1, <1>2, NumbersHold, NumbersAre, TurnIs DEF GoalStops, Marked, Stopped, Halts
<1>5. GhostOK' BY PartsHold, <1>1 DEF GhostOK
<1>6. RunOK' BY PartsHold, <1>1, RunIs DEF RunOK
<1>7. WakeOK' BY PartsHold, <1>1, DriverIs DEF WakeOK
<1>8. NamesOK' BY <1>1, <1>2, NamesHold DEF GoalStops, Marked
<1>9. UnusedOK'
  BY PartsHold, <1>1, NumbersAre, GoalIs DEF UnusedOK, HasGoal, NamesOK, GoalStops, Marked,
     Stopped, Halts
<1>10. ConsentOK'
  BY PartsHold, <1>1, <1>2, GoalIs DEF ConsentOK, HasGoal, Active, Continuing, GoalStops, Marked,
     Stopped, Halts
<1>11. TurnOK'
  BY PartsHold, <1>1, <1>2, NumbersAre, GoalIs, RunIs, TurnIs DEF TurnOK, Reserved, OfTurn,
     HasGoal, TaskOK, NamesOK, ChargesAreTrue, GoalStops, Marked, Stopped, Halts
<1>12. TaskOK'
  BY PartsHold, <1>1, RunIs, TurnIs, DriverIs, FlagsAre, NumbersAre DEF TaskOK, Reserved, OfTurn,
     NamesOK, DriverSteps
<1>13. ReportOK'
  <2>1. CASE UNCHANGED <<goal, rev>>
    BY PartsHold, <1>1, <2>1 DEF ReportOK, Continuing, Active, HasGoal
  <2>2. CASE rev' = rev + 1
    <3>1. run.state # "none" => run.context # rev + 1 BY PartsHold, NumbersAre, RunIs DEF NamesOK
    <3>2. QED BY <1>1, <2>2, <3>1 DEF ReportOK
  <2>3. QED BY <1>2, <2>1, <2>2 DEF GoalStops
<1>14. DriverOK' BY PartsHold, <1>1, DriverIs DEF DriverOK, DriverSteps
<1>15. ChargesAreTrue'
  BY PartsHold, <1>1, <1>2, NumbersAre, GoalIs, RunIs DEF ChargesAreTrue, Reserved, HasGoal,
     TurnOK, OfTurn, GoalStops, Marked, Stopped, Halts
<1>16. NeverOvercharged'
  BY PartsHold, <1>1, <1>2, NumbersAre, GoalIs, RunIs DEF NeverOvercharged, HasGoal, TurnOK,
     OfTurn, Reserved, GoalStops, Marked, Stopped, Halts
<1>17. QED BY PartsHold, <1>3, <1>4, <1>5, <1>6, <1>7, <1>8, <1>9, <1>10, <1>11, <1>12, <1>13,
    <1>14, <1>15, <1>16 DEF GoalIInv, LimitsAssumption

LEMMA ReserveTurnInv ==
  ASSUME GoalIInv, ReserveTurn
  PROVE  GoalIInv'
<1>1. /\ UNCHANGED <<acts, crashes, issued, run, input, decision, cleanup, owner, task, lock,
                     used,
                     consent, contested>>
      /\ rev' = rev + 1 /\ srev' = srev + 1 /\ Continuing /\ turn.state # "reserved"
      /\ goal.unmeasured = 0 /\ run.state \notin {"Accepted", "Running"}
      /\ ~LimitReached(goal) /\ driver.step = "gate"
  BY DEF ReserveTurn, ghost, Idle, Reserved
<1>2. /\ HasGoal /\ goal \in Goals /\ goal.id \in 1..MaxGoals /\ goal.authorized
      /\ goal.status = "Active"
  BY <1>1, GoalIs DEF Continuing, Active
<1>3. goal.runs < RunLimit /\ goal.stall < StallLimit
  BY <1>1, <1>2, GoalIs, Limits DEF LimitReached
<1>4. /\ goal' \in Goals /\ goal'.id = goal.id /\ goal'.status = "Active"
      /\ goal'.authorized = goal.authorized
      /\ goal'.spent = goal.spent /\ goal'.unmeasured = goal.unmeasured
      /\ goal'.stall = goal.stall
  <2>1. goal.runs + 1 \in 0..RunLimit BY <1>2, <1>3, GoalIs, Limits
  <2>2. goal' = [goal EXCEPT !.runs = @ + 1] BY DEF ReserveTurn
  <2>3. QED BY <1>2, <2>1, <2>2 DEF Goals
<1>5. /\ turn' \in TurnRows /\ turn'.state = "reserved" /\ turn'.goal = goal.id
      /\ turn'.srev = srev + 1
      /\ turn'.born = crashes
  <2>1. goal.id \in 0..MaxGoals /\ srev + 1 \in Nat /\ crashes \in Nat BY <1>2, NumbersAre, Limits
  <2>2. QED BY <2>1 DEF ReserveTurn, TurnRows
<1>6. driver' \in [step : DriverSteps, rev : Nat] /\ driver'.step = "reserved"
  BY NumbersAre DEF ReserveTurn, DriverSteps
<1>7. run.cmd # turn'.srev BY PartsHold, <1>5, RunIs, NumbersAre DEF NamesOK
<1>8. GoalTypeOK'
  BY PartsHold, <1>1, <1>2, <1>3, <1>4, <1>5, <1>7, GoalIs, FlagsAre DEF GoalTypeOK, HasGoal,
     ConsentOK, Active
<1>9. NumbersOK' BY <1>1, <1>2, <1>3, <1>5, <1>7, NumbersHold, NumbersAre, TurnIs
<1>10. GhostOK' BY PartsHold, <1>1, <1>2, <1>3 DEF GhostOK
<1>11. RunOK' BY PartsHold, <1>1, <1>2, <1>3, RunIs DEF RunOK
<1>12. WakeOK' BY PartsHold, <1>2, <1>3, <1>6, DriverIs DEF WakeOK
<1>13. NamesOK'
  BY PartsHold, <1>1, <1>2, <1>3, <1>4, <1>5, <1>7, NumbersAre, RunIs, TurnIs DEF NamesOK, HasGoal
<1>14. UnusedOK' BY PartsHold, <1>1, <1>2, <1>3, NumbersAre, GoalIs DEF UnusedOK, HasGoal, NamesOK
<1>15. ConsentOK'
  BY PartsHold, <1>1, <1>2, <1>3, <1>4, GoalIs DEF ConsentOK, HasGoal, Active, Continuing
<1>16. TurnOK'
  BY PartsHold, <1>1, <1>2, <1>3, <1>4, <1>5, <1>7, NumbersAre, GoalIs, RunIs, TurnIs DEF TurnOK,
     Reserved, OfTurn, HasGoal, TaskOK, NamesOK, ChargesAreTrue
<1>17. TaskOK'
  BY PartsHold, <1>1, <1>2, <1>3, <1>5, <1>6, <1>7, RunIs, TurnIs, DriverIs, FlagsAre, NumbersAre
     DEF TaskOK, Reserved, OfTurn, NamesOK, DriverSteps
<1>18. ReportOK'
  BY PartsHold, <1>1, <1>2, <1>3, <1>4, NumbersAre, GoalIs, RunIs DEF ReportOK, Continuing,
     Active, HasGoal, NamesOK, ConsentOK, TaskOK
<1>19. DriverOK'
  BY PartsHold, <1>1, <1>2, <1>3, <1>5, <1>6, <1>7, DriverIs DEF DriverOK, DriverSteps
<1>20. ChargesAreTrue'
  BY PartsHold, <1>1, <1>2, <1>3, <1>4, <1>5, <1>7, NumbersAre, GoalIs, RunIs DEF ChargesAreTrue,
     Reserved, HasGoal, TurnOK, OfTurn
<1>21. NeverOvercharged'
  BY PartsHold, <1>1, <1>2, <1>3, <1>4, NumbersAre, GoalIs, RunIs DEF NeverOvercharged, HasGoal,
     TurnOK, OfTurn, Reserved
<1>22. QED BY PartsHold, <1>8, <1>9, <1>10, <1>11, <1>12, <1>13, <1>14, <1>15, <1>16, <1>17,
    <1>18, <1>19, <1>20, <1>21 DEF GoalIInv, LimitsAssumption

LEMMA DriverReleaseInv ==
  ASSUME GoalIInv, DriverRelease
  PROVE  GoalIInv'
<1>1. /\ driver' \in [step : DriverSteps, rev : Nat]
      /\ driver'.step \in {"dispatch", "abandon"} /\ driver.step = "reserved"
  BY NumbersAre, DriverIs DEF DriverRelease, DriverSteps
<1>2. QED BY <1>1, QuietKeeps, FlagsAre, NumbersAre DEF DriverRelease, journal, volatile, ghost

LEMMA DriverDispatchInv ==
  ASSUME GoalIInv, DriverDispatch
  PROVE  GoalIInv'
<1>1. /\ UNCHANGED <<acts, crashes, issued, goal, rev, turn, input, decision, cleanup, used,
                     consent,
                     contested>>
      /\ driver.step = "dispatch" /\ lock = "free" /\ task = "none"
  BY DEF DriverDispatch, ghost
<1>2. PICK x \in {"submit", "abandon"} : driver' = [driver EXCEPT !.step = x]
  BY DEF DriverDispatch
<1>3. driver' \in [step : DriverSteps, rev : Nat] /\ driver'.step \in {"submit", "abandon"}
  <2>1. driver \in [step : DriverSteps, rev : Nat] BY <1>1, DriverIs
  <2>2. QED BY <1>2, <2>1 DEF DriverSteps
<1>4. CASE Admissible
  <2>1. /\ run' = NewRun(turn.srev) /\ srev' = srev + 1 /\ task' = "setup" /\ lock' = "submit"
        /\ srev = turn.srev /\ Reserved
    BY <1>4 DEF DriverDispatch, Admissible
  <2>2. /\ run' \in Runs /\ run'.state = "Accepted" /\ run'.cmd = turn.srev /\ run'.open = 0
        /\ run'.seen = 0
        /\ run'.metered = FALSE /\ run'.report = "none" /\ run'.context = 0
    BY <2>1, TurnIs DEF NewRun, Runs
  <2>3. OfTurn => run.seen = 0 /\ run.open = 0 BY PartsHold, <1>1, <2>1 DEF TaskOK
  <2>4. GoalTypeOK'
    BY PartsHold, <1>1, <2>1, <2>2, <2>3, GoalIs, FlagsAre DEF GoalTypeOK, HasGoal, ConsentOK,
       Active
  <2>5. NumbersOK' BY <1>1, <2>1, <2>3, NumbersHold, NumbersAre, TurnIs
  <2>6. GhostOK' BY PartsHold, <1>1, <2>3 DEF GhostOK
  <2>7. RunOK' BY <2>1, <2>2, <2>3, RunIs DEF RunOK
  <2>8. WakeOK' BY PartsHold, <1>3, <2>3, DriverIs DEF WakeOK
  <2>9. NamesOK'
    BY PartsHold, <1>1, <2>1, <2>2, <2>3, NumbersAre, RunIs, TurnIs DEF NamesOK, HasGoal
  <2>10. UnusedOK' BY PartsHold, <1>1, <2>3, NumbersAre, GoalIs DEF UnusedOK, HasGoal, NamesOK
  <2>11. ConsentOK' BY PartsHold, <1>1, <2>3, GoalIs DEF ConsentOK, HasGoal, Active, Continuing
  <2>12. TurnOK'
    BY PartsHold, <1>1, <2>1, <2>2, <2>3, NumbersAre, GoalIs, RunIs, TurnIs DEF TurnOK, Reserved,
       OfTurn, HasGoal, TaskOK, NamesOK, ChargesAreTrue
  <2>13. TaskOK'
    BY PartsHold, <1>1, <1>3, <2>1, <2>2, <2>3, RunIs, TurnIs, DriverIs, FlagsAre, NumbersAre
       DEF TaskOK, Reserved, OfTurn, NamesOK, DriverSteps
  <2>14. ReportOK'
    BY PartsHold, <1>1, <2>1, <2>2, <2>3, NumbersAre, GoalIs, RunIs DEF ReportOK, Continuing,
       Active, HasGoal, NamesOK, ConsentOK, TaskOK
  <2>15. DriverOK' BY PartsHold, <1>1, <1>3, <2>3, DriverIs DEF DriverOK, DriverSteps
  <2>16. ChargesAreTrue'
    BY PartsHold, <1>1, <2>3, NumbersAre, GoalIs, RunIs DEF ChargesAreTrue, Reserved, HasGoal,
       TurnOK, OfTurn
  <2>17. NeverOvercharged'
    BY PartsHold, <1>1, <2>3, NumbersAre, GoalIs, RunIs DEF NeverOvercharged, HasGoal, TurnOK,
       OfTurn, Reserved
  <2>18. QED BY PartsHold, <2>4, <2>5, <2>6, <2>7, <2>8, <2>9, <2>10, <2>11, <2>12, <2>13, <2>14,
      <2>15, <2>16, <2>17 DEF GoalIInv, LimitsAssumption
<1>5. CASE ~Admissible
  <2>1. UNCHANGED <<run, srev, task, lock>> BY <1>5 DEF DriverDispatch
  <2>2. driver'.step = "abandon" BY <1>5, <1>1, DriverIs DEF DriverDispatch, DriverSteps
  <2>3. QED BY <1>1, <1>3, <2>1, <2>2, QuietKeeps, FlagsAre, NumbersAre
<1>6. QED BY <1>4, <1>5

LEMMA DriverRefusedInv ==
  ASSUME GoalIInv, DriverRefused
  PROVE  GoalIInv'
<1>1. /\ driver' \in [step : DriverSteps, rev : Nat]
      /\ driver'.step = "abandon" /\ driver.step = "dispatch"
  BY NumbersAre, DriverIs DEF DriverRefused, DriverSteps
<1>2. QED BY <1>1, QuietKeeps, FlagsAre, NumbersAre DEF DriverRefused, journal, volatile, ghost

LEMMA DriverAbandonInv ==
  ASSUME GoalIInv, DriverAbandon
  PROVE  GoalIInv'
<1>1. /\ UNCHANGED <<acts, crashes, issued, run, input, decision, cleanup, owner, task, used,
                     consent, contested>>
      /\ driver' = [step |-> "wait"] /\ driver'.step = "wait" /\ driver.step = "abandon"
      /\ lock' \in {"free", lock}
  BY DEF DriverAbandon, ghost
<1>2. CASE Reserved /\ ~OfTurn BY <1>1, <1>2, AbandonTurnKeeps, FlagsAre DEF DriverAbandon
<1>3. CASE ~(Reserved /\ ~OfTurn)
  <2>1. UNCHANGED <<goal, rev, srev, turn>> BY <1>3 DEF DriverAbandon
  <2>2. QED BY <1>1, <2>1, QuietKeeps, FlagsAre, NumbersAre
<1>4. QED BY <1>2, <1>3

(* The work of the run: its requests, its questions and its report.        *)
LEMMA RequestInv ==
  ASSUME GoalIInv, NEW c \in Costs, Request(c)
  PROVE  GoalIInv'
<1>1. /\ UNCHANGED <<acts, crashes, issued, goal, rev, srev, turn, input, decision, cleanup,
                     driver, task,
                     lock, consent, contested>>
      /\ task = "running" /\ run.metered /\ run.open = 0
      /\ run' = [run EXCEPT !.open = c, !.requests = @ + 1]
      /\ used' = [used EXCEPT ![turn.goal] = @ + c]
  BY DEF Request, volatile
<1>2. /\ Reserved /\ OfTurn /\ run \in Runs /\ turn.goal = goal.id /\ HasGoal /\ goal.id <= issued
      /\ goal.id \in 1..MaxGoals /\ used[goal.id] = goal.spent + run.seen /\ run.state # "none"
      /\ run.seen \in Nat /\ goal.spent \in Nat
  BY PartsHold, <1>1, GoalIs, RunIs DEF TaskOK, TurnOK, NamesOK
<1>3. c \in Nat BY Prices
<1>4. /\ run' \in Runs /\ run'.state = run.state /\ run'.cmd = run.cmd /\ run'.open = c
      /\ run'.seen = run.seen
      /\ run'.metered = run.metered /\ run'.report = run.report /\ run'.context = run.context
  <2>1. run.requests + 1 \in Nat BY <1>2 DEF Runs
  <2>2. QED BY <1>1, <1>2, <1>3, <2>1 DEF Runs
<1>5. /\ used' \in [1..MaxGoals -> Nat] /\ used'[goal.id] = used[goal.id] + c
      /\ \A g \in 1..MaxGoals : g # goal.id => used'[g] = used[g]
  <2>1. used \in [1..MaxGoals -> Nat] BY NumbersAre
  <2>2. used[goal.id] + c \in Nat BY <1>2, <1>3, <2>1
  <2>3. used' = [used EXCEPT ![goal.id] = used[goal.id] + c] BY <1>1, <1>2
  <2>4. QED BY <1>2, <2>1, <2>2, <2>3
<1>6. /\ OfTurn' /\ used'[goal'.id] = goal'.spent + (run'.seen + run'.open)
  <2>1. OfTurn' BY <1>1, <1>2, <1>4 DEF OfTurn
  <2>2. used'[goal.id] = (goal.spent + run.seen) + c BY <1>2, <1>5
  <2>3. QED BY <1>1, <1>2, <1>3, <1>4, <2>1, <2>2
<1>7. GoalTypeOK'
  BY PartsHold, <1>1, <1>2, <1>3, <1>4, GoalIs, FlagsAre DEF GoalTypeOK, HasGoal, ConsentOK,
     Active
<1>8. NumbersOK' BY <1>1, <1>2, <1>3, <1>5, NumbersHold, NumbersAre, TurnIs
<1>9. GhostOK' BY PartsHold, <1>1, <1>2, <1>3 DEF GhostOK
<1>10. RunOK' BY <1>1, <1>2, <1>3, <1>4, RunIs DEF RunOK
<1>11. WakeOK' BY PartsHold, <1>1, <1>2, <1>3, DriverIs DEF WakeOK
<1>12. NamesOK'
  BY PartsHold, <1>1, <1>2, <1>3, <1>4, NumbersAre, RunIs, TurnIs DEF NamesOK, HasGoal
<1>13. UnusedOK'
  BY PartsHold, <1>1, <1>2, <1>3, <1>5, NumbersAre, GoalIs DEF UnusedOK, HasGoal, NamesOK
<1>14. ConsentOK'
  BY PartsHold, <1>1, <1>2, <1>3, GoalIs DEF ConsentOK, HasGoal, Active, Continuing
<1>15. TurnOK'
  BY PartsHold, <1>1, <1>2, <1>6, NumbersAre, GoalIs, RunIs, TurnIs DEF TurnOK, Reserved, OfTurn,
     HasGoal, TaskOK, NamesOK, ChargesAreTrue
<1>16. TaskOK'
  BY PartsHold, <1>1, <1>2, <1>3, <1>4, RunIs, TurnIs, DriverIs, FlagsAre, NumbersAre DEF TaskOK,
     Reserved, OfTurn, NamesOK, DriverSteps
<1>17. ReportOK'
  BY PartsHold, <1>1, <1>2, <1>3, <1>4, NumbersAre, GoalIs, RunIs DEF ReportOK, Continuing,
     Active, HasGoal, NamesOK, ConsentOK, TaskOK
<1>18. DriverOK' BY PartsHold, <1>1, <1>2, <1>3, DriverIs DEF DriverOK, DriverSteps
<1>19. ChargesAreTrue'
  BY PartsHold, <1>1, <1>2, <1>3, <1>5, NumbersAre, GoalIs, RunIs DEF ChargesAreTrue, Reserved,
     HasGoal, TurnOK, OfTurn
<1>20. NeverOvercharged'
  <2>1. goal.spent <= used[goal.id] + c BY <1>2, <1>3
  <2>2. goal'.id = goal.id /\ goal'.spent <= used'[goal'.id] BY <1>1, <1>5, <2>1
  <2>3. QED BY <2>2 DEF NeverOvercharged
<1>21. QED BY PartsHold, <1>7, <1>8, <1>9, <1>10, <1>11, <1>12, <1>13, <1>14, <1>15, <1>16,
    <1>17, <1>18, <1>19, <1>20 DEF GoalIInv, LimitsAssumption

LEMMA ObserveInv ==
  ASSUME GoalIInv, Observe
  PROVE  GoalIInv'
<1>1. /\ UNCHANGED <<acts, crashes, issued, goal, rev, srev, turn, input, decision, cleanup,
                     driver, task, lock, used, consent, contested>>
      /\ task = "running" /\ run' = [run EXCEPT !.open = 0, !.seen = @ + run.open]
  BY DEF Observe, volatile, ghost
<1>2. run \in Runs /\ run.state # "none" /\ run.seen \in Nat /\ run.open \in Nat
  BY PartsHold, <1>1, RunIs DEF TaskOK
<1>3. /\ run' \in Runs /\ run'.state = run.state /\ run'.cmd = run.cmd /\ run'.open = 0
      /\ run'.seen = run.seen + run.open
      /\ run'.metered = run.metered /\ run'.report = run.report /\ run'.context = run.context
  <2>1. run.seen + run.open \in Nat BY <1>2
  <2>2. QED BY <1>1, <1>2, <2>1 DEF Runs
<1>4. GoalTypeOK'
  BY PartsHold, <1>1, <1>2, <1>3, GoalIs, FlagsAre DEF GoalTypeOK, HasGoal, ConsentOK, Active
<1>5. NumbersOK' BY <1>1, <1>2, NumbersHold, NumbersAre, TurnIs
<1>6. GhostOK' BY PartsHold, <1>1, <1>2 DEF GhostOK
<1>7. RunOK' BY <1>1, <1>2, <1>3, RunIs DEF RunOK
<1>8. WakeOK' BY PartsHold, <1>1, <1>2, DriverIs DEF WakeOK
<1>9. NamesOK' BY PartsHold, <1>1, <1>2, <1>3, NumbersAre, RunIs, TurnIs DEF NamesOK, HasGoal
<1>10. UnusedOK' BY PartsHold, <1>1, <1>2, NumbersAre, GoalIs DEF UnusedOK, HasGoal, NamesOK
<1>11. ConsentOK' BY PartsHold, <1>1, <1>2, GoalIs DEF ConsentOK, HasGoal, Active, Continuing
<1>12. TurnOK'
  <2>1. run'.seen + run'.open = run.seen + run.open /\ (OfTurn' <=> OfTurn)
    BY <1>1, <1>2, <1>3 DEF OfTurn
  <2>2. QED BY PartsHold, <1>1, <2>1 DEF TurnOK, Reserved, HasGoal
<1>13. TaskOK'
  BY PartsHold, <1>1, <1>2, <1>3, RunIs, TurnIs, DriverIs, FlagsAre, NumbersAre DEF TaskOK,
     Reserved, OfTurn, NamesOK, DriverSteps
<1>14. ReportOK'
  BY PartsHold, <1>1, <1>2, <1>3, NumbersAre, GoalIs, RunIs DEF ReportOK, Continuing, Active,
     HasGoal, NamesOK, ConsentOK, TaskOK
<1>15. DriverOK' BY PartsHold, <1>1, <1>2, DriverIs DEF DriverOK, DriverSteps
<1>16. ChargesAreTrue'
  BY PartsHold, <1>1, <1>2, NumbersAre, GoalIs, RunIs DEF ChargesAreTrue, Reserved, HasGoal,
     TurnOK, OfTurn
<1>17. NeverOvercharged'
  BY PartsHold, <1>1, <1>2, NumbersAre, GoalIs, RunIs DEF NeverOvercharged, HasGoal, TurnOK,
     OfTurn, Reserved
<1>18. QED BY PartsHold, <1>4, <1>5, <1>6, <1>7, <1>8, <1>9, <1>10, <1>11, <1>12, <1>13, <1>14,
    <1>15, <1>16, <1>17 DEF GoalIInv, LimitsAssumption

LEMMA AskInv ==
  ASSUME GoalIInv, Ask
  PROVE  GoalIInv'
<1>1. /\ UNCHANGED <<acts, crashes, issued, goal, rev, srev, turn, input, cleanup, driver,
                     task, lock,
                     used, consent, contested>>
      /\ task = "running" /\ run' = [run EXCEPT !.asked = TRUE] /\ decision' = TRUE
  BY DEF Ask, volatile, ghost
<1>2. run \in Runs BY PartsHold, <1>1, RunIs DEF TaskOK
<1>3. /\ run' \in Runs /\ run'.cmd = run.cmd /\ run'.open = run.open /\ run'.seen = run.seen
      /\ run'.state = run.state /\ run'.metered = run.metered /\ run'.report = run.report
      /\ run'.context = run.context
  BY <1>1, <1>2 DEF Runs
<1>4. GoalTypeOK'
  BY PartsHold, <1>1, <1>2, <1>3, GoalIs, FlagsAre DEF GoalTypeOK, HasGoal, ConsentOK, Active
<1>5. NumbersOK' BY <1>1, <1>2, NumbersHold, NumbersAre, TurnIs
<1>6. GhostOK' BY PartsHold, <1>1, <1>2 DEF GhostOK
<1>7. RunOK' BY <1>1, <1>2, <1>3, RunIs DEF RunOK
<1>8. WakeOK' BY PartsHold, <1>1, <1>2, DriverIs DEF WakeOK
<1>9. NamesOK' BY PartsHold, <1>1, <1>2, <1>3, NumbersAre, RunIs, TurnIs DEF NamesOK, HasGoal
<1>10. UnusedOK' BY PartsHold, <1>1, <1>2, NumbersAre, GoalIs DEF UnusedOK, HasGoal, NamesOK
<1>11. ConsentOK' BY PartsHold, <1>1, <1>2, GoalIs DEF ConsentOK, HasGoal, Active, Continuing
<1>12. TurnOK'
  BY PartsHold, <1>1, <1>2, <1>3, NumbersAre, GoalIs, RunIs, TurnIs DEF TurnOK, Reserved, OfTurn,
     HasGoal, TaskOK, NamesOK, ChargesAreTrue
<1>13. TaskOK'
  BY PartsHold, <1>1, <1>2, <1>3, RunIs, TurnIs, DriverIs, FlagsAre, NumbersAre DEF TaskOK,
     Reserved, OfTurn, NamesOK, DriverSteps
<1>14. ReportOK'
  BY PartsHold, <1>1, <1>2, <1>3, NumbersAre, GoalIs, RunIs DEF ReportOK, Continuing, Active,
     HasGoal, NamesOK, ConsentOK, TaskOK
<1>15. DriverOK' BY PartsHold, <1>1, <1>2, DriverIs DEF DriverOK, DriverSteps
<1>16. ChargesAreTrue'
  BY PartsHold, <1>1, <1>2, NumbersAre, GoalIs, RunIs DEF ChargesAreTrue, Reserved, HasGoal,
     TurnOK, OfTurn
<1>17. NeverOvercharged'
  BY PartsHold, <1>1, <1>2, NumbersAre, GoalIs, RunIs DEF NeverOvercharged, HasGoal, TurnOK,
     OfTurn, Reserved
<1>18. QED BY PartsHold, <1>4, <1>5, <1>6, <1>7, <1>8, <1>9, <1>10, <1>11, <1>12, <1>13, <1>14,
    <1>15, <1>16, <1>17 DEF GoalIInv, LimitsAssumption

LEMMA ReportInv ==
  ASSUME GoalIInv, NEW o \in {"Complete","Blocked"}, Report(o)
  PROVE  GoalIInv'
<1>1. /\ UNCHANGED <<acts, crashes, issued, goal, rev, srev, turn, input, decision, cleanup,
                     driver, task,
                     lock, used, consent>>
      /\ task = "running" /\ rev = run.context /\ Continuing /\ contested' = FALSE
      /\ run' = [run EXCEPT !.report = o]
  BY DEF Report, volatile
<1>2. run \in Runs BY PartsHold, <1>1, RunIs DEF TaskOK
<1>3. /\ run' \in Runs /\ run'.cmd = run.cmd /\ run'.open = run.open /\ run'.seen = run.seen
      /\ run'.state = run.state /\ run'.metered = run.metered /\ run'.report = o
      /\ run'.context = run.context
  BY <1>1, <1>2 DEF Runs
<1>4. GoalTypeOK'
  BY PartsHold, <1>1, <1>2, <1>3, GoalIs, FlagsAre DEF GoalTypeOK, HasGoal, ConsentOK, Active
<1>5. NumbersOK' BY <1>1, <1>2, NumbersHold, NumbersAre, TurnIs
<1>6. GhostOK' BY PartsHold, <1>1, <1>2 DEF GhostOK
<1>7. RunOK' BY <1>1, <1>2, <1>3, RunIs DEF RunOK
<1>8. WakeOK' BY PartsHold, <1>1, <1>2, DriverIs DEF WakeOK
<1>9. NamesOK' BY PartsHold, <1>1, <1>2, <1>3, NumbersAre, RunIs, TurnIs DEF NamesOK, HasGoal
<1>10. UnusedOK' BY PartsHold, <1>1, <1>2, NumbersAre, GoalIs DEF UnusedOK, HasGoal, NamesOK
<1>11. ConsentOK' BY PartsHold, <1>1, <1>2, GoalIs DEF ConsentOK, HasGoal, Active, Continuing
<1>12. TurnOK'
  BY PartsHold, <1>1, <1>2, <1>3, NumbersAre, GoalIs, RunIs, TurnIs DEF TurnOK, Reserved, OfTurn,
     HasGoal, TaskOK, NamesOK, ChargesAreTrue
<1>13. TaskOK'
  BY PartsHold, <1>1, <1>2, <1>3, RunIs, TurnIs, DriverIs, FlagsAre, NumbersAre DEF TaskOK,
     Reserved, OfTurn, NamesOK, DriverSteps
<1>14. ReportOK'
  BY PartsHold, <1>1, <1>2, <1>3, NumbersAre, GoalIs, RunIs DEF ReportOK, Continuing, Active,
     HasGoal, NamesOK, ConsentOK, TaskOK
<1>15. DriverOK' BY PartsHold, <1>1, <1>2, DriverIs DEF DriverOK, DriverSteps
<1>16. ChargesAreTrue'
  BY PartsHold, <1>1, <1>2, NumbersAre, GoalIs, RunIs DEF ChargesAreTrue, Reserved, HasGoal,
     TurnOK, OfTurn
<1>17. NeverOvercharged'
  BY PartsHold, <1>1, <1>2, NumbersAre, GoalIs, RunIs DEF NeverOvercharged, HasGoal, TurnOK,
     OfTurn, Reserved
<1>18. QED BY PartsHold, <1>4, <1>5, <1>6, <1>7, <1>8, <1>9, <1>10, <1>11, <1>12, <1>13, <1>14,
    <1>15, <1>16, <1>17 DEF GoalIInv, LimitsAssumption

(* The task: its start, its ends and its settlement.                       *)
LEMMA TaskStartInv ==
  ASSUME GoalIInv, TaskStart
  PROVE  GoalIInv'
<1>1. /\ UNCHANGED <<acts, crashes, issued, goal, rev, srev, turn, input, decision, used,
                     consent, contested>>
      /\ task = "setup" /\ cleanup' = "pending" /\ task' = "running" /\ lock' = "free"
      /\ (OfTurn => MeterReady)
  BY DEF TaskStart, ghost
<1>2. /\ run \in Runs /\ run.state = "Accepted" /\ run.report = "none" /\ driver.step # "down"
  BY PartsHold, <1>1, RunIs DEF TaskOK
<1>3. /\ run' \in Runs /\ run'.cmd = run.cmd /\ run'.open = run.open /\ run'.seen = run.seen
      /\ run'.state = "Running" /\ run'.metered = OfTurn /\ run'.report = "none"
      /\ run'.context = rev
  <2> DEFINE al == IF OfTurn THEN goal.budget - goal.spent ELSE 0
             me == OfTurn
  <2>1. al \in Nat BY <1>1, GoalIs DEF MeterReady, Continuing, Active
  <2>2. run' = [run EXCEPT !.state = "Running", !.metered = me, !.allowance = al, !.context = rev]
    BY DEF TaskStart
  <2>3. me \in BOOLEAN /\ rev \in Nat BY NumbersAre DEF OfTurn
  <2> HIDE DEF al, me
  <2>4. /\ run' \in Runs /\ run'.cmd = run.cmd /\ run'.open = run.open /\ run'.seen = run.seen
        /\ run'.state = "Running" /\ run'.metered = me /\ run'.report = run.report
        /\ run'.context = rev
    BY <1>2, <2>1, <2>2, <2>3 DEF Runs
  <2>5. QED BY <1>2, <2>4 DEF me
<1>4. /\ driver' \in [step : {"wait", "down"}] \cup [step : DriverSteps, rev : Nat]
      /\ driver'.step \in {driver.step, "wait"} /\ driver'.step # "down"
  <2>1. CASE driver.step = "submit" BY <2>1, DriverIs DEF TaskStart, Submitter, DriverSteps
  <2>2. CASE driver.step # "submit" BY PartsHold, <1>2, <2>2 DEF TaskStart, Submitter, WakeOK
  <2>3. QED BY <2>1, <2>2
<1>5. GoalTypeOK'
  BY PartsHold, <1>1, <1>2, <1>3, GoalIs, FlagsAre DEF GoalTypeOK, HasGoal, ConsentOK, Active,
     MeterReady
<1>6. NumbersOK' BY <1>1, <1>2, NumbersHold, NumbersAre, TurnIs
<1>7. GhostOK' BY PartsHold, <1>1, <1>2 DEF GhostOK
<1>8. RunOK' BY <1>2, <1>3, RunIs DEF RunOK
<1>9. WakeOK' BY PartsHold, <1>2, <1>4, DriverIs DEF WakeOK
<1>10. NamesOK'
  BY PartsHold, <1>1, <1>2, <1>3, NumbersAre, RunIs, TurnIs DEF NamesOK, HasGoal, MeterReady
<1>11. UnusedOK'
  BY PartsHold, <1>1, <1>2, NumbersAre, GoalIs DEF UnusedOK, HasGoal, NamesOK, MeterReady
<1>12. ConsentOK'
  BY PartsHold, <1>1, <1>2, GoalIs DEF ConsentOK, HasGoal, Active, Continuing, MeterReady
<1>13. TurnOK'
  BY PartsHold, <1>1, <1>2, <1>3, NumbersAre, GoalIs, RunIs, TurnIs DEF TurnOK, Reserved, OfTurn,
     HasGoal, TaskOK, NamesOK, ChargesAreTrue, MeterReady
<1>14. TaskOK'
  BY PartsHold, <1>1, <1>2, <1>3, <1>4, RunIs, TurnIs, DriverIs, FlagsAre, NumbersAre DEF TaskOK,
     Reserved, OfTurn, NamesOK, DriverSteps, MeterReady
<1>15. ReportOK'
  BY PartsHold, <1>1, <1>2, <1>3, NumbersAre, GoalIs, RunIs DEF ReportOK, Continuing, Active,
     HasGoal, NamesOK, ConsentOK, TaskOK, MeterReady
<1>16. DriverOK' BY PartsHold, <1>1, <1>2, <1>4, DriverIs DEF DriverOK, DriverSteps
<1>17. ChargesAreTrue'
  BY PartsHold, <1>1, <1>2, NumbersAre, GoalIs, RunIs DEF ChargesAreTrue, Reserved, HasGoal,
     TurnOK, OfTurn, MeterReady
<1>18. NeverOvercharged'
  BY PartsHold, <1>1, <1>2, NumbersAre, GoalIs, RunIs DEF NeverOvercharged, HasGoal, TurnOK,
     OfTurn, Reserved, MeterReady
<1>19. QED BY PartsHold, <1>5, <1>6, <1>7, <1>8, <1>9, <1>10, <1>11, <1>12, <1>13, <1>14, <1>15,
    <1>16, <1>17, <1>18 DEF GoalIInv, LimitsAssumption

LEMMA TaskRefusedInv ==
  ASSUME GoalIInv, TaskRefused
  PROVE  GoalIInv'
<1>1. /\ UNCHANGED <<acts, crashes, issued, goal, rev, srev, turn, input, decision, used,
                     consent, contested>>
      /\ task = "setup" /\ run' = [run EXCEPT !.state = "Failed"] /\ task' = "refused"
      /\ driver' = driver
      /\ cleanup' \in {cleanup, "pending"} /\ lock' \in {lock, "free"}
  BY DEF TaskRefused, volatile, ghost
<1>2. run \in Runs /\ run.state # "none" BY PartsHold, <1>1, RunIs DEF TaskOK
<1>3. /\ run' \in Runs /\ run'.cmd = run.cmd /\ run'.open = run.open /\ run'.seen = run.seen
      /\ run'.state = "Failed" /\ run'.metered = run.metered /\ run'.report = run.report
      /\ run'.context = run.context
  BY <1>1, <1>2 DEF Runs
<1>4. GoalTypeOK'
  BY PartsHold, <1>1, <1>2, <1>3, GoalIs, FlagsAre DEF GoalTypeOK, HasGoal, ConsentOK, Active
<1>5. NumbersOK' BY <1>1, <1>2, NumbersHold, NumbersAre, TurnIs
<1>6. GhostOK' BY PartsHold, <1>1, <1>2 DEF GhostOK
<1>7. RunOK' BY <1>1, <1>2, <1>3, RunIs DEF RunOK
<1>8. WakeOK' BY PartsHold, <1>1, <1>2, DriverIs DEF WakeOK
<1>9. NamesOK' BY PartsHold, <1>1, <1>2, <1>3, NumbersAre, RunIs, TurnIs DEF NamesOK, HasGoal
<1>10. UnusedOK' BY PartsHold, <1>1, <1>2, NumbersAre, GoalIs DEF UnusedOK, HasGoal, NamesOK
<1>11. ConsentOK' BY PartsHold, <1>1, <1>2, GoalIs DEF ConsentOK, HasGoal, Active, Continuing
<1>12. TurnOK'
  BY PartsHold, <1>1, <1>2, <1>3, NumbersAre, GoalIs, RunIs, TurnIs DEF TurnOK, Reserved, OfTurn,
     HasGoal, TaskOK, NamesOK, ChargesAreTrue
<1>13. TaskOK'
  BY PartsHold, <1>1, <1>2, <1>3, RunIs, TurnIs, DriverIs, FlagsAre, NumbersAre DEF TaskOK,
     Reserved, OfTurn, NamesOK, DriverSteps
<1>14. ReportOK'
  BY PartsHold, <1>1, <1>2, <1>3, NumbersAre, GoalIs, RunIs DEF ReportOK, Continuing, Active,
     HasGoal, NamesOK, ConsentOK, TaskOK
<1>15. DriverOK' BY PartsHold, <1>1, <1>2, DriverIs DEF DriverOK, DriverSteps
<1>16. ChargesAreTrue'
  BY PartsHold, <1>1, <1>2, NumbersAre, GoalIs, RunIs DEF ChargesAreTrue, Reserved, HasGoal,
     TurnOK, OfTurn
<1>17. NeverOvercharged'
  BY PartsHold, <1>1, <1>2, NumbersAre, GoalIs, RunIs DEF NeverOvercharged, HasGoal, TurnOK,
     OfTurn, Reserved
<1>18. QED BY PartsHold, <1>4, <1>5, <1>6, <1>7, <1>8, <1>9, <1>10, <1>11, <1>12, <1>13, <1>14,
    <1>15, <1>16, <1>17 DEF GoalIInv, LimitsAssumption

LEMMA TaskRefusedSettleInv ==
  ASSUME GoalIInv, TaskRefusedSettle
  PROVE  GoalIInv'
<1>1. /\ driver' \in [step : {"wait", "down"}] \cup [step : DriverSteps, rev : Nat]
      /\ driver'.step \in {driver.step, "abandon"}
      /\ (driver'.step = "down" <=> driver.step = "down")
  <2>1. CASE driver.step = "submit"
    BY <2>1, DriverIs DEF TaskRefusedSettle, Submitter, DriverSteps
  <2>2. CASE driver.step # "submit" BY <2>2 DEF TaskRefusedSettle, Submitter, WakeOK, GoalIInv
  <2>3. QED BY <2>1, <2>2
<1> DEFINE cl == TRUE
<1>2. SettleTurn(FALSE, cl, FALSE) /\ cl \in BOOLEAN BY DEF TaskRefusedSettle
<1>3. UNCHANGED <<issued, run, input, decision, cleanup, used, consent, contested, acts, crashes>>
      /\ task' = "none" /\ lock' = "free" /\ driver.step # "down"
  BY DEF TaskRefusedSettle, GoalIInv, TaskOK, ghost
<1> HIDE DEF cl
<1>4. QED BY <1>1, <1>2, <1>3, SettleKeeps

LEMMA BrowserRefusedInv ==
  ASSUME GoalIInv, BrowserRefused
  PROVE  GoalIInv'
<1>1. /\ UNCHANGED <<acts, crashes, issued, goal, rev, srev, turn, input, decision, used,
                     consent, contested>>
      /\ task = "setup" /\ run' = [run EXCEPT !.state = "Failed"] /\ task' = "none"
      /\ cleanup' \in {cleanup, "pending"} /\ lock' \in {lock, "free"}
  BY DEF BrowserRefused, volatile, ghost
<1>2. run \in Runs /\ run.state # "none" BY PartsHold, <1>1, RunIs DEF TaskOK
<1>3. /\ run' \in Runs /\ run'.cmd = run.cmd /\ run'.open = run.open /\ run'.seen = run.seen
      /\ run'.state = "Failed" /\ run'.metered = run.metered /\ run'.report = run.report
      /\ run'.context = run.context
  BY <1>1, <1>2 DEF Runs
<1>4. /\ driver' \in [step : {"wait", "down"}] \cup [step : DriverSteps, rev : Nat]
      /\ driver'.step \in {driver.step, "abandon"}
      /\ (driver'.step = "down" <=> driver.step = "down")
  <2>1. CASE driver.step = "submit" BY <2>1, DriverIs DEF BrowserRefused, Submitter, DriverSteps
  <2>2. CASE driver.step # "submit" BY <2>2 DEF BrowserRefused, Submitter, WakeOK, GoalIInv
  <2>3. QED BY <2>1, <2>2
<1>5. GoalTypeOK'
  BY PartsHold, <1>1, <1>2, <1>3, GoalIs, FlagsAre DEF GoalTypeOK, HasGoal, ConsentOK, Active
<1>6. NumbersOK' BY <1>1, <1>2, NumbersHold, NumbersAre, TurnIs
<1>7. GhostOK' BY PartsHold, <1>1, <1>2 DEF GhostOK
<1>8. RunOK' BY <1>1, <1>2, <1>3, RunIs DEF RunOK
<1>9. WakeOK' BY PartsHold, <1>2, <1>4, DriverIs DEF WakeOK
<1>10. NamesOK' BY PartsHold, <1>1, <1>2, <1>3, NumbersAre, RunIs, TurnIs DEF NamesOK, HasGoal
<1>11. UnusedOK' BY PartsHold, <1>1, <1>2, NumbersAre, GoalIs DEF UnusedOK, HasGoal, NamesOK
<1>12. ConsentOK' BY PartsHold, <1>1, <1>2, GoalIs DEF ConsentOK, HasGoal, Active, Continuing
<1>13. TurnOK'
  BY PartsHold, <1>1, <1>2, <1>3, NumbersAre, GoalIs, RunIs, TurnIs DEF TurnOK, Reserved, OfTurn,
     HasGoal, TaskOK, NamesOK, ChargesAreTrue
<1>14. TaskOK'
  BY PartsHold, <1>1, <1>2, <1>3, <1>4, RunIs, TurnIs, DriverIs, FlagsAre, NumbersAre DEF TaskOK,
     Reserved, OfTurn, NamesOK, DriverSteps
<1>15. ReportOK'
  BY PartsHold, <1>1, <1>2, <1>3, NumbersAre, GoalIs, RunIs DEF ReportOK, Continuing, Active,
     HasGoal, NamesOK, ConsentOK, TaskOK
<1>16. DriverOK' BY PartsHold, <1>1, <1>2, <1>4, DriverIs DEF DriverOK, DriverSteps
<1>17. ChargesAreTrue'
  BY PartsHold, <1>1, <1>2, NumbersAre, GoalIs, RunIs DEF ChargesAreTrue, Reserved, HasGoal,
     TurnOK, OfTurn
<1>18. NeverOvercharged'
  BY PartsHold, <1>1, <1>2, NumbersAre, GoalIs, RunIs DEF NeverOvercharged, HasGoal, TurnOK,
     OfTurn, Reserved
<1>19. QED BY PartsHold, <1>5, <1>6, <1>7, <1>8, <1>9, <1>10, <1>11, <1>12, <1>13, <1>14, <1>15,
    <1>16, <1>17, <1>18 DEF GoalIInv, LimitsAssumption

LEMMA TaskEndInv ==
  ASSUME GoalIInv, NEW s \in Terminal \ {"Interrupted"}, TaskEnd(s)
  PROVE  GoalIInv'
<1>1. /\ UNCHANGED <<acts, crashes, issued, goal, rev, srev, turn, input, decision, used,
                     consent, contested>>
      /\ task = "running" /\ run' = [run EXCEPT !.state = s] /\ task' = "ended"
      /\ driver' = driver
      /\ cleanup' \in {cleanup, "pending"} /\ lock' \in {lock, "free"}
  BY DEF TaskEnd, volatile, ghost
<1>2. run \in Runs /\ run.state # "none" BY PartsHold, <1>1, RunIs DEF TaskOK
<1>3. /\ run' \in Runs /\ run'.cmd = run.cmd /\ run'.open = run.open /\ run'.seen = run.seen
      /\ run'.state = s /\ run'.metered = run.metered /\ run'.report = run.report
      /\ run'.context = run.context
  BY <1>1, <1>2 DEF Runs
<1>4. GoalTypeOK'
  BY PartsHold, <1>1, <1>2, <1>3, GoalIs, FlagsAre DEF GoalTypeOK, HasGoal, ConsentOK, Active
<1>5. NumbersOK' BY <1>1, <1>2, NumbersHold, NumbersAre, TurnIs
<1>6. GhostOK' BY PartsHold, <1>1, <1>2 DEF GhostOK
<1>7. RunOK' BY <1>1, <1>2, <1>3, RunIs DEF RunOK
<1>8. WakeOK' BY PartsHold, <1>1, <1>2, DriverIs DEF WakeOK
<1>9. NamesOK' BY PartsHold, <1>1, <1>2, <1>3, NumbersAre, RunIs, TurnIs DEF NamesOK, HasGoal
<1>10. UnusedOK' BY PartsHold, <1>1, <1>2, NumbersAre, GoalIs DEF UnusedOK, HasGoal, NamesOK
<1>11. ConsentOK' BY PartsHold, <1>1, <1>2, GoalIs DEF ConsentOK, HasGoal, Active, Continuing
<1>12. TurnOK'
  BY PartsHold, <1>1, <1>2, <1>3, NumbersAre, GoalIs, RunIs, TurnIs DEF TurnOK, Reserved, OfTurn,
     HasGoal, TaskOK, NamesOK, ChargesAreTrue
<1>13. TaskOK'
  BY PartsHold, <1>1, <1>2, <1>3, RunIs, TurnIs, DriverIs, FlagsAre, NumbersAre DEF TaskOK,
     Reserved, OfTurn, NamesOK, DriverSteps
<1>14. ReportOK'
  BY PartsHold, <1>1, <1>2, <1>3, NumbersAre, GoalIs, RunIs DEF ReportOK, Continuing, Active,
     HasGoal, NamesOK, ConsentOK, TaskOK
<1>15. DriverOK' BY PartsHold, <1>1, <1>2, DriverIs DEF DriverOK, DriverSteps
<1>16. ChargesAreTrue'
  BY PartsHold, <1>1, <1>2, NumbersAre, GoalIs, RunIs DEF ChargesAreTrue, Reserved, HasGoal,
     TurnOK, OfTurn
<1>17. NeverOvercharged'
  BY PartsHold, <1>1, <1>2, NumbersAre, GoalIs, RunIs DEF NeverOvercharged, HasGoal, TurnOK,
     OfTurn, Reserved
<1>18. QED BY PartsHold, <1>4, <1>5, <1>6, <1>7, <1>8, <1>9, <1>10, <1>11, <1>12, <1>13, <1>14,
    <1>15, <1>16, <1>17 DEF GoalIInv, LimitsAssumption

LEMMA TaskLockInv ==
  ASSUME GoalIInv, TaskLock
  PROVE  GoalIInv'
BY QuietKeeps, FlagsAre, NumbersAre, DriverIs DEF TaskLock, journal, volatile, ghost, DriverSteps

LEMMA TaskAuthorityInv ==
  ASSUME GoalIInv, TaskAuthority
  PROVE  GoalIInv'
<1>1. /\ UNCHANGED <<acts, crashes, issued, turn, run, input, decision, cleanup, owner, driver,
                     lock,
                     used, consent, contested>>
      /\ task = "terminal" /\ task' = "settle"
  BY DEF TaskAuthority, ghost
<1>2. GoalStops \/ UNCHANGED <<goal, rev, srev>>
  BY StopIs DEF TaskAuthority, StopGoal, GoalStops, Halts
<1>3. GoalTypeOK'
  BY PartsHold, <1>1, <1>2, GoalIs, FlagsAre DEF GoalTypeOK, HasGoal, ConsentOK, Active,
     GoalStops, Marked, Stopped, Halts
<1>4. NumbersOK'
  BY <1>1, <1>2, NumbersHold, NumbersAre, TurnIs DEF GoalStops, Marked, Stopped, Halts
<1>5. GhostOK' BY PartsHold, <1>1 DEF GhostOK
<1>6. RunOK' BY PartsHold, <1>1, RunIs DEF RunOK
<1>7. WakeOK' BY PartsHold, <1>1, DriverIs DEF WakeOK
<1>8. NamesOK' BY <1>1, <1>2, NamesHold DEF GoalStops, Marked
<1>9. UnusedOK'
  BY PartsHold, <1>1, NumbersAre, GoalIs DEF UnusedOK, HasGoal, NamesOK, GoalStops, Marked,
     Stopped, Halts
<1>10. ConsentOK'
  BY PartsHold, <1>1, <1>2, GoalIs DEF ConsentOK, HasGoal, Active, Continuing, GoalStops, Marked,
     Stopped, Halts
<1>11. TurnOK'
  BY PartsHold, <1>1, <1>2, NumbersAre, GoalIs, RunIs, TurnIs DEF TurnOK, Reserved, OfTurn,
     HasGoal, TaskOK, NamesOK, ChargesAreTrue, GoalStops, Marked, Stopped, Halts
<1>12. TaskOK'
  BY PartsHold, <1>1, RunIs, TurnIs, DriverIs, FlagsAre, NumbersAre DEF TaskOK, Reserved, OfTurn,
     NamesOK, DriverSteps
<1>13. ReportOK'
  BY PartsHold, <1>1, <1>2, NumbersAre, GoalIs, RunIs DEF ReportOK, Continuing, Active, HasGoal,
     NamesOK, ConsentOK, TaskOK, GoalStops, Marked, Stopped, Halts
<1>14. DriverOK' BY PartsHold, <1>1, DriverIs DEF DriverOK, DriverSteps
<1>15. ChargesAreTrue'
  BY PartsHold, <1>1, <1>2, NumbersAre, GoalIs, RunIs DEF ChargesAreTrue, Reserved, HasGoal,
     TurnOK, OfTurn, GoalStops, Marked, Stopped, Halts
<1>16. NeverOvercharged'
  BY PartsHold, <1>1, <1>2, NumbersAre, GoalIs, RunIs DEF NeverOvercharged, HasGoal, TurnOK,
     OfTurn, Reserved, GoalStops, Marked, Stopped, Halts
<1>17. QED BY PartsHold, <1>3, <1>4, <1>5, <1>6, <1>7, <1>8, <1>9, <1>10, <1>11, <1>12, <1>13,
    <1>14, <1>15, <1>16 DEF GoalIInv, LimitsAssumption

LEMMA TaskSettleInv ==
  ASSUME GoalIInv, NEW p \in BOOLEAN, TaskSettle(p)
  PROVE  GoalIInv'
<1> DEFINE me == run.metered /\ run.open = 0
           cl == CleanupReady
<1>1. me \in BOOLEAN /\ cl \in BOOLEAN /\ (me => run.open = 0)
  <2>1. run.state # "none" BY DEF TaskSettle, GoalIInv, TaskOK
  <2>2. run.metered \in BOOLEAN BY <2>1, RunIs
  <2>3. QED BY <2>2 DEF CleanupReady
<1>2. SettleTurn(me, cl, p) BY DEF TaskSettle
<1>3. driver' \in [step : {"wait", "down"}] \cup [step : DriverSteps, rev : Nat] /\ driver'.step = driver.step
      /\ UNCHANGED <<issued, run, input, decision, cleanup, used, consent, contested, acts,
                     crashes>>
      /\ task' = "none" /\ lock' = "free"
      /\ driver.step # "down"
  BY DEF TaskSettle, GoalIInv, WakeOK, TaskOK, ghost
<1> HIDE DEF me, cl
<1>4. QED BY <1>1, <1>2, <1>3, SettleKeeps

(* A crash and the recovery of what it left.                               *)
LEMMA CrashInv ==
  ASSUME GoalIInv, Crash
  PROVE  GoalIInv'
<1>1. /\ UNCHANGED <<acts, issued, goal, rev, srev, turn, run, input, decision, cleanup, used,
                     consent,
                     contested>>
      /\ crashes' = crashes + 1 /\ driver' = [step |-> "down"] /\ driver'.step = "down"
      /\ task' = "none" /\ lock' = "free"
  BY DEF Crash, journal, ghost
<1>2. GoalTypeOK' BY PartsHold, <1>1, GoalIs, FlagsAre DEF GoalTypeOK, HasGoal, ConsentOK, Active
<1>3. NumbersOK' BY <1>1, NumbersHold, NumbersAre, TurnIs
<1>4. GhostOK' BY PartsHold, <1>1 DEF GhostOK
<1>5. RunOK' BY PartsHold, <1>1, RunIs DEF RunOK
<1>6. WakeOK' BY PartsHold, <1>1, DriverIs DEF WakeOK
<1>7. NamesOK' BY PartsHold, <1>1, NumbersAre, RunIs, TurnIs DEF NamesOK, HasGoal
<1>8. UnusedOK' BY PartsHold, <1>1, NumbersAre, GoalIs DEF UnusedOK, HasGoal, NamesOK
<1>9. ConsentOK' BY PartsHold, <1>1, GoalIs DEF ConsentOK, HasGoal, Active, Continuing
<1>10. TurnOK'
  BY PartsHold, <1>1, NumbersAre, GoalIs, RunIs, TurnIs DEF TurnOK, Reserved, OfTurn, HasGoal,
     TaskOK, NamesOK, ChargesAreTrue
<1>11. TaskOK'
  BY PartsHold, <1>1, RunIs, TurnIs, DriverIs, FlagsAre, NumbersAre DEF TaskOK, Reserved, OfTurn,
     NamesOK, DriverSteps
<1>12. ReportOK'
  BY PartsHold, <1>1, NumbersAre, GoalIs, RunIs DEF ReportOK, Continuing, Active, HasGoal,
     NamesOK, ConsentOK, TaskOK
<1>13. DriverOK' BY PartsHold, <1>1, DriverIs DEF DriverOK, DriverSteps
<1>14. ChargesAreTrue'
  BY PartsHold, <1>1, NumbersAre, GoalIs, RunIs DEF ChargesAreTrue, Reserved, HasGoal, TurnOK,
     OfTurn
<1>15. NeverOvercharged'
  BY PartsHold, <1>1, NumbersAre, GoalIs, RunIs DEF NeverOvercharged, HasGoal, TurnOK, OfTurn,
     Reserved
<1>16. QED BY PartsHold, <1>2, <1>3, <1>4, <1>5, <1>6, <1>7, <1>8, <1>9, <1>10, <1>11, <1>12,
    <1>13, <1>14, <1>15 DEF GoalIInv, LimitsAssumption

LEMMA RestartRunInv ==
  ASSUME GoalIInv, RestartRun
  PROVE  GoalIInv'
<1>1. /\ UNCHANGED <<acts, crashes, issued, goal, rev, srev, turn, input, decision, used,
                     consent, contested>>
      /\ run.state \in {"Accepted", "Running"}
      /\ run' = [run EXCEPT !.state = "Interrupted"] /\ task' = task /\ driver' = driver
      /\ driver.step = "down"
      /\ cleanup' \in {cleanup, "pending"} /\ lock' \in {lock, "free"}
  BY DEF RestartRun, volatile, ghost
<1>2. run \in Runs /\ run.state # "none" BY PartsHold, <1>1, RunIs DEF TaskOK
<1>3. /\ run' \in Runs /\ run'.cmd = run.cmd /\ run'.open = run.open /\ run'.seen = run.seen
      /\ run'.state = "Interrupted" /\ run'.metered = run.metered /\ run'.report = run.report
      /\ run'.context = run.context
  BY <1>1, <1>2 DEF Runs
<1>4. GoalTypeOK'
  BY PartsHold, <1>1, <1>2, <1>3, GoalIs, FlagsAre DEF GoalTypeOK, HasGoal, ConsentOK, Active
<1>5. NumbersOK' BY <1>1, <1>2, NumbersHold, NumbersAre, TurnIs
<1>6. GhostOK' BY PartsHold, <1>1, <1>2 DEF GhostOK
<1>7. RunOK' BY <1>1, <1>2, <1>3, RunIs DEF RunOK
<1>8. WakeOK' BY PartsHold, <1>1, <1>2, DriverIs DEF WakeOK
<1>9. NamesOK' BY PartsHold, <1>1, <1>2, <1>3, NumbersAre, RunIs, TurnIs DEF NamesOK, HasGoal
<1>10. UnusedOK' BY PartsHold, <1>1, <1>2, NumbersAre, GoalIs DEF UnusedOK, HasGoal, NamesOK
<1>11. ConsentOK' BY PartsHold, <1>1, <1>2, GoalIs DEF ConsentOK, HasGoal, Active, Continuing
<1>12. TurnOK'
  BY PartsHold, <1>1, <1>2, <1>3, NumbersAre, GoalIs, RunIs, TurnIs DEF TurnOK, Reserved, OfTurn,
     HasGoal, TaskOK, NamesOK, ChargesAreTrue
<1>13. TaskOK'
  BY PartsHold, <1>1, <1>2, <1>3, RunIs, TurnIs, DriverIs, FlagsAre, NumbersAre DEF TaskOK,
     Reserved, OfTurn, NamesOK, DriverSteps
<1>14. ReportOK'
  BY PartsHold, <1>1, <1>2, <1>3, NumbersAre, GoalIs, RunIs DEF ReportOK, Continuing, Active,
     HasGoal, NamesOK, ConsentOK, TaskOK
<1>15. DriverOK' BY PartsHold, <1>1, <1>2, DriverIs DEF DriverOK, DriverSteps
<1>16. ChargesAreTrue'
  BY PartsHold, <1>1, <1>2, NumbersAre, GoalIs, RunIs DEF ChargesAreTrue, Reserved, HasGoal,
     TurnOK, OfTurn
<1>17. NeverOvercharged'
  BY PartsHold, <1>1, <1>2, NumbersAre, GoalIs, RunIs DEF NeverOvercharged, HasGoal, TurnOK,
     OfTurn, Reserved
<1>18. QED BY PartsHold, <1>4, <1>5, <1>6, <1>7, <1>8, <1>9, <1>10, <1>11, <1>12, <1>13, <1>14,
    <1>15, <1>16, <1>17 DEF GoalIInv, LimitsAssumption

LEMMA RestartInv ==
  ASSUME GoalIInv, Restart
  PROVE  GoalIInv'
<1>1. /\ UNCHANGED <<issued, run, input, decision, cleanup, used, consent, contested, acts,
                     crashes,
                     task, lock>>
      /\ driver' = [step |-> "wait"] /\ driver'.step = "wait" /\ driver.step = "down"
      /\ task = "none"
  BY DEF Restart, ghost, GoalIInv, TaskOK
<1>2. CASE Reserved /\ OfTurn
  <2> DEFINE cl == CleanupReady
  <2>1. SettleTurn(FALSE, cl, FALSE) BY <1>2 DEF Restart
  <2>2. cl \in BOOLEAN BY DEF CleanupReady
  <2> HIDE DEF cl
  <2>3. QED BY <1>1, <1>2, <2>1, <2>2, SettleKeeps, FlagsAre
<1>3. CASE Reserved /\ ~OfTurn
  <2>1. AbandonTurn BY <1>3 DEF Restart
  <2>2. QED BY <1>1, <1>3, <2>1, AbandonTurnKeeps, FlagsAre
<1>4. CASE ~Reserved
  <2>1. UNCHANGED <<goal, rev, srev, turn>> BY <1>4 DEF Restart
  <2>2. QED BY <1>1, <1>4, <2>1, QuietKeeps, FlagsAre, NumbersAre
<1>5. QED BY <1>2, <1>3, <1>4

(* The start, every step, and what the invariant says of the account.       *)
LEMMA GoalBegins ==
  ASSUME LimitsAssumption, GoalInit
  PROVE  GoalIInv
<1>1. MaxGoals \in Nat /\ Budgets \subseteq Nat BY DEF LimitsAssumption
<1>2. turn = [goal |-> 0, state |-> "none", srev |-> 0, born |-> 0] /\ run = NoRun
      /\ goal = NoGoal /\ goal.id = 0 /\ run.state = "none" /\ run.cmd = 0
      /\ driver = [step |-> "wait"] /\ driver.step = "wait" /\ task = "none"
      /\ rev = 0 /\ srev = 0 /\ issued = 0 /\ acts = 0 /\ crashes = 0
      /\ used = [g \in 1..MaxGoals |-> 0]
  BY DEF GoalInit, NoTurn, NoRun, NoGoal
<1>3. turn \in TurnRows BY <1>1, <1>2 DEF TurnRows
<1>4. GoalTypeOK
  <2>1. input = FALSE /\ decision = FALSE /\ cleanup = "observed" /\ lock = "free" BY DEF GoalInit
  <2>2. input \in BOOLEAN /\ decision \in BOOLEAN BY DEF GoalInit
  <2>3. QED BY <1>2, <2>1, <2>2 DEF GoalTypeOK, HasGoal
<1>5. NumbersOK BY <1>1, <1>2, <1>3 DEF NumbersOK
<1>6. GhostOK BY DEF GoalInit, GhostOK
<1>7. RunOK BY <1>2 DEF RunOK
<1>8. WakeOK BY <1>2 DEF WakeOK
<1>9. NamesOK BY <1>2 DEF NamesOK, HasGoal
<1>10. UnusedOK BY <1>2 DEF UnusedOK
<1>11. ConsentOK BY <1>2 DEF ConsentOK, HasGoal, Continuing, Active
<1>12. TurnOK BY <1>2 DEF TurnOK, Reserved
<1>13. TaskOK BY <1>2 DEF TaskOK, Reserved
<1>14. ReportOK BY <1>2 DEF ReportOK
<1>15. DriverOK BY <1>2 DEF DriverOK
<1>16. ChargesAreTrue BY <1>2 DEF ChargesAreTrue, HasGoal
<1>17. NeverOvercharged BY <1>2 DEF NeverOvercharged, HasGoal
<1>18. QED
  BY <1>4, <1>5, <1>6, <1>7, <1>8, <1>9, <1>10, <1>11, <1>12, <1>13, <1>14, <1>15, <1>16, <1>17
     DEF GoalIInv

LEMMA GoalStutters ==
  ASSUME GoalIInv, UNCHANGED goalVars
  PROVE  GoalIInv'
<1>1. UNCHANGED <<goal, rev, srev, turn, run, used, issued, consent, contested, crashes, acts,
                  input, decision, cleanup, lock, task, driver>>
  BY DEF goalVars
<1>2. QED BY <1>1, QuietKeeps, FlagsAre, NumbersAre

LEMMA GoalKeeps ==
  ASSUME GoalIInv, [GoalNext]_goalVars
  PROVE  GoalIInv'
<1>1. CASE UNCHANGED goalVars BY <1>1, GoalStutters
<1>2. CASE Owner
  BY <1>2, GoalSetInv, GoalEditInv, GoalPauseInv, GoalResumeInv, GoalClearInv, RevokeInv,
     RestoreInv, InputBindInv, InputAdmitInv, InputRejectInv, SteerRunInv, DecisionAnswerInv,
     CleanupObserveInv DEF Owner
<1>3. CASE Driver
  BY <1>3, DriverWakeInv, DriverStopInv, ReserveTurnInv, DriverReleaseInv, DriverDispatchInv,
     DriverRefusedInv, DriverAbandonInv DEF Driver
<1>4. CASE Work
  BY <1>4, RequestInv, ObserveInv, AskInv, ReportInv DEF Work
<1>5. CASE Task
  BY <1>5, TaskStartInv, TaskRefusedInv, TaskRefusedSettleInv, BrowserRefusedInv, TaskEndInv,
     TaskLockInv, TaskAuthorityInv, TaskSettleInv DEF Task, TaskEnds
<1>6. CASE Crash \/ RestartRun \/ Restart BY <1>6, CrashInv, RestartRunInv, RestartInv
<1>7. QED BY <1>1, <1>2, <1>3, <1>4, <1>5, <1>6 DEF GoalNext

LEMMA GoalIsSafe ==
  ASSUME GoalIInv
  PROVE  GoalSafety
BY DEF GoalIInv, GoalSafety

-----------------------------------------------------------------------------
(* What a step may do.                                                     *)

\* A step that reserves no turn, admits none and assesses nothing.
Harmless ==
  /\ turn'.state = "reserved" => turn'.srev = turn.srev
  /\ run'.cmd \in {0, run.cmd}
  /\ HasGoal /\ goal'.id = goal.id /\ goal'.status \in {"Complete", "Blocked"}
       => goal.status \in {"Complete", "Blocked"}

LEMMA HarmlessIs ==
  ASSUME Harmless
  PROVE  GoalSteps
BY DEF Harmless, GoalSteps, RunsOnConsent, StartsWithinBudget, AssessmentUncontested,
   ReservationRunsOnce

LEMMA HaltIs ==
  ASSUME GoalStops \/ goal' = goal
  PROVE  HasGoal /\ goal'.id = goal.id /\ goal'.status \in {"Complete", "Blocked"}
           => goal.status \in {"Complete", "Blocked"}
BY DEF GoalStops, Marked, Halts

LEMMA OwnerHarmless ==
  ASSUME GoalIInv, Owner
  PROVE  GoalSteps
<1>1. ASSUME NEW b \in Budgets, NEW auto \in BOOLEAN, GoalSet(b, auto) PROVE Harmless
  <2>1. UNCHANGED <<turn, run>> BY <1>1 DEF GoalSet, Update
  <2>2. goal'.status \in {"Active", "Paused"} BY <1>1 DEF GoalSet, Update
  <2>3. QED BY <2>1, <2>2 DEF Harmless
<1>2. ASSUME NEW b \in Budgets, GoalEdit(b) PROVE Harmless
  <2>1. UNCHANGED <<turn, run>> /\ HasGoal BY <1>2 DEF GoalEdit, Update
  <2> DEFINE h == [goal EXCEPT !.budget = b, !.authorized = FALSE]
  <2>2. goal' = [h EXCEPT !.status = IF LimitReached(h) THEN "Limited" ELSE "Paused"]
    BY <1>2 DEF GoalEdit, Update
  <2>3. h \in Goals BY <2>1, GoalIs DEF Goals
  <2> HIDE DEF h
  <2>4. goal'.status \in {"Limited", "Paused"} BY <2>2, <2>3 DEF Goals
  <2>5. QED BY <2>1, <2>4 DEF Harmless
<1>3. ASSUME GoalPause \/ GoalResume PROVE Harmless
  <2>1. UNCHANGED <<turn, run>> /\ goal \in Goals
    BY <1>3, GoalIs DEF GoalPause, GoalResume, Update
  <2>2. goal'.status \in {"Paused", "Active"}
    BY <1>3, <2>1 DEF GoalPause, GoalResume, Update, Goals
  <2>3. QED BY <2>1, <2>2 DEF Harmless
<1>4. ASSUME GoalClear PROVE Harmless
  <2>1. UNCHANGED <<turn, run>> /\ goal'.id = 0 BY <1>4 DEF GoalClear, Update, NoGoal
  <2>2. QED BY <2>1 DEF Harmless, HasGoal
<1>5. ASSUME Revoke \/ Restore \/ InputBind \/ InputReject \/ DecisionAnswer
               \/ \E e \in {"observed", "attested"} : CleanupObserve(e)
      PROVE  Harmless
  <2>1. UNCHANGED <<goal, turn, run>>
    BY <1>5 DEF Revoke, Restore, InputBind, InputReject, DecisionAnswer, CleanupObserve, journal
  <2>2. QED BY <2>1 DEF Harmless
<1>6. ASSUME InputAdmit PROVE Harmless
  <2>1. GoalStops BY <1>6, StopIs DEF InputAdmit, GoalStops, Halts
  <2>2. turn' = turn /\ run'.cmd = 0 BY <1>6 DEF InputAdmit, NewRun
  <2>3. QED BY <2>1, <2>2, HaltIs DEF Harmless
<1>7. ASSUME SteerRun PROVE Harmless
  <2>1. GoalStops BY <1>7, StopIs DEF SteerRun, GoalStops, Halts
  <2>2. UNCHANGED <<turn, run>> BY <1>7 DEF SteerRun
  <2>3. QED BY <2>1, <2>2, HaltIs DEF Harmless
<1>8. QED BY <1>1, <1>2, <1>3, <1>4, <1>5, <1>6, <1>7, HarmlessIs DEF Owner

LEMMA AbandonHarmless ==
  ASSUME GoalIInv, Reserved, AbandonTurn, run' = run
  PROVE  Harmless
<1>1. HasGoal BY DEF GoalIInv, TurnOK
<1>2. PICK s \in Stopped : Marked(goal, goal', s, FALSE) /\ (s \in Halts \/ s = goal.status)
  BY <1>1, AbandonIs DEF AbandonTurn
<1>3. turn'.state = "abandoned" BY TurnIs DEF AbandonTurn, TurnRows
<1>4. QED BY <1>2, <1>3 DEF Marked, Halts, Harmless

LEMMA DriverHarmless ==
  ASSUME GoalIInv, Driver
  PROVE  GoalSteps
<1>1. ASSUME DriverWake \/ DriverRelease \/ DriverRefused PROVE Harmless
  <2>1. UNCHANGED <<goal, turn, run>> BY <1>1 DEF DriverWake, DriverRelease, DriverRefused,
                    journal
  <2>2. QED BY <2>1 DEF Harmless
<1>2. ASSUME DriverStop PROVE Harmless
  <2>1. GoalStops \/ goal' = goal BY <1>2, StopIs DEF DriverStop, StopGoal, GoalStops, Halts
  <2>2. UNCHANGED <<turn, run>> BY <1>2 DEF DriverStop
  <2>3. QED BY <2>1, <2>2, HaltIs DEF Harmless
<1>3. ASSUME ReserveTurn PROVE GoalSteps
  <2>1. /\ run' = run /\ Continuing /\ ~Reserved /\ goal.unmeasured = 0 /\ ~LimitReached(goal)
        /\ goal' = [goal EXCEPT !.runs = @ + 1]
    BY <1>3 DEF ReserveTurn, Idle
  <2>2. goal \in Goals /\ goal.status = "Active" /\ HasGoal BY <2>1, GoalIs DEF Continuing, Active
  <2>3. consent BY <2>1 DEF GoalIInv, ConsentOK
  <2>4. used[goal.id] < goal.budget
    BY <2>1, <2>2, GoalIs DEF GoalIInv, ChargesAreTrue, LimitReached
  <2>5. goal'.status = "Active" BY <2>1, <2>2 DEF Goals
  <2>6. QED
    BY <2>1, <2>3, <2>4, <2>5 DEF GoalSteps, RunsOnConsent, StartsWithinBudget,
       AssessmentUncontested, ReservationRunsOnce
<1>4. ASSUME DriverDispatch PROVE GoalSteps
  <2>1. CASE Admissible
    <3>1. UNCHANGED <<goal, turn>> /\ Reserved /\ Continuing /\ driver.step = "dispatch"
      BY <1>4, <2>1 DEF DriverDispatch, Admissible
    <3>2. consent /\ turn.born = crashes BY <3>1 DEF GoalIInv, ConsentOK, DriverOK
    <3>3. QED
      BY <3>1, <3>2 DEF GoalSteps, RunsOnConsent, StartsWithinBudget, AssessmentUncontested,
         ReservationRunsOnce, Reserved
  <2>2. CASE ~Admissible
    <3>1. UNCHANGED <<goal, turn, run>> BY <1>4, <2>2 DEF DriverDispatch
    <3>2. QED BY <3>1, HarmlessIs DEF Harmless
  <2>3. QED BY <2>1, <2>2
<1>5. ASSUME DriverAbandon PROVE Harmless
  <2>1. run' = run /\ ((AbandonTurn /\ Reserved) \/ UNCHANGED <<turn, goal>>)
    BY <1>5 DEF DriverAbandon
  <2>2. QED BY <2>1, AbandonHarmless DEF Harmless
<1>6. QED BY <1>1, <1>2, <1>3, <1>4, <1>5, HarmlessIs DEF Driver

\* An assessment counts only under the revision of its report, and the
\* owner has consented to that revision and not acted since.
LEMMA SettleLawful ==
  ASSUME GoalIInv, NEW measured \in BOOLEAN, NEW tidy \in BOOLEAN, NEW progress \in BOOLEAN,
         SettleTurn(measured, tidy, progress), run' = run
  PROVE  GoalSteps
<1>1. CASE ~(OfTurn /\ Reserved)
  <2>1. UNCHANGED <<turn, goal>> BY <1>1 DEF SettleTurn
  <2>2. QED BY <2>1, HarmlessIs DEF Harmless
<1>2. CASE OfTurn /\ Reserved
  <2>1. /\ goal' = Settled(measured, tidy, progress) /\ turn' = [turn EXCEPT !.state = "settled"]
    BY <1>2 DEF SettleTurn
  <2>2. turn'.state = "settled" BY <2>1, TurnIs DEF TurnRows
  <2>3. goal'.status \in {"Complete", "Blocked"} /\ goal.status \notin {"Complete", "Blocked"}
          => run.report # "none" /\ run.context = rev
    BY <1>2, <2>1, SettledIs
  <2>4. run.state # "none" BY <1>2, RunIs DEF OfTurn
  <2>5. run.report # "none" /\ run.context = rev => consent /\ ~contested
    BY <2>4 DEF GoalIInv, ReportOK, ConsentOK
  <2>6. QED
    BY <2>2, <2>3, <2>5 DEF GoalSteps, RunsOnConsent, StartsWithinBudget, AssessmentUncontested,
       ReservationRunsOnce
<1>3. QED BY <1>1, <1>2

LEMMA TaskLawful ==
  ASSUME GoalIInv, Work \/ Task
  PROVE  GoalSteps
<1>1. ASSUME \/ Work \/ TaskStart \/ TaskRefused \/ BrowserRefused \/ TaskEnds
      PROVE  Harmless
  <2>1. UNCHANGED <<goal, turn>> /\ task # "none"
    BY <1>1 DEF Work, Request, Observe, Ask, Report, TaskStart, TaskRefused, BrowserRefused,
       TaskEnds, TaskEnd
  <2>2. run \in Runs BY <2>1, RunIs DEF GoalIInv, TaskOK
  <2>3. run'.cmd = run.cmd
    BY <1>1, <2>2 DEF Work, Request, Observe, Ask, Report, TaskStart, TaskRefused,
       BrowserRefused, TaskEnds, TaskEnd, Runs
  <2>4. QED BY <2>1, <2>3 DEF Harmless
<1>2. ASSUME TaskLock PROVE Harmless BY <1>2 DEF TaskLock, Harmless
<1>3. ASSUME TaskAuthority PROVE Harmless
  <2>1. GoalStops \/ goal' = goal BY <1>3, StopIs DEF TaskAuthority, StopGoal, GoalStops, Halts
  <2>2. UNCHANGED <<turn, run>> BY <1>3 DEF TaskAuthority
  <2>3. QED BY <2>1, <2>2, HaltIs DEF Harmless
<1>4. ASSUME TaskRefusedSettle PROVE GoalSteps
  <2> DEFINE cl == TRUE
  <2>1. SettleTurn(FALSE, cl, FALSE) /\ run' = run /\ cl \in BOOLEAN
    BY <1>4 DEF TaskRefusedSettle
  <2> HIDE DEF cl
  <2>2. QED BY <2>1, SettleLawful
<1>5. ASSUME NEW p \in BOOLEAN, TaskSettle(p) PROVE GoalSteps
  <2> DEFINE me == run.metered /\ run.open = 0
             cl == CleanupReady
  <2>1. SettleTurn(me, cl, p) /\ run' = run BY <1>5 DEF TaskSettle
  <2>2. me \in BOOLEAN /\ cl \in BOOLEAN
    <3>1. run.state # "none" BY <1>5 DEF TaskSettle, GoalIInv, TaskOK
    <3>2. run.metered \in BOOLEAN BY <3>1, RunIs
    <3>3. QED BY <3>2 DEF CleanupReady
  <2> HIDE DEF me, cl
  <2>3. QED BY <2>1, <2>2, SettleLawful
<1>6. QED BY <1>1, <1>2, <1>3, <1>4, <1>5, HarmlessIs DEF Task

LEMMA GoalStepsAre ==
  ASSUME GoalIInv, [GoalNext]_goalVars
  PROVE  GoalSteps
<1>1. CASE UNCHANGED goalVars
  <2>1. UNCHANGED <<goal, turn, run>> BY <1>1 DEF goalVars
  <2>2. QED BY <2>1, HarmlessIs DEF Harmless
<1>2. CASE Owner BY <1>2, OwnerHarmless
<1>3. CASE Driver BY <1>3, DriverHarmless
<1>4. CASE Work \/ Task BY <1>4, TaskLawful
<1>5. CASE Crash
  <2>1. UNCHANGED <<goal, turn, run>> BY <1>5 DEF Crash, journal
  <2>2. QED BY <2>1, HarmlessIs DEF Harmless
<1>6. CASE RestartRun
  <2>1. UNCHANGED <<goal, turn>> /\ run.state # "none" BY <1>6 DEF RestartRun
  <2>2. run'.cmd = run.cmd BY <1>6, <2>1, RunIs DEF RestartRun, Runs
  <2>3. QED BY <2>1, <2>2, HarmlessIs DEF Harmless
<1>7. CASE Restart
  <2>1. CASE Reserved /\ OfTurn
    <3> DEFINE cl == CleanupReady
    <3>1. SettleTurn(FALSE, cl, FALSE) /\ run' = run BY <1>7, <2>1 DEF Restart
    <3>2. cl \in BOOLEAN BY DEF CleanupReady
    <3> HIDE DEF cl
    <3>3. QED BY <3>1, <3>2, SettleLawful
  <2>2. CASE Reserved /\ ~OfTurn
    <3>1. AbandonTurn /\ run' = run BY <1>7, <2>2 DEF Restart
    <3>2. QED BY <2>2, <3>1, AbandonHarmless, HarmlessIs
  <2>3. CASE ~Reserved
    <3>1. UNCHANGED <<goal, turn, run>> BY <1>7, <2>3 DEF Restart
    <3>2. QED BY <3>1, HarmlessIs DEF Harmless
  <2>4. QED BY <2>1, <2>2, <2>3
<1>8. QED BY <1>1, <1>2, <1>3, <1>4, <1>5, <1>6, <1>7 DEF GoalNext

-----------------------------------------------------------------------------
(* While a turn is reserved its goal stays, and what was charged to the goal *)
(* since is what its run has used, open requests included; an active goal is *)
(* one its owner consents to, and a report with the goal's revision was      *)
(* given under that consent (scheduling.rs, metering, settlement.rs), for    *)
(* any budgets, limits, costs, goals, acts and crashes.                      *)
THEOREM GoalInvariant == LimitsAssumption => (GoalSpec => []GoalIInv)
<1> SUFFICES ASSUME LimitsAssumption PROVE GoalSpec => []GoalIInv OBVIOUS
<1>1. GoalInit => GoalIInv BY GoalBegins
<1>2. GoalIInv /\ [GoalNext]_goalVars => GoalIInv' BY GoalKeeps
<1>3. QED BY <1>1, <1>2, PTL DEF GoalSpec

(* A goal is charged what the provider charged for it, never twice, whatever *)
(* report is lost and whatever crashes between a run's end and its settlement *)
(* (goals.rs, settlement.rs).                                                *)
THEOREM GoalSafe == LimitsAssumption => (GoalSpec => []GoalSafety)
<1> SUFFICES ASSUME LimitsAssumption PROVE GoalSpec => []GoalSafety OBVIOUS
<1>1. GoalIInv => GoalSafety BY GoalIsSafe
<1>2. GoalSpec => []GoalIInv BY GoalInvariant
<1>3. QED BY <1>1, <1>2, PTL

(* A turn is reserved and admitted only on the owner's consent and within the *)
(* budget the provider has really charged, once and in the life of the       *)
(* process that reserved it, and an assessment stands only when the owner    *)
(* has not acted since the report (scheduling.rs, goals.rs, reporting.rs).   *)
THEOREM GoalLawful == LimitsAssumption => (GoalSpec => [][GoalSteps]_goalVars)
<1> SUFFICES ASSUME LimitsAssumption PROVE GoalSpec => [][GoalSteps]_goalVars OBVIOUS
<1>1. GoalIInv /\ [GoalNext]_goalVars => [GoalSteps]_goalVars BY GoalStepsAre
<1>2. GoalSpec => []GoalIInv BY GoalInvariant
<1>3. QED BY <1>1, <1>2, PTL DEF GoalSpec

-----------------------------------------------------------------------------
(* Sums over a finite set, as the community modules define them. They are   *)
(* folds, and each fact is shown by induction over the subsets of the set.   *)

(* The element that a fold takes off a set next.                             *)
Pick(s) == CHOOSE x \in s : TRUE

(* Induction over the subsets of a finite set, for a set of subsets.         *)
LEMMA SubsetInduction ==
  ASSUME NEW S, IsFiniteSet(S), NEW T \in SUBSET SUBSET S, {} \in T,
         \A s \in SUBSET S : s # {} /\ s \ {Pick(s)} \in T => s \in T
  PROVE  T = SUBSET S
<1> SUFFICES ASSUME T # SUBSET S PROVE FALSE OBVIOUS
<1> DEFINE R == StrictSubsetOrdering(S)
           U == (SUBSET S) \ T
<1>1. IsWellFoundedOn(R, SUBSET S)
  <2>1. IsWellFoundedOn(R, FiniteSubsetsOf(S)) BY FS_StrictSubsetOrderingWellFounded
  <2>2. FiniteSubsetsOf(S) = SUBSET S BY FS_FiniteSubsetsOfFinite
  <2>3. QED BY <2>1, <2>2
<1>2. U \subseteq SUBSET S /\ U # {} OBVIOUS
<1>3. PICK s \in U : \A t \in U : ~(<<t, s>> \in R)
  <2> HIDE DEF R, U
  <2>1. QED BY <1>1, <1>2, WFMin
<1> DEFINE x == Pick(s)
<1>4. s # {} /\ x \in s BY DEF Pick
<1>5. s \ {x} \in SUBSET S /\ s \ {x} # s BY <1>4
<1>6. s \ {x} \in T BY <1>3, <1>5 DEF StrictSubsetOrdering
<1>7. QED BY <1>4, <1>6

(* Induction over the natural numbers, for a set of them.                    *)
LEMMA NatSetInduction ==
  ASSUME NEW T \in SUBSET Nat, 0 \in T, \A n \in T : n + 1 \in T
  PROVE  T = Nat
<1> SUFFICES ASSUME T # Nat PROVE FALSE OBVIOUS
<1> DEFINE R == OpToRel(<, Nat)
           U == Nat \ T
<1>1. IsWellFoundedOn(R, Nat) BY NatLessThanWellFounded
<1>2. U \subseteq Nat /\ U # {} OBVIOUS
<1>3. PICK n \in U : \A m \in U : ~(<<m, n>> \in R)
  <2> HIDE DEF R, U
  <2>1. QED BY <1>1, <1>2, WFMin
<1>4. n # 0 /\ n - 1 \in Nat /\ n - 1 < n OBVIOUS
<1>5. n - 1 \in T BY <1>3, <1>4 DEF OpToRel
<1>6. QED BY <1>4, <1>5

(* What the fold of a sum does at a set: it takes one element off.           *)
SumStep(f, iter, s) == IF s = {} THEN 0 ELSE f[Pick(s)] + iter[s \ {Pick(s)}]

(* The function that a sum folds with.                                       *)
Iter(f, S) == CHOOSE iter : iter = [s \in SUBSET S |-> SumStep(f, iter, s)]

LEMMA SumIsIter == ASSUME NEW f, NEW S PROVE SumFunctionOnSet(f, S) = Iter(f, S)[S]
BY DEF SumFunctionOnSet, FoldFunctionOnSet, MapThenFoldSet, Iter, SumStep, Pick

(* The fold exists, since it can be built up by the sizes of the sets.       *)
LEMMA IterExists ==
  ASSUME NEW S, IsFiniteSet(S), NEW f, \A x \in S : f[x] \in Nat
  PROVE  \E g \in [SUBSET S -> Nat] : \A s \in SUBSET S : g[s] = SumStep(f, g, s)
<1> DEFINE Upto(g, n) == \A s \in SUBSET S : Cardinality(s) <= n => g[s] = SumStep(f, g, s)
           K == {n \in Nat : \E g \in [SUBSET S -> Nat] : Upto(g, n)}
<1>1. \A s \in SUBSET S : IsFiniteSet(s) /\ Cardinality(s) \in Nat /\ Cardinality(s) <= Cardinality(S)
  BY FS_Subset, FS_CardinalityType
<1>2. \A s \in SUBSET S : s # {} => /\ Pick(s) \in s /\ s \ {Pick(s)} \in SUBSET S
                                    /\ Cardinality(s \ {Pick(s)}) = Cardinality(s) - 1
  <2> SUFFICES ASSUME NEW s \in SUBSET S, s # {}
               PROVE  /\ Pick(s) \in s /\ s \ {Pick(s)} \in SUBSET S
                      /\ Cardinality(s \ {Pick(s)}) = Cardinality(s) - 1
    OBVIOUS
  <2>1. Pick(s) \in s BY DEF Pick
  <2>2. QED BY <1>1, <2>1, FS_RemoveElement
<1>3. 0 \in K
  <2> DEFINE g == [s \in SUBSET S |-> 0]
  <2>1. \A s \in SUBSET S : Cardinality(s) <= 0 => s = {} BY <1>1, FS_EmptySet
  <2>2. Upto(g, 0) BY <2>1 DEF SumStep
  <2>3. QED BY <2>2
<1>4. ASSUME NEW n \in K PROVE n + 1 \in K
  <2>1. PICK g \in [SUBSET S -> Nat] : Upto(g, n) OBVIOUS
  <2> DEFINE h == [s \in SUBSET S |-> SumStep(f, g, s)]
  <2>2. ASSUME NEW s \in SUBSET S PROVE SumStep(f, g, s) \in Nat
    <3>1. CASE s = {} BY <3>1 DEF SumStep
    <3>2. CASE s # {}
      <4>1. f[Pick(s)] \in Nat /\ g[s \ {Pick(s)}] \in Nat BY <1>2, <3>2
      <4>2. QED BY <3>2, <4>1 DEF SumStep
    <3>3. QED BY <3>1, <3>2
  <2>3. h \in [SUBSET S -> Nat] BY <2>2
  <2>4. \A s \in SUBSET S : Cardinality(s) <= n => h[s] = g[s] BY <2>1
  <2>5. ASSUME NEW s \in SUBSET S, Cardinality(s) <= n + 1 PROVE h[s] = SumStep(f, h, s)
    <3>1. CASE s = {} BY <3>1 DEF SumStep
    <3>2. CASE s # {}
      <4>1. Cardinality(s \ {Pick(s)}) <= n BY <1>1, <1>2, <2>5, <3>2
      <4>2. h[s \ {Pick(s)}] = g[s \ {Pick(s)}] BY <1>2, <2>4, <3>2, <4>1
      <4>3. QED BY <3>2, <4>2 DEF SumStep
    <3>3. QED BY <3>1, <3>2
  <2> HIDE DEF h
  <2>6. QED BY <2>3, <2>5
<1>5. K = Nat
  <2> HIDE DEF K
  <2>1. K \in SUBSET Nat BY DEF K
  <2>2. QED BY <1>3, <1>4, <2>1, NatSetInduction
<1>6. Cardinality(S) \in K BY <1>1, <1>5
<1>7. QED BY <1>1, <1>6

LEMMA IterIs ==
  ASSUME NEW S, IsFiniteSet(S), NEW f, \A x \in S : f[x] \in Nat
  PROVE  Iter(f, S) = [s \in SUBSET S |-> SumStep(f, Iter(f, S), s)]
<1>1. PICK g \in [SUBSET S -> Nat] : \A s \in SUBSET S : g[s] = SumStep(f, g, s) BY IterExists
<1>2. g = [s \in SUBSET S |-> SumStep(f, g, s)] BY <1>1
<1>3. QED BY <1>2 DEF Iter

\* A function of the subsets of S adds an element's value for each of them.
SumsUp(F, f, S) ==
  /\ F[{}] = 0
  /\ \A s \in SUBSET S : s # {} => /\ Pick(s) \in s /\ s \ {Pick(s)} \in SUBSET S
                                   /\ F[s] = f[Pick(s)] + F[s \ {Pick(s)}]

LEMMA IterSteps ==
  ASSUME NEW S, IsFiniteSet(S), NEW f, \A x \in S : f[x] \in Nat
  PROVE  SumsUp(Iter(f, S), f, S)
<1> DEFINE g == Iter(f, S)
<1>1. g = [s \in SUBSET S |-> SumStep(f, g, s)] BY IterIs
<1> HIDE DEF g
<1>2. \A s \in SUBSET S : g[s] = SumStep(f, g, s) BY <1>1
<1>3. g[{}] = 0 BY <1>2 DEF SumStep
<1>4. ASSUME NEW s \in SUBSET S, s # {}
      PROVE  /\ Pick(s) \in s /\ s \ {Pick(s)} \in SUBSET S
             /\ g[s] = f[Pick(s)] + g[s \ {Pick(s)}]
  <2>1. Pick(s) \in s BY <1>4 DEF Pick
  <2>2. QED BY <1>2, <1>4, <2>1 DEF SumStep
<1>5. QED BY <1>3, <1>4 DEF g, SumsUp

LEMMA IterType ==
  ASSUME NEW S, IsFiniteSet(S), NEW f, \A x \in S : f[x] \in Nat
  PROVE  \A s \in SUBSET S : Iter(f, S)[s] \in Nat
<1> DEFINE g == Iter(f, S)
           T == {s \in SUBSET S : g[s] \in Nat}
<1>0. SumsUp(g, f, S) BY IterSteps
<1> HIDE DEF g
<1>1. /\ g[{}] = 0
      /\ \A s \in SUBSET S : s # {} => /\ Pick(s) \in s /\ s \ {Pick(s)} \in SUBSET S
                                       /\ g[s] = f[Pick(s)] + g[s \ {Pick(s)}]
  BY <1>0 DEF SumsUp
<1>2. {} \in T BY <1>1
<1>3. ASSUME NEW s \in SUBSET S, s # {}, s \ {Pick(s)} \in T PROVE s \in T
  <2>1. f[Pick(s)] \in Nat /\ g[s \ {Pick(s)}] \in Nat BY <1>1, <1>3
  <2>2. g[s] = f[Pick(s)] + g[s \ {Pick(s)}] BY <1>1, <1>3
  <2>3. QED BY <2>1, <2>2
<1>4. T = SUBSET S
  <2> HIDE DEF T
  <2>1. T \in SUBSET SUBSET S BY DEF T
  <2>2. QED BY <1>2, <1>3, <2>1, SubsetInduction
<1>5. QED BY <1>4 DEF g

(* A sum of natural numbers is one.                                          *)
LEMMA SumType ==
  ASSUME NEW S, IsFiniteSet(S), NEW f, \A x \in S : f[x] \in Nat
  PROVE  SumFunctionOnSet(f, S) \in Nat
<1>1. S \in SUBSET S OBVIOUS
<1>2. QED BY <1>1, IterType, SumIsIter

(* A sum changes by what one of its terms changes by.                        *)
LEMMA SumUpdate ==
  ASSUME NEW S, IsFiniteSet(S), NEW f, NEW g, NEW c \in S,
         \A x \in S : f[x] \in Nat, \A x \in S : g[x] \in Nat,
         \A x \in S : x # c => g[x] = f[x]
  PROVE  SumFunctionOnSet(g, S) = SumFunctionOnSet(f, S) - f[c] + g[c]
<1> DEFINE F == Iter(f, S)
           G == Iter(g, S)
           T == {s \in SUBSET S : G[s] = IF c \in s THEN F[s] - f[c] + g[c] ELSE F[s]}
<1>0. SumsUp(F, f, S) /\ SumsUp(G, g, S) BY IterSteps
<1>1. \A s \in SUBSET S : F[s] \in Nat /\ G[s] \in Nat BY IterType
<1> HIDE DEF F, G
<1>2. /\ F[{}] = 0 /\ G[{}] = 0
      /\ \A s \in SUBSET S : s # {} => /\ Pick(s) \in s /\ s \ {Pick(s)} \in SUBSET S
                                       /\ F[s] = f[Pick(s)] + F[s \ {Pick(s)}]
                                       /\ G[s] = g[Pick(s)] + G[s \ {Pick(s)}]
  BY <1>0 DEF SumsUp
<1>3. {} \in T BY <1>2
<1>4. ASSUME NEW s \in SUBSET S, s # {}, s \ {Pick(s)} \in T PROVE s \in T
  <2> DEFINE p == Pick(s)
             r == s \ {p}
  <2>1. /\ p \in s /\ r \in SUBSET S /\ F[s] = f[p] + F[r] /\ G[s] = g[p] + G[r]
    BY <1>2, <1>4
  <2>2. /\ p \in S /\ f[p] \in Nat /\ g[p] \in Nat /\ f[c] \in Nat /\ g[c] \in Nat
        /\ F[r] \in Nat /\ G[r] \in Nat
    BY <1>1, <2>1
  <2>3. G[r] = IF c \in r THEN F[r] - f[c] + g[c] ELSE F[r] BY <1>4
  <2>4. CASE p = c
    <3>1. c \notin r /\ c \in s BY <2>1, <2>4
    <3>2. QED BY <2>1, <2>2, <2>3, <2>4, <3>1
  <2>5. CASE p # c
    <3>1. c \in r <=> c \in s BY <2>1, <2>5
    <3>2. g[p] = f[p] BY <2>2, <2>5
    <3> HIDE DEF p, r
    <3>3. QED BY <2>1, <2>2, <2>3, <3>1, <3>2
  <2>6. QED BY <2>4, <2>5
<1>5. T = SUBSET S
  <2> HIDE DEF T
  <2>1. T \in SUBSET SUBSET S BY DEF T
  <2>2. QED BY <1>3, <1>4, <2>1, SubsetInduction
<1>6. S \in T BY <1>5
<1>7. G[S] = F[S] - f[c] + g[c] BY <1>6
<1>8. QED BY <1>7, SumIsIter DEF F, G

(* What bounds every term bounds the sum.                                    *)
LEMMA SumBound ==
  ASSUME NEW S, IsFiniteSet(S), NEW f, NEW g, NEW h, NEW k \in Nat,
         \A x \in S : f[x] \in Nat, \A x \in S : g[x] \in Nat, \A x \in S : h[x] \in Nat,
         \A x \in S : f[x] <= g[x] + h[x] + k
  PROVE  SumFunctionOnSet(f, S) <= SumFunctionOnSet(g, S) + SumFunctionOnSet(h, S) + Cardinality(S) * k
<1> DEFINE F == Iter(f, S)
           G == Iter(g, S)
           H == Iter(h, S)
           T == {s \in SUBSET S : F[s] <= G[s] + H[s] + Cardinality(s) * k}
<1>0. SumsUp(F, f, S) /\ SumsUp(G, g, S) /\ SumsUp(H, h, S) BY IterSteps
<1>1. \A s \in SUBSET S : F[s] \in Nat /\ G[s] \in Nat /\ H[s] \in Nat BY IterType
<1> HIDE DEF F, G, H
<1>2. /\ F[{}] = 0 /\ G[{}] = 0 /\ H[{}] = 0
      /\ \A s \in SUBSET S : s # {} => /\ Pick(s) \in s /\ s \ {Pick(s)} \in SUBSET S
                                       /\ F[s] = f[Pick(s)] + F[s \ {Pick(s)}]
                                       /\ G[s] = g[Pick(s)] + G[s \ {Pick(s)}]
                                       /\ H[s] = h[Pick(s)] + H[s \ {Pick(s)}]
  BY <1>0 DEF SumsUp
<1>3. {} \in T BY <1>2, FS_EmptySet
<1>4. ASSUME NEW s \in SUBSET S, s # {}, s \ {Pick(s)} \in T PROVE s \in T
  <2> DEFINE p == Pick(s)
             r == s \ {p}
             n == Cardinality(r)
  <2>1. /\ p \in s /\ r \in SUBSET S
        /\ F[s] = f[p] + F[r] /\ G[s] = g[p] + G[r] /\ H[s] = h[p] + H[r]
    BY <1>2, <1>4
  <2>2. /\ p \in S /\ f[p] \in Nat /\ g[p] \in Nat /\ h[p] \in Nat
        /\ F[r] \in Nat /\ G[r] \in Nat /\ H[r] \in Nat
    BY <1>1, <2>1
  <2>3. F[r] <= G[r] + H[r] + n * k BY <1>4
  <2>4. f[p] <= g[p] + h[p] + k BY <2>2
  <2>5. IsFiniteSet(s) /\ Cardinality(s) \in Nat BY FS_Subset, FS_CardinalityType
  <2>6. n \in Nat /\ Cardinality(s) = n + 1
    <3>1. n = Cardinality(s) - 1 BY <2>1, <2>5, FS_RemoveElement
    <3>2. IsFiniteSet(r) BY <2>5, FS_RemoveElement
    <3>3. n \in Nat BY <3>2, FS_CardinalityType
    <3>4. QED BY <2>5, <3>1, <3>3
  <2> HIDE DEF p, r, n
  <2>7. n * k \in Nat /\ (n + 1) * k = n * k + k BY <2>6
  <2>8. F[s] <= G[s] + H[s] + (n * k + k)
    <3> DEFINE m == n * k
    <3>1. m \in Nat /\ F[r] <= G[r] + H[r] + m BY <2>3, <2>7
    <3> HIDE DEF m
    <3>2. F[s] <= G[s] + H[s] + (m + k) BY <2>1, <2>2, <2>4, <3>1
    <3>3. QED BY <3>2 DEF m
  <2>9. F[s] <= G[s] + H[s] + Cardinality(s) * k BY <2>6, <2>7, <2>8
  <2>10. QED BY <2>9
<1>5. T = SUBSET S
  <2> HIDE DEF T
  <2>1. T \in SUBSET SUBSET S BY DEF T
  <2>2. QED BY <1>3, <1>4, <2>1, SubsetInduction
<1>6. S \in T BY <1>5
<1>7. QED BY <1>6, SumIsIter DEF F, G, H

(* A nonempty finite set of natural numbers has a largest element.           *)
LEMMA MaxIs ==
  ASSUME NEW S \in SUBSET Nat, IsFiniteSet(S), S # {}
  PROVE  Max(S) \in S /\ \A y \in S : y <= Max(S)
<1> DEFINE T == {s \in SUBSET S : s # {} => \E x \in s : \A y \in s : x >= y}
<1>1. {} \in T OBVIOUS
<1>2. ASSUME NEW s \in SUBSET S, s # {}, s \ {Pick(s)} \in T PROVE s \in T
  <2>1. Pick(s) \in s /\ Pick(s) \in Nat BY <1>2 DEF Pick
  <2>2. CASE s \ {Pick(s)} = {}
    <3>1. s = {Pick(s)} BY <2>1, <2>2
    <3> HIDE DEF Pick
    <3>2. QED BY <2>1, <3>1
  <2>3. CASE s \ {Pick(s)} # {}
    <3>1. PICK x \in s \ {Pick(s)} : \A y \in s \ {Pick(s)} : x >= y BY <1>2, <2>3
    <3>2. x \in Nat OBVIOUS
    <3>3. CASE x >= Pick(s) BY <3>1, <3>3
    <3>4. CASE ~(x >= Pick(s))
      <4>1. \A y \in s : Pick(s) >= y BY <2>1, <3>1, <3>2, <3>4
      <4>2. QED BY <2>1, <4>1
    <3>5. QED BY <3>3, <3>4
  <2>4. QED BY <2>2, <2>3
<1>3. T = SUBSET S
  <2> HIDE DEF T
  <2>1. T \in SUBSET SUBSET S BY DEF T
  <2>2. QED BY <1>1, <1>2, <2>1, SubsetInduction
<1>4. \E x \in S : \A y \in S : x >= y BY <1>3
<1>5. Max(S) \in S /\ \A y \in S : Max(S) >= y BY <1>4 DEF Max
<1>6. QED BY <1>5

-----------------------------------------------------------------------------
(* GoalBudget. What holds in every reachable state.                          *)

Holds == {"none", "open", "settled", "dirty", "closed"}
Imported == {"settled", "dirty"}
CallSteps == {"idle", "reserve", "queued", "granted", "sent", "gone"}

Rows == [made : BOOLEAN, budget : 0..Limit, dispatched : BOOLEAN, receipt : BOOLEAN,
         closed : BOOLEAN, tokens : Nat, complete : BOOLEAN, clean : BOOLEAN]
Meters == [up : BOOLEAN, used : Nat, uncertain : BOOLEAN, reserved : Nat,
           held : [Children -> Holds]]
ToolCalls == [step : CallSteps, tokens : 0..Limit]
ChildRuns == [state : {"absent", "running", "ended", "fenced"}, used : Nat, receipt : Nat,
              late : Nat, complete : BOOLEAN, clean : BOOLEAN]

\* The shapes of everything that is kept.
ShapesOK ==
  /\ budgetTurn \in [state : {"reserved", "settled"}, spent : Nat, measured : BOOLEAN]
  /\ live \in BOOLEAN /\ budgetLock \in Children \cup {"free"}
  /\ local \in [open : RequestCosts \cup {0}, seen : Nat, count : Nat]
  /\ row \in [Children -> Rows] /\ meter \in Meters
  /\ call \in [Children -> ToolCalls] /\ child \in [Children -> ChildRuns]

\* What a call, its row and the meter's entry say of one another.
RowOK(c) ==
  /\ ~row[c].made => row[c] = NoRow /\ meter.held[c] = "none"
  /\ call[c].step \in {"idle", "reserve", "queued"} => ~row[c].made
  /\ call[c].step = "idle" => call[c].tokens = 0
  /\ call[c].step = "sent" => row[c].dispatched
  /\ row[c].made /\ meter.held[c] = "none" => row[c].budget <= call[c].tokens

\* A child runs only what was dispatched, and overshoots by less than a request.
RunsOK(c) ==
  /\ child[c].state # "absent" => row[c].dispatched
  /\ child[c].state \in {"absent", "fenced"} => child[c].used = 0
  /\ child[c].used <= row[c].budget + (MaxCost - 1)
  /\ child[c].state = "ended" =>
       /\ child[c].receipt <= child[c].late /\ child[c].late <= child[c].used
       /\ child[c].complete => child[c].receipt = child[c].used

\* A row's receipt is the child's, and a closed row is of a child that never ran.
ReceiptOK(c) ==
  /\ ~row[c].receipt /\ ~row[c].closed => row[c].tokens = 0 /\ ~row[c].complete /\ ~row[c].clean
  /\ row[c].receipt =>
       /\ child[c].state = "ended" /\ ~row[c].closed /\ row[c].tokens <= child[c].late
       /\ row[c].complete => child[c].complete /\ row[c].tokens = child[c].used
       /\ row[c].clean => child[c].clean
  /\ row[c].closed =>
       /\ row[c].tokens = 0 /\ child[c].state \in {"absent", "fenced"}
       /\ child[c].state = "absent" => call[c].step # "sent"

\* The meter knows of each receipt while the turn is reserved, and its totals
\* are exact as long as nothing is uncertain.
HeldOK(c) ==
  /\ meter.held[c] \in Imported => row[c].receipt
  /\ meter.held[c] = "closed" => row[c].closed
  /\ budgetTurn.state = "reserved" /\ meter.held[c] \in {"none", "open"} =>
       ~row[c].receipt /\ ~row[c].closed
  /\ meter.held[c] \in Imported /\ ~meter.uncertain => child[c].complete /\ row[c].complete

\* What the meter still reserves for a child, and what the child may be due.
Tokens == [c \in Children |-> row[c].tokens]
Allowance == [c \in Children |-> IF meter.held[c] = "none" THEN call[c].tokens
                                 ELSE IF meter.held[c] = "open" THEN row[c].budget ELSE 0]
Due == [c \in Children |-> IF meter.held[c] \in Imported
                           THEN IF child[c].used < row[c].budget THEN child[c].used ELSE row[c].budget
                           ELSE Allowance[c]]

Kept == SumFunctionOnSet(Tokens, Children)
Promised == SumFunctionOnSet(Allowance, Children)
Owed == SumFunctionOnSet(Due, Children)

\* The totals of the meter.
TotalsOK ==
  /\ live => budgetTurn.state = "reserved"
  /\ meter.reserved = Promised
  /\ meter.up /\ budgetTurn.state = "reserved" => meter.used = Retained

\* What was used and what may still be due exceeds the limit by one request.
WithinLimit == local.seen + local.open + Owed <= Limit + MaxCost

\* A turn settled as measured has nothing left that is not measured.
MeasuredOK ==
  budgetTurn.state = "settled" /\ budgetTurn.measured =>
    local.open = 0 /\ \A c \in Children : row[c].made => row[c].complete

ChildrenOK == \A c \in Children : RowOK(c) /\ RunsOK(c) /\ ReceiptOK(c) /\ HeldOK(c)

BudgetIInv ==
  /\ BudgetAssumption /\ ShapesOK /\ ChildrenOK /\ TotalsOK /\ WithinLimit /\ MeasuredOK
  /\ LedgerBalances


LEMMA BudgetFacts ==
  ASSUME BudgetAssumption
  PROVE  /\ IsFiniteSet(Children) /\ Limit \in Nat /\ MaxCost \in Nat /\ 1 <= MaxCost
         /\ \A n \in RequestCosts : n \in Nat /\ 1 <= n /\ n <= MaxCost
<1>1. MaxCost \in RequestCosts /\ \A n \in RequestCosts : n <= MaxCost
  BY MaxIs DEF MaxCost, BudgetAssumption
<1>2. \A n \in RequestCosts : n \in Nat /\ 1 <= n BY DEF BudgetAssumption
<1>3. QED BY <1>1, <1>2 DEF BudgetAssumption

LEMMA BudgetParts ==
  ASSUME BudgetIInv
  PROVE  /\ BudgetAssumption /\ ShapesOK /\ ChildrenOK /\ TotalsOK /\ WithinLimit /\ MeasuredOK
         /\ LedgerBalances
BY DEF BudgetIInv

LEMMA ShapesAre ==
  ASSUME ShapesOK
  PROVE  /\ budgetTurn.state \in {"reserved", "settled"} /\ budgetTurn.spent \in Nat
         /\ budgetTurn.measured \in BOOLEAN /\ live \in BOOLEAN
         /\ local.open \in RequestCosts \cup {0} /\ local.seen \in Nat /\ local.count \in Nat
         /\ meter.up \in BOOLEAN /\ meter.uncertain \in BOOLEAN
         /\ meter.used \in Nat /\ meter.reserved \in Nat
         /\ meter.held \in [Children -> Holds]
BY DEF ShapesOK, Meters

LEMMA ChildShapes ==
  ASSUME ShapesOK, NEW c \in Children
  PROVE  /\ row[c] \in Rows /\ call[c] \in ToolCalls /\ child[c] \in ChildRuns
         /\ meter.held[c] \in Holds
         /\ row[c].tokens \in Nat /\ row[c].budget \in 0..Limit /\ call[c].tokens \in 0..Limit
         /\ child[c].used \in Nat /\ child[c].receipt \in Nat /\ child[c].late \in Nat
<1>1. row[c] \in Rows /\ call[c] \in ToolCalls /\ child[c] \in ChildRuns BY DEF ShapesOK
<1>2. meter.held[c] \in Holds BY DEF ShapesOK, Meters
<1>3. row[c].tokens \in Nat /\ row[c].budget \in 0..Limit BY <1>1 DEF Rows
<1>4. call[c].tokens \in 0..Limit BY <1>1 DEF ToolCalls
<1>5. child[c].used \in Nat /\ child[c].receipt \in Nat /\ child[c].late \in Nat
  BY <1>1 DEF ChildRuns
<1>6. QED BY <1>1, <1>2, <1>3, <1>4, <1>5

\* What may be added up.
LEMMA TermsAre ==
  ASSUME BudgetAssumption, ShapesOK
  PROVE  /\ \A c \in Children : Tokens[c] \in Nat /\ Tokens[c] = row[c].tokens
         /\ \A c \in Children : Allowance[c] \in Nat
         /\ \A c \in Children : Due[c] \in Nat
<1>1. Limit \in Nat BY BudgetFacts
<1>2. ASSUME NEW c \in Children
      PROVE  Tokens[c] \in Nat /\ Tokens[c] = row[c].tokens /\ Allowance[c] \in Nat
  BY <1>1, ChildShapes DEF Tokens, Allowance
<1>3. ASSUME NEW c \in Children PROVE Due[c] \in Nat
  <2>1. child[c].used \in Nat /\ row[c].budget \in Nat BY <1>1, ChildShapes
  <2>2. QED BY <1>2, <2>1 DEF Due
<1>4. QED BY <1>2, <1>3

LEMMA SumsAre ==
  ASSUME BudgetAssumption, ShapesOK
  PROVE  /\ Kept \in Nat /\ Promised \in Nat /\ Owed \in Nat
         /\ Retained = local.seen + Kept
<1>1. IsFiniteSet(Children) BY BudgetFacts
<1>2. Kept \in Nat BY <1>1, TermsAre, SumType DEF Kept
<1>3. Promised \in Nat BY <1>1, TermsAre, SumType DEF Promised
<1>4. Owed \in Nat BY <1>1, TermsAre, SumType DEF Owed
<1>5. Retained = local.seen + Kept BY DEF Retained, Kept, Tokens, SumFunction
<1>6. QED BY <1>2, <1>3, <1>4, <1>5

\* A step that leaves the other children alone.
OthersStay(c) ==
  \A d \in Children : d # c =>
    /\ row'[d] = row[d] /\ call'[d] = call[d] /\ child'[d] = child[d]
    /\ meter'.held[d] = meter.held[d]

LEMMA ChildShapesAfter ==
  ASSUME ShapesOK', NEW c \in Children
  PROVE  /\ row'[c] \in Rows /\ call'[c] \in ToolCalls /\ child'[c] \in ChildRuns
         /\ meter'.held[c] \in Holds
         /\ row'[c].tokens \in Nat /\ row'[c].budget \in 0..Limit /\ call'[c].tokens \in 0..Limit
         /\ child'[c].used \in Nat /\ child'[c].receipt \in Nat /\ child'[c].late \in Nat
<1>1. row'[c] \in Rows /\ call'[c] \in ToolCalls /\ child'[c] \in ChildRuns
  BY DEF ShapesOK, Rows, ToolCalls, ChildRuns
<1>2. meter'.held[c] \in Holds BY DEF ShapesOK, Meters, Holds
<1>3. row'[c].tokens \in Nat /\ row'[c].budget \in 0..Limit BY <1>1 DEF Rows
<1>4. call'[c].tokens \in 0..Limit BY <1>1 DEF ToolCalls
<1>5. child'[c].used \in Nat /\ child'[c].receipt \in Nat /\ child'[c].late \in Nat
  BY <1>1 DEF ChildRuns
<1>6. QED BY <1>1, <1>2, <1>3, <1>4, <1>5

LEMMA TermsAfter ==
  ASSUME BudgetAssumption, ShapesOK'
  PROVE  /\ \A c \in Children : Tokens'[c] \in Nat /\ Tokens'[c] = row'[c].tokens
         /\ \A c \in Children : Allowance'[c] \in Nat
         /\ \A c \in Children : Due'[c] \in Nat
<1>1. Limit \in Nat BY BudgetFacts
<1>2. ASSUME NEW c \in Children
      PROVE  Tokens'[c] \in Nat /\ Tokens'[c] = row'[c].tokens /\ Allowance'[c] \in Nat
  BY <1>1, ChildShapesAfter DEF Tokens, Allowance
<1>3. ASSUME NEW c \in Children PROVE Due'[c] \in Nat
  <2>1. child'[c].used \in Nat /\ row'[c].budget \in Nat BY <1>1, ChildShapesAfter
  <2>2. QED BY <1>2, <2>1 DEF Due
<1>4. QED BY <1>2, <1>3

LEMMA SumsMove ==
  ASSUME BudgetAssumption, ShapesOK, ShapesOK', NEW c \in Children, OthersStay(c)
  PROVE  /\ Kept' = Kept - row[c].tokens + row'[c].tokens
         /\ Promised' = Promised - Allowance[c] + Allowance'[c]
         /\ Owed' = Owed - Due[c] + Due'[c]
<1>1. IsFiniteSet(Children) BY BudgetFacts
<1>2. /\ \A d \in Children : d # c => Tokens'[d] = Tokens[d]
      /\ \A d \in Children : d # c => Allowance'[d] = Allowance[d]
  BY DEF OthersStay, Tokens, Allowance
<1>3. \A d \in Children : d # c => Due'[d] = Due[d]
  BY <1>2 DEF OthersStay, Due
<1>4. /\ \A d \in Children : Tokens[d] \in Nat /\ Tokens[d] = row[d].tokens
      /\ \A d \in Children : Allowance[d] \in Nat
      /\ \A d \in Children : Due[d] \in Nat
  BY TermsAre
<1>5. /\ \A d \in Children : Tokens'[d] \in Nat /\ Tokens'[d] = row'[d].tokens
      /\ \A d \in Children : Allowance'[d] \in Nat
      /\ \A d \in Children : Due'[d] \in Nat
  BY TermsAfter
<1>6. Kept' = Kept - row[c].tokens + row'[c].tokens
  <2>1. SumFunctionOnSet(Tokens', Children)
          = SumFunctionOnSet(Tokens, Children) - Tokens[c] + Tokens'[c]
    BY <1>1, <1>2, <1>4, <1>5, SumUpdate
  <2>2. QED BY <1>4, <1>5, <2>1 DEF Kept
<1>7. Promised' = Promised - Allowance[c] + Allowance'[c]
  <2>1. SumFunctionOnSet(Allowance', Children)
          = SumFunctionOnSet(Allowance, Children) - Allowance[c] + Allowance'[c]
    <3>1. \A d \in Children : Allowance[d] \in Nat BY <1>4
    <3>2. \A d \in Children : Allowance'[d] \in Nat BY <1>5
    <3>3. \A d \in Children : d # c => Allowance'[d] = Allowance[d] BY <1>2
    <3>4. QED BY <1>1, <3>1, <3>2, <3>3, SumUpdate
  <2>2. QED BY <2>1 DEF Promised
<1>8. Owed' = Owed - Due[c] + Due'[c]
  <2>1. SumFunctionOnSet(Due', Children) = SumFunctionOnSet(Due, Children) - Due[c] + Due'[c]
    BY <1>1, <1>3, <1>4, <1>5, SumUpdate
  <2>2. QED BY <2>1 DEF Owed
<1>9. QED BY <1>6, <1>7, <1>8

LEMMA SumsAfter ==
  ASSUME BudgetAssumption, ShapesOK'
  PROVE  /\ Kept' \in Nat /\ Promised' \in Nat /\ Owed' \in Nat
         /\ Retained' = local'.seen + Kept'
<1>1. IsFiniteSet(Children) BY BudgetFacts
<1>2. SumFunctionOnSet(Tokens', Children) \in Nat BY <1>1, TermsAfter, SumType
<1>3. SumFunctionOnSet(Allowance', Children) \in Nat BY <1>1, TermsAfter, SumType
<1>4. SumFunctionOnSet(Due', Children) \in Nat BY <1>1, TermsAfter, SumType
<1>5. Retained' = local'.seen + Kept' BY DEF Retained, Kept, Tokens, SumFunction
<1>6. QED BY <1>2, <1>3, <1>4, <1>5 DEF Kept, Promised, Owed

(* What is retained moves with the one row that does.                        *)
LEMMA RetainedMoves ==
  ASSUME BudgetAssumption, ShapesOK, ShapesOK', NEW c \in Children, OthersStay(c),
         local'.seen = local.seen
  PROVE  Retained' = Retained - row[c].tokens + row'[c].tokens
<1>1. local.seen \in Nat /\ row[c].tokens \in Nat /\ row'[c].tokens \in Nat
  BY ShapesAre, ChildShapes, ChildShapesAfter
<1>2. Kept \in Nat /\ Kept' \in Nat /\ Retained = local.seen + Kept
      /\ Retained' = local'.seen + Kept'
  BY SumsAre, SumsAfter
<1>3. Kept' = Kept - row[c].tokens + row'[c].tokens BY SumsMove
<1>4. QED BY <1>1, <1>2, <1>3

(* A step about one child keeps the invariant when that child's part of it   *)
(* does, and the totals move with the child's terms.                         *)
LEMMA OneChild ==
  ASSUME BudgetIInv, NEW c \in Children, ShapesOK', OthersStay(c),
         local' = local, live' = live, meter'.up = meter.up,
         budgetTurn'.state = budgetTurn.state, budgetTurn'.measured = budgetTurn.measured,
         budgetTurn.state = "settled" =>
           budgetTurn'.spent = budgetTurn.spent - row[c].tokens + row'[c].tokens,
         meter.uncertain => meter'.uncertain,
         meter'.reserved = meter.reserved - Allowance[c] + Allowance'[c],
         meter.up /\ budgetTurn.state = "reserved" =>
           meter'.used = meter.used - row[c].tokens + row'[c].tokens,
         Due'[c] <= Due[c] \/ WithinLimit',
         budgetTurn.state = "settled" /\ budgetTurn.measured /\ row'[c].made => row'[c].complete,
         RowOK(c)', RunsOK(c)', ReceiptOK(c)', HeldOK(c)'
  PROVE  BudgetIInv'
<1>1. /\ BudgetAssumption /\ ShapesOK /\ ChildrenOK /\ TotalsOK /\ WithinLimit /\ MeasuredOK
      /\ LedgerBalances
  BY BudgetParts
<1>2. Retained' = Retained - row[c].tokens + row'[c].tokens BY <1>1, RetainedMoves
<1>3. /\ Promised' = Promised - Allowance[c] + Allowance'[c]
      /\ Owed' = Owed - Due[c] + Due'[c]
  BY <1>1, SumsMove
<1>4. ChildrenOK'
  <2>1. ASSUME NEW d \in Children, d # c PROVE RowOK(d)' /\ RunsOK(d)'
    <3>1. RowOK(d) /\ RunsOK(d) BY <1>1 DEF ChildrenOK
    <3>2. row'[d] = row[d] /\ call'[d] = call[d] /\ child'[d] = child[d]
          /\ meter'.held[d] = meter.held[d]
      BY <2>1 DEF OthersStay
    <3>3. RowOK(d)' BY <3>1, <3>2 DEF RowOK, NoRow
    <3>4. RunsOK(d)' BY <3>1, <3>2 DEF RunsOK, MaxCost
    <3>5. QED BY <3>3, <3>4
  <2>2. ASSUME NEW d \in Children, d # c PROVE ReceiptOK(d)' /\ HeldOK(d)'
    <3>1. ReceiptOK(d) /\ HeldOK(d) BY <1>1 DEF ChildrenOK
    <3>2. row'[d] = row[d] /\ call'[d] = call[d] /\ child'[d] = child[d]
          /\ meter'.held[d] = meter.held[d]
      BY <2>2 DEF OthersStay
    <3>3. ReceiptOK(d)' BY <3>1, <3>2 DEF ReceiptOK
    <3>4. HeldOK(d)' BY <3>1, <3>2 DEF HeldOK, Imported
    <3>5. QED BY <3>3, <3>4
  <2>3. ASSUME NEW d \in Children PROVE (RowOK(d) /\ RunsOK(d) /\ ReceiptOK(d) /\ HeldOK(d))'
    BY <2>1, <2>2
  <2>4. QED BY <2>3 DEF ChildrenOK
<1>5. TotalsOK'
  <2>1. (live => budgetTurn.state = "reserved") /\ meter.reserved = Promised
        /\ (meter.up /\ budgetTurn.state = "reserved" => meter.used = Retained)
    BY <1>1 DEF TotalsOK
  <2>2. (live => budgetTurn.state = "reserved")' BY <2>1
  <2>3. (meter.reserved = Promised)' BY <1>3, <2>1
  <2>4. (meter.up /\ budgetTurn.state = "reserved" => meter.used = Retained)' BY <1>2, <2>1
  <2>5. QED BY <2>2, <2>3, <2>4 DEF TotalsOK
<1>6. WithinLimit'
  <2>1. CASE WithinLimit' BY <2>1
  <2>2. CASE Due'[c] <= Due[c]
    <3>1. Due[c] \in Nat /\ Due'[c] \in Nat BY <1>1, TermsAre, TermsAfter
    <3>2. Owed \in Nat BY <1>1, SumsAre
    <3>3. Limit \in Nat /\ MaxCost \in Nat BY <1>1, BudgetFacts
    <3>4. local.seen \in Nat /\ local.open \in Nat
      <4>1. \A n \in RequestCosts : n \in Nat BY <1>1, BudgetFacts
      <4>2. QED BY <1>1, <4>1, ShapesAre
    <3>5. local.seen + local.open + Owed <= Limit + MaxCost BY <1>1 DEF WithinLimit
    <3>6. local.seen + local.open + Owed' <= Limit + MaxCost
      BY <1>3, <2>2, <3>1, <3>2, <3>3, <3>4, <3>5
    <3>7. QED BY <3>6 DEF WithinLimit, MaxCost
  <2>3. QED BY <2>1, <2>2
<1>7. MeasuredOK'
  <2>1. SUFFICES ASSUME budgetTurn.state = "settled", budgetTurn.measured
                 PROVE  local.open = 0 /\ \A d \in Children : row'[d].made => row'[d].complete
    BY DEF MeasuredOK
  <2>2. local.open = 0 /\ \A d \in Children : row[d].made => row[d].complete
    BY <1>1, <2>1 DEF MeasuredOK
  <2>3. QED BY <2>1, <2>2 DEF OthersStay
<1>8. LedgerBalances' BY <1>1, <1>2 DEF LedgerBalances
<1>9. BudgetAssumption' BY <1>1 DEF BudgetAssumption
<1>10. QED BY <1>4, <1>5, <1>6, <1>7, <1>8, <1>9 DEF BudgetIInv

(* One allowance is at most all of them.                                     *)
LEMMA TermWithin ==
  ASSUME BudgetAssumption, ShapesOK, NEW c \in Children
  PROVE  Allowance[c] <= Promised
<1> DEFINE none == [Allowance EXCEPT ![c] = 0]
<1>1. IsFiniteSet(Children) BY BudgetFacts
<1>2. \A d \in Children : Allowance[d] \in Nat BY TermsAre
<1>3. none[c] = 0 /\ \A d \in Children : d # c => none[d] = Allowance[d] BY DEF Allowance
<1> HIDE DEF none
<1>4. \A d \in Children : none[d] \in Nat BY <1>2, <1>3
<1>5. SumFunctionOnSet(none, Children)
        = SumFunctionOnSet(Allowance, Children) - Allowance[c] + none[c]
  <2>1. \A d \in Children : d # c => none[d] = Allowance[d] BY <1>3
  <2>2. QED BY <1>1, <1>2, <1>4, <2>1, SumUpdate
<1>6. SumFunctionOnSet(none, Children) \in Nat BY <1>1, <1>4, SumType
<1>7. SumFunctionOnSet(Allowance, Children) \in Nat BY <1>1, <1>2, SumType
<1>8. Allowance[c] \in Nat BY <1>2
<1>9. QED BY <1>3, <1>5, <1>6, <1>7, <1>8 DEF Promised

(* One row is at most all of them.                                           *)
LEMMA RowWithin ==
  ASSUME BudgetAssumption, ShapesOK, NEW c \in Children
  PROVE  row[c].tokens <= Kept
<1> DEFINE none == [Tokens EXCEPT ![c] = 0]
<1>1. IsFiniteSet(Children) BY BudgetFacts
<1>2. \A d \in Children : Tokens[d] \in Nat BY TermsAre
<1>3. none[c] = 0 /\ \A d \in Children : d # c => none[d] = Tokens[d] BY DEF Tokens
<1> HIDE DEF none
<1>4. \A d \in Children : none[d] \in Nat BY <1>2, <1>3
<1>5. SumFunctionOnSet(none, Children)
        = SumFunctionOnSet(Tokens, Children) - Tokens[c] + none[c]
  <2>1. \A d \in Children : d # c => none[d] = Tokens[d] BY <1>3
  <2>2. QED BY <1>1, <1>2, <1>4, <2>1, SumUpdate
<1>6. SumFunctionOnSet(none, Children) \in Nat BY <1>1, <1>4, SumType
<1>7. SumFunctionOnSet(Tokens, Children) \in Nat BY <1>1, <1>2, SumType
<1>8. Tokens[c] \in Nat /\ Tokens[c] = row[c].tokens BY TermsAre
<1>9. QED BY <1>3, <1>5, <1>6, <1>7, <1>8 DEF Kept

(* A step that leaves what is kept of the children alone.                    *)
SameChildren == /\ row' = row /\ call' = call /\ child' = child
                /\ meter'.held = meter.held /\ meter'.reserved = meter.reserved

LEMMA SumsStay ==
  ASSUME SameChildren
  PROVE  Kept' = Kept /\ Promised' = Promised /\ Owed' = Owed
<1>1. Tokens' = Tokens BY DEF SameChildren, Tokens
<1>2. Allowance' = Allowance BY DEF SameChildren, Allowance
<1>3. Due' = Due BY <1>2 DEF SameChildren, Due
<1>4. QED BY <1>1, <1>2, <1>3 DEF Kept, Promised, Owed

LEMMA RetainedStays ==
  ASSUME SameChildren, local'.seen = local.seen
  PROVE  Retained' = Retained
<1>1. Tokens' = Tokens BY DEF SameChildren, Tokens
<1>2. QED BY <1>1 DEF Retained, Tokens, SumFunction

LEMMA NoChild ==
  ASSUME BudgetIInv, ShapesOK', SameChildren,
         meter.uncertain => meter'.uncertain,
         budgetTurn'.state = "reserved" => budgetTurn.state = "reserved",
         live' => budgetTurn'.state = "reserved",
         meter'.up /\ budgetTurn'.state = "reserved" => meter'.used = Retained',
         WithinLimit', MeasuredOK', LedgerBalances'
  PROVE  BudgetIInv'
<1>1. BudgetAssumption /\ ChildrenOK /\ TotalsOK BY BudgetParts
<1>2. ASSUME NEW d \in Children PROVE RowOK(d)' /\ RunsOK(d)' /\ ReceiptOK(d)' /\ HeldOK(d)'
  <2>1. RowOK(d) /\ RunsOK(d) /\ ReceiptOK(d) /\ HeldOK(d) BY <1>1 DEF ChildrenOK
  <2>2. RowOK(d)' BY <2>1 DEF RowOK, NoRow, SameChildren
  <2>3. RunsOK(d)' BY <2>1 DEF RunsOK, MaxCost, SameChildren
  <2>4. ReceiptOK(d)' BY <2>1 DEF ReceiptOK, SameChildren
  <2>5. HeldOK(d)' BY <2>1 DEF HeldOK, Imported, SameChildren
  <2>6. QED BY <2>2, <2>3, <2>4, <2>5
<1>3. ChildrenOK' BY <1>2 DEF ChildrenOK
<1>4. TotalsOK'
  <2>1. meter.reserved = Promised BY <1>1 DEF TotalsOK
  <2>2. meter'.reserved = Promised' BY <2>1, SumsStay DEF SameChildren
  <2>3. QED BY <2>2 DEF TotalsOK
<1>5. BudgetAssumption' BY <1>1 DEF BudgetAssumption
<1>6. QED BY <1>3, <1>4, <1>5 DEF BudgetIInv

(* As long as nothing is uncertain, the meter covers what may still be due.  *)
LEMMA MeterCovers ==
  ASSUME BudgetIInv, meter.up, budgetTurn.state = "reserved", ~meter.uncertain
  PROVE  local.seen + Owed <= meter.used + meter.reserved
<1>1. BudgetAssumption /\ ShapesOK /\ ChildrenOK /\ TotalsOK BY BudgetParts
<1>2. IsFiniteSet(Children) BY <1>1, BudgetFacts
<1>3. \A c \in Children : Tokens[c] \in Nat /\ Tokens[c] = row[c].tokens BY <1>1, TermsAre
<1>4. \A c \in Children : Allowance[c] \in Nat BY <1>1, TermsAre
<1>5. \A c \in Children : Due[c] \in Nat BY <1>1, TermsAre
<1>6. ASSUME NEW c \in Children PROVE Due[c] <= Tokens[c] + Allowance[c] + 0
  <2>1. Tokens[c] \in Nat /\ Allowance[c] \in Nat /\ Due[c] \in Nat BY <1>3, <1>4, <1>5
  <2>2. CASE meter.held[c] \in Imported
    <3>1. HeldOK(c) /\ ReceiptOK(c) BY <1>1 DEF ChildrenOK
    <3>2. row[c].receipt /\ row[c].complete BY <2>2, <3>1 DEF HeldOK
    <3>3. row[c].tokens = child[c].used BY <3>1, <3>2 DEF ReceiptOK
    <3>4. child[c].used \in Nat BY <1>1, ChildShapes
    <3>5. Due[c] <= child[c].used
      <4>1. row[c].budget \in 0..Limit /\ Limit \in Nat BY <1>1, ChildShapes, BudgetFacts
      <4>2. QED BY <2>2, <3>4, <4>1 DEF Due
    <3>6. QED BY <1>3, <2>1, <3>3, <3>4, <3>5
  <2>3. CASE ~(meter.held[c] \in Imported)
    <3>1. Due[c] = Allowance[c] BY <2>3 DEF Due
    <3>2. QED BY <2>1, <3>1
  <2>4. QED BY <2>2, <2>3
<1>7. Owed <= Kept + Promised + Cardinality(Children) * 0
  BY <1>2, <1>3, <1>4, <1>5, <1>6, SumBound DEF Owed, Kept, Promised
<1>8. Cardinality(Children) \in Nat BY <1>2, FS_CardinalityType
<1>9. Owed \in Nat /\ Kept \in Nat /\ Promised \in Nat /\ Retained = local.seen + Kept
  BY <1>1, SumsAre
<1>10. local.seen \in Nat BY <1>1, ShapesAre
<1>11. meter.used = Retained /\ meter.reserved = Promised BY <1>1 DEF TotalsOK
<1>12. QED BY <1>7, <1>8, <1>9, <1>10, <1>11

LEMMA LocalBeginKeeps ==
  ASSUME BudgetIInv, NEW n \in RequestCosts, LocalBegin(n)
  PROVE  BudgetIInv'
<1>1. /\ BudgetAssumption /\ ShapesOK /\ ChildrenOK /\ TotalsOK /\ WithinLimit /\ MeasuredOK
      /\ LedgerBalances
  BY BudgetParts
<1>2. /\ meter.up /\ live /\ WithinBudget /\ local' = [local EXCEPT !.open = n, !.count = @ + 1]
      /\ UNCHANGED << budgetTurn, live, row, meter, call, budgetLock, child >>
  BY DEF LocalBegin
<1>3. local'.open = n /\ local'.seen = local.seen
      /\ local' \in [open : RequestCosts \cup {0}, seen : Nat, count : Nat]
  <2>1. local \in [open : RequestCosts \cup {0}, seen : Nat, count : Nat] BY <1>1 DEF ShapesOK
  <2>2. local'.open = n /\ local'.seen = local.seen BY <1>2, <2>1
  <2>3. n \in RequestCosts \cup {0} /\ local.count + 1 \in Nat BY <2>1
  <2>4. QED BY <1>2, <2>1, <2>2, <2>3
<1>4. budgetTurn.state = "reserved" BY <1>1, <1>2 DEF TotalsOK
<1>5. ShapesOK' BY <1>1, <1>2, <1>3 DEF ShapesOK, Meters, Holds, Rows, ToolCalls, CallSteps, ChildRuns
<1>6. SameChildren BY <1>2 DEF SameChildren
<1>7. Retained' = Retained BY <1>3, <1>6, RetainedStays
<1>8. meter.used = Retained BY <1>1, <1>2, <1>4 DEF TotalsOK
<1>9. WithinLimit'
  <2>1. local.seen + Owed <= meter.used + meter.reserved
    BY <1>2, <1>4, MeterCovers DEF WithinBudget
  <2>2. meter.used + meter.reserved < Limit BY <1>2 DEF WithinBudget
  <2>3. n \in Nat /\ n <= MaxCost /\ MaxCost \in Nat /\ Limit \in Nat BY <1>1, BudgetFacts
  <2>4. Owed \in Nat /\ Owed' = Owed BY <1>1, <1>6, SumsAre, SumsStay
  <2>5. local.seen \in Nat /\ meter.used \in Nat /\ meter.reserved \in Nat BY <1>1, ShapesAre
  <2>6. local'.seen + local'.open + Owed' <= Limit + MaxCost
    BY <1>3, <2>1, <2>2, <2>3, <2>4, <2>5
  <2>7. QED BY <2>6 DEF WithinLimit, MaxCost
<1>10. MeasuredOK' BY <1>2, <1>4 DEF MeasuredOK
<1>11. LedgerBalances' BY <1>2, <1>4 DEF LedgerBalances
<1>12. QED BY <1>2, <1>4, <1>5, <1>6, <1>7, <1>8, <1>9, <1>10, <1>11, NoChild

LEMMA LocalFinishKeeps ==
  ASSUME BudgetIInv, LocalFinish
  PROVE  BudgetIInv'
<1>1. /\ BudgetAssumption /\ ShapesOK /\ ChildrenOK /\ TotalsOK /\ WithinLimit /\ MeasuredOK
      /\ LedgerBalances
  BY BudgetParts
<1>2. /\ meter.up /\ live
      /\ local' = [local EXCEPT !.open = 0, !.seen = @ + local.open]
      /\ meter' = [meter EXCEPT !.used = @ + local.open]
      /\ UNCHANGED << budgetTurn, live, row, call, budgetLock, child >>
  BY DEF LocalFinish
<1>3. local.open \in Nat /\ local.seen \in Nat /\ meter.used \in Nat
  <2>1. \A n \in RequestCosts : n \in Nat BY <1>1, BudgetFacts
  <2>2. QED BY <1>1, <2>1, ShapesAre
<1>4. local'.open = 0 /\ local'.seen = local.seen + local.open
      /\ local' \in [open : RequestCosts \cup {0}, seen : Nat, count : Nat]
  <2>1. local \in [open : RequestCosts \cup {0}, seen : Nat, count : Nat] BY <1>1 DEF ShapesOK
  <2>2. local'.open = 0 /\ local'.seen = local.seen + local.open BY <1>2, <2>1
  <2>3. 0 \in RequestCosts \cup {0} /\ local.seen + local.open \in Nat BY <1>3
  <2>4. QED BY <1>2, <2>1, <2>2, <2>3
<1>5. /\ meter'.used = meter.used + local.open /\ meter'.held = meter.held
      /\ meter'.reserved = meter.reserved /\ meter'.uncertain = meter.uncertain
      /\ meter'.up = meter.up /\ meter' \in Meters
  <2>1. meter \in Meters BY <1>1 DEF ShapesOK
  <2>2. meter.used + local.open \in Nat BY <1>3
  <2>3. meter' \in Meters BY <1>2, <2>1, <2>2 DEF Meters
  <2>4. meter'.used = meter.used + local.open BY <1>2, <2>1 DEF Meters
  <2>5. /\ meter'.held = meter.held /\ meter'.reserved = meter.reserved
        /\ meter'.uncertain = meter.uncertain /\ meter'.up = meter.up
    BY <1>2, <2>1 DEF Meters
  <2>6. QED BY <2>3, <2>4, <2>5
<1>6. budgetTurn.state = "reserved" BY <1>1, <1>2 DEF TotalsOK
<1>7. ShapesOK' BY <1>1, <1>2, <1>4, <1>5 DEF ShapesOK, Meters, Holds, Rows, ToolCalls, CallSteps, ChildRuns
<1>8. SameChildren BY <1>2, <1>5 DEF SameChildren
<1>9. Kept' = Kept /\ Owed' = Owed BY <1>8, SumsStay
<1>10. Kept \in Nat /\ Owed \in Nat /\ Retained = local.seen + Kept BY <1>1, SumsAre
<1>11. Retained' = local'.seen + Kept' BY <1>1, <1>7, SumsAfter
<1>12. meter.used = Retained BY <1>1, <1>2, <1>6 DEF TotalsOK
<1>13. meter'.used = Retained'
  BY <1>3, <1>4, <1>5, <1>9, <1>10, <1>11, <1>12
<1>14. WithinLimit'
  <2>1. local.seen + local.open + Owed <= Limit + MaxCost BY <1>1 DEF WithinLimit
  <2>2. local'.seen + local'.open + Owed' <= Limit + MaxCost
    BY <1>3, <1>4, <1>9, <1>10, <2>1
  <2>3. QED BY <2>2 DEF WithinLimit, MaxCost
<1>15. MeasuredOK' BY <1>2, <1>6 DEF MeasuredOK
<1>16. LedgerBalances' BY <1>2, <1>6 DEF LedgerBalances
<1>17. QED BY <1>2, <1>5, <1>6, <1>7, <1>8, <1>13, <1>14, <1>15, <1>16, NoChild

LEMMA LocalFailKeeps ==
  ASSUME BudgetIInv, LocalFail
  PROVE  BudgetIInv'
<1>1. /\ BudgetAssumption /\ ShapesOK /\ ChildrenOK /\ TotalsOK /\ WithinLimit /\ MeasuredOK
      /\ LedgerBalances
  BY BudgetParts
<1>2. /\ meter.up /\ live /\ meter' = [meter EXCEPT !.uncertain = TRUE]
      /\ UNCHANGED << budgetTurn, live, local, row, call, budgetLock, child >>
  BY DEF LocalFail
<1>3. /\ meter'.used = meter.used /\ meter'.held = meter.held
      /\ meter'.reserved = meter.reserved /\ meter'.uncertain
      /\ meter'.up = meter.up /\ meter' \in Meters
  <2>1. meter \in Meters BY <1>1 DEF ShapesOK
  <2>2. QED BY <1>2, <2>1 DEF Meters
<1>4. budgetTurn.state = "reserved" BY <1>1, <1>2 DEF TotalsOK
<1>5. ShapesOK' BY <1>1, <1>2, <1>3 DEF ShapesOK, Meters, Holds, Rows, ToolCalls, CallSteps, ChildRuns
<1>6. SameChildren BY <1>2, <1>3 DEF SameChildren
<1>7. Retained' = Retained BY <1>2, <1>6, RetainedStays
<1>8. meter.used = Retained BY <1>1, <1>2, <1>4 DEF TotalsOK
<1>9. WithinLimit' BY <1>1, <1>2, <1>6, SumsStay DEF WithinLimit, MaxCost
<1>10. MeasuredOK' BY <1>2, <1>4 DEF MeasuredOK
<1>11. LedgerBalances' BY <1>2, <1>4 DEF LedgerBalances
<1>12. QED BY <1>2, <1>3, <1>4, <1>5, <1>6, <1>7, <1>8, <1>9, <1>10, <1>11, NoChild

LEMMA RunEndKeeps ==
  ASSUME BudgetIInv, RunEnd
  PROVE  BudgetIInv'
<1>1. /\ BudgetAssumption /\ ShapesOK /\ ChildrenOK /\ TotalsOK /\ WithinLimit /\ MeasuredOK
      /\ LedgerBalances
  BY BudgetParts
<1>2. live' = FALSE /\ UNCHANGED << budgetTurn, local, row, meter, call, budgetLock, child >>
  BY DEF RunEnd
<1>3. live' \in BOOLEAN BY <1>2, Zenon
<1>4. ShapesOK' BY <1>1, <1>2, <1>3 DEF ShapesOK, Meters, Holds, Rows, ToolCalls, CallSteps, ChildRuns
<1>5. SameChildren BY <1>2 DEF SameChildren
<1>6. Retained' = Retained BY <1>2, <1>5, RetainedStays
<1>7. WithinLimit' BY <1>1, <1>2, <1>5, SumsStay DEF WithinLimit, MaxCost
<1>8. MeasuredOK' BY <1>1, <1>2 DEF MeasuredOK
<1>9. LedgerBalances' BY <1>1, <1>2, <1>6 DEF LedgerBalances
<1>10. meter'.up /\ budgetTurn'.state = "reserved" => meter'.used = Retained'
  BY <1>1, <1>2, <1>6 DEF TotalsOK
<1>11. QED BY <1>2, <1>4, <1>5, <1>7, <1>8, <1>9, <1>10, NoChild

LEMMA BudgetSettleKeeps ==
  ASSUME BudgetIInv, Settle
  PROVE  BudgetIInv'
<1>1. /\ BudgetAssumption /\ ShapesOK /\ ChildrenOK /\ TotalsOK /\ WithinLimit /\ MeasuredOK
      /\ LedgerBalances
  BY BudgetParts
<1>2. /\ meter.up /\ ~live /\ budgetTurn.state = "reserved"
      /\ budgetTurn' = [state |-> "settled", spent |-> meter.used,
                        measured |-> MeterComplete /\ RetainedComplete]
      /\ UNCHANGED << live, local, row, meter, call, budgetLock, child >>
  BY DEF Settle
<1>3. budgetTurn'.state = "settled" /\ budgetTurn'.spent = meter.used
      /\ (budgetTurn'.measured <=> MeterComplete /\ RetainedComplete)
  BY <1>2
<1>4. budgetTurn' \in [state : {"reserved", "settled"}, spent : Nat, measured : BOOLEAN]
  <2>1. meter.used \in Nat BY <1>1, ShapesAre
  <2>2. (MeterComplete /\ RetainedComplete) \in BOOLEAN BY DEF MeterComplete, RetainedComplete
  <2>3. QED BY <1>2, <2>1, <2>2
<1>5. ShapesOK' BY <1>1, <1>2, <1>4 DEF ShapesOK, Meters, Holds, Rows, ToolCalls, CallSteps, ChildRuns
<1>6. SameChildren BY <1>2 DEF SameChildren
<1>7. Retained' = Retained BY <1>2, <1>6, RetainedStays
<1>8. meter.used = Retained BY <1>1, <1>2 DEF TotalsOK
<1>9. WithinLimit' BY <1>1, <1>2, <1>6, SumsStay DEF WithinLimit, MaxCost
<1>10. MeasuredOK' BY <1>2, <1>3 DEF MeasuredOK, RetainedComplete
<1>11. LedgerBalances' BY <1>3, <1>7, <1>8 DEF LedgerBalances
<1>12. QED BY <1>2, <1>3, <1>5, <1>6, <1>9, <1>10, <1>11, NoChild

LEMMA RecoverKeeps ==
  ASSUME BudgetIInv, Recover
  PROVE  BudgetIInv'
<1>1. /\ BudgetAssumption /\ ShapesOK /\ ChildrenOK /\ TotalsOK /\ WithinLimit /\ MeasuredOK
      /\ LedgerBalances
  BY BudgetParts
<1>2. /\ ~meter.up /\ live' = FALSE
      /\ budgetTurn' = IF budgetTurn.state = "reserved"
                       THEN [state |-> "settled", spent |-> Retained, measured |-> FALSE]
                       ELSE budgetTurn
      /\ UNCHANGED << local, row, meter, call, budgetLock, child >>
  BY DEF Recover
<1>3. Retained \in Nat
  <2>1. local.seen \in Nat /\ Kept \in Nat /\ Retained = local.seen + Kept BY <1>1, ShapesAre, SumsAre
  <2>2. QED BY <2>1
<1>4. budgetTurn \in [state : {"reserved", "settled"}, spent : Nat, measured : BOOLEAN]
  BY <1>1 DEF ShapesOK
<1>5. budgetTurn'.state = "settled" BY <1>2, <1>4
<1>6. budgetTurn' \in [state : {"reserved", "settled"}, spent : Nat, measured : BOOLEAN]
  BY <1>2, <1>3, <1>4
<1>7. live' \in BOOLEAN BY <1>2, Zenon
<1>8. ShapesOK' BY <1>1, <1>2, <1>6, <1>7 DEF ShapesOK, Meters, Holds, Rows, ToolCalls, CallSteps, ChildRuns
<1>9. SameChildren BY <1>2 DEF SameChildren
<1>10. Retained' = Retained BY <1>2, <1>9, RetainedStays
<1>11. WithinLimit' BY <1>1, <1>2, <1>9, SumsStay DEF WithinLimit, MaxCost
<1>12. MeasuredOK' BY <1>1, <1>2, <1>4 DEF MeasuredOK
<1>13. LedgerBalances' BY <1>1, <1>2, <1>4, <1>10 DEF LedgerBalances
<1>14. QED BY <1>2, <1>5, <1>8, <1>9, <1>11, <1>12, <1>13, NoChild

LEMMA MeterDiesKeeps ==
  ASSUME BudgetIInv, MeterDies
  PROVE  BudgetIInv'
<1>1. /\ BudgetAssumption /\ ShapesOK /\ ChildrenOK /\ TotalsOK /\ WithinLimit /\ MeasuredOK
      /\ LedgerBalances
  BY BudgetParts
<1>2. /\ meter' = [meter EXCEPT !.up = FALSE] /\ budgetLock' = "free"
      /\ call' = [c \in Children |->
                    IF call[c].step = "sent" THEN call[c] ELSE [call[c] EXCEPT !.step = "gone"]]
      /\ UNCHANGED << budgetTurn, live, local, row, child >>
  BY DEF MeterDies
<1>3. /\ meter'.held = meter.held /\ meter'.reserved = meter.reserved
      /\ meter'.uncertain = meter.uncertain /\ ~meter'.up /\ meter' \in Meters
  <2>1. meter \in Meters BY <1>1 DEF ShapesOK
  <2>2. meter'.held = meter.held /\ meter'.reserved = meter.reserved
        /\ meter'.uncertain = meter.uncertain /\ ~meter'.up
    BY <1>2, <2>1 DEF Meters
  <2>3. meter' \in Meters BY <1>2, <2>1 DEF Meters
  <2>4. QED BY <2>2, <2>3
<1>4. ASSUME NEW c \in Children
      PROVE  /\ call'[c] \in ToolCalls /\ call'[c].tokens = call[c].tokens
             /\ call'[c].step = IF call[c].step = "sent" THEN "sent" ELSE "gone"
  <2>1. call[c] \in ToolCalls BY <1>1, ChildShapes
  <2>2. QED BY <1>2, <2>1 DEF ToolCalls, CallSteps
<1>5. call' \in [Children -> ToolCalls] BY <1>2, <1>4
<1>6. ShapesOK'
  BY <1>1, <1>2, <1>3, <1>5 DEF ShapesOK, Meters, Holds, Rows, ToolCalls, CallSteps, ChildRuns
<1>7. Tokens' = Tokens BY <1>2 DEF Tokens
<1>8. Allowance' = Allowance BY <1>2, <1>3, <1>4 DEF Allowance
<1>9. Due' = Due BY <1>2, <1>3, <1>8 DEF Due
<1>10. Kept' = Kept /\ Promised' = Promised /\ Owed' = Owed
  BY <1>7, <1>8, <1>9 DEF Kept, Promised, Owed
<1>11. Retained' = Retained BY <1>2 DEF Retained
<1>12. ASSUME NEW c \in Children PROVE RowOK(c)' /\ RunsOK(c)' /\ ReceiptOK(c)' /\ HeldOK(c)'
  <2>1. RowOK(c) /\ RunsOK(c) /\ ReceiptOK(c) /\ HeldOK(c) BY <1>1 DEF ChildrenOK
  <2>2. RowOK(c)' BY <1>2, <1>3, <1>4, <2>1 DEF RowOK, NoRow
  <2>3. RunsOK(c)' BY <1>2, <2>1 DEF RunsOK, MaxCost
  <2>4. ReceiptOK(c)' BY <1>2, <1>4, <2>1 DEF ReceiptOK
  <2>5. HeldOK(c)' BY <1>2, <1>3, <2>1 DEF HeldOK, Imported
  <2>6. QED BY <2>2, <2>3, <2>4, <2>5
<1>13. ChildrenOK' BY <1>12 DEF ChildrenOK
<1>14. TotalsOK' BY <1>1, <1>2, <1>3, <1>10 DEF TotalsOK
<1>15. WithinLimit' BY <1>1, <1>2, <1>10 DEF WithinLimit, MaxCost
<1>16. MeasuredOK' BY <1>1, <1>2 DEF MeasuredOK
<1>17. LedgerBalances' BY <1>1, <1>2, <1>11 DEF LedgerBalances
<1>18. BudgetAssumption' BY <1>1 DEF BudgetAssumption
<1>19. QED BY <1>6, <1>13, <1>14, <1>15, <1>16, <1>17, <1>18 DEF BudgetIInv

LEMMA ChildParts ==
  ASSUME BudgetIInv, NEW c \in Children
  PROVE  RowOK(c) /\ RunsOK(c) /\ ReceiptOK(c) /\ HeldOK(c)
BY BudgetParts DEF ChildrenOK

(* A step of one tool call or of one child's run, which moves no total.      *)
LEMMA OneCallOrRun ==
  ASSUME BudgetIInv, NEW c \in Children, ShapesOK', OthersStay(c),
         UNCHANGED << budgetTurn, live, local, row, meter >>,
         call'[c].tokens = call[c].tokens,
         child'[c].used = child[c].used \/ ~(meter.held[c] \in Imported),
         RowOK(c)', RunsOK(c)', ReceiptOK(c)', HeldOK(c)'
  PROVE  BudgetIInv'
<1>1. BudgetAssumption /\ ShapesOK /\ MeasuredOK BY BudgetParts
<1>2. Allowance'[c] = Allowance[c] BY DEF Allowance
<1>3. Due'[c] = Due[c] BY <1>2 DEF Due
<1>4. Due[c] \in Nat /\ Allowance[c] \in Nat BY <1>1, TermsAre
<1>5. Due'[c] <= Due[c] BY <1>3, <1>4
<1>6. meter'.reserved = meter.reserved - Allowance[c] + Allowance'[c]
  <2>1. meter.reserved \in Nat BY <1>1, ShapesAre
  <2>2. QED BY <1>2, <1>4, <2>1
<1>7. budgetTurn'.spent = budgetTurn.spent - row[c].tokens + row'[c].tokens
  <2>1. budgetTurn.spent \in Nat /\ row[c].tokens \in Nat BY <1>1, ShapesAre, ChildShapes
  <2>2. QED BY <2>1
<1>8. meter'.used = meter.used - row[c].tokens + row'[c].tokens
  <2>1. meter.used \in Nat /\ row[c].tokens \in Nat BY <1>1, ShapesAre, ChildShapes
  <2>2. QED BY <2>1
<1>9. budgetTurn.state = "settled" /\ budgetTurn.measured /\ row'[c].made => row'[c].complete
  BY <1>1 DEF MeasuredOK
<1>10. /\ budgetTurn'.state = budgetTurn.state /\ budgetTurn'.measured = budgetTurn.measured
       /\ meter'.up = meter.up /\ (meter.uncertain => meter'.uncertain)
       /\ local' = local /\ live' = live
  OBVIOUS
<1>11. QED BY <1>5, <1>6, <1>7, <1>8, <1>9, <1>10, OneChild

LEMMA AllocDropKeeps ==
  ASSUME BudgetIInv, NEW c \in Children, AllocDrop(c)
  PROVE  BudgetIInv'
<1>1. ShapesOK /\ RowOK(c) /\ RunsOK(c) /\ ReceiptOK(c) /\ HeldOK(c)
  BY BudgetParts, ChildParts
<1>2. /\ call[c].step = "reserve" /\ budgetLock' = "free"
      /\ call' = [call EXCEPT ![c].step = "queued"]
      /\ UNCHANGED << budgetTurn, live, local, row, meter, child >>
  BY DEF AllocDrop
<1>3. call \in [Children -> ToolCalls] BY <1>1 DEF ShapesOK
<1>4. call' \in [Children -> ToolCalls] BY <1>2, <1>3 DEF ToolCalls, CallSteps
<1>5. call'[c].step = "queued" /\ call'[c].tokens = call[c].tokens
  BY <1>2, <1>3 DEF ToolCalls
<1>6. OthersStay(c) BY <1>2, <1>3 DEF OthersStay
<1>7. ShapesOK' BY <1>1, <1>2, <1>4 DEF ShapesOK, Meters, Holds, Rows, ToolCalls, CallSteps, ChildRuns
<1>8. RowOK(c)' BY <1>1, <1>2, <1>5 DEF RowOK, NoRow
<1>9. RunsOK(c)' BY <1>1, <1>2 DEF RunsOK, MaxCost
<1>10. ReceiptOK(c)' BY <1>1, <1>2, <1>5 DEF ReceiptOK
<1>11. HeldOK(c)' BY <1>1, <1>2 DEF HeldOK, Imported
<1>12. QED BY <1>2, <1>5, <1>6, <1>7, <1>8, <1>9, <1>10, <1>11, OneCallOrRun

LEMMA CallDroppedKeeps ==
  ASSUME BudgetIInv, NEW c \in Children, CallDropped(c)
  PROVE  BudgetIInv'
<1>1. ShapesOK /\ RowOK(c) /\ RunsOK(c) /\ ReceiptOK(c) /\ HeldOK(c)
  BY BudgetParts, ChildParts
<1>2. /\ call[c].step = "granted" /\ call' = [call EXCEPT ![c].step = "gone"]
      /\ UNCHANGED << budgetTurn, live, local, row, meter, budgetLock, child >>
  BY DEF CallDropped
<1>3. call \in [Children -> ToolCalls] BY <1>1 DEF ShapesOK
<1>4. call' \in [Children -> ToolCalls] BY <1>2, <1>3 DEF ToolCalls, CallSteps
<1>5. call'[c].step = "gone" /\ call'[c].tokens = call[c].tokens
  BY <1>2, <1>3 DEF ToolCalls
<1>6. OthersStay(c) BY <1>2, <1>3 DEF OthersStay
<1>7. ShapesOK' BY <1>1, <1>2, <1>4 DEF ShapesOK, Meters, Holds, Rows, ToolCalls, CallSteps, ChildRuns
<1>8. RowOK(c)' BY <1>1, <1>2, <1>5 DEF RowOK, NoRow
<1>9. RunsOK(c)' BY <1>1, <1>2 DEF RunsOK, MaxCost
<1>10. ReceiptOK(c)' BY <1>1, <1>2, <1>5 DEF ReceiptOK
<1>11. HeldOK(c)' BY <1>1, <1>2 DEF HeldOK, Imported
<1>12. QED BY <1>2, <1>5, <1>6, <1>7, <1>8, <1>9, <1>10, <1>11, OneCallOrRun

LEMMA ChildAdmitKeeps ==
  ASSUME BudgetIInv, NEW c \in Children, ChildAdmit(c)
  PROVE  BudgetIInv'
<1>1. ShapesOK /\ RowOK(c) /\ RunsOK(c) /\ ReceiptOK(c) /\ HeldOK(c)
  BY BudgetParts, ChildParts
<1>2. /\ call[c].step = "sent" /\ child[c].state = "absent"
      /\ child' = [child EXCEPT ![c].state = "running"]
      /\ UNCHANGED << budgetTurn, live, local, row, meter, call, budgetLock >>
  BY DEF ChildAdmit
<1>3. child \in [Children -> ChildRuns] BY <1>1 DEF ShapesOK
<1>4. child' \in [Children -> ChildRuns] BY <1>2, <1>3 DEF ChildRuns
<1>5. child'[c].state = "running" /\ child'[c].used = child[c].used
  BY <1>2, <1>3 DEF ChildRuns
<1>6. OthersStay(c) BY <1>2, <1>3 DEF OthersStay
<1>7. ShapesOK' BY <1>1, <1>2, <1>4 DEF ShapesOK, Meters, Holds, Rows, ToolCalls, CallSteps, ChildRuns
<1>8. row[c].dispatched /\ ~row[c].receipt /\ ~row[c].closed
  BY <1>1, <1>2 DEF RowOK, ReceiptOK
<1>9. RowOK(c)' BY <1>1, <1>2 DEF RowOK, NoRow
<1>10. RunsOK(c)' BY <1>1, <1>2, <1>5, <1>8 DEF RunsOK, MaxCost
<1>11. ReceiptOK(c)' BY <1>1, <1>2, <1>8 DEF ReceiptOK
<1>12. HeldOK(c)' BY <1>1, <1>2, <1>8 DEF HeldOK, Imported
<1>13. QED BY <1>2, <1>5, <1>6, <1>7, <1>9, <1>10, <1>11, <1>12, OneCallOrRun

LEMMA ChildFenceKeeps ==
  ASSUME BudgetIInv, NEW c \in Children, ChildFence(c)
  PROVE  BudgetIInv'
<1>1. ShapesOK /\ RowOK(c) /\ RunsOK(c) /\ ReceiptOK(c) /\ HeldOK(c)
  BY BudgetParts, ChildParts
<1>2. /\ row[c].dispatched /\ child[c].state = "absent"
      /\ child' = [child EXCEPT ![c].state = "fenced"]
      /\ UNCHANGED << budgetTurn, live, local, row, meter, call, budgetLock >>
  BY DEF ChildFence
<1>3. child \in [Children -> ChildRuns] BY <1>1 DEF ShapesOK
<1>4. child' \in [Children -> ChildRuns] BY <1>2, <1>3 DEF ChildRuns
<1>5. child'[c].state = "fenced" /\ child'[c].used = child[c].used
  BY <1>2, <1>3 DEF ChildRuns
<1>6. OthersStay(c) BY <1>2, <1>3 DEF OthersStay
<1>7. ShapesOK' BY <1>1, <1>2, <1>4 DEF ShapesOK, Meters, Holds, Rows, ToolCalls, CallSteps, ChildRuns
<1>8. ~row[c].receipt BY <1>1, <1>2 DEF ReceiptOK
<1>9. RowOK(c)' BY <1>1, <1>2 DEF RowOK, NoRow
<1>10. RunsOK(c)' BY <1>1, <1>2, <1>5 DEF RunsOK, MaxCost
<1>11. ReceiptOK(c)' BY <1>1, <1>2, <1>5, <1>8 DEF ReceiptOK
<1>12. HeldOK(c)' BY <1>1, <1>2, <1>8 DEF HeldOK, Imported
<1>13. QED BY <1>2, <1>5, <1>6, <1>7, <1>9, <1>10, <1>11, <1>12, OneCallOrRun

LEMMA ChildWorkKeeps ==
  ASSUME BudgetIInv, NEW c \in Children, NEW n \in RequestCosts, ChildWork(c, n)
  PROVE  BudgetIInv'
<1>1. BudgetAssumption /\ ShapesOK /\ RowOK(c) /\ RunsOK(c) /\ ReceiptOK(c) /\ HeldOK(c)
  BY BudgetParts, ChildParts
<1>2. /\ child[c].state = "running" /\ child[c].used < row[c].budget
      /\ child' = [child EXCEPT ![c].used = @ + n]
      /\ UNCHANGED << budgetTurn, live, local, row, meter, call, budgetLock >>
  BY DEF ChildWork
<1>3. child \in [Children -> ChildRuns] BY <1>1 DEF ShapesOK
<1>4. n \in Nat /\ n <= MaxCost /\ MaxCost \in Nat /\ Limit \in Nat BY <1>1, BudgetFacts
<1>5. child[c].used \in Nat /\ row[c].budget \in Nat BY <1>1, <1>4, ChildShapes
<1>6. child' \in [Children -> ChildRuns]
  <2>1. child[c].used + n \in Nat BY <1>4, <1>5
  <2>2. QED BY <1>2, <1>3, <2>1 DEF ChildRuns
<1>7. child'[c].state = "running" /\ child'[c].used = child[c].used + n
  BY <1>2, <1>3 DEF ChildRuns
<1>8. OthersStay(c) BY <1>2, <1>3 DEF OthersStay
<1>9. ShapesOK' BY <1>1, <1>2, <1>6 DEF ShapesOK, Meters, Holds, Rows, ToolCalls, CallSteps, ChildRuns
<1>10. ~row[c].receipt /\ ~row[c].closed BY <1>1, <1>2 DEF ReceiptOK
<1>11. child'[c].used <= row[c].budget + (MaxCost - 1)
  BY <1>2, <1>4, <1>5, <1>7
<1>12. RowOK(c)' BY <1>1, <1>2 DEF RowOK, NoRow
<1>13. RunsOK(c)' BY <1>1, <1>2, <1>7, <1>11 DEF RunsOK, MaxCost
<1>14. ReceiptOK(c)' BY <1>1, <1>2, <1>10 DEF ReceiptOK
<1>15. HeldOK(c)' BY <1>1, <1>2, <1>10 DEF HeldOK, Imported
<1>16. ~(meter.held[c] \in Imported) BY <1>1, <1>10 DEF HeldOK
<1>17. QED
  BY <1>2, <1>8, <1>9, <1>12, <1>13, <1>14, <1>15, <1>16, OneCallOrRun

LEMMA ChildEndKeeps ==
  ASSUME BudgetIInv, NEW c \in Children, NEW complete \in BOOLEAN, NEW tidy \in BOOLEAN,
         ChildEnd(c, complete, tidy)
  PROVE  BudgetIInv'
<1>1. BudgetAssumption /\ ShapesOK /\ RowOK(c) /\ RunsOK(c) /\ ReceiptOK(c) /\ HeldOK(c)
  BY BudgetParts, ChildParts
<1>2. /\ child[c].state = "running"
      /\ UNCHANGED << budgetTurn, live, local, row, meter, call, budgetLock >>
  BY DEF ChildEnd
<1>3. PICK n \in 0..child[c].used :
        /\ complete => n = child[c].used
        /\ child' = [child EXCEPT ![c].state = "ended", ![c].receipt = n, ![c].late = n,
                                  ![c].complete = complete, ![c].clean = tidy]
  BY DEF ChildEnd
<1>4. child \in [Children -> ChildRuns] BY <1>1 DEF ShapesOK
<1>5. child[c].used \in Nat BY <1>1, ChildShapes
<1>6. n \in Nat /\ n <= child[c].used BY <1>5
<1>7. child' \in [Children -> ChildRuns]
  <2> DEFINE r == [child[c] EXCEPT !.state = "ended", !.receipt = n, !.late = n,
                                   !.complete = complete, !.clean = tidy]
  <2>1. child[c] \in ChildRuns BY <1>4
  <2>2. r \in ChildRuns BY <1>6, <2>1 DEF ChildRuns
  <2>3. child' = [child EXCEPT ![c] = r] BY <1>3, <1>4
  <2> HIDE DEF r
  <2>4. QED BY <1>4, <2>2, <2>3
<1>8. /\ child'[c].state = "ended" /\ child'[c].used = child[c].used
      /\ child'[c].receipt = n /\ child'[c].late = n /\ child'[c].complete = complete
  BY <1>3, <1>4 DEF ChildRuns
<1>9. OthersStay(c) BY <1>2, <1>3, <1>4 DEF OthersStay
<1>10. ShapesOK' BY <1>1, <1>2, <1>7 DEF ShapesOK, Meters, Holds, Rows, ToolCalls, CallSteps, ChildRuns
<1>11. ~row[c].receipt /\ ~row[c].closed BY <1>1, <1>2 DEF ReceiptOK
<1>12. RowOK(c)' BY <1>1, <1>2 DEF RowOK, NoRow
<1>13. RunsOK(c)'
  <2>1. row[c].dispatched /\ child[c].used <= row[c].budget + (MaxCost - 1)
    BY <1>1, <1>2 DEF RunsOK
  <2>2. n <= n BY <1>6
  <2>3. QED BY <1>2, <1>3, <1>6, <1>8, <2>1, <2>2 DEF RunsOK, MaxCost
<1>14. ReceiptOK(c)' BY <1>1, <1>2, <1>11 DEF ReceiptOK
<1>15. HeldOK(c)' BY <1>1, <1>2, <1>11 DEF HeldOK, Imported
<1>16. QED
  BY <1>2, <1>8, <1>9, <1>10, <1>12, <1>13, <1>14, <1>15, OneCallOrRun

LEMMA ChildLateKeeps ==
  ASSUME BudgetIInv, NEW c \in Children, ChildLate(c)
  PROVE  BudgetIInv'
<1>1. BudgetAssumption /\ ShapesOK /\ RowOK(c) /\ RunsOK(c) /\ ReceiptOK(c) /\ HeldOK(c)
  BY BudgetParts, ChildParts
<1>2. child[c].state = "ended" /\ UNCHANGED << budgetTurn, live, local, row, meter, call, budgetLock >>
  BY DEF ChildLate
<1>3. child \in [Children -> ChildRuns] /\ child[c] \in ChildRuns BY <1>1 DEF ShapesOK
<1>4. /\ child[c].used \in Nat /\ child[c].late \in Nat /\ child[c].receipt \in Nat
      /\ row[c].tokens \in Nat
  BY <1>1, ChildShapes
<1>5. /\ child' \in [Children -> ChildRuns]
      /\ \A d \in Children : d # c => child'[d] = child[d]
      /\ child'[c].state = "ended" /\ child'[c].used = child[c].used
      /\ child'[c].receipt = child[c].receipt /\ child'[c].complete = child[c].complete
      /\ child[c].clean => child'[c].clean
      /\ child[c].late <= child'[c].late /\ child'[c].late <= child[c].used
  <2>1. child[c].late <= child[c].used BY <1>1, <1>2 DEF RunsOK
  <2>2. CASE child[c].late < child[c].used /\ child' = [child EXCEPT ![c].late = @ + 1]
    <3>1. child[c].late + 1 \in Nat BY <1>4
    <3>2. child' \in [Children -> ChildRuns] BY <1>3, <2>2, <3>1 DEF ChildRuns
    <3>3. /\ child'[c].state = child[c].state /\ child'[c].used = child[c].used
          /\ child'[c].receipt = child[c].receipt /\ child'[c].complete = child[c].complete
          /\ child'[c].clean = child[c].clean /\ child'[c].late = child[c].late + 1
      BY <1>3, <2>2 DEF ChildRuns
    <3>4. child[c].late <= child'[c].late /\ child'[c].late <= child[c].used
      BY <1>4, <2>2, <3>3
    <3>5. \A d \in Children : d # c => child'[d] = child[d] BY <1>3, <2>2
    <3>6. QED BY <1>2, <3>2, <3>3, <3>4, <3>5
  <2>3. CASE child' = [child EXCEPT ![c].clean = TRUE]
    <3>1. child' \in [Children -> ChildRuns] BY <1>3, <2>3 DEF ChildRuns
    <3>2. /\ child'[c].state = child[c].state /\ child'[c].used = child[c].used
          /\ child'[c].receipt = child[c].receipt /\ child'[c].complete = child[c].complete
          /\ child'[c].clean = TRUE /\ child'[c].late = child[c].late
      BY <1>3, <2>3 DEF ChildRuns
    <3>3. child[c].late <= child'[c].late /\ child'[c].late <= child[c].used
      BY <1>4, <2>1, <3>2
    <3>4. \A d \in Children : d # c => child'[d] = child[d] BY <1>3, <2>3
    <3>5. QED BY <1>2, <3>1, <3>2, <3>3, <3>4
  <2>4. QED BY <2>2, <2>3 DEF ChildLate
<1>6. child'[c].late \in Nat BY <1>5 DEF ChildRuns
<1>7. OthersStay(c) BY <1>2, <1>5 DEF OthersStay
<1>8. ShapesOK' BY <1>1, <1>2, <1>5 DEF ShapesOK, Meters, Holds, Rows, ToolCalls, CallSteps, ChildRuns
<1>9. RowOK(c)' BY <1>1, <1>2 DEF RowOK, NoRow
<1>10. RunsOK(c)'
  <2>1. /\ row[c].dispatched /\ child[c].used <= row[c].budget + (MaxCost - 1)
        /\ child[c].receipt <= child[c].late /\ (child[c].complete => child[c].receipt = child[c].used)
    BY <1>1, <1>2 DEF RunsOK
  <2>2. child[c].receipt <= child'[c].late BY <1>4, <1>5, <1>6, <2>1
  <2>3. QED BY <1>2, <1>5, <2>1, <2>2 DEF RunsOK, MaxCost
<1>11. ReceiptOK(c)'
  <2>1. row[c].receipt => row[c].tokens <= child'[c].late
    <3>1. row[c].receipt => row[c].tokens <= child[c].late BY <1>1 DEF ReceiptOK
    <3>2. QED BY <1>4, <1>5, <1>6, <3>1
  <2>2. ~row[c].closed BY <1>1, <1>2 DEF ReceiptOK
  <2>3. QED BY <1>1, <1>2, <1>5, <2>1, <2>2 DEF ReceiptOK
<1>12. HeldOK(c)' BY <1>1, <1>2, <1>5 DEF HeldOK, Imported
<1>13. QED BY <1>2, <1>5, <1>7, <1>8, <1>9, <1>10, <1>11, <1>12, OneCallOrRun

LEMMA AllocReserveKeeps ==
  ASSUME BudgetIInv, NEW c \in Children, AllocReserve(c)
  PROVE  BudgetIInv'
<1>1. /\ BudgetAssumption /\ ShapesOK /\ TotalsOK /\ MeasuredOK
      /\ RowOK(c) /\ RunsOK(c) /\ ReceiptOK(c) /\ HeldOK(c)
  BY BudgetParts, ChildParts
<1> DEFINE t == Half(Limit - meter.used - meter.reserved)
<1>2. /\ meter.up /\ live /\ call[c].step = "idle" /\ ~meter.uncertain /\ t > 0 /\ budgetLock' = c
      /\ meter' = [meter EXCEPT !.reserved = @ + t]
      /\ call' = [call EXCEPT ![c] = [step |-> "reserve", tokens |-> t]]
      /\ UNCHANGED << budgetTurn, live, local, row, child >>
  BY DEF AllocReserve
<1>3. Limit \in Nat /\ MaxCost \in Nat /\ meter.used \in Nat /\ meter.reserved \in Nat
  BY <1>1, BudgetFacts, ShapesAre
<1>4. t \in 0..Limit /\ meter.used + meter.reserved + t <= Limit BY <1>2, <1>3 DEF Half
<1> HIDE DEF t
<1>5. meter \in Meters /\ call \in [Children -> ToolCalls] BY <1>1 DEF ShapesOK
<1>6. /\ meter'.held = meter.held /\ meter'.reserved = meter.reserved + t
      /\ meter'.uncertain = meter.uncertain /\ meter'.up = meter.up /\ meter'.used = meter.used
  BY <1>2, <1>5 DEF Meters
<1>7. meter' \in Meters
  <2>1. meter.reserved + t \in Nat BY <1>3, <1>4
  <2>2. QED BY <1>2, <1>5, <2>1 DEF Meters
<1>8. call' \in [Children -> ToolCalls] BY <1>2, <1>4, <1>5 DEF ToolCalls, CallSteps
<1>9. call'[c].step = "reserve" /\ call'[c].tokens = t BY <1>2, <1>5
<1>10. OthersStay(c) BY <1>2, <1>5, <1>6 DEF OthersStay
<1>11. ShapesOK'
  BY <1>1, <1>2, <1>7, <1>8 DEF ShapesOK, Meters, Holds, Rows, ToolCalls, CallSteps, ChildRuns
<1>12. budgetTurn.state = "reserved" BY <1>1, <1>2 DEF TotalsOK
<1>13. ~row[c].made /\ meter.held[c] = "none" /\ call[c].tokens = 0 BY <1>1, <1>2 DEF RowOK
<1>14. /\ Allowance[c] = 0 /\ Allowance'[c] = t
       /\ Due[c] = 0 /\ Due'[c] = t
  <2>1. Allowance[c] = 0 BY <1>13 DEF Allowance
  <2>2. Allowance'[c] = t BY <1>6, <1>9, <1>13 DEF Allowance
  <2>3. Due[c] = 0 BY <1>13, <2>1 DEF Due, Imported
  <2>4. Due'[c] = t BY <1>6, <1>13, <2>2 DEF Due, Imported
  <2>5. QED BY <2>1, <2>2, <2>3, <2>4
<1>15. WithinLimit'
  <2>1. local.seen + Owed <= meter.used + meter.reserved BY <1>2, <1>12, MeterCovers
  <2>2. Owed' = Owed - Due[c] + Due'[c] BY <1>1, <1>10, <1>11, SumsMove
  <2>3. Owed \in Nat BY <1>1, SumsAre
  <2>4. local.seen \in Nat /\ local.open \in Nat /\ local.open <= MaxCost
    <3>1. \A n \in RequestCosts : n \in Nat /\ n <= MaxCost BY <1>1, BudgetFacts
    <3>2. local.open \in RequestCosts \cup {0} /\ local.seen \in Nat BY <1>1, ShapesAre
    <3>3. QED BY <1>3, <3>1, <3>2
  <2>5. Owed' = Owed + t BY <1>4, <1>14, <2>2, <2>3
  <2>6. local.seen + local.open + Owed' <= Limit + MaxCost
    BY <1>3, <1>4, <2>1, <2>3, <2>4, <2>5
  <2>7. QED BY <1>2, <2>6 DEF WithinLimit, MaxCost
<1>16. RowOK(c)' BY <1>1, <1>2, <1>6, <1>9, <1>13 DEF RowOK, NoRow
<1>17. RunsOK(c)' BY <1>1, <1>2 DEF RunsOK, MaxCost
<1>18. ReceiptOK(c)' BY <1>1, <1>2, <1>9 DEF ReceiptOK
<1>19. HeldOK(c)' BY <1>1, <1>2, <1>6 DEF HeldOK, Imported
<1>20. /\ meter'.reserved = meter.reserved - Allowance[c] + Allowance'[c]
       /\ meter'.used = meter.used - row[c].tokens + row'[c].tokens
  <2>1. row[c].tokens \in Nat BY <1>1, ChildShapes
  <2>2. QED BY <1>2, <1>3, <1>4, <1>6, <1>14, <2>1
<1>21. QED
  BY <1>2, <1>6, <1>10, <1>11, <1>12, <1>15, <1>16, <1>17, <1>18, <1>19, <1>20, OneChild

(* What the journal grants is something, and no more than was asked for.     *)
LEMMA GrantIs ==
  ASSUME BudgetAssumption, ShapesOK, NEW c \in Children, Grant(c) > 0
  PROVE  Grant(c) \in 0..Limit /\ Grant(c) <= call[c].tokens
<1> DEFINE budgets == [d \in Children |-> row[d].budget]
           open == {d \in Children : OpenRow(d)}
<1>1. Limit \in Nat /\ IsFiniteSet(Children) BY BudgetFacts
<1>2. IsFiniteSet(open) BY <1>1, FS_Subset
<1>3. \A d \in open : budgets[d] \in Nat BY <1>1, ChildShapes
<1>4. SumFunctionOnSet(budgets, open) \in Nat
  <2> HIDE DEF budgets, open
  <2>1. QED BY <1>2, <1>3, SumType
<1>5. OpenBudgets \in Nat BY <1>4 DEF OpenBudgets
<1>6. Retained \in Nat
  <2>1. local.seen \in Nat /\ Kept \in Nat /\ Retained = local.seen + Kept BY ShapesAre, SumsAre
  <2>2. QED BY <2>1
<1>7. call[c].tokens \in 0..Limit BY ChildShapes
<1> DEFINE half == Half(Limit - Retained - OpenBudgets)
<1>8. half \in Nat BY <1>1, <1>5, <1>6 DEF Half
<1>9. Grant(c) = IF half < call[c].tokens THEN half ELSE call[c].tokens BY DEF Grant
<1> HIDE DEF half
<1>10. QED BY <1>1, <1>7, <1>8, <1>9

(* The row of a child as the journal grants it.                              *)
LEMMA GrantedRow ==
  ASSUME BudgetAssumption, ShapesOK, NEW c \in Children, RowOK(c), Grantable(c),
         row' = [row EXCEPT ![c].made = TRUE, ![c].budget = Grant(c)]
  PROVE  /\ row' \in [Children -> Rows] /\ \A d \in Children : d # c => row'[d] = row[d]
         /\ row'[c].made /\ row'[c].budget = Grant(c) /\ row'[c].tokens = 0 /\ row[c].tokens = 0
         /\ ~row'[c].dispatched /\ ~row[c].dispatched /\ ~row'[c].receipt /\ ~row'[c].closed
         /\ ~row'[c].complete /\ ~row'[c].clean /\ row[c].budget = 0
         /\ ~row[c].made /\ meter.held[c] = "none"
<1>1. Grant(c) \in 0..Limit BY GrantIs DEF Grantable
<1>2. row \in [Children -> Rows] BY DEF ShapesOK
<1>3. ~row[c].made /\ row[c] = NoRow /\ meter.held[c] = "none" BY DEF RowOK, Grantable
<1>4. row'[c] = [NoRow EXCEPT !.made = TRUE, !.budget = Grant(c)] BY <1>2, <1>3
<1>5. /\ row'[c].made /\ row'[c].budget = Grant(c) /\ row'[c].tokens = 0
      /\ ~row'[c].dispatched /\ ~row'[c].receipt /\ ~row'[c].closed
      /\ ~row'[c].complete /\ ~row'[c].clean
  BY <1>4 DEF NoRow
<1>6. row[c].tokens = 0 /\ ~row[c].dispatched /\ row[c].budget = 0 BY <1>3 DEF NoRow
<1>7. row' \in [Children -> Rows]
  <2> DEFINE r == [row[c] EXCEPT !.made = TRUE, !.budget = Grant(c)]
  <2>1. row[c] \in Rows BY <1>2
  <2>2. r \in Rows BY <1>1, <2>1 DEF Rows
  <2>3. row' = [row EXCEPT ![c] = r] BY <1>2
  <2> HIDE DEF r
  <2>4. QED BY <1>2, <2>2, <2>3
<1>8. \A d \in Children : d # c => row'[d] = row[d] BY <1>2
<1>9. QED BY <1>3, <1>5, <1>6, <1>7, <1>8

LEMMA AllocCommitKeeps ==
  ASSUME BudgetIInv, NEW c \in Children, AllocCommit(c)
  PROVE  BudgetIInv'
<1>1. /\ BudgetAssumption /\ ShapesOK /\ TotalsOK /\ MeasuredOK
      /\ RowOK(c) /\ RunsOK(c) /\ ReceiptOK(c) /\ HeldOK(c)
  BY BudgetParts, ChildParts
<1>2. /\ meter.up /\ call[c].step = "reserve" /\ budgetLock' = "free"
      /\ UNCHANGED << budgetTurn, live, local, child >>
  BY DEF AllocCommit
<1>3. Limit \in Nat /\ MaxCost \in Nat /\ meter.used \in Nat /\ meter.reserved \in Nat
  BY <1>1, BudgetFacts, ShapesAre
<1>4. meter \in Meters /\ call \in [Children -> ToolCalls] BY <1>1 DEF ShapesOK
<1>5. ~row[c].made /\ row[c] = NoRow /\ meter.held[c] = "none" BY <1>1, <1>2 DEF RowOK
<1>6. call[c].tokens \in 0..Limit BY <1>1, ChildShapes
<1>7. Allowance[c] = call[c].tokens /\ Due[c] = call[c].tokens
  <2>1. Allowance[c] = call[c].tokens BY <1>5 DEF Allowance
  <2>2. QED BY <1>5, <2>1 DEF Due, Imported
<1>8. ~row[c].dispatched BY <1>5 DEF NoRow
<1>9. child[c].state = "absent" /\ child[c].used = 0 BY <1>1, <1>8 DEF RunsOK
<1>10. CASE Grantable(c)
  <2> DEFINE g == Grant(c)
  <2>1. g \in 0..Limit /\ g <= call[c].tokens BY <1>1, <1>10, GrantIs DEF Grantable
  <2>2. /\ row' = [row EXCEPT ![c].made = TRUE, ![c].budget = g]
        /\ meter' = [meter EXCEPT !.reserved = @ - (call[c].tokens - g), !.held[c] = "open"]
        /\ call' = [call EXCEPT ![c].step = "granted"]
    BY <1>10 DEF AllocCommit
  <2>3. /\ row' \in [Children -> Rows] /\ \A d \in Children : d # c => row'[d] = row[d]
        /\ row'[c].made /\ row'[c].budget = g /\ row'[c].tokens = 0 /\ row[c].tokens = 0
        /\ ~row'[c].dispatched /\ ~row'[c].receipt /\ ~row'[c].closed
        /\ ~row'[c].complete /\ ~row'[c].clean
    BY <1>1, <1>10, <2>2, GrantedRow
  <2>4. budgetTurn.state = "reserved" BY <1>10 DEF Grantable
  <2> HIDE DEF g
  <2>5. /\ meter'.reserved = meter.reserved - (call[c].tokens - g) /\ meter'.held[c] = "open"
        /\ \A d \in Children : d # c => meter'.held[d] = meter.held[d]
        /\ meter'.uncertain = meter.uncertain /\ meter'.up = meter.up /\ meter'.used = meter.used
    BY <1>4, <2>2 DEF Meters
  <2>6. /\ call'[c].step = "granted" /\ call'[c].tokens = call[c].tokens
        /\ call' \in [Children -> ToolCalls] /\ \A d \in Children : d # c => call'[d] = call[d]
    BY <1>4, <2>2 DEF ToolCalls, CallSteps
  <2>7. OthersStay(c) BY <1>2, <2>3, <2>5, <2>6 DEF OthersStay
  <2>8. meter' \in Meters
    <3>1. Promised \in Nat /\ meter.reserved = Promised BY <1>1, SumsAre DEF TotalsOK
    <3>2. call[c].tokens <= Promised BY <1>1, <1>7, TermWithin
    <3>3. meter.reserved - (call[c].tokens - g) \in Nat BY <1>3, <1>6, <2>1, <3>1, <3>2
    <3>4. QED BY <1>4, <2>2, <3>3 DEF Meters, Holds
  <2>9. ShapesOK'
    BY <1>1, <1>2, <2>3, <2>6, <2>8 DEF ShapesOK, Meters, Holds, Rows, ToolCalls, CallSteps, ChildRuns
  <2>10. Allowance'[c] = g /\ Due'[c] = g
    <3>1. Allowance'[c] = g BY <2>3, <2>5 DEF Allowance
    <3>2. QED BY <2>5, <3>1 DEF Due, Imported
  <2>11. meter'.reserved = meter.reserved - Allowance[c] + Allowance'[c]
    BY <1>3, <1>6, <1>7, <2>1, <2>5, <2>10
  <2>12. meter'.used = meter.used - row[c].tokens + row'[c].tokens BY <1>3, <2>3, <2>5
  <2>13. Due'[c] <= Due[c] BY <1>7, <2>1, <2>10
  <2>14. RowOK(c)' BY <2>3, <2>5, <2>6 DEF RowOK, NoRow
  <2>15. RunsOK(c)'
    <3>1. child[c].used <= g + (MaxCost - 1)
      <4>1. 1 <= MaxCost BY <1>1, BudgetFacts
      <4>2. QED BY <1>3, <1>9, <2>1, <4>1
    <3>2. QED BY <1>2, <1>9, <2>3, <3>1 DEF RunsOK, MaxCost
  <2>16. ReceiptOK(c)' BY <2>3 DEF ReceiptOK
  <2>17. HeldOK(c)' BY <2>3, <2>5 DEF HeldOK, Imported
  <2>18. QED
    BY <1>2, <2>4, <2>5, <2>7, <2>9, <2>11, <2>12, <2>13, <2>14, <2>15, <2>16, <2>17, OneChild
<1>11. CASE ~Grantable(c)
  <2>1. /\ meter' = [meter EXCEPT !.uncertain = TRUE] /\ call' = [call EXCEPT ![c].step = "gone"]
        /\ row' = row
    BY <1>11 DEF AllocCommit
  <2>2. /\ meter'.reserved = meter.reserved /\ meter'.held = meter.held
        /\ meter'.uncertain /\ meter'.up = meter.up /\ meter'.used = meter.used
    BY <1>4, <2>1 DEF Meters
  <2>3. /\ call'[c].step = "gone" /\ call'[c].tokens = call[c].tokens
        /\ call' \in [Children -> ToolCalls] /\ \A d \in Children : d # c => call'[d] = call[d]
    BY <1>4, <2>1 DEF ToolCalls, CallSteps
  <2>4. OthersStay(c) BY <1>2, <2>1, <2>2, <2>3 DEF OthersStay
  <2>5. meter' \in Meters BY <1>4, <2>1 DEF Meters
  <2>6. ShapesOK'
    BY <1>1, <1>2, <2>1, <2>3, <2>5 DEF ShapesOK, Meters, Holds, Rows, ToolCalls, CallSteps, ChildRuns
  <2>7. Allowance'[c] = Allowance[c] BY <2>1, <2>2, <2>3 DEF Allowance
  <2>8. Due'[c] = Due[c] BY <1>2, <2>1, <2>2, <2>7 DEF Due
  <2>9. row[c].tokens \in Nat BY <1>1, ChildShapes
  <2>10. /\ meter'.reserved = meter.reserved - Allowance[c] + Allowance'[c]
         /\ meter'.used = meter.used - row[c].tokens + row'[c].tokens
         /\ Due'[c] <= Due[c]
    BY <1>3, <1>6, <1>7, <2>1, <2>2, <2>7, <2>8, <2>9
  <2>11. budgetTurn'.spent = budgetTurn.spent - row[c].tokens + row'[c].tokens
    <3>1. budgetTurn.spent \in Nat BY <1>1, ShapesAre
    <3>2. QED BY <1>2, <2>1, <2>9, <3>1
  <2>12. RowOK(c)' BY <1>1, <2>1, <2>2, <2>3 DEF RowOK, NoRow
  <2>13. RunsOK(c)' BY <1>1, <1>2, <2>1 DEF RunsOK, MaxCost
  <2>14. ReceiptOK(c)' BY <1>1, <1>2, <2>1, <2>3 DEF ReceiptOK
  <2>15. HeldOK(c)' BY <1>1, <1>2, <2>1, <2>2 DEF HeldOK, Imported
  <2>16. budgetTurn.state = "settled" /\ budgetTurn.measured /\ row'[c].made => row'[c].complete
    BY <1>5, <2>1
  <2>17. QED
    BY <1>2, <2>2, <2>4, <2>6, <2>10, <2>11, <2>12, <2>13, <2>14, <2>15, <2>16, OneChild
<1>12. QED BY <1>10, <1>11

LEMMA AllocQueuedKeeps ==
  ASSUME BudgetIInv, NEW c \in Children, AllocQueued(c)
  PROVE  BudgetIInv'
<1>1. /\ BudgetAssumption /\ ShapesOK /\ TotalsOK /\ MeasuredOK
      /\ RowOK(c) /\ RunsOK(c) /\ ReceiptOK(c) /\ HeldOK(c)
  BY BudgetParts, ChildParts
<1>2. /\ call[c].step = "queued" /\ call' = [call EXCEPT ![c].step = "gone"]
      /\ UNCHANGED << budgetTurn, live, local, meter, budgetLock, child >>
  BY DEF AllocQueued
<1>3. call \in [Children -> ToolCalls] BY <1>1 DEF ShapesOK
<1>4. /\ call'[c].step = "gone" /\ call'[c].tokens = call[c].tokens
      /\ call' \in [Children -> ToolCalls] /\ \A d \in Children : d # c => call'[d] = call[d]
  BY <1>2, <1>3 DEF ToolCalls, CallSteps
<1>5. CASE ~Grantable(c)
  <2>1. row' = row BY <1>5 DEF AllocQueued
  <2>2. OthersStay(c) BY <1>2, <1>4, <2>1 DEF OthersStay
  <2>3. ShapesOK'
    BY <1>1, <1>2, <1>4, <2>1 DEF ShapesOK, Meters, Holds, Rows, ToolCalls, CallSteps, ChildRuns
  <2>4. RowOK(c)' BY <1>1, <1>2, <1>4, <2>1 DEF RowOK, NoRow
  <2>5. RunsOK(c)' BY <1>1, <1>2, <2>1 DEF RunsOK, MaxCost
  <2>6. ReceiptOK(c)' BY <1>1, <1>2, <1>4, <2>1 DEF ReceiptOK
  <2>7. HeldOK(c)' BY <1>1, <1>2, <2>1 DEF HeldOK, Imported
  <2>8. QED BY <1>2, <1>4, <2>1, <2>2, <2>3, <2>4, <2>5, <2>6, <2>7, OneCallOrRun
<1>6. CASE Grantable(c)
  <2>1. row' = [row EXCEPT ![c].made = TRUE, ![c].budget = Grant(c)] BY <1>6 DEF AllocQueued
  <2>2. Grant(c) \in 0..Limit /\ Grant(c) <= call[c].tokens BY <1>1, <1>6, GrantIs DEF Grantable
  <2>3. /\ row' \in [Children -> Rows] /\ \A d \in Children : d # c => row'[d] = row[d]
        /\ row'[c].made /\ row'[c].budget = Grant(c) /\ row'[c].tokens = 0 /\ row[c].tokens = 0
        /\ ~row'[c].dispatched /\ ~row[c].dispatched /\ ~row'[c].receipt /\ ~row'[c].closed
        /\ ~row'[c].complete /\ ~row'[c].clean /\ meter.held[c] = "none"
    BY <1>1, <1>6, <2>1, GrantedRow
  <2>4. budgetTurn.state = "reserved" BY <1>6 DEF Grantable
  <2>5. OthersStay(c) BY <1>2, <1>4, <2>3 DEF OthersStay
  <2>6. ShapesOK'
    BY <1>1, <1>2, <1>4, <2>3 DEF ShapesOK, Meters, Holds, Rows, ToolCalls, CallSteps, ChildRuns
  <2>7. Allowance'[c] = Allowance[c] BY <1>2, <1>4, <2>3 DEF Allowance
  <2>8. Due'[c] = Due[c] BY <1>2, <2>3, <2>7 DEF Due, Imported
  <2>9. /\ meter'.reserved = meter.reserved - Allowance[c] + Allowance'[c]
        /\ meter'.used = meter.used - row[c].tokens + row'[c].tokens
        /\ Due'[c] <= Due[c]
    <3>1. meter.reserved \in Nat /\ meter.used \in Nat BY <1>1, ShapesAre
    <3>2. Allowance[c] \in Nat /\ Due[c] \in Nat BY <1>1, TermsAre
    <3>3. QED BY <1>2, <2>3, <2>7, <2>8, <3>1, <3>2
  <2>10. RowOK(c)' BY <1>2, <1>4, <2>2, <2>3 DEF RowOK, NoRow
  <2>11. RunsOK(c)'
    <3>1. child[c].state = "absent" /\ child[c].used = 0 BY <1>1, <2>3 DEF RunsOK
    <3>2. child[c].used <= Grant(c) + (MaxCost - 1)
      <4>1. 1 <= MaxCost /\ MaxCost \in Nat /\ Limit \in Nat BY <1>1, BudgetFacts
      <4>2. QED BY <2>2, <3>1, <4>1
    <3>3. QED BY <1>2, <2>3, <3>1, <3>2 DEF RunsOK, MaxCost
  <2>12. ReceiptOK(c)' BY <2>3 DEF ReceiptOK
  <2>13. HeldOK(c)' BY <1>2, <2>3 DEF HeldOK, Imported
  <2>14. QED
    BY <1>2, <2>4, <2>5, <2>6, <2>9, <2>10, <2>11, <2>12, <2>13, OneChild
<1>7. QED BY <1>5, <1>6

LEMMA DispatchKeeps ==
  ASSUME BudgetIInv, NEW c \in Children, Dispatch(c)
  PROVE  BudgetIInv'
<1>1. /\ BudgetAssumption /\ ShapesOK /\ TotalsOK /\ MeasuredOK
      /\ RowOK(c) /\ RunsOK(c) /\ ReceiptOK(c) /\ HeldOK(c)
  BY BudgetParts, ChildParts
<1> DEFINE ok == WithinBudget /\ meter.held[c] = "open" /\ Dispatchable(c)
<1>2. /\ call[c].step = "granted"
      /\ ok => /\ row' = [row EXCEPT ![c].dispatched = TRUE]
               /\ call' = [call EXCEPT ![c].step = "sent"]
      /\ ~ok => row' = row /\ call' = [call EXCEPT ![c].step = "gone"]
      /\ UNCHANGED << budgetTurn, live, local, meter, budgetLock, child >>
  BY DEF Dispatch
<1>3. call \in [Children -> ToolCalls] /\ row \in [Children -> Rows] BY <1>1 DEF ShapesOK
<1>4. ok => budgetTurn.state = "reserved" /\ row[c].made /\ ~row[c].receipt /\ ~row[c].closed
  BY DEF Dispatchable, OpenRow
<1> HIDE DEF ok
<1>5. CASE ~ok
  <2>1. row' = row BY <1>2, <1>5
  <2>2. /\ call'[c].step = "gone" /\ call'[c].tokens = call[c].tokens
        /\ call' \in [Children -> ToolCalls] /\ \A d \in Children : d # c => call'[d] = call[d]
    BY <1>2, <1>3, <1>5 DEF ToolCalls, CallSteps
  <2>3. OthersStay(c) BY <1>2, <2>1, <2>2 DEF OthersStay
  <2>4. ShapesOK'
    BY <1>1, <1>2, <2>1, <2>2 DEF ShapesOK, Meters, Holds, Rows, ToolCalls, CallSteps, ChildRuns
  <2>5. RowOK(c)' BY <1>1, <1>2, <2>1, <2>2 DEF RowOK, NoRow
  <2>6. RunsOK(c)' BY <1>1, <1>2, <2>1 DEF RunsOK, MaxCost
  <2>7. ReceiptOK(c)' BY <1>1, <1>2, <2>1, <2>2 DEF ReceiptOK
  <2>8. HeldOK(c)' BY <1>1, <1>2, <2>1 DEF HeldOK, Imported
  <2>9. QED BY <1>2, <2>1, <2>2, <2>3, <2>4, <2>5, <2>6, <2>7, <2>8, OneCallOrRun
<1>6. CASE ok
  <2>1. /\ call'[c].step = "sent" /\ call'[c].tokens = call[c].tokens
        /\ call' \in [Children -> ToolCalls] /\ \A d \in Children : d # c => call'[d] = call[d]
    BY <1>2, <1>3, <1>6 DEF ToolCalls, CallSteps
  <2>2. /\ row' \in [Children -> Rows] /\ \A d \in Children : d # c => row'[d] = row[d]
        /\ row'[c].made = row[c].made /\ row'[c].budget = row[c].budget
        /\ row'[c].tokens = row[c].tokens /\ row'[c].dispatched = TRUE
        /\ row'[c].receipt = row[c].receipt /\ row'[c].closed = row[c].closed
        /\ row'[c].complete = row[c].complete /\ row'[c].clean = row[c].clean
    <3>1. row' = [row EXCEPT ![c].dispatched = TRUE] BY <1>2, <1>6
    <3>2. row' \in [Children -> Rows] /\ \A d \in Children : d # c => row'[d] = row[d]
      BY <1>3, <3>1 DEF Rows
    <3>3. /\ row'[c].made = row[c].made /\ row'[c].budget = row[c].budget
          /\ row'[c].tokens = row[c].tokens /\ row'[c].dispatched = TRUE
      BY <1>3, <3>1 DEF Rows
    <3>4. /\ row'[c].receipt = row[c].receipt /\ row'[c].closed = row[c].closed
          /\ row'[c].complete = row[c].complete /\ row'[c].clean = row[c].clean
      BY <1>3, <3>1 DEF Rows
    <3>5. QED BY <3>2, <3>3, <3>4
  <2>3. budgetTurn.state = "reserved" /\ row[c].made /\ ~row[c].receipt /\ ~row[c].closed
    BY <1>4, <1>6
  <2>4. OthersStay(c) BY <1>2, <2>1, <2>2 DEF OthersStay
  <2>5. ShapesOK'
    BY <1>1, <1>2, <2>1, <2>2 DEF ShapesOK, Meters, Holds, Rows, ToolCalls, CallSteps, ChildRuns
  <2>6. Allowance'[c] = Allowance[c] BY <1>2, <2>1, <2>2 DEF Allowance
  <2>7. Due'[c] = Due[c] BY <1>2, <2>2, <2>6 DEF Due
  <2>8. /\ meter'.reserved = meter.reserved - Allowance[c] + Allowance'[c]
        /\ meter'.used = meter.used - row[c].tokens + row'[c].tokens
        /\ Due'[c] <= Due[c]
    <3>1. meter.reserved \in Nat /\ meter.used \in Nat BY <1>1, ShapesAre
    <3>2. Allowance[c] \in Nat /\ Due[c] \in Nat /\ row[c].tokens \in Nat
      BY <1>1, TermsAre, ChildShapes
    <3>3. QED BY <1>2, <2>2, <2>6, <2>7, <3>1, <3>2
  <2>9. RowOK(c)' BY <1>1, <1>2, <2>1, <2>2, <2>3 DEF RowOK
  <2>10. RunsOK(c)' BY <1>1, <1>2, <2>2 DEF RunsOK, MaxCost
  <2>11. ReceiptOK(c)' BY <1>1, <1>2, <2>2, <2>3 DEF ReceiptOK
  <2>12. HeldOK(c)' BY <1>1, <1>2, <2>2 DEF HeldOK, Imported
  <2>13. QED
    BY <1>2, <2>3, <2>4, <2>5, <2>8, <2>9, <2>10, <2>11, <2>12, OneChild
<1>7. QED BY <1>5, <1>6

(* The row of a child after its receipt was written down.                    *)
LEMMA ReceiptRow ==
  ASSUME BudgetIInv, NEW c \in Children, NEW n \in Nat,
         row[c].made, ~row[c].closed, child[c].state = "ended",
         child[c].receipt <= n, n <= child[c].late,
         row' = [row EXCEPT ![c].receipt = TRUE, ![c].tokens = n,
                            ![c].complete = child[c].complete, ![c].clean = child[c].clean]
  PROVE  /\ row' \in [Children -> Rows] /\ \A d \in Children : d # c => row'[d] = row[d]
         /\ row'[c].made /\ row'[c].budget = row[c].budget /\ row'[c].tokens = n
         /\ row'[c].dispatched = row[c].dispatched /\ row'[c].receipt /\ ~row'[c].closed
         /\ row'[c].complete = child[c].complete /\ row'[c].clean = child[c].clean
         /\ child[c].complete => n = child[c].used
<1>1. ShapesOK /\ RunsOK(c) BY BudgetParts, ChildParts
<1>2. row \in [Children -> Rows] /\ child[c] \in ChildRuns BY <1>1 DEF ShapesOK
<1>3. child[c].complete \in BOOLEAN /\ child[c].clean \in BOOLEAN BY <1>2 DEF ChildRuns
<1>4. row' \in [Children -> Rows]
  <2> DEFINE r == [row[c] EXCEPT !.receipt = TRUE, !.tokens = n,
                                 !.complete = child[c].complete, !.clean = child[c].clean]
  <2>1. row[c] \in Rows BY <1>2
  <2>2. r \in Rows BY <1>3, <2>1 DEF Rows
  <2>3. row' = [row EXCEPT ![c] = r] BY <1>2
  <2> HIDE DEF r
  <2>4. QED BY <1>2, <2>2, <2>3
<1>5. \A d \in Children : d # c => row'[d] = row[d] BY <1>2
<1>6. /\ row'[c].made = row[c].made /\ row'[c].budget = row[c].budget /\ row'[c].tokens = n
      /\ row'[c].dispatched = row[c].dispatched /\ row'[c].closed = row[c].closed
  BY <1>2 DEF Rows
<1>7. /\ row'[c].receipt = TRUE /\ row'[c].complete = child[c].complete
      /\ row'[c].clean = child[c].clean
  BY <1>2 DEF Rows
<1>8. child[c].complete => n = child[c].used
  <2>1. child[c].late <= child[c].used /\ (child[c].complete => child[c].receipt = child[c].used)
    BY <1>1 DEF RunsOK
  <2>2. child[c].late \in Nat /\ child[c].used \in Nat /\ child[c].receipt \in Nat
    BY <1>1, ChildShapes
  <2>3. QED BY <2>1, <2>2
<1>9. QED BY <1>4, <1>5, <1>6, <1>7, <1>8

LEMMA ReconcileIdleKeeps ==
  ASSUME BudgetIInv, NEW c \in Children, ReconcileIdle(c)
  PROVE  BudgetIInv'
<1>1. /\ BudgetAssumption /\ ShapesOK /\ TotalsOK /\ MeasuredOK
      /\ RowOK(c) /\ RunsOK(c) /\ ReceiptOK(c) /\ HeldOK(c)
  BY BudgetParts, ChildParts
<1> DEFINE n == child[c].late
<1>2. /\ budgetTurn.state = "settled" /\ row[c].made /\ ~row[c].closed /\ child[c].state = "ended"
      /\ row' = [row EXCEPT ![c].receipt = TRUE, ![c].tokens = n,
                            ![c].complete = child[c].complete, ![c].clean = child[c].clean]
      /\ budgetTurn' = [budgetTurn EXCEPT !.spent = @ + (n - row[c].tokens)]
      /\ UNCHANGED << live, local, meter, call, budgetLock, child >>
  BY DEF ReconcileIdle, ReconcileRow
<1>3. n \in Nat /\ child[c].receipt <= n /\ n <= n
  BY <1>1, <1>2, ChildShapes DEF RunsOK
<1> HIDE DEF n
<1>4. n <= child[c].late BY <1>3 DEF n
<1>5. /\ row' \in [Children -> Rows] /\ \A d \in Children : d # c => row'[d] = row[d]
      /\ row'[c].made /\ row'[c].budget = row[c].budget /\ row'[c].tokens = n
      /\ row'[c].dispatched = row[c].dispatched /\ row'[c].receipt /\ ~row'[c].closed
      /\ row'[c].complete = child[c].complete /\ row'[c].clean = child[c].clean
      /\ child[c].complete => n = child[c].used
  BY <1>2, <1>3, <1>4, ReceiptRow
<1>6. /\ budgetTurn' \in [state : {"reserved", "settled"}, spent : Nat, measured : BOOLEAN]
      /\ budgetTurn'.state = budgetTurn.state /\ budgetTurn'.measured = budgetTurn.measured
      /\ budgetTurn'.spent = budgetTurn.spent - row[c].tokens + n
  <2>1. budgetTurn \in [state : {"reserved", "settled"}, spent : Nat, measured : BOOLEAN]
    BY <1>1 DEF ShapesOK
  <2>2. row[c].tokens <= budgetTurn.spent
    <3>1. budgetTurn.spent = Retained BY <1>2, BudgetParts DEF LedgerBalances
    <3>2. row[c].tokens <= Kept BY <1>1, RowWithin
    <3>3. local.seen \in Nat /\ Kept \in Nat /\ Retained = local.seen + Kept
      BY <1>1, ShapesAre, SumsAre
    <3>4. row[c].tokens \in Nat BY <1>1, ChildShapes
    <3>5. QED BY <3>1, <3>2, <3>3, <3>4
  <2>3. budgetTurn.spent \in Nat /\ row[c].tokens \in Nat BY <1>1, ShapesAre, ChildShapes
  <2>4. budgetTurn.spent + (n - row[c].tokens) \in Nat BY <1>3, <2>2, <2>3
  <2>5. budgetTurn.spent + (n - row[c].tokens) = budgetTurn.spent - row[c].tokens + n
    BY <1>3, <2>3
  <2>6. QED BY <1>2, <2>1, <2>4, <2>5
<1>7. OthersStay(c) BY <1>2, <1>5 DEF OthersStay
<1>8. ShapesOK'
  BY <1>1, <1>2, <1>5, <1>6 DEF ShapesOK, Meters, Holds, Rows, ToolCalls, CallSteps, ChildRuns
<1>9. Allowance'[c] = Allowance[c] BY <1>2, <1>5 DEF Allowance
<1>10. Due'[c] = Due[c] BY <1>2, <1>5, <1>9 DEF Due
<1>11. meter'.reserved = meter.reserved - Allowance[c] + Allowance'[c] /\ Due'[c] <= Due[c]
  <2>1. meter.reserved \in Nat BY <1>1, ShapesAre
  <2>2. Allowance[c] \in Nat /\ Due[c] \in Nat BY <1>1, TermsAre
  <2>3. QED BY <1>2, <1>9, <1>10, <2>1, <2>2
<1>12. RowOK(c)' BY <1>1, <1>2, <1>5 DEF RowOK
<1>13. RunsOK(c)' BY <1>1, <1>2, <1>5 DEF RunsOK, MaxCost
<1>14. ReceiptOK(c)' BY <1>2, <1>4, <1>5 DEF ReceiptOK
<1>15. HeldOK(c)'
  <2>1. meter.held[c] # "closed" BY <1>1, <1>2 DEF HeldOK
  <2>2. QED BY <1>1, <1>2, <1>5, <1>6, <2>1 DEF HeldOK, Imported
<1>16. budgetTurn.state = "settled" /\ budgetTurn.measured /\ row'[c].made => row'[c].complete
  BY <1>1, <1>2, <1>5 DEF MeasuredOK, ReceiptOK
<1>17. QED
  BY <1>2, <1>5, <1>6, <1>7, <1>8, <1>11, <1>12, <1>13, <1>14, <1>15, <1>16, OneChild

LEMMA ImportKeeps ==
  ASSUME BudgetIInv, NEW c \in Children, Import(c)
  PROVE  BudgetIInv'
<1>1. /\ BudgetAssumption /\ ShapesOK /\ TotalsOK /\ MeasuredOK
      /\ RowOK(c) /\ RunsOK(c) /\ ReceiptOK(c) /\ HeldOK(c)
  BY BudgetParts, ChildParts
<1>2. /\ meter.held[c] = "open" /\ child[c].state = "ended"
      /\ meter' = [meter EXCEPT !.used = @ + child[c].receipt, !.reserved = @ - row[c].budget,
                                !.uncertain = @ \/ ~child[c].complete,
                                !.held[c] = IF child[c].clean THEN "settled" ELSE "dirty"]
      /\ UNCHANGED << live, local, call, budgetLock, child >>
  BY DEF Import
<1>3. /\ Limit \in Nat /\ meter.used \in Nat /\ meter.reserved \in Nat /\ budgetTurn.spent \in Nat
      /\ row[c].tokens \in Nat /\ row[c].budget \in Nat
      /\ child[c].receipt \in Nat /\ child[c].late \in Nat /\ child[c].used \in Nat
  BY <1>1, BudgetFacts, ShapesAre, ChildShapes
<1>4. child[c].receipt <= child[c].late BY <1>1, <1>2 DEF RunsOK
<1>5. row[c].made /\ ~row[c].closed
  BY <1>2 DEF Import, ImportRow, ReconcileRow
\* What is written down: the receipt, or what was observed since.
<1>6. \E n \in Nat :
        /\ child[c].receipt <= n /\ n <= child[c].late
        /\ row' = [row EXCEPT ![c].receipt = TRUE, ![c].tokens = n,
                              ![c].complete = child[c].complete, ![c].clean = child[c].clean]
        /\ \/ budgetTurn.state = "reserved" /\ budgetTurn' = budgetTurn /\ n = child[c].receipt
           \/ /\ budgetTurn.state = "settled"
              /\ budgetTurn' = [budgetTurn EXCEPT !.spent = @ + (n - row[c].tokens)]
  <2>1. CASE ImportRow(c)
    <3>1. child[c].receipt <= child[c].receipt BY <1>3
    <3>2. QED BY <1>3, <1>4, <2>1, <3>1 DEF ImportRow
  <2>2. CASE ReconcileRow(c)
    <3>1. child[c].late <= child[c].late BY <1>3
    <3>2. QED BY <1>3, <1>4, <2>2, <3>1 DEF ReconcileRow
  <2>3. QED BY <2>1, <2>2 DEF Import
<1>7. PICK n \in Nat :
        /\ child[c].receipt <= n /\ n <= child[c].late
        /\ row' = [row EXCEPT ![c].receipt = TRUE, ![c].tokens = n,
                              ![c].complete = child[c].complete, ![c].clean = child[c].clean]
        /\ \/ budgetTurn.state = "reserved" /\ budgetTurn' = budgetTurn /\ n = child[c].receipt
           \/ /\ budgetTurn.state = "settled"
              /\ budgetTurn' = [budgetTurn EXCEPT !.spent = @ + (n - row[c].tokens)]
  BY <1>6
<1>8. /\ row' \in [Children -> Rows] /\ \A d \in Children : d # c => row'[d] = row[d]
      /\ row'[c].made /\ row'[c].budget = row[c].budget /\ row'[c].tokens = n
      /\ row'[c].dispatched = row[c].dispatched /\ row'[c].receipt /\ ~row'[c].closed
      /\ row'[c].complete = child[c].complete /\ row'[c].clean = child[c].clean
      /\ child[c].complete => n = child[c].used
  BY <1>2, <1>5, <1>7, ReceiptRow
<1>9. /\ budgetTurn' \in [state : {"reserved", "settled"}, spent : Nat, measured : BOOLEAN]
      /\ budgetTurn'.state = budgetTurn.state /\ budgetTurn'.measured = budgetTurn.measured
      /\ budgetTurn.state = "settled" =>
           budgetTurn'.spent = budgetTurn.spent - row[c].tokens + n
  <2>1. budgetTurn \in [state : {"reserved", "settled"}, spent : Nat, measured : BOOLEAN]
    BY <1>1 DEF ShapesOK
  <2>2. CASE budgetTurn.state = "reserved" BY <1>7, <2>1, <2>2
  <2>3. CASE budgetTurn.state = "settled"
    <3>1. budgetTurn' = [budgetTurn EXCEPT !.spent = @ + (n - row[c].tokens)] BY <1>7, <2>3
    <3>2. row[c].tokens <= budgetTurn.spent
      <4>1. budgetTurn.spent = Retained BY <2>3, BudgetParts DEF LedgerBalances
      <4>2. row[c].tokens <= Kept BY <1>1, RowWithin
      <4>3. local.seen \in Nat /\ Kept \in Nat /\ Retained = local.seen + Kept
        BY <1>1, ShapesAre, SumsAre
      <4>4. QED BY <1>3, <4>1, <4>2, <4>3
    <3>3. budgetTurn.spent + (n - row[c].tokens) \in Nat BY <1>3, <3>2
    <3>4. budgetTurn.spent + (n - row[c].tokens) = budgetTurn.spent - row[c].tokens + n
      BY <1>3
    <3>5. QED BY <2>1, <2>3, <3>1, <3>3, <3>4
  <2>4. QED BY <2>1, <2>2, <2>3
<1>10. /\ meter'.used = meter.used + child[c].receipt
       /\ meter'.reserved = meter.reserved - row[c].budget
       /\ meter'.held[c] \in Imported /\ meter'.up = meter.up
       /\ \A d \in Children : d # c => meter'.held[d] = meter.held[d]
  <2>1. meter \in Meters BY <1>1 DEF ShapesOK
  <2>2. meter'.used = meter.used + child[c].receipt /\ meter'.reserved = meter.reserved - row[c].budget
        /\ meter'.up = meter.up
    BY <1>2, <2>1 DEF Meters
  <2>3. meter'.held[c] = (IF child[c].clean THEN "settled" ELSE "dirty")
        /\ \A d \in Children : d # c => meter'.held[d] = meter.held[d]
    BY <1>2, <2>1 DEF Meters
  <2>4. QED BY <2>2, <2>3 DEF Imported
<1>11. meter'.uncertain <=> meter.uncertain \/ ~child[c].complete
  <2>1. meter \in Meters BY <1>1 DEF ShapesOK
  <2>2. QED BY <1>2, <2>1 DEF Meters
<1>12. Allowance[c] = row[c].budget /\ Due[c] = row[c].budget
  <2>1. Allowance[c] = row[c].budget BY <1>2 DEF Allowance
  <2>2. QED BY <1>2, <2>1 DEF Due, Imported
<1>13. meter' \in Meters
  <2>1. Promised \in Nat /\ meter.reserved = Promised BY <1>1, SumsAre DEF TotalsOK
  <2>2. row[c].budget <= Promised BY <1>1, <1>12, TermWithin
  <2>3. meter.reserved - row[c].budget \in Nat BY <1>3, <2>1, <2>2
  <2>4. meter.used + child[c].receipt \in Nat BY <1>3
  <2>5. meter \in Meters BY <1>1 DEF ShapesOK
  <2> DEFINE u == meter.uncertain \/ ~child[c].complete
             h == IF child[c].clean THEN "settled" ELSE "dirty"
  <2>6. u \in BOOLEAN BY Zenon
  <2>7. h \in Holds BY DEF Holds
  <2>8. meter' = [meter EXCEPT !.used = @ + child[c].receipt, !.reserved = @ - row[c].budget,
                               !.uncertain = u, !.held = [@ EXCEPT ![c] = h]]
    BY <1>2, <2>5 DEF Meters
  <2>9. [meter.held EXCEPT ![c] = h] \in [Children -> Holds] BY <2>5, <2>7 DEF Meters
  <2> HIDE DEF u, h
  <2>10. QED BY <2>3, <2>4, <2>5, <2>6, <2>8, <2>9 DEF Meters
<1>14. OthersStay(c) BY <1>2, <1>8, <1>10 DEF OthersStay
<1>15. ShapesOK'
  BY <1>1, <1>2, <1>8, <1>9, <1>13 DEF ShapesOK, Meters, Holds, Rows, ToolCalls, CallSteps, ChildRuns
<1>16. Allowance'[c] = 0
  BY <1>10 DEF Allowance, Imported
<1>17. Due'[c] <= Due[c]
  <2>1. Due'[c] = IF child[c].used < row[c].budget THEN child[c].used ELSE row[c].budget
    BY <1>2, <1>8, <1>10 DEF Due
  <2>2. QED BY <1>3, <1>12, <2>1
<1>18. meter'.reserved = meter.reserved - Allowance[c] + Allowance'[c]
  BY <1>3, <1>10, <1>12, <1>16
<1>19. budgetTurn.state = "reserved" => meter'.used = meter.used - row[c].tokens + row'[c].tokens
  <2>1. SUFFICES ASSUME budgetTurn.state = "reserved"
                 PROVE  meter'.used = meter.used - row[c].tokens + row'[c].tokens
    OBVIOUS
  <2>2. row[c].tokens = 0 BY <1>1, <1>2, <2>1 DEF HeldOK, ReceiptOK
  <2>3. n = child[c].receipt BY <1>7, <2>1
  <2>4. QED BY <1>3, <1>8, <1>10, <2>2, <2>3
<1>20. RowOK(c)' BY <1>1, <1>2, <1>8, <1>10 DEF RowOK, Imported
<1>21. RunsOK(c)' BY <1>1, <1>2, <1>8 DEF RunsOK, MaxCost
<1>22. ReceiptOK(c)' BY <1>2, <1>7, <1>8 DEF ReceiptOK
<1>23. HeldOK(c)' BY <1>2, <1>8, <1>10, <1>11 DEF HeldOK, Imported
<1>24. budgetTurn.state = "settled" /\ budgetTurn.measured /\ row'[c].made => row'[c].complete
  BY <1>1, <1>5, <1>8 DEF MeasuredOK, ReceiptOK
<1>25. QED
  BY <1>2, <1>8, <1>9, <1>10, <1>11, <1>14, <1>15, <1>17, <1>18, <1>19, <1>20, <1>21, <1>22,
     <1>23, <1>24, OneChild

(* The row of a child that was closed without cost.                          *)
LEMMA ClosedRow ==
  ASSUME BudgetIInv, NEW c \in Children, Closable(c), CloseRow(c)
  PROVE  /\ row' \in [Children -> Rows] /\ \A d \in Children : d # c => row'[d] = row[d]
         /\ row'[c].made /\ row'[c].budget = row[c].budget /\ row'[c].tokens = 0
         /\ row'[c].dispatched = row[c].dispatched /\ ~row'[c].receipt /\ row'[c].closed
         /\ row'[c].complete /\ row'[c].clean
         /\ row[c].made /\ row[c].tokens = 0 /\ ~row[c].receipt /\ ~row[c].closed
<1>1. row \in [Children -> Rows] BY BudgetParts DEF ShapesOK
<1>2. row[c].made /\ row[c].tokens = 0 /\ ~row[c].receipt /\ ~row[c].closed
  BY DEF Closable, OpenRow
<1>3. row' = [row EXCEPT ![c].closed = TRUE, ![c].tokens = 0, ![c].complete = TRUE,
                         ![c].clean = TRUE]
  BY DEF CloseRow
<1>4. row' \in [Children -> Rows] /\ \A d \in Children : d # c => row'[d] = row[d]
  <2> DEFINE r == [row[c] EXCEPT !.closed = TRUE, !.tokens = 0, !.complete = TRUE,
                                 !.clean = TRUE]
  <2>1. row[c] \in Rows BY <1>1
  <2>2. r \in Rows BY <2>1 DEF Rows
  <2>3. row' = [row EXCEPT ![c] = r] BY <1>1, <1>3
  <2> HIDE DEF r
  <2>4. QED BY <1>1, <2>2, <2>3
<1>5. /\ row'[c].made = row[c].made /\ row'[c].budget = row[c].budget /\ row'[c].tokens = 0
      /\ row'[c].dispatched = row[c].dispatched /\ row'[c].receipt = row[c].receipt
  BY <1>1, <1>3 DEF Rows
<1>6. row'[c].closed = TRUE /\ row'[c].complete = TRUE /\ row'[c].clean = TRUE
  BY <1>1, <1>3 DEF Rows
<1>7. QED BY <1>2, <1>4, <1>5, <1>6

LEMMA CloseIdleKeeps ==
  ASSUME BudgetIInv, NEW c \in Children, CloseIdle(c)
  PROVE  BudgetIInv'
<1>1. /\ BudgetAssumption /\ ShapesOK /\ TotalsOK /\ MeasuredOK
      /\ RowOK(c) /\ RunsOK(c) /\ ReceiptOK(c) /\ HeldOK(c)
  BY BudgetParts, ChildParts
<1>2. /\ budgetTurn.state = "settled" /\ Closable(c) /\ CloseRow(c)
      /\ ~row[c].dispatched \/ child[c].state = "fenced"
      /\ UNCHANGED << budgetTurn, live, local, meter, call, budgetLock, child >>
  BY DEF CloseIdle, RuntimeIdle, NeverDispatched
<1>3. /\ row' \in [Children -> Rows] /\ \A d \in Children : d # c => row'[d] = row[d]
      /\ row'[c].made /\ row'[c].budget = row[c].budget /\ row'[c].tokens = 0
      /\ row'[c].dispatched = row[c].dispatched /\ ~row'[c].receipt /\ row'[c].closed
      /\ row'[c].complete /\ row'[c].clean
      /\ row[c].made /\ row[c].tokens = 0 /\ ~row[c].receipt /\ ~row[c].closed
  BY <1>2, ClosedRow
<1>4. OthersStay(c) BY <1>2, <1>3 DEF OthersStay
<1>5. ShapesOK'
  BY <1>1, <1>2, <1>3 DEF ShapesOK, Meters, Holds, Rows, ToolCalls, CallSteps, ChildRuns
<1>6. Allowance'[c] = Allowance[c] BY <1>2, <1>3 DEF Allowance
<1>7. Due'[c] = Due[c] BY <1>2, <1>3, <1>6 DEF Due
<1>8. /\ meter'.reserved = meter.reserved - Allowance[c] + Allowance'[c]
      /\ meter'.used = meter.used - row[c].tokens + row'[c].tokens
      /\ budgetTurn'.spent = budgetTurn.spent - row[c].tokens + row'[c].tokens
      /\ Due'[c] <= Due[c]
  <2>1. meter.reserved \in Nat /\ meter.used \in Nat /\ budgetTurn.spent \in Nat BY <1>1, ShapesAre
  <2>2. Allowance[c] \in Nat /\ Due[c] \in Nat BY <1>1, TermsAre
  <2>3. QED BY <1>2, <1>3, <1>6, <1>7, <2>1, <2>2
<1>9. RowOK(c)' BY <1>1, <1>2, <1>3 DEF RowOK
<1>10. RunsOK(c)' BY <1>1, <1>2, <1>3 DEF RunsOK, MaxCost
<1>11. ReceiptOK(c)'
  <2>1. child[c].state \in {"absent", "fenced"}
        /\ (child[c].state = "absent" => call[c].step # "sent")
    BY <1>1, <1>2 DEF RowOK, RunsOK
  <2>2. QED BY <1>2, <1>3, <2>1 DEF ReceiptOK
<1>12. HeldOK(c)' BY <1>1, <1>2, <1>3 DEF HeldOK, Imported
<1>13. QED
  BY <1>2, <1>3, <1>4, <1>5, <1>8, <1>9, <1>10, <1>11, <1>12, OneChild

LEMMA CloseLiveKeeps ==
  ASSUME BudgetIInv, NEW c \in Children, CloseLive(c)
  PROVE  BudgetIInv'
<1>1. /\ BudgetAssumption /\ ShapesOK /\ TotalsOK /\ MeasuredOK
      /\ RowOK(c) /\ RunsOK(c) /\ ReceiptOK(c) /\ HeldOK(c)
  BY BudgetParts, ChildParts
<1>2. /\ meter.held[c] = "open" /\ child[c].state = "fenced" /\ Closable(c) /\ CloseRow(c)
      /\ meter' = [meter EXCEPT !.reserved = @ - row[c].budget, !.held[c] = "closed"]
      /\ UNCHANGED << budgetTurn, live, local, call, budgetLock, child >>
  BY DEF CloseLive
<1>3. /\ row' \in [Children -> Rows] /\ \A d \in Children : d # c => row'[d] = row[d]
      /\ row'[c].made /\ row'[c].budget = row[c].budget /\ row'[c].tokens = 0
      /\ row'[c].dispatched = row[c].dispatched /\ ~row'[c].receipt /\ row'[c].closed
      /\ row'[c].complete /\ row'[c].clean
      /\ row[c].made /\ row[c].tokens = 0 /\ ~row[c].receipt /\ ~row[c].closed
  BY <1>2, ClosedRow
<1>4. /\ Limit \in Nat /\ meter.used \in Nat /\ meter.reserved \in Nat /\ budgetTurn.spent \in Nat
      /\ row[c].budget \in Nat
  BY <1>1, BudgetFacts, ShapesAre, ChildShapes
<1>5. meter \in Meters BY <1>1 DEF ShapesOK
<1>6. /\ meter'.reserved = meter.reserved - row[c].budget /\ meter'.held[c] = "closed"
      /\ \A d \in Children : d # c => meter'.held[d] = meter.held[d]
      /\ meter'.uncertain = meter.uncertain /\ meter'.up = meter.up /\ meter'.used = meter.used
  BY <1>2, <1>5 DEF Meters
<1>7. Allowance[c] = row[c].budget /\ Due[c] = row[c].budget
  <2>1. Allowance[c] = row[c].budget BY <1>2 DEF Allowance
  <2>2. QED BY <1>2, <2>1 DEF Due, Imported
<1>8. meter' \in Meters
  <2>1. Promised \in Nat /\ meter.reserved = Promised BY <1>1, SumsAre DEF TotalsOK
  <2>2. row[c].budget <= Promised BY <1>1, <1>7, TermWithin
  <2>3. meter.reserved - row[c].budget \in Nat BY <1>4, <2>1, <2>2
  <2>4. QED BY <1>2, <1>5, <2>3 DEF Meters, Holds
<1>9. OthersStay(c) BY <1>2, <1>3, <1>6 DEF OthersStay
<1>10. ShapesOK'
  BY <1>1, <1>2, <1>3, <1>8 DEF ShapesOK, Meters, Holds, Rows, ToolCalls, CallSteps, ChildRuns
<1>11. Allowance'[c] = 0 BY <1>6 DEF Allowance
<1>12. Due'[c] = 0 BY <1>6, <1>11 DEF Due, Imported
<1>13. /\ meter'.reserved = meter.reserved - Allowance[c] + Allowance'[c]
       /\ meter'.used = meter.used - row[c].tokens + row'[c].tokens
       /\ budgetTurn'.spent = budgetTurn.spent - row[c].tokens + row'[c].tokens
       /\ Due'[c] <= Due[c]
  BY <1>2, <1>3, <1>4, <1>6, <1>7, <1>11, <1>12
<1>14. RowOK(c)' BY <1>1, <1>2, <1>3, <1>6 DEF RowOK
<1>15. RunsOK(c)' BY <1>1, <1>2, <1>3 DEF RunsOK, MaxCost
<1>16. ReceiptOK(c)' BY <1>2, <1>3 DEF ReceiptOK
<1>17. HeldOK(c)' BY <1>2, <1>3, <1>6 DEF HeldOK, Imported
<1>18. QED
  BY <1>2, <1>3, <1>6, <1>9, <1>10, <1>13, <1>14, <1>15, <1>16, <1>17, OneChild

(* A sum of zeros.                                                           *)
LEMMA SumZero ==
  ASSUME NEW S, IsFiniteSet(S), NEW f, \A x \in S : f[x] = 0
  PROVE  SumFunctionOnSet(f, S) = 0
<1> DEFINE F == Iter(f, S)
           T == {s \in SUBSET S : F[s] = 0}
<1>1. SumsUp(F, f, S) BY IterSteps
<1> HIDE DEF F
<1>2. /\ F[{}] = 0
      /\ \A s \in SUBSET S : s # {} => /\ Pick(s) \in s /\ s \ {Pick(s)} \in SUBSET S
                                       /\ F[s] = f[Pick(s)] + F[s \ {Pick(s)}]
  BY <1>1 DEF SumsUp
<1>3. {} \in T BY <1>2
<1>4. ASSUME NEW s \in SUBSET S, s # {}, s \ {Pick(s)} \in T PROVE s \in T
  <2>1. F[s] = f[Pick(s)] + F[s \ {Pick(s)}] /\ Pick(s) \in S BY <1>2, <1>4
  <2>2. f[Pick(s)] = 0 /\ F[s \ {Pick(s)}] = 0 BY <1>4, <2>1
  <2>3. QED BY <2>1, <2>2
<1>5. T = SUBSET S
  <2> HIDE DEF T
  <2>1. T \in SUBSET SUBSET S BY DEF T
  <2>2. QED BY <1>3, <1>4, <2>1, SubsetInduction
<1>6. S \in T BY <1>5
<1>7. QED BY <1>6, SumIsIter DEF F

LEMMA BudgetStarts ==
  ASSUME BudgetAssumption, BudgetInit
  PROVE  BudgetIInv
<1>1. /\ IsFiniteSet(Children) /\ Limit \in Nat /\ MaxCost \in Nat /\ 1 <= MaxCost
  BY BudgetFacts
<1>2. /\ budgetTurn = [state |-> "reserved", spent |-> 0, measured |-> TRUE]
      /\ live = TRUE /\ budgetLock = "free"
      /\ local = [open |-> 0, seen |-> 0, count |-> 0]
      /\ row = [c \in Children |-> NoRow]
      /\ meter = [up |-> TRUE, used |-> 0, uncertain |-> FALSE, reserved |-> 0,
                  held |-> [c \in Children |-> "none"]]
      /\ call = [c \in Children |-> [step |-> "idle", tokens |-> 0]]
      /\ child = [c \in Children |-> [state |-> "absent", used |-> 0, receipt |-> 0,
                                      late |-> 0, complete |-> FALSE, clean |-> FALSE]]
  BY DEF BudgetInit
<1>3. ShapesOK
  <2>1. /\ budgetTurn \in [state : {"reserved", "settled"}, spent : Nat, measured : BOOLEAN]
        /\ local \in [open : RequestCosts \cup {0}, seen : Nat, count : Nat]
    BY <1>2
  <2>2. live \in BOOLEAN BY <1>2, Zenon
  <2>3. row \in [Children -> Rows] BY <1>1, <1>2 DEF Rows, NoRow
  <2>4. meter \in Meters BY <1>2 DEF Meters, Holds
  <2>5. call \in [Children -> ToolCalls] BY <1>1, <1>2 DEF ToolCalls, CallSteps
  <2>6. child \in [Children -> ChildRuns] BY <1>2 DEF ChildRuns
  <2>7. QED BY <1>2, <2>1, <2>2, <2>3, <2>4, <2>5, <2>6 DEF ShapesOK
<1>4. ASSUME NEW c \in Children PROVE RowOK(c) /\ RunsOK(c) /\ ReceiptOK(c) /\ HeldOK(c)
  <2>1. /\ row[c] = NoRow /\ meter.held[c] = "none" /\ call[c].step = "idle" /\ call[c].tokens = 0
        /\ child[c].state = "absent" /\ child[c].used = 0
    BY <1>2
  <2>2. /\ ~row[c].made /\ row[c].budget = 0 /\ ~row[c].receipt /\ ~row[c].closed
        /\ row[c].tokens = 0 /\ ~row[c].complete /\ ~row[c].clean
    BY <2>1 DEF NoRow
  <2>3. RowOK(c) BY <2>1, <2>2 DEF RowOK
  <2>4. RunsOK(c) BY <1>1, <2>1, <2>2 DEF RunsOK
  <2>5. ReceiptOK(c) BY <2>1, <2>2 DEF ReceiptOK
  <2>6. HeldOK(c) BY <2>1, <2>2 DEF HeldOK, Imported
  <2>7. QED BY <2>3, <2>4, <2>5, <2>6
<1>5. ChildrenOK BY <1>4 DEF ChildrenOK
<1>6. Kept = 0 /\ Promised = 0 /\ Owed = 0
  <2>1. \A c \in Children : Tokens[c] = 0 BY <1>2 DEF Tokens, NoRow
  <2>2. \A c \in Children : Allowance[c] = 0 BY <1>2 DEF Allowance
  <2>3. \A c \in Children : Due[c] = 0 BY <1>2, <2>2 DEF Due, Imported
  <2>4. Kept = 0 BY <1>1, <2>1, SumZero DEF Kept
  <2>5. Promised = 0 BY <1>1, <2>2, SumZero DEF Promised
  <2>6. Owed = 0 BY <1>1, <2>3, SumZero DEF Owed
  <2>7. QED BY <2>4, <2>5, <2>6
<1>7. Retained = local.seen + Kept BY <1>3, SumsAre
<1>8. TotalsOK BY <1>2, <1>6, <1>7 DEF TotalsOK
<1>9. WithinLimit BY <1>1, <1>2, <1>6 DEF WithinLimit
<1>10. MeasuredOK /\ LedgerBalances BY <1>2 DEF MeasuredOK, LedgerBalances
<1>11. QED BY <1>3, <1>5, <1>8, <1>9, <1>10 DEF BudgetIInv

LEMMA BudgetStutters ==
  ASSUME BudgetIInv, UNCHANGED budgetVars
  PROVE  BudgetIInv'
<1>1. /\ BudgetAssumption /\ ShapesOK /\ ChildrenOK /\ TotalsOK /\ WithinLimit /\ MeasuredOK
      /\ LedgerBalances
  BY BudgetParts
<1>2. UNCHANGED << budgetTurn, live, local, row, meter, call, budgetLock, child >>
  BY DEF budgetVars
<1>3. SameChildren BY <1>2 DEF SameChildren
<1>4. ShapesOK' BY <1>1, <1>2 DEF ShapesOK, Meters, Holds, Rows, ToolCalls, CallSteps, ChildRuns
<1>5. Retained' = Retained BY <1>2, <1>3, RetainedStays
<1>6. WithinLimit' BY <1>1, <1>2, <1>3, SumsStay DEF WithinLimit, MaxCost
<1>7. MeasuredOK' BY <1>1, <1>2 DEF MeasuredOK
<1>8. LedgerBalances' BY <1>1, <1>2, <1>5 DEF LedgerBalances
<1>9. meter'.up /\ budgetTurn'.state = "reserved" => meter'.used = Retained'
  BY <1>1, <1>2, <1>5 DEF TotalsOK
<1>10. live' => budgetTurn'.state = "reserved" BY <1>1, <1>2 DEF TotalsOK
<1>11. QED BY <1>2, <1>3, <1>4, <1>6, <1>7, <1>8, <1>9, <1>10, NoChild

LEMMA BudgetStep ==
  ASSUME BudgetIInv, [BudgetNext]_budgetVars
  PROVE  BudgetIInv'
<1>1. CASE UNCHANGED budgetVars BY <1>1, BudgetStutters
<1>2. ASSUME NEW n \in RequestCosts, LocalBegin(n) PROVE BudgetIInv' BY <1>2, LocalBeginKeeps
<1>3. CASE LocalFinish BY <1>3, LocalFinishKeeps
<1>4. CASE LocalFail BY <1>4, LocalFailKeeps
<1>5. ASSUME NEW c \in Children,
             \/ AllocReserve(c) \/ AllocCommit(c) \/ AllocDrop(c) \/ AllocQueued(c)
             \/ Dispatch(c) \/ CallDropped(c)
      PROVE  BudgetIInv'
  BY <1>5, AllocReserveKeeps, AllocCommitKeeps, AllocDropKeeps, AllocQueuedKeeps,
     DispatchKeeps, CallDroppedKeeps
<1>6. ASSUME NEW c \in Children, ChildAdmit(c) \/ ChildLate(c) \/ ChildFence(c)
      PROVE  BudgetIInv'
  BY <1>6, ChildAdmitKeeps, ChildLateKeeps, ChildFenceKeeps
<1>7. ASSUME NEW c \in Children, NEW n \in RequestCosts, ChildWork(c, n) PROVE BudgetIInv'
  BY <1>7, ChildWorkKeeps
<1>8. ASSUME NEW c \in Children, NEW complete \in BOOLEAN, NEW tidy \in BOOLEAN,
             ChildEnd(c, complete, tidy)
      PROVE  BudgetIInv'
  BY <1>8, ChildEndKeeps
<1>9. ASSUME NEW c \in Children, Import(c) \/ CloseLive(c) \/ CloseIdle(c) \/ ReconcileIdle(c)
      PROVE  BudgetIInv'
  BY <1>9, ImportKeeps, CloseLiveKeeps, CloseIdleKeeps, ReconcileIdleKeeps
<1>10. CASE RunEnd BY <1>10, RunEndKeeps
<1>11. CASE Settle BY <1>11, BudgetSettleKeeps
<1>12. CASE MeterDies BY <1>12, MeterDiesKeeps
<1>13. CASE Recover BY <1>13, RecoverKeeps
<1>14. QED
  BY <1>1, <1>2, <1>3, <1>4, <1>5, <1>6, <1>7, <1>8, <1>9, <1>10, <1>11, <1>12, <1>13
  DEF BudgetNext

(* What a child used is at most what it is due and one request less a token. *)
LEMMA UseWithinDue ==
  ASSUME BudgetIInv, NEW c \in Children
  PROVE  child[c].used <= Due[c] + (MaxCost - 1)
<1>1. BudgetAssumption /\ ShapesOK /\ RowOK(c) /\ RunsOK(c) /\ ReceiptOK(c) /\ HeldOK(c)
  BY BudgetParts, ChildParts
<1>2. MaxCost \in Nat /\ 1 <= MaxCost /\ Limit \in Nat BY <1>1, BudgetFacts
<1>3. /\ child[c].used \in Nat /\ row[c].budget \in Nat /\ Due[c] \in Nat
      /\ call[c].tokens \in Nat /\ meter.held[c] \in Holds
  BY <1>1, <1>2, ChildShapes, TermsAre
<1>4. child[c].used <= row[c].budget + (MaxCost - 1) BY <1>1 DEF RunsOK
<1>5. CASE child[c].used = 0 BY <1>2, <1>3, <1>5
<1>6. CASE meter.held[c] \in Imported
  <2>1. Due[c] = IF child[c].used < row[c].budget THEN child[c].used ELSE row[c].budget
    BY <1>6 DEF Due
  <2>2. QED BY <1>2, <1>3, <1>4, <2>1
<1>7. CASE meter.held[c] = "open"
  <2>1. Allowance[c] = row[c].budget BY <1>7 DEF Allowance
  <2>2. Due[c] = row[c].budget BY <1>7, <2>1 DEF Due, Imported
  <2>3. QED BY <1>4, <2>2
<1>8. CASE meter.held[c] = "closed"
  <2>1. child[c].used = 0 BY <1>1, <1>8 DEF HeldOK, ReceiptOK, RunsOK
  <2>2. QED BY <1>5, <2>1
<1>9. CASE meter.held[c] = "none"
  <2>1. Allowance[c] = call[c].tokens BY <1>9 DEF Allowance
  <2>2. Due[c] = call[c].tokens BY <1>9, <2>1 DEF Due, Imported
  <2>3. CASE row[c].made
    <3>1. row[c].budget <= call[c].tokens BY <1>1, <1>9, <2>3 DEF RowOK
    <3>2. QED BY <1>2, <1>3, <1>4, <2>2, <3>1
  <2>4. CASE ~row[c].made
    <3>1. ~row[c].dispatched BY <1>1, <2>4 DEF RowOK, NoRow
    <3>2. child[c].used = 0 BY <1>1, <3>1 DEF RunsOK
    <3>3. QED BY <1>5, <3>2
  <2>5. QED BY <2>3, <2>4
<1>10. QED BY <1>3, <1>6, <1>7, <1>8, <1>9 DEF Holds, Imported

(* What the invariant gives for the whole family.                            *)
LEMMA BudgetIsSafe ==
  ASSUME BudgetIInv
  PROVE  BudgetSafety
<1>1. /\ BudgetAssumption /\ ShapesOK /\ ChildrenOK /\ TotalsOK /\ WithinLimit /\ MeasuredOK
      /\ LedgerBalances
  BY BudgetParts
<1>2. IsFiniteSet(Children) /\ Limit \in Nat /\ MaxCost \in Nat /\ 1 <= MaxCost BY <1>1, BudgetFacts
<1>3. BudgetTypeOK
  <2>1. /\ budgetTurn \in [state : {"reserved", "settled"}, spent : Nat, measured : BOOLEAN]
        /\ budgetLock \in Children \cup {"free"}
    BY <1>1 DEF ShapesOK
  <2>2. meter.used \in Nat /\ meter.reserved \in Nat BY <1>1, ShapesAre
  <2>3. ASSUME NEW c \in Children
        PROVE  /\ row[c].budget \in 0..Limit /\ row[c].tokens \in Nat
               /\ call[c].step \in {"idle", "reserve", "queued", "granted", "sent", "gone"}
               /\ child[c].state \in {"absent", "running", "ended", "fenced"}
    BY <1>1, ChildShapes DEF ToolCalls, CallSteps, ChildRuns
  <2>4. QED BY <2>1, <2>2, <2>3 DEF BudgetTypeOK
<1> DEFINE usage == [c \in Children |-> child[c].used]
           zero == [c \in Children |-> 0]
<1>4. \A c \in Children : usage[c] = child[c].used /\ usage[c] \in Nat BY <1>1, ChildShapes
<1>5. \A c \in Children : zero[c] = 0 OBVIOUS
<1>6. TrueUse = local.seen + local.open + SumFunctionOnSet(usage, Children)
  BY DEF TrueUse, SumFunction
<1> HIDE DEF usage, zero
<1>7. local.seen \in Nat /\ local.open \in Nat
  <2>1. \A n \in RequestCosts : n \in Nat BY <1>1, BudgetFacts
  <2>2. QED BY <1>1, <2>1, ShapesAre
<1>8. FamilyWithinBudget
  <2> DEFINE k == MaxCost - 1
             size == Cardinality(Children)
             sum == SumFunctionOnSet(usage, Children)
  <2>1. k \in Nat BY <1>2
  <2>2. \A c \in Children : Due[c] \in Nat BY <1>1, TermsAre
  <2>3. \A c \in Children : zero[c] \in Nat BY <1>5
  <2>4. \A c \in Children : usage[c] \in Nat BY <1>4
  <2>5. ASSUME NEW c \in Children PROVE usage[c] <= Due[c] + zero[c] + k
    <3>1. usage[c] <= Due[c] + k BY <1>4, UseWithinDue
    <3> HIDE DEF k
    <3>2. QED BY <1>5, <2>1, <2>2, <3>1
  <2> HIDE DEF k
  <2>6. SumFunctionOnSet(usage, Children)
          <= SumFunctionOnSet(Due, Children) + SumFunctionOnSet(zero, Children)
             + Cardinality(Children) * k
    BY <1>2, <2>1, <2>2, <2>3, <2>4, <2>5, SumBound
  <2>7. SumFunctionOnSet(zero, Children) = 0 BY <1>2, <1>5, SumZero
  <2>8. Owed \in Nat /\ size \in Nat /\ sum \in Nat
    BY <1>1, <1>2, <2>4, SumsAre, FS_CardinalityType, SumType
  <2>9. local.seen + local.open + Owed <= Limit + MaxCost BY <1>1 DEF WithinLimit
  <2> DEFINE over == size * k
  <2>10. over \in Nat BY <2>1, <2>8
  <2>11. sum <= Owed + over BY <2>6, <2>7, <2>8, <2>10 DEF Owed
  <2> HIDE DEF sum, size, over
  <2>12. local.seen + local.open + sum <= Limit + MaxCost + over
    BY <1>2, <1>7, <2>8, <2>9, <2>10, <2>11
  <2>13. QED BY <1>6, <2>12 DEF FamilyWithinBudget, sum, size, over, k
<1>9. ClosedNeverRuns BY <1>1 DEF ClosedNeverRuns, ChildrenOK, ReceiptOK
<1>10. MeasuredIsTrue
  <2>1. SUFFICES ASSUME budgetTurn.state = "settled", budgetTurn.measured
                 PROVE  budgetTurn.spent = TrueUse
    BY DEF MeasuredIsTrue
  <2>2. local.open = 0 /\ \A c \in Children : row[c].made => row[c].complete
    BY <1>1, <2>1 DEF MeasuredOK
  <2>3. ASSUME NEW c \in Children PROVE row[c].tokens = child[c].used
    <3>1. RowOK(c) /\ RunsOK(c) /\ ReceiptOK(c) BY ChildParts
    <3>2. CASE ~row[c].made
      <4>1. row[c].tokens = 0 /\ ~row[c].dispatched BY <3>1, <3>2 DEF RowOK, NoRow
      <4>2. QED BY <3>1, <4>1 DEF RunsOK
    <3>3. CASE row[c].made
      <4>1. row[c].complete BY <2>2, <3>3
      <4>2. QED BY <3>1, <4>1 DEF ReceiptOK, RunsOK
    <3>4. QED BY <3>2, <3>3
  <2>4. Tokens = usage BY <2>3 DEF Tokens, usage
  <2>5. Kept = SumFunctionOnSet(usage, Children) BY <2>4 DEF Kept
  <2>6. Kept \in Nat /\ Retained = local.seen + Kept BY <1>1, SumsAre
  <2>7. budgetTurn.spent = Retained BY <1>1, <2>1 DEF LedgerBalances
  <2>8. QED BY <1>6, <1>7, <2>2, <2>5, <2>6, <2>7
<1>11. MeterCoversJournal
  <2>1. meter.used \in Nat BY <1>1, ShapesAre
  <2>2. QED BY <1>1, <2>1 DEF MeterCoversJournal, TotalsOK
<1>12. ReadyIsQuiet
  <2>1. SUFFICES ASSUME \A d \in Children : row[d].made => row[d].clean, NEW c \in Children
                 PROVE  /\ child[c].state # "running"
                        /\ call[c].step = "sent" => child[c].state # "absent"
                        /\ child[c].state = "ended" => child[c].clean
    BY DEF ReadyIsQuiet
  <2>2. RowOK(c) /\ RunsOK(c) /\ ReceiptOK(c) BY ChildParts
  <2>3. CASE ~row[c].made
    <3>1. ~row[c].dispatched BY <2>2, <2>3 DEF RowOK, NoRow
    <3>2. child[c].state = "absent" /\ call[c].step # "sent" BY <2>2, <3>1 DEF RunsOK, RowOK
    <3>3. QED BY <3>2
  <2>4. CASE row[c].made
    <3>1. row[c].clean BY <2>1, <2>4
    <3>2. QED BY <2>2, <3>1 DEF ReceiptOK
  <2>5. QED BY <2>3, <2>4
<1>13. QED BY <1>1, <1>3, <1>8, <1>9, <1>10, <1>11, <1>12 DEF BudgetSafety

(* What holds of the budget of a goal turn and of its delegations in every   *)
(* reachable state: each row, tool call, child and entry of the meter agree, *)
(* and the totals are the sums of their parts (goal_meter.rs).               *)
THEOREM BudgetInvariant == BudgetAssumption => (BudgetSpec => []BudgetIInv)
<1> SUFFICES ASSUME BudgetAssumption PROVE BudgetSpec => []BudgetIInv OBVIOUS
<1>1. BudgetInit => BudgetIInv BY BudgetStarts
<1>2. BudgetIInv /\ [BudgetNext]_budgetVars => BudgetIInv' BY BudgetStep
<1>3. QED BY <1>1, <1>2, PTL DEF BudgetSpec

(* Parent and children together stay within the budget but for what single   *)
(* requests overshoot, and the goal is charged what was used, through fenced *)
(* dispatches, late receipts and crashes (goal_meter.rs, allocations.rs).    *)
THEOREM BudgetSafe == BudgetAssumption => (BudgetSpec => []BudgetSafety)
<1> SUFFICES ASSUME BudgetAssumption PROVE BudgetSpec => []BudgetSafety OBVIOUS
<1>1. BudgetSpec => []BudgetIInv BY BudgetInvariant
<1>2. BudgetIInv => BudgetSafety BY BudgetIsSafe
<1>3. QED BY <1>1, <1>2, PTL
=============================================================================
