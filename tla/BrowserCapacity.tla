--------------------------- MODULE BrowserCapacity ---------------------------
(***************************************************************************)
(* Host-wide browser capacity.  Every voyage that opens a browser takes    *)
(* one slot file, and keeps it until the cleanup of its browser tree was   *)
(* observed.  A browser tree is a Python guardian, the Node worker it      *)
(* launched and Chromium's descendants.  The runtime, its session guardian *)
(* (a subreaper holding guardian.lock) and the tree may die in any order.  *)
(* A full host reclaims the slot of a dead session only on the evidence of *)
(* the browser guardian; an operator may recover one by attestation.       *)
(***************************************************************************)
EXTENDS Naturals, FiniteSets

CONSTANTS Sessions, \* voyages sharing the host
          Slots,    \* number of slot files (MAX_BROWSER_SLOTS)
          MaxGen,   \* bound: browser launches per session
          MaxFails, \* bound: deaths of runtimes and guardians
          Retain    \* a session may be restarted with its cleanup unresolved

Gens == 1 .. MaxGen
Free == "free"     \* no slot file
Blank == "blank"   \* created, its owner not written
Nobody == "nobody"

\* A session's identity is never one of the words that stand for no owner.
CapacityAssumption ==
  /\ Slots \in Nat \ {0} /\ MaxGen \in Nat \ {0} /\ MaxFails \in Nat /\ Retain \in BOOLEAN
  /\ {Free, Blank, Nobody} \cap Sessions = {}

VARIABLES
  slot,   \* browser-slot-<k>: Free, Blank or the session written in it
  rt,     \* runtime: off, idle, created, held, started, up, stopping
  mine,   \* the slot of inner.capacity, 0 for None
  gen,    \* launches so far, the latest being the current one
  rows,   \* unobserved rows of the reservation ledger, by launch
  workerLock,   \* worker.lock: the launch whose worker created it, 0 when absent
  marker, \* guardian-cleanup.json: none, incomplete or observed
  tree,   \* each launch's guardian, worker and descendants
  sg,     \* the session guardian is alive
  clean,  \* the evidence that lets the session be launched again
  stopped,\* stopped.json of a suspension with observed cleanup
  rec,    \* each runtime's reclaim in progress: slot, the owner read in it, stage
  fails

slotsVars == <<slot, rt, mine, gen, rows, workerLock, marker, tree, sg, clean, stopped, rec, fails>>

NoTree == [guard |-> "none", worker |-> "none", kids |-> FALSE]
NoReclaim == [victim |-> Nobody, at |-> 0, stage |-> "none"]
GuardAlive(s, g) == tree[s][g].guard \in {"up", "closing"}
WorkerAlive(s, g) == tree[s][g].worker \in {"boot", "up"}
\* Something of the browser still runs: its worker or Chromium.
Live(s, g) == WorkerAlive(s, g) \/ tree[s][g].kids
Quiet(s) == \A g \in Gens : ~Live(s, g) /\ ~GuardAlive(s, g)
Now(s) == gen[s]

SlotsInit ==
  /\ slot = [k \in 1 .. Slots |-> Free]
  /\ rt = [s \in Sessions |-> "off"] /\ mine = [s \in Sessions |-> 0]
  /\ gen = [s \in Sessions |-> 0] /\ rows = [s \in Sessions |-> {}]
  /\ workerLock = [s \in Sessions |-> 0] /\ marker = [s \in Sessions |-> "none"]
  /\ tree = [s \in Sessions |-> [g \in Gens |-> NoTree]]
  /\ sg = [s \in Sessions |-> FALSE] /\ clean = [s \in Sessions |-> TRUE]
  /\ stopped = [s \in Sessions |-> FALSE] /\ rec = [s \in Sessions |-> NoReclaim] /\ fails = 0

----------------------------------------------------------------------------
(* The runtime's life. *)

\* A reclaim holds the victim's guardian, startup and execution locks.
Fenced(s) == \E r \in Sessions : rec[r].victim = s /\ rec[r].stage \in {"fenced", "removed"}

\* The session guardian takes guardian.lock, proves the predecessor's cleanup
\* and launches the runtime, which retires stopped.json and its own predecessor's rows.
Launch(s) ==
  /\ rt[s] = "off" /\ ~sg[s] /\ ~Fenced(s)
  /\ clean[s] \/ Retain
  /\ rt' = [rt EXCEPT ![s] = "idle"] /\ sg' = [sg EXCEPT ![s] = TRUE]
  /\ clean' = [clean EXCEPT ![s] = FALSE] /\ stopped' = [stopped EXCEPT ![s] = FALSE]
  /\ rows' = [rows EXCEPT ![s] = {}]
  /\ UNCHANGED <<slot, mine, gen, workerLock, marker, tree, rec, fails>>

\* Mutation: a leftover worker.lock does not refuse the start.
AdmittedIgnoringLock(s) == rt[s] = "idle"

\* start: refused while a worker.lock remains.
Admitted(s) == rt[s] = "idle" /\ workerLock[s] = 0 /\ gen[s] < MaxGen

\* Mutation: the slot file is opened without create_new.
FirstFreeAny(k, n) == k = 1

\* acquire takes the first slot below the admission bound whose file is absent.
FirstFree(k, n) == k <= n /\ slot[k] = Free /\ \A j \in 1 .. (k - 1) : slot[j] # Free

\* start retires its own old marker, then creates a slot file; the number of
\* slots admitted, n, follows the memory available.
Acquire(s) ==
  /\ Admitted(s) /\ rec[s] = NoReclaim
  /\ \E n \in 1 .. Slots, k \in 1 .. Slots :
       /\ FirstFree(k, n)
       /\ slot' = [slot EXCEPT ![k] = Blank] /\ mine' = [mine EXCEPT ![s] = k]
  /\ marker' = [marker EXCEPT ![s] = "none"]
  /\ rt' = [rt EXCEPT ![s] = "created"] /\ gen' = [gen EXCEPT ![s] = @ + 1]
  /\ UNCHANGED <<rows, workerLock, tree, sg, clean, stopped, rec, fails>>

\* The owner is written and synced, and the executor reservation inserted.
Reserve(s) ==
  /\ rt[s] = "created"
  /\ slot' = [slot EXCEPT ![mine[s]] = s]
  /\ rows' = [rows EXCEPT ![s] = @ \cup {Now(s)}]
  /\ rt' = [rt EXCEPT ![s] = "held"]
  /\ UNCHANGED <<mine, gen, workerLock, marker, tree, sg, clean, stopped, rec, fails>>

\* The reservation ledger refuses: the slot is given back.
ReserveRefused(s) ==
  /\ rt[s] = "created"
  /\ slot' = [slot EXCEPT ![mine[s]] = Free] /\ mine' = [mine EXCEPT ![s] = 0]
  /\ rt' = [rt EXCEPT ![s] = "idle"]
  /\ UNCHANGED <<gen, rows, workerLock, marker, tree, sg, clean, stopped, rec, fails>>

\* Worker::spawn: the guardian starts, retires stale markers and launches Node.
Spawn(s) ==
  /\ rt[s] = "held"
  /\ tree' = [tree EXCEPT ![s][Now(s)] = [guard |-> "up", worker |-> "boot", kids |-> FALSE]]
  /\ marker' = [marker EXCEPT ![s] = "none"]
  /\ rt' = [rt EXCEPT ![s] = "started"]
  /\ UNCHANGED <<slot, mine, gen, rows, workerLock, sg, clean, stopped, rec, fails>>

\* A launch that never produced a child gives everything back.
SpawnRefused(s) ==
  /\ rt[s] = "held"
  /\ slot' = [slot EXCEPT ![mine[s]] = Free] /\ mine' = [mine EXCEPT ![s] = 0]
  /\ rows' = [rows EXCEPT ![s] = @ \ {Now(s)}] /\ rt' = [rt EXCEPT ![s] = "idle"]
  /\ UNCHANGED <<gen, workerLock, marker, tree, sg, clean, stopped, rec, fails>>

\* The worker's init creates worker.lock exclusively, and open starts Chromium.
WorkerInit(s) ==
  /\ rt[s] = "started" /\ tree[s][Now(s)].worker = "boot" /\ workerLock[s] = 0
  /\ workerLock' = [workerLock EXCEPT ![s] = Now(s)]
  /\ tree' = [tree EXCEPT ![s][Now(s)].worker = "up"]
  /\ UNCHANGED <<slot, rt, mine, gen, rows, marker, sg, clean, stopped, rec, fails>>

WorkerOpen(s) ==
  /\ rt[s] = "started" /\ tree[s][Now(s)].worker = "up"
  /\ tree' = [tree EXCEPT ![s][Now(s)].kids = TRUE] /\ rt' = [rt EXCEPT ![s] = "up"]
  /\ UNCHANGED <<slot, mine, gen, rows, workerLock, marker, sg, clean, stopped, rec, fails>>

\* close aborts the writer: EOF is the guardian's authority fence.  A started
\* browser whose init or open failed is closed the same way.
CloseBegin(s) ==
  /\ rt[s] \in {"started", "up"}
  /\ rt' = [rt EXCEPT ![s] = "stopping"]
  /\ UNCHANGED <<slot, mine, gen, rows, workerLock, marker, tree, sg, clean, stopped, rec, fails>>

\* Mutation: close trusts the guardian's exit without its evidence.
ObservedByExit(s) == ~GuardAlive(s, Now(s))

\* stop: the guardian exited, its marker is positive and the private profile is gone.
Observed(s) == tree[s][Now(s)].guard = "done" /\ marker[s] = "observed"

\* close releases the reservation, then the slot, then forgets the worker.
CloseDone(s) ==
  /\ rt[s] = "stopping" /\ Observed(s)
  /\ rows' = [rows EXCEPT ![s] = @ \ {Now(s)}]
  /\ slot' = [slot EXCEPT ![mine[s]] = Free]
  /\ mine' = [mine EXCEPT ![s] = 0] /\ rt' = [rt EXCEPT ![s] = "idle"]
  /\ UNCHANGED <<gen, workerLock, marker, tree, sg, clean, stopped, rec, fails>>

\* Suspension or stop with nothing left of the browser: stopped.json is written,
\* and the session guardian drains and leaves its own evidence.
Suspend(s) ==
  /\ rt[s] = "idle" /\ rec[s] = NoReclaim /\ Quiet(s)
  /\ rt' = [rt EXCEPT ![s] = "off"] /\ sg' = [sg EXCEPT ![s] = FALSE]
  /\ stopped' = [stopped EXCEPT ![s] = TRUE] /\ clean' = [clean EXCEPT ![s] = TRUE]
  /\ UNCHANGED <<slot, mine, gen, rows, workerLock, marker, tree, rec, fails>>

\* An operator attests, truthfully, that nothing of a lost session is left.
Attest(s) ==
  /\ rt[s] = "off" /\ ~sg[s] /\ ~clean[s] /\ Quiet(s)
  /\ clean' = [clean EXCEPT ![s] = TRUE]
  /\ UNCHANGED <<slot, rt, mine, gen, rows, workerLock, marker, tree, sg, stopped, rec, fails>>

\* The runtime dies; what it knew in memory is lost.
RuntimeDies(s) ==
  /\ rt[s] # "off" /\ fails < MaxFails
  /\ rt' = [rt EXCEPT ![s] = "off"] /\ mine' = [mine EXCEPT ![s] = 0]
  /\ rec' = [rec EXCEPT ![s] = NoReclaim]
  /\ fails' = fails + 1
  /\ UNCHANGED <<slot, gen, rows, workerLock, marker, tree, sg, clean, stopped>>

----------------------------------------------------------------------------
(* The browser tree. *)

\* Parent end of file (close, or the runtime's death) or the worker's exit.
Eof(s, g) ==
  \/ ~(g = Now(s) /\ rt[s] \in {"started", "up"})
  \/ ~WorkerAlive(s, g)

GuardianEof(s, g) ==
  /\ tree[s][g].guard = "up" /\ Eof(s, g)
  /\ tree' = [tree EXCEPT ![s][g].guard = "closing"]
  /\ UNCHANGED <<slot, rt, mine, gen, rows, workerLock, marker, sg, clean, stopped, rec, fails>>

\* finish after end of file (also shutdown): close Chromium and unlink worker.lock.
WorkerFinishes(s, g) ==
  /\ WorkerAlive(s, g) /\ tree[s][g].guard # "up"
  /\ tree' = [tree EXCEPT ![s][g] = [guard |-> tree[s][g].guard, worker |-> "gone", kids |-> FALSE]]
  /\ workerLock' = [workerLock EXCEPT ![s] = IF @ = g THEN 0 ELSE @]
  /\ UNCHANGED <<slot, rt, mine, gen, rows, marker, sg, clean, stopped, rec, fails>>

\* The worker dies on its own, on its own deadline or by the guardian's signal:
\* worker.lock stays and Chromium may survive it.
WorkerDies(s, g) ==
  /\ WorkerAlive(s, g)
  /\ tree[s][g].guard = "closing" \/ fails < MaxFails
  /\ fails' = IF tree[s][g].guard = "closing" THEN fails ELSE fails + 1
  /\ tree' = [tree EXCEPT ![s][g].worker = "gone"]
  /\ UNCHANGED <<slot, rt, mine, gen, rows, workerLock, marker, sg, clean, stopped, rec>>

\* The guardian terminates surviving descendants.
KillDescendants(s, g) ==
  /\ tree[s][g].guard = "closing" /\ ~WorkerAlive(s, g) /\ tree[s][g].kids
  /\ tree' = [tree EXCEPT ![s][g].kids = FALSE]
  /\ UNCHANGED <<slot, rt, mine, gen, rows, workerLock, marker, sg, clean, stopped, rec, fails>>

\* Mutation: the guardian reports success after its kill deadline.
CompleteAnyway(s, g) == TRUE

\* cleanup: ECHILD and no known survivor.
Complete(s, g) == ~Live(s, g)

\* Cleanup ends: success removes the profile and leaves a positive marker, the
\* deadline leaves an incomplete one.
GuardianEnds(s, g) ==
  /\ tree[s][g].guard = "closing"
  /\ \E ok \in BOOLEAN :
       /\ ok => Complete(s, g)
       /\ tree' = [tree EXCEPT ![s][g].guard = IF ok THEN "done" ELSE "dead"]
       /\ marker' = [marker EXCEPT ![s] = IF ok THEN "observed" ELSE "incomplete"]
       /\ fails' = IF ok THEN fails ELSE fails + 1
  /\ fails' <= MaxFails
  /\ UNCHANGED <<slot, rt, mine, gen, rows, workerLock, sg, clean, stopped, rec>>

----------------------------------------------------------------------------
(* The session guardian: once its runtime died it kills whatever was       *)
(* reparented to it (the browser guardian first), and drains.              *)

DrainGuardian(s, g) ==
  /\ sg[s] /\ rt[s] = "off" /\ GuardAlive(s, g)
  /\ tree' = [tree EXCEPT ![s][g].guard = "dead"]
  /\ UNCHANGED <<slot, rt, mine, gen, rows, workerLock, marker, sg, clean, stopped, rec, fails>>

DrainWorker(s, g) ==
  /\ sg[s] /\ rt[s] = "off" /\ ~GuardAlive(s, g) /\ Live(s, g)
  /\ tree' = [tree EXCEPT ![s][g] = [guard |-> tree[s][g].guard, worker |-> "gone",
                                     kids |-> tree[s][g].kids /\ tree[s][g].worker # "gone"]]
  /\ UNCHANGED <<slot, rt, mine, gen, rows, workerLock, marker, sg, clean, stopped, rec, fails>>

Drained(s) ==
  /\ sg[s] /\ rt[s] = "off" /\ Quiet(s)
  /\ sg' = [sg EXCEPT ![s] = FALSE] /\ clean' = [clean EXCEPT ![s] = TRUE]
  /\ UNCHANGED <<slot, rt, mine, gen, rows, workerLock, marker, tree, stopped, rec, fails>>

\* The session guardian dies, or gives up after ten seconds, without evidence.
GuardianLost(s) ==
  /\ sg[s] /\ fails < MaxFails
  /\ sg' = [sg EXCEPT ![s] = FALSE] /\ fails' = fails + 1
  /\ UNCHANGED <<slot, rt, mine, gen, rows, workerLock, marker, tree, clean, stopped, rec>>

----------------------------------------------------------------------------
(* Reclaiming a dead session's slot. *)

\* Mutation: the worker's absent PID alone is enough.
EvidenceByPid(v) == workerLock[v] # 0 /\ ~WorkerAlive(v, workerLock[v])

\* The worker that left worker.lock is gone and the marker is wholly positive.
Evidence(v) == workerLock[v] # 0 /\ ~WorkerAlive(v, workerLock[v]) /\ marker[v] = "observed"

\* Mutation: no session lock is taken.
UnlockedAny(v) == TRUE

\* guardian.lock, startup.lock and the execution lock of the victim are free.
Unlocked(v) == ~sg[v] /\ rt[v] = "off" /\ ~Fenced(v)

\* Every admitted slot is taken: acquire_for_session examines them in turn, and
\* reads the owner of one before it takes any lock.
ReclaimRead(s) ==
  /\ Admitted(s) /\ rec[s] = NoReclaim
  /\ \E n \in 1 .. Slots :
       /\ \A k \in 1 .. n : slot[k] # Free
       /\ \E k \in 1 .. n, v \in Sessions :
            /\ slot[k] = v
            /\ rec' = [rec EXCEPT ![s] = [victim |-> v, at |-> k, stage |-> "read"]]
  /\ marker' = [marker EXCEPT ![s] = "none"]
  /\ UNCHANGED <<slot, rt, mine, gen, rows, workerLock, tree, sg, clean, stopped, fails>>

\* The three session locks are taken and the evidence read under them.
ReclaimFence(s) ==
  /\ rec[s].stage = "read" /\ Unlocked(rec[s].victim) /\ Evidence(rec[s].victim)
  /\ rec' = [rec EXCEPT ![s].stage = "fenced"]
  /\ UNCHANGED <<slot, rt, mine, gen, rows, workerLock, marker, tree, sg, clean, stopped, fails>>

\* Mutation: the owner is not read again under the locks.
StillOwnedUnread(s) == TRUE

\* The owner is read again under the locks.
StillOwned(s) == slot[rec[s].at] = rec[s].victim

\* The audit is written, then the slot file removed.
ReclaimSlot(s) ==
  /\ rec[s].stage = "fenced" /\ StillOwned(s)
  /\ slot' = [slot EXCEPT ![rec[s].at] = Free]
  /\ rec' = [rec EXCEPT ![s].stage = "removed"]
  /\ UNCHANGED <<rt, mine, gen, rows, workerLock, marker, tree, sg, clean, stopped, fails>>

\* A lock is held, the evidence is missing or the owner changed: this slot is left alone.
ReclaimAbandoned(s) ==
  /\ \/ rec[s].stage = "read" /\ ~(Unlocked(rec[s].victim) /\ Evidence(rec[s].victim))
     \/ rec[s].stage = "fenced" /\ ~StillOwned(s)
  /\ rec' = [rec EXCEPT ![s] = NoReclaim]
  /\ UNCHANGED <<slot, rt, mine, gen, rows, workerLock, marker, tree, sg, clean, stopped, fails>>

\* Only then is the old worker.lock retired; acquire is tried again.
ReclaimLock(s) ==
  /\ rec[s].stage = "removed"
  /\ workerLock' = [workerLock EXCEPT ![rec[s].victim] = 0] /\ rec' = [rec EXCEPT ![s] = NoReclaim]
  /\ UNCHANGED <<slot, rt, mine, gen, rows, marker, tree, sg, clean, stopped, fails>>

\* Operator recovery of a suspended session whose browser was seen to be gone:
\* worker.lock is retired first, then every slot of that session.
Owned(s) == {k \in 1 .. Slots : slot[k] = s}
Recoverable(s) == stopped[s] /\ ~sg[s] /\ workerLock[s] # 0 /\ Owned(s) # {}
RecoverSlots(s) ==
  /\ Recoverable(s) /\ ~Fenced(s) /\ rt[s] = "off" /\ Quiet(s)
  /\ workerLock' = [workerLock EXCEPT ![s] = 0]
  /\ slot' = [k \in 1 .. Slots |-> IF slot[k] = s THEN Free ELSE slot[k]]
  /\ UNCHANGED <<rt, mine, gen, rows, marker, tree, sg, clean, stopped, rec, fails>>

----------------------------------------------------------------------------
SlotsNext ==
  \E s \in Sessions :
    \/ Launch(s) \/ Acquire(s) \/ Reserve(s) \/ ReserveRefused(s) \/ Spawn(s) \/ SpawnRefused(s)
    \/ WorkerInit(s) \/ WorkerOpen(s) \/ CloseBegin(s) \/ CloseDone(s) \/ Suspend(s) \/ Attest(s) \/ RuntimeDies(s)
    \/ Drained(s) \/ GuardianLost(s)
    \/ ReclaimRead(s) \/ ReclaimFence(s) \/ ReclaimSlot(s) \/ ReclaimAbandoned(s) \/ ReclaimLock(s) \/ RecoverSlots(s)
    \/ \E g \in Gens :
         \/ GuardianEof(s, g) \/ WorkerFinishes(s, g) \/ WorkerDies(s, g)
         \/ KillDescendants(s, g) \/ GuardianEnds(s, g)
         \/ DrainGuardian(s, g) \/ DrainWorker(s, g)

SlotsSpec == SlotsInit /\ [][SlotsNext]_slotsVars

----------------------------------------------------------------------------
Trees == [guard : {"none", "up", "closing", "done", "dead"},
          worker : {"none", "boot", "up", "gone"}, kids : BOOLEAN]
Reclaims == [victim : Sessions \cup {Nobody}, at : 0 .. Slots,
             stage : {"none", "read", "fenced", "removed"}]

SlotsTypeOK ==
  /\ slot \in [1 .. Slots -> Sessions \cup {Free, Blank}]
  /\ rt \in [Sessions -> {"off", "idle", "created", "held", "started", "up", "stopping"}]
  /\ mine \in [Sessions -> 0 .. Slots] /\ gen \in [Sessions -> 0 .. MaxGen]
  /\ rows \in [Sessions -> SUBSET Gens] /\ workerLock \in [Sessions -> 0 .. MaxGen]
  /\ marker \in [Sessions -> {"none", "incomplete", "observed"}]
  /\ tree \in [Sessions -> [Gens -> Trees]] /\ rec \in [Sessions -> Reclaims]
  /\ sg \in [Sessions -> BOOLEAN] /\ clean \in [Sessions -> BOOLEAN]
  /\ stopped \in [Sessions -> BOOLEAN] /\ fails \in 0 .. MaxFails

\* "Reservations survive uncertain cleanup/crashes": as long as anything of a
\* session's browser runs, some slot names that session, whoever died and
\* whatever was reclaimed, so the host never runs more browsers than slots.
LiveHasSlot ==
  \A s \in Sessions : Cardinality({g \in Gens : Live(s, g)}) <= Cardinality(Owned(s))

\* The slot a runtime holds is never taken from under it: neither a reclaim nor
\* another acquire can make its release remove somebody else's reservation.
HeldIsOwned ==
  \A s \in Sessions : mine[s] # 0 => slot[mine[s]] = IF rt[s] = "created" THEN Blank ELSE s

\* A session never runs two browsers, across restarts of its runtime.
OneBrowser == \A s \in Sessions : \A g, h \in Gens : Live(s, g) /\ Live(s, h) => g = h

\* A reservation row is marked observed only once the tree it paid for is gone.
ObservedRowsAreQuiet ==
  \A s \in Sessions : \A g \in Gens : Live(s, g) => g \in rows[s]

\* The operator command is the way out for a slot that lacks automatic proof: a
\* suspended session that still owns one can be recovered.
RetainedIsRecoverable ==
  \A s \in Sessions : stopped[s] /\ Owned(s) # {} /\ ~Fenced(s) => Recoverable(s)

\* A slot is held exactly as long as something of the browser it paid for may
\* still run (host_browser_capacity.rs, guardian cleanup).
SlotsSafety == SlotsTypeOK /\ LiveHasSlot /\ HeldIsOwned /\ OneBrowser /\ ObservedRowsAreQuiet
============================================================================
