------------------------------ MODULE Subagents ------------------------------
(***************************************************************************)
(* The runtime that schedules delegated agents (voyage/src/subagent).      *)
(*                                                                         *)
(* Every spawned agent is a tracked task.  It queues for one of Slots      *)
(* semaphore permits, executes its model loop while it holds the permit,   *)
(* gives the permit up while it waits for other agents (or for room in     *)
(* another agent's inbox) and takes one back before its loop goes on.      *)
(* Its record lives in memory and in the durable agent tree; finished      *)
(* leaves move to the archive, first on disk, then in memory.  One         *)
(* mutation lock orders spawns, yields, resumptions, finishes, cleanups    *)
(* and shutdown; reads, cancellation and message delivery do not take it.  *)
(* Durable writes run in detached tasks, so a caller that is dropped       *)
(* leaves its write behind.                                                *)
(***************************************************************************)
EXTENDS Naturals, FiniteSets

CONSTANTS
    Agents,       \* agent identities a spawn may allocate
    Root,         \* the root run: the parent of a top-level agent
    Nil,          \* no parent yet: the identity was never allocated
    Slots,        \* RuntimeLimits::max_concurrency
    InboxMax,     \* capacity of an agent's inbox channel
    TreeChoices,  \* whether a spawn asks for a worktree of its own
    MaxTurns,     \* waits, sends and progress reports one agent makes
    MaxFaults,    \* failed writes of the store or the archive
    MaxDropped,   \* durable writes whose caller was dropped
    MaxCrashes    \* deaths of the process

SlotsAssumption == Slots \in Nat \ {0} /\ TreeChoices \subseteq BOOLEAN

VARIABLES
    parent,      \* AgentRecord::parent_id of every allocated identity
    mem,         \* status of the records in the in-memory `agents` map
    wt,          \* agents whose in-memory record names a worktree
    disk,        \* status of the records of the durable tree
    dwt,         \* agents whose durable record names a worktree
    archive,     \* status of the archived records
    cancelled,   \* agents whose cancellation token is cancelled
    permit,      \* "none", "local" (acquired, not stored) or "held"
    waitingFor,  \* Control::waiting_for
    op,          \* what a yielded agent waits for: "wait" or "send"
    inbox,       \* messages queued in an agent's inbox
    outcome,     \* Control::outcome, the published result
    res,         \* the result a finishing worker is about to record
    pc,          \* where the worker task of an agent stands
    turns,       \* waits, sends and reports an agent has made
    lock,        \* holder of the mutation lock, or Nil
    open,        \* the semaphore accepts acquisitions
    up,          \* the process runs and its runtime was opened
    late,        \* agents with a detached progress update in flight
    creating,    \* identities with a detached create in flight
    faults, dropped, crashes

workers == <<permit, waitingFor, op, inbox, outcome, res, pc, turns>>
records == <<parent, mem, wt, disk, dwt, archive>>
bounds  == <<faults, dropped, crashes>>
vars == <<records, cancelled, workers, lock, open, up, late, creating, bounds>>

Live     == {"queued", "running", "waiting"}
Terminal == {"completed", "failed", "cancelled", "interrupted"}
Absent   == "none"
Stages   == {"idle", "acquire", "start", "persist", "exec", "progress", "wait",
             "reacquire", "resume", "finish", "write", "archive", "publish",
             "done"}

Holders == {a \in Agents : permit[a] # "none"}

\* The agents a record descends from, its parent first.
Ancestors ==
    LET anc[n \in 0..Cardinality(Agents)] ==
          [a \in Agents |->
            IF n = 0 \/ parent[a] \notin Agents THEN {}
            ELSE {parent[a]} \cup anc[n - 1][parent[a]]]
    IN anc[Cardinality(Agents)]

\* A token and the child tokens made from it: cancelling one cancels all.
Subtree(a) == {d \in Agents : d = a \/ a \in Ancestors[d]}

\* Who a wait for `a` would transitively wait for.
Reaches ==
    LET step[n \in 0..Cardinality(Agents)] ==
          [a \in Agents |->
            IF n = 0 THEN {a}
            ELSE {a} \cup UNION {step[n - 1][b] : b \in waitingFor[a]}]
    IN step[Cardinality(Agents)]

Init ==
    /\ parent = [a \in Agents |-> Nil]
    /\ mem = [a \in Agents |-> Absent]
    /\ disk = [a \in Agents |-> Absent]
    /\ archive = [a \in Agents |-> Absent]
    /\ wt = {} /\ dwt = {} /\ cancelled = {}
    /\ permit = [a \in Agents |-> "none"]
    /\ waitingFor = [a \in Agents |-> {}]
    /\ op = [a \in Agents |-> "wait"]
    /\ inbox = [a \in Agents |-> 0]
    /\ outcome = [a \in Agents |-> Absent]
    /\ res = [a \in Agents |-> Absent]
    /\ pc = [a \in Agents |-> "idle"]
    /\ turns = [a \in Agents |-> 0]
    /\ lock = Nil /\ open = TRUE /\ up = TRUE
    /\ late = {} /\ creating = {}
    /\ faults = 0 /\ dropped = 0 /\ crashes = 0

-----------------------------------------------------------------------------
(* The durable tree and its archive. *)

\* Mutation: a finished record goes although it has retained children.
Prunable_inner(tree, trees, protected) ==
    {a \in Agents : tree[a] \in Terminal /\ a \notin trees /\ a # protected}

\* AgentTree::prune_terminal_leaves with no records to keep: every finished
\* record without a worktree goes whose descendants in the tree all go.
Prunable(tree, trees, protected) ==
    {a \in Agents :
        /\ tree[a] # Absent
        /\ \A d \in Subtree(a) :
             tree[d] # Absent => tree[d] \in Terminal /\ d \notin trees /\ d # protected}

\* The archive is immutable: an existing record must equal the retained one.
Conflicts(R, d) == \E a \in R : archive[a] \notin {Absent, d[a]}

Without(R, tree) == [a \in Agents |-> IF a \in R THEN Absent ELSE tree[a]]

\* Mutation: the records are removed before they are archived.
ArchiveAll_lossy(R, m, d) ==
    /\ archive' = archive
    /\ disk' = Without(R, d)
    /\ mem' = Without(R, m)

\* A successful prune: an archive record for every removed agent, then the
\* smaller tree, then the smaller map.
ArchiveAll(R, m, d) ==
    /\ ~Conflicts(R, d)
    /\ archive' = [a \in Agents |-> IF a \in R THEN d[a] ELSE archive[a]]
    /\ disk' = Without(R, d)
    /\ mem' = Without(R, m)

\* A failed one: some records reached the archive, all of them stay retained.
ArchiveSome(R, m, d) ==
    /\ R # {}
    /\ \E S \in SUBSET R :
         /\ ~Conflicts(S, d)
         /\ archive' = [a \in Agents |-> IF a \in S THEN d[a] ELSE archive[a]]
    /\ disk' = d
    /\ mem' = m

Fails == faults < MaxFaults /\ faults' = faults + 1

\* prune_terminal_history: nothing to do unless the in-memory map has a
\* finished leaf; what goes is what the durable tree says is finished.
PruneHistory(m, w, d, dw, protected) ==
    LET R == IF Prunable(m, w, protected) = {} THEN {} ELSE Prunable(d, dw, protected)
    IN \/ ArchiveAll(R, m, d) /\ UNCHANGED faults
       \/ ArchiveSome(R, m, d) /\ (IF Conflicts(R, d) THEN UNCHANGED faults ELSE Fails)

-----------------------------------------------------------------------------
(* Spawning. *)

\* The record a spawn's prune must keep: the parent of the new agent.
Protected(p) == p

Spawnable(p, c) ==
    /\ up /\ lock = Nil /\ open
    /\ parent[c] = Nil
    /\ p \in Agents => mem[p] # Absent /\ p \notin cancelled

\* spawn_for_run: under the mutation lock, with the parent retained and not
\* cancelled; finished work is archived first, then the record is created on
\* disk, published in memory, and its worker starts.  A child's token is a
\* child of its parent's.
SpawnAs(p, c, tree) ==
    /\ Spawnable(p, c)
    /\ LET R == IF Prunable(mem, wt, Protected(p)) = {} THEN {}
                ELSE Prunable(disk, dwt, Protected(p))
       IN /\ ~Conflicts(R, disk)
          /\ p \in Agents => Without(R, disk)[p] # Absent
          /\ archive' = [a \in Agents |-> IF a \in R THEN disk[a] ELSE archive[a]]
          /\ disk' = [Without(R, disk) EXCEPT ![c] = "queued"]
          /\ mem' = [Without(R, mem) EXCEPT ![c] = "queued"]
    /\ parent' = [parent EXCEPT ![c] = p]
    /\ pc' = [pc EXCEPT ![c] = "acquire"]
    /\ wt' = IF tree THEN wt \cup {c} ELSE wt
    /\ dwt' = IF tree THEN dwt \cup {c} ELSE dwt
    /\ UNCHANGED <<cancelled, permit, waitingFor, op, inbox, outcome, res, turns,
                   lock, open, up, late, creating, bounds>>

\* The spawn tool of the root run, or of an executing agent.
Spawn(p, c, tree) ==
    /\ p \in Agents => pc[p] = "exec"
    /\ SpawnAs(p, c, tree)

\* follow_up of a finished agent that is still retained: a new agent below
\* it that inherits its worktree.
FollowUp(t, c) ==
    /\ mem[t] \in Terminal
    /\ SpawnAs(t, c, t \in wt)

\* A spawn whose prune or create fails publishes nothing.
SpawnFails(p, c) ==
    /\ Spawnable(p, c)
    /\ p \in Agents => pc[p] = "exec"
    /\ \/ PruneHistory(mem, wt, disk, dwt, Protected(p)) /\ faults' # faults
       \/ /\ Fails
          /\ LET R == IF Prunable(mem, wt, Protected(p)) = {} THEN {}
                      ELSE Prunable(disk, dwt, Protected(p))
             IN ArchiveAll(R, mem, disk)
    /\ UNCHANGED <<parent, wt, dwt, cancelled, workers, lock, open, up, late,
                   creating, dropped, crashes>>

\* The caller of a spawn is dropped (its own token was cancelled) while the
\* detached create is in flight: nothing in memory will know the record.
SpawnDropped(p, c) ==
    /\ Spawnable(p, c)
    /\ p \in Agents => pc[p] = "exec"
    /\ dropped < MaxDropped
    /\ dropped' = dropped + 1
    /\ parent' = [parent EXCEPT ![c] = p]
    /\ creating' = creating \cup {c}
    /\ cancelled' = IF p \in Agents THEN cancelled \cup Subtree(p) ELSE cancelled
    /\ UNCHANGED <<mem, wt, disk, dwt, archive, workers, lock, open, up, late,
                   faults, crashes>>

\* AgentTree::insert needs the parent in the durable tree.
LandCreate(c) ==
    /\ up /\ c \in creating
    /\ creating' = creating \ {c}
    /\ disk' = IF parent[c] \in Agents /\ disk[parent[c]] = Absent THEN disk
               ELSE [disk EXCEPT ![c] = "queued"]
    /\ UNCHANGED <<parent, mem, wt, dwt, archive, cancelled, workers, lock, open,
                   up, late, bounds>>

-----------------------------------------------------------------------------
(* The worker of an agent. *)

Free == Cardinality(Holders) < Slots

Finishing(a, result) ==
    /\ pc' = [pc EXCEPT ![a] = "finish"]
    /\ res' = [res EXCEPT ![a] = result]

\* The biased select of run(): cancellation, then a closed semaphore, then a
\* permit.
Acquire(a) ==
    /\ up /\ pc[a] = "acquire"
    /\ \/ a \in cancelled /\ Finishing(a, "cancelled") /\ UNCHANGED permit
       \/ a \notin cancelled /\ ~open /\ Finishing(a, "failed") /\ UNCHANGED permit
       \/ /\ a \notin cancelled /\ open /\ Free
          /\ permit' = [permit EXCEPT ![a] = "held"]
          /\ pc' = [pc EXCEPT ![a] = "start"]
          /\ UNCHANGED res
    /\ UNCHANGED <<records, cancelled, waitingFor, op, inbox, outcome, turns,
                   lock, open, up, late, creating, bounds>>

Start(a) ==
    /\ up /\ pc[a] = "start"
    /\ mem' = [mem EXCEPT ![a] = "running"]
    /\ pc' = [pc EXCEPT ![a] = "persist"]
    /\ UNCHANGED <<parent, wt, disk, dwt, archive, cancelled, permit, waitingFor,
                   op, inbox, outcome, res, turns, lock, open, up, late, creating,
                   bounds>>

\* AgentTreeStore::update replaces a record the tree holds.
Update(d, a, status) == IF d[a] = Absent THEN d ELSE [d EXCEPT ![a] = status]

\* A failed persist is logged and the worker goes on.
Persist(a) ==
    /\ up /\ pc[a] = "persist"
    /\ \/ disk' = Update(disk, a, mem[a]) /\ UNCHANGED faults
       \/ disk' = disk /\ Fails
    /\ pc' = [pc EXCEPT ![a] = "exec"]
    /\ UNCHANGED <<parent, mem, wt, dwt, archive, cancelled, permit, waitingFor,
                   op, inbox, outcome, res, turns, lock, open, up, late, creating,
                   dropped, crashes>>

\* The executor returns: an answer, or an error.  The token, when cancelled,
\* decides.
ExecEnd(a) ==
    /\ up /\ pc[a] = "exec" /\ a \notin cancelled
    /\ \E result \in {"completed", "failed"} : Finishing(a, result)
    /\ UNCHANGED <<records, cancelled, permit, waitingFor, op, inbox, outcome,
                   turns, lock, open, up, late, creating, bounds>>

\* The biased select drops the executor, whatever it awaited: a permit that
\* was not stored goes back, a mutation lock is released, an update that was
\* sent stays in flight.  The wait edges stay until the finish.
Interrupt(a) ==
    /\ up /\ a \in cancelled
    /\ pc[a] \in {"exec", "progress", "wait", "reacquire", "resume"}
    /\ Finishing(a, "cancelled")
    /\ permit' = [permit EXCEPT ![a] = IF @ = "local" THEN "none" ELSE @]
    /\ lock' = IF lock = a THEN Nil ELSE lock
    /\ IF pc[a] = "progress"
       THEN /\ dropped < MaxDropped /\ dropped' = dropped + 1
            /\ late' = late \cup {a}
       ELSE UNCHANGED <<dropped, late>>
    /\ UNCHANGED <<records, cancelled, waitingFor, op, inbox, outcome, turns, open,
                   up, creating, faults, crashes>>

\* record_progress: the report is pushed and its update sent under the lock.
Progress(a) ==
    /\ up /\ pc[a] = "exec" /\ a \notin cancelled /\ lock = Nil
    /\ turns[a] < MaxTurns
    /\ turns' = [turns EXCEPT ![a] = @ + 1]
    /\ lock' = a
    /\ pc' = [pc EXCEPT ![a] = "progress"]
    /\ UNCHANGED <<records, cancelled, permit, waitingFor, op, inbox, outcome, res,
                   open, up, late, creating, bounds>>

ProgressDone(a) ==
    /\ up /\ pc[a] = "progress"
    /\ disk' = Update(disk, a, "running")
    /\ lock' = Nil
    /\ pc' = [pc EXCEPT ![a] = "exec"]
    /\ UNCHANGED <<parent, mem, wt, dwt, archive, cancelled, permit, waitingFor,
                   op, inbox, outcome, res, turns, open, up, late, creating, bounds>>

\* The update a dropped report left behind reaches the store.
LandLate(a) ==
    /\ up /\ a \in late
    /\ late' = late \ {a}
    /\ disk' = Update(disk, a, "running")
    /\ UNCHANGED <<parent, mem, wt, dwt, archive, cancelled, workers, lock, open,
                   up, creating, bounds>>

-----------------------------------------------------------------------------
(* Waiting without a slot. *)

\* An agent a caller may name: retained or archived.
Known(a) == mem[a] # Absent \/ archive[a] # Absent

\* Mutation: the check walks the ancestry but not the existing wait edges.
MayWait_ancestryonly(a, T) ==
    \A t \in T : /\ Known(t)
                 /\ mem[t] \in Live => t \notin {a} \cup Ancestors[a]

\* The validation of yield_slot: no unfinished target is the caller or one of
\* its ancestors, and no target waits, transitively, for the caller.
MayWait(a, T) ==
    \A t \in T : /\ Known(t)
                 /\ mem[t] \in Live => t \notin {a} \cup Ancestors[a]
                 /\ a \notin Reaches[t]

\* Mutation: the waiting agent keeps its slot.
Yield_holding(a, T, what) ==
    /\ up /\ pc[a] = "exec" /\ a \notin cancelled /\ lock = Nil
    /\ turns[a] < MaxTurns
    /\ MayWait(a, T)
    /\ waitingFor[a] = {} /\ mem[a] = "running" /\ permit[a] = "held"
    /\ waitingFor' = [waitingFor EXCEPT ![a] = T]
    /\ op' = [op EXCEPT ![a] = what]
    /\ mem' = [mem EXCEPT ![a] = "waiting"]
    /\ pc' = [pc EXCEPT ![a] = "wait"]
    /\ turns' = [turns EXCEPT ![a] = @ + 1]
    /\ UNCHANGED <<parent, wt, disk, dwt, archive, cancelled, permit, inbox, outcome,
                   res, lock, open, up, late, creating, bounds>>

\* The first half of yield_slot, under the mutation lock: publish the wait
\* edges and the status, give the permit back.
Yield(a, T, what) ==
    /\ up /\ pc[a] = "exec" /\ a \notin cancelled /\ lock = Nil
    /\ turns[a] < MaxTurns
    /\ MayWait(a, T)
    /\ waitingFor[a] = {} /\ mem[a] = "running" /\ permit[a] = "held"
    /\ waitingFor' = [waitingFor EXCEPT ![a] = T]
    /\ op' = [op EXCEPT ![a] = what]
    /\ mem' = [mem EXCEPT ![a] = "waiting"]
    /\ permit' = [permit EXCEPT ![a] = "none"]
    /\ pc' = [pc EXCEPT ![a] = "wait"]
    /\ turns' = [turns EXCEPT ![a] = @ + 1]
    /\ UNCHANGED <<parent, wt, disk, dwt, archive, cancelled, inbox, outcome, res,
                   lock, open, up, late, creating, bounds>>

\* The receiver went away with the executor's context.
Closed(t) == pc[t] \in {"idle", "finish", "write", "archive", "publish", "done"}

\* send_as into an inbox with room.
Send(a, t) ==
    /\ up /\ pc[a] = "exec" /\ a \notin cancelled /\ turns[a] < MaxTurns
    /\ mem[t] \in Live /\ ~Closed(t) /\ inbox[t] < InboxMax
    /\ inbox' = [inbox EXCEPT ![t] = @ + 1]
    /\ turns' = [turns EXCEPT ![a] = @ + 1]
    /\ UNCHANGED <<records, cancelled, permit, waitingFor, op, outcome, res, pc,
                   lock, open, up, late, creating, bounds>>

\* Backpressure must not hold the slot the recipient needs to drain.
SendFull(a, t) ==
    /\ mem[t] \in Live /\ ~Closed(t) /\ inbox[t] = InboxMax
    /\ Yield(a, {t}, "send")

\* Mutation: a drain of an empty inbox counts.
Drain_empty(a) ==
    /\ up /\ pc[a] = "exec"
    /\ inbox' = [inbox EXCEPT ![a] = @ - 1]
    /\ UNCHANGED <<records, cancelled, permit, waitingFor, op, outcome, res, pc,
                   turns, lock, open, up, late, creating, bounds>>

\* An executing agent takes a message out of its inbox.
Drain(a) ==
    /\ up /\ pc[a] = "exec" /\ inbox[a] > 0
    /\ inbox' = [inbox EXCEPT ![a] = @ - 1]
    /\ UNCHANGED <<records, cancelled, permit, waitingFor, op, outcome, res, pc,
                   turns, lock, open, up, late, creating, bounds>>

\* wait(): the published outcome, or that of the archived record.
Resolved(t) == outcome[t] # Absent \/ (mem[t] = Absent /\ archive[t] # Absent)

WaitDone(a) ==
    /\ up /\ pc[a] = "wait" /\ a \notin cancelled
    /\ \/ /\ op[a] = "wait"
          /\ \A t \in waitingFor[a] : Resolved(t)
          /\ UNCHANGED inbox
       \/ /\ op[a] = "send"
          /\ \E t \in waitingFor[a] :
               \/ Closed(t) /\ UNCHANGED inbox
               \/ ~Closed(t) /\ inbox[t] < InboxMax
                  /\ inbox' = [inbox EXCEPT ![t] = @ + 1]
    /\ waitingFor' = [waitingFor EXCEPT ![a] = {}]
    /\ pc' = [pc EXCEPT ![a] = "reacquire"]
    /\ UNCHANGED <<records, cancelled, permit, op, outcome, res, turns, lock, open,
                   up, late, creating, bounds>>

\* A closed semaphore ends the wait with an error, and the guard of a dropped
\* wait cancels the agent.
Reacquire(a) ==
    /\ up /\ pc[a] = "reacquire" /\ a \notin cancelled
    /\ \/ /\ open /\ Free
          /\ permit' = [permit EXCEPT ![a] = "local"]
          /\ pc' = [pc EXCEPT ![a] = "resume"]
          /\ UNCHANGED cancelled
       \/ /\ ~open
          /\ cancelled' = cancelled \cup Subtree(a)
          /\ pc' = [pc EXCEPT ![a] = "exec"]
          /\ UNCHANGED permit
    /\ UNCHANGED <<records, waitingFor, op, inbox, outcome, res, turns, lock, open,
                   up, late, creating, bounds>>

Resume(a) ==
    /\ up /\ pc[a] = "resume" /\ a \notin cancelled /\ lock = Nil
    /\ permit' = [permit EXCEPT ![a] = "held"]
    /\ mem' = [mem EXCEPT ![a] = "running"]
    /\ pc' = [pc EXCEPT ![a] = "exec"]
    /\ UNCHANGED <<parent, wt, disk, dwt, archive, cancelled, waitingFor, op, inbox,
                   outcome, res, turns, lock, open, up, late, creating, bounds>>

\* Mutation: no guard cancels the agent whose wait is dropped.
DropWait_unguarded(a) ==
    /\ up /\ pc[a] \in {"wait", "reacquire", "resume"} /\ a \notin cancelled
    /\ permit' = [permit EXCEPT ![a] = "none"]
    /\ pc' = [pc EXCEPT ![a] = "exec"]
    /\ UNCHANGED <<records, cancelled, waitingFor, op, inbox, outcome, res, turns,
                   lock, open, up, late, creating, bounds>>

\* CancelDroppedWait: the tool call that waited is dropped while its agent
\* goes on; the guard cancels the agent, which owns no slot any more.
DropWait(a) ==
    /\ up /\ pc[a] \in {"wait", "reacquire", "resume"} /\ a \notin cancelled
    /\ cancelled' = cancelled \cup Subtree(a)
    /\ permit' = [permit EXCEPT ![a] = "none"]
    /\ pc' = [pc EXCEPT ![a] = "exec"]
    /\ UNCHANGED <<records, waitingFor, op, inbox, outcome, res, turns, lock, open,
                   up, late, creating, bounds>>

-----------------------------------------------------------------------------
(* Finishing, cleaning up, shutting down, restarting. *)

\* finish_completed, finish_failed, finish_cancelled take the mutation lock,
\* release the slot and record the terminal status in memory ...
Finish(a) ==
    /\ up /\ pc[a] = "finish" /\ lock = Nil
    /\ lock' = a
    /\ permit' = [permit EXCEPT ![a] = "none"]
    /\ waitingFor' = [waitingFor EXCEPT ![a] = {}]
    /\ mem' = [mem EXCEPT ![a] = res[a]]
    /\ pc' = [pc EXCEPT ![a] = "write"]
    /\ UNCHANGED <<parent, wt, disk, dwt, archive, cancelled, op, inbox, outcome,
                   res, turns, open, up, late, creating, bounds>>

\* ... write it ...
FinishWrite(a) ==
    /\ up /\ pc[a] = "write"
    /\ \/ disk' = Update(disk, a, mem[a]) /\ UNCHANGED faults
       \/ disk' = disk /\ Fails
    /\ pc' = [pc EXCEPT ![a] = "archive"]
    /\ UNCHANGED <<parent, mem, wt, dwt, archive, cancelled, permit, waitingFor,
                   op, inbox, outcome, res, turns, lock, open, up, late, creating,
                   dropped, crashes>>

\* ... archive what is finished ...
FinishArchive(a) ==
    /\ up /\ pc[a] = "archive"
    /\ PruneHistory(mem, wt, disk, dwt, Nil)
    /\ pc' = [pc EXCEPT ![a] = "publish"]
    /\ UNCHANGED <<parent, wt, dwt, cancelled, permit, waitingFor, op, inbox,
                   outcome, res, turns, lock, open, up, late, creating, dropped,
                   crashes>>

\* Mutation: the lock outlives the publication.
FinishPublish_locked(a) ==
    /\ up /\ pc[a] = "publish"
    /\ outcome' = [outcome EXCEPT ![a] = res[a]]
    /\ pc' = [pc EXCEPT ![a] = "done"]
    /\ UNCHANGED <<records, cancelled, permit, waitingFor, op, inbox, res, turns,
                   lock, open, up, late, creating, bounds>>

\* ... and publish the outcome to whoever waits.
FinishPublish(a) ==
    /\ up /\ pc[a] = "publish"
    /\ outcome' = [outcome EXCEPT ![a] = res[a]]
    /\ lock' = Nil
    /\ pc' = [pc EXCEPT ![a] = "done"]
    /\ UNCHANGED <<records, cancelled, permit, waitingFor, op, inbox, res, turns,
                   open, up, late, creating, bounds>>

Cancel(a) ==
    /\ up /\ mem[a] # Absent /\ a \notin cancelled
    /\ cancelled' = cancelled \cup Subtree(a)
    /\ UNCHANGED <<records, workers, lock, open, up, late, creating, bounds>>

\* The cleanup tool: a finished, retained agent with no archive transaction
\* pending loses its worktree; then what is finished is archived.
Cleanup(a) ==
    /\ up /\ lock = Nil
    /\ mem[a] \in Terminal /\ a \in wt /\ archive[a] = Absent
    /\ wt' = wt \ {a}
    /\ \/ dwt' = dwt \ {a} /\ PruneHistory(mem, wt', disk, dwt', Nil)
       \/ /\ dwt' = dwt /\ Fails
          /\ ArchiveAll(Prunable(disk, dwt, Nil), mem, disk)
    /\ UNCHANGED <<parent, cancelled, workers, lock, open, up, late, creating,
                   dropped, crashes>>

\* shutdown(): under the lock, close the semaphore, then cancel everyone.
ShutdownClose ==
    /\ up /\ open /\ lock = Nil
    /\ open' = FALSE
    /\ lock' = Root
    /\ UNCHANGED <<records, cancelled, workers, up, late, creating, bounds>>

ShutdownCancel ==
    /\ up /\ lock = Root
    /\ cancelled' = cancelled \cup UNION {Subtree(a) : a \in {b \in Agents : mem[b] # Absent}}
    /\ lock' = Nil
    /\ UNCHANGED <<records, workers, open, up, late, creating, bounds>>

\* The tracked tasks are drained.
Drained == up /\ ~open /\ lock = Nil /\ \A a \in Agents : pc[a] \in {"idle", "done"}

Crash ==
    /\ up /\ crashes < MaxCrashes
    /\ crashes' = crashes + 1
    /\ up' = FALSE
    /\ mem' = [a \in Agents |-> Absent]
    /\ wt' = {} /\ cancelled' = {} /\ late' = {} /\ creating' = {}
    /\ permit' = [a \in Agents |-> "none"]
    /\ waitingFor' = [a \in Agents |-> {}]
    /\ inbox' = [a \in Agents |-> 0]
    /\ outcome' = [a \in Agents |-> Absent]
    /\ res' = [a \in Agents |-> Absent]
    /\ op' = [a \in Agents |-> "wait"]
    /\ pc' = [a \in Agents |-> "idle"]
    /\ lock' = Nil /\ open' = TRUE
    /\ UNCHANGED <<parent, disk, dwt, archive, turns, faults, dropped>>

\* Mutation: recovery marks every record interrupted, finished ones too.
Recovered_all == [a \in Agents |-> IF disk[a] # Absent THEN "interrupted" ELSE Absent]

\* AgentTree::recover_after_restart.
Recovered == [a \in Agents |-> IF disk[a] \in Live THEN "interrupted" ELSE disk[a]]

\* new_persistent: recover the tree, archive its finished leaves, load the
\* rest as finished agents with their outcome.  A conflict refuses to open.
Restart ==
    /\ ~up
    /\ LET R == Prunable(Recovered, dwt, Nil)
       IN \/ /\ ArchiveAll(R, Recovered, Recovered)
             /\ up' = TRUE
             /\ wt' = dwt
             /\ outcome' = Without(R, Recovered)
             /\ pc' = [a \in Agents |-> IF Without(R, Recovered)[a] = Absent THEN "idle" ELSE "done"]
             /\ UNCHANGED crashes
          \/ /\ crashes < MaxCrashes
             /\ crashes' = crashes + 1
             /\ R # {}
             /\ \E S \in SUBSET R :
                  /\ ~Conflicts(S, Recovered)
                  /\ archive' = [a \in Agents |-> IF a \in S THEN Recovered[a] ELSE archive[a]]
             /\ disk' = Recovered
             /\ UNCHANGED <<mem, wt, up, outcome, pc>>
    /\ UNCHANGED <<parent, dwt, cancelled, permit, waitingFor, op, inbox, res,
                   turns, lock, open, late, creating, faults, dropped>>

Work(a) ==
    \/ Acquire(a) \/ Start(a) \/ Persist(a) \/ ExecEnd(a) \/ Interrupt(a)
    \/ ProgressDone(a) \/ WaitDone(a) \/ Reacquire(a) \/ Resume(a)
    \/ Finish(a) \/ FinishWrite(a) \/ FinishArchive(a) \/ FinishPublish(a)

Next ==
    \/ \E a \in Agents : Work(a)
    \/ \E c \in Agents, tree \in TreeChoices : \E p \in Agents \cup {Root} : Spawn(p, c, tree)
    \/ \E c \in Agents : \E p \in Agents \cup {Root} : SpawnFails(p, c) \/ SpawnDropped(p, c)
    \/ \E t, c \in Agents : FollowUp(t, c)
    \/ \E a \in Agents : Progress(a) \/ LandLate(a) \/ LandCreate(a) \/ Drain(a)
    \/ \E a \in Agents : \E T \in SUBSET Agents : T # {} /\ Yield(a, T, "wait")
    \/ \E a, t \in Agents : Send(a, t) \/ SendFull(a, t)
    \/ \E a \in Agents : DropWait(a) \/ Cancel(a) \/ Cleanup(a)
    \/ ShutdownClose \/ ShutdownCancel \/ Crash \/ Restart

Spec == Init /\ [][Next]_vars

\* Tokio runs every ready task, the executor of an agent ends, the store
\* answers; a shutdown that began goes on.
Fairness ==
    /\ \A a \in Agents : WF_vars(Work(a))
    /\ WF_vars(ShutdownCancel)
    /\ WF_vars(Restart)

FairSpec == Spec /\ Fairness

-----------------------------------------------------------------------------
(* Properties. *)

TypeOK ==
    /\ parent \in [Agents -> Agents \cup {Root, Nil}]
    /\ mem \in [Agents -> Live \cup Terminal \cup {Absent}]
    /\ disk \in [Agents -> Live \cup Terminal \cup {Absent}]
    /\ archive \in [Agents -> Terminal \cup {Absent}]
    /\ wt \subseteq Agents /\ dwt \subseteq Agents /\ cancelled \subseteq Agents
    /\ permit \in [Agents -> {"none", "local", "held"}]
    /\ waitingFor \in [Agents -> SUBSET Agents]
    /\ op \in [Agents -> {"wait", "send"}]
    /\ inbox \in [Agents -> 0..InboxMax]
    /\ outcome \in [Agents -> Terminal \cup {Absent}]
    /\ res \in [Agents -> Terminal \cup {Absent}]
    /\ pc \in [Agents -> Stages]
    /\ turns \in [Agents -> 0..MaxTurns]
    /\ lock \in Agents \cup {Root, Nil}
    /\ open \in BOOLEAN /\ up \in BOOLEAN
    /\ late \subseteq Agents /\ creating \subseteq Agents
    /\ faults \in 0..MaxFaults /\ dropped \in 0..MaxDropped /\ crashes \in 0..MaxCrashes

\* "A worker must yield its execution slot while waiting, then reacquire it
\* before returning to its model loop", and dropping a wait must not let it go
\* on without one: at most Slots agents hold a permit, and an agent in its
\* model loop holds one unless its token is cancelled.
ExecutingHoldsSlot ==
    /\ Cardinality(Holders) <= Slots
    /\ \A a \in Agents : pc[a] \in {"exec", "progress"} /\ a \notin cancelled => permit[a] = "held"

\* The agents that wait never wait for each other in a circle, and none waits
\* for an unfinished ancestor.
NoWaitCycle ==
    \A a \in Agents : pc[a] = "wait" =>
        \A t \in waitingFor[a] :
            /\ a \notin Reaches[t]
            /\ mem[t] \in Live => t \notin Ancestors[a]

\* The tree file stays loadable and every identity readable: a retained record
\* has its parent beside it, in memory and on disk, and a record that left the
\* map is in the archive with the result its waiters were told.
TreeStaysWhole ==
    /\ \A a \in Agents : parent[a] \in Agents =>
         /\ mem[a] # Absent => mem[parent[a]] # Absent
         /\ disk[a] # Absent => disk[parent[a]] # Absent
    /\ \A a \in Agents : outcome[a] # Absent /\ mem[a] = Absent => archive[a] = outcome[a]

\* A waiter finds the agent it waits for: known when the wait began, it is
\* retained or archived until the wait ends.
WaitersFindTargets ==
    \A a \in Agents : pc[a] = "wait" => \A t \in waitingFor[a] : Known(t)

\* "Tracked workers finish persistence before exit": once a shutdown has
\* drained and no write failed, no durable record of a finished worker says it
\* still runs.
ShutdownIsDurable ==
    Drained /\ faults = 0 =>
        \A a \in Agents : mem[a] \in Terminal => disk[a] \in Terminal

\* A store that a process left behind opens again: no retained record
\* disagrees with its archived form.
StoreReopens == ~Conflicts(Prunable(Recovered, dwt, Nil), Recovered)

\* Every spawned agent settles: waits end, slots come back, and its outcome is
\* published.
AgentsSettle == \A a \in Agents : (pc[a] = "acquire") ~> (pc[a] = "done" \/ ~up)

\* A shutdown drains every worker.
ShutdownDrains == (up /\ ~open) ~> (Drained \/ ~up)

\* Slots, waits and the durable tree stay consistent whatever is dropped, cancelled,
\* pruned or lost in a crash (subagent/runtime.rs, subagent/persistence.rs).  The write
\* of a dropped caller can land after the archive and contradict it.
Safety ==
  /\ TypeOK /\ ExecutingHoldsSlot /\ NoWaitCycle /\ TreeStaysWhole
  /\ WaitersFindTargets /\ (dropped = 0 => StoreReopens)
=============================================================================
