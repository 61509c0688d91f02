----------------------------- MODULE RunJournal -----------------------------
(***************************************************************************)
(* One voyage session: its SQLite journal, the process that owns the       *)
(* session's execution lock, and the local effects (tools, terminals,      *)
(* children) that the process starts.                                      *)
(*                                                                         *)
(* Every journal method is one IMMEDIATE transaction, so every action      *)
(* below is one transaction together with the volatile step of the code    *)
(* that calls it.  The owner may die between any two of them.  A turn is   *)
(* named by its command: commands(id, run_id) is one row per run.  The      *)
(* session revision, which only serialises commands, is left out.           *)
(***************************************************************************)
EXTENDS Integers, Sequences, FiniteSets

CONSTANTS
  Commands,      \* turn command identities, hence run identities
  Delegating,    \* the turns that assign work to another vessel
  Terminals,     \* the turns whose agent keeps operator terminals
  Bindings,      \* whether a root guardian launches the session: subset of BOOLEAN
  Calls,         \* tool call identities used by provider responses
  None,          \* "no run"
  Outcomes,      \* terminal states an agent loop may ask for
  MaxMessages    \* bound on the canonical history

ASSUME NoneAssumption  == None \notin Commands
ASSUME TurnsAssumption == Delegating \subseteq Commands /\ Terminals \subseteq Commands
ASSUME BindingAssumption == Bindings \subseteq BOOLEAN
ASSUME OutcomesAssumption ==
  Outcomes \subseteq {"Completed", "Incomplete", "Cancelled", "Failed"}
ASSUME BoundAssumption == MaxMessages \in Nat

VARIABLES
  \* durable: the journal
  state,         \* runs.record.state, or "absent"
  accepted,      \* runs.record.final_checkpointed
  history,       \* canonical messages of the session
  latest,        \* run of the newest event
  intents,       \* local_cancel_intents
  obligation,    \* local_cleanup_obligations.confirmation
  retained,      \* process_retained_cleanup.confirmation
  receipts,      \* local_tool_reconciliations
  resource,      \* process_session_resources.state of the root terminals
  assignment,    \* process_assignments: one participant assignment per run
  locally,       \* process_assignment_local_cleanup
  \* durable: files beside the journal
  permit,        \* restart evidence: stopped.json or recovered.json
  proof,         \* guardian evidence for the newest incarnation
  \* volatile: the owner process
  pc,            \* phase of the process that holds the execution lock
  mode,          \* how it was launched
  turn,          \* run whose TurnToken is alive
  stage,         \* how far that turn has come
  \* the world
  bound,         \* whether a root guardian launches this session
  live,          \* runs with local effects still alive
  scope          \* the part of live the newest incarnation started

journal  == <<state, accepted, history, latest, intents>>
evidence == <<obligation, retained, receipts, resource, assignment, locally>>
files    == <<permit, proof>>
process  == <<pc, mode, turn, stage>>
world    == <<bound, live, scope>>
vars     == <<journal, evidence, files, process, world>>

Active   == {"Accepted", "Running"}
Terminal == {"Completed", "Incomplete", "Cancelled", "Failed", "Interrupted"}
RunState == Active \cup Terminal
Confirmation  == {"none", "pending", "observed", "operator_attested"}
ResourceState == {"none", "owned", "cleanup_unknown", "retained_unknown",
                  "observed", "operator_attested"}
Phase == {"down", "opened", "proving", "settling", "attesting", "retaining",
          "reconciling", "serving"}
Stage == {"idle", "admitted", "registered", "refused", "built", "executing",
          "abandoned", "ended", "observed"}
Message == [role : {"user", "assistant", "tool"}, run : Commands,
            calls : SUBSET Calls, results : SUBSET Calls]

TypeOK ==
  /\ state \in [Commands -> RunState \cup {"absent"}]
  /\ accepted \in [Commands -> BOOLEAN]
  /\ history \in Seq(Message)
  /\ latest \in Commands \cup {None}
  /\ intents \in SUBSET Commands
  /\ obligation \in [Commands -> Confirmation]
  /\ retained \in [Commands -> Confirmation]
  /\ receipts \in SUBSET Commands
  /\ resource \in [Commands -> ResourceState]
  /\ assignment \in [Commands -> {"none", "pending", "clean"}]
  /\ locally \in SUBSET Commands
  /\ permit \in {"fresh", "none", "stopped", "recovered"}
  /\ proof \in BOOLEAN
  /\ pc \in Phase
  /\ mode \in {"serve", "restart", "recover"}
  /\ turn \in Commands \cup {None}
  /\ stage \in Stage
  /\ bound \in BOOLEAN
  /\ live \in SUBSET Commands
  /\ scope \in SUBSET Commands

-----------------------------------------------------------------------------
(* Helpers of the journal.                                                 *)

ActiveRuns == {c \in Commands : state[c] \in Active}

HasResult(h, k, i, j) == \E n \in i..j : k \in h[n].results

\* A call without a later result, or a call opened again while outstanding.
HasPendingTools(h) ==
  \E i \in 1..Len(h) : \E k \in h[i].calls :
    \/ ~HasResult(h, k, i + 1, Len(h))
    \/ \E j \in i + 1..Len(h) : k \in h[j].calls /\ ~HasResult(h, k, i + 1, j)

\* The outstanding calls of the newest response; reconciliation refuses a
\* history in which anything but results follows them.
Unresolved(h) ==
  {k \in Calls : \E i \in 1..Len(h) :
      /\ k \in h[i].calls
      /\ ~HasResult(h, k, i + 1, Len(h))
      /\ \A j \in i + 1..Len(h) : h[j].role = "tool"}

\* Mutation: an obligation ends with its run.
PendingOfActive ==
  {c \in Commands : obligation[c] = "pending" /\ state[c] \in Active}

\* Rows of local_cleanup_obligations whose confirmation is NULL.
PendingCleanup == {c \in Commands : obligation[c] = "pending"}

\* A run's confirmation is read from the retained table once its row moved.
CleanupConfirmation(c) ==
  IF obligation[c] # "none" THEN obligation[c] ELSE retained[c]

Extend(h, c, role, calls, results) ==
  Append(h, [role |-> role, run |-> c, calls |-> calls, results |-> results])

\* Resources a stop or a suspension must not leave behind.
PendingResources ==
  {c \in Commands : resource[c] \in {"owned", "cleanup_unknown"}}

Init ==
  /\ state = [c \in Commands |-> "absent"]
  /\ accepted = [c \in Commands |-> FALSE]
  /\ history = <<>>
  /\ latest = None
  /\ intents = {}
  /\ obligation = [c \in Commands |-> "none"]
  /\ retained = [c \in Commands |-> "none"]
  /\ receipts = {}
  /\ resource = [c \in Commands |-> "none"]
  /\ assignment = [c \in Commands |-> "none"]
  /\ locally = {}
  /\ permit = "fresh"
  /\ proof = FALSE
  /\ pc = "down"
  /\ mode = "serve"
  /\ turn = None
  /\ stage = "idle"
  /\ bound \in Bindings
  /\ live = {}
  /\ scope = {}

-----------------------------------------------------------------------------
(* Terminal classification: finish_classified.                             *)

\* Mutation: a completion is not checked against the cancel intents.
ClassifiedUncancelled(c, s) ==
  IF s = "Completed" /\ assignment[c] = "pending" THEN "Incomplete" ELSE s

\* The terminal state that is written when the caller asks for s: a committed
\* cancellation wins over everything but Interrupted, and a completion with
\* participant cleanup outstanding is only Incomplete.
Classified(c, s) ==
  IF s # "Interrupted" /\ c \in intents THEN "Cancelled"
  ELSE IF s = "Completed" /\ assignment[c] = "pending" THEN "Incomplete"
  ELSE s

CompletionAllowed(c) ==
  state[c] = "Running" /\ accepted[c] /\ ~HasPendingTools(history)

\* Mutation: a terminal run may be finished again.
FinishableAgain(c) == state[c] # "absent"

Finishable(c) == state[c] \in Active

\* The journal transaction; the caller frames the rest.
Finish(c, s) ==
  /\ Finishable(c)
  /\ Classified(c, s) = "Completed" => CompletionAllowed(c)
  /\ state' = [state EXCEPT ![c] = Classified(c, s)]
  /\ latest' = c
  /\ UNCHANGED <<accepted, history, intents>>

\* Mutation: a second claim overwrites the first.
ConfirmRowAgain(c, kind) ==
  /\ state[c] \in Terminal
  /\ assignment[c] # "pending"
  /\ CleanupConfirmation(c) # "none"
  /\ obligation' = [obligation EXCEPT ![c] = IF @ = "none" THEN @ ELSE kind]
  /\ retained' = [retained EXCEPT ![c] = IF @ = "none" THEN @ ELSE kind]
  /\ UNCHANGED <<receipts, assignment>>

\* Records the guarded owner's claim; refused while participants are unclean.
ConfirmRow(c, kind) ==
  /\ state[c] \in Terminal
  /\ assignment[c] # "pending"
  /\ CleanupConfirmation(c) = "pending"
  /\ obligation' = IF obligation[c] = "pending"
                   THEN [obligation EXCEPT ![c] = kind] ELSE obligation
  /\ retained' = IF retained[c] = "pending"
                 THEN [retained EXCEPT ![c] = kind] ELSE retained
  /\ UNCHANGED <<receipts, assignment>>

-----------------------------------------------------------------------------
(* Clients and other processes.                                            *)

\* Any local process may commit a cancellation; it needs no execution lock.
RequestCancelLocal(c) ==
  /\ state[c] \in Active
  /\ c \notin intents
  /\ intents' = intents \cup {c}
  /\ UNCHANGED <<state, accepted, history, latest,
                 evidence, files, process, world>>

-----------------------------------------------------------------------------
(* Admission and construction of a turn in the serving process.            *)

\* Mutation: admission ignores unresolved tool effects.
AdmissionIgnoresTools ==
  /\ PendingCleanup = {}
  /\ \A c \in Commands : resource[c] # "cleanup_unknown"
  /\ ActiveRuns = {}

\* What the journal of a session must not hold when a turn is admitted.
AdmissionOpen ==
  /\ PendingCleanup = {}
  /\ \A c \in Commands : resource[c] # "cleanup_unknown"
  /\ ActiveRuns = {}
  /\ ~HasPendingTools(history)

AdmitTurn(c) ==
  /\ pc = "serving" /\ stage = "idle"
  /\ state[c] = "absent"
  /\ AdmissionOpen
  /\ Len(history) < MaxMessages
  /\ state' = [state EXCEPT ![c] = "Accepted"]
  /\ history' = Extend(history, c, "user", {}, {})
  /\ latest' = c
  /\ turn' = c /\ stage' = "admitted"
  /\ UNCHANGED <<accepted, intents, evidence, files, pc, mode, world>>

\* Metering, model or workflow preparation failed after admission.
PreparationFails ==
  /\ pc = "serving" /\ stage = "admitted"
  /\ Finish(turn, "Failed")
  /\ turn' = None /\ stage' = "idle"
  /\ UNCHANGED <<evidence, files, pc, mode, world>>

RegisterLocalCleanup ==
  /\ pc = "serving" /\ stage = "admitted"
  /\ state[turn] = "Accepted"
  /\ CleanupConfirmation(turn) = "none"
  /\ PendingCleanup = {}
  /\ obligation' = [obligation EXCEPT ![turn] = "pending"]
  /\ stage' = "registered"
  /\ UNCHANGED <<journal, retained, receipts, resource, assignment, locally,
                 files, pc, mode, turn, world>>

\* A journal write of submit or of construction failed: the error propagates,
\* nobody holds the run, and what it had registered stays as it is.
SubmissionFails ==
  /\ pc = "serving" /\ stage \in {"admitted", "registered", "refused"}
  /\ turn' = None /\ stage' = "idle"
  /\ UNCHANGED <<journal, evidence, files, pc, mode, world>>

\* browser.begin_run refused: the run fails and submit returns without
\* installing a cleanup handle or confirming the obligation.
BrowserRefuses ==
  /\ pc = "serving" /\ stage = "registered"
  /\ Finish(turn, "Failed")
  /\ turn' = None /\ stage' = "idle"
  /\ UNCHANGED <<evidence, files, pc, mode, world>>

\* No host reservation, or a prepared tool is misconfigured: nothing was built.
ConstructionRefused ==
  /\ pc = "serving" /\ stage = "registered"
  /\ Finish(turn, "Failed")
  /\ stage' = "refused"
  /\ UNCHANGED <<evidence, files, pc, mode, turn, world>>

ConfirmRefused ==
  /\ pc = "serving" /\ stage = "refused"
  /\ ConfirmRow(turn, "observed")
  /\ turn' = None /\ stage' = "idle"
  /\ UNCHANGED <<journal, resource, locally, files, pc, mode, world>>

\* The bundle failed half way; what it had started may or may not be gone.
BuildFails(observed) ==
  /\ pc = "serving" /\ stage = "registered"
  /\ Finish(turn, "Failed")
  /\ IF observed
     THEN /\ stage' = "refused"
          /\ UNCHANGED <<turn, live, scope>>
     ELSE /\ turn' = None /\ stage' = "idle"
          /\ live' = live \cup {turn} /\ scope' = scope \cup {turn}
  /\ UNCHANGED <<evidence, files, pc, mode, bound>>

\* The agent bundle exists and its root terminals are adopted by the session.
Build ==
  /\ pc = "serving" /\ stage = "registered"
  /\ live' = live \cup {turn} /\ scope' = scope \cup {turn}
  /\ resource' = IF turn \in Terminals
                 THEN [resource EXCEPT ![turn] = "owned"] ELSE resource
  /\ stage' = "built"
  /\ UNCHANGED <<journal, obligation, retained, receipts, assignment, locally,
                 files, pc, mode, turn, bound>>

-----------------------------------------------------------------------------
(* Execution.                                                              *)

\* The grace period after a cancellation may drop the execution while one of
\* its journal writes is still queued; that write can commit afterwards.
Writing == pc = "serving" /\ stage \in {"built", "executing", "abandoned"}
AfterWrite(next) == IF stage = "abandoned" THEN "ended" ELSE next

MarkRunning ==
  /\ Writing
  /\ state[turn] = "Accepted"
  /\ turn \notin intents
  /\ state' = [state EXCEPT ![turn] = "Running"]
  /\ latest' = turn
  /\ stage' = AfterWrite("executing")
  /\ UNCHANGED <<accepted, history, intents,
                 evidence, files, pc, mode, turn, world>>

\* Mutation: an earlier acceptance survives a later checkpoint.
AcceptanceKept == accepted

\* Canonical text is provisional again after every checkpoint.
AcceptanceReset == [accepted EXCEPT ![turn] = FALSE]

\* checkpoint_reconciled: the canonical history only grows.
Checkpoint(h) ==
  /\ Writing
  /\ state[turn] = "Running"
  /\ Len(h) <= MaxMessages
  /\ history' = h
  /\ accepted' = AcceptanceReset
  /\ latest' = turn
  /\ stage' = AfterWrite("executing")
  /\ UNCHANGED <<state, intents, evidence, files, pc, mode, turn, world>>

\* The agent appends a response only when every earlier call has its result,
\* and runs the calls of a response one after the other.
CheckpointResponse(calls) ==
  /\ ~HasPendingTools(history)
  /\ Checkpoint(Extend(history, turn, "assistant", calls, {}))
CheckpointResult(k) ==
  /\ k \in Unresolved(history)
  /\ Checkpoint(Extend(history, turn, "tool", {}, {k}))
CheckpointUsage == Checkpoint(history)

Answered(h) ==
  /\ Len(h) > 0
  /\ h[Len(h)].role = "assistant" /\ h[Len(h)].calls = {}

AcceptCheckpoint ==
  /\ Writing
  /\ state[turn] = "Running"
  /\ turn \notin intents
  /\ Answered(history) /\ ~HasPendingTools(history)
  /\ ~accepted[turn]
  /\ accepted' = [accepted EXCEPT ![turn] = TRUE]
  /\ latest' = turn
  /\ stage' = AfterWrite("executing")
  /\ UNCHANGED <<state, history, intents, evidence, files,
                 pc, mode, turn, world>>

\* A participant assignment is journalled before it is offered to its vessel.
RecordAssignment ==
  /\ pc = "serving" /\ stage = "executing"
  /\ state[turn] = "Running"
  /\ turn \in Delegating /\ assignment[turn] = "none"
  /\ assignment' = [assignment EXCEPT ![turn] = "pending"]
  /\ UNCHANGED <<journal, obligation, retained, receipts, resource, locally,
                 files, process, world>>

\* The agent loop returned and persist_terminal committed; "Completed" is
\* asked for only after the acceptance hook succeeded.
ExecutionEnds(s) ==
  /\ Writing
  /\ s = "Completed" => accepted[turn]
  /\ Finish(turn, s)
  /\ stage' = "ended"
  /\ UNCHANGED <<evidence, files, pc, mode, turn, world>>

\* The grace period elapsed, or the terminal write failed.
ExecutionAbandoned ==
  /\ pc = "serving" /\ stage \in {"built", "executing"}
  /\ stage' = "abandoned"
  /\ UNCHANGED <<journal, evidence, files, pc, mode, turn, world>>

-----------------------------------------------------------------------------
(* Cleanup by the live owner.                                              *)

\* Every component of the cleanup handle reported its teardown.
ObserveTeardown ==
  /\ pc = "serving" /\ stage \in {"abandoned", "ended"}
  /\ live' = live \ {turn} /\ scope' = scope \ {turn}
  /\ resource' = [resource EXCEPT ![turn] = IF @ = "owned" THEN "observed" ELSE @]
  /\ stage' = "observed"
  /\ UNCHANGED <<journal, obligation, retained, receipts, assignment, locally,
                 files, pc, mode, turn, bound>>

\* finish_cleanup first settles a run whose terminal state was never written.
FinishUnfinalized ==
  /\ pc = "serving" /\ stage = "observed"
  /\ Finish(turn, "Interrupted")
  /\ UNCHANGED <<evidence, files, process, world>>

ConfirmCleanup ==
  /\ pc = "serving" /\ stage = "observed"
  /\ ConfirmRow(turn, "observed")
  /\ turn' = None /\ stage' = "idle"
  /\ UNCHANGED <<journal, resource, locally, files, pc, mode, world>>

\* A later attempt finds what an assignment update already confirmed.
CleanupAlreadyConfirmed ==
  /\ pc = "serving" /\ stage = "observed"
  /\ state[turn] \in Terminal /\ assignment[turn] # "pending"
  /\ CleanupConfirmation(turn) = "observed"
  /\ turn' = None /\ stage' = "idle"
  /\ UNCHANGED <<journal, evidence, files, pc, mode, world>>

\* Participants are unclean: only the local observation is kept.
RetainLocalObservation ==
  /\ pc = "serving" /\ stage = "observed"
  /\ state[turn] \in Terminal /\ assignment[turn] = "pending"
  /\ locally' = locally \cup {turn}
  /\ UNCHANGED <<journal, obligation, retained, receipts, resource, assignment,
                 files, process, world>>

\* update_assignment: the participant reports its own cleanup ...
AssignmentCleaned(c) ==
  /\ pc = "serving"
  /\ assignment[c] = "pending"
  /\ assignment' = [assignment EXCEPT ![c] = "clean"]
  /\ UNCHANGED <<journal, obligation, retained, receipts, resource, locally,
                 files, process, world>>

\* ... and, in a transaction of its own, this or a repeated report confirms
\* a run whose local cleanup was already observed.
ConfirmAfterAssignment(c) ==
  /\ pc = "serving"
  /\ assignment[c] = "clean" /\ c \in locally
  /\ ConfirmRow(c, "observed")
  /\ UNCHANGED <<journal, resource, locally, files, process, world>>

-----------------------------------------------------------------------------
(* Life of the owner process.                                              *)

\* The journal is opened under the execution lock; what the previous process
\* still owned becomes unknown.
Open(m) ==
  /\ pc = "down"
  /\ pc' = "opened" /\ mode' = m
  /\ resource' = [c \in Commands |->
        IF resource[c] = "owned" THEN "cleanup_unknown" ELSE resource[c]]
  /\ UNCHANGED <<journal, obligation, retained, receipts, assignment, locally,
                 turn, stage, bound, live>>

\* Every serving process is a new incarnation with evidence of its own.
Launch(m) ==
  /\ Open(m)
  /\ permit' = "none" /\ proof' = FALSE
  /\ scope' = {}

\* An unbound session restarts only from a clean stop or a finished recovery.
Serve == (permit = "fresh" \/ (~bound /\ permit # "none")) /\ Launch("serve")

\* A root guardian restarts a bound session once the old tree is observed gone.
Restart == bound /\ proof /\ Launch("restart")

\* The recovery command takes the execution lock of a dead owner; for a bound
\* session the supervisor runs it only once the old tree is observed gone.
RecoverOpens ==
  /\ permit # "fresh" /\ (bound => proof)
  /\ Open("recover")
  /\ UNCHANGED <<files, scope>>

\* The process dies, or a startup or recovery step returns an error.
Crash ==
  /\ pc # "down"
  /\ pc' = "down" /\ turn' = None /\ stage' = "idle"
  /\ UNCHANGED <<journal, evidence, files, mode, world>>

\* Shutdown with every obligation observed leaves stopped.json.
Stop ==
  /\ pc = "serving" /\ stage = "idle"
  /\ PendingCleanup = {} /\ PendingResources = {}
  /\ permit' = "stopped"
  /\ pc' = "down"
  /\ UNCHANGED <<journal, evidence, proof, mode, turn, stage, world>>

\* The subreaper outlives its owner, drains that incarnation's descendants
\* and records it.
GuardianDrains ==
  /\ pc = "down" \/ mode = "recover"
  /\ permit # "fresh" /\ ~proof
  /\ proof' = TRUE
  /\ live' = live \ scope /\ scope' = {}
  /\ UNCHANGED <<journal, evidence, permit, process, bound>>

-----------------------------------------------------------------------------
(* Startup and recovery, in the order the code commits its steps.          *)

Goto(next) == pc' = next /\ UNCHANGED <<mode, turn, stage>>

\* The run the dead process left active is settled first.  Only recovery of an
\* unbound session and a root restart go on to use the guardian's evidence.
RecoverInterrupted ==
  /\ pc = "opened"
  /\ Goto(CASE mode = "serve" -> "serving"
            [] mode = "recover" /\ bound -> "attesting"
            [] OTHER -> "proving")
  /\ IF ActiveRuns = {} THEN UNCHANGED journal
     ELSE \E c \in ActiveRuns : Finish(c, "Interrupted")
  /\ UNCHANGED <<evidence, files, world>>

AfterProof == IF mode = "restart" THEN "retaining" ELSE "attesting"

\* Mutation: the guardian's evidence is not consulted.
ProcessTreeAssumedGone == TRUE

\* A root restart was granted on the old incarnation's evidence; recovery reads
\* that of the newest one (guardian::observed).
ProcessTreeGone == mode = "restart" \/ proof

\* recover_process_cleanup: the old process tree is gone, so its root terminals
\* are observed ...
RecoverResources ==
  /\ pc = "proving" /\ ProcessTreeGone
  /\ Goto("settling")
  /\ resource' = [c \in Commands |->
        IF resource[c] = "cleanup_unknown" THEN "observed" ELSE resource[c]]
  /\ UNCHANGED <<journal, obligation, retained, receipts, assignment, locally,
                 files, world>>

\* ... and then the pending obligation, only locally with unclean participants.
RecoverObligation ==
  /\ pc = "settling"
  /\ Goto(AfterProof)
  /\ IF PendingCleanup = {}
     THEN UNCHANGED <<obligation, retained, receipts, assignment, locally>>
     ELSE \E c \in PendingCleanup :
            IF assignment[c] = "pending"
            THEN /\ locally' = locally \cup {c}
                 /\ UNCHANGED <<obligation, retained, receipts, assignment>>
            ELSE ConfirmRow(c, "observed") /\ UNCHANGED locally
  /\ UNCHANGED <<journal, resource, files, world>>

RecoverWithoutProof ==
  /\ pc = "proving" /\ mode = "recover" /\ ~proof
  /\ Goto("attesting")
  /\ UNCHANGED <<journal, evidence, files, world>>

\* The operator vouches for a run named in the recovery command ...
AttestLocalCleanup(c) ==
  /\ pc = "attesting"
  /\ ConfirmRow(c, "operator_attested")
  /\ UNCHANGED <<journal, resource, locally, files, process, world>>

\* ... for root terminals left unknown ...
AttestSessionResource(c) ==
  /\ pc = "attesting"
  /\ resource[c] \in {"cleanup_unknown", "retained_unknown"}
  /\ resource' = [resource EXCEPT ![c] = "operator_attested"]
  /\ UNCHANGED <<journal, obligation, retained, receipts, assignment, locally,
                 files, process, world>>

\* What reconciliation demands of the run's cleanup; only the automatic one
\* accepts a retained row, and only while that row is unconfirmed.
CleanupAllows(c, automatic) ==
  \/ automatic /\ retained[c] = "pending"
  \/ obligation[c] \in {"observed", "operator_attested"}

ReconcileAllowed(c, automatic) ==
  /\ state[c] \in Terminal
  /\ latest = c
  /\ c \notin receipts
  /\ CleanupAllows(c, automatic)
  /\ PendingCleanup = {}
  /\ Unresolved(history) # {}

\* One unknown outcome is appended for every outstanding call.
ReconcileTools(c, automatic) ==
  /\ ReconcileAllowed(c, automatic)
  /\ Len(history) < MaxMessages
  /\ history' = Extend(history, c, "tool", {}, Unresolved(history))
  /\ receipts' = receipts \cup {c}
  /\ UNCHANGED <<state, accepted, latest, intents,
                 obligation, retained, resource, assignment, locally>>

\* ... and may ask for the outcomes of an attested run to be settled.
ReconcileLocalTools(c) ==
  /\ pc = "attesting"
  /\ ReconcileTools(c, FALSE)
  /\ UNCHANGED <<files, process, world>>

AttestationEnds ==
  /\ pc = "attesting"
  /\ Goto("retaining")
  /\ UNCHANGED <<journal, evidence, files, world>>

\* Mutation: pending rows are deleted and not kept.
RetainedRowLost(c) == retained[c]

RetainedRow(c) == IF c \in PendingCleanup THEN "pending" ELSE retained[c]

\* Mutation: resources keep refusing admission after recovery.
ResourceNotRetained(c) == resource[c]

\* Mutation: a state no reader of the table knows.
ResourceMisnamed(c) ==
  IF resource[c] = "cleanup_unknown" THEN "unknown" ELSE resource[c]

RetainedResource(c) ==
  IF resource[c] = "cleanup_unknown" THEN "retained_unknown" ELSE resource[c]

\* What nobody could confirm stops blocking admission and stays on record.
RetainInterruptedCleanup ==
  /\ pc = "retaining"
  /\ ActiveRuns = {}
  /\ Goto("reconciling")
  /\ retained' = [c \in Commands |-> RetainedRow(c)]
  /\ obligation' = [c \in Commands |->
        IF c \in PendingCleanup THEN "none" ELSE obligation[c]]
  /\ resource' = [c \in Commands |-> RetainedResource(c)]
  /\ UNCHANGED <<journal, receipts, assignment, locally, files, world>>

\* Mutation: recovery leaves its evidence with outcomes unsettled.
RecoveryForgetsTools ==
  /\ pc = "reconciling"
  /\ Goto(IF mode = "restart" THEN "serving" ELSE "down")
  /\ permit' = IF mode = "recover" /\ ~bound THEN "recovered" ELSE permit
  /\ UNCHANGED <<journal, evidence, proof, world>>

\* recover_tool_outcomes; a restart then serves, a recovery leaves its evidence.
RecoverToolOutcomes ==
  /\ pc = "reconciling"
  /\ IF HasPendingTools(history)
     THEN latest # None /\ ReconcileTools(latest, TRUE)
     ELSE UNCHANGED <<journal, evidence>>
  /\ Goto(IF mode = "restart" THEN "serving" ELSE "down")
  /\ permit' = IF mode = "recover" /\ ~bound THEN "recovered" ELSE permit
  /\ UNCHANGED <<proof, world>>

-----------------------------------------------------------------------------
ClientNext == \E c \in Commands : RequestCancelLocal(c)

TurnNext ==
  \/ \E c \in Commands : AdmitTurn(c)
  \/ PreparationFails \/ RegisterLocalCleanup \/ SubmissionFails
  \/ BrowserRefuses \/ ConstructionRefused \/ ConfirmRefused
  \/ \E observed \in BOOLEAN : BuildFails(observed)
  \/ Build \/ MarkRunning
  \/ \E calls \in SUBSET Calls : CheckpointResponse(calls)
  \/ \E k \in Calls : CheckpointResult(k)
  \/ CheckpointUsage \/ AcceptCheckpoint \/ RecordAssignment
  \/ \E s \in Outcomes : ExecutionEnds(s)
  \/ ExecutionAbandoned

CleanupNext ==
  \/ ObserveTeardown \/ FinishUnfinalized \/ ConfirmCleanup
  \/ CleanupAlreadyConfirmed \/ RetainLocalObservation
  \/ \E c \in Commands : AssignmentCleaned(c) \/ ConfirmAfterAssignment(c)

OwnerNext == Serve \/ Restart \/ RecoverOpens \/ Crash \/ Stop \/ GuardianDrains

RecoveryNext ==
  \/ RecoverInterrupted \/ RecoverResources \/ RecoverObligation
  \/ RecoverWithoutProof \/ AttestationEnds
  \/ \E c \in Commands : \/ AttestLocalCleanup(c)
                         \/ AttestSessionResource(c)
                         \/ ReconcileLocalTools(c)
  \/ RetainInterruptedCleanup \/ RecoverToolOutcomes

Next == ClientNext \/ TurnNext \/ CleanupNext \/ OwnerNext \/ RecoveryNext

Spec == Init /\ [][Next]_vars

-----------------------------------------------------------------------------
(* Properties.                                                             *)

\* A committed cancellation decides the run: no later model result, failure or
\* completion is recorded over it (finish_classified).
CancelWins ==
  \A c \in intents :
    state[c] \in Terminal => state[c] \in {"Cancelled", "Interrupted"}

BlockOf(c) == {i \in 1..Len(history) : history[i].run = c}
LastOf(c) == CHOOSE i \in BlockOf(c) : \A j \in BlockOf(c) : j <= i

\* A run is recorded Completed only on a final answer it accepted last, with a
\* result for every call it made and no participant left unclean: the accepted
\* proposal is never stale when finish_classified uses it.
CompletedIsResolved ==
  \A c \in Commands : state[c] = "Completed" =>
    /\ history[LastOf(c)].role = "assistant" /\ history[LastOf(c)].calls = {}
    /\ \A i \in BlockOf(c) : \A k \in history[i].calls :
         \E j \in BlockOf(c) : i < j /\ k \in history[j].results
    /\ assignment[c] # "pending"

\* Turns follow one another in the canonical history: no message of a run after
\* the next turn's prompt, and no prompt after an unresolved call, whatever
\* crashes and recoveries lie between (admit_turn, reconcile_tools).
TurnsAreSequential ==
  \A j \in 1..Len(history) : history[j].role = "user" =>
    /\ ~HasPendingTools(SubSeq(history, 1, j - 1))
    /\ \A i \in 1..j - 1 : \A n \in j..Len(history) :
         history[n].run # history[i].run

\* A run that may have local effects always has exactly one cleanup row, in the
\* obligations or in the retained table (register_local_cleanup before any
\* construction, retain_interrupted_cleanup moves and never drops).
EffectsAreAccounted ==
  /\ \A c \in live : CleanupConfirmation(c) # "none"
  /\ \A c \in Commands : state[c] = "Running" => CleanupConfirmation(c) # "none"
  /\ \A c \in Commands : obligation[c] = "none" \/ retained[c] = "none"

\* Only an operator's word may be wrong: whatever the journal calls observed,
\* directly, through a participant report or through a guardian's evidence of a
\* later incarnation, really is gone.
ObservedIsGone ==
  \A c \in live :
    /\ CleanupConfirmation(c) # "observed"
    /\ c \notin locally
    /\ resource[c] # "observed"

\* A turn is built beside effects of an earlier run only if those were retained
\* as unknown by a fenced recovery, or attested by the operator.
OverlapIsDeclared ==
  stage \in {"built", "executing", "abandoned", "ended"} =>
    \A c \in live \ {turn} :
      \/ obligation[c] = "operator_attested"
      \/ retained[c] \in {"pending", "operator_attested"}

\* Evidence that permits a restart is true of the journal it was written for:
\* nothing that refuses admission is left (server/recovery.rs, stopped.json).
RestartableIsAdmissible ==
  pc = "down" /\ permit \in {"stopped", "recovered"} =>
    /\ PendingCleanup = {}
    /\ PendingResources = {}
    /\ permit = "recovered" => ActiveRuns = {} /\ ~HasPendingTools(history)

\* What the journal tells of the conversation is sound: completions, the order of
\* turns, and the evidence that lets a next turn start (finish_classified,
\* admit_turn, recover_tool_outcomes).
HistoryIsSound ==
  CompletedIsResolved /\ TurnsAreSequential /\ RestartableIsAdmissible

\* What the journal tells of local effects is sound: observed effects are gone,
\* overlaps are declared, and restart evidence is true (confirm_local_cleanup,
\* admit_turn, recover_process_cleanup).
EffectsAreKnown ==
  ObservedIsGone /\ OverlapIsDeclared /\ RestartableIsAdmissible

\* Cleanup evidence is immutable: a confirmation keeps its kind and a pending
\* row is never lost, in whichever table it is.
EvidenceIsImmutable ==
  [][\A c \in Commands :
       /\ CleanupConfirmation(c) \in {"observed", "operator_attested"} =>
            CleanupConfirmation(c)' = CleanupConfirmation(c)
       /\ CleanupConfirmation(c) = "pending" =>
            CleanupConfirmation(c)' # "none"]_vars

\* A terminal outcome is final and the accepted history is never rewritten; the
\* only message a terminal run still gets is its one reconciliation.
TerminalIsFinal ==
  [][/\ \A c \in Commands : state[c] \in Terminal => state'[c] = state[c]
     /\ Len(history') >= Len(history)
     /\ SubSeq(history', 1, Len(history)) = history
     /\ \A i \in Len(history) + 1..Len(history') :
          state[history'[i].run] \in Terminal =>
            /\ history'[i].run \notin receipts
            /\ history'[i].run \in receipts'
            /\ ~HasPendingTools(history')]_vars

\* runtime-contract.md: fenced recovery "permits the next explicit turn in the
\* same conversation".  A recovery that reached its last step can complete it.
RecoveryCanFinish ==
  pc = "reconciling" /\ HasPendingTools(history) =>
    latest # None /\ ReconcileAllowed(latest, TRUE)

\* runtime-contract.md: "Do not lose ownership just because a run has reached
\* terminal state."  A live owner still holds every obligation it registered.
CleanupKeepsAnOwner ==
  \A c \in PendingCleanup :
    pc = "serving" /\ state[c] \in Terminal => turn = c
=============================================================================
