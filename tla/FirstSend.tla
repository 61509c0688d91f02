----------------------------- MODULE FirstSend -----------------------------
(***************************************************************************)
(* How Helm delivers the first message of a new voyage, and the messages   *)
(* after it, over an unreliable connection.  Helm keeps a record of the    *)
(* creation command and of the first turn, writes each transition before   *)
(* it sends anything, and after a lost answer only asks what became of the *)
(* identity it saved.  Vessel can fence a creation that never reached it;  *)
(* the runtime's command ledger can close a turn that never reached it.    *)
(*                                                                         *)
(* Requests wait in `net`, may be handled long after Helm stopped waiting, *)
(* and may be lost; saves may fail; Helm, its connection and Vessel may be *)
(* restarted at any step.  The runtime's ledger is abstracted to the fate  *)
(* of each turn (see CommandLedger); texts, images and accounts are        *)
(* abstracted to the identities that carry them.                           *)
(***************************************************************************)
EXTENDS Naturals, FiniteSets

CONSTANTS
    MaxStarts,    \* creation commands one draft may allocate
    MaxTurns,     \* turn commands; 1 is the draft's first turn
    MaxFaults     \* lost requests, failed saves, crashes and disconnections

FirstSendAssumption ==
    MaxStarts \in Nat \ {0} /\ MaxTurns \in Nat \ {0} /\ MaxFaults \in Nat

VARIABLES
    mem,      \* the draft in Helm's memory
    disk,     \* the draft's execution record in helm-first-send-receipts
    job,      \* the draft's first-send task
    pending,  \* the view's pending command, 0 when there is none
    file,     \* the pending command in helm-command-receipts
    check,    \* the view's dispatch task
    net,      \* requests sent and not handled
    vessel,   \* Vessel's durable records and its handlers
    runtime,  \* the voyage's process
    fate,     \* the runtime ledger's answer for each turn
    ghost,    \* what was sent, refused, given up and reported: not in the code
    faults

vars == <<mem, disk, job, pending, file, check, net, vessel, runtime, fate,
          ghost, faults>>

Starts == 1..MaxStarts
Turns == 1..MaxTurns
FirstTurn == 1

Outcomes == {"none", "admitted", "rejected"}
Saved == [start : 0..MaxStarts, startTried : BOOLEAN, process : BOOLEAN,
          tried : BOOLEAN, receipt : Outcomes, finished : BOOLEAN]
Blank == [start |-> 0, startTried |-> FALSE, process |-> FALSE,
          tried |-> FALSE, receipt |-> "none", finished |-> FALSE]

Ops == {"start", "resolve_start", "submit", "receipt", "resolve"}
Message == [op : Ops, id : Nat, by : {"draft", "view"}]
Answers == {"none", "created", "refused", "not_admitted", "unknown",
            "admitted", "rejected"}

\* A task asks one thing at a time; "ready" has nothing outstanding, "done"
\* has queued its Update for the interface loop.
Phases == {"idle", "ready", "done"} \cup Ops
IdleJob == [at |-> "idle", observe |-> FALSE, saved |-> Blank, got |-> "none"]
IdleCheck == [at |-> "idle", got |-> "none"]

TypeOK ==
    /\ mem \in [here : BOOLEAN, saved : Saved, busy : BOOLEAN]
    /\ disk \in Saved
    /\ job \in [at : Phases, observe : BOOLEAN, saved : Saved, got : Answers]
    /\ pending \in {0} \cup Turns /\ file \in {0} \cup Turns
    /\ check \in [at : Phases, got : Answers]
    /\ net \subseteq Message
    /\ vessel \in [intent : SUBSET Starts, commands : SUBSET Starts,
                   notAdmitted : SUBSET Starts, registration : 0..MaxStarts,
                   receipts : SUBSET Starts, restarted : BOOLEAN,
                   starting : [Starts -> {"none", "admitted", "launched"}],
                   resolving : 0..MaxStarts]
    /\ runtime \in {"none", "live", "dead"}
    /\ fate \in [Turns -> {"open", "admitted", "closed"}]
    /\ ghost \in [sent : [{"start", "submit"} -> [1..(MaxStarts + MaxTurns) -> Nat]],
                  refused : [{"start", "submit"} -> [1..(MaxStarts + MaxTurns) -> Nat]],
                  reset : SUBSET Starts, given : SUBSET Starts,
                  told : [Turns -> Outcomes],
                  starts : 0..MaxStarts, turns : Turns]
    /\ faults \in 0..MaxFaults

NoCounts == [op \in {"start", "submit"} |-> [c \in 1..(MaxStarts + MaxTurns) |-> 0]]

Init ==
    /\ mem = [here |-> TRUE, saved |-> Blank, busy |-> FALSE]
    /\ disk = Blank
    /\ job = IdleJob
    /\ pending = 0 /\ file = 0
    /\ check = IdleCheck
    /\ net = {}
    /\ vessel = [intent |-> {}, commands |-> {}, notAdmitted |-> {},
                 registration |-> 0, receipts |-> {}, restarted |-> FALSE,
                 starting |-> [s \in Starts |-> "none"], resolving |-> 0]
    /\ runtime = "none"
    /\ fate = [t \in Turns |-> "open"]
    /\ ghost = [sent |-> NoCounts, refused |-> NoCounts, reset |-> {}, given |-> {},
                told |-> [t \in Turns |-> "none"], starts |-> 0, turns |-> FirstTurn]
    /\ faults = 0

helmVars == <<mem, disk, job, pending, file, check>>
hostVars == <<vessel, runtime, fate>>

Fault == faults < MaxFaults /\ faults' = faults + 1

---------------------------------------------------------------------------
\* Helm's files

\* journal::save, which replaces the record or leaves it alone.
Save(saved, ok) ==
    IF ok THEN disk' = saved /\ UNCHANGED faults ELSE Fault /\ UNCHANGED disk

\* receipts::save of the view's pending command.
SavePending(id, ok) ==
    IF ok THEN file' = id /\ UNCHANGED faults ELSE Fault /\ UNCHANGED file

\* read_saved: a finished record and one without a creation are not read.
Recoverable(saved) == saved.start # 0 /\ ~saved.finished

---------------------------------------------------------------------------
\* The first-send task

\* drive_draft: the envelope is saved before the task that sends it exists.
DriveDraft(observe, ok) ==
    /\ mem.here /\ ~mem.busy
    /\ mem.saved.start = 0 => ~observe /\ ghost.starts < MaxStarts
    /\ LET fresh == mem.saved.start = 0
           saved == IF fresh THEN [mem.saved EXCEPT !.start = ghost.starts + 1]
                    ELSE mem.saved
       IN /\ ghost' = IF fresh THEN [ghost EXCEPT !.starts = @ + 1] ELSE ghost
          /\ Save(saved, ok)
          /\ mem' = [mem EXCEPT !.saved = saved, !.busy = ok]
          /\ IF ok THEN job' = [at |-> "ready", observe |-> observe,
                                saved |-> saved, got |-> "none"]
             ELSE UNCHANGED job
    /\ UNCHANGED <<pending, file, check, net, hostVars>>

Send(message, mutation) ==
    /\ net' = net \cup {message}
    /\ ghost' = IF mutation
                THEN [ghost EXCEPT !.sent[message.op][message.id] = @ + 1,
                          !.reset = IF message.op = "start" THEN @ \ {message.id} ELSE @]
                ELSE ghost

Done(saved) == job' = [job EXCEPT !.at = "done", !.saved = saved]

\* A receipt is retained already: there is nothing left to ask.
JobHasReceipt ==
    /\ job.at = "ready" /\ job.saved.receipt # "none"
    /\ Done(job.saved)
    /\ UNCHANGED <<mem, disk, pending, file, check, net, hostVars, ghost, faults>>

\* An earlier Start may have been admitted: ask, and send nothing else.
JobResolvesStart ==
    /\ job.at = "ready" /\ job.saved.receipt = "none"
    /\ ~job.saved.process /\ job.saved.startTried
    /\ Send([op |-> "resolve_start", id |-> job.saved.start, by |-> "draft"], FALSE)
    /\ job' = [job EXCEPT !.at = "resolve_start"]
    /\ UNCHANGED <<mem, disk, pending, file, check, hostVars, faults>>

\* reset_creation: the envelope is filed as finished, then the draft in the
\* task's hands becomes editable.
ResetCreation(ok) ==
    /\ Save([job.saved EXCEPT !.finished = TRUE], ok)
    /\ Done(IF ok THEN [job.saved EXCEPT !.start = 0, !.startTried = FALSE]
            ELSE job.saved)

\* validate_live fails before any Start was attempted.
JobFindsHostUnready(ok) ==
    /\ job.at = "ready" /\ job.saved.receipt = "none" /\ ~job.observe
    /\ ~job.saved.process /\ ~job.saved.startTried
    /\ ResetCreation(ok)
    /\ ghost' = IF ok THEN [ghost EXCEPT !.reset = @ \cup {job.saved.start}] ELSE ghost
    /\ UNCHANGED <<mem, pending, file, check, net, hostVars>>

\* Observation never sends what was not attempted.
JobOnlyObserves ==
    /\ job.at = "ready" /\ job.saved.receipt = "none" /\ job.observe
    /\ IF job.saved.process THEN ~job.saved.tried ELSE ~job.saved.startTried
    /\ Done(job.saved)
    /\ UNCHANGED <<mem, disk, pending, file, check, net, hostVars, ghost, faults>>

\* Mutation: the attempt is recorded after the request has gone out.
JobSendsStart_Unsaved(ok) ==
    /\ ok
    /\ job.at = "ready" /\ job.saved.receipt = "none" /\ ~job.observe
    /\ ~job.saved.process /\ ~job.saved.startTried
    /\ Send([op |-> "start", id |-> job.saved.start, by |-> "draft"], TRUE)
    /\ job' = [job EXCEPT !.at = "start", !.saved.startTried = TRUE]
    /\ UNCHANGED <<mem, disk, faults, pending, file, check, hostVars>>

\* start_attempted is saved before the request leaves.
JobSendsStart(ok) ==
    /\ job.at = "ready" /\ job.saved.receipt = "none" /\ ~job.observe
    /\ ~job.saved.process /\ ~job.saved.startTried
    /\ LET saved == [job.saved EXCEPT !.startTried = TRUE]
       IN /\ Save(saved, ok)
          /\ IF ok
             THEN /\ Send([op |-> "start", id |-> saved.start, by |-> "draft"], TRUE)
                  /\ job' = [job EXCEPT !.at = "start", !.saved = saved]
             ELSE Done(saved) /\ UNCHANGED <<net, ghost>>
    /\ UNCHANGED <<mem, pending, file, check, hostVars>>

\* The answer to Start or ResolveStart.
JobHearsCreation(ok) ==
    /\ job.at \in {"start", "resolve_start"} /\ job.got # "none"
    /\ CASE job.got = "created" ->
              LET saved == [job.saved EXCEPT !.process = TRUE]
              IN /\ Save(saved, ok)
                 /\ job' = [job EXCEPT !.saved = saved, !.got = "none",
                                       !.at = IF ok THEN "ready" ELSE "done"]
                 /\ UNCHANGED ghost
         [] job.got \in {"refused", "not_admitted"} ->
              /\ Save([job.saved EXCEPT !.finished = TRUE], ok)
              /\ job' = [job EXCEPT !.at = "done", !.got = "none",
                            !.saved = IF ok THEN [@ EXCEPT !.start = 0, !.startTried = FALSE]
                                      ELSE @]
              /\ ghost' = [ghost EXCEPT
                    !.refused["start"][job.saved.start] = IF job.got = "refused" THEN @ + 1 ELSE @,
                    !.reset = IF ok THEN @ \cup {job.saved.start} ELSE @]
         [] OTHER ->
              /\ ok /\ UNCHANGED <<disk, faults, ghost>>
              /\ job' = [job EXCEPT !.at = "done", !.got = "none"]
    /\ UNCHANGED <<mem, pending, file, check, net, hostVars>>

\* attempted and the frozen submission are saved before it leaves.  Reading the
\* revision it is bound to may fail, which ends the task (JobTimesOut).
JobSendsTurn(ok) ==
    /\ job.at = "ready" /\ job.saved.receipt = "none" /\ ~job.observe
    /\ job.saved.process /\ ~job.saved.tried
    /\ LET saved == [job.saved EXCEPT !.tried = TRUE]
       IN /\ Save(saved, ok)
          /\ IF ok
             THEN /\ Send([op |-> "submit", id |-> FirstTurn, by |-> "draft"], TRUE)
                  /\ job' = [job EXCEPT !.at = "submit", !.saved = saved]
             ELSE Done(saved) /\ UNCHANGED <<net, ghost>>
    /\ UNCHANGED <<mem, pending, file, check, hostVars>>

\* An attempted turn is only ever asked about: Receipt first, then Resolve.
JobAsksReceipt ==
    /\ job.at = "ready" /\ job.saved.receipt = "none"
    /\ job.saved.process /\ job.saved.tried
    /\ Send([op |-> "receipt", id |-> FirstTurn, by |-> "draft"], FALSE)
    /\ job' = [job EXCEPT !.at = "receipt"]
    /\ UNCHANGED <<mem, disk, pending, file, check, hostVars, faults>>

JobAsksResolve ==
    /\ job.at = "receipt" /\ job.got = "unknown"
    /\ Send([op |-> "resolve", id |-> FirstTurn, by |-> "draft"], FALSE)
    /\ job' = [job EXCEPT !.at = "resolve", !.got = "none"]
    /\ UNCHANGED <<mem, disk, pending, file, check, hostVars, faults>>

Settled(got) == IF got = "admitted" THEN "admitted" ELSE "rejected"
Definite == {"admitted", "rejected", "refused", "not_admitted"}

\* retain_receipt.  A refused Submit was never admitted; a refused question
\* is no answer and never reaches `got`.
JobRetainsReceipt(ok) ==
    /\ job.at \in {"submit", "receipt", "resolve"} /\ job.got \in Definite
    /\ LET saved == [job.saved EXCEPT !.receipt = Settled(job.got)]
       IN /\ Save(saved, ok)
          /\ job' = [job EXCEPT !.at = "done", !.saved = saved, !.got = "none"]
          /\ ghost' = [ghost EXCEPT !.told[FirstTurn] = saved.receipt]
    /\ UNCHANGED <<mem, pending, file, check, net, hostVars>>

\* A request still on its way to someone who would handle it: giving up on it
\* is a fault, and giving up on any other is only a matter of time.
Outstanding(message) ==
    /\ \/ message \in net
       \/ message.op = "start" /\ vessel.starting[message.id] # "none"
    /\ message.op \in {"submit", "receipt", "resolve"} => runtime = "live"

Slow(message) == IF Outstanding(message) THEN Fault ELSE UNCHANGED faults

JobRequest ==
    [op |-> job.at, by |-> "draft",
     id |-> IF job.at \in {"start", "resolve_start"} THEN job.saved.start ELSE FirstTurn]

\* An unknown answer, or none in time: the task ends and nothing is changed.
JobTimesOut ==
    /\ \/ job.at \in Ops /\ job.got = "none" /\ Slow(JobRequest)
       \/ job.at \in {"submit", "resolve"} /\ job.got = "unknown" /\ UNCHANGED faults
    /\ job' = [job EXCEPT !.at = "done", !.got = "none"]
    /\ UNCHANGED <<mem, disk, pending, file, check, net, hostVars, ghost>>

\* The host's identity or the revision to bind the turn to cannot be read.
JobCannotAsk ==
    /\ job.at = "ready" /\ job.saved.receipt = "none"
    /\ IF job.saved.process /\ ~job.saved.tried /\ runtime # "live"
       THEN UNCHANGED faults ELSE Fault
    /\ Done(job.saved)
    /\ UNCHANGED <<mem, disk, pending, file, check, net, hostVars, ghost>>

\* What Update::Command does with a definite answer for the pending command.
Clear(id) == IF pending = id THEN 0 ELSE pending

(* first_send_update.  With a receipt the view's file first gets the pending  *)
(* command, then the draft's record is finished, then the view takes over and *)
(* applies the receipt.  `fails` names the save that fails, if one does.      *)
FirstSendUpdate(fails) ==
    /\ job.at = "done"
    /\ job' = IdleJob
    /\ IF job.saved.receipt = "none"
       THEN /\ fails = "none"
            /\ mem' = [mem EXCEPT !.saved = job.saved, !.busy = FALSE]
            /\ ghost' = IF job.saved.start = 0
                        THEN [ghost EXCEPT !.given = @ \cup {mem.saved.start}] ELSE ghost
            /\ UNCHANGED <<disk, pending, file, faults>>
       ELSE LET handoff == IF pending = 0 THEN FirstTurn ELSE pending
                taken == IF handoff = FirstTurn THEN 0 ELSE handoff
            IN /\ IF fails = "none" THEN UNCHANGED faults ELSE Fault
               /\ disk' = IF fails \in {"view", "record"} THEN disk
                          ELSE [job.saved EXCEPT !.finished = TRUE]
               /\ file' = CASE fails = "view" -> file
                            [] fails \in {"record", "receipt"} -> handoff
                            [] OTHER -> taken
               /\ IF fails \in {"view", "record"}
                  THEN /\ mem' = [mem EXCEPT !.saved = job.saved, !.busy = FALSE]
                       /\ UNCHANGED pending
                  ELSE /\ mem' = [here |-> FALSE, saved |-> Blank, busy |-> FALSE]
                       /\ pending' = taken
               /\ UNCHANGED ghost
    /\ UNCHANGED <<check, net, hostVars>>

---------------------------------------------------------------------------
\* Later messages, sent from the voyage's view

\* Mutation: the command is dispatched although its identity was not saved.
ViewSends_Unsaved(ok) ==
    /\ ~mem.here
    /\ vessel.registration # 0 \/ vessel.restarted
    /\ pending = 0 /\ check.at = "idle" /\ ghost.turns < MaxTurns
    /\ SavePending(ghost.turns + 1, ok)
    /\ pending' = ghost.turns + 1
    /\ net' = net \cup {[op |-> "submit", id |-> ghost.turns + 1, by |-> "view"]}
    /\ ghost' = [ghost EXCEPT !.sent["submit"][ghost.turns + 1] = @ + 1, !.turns = @ + 1]
    /\ check' = [at |-> "submit", got |-> "none"]
    /\ UNCHANGED <<mem, disk, job, hostVars>>

\* submit: the pending command is saved before it is dispatched, and nothing
\* may be sent while one is pending.  A voyage has no view while its first-send
\* draft exists: Update::Catalogue skips it.
ViewSends(ok) ==
    /\ ~mem.here
    /\ vessel.registration # 0 \/ vessel.restarted
    /\ pending = 0 /\ check.at = "idle" /\ ghost.turns < MaxTurns
    /\ SavePending(ghost.turns + 1, ok)
    /\ IF ok
       THEN /\ pending' = ghost.turns + 1
            /\ net' = net \cup {[op |-> "submit", id |-> ghost.turns + 1, by |-> "view"]}
            /\ ghost' = [ghost EXCEPT !.sent["submit"][ghost.turns + 1] = @ + 1,
                                      !.turns = @ + 1]
            /\ check' = [at |-> "submit", got |-> "none"]
       ELSE UNCHANGED <<pending, net, ghost, check>>
    /\ UNCHANGED <<mem, disk, job, hostVars>>

\* reconcile_pending and /receipt: Resolve only, and never while the draft's
\* record still owns recovery.
ViewChecks ==
    /\ ~mem.here
    /\ pending # 0 /\ check.at = "idle"
    /\ net' = net \cup {[op |-> "resolve", id |-> pending, by |-> "view"]}
    /\ check' = [at |-> "resolve", got |-> "none"]
    /\ UNCHANGED <<mem, disk, job, pending, file, hostVars, ghost, faults>>

ViewRequest == [op |-> check.at, id |-> pending, by |-> "view"]

\* Update::Command: only a definite answer clears the pending command.
ViewUpdate(ok) ==
    /\ check.at # "idle"
    /\ check' = IdleCheck
    /\ IF check.got \in Definite /\ pending # 0
       THEN /\ pending' = 0
            /\ SavePending(0, ok)
            /\ ghost' = [ghost EXCEPT !.told[pending] = Settled(check.got)]
       ELSE /\ ok /\ UNCHANGED <<pending, file, ghost>>
            /\ IF check.got = "none"
               THEN Slow(ViewRequest)
               ELSE UNCHANGED faults
    /\ UNCHANGED <<mem, disk, job, net, hostVars>>

---------------------------------------------------------------------------
\* Helm's faults

\* Helm is killed and opened again: recover and receipts::load.
HelmRestarts ==
    /\ Fault
    /\ mem' = [here |-> Recoverable(disk), busy |-> FALSE,
               saved |-> IF Recoverable(disk) THEN disk ELSE Blank]
    /\ job' = IdleJob /\ check' = IdleCheck
    /\ pending' = file
    /\ UNCHANGED <<disk, file, net, hostVars, ghost>>

\* Mutation: the draft in memory is kept as it was before the task ran.
Disconnect_NoReload ==
    /\ Fault
    /\ job' = IdleJob /\ check' = IdleCheck
    /\ mem' = [mem EXCEPT !.busy = FALSE]
    /\ UNCHANGED <<disk, pending, file, net, hostVars, ghost>>

\* disconnect_connection aborts the tasks; cancel_new_drafts and
\* reactivate_drafts read back what they last wrote.
Disconnect ==
    /\ Fault
    /\ job' = IdleJob /\ check' = IdleCheck
    /\ mem' = [mem EXCEPT !.busy = FALSE,
                  !.saved = IF mem.here /\ Recoverable(disk) THEN disk ELSE @]
    /\ UNCHANGED <<disk, pending, file, net, hostVars, ghost>>

LoseRequest ==
    /\ Fault
    /\ \E message \in net : net' = net \ {message}
    /\ UNCHANGED <<helmVars, hostVars, ghost>>

---------------------------------------------------------------------------
\* Vessel and the runtime

\* The answer reaches the task only if it still waits for it.
Answer(message, got) ==
    /\ net' = net \ {message}
    /\ job' = IF message = JobRequest /\ job.got = "none"
              THEN [job EXCEPT !.got = got] ELSE job
    /\ check' = IF message = ViewRequest /\ check.got = "none"
                THEN [check EXCEPT !.got = got] ELSE check

\* The registration lock is free: no resolution is between two of its saves.
Unlocked == vessel.resolving = 0

\* start_initialized refuses before anything is recorded: a fenced command, a
\* session another command created, or an account or limit that does not allow it.
RefuseStart ==
    /\ Unlocked
    /\ \E message \in net :
          /\ message.op = "start"
          /\ \/ message.id \in vessel.intent
             \/ message.id \notin vessel.commands
          /\ Answer(message, "refused")
    /\ UNCHANGED <<mem, disk, pending, file, vessel, runtime, fate, ghost, faults>>

\* Mutation: only the command's own record is looked at, not the fence.
AdmitStart_NoFence ==
    /\ Unlocked
    /\ \E message \in net :
          /\ message.op = "start"
          /\ message.id \notin vessel.commands
          /\ vessel.registration = 0 /\ ~vessel.restarted
          /\ vessel' = [vessel EXCEPT !.commands = @ \cup {message.id},
                           !.registration = message.id,
                           !.starting[message.id] = "admitted"]
          /\ net' = net \ {message}
    /\ UNCHANGED <<helmVars, runtime, fate, ghost, faults>>

\* database::admit saves the command and the registration in one transaction.
\* The request is answered when the runtime is ready (SettleStart).
AdmitStart ==
    /\ Unlocked
    /\ \E message \in net :
          /\ message.op = "start"
          /\ message.id \notin vessel.intent \cup vessel.commands
          /\ vessel.registration = 0 /\ ~vessel.restarted
          /\ vessel' = [vessel EXCEPT !.commands = @ \cup {message.id},
                           !.registration = message.id,
                           !.starting[message.id] = "admitted"]
          /\ net' = net \ {message}
    /\ UNCHANGED <<helmVars, runtime, fate, ghost, faults>>

LaunchStart(s) ==
    /\ vessel.starting[s] = "admitted"
    /\ vessel' = [vessel EXCEPT !.starting[s] = "launched"]
    /\ runtime' = "live"
    /\ UNCHANGED <<helmVars, net, fate, ghost, faults>>

AnswerStart(s, got) ==
    job' = IF job.at = "start" /\ job.saved.start = s /\ job.got = "none"
           THEN [job EXCEPT !.got = got] ELSE job

\* The runtime answered a health probe: settle_creation mints the receipt.
SettleStart(s) ==
    /\ vessel.starting[s] = "launched" /\ runtime = "live"
    /\ vessel.registration = s
    /\ vessel' = [vessel EXCEPT !.starting[s] = "none", !.receipts = @ \cup {s}]
    /\ AnswerStart(s, "created")
    /\ UNCHANGED <<mem, disk, pending, file, check, net, runtime, fate, ghost, faults>>

\* Ten seconds passed, or the process could not be spawned.
StartUnconfirmed(s) ==
    /\ vessel.starting[s] # "none"
    /\ vessel' = [vessel EXCEPT !.starting[s] = "none"]
    /\ AnswerStart(s, "unknown")
    /\ UNCHANGED <<mem, disk, pending, file, check, net, runtime, fate, ghost, faults>>

\* settle_observed_start: the catalogue's observer finds the owner alive.
ObserveOwner ==
    /\ vessel.registration # 0 /\ runtime = "live"
    /\ vessel' = [vessel EXCEPT !.receipts = @ \cup {vessel.registration}]
    /\ UNCHANGED <<helmVars, net, runtime, fate, ghost, faults>>

\* Mutation: only a minted receipt proves a creation.
ResolveRecorded_ReceiptOnly ==
    /\ Unlocked
    /\ \E message \in net :
          /\ message.op = "resolve_start"
          /\ message.id \in vessel.commands \ vessel.intent
          /\ Answer(message, IF message.id \in vessel.receipts THEN "created" ELSE "unknown")
    /\ UNCHANGED <<mem, disk, pending, file, vessel, runtime, fate, ghost, faults>>

\* resolve_start_original answers from what is recorded ...
ResolveRecorded ==
    /\ Unlocked
    /\ \E message \in net :
          /\ message.op = "resolve_start"
          /\ message.id \in vessel.commands \ vessel.intent
          /\ Answer(message, IF message.id \in vessel.receipts
                                \/ message.id = vessel.registration
                             THEN "created" ELSE "unknown")
          /\ vessel' = IF message.id = vessel.registration /\ runtime = "live"
                       THEN [vessel EXCEPT !.receipts = @ \cup {message.id}] ELSE vessel
    /\ UNCHANGED <<mem, disk, pending, file, runtime, fate, ghost, faults>>

\* ... or fences the command: the intent first, then the command's record, then
\* the outcome, each its own save, under the registration lock.
FenceIntent ==
    /\ Unlocked
    /\ \E message \in net :
          /\ message.op = "resolve_start"
          /\ message.id \in vessel.intent \/ message.id \notin vessel.commands
          /\ vessel' = [vessel EXCEPT !.intent = @ \cup {message.id},
                                      !.resolving = message.id]
    /\ UNCHANGED <<helmVars, net, runtime, fate, ghost, faults>>

FenceCommand ==
    /\ vessel.resolving # 0 /\ vessel.resolving \notin vessel.commands
    /\ vessel' = [vessel EXCEPT !.commands = @ \cup {vessel.resolving}]
    /\ UNCHANGED <<helmVars, net, runtime, fate, ghost, faults>>

FenceOutcome ==
    /\ vessel.resolving \in vessel.commands
    /\ vessel' = [vessel EXCEPT !.notAdmitted = @ \cup {vessel.resolving},
                                !.resolving = 0]
    /\ Answer([op |-> "resolve_start", id |-> vessel.resolving, by |-> "draft"],
              "not_admitted")
    /\ UNCHANGED <<mem, disk, pending, file, runtime, fate, ghost, faults>>

VesselRestarts ==
    /\ Fault
    /\ vessel' = [vessel EXCEPT !.starting = [s \in Starts |-> "none"], !.resolving = 0]
    /\ UNCHANGED <<helmVars, net, runtime, fate, ghost>>

RuntimeDies ==
    /\ Fault
    /\ runtime = "live" /\ runtime' = "dead"
    /\ UNCHANGED <<helmVars, net, vessel, fate, ghost>>

\* restart: the new registration carries the restart's command and restart_from,
\* so the creation can no longer be proved from it.
RestartOwner ==
    /\ vessel.registration # 0 \/ vessel.restarted
    /\ runtime # "live"
    /\ \A s \in Starts : vessel.starting[s] = "none"
    /\ vessel' = [vessel EXCEPT !.registration = 0, !.restarted = TRUE]
    /\ runtime' = "live"
    /\ UNCHANGED <<helmVars, net, fate, ghost, faults>>

\* The ledger admits or rejects a turn it has not seen; a repeated one gets the
\* answer it already has.
HandleSubmit ==
    /\ runtime = "live"
    /\ \E message \in net, verdict \in {"admitted", "closed"} :
          /\ message.op = "submit"
          /\ fate[message.id] # "open" => verdict = fate[message.id]
          /\ fate' = [fate EXCEPT ![message.id] = verdict]
          /\ Answer(message, IF verdict = "admitted" THEN "admitted" ELSE "rejected")
    /\ UNCHANGED <<mem, disk, pending, file, vessel, runtime, ghost, faults>>

\* Vessel refuses to route it, or the runtime refuses it before its ledger.
RefuseSubmit ==
    /\ \E message \in net :
          /\ message.op = "submit"
          /\ Answer(message, "refused")
    /\ UNCHANGED <<mem, disk, pending, file, hostVars, ghost, faults>>

\* Mutation: resolving an identity nobody admitted does not close it.
HandleQuestion_NoClose ==
    /\ runtime = "live"
    /\ \E message \in net :
          /\ message.op \in {"receipt", "resolve"}
          /\ UNCHANGED fate
          /\ Answer(message,
                CASE fate[message.id] = "admitted" -> "admitted"
                  [] message.op = "receipt" /\ fate[message.id] = "open" -> "unknown"
                  [] OTHER -> "not_admitted")
    /\ UNCHANGED <<mem, disk, pending, file, vessel, runtime, ghost, faults>>

\* Mutation: Resolve only reports, like Receipt.
HandleQuestion_ReportOnly ==
    /\ runtime = "live"
    /\ \E message \in net :
          /\ message.op \in {"receipt", "resolve"}
          /\ UNCHANGED fate
          /\ Answer(message,
                CASE fate[message.id] = "admitted" -> "admitted"
                  [] fate[message.id] = "open" -> "unknown"
                  [] OTHER -> "not_admitted")
    /\ UNCHANGED <<mem, disk, pending, file, vessel, runtime, ghost, faults>>

\* Mutation: a question about a turn nobody admitted is itself recorded.
HandleQuestion_Records ==
    /\ runtime = "live"
    /\ \E message \in net :
          /\ message.op \in {"receipt", "resolve"}
          /\ fate' = IF fate[message.id] = "open"
                     THEN [fate EXCEPT ![message.id] = message.op] ELSE fate
          /\ Answer(message, "unknown")
    /\ UNCHANGED <<mem, disk, pending, file, vessel, runtime, ghost, faults>>

\* Receipt reports; Resolve also closes an identity nobody admitted.
HandleQuestion ==
    /\ runtime = "live"
    /\ \E message \in net :
          /\ message.op \in {"receipt", "resolve"}
          /\ fate' = IF message.op = "resolve" /\ fate[message.id] = "open"
                     THEN [fate EXCEPT ![message.id] = "closed"] ELSE fate
          /\ Answer(message,
                CASE fate[message.id] = "admitted" -> "admitted"
                  [] message.op = "receipt" /\ fate[message.id] = "open" -> "unknown"
                  [] OTHER -> "not_admitted")
    /\ UNCHANGED <<mem, disk, pending, file, vessel, runtime, ghost, faults>>

---------------------------------------------------------------------------
JobStep ==
    \/ JobHasReceipt \/ JobResolvesStart \/ JobOnlyObserves
    \/ JobAsksReceipt \/ JobAsksResolve \/ JobTimesOut \/ JobCannotAsk
    \/ \E ok \in BOOLEAN :
          \/ JobFindsHostUnready(ok) \/ JobSendsStart(ok) \/ JobHearsCreation(ok)
          \/ JobSendsTurn(ok) \/ JobRetainsReceipt(ok)
    \/ \E fails \in {"none", "view", "record", "receipt"} : FirstSendUpdate(fails)

ViewStep == \E ok \in BOOLEAN : ViewUpdate(ok)

HostStep ==
    \/ AdmitStart
    \/ \E s \in Starts : LaunchStart(s) \/ SettleStart(s) \/ StartUnconfirmed(s)
    \/ ResolveRecorded \/ FenceIntent \/ FenceCommand \/ FenceOutcome
    \/ HandleSubmit \/ HandleQuestion

Next ==
    \/ JobStep \/ ViewStep \/ HostStep
    \/ \E observe, ok \in BOOLEAN : DriveDraft(observe, ok)
    \/ \E ok \in BOOLEAN : ViewSends(ok)
    \/ ViewChecks
    \/ RefuseStart \/ RefuseSubmit \/ ObserveOwner
    \/ HelmRestarts \/ Disconnect \/ LoseRequest
    \/ VesselRestarts \/ RuntimeDies \/ RestartOwner

Spec == Init /\ [][Next]_vars

---------------------------------------------------------------------------
\* Safety

\* A draft becomes editable again, and may be sent under a new creation command,
\* only when the old command can never create the voyage: a Start refused, or
\* fenced by a resolution, is never admitted afterwards, not even when it was
\* delayed past the answer or Vessel was restarted between the fence's saves.
GivenUpNeverCreates ==
    \A s \in ghost.given :
        /\ vessel.registration # s
        /\ vessel.starting[s] = "none"
        /\ s \notin vessel.receipts

\* Helm never repeats a creation or a turn it may already have delivered: an
\* identity is sent again only after its earlier copy was definitely refused.
NeverReplayed ==
    \A op \in {"start", "submit"} : \A c \in 1..(MaxStarts + MaxTurns) :
        ghost.sent[op][c] <= ghost.refused[op][c] + 1

\* What Helm tells the user about a turn stays true: a turn reported as not sent,
\* whose text is back in the composer, is never executed by a late copy, and one
\* reported as sent was admitted.
ToldTheTruth ==
    \A t \in Turns :
        /\ ghost.told[t] = "admitted" => fate[t] = "admitted"
        /\ ghost.told[t] = "rejected" =>
              fate[t] # "admitted" /\ (fate[t] = "closed" \/ ~ \E m \in net :
                                            m.op = "submit" /\ m.id = t)

Remembered(t) ==
    \/ file = t
    \/ t = FirstTurn /\ Recoverable(disk) /\ disk.tried

\* A turn that was sent and whose outcome Helm has not learned is on disk under
\* its identity at every instant, through save failures, disconnections and the
\* hand-over from the draft's record to the view's.
UnsettledIsRemembered ==
    \A t \in Turns :
        ghost.sent["submit"][t] > 0 /\ ghost.told[t] = "none" => Remembered(t)

\* A creation that was sent and neither refused, fenced nor confirmed is on disk
\* as attempted, so reopening Helm asks about it and does not start another.
UnsettledStartIsRemembered ==
    \A s \in Starts :
        ghost.sent["start"][s] > ghost.refused["start"][s] /\ s \notin ghost.reset
        /\ ghost.told[FirstTurn] = "none"
        => disk.start = s /\ disk.startTried /\ ~disk.finished

---------------------------------------------------------------------------
\* Liveness

(* A task runs to its end; reconcile_pending starts a check for every          *)
(* unresolved draft and view again and again, oldest due first; Vessel and a   *)
(* live runtime handle what reaches them.  Giving up on a request that would   *)
(* still be handled is one of the finitely many faults.                        *)
Fairness ==
    /\ WF_vars(JobStep) /\ WF_vars(ViewStep)
    /\ WF_vars(DriveDraft(TRUE, TRUE)) /\ WF_vars(ViewChecks)
    /\ WF_vars(AdmitStart \/ RefuseStart)
    /\ WF_vars(ResolveRecorded) /\ WF_vars(FenceIntent)
    /\ WF_vars(FenceCommand) /\ WF_vars(FenceOutcome)
    /\ WF_vars(\E s \in Starts : LaunchStart(s))
    /\ WF_vars(\E s \in Starts : SettleStart(s) \/ StartUnconfirmed(s))
    /\ WF_vars(HandleSubmit) /\ WF_vars(HandleQuestion)

FairSpec == Spec /\ Fairness

\* Unless the owner is replaced by a restart before its creation was recorded,
\* an attempted creation is eventually settled in Helm's record: the voyage is
\* known, or the draft is released for editing.
StartSettles ==
    [](~vessel.restarted) =>
        ((disk.startTried /\ ~disk.finished) ~> (disk.process \/ disk.finished))

\* If the voyage's process eventually stays up, Helm eventually learns what
\* became of every turn it sent, without the user doing anything.
TurnsSettle ==
    <>[](runtime = "live") =>
        \A t \in Turns : (ghost.sent["submit"][t] > 0) ~> (ghost.told[t] # "none")

\* What Helm says of a creation or a turn stays true and nothing unsettled is
\* forgotten (ui/new_draft.rs, ui/reconcile.rs, process/start.rs).
Safety ==
    /\ TypeOK /\ GivenUpNeverCreates /\ NeverReplayed /\ ToldTheTruth
    /\ UnsettledIsRemembered /\ UnsettledStartIsRemembered
=============================================================================
