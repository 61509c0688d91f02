------------------------------ MODULE Install ------------------------------
(***************************************************************************)
(* The user-scope installer: staging a release, publishing it through the  *)
(* `current` link under a journal, replacing the commands in the user's    *)
(* bin directory, handing the supervisor unit over to the new release and  *)
(* undoing both when the service does not come up.  The process may be     *)
(* killed between any two file-system operations, and the user may put a   *)
(* command of their own in the way at any time.                            *)
(*                                                                         *)
(* installer/src/main.rs, install/{transaction,layout,links,release}.rs,   *)
(* service/{systemd,readiness,files,unit}.rs.                              *)
(***************************************************************************)
EXTENDS Integers, FiniteSets

CONSTANTS
  Releases,    \* identities of release manifests
  NoRelease,   \* an absent link, journal field or unit
  Commands,    \* how many command names are published (1..Commands)
  Files,       \* files the user may put at a command's path
  MaxRuns,     \* bound: invocations of the installer
  MaxKills,    \* bound: kills of a running installer
  MaxFaults,   \* bound: failed service-manager calls and refused admissions
  Installed,   \* whether a first release is already installed
  Target       \* the release a user retries in RetrySpec

InstallAssumption ==
  /\ NoRelease \notin Releases /\ Target \in Releases
  /\ Commands \in Nat /\ MaxRuns \in Nat /\ MaxKills \in Nat /\ MaxFaults \in Nat
  /\ Installed \in BOOLEAN

VARIABLES
  journal,   \* transaction.json
  current,   \* the release the `current` link names
  next,      \* the release the `next` link names
  staged,    \* releases/<id> that exist and verify
  cmd,       \* what is at each command's path
  spare,     \* what is at each .voyage-<name>-replacement
  backups,   \* user files linked into backups/
  owned,     \* ghost: files the user put there and did not replace themselves
  unit,      \* the release the unit file on disk names
  loaded,    \* the release of the definition the service manager has read
  enabled,   \* the unit is enabled
  running,   \* the release the active supervisor executes
  healthy,   \* releases whose supervisor becomes ready on this host
  pc, op,    \* the running invocation
  last,      \* ghost: how the last invocation ended, and what it found
  was,       \* ghost: the release `current` named before the present one
  runs, kills, faults

bounds == <<runs, kills, faults>>
links  == <<cmd, spare, backups, owned>>
store  == <<journal, current, next, staged, was>>
svc    == <<unit, loaded, enabled, running, healthy>>
vars   == <<store, links, svc, pc, op, last, bounds>>

Maybe == Releases \cup {NoRelease}

Idle == [kind |-> "install", rel |-> NoRelease, start |-> FALSE, replace |-> FALSE,
         name |-> 1, seen |-> "absent", changed |-> FALSE, had |-> FALSE,
         undo |-> FALSE, sure |-> TRUE,
         plan |-> [previous |-> NoRelease, rollback |-> NoRelease, active |-> FALSE,
                   enabled |-> FALSE, restart |-> FALSE]]

Observed == [current |-> current, unit |-> unit, enabled |-> enabled, running |-> running]

(***************************************************************************)
(* Init: nothing installed, or one healthy release installed with its      *)
(* supervisor running or stopped; some commands may belong to the user.    *)
(***************************************************************************)
Init ==
  /\ healthy \in SUBSET Releases
  /\ \E r \in IF Installed THEN healthy ELSE {NoRelease} :
       /\ journal = [current |-> r, previous |-> NoRelease, pending |-> NoRelease]
       /\ current = r
       /\ staged = {r} \ {NoRelease}
       /\ unit = r /\ loaded = r
       /\ running \in {r, NoRelease}
       /\ enabled \in IF Installed THEN BOOLEAN ELSE {FALSE}
  /\ next = NoRelease
  /\ cmd = [n \in 1..Commands |-> IF Installed THEN "managed" ELSE "absent"]
  /\ spare = [n \in 1..Commands |-> "absent"]
  /\ backups = {} /\ owned = {}
  /\ pc = "idle" /\ op = Idle
  /\ last = [outcome |-> "none", before |-> Observed]
  /\ was = NoRelease
  /\ runs = 0 /\ kills = 0 /\ faults = 0

Fault == faults < MaxFaults /\ faults' = faults + 1
NoFault == UNCHANGED faults

Goto(label) == pc' = label /\ UNCHANGED <<op, last, runs, kills>>

End(outcome) ==
  /\ pc' = "idle" /\ op' = Idle
  /\ last' = [last EXCEPT !.outcome = outcome]
  /\ UNCHANGED <<runs, kills>>

(***************************************************************************)
(* The user replaces a command, by a rename, whenever they like.           *)
(***************************************************************************)
UserPlaces(n, f) ==
  /\ f \notin owned \cup backups /\ \A m \in 1..Commands : f \notin {cmd[m], spare[m]}
  /\ cmd' = [cmd EXCEPT ![n] = f]
  /\ owned' = (owned \ {cmd[n]}) \cup {f}
  /\ UNCHANGED <<spare, backups, store, svc, pc, op, last, bounds>>

(***************************************************************************)
(* The operation lock is taken; the plan is made against the journal as it *)
(* is, before any recovery (flow::plan, dry_run = true).                   *)
(***************************************************************************)
\* links.rs: validate
Valid(replace) ==
  /\ current \in {journal.current, journal.pending}
  /\ \A n \in 1..Commands : cmd[n] \in Files => replace

Begin(kind, r, start, replace) ==
  /\ pc = "idle" /\ runs < MaxRuns /\ runs' = runs + 1
  /\ kind = "rollback" => journal.previous # NoRelease /\ r = journal.previous /\ ~replace
  /\ Valid(replace)
  /\ pc' = "recover"
  /\ op' = [Idle EXCEPT !.kind = kind, !.rel = r, !.start = start, !.replace = replace]
  /\ last' = [outcome |-> "running", before |-> Observed]
  /\ UNCHANGED <<store, links, svc, kills, faults>>

Kill ==
  /\ pc # "idle" /\ kills < MaxKills /\ kills' = kills + 1
  /\ pc' = "idle" /\ op' = Idle
  /\ last' = [last EXCEPT !.outcome = "killed"]
  /\ UNCHANGED <<store, links, svc, runs, faults>>

(***************************************************************************)
(* transaction.rs: recover                                                 *)
(***************************************************************************)
\* Mutation: reinstalling the current release makes it its own predecessor.
Adopt_always(id) == [current |-> id, previous |-> journal.current, pending |-> NoRelease]

Adopt(id) ==
  [current |-> id,
   previous |-> IF journal.current = id THEN journal.previous ELSE journal.current,
   pending |-> NoRelease]

\* Mutation: any leftover `next` link is taken for somebody else's.
RecoverAccepts_clean ==
  journal.pending # NoRelease => journal.pending \in staged /\ next = NoRelease

RecoverAccepts ==
  journal.pending # NoRelease =>
    /\ journal.pending \in staged
    /\ IF current = journal.pending
       THEN next # NoRelease => journal.current # NoRelease /\ next = journal.current
       ELSE current = journal.current

Recover ==
  /\ pc = "recover" /\ NoFault
  /\ IF ~RecoverAccepts
     THEN End("refused") /\ UNCHANGED store
     ELSE /\ Goto("recovered")
          /\ next' = IF journal.pending # NoRelease /\ current = journal.pending
                     THEN NoRelease ELSE next
          /\ UNCHANGED <<journal, current, staged, was>>
  /\ UNCHANGED <<links, svc>>

RecoverSave ==
  /\ pc = "recovered" /\ NoFault
  /\ journal' = IF journal.pending = NoRelease THEN journal
                ELSE IF current = journal.pending THEN Adopt(journal.pending)
                ELSE [journal EXCEPT !.pending = NoRelease]
  /\ Goto("choose")
  /\ UNCHANGED <<current, next, staged, was, links, svc>>

(***************************************************************************)
(* install stages its release; rollback takes the journal's previous one,  *)
(* which a legacy state directory may refuse.  The report is made here.    *)
(***************************************************************************)
Chosen(id) ==
  op' = [op EXCEPT !.rel = id,
                   !.changed = IF op.undo THEN @ ELSE journal.current # id,
                   !.had = IF op.undo THEN @ ELSE journal.current # NoRelease]

\* Mutation: the release is announced in the journal before it is staged.
StageInstall_late ==
  /\ pc = "choose" /\ op.kind = "install" /\ NoFault
  /\ Valid(op.replace)
  /\ pc' = "pending" /\ Chosen(op.rel)
  /\ UNCHANGED <<last, runs, kills, store, links, svc>>

StageInstall ==
  /\ pc = "choose" /\ op.kind = "install" /\ NoFault
  /\ IF ~Valid(op.replace)
     THEN End("refused") /\ UNCHANGED staged
     ELSE /\ staged' = staged \cup {op.rel}
          /\ pc' = "pending" /\ Chosen(op.rel)
          /\ UNCHANGED <<last, runs, kills>>
  /\ UNCHANGED <<journal, current, next, was, links, svc>>

ChooseRollback ==
  /\ pc = "choose" /\ op.kind = "rollback"
  /\ \/ /\ Valid(FALSE) /\ journal.previous # NoRelease /\ NoFault
        /\ pc' = "pending" /\ Chosen(journal.previous)
        /\ UNCHANGED <<last, runs, kills>>
     \/ /\ ~(Valid(FALSE) /\ journal.previous # NoRelease) /\ NoFault
        /\ End("unsettled")
     \/ Fault /\ End("unsettled")
  /\ UNCHANGED <<store, links, svc>>

SavePending ==
  /\ pc = "pending" /\ NoFault
  /\ journal' = [journal EXCEPT !.pending = op.rel]
  /\ Goto(IF op.kind = "install" THEN "link" ELSE "next")
  /\ UNCHANGED <<current, next, staged, was, links, svc>>

(***************************************************************************)
(* links.rs: publish_links, one command after the other.                   *)
(***************************************************************************)
Linking == pc = "link" /\ op.name <= Commands

\* Mutation: a new command link advances the loop twice.
LinkManaged_twice ==
  /\ Linking /\ cmd[op.name] \notin Files /\ NoFault
  /\ cmd' = [cmd EXCEPT ![op.name] = "managed"]
  /\ op' = [op EXCEPT !.name = @ + 2]
  /\ UNCHANGED <<spare, backups, owned, store, svc, pc, last, runs, kills>>

LinkManaged ==
  /\ Linking /\ cmd[op.name] \notin Files /\ NoFault
  /\ cmd' = [cmd EXCEPT ![op.name] = "managed"]
  /\ op' = [op EXCEPT !.name = @ + 1]
  /\ UNCHANGED <<spare, backups, owned, store, svc, pc, last, runs, kills>>

LinkBackup ==
  /\ Linking /\ cmd[op.name] \in Files /\ NoFault
  /\ IF ~op.replace
     THEN End("refused") /\ UNCHANGED backups
     ELSE /\ backups' = backups \cup {cmd[op.name]}
          /\ pc' = "spare" /\ op' = [op EXCEPT !.seen = cmd[op.name]]
          /\ UNCHANGED <<last, runs, kills>>
  /\ UNCHANGED <<cmd, spare, owned, store, svc>>

LinkSpare ==
  /\ pc = "spare" /\ NoFault
  /\ IF spare[op.name] \in Files
     THEN End("refused") /\ UNCHANGED spare
     ELSE spare' = [spare EXCEPT ![op.name] = "managed"] /\ Goto("exchange")
  /\ UNCHANGED <<cmd, backups, owned, store, svc>>

LinkExchange ==
  /\ pc = "exchange" /\ NoFault
  /\ cmd' = [cmd EXCEPT ![op.name] = spare[op.name]]
  /\ spare' = [spare EXCEPT ![op.name] = cmd[op.name]]
  /\ Goto("displaced")
  /\ UNCHANGED <<backups, owned, store, svc>>

\* Mutation: the displaced file is removed without looking at it.
LinkDisplaced_blind ==
  /\ pc = "displaced" /\ NoFault
  /\ spare' = [spare EXCEPT ![op.name] = "absent"]
  /\ pc' = "link" /\ op' = [op EXCEPT !.name = @ + 1]
  /\ UNCHANGED <<last, runs, kills, cmd, backups, owned, store, svc>>

LinkDisplaced ==
  /\ pc = "displaced" /\ NoFault
  /\ IF spare[op.name] # op.seen
     THEN End("refused") /\ UNCHANGED spare
     ELSE /\ spare' = [spare EXCEPT ![op.name] = "absent"]
          /\ pc' = "link" /\ op' = [op EXCEPT !.name = @ + 1]
          /\ UNCHANGED <<last, runs, kills>>
  /\ UNCHANGED <<cmd, backups, owned, store, svc>>

LinksDone ==
  /\ pc = "link" /\ op.name > Commands /\ NoFault
  /\ Goto("next")
  /\ UNCHANGED <<store, links, svc>>

(***************************************************************************)
(* transaction.rs: publish.  Every refusal leaves journal and links as     *)
(* they are.                                                               *)
(***************************************************************************)
PublishNext ==
  /\ pc = "next" /\ NoFault
  /\ IF op.rel \in staged /\ current \in {journal.current, op.rel} /\ next \in {NoRelease, op.rel}
     THEN next' = op.rel /\ Goto("swap")
     ELSE End("unsettled") /\ UNCHANGED next
  /\ UNCHANGED <<journal, current, staged, was, links, svc>>

\* exchange when `current` exists, hard_link when it does not
PublishSwap ==
  /\ pc = "swap" /\ NoFault
  /\ current' = next
  /\ next' = IF current = NoRelease THEN next ELSE current
  /\ was' = IF current \in {next, NoRelease} THEN was ELSE current
  /\ Goto("unlink")
  /\ UNCHANGED <<journal, staged, links, svc>>

PublishUnlink ==
  /\ pc = "unlink" /\ NoFault
  /\ IF next \in {journal.current, op.rel}
     THEN next' = NoRelease /\ Goto("save")
     ELSE End("unsettled") /\ UNCHANGED next
  /\ UNCHANGED <<journal, current, staged, was, links, svc>>

PublishSave ==
  /\ pc = "save" /\ NoFault
  /\ journal' = Adopt(op.rel)
  /\ IF op.undo
     THEN End(IF op.sure THEN "restored" ELSE "unsettled")
     ELSE Goto("plan")
  /\ UNCHANGED <<current, next, staged, was, links, svc>>

(***************************************************************************)
(* main.rs: a failed service configuration takes the binaries back, if     *)
(* this invocation changed them and there was a release to go back to.     *)
(***************************************************************************)
ConfigureFailed(sure) ==
  IF op.changed /\ op.had
  THEN /\ pc' = "recover"
       /\ op' = [op EXCEPT !.kind = "rollback", !.undo = TRUE, !.sure = sure, !.replace = FALSE]
       /\ UNCHANGED <<last, runs, kills>>
  ELSE End(IF ~sure THEN "unsettled" ELSE IF op.had THEN "restored" ELSE "retained")

(***************************************************************************)
(* systemd.rs: plan and configure                                          *)
(***************************************************************************)
Definition == op.rel

Plan ==
  /\ pc = "plan"
  /\ \/ /\ NoFault
        /\ LET active == running # NoRelease
           IN  op' = [op EXCEPT !.plan =
                 [previous |-> unit,
                  rollback |-> IF active /\ running # Definition THEN running ELSE unit,
                  active |-> active, enabled |-> enabled,
                  restart |-> active /\ (unit # Definition \/ running # Definition)]]
        /\ pc' = "unit"
        /\ UNCHANGED <<last, runs, kills>>
     \/ Fault /\ ConfigureFailed(TRUE)   \* transitioning, or the old helper cannot list
  /\ UNCHANGED <<store, links, svc>>

ReplaceUnit ==
  /\ pc = "unit" /\ NoFault
  /\ unit' = Definition
  /\ Goto("reload")
  /\ UNCHANGED <<loaded, enabled, running, healthy, store, links>>

\* A call of the service manager: it takes effect and reports so, or it fails
\* and may have taken effect.
Systemctl(effect, done, failed) ==
  \/ effect /\ NoFault /\ done
  \/ Fault /\ (effect \/ UNCHANGED svc) /\ failed

Enable(value) == enabled' = value /\ UNCHANGED <<unit, loaded, running, healthy>>
DaemonReload  == loaded' = unit /\ UNCHANGED <<unit, enabled, running, healthy>>
Launch        == running' = loaded /\ UNCHANGED <<unit, loaded, enabled, healthy>>
Halt          == running' = NoRelease /\ UNCHANGED <<unit, loaded, enabled, healthy>>

\* Mutation: the service manager is told of the new unit only when asked to start.
Reload_onstart ==
  /\ pc = "reload"
  /\ IF op.start
     THEN Systemctl(DaemonReload, Goto("enable"), Goto("undo"))
     ELSE Goto("start") /\ NoFault /\ UNCHANGED svc
  /\ UNCHANGED <<store, links>>

Reload ==
  /\ pc = "reload"
  /\ Systemctl(DaemonReload, Goto(IF op.start THEN "enable" ELSE "start"), Goto("undo"))
  /\ UNCHANGED <<store, links>>

EnableUnit ==
  /\ pc = "enable"
  /\ Systemctl(Enable(TRUE), Goto("start"), Goto("undo"))
  /\ UNCHANGED <<store, links>>

StartUnit ==
  /\ pc = "start"
  /\ IF ~(op.start \/ op.plan.active)
     THEN End("done") /\ NoFault /\ UNCHANGED svc
     ELSE IF op.plan.restart \/ ~op.plan.active
     THEN Systemctl(Launch, Goto("wait"), Goto("undo"))
     ELSE Goto("wait") /\ NoFault /\ UNCHANGED svc
  /\ UNCHANGED <<store, links>>

\* readiness.rs: wait for the new release's own supervisor
AwaitReady ==
  /\ pc = "wait"
  /\ \/ running = Definition /\ running \in healthy /\ NoFault /\ End("done")
     \/ ~(running = Definition /\ running \in healthy) /\ NoFault /\ Goto("undo")
     \/ Fault /\ Goto("undo")
  /\ UNCHANGED <<store, links, svc>>

(***************************************************************************)
(* systemd.rs: restore.  A failing step leaves the rest undone.            *)
(***************************************************************************)
Unsure == ConfigureFailed(FALSE)

UndoStop ==
  /\ pc = "undo"
  /\ IF running # NoRelease
     THEN Systemctl(Halt, Goto("undoDisable"), Unsure)
     ELSE Goto("undoDisable") /\ NoFault /\ UNCHANGED svc
  /\ UNCHANGED <<store, links>>

\* Mutation: a unit this invocation enabled stays enabled.
UndoDisable_kept ==
  /\ pc = "undoDisable" /\ NoFault
  /\ Goto("undoUnit")
  /\ UNCHANGED <<store, links, svc>>

UndoDisable ==
  /\ pc = "undoDisable"
  /\ IF ~op.plan.enabled
     THEN Systemctl(Enable(FALSE), Goto("undoUnit"), Unsure)
     ELSE Goto("undoUnit") /\ NoFault /\ UNCHANGED svc
  /\ UNCHANGED <<store, links>>

UndoUnit ==
  /\ pc = "undoUnit" /\ NoFault
  /\ unit' = op.plan.rollback
  /\ Goto("undoReload")
  /\ UNCHANGED <<loaded, enabled, running, healthy, store, links>>

UndoReload ==
  /\ pc = "undoReload"
  /\ Systemctl(DaemonReload, Goto("undoEnable"), Unsure)
  /\ UNCHANGED <<store, links>>

UndoEnable ==
  /\ pc = "undoEnable"
  /\ IF op.plan.enabled
     THEN Systemctl(Enable(TRUE), Goto("undoStart"), Unsure)
     ELSE Goto("undoStart") /\ NoFault /\ UNCHANGED svc
  /\ UNCHANGED <<store, links>>

UndoStart ==
  /\ pc = "undoStart"
  /\ IF op.plan.active
     THEN Systemctl(Launch, Goto("undoWait"), Unsure)
     ELSE ConfigureFailed(TRUE) /\ NoFault /\ UNCHANGED svc
  /\ UNCHANGED <<store, links>>

UndoWait ==
  /\ pc = "undoWait"
  /\ \/ /\ running = op.plan.rollback /\ running \in healthy
        /\ NoFault /\ ConfigureFailed(TRUE)
     \/ /\ ~(running = op.plan.rollback /\ running \in healthy)
        /\ NoFault /\ Unsure
     \/ Fault /\ Unsure
  /\ UNCHANGED <<store, links, svc>>

(***************************************************************************)
(* Next and the specifications                                             *)
(***************************************************************************)
Step ==
  \/ Recover \/ RecoverSave \/ StageInstall \/ ChooseRollback \/ SavePending
  \/ LinkManaged \/ LinkBackup \/ LinkSpare \/ LinkExchange \/ LinkDisplaced \/ LinksDone
  \/ PublishNext \/ PublishSwap \/ PublishUnlink \/ PublishSave
  \/ Plan \/ ReplaceUnit \/ Reload \/ EnableUnit \/ StartUnit \/ AwaitReady
  \/ UndoStop \/ UndoDisable \/ UndoUnit \/ UndoReload \/ UndoEnable \/ UndoStart \/ UndoWait

Next ==
  \/ \E n \in 1..Commands, f \in Files : UserPlaces(n, f)
  \/ \E k \in {"install", "rollback"}, r \in Releases, s, x \in BOOLEAN : Begin(k, r, s, x)
  \/ Kill
  \/ Step

Spec == Init /\ [][Next]_vars

\* One release is installed over and over; each invocation runs until it ends
\* or is killed, and kills, faults and the user's own files are bounded.
RetryNext ==
  \/ \E n \in 1..Commands, f \in Files : UserPlaces(n, f)
  \/ Begin("install", Target, TRUE, TRUE)
  \/ Kill
  \/ Step

\* Fairness: the process runs (nothing in it waits without a deadline) and the
\* user tries again as long as they may.
Fairness ==
  WF_vars(Step) /\ WF_vars(Begin("install", Target, TRUE, TRUE))

RetryInit == Init /\ Target \in healthy
RetrySpec == RetryInit /\ [][RetryNext]_vars /\ Fairness

(***************************************************************************)
(* Properties                                                              *)
(***************************************************************************)
Labels ==
  {"idle", "recover", "recovered", "choose", "pending", "link", "spare", "exchange", "displaced",
   "next", "swap", "unlink", "save", "plan", "unit", "reload", "enable", "start", "wait",
   "undo", "undoDisable", "undoUnit", "undoReload", "undoEnable", "undoStart", "undoWait"}

\* Every variable keeps its type; links, journal and unit name
\* releases or nothing, and the labels are those of the code's steps.
TypeOK ==
  /\ journal \in [current : Maybe, previous : Maybe, pending : Maybe]
  /\ {current, next, unit, loaded, running, was} \subseteq Maybe
  /\ staged \subseteq Releases /\ healthy \subseteq Releases
  /\ cmd \in [1..Commands -> Files \cup {"absent", "managed"}]
  /\ spare \in [1..Commands -> Files \cup {"absent", "managed"}]
  /\ backups \subseteq Files /\ owned \subseteq Files
  /\ enabled \in BOOLEAN /\ pc \in Labels
  /\ op.rel \in Maybe /\ op.name \in 1..(Commands + 1)
  /\ last.outcome \in {"none", "running", "killed", "refused", "unsettled", "restored", "retained", "done"}
  /\ runs \in 0..MaxRuns /\ kills \in 0..MaxKills /\ faults \in 0..MaxFaults

\* Whatever was interrupted, the published link, the rollback candidate and the
\* pending release are complete releases, the link is one the journal knows (so
\* `status` and `validate` never take it for somebody else's), and a running or
\* registered supervisor belongs to a complete release.
PublishedIsComplete ==
  /\ {current, journal.current, journal.previous, journal.pending, unit, running} \ {NoRelease} \subseteq staged
  /\ current \in {journal.current, journal.pending}

\* Once nothing is pending, the journal's previous release is the one that was
\* published before the present one: a rollback undoes the last publication,
\* however many interrupted attempts, recoveries and reinstallations lie between.
RollbackUndoes ==
  pc = "idle" /\ journal.pending = NoRelease => journal.previous = was

\* A command the user put in the bin directory is never lost: it is still at its
\* path, or set aside, or in the backups, even when they replaced it between the
\* installer's look and its exchange.
UserFilesSurvive ==
  \A f \in owned : f \in backups \/ \E n \in 1..Commands : f \in {cmd[n], spare[n]}

\* An invocation that reports a failure with the previous installation restored
\* leaves link, unit, enablement and supervisor as it found them.  Where an earlier
\* interrupted run had left the unit and the supervisor at different releases, both
\* end at one of the two.
FailureRestores ==
  pc = "idle" /\ last.outcome = "restored" =>
    /\ current = last.before.current
    /\ enabled = last.before.enabled
    /\ running = NoRelease <=> last.before.running = NoRelease
    /\ running # NoRelease => running \in {last.before.unit, last.before.running}
    /\ unit \in {last.before.unit, last.before.running}

\* A successful invocation leaves nothing half done: no pending release, no
\* `next` link, commands that lead to `current`, a unit that names the published
\* release and, if a supervisor runs, one of that release.
SuccessIsWhole ==
  pc = "idle" /\ last.outcome = "done" =>
    /\ journal.pending = NoRelease /\ next = NoRelease
    /\ unit = current /\ loaded = unit
    /\ running \in {current, NoRelease}

\* README.md:204: "A private installation journal and lock protect publication
\* and allow interrupted operations to be retried."  When no installer runs, the
\* recovery at the head of the next invocation does not refuse.
InterruptedCanRetry == pc = "idle" => RecoverAccepts

\* Retrying one release over an existing installation gets there, published and
\* running, after any number of kills or of failed service calls.  (A kill in the
\* compensating rollback that follows a failed call is the exception, see
\* InterruptedCanRetry.)
RetryConverges ==
  \/ <>(pc = "idle" /\ last.outcome = "done" /\ current = Target /\ running = Target)
  \/ <>(kills > 0 /\ faults > 0)

\* Any interleaving of kills, faults, retries and the user's own files leaves the
\* installation one of the releases, whole (user_install).
Safety ==
  /\ TypeOK /\ PublishedIsComplete /\ RollbackUndoes /\ UserFilesSurvive
  /\ FailureRestores /\ SuccessIsWhole
=============================================================================
