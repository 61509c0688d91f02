----------------------------- MODULE Adoption ------------------------------
(***************************************************************************)
(* Moving a user-scope installation to a system-scope one: `adopt-user     *)
(* prepare | review | apply | activate | rollback | status`.  The original *)
(* supervisor's directory is captured under leases taken with the original *)
(* identity, every session's journal is frozen, copied, committed and      *)
(* imported, the directory is moved aside and a fence put in its place.    *)
(* Until the system services are activated the whole is undone by a        *)
(* rollback.  A command may die between any two of its effects, the host   *)
(* may reboot, and the original user may start the old supervisor by hand  *)
(* or kill the lease helpers, which run under that user's identity.        *)
(*                                                                         *)
(* One operation identity is modelled: its review record, the two          *)
(* namespaces and the two service managers.                                *)
(*                                                                         *)
(* installer/src/system_install/adoption.rs, system_install.rs,            *)
(* system_install/lifecycle.rs (start), vessel/src/process/migration.rs,   *)
(* voyage/src/attachment/journal/execution_transition.rs.                  *)
(***************************************************************************)
EXTENDS Integers, FiniteSets

CONSTANTS
  Sessions,    \* the user's sessions
  Installers,  \* concurrent invocations of the installer
  Opaque,      \* source and system are on different file systems
  Overlap,     \* whether two administrative commands may overlap
  MaxReboots, MaxFaults, MaxStarts, MaxEdits  \* bounds

AdoptionAssumption ==
  /\ Opaque \in BOOLEAN /\ Overlap \in BOOLEAN
  /\ {MaxReboots, MaxFaults, MaxStarts, MaxEdits} \subseteq Nat

VARIABLES
  review,    \* the saved review.json
  pc, mem,   \* each invocation's next step and its copy of the review
  held,      \* each invocation's lease on the original supervisor
  leased,    \* each invocation's leases on the original sessions
  home,      \* what the original supervisor's path names
  retained,  \* the original directory is in the retention container
  marker,    \* each source journal's handoff marker
  rev,       \* each source journal's content, as a count of the user's changes
  receipt,   \* the content each abort receipt names, or Absent
  copy,      \* each target journal: absent, or the content it was copied with
  committed, imported,      \* target journals committed, registrations imported
  units, enabled, record,   \* the system units and the installation record
  root,      \* the system supervisor is running
  admitted,  \* sessions the system supervisor has launched
  user,      \* what directory the user's supervisor runs over, or "down"
  userOn,    \* the user's units are enabled
  boot, captured,  \* this boot; capture directories already written
  reboots, faults, starts, edits

inst   == <<pc, mem, held, leased>>
source == <<home, retained, marker, rev, receipt>>
target == <<copy, committed, imported, admitted>>
system == <<units, enabled, record, root>>
host   == <<user, userOn, boot>>
bounds == <<reboots, faults, starts, edits>>
vars   == <<review, inst, source, target, system, host, captured, bounds>>

Absent == -1
Preactivation == {"prepared", "quiescence-requested", "awaiting-boot-retirement", "ready",
                  "capturing-retired-source", "freezing-source", "capturing-opaque-retention",
                  "installing-dormant-system", "dormant-installed", "rollback-requested"}
Phases == Preactivation \cup {"none", "activation-requested", "active",
                              "rollback-services-requested", "rolled-back"}
Nothing == [phase |-> "none", boot |-> 0, services |-> FALSE, approved |-> {}, snapshot |-> {},
            freezes |-> {}, temporary |-> FALSE, fence |-> FALSE, opaque |-> {}, verified |-> FALSE]

Init ==
  /\ review = Nothing
  /\ pc = [i \in Installers |-> "idle"] /\ mem = [i \in Installers |-> Nothing]
  /\ held = [i \in Installers |-> FALSE] /\ leased = [i \in Installers |-> {}]
  /\ home = "source" /\ retained = FALSE
  /\ marker = [s \in Sessions |-> "none"] /\ rev = [s \in Sessions |-> 0]
  /\ receipt = [s \in Sessions |-> Absent]
  /\ copy = [s \in Sessions |-> Absent] /\ committed = {} /\ imported = {} /\ admitted = {}
  /\ units = FALSE /\ enabled = FALSE /\ record = "none" /\ root = FALSE
  /\ user = "source" /\ userOn = TRUE /\ boot = 1 /\ captured = {}
  /\ reboots = 0 /\ faults = 0 /\ starts = 0 /\ edits = 0

(***************************************************************************)
(* Helpers of every command.                                               *)
(***************************************************************************)
\* The original directory is where the review says it must be.
Recheck(r) == IF r.temporary /\ retained THEN TRUE ELSE home = "source"
\* Nobody holds supervisor.lock of the original directory.
OwnerFree == user # "source" /\ \A i \in Installers : ~held[i]
\* SourceOwnership::check and SourceLease::check, over every lease taken.
LeasesCurrent(i) == held[i] /\ leased[i] = mem[i].freezes
Save(i, r) == review' = r /\ mem' = [mem EXCEPT ![i] = r]
Goto(i, step) == pc' = [pc EXCEPT ![i] = step]
Release(i) == held' = [held EXCEPT ![i] = FALSE] /\ leased' = [leased EXCEPT ![i] = {}]
Quiet == \A i \in Installers : pc[i] = "idle"
Begin(i) == pc[i] = "idle" /\ (Overlap \/ Quiet)
Load(i) == mem' = [mem EXCEPT ![i] = review]

\* An invocation ends early: an error, a lost helper, or a kill.  Its leases go
\* with it and nothing else is undone.
Stop(i) ==
  /\ pc[i] # "idle" /\ faults < MaxFaults
  /\ Goto(i, "idle") /\ Release(i) /\ faults' = faults + 1
  /\ UNCHANGED <<review, mem, source, target, system, host, captured, reboots, starts, edits>>

(***************************************************************************)
(* prepare: record the source, then ask its services to stop.              *)
(***************************************************************************)
Prepare(i) ==
  /\ Begin(i) /\ review.phase = "none" /\ home = "source" /\ user = "source"
  /\ Save(i, [Nothing EXCEPT !.phase = "prepared", !.boot = boot])
  /\ Goto(i, "definitions")
  /\ UNCHANGED <<held, leased, source, target, system, host, captured, bounds>>

PrepareDefinitions(i) ==
  /\ pc[i] = "definitions"
  /\ Save(i, [mem[i] EXCEPT !.services = TRUE]) /\ Goto(i, "claim")
  /\ UNCHANGED <<held, leased, source, target, system, host, captured, bounds>>

PrepareClaim(i) ==
  /\ pc[i] = "claim"
  /\ Save(i, [mem[i] EXCEPT !.phase = "quiescence-requested"]) /\ Goto(i, "quiesce")
  /\ UNCHANGED <<held, leased, source, target, system, host, captured, bounds>>

\* Stop then disable: the two effects on the user's manager, with a lost reply between.
QuiesceStop(i) ==
  /\ pc[i] = "quiesce" /\ Goto(i, "disable") /\ user' = "down"
  /\ UNCHANGED <<review, mem, held, leased, source, target, system, userOn, boot, captured, bounds>>

QuiesceDisable(i) ==
  /\ pc[i] = "disable" /\ Goto(i, "quiesced") /\ userOn' = FALSE
  /\ UNCHANGED <<review, mem, held, leased, source, target, system, user, boot, captured, bounds>>

Quiesced(i) ==
  /\ pc[i] = "quiesced"
  /\ Save(i, [mem[i] EXCEPT !.phase = "awaiting-boot-retirement"]) /\ Goto(i, "idle")
  /\ UNCHANGED <<held, leased, source, target, system, host, captured, bounds>>

(***************************************************************************)
(* review: capture the retired source and pin what was seen.               *)
(***************************************************************************)
Capturable(label) == label \notin captured

Review(i) ==
  /\ Begin(i) /\ review.phase \in {"awaiting-boot-retirement", "quiescence-requested"}
  /\ boot # review.boot /\ Recheck(review) /\ OwnerFree /\ Capturable("reviewed")
  /\ captured' = captured \cup {"reviewed"}
  /\ mem' = [mem EXCEPT ![i] = [review EXCEPT !.snapshot = {rev}]]
  /\ Goto(i, "reviewed")
  /\ UNCHANGED <<review, held, leased, source, target, system, host, bounds>>

Reviewed(i) ==
  /\ pc[i] = "reviewed"
  /\ Save(i, [mem[i] EXCEPT !.phase = "ready", !.approved = mem[i].snapshot])
  /\ Goto(i, "idle")
  /\ UNCHANGED <<held, leased, source, target, system, host, captured, bounds>>

(***************************************************************************)
(* apply.                                                                  *)
(***************************************************************************)
Apply(i) ==
  /\ Begin(i) /\ review.phase = "ready" /\ boot # review.boot /\ Recheck(review)
  /\ Save(i, [review EXCEPT !.phase = "capturing-retired-source"])
  /\ Goto(i, "hold")
  /\ UNCHANGED <<held, leased, source, target, system, host, captured, bounds>>

Hold(i) ==
  /\ pc[i] = "hold" /\ OwnerFree
  /\ held' = [held EXCEPT ![i] = TRUE] /\ Goto(i, "capture")
  /\ UNCHANGED <<review, mem, leased, source, target, system, host, captured, bounds>>

\* Mutation: the capture is not compared with the approved one.
AnyCapture(i) == held[i] /\ Capturable("current")

Unchanged(i) == held[i] /\ mem[i].snapshot = {rev} /\ Capturable("current")
Capture(i) ==
  /\ pc[i] = "capture" /\ Unchanged(i)
  /\ mem' = [mem EXCEPT ![i].snapshot = {rev}]
  /\ captured' = captured \cup {"current"} /\ Goto(i, "freeze")
  /\ UNCHANGED <<review, held, leased, source, target, system, host, bounds>>

\* SourceFreeze on one journal: the marker first, then the receipt in the review.
FreezeMark(i) ==
  /\ pc[i] = "freeze" /\ LeasesCurrent(i)
  /\ \E s \in Sessions \ mem[i].freezes :
       /\ marker[s] = "none"
       /\ marker' = [marker EXCEPT ![s] = "prepared"]
       /\ leased' = [leased EXCEPT ![i] = @ \cup {s}]
       /\ Save(i, [mem[i] EXCEPT !.phase = "freezing-source"])
  /\ Goto(i, "receipt")
  /\ UNCHANGED <<held, home, retained, rev, receipt, target, system, host, captured, bounds>>

FreezeReceipt(i) ==
  /\ pc[i] = "receipt"
  /\ Save(i, [mem[i] EXCEPT !.freezes = leased[i]]) /\ Goto(i, "freeze")
  /\ UNCHANGED <<held, leased, source, target, system, host, captured, bounds>>

\* The catalogue compared with the first capture's is the session set, which is fixed.
Frozen(i) == LeasesCurrent(i) /\ Capturable("frozen")
CaptureFrozen(i) ==
  /\ pc[i] = "freeze" /\ mem[i].freezes = Sessions /\ Frozen(i)
  /\ captured' = captured \cup {"frozen"}
  /\ Save(i, [mem[i] EXCEPT !.snapshot = {rev},
                !.phase = IF Opaque THEN "capturing-opaque-retention"
                                    ELSE "installing-dormant-system"])
  /\ Goto(i, IF Opaque THEN "opaque" ELSE "install")
  /\ UNCHANGED <<held, leased, source, target, system, host, bounds>>

CaptureOpaque(i) ==
  /\ pc[i] = "opaque" /\ LeasesCurrent(i)
  /\ Save(i, [mem[i] EXCEPT !.opaque = {<<rev, marker>>}]) /\ Goto(i, "install")
  /\ UNCHANGED <<held, leased, source, target, system, host, captured, bounds>>

\* The ordinary installation, not started: the units, then its record.
InstallUnits(i) ==
  /\ pc[i] = "install" /\ LeasesCurrent(i) /\ record = "none" /\ ~units
  /\ Save(i, [mem[i] EXCEPT !.phase = "installing-dormant-system"])
  /\ units' = TRUE /\ Goto(i, "record")
  /\ UNCHANGED <<held, leased, source, target, enabled, record, root, host, captured, bounds>>

InstallRecord(i) ==
  /\ pc[i] = "record" /\ record' = "inactive" /\ Goto(i, "restore")
  /\ UNCHANGED <<review, mem, held, leased, source, target, units, enabled, root, host, captured, bounds>>

\* The frozen capture written to the target; only a fresh target is written.
Restore(i) ==
  /\ pc[i] = "restore" /\ LeasesCurrent(i) /\ \A s \in Sessions : copy[s] = Absent
  /\ \E r \in mem[i].snapshot : copy' = r
  /\ Goto(i, "commit")
  /\ UNCHANGED <<review, mem, held, leased, source, committed, imported, admitted, system, host, captured, bounds>>

Commit(i) ==
  /\ pc[i] = "commit" /\ LeasesCurrent(i)
  /\ \E s \in Sessions \ committed : committed' = committed \cup {s}
  /\ Goto(i, IF committed' = Sessions THEN "import" ELSE "commit")
  /\ UNCHANGED <<review, mem, held, leased, source, copy, imported, admitted, system, host, captured, bounds>>

\* ControlRequest::Import: registrations and their dormant markers, one by one.
Import(i) ==
  /\ pc[i] = "import" /\ LeasesCurrent(i)
  /\ \E s \in Sessions \ imported : imported' = imported \cup {s}
  /\ Goto(i, IF imported' = Sessions THEN "reserve" ELSE "import")
  /\ UNCHANGED <<review, mem, held, leased, source, copy, committed, admitted, system, host, captured, bounds>>

\* Mutation: the retention name is not saved before the rename.
ReserveUnsaved(i) ==
  /\ pc[i] = "reserve" /\ LeasesCurrent(i)
  /\ mem' = [mem EXCEPT ![i].temporary = TRUE] /\ Goto(i, "retain")
  /\ UNCHANGED <<review, held, leased, source, target, system, host, captured, bounds>>

\* retain_original_namespace: the name is saved before the rename.
Reserve(i) ==
  /\ pc[i] = "reserve" /\ LeasesCurrent(i)
  /\ Save(i, [mem[i] EXCEPT !.temporary = TRUE]) /\ Goto(i, "retain")
  /\ UNCHANGED <<held, leased, source, target, system, host, captured, bounds>>

Retain(i) ==
  /\ pc[i] = "retain" /\ home = "source"
  /\ retained' = TRUE /\ home' = "absent" /\ Goto(i, "fence")
  /\ UNCHANGED <<review, mem, held, leased, marker, rev, receipt, target, system, host, captured, bounds>>

\* publish_fence: the staged inode is saved before it takes the old name.
FenceStage(i) ==
  /\ pc[i] = "fence" /\ LeasesCurrent(i)
  /\ Save(i, [mem[i] EXCEPT !.fence = TRUE]) /\ Goto(i, "publish")
  /\ UNCHANGED <<held, leased, source, target, system, host, captured, bounds>>

FencePublish(i) ==
  /\ pc[i] = "publish" /\ home = "absent"
  /\ home' = "fence" /\ Goto(i, "seal")
  /\ UNCHANGED <<review, mem, held, leased, retained, marker, rev, receipt, target, system, host, captured, bounds>>

Seal(i) ==
  /\ pc[i] = "seal" /\ LeasesCurrent(i)
  /\ Release(i) /\ Goto(i, "dormant")
  /\ UNCHANGED <<review, mem, source, target, system, host, captured, bounds>>

Dormant(i) ==
  /\ pc[i] = "dormant"
  /\ Save(i, [mem[i] EXCEPT !.phase = "dormant-installed"]) /\ Goto(i, "idle")
  /\ UNCHANGED <<held, leased, source, target, system, host, captured, bounds>>

\* The checks of apply, by the step that makes them.
ApplyBlocked(i) ==
  \/ pc[i] = "hold" /\ ~OwnerFree
  \/ pc[i] = "capture" /\ ~Unchanged(i)
  \/ pc[i] = "freeze" /\ ~(LeasesCurrent(i) /\ (mem[i].freezes = Sessions => Frozen(i)))
  \/ /\ pc[i] \in {"opaque", "install", "restore", "commit", "import", "reserve", "fence", "seal"}
     /\ ~LeasesCurrent(i)
  \/ pc[i] = "retain" /\ home # "source"
  \/ pc[i] = "publish" /\ home # "absent"

(***************************************************************************)
(* activate: the phase is saved before the services are started, and a     *)
(* failure leaves it there.                                                *)
(***************************************************************************)
Activate(i) ==
  /\ Begin(i) /\ review.phase = "dormant-installed" /\ Recheck(review)
  /\ Load(i) /\ Goto(i, "activate")
  /\ UNCHANGED <<review, held, leased, source, target, system, host, captured, bounds>>

ActivateClaim(i) ==
  /\ pc[i] = "activate"
  /\ Save(i, [mem[i] EXCEPT !.phase = "activation-requested"]) /\ Goto(i, "enable")
  /\ UNCHANGED <<held, leased, source, target, system, host, captured, bounds>>

Installed == units /\ record = "inactive"
ActivateEnable(i) ==
  /\ pc[i] = "enable" /\ Installed
  /\ enabled' = TRUE /\ Goto(i, "start")
  /\ UNCHANGED <<review, mem, held, leased, source, target, units, record, root, host, captured, bounds>>

ActivateStart(i) ==
  /\ pc[i] = "start" /\ units
  /\ root' = TRUE /\ Goto(i, "activated")
  /\ UNCHANGED <<review, mem, held, leased, source, target, units, enabled, record, host, captured, bounds>>

Activated(i) ==
  /\ pc[i] = "activated" /\ root
  /\ record' = "active" /\ Save(i, [mem[i] EXCEPT !.phase = "active"]) /\ Goto(i, "idle")
  /\ UNCHANGED <<held, leased, source, target, units, enabled, root, host, captured, bounds>>

ActivateBlocked(i) ==
  \/ pc[i] = "enable" /\ ~Installed
  \/ pc[i] = "start" /\ ~units
  \/ pc[i] = "activated" /\ ~root

(***************************************************************************)
(* rollback, while nothing has been activated.                             *)
(***************************************************************************)
Rollback(i) ==
  /\ Begin(i) /\ review.phase \in Preactivation
  /\ boot # review.boot /\ review.services /\ Recheck(review)
  /\ Load(i) /\ Goto(i, "check")
  /\ UNCHANGED <<review, held, leased, source, target, system, host, captured, bounds>>

\* Mutation: only live units are refused, not sessions already launched.
UnitsDown == units => ~root

Unactivated == admitted = {} /\ (units => ~root)
RollbackClaim(i) ==
  /\ pc[i] = "check" /\ Unactivated
  /\ Save(i, [mem[i] EXCEPT !.phase = "rollback-requested"]) /\ Goto(i, "withdraw")
  /\ UNCHANGED <<held, leased, source, target, system, host, captured, bounds>>

RollbackUnits(i) ==
  /\ pc[i] = "withdraw"
  /\ enabled' = FALSE /\ units' = FALSE /\ Goto(i, "unrecord")
  /\ UNCHANGED <<review, mem, held, leased, source, target, record, root, host, captured, bounds>>

\* Mutation: the retired record gets a phase no reader knows.
RollbackForget(i) ==
  /\ pc[i] = "unrecord"
  /\ record' = IF record = "none" THEN record ELSE "retained"
  /\ Goto(i, "owner")
  /\ UNCHANGED <<review, mem, held, leased, source, target, units, enabled, root, host, captured, bounds>>

RollbackRecord(i) ==
  /\ pc[i] = "unrecord"
  /\ record' = IF record = "none" THEN record ELSE "uninstalled-retained"
  /\ Goto(i, "owner")
  /\ UNCHANGED <<review, mem, held, leased, source, target, units, enabled, root, host, captured, bounds>>

\* HoldOwner on the original directory, wherever it is, and the locks of every session.
RollbackHold(i) ==
  /\ pc[i] = "owner" /\ OwnerFree
  /\ held' = [held EXCEPT ![i] = TRUE] /\ Goto(i, "lookup")
  /\ UNCHANGED <<review, mem, leased, source, target, system, host, captured, bounds>>

\* Lookup answers Prepared, Aborted or Absent; Absent contradicts a saved receipt, and
\* an aborted journal must still be what its receipt says.
Qualified(i) ==
  /\ held[i]
  /\ \A s \in mem[i].freezes : marker[s] # "none"
  /\ \A s \in Sessions : marker[s] = "aborted" => receipt[s] = rev[s]
RollbackLookup(i) ==
  /\ pc[i] = "lookup" /\ Qualified(i)
  /\ leased' = [leased EXCEPT ![i] = IF mem[i].snapshot = {} THEN {} ELSE Sessions]
  /\ Goto(i, "verify")
  /\ UNCHANGED <<review, mem, held, source, target, system, host, captured, bounds>>

\* Mutation: the proof is not saved before the markers are aborted.
UnsavedVerified(i) == [mem[i] EXCEPT !.verified = FALSE]

\* The proof saved before any marker is aborted: aborting changes the archived bytes.
Verified(i) == [mem[i] EXCEPT !.verified = TRUE]
Intact(i) == mem[i].verified \/ mem[i].opaque \in {{}, {<<rev, marker>>}}
RollbackVerify(i) ==
  /\ pc[i] = "verify" /\ held[i] /\ Intact(i)
  /\ Save(i, Verified(i)) /\ Goto(i, "abort")
  /\ UNCHANGED <<held, leased, source, target, system, host, captured, bounds>>

Holding(i) == held[i] /\ leased[i] = IF mem[i].snapshot = {} THEN {} ELSE Sessions
RollbackAbort(i) ==
  /\ pc[i] = "abort" /\ Holding(i)
  /\ \E s \in leased[i] : /\ marker[s] = "prepared"
                         /\ marker' = [marker EXCEPT ![s] = "aborted"]
                         /\ receipt' = [receipt EXCEPT ![s] = rev[s]]
  /\ UNCHANGED <<review, inst, home, retained, rev, target, system, host, captured, bounds>>

\* Mutation: the source is taken to be at its path.
RollbackInPlace(i) ==
  /\ pc[i] = "abort" /\ Holding(i) /\ \A s \in leased[i] : marker[s] # "prepared"
  /\ home' = home /\ Goto(i, "unseal")
  /\ UNCHANGED <<review, mem, held, leased, retained, marker, rev, receipt, target, system, host, captured, bounds>>

RollbackUnfence(i) ==
  /\ pc[i] = "abort" /\ Holding(i) /\ \A s \in leased[i] : marker[s] # "prepared"
  /\ IF mem[i].temporary /\ retained
       THEN home \in {"absent", "fence"} /\ home' = "absent" /\ Goto(i, "return")
       ELSE home' = home /\ Goto(i, "unseal")
  /\ UNCHANGED <<review, mem, held, leased, retained, marker, rev, receipt, target, system, host, captured, bounds>>

RollbackReturn(i) ==
  /\ pc[i] = "return" /\ home = "absent"
  /\ home' = "source" /\ retained' = FALSE /\ Goto(i, "unseal")
  /\ UNCHANGED <<review, mem, held, leased, marker, rev, receipt, target, system, host, captured, bounds>>

RollbackRelease(i) ==
  /\ pc[i] = "unseal" /\ Holding(i)
  /\ Release(i) /\ Goto(i, "services")
  /\ UNCHANGED <<review, mem, source, target, system, host, captured, bounds>>

RollbackServices(i) ==
  /\ pc[i] = "services"
  /\ Save(i, [mem[i] EXCEPT !.phase = "rollback-services-requested"]) /\ Goto(i, "revive")
  /\ UNCHANGED <<held, leased, source, target, system, host, captured, bounds>>

\* RestoreServices: enable, then start, the user's units.
RestoreEnable(i) ==
  /\ pc[i] = "revive" /\ userOn' = TRUE /\ Goto(i, "restart")
  /\ UNCHANGED <<review, mem, held, leased, source, target, system, user, boot, captured, bounds>>

RestoreStart(i) ==
  /\ pc[i] = "restart" /\ home = "source" /\ \A j \in Installers : ~held[j]
  /\ user' = "source" /\ Goto(i, "observe")
  /\ UNCHANGED <<review, mem, held, leased, source, target, system, userOn, boot, captured, bounds>>

RolledBack(i) ==
  /\ pc[i] = "observe" /\ user = "source"
  /\ Save(i, [mem[i] EXCEPT !.phase = "rolled-back"]) /\ Goto(i, "idle")
  /\ UNCHANGED <<held, leased, source, target, system, host, captured, bounds>>

RollbackBlocked(i) ==
  \/ pc[i] = "check" /\ ~Unactivated
  \/ pc[i] = "owner" /\ ~OwnerFree
  \/ pc[i] = "lookup" /\ ~Qualified(i)
  \/ pc[i] = "verify" /\ ~(held[i] /\ Intact(i))
  \/ pc[i] = "abort" /\ (~Holding(i) \/ (mem[i].temporary /\ retained /\ home \in {"source", "fresh"}))
  \/ pc[i] = "return" /\ home # "absent"
  \/ pc[i] = "unseal" /\ ~Holding(i)
  \/ pc[i] = "restart" /\ (home # "source" \/ \E j \in Installers : held[j])
  \/ pc[i] = "observe" /\ user # "source"

\* A step whose check fails ends the invocation.
Refuse(i) ==
  /\ ApplyBlocked(i) \/ ActivateBlocked(i) \/ RollbackBlocked(i)
  /\ Goto(i, "idle") /\ Release(i)
  /\ UNCHANGED <<review, mem, source, target, system, host, captured, bounds>>

(***************************************************************************)
(* status: completes a claimed activation or restoration from what it      *)
(* observes, and repeats no effect.                                        *)
(***************************************************************************)
Status(i) ==
  /\ Begin(i)
  /\ \/ /\ review.phase = "activation-requested" /\ units /\ root /\ record # "none"
        /\ record' = "active" /\ review' = [review EXCEPT !.phase = "active"]
     \/ /\ review.phase = "rollback-services-requested" /\ home # "fence" /\ ~units
        /\ user # "down"
        /\ review' = [review EXCEPT !.phase = "rolled-back"] /\ record' = record
  /\ UNCHANGED <<inst, source, target, units, enabled, root, host, captured, bounds>>

(***************************************************************************)
(* The system supervisor's own commands.                                   *)
(***************************************************************************)
SystemStart ==
  /\ Overlap \/ Quiet
  /\ Installed /\ ~root
  /\ root' = TRUE /\ enabled' = TRUE /\ record' = "active"
  /\ UNCHANGED <<review, inst, source, target, units, host, captured, bounds>>

SystemStop ==
  /\ root /\ root' = FALSE
  /\ UNCHANGED <<review, inst, source, target, units, enabled, record, host, captured, bounds>>

Admit(s) ==
  /\ root /\ s \in imported \ admitted
  /\ admitted' = admitted \cup {s}
  /\ UNCHANGED <<review, inst, source, copy, committed, imported, system, host, captured, bounds>>

(***************************************************************************)
(* The host and its user.                                                  *)
(***************************************************************************)
Reboot ==
  /\ reboots < MaxReboots /\ reboots' = reboots + 1 /\ boot' = boot + 1
  /\ pc' = [i \in Installers |-> "idle"] /\ held' = [i \in Installers |-> FALSE]
  /\ leased' = [i \in Installers |-> {}] /\ mem' = mem
  /\ root' = (units /\ enabled)
  /\ user' = IF userOn /\ home = "source" THEN "source" ELSE "down"
  /\ UNCHANGED <<review, source, target, units, enabled, record, userOn, captured, faults, starts, edits>>

\* A supervisor started where nothing is creates its directory.
UserStart ==
  /\ user = "down" /\ starts < MaxStarts /\ starts' = starts + 1
  /\ \/ home = "source" /\ OwnerFree /\ user' = "source" /\ home' = home
     \/ home \in {"absent", "fresh"} /\ user' = "fresh" /\ home' = "fresh"
  /\ UNCHANGED <<review, inst, retained, marker, rev, receipt, target, system, userOn, boot, captured, reboots, faults, edits>>

UserStop ==
  /\ user # "down" /\ user' = "down"
  /\ UNCHANGED <<review, inst, source, target, system, userOn, boot, captured, bounds>>

\* Only a session whose journal has no prepared marker can be opened and changed.
UserEdit(s) ==
  /\ user = "source" /\ marker[s] # "prepared" /\ edits < MaxEdits
  /\ rev' = [rev EXCEPT ![s] = @ + 1] /\ edits' = edits + 1
  /\ UNCHANGED <<review, inst, home, retained, marker, receipt, target, system, host, captured, reboots, faults, starts>>

\* The user, whose identity the lease helpers run under, kills one.
LoseLease(i) ==
  /\ faults < MaxFaults /\ faults' = faults + 1
  /\ \/ held[i] /\ held' = [held EXCEPT ![i] = FALSE] /\ leased' = leased
     \/ \E s \in leased[i] : leased' = [leased EXCEPT ![i] = @ \ {s}] /\ held' = held
  /\ UNCHANGED <<review, pc, mem, source, target, system, host, captured, reboots, starts, edits>>

Command(i) ==
  \/ Prepare(i) \/ PrepareDefinitions(i) \/ PrepareClaim(i) \/ QuiesceStop(i)
  \/ QuiesceDisable(i) \/ Quiesced(i) \/ Review(i) \/ Reviewed(i)
  \/ Apply(i) \/ Hold(i) \/ Capture(i) \/ FreezeMark(i) \/ FreezeReceipt(i)
  \/ CaptureFrozen(i) \/ CaptureOpaque(i) \/ InstallUnits(i) \/ InstallRecord(i)
  \/ Restore(i) \/ Commit(i) \/ Import(i) \/ Reserve(i) \/ Retain(i)
  \/ FenceStage(i) \/ FencePublish(i) \/ Seal(i) \/ Dormant(i)
  \/ Activate(i) \/ ActivateClaim(i) \/ ActivateEnable(i) \/ ActivateStart(i)
  \/ Activated(i) \/ Status(i)
RollingBack(i) ==
  \/ Rollback(i) \/ RollbackClaim(i) \/ RollbackUnits(i) \/ RollbackRecord(i)
  \/ RollbackHold(i) \/ RollbackLookup(i) \/ RollbackVerify(i) \/ RollbackAbort(i)
  \/ RollbackUnfence(i) \/ RollbackReturn(i) \/ RollbackRelease(i) \/ RollbackServices(i)
  \/ RestoreEnable(i) \/ RestoreStart(i) \/ RolledBack(i)

Next ==
  \/ \E i \in Installers : Command(i) \/ RollingBack(i) \/ Refuse(i) \/ Stop(i) \/ LoseLease(i)
  \/ SystemStart \/ SystemStop \/ \E s \in Sessions : Admit(s) \/ UserEdit(s)
  \/ Reboot \/ UserStart \/ UserStop

Spec == Init /\ [][Next]_vars

\* The pending rollback is retried, and the commands run on.
Fairness ==
  /\ WF_vars(UserStop)
  /\ \A i \in Installers :
       /\ WF_vars(pc[i] # "idle" /\ (Command(i) \/ Refuse(i)))
       /\ WF_vars(RollingBack(i))

RecoverySpec == Spec /\ Fairness

-----------------------------------------------------------------------------
\* Every saved phase, marker and record is one its readers know.
TypeOK ==
  /\ review.phase \in Phases /\ review.freezes \subseteq Sessions
  /\ home \in {"source", "absent", "fence", "fresh"} /\ retained \in BOOLEAN
  /\ marker \in [Sessions -> {"none", "prepared", "aborted"}] /\ rev \in [Sessions -> Nat]
  /\ copy \in [Sessions -> Nat \cup {Absent}] /\ committed \subseteq Sessions
  /\ imported \subseteq Sessions /\ admitted \subseteq Sessions
  /\ record \in {"none", "inactive", "active", "uninstalled-retained"}
  /\ user \in {"down", "source", "fresh"} /\ {userOn, units, enabled, root} \subseteq BOOLEAN

\* A session the system supervisor has launched can no longer be opened on the
\* user's side.
NoDoubleOwner == \A s \in admitted : user = "source" => marker[s] = "prepared"

\* An adoption reported installed took over exactly the reviewed, unchanged source:
\* every journal frozen, copied, committed and imported, the source out of reach.
DormantIsWhole ==
  review.phase \in {"dormant-installed", "activation-requested", "active"} =>
    /\ copy = rev /\ review.approved = {copy} /\ \A s \in Sessions : marker[s] = "prepared"
    /\ committed = Sessions /\ imported = Sessions
    /\ retained /\ home = "fence" /\ user # "source"

\* Once the user's services are to be restored the source is back at its path, no
\* marker stops its sessions, and the system side has never run one of them.
RollbackRestores ==
  review.phase \in {"rollback-services-requested", "rolled-back"} =>
    /\ home = "source" /\ ~retained /\ \A s \in Sessions : marker[s] # "prepared"
    /\ ~units /\ ~root /\ admitted = {}

\* The original directory is never lost: it is at its path or in the container the
\* saved review names, so a rollback finds it.
SourceIsReachable == home = "source" \/ (retained /\ review.temporary)

\* "never launch competing supervisors": a rollback starts the user's services only
\* while the system supervisor is down (docs/privileged-vessel-plan.md).
NoCompetingSupervisors == [][\A i \in Installers : RestoreStart(i) => ~root]_vars

\* A pending rollback that is retried after kills, lost leases and reboots ends with the
\* user's services claimed, unless the system side was started instead or the user put
\* a new directory in the way.
RollbackCompletes ==
  review.phase = "rollback-requested" ~>
    \/ review.phase \in {"rollback-services-requested", "rolled-back"}
    \/ root \/ admitted # {} \/ home = "fresh"

\* The user's sessions have one side that may run them at every instant of the
\* adoption, and each outcome is whole (system_install/adoption.rs).
Safety ==
  /\ TypeOK /\ NoDoubleOwner /\ DormantIsWhole /\ RollbackRestores /\ SourceIsReachable
=============================================================================
