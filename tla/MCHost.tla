------------------------------- MODULE MCHost -------------------------------
(***************************************************************************)
(* What a session and an installation keep on the host: the shared         *)
(* browser, the release of a user and its adoption by the system, side by  *)
(* side. Each behaviour runs one of them and leaves the others at rest.    *)
(***************************************************************************)
EXTENDS Integers, Parts

CONSTANTS u1, u2, r1, r2, NoRelease, f1, f2

VARIABLES
  st, viewers, browserSeq, lost, powner, fence, browserRun, failed, browserCall, rcpt,
  wk, wview, lane, browserAct, browserUp, acted, shown, browserUsed, wpriv, ops,
  browserStarts,  \* HostBrowser
  journal, current, next, staged, cmd, spare, backups, installOwned, unit, loaded,
  installEnabled, running, healthy, installPc, installOp, last, was, runs, kills,
  installFaults,  \* Install
  review, adoptPc, adoptMem, held, leased, home, retained, adoptMarker, adoptRev,
  receipt, copy, committed, imported, units, adoptEnabled, record, root, admitted,
  user, userOn, boot, captured, reboots, adoptFaults, adoptStarts, edits  \* Adoption

\* Every socket has a principal of its own.
Who(k) == IF k = "k1" THEN "p1" ELSE "p2"

\* One viewer and the agent take turns.
Control == INSTANCE HostBrowser WITH
  Sockets <- {"k1"}, Principal <- Who, Atts <- {"a1"}, Calls <- {"i1"}, MaxEpoch <- 3,
  MaxDoc <- 1, MaxStarts <- 1, MaxOps <- 3, starts <- browserStarts,
  call <- browserCall, run <- browserRun, up <- browserUp, used <- browserUsed,
  act <- browserAct, seq <- browserSeq

\* A private window and a stranger.
Private == INSTANCE HostBrowser WITH
  Sockets <- {"k1", "k2"}, Principal <- Who, Atts <- {"a1"}, Calls <- {}, MaxEpoch <- 3,
  MaxDoc <- 1, MaxStarts <- 1, MaxOps <- 4, starts <- browserStarts,
  call <- browserCall, run <- browserRun, up <- browserUp, used <- browserUsed,
  act <- browserAct, seq <- browserSeq

\* An installed release, an upgrade killed once, one failing step.
Service == INSTANCE InstallProofs WITH
  Releases <- {r1, r2}, NoRelease <- NoRelease, Commands <- 1, Files <- {f1},
  MaxRuns <- 2, MaxKills <- 1, MaxFaults <- 1, Installed <- TRUE, Target <- r2,
  enabled <- installEnabled, pc <- installPc, faults <- installFaults,
  owned <- installOwned, op <- installOp

\* A first installation over files of the user.
Files == INSTANCE InstallProofs WITH
  Releases <- {r1, r2}, NoRelease <- NoRelease, Commands <- 2, Files <- {f1, f2},
  MaxRuns <- 2, MaxKills <- 1, MaxFaults <- 0, Installed <- FALSE, Target <- r2,
  enabled <- installEnabled, pc <- installPc, faults <- installFaults,
  owned <- installOwned, op <- installOp

\* Two sessions adopted, two reboots, one fault.
Adopt == INSTANCE Adoption WITH
  Sessions <- {u1, u2}, Installers <- {"i1"}, Opaque <- FALSE, Overlap <- FALSE,
  MaxReboots <- 2, MaxFaults <- 1, MaxStarts <- 2, MaxEdits <- 1, pc <- adoptPc,
  marker <- adoptMarker, enabled <- adoptEnabled, faults <- adoptFaults,
  starts <- adoptStarts, rev <- adoptRev, mem <- adoptMem

browserVars ==
  <<st, viewers, browserSeq, lost, powner, fence, browserRun, failed, browserCall, rcpt,
    wk, wview, lane, browserAct, browserUp, acted, shown, browserUsed, wpriv, ops,
    browserStarts>>
installVars ==
  <<journal, current, next, staged, cmd, spare, backups, installOwned, unit, loaded,
    installEnabled, running, healthy, installPc, installOp, last, was, runs, kills,
    installFaults>>
adoptVars ==
  <<review, adoptPc, adoptMem, held, leased, home, retained, adoptMarker, adoptRev,
    receipt, copy, committed, imported, units, adoptEnabled, record, root, admitted,
    user, userOn, boot, captured, reboots, adoptFaults, adoptStarts, edits>>
hostVars == <<component, browserVars, installVars, adoptVars>>

ASSUME HostBounds ==
  /\ Service!InstallAssumption
  /\ Files!InstallAssumption
  /\ Adopt!AdoptionAssumption

BrowserAtRest ==
  /\ st = Rest /\ viewers = Rest /\ browserSeq = Rest /\ lost = Rest /\ powner = Rest
  /\ fence = Rest /\ browserRun = Rest /\ failed = Rest /\ browserCall = Rest
  /\ rcpt = Rest /\ wk = Rest /\ wview = Rest /\ lane = Rest /\ browserAct = Rest
  /\ browserUp = Rest /\ acted = Rest /\ shown = Rest /\ browserUsed = Rest
  /\ wpriv = Rest /\ ops = Rest /\ browserStarts = Rest
InstallAtRest ==
  /\ journal = Rest /\ current = Rest /\ next = Rest /\ staged = Rest /\ cmd = Rest
  /\ spare = Rest /\ backups = Rest /\ installOwned = Rest /\ unit = Rest
  /\ loaded = Rest /\ installEnabled = Rest /\ running = Rest /\ healthy = Rest
  /\ installPc = Rest /\ installOp = Rest /\ last = Rest /\ was = Rest /\ runs = Rest
  /\ kills = Rest /\ installFaults = Rest
AdoptAtRest ==
  /\ review = Rest /\ adoptPc = Rest /\ adoptMem = Rest /\ held = Rest
  /\ leased = Rest /\ home = Rest /\ retained = Rest /\ adoptMarker = Rest
  /\ adoptRev = Rest /\ receipt = Rest /\ copy = Rest /\ committed = Rest
  /\ imported = Rest /\ units = Rest /\ adoptEnabled = Rest /\ record = Rest
  /\ root = Rest /\ admitted = Rest /\ user = Rest /\ userOn = Rest /\ boot = Rest
  /\ captured = Rest /\ reboots = Rest /\ adoptFaults = Rest /\ adoptStarts = Rest
  /\ edits = Rest

HostInit ==
  /\ component \in {"control", "private", "service", "files", "adoption"}
  /\ CASE component = "control" -> Control!Init
       [] component = "private" -> Private!Init
       [] OTHER -> BrowserAtRest
  /\ CASE component = "service" -> Service!Init
       [] component = "files" -> Files!Init
       [] OTHER -> InstallAtRest
  /\ CASE component = "adoption" -> Adopt!Init
       [] OTHER -> AdoptAtRest

\* Every other part keeps its state.
HostNext ==
  \/ /\ component = "control" /\ Control!Next
     /\ UNCHANGED <<component, installVars, adoptVars>>
  \/ /\ component = "private" /\ Private!Next
     /\ UNCHANGED <<component, installVars, adoptVars>>
  \/ /\ component = "service" /\ Service!Next
     /\ UNCHANGED <<component, browserVars, adoptVars>>
  \/ /\ component = "files" /\ Files!Next
     /\ UNCHANGED <<component, browserVars, adoptVars>>
  \/ /\ component = "adoption" /\ Adopt!Next
     /\ UNCHANGED <<component, browserVars, installVars>>

HostSpec == HostInit /\ [][HostNext]_hostVars

-----------------------------------------------------------------------------

\* A receipt never understates what the page saw, private input belongs to
\* the owner of the window, and whoever controls the browser is attached
\* (host_browser.rs, browser/worker).
HostBrowserSafety ==
  /\ component = "control" => Control!Safety
  /\ component = "private" => Private!Safety

\* A published release is complete, a failed upgrade restores what ran
\* before, a successful one is whole, and files of the user survive
\* (installer transaction.rs, service).
InstallSafety ==
  /\ component = "service" => Service!Safety
  /\ component = "files" => Files!Safety

\* A session never has two owners across adoption and rollback, what lies
\* dormant is whole, a rollback restores the source, and the source stays
\* reachable until then (adoption.rs).
AdoptionSafety ==
  component = "adoption" => Adopt!Safety

\* Acknowledged control means that no effect of the agent is still under way
\* when the human takes over (host_browser.rs).
BrowserSteps ==
  [][/\ component = "control" => Control!AckSettles
     /\ component = "private" => Private!AckSettles]_hostVars
=============================================================================
