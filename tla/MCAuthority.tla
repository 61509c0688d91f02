---------------------------- MODULE MCAuthority -----------------------------
(***************************************************************************)
(* Who may act for a session: the process that owns it, its move to        *)
(* another Vessel, pairing and revocation, the authority of a connected    *)
(* client, and the two shared logins, side by side. Each behaviour runs    *)
(* one of them and leaves the others at rest. Where a component has        *)
(* theorems, its module of proofs is instantiated, for AuthorityProofs.    *)
(***************************************************************************)
EXTENDS Integers, Parts

CONSTANTS NoMove, t1, t2, d1, d2, c1, i1, i2, p1, p2, r1, r2, r3, e1, e2

VARIABLES
  reg, evid, recv, sock, lock, guard, rt, susp, active, queue, held, conn, cinc, hold,
  pc, late, took, out, done, unfenced, vesselCrashes, idles,  \* Ownership
  src, relay, sealed, files, exp, cour, net, dst, own, ran, moveExpired, giveUps,
  moveFaults,  \* OwnerMove
  now, inv, revs, window, audit, file, op, reply, mintedFor, died, pairFaults,  \* Pairing
  record, epoch, bound, pins, derived, try, applied, connectedCrashes,  \* ConnectedAuthority
  acct, login, pred, issued, sent, genLogin, tokenExpired, proc, fences, tokenFaults,  \* TokenRefresh
  rec, accounts, worker, resume, authorized, past, begun, exchanged, fenced, changes,
  stops  \* DeviceEnrollment

\* A turn, a live command and a stop through a runtime that suspends and
\* crashes; one move in two chunks, two lost replies, one crash.
Ownership == INSTANCE OwnershipProofs WITH
  Turns <- {"t1"}, Lives <- {"l1"}, Reads <- {}, Resolves <- {}, Stops <- {"s1"},
  MaxInc <- 3, MaxCrashes <- 1, MaxIdle <- 2, crashes <- vesselCrashes,
  Transfers <- {t1}, Dests <- {d1}, Dest <- [t \in {t1} |-> d1], Submissions <- {c1},
  Chunks <- 2, MaxGiveUps <- 2, MaxFaults <- 1, MaxIncarnation <- 3, Suspends <- TRUE,
  NoTransfer <- NoMove, expired <- moveExpired, faults <- moveFaults

\* One move, two crashes.
Crashes == INSTANCE OwnershipProofs WITH
  Turns <- {}, Lives <- {}, Reads <- {}, Resolves <- {}, Stops <- {}, MaxInc <- 1,
  MaxCrashes <- 0, MaxIdle <- 0, crashes <- vesselCrashes,
  Transfers <- {t1}, Dests <- {d1}, Dest <- [t \in {t1} |-> d1], Submissions <- {c1},
  Chunks <- 1, MaxGiveUps <- 1, MaxFaults <- 2, MaxIncarnation <- 3, Suspends <- TRUE,
  NoTransfer <- NoMove, expired <- moveExpired, faults <- moveFaults

\* Two moves of one session to two destinations.
Race == INSTANCE OwnershipProofs WITH
  Turns <- {}, Lives <- {}, Reads <- {}, Resolves <- {}, Stops <- {}, MaxInc <- 1,
  MaxCrashes <- 0, MaxIdle <- 0, crashes <- vesselCrashes,
  Transfers <- {t1, t2}, Dests <- {d1, d2},
  Dest <- [t \in {t1, t2} |-> IF t = t1 THEN d1 ELSE d2], Submissions <- {}, Chunks <- 1,
  MaxGiveUps <- 1, MaxFaults <- 1, MaxIncarnation <- 2, Suspends <- TRUE,
  NoTransfer <- NoMove, expired <- moveExpired, faults <- moveFaults

\* Two invitations, two redemptions, one revocation, a writer that dies; two
\* requests, two identities, two grants that are revoked or rebound; two
\* processes share a login that expires, is replaced and is removed; two
\* enrollments of one alias, two workers.
Access == INSTANCE AccessProofs WITH
  Invites <- {i1, i2}, PairCmds <- {p1, p2}, RevokeCmds <- {r1}, MaxGrants <- 2,
  Limit <- 2, Lockout <- 1, Budget <- 1, Window <- 2, InviteTtl <- 1, GrantTtl <- 2,
  MaxClock <- 3, MaxExpected <- 2, MaxFaults <- 1, faults <- pairFaults,
  Attempts <- {"a1", "a2"}, Ids <- {"c1", "c2"}, Grants <- {"g1", "g2"},
  MaxRevision <- 2, MaxEpoch <- 2, MaxCrashes <- 1, crashes <- connectedCrashes,
  Procs <- {"p1", "p2"}, Logins <- {"l1", "l2"}, MaxTokens <- 3, MaxGen <- 2,
  MaxExpiries <- 1, MaxLosses <- 1, expired <- tokenExpired, losses <- tokenFaults,
  Enrollments <- {e1, e2}, Xai <- {e2}, AliasOf <- [e \in {e1, e2} |-> "alias"],
  Workers <- {"w1", "w2"}, MaxRetained <- 2, MaxActive <- 1, MaxAccounts <- 1,
  MaxCancels <- 1, MaxChanges <- 1, MaxStops <- 0

\* Three revocations of one grant, interrupted four times; two enrollments at
\* once through a restart.
Audit == INSTANCE AccessProofs WITH
  Invites <- {i1}, PairCmds <- {p1}, RevokeCmds <- {r1, r2, r3}, MaxGrants <- 2,
  Limit <- 3, Lockout <- 1, Budget <- 1, Window <- 2, InviteTtl <- 1, GrantTtl <- 1,
  MaxClock <- 1, MaxExpected <- 3, MaxFaults <- 4, faults <- pairFaults,
  Attempts <- {"a1"}, Ids <- {"c1"}, Grants <- {"g1"},
  MaxRevision <- 1, MaxEpoch <- 1, MaxCrashes <- 0, crashes <- connectedCrashes,
  Procs <- {"p1"}, Logins <- {"l1"}, MaxTokens <- 1, MaxGen <- 1, MaxExpiries <- 0,
  MaxLosses <- 0, expired <- tokenExpired, losses <- tokenFaults,
  Enrollments <- {e1, e2}, Xai <- {e2}, AliasOf <- [e \in {e1, e2} |-> "alias"],
  Workers <- {"w1"}, MaxRetained <- 2, MaxActive <- 2, MaxAccounts <- 1,
  MaxCancels <- 1, MaxChanges <- 1, MaxStops <- 1

\* Two aliases that compete for the one attempt allowed.
Capacity == INSTANCE AccessProofs WITH
  Invites <- {i1}, PairCmds <- {p1}, RevokeCmds <- {r1}, MaxGrants <- 1, Limit <- 1,
  Lockout <- 1, Budget <- 1, Window <- 1, InviteTtl <- 1, GrantTtl <- 1, MaxClock <- 0,
  MaxExpected <- 1, MaxFaults <- 0, faults <- pairFaults, Attempts <- {"a1"},
  Ids <- {"c1"}, Grants <- {"g1"}, MaxRevision <- 1, MaxEpoch <- 1, MaxCrashes <- 0,
  crashes <- connectedCrashes, Procs <- {"p1"}, Logins <- {"l1"}, MaxTokens <- 1,
  MaxGen <- 1, MaxExpiries <- 0, MaxLosses <- 0, expired <- tokenExpired,
  losses <- tokenFaults, Enrollments <- {e1, e2}, Xai <- {e2},
  AliasOf <- [e \in {e1, e2} |-> IF e = e1 THEN "one" ELSE "two"], Workers <- {"w1"},
  MaxRetained <- 2, MaxActive <- 1, MaxAccounts <- 1, MaxCancels <- 1, MaxChanges <- 0,
  MaxStops <- 1

vesselVars ==
  <<reg, evid, recv, sock, lock, guard, rt, susp, active, queue, held, conn, cinc, hold,
    pc, late, took, out, done, unfenced, vesselCrashes, idles>>
moveVars ==
  <<src, relay, sealed, files, exp, cour, net, dst, own, ran, moveExpired, giveUps,
    moveFaults>>
pairVars ==
  <<now, inv, revs, window, audit, file, op, reply, mintedFor, died, pairFaults>>
connectedVars ==
  <<record, epoch, bound, pins, derived, try, applied, connectedCrashes>>
tokenVars ==
  <<acct, login, pred, issued, sent, genLogin, tokenExpired, proc, fences, tokenFaults>>
enrollVars ==
  <<rec, accounts, worker, resume, authorized, past, begun, exchanged, fenced, changes,
    stops>>
vars == <<component, vesselVars, moveVars, pairVars, connectedVars, tokenVars, enrollVars>>

ASSUME ComponentBounds ==
  /\ Ownership!OwnershipAssumption
  /\ Ownership!MoveAssumption
  /\ Crashes!MoveAssumption
  /\ Race!MoveAssumption
  /\ Access!PairingAssumption
  /\ Audit!PairingAssumption
  /\ Access!ConnectedAssumption
  /\ Access!RefreshAssumption
  /\ Access!EnrollmentAssumption
  /\ Audit!EnrollmentAssumption
  /\ Capacity!EnrollmentAssumption

VesselAtRest ==
  /\ reg = Rest /\ evid = Rest /\ recv = Rest /\ sock = Rest /\ lock = Rest
  /\ guard = Rest /\ rt = Rest /\ susp = Rest /\ active = Rest /\ queue = Rest
  /\ held = Rest /\ conn = Rest /\ cinc = Rest /\ hold = Rest /\ pc = Rest
  /\ late = Rest /\ took = Rest /\ out = Rest /\ done = Rest /\ unfenced = Rest
  /\ vesselCrashes = Rest /\ idles = Rest
MoveAtRest ==
  /\ src = Rest /\ relay = Rest /\ sealed = Rest /\ files = Rest /\ exp = Rest
  /\ cour = Rest /\ net = Rest /\ dst = Rest /\ own = Rest /\ ran = Rest
  /\ moveExpired = Rest /\ giveUps = Rest /\ moveFaults = Rest
PairAtRest ==
  /\ now = Rest /\ inv = Rest /\ revs = Rest /\ window = Rest /\ audit = Rest
  /\ file = Rest /\ op = Rest /\ reply = Rest /\ mintedFor = Rest /\ died = Rest
  /\ pairFaults = Rest
ConnectedAtRest ==
  /\ record = Rest /\ epoch = Rest /\ bound = Rest /\ pins = Rest /\ derived = Rest
  /\ try = Rest /\ applied = Rest /\ connectedCrashes = Rest
TokenAtRest ==
  /\ acct = Rest /\ login = Rest /\ pred = Rest /\ issued = Rest /\ sent = Rest
  /\ genLogin = Rest /\ tokenExpired = Rest /\ proc = Rest /\ fences = Rest
  /\ tokenFaults = Rest
EnrollAtRest ==
  /\ rec = Rest /\ accounts = Rest /\ worker = Rest /\ resume = Rest
  /\ authorized = Rest /\ past = Rest /\ begun = Rest /\ exchanged = Rest
  /\ fenced = Rest /\ changes = Rest /\ stops = Rest

Init ==
  /\ component \in {"ownership", "move", "crashes", "race", "pairing", "audit",
                    "connected", "refresh", "enrollment", "restart", "capacity"}
  /\ CASE component = "ownership" -> Ownership!Init
       [] OTHER -> VesselAtRest
  /\ CASE component = "move" -> Ownership!MoveInit
       [] component = "crashes" -> Crashes!MoveInit
       [] component = "race" -> Race!MoveInit
       [] OTHER -> MoveAtRest
  /\ CASE component = "pairing" -> Access!PairInit
       [] component = "audit" -> Audit!PairInit
       [] OTHER -> PairAtRest
  /\ CASE component = "connected" -> Access!Init
       [] OTHER -> ConnectedAtRest
  /\ CASE component = "refresh" -> Access!RefreshInit
       [] OTHER -> TokenAtRest
  /\ CASE component = "enrollment" -> Access!EnrollInit
       [] component = "restart" -> Audit!EnrollInit
       [] component = "capacity" -> Capacity!EnrollInit
       [] OTHER -> EnrollAtRest

\* Every other part keeps its state.
Next ==
  \/ /\ component = "ownership" /\ Ownership!Next
     /\ UNCHANGED <<component, moveVars, pairVars, connectedVars, tokenVars, enrollVars>>
  \/ /\ component = "move" /\ Ownership!MoveNext
     /\ UNCHANGED <<component, vesselVars, pairVars, connectedVars, tokenVars,
                    enrollVars>>
  \/ /\ component = "crashes" /\ Crashes!MoveNext
     /\ UNCHANGED <<component, vesselVars, pairVars, connectedVars, tokenVars,
                    enrollVars>>
  \/ /\ component = "race" /\ Race!MoveNext
     /\ UNCHANGED <<component, vesselVars, pairVars, connectedVars, tokenVars,
                    enrollVars>>
  \/ /\ component = "pairing" /\ Access!PairNext
     /\ UNCHANGED <<component, vesselVars, moveVars, connectedVars, tokenVars,
                    enrollVars>>
  \/ /\ component = "audit" /\ Audit!PairNext
     /\ UNCHANGED <<component, vesselVars, moveVars, connectedVars, tokenVars,
                    enrollVars>>
  \/ /\ component = "connected" /\ Access!Next
     /\ UNCHANGED <<component, vesselVars, moveVars, pairVars, tokenVars, enrollVars>>
  \/ /\ component = "refresh" /\ Access!RefreshNext
     /\ UNCHANGED <<component, vesselVars, moveVars, pairVars, connectedVars, enrollVars>>
  \/ /\ component = "enrollment" /\ Access!EnrollNext
     /\ UNCHANGED <<component, vesselVars, moveVars, pairVars, connectedVars, tokenVars>>
  \/ /\ component = "restart" /\ Audit!EnrollNext
     /\ UNCHANGED <<component, vesselVars, moveVars, pairVars, connectedVars, tokenVars>>
  \/ /\ component = "capacity" /\ Capacity!EnrollNext
     /\ UNCHANGED <<component, vesselVars, moveVars, pairVars, connectedVars, tokenVars>>

Spec == Init /\ [][Next]_vars

-----------------------------------------------------------------------------

\* A command runs at most once over suspension, restart and recovery, a
\* refusal means it never ran, a session suspends only when idle, stop
\* evidence is written by a quiet process, and live input stays with the
\* owner it was meant for (routing.rs, recovery.rs, suspension.rs).
OwnershipSafety ==
  component = "ownership" => Ownership!OwnershipSafety

\* A session that moves has one owner at every moment, keeps its whole
\* history, runs a command once and starts once at its destination, over lost
\* replies, crashes and a competing move (transfer/source.rs,
\* transfer/destination.rs, helm admin/transfer.rs).
OwnerMoveSafety ==
  /\ component = "move" => Ownership!OwnerMoveSafety
  /\ component = "crashes" => Crashes!OwnerMoveSafety
  /\ component = "race" => Race!OwnerMoveSafety

\* An invitation yields one grant, a revoked device stays revoked, live
\* evidence outlives pruning, and the audit journal precedes every change and
\* tells the whole history, wherever the writer dies (pairing.rs,
\* pairing/audit.rs).
PairingSafety ==
  /\ component = "pairing" => Access!PairingSafety
  /\ component = "audit" => Audit!PairingSafety

\* One identity is one authority: what ran under a command was bound to the
\* caller that was admitted, and a refusal is definite
\* (access/connection.rs).
ConnectedSafety ==
  component = "connected" => Access!ConnectedSafety

\* A refresh token is never sent twice, what is offered was not spent, and a
\* process never gets the token of another login (chatgpt_oauth.rs,
\* accounts.rs).
TokenRefreshSafety ==
  component = "refresh" => Access!TokenRefreshSafety

\* Provider effects happen once, a fenced enrollment never starts, a
\* published account is one that succeeded, aliases are unique, attempts are
\* bounded and a shown code can still be used (accounts/device.rs).
EnrollmentSafety ==
  /\ component = "enrollment" => Access!EnrollmentSafety
  /\ component = "restart" => Audit!EnrollmentSafety
  /\ component = "capacity" => Capacity!EnrollmentSafety

\* No step hands out a dead credential or recreates one, moves a pin or
\* carries a command past it, commits a late token or brings back a removed
\* account, or reopens a closed enrollment.
AuthoritySteps ==
  [][/\ component = "pairing" => Access!PairSteps
     /\ component = "audit" => Audit!PairSteps
     /\ component = "connected" => Access!Steps
     /\ component = "refresh" => Access!RefreshSteps
     /\ component = "enrollment" => Access!ClosedIsFinal
     /\ component = "restart" => Audit!ClosedIsFinal
     /\ component = "capacity" => Capacity!ClosedIsFinal]_vars
=============================================================================
