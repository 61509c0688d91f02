------------------------- MODULE ConnectedAuthority -------------------------
(***************************************************************************)
(* A command that arrives with a workspace credential                       *)
(* (src/vessel/src/process/access/connection.rs, store.rs,                  *)
(* execution_epoch.rs).  The Vessel authenticates it against the grant      *)
(* record, retains which grant and revision the command id belongs to,      *)
(* derives a session grant pinned to the session's execution identity,      *)
(* dispatches, and looks at the grant once more before it answers.  None of *)
(* this is under the pairing lock: the owner's revocation replaces the      *)
(* record between any two of these steps, an administrator's transition     *)
(* changes the execution identity, and the Vessel may die.                  *)
(*                                                                         *)
(* Each attempt is a start of one session in an approved workspace; the     *)
(* holder of a credential repeats its command id until it has an answer.    *)
(***************************************************************************)
EXTENDS Naturals, FiniteSets, FiniteSetsExt

CONSTANTS Attempts,     \* requests in flight, retries included
          Ids,          \* command ids
          Grants,       \* connection grants
          MaxRevision,  \* bound on revocations of one grant
          MaxEpoch,     \* bound on changes of the execution identity
          MaxCrashes

ConnectedAssumption ==
    /\ IsFiniteSet(Attempts) /\ IsFiniteSet(Ids) /\ IsFiniteSet(Grants)
    /\ MaxRevision \in Nat \ {0} /\ MaxEpoch \in Nat \ {0} /\ MaxCrashes \in Nat

VARIABLES
    record,   \* access/connections/<grant>.json
    epoch,    \* the session's execution binding, as its digest
    bound,    \* access/connection-commands/<id>.json
    pins,     \* access/execution-epochs/<derived grant>.json
    derived,  \* access/grants/<derived grant>.json: the ids that exist
    try,      \* the attempts
    applied,  \* effects admitted by the runtime: id and authority (history)
    crashes

vars == <<record, epoch, bound, pins, derived, try, applied, crashes>>

Nobody == [grant |-> "nobody", revision |-> 0]
Fresh == [pc |-> "idle", id |-> "", as |-> Nobody, epoch |-> 0, sent |-> FALSE, end |-> ""]

DerivedIds == [grant : Grants, revision : 1..MaxRevision, epoch : 1..MaxEpoch]
Unpinned == 0

Init ==
    /\ record = [g \in Grants |-> [revision |-> 1, revoked |-> FALSE]]
    /\ epoch = 1
    /\ bound = [c \in Ids |-> Nobody]
    /\ pins = [d \in DerivedIds |-> Unpinned]
    /\ derived = {}
    /\ try = [a \in Attempts |-> Fresh]
    /\ applied = {}
    /\ crashes = 0

\* current_connection: the saved record is still the one that was presented.
Current(as) == ~record[as.grant].revoked /\ record[as.grant].revision = as.revision

DerivedId(a) == [grant |-> try[a].as.grant, revision |-> try[a].as.revision,
                 epoch |-> try[a].epoch]

Go(a, pc) == try' = [try EXCEPT ![a].pc = pc]
End(a, what) == try' = [try EXCEPT ![a].pc = "done", ![a].end = what]

\* authenticate_connection: a first request, or the same one sent again.
Authenticate(a, c, g) ==
    LET as == [grant |-> g, revision |-> record[g].revision] IN
    /\ try[a].pc = "idle"
    /\ try' = [try EXCEPT ![a] = IF Current(as)
                 THEN [Fresh EXCEPT !.pc = "bind", !.id = c, !.as = as]
                 ELSE [Fresh EXCEPT !.pc = "done", !.id = c, !.as = as, !.end = "refused"]]
    /\ UNCHANGED <<record, epoch, bound, pins, derived, applied, crashes>>

\* Mutation: the retained binding is replaced by whoever holds the id now.
BindLatest(a) ==
    LET t == try[a] IN
    /\ t.pc = "bind"
    /\ Current(t.as)
    /\ bound' = [bound EXCEPT ![t.id] = t.as]
    /\ Go(a, "epoch")
    /\ UNCHANGED <<record, epoch, pins, derived, applied, crashes>>

\* Mutation: the binding names the revision after the presented one.
BindNext(a) ==
    LET t == try[a] IN
    /\ t.pc = "bind"
    /\ Current(t.as)
    /\ bound[t.id] \in {Nobody, t.as}
    /\ bound' = [bound EXCEPT ![t.id] = [t.as EXCEPT !.revision = MaxRevision + @]]
    /\ Go(a, "epoch")
    /\ UNCHANGED <<record, epoch, pins, derived, applied, crashes>>

\* bind_connection_operation, under the registration lock: the first authority
\* that presents a command id keeps it.
Bind(a) ==
    LET t == try[a] IN
    /\ t.pc = "bind"
    /\ Current(t.as)
    /\ bound[t.id] \in {Nobody, t.as}
    /\ bound' = [bound EXCEPT ![t.id] = t.as]
    /\ Go(a, "epoch")
    /\ UNCHANGED <<record, epoch, pins, derived, applied, crashes>>

\* connection_session, first half: the derived id is computed from the grant,
\* its revision and the execution identity of this moment.
DeriveId(a) ==
    /\ try[a].pc = "epoch"
    /\ Current(try[a].as)
    /\ try' = [try EXCEPT ![a].epoch = epoch,
                 ![a].pc = IF [DerivedId(a) EXCEPT !.epoch = epoch] \in derived
                           THEN "check" ELSE "pin"]
    /\ UNCHANGED <<record, epoch, bound, pins, derived, applied, crashes>>

\* Mutation: a pin is replaced instead of compared.
PinAnew(a) ==
    LET d == DerivedId(a) IN
    /\ try[a].pc = "pin"
    /\ pins' = [pins EXCEPT ![d] = epoch]
    /\ Go(a, "save")
    /\ UNCHANGED <<record, epoch, bound, derived, applied, crashes>>

\* execution_epoch::pin reads the identity again; a pin is never replaced.
Pin(a) ==
    LET d == DerivedId(a) IN
    /\ try[a].pc = "pin"
    /\ pins[d] \in {Unpinned, epoch}
    /\ pins' = [pins EXCEPT ![d] = epoch]
    /\ Go(a, "save")
    /\ UNCHANGED <<record, epoch, bound, derived, applied, crashes>>

SaveDerived(a) ==
    /\ try[a].pc = "save"
    /\ derived' = derived \cup {DerivedId(a)}
    /\ Go(a, "check")
    /\ UNCHANGED <<record, epoch, bound, pins, applied, crashes>>

\* Mutation: an existing derived grant is used as it is.
CheckedAlways(a) == TRUE

\* execution_epoch::check
EpochChecked(a) == pins[DerivedId(a)] = epoch

CheckEpoch(a) ==
    /\ try[a].pc = "check"
    /\ EpochChecked(a)
    /\ try' = [try EXCEPT ![a].pc = "send", ![a].epoch = epoch]
    /\ UNCHANGED <<record, epoch, bound, pins, derived, applied, crashes>>

\* Mutation: a derived grant pinned to another identity is waited for.
UnfitUnlessPinned(a) ==
    \/ try[a].pc \in {"bind", "epoch"} /\ ~Current(try[a].as)
    \/ try[a].pc = "bind" /\ bound[try[a].id] \notin {Nobody, try[a].as}
    \/ try[a].pc = "pin" /\ pins[DerivedId(a)] \notin {Unpinned, epoch}

\* A check before the dispatch ends the attempt: a definite refusal.
Unfit(a) ==
    \/ try[a].pc \in {"bind", "epoch"} /\ ~Current(try[a].as)
    \/ try[a].pc = "bind" /\ bound[try[a].id] \notin {Nobody, try[a].as}
    \/ try[a].pc = "pin" /\ pins[DerivedId(a)] \notin {Unpinned, epoch}
    \/ try[a].pc = "check" /\ ~EpochChecked(a)

Refuse(a) ==
    /\ Unfit(a)
    /\ End(a, "refused")
    /\ UNCHANGED <<record, epoch, bound, pins, derived, applied, crashes>>

\* start_initialized with the original request: the effect happens.
Dispatch(a) ==
    LET t == try[a] IN
    /\ t.pc = "send"
    /\ applied' = applied \cup {[id |-> t.id, as |-> t.as]}
    /\ try' = [try EXCEPT ![a].pc = "reply", ![a].sent = TRUE]
    /\ UNCHANGED <<record, epoch, bound, pins, derived, crashes>>

\* Mutation: a grant revoked meanwhile turns the answer into a refusal.
FinishRefused(a) ==
    /\ try[a].pc = "reply"
    /\ End(a, IF Current(try[a].as) THEN "answered" ELSE "refused")
    /\ UNCHANGED <<record, epoch, bound, pins, derived, applied, crashes>>

\* finish_connected_reply: withheld authority makes the outcome unknown.
FinishReply(a) ==
    /\ try[a].pc = "reply"
    /\ End(a, IF Current(try[a].as) THEN "answered" ELSE "unknown")
    /\ UNCHANGED <<record, epoch, bound, pins, derived, applied, crashes>>

\* The Vessel dies: every attempt under way loses its connection, and the
\* client must assume that anything may have happened.
Crash ==
    /\ crashes < MaxCrashes
    /\ crashes' = crashes + 1
    /\ try' = [a \in Attempts |-> IF try[a].pc \in {"idle", "done"} THEN try[a]
                                  ELSE [try[a] EXCEPT !.pc = "done", !.end = "unknown"]]
    /\ UNCHANGED <<record, epoch, bound, pins, derived, applied>>

\* pairing::revoke replaces the record.
Revoke(g) ==
    /\ record[g].revision < MaxRevision
    /\ record' = [record EXCEPT ![g] = [revision |-> @.revision + 1, revoked |-> TRUE]]
    /\ UNCHANGED <<epoch, bound, pins, derived, try, applied, crashes>>

\* A reviewed transition gives the session another execution identity.
ChangeIdentity ==
    /\ epoch < MaxEpoch
    /\ epoch' = epoch + 1
    /\ UNCHANGED <<record, bound, pins, derived, try, applied, crashes>>

Serve(a) ==
    \/ Bind(a) \/ DeriveId(a) \/ Pin(a) \/ SaveDerived(a) \/ CheckEpoch(a)
    \/ Refuse(a) \/ Dispatch(a) \/ FinishReply(a)

Next ==
    \/ \E a \in Attempts, c \in Ids, g \in Grants : Authenticate(a, c, g)
    \/ \E a \in Attempts : Serve(a)
    \/ \E g \in Grants : Revoke(g)
    \/ ChangeIdentity \/ Crash

Spec == Init /\ [][Next]_vars

\* Every admitted attempt is served to its end.
Fairness == \A a \in Attempts : WF_vars(Serve(a))
FairSpec == Spec /\ Fairness

-----------------------------------------------------------------------------

Authority == [grant : Grants, revision : 1..MaxRevision]

TypeOK ==
    /\ record \in [Grants -> [revision : 1..MaxRevision, revoked : BOOLEAN]]
    /\ epoch \in 1..MaxEpoch
    /\ bound \in [Ids -> Authority \cup {Nobody}]
    /\ pins \in [DerivedIds -> 0..MaxEpoch]
    /\ derived \subseteq DerivedIds
    /\ applied \subseteq [id : Ids, as : Authority]
    /\ \A a \in Attempts :
         /\ try[a].pc \in {"idle", "bind", "epoch", "pin", "save", "check", "send", "reply", "done"}
         /\ try[a].end \in {"", "answered", "refused", "unknown"}

\* One command id has effects under one grant at one revision only: another
\* credential, or the same one after it changed, cannot replay it, not even
\* across a crash between the binding and the effect (connection.rs 560-591).
OneAuthorityPerCommand ==
    \A e, f \in applied : e.id = f.id => e.as = f.as

\* An effect is always covered by a retained binding, so that its receipt can
\* be asked for later (connection.rs 560-591).
EffectIsBound ==
    \A e \in applied : bound[e.id] = e.as

\* "Refused" is said only by an attempt that had no effect; one that reached
\* the runtime, or may have, is answered or unknown (connection.rs 499-506).
RefusalIsDefinite ==
    \A a \in Attempts : try[a].end = "refused" => ~try[a].sent

\* A pin is written once: the identity a derived grant was first pinned to is
\* the only one it ever works for (execution_epoch.rs 100-131).
PinIsForever ==
    \A d \in DerivedIds : pins[d] # Unpinned => pins'[d] = pins[d]

\* No derived grant carries a command into an execution identity other than
\* the one it was pinned to, although the identity may change between the two
\* reads of it (connection.rs 593-683, execution_epoch.rs 133-157).
EpochHonoured ==
    \A a \in Attempts : (try[a].pc = "check" /\ try'[a].pc = "send") =>
      \E d \in derived : /\ d.grant = try[a].as.grant /\ d.revision = try[a].as.revision
                         /\ pins[d] = epoch

\* Every attempt gets an answer, a refusal or an unknown outcome.
EveryAttemptEnds ==
    \A a \in Attempts : (try[a].pc = "bind") ~> (try[a].pc = "done")

\* A command keeps the authority it was first bound to, and its refusal is final.
ConnectedSafety == TypeOK /\ OneAuthorityPerCommand /\ EffectIsBound /\ RefusalIsDefinite

\* No step moves a pin or carries a command past it: [][Steps]_vars.
Steps == PinIsForever /\ EpochHonoured
=============================================================================
