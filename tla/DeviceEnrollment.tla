-------------------------- MODULE DeviceEnrollment --------------------------
(***************************************************************************)
(* Device sign-in of a new account (src/voyage/src/accounts/device.rs) and  *)
(* the workers that drive it (src/vessel/src/process/accounts.rs).  The     *)
(* enrollment record is durable and every change of it is one transaction   *)
(* on the account registry; the provider is called between transactions.    *)
(* A client may send its start twice, ask how it ended, cancel, and lose    *)
(* its authority; several workers may drive one enrollment; the host may    *)
(* stop at any point, and after a restart takes up what is still active.    *)
(***************************************************************************)
EXTENDS Naturals, FiniteSets

CONSTANTS Enrollments,
          Xai,           \* the ones at a provider that polls and exchanges in one call
          AliasOf,       \* enrollment -> alias asked for
          Workers,
          MaxRetained,   \* 64 records
          MaxActive,     \* 8 attempts
          MaxAccounts,   \* 64 accounts
          MaxCancels,    \* 16 receipts
          MaxChanges,    \* bound on changes of authority
          MaxStops       \* bound on host restarts

EnrollmentAssumption ==
    /\ IsFiniteSet(Enrollments) /\ Xai \subseteq Enrollments
    /\ {MaxRetained, MaxActive, MaxAccounts, MaxCancels, MaxChanges, MaxStops} \subseteq Nat

Active == {"starting", "pending", "exchanging"}
States == {"none", "succeeded", "cancelled", "expired", "denied", "uncertain"} \cup Active

VARIABLES
    rec,         \* the registry's enrollment records
    accounts,    \* published accounts: alias and where it came from
    worker,
    resume,      \* active at the last restart and not taken up yet
    authorized,  \* enrollments whose actor has authority now
    past,        \* enrollments whose expiry has passed
    begun, exchanged,  \* provider calls made (history)
    fenced,      \* told "cancelled, nothing happened" (history)
    changes, stops

enrollVars == <<rec, accounts, worker, resume, authorized, past, begun, exchanged,
                fenced, changes, stops>>
world == <<resume, authorized, past, fenced, changes, stops>>

NewRecord(state, effects) ==
    [state |-> state, device |-> FALSE, polling |-> FALSE, effects |-> effects, cancels |-> 0]
NoRecord == NewRecord("none", FALSE)
IdleWorker == [pc |-> "idle"]

EnrollInit ==
    /\ rec = [e \in Enrollments |-> NoRecord]
    /\ accounts = {}
    /\ worker = [w \in Workers |-> IdleWorker]
    /\ resume = {}
    /\ authorized = Enrollments
    /\ past = {}
    /\ begun = [e \in Enrollments |-> 0]
    /\ exchanged = [e \in Enrollments |-> 0]
    /\ fenced = {}
    /\ changes = 0 /\ stops = 0

\* Mutation: only an enrollment that waits for the user expires.
ExpirePendingOnly(e) ==
    IF e \in past /\ rec[e].state = "pending"
    THEN [rec[e] EXCEPT !.state = "expired", !.device = FALSE] ELSE rec[e]

\* expire: the record as of now.
Expire(e) ==
    IF e \notin past THEN rec[e]
    ELSE CASE rec[e].state \in {"starting", "exchanging"} ->
                [rec[e] EXCEPT !.state = "uncertain", !.polling = FALSE, !.device = FALSE]
           [] rec[e].state = "pending" ->
                [rec[e] EXCEPT !.state = "expired", !.device = FALSE]
           [] OTHER -> rec[e]

Retained == {e \in Enrollments : rec[e].state # "none"}

\* alias_reserved
AliasReserved(alias, own) ==
    \E e \in Enrollments \ own : AliasOf[e] = alias /\ rec[e].state \in Active \cup {"uncertain"}

\* Mutation: a new account only looks at the accounts there are.
MayInsertOverReservation(alias, own) ==
    /\ Cardinality(accounts) < MaxAccounts
    /\ \A a \in accounts : a.alias # alias

\* insert
MayInsert(alias, own) ==
    /\ Cardinality(accounts) < MaxAccounts
    /\ \A a \in accounts : a.alias # alias
    /\ ~AliasReserved(alias, own)

-----------------------------------------------------------------------------
(* Requests                                                                 *)

\* Mutation: a start only looks for its alias among the accounts.
AdmissibleAlias(records, e) ==
    /\ Cardinality(Retained) < MaxRetained
    /\ Cardinality({x \in Enrollments : records[x].state \in Active}) < MaxActive
    /\ \A a \in accounts : a.alias # AliasOf[e]

\* Mutation: the attempt limit is off by one.
AdmissibleOneMore(records, e) ==
    /\ Cardinality(Retained) < MaxRetained
    /\ Cardinality({x \in Enrollments : records[x].state \in Active}) <= MaxActive
    /\ \A a \in accounts : a.alias # AliasOf[e]
    /\ \A x \in Enrollments : AliasOf[x] = AliasOf[e] =>
         records[x].state \notin Active \cup {"uncertain"}

\* What start requires of the registry for a new enrollment.
Admissible(records, e) ==
    /\ Cardinality(Retained) < MaxRetained
    /\ Cardinality({x \in Enrollments : records[x].state \in Active}) < MaxActive
    /\ \A a \in accounts : a.alias # AliasOf[e]
    /\ \A x \in Enrollments : AliasOf[x] = AliasOf[e] =>
         records[x].state \notin Active \cup {"uncertain"}

\* start, first transaction: a known enrollment is only driven on; a new one is
\* on disk as starting before the provider hears of it.
Start(w, e) ==
    LET records == [x \in Enrollments |-> Expire(x)] IN
    /\ worker[w].pc = "idle"
    /\ e \in authorized
    /\ \/ /\ rec[e].state # "none"
          /\ rec' = records
          /\ worker' = [worker EXCEPT ![w] = [pc |-> "run", e |-> e]]
       \/ /\ rec[e].state = "none"
          /\ Admissible(records, e)
          /\ rec' = [records EXCEPT ![e] = NewRecord("starting", TRUE)]
          /\ worker' = [worker EXCEPT ![w] = [pc |-> "begin", e |-> e]]
    /\ UNCHANGED <<accounts, begun, exchanged, world>>

\* Mutation: an unknown enrollment is answered and not recorded.
ResolveUnrecorded(e) ==
    /\ e \in authorized
    /\ IF rec[e].state # "none"
       THEN rec' = [rec EXCEPT ![e] = Expire(e)] /\ UNCHANGED fenced
       ELSE UNCHANGED rec /\ fenced' = fenced \cup {e}
    /\ UNCHANGED <<accounts, worker, resume, authorized, past, begun, exchanged, changes, stops>>

\* resolve: an unknown enrollment is closed, and the answer says nothing happened.
Resolve(e) ==
    /\ e \in authorized
    /\ \/ /\ rec[e].state # "none"
          /\ rec' = [rec EXCEPT ![e] = Expire(e)]
          /\ UNCHANGED fenced
       \/ /\ rec[e].state = "none"
          /\ Cardinality(Retained) < MaxRetained
          /\ rec' = [rec EXCEPT ![e] = NewRecord("cancelled", FALSE)]
          /\ fenced' = fenced \cup {e}
    /\ UNCHANGED <<accounts, worker, resume, authorized, past, begun, exchanged, changes, stops>>

\* status: the read applies the expiry too.
Status(e) ==
    /\ e \in authorized /\ rec[e].state # "none"
    /\ rec' = [rec EXCEPT ![e] = Expire(e)]
    /\ UNCHANGED <<accounts, worker, begun, exchanged, world>>

\* Mutation: the code is shown for as long as the enrollment is being worked on.
ShowsCodeWhileWorking(e) ==
    rec[e].state \in Active /\ e \notin past /\ rec[e].device

\* What status returns a user code for.
ShowsCode(e) ==
    LET r == Expire(e) IN
    r.device /\ (r.state = "pending" \/ (r.state = "exchanging" /\ r.polling))

\* Mutation: a cancelled enrollment keeps its device code.
CancelKeepsDevice(e, again) ==
    /\ e \in authorized /\ rec[e].state # "none"
    /\ IF again THEN rec[e].cancels > 0 ELSE rec[e].cancels < MaxCancels
    /\ rec' = [rec EXCEPT
         ![e].cancels = IF again THEN @ ELSE @ + 1,
         ![e].state = IF @ = "succeeded" THEN @ ELSE "cancelled"]
    /\ UNCHANGED <<accounts, worker, begun, exchanged, world>>

\* cancel, under a new command or repeated under a known one.
Cancel(e, again) ==
    /\ e \in authorized /\ rec[e].state # "none"
    /\ IF again THEN rec[e].cancels > 0 ELSE rec[e].cancels < MaxCancels
    /\ rec' = [rec EXCEPT
         ![e].cancels = IF again THEN @ ELSE @ + 1,
         ![e].state = IF @ = "succeeded" THEN @ ELSE "cancelled",
         ![e].device = IF rec[e].state = "succeeded" THEN @ ELSE FALSE]
    /\ UNCHANGED <<accounts, worker, begun, exchanged, world>>

\* The host owner adds an account of his own.
AddAccount(alias) ==
    /\ MayInsert(alias, {})
    /\ accounts' = accounts \cup {[alias |-> alias, by |-> {}]}
    /\ UNCHANGED <<rec, worker, begun, exchanged, world>>

-----------------------------------------------------------------------------
(* A worker                                                                 *)

Goto(w, next) == worker' = [worker EXCEPT ![w] = next]
At(w, pc) == worker[w].pc = pc

\* Authority is asked once more before the provider is.
BeginRevoked(w) ==
    /\ At(w, "begin") /\ worker[w].e \notin authorized
    /\ rec' = [rec EXCEPT ![worker[w].e].state = "cancelled", ![worker[w].e].device = FALSE]
    /\ Goto(w, [pc |-> "run", e |-> worker[w].e])
    /\ UNCHANGED <<accounts, begun, exchanged, world>>

\* begin_device: a code, or an error, a timeout or an answer that is not usable.
BeginDevice(w) ==
    /\ At(w, "begin") /\ worker[w].e \in authorized
    /\ begun' = [begun EXCEPT ![worker[w].e] = @ + 1]
    /\ \E got \in {"device", "failed"} :
         Goto(w, [pc |-> "begun", e |-> worker[w].e, got |-> got])
    /\ UNCHANGED <<rec, accounts, exchanged, world>>

\* Mutation: the answer is applied whatever became of the enrollment.
BegunBlind(w) ==
    LET e == worker[w].e IN
    /\ At(w, "begun")
    /\ rec' = [rec EXCEPT ![e].state = IF worker[w].got = "device" THEN "pending" ELSE "uncertain",
                          ![e].device = worker[w].got = "device"]
    /\ Goto(w, [pc |-> "run", e |-> e])
    /\ UNCHANGED <<accounts, begun, exchanged, world>>

\* start, last transaction.
Begun(w) ==
    LET e == worker[w].e IN
    /\ At(w, "begun")
    /\ \/ rec[e].state # "starting" /\ UNCHANGED rec
       \/ /\ rec[e].state = "starting" /\ e \notin authorized
          /\ rec' = [rec EXCEPT ![e].state = "cancelled"]
       \/ /\ rec[e].state = "starting" /\ e \in authorized
          /\ \/ /\ worker[w].got = "device"
                /\ rec' = [rec EXCEPT ![e].state = "pending", ![e].device = TRUE]
             \/ /\ worker[w].got # "device"
                /\ rec' = [rec EXCEPT ![e].state = "uncertain"]
    /\ Goto(w, [pc |-> "run", e |-> e])
    /\ UNCHANGED <<accounts, begun, exchanged, world>>

\* drive, first transaction: without authority the enrollment is closed; one
\* that waits for the user is claimed when its poll is due.  run ends with the
\* enrollment.
Drive(w) ==
    LET e == worker[w].e
        r == Expire(e)
    IN
    /\ At(w, "run")
    /\ \/ /\ e \notin authorized
          /\ rec' = IF rec[e].state = "succeeded" THEN rec
                    ELSE [rec EXCEPT ![e].state = "cancelled", ![e].device = FALSE]
          /\ Goto(w, IdleWorker)
       \/ /\ e \in authorized /\ r.state = "pending"
          /\ rec' = [rec EXCEPT ![e] = [r EXCEPT !.state = "exchanging", !.polling = TRUE]]
          /\ Goto(w, [pc |-> "poll", e |-> e])
       \/ /\ e \in authorized /\ r.state \notin Active
          /\ rec' = [rec EXCEPT ![e] = r]
          /\ Goto(w, IdleWorker)
    /\ UNCHANGED <<accounts, begun, exchanged, world>>

\* The provider's answer to a poll.
Poll(w) ==
    LET e == worker[w].e IN
    /\ At(w, "poll")
    /\ \/ e \notin Xai /\ Goto(w, [pc |-> "recheck", e |-> e])
       \/ \E got \in {"pending", "denied", "expired", "failed"}
                     \cup (IF e \in Xai THEN {"tokens"} ELSE {}) :
            Goto(w, [pc |-> "finish", e |-> e, got |-> got, phase |-> "poll"])
    /\ UNCHANGED <<rec, accounts, begun, exchanged, world>>

\* A late grant is not exchanged after cancellation, expiry or revocation.
Recheck(w) ==
    LET e == worker[w].e
        over == [pc |-> "finish", e |-> e, got |-> "failed", phase |-> "poll"]
        closed(state) == rec' = [rec EXCEPT ![e].state = state, ![e].device = FALSE] /\ Goto(w, over)
    IN
    /\ At(w, "recheck")
    /\ CASE rec[e].state # "exchanging" -> UNCHANGED rec /\ Goto(w, over)
         [] rec[e].state = "exchanging" /\ e \notin authorized -> closed("cancelled")
         [] rec[e].state = "exchanging" /\ e \in authorized /\ e \in past -> closed("expired")
         [] OTHER -> /\ rec' = [rec EXCEPT ![e].polling = FALSE]
                     /\ Goto(w, [pc |-> "exchange", e |-> e])
    /\ UNCHANGED <<accounts, begun, exchanged, world>>

\* exchange_device_grant; an unavailable provider may word its error like a poll.
ExchangeGrant(w) ==
    LET e == worker[w].e IN
    /\ At(w, "exchange")
    /\ exchanged' = [exchanged EXCEPT ![e] = @ + 1]
    /\ \E got \in {"tokens", "pending", "failed"} :
         Goto(w, [pc |-> "finish", e |-> e, got |-> got, phase |-> "exchange"])
    /\ UNCHANGED <<rec, accounts, begun, world>>

\* Mutation: an answer that reads as pending is polled again in either phase.
PollAgainAnyPhase(w) == worker[w].got = "pending"

\* Only a poll is repeated.
PollAgain(w) == worker[w].got = "pending" /\ worker[w].phase = "poll"

\* Mutation: the result is published without a look at the enrollment.
FinishBlind(w) ==
    LET e == worker[w].e IN
    /\ At(w, "finish")
    /\ worker[w].got = "tokens" /\ MayInsert(AliasOf[e], {e})
    /\ rec' = [rec EXCEPT ![e].state = IF @ = "cancelled" THEN @ ELSE "succeeded",
                          ![e].device = FALSE]
    /\ accounts' = accounts \cup {[alias |-> AliasOf[e], by |-> {e}]}
    /\ Goto(w, [pc |-> "run", e |-> e])
    /\ UNCHANGED <<begun, exchanged, world>>

\* drive, last transaction: cancellation and publication share it.
Finish(w) ==
    LET e == worker[w].e
        to(state) == [rec EXCEPT ![e].state = state, ![e].polling = FALSE, ![e].device = FALSE]
        got == worker[w].got
    IN
    /\ At(w, "finish")
    /\ Goto(w, [pc |-> "run", e |-> e])
    /\ UNCHANGED <<begun, exchanged, world>>
    /\ \/ /\ rec[e].state # "exchanging"
          /\ UNCHANGED <<rec, accounts>>
       \/ /\ rec[e].state = "exchanging" /\ e \notin authorized
          /\ rec' = [rec EXCEPT ![e].state = "cancelled", ![e].device = FALSE]
          /\ UNCHANGED accounts
       \/ /\ rec[e].state = "exchanging" /\ e \in authorized
          /\ \/ /\ got = "tokens" /\ e \notin past /\ MayInsert(AliasOf[e], {e})
                /\ accounts' = accounts \cup {[alias |-> AliasOf[e], by |-> {e}]}
                /\ rec' = to("succeeded")
             \/ /\ got = "tokens" /\ e \notin past /\ ~MayInsert(AliasOf[e], {e})
                /\ rec' = to("uncertain") /\ UNCHANGED accounts
             \/ /\ got = "tokens" /\ e \in past
                /\ rec' = to("expired") /\ UNCHANGED accounts
             \/ /\ PollAgain(w)
                /\ rec' = IF e \in past THEN to("expired")
                          ELSE [rec EXCEPT ![e].state = "pending", ![e].polling = FALSE]
                /\ UNCHANGED accounts
             \/ /\ got \in {"denied", "expired"}
                /\ rec' = to(got) /\ UNCHANGED accounts
             \/ /\ got \in {"failed", "pending"} /\ ~PollAgain(w)
                /\ rec' = to("uncertain") /\ UNCHANGED accounts

-----------------------------------------------------------------------------
(* The host                                                                 *)

\* The expiry of a started enrollment passes.
ClockPasses(e) ==
    /\ rec[e].state # "none" /\ e \notin past
    /\ past' = past \cup {e}
    /\ UNCHANGED <<rec, accounts, worker, resume, authorized, begun, exchanged, fenced, changes, stops>>

AuthorityChanges(e) ==
    /\ changes < MaxChanges
    /\ changes' = changes + 1
    /\ authorized' = IF e \in authorized THEN authorized \ {e} ELSE authorized \cup {e}
    /\ UNCHANGED <<rec, accounts, worker, resume, past, begun, exchanged, fenced, stops>>

\* The host stops; at the next start resume_enrollments lists what is active.
Restart ==
    /\ stops < MaxStops
    /\ stops' = stops + 1
    /\ rec' = [e \in Enrollments |-> Expire(e)]
    /\ resume' = {e \in Enrollments : Expire(e).state \in Active}
    /\ worker' = [w \in Workers |-> IdleWorker]
    /\ UNCHANGED <<accounts, authorized, past, begun, exchanged, fenced, changes>>

\* enrollment_worker for a listed enrollment: it is driven, never started again.
Resume(w, e) ==
    /\ e \in resume /\ worker[w].pc = "idle"
    /\ resume' = resume \ {e}
    /\ Goto(w, [pc |-> "run", e |-> e])
    /\ UNCHANGED <<rec, accounts, authorized, past, begun, exchanged, fenced, changes, stops>>

Work(w) ==
    \/ BeginRevoked(w) \/ BeginDevice(w) \/ Begun(w) \/ Drive(w) \/ Poll(w)
    \/ Recheck(w) \/ ExchangeGrant(w) \/ Finish(w)

EnrollNext ==
    \/ \E e \in Enrollments :
         \/ Resolve(e) \/ Status(e) \/ ClockPasses(e) \/ AuthorityChanges(e)
         \/ \E again \in BOOLEAN : Cancel(e, again)
         \/ \E w \in Workers : Start(w, e) \/ Resume(w, e)
         \/ AddAccount(AliasOf[e])
    \/ \E w \in Workers : Work(w)
    \/ Restart

EnrollSpec == EnrollInit /\ [][EnrollNext]_enrollVars

\* The clock advances, every provider call is bounded by a timeout, and the
\* supervisor keeps its workers and takes up what it listed.
EnrollFairness ==
    /\ \A w \in Workers : WF_enrollVars(Work(w))
    /\ \A e \in Enrollments : WF_enrollVars(ClockPasses(e))
    /\ \A e \in Enrollments : SF_enrollVars(\E w \in Workers : Resume(w, e))

EnrollFairSpec == EnrollSpec /\ EnrollFairness

-----------------------------------------------------------------------------

EnrollTypeOK ==
    /\ rec \in [Enrollments -> [state : States, device : BOOLEAN, polling : BOOLEAN,
                                effects : BOOLEAN, cancels : 0..MaxCancels]]
    /\ \A e \in Enrollments :
         /\ rec[e].state = "pending" => rec[e].device
         /\ rec[e].device => rec[e].state \in {"pending", "exchanging"}
    /\ resume \subseteq Enrollments /\ authorized \subseteq Enrollments /\ past \subseteq Enrollments

\* Neither the code request nor the exchange of the grant is ever made twice for
\* an enrollment, with two workers driving it, a repeated start, or a restart in
\* between ("Lost responses are never replayed", device.rs 240; "Duplicate
\* drivers are harmless", vessel/src/process/accounts.rs 644).
EffectsOnce ==
    \A e \in Enrollments : begun[e] <= 1 /\ exchanged[e] <= 1

\* A client that was told "cancelled, no effects" was told the truth, and a start
\* that arrives later does not make it a lie (resolve, device.rs 79).
FencedNeverStarts ==
    \A e \in fenced : begun[e] = 0 /\ exchanged[e] = 0

\* An account exists for an enrollment exactly when the enrollment says so:
\* cancel and publication cannot both win.
PublishedIsSucceeded ==
    \A e \in Enrollments :
        rec[e].state = "succeeded" <=> \E a \in accounts : a.by = {e}

\* An alias names one account, and nobody else can take the alias of an
\* enrollment that may still publish or whose outcome is unknown.
AliasUnique ==
    /\ \A a, b \in accounts : a.alias = b.alias => a = b
    /\ \A e \in Enrollments : rec[e].state \in Active \cup {"uncertain"} =>
         /\ \A a \in accounts : a.alias # AliasOf[e]
         /\ \A x \in Enrollments \ {e} : AliasOf[x] = AliasOf[e] =>
              rec[x].state \notin Active \cup {"uncertain"}

\* At most MaxActive attempts are under way.
AttemptsBounded ==
    Cardinality({e \in Enrollments : rec[e].state \in Active}) <= MaxActive

\* A code is only shown while the user can still act on it: not once the grant
\* was exchanged, and not after the expiry.
CodeStillUsable ==
    \A e \in Enrollments : ShowsCode(e) => exchanged[e] = 0 /\ e \notin past

\* An enrollment that was cancelled stays cancelled, and one that succeeded
\* stays so, whatever answer of the provider comes in afterwards
\* ([][ClosedIsFinal]_enrollVars).
ClosedIsFinal ==
    \A e \in Enrollments :
      rec[e].state \in {"cancelled", "succeeded"} => rec'[e].state = rec[e].state

\* Every enrollment comes to an end, with nobody asking for its status and
\* through restarts ("observed until expiry, never replayed", device.rs 355).
EnrollmentEnds ==
    \A e \in Enrollments : (rec[e].state \in Active) ~> (rec[e].state \notin Active)

\* An enrollment acts on the provider once, ends in one way and reserves its alias
\* until it does (accounts/device.rs).
EnrollmentSafety ==
  /\ EnrollTypeOK /\ EffectsOnce /\ FencedNeverStarts /\ PublishedIsSucceeded
  /\ AliasUnique /\ AttemptsBounded /\ CodeStillUsable
=============================================================================
