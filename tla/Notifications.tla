--------------------------- MODULE Notifications ---------------------------
(***************************************************************************)
(* Attention notifications.  The owner journal keeps a bounded ring of     *)
(* metadata events; a courier task of the supervisor reads it page by      *)
(* page for each destination and publishes what the recipient consented    *)
(* to into a durable inbox, at most once per source event.  Recipients     *)
(* page through the inbox, settle receipts and open entries; the owner,    *)
(* the clock, grants and the supervisor change under the courier's reads.  *)
(***************************************************************************)
EXTENDS Integers, Sequences, FiniteSets, FiniteSetsExt, SequencesExt

CONSTANTS Dests,        \* destinations
          Readers,      \* destinations whose recipients page and settle
          Tests,        \* command ids of synthetic tests
          Streams,      \* what the courier reads: "owner", "budget"
          Sorts,        \* what an owner event is, see Event
          Capacity,     \* slots of the owner ring (256)
          PageLimit,    \* events per courier read (64)
          InboxLimit,   \* entries per inbox page
          MaxFailures,  \* failed attempts before delivery stops (5)
          MaxRows,      \* lifetime events of a destination (1024)
          Ttl,          \* notification_ttl_ms
          DecisionTtl,  \* lifetime of an owner's decision request
          Lifetimes,    \* destination lifetimes that may be configured
          MaxTime, MaxLog, MaxInc, MaxBacks, MaxCrashes, MaxOpens
                        \* bounds: clock, events, incarnations, rollbacks,
                        \* supervisor crashes, opened notifications

StreamsKnown == Streams \subseteq {"owner", "budget"}
BoundsPositive ==
  {Capacity, PageLimit, InboxLimit, MaxFailures, Ttl, DecisionTtl} \subseteq Nat \ {0}

\* What delivery tells apart of an owner event: an "outcome" the destination
\* configured, a "decision" request (which has an expiry of its own), one that
\* is "unwanted" (another kind or another session), and one "unattributed"
\* (no incarnation or no creation time).
Event == [sort : Sorts, created : 0 .. MaxTime, inc : 1 .. MaxInc]
Never == -1
Idle == [pc |-> "idle"]
NoOpen == [pc |-> "none"]

VARIABLES
  now,      \* host clock
  peak,     \* ghost: highest clock ever
  owner,    \* registered incarnation and what became of its process
  log,      \* all owner events; the last Capacity are in the ring
  pending,  \* decisions still open at the owner
  dst,      \* destination rows: consent, lifetime, cursor, producer error
  right,    \* what the recipient's grant still allows
  rows,     \* accepted events of each destination
  hw,       \* durable clock high-water mark
  nseq,     \* last inbox sequence
  att,      \* delivery attempt file of each destination and stream
  cour,     \* the courier task
  rcur, got,\* a recipient's inbox cursor and what its pages returned
  opn,      \* an open_notification request
  conflict, \* ghost: a republication was refused as a changed event
  exposed,  \* ghost: a decision was shown on authority that was gone
  backs, crashes, opens

clocks == <<now, peak, backs>>
source == <<owner, log, pending>>
store == <<rows, hw, nseq>>
reader == <<rcur, got>>
opening == <<opn, exposed, opens>>
vars == <<clocks, source, dst, right, store, att, cour, reader, opening, conflict, crashes>>

NewAttempt == [failures |-> 0, wait |-> FALSE, drained |-> 0, gap |-> FALSE]

Init ==
  /\ now = 0 /\ peak = 0 /\ backs = 0
  /\ owner = [inc |-> 1, state |-> "live"]
  /\ log = <<>> /\ pending = {}
  /\ dst = [d \in Dests |-> [made |-> FALSE, expires |-> 0, accepted |-> Never,
                             revoked |-> FALSE, cursor |-> 0, error |-> "none"]]
  /\ right = [d \in Dests |-> "decide"]
  /\ rows = [d \in Dests |-> {}] /\ hw = 0 /\ nseq = 0
  /\ att = [d \in Dests |-> [s \in Streams |-> NewAttempt]]
  /\ cour = Idle
  /\ rcur = [d \in Dests |-> 0] /\ got = [d \in Dests |-> {}]
  /\ opn = NoOpen /\ exposed = FALSE /\ opens = 0
  /\ conflict = FALSE /\ crashes = 0

\* The second half of a delivery holds the registrations lock, which orders it
\* with every notification operation, with restarts and with revoked grants.
Locked == cour.pc \in {"publishing", "advanced", "saving"}

-----------------------------------------------------------------------------
(* The owner: its outbox, its decisions and its life. *)

\* A terminal run or a decision request appends one event.
Record(sort) ==
  /\ log' = Append(log, [sort |-> sort, created |-> now, inc |-> owner.inc])
  /\ pending' = IF sort = "decision" THEN pending \cup {Len(log) + 1} ELSE pending

AppendEvent ==
  /\ owner.state = "live" /\ Len(log) < MaxLog
  /\ \E sort \in Sorts : Record(sort)
  /\ UNCHANGED <<clocks, owner, dst, right, store, att, cour, reader, opening, conflict, crashes>>

ResolveDecision ==
  /\ owner.state = "live"
  /\ \E i \in pending : pending' = pending \ {i}
  /\ UNCHANGED <<clocks, owner, log, dst, right, store, att, cour, reader, opening, conflict, crashes>>

\* The process stops cleanly and leaves its evidence, or dies without it.
StopOwner ==
  /\ owner.state = "live"
  /\ owner' = [owner EXCEPT !.state = "stopped"]
  /\ pending' = {}
  /\ UNCHANGED <<clocks, log, dst, right, store, att, cour, reader, opening, conflict, crashes>>

OwnerCrash ==
  /\ owner.state = "live" /\ owner.inc < MaxInc
  /\ owner' = [owner EXCEPT !.state = "dead"]
  /\ pending' = {}
  /\ UNCHANGED <<clocks, log, dst, right, store, att, cour, reader, opening, conflict, crashes>>

\* Offline recovery interrupts the abandoned run under its original
\* incarnation before it writes the stop evidence.
RecoverOwner ==
  /\ owner.state = "dead" /\ Len(log) < MaxLog
  /\ "outcome" \in Sorts
  /\ Record("outcome")
  /\ owner' = [owner EXCEPT !.state = "stopped"]
  /\ UNCHANGED <<clocks, dst, right, store, att, cour, reader, opening, conflict, crashes>>

RestartOwner ==
  /\ owner.state = "stopped" /\ owner.inc < MaxInc /\ ~Locked
  /\ owner' = [inc |-> owner.inc + 1, state |-> "live"]
  /\ UNCHANGED <<clocks, log, pending, dst, right, store, att, cour, reader, opening, conflict, crashes>>

-----------------------------------------------------------------------------
(* The host clock and the recipient's grant. *)

Tick ==
  /\ now < MaxTime
  /\ now' = now + 1 /\ peak' = Max({peak, now + 1})
  /\ UNCHANGED <<backs, source, dst, right, store, att, cour, reader, opening, conflict, crashes>>

ClockBack ==
  /\ now > 0 /\ backs < MaxBacks
  /\ now' = now - 1 /\ backs' = backs + 1
  /\ UNCHANGED <<peak, source, dst, right, store, att, cour, reader, opening, conflict, crashes>>

\* A grant loses Decide, or is revoked, in the order of the registrations lock.
ReduceGrant(d) ==
  /\ ~Locked /\ right[d] # "none"
  /\ \E r \in (IF MaxOpens = 0 THEN {"none"} ELSE {"observe", "none"}) \ {right[d]} : right' = [right EXCEPT ![d] = r]
  /\ UNCHANGED <<clocks, source, dst, store, att, cour, reader, opening, conflict, crashes>>

-----------------------------------------------------------------------------
(* The recipient store.  Every transaction raises the durable clock and     *)
(* drops the payloads that expired or whose destination is closed.          *)

Closed(r, clock) == r.revoked \/ r.expires <= clock
Scrub(rs, ds, clock) ==
  [d \in Dests |->
     {IF e.expires <= clock \/ Closed(ds[d], clock) THEN [e EXCEPT !.live = FALSE] ELSE e :
        e \in rs[d]}]
Begin(rs, ds) ==
  LET clock == Max({hw, now}) IN hw' = clock /\ rows' = Scrub(rs, ds, clock)
\* insert_event: after the transaction's pruning.
Insert(d, row) ==
  LET clock == Max({hw, now})
  IN  /\ hw' = clock /\ nseq' = nseq + 1
      /\ rows' = [Scrub(rows, dst, clock) EXCEPT ![d] = @ \cup {row}]

ClockOk == now >= hw
\* Mutation: is_active forgets to look at the revocation.
ActiveUnlessExpired(d) ==
  dst[d].made /\ dst[d].accepted # Never /\ dst[d].expires > now
Active(d) ==
  /\ dst[d].made /\ ~dst[d].revoked /\ dst[d].accepted # Never
  /\ dst[d].expires > now
Row(d, src) == CHOOSE e \in rows[d] : e.src = src
Held(d, src) == \E e \in rows[d] : e.src = src
\* A row admitted by insert_event: the fingerprint covers source and expiry.
NewRow(src, expires) ==
  [src |-> src, seq |-> nseq + 1, expires |-> expires, live |-> TRUE, state |-> 0]
Insertable(d, created, expires) ==
  /\ ClockOk /\ Active(d)
  /\ created <= now /\ expires > now /\ expires <= dst[d].expires
  /\ Cardinality(rows[d]) < MaxRows

Configure(d) ==
  /\ ~Locked /\ ~dst[d].made /\ right[d] # "none" /\ ClockOk
  /\ \E life \in Lifetimes :
       LET ds == [dst EXCEPT ![d].made = TRUE, ![d].expires = now + life]
       IN  dst' = ds /\ Begin(rows, ds)
  /\ UNCHANGED <<clocks, source, right, nseq, att, cour, reader, opening, conflict, crashes>>

Accept(d) ==
  /\ ~Locked /\ right[d] # "none" /\ ClockOk
  /\ dst[d].made /\ ~Closed(dst[d], now) /\ dst[d].accepted = Never
  /\ dst' = [dst EXCEPT ![d].accepted = now]
  /\ Begin(rows, dst)
  /\ UNCHANGED <<clocks, source, right, nseq, att, cour, reader, opening, conflict, crashes>>

\* Revocation needs neither the source nor the grant nor a sane clock.
Revoke(d) ==
  /\ ~Locked /\ dst[d].made /\ ~dst[d].revoked
  /\ dst' = [dst EXCEPT ![d].revoked = TRUE]
  /\ Begin(rows, dst')
  /\ UNCHANGED <<clocks, source, right, nseq, att, cour, reader, opening, conflict, crashes>>

\* A synthetic event; a retry of the same command finds its row.
Test(d, t) ==
  /\ ~Locked /\ right[d] # "none" /\ ~Held(d, t)
  /\ LET expires == Min({now + Ttl, dst[d].expires}) IN
       /\ Insertable(d, now, expires)
       /\ Insert(d, NewRow(t, expires))
  /\ UNCHANGED <<clocks, source, dst, right, att, cour, reader, opening, conflict, crashes>>

\* One page of the inbox after the recipient's cursor.
Visible(d) == {e \in rows[d] : e.live /\ e.expires > now}
InboxPage(d) ==
  LET ahead == {e \in Visible(d) : e.seq > rcur[d]}
  IN  {e \in ahead : Cardinality({f \in ahead : f.seq < e.seq}) < InboxLimit}
\* Mutation: the cursor is taken from all visible entries, not from the page.
NextAfterAll(d) == IF Visible(d) = {} THEN rcur[d] ELSE Max({e.seq : e \in Visible(d)})
NextAfter(d) == IF InboxPage(d) = {} THEN rcur[d] ELSE Max({e.seq : e \in InboxPage(d)})
Inbox(d) ==
  /\ ~Locked /\ d \in Readers /\ right[d] # "none" /\ ClockOk /\ Active(d)
  /\ rcur' = [rcur EXCEPT ![d] = NextAfter(d)]
  /\ got' = [got EXCEPT ![d] = @ \cup {e.src : e \in InboxPage(d)}]
  /\ Begin(rows, dst)
  /\ UNCHANGED <<clocks, source, dst, right, nseq, att, cour, opening, conflict, crashes>>

\* Receipts only move forward, and may settle expired or revoked events.
Receipt(d) ==
  /\ ~Locked /\ d \in Readers /\ right[d] # "none"
  /\ \E e \in rows[d], s \in 1 .. 2 :
       Begin([rows EXCEPT ![d] = (@ \ {e}) \cup {[e EXCEPT !.state = Max({@, s})]}], dst)
  /\ UNCHANGED <<clocks, source, dst, right, nseq, att, cour, reader, opening, conflict, crashes>>

-----------------------------------------------------------------------------
(* The courier.  An attempt is counted and saved before the owner is asked; *)
(* the answer is used under the lock, after everything was checked again.   *)

Deliverable(d) == dst[d].accepted # Never /\ ~Closed(dst[d], now)
\* Mutation: attempts are not bounded.
MayTryForever(a) == ~a.wait /\ a.drained # owner.inc /\ a.failures <= MaxFailures
MayTry(a) == a.failures < MaxFailures /\ ~a.wait /\ a.drained # owner.inc

Claim(d, s) ==
  /\ cour.pc = "idle" /\ Deliverable(d) /\ right[d] # "none" /\ MayTry(att[d][s])
  /\ att' = [att EXCEPT ![d][s].failures = @ + 1, ![d][s].wait = TRUE]
  /\ cour' = [pc |-> "reading", d |-> d, s |-> s, inc |-> owner.inc,
              after |-> dst[d].cursor, stopped |-> owner.state = "stopped"]
  /\ UNCHANGED <<clocks, source, dst, right, store, reader, opening, conflict, crashes>>

\* Without authority the producer is only marked; the budget stream returns.
ClaimUnauthorized(d) ==
  /\ cour.pc = "idle" /\ Deliverable(d) /\ right[d] = "none"
  /\ dst[d].error # "unavailable"
  /\ dst' = [dst EXCEPT ![d].error = "unavailable"]
  /\ UNCHANGED <<clocks, source, right, store, att, cour, reader, opening, conflict, crashes>>

\* notification_events: what the ring still holds after the cursor.
Retained(i) == i > Len(log) - Capacity
PageOf(after) ==
  LET ahead == {i \in 1 .. Len(log) : i > after /\ Retained(i)}
      page  == {i \in ahead : Cardinality({j \in ahead : j < i}) < PageLimit}
  IN  [events |-> SetToSortSeq({i \in page : log[i].sort # "unattributed"}, <),
       next   |-> IF page = {} THEN after ELSE Max(page),
       more   |-> page # ahead,
       gap    |-> \/ after < Max({Len(log) - Capacity, 0})
                  \/ \E i \in page : log[i].sort = "unattributed"]
\* The request is bound to one incarnation; a stopped owner's journal is read
\* under the execution fence, a dead owner's is not.
Answers == cour.s = "owner" /\ owner.inc = cour.inc /\ owner.state # "dead"
ReadPage ==
  /\ cour.pc = "reading" /\ Answers
  /\ cour' = [cour EXCEPT !.pc = "answered"] @@ [page |-> PageOf(cour.after)]
  /\ UNCHANGED <<clocks, source, dst, right, store, att, reader, opening, conflict, crashes>>

\* A deadline, an error, and every budget read: this protocol version has no
\* budget_events command.
ReadFails ==
  /\ cour.pc = "reading"
  /\ cour' = [cour EXCEPT !.pc = "failed"]
  /\ UNCHANGED <<clocks, source, dst, right, store, att, reader, opening, conflict, crashes>>

Stale(d) == Closed(dst[d], now) \/ owner.inc # cour.inc \/ right[d] = "none"

\* Delivery ends without success: the cursor stays, the error is recorded.
EndWith(d, error) ==
  /\ dst' = [dst EXCEPT ![d].error = error]
  /\ cour' = Idle
Discard ==
  /\ cour.pc = "failed" \/ (cour.pc = "answered" /\ Stale(cour.d))
  /\ IF cour.s = "budget" /\ Stale(cour.d)
       THEN cour' = Idle /\ UNCHANGED dst
       ELSE EndWith(cour.d, "unavailable")
  /\ UNCHANGED <<clocks, source, right, store, att, reader, opening, conflict, crashes>>
Use ==
  /\ cour.pc = "answered" /\ ~Stale(cour.d)
  /\ cour' = [cour EXCEPT !.pc = "publishing"] @@ [todo |-> cour.page.events, at |-> now]
  /\ UNCHANGED <<clocks, source, dst, right, store, att, reader, opening, conflict, crashes>>

\* Mutation: the notification lives Ttl from its publication.
ExpiryFromNow(d, e) == Min({now + Ttl, dst[d].expires})
Expiry(d, e) ==
  Min({e.created + Ttl, dst[d].expires} \cup
      (IF e.sort = "decision" THEN {e.created + DecisionTtl} ELSE {}))
\* Mutation: an event at the moment of acceptance is taken to precede it.
WantedStrictly(d, e) ==
  /\ e.sort \in {"outcome", "decision"} /\ e.created > dst[d].accepted
  /\ Expiry(d, e) > cour.at
Wanted(d, e) ==
  /\ e.sort \in {"outcome", "decision"} /\ e.created >= dst[d].accepted
  /\ Expiry(d, e) > cour.at
Skip == cour' = [cour EXCEPT !.todo = Tail(@)]
Publish ==
  /\ cour.pc = "publishing" /\ cour.todo # <<>>
  /\ LET d == cour.d
         i == Head(cour.todo)
         e == log[i]
         x == Expiry(d, e)
     IN  \/ /\ e.created > cour.at
            /\ EndWith(d, "invalid") /\ UNCHANGED <<store, conflict>>
         \/ /\ e.created <= cour.at /\ ~Wanted(d, e)
            /\ Skip /\ UNCHANGED <<dst, store, conflict>>
         \/ /\ e.created <= cour.at /\ Wanted(d, e) /\ Held(d, i) /\ Row(d, i).expires = x
            /\ Skip /\ Begin(rows, dst) /\ UNCHANGED <<dst, nseq, conflict>>
         \/ /\ e.created <= cour.at /\ Wanted(d, e) /\ ~Held(d, i) /\ Insertable(d, e.created, x)
            /\ Insert(d, NewRow(i, x))
            /\ Skip /\ UNCHANGED <<dst, conflict>>
         \/ /\ e.created <= cour.at /\ Wanted(d, e)
            /\ IF Held(d, i) THEN Row(d, i).expires # x ELSE ~Insertable(d, e.created, x)
            /\ conflict' = (conflict \/ Held(d, i))
            /\ EndWith(d, "unavailable") /\ UNCHANGED store
  /\ UNCHANGED <<clocks, source, right, att, reader, opening, crashes>>

\* Mutation: the cursor advances page by page while events are published.
AdvanceFirst ==
  /\ cour.pc = "publishing"
  /\ dst' = [dst EXCEPT ![cour.d].cursor = Max({@, cour.page.next}), ![cour.d].error = "none"]
  /\ cour' = [cour EXCEPT !.pc = IF cour.todo = <<>> THEN "advanced" ELSE @]
  /\ UNCHANGED <<clocks, source, right, store, att, reader, opening, conflict, crashes>>
\* The cursor moves only after every event of the page is durable.
Advance ==
  /\ cour.pc = "publishing" /\ cour.todo = <<>>
  /\ dst' = [dst EXCEPT ![cour.d].cursor = Max({@, cour.page.next}), ![cour.d].error = "none"]
  /\ cour' = [cour EXCEPT !.pc = "advanced"]
  /\ UNCHANGED <<clocks, source, right, store, att, reader, opening, conflict, crashes>>
KeepsGap == att[cour.d][cour.s].gap \/ cour.page.gap
\* Mutation: only the gap of this page is reported.
MarkPageGap ==
  /\ cour.pc = "advanced"
  /\ dst' = [dst EXCEPT ![cour.d].error = IF cour.page.gap THEN "gap" ELSE @]
  /\ cour' = [cour EXCEPT !.pc = "saving"]
  /\ UNCHANGED <<clocks, source, right, store, att, reader, opening, conflict, crashes>>
MarkGap ==
  /\ cour.pc = "advanced"
  /\ dst' = [dst EXCEPT ![cour.d].error = IF KeepsGap THEN "gap" ELSE @]
  /\ cour' = [cour EXCEPT !.pc = "saving"]
  /\ UNCHANGED <<clocks, source, right, store, att, reader, opening, conflict, crashes>>
\* Mutation: only the state after the read decides that it was the last one.
DrainedAfter == ~cour.page.more /\ owner.state = "stopped"
\* Nothing can follow a complete read that began after the owner stopped.
Drained == cour.stopped /\ ~cour.page.more /\ owner.state = "stopped"
SaveAttempt ==
  /\ cour.pc = "saving"
  /\ att' = [att EXCEPT ![cour.d][cour.s] =
                [failures |-> 0, wait |-> FALSE, gap |-> KeepsGap,
                 drained |-> IF Drained THEN owner.inc ELSE @.drained]]
  /\ cour' = Idle
  /\ UNCHANGED <<clocks, source, dst, right, store, reader, opening, conflict, crashes>>

\* The retry time of a saved attempt passes.
RetryDue(d, s) ==
  /\ att[d][s].wait /\ ~(cour.pc # "idle" /\ cour.d = d /\ cour.s = s)
  /\ att' = [att EXCEPT ![d][s].wait = FALSE]
  /\ UNCHANGED <<clocks, source, dst, right, store, cour, reader, opening, conflict, crashes>>

\* The supervisor dies: the courier and an open request die with it.
VesselCrash ==
  /\ crashes < MaxCrashes /\ (cour.pc # "idle" \/ opn.pc # "none")
  /\ cour' = Idle /\ opn' = NoOpen
  /\ crashes' = crashes + 1
  /\ UNCHANGED <<clocks, source, dst, right, store, att, reader, exposed, opens, conflict>>

-----------------------------------------------------------------------------
(* Opening a notification: the entry is read under the lock, the owner is   *)
(* asked for its open decisions without it, and authority, identity and     *)
(* lifetime are sampled again before the decision is shown.                 *)

OpenBegin(d) ==
  /\ ~Locked /\ opn.pc = "none" /\ opens < MaxOpens
  /\ right[d] = "decide" /\ ClockOk /\ Active(d)
  /\ \E e \in Visible(d) :
       /\ e.src \notin Tests /\ log[e.src].sort = "decision"
       /\ opn' = [pc |-> "asking", d |-> d, src |-> e.src]
  /\ opens' = opens + 1
  /\ Begin(rows, dst)
  /\ UNCHANGED <<clocks, source, dst, right, nseq, att, cour, reader, exposed, conflict, crashes>>

\* The owner lists the decision only for the incarnation that asked it.
OpenReply ==
  /\ opn.pc = "asking"
  /\ opn' = IF /\ owner.state = "live" /\ owner.inc = log[opn.src].inc
               /\ opn.src \in pending
            THEN [opn EXCEPT !.pc = "listed"] ELSE NoOpen
  /\ UNCHANGED <<clocks, source, dst, right, store, att, cour, reader, exposed, opens, conflict, crashes>>

\* Mutation: the entry and the authority of the first look are used.
StillCurrentUnchecked == log[opn.src].created + DecisionTtl > now
StillCurrent ==
  /\ owner.inc = log[opn.src].inc /\ right[opn.d] = "decide"
  /\ ClockOk /\ Active(opn.d) /\ \E e \in Visible(opn.d) : e.src = opn.src
  /\ log[opn.src].created + DecisionTtl > now
OpenAnswer ==
  /\ opn.pc = "listed" /\ ~Locked
  /\ exposed' = (exposed \/ (StillCurrent /\ (\/ dst[opn.d].revoked
                                             \/ right[opn.d] # "decide"
                                             \/ owner.inc # log[opn.src].inc)))
  /\ opn' = NoOpen
  /\ IF ClockOk THEN Begin(rows, dst) ELSE UNCHANGED <<rows, hw>>
  /\ UNCHANGED <<clocks, source, dst, right, nseq, att, cour, reader, opens, conflict, crashes>>

-----------------------------------------------------------------------------
Courier == \/ \E d \in Dests, s \in Streams : Claim(d, s)
           \/ \E d \in Dests : ClaimUnauthorized(d)
           \/ ReadPage \/ ReadFails \/ Discard \/ Use \/ Publish
           \/ Advance \/ MarkGap \/ SaveAttempt
Operations ==
  \E d \in Dests :
    \/ Configure(d) \/ Accept(d) \/ Revoke(d) \/ Inbox(d) \/ Receipt(d)
    \/ \E t \in Tests : Test(d, t)
    \/ OpenBegin(d)
Environment ==
  \/ AppendEvent \/ ResolveDecision \/ StopOwner \/ OwnerCrash \/ RecoverOwner
  \/ RestartOwner \/ Tick \/ ClockBack \/ VesselCrash
  \/ \E d \in Dests : ReduceGrant(d)
  \/ \E d \in Dests, s \in Streams : RetryDue(d, s)

Next == Courier \/ Operations \/ Environment \/ OpenReply \/ OpenAnswer
Spec == Init /\ [][Next]_vars
\* The courier's loop never ends while the supervisor lives, retry times pass,
\* and an owner that answers is eventually read before its deadline.
Fairness ==
  /\ WF_vars(ReadFails \/ ReadPage) /\ WF_vars(Discard) /\ WF_vars(Use)
  /\ WF_vars(Publish) /\ WF_vars(Advance) /\ WF_vars(MarkGap) /\ WF_vars(SaveAttempt)
  /\ \A d \in Dests, s \in Streams : SF_vars(Claim(d, s)) /\ WF_vars(RetryDue(d, s))

FairSpec == Spec /\ Fairness

-----------------------------------------------------------------------------
TypeOK ==
  /\ now \in 0 .. MaxTime /\ peak \in 0 .. MaxTime /\ hw \in 0 .. MaxTime
  /\ owner \in [inc : 1 .. MaxInc, state : {"live", "dead", "stopped"}]
  /\ log \in Seq(Event) /\ Len(log) <= MaxLog /\ pending \subseteq 1 .. Len(log)
  /\ \A d \in Dests :
       /\ dst[d].error \in {"none", "unavailable", "invalid", "gap"}
       /\ dst[d].accepted \in {Never} \cup 0 .. MaxTime
       /\ dst[d].cursor \in 0 .. Len(log)
       /\ \A s \in Streams : att[d][s].failures \in 0 .. MaxFailures
       /\ right[d] \in {"decide", "observe", "none"}
       /\ Cardinality(rows[d]) <= MaxRows
  /\ opn.pc \in {"none", "asking", "listed"}

\* An event of the destination's kinds, created since it was accepted.
Due(d, i) ==
  /\ log[i].sort \in {"outcome", "decision"}
  /\ dst[d].accepted # Never /\ log[i].created >= dst[d].accepted
Settled(d, i) == i <= Len(log) /\ (Held(d, i) \/ Expiry(d, log[i]) <= peak)

\* Only eviction loses an event: one that the ring still holds and the cursor
\* has passed was published or has expired, whatever crashed between
\* publication, cursor and attempt (publish before advance).
LossIsEviction ==
  \A d \in Dests : \A i \in 1 .. dst[d].cursor :
    Due(d, i) /\ Retained(i) => Settled(d, i)

\* When the courier stops asking a stopped owner, nothing is left to read.
DrainedIsComplete ==
  \A d \in Dests : "owner" \in Streams /\ att[d]["owner"].drained = owner.inc =>
    dst[d].cursor = Len(log)

\* Reading a page again after a crash finds the rows it published, with the
\* same fingerprint: it never conflicts with itself.
RetryRecovers == ~conflict

\* Following next_after returns every entry at or below the cursor that can
\* still be read.
ReaderMissesNothing ==
  \A d \in Dests : \A e \in rows[d] : e.live /\ e.seq <= rcur[d] => e.src \in got[d]

\* A revoked destination keeps no payload, and gets none afterwards.
RevokedIsEmpty ==
  \A d \in Dests : dst[d].revoked => \A e \in rows[d] : ~e.live

\* A decision is shown only on authority, consent and an incarnation that
\* still hold after the owner was asked.
OpenIsCurrent == ~exposed

\* The inbox reports incomplete observation once an event was lost to the
\* ring: the producer error is not empty.
GapIsReported ==
  \A d \in Dests : \A i \in 1 .. dst[d].cursor :
    Due(d, i) /\ ~Settled(d, i) => dst[d].error # "none" \/ cour.pc = "advanced"

\* An event that stays due is delivered, unless it expires, is evicted, the
\* destination closes, its grant is withdrawn, delivery stopped after its
\* failures, or the owner died and was not recovered.
Delivered ==
  \A d \in Dests, i \in 1 .. MaxLog :
    (i <= Len(log) /\ Due(d, i)) ~>
      \/ Settled(d, i) \/ ~Retained(i) \/ Closed(dst[d], peak) \/ right[d] = "none"
      \/ att[d]["owner"].failures >= MaxFailures \/ owner.state = "dead"
      \/ Cardinality(rows[d]) >= MaxRows

\* Delivery loses nothing but what was evicted, a reader misses nothing, and
\* revocation and lost authority show nothing (notifications/store.rs, courier).
Safety ==
  /\ TypeOK /\ LossIsEviction /\ DrainedIsComplete /\ RetryRecovers
  /\ ReaderMissesNothing /\ RevokedIsEmpty /\ OpenIsCurrent
=============================================================================
