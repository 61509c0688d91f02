---------------------------- MODULE EventStream -----------------------------
(***************************************************************************)
(* How one conversation reaches a Helm screen.  The runtime commits every  *)
(* canonical change together with public observations; a bounded window of *)
(* them is retained.  A client hydrates a snapshot, then applies the       *)
(* observations after the snapshot's cursor, and hydrates again whenever   *)
(* the stream has a gap, an observation does not apply, the owner changes  *)
(* or the view was shed for a catalogue projection.                        *)
(*                                                                         *)
(* Message bodies are abstracted to their index and provisional text to    *)
(* its length.  The observer and the screen exchange updates over a FIFO   *)
(* channel and the observer waits for each acknowledgement, so a snapshot  *)
(* or an observation is applied in the step that sends it.                 *)
(***************************************************************************)
EXTENDS Integers, Sequences, FiniteSets, SequencesExt

CONSTANTS
  Retain,        \* observations kept by the retention trigger (2048)
  Limit,         \* observations in one page (128)
  MaxSeq,        \* bound on the cursors handed out
  MaxOwners,     \* bound on runtime incarnations
  MaxFaults,     \* bound on failed requests and dropped streams
  MaxPages       \* pages Vessel may have written ahead of the client

BoundAssumption ==
  /\ Retain \in Nat \ {0} /\ Limit \in Nat \ {0} /\ MaxSeq \in Nat
  /\ MaxOwners \in Nat \ {0} /\ MaxFaults \in Nat /\ MaxPages \in Nat \ {0}

VARIABLES
  canon,         \* the canonical session and its latest run
  log,           \* process_observations, oldest first
  seq,           \* sqlite_sequence of process_observations
  pruned,        \* process_observation_pruned marker, 0 when absent
  owner,         \* incarnation of the runtime
  watch,         \* last catalogue entry the catalogue task published
  selected,      \* the screen shows this conversation
  pc,            \* where the observer is
  process,       \* catalogue entry the observer works from
  cursor,        \* cursors[(session, incarnation)], or NoCursor
  hydrated,      \* hydrated_selection is this conversation
  reply,         \* snapshot reply on its way to the observer
  after,         \* subscription.after held by Vessel
  subscribed,    \* subscription.incarnation held by Vessel
  pages,         \* pages on their way to the observer
  view,          \* the screen's snapshot of the conversation
  faults         \* failures injected so far

store == <<canon, log, seq, pruned, owner>>
wire  == <<reply, after, subscribed, pages>>
vars  == <<store, watch, selected, pc, process, cursor, hydrated, wire, view, faults>>

Active   == {"accepted", "running"}
Terminal == {"completed", "interrupted"}
NoCursor == -1

\* A catalogue row and a snapshot project the same canonical record; the
\* snapshot's provisional text is what follows the committed assistant text.
NoSnapshot == [kind |-> "none", rev |-> 0, total |-> 0, msgs |-> {}, run |-> 0,
               state |-> "none", start |-> 0, len |-> 0, cursor |-> 0]
Entry == [owner |-> owner, rev |-> canon.rev, total |-> canon.total, run |-> canon.run,
          state |-> canon.state, cursor |-> seq]
LiveText == [start |-> canon.committed, len |-> canon.text - canon.committed]
ProcessSnapshot ==
  [kind |-> "full", rev |-> canon.rev, total |-> canon.total, msgs |-> 0 .. canon.total - 1,
   run |-> canon.run, state |-> canon.state, start |-> LiveText.start,
   len |-> LiveText.len, cursor |-> seq]
FromCatalogue(c) ==
  [kind |-> "catalogue", rev |-> c.rev, total |-> c.total, msgs |-> {}, run |-> c.run,
   state |-> c.state, start |-> 0, len |-> 0, cursor |-> c.cursor]

Init ==
  /\ canon = [rev |-> 1, total |-> 0, run |-> 0, state |-> "none", text |-> 0, committed |-> 0]
  \* a journal upgraded after its first observations were dropped has no marker
  /\ seq \in {0, Retain + 1}
  /\ log = [i \in 1 .. (IF seq = 0 THEN 0 ELSE Retain) |->
              [cursor |-> i + 1, kind |-> "lifecycle", rev |-> 1, run |-> 0, arg |-> 0]]
  /\ pruned = 0
  /\ owner = 1
  /\ watch = Entry /\ process = Entry
  /\ selected \in BOOLEAN
  /\ pc = "top" /\ cursor = NoCursor /\ hydrated = FALSE
  /\ reply = NoSnapshot /\ after = 0 /\ subscribed = 0 /\ pages = <<>>
  /\ view = NoSnapshot
  /\ faults = 0

-----------------------------------------------------------------------------
(* The runtime: one transaction commits canonical state and observations.   *)

Observation(kind, c, arg) ==
  [cursor |-> 0, kind |-> kind, rev |-> c.rev, run |-> c.run, arg |-> arg]

\* Mutation: the retention trigger is missing.
CommitUnpruned(c, rows) ==
  /\ seq + Len(rows) <= MaxSeq
  /\ canon' = c
  /\ seq' = seq + Len(rows)
  /\ log' = log \o [i \in DOMAIN rows |-> [rows[i] EXCEPT !.cursor = seq + i]]
  /\ UNCHANGED pruned

\* Rows in insertion order.  Each insertion drops what left the window, and
\* the marker remembers the newest dropped cursor.
Commit(c, rows) ==
  LET all  == log \o [i \in DOMAIN rows |-> [rows[i] EXCEPT !.cursor = seq + i]]
      keep == SelectSeq(all, LAMBDA r : r.cursor > seq + Len(rows) - Retain)
  IN /\ seq + Len(rows) <= MaxSeq
     /\ canon' = c
     /\ seq' = seq + Len(rows)
     /\ log' = keep
     /\ pruned' = IF keep = all THEN pruned ELSE all[Len(all) - Len(keep)].cursor

Turn(c, rows) ==
  /\ Commit(c, rows)
  /\ UNCHANGED <<owner, watch, selected, pc, process, cursor, hydrated, wire, view, faults>>

Admit ==
  /\ canon.state \notin Active
  /\ LET c == [canon EXCEPT !.rev = @ + 1, !.total = @ + 1, !.run = @ + 1,
                            !.state = "accepted", !.text = 0, !.committed = 0]
     IN Turn(c, << Observation("session", c, c.total),
                   Observation("message", c, c.total - 1),
                   Observation("run", c, c.state),
                   Observation("command", c, 0) >>)

MarkRunning ==
  /\ canon.state = "accepted"
  /\ LET c == [canon EXCEPT !.state = "running"]
     IN Turn(c, << Observation("run", c, c.state) >>)

AppendText ==
  /\ canon.state = "running"
  /\ LET c == [canon EXCEPT !.text = @ + 1]
     IN Turn(c, << Observation("run", c, c.state), Observation("text", c, canon.text) >>)

ToolPreviews ==
  /\ canon.state = "running"
  /\ Turn(canon, << Observation("tool", canon, 0), Observation("run", canon, canon.state) >>)

Checkpoint ==
  /\ canon.state = "running"
  /\ LET c == [canon EXCEPT !.rev = @ + 1, !.total = @ + 1, !.committed = canon.text]
     IN Turn(c, << Observation("session", c, c.total),
                   Observation("message", c, c.total - 1),
                   Observation("run", c, c.state) >>)

Finish ==
  /\ canon.state \in Active
  /\ LET c == [canon EXCEPT !.rev = @ + 1, !.state = "completed"]
     IN Turn(c, << Observation("session", c, c.total), Observation("run", c, c.state) >>)

\* The obligation's own trigger writes no payload: the event names no state.
ObserveCleanup ==
  /\ canon.state \in Terminal
  /\ Turn(canon, << Observation("run", canon, "absent") >>)

\* Clearing drops the run summaries with the messages, so no provisional text
\* of the retained run can be reconciled any more.
ClearHistory ==
  /\ canon.state \in Terminal /\ canon.total > 0
  /\ LET c == [canon EXCEPT !.rev = @ + 1, !.total = 0, !.committed = canon.text]
     IN Turn(c, << Observation("session", c, c.total), Observation("command", c, 0) >>)

\* A new incarnation replaces the owner; recovery interrupts an active run.
Restart ==
  /\ owner < MaxOwners
  /\ owner' = owner + 1
  /\ IF canon.state \in Active
     THEN LET c == [canon EXCEPT !.rev = @ + 1, !.state = "interrupted"]
          IN Commit(c, << Observation("session", c, c.total), Observation("run", c, c.state) >>)
     ELSE UNCHANGED <<canon, log, seq, pruned>>
  /\ UNCHANGED <<watch, selected, pc, process, cursor, hydrated, wire, view, faults>>

-----------------------------------------------------------------------------
(* Paging: Journal::live_observations under the server's waiting loop.       *)

PrunedThrough ==
  IF pruned = 0 /\ seq > Retain THEN seq - Retain ELSE pruned

\* Mutation: a replay that starts below the window is served without a gap.
PageNoGap(from) ==
  LET rows == SelectSeq(log, LAMBDA r : r.cursor > from)
      part == SubSeq(rows, 1, IF Len(rows) > Limit THEN Limit ELSE Len(rows))
  IN [gap |-> FALSE, events |-> part,
      cursor |-> IF part = <<>> THEN from ELSE part[Len(part)].cursor]

Page(from) ==
  LET rows == SelectSeq(log, LAMBDA r : r.cursor > from)
      part == SubSeq(rows, 1, IF Len(rows) > Limit THEN Limit ELSE Len(rows))
  IN IF from < PrunedThrough
     THEN [gap |-> TRUE, events |-> <<>>, cursor |-> seq]
     ELSE [gap |-> FALSE, events |-> part,
           cursor |-> IF part = <<>> THEN from ELSE part[Len(part)].cursor]

\* Vessel asks the current owner, whoever it is, and turns an owner change
\* into a gap.  An empty page is kept back.
Serve ==
  /\ pc = "stream" /\ Len(pages) < MaxPages
  /\ LET page == Page(after)
         gap  == page.gap \/ owner # subscribed
     IN /\ gap \/ page.events # <<>>
        /\ after' = page.cursor
        /\ subscribed' = owner
        /\ pages' = Append(pages, [owner |-> owner, gap |-> gap, events |-> page.events])
  /\ UNCHANGED <<store, watch, selected, pc, process, cursor, hydrated, reply, view, faults>>

-----------------------------------------------------------------------------
(* The client.                                                              *)

\* The catalogue task publishes what it last read.
CatalogueRead ==
  /\ watch # Entry
  /\ watch' = Entry
  /\ UNCHANGED <<store, selected, pc, process, cursor, hydrated, wire, view, faults>>

Select ==
  /\ selected' = ~selected
  /\ UNCHANGED <<store, watch, pc, process, cursor, hydrated, wire, view, faults>>

\* Update::Catalogue: a changed owner discards the snapshot; a view that is not
\* selected falls back to the catalogue's own projection.
Catalogued(v, c) ==
  LET kept == IF process.owner # c.owner THEN NoSnapshot ELSE v
  IN IF \/ kept.kind \in {"none", "catalogue"}
        \/ ~selected /\ kept.rev <= c.rev
     THEN FromCatalogue(c)
     ELSE kept

\* The cursor survives a catalogue probe unless the selection changed to this
\* voyage or the catalogue knows less than the cursor says.
KeptCursor ==
  IF (selected /\ ~hydrated) \/ cursor > process.cursor THEN NoCursor ELSE cursor

\* Top of the observer's loop: adopt the published catalogue and send it to the
\* screen, which applies it under the selection it has by then.
ProbeCatalogue ==
  /\ pc = "top"
  /\ selected \/ hydrated \/ process # watch
  /\ process' = watch
  /\ view' = Catalogued(view, watch)
  /\ cursor' = IF process.owner # watch.owner THEN NoCursor ELSE cursor
  /\ pc' = "probed"
  /\ UNCHANGED <<store, watch, selected, hydrated, wire, faults>>

\* After the capabilities request: read the selection, then hydrate the selected
\* voyage or subscribe after its cursor.
ProbeSelection ==
  /\ pc = "probed"
  /\ hydrated' = selected
  /\ cursor' = KeptCursor
  /\ pc' = IF ~selected THEN "top" ELSE IF KeptCursor = NoCursor THEN "hydrate" ELSE "stream"
  /\ after' = KeptCursor /\ subscribed' = process.owner /\ pages' = <<>>
  /\ UNCHANGED <<store, watch, selected, process, reply, view, faults>>

\* A catalogue change that keeps the roster reaches the screen in mid-stream.
CatalogueInStream ==
  /\ pc = "stream" /\ watch # process /\ watch.owner = process.owner
  /\ process' = watch
  /\ view' = Catalogued(view, watch)
  /\ UNCHANGED <<store, watch, selected, pc, cursor, hydrated, wire, faults>>

\* The owner answers a snapshot request addressed to its incarnation.
SnapshotRead ==
  /\ pc \in {"hydrate", "recover"}
  /\ owner = process.owner
  /\ reply' = ProcessSnapshot
  /\ pc' = IF pc = "hydrate" THEN "hydrating" ELSE "recovering"
  /\ UNCHANGED <<store, watch, selected, process, cursor, hydrated, after, subscribed, pages, view, faults>>

\* Update::Snapshot keeps a newer revision that is already shown.
Install(v, s) == IF v.kind # "none" /\ v.rev > s.rev THEN v ELSE s

SnapshotArrives ==
  /\ pc \in {"hydrating", "recovering"}
  /\ view' = Install(view, reply)
  /\ cursor' = reply.cursor
  /\ reply' = NoSnapshot
  /\ IF pc = "hydrating"
     THEN pc' = "stream" /\ after' = reply.cursor /\ subscribed' = process.owner /\ pages' = <<>>
     ELSE pc' = "top" /\ UNCHANGED <<after, subscribed, pages>>
  /\ UNCHANGED <<store, watch, selected, process, hydrated, faults>>

\* The request fails, or the owner it names has been replaced.
SnapshotFails ==
  /\ pc \in {"hydrate", "recover"}
  /\ \/ owner # process.owner /\ UNCHANGED faults
     \/ faults < MaxFaults /\ faults' = faults + 1
  /\ cursor' = NoCursor
  /\ pc' = "top"
  /\ UNCHANGED <<store, watch, selected, process, hydrated, wire, view>>

\* live_reducer::apply.  A record is applied entirely or not at all.
Applies(v, e) ==
  /\ v.kind # "none"
  /\ e.rev >= v.rev
  /\ \/ e.kind = "message" /\ e.arg <= v.total
     \/ e.kind = "text" /\ e.run = v.run /\ e.arg = v.len
     \/ e.kind = "run" /\ e.arg # "absent"
     \/ e.kind = "session" /\ e.arg >= v.total
     \/ e.kind = "lifecycle"

Applied(v, e) ==
  LET u == [v EXCEPT !.rev = e.rev, !.cursor = e.cursor]
  IN CASE e.kind = "message" ->
            [u EXCEPT !.msgs = @ \cup {e.arg},
                      !.total = IF @ > e.arg + 1 THEN @ ELSE e.arg + 1]
       [] e.kind = "text" -> [u EXCEPT !.len = @ + 1, !.start = 0]
       [] e.kind = "run" /\ e.run = v.run -> [u EXCEPT !.state = e.arg]
       [] e.kind = "run" /\ e.run # v.run ->
            [u EXCEPT !.run = e.run, !.state = e.arg, !.start = 0, !.len = 0]
       [] e.kind = "session" -> [u EXCEPT !.total = e.arg]
       [] OTHER -> u

\* Mutation: an observation that does not apply is skipped.
AckAlways(v, e) == TRUE
Acknowledged(v, e) == e.cursor <= v.cursor \/ Applies(v, e)

\* One observation of the page in hand; a refused one costs the cursor.
ApplyEvent ==
  /\ pc = "stream" /\ pages # <<>>
  /\ LET page == Head(pages)
         e    == Head(page.events)
         more == IF Len(page.events) = 1 THEN Tail(pages)
                 ELSE [pages EXCEPT ![1].events = Tail(@)]
     IN /\ page.owner = process.owner /\ ~page.gap
        /\ IF e.cursor <= cursor
           THEN pages' = more /\ UNCHANGED <<view, cursor, pc>>
           ELSE IF Acknowledged(view, e)
           THEN /\ view' = IF e.cursor <= view.cursor \/ ~Applies(view, e) THEN view ELSE Applied(view, e)
                /\ cursor' = e.cursor /\ pages' = more /\ UNCHANGED pc
           ELSE cursor' = NoCursor /\ pc' = "top" /\ pages' = <<>> /\ UNCHANGED view
  /\ UNCHANGED <<store, watch, selected, process, hydrated, reply, after, subscribed, faults>>

\* An owner transition goes back to the catalogue; a gap asks for a snapshot.
LeaveStream ==
  /\ pc = "stream" /\ pages # <<>>
  /\ LET page == Head(pages)
     IN \/ page.owner # process.owner /\ pc' = "top"
        \/ page.owner = process.owner /\ page.gap /\ pc' = "recover"
  /\ pages' = <<>>
  /\ UNCHANGED <<store, watch, selected, process, cursor, hydrated, reply, after, subscribed, view, faults>>

\* A changed roster, owner or selection retires the subscription.
Retire ==
  /\ pc = "stream"
  /\ watch.owner # process.owner \/ selected # hydrated
  /\ pc' = "top" /\ pages' = <<>>
  /\ UNCHANGED <<store, watch, selected, process, cursor, hydrated, reply, after, subscribed, view, faults>>

\* A transport error keeps the cursor; an unexpected end of stream drops it.
StreamFails ==
  /\ pc = "stream" /\ faults < MaxFaults
  /\ faults' = faults + 1
  /\ cursor' \in {cursor, NoCursor}
  /\ pc' = "top" /\ pages' = <<>>
  /\ UNCHANGED <<store, watch, selected, process, hydrated, reply, after, subscribed, view>>

Write == \/ Admit \/ MarkRunning \/ AppendText \/ ToolPreviews \/ Checkpoint
         \/ Finish \/ ObserveCleanup \/ ClearHistory
Observe == \/ ProbeCatalogue \/ ProbeSelection \/ CatalogueInStream \/ SnapshotRead
           \/ SnapshotArrives \/ SnapshotFails
           \/ ApplyEvent \/ LeaveStream \/ Retire
Next == \/ Write \/ Restart \/ Serve \/ CatalogueRead \/ Select \/ Observe \/ StreamFails

Spec == Init /\ [][Next]_vars

\* The observer task, the catalogue task and Vessel's page loop keep running;
\* nothing obliges a run to write, a user to select or a request to fail.
Fairness ==
  WF_vars(Observe) /\ WF_vars(Serve) /\ WF_vars(CatalogueRead)

FairSpec == Spec /\ Fairness
-----------------------------------------------------------------------------
(* Properties.                                                              *)

TypeOK ==
  /\ canon \in [rev : Nat, total : Nat, run : Nat, state : Active \cup Terminal \cup {"none"},
                 text : Nat, committed : Nat]
  /\ seq \in 0 .. MaxSeq + Retain + 1 /\ pruned \in 0 .. seq
  /\ Len(log) <= Retain
  /\ owner \in 1 .. MaxOwners /\ process.owner \in 1 .. owner
  /\ cursor \in -1 .. seq /\ after \in -1 .. seq /\ subscribed \in 0 .. owner
  /\ pc \in {"top", "probed", "hydrate", "hydrating", "recover", "recovering", "stream"}
  /\ selected \in BOOLEAN /\ hydrated \in BOOLEAN
  /\ Len(pages) <= MaxPages /\ faults \in 0 .. MaxFaults
  /\ view.kind \in {"none", "catalogue", "full"}

\* What a hydrated view must show of the canonical conversation.
Shows(v) ==
  /\ v.rev = canon.rev /\ v.total = canon.total /\ v.msgs = 0 .. canon.total - 1
  /\ v.run = canon.run /\ v.state = canon.state
  /\ v.start + v.len = canon.text

\* A hydrated view whose cursor is the owner's newest shows exactly the
\* canonical conversation: no observation was skipped, applied twice or applied
\* to another owner's, another run's or a shed view, whatever was pruned,
\* restarted, reselected or dropped on the way (live_reducer::apply, refresh).
CaughtUpIsExact ==
  view.kind = "full" /\ view.cursor = seq => Shows(view)

\* The cursor the observer resumes from never runs ahead of the view it has
\* acknowledged: what lies between them would never be applied (observe.rs).
CursorIsBacked ==
  cursor # NoCursor /\ view.kind = "full" /\ pc = "stream" => cursor <= view.cursor

\* An observation page never steps over a retained or pruned observation: the
\* pages on the wire continue the observer's cursor without a hole.
PagesAreContiguous ==
  \A i \in DOMAIN pages : ~pages[i].gap /\ i = 1 /\ cursor # NoCursor =>
     Head(pages[i].events).cursor <= cursor + 1

\* A selected conversation is eventually shown at the owner's revision, length
\* and run state, and stays so, once the run stops writing and requests stop
\* failing: gaps, refusals and owner changes never wedge the observer's loop.
ViewConverges ==
  <>[]selected => <>[](/\ view.rev = canon.rev /\ view.total = canon.total
                       /\ view.run = canon.run /\ view.state = canon.state)

\* A conversation that stays selected gets its transcript back, whatever the
\* catalogue replaced it with while another one was selected.
ReselectedIsHydrated == <>[]selected => <>[](view.kind = "full")

\* The provisional text shown after the saved messages is what those messages
\* do not contain yet.
LiveTextIsUncommitted ==
  view.kind = "full" /\ view.cursor = seq /\ view.len > 0 => view.start = canon.committed

\* Replay over pruning, restarts and reselection shows the canonical
\* conversation and nothing else (journal.rs replay, observe.rs, live_reducer.rs).
Safety == TypeOK /\ CaughtUpIsExact /\ CursorIsBacked /\ PagesAreContiguous
=============================================================================
