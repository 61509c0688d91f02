----------------------------- MODULE MCDelivery -----------------------------
(***************************************************************************)
(* How words, events and notices travel: the event stream, the             *)
(* notification courier, the duplex socket and the first send, side by     *)
(* side. Each behaviour runs one of them and leaves the others at rest, so *)
(* the states of this module are the sum, not the product, of the parts.   *)
(***************************************************************************)
EXTENDS Integers, Parts

CONSTANTS t1

VARIABLES
  canon, streamLog, seq, pruned, streamOwner, watch, selected, pc, process, cursor,
  hydrated, reply, after, subscribed, pages, view, streamFaults,  \* EventStream
  now, peak, noteOwner, noteLog, notePending, dst, right, noteRows, hw, nseq, att, cour,
  rcur, got, opn, conflict, exposed, backs, crashes, opens,  \* Notifications
  duplexSlot, duplexState, duplexSeen, act, c2s, s2c, srv, req, sentOn, ran, opened,  \* Duplex
  mem, disk, job, sendPending, file, check, net, vessel, runtime, fate, ghost,
  sendFaults  \* FirstSend

\* Three retained observations, pages of two, one restart of the runtime.
Replay == INSTANCE EventStream WITH
  Retain <- 3, Limit <- 2, MaxSeq <- 8, MaxOwners <- 2, MaxFaults <- 1, MaxPages <- 1,
  log <- streamLog, owner <- streamOwner, faults <- streamFaults

\* A courier that fails and crashes, and an outcome log of one event.
Courier == INSTANCE Notifications WITH
  Dests <- {"d1"}, Readers <- {}, Tests <- {}, Streams <- {"owner"},
  Sorts <- {"outcome"}, Capacity <- 1, PageLimit <- 1, InboxLimit <- 1,
  MaxFailures <- 2, MaxRows <- 3, Ttl <- 1, DecisionTtl <- 1, Lifetimes <- {3},
  MaxTime <- 1, MaxLog <- 2, MaxInc <- 2, MaxBacks <- 0, MaxCrashes <- 1, MaxOpens <- 0,
  owner <- noteOwner, log <- noteLog, pending <- notePending, rows <- noteRows

\* A device that reads and opens decisions and is revoked meanwhile.
Inbox == INSTANCE Notifications WITH
  Dests <- {"d1"}, Readers <- {"d1"}, Tests <- {t1}, Streams <- {"owner"},
  Sorts <- {"decision"}, Capacity <- 2, PageLimit <- 1, InboxLimit <- 1,
  MaxFailures <- 1, MaxRows <- 2, Ttl <- 2, DecisionTtl <- 1, Lifetimes <- {3},
  MaxTime <- 1, MaxLog <- 1, MaxInc <- 1, MaxBacks <- 0, MaxCrashes <- 0, MaxOpens <- 1,
  owner <- noteOwner, log <- noteLog, pending <- notePending, rows <- noteRows

\* Two producers, events nobody wants or nobody can attribute.
Producers == INSTANCE Notifications WITH
  Dests <- {"d1"}, Readers <- {}, Tests <- {}, Streams <- {"owner", "budget"},
  Sorts <- {"outcome", "unattributed", "unwanted"}, Capacity <- 1, PageLimit <- 1,
  InboxLimit <- 1, MaxFailures <- 1, MaxRows <- 3, Ttl <- 1, DecisionTtl <- 1,
  Lifetimes <- {3}, MaxTime <- 1, MaxLog <- 2, MaxInc <- 1, MaxBacks <- 0,
  MaxCrashes <- 0, MaxOpens <- 0, owner <- noteOwner, log <- noteLog,
  pending <- notePending, rows <- noteRows

\* The clock of the host steps back.
Clock == INSTANCE Notifications WITH
  Dests <- {"d1"}, Readers <- {}, Tests <- {}, Streams <- {"owner", "budget"},
  Sorts <- {"outcome", "unattributed"}, Capacity <- 1, PageLimit <- 1, InboxLimit <- 1,
  MaxFailures <- 1, MaxRows <- 3, Ttl <- 1, DecisionTtl <- 1, Lifetimes <- {3},
  MaxTime <- 1, MaxLog <- 1, MaxInc <- 1, MaxBacks <- 1, MaxCrashes <- 0, MaxOpens <- 0,
  owner <- noteOwner, log <- noteLog, pending <- notePending, rows <- noteRows

\* A command and a private control call over two sockets, one in flight.
Socket == INSTANCE DuplexProofs WITH
  Commands <- {"c1"}, Privates <- {"p1"}, Subs <- {}, MaxSockets <- 2, MaxInFlight <- 1,
  slot <- duplexSlot, state <- duplexState, seen <- duplexSeen

\* A subscription over two sockets.
Watcher == INSTANCE DuplexProofs WITH
  Commands <- {}, Privates <- {}, Subs <- {"s1"}, MaxSockets <- 2, MaxInFlight <- 1,
  slot <- duplexSlot, state <- duplexState, seen <- duplexSeen

\* Two creation commands, two turns, three faults.
Sender == INSTANCE FirstSend WITH
  MaxStarts <- 2, MaxTurns <- 2, MaxFaults <- 3, pending <- sendPending,
  faults <- sendFaults

streamVars ==
  <<canon, streamLog, seq, pruned, streamOwner, watch, selected, pc, process, cursor,
    hydrated, reply, after, subscribed, pages, view, streamFaults>>
noteVars ==
  <<now, peak, noteOwner, noteLog, notePending, dst, right, noteRows, hw, nseq, att,
    cour, rcur, got, opn, conflict, exposed, backs, crashes, opens>>
duplexVars ==
  <<duplexSlot, duplexState, duplexSeen, act, c2s, s2c, srv, req, sentOn, ran, opened>>
sendVars ==
  <<mem, disk, job, sendPending, file, check, net, vessel, runtime, fate, ghost,
    sendFaults>>
deliveryVars == <<component, streamVars, noteVars, duplexVars, sendVars>>

ASSUME DeliveryBounds ==
  /\ Replay!BoundAssumption
  /\ Courier!StreamsKnown
  /\ Courier!BoundsPositive
  /\ Inbox!StreamsKnown
  /\ Inbox!BoundsPositive
  /\ Producers!StreamsKnown
  /\ Producers!BoundsPositive
  /\ Clock!StreamsKnown
  /\ Clock!BoundsPositive
  /\ Socket!DuplexAssumption
  /\ Watcher!DuplexAssumption
  /\ Sender!FirstSendAssumption

StreamAtRest ==
  /\ canon = Rest /\ streamLog = Rest /\ seq = Rest /\ pruned = Rest
  /\ streamOwner = Rest /\ watch = Rest /\ selected = Rest /\ pc = Rest
  /\ process = Rest /\ cursor = Rest /\ hydrated = Rest /\ reply = Rest
  /\ after = Rest /\ subscribed = Rest /\ pages = Rest /\ view = Rest
  /\ streamFaults = Rest
NoteAtRest ==
  /\ now = Rest /\ peak = Rest /\ noteOwner = Rest /\ noteLog = Rest
  /\ notePending = Rest /\ dst = Rest /\ right = Rest /\ noteRows = Rest /\ hw = Rest
  /\ nseq = Rest /\ att = Rest /\ cour = Rest /\ rcur = Rest /\ got = Rest
  /\ opn = Rest /\ conflict = Rest /\ exposed = Rest /\ backs = Rest
  /\ crashes = Rest /\ opens = Rest
DuplexAtRest ==
  /\ duplexSlot = Rest /\ duplexState = Rest /\ duplexSeen = Rest /\ act = Rest
  /\ c2s = Rest /\ s2c = Rest /\ srv = Rest /\ req = Rest /\ sentOn = Rest
  /\ ran = Rest /\ opened = Rest
SendAtRest ==
  /\ mem = Rest /\ disk = Rest /\ job = Rest /\ sendPending = Rest /\ file = Rest
  /\ check = Rest /\ net = Rest /\ vessel = Rest /\ runtime = Rest /\ fate = Rest
  /\ ghost = Rest /\ sendFaults = Rest

DeliveryInit ==
  /\ component \in {"replay", "courier", "inbox", "producers", "clock", "commands",
                    "subscriptions", "first_send"}
  /\ CASE component = "replay" -> Replay!Init
       [] OTHER -> StreamAtRest
  /\ CASE component = "courier" -> Courier!Init
       [] component = "inbox" -> Inbox!Init
       [] component = "producers" -> Producers!Init
       [] component = "clock" -> Clock!Init
       [] OTHER -> NoteAtRest
  /\ CASE component = "commands" -> Socket!Init
       [] component = "subscriptions" -> Watcher!Init
       [] OTHER -> DuplexAtRest
  /\ CASE component = "first_send" -> Sender!Init
       [] OTHER -> SendAtRest

\* Every other part keeps its state.
DeliveryNext ==
  \/ /\ component = "replay" /\ Replay!Next
     /\ UNCHANGED <<component, noteVars, duplexVars, sendVars>>
  \/ /\ component = "courier" /\ Courier!Next
     /\ UNCHANGED <<component, streamVars, duplexVars, sendVars>>
  \/ /\ component = "inbox" /\ Inbox!Next
     /\ UNCHANGED <<component, streamVars, duplexVars, sendVars>>
  \/ /\ component = "producers" /\ Producers!Next
     /\ UNCHANGED <<component, streamVars, duplexVars, sendVars>>
  \/ /\ component = "clock" /\ Clock!Next
     /\ UNCHANGED <<component, streamVars, duplexVars, sendVars>>
  \/ /\ component = "commands" /\ Socket!Next
     /\ UNCHANGED <<component, streamVars, noteVars, sendVars>>
  \/ /\ component = "subscriptions" /\ Watcher!Next
     /\ UNCHANGED <<component, streamVars, noteVars, sendVars>>
  \/ /\ component = "first_send" /\ Sender!Next
     /\ UNCHANGED <<component, streamVars, noteVars, duplexVars>>

DeliverySpec == DeliveryInit /\ [][DeliveryNext]_deliveryVars

-----------------------------------------------------------------------------

\* A client that has caught up shows exactly what the journal holds, its
\* cursor is backed by a snapshot or a page it applied, and the pages it
\* applies are contiguous, over compaction, restarts and dropped streams
\* (journal.rs, observe.rs).
EventStreamSafety ==
  component = "replay" => Replay!Safety

\* No notice is lost except by a bounded eviction, a drained backlog is
\* complete, a retried attempt recovers, a reader misses nothing, a revoked
\* device holds nothing and what is opened is current (notifications.rs,
\* store.rs).
NotificationsSafety ==
  /\ component = "courier" => Courier!Safety
  /\ component = "inbox" => Inbox!Safety
  /\ component = "producers" => Producers!Safety
  /\ component = "clock" => Clock!Safety
  /\ component = "producers" => Producers!GapIsReported

\* A refused command was never sent, one sent runs at most once, private
\* control stays on its socket, every loss is counted once and shown, and a
\* subscription is cancelled once (duplex.rs).
DuplexSafety ==
  /\ component = "commands" => Socket!Safety
  /\ component = "subscriptions" => Watcher!Safety

\* A voyage given up is never created, a turn is never replayed, the sender
\* is told the truth, and what is not settled is remembered on disk (helm
\* drafts and start).
FirstSendSafety ==
  component = "first_send" => Sender!Safety
=============================================================================
