----------------------------- MODULE OwnerMove -----------------------------
(***************************************************************************)
(* Moving a voyage from one Vessel to another.  A courier (Helm's `admin   *)
(* move`, with a durable journal) asks the destination to prepare, asks    *)
(* the source to relinquish and export a signed manifest, carries the      *)
(* artifact over in chunks and asks the destination to activate it, which  *)
(* starts an ordinary runtime that imports the artifact.                   *)
(*                                                                         *)
(* Every request is a message that may be handled late, its reply may be   *)
(* lost (the courier gives up and is run again with the same journal), the *)
(* source runtime may suspend or die, and either Vessel may restart in the *)
(* middle of a handler.  Signatures, digests and path checks are           *)
(* abstracted: an artifact that passes them is the one the source sealed.  *)
(***************************************************************************)
EXTENDS Naturals, FiniteSets

CONSTANTS
    Transfers,       \* transfer identities, one courier journal each
    Dests,           \* destination Vessels
    Dest,            \* Transfers -> Dests: the courier's pinned destination
    Submissions,        \* identities of submitted user commands
    Chunks,          \* artifact length in chunks
    MaxGiveUps,      \* replies the couriers may lose
    MaxFaults,       \* crashes, expired waits and operator restarts
    MaxIncarnation,  \* bound on restarts of one owner; the last is the export's
    Suspends,      \* whether an idle source runtime retires
    NoTransfer

MoveAssumption ==
    /\ IsFiniteSet(Transfers) /\ NoTransfer \notin Transfers
    /\ Dest \in [Transfers -> Dests]
    /\ IsFiniteSet(Submissions)
    /\ Chunks \in Nat \ {0} /\ MaxGiveUps \in Nat /\ MaxFaults \in Nat
    /\ MaxIncarnation \in Nat \ {0} /\ Suspends \in BOOLEAN

VARIABLES
    src,     \* the source session: registration, runtime process and journal
    relay,   \* the Relinquish command inside the source runtime
    sealed,  \* the source journal's transfer row: what the artifact contains
    files,   \* transfers whose artifact file the source runtime wrote
    exp,     \* the source Vessel's export handlers and their durable records
    cour,    \* courier processes and their journals
    net,     \* requests sent and not yet handled
    dst,     \* destination Vessel: prepared.json and start records, per transfer
    own,     \* the session at each destination
    ran,     \* how often each command was executed, by any owner
    expired, \* the command window has closed
    giveUps, faults

moveVars == <<src, relay, sealed, files, exp, cour, net, dst, own, ran, expired,
              giveUps, faults>>

sourceVars == <<src, relay, sealed, files, exp>>
destVars == <<dst, own>>
budget == <<giveUps, faults>>

Ops == {"prepare", "export", "status", "accept", "upload", "activate"}
Message == [op : Ops, t : Transfers, run : 0..MaxGiveUps, off : 0..Chunks]
NoRelay == [t |-> NoTransfer, committed |-> FALSE]

MoveTypeOK ==
    /\ src \in [inc : 1..MaxIncarnation, relinquished : BOOLEAN,
                rt : {"live", "suspended", "closing", "stopped", "dead"}, active : BOOLEAN,
                hist : SUBSET Submissions, moved : Transfers \cup {NoTransfer}]
    /\ relay \in [t : Transfers \cup {NoTransfer}, committed : BOOLEAN]
    /\ sealed \in [Transfers -> SUBSET Submissions]
    /\ files \subseteq Transfers
    /\ exp \in [Transfers -> [pc : {"none", "forward", "relinquish", "observe", "mark"},
                              run : 0..MaxGiveUps,
                              recorded : BOOLEAN, manifest : BOOLEAN]]
    /\ cour \in [Transfers -> [pc : Ops \cup {"new", "off", "done"}, run : 0..MaxGiveUps,
                               inc : 0..MaxIncarnation, rev : 0..Cardinality(Submissions),
                               preparation : BOOLEAN, manifest : BOOLEAN,
                               pending : BOOLEAN, off : 0..Chunks]]
    /\ net \subseteq Message
    /\ dst \in [Transfers -> [pc : {"none", "start", "launch", "settle"},
                              run : 0..MaxGiveUps,
                              prepared : BOOLEAN, manifest : BOOLEAN,
                              bytes : 0..Chunks, intent : BOOLEAN,
                              admitted : BOOLEAN, launches : Nat,
                              receipt : BOOLEAN, activated : BOOLEAN]]
    /\ own \in [Dests -> [init : Transfers \cup {NoTransfer}, inc : 0..MaxIncarnation,
                          rt : {"none", "starting", "live", "dead"},
                          imported : Transfers \cup {NoTransfer},
                          hist : SUBSET Submissions, bound : SUBSET Submissions]]
    /\ ran \in [Submissions -> Nat]
    /\ expired \in BOOLEAN
    /\ giveUps \in 0..MaxGiveUps /\ faults \in 0..MaxFaults

MoveInit ==
    /\ src = [inc |-> 1, relinquished |-> FALSE, rt |-> "live", active |-> FALSE,
              hist |-> {}, moved |-> NoTransfer]
    /\ relay = NoRelay
    /\ sealed = [t \in Transfers |-> {}]
    /\ files = {}
    /\ exp = [t \in Transfers |-> [pc |-> "none", run |-> 0,
                                   recorded |-> FALSE, manifest |-> FALSE]]
    /\ cour = [t \in Transfers |-> [pc |-> "new", run |-> 0, inc |-> 0, rev |-> 0,
                                    preparation |-> FALSE, manifest |-> FALSE,
                                    pending |-> FALSE, off |-> 0]]
    /\ net = {}
    /\ dst = [t \in Transfers |-> [pc |-> "none", run |-> 0,
                                   prepared |-> FALSE, manifest |-> FALSE,
                                   bytes |-> 0, intent |-> FALSE,
                                   admitted |-> FALSE, launches |-> 0,
                                   receipt |-> FALSE, activated |-> FALSE]]
    /\ own = [d \in Dests |-> [init |-> NoTransfer, inc |-> 0, rt |-> "none",
                               imported |-> NoTransfer, hist |-> {}, bound |-> {}]]
    /\ ran = [c \in Submissions |-> 0]
    /\ expired = FALSE
    /\ giveUps = 0 /\ faults = 0

-----------------------------------------------------------------------------
(* The courier. *)

\* The request a courier in state k sends when it enters operation op.
Enter(k, op) == [k EXCEPT !.pc = op]
Request(t, k) == [op |-> k.pc, t |-> t, run |-> k.run, off |-> k.off]

\* After the manifest is accepted, or a chunk acknowledged: the next chunk, or
\* the activation, which is journalled as pending before it is sent.
NextUpload(k) ==
    IF k.off < Chunks THEN Enter(k, "upload")
                      ELSE [Enter(k, "activate") EXCEPT !.pending = TRUE]

\* A recovered journal with a manifest first asks for the readonly status.
Resumed(k) ==
    CASE ~k.preparation -> Enter(k, "prepare")
      [] k.preparation /\ ~k.manifest -> Enter(k, "export")
      [] OTHER -> Enter(k, "status")

\* A first run pins the incarnation and revision the user inspected.
CourierRun(t) ==
    /\ cour[t].pc \in {"new", "off"}
    /\ LET k == IF cour[t].pc = "new"
                THEN [cour[t] EXCEPT !.inc = src.inc, !.rev = Cardinality(src.hist)]
                ELSE cour[t]
       IN /\ cour' = [cour EXCEPT ![t] = Resumed(k)]
          /\ net' = net \cup {Request(t, Resumed(k))}
    /\ UNCHANGED <<sourceVars, destVars, ran, expired, budget>>

\* The reply is lost, the connection drops or Helm is killed: the request may
\* still be handled later.
CourierGivesUp(t) ==
    /\ cour[t].pc \in Ops
    /\ giveUps < MaxGiveUps
    /\ giveUps' = giveUps + 1
    /\ cour' = [cour EXCEPT ![t].pc = "off", ![t].run = @ + 1, ![t].off = 0]
    /\ UNCHANGED <<sourceVars, net, destVars, ran, expired, faults>>

\* The reply to request m, if the courier that sent it still waits for it.
Waits(m) == cour[m.t].pc = m.op /\ cour[m.t].run = m.run

ReplyTo(m, k, more) ==
    /\ cour' = IF Waits(m) THEN [cour EXCEPT ![m.t] = k] ELSE cour
    /\ net' = (net \ {m}) \cup (IF Waits(m) /\ more THEN {Request(m.t, k)} ELSE {})

Refuse(m) == ReplyTo(m, [cour[m.t] EXCEPT !.pc = "off", !.off = 0], FALSE)

-----------------------------------------------------------------------------
(* The source session. *)

Fenced == src.moved # NoTransfer

\* Mutation: a relinquished journal still admits.
SourceSubmitUnfenced(c) ==
    /\ src.rt = "live" /\ ~src.active /\ relay.t = NoTransfer
    /\ c \notin src.hist
    /\ src' = [src EXCEPT !.active = TRUE, !.hist = @ \cup {c}]
    /\ ran' = [ran EXCEPT ![c] = @ + 1]
    /\ UNCHANGED <<relay, sealed, files, exp, cour, net, destVars, expired, budget>>

\* Admission at the source: refused once the journal is relinquished, and while
\* the relinquishment holds the admission lock.
SourceSubmit(c) ==
    /\ src.rt = "live" /\ ~src.active /\ relay.t = NoTransfer
    /\ ~Fenced /\ c \notin src.hist
    /\ src' = [src EXCEPT !.active = TRUE, !.hist = @ \cup {c}]
    /\ ran' = [ran EXCEPT ![c] = @ + 1]
    /\ UNCHANGED <<relay, sealed, files, exp, cour, net, destVars, expired, budget>>

SourceFinish ==
    /\ src.rt = "live" /\ src.active
    /\ src' = [src EXCEPT !.active = FALSE]
    /\ UNCHANGED <<relay, sealed, files, exp, cour, net, destVars, ran, expired, budget>>

SourceSuspend ==
    /\ Suspends
    /\ src.rt = "live" /\ ~src.active /\ relay.t = NoTransfer
    /\ src' = [src EXCEPT !.rt = "suspended"]
    /\ UNCHANGED <<relay, sealed, files, exp, cour, net, destVars, ran, expired, budget>>

SourceDies ==
    /\ src.rt \in {"live", "closing"} /\ faults < MaxFaults
    /\ faults' = faults + 1
    /\ src' = [src EXCEPT !.rt = "dead", !.active = FALSE]
    /\ relay' = NoRelay
    /\ UNCHANGED <<sealed, files, exp, cour, net, destVars, ran, expired, giveUps>>

\* Restart gives the session a fresh incarnation; a relinquished registration
\* is never restarted.
Restarted(s) == [s EXCEPT !.inc = @ + 1, !.rt = "live"]

LifecycleFree == \A t \in Transfers : exp[t].pc # "relinquish"

\* Another command resumes a suspended or abandoned owner.
SourceResume ==
    /\ src.rt \in {"suspended", "dead"}
    /\ ~src.relinquished /\ LifecycleFree
    /\ src.inc + 1 < MaxIncarnation
    /\ src' = Restarted(src)
    /\ UNCHANGED <<relay, sealed, files, exp, cour, net, destVars, ran, expired, budget>>

\* An operator's explicit Restart of a cleanly stopped owner.
SourceRestart ==
    /\ src.rt = "stopped" /\ ~src.relinquished
    /\ src.inc + 1 < MaxIncarnation /\ faults < MaxFaults
    /\ faults' = faults + 1
    /\ src' = Restarted(src)
    /\ UNCHANGED <<relay, sealed, files, exp, cour, net, destVars, ran, expired, giveUps>>

Expire ==
    /\ ~expired
    /\ expired' = TRUE
    /\ UNCHANGED <<sourceVars, cour, net, destVars, ran, budget>>

-----------------------------------------------------------------------------
(* The source Vessel: ExportTransfer. *)

ExportRequest(t) == [op |-> "export", t |-> t, run |-> exp[t].run, off |-> 0]

\* The handler returns an error to its courier and releases the transfer lock.
ExportFails(t) ==
    /\ exp' = [exp EXCEPT ![t].pc = "none"]
    /\ Refuse(ExportRequest(t))

\* A recorded export whose manifest is saved is answered from it; otherwise the
\* incarnation must be the courier's and the first attempt unexpired.
Export(m) ==
    /\ m \in net /\ m.op = "export" /\ exp[m.t].pc = "none"
    /\ LET t == m.t
           e == exp[t]
       IN \/ /\ e.recorded /\ e.manifest
             /\ LET k == [cour[t] EXCEPT !.manifest = TRUE, !.pc = "accept"]
                IN ReplyTo(m, k, TRUE)
             /\ UNCHANGED exp
          \/ /\ ~(e.recorded /\ e.manifest)
             /\ src.inc # cour[t].inc \/ (~e.recorded /\ expired)
             /\ Refuse(m)
             /\ UNCHANGED exp
          \/ /\ ~(e.recorded /\ e.manifest)
             /\ src.inc = cour[t].inc /\ (e.recorded \/ ~expired)
             /\ exp' = [exp EXCEPT ![t] =
                          [@ EXCEPT !.recorded = TRUE, !.run = m.run,
                             !.pc = IF t \in files THEN "observe" ELSE "forward"]]
             /\ net' = net \ {m}
             /\ UNCHANGED cour
    /\ UNCHANGED <<src, relay, sealed, files, destVars, ran, expired, budget>>

\* forward_resuming: the incarnation is checked again under the lifecycle lock,
\* a suspended or abandoned owner is restarted, and Relinquish is dispatched.
ExportForward(t) ==
    /\ exp[t].pc = "forward" /\ LifecycleFree
    /\ \/ /\ src.inc = cour[t].inc /\ src.rt = "live"
          /\ relay.t = NoTransfer
          /\ relay' = [t |-> t, committed |-> FALSE]
          /\ exp' = [exp EXCEPT ![t].pc = "relinquish"]
          /\ UNCHANGED <<src, cour, net>>
       \/ /\ src.inc = cour[t].inc /\ src.rt \in {"suspended", "dead"}
          /\ ~src.relinquished /\ src.inc < MaxIncarnation
          /\ src' = Restarted(src)
          /\ relay' = [t |-> t, committed |-> FALSE]
          /\ exp' = [exp EXCEPT ![t].pc = "relinquish"]
          /\ UNCHANGED <<cour, net>>
       \/ /\ \/ src.inc # cour[t].inc
             \/ src.rt \in {"closing", "stopped"}
             \/ src.relinquished /\ src.rt # "live"
          /\ ExportFails(t)
          /\ UNCHANGED <<src, relay>>
    /\ UNCHANGED <<sealed, files, destVars, ran, expired, budget>>

\* Mutation: an already relinquished session is sealed for another transfer.
MayRelinquishTwice(t) ==
    ~src.active /\ ~expired /\ Cardinality(src.hist) = cour[t].rev

\* Journal::relinquish.  The same command is answered again; otherwise the
\* session must be admissible, idle, unexpired and at the expected revision.
MayRelinquish(t) ==
    ~Fenced /\ ~src.active /\ ~expired /\ Cardinality(src.hist) = cour[t].rev

Relinquish ==
    /\ src.rt = "live" /\ relay.t # NoTransfer /\ ~relay.committed
    /\ LET t == relay.t
       IN \/ /\ src.moved = t
             /\ relay' = [relay EXCEPT !.committed = TRUE]
             /\ UNCHANGED <<src, sealed>>
          \/ /\ src.moved # t /\ MayRelinquish(t)
             /\ src' = [src EXCEPT !.moved = t]
             /\ sealed' = [sealed EXCEPT ![t] = src.hist]
             /\ relay' = [relay EXCEPT !.committed = TRUE]
          \/ /\ src.moved # t /\ ~MayRelinquish(t)
             /\ relay' = NoRelay
             /\ UNCHANGED <<src, sealed>>
    /\ UNCHANGED <<files, exp, cour, net, destVars, ran, expired, budget>>

\* Mutation: the artifact is written before the journal commits.
WriteArtifactFirst ==
    /\ src.rt = "live" /\ relay.t # NoTransfer
    /\ files' = files \cup {relay.t}
    /\ relay' = NoRelay
    /\ src' = [src EXCEPT !.rt = "closing"]
    /\ UNCHANGED <<sealed, exp, cour, net, destVars, ran, expired, budget>>

\* The runtime persists the artifact, then shuts down and proves its cleanup.
WriteArtifact ==
    /\ src.rt = "live" /\ relay.t # NoTransfer /\ relay.committed
    /\ files' = files \cup {relay.t}
    /\ relay' = NoRelay
    /\ src' = [src EXCEPT !.rt = "closing"]
    /\ UNCHANGED <<sealed, exp, cour, net, destVars, ran, expired, budget>>

\* The file cannot be written: the commit stands, the owner lives on.
WriteFails ==
    /\ src.rt = "live" /\ relay.t # NoTransfer /\ relay.committed
    /\ faults < MaxFaults
    /\ faults' = faults + 1
    /\ relay' = NoRelay
    /\ UNCHANGED <<src, sealed, files, exp, cour, net, destVars, ran, expired, giveUps>>

SourceStops ==
    /\ src.rt = "closing"
    /\ src' = [src EXCEPT !.rt = "stopped"]
    /\ UNCHANGED <<relay, sealed, files, exp, cour, net, destVars, ran, expired, budget>>

\* The Vessel gets the runtime's answer, or loses the runtime.
ExportAnswered(t) ==
    /\ exp[t].pc = "relinquish" /\ relay.t # t
    /\ \/ /\ t \in files
          /\ exp' = [exp EXCEPT ![t].pc = "observe"]
          /\ UNCHANGED <<cour, net>>
       \/ /\ t \notin files
          /\ ExportFails(t)
    /\ UNCHANGED <<src, relay, sealed, files, destVars, ran, expired, budget>>

\* Mutation: the manifest is saved only under the courier's incarnation.
ExportObserveOwner(t) ==
    /\ exp[t].pc = "observe" /\ src.rt = "stopped" /\ src.inc = cour[t].inc
    /\ exp' = [exp EXCEPT ![t].pc = "mark", ![t].manifest = TRUE]
    /\ UNCHANGED <<src, relay, sealed, files, cour, net, destVars, ran, expired, budget>>

\* Only a positively observed clean stop lets the manifest be signed and saved.
ExportObserve(t) ==
    /\ exp[t].pc = "observe" /\ src.rt = "stopped"
    /\ exp' = [exp EXCEPT ![t].pc = "mark", ![t].manifest = TRUE]
    /\ UNCHANGED <<src, relay, sealed, files, cour, net, destVars, ran, expired, budget>>

\* Ten seconds without that observation.
ExportTimesOut(t) ==
    /\ exp[t].pc = "observe" /\ src.rt # "stopped"
    /\ src.rt = "closing" => faults < MaxFaults
    /\ faults' = IF src.rt = "closing" THEN faults + 1 ELSE faults
    /\ ExportFails(t)
    /\ UNCHANGED <<src, relay, sealed, files, destVars, ran, expired, giveUps>>

\* The registration becomes Relinquished if it is still the courier's one.
ExportMark(t) ==
    /\ exp[t].pc = "mark"
    /\ \/ /\ src.inc = cour[t].inc
          /\ src' = [src EXCEPT !.relinquished = TRUE]
          /\ exp' = [exp EXCEPT ![t].pc = "none"]
          /\ LET k == [cour[t] EXCEPT !.manifest = TRUE, !.pc = "accept"]
             IN ReplyTo(ExportRequest(t), k, TRUE)
       \/ /\ src.inc # cour[t].inc
          /\ ExportFails(t)
          /\ UNCHANGED src
    /\ UNCHANGED <<relay, sealed, files, destVars, ran, expired, budget>>

\* The source Vessel restarts: its handlers are gone, its records are not.
SourceVesselCrash ==
    /\ faults < MaxFaults
    /\ \E t \in Transfers : exp[t].pc # "none"
    /\ faults' = faults + 1
    /\ exp' = [t \in Transfers |-> [exp[t] EXCEPT !.pc = "none"]]
    /\ cour' = [t \in Transfers |->
                  IF exp[t].pc # "none" /\ Waits(ExportRequest(t))
                  THEN [cour[t] EXCEPT !.pc = "off"] ELSE cour[t]]
    /\ UNCHANGED <<src, relay, sealed, files, net, destVars, ran, expired, giveUps>>

-----------------------------------------------------------------------------
(* The destination Vessel.  The per-transfer lock serializes its handlers. *)

Handles(m, op) == m \in net /\ m.op = op /\ dst[m.t].pc = "none"
Known(t) == own[Dest[t]].init # NoTransfer

Prepare(m) ==
    /\ Handles(m, "prepare")
    /\ LET t == m.t
           k == [cour[t] EXCEPT !.preparation = TRUE, !.pc = "export"]
       IN \/ /\ dst[t].prepared
             /\ ReplyTo(m, k, TRUE)
             /\ UNCHANGED dst
          \/ /\ ~dst[t].prepared /\ ~Known(t) /\ ~expired
             /\ dst' = [dst EXCEPT ![t].prepared = TRUE]
             /\ ReplyTo(m, k, TRUE)
          \/ /\ ~dst[t].prepared /\ (Known(t) \/ expired)
             /\ Refuse(m)
             /\ UNCHANGED dst
    /\ UNCHANGED <<sourceVars, own, ran, expired, budget>>

AcceptTransfer(m) ==
    /\ Handles(m, "accept")
    /\ dst' = [dst EXCEPT ![m.t].manifest = TRUE]
    /\ ReplyTo(m, NextUpload(cour[m.t]), TRUE)
    /\ UNCHANGED <<sourceVars, own, ran, expired, budget>>

\* Bytes may be added only before any sign of activation.
MayUpload(t) ==
    /\ ~dst[t].activated /\ dst[t].manifest /\ ~dst[t].intent
    /\ ~Known(t) /\ ~dst[t].admitted

\* Mutation: a repeated chunk is appended again.
UploadAppends(m) ==
    /\ Handles(m, "upload")
    /\ LET t == m.t
           fits == MayUpload(t) /\ m.off <= dst[t].bytes
       IN \/ /\ fits
             /\ dst' = [dst EXCEPT ![t].bytes = @ + 1]
             /\ ReplyTo(m, NextUpload([cour[t] EXCEPT !.off = m.off + 1]), TRUE)
          \/ /\ ~fits
             /\ Refuse(m)
             /\ UNCHANGED dst
    /\ UNCHANGED <<sourceVars, own, ran, expired, budget>>

Upload(m) ==
    /\ Handles(m, "upload")
    /\ LET t == m.t
           fits == MayUpload(t) /\ m.off <= dst[t].bytes
       IN \/ /\ fits
             /\ dst' = [dst EXCEPT ![t].bytes = IF m.off = @ THEN @ + 1 ELSE @]
             /\ ReplyTo(m, NextUpload([cour[t] EXCEPT !.off = m.off + 1]), TRUE)
          \/ /\ ~fits
             /\ Refuse(m)
             /\ UNCHANGED dst
    /\ UNCHANGED <<sourceVars, own, ran, expired, budget>>

\* The readonly proof: Complete from the creation receipt, Receiving only
\* without any trace of activation, otherwise Pending.
Receiving(t) ==
    ~dst[t].admitted /\ ~Known(t) /\ ~dst[t].intent /\ ~dst[t].activated

Status(m) ==
    /\ Handles(m, "status")
    /\ LET t == m.t
           k == cour[t]
       IN \/ /\ dst[t].receipt
             /\ ReplyTo(m, [k EXCEPT !.pc = "done"], FALSE)
          \/ /\ ~dst[t].receipt /\ Receiving(t)
             /\ ReplyTo(m, [k EXCEPT !.pc = "accept", !.pending = FALSE,
                              !.off = IF dst[t].bytes = Chunks THEN Chunks ELSE 0], TRUE)
          \/ /\ ~dst[t].receipt /\ ~Receiving(t)
             /\ Refuse(m)
    /\ UNCHANGED <<sourceVars, destVars, ran, expired, budget>>

\* The activation intent is pinned after the artifact checks, before startup.
Activate(m) ==
    /\ Handles(m, "activate")
    /\ LET t == m.t
           whole == dst[t].manifest /\ dst[t].bytes = Chunks
       IN \/ /\ whole
             /\ dst' = [dst EXCEPT ![t].intent = TRUE, ![t].pc = "start", ![t].run = m.run]
             /\ net' = net \ {m}
             /\ UNCHANGED cour
          \/ /\ ~whole
             /\ Refuse(m)
             /\ UNCHANGED dst
    /\ UNCHANGED <<sourceVars, own, ran, expired, budget>>

ActivateRequest(t) == [op |-> "activate", t |-> t, run |-> dst[t].run, off |-> Chunks]

Activated(t) == [dst EXCEPT ![t].pc = "none", ![t].activated = TRUE]
Finished(t) == ReplyTo(ActivateRequest(t), [cour[t] EXCEPT !.pc = "done"], FALSE)

ActivateFails(t) ==
    /\ dst' = [dst EXCEPT ![t].pc = "none"]
    /\ Refuse(ActivateRequest(t))

\* Mutation: an admitted start without a receipt is launched again.
StartAdmitAgain(t) ==
    /\ dst[t].pc = "start"
    /\ LET d == Dest[t]
       IN \/ /\ dst[t].receipt
             /\ dst' = Activated(t)
             /\ Finished(t)
             /\ UNCHANGED own
          \/ /\ ~dst[t].receipt /\ own[d].init \in {NoTransfer, t}
             /\ dst' = [dst EXCEPT ![t].admitted = TRUE, ![t].pc = "launch"]
             /\ own' = [own EXCEPT ![d].init = t, ![d].inc = 1]
             /\ UNCHANGED <<cour, net>>
          \/ /\ ~dst[t].receipt /\ own[d].init \notin {NoTransfer, t}
             /\ ActivateFails(t)
             /\ UNCHANGED own
    /\ UNCHANGED <<sourceVars, ran, expired, budget>>

\* start_initialized: a recorded command is answered from its receipt or its
\* registration, never launched again; a new one is admitted with its
\* registration in one transaction.
StartAdmit(t) ==
    /\ dst[t].pc = "start"
    /\ LET d == Dest[t]
       IN \/ /\ dst[t].admitted
             /\ dst' = Activated(t)
             /\ Finished(t)
             /\ UNCHANGED own
          \/ /\ ~dst[t].admitted /\ ~Known(t)
             /\ dst' = [dst EXCEPT ![t].admitted = TRUE, ![t].pc = "launch"]
             /\ own' = [own EXCEPT ![d].init = t, ![d].inc = 1]
             /\ UNCHANGED <<cour, net>>
          \/ /\ ~dst[t].admitted /\ Known(t)
             /\ ActivateFails(t)
             /\ UNCHANGED own
    /\ UNCHANGED <<sourceVars, ran, expired, budget>>

Launch(t) ==
    /\ dst[t].pc = "launch"
    /\ dst' = [dst EXCEPT ![t].pc = "settle", ![t].launches = @ + 1]
    /\ own' = [own EXCEPT ![Dest[t]].rt = "starting"]
    /\ UNCHANGED <<sourceVars, cour, net, ran, expired, budget>>

\* Mutation: the receipt is minted without observing readiness.
SettleBlind(t) ==
    /\ dst[t].pc = "settle"
    /\ dst' = [Activated(t) EXCEPT ![t].receipt = TRUE]
    /\ Finished(t)
    /\ UNCHANGED <<sourceVars, own, ran, expired, budget>>

\* Readiness of the launched owner mints the immutable creation receipt.
SettleStart(t) ==
    /\ dst[t].pc = "settle"
    /\ own[Dest[t]].rt = "live" /\ own[Dest[t]].inc = 1
    /\ dst' = [Activated(t) EXCEPT ![t].receipt = TRUE]
    /\ Finished(t)
    /\ UNCHANGED <<sourceVars, own, ran, expired, budget>>

SettleTimesOut(t) ==
    /\ dst[t].pc = "settle" /\ faults < MaxFaults
    /\ faults' = faults + 1
    /\ ActivateFails(t)
    /\ UNCHANGED <<sourceVars, own, ran, expired, giveUps>>

DestVesselCrash(d) ==
    /\ faults < MaxFaults
    /\ \E t \in Transfers : Dest[t] = d /\ dst[t].pc # "none"
    /\ faults' = faults + 1
    /\ LET hit == {t \in Transfers : Dest[t] = d /\ dst[t].pc # "none"}
       IN /\ dst' = [t \in Transfers |->
                       IF t \in hit THEN [dst[t] EXCEPT !.pc = "none"] ELSE dst[t]]
          /\ cour' = [t \in Transfers |->
                        IF t \in hit /\ Waits(ActivateRequest(t))
                        THEN [cour[t] EXCEPT !.pc = "off", !.off = 0] ELSE cour[t]]
    /\ UNCHANGED <<sourceVars, net, own, ran, expired, giveUps>>

-----------------------------------------------------------------------------
(* The session at a destination. *)

\* Mutation: the import carries no command tombstones.
ImportForgets(d) ==
    /\ own[d].rt = "starting"
    /\ LET t == own[d].init
       IN own' = [own EXCEPT ![d] =
                    IF @.imported = t THEN [@ EXCEPT !.rt = "live"]
                    ELSE [@ EXCEPT !.rt = "live", !.imported = t,
                                   !.hist = sealed[t], !.bound = {}]]
    /\ UNCHANGED <<sourceVars, cour, net, dst, ran, expired, budget>>

\* bootstrap::initialize: the import is idempotent by its provenance.
Import(d) ==
    /\ own[d].rt = "starting"
    /\ LET t == own[d].init
       IN own' = [own EXCEPT ![d] =
                    IF @.imported = t THEN [@ EXCEPT !.rt = "live"]
                    ELSE [@ EXCEPT !.rt = "live", !.imported = t,
                                   !.hist = sealed[t], !.bound = sealed[t]]]
    /\ UNCHANGED <<sourceVars, cour, net, dst, ran, expired, budget>>

DestDies(d) ==
    /\ own[d].rt \in {"starting", "live"} /\ faults < MaxFaults
    /\ faults' = faults + 1
    /\ own' = [own EXCEPT ![d].rt = "dead"]
    /\ UNCHANGED <<sourceVars, cour, net, dst, ran, expired, giveUps>>

DestResume(d) ==
    /\ own[d].init # NoTransfer
    /\ own[d].rt \in {"none", "dead"}
    /\ dst[own[d].init].pc # "launch" /\ own[d].inc < MaxIncarnation
    /\ own' = [own EXCEPT ![d].rt = "starting", ![d].inc = @ + 1]
    /\ UNCHANGED <<sourceVars, cour, net, dst, ran, expired, budget>>

\* A command the source already bound is answered from its tombstone.
DestSubmit(d, c) ==
    /\ own[d].rt = "live"
    /\ c \notin own[d].bound
    /\ own' = [own EXCEPT ![d].hist = @ \cup {c}, ![d].bound = @ \cup {c}]
    /\ ran' = [ran EXCEPT ![c] = @ + 1]
    /\ UNCHANGED <<sourceVars, cour, net, dst, expired, budget>>

-----------------------------------------------------------------------------
CourierStep(t) == CourierRun(t) \/ CourierGivesUp(t)

SourceStep ==
    \/ \E c \in Submissions : SourceSubmit(c)
    \/ SourceFinish \/ SourceSuspend \/ SourceDies
    \/ SourceResume \/ SourceRestart \/ Expire

ExportSteps(t) ==
    \/ ExportForward(t) \/ ExportAnswered(t) \/ ExportObserve(t)
    \/ ExportTimesOut(t) \/ ExportMark(t)

DestSteps(t) == StartAdmit(t) \/ Launch(t) \/ SettleStart(t) \/ SettleTimesOut(t)

Handle(m) ==
    \/ Prepare(m) \/ Export(m) \/ AcceptTransfer(m) \/ Upload(m) \/ Status(m) \/ Activate(m)

OwnStep(d) ==
    \/ Import(d) \/ DestDies(d) \/ DestResume(d) \/ DestVesselCrash(d)
    \/ \E c \in Submissions : DestSubmit(d, c)

MoveNext ==
    \/ \E t \in Transfers : CourierStep(t) \/ ExportSteps(t) \/ DestSteps(t)
    \/ \E m \in net : Handle(m)
    \/ SourceStep \/ Relinquish \/ WriteArtifact \/ WriteFails
    \/ SourceStops \/ SourceVesselCrash
    \/ \E d \in Dests : OwnStep(d)

MoveSpec == MoveInit /\ [][MoveNext]_moveVars

(* The courier is run again until it is done, requests are handled, handlers *)
(* and runtimes go on; nothing forces a crash, a lost reply or a user.       *)
MoveFairness ==
    /\ \A t \in Transfers :
         WF_moveVars(CourierRun(t)) /\ WF_moveVars(ExportSteps(t))
         /\ WF_moveVars(StartAdmit(t) \/ Launch(t) \/ SettleStart(t))
    /\ WF_moveVars(\E m \in net : Handle(m))
    /\ WF_moveVars(Relinquish) /\ WF_moveVars(WriteArtifact) /\ WF_moveVars(SourceStops)
    /\ \A d \in Dests : WF_moveVars(Import(d))

MoveFairSpec == MoveSpec /\ MoveFairness

-----------------------------------------------------------------------------
(* Properties. *)

Owners == {d \in Dests : own[d].imported # NoTransfer}

(* Ownership is never doubled: a destination holds the session only after   *)
(* the source journal relinquished it to that very transfer, and at most    *)
(* one destination does, whatever couriers race and whatever is retried.    *)
SingleOwner ==
    /\ \A d \in Owners : own[d].imported = src.moved
    /\ Cardinality(Owners) <= 1

(* Nothing is lost on the way: a new owner starts from every command the    *)
(* source ever executed, the ones admitted while the move was running       *)
(* included.                                                                *)
HistoryMoves == \A d \in Owners : src.hist \subseteq own[d].hist

(* A command identity is executed at most once, over both owners.           *)
ExecutedOnce == \A c \in Submissions : ran[c] <= 1

(* However often an activation is sent, delayed or repeated after a Vessel  *)
(* restart, the destination starts the imported owner once, from a complete *)
(* artifact.                                                                *)
StartedOnce ==
    \A t \in Transfers :
        /\ dst[t].launches <= 1
        /\ dst[t].launches = 1 => dst[t].bytes = Chunks

(* "Complete" is proof: a creation receipt exists only for a transfer whose *)
(* history the destination holds, and a courier that is told of it is done. *)
ReceiptIsProof ==
    \A t \in Transfers : dst[t].receipt => own[Dest[t]].imported = t

(* A manifest is handed out only when the source can no longer execute:     *)
(* journal fenced, artifact written.                                        *)
ManifestIsFinal ==
    \A t \in Transfers :
        exp[t].manifest \/ cour[t].manifest => src.moved = t /\ t \in files

(* A committed relinquishment reaches its destination: lost replies and     *)
(* repeated couriers alone never leave the session without an owner.        *)
MoveCompletes ==
    \A t \in Transfers : (src.moved = t) ~> (own[Dest[t]].imported = t)

(* What docs/process-access.md promises: "committed transfers remain        *)
(* recoverable by exact identity".  A committed relinquishment can at least *)
(* be exported to the courier that keeps repeating the same command.        *)
CommittedIsRecoverable ==
    \A t \in Transfers : (src.moved = t) ~> exp[t].manifest

(* The session has one owner and its whole history at every instant of the    *)
(* move, whatever is lost, repeated or restarted (vessel transfer, courier).   *)
OwnerMoveSafety ==
    /\ MoveTypeOK /\ SingleOwner /\ HistoryMoves /\ ExecutedOnce
    /\ StartedOnce /\ ReceiptIsProof /\ ManifestIsFinal
=============================================================================
