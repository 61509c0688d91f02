------------------------------ MODULE Steering ------------------------------
(***************************************************************************)
(* Guidance sent to one active run.  A receipt is committed to the journal *)
(* before it is delivered over a bounded in-memory channel; the agent      *)
(* drains the channel between provider requests, and the checkpoint that   *)
(* makes drained guidance canonical settles its receipts.                  *)
(*                                                                         *)
(* Three threads meet here: submissions (serialised by the store mutex,    *)
(* which each holds from its commit to its delivery), the agent loop, and  *)
(* the blocking journal worker, whose write survives the agent that asked  *)
(* for it.  An exact retry of a submission only reads its row.             *)
(***************************************************************************)
EXTENDS Integers, Sequences, FiniteSets

CONSTANTS
  Receipts,      \* steering commands sent to the run
  NoHolder,      \* "nobody holds the store mutex"
  MaxPending,    \* MAX_PENDING_STEERING, also the channel's capacity
  MaxTotal,      \* MAX_STEERING_PER_RUN
  MaxHistory     \* bound on the canonical history

Texts == {"prompt", "segment", "call", "result", "answer"}

ASSUME ReceiptAssumption == NoHolder \notin Receipts /\ Receipts \cap Texts = {}
ASSUME LimitAssumption ==
  MaxPending \in Nat \ {0} /\ MaxTotal \in Nat \ {0} /\ MaxHistory \in Nat \ {0}

VARIABLES
  \* durable: the journal
  run,           \* runs.record.state
  final,         \* runs.record.final_checkpointed
  cancel,        \* a cancel intent of the run is committed
  transcript,    \* canonical messages of the run
  status,        \* steering.status, or "absent"
  reason,        \* why a receipt was not applied
  ordinal,       \* admission order of the receipt
  index,         \* canonical_index of an applied receipt
  \* volatile: the owner process
  ownerUp,       \* the owner lives
  gated,         \* the agent finishes under a completion gate
  holder,        \* submission between its commit and its delivery
  channel,       \* SteeringState.messages
  open,          \* SteeringState.open
  poisoned,      \* TurnToken.poisoned
  agent,         \* where the agent loop is
  site,          \* the checkpoint call the agent waits in
  writing,       \* the journal write a blocking worker has queued
  proposal,      \* the history that write proposes
  late           \* receipts whose deadline is in the past

runJournal   == <<run, final, cancel, transcript>>
records      == <<status, reason, ordinal, index>>
inbox        == <<holder, channel, open, poisoned>>
loop         == <<agent, site, writing, proposal>>
steeringVars == <<runJournal, records, inbox, loop, ownerUp, gated, late>>

RunActive   == {"Accepted", "Running"}
RunTerminal == {"Completed", "Incomplete", "Cancelled", "Failed", "Interrupted"}
Rejection   == {"Expired", "QueueFull", "Closed", "Cancelled", "Interrupted",
                "RunFailed", "RunCompleted"}
Executing   == {"loop", "asking", "tools", "answered", "closing", "sealed", "writing"}
AgentPhase  == Executing \cup {"waiting", "accepted", "incomplete", "failed",
                               "abandoned", "gone"}
Site        == {"loop", "segment", "call", "result", "answer", "drained",
                "closing", "final"}

SteeringTypeOK ==
  /\ run \in RunActive \cup RunTerminal
  /\ final \in BOOLEAN /\ cancel \in BOOLEAN
  /\ transcript \in Seq(Texts \cup Receipts)
  /\ status \in [Receipts -> {"absent", "queued", "applied", "not_applied"}]
  /\ reason \in [Receipts -> Rejection \cup {"none"}]
  /\ ordinal \in [Receipts -> Nat]
  /\ index \in [Receipts -> Nat]
  /\ ownerUp \in BOOLEAN /\ gated \in BOOLEAN
  /\ holder \in Receipts \cup {NoHolder}
  /\ channel \in Seq(Receipts) /\ open \in BOOLEAN /\ poisoned \in BOOLEAN
  /\ agent \in AgentPhase /\ site \in Site
  /\ writing \in {"none", "canonical", "accept"}
  /\ proposal \in Seq(Texts \cup Receipts)
  /\ late \in SUBSET Receipts

SteeringInit ==
  /\ run = "Accepted" /\ final = FALSE /\ cancel = FALSE
  /\ transcript = <<"prompt">>
  /\ status = [r \in Receipts |-> "absent"]
  /\ reason = [r \in Receipts |-> "none"]
  /\ ordinal = [r \in Receipts |-> 0]
  /\ index = [r \in Receipts |-> 0]
  /\ ownerUp = TRUE /\ gated \in BOOLEAN
  /\ holder = NoHolder /\ channel = <<>> /\ open = TRUE /\ poisoned = FALSE
  /\ agent = "waiting" /\ site = "loop" /\ writing = "none" /\ proposal = <<>>
  /\ late = {}

Queued   == {r \in Receipts : status[r] = "queued"}
Admitted == {r \in Receipts : status[r] # "absent"}

-----------------------------------------------------------------------------
(* Submission: ManagedSteeringHandle::submit, under the store mutex.       *)

\* Mutation: the durable queue may grow past the channel.
CapacityOffByOne ==
  Cardinality(Admitted) < MaxTotal /\ Cardinality(Queued) <= MaxPending

Capacity ==
  Cardinality(Admitted) < MaxTotal /\ Cardinality(Queued) < MaxPending

NextOrdinal == Cardinality(Admitted) + 1

\* queue_steering: the receipt is durable before anybody can see the message.
QueueSteering(r) ==
  /\ ownerUp /\ holder = NoHolder /\ ~poisoned
  /\ status[r] = "absent"
  /\ r \notin late
  /\ run \in RunActive
  /\ Capacity
  /\ status' = [status EXCEPT ![r] = "queued"]
  /\ ordinal' = [ordinal EXCEPT ![r] = NextOrdinal]
  /\ holder' = r
  /\ UNCHANGED <<runJournal, reason, index, channel, open, poisoned, loop, ownerUp,
                 gated, late>>

Accepting == open /\ Len(channel) < MaxPending

TrySend ==
  /\ holder # NoHolder /\ Accepting
  /\ channel' = Append(channel, holder)
  /\ holder' = NoHolder
  /\ UNCHANGED <<runJournal, records, open, poisoned, loop, ownerUp, gated, late>>

\* Mutation: the refused receipt is forgotten.
RejectionForgotten ==
  /\ holder # NoHolder /\ ~Accepting
  /\ holder' = NoHolder
  /\ UNCHANGED <<runJournal, records, channel, open, poisoned, loop, ownerUp, gated,
                 late>>

\* The channel refused: reject_steering settles the receipt at once ...
RejectSteering ==
  /\ holder # NoHolder /\ ~Accepting
  /\ status' = [status EXCEPT ![holder] = "not_applied"]
  /\ reason' = [reason EXCEPT ![holder] = IF open THEN "QueueFull" ELSE "Closed"]
  /\ holder' = NoHolder
  /\ UNCHANGED <<runJournal, ordinal, index, channel, open, poisoned, loop, ownerUp,
                 gated, late>>

\* ... or that write fails, and nothing more may be dispatched or accepted.
RejectionFails ==
  /\ holder # NoHolder /\ ~Accepting
  /\ poisoned' = TRUE
  /\ holder' = NoHolder
  /\ UNCHANGED <<runJournal, records, channel, open, loop, ownerUp, gated, late>>

-----------------------------------------------------------------------------
(* The agent loop.                                                         *)

Propose(where, h) ==
  /\ agent' = "writing" /\ site' = where
  /\ writing' = "canonical" /\ proposal' = h
  /\ UNCHANGED <<runJournal, records, holder, poisoned, ownerUp, gated, late>>

Room == Len(transcript) < MaxHistory

MarkRunRunning ==
  /\ agent = "waiting" /\ holder = NoHolder
  /\ run = "Accepted" /\ ~cancel
  /\ run' = "Running"
  /\ agent' = "loop"
  /\ UNCHANGED <<final, cancel, transcript, records, inbox, site, writing,
                 proposal, ownerUp, gated, late>>

\* Top of the loop: whatever is waiting goes into the next request.
DrainBeforeRequest ==
  /\ agent = "loop"
  /\ channel' = <<>> /\ UNCHANGED open
  /\ Propose("loop", transcript \o channel)

\* The provider's stream broke off; its segment is kept and it is asked again.
ProviderInterrupted ==
  /\ agent = "asking" /\ Room
  /\ UNCHANGED <<channel, open>>
  /\ Propose("segment", Append(transcript, "segment"))

ProviderCalls ==
  /\ agent = "asking" /\ Room
  /\ UNCHANGED <<channel, open>>
  /\ Propose("call", Append(transcript, "call"))

ToolFinished ==
  /\ agent = "tools" /\ Room
  /\ UNCHANGED <<channel, open>>
  /\ Propose("result", Append(transcript, "result"))

ProviderAnswers ==
  /\ agent = "asking" /\ Room
  /\ UNCHANGED <<channel, open>>
  /\ Propose("answer", Append(transcript, "answer"))

\* Guidance that arrived during the final response: it is appended, and only if
\* some of it was accepted is the provider asked again.
DrainAfterAnswer ==
  /\ agent = "answered" /\ channel # <<>>
  /\ channel' = <<>> /\ UNCHANGED open
  /\ Propose("drained", transcript \o channel)

\* Mutation: the channel stays open once it was seen empty.
StillOpen == open

\* drain_or_close on an empty channel refuses every later send.
ClosedWhenEmpty == FALSE

\* Without a completion gate an empty channel is closed here.
NothingDrained ==
  /\ agent = "answered" /\ channel = <<>>
  /\ agent' = IF gated THEN "closing" ELSE "sealed"
  /\ open' = IF gated THEN open ELSE ClosedWhenEmpty
  /\ UNCHANGED <<runJournal, records, holder, channel, poisoned, site, writing,
                 proposal, ownerUp, gated, late>>

\* The gate found unfinished work and offers the model another turn.
ContinuationOffered ==
  /\ agent = "closing"
  /\ agent' = "loop"
  /\ UNCHANGED <<runJournal, records, inbox, site, writing, proposal, ownerUp, gated,
                 late>>

\* Under the gate's lease the channel is drained once more ...
DrainUnderLease ==
  /\ agent = "closing" /\ channel # <<>>
  /\ channel' = <<>> /\ UNCHANGED open
  /\ Propose("closing", transcript \o channel)

\* ... or closed, and then the history is checkpointed a last time.
CloseUnderLease ==
  /\ agent = "closing" /\ channel = <<>>
  /\ open' = ClosedWhenEmpty /\ UNCHANGED channel
  /\ Propose("final", transcript)

\* The sealed readiness is clean: ask the journal to accept the answer.
ProposeAcceptance ==
  /\ agent = "sealed" /\ ~poisoned /\ holder = NoHolder
  /\ run = "Running"
  /\ agent' = "writing" /\ writing' = "accept" /\ proposal' = transcript
  /\ UNCHANGED <<runJournal, records, inbox, site, ownerUp, gated, late>>

StopIncomplete ==
  /\ agent = "sealed" /\ gated /\ ~poisoned /\ holder = NoHolder
  /\ run = "Running"
  /\ agent' = "incomplete" /\ open' = FALSE
  /\ UNCHANGED <<runJournal, records, holder, channel, poisoned, site, writing,
                 proposal, ownerUp, gated, late>>

\* An error, a timeout or a cancellation ends the loop; its receiver is dropped.
\* A journal write it was waiting for stays queued.
AgentFails ==
  /\ agent \in Executing \cup {"waiting"}
  /\ agent' = "failed" /\ open' = FALSE
  /\ UNCHANGED <<runJournal, records, holder, channel, poisoned, site, writing,
                 proposal, ownerUp, gated, late>>

-----------------------------------------------------------------------------
(* The journal worker.                                                     *)

Appended == SubSeq(proposal, Len(transcript) + 1, Len(proposal))
Guidance == {i \in 1..Len(Appended) : Appended[i] \in Receipts}

\* steering::apply: every receipt is queued, and first among those still queued
\* when its turn comes.
InOrder ==
  \A i \in Guidance :
    /\ status[Appended[i]] = "queued"
    /\ \A r \in Queued : ordinal[r] < ordinal[Appended[i]] =>
         \E j \in Guidance : j < i /\ Appended[j] = r

\* Mutation: expired guidance is marked but stays in the history.
AcceptedWithExpired == Appended

\* Expired guidance never becomes canonical: the accepted part keeps the other
\* messages in their order.  Rank(i) is the place the i-th appended one takes.
Kept == {i \in 1..Len(Appended) : Appended[i] \notin late}
Rank(i) == Cardinality({j \in Kept : j <= i})

AcceptedPart ==
  [n \in 1..Cardinality(Kept) |-> Appended[CHOOSE i \in Kept : Rank(i) = n]]

CanonicalIndex(r) ==
  Len(transcript)
    + CHOOSE i \in 1..Len(AcceptedPart) : AcceptedPart[i] = r

Proposed == {Appended[i] : i \in Guidance}

\* Where the agent goes when its checkpoint returned the reconciled history.
AfterCheckpoint(grew) ==
  CASE site \in {"loop", "segment"} -> "asking"
    [] site = "call" -> "tools"
    [] site = "result" -> "loop"
    [] site = "answer" -> "answered"
    [] site = "drained" -> IF grew THEN "loop" ELSE "answered"
    [] site = "closing" -> IF grew THEN "loop" ELSE "closing"
    [] site = "final" -> "sealed"

Return(next) == IF agent = "writing" THEN next ELSE agent

\* checkpoint_reconciled, with the steering fence of ManagedRunCheckpoint.
CheckpointReconciled ==
  /\ writing = "canonical" /\ holder = NoHolder
  /\ ~poisoned /\ run = "Running"
  /\ InOrder
  /\ transcript' = transcript \o AcceptedPart
  /\ final' = IF proposal = transcript THEN final ELSE FALSE
  /\ status' = [r \in Receipts |->
        IF r \notin Proposed THEN status[r]
        ELSE IF r \in late THEN "not_applied" ELSE "applied"]
  /\ reason' = [r \in Receipts |->
        IF r \in Proposed \cap late THEN "Expired" ELSE reason[r]]
  /\ index' = [r \in Receipts |->
        IF r \in Proposed \ late THEN CanonicalIndex(r) ELSE index[r]]
  /\ writing' = "none" /\ proposal' = <<>>
  /\ agent' = Return(AfterCheckpoint(AcceptedPart # <<>>))
  /\ UNCHANGED <<run, cancel, ordinal, inbox, site, ownerUp, gated, late>>

Acceptable ==
  /\ ~poisoned /\ run = "Running" /\ ~cancel
  /\ Queued = {}
  /\ proposal = transcript /\ transcript[Len(transcript)] = "answer" /\ ~final

AcceptFinal ==
  /\ writing = "accept" /\ holder = NoHolder
  /\ Acceptable
  /\ final' = TRUE
  /\ writing' = "none" /\ proposal' = <<>>
  /\ agent' = Return("accepted")
  /\ open' = IF agent = "writing" THEN FALSE ELSE open
  /\ UNCHANGED <<run, cancel, transcript, records, holder, channel, poisoned,
                 site, ownerUp, gated, late>>

\* Any write may be refused or fail; the loop ends with a checkpoint error.
WriteFails ==
  /\ writing # "none" /\ holder = NoHolder
  /\ writing' = "none" /\ proposal' = <<>>
  /\ agent' = Return("failed")
  /\ open' = IF agent = "writing" THEN FALSE ELSE open
  /\ UNCHANGED <<runJournal, records, holder, channel, poisoned, site, ownerUp, gated,
                 late>>

-----------------------------------------------------------------------------
(* The end of the run.                                                     *)

RunClassified(s) == IF s # "Interrupted" /\ cancel THEN "Cancelled" ELSE s

SettleReason(s) ==
  CASE s = "Cancelled" -> "Cancelled"
    [] s = "Interrupted" -> "Interrupted"
    [] s \in {"Completed", "Incomplete"} -> "RunCompleted"
    [] OTHER -> "RunFailed"

\* Mutation: the run ends without its receipts.
SettledNone(r) == status[r]

\* Mutation: every receipt of the run is rejected.
SettledAll(r) == IF status[r] = "absent" THEN "absent" ELSE "not_applied"

\* Mutation: a status the journal's readers refuse.
SettledUnknown(r) ==
  IF status[r] = "queued" THEN "unknown_after_restart" ELSE status[r]

\* settle: whatever is still queued was not applied.
Settled(r) == IF status[r] = "queued" THEN "not_applied" ELSE status[r]

\* Mutation: completion trusts the earlier acceptance.
CompletionTrusted == run = "Running" /\ final

FinishAllowed == run = "Running" /\ final /\ Queued = {}

FinishRun(s) ==
  /\ run \in RunActive
  /\ RunClassified(s) = "Completed" => FinishAllowed
  /\ run' = RunClassified(s)
  /\ status' = [r \in Receipts |-> Settled(r)]
  /\ reason' = [r \in Receipts |->
        IF status[r] = "queued" THEN SettleReason(RunClassified(s)) ELSE reason[r]]
  /\ UNCHANGED <<final, cancel, transcript, ordinal, index>>

\* What the returned loop asks persist_terminal for.
Asked ==
  CASE agent = "accepted" -> {"Completed", "Cancelled"}
    [] agent = "incomplete" -> {"Incomplete", "Cancelled"}
    [] agent = "failed" -> {"Failed", "Cancelled", "Incomplete"}
    [] OTHER -> {}

PersistTerminal(s) ==
  /\ holder = NoHolder
  /\ s \in Asked
  /\ FinishRun(s)
  /\ agent' = "gone"
  /\ UNCHANGED <<inbox, site, writing, proposal, ownerUp, gated, late>>

\* The terminal write was refused or failed, or the grace period cut it off.
TerminalFails ==
  /\ agent \in {"accepted", "incomplete", "failed"}
  /\ agent' = "abandoned"
  /\ UNCHANGED <<runJournal, records, inbox, site, writing, proposal, ownerUp, gated,
                 late>>

\* The grace period after a cancellation drops the loop where it stands.
GraceElapses ==
  /\ cancel /\ agent \in Executing
  /\ agent' = "abandoned" /\ open' = FALSE
  /\ UNCHANGED <<runJournal, records, holder, channel, poisoned, site, writing,
                 proposal, ownerUp, gated, late>>

\* finish_cleanup settles a run whose terminal state was never written, once no
\* submission and no worker holds the turn's token (cleanup_exclusive).
FinishRunUnfinalized ==
  /\ agent = "abandoned" /\ holder = NoHolder /\ writing = "none"
  /\ FinishRun("Interrupted")
  /\ agent' = "gone"
  /\ UNCHANGED <<inbox, site, writing, proposal, ownerUp, gated, late>>

RequestCancel ==
  /\ run \in RunActive /\ ~cancel
  /\ cancel' = TRUE
  /\ UNCHANGED <<run, final, transcript, records, inbox, loop, ownerUp, gated, late>>

\* A deadline passes, or the wall clock is set back; nobody reads the deadline
\* of a settled receipt.
ClockMoves(r) ==
  /\ run \in RunActive /\ status[r] \in {"absent", "queued"}
  /\ late' = IF r \in late THEN late \ {r} ELSE late \cup {r}
  /\ UNCHANGED <<runJournal, records, inbox, loop, ownerUp, gated>>

\* Everything in memory is lost; the rows stay.
OwnerCrash ==
  /\ ownerUp
  /\ ownerUp' = FALSE
  /\ holder' = NoHolder /\ channel' = <<>> /\ open' = FALSE /\ poisoned' = FALSE
  /\ agent' = "gone" /\ writing' = "none" /\ proposal' = <<>>
  /\ UNCHANGED <<runJournal, records, site, gated, late>>

RecoverRun ==
  /\ ~ownerUp
  /\ FinishRun("Interrupted")
  /\ UNCHANGED <<inbox, loop, ownerUp, gated, late>>

-----------------------------------------------------------------------------
SubmissionStep == TrySend \/ RejectSteering \/ RejectionFails

AgentStep ==
  \/ MarkRunRunning \/ DrainBeforeRequest
  \/ ProviderInterrupted \/ ProviderCalls \/ ToolFinished \/ ProviderAnswers
  \/ DrainAfterAnswer \/ NothingDrained
  \/ ContinuationOffered \/ DrainUnderLease \/ CloseUnderLease
  \/ ProposeAcceptance \/ StopIncomplete \/ AgentFails

WorkerStep == CheckpointReconciled \/ AcceptFinal \/ WriteFails

EndStep ==
  \/ \E s \in RunTerminal : PersistTerminal(s)
  \/ TerminalFails

SteeringNext ==
  \/ \E r \in Receipts : QueueSteering(r) \/ ClockMoves(r)
  \/ SubmissionStep \/ AgentStep \/ WorkerStep \/ EndStep
  \/ GraceElapses \/ FinishRunUnfinalized
  \/ RequestCancel \/ OwnerCrash \/ RecoverRun

SteeringSpec == SteeringInit /\ [][SteeringNext]_steeringVars

\* Threads that run at all get on: blocking workers have a bounded wait, every
\* await of the loop has a timeout.  Nothing makes a crashed owner return, and
\* an abandoned run is settled only once its effects are observed gone.
SteeringFairness ==
  /\ WF_steeringVars(SubmissionStep) /\ WF_steeringVars(AgentStep)
  /\ WF_steeringVars(WorkerStep) /\ WF_steeringVars(EndStep)

SteeringFairSpec == SteeringSpec /\ SteeringFairness

-----------------------------------------------------------------------------
(* Properties.                                                             *)

\* The canonical history and the receipts tell one story: a receipt is applied
\* exactly when it stands in the history, once, at its canonical_index, and
\* guidance stands there in the order it was admitted (steering::apply).
AppliedIsCanonical ==
  /\ \A r \in Receipts :
       (status[r] = "applied") <=> (\E i \in 1..Len(transcript) : transcript[i] = r)
  /\ \A r \in Receipts : status[r] = "applied" =>
       {i \in 1..Len(transcript) : transcript[i] = r} = {index[r]}
  /\ \A r, q \in Receipts :
       status[r] = "applied" /\ status[q] = "applied" /\ ordinal[r] < ordinal[q]
         => index[r] < index[q]

\* A completed run has answered all guidance it applied, and left none: its last
\* message is an answer given after the last applied receipt.
CompletionAnswersGuidance ==
  run = "Completed" =>
    /\ transcript[Len(transcript)] = "answer"
    /\ Queued = {}
    /\ \A r \in Receipts : reason[r] # "RunCompleted"

Positions(s, r) == {i \in 1..Len(s) : s[i] = r}

\* While the loop runs, durable queue and memory agree: a queued receipt is in
\* the channel or in the pending proposal, once, or is being delivered, so no
\* guidance is stranded and none can be applied twice.
NothingStranded ==
  agent \in Executing /\ ~poisoned =>
    \A r \in Receipts \ {holder} :
      Cardinality(Positions(channel, r))
        + (IF writing = "none" THEN 0
           ELSE Cardinality({i \in Positions(proposal, r) : i > Len(transcript)}))
      = IF status[r] = "queued" THEN 1 ELSE 0

\* Every receipt of a finished run is settled, and a queued one has neither a
\* reason nor a position, whatever ended the run.
TerminalSettles ==
  /\ run \in RunTerminal => Queued = {}
  /\ \A r \in Receipts :
       /\ (status[r] = "not_applied") <=> (reason[r] # "none")
       /\ (status[r] = "applied") <=> (index[r] # 0)

\* Steering never fails a run by itself: what the agent proposes is in order,
\* and the channel is never full when the journal admitted the receipt.
SteeringIsNeverRefused ==
  /\ writing = "canonical" /\ run = "Running" /\ ~poisoned => InOrder
  /\ \A r \in Receipts : reason[r] # "QueueFull"

\* The completion race is closed: once the loop has seen its input empty and
\* seals, no guidance can be admitted that it has not answered, so acceptance is
\* not refused for steering (drain_or_close, accept_checkpoint).
CompletionRaceClosed ==
  agent = "sealed" /\ ~poisoned =>
    /\ transcript[Len(transcript)] = "answer"
    /\ channel = <<>> /\ ~open
    /\ Queued \subseteq {holder}

\* The outcome of a receipt is final.
ReceiptsAreFinal ==
  [][\A r \in Receipts :
       /\ status[r] \in {"applied", "not_applied"} =>
            /\ status'[r] = status[r] /\ reason'[r] = reason[r]
            /\ index'[r] = index[r]
       /\ status[r] # "absent" => ordinal'[r] = ordinal[r]]_steeringVars

\* A sender learns what became of its guidance, unless the owner dies or the run
\* is abandoned before its terminal state is written.
GuidanceIsSettled ==
  \A r \in Receipts :
    status[r] = "queued" ~> status[r] # "queued" \/ ~ownerUp \/ agent = "abandoned"

\* Guidance is kept whole: what is applied is what was admitted, in order and in
\* the canonical history; a completed run answered everything it had accepted;
\* no accepted receipt is stranded by the end of the run, by the closing of the
\* channel or by its own limits (steering.rs, attachment/journal/steering.rs).
Safety ==
  /\ SteeringTypeOK /\ AppliedIsCanonical /\ CompletionAnswersGuidance /\ NothingStranded
  /\ TerminalSettles /\ SteeringIsNeverRefused /\ CompletionRaceClosed
=============================================================================
