---------------------------- MODULE CommandLedger ----------------------------
(***************************************************************************)
(* Delivery of identified commands to the runtime of one session.  A       *)
(* request is handled in several journal transactions: its identity is     *)
(* reserved, its receipt looked up, it is admitted, or it is refused.  The  *)
(* handler may be dropped (a 30 second limit, an abort at shutdown) at any *)
(* await, while the blocking journal job it waits for still runs; a        *)
(* configuration change is a task of its own and runs on to its end.       *)
(*                                                                         *)
(* Requests may be lost, delayed, repeated, sent by another principal or   *)
(* with another payload.  Deadlines, revisions, idleness, policy and       *)
(* capacity only ever refuse a command (Refused).                          *)
(***************************************************************************)
EXTENDS Naturals

CONSTANTS
  Ids,          \* command identities
  Principals,   \* authenticated senders
  Payloads,     \* public command envelopes
  KindOf,       \* how the runtime handles a payload
  Handlers,     \* requests in progress
  Owner,        \* the principal that legacy rows are attributed to
  Nobody,       \* no identity, no principal
  Null          \* a payload that is not known

Kinds == {"turn", "steer", "meta", "tool", "config"}

ASSUME KindAssumption == KindOf \in [Payloads -> Kinds]
ASSUME NameAssumption ==
  /\ Owner \in Principals
  /\ Nobody \notin Ids /\ Nobody \notin Principals /\ Nobody \notin Handlers
  /\ Null \notin Payloads

VARIABLES
  \* durable: the journal
  owner,        \* process_command_bindings.principal, or Nobody
  reserved,     \* process_command_bindings.request, or Null
  receipt,      \* process_commands.receipt.status, or "absent"
  request,      \* process_commands.request
  turns,        \* commands: the admitted turn, or Null
  steers,       \* steering: the admitted guidance, or Null
  settings,     \* process_configuration: the command it stems from
  \* volatile: the runtime process
  up,           \* the process lives and holds the execution lock
  liveConfig,   \* state.config: the command it stems from
  admission,    \* who holds state.admission
  spawned,      \* tools started by ExecuteTool and not yet recorded
  at,           \* where a handler is
  attached,     \* its transport still waits for it
  call,         \* what it was asked
  answer,       \* what it is about to say
  \* what the outside world has seen
  effects,      \* how often a command took effect
  told          \* definite answers that left the process

bindings   == <<owner, reserved>>
ledger     == <<receipt, request, turns, steers>>
handling   == <<at, attached, call, answer>>
ledgerVars == <<bindings, ledger, settings, up, liveConfig, admission, spawned,
                handling, effects, told>>

Negative == {"rejected", "not_admitted"}
Statuses == Negative \cup {"absent", "applied", "accepted", "finished"}

\* Journal jobs run on a blocking thread and outlive their handler.
Jobs  == {"bind", "check", "apply", "reject", "resolve"}
\* Steps of configure_inner, which is spawned.
Task  == {"admission", "recheck", "apply", "publish"}
Steps == Jobs \cup Task \cup {"free", "gate", "start", "answer"}

NoCall == [op |-> "none", id |-> Nobody, who |-> Nobody, payload |-> Null]
CallRecords ==
  [op : {"dispatch", "resolve", "receipt", "none"},
   id : Ids \cup {Nobody}, who : Principals \cup {Nobody},
   payload : Payloads \cup {Null}]

LedgerTypeOK ==
  /\ owner \in [Ids -> Principals \cup {Nobody}]
  /\ reserved \in [Ids -> Payloads \cup {Null}]
  /\ receipt \in [Ids -> Statuses]
  /\ request \in [Ids -> Payloads \cup {Null}]
  /\ turns \in [Ids -> Payloads \cup {Null}]
  /\ steers \in [Ids -> Payloads \cup {Null}]
  /\ settings \in Ids \cup {Nobody}
  /\ up \in BOOLEAN
  /\ liveConfig \in Ids \cup {Nobody}
  /\ admission \in Handlers \cup {Nobody}
  /\ spawned \in SUBSET Ids
  /\ at \in [Handlers -> Steps]
  /\ attached \in [Handlers -> BOOLEAN]
  /\ call \in [Handlers -> CallRecords]
  /\ answer \in [Handlers -> {"unknown", "positive", "negative"}]
  /\ effects \in [Ids -> Nat]
  /\ told \in [Ids -> SUBSET {"positive", "negative"}]

Of(kind) == {q \in Payloads : KindOf[q] = kind}

\* The first start over an older journal: initialize_command_bindings attributes
\* the rows it finds; the payload of a turn or of guidance is not known.
LedgerInit ==
  /\ receipt \in [Ids -> {"absent", "applied"}]
  /\ request \in [Ids -> Of("meta") \cup {Null}]
  /\ turns \in [Ids -> Of("turn") \cup {Null}]
  /\ steers \in [Ids -> Of("steer") \cup {Null}]
  /\ \A i \in Ids :
       /\ (receipt[i] = "applied") <=> (request[i] # Null)
       /\ turns[i] # Null => request[i] = Null /\ steers[i] = Null
       /\ steers[i] # Null => request[i] = Null
  /\ owner = [i \in Ids |->
        IF request[i] = Null /\ turns[i] = Null /\ steers[i] = Null
        THEN Nobody ELSE Owner]
  /\ reserved = request
  /\ settings = Nobody
  /\ up = TRUE /\ liveConfig = Nobody /\ admission = Nobody /\ spawned = {}
  /\ at = [h \in Handlers |-> "free"]
  /\ attached = [h \in Handlers |-> FALSE]
  /\ call = [h \in Handlers |-> NoCall]
  /\ answer = [h \in Handlers |-> "unknown"]
  /\ effects = [i \in Ids |->
        IF receipt[i] # "absent" \/ turns[i] # Null \/ steers[i] # Null
        THEN 1 ELSE 0]
  /\ told = [i \in Ids |-> {}]

-----------------------------------------------------------------------------
(* What the journal holds about an identity.                               *)

HasReceipt(i) == receipt[i] # "absent" \/ turns[i] # Null \/ steers[i] # Null

\* Mutation: the stored status is passed on as it is.
ReceiptVerbatim(i) == IF HasReceipt(i) THEN receipt[i] ELSE "unknown"

\* process_receipt, as its reader understands it.
ProcessReceipt(i) ==
  IF receipt[i] \in Negative THEN "negative"
  ELSE IF HasReceipt(i) THEN "positive" ELSE "unknown"

\* Mutation: a reservation covers every payload of its sender.
ReservableForAnything(i, p, q) == owner[i] # Nobody => owner[i] = p

\* Mutation: whoever knows the payload owns the reservation.
ReservableByAnyone(i, p, q) ==
  owner[i] # Nobody => reserved[i] = Null \/ reserved[i] = q

\* The reservation does not contradict this sender and this payload.
Reservable(i, p, q) ==
  owner[i] # Nobody => owner[i] = p /\ (reserved[i] = Null \/ reserved[i] = q)

\* Mutation: INSERT OR REPLACE.
ReserveAgain(i, p, q) ==
  /\ owner' = [owner EXCEPT ![i] = p]
  /\ reserved' = [reserved EXCEPT ![i] = q]

\* A reservation is written once.
Reserve(i, p, q) ==
  IF owner[i] = Nobody
  THEN /\ owner' = [owner EXCEPT ![i] = p]
       /\ reserved' = [reserved EXCEPT ![i] = q]
  ELSE UNCHANGED bindings

-----------------------------------------------------------------------------
(* Steps of a handler.                                                     *)

\* The handler goes on to a step, or ends if nobody waits for it any more.
StepTo(h, next, says) ==
  IF attached[h]
  THEN /\ at' = [at EXCEPT ![h] = next]
       /\ answer' = [answer EXCEPT ![h] = says]
       /\ UNCHANGED <<attached, call>>
  ELSE /\ at' = [at EXCEPT ![h] = "free"]
       /\ call' = [call EXCEPT ![h] = NoCall]
       /\ answer' = [answer EXCEPT ![h] = "unknown"]
       /\ UNCHANGED attached

\* A step that a spawned task takes as well.
Proceed(h, next) ==
  /\ at' = [at EXCEPT ![h] = next]
  /\ UNCHANGED <<attached, call, answer>>

Released(h) == IF admission = h THEN Nobody ELSE admission

\* A request arrives: fresh, repeated or delayed.
Deliver(h, c) ==
  /\ up /\ at[h] = "free"
  /\ at' = [at EXCEPT ![h] = "gate"]
  /\ attached' = [attached EXCEPT ![h] = TRUE]
  /\ call' = [call EXCEPT ![h] = c]
  /\ UNCHANGED <<bindings, ledger, settings, up, liveConfig, admission, spawned,
                 answer, effects, told>>

Inside(h) == attached[h] /\ at[h] \notin {"free", "gate", "answer"}

\* The dispatch gate: Resolve alone, everything else together.
GateOpen(h) ==
  \A k \in Handlers \ {h} : Inside(k) =>
    call[h].op # "resolve" /\ call[k].op # "resolve"

PassGate(h) ==
  /\ at[h] = "gate" /\ GateOpen(h)
  /\ Proceed(h, CASE call[h].op = "dispatch" -> "bind"
                  [] call[h].op = "receipt" -> "check"
                  [] OTHER -> "resolve")
  /\ UNCHANGED <<bindings, ledger, settings, up, liveConfig, admission, spawned,
                 effects, told>>

\* bind_process_command reserves the identity, or finds its own reservation.
BindProcessCommand(h) ==
  LET c == call[h] IN
  /\ at[h] = "bind"
  /\ Reservable(c.id, c.who, c.payload)
  /\ Reserve(c.id, c.who, c.payload)
  /\ StepTo(h, "check", "unknown")
  /\ UNCHANGED <<ledger, settings, up, liveConfig, admission, spawned, effects, told>>

\* dispatch reads the receipt before it does anything.
CheckReceipt(h) ==
  LET c == call[h]
      says == ProcessReceipt(c.id)
  IN
  /\ at[h] = "check"
  /\ IF c.op = "receipt" \/ says = "negative"
     THEN StepTo(h, "answer", says)
     ELSE StepTo(h, IF KindOf[c.payload] = "tool" THEN "apply" ELSE "admission",
               "unknown")
  /\ UNCHANGED <<bindings, ledger, settings, up, liveConfig, admission, spawned,
                 effects, told>>

TakeAdmission(h) ==
  /\ at[h] = "admission" /\ admission = Nobody
  /\ admission' = h
  /\ Proceed(h, IF KindOf[call[h].payload] = "config" THEN "recheck" ELSE "apply")
  /\ UNCHANGED <<bindings, ledger, settings, up, liveConfig, spawned, effects, told>>

\* configure_inner reserves (it already has) and looks again once it holds the
\* admission lock.
Recheck(h) ==
  LET i == call[h].id IN
  /\ at[h] = "recheck"
  /\ IF HasReceipt(i)
     THEN StepTo(h, "answer", ProcessReceipt(i)) /\ admission' = Released(h)
     ELSE Proceed(h, "apply") /\ UNCHANGED admission
  /\ UNCHANGED <<bindings, ledger, settings, up, liveConfig, spawned, effects, told>>

Applying(h, kind) == at[h] = "apply" /\ KindOf[call[h].payload] = kind

Effect(i) == effects' = [effects EXCEPT ![i] = @ + 1]

\* Mutation: a turn is admitted without looking for a process receipt.
TurnFreeUnchecked(i) == turns[i] = Null /\ steers[i] = Null

\* admit_turn: no other table knows the identity.
TurnFree(i) == ~HasReceipt(i)

ApplyTurn(h) ==
  LET c == call[h] IN
  /\ Applying(h, "turn")
  /\ TurnFree(c.id)
  /\ turns' = [turns EXCEPT ![c.id] = c.payload]
  /\ Effect(c.id)
  /\ admission' = Released(h)
  /\ StepTo(h, "answer", "positive")
  /\ UNCHANGED <<bindings, receipt, request, steers, settings, up, liveConfig,
                 spawned, told>>

ApplySteering(h) ==
  LET c == call[h] IN
  /\ Applying(h, "steer")
  /\ ~HasReceipt(c.id)
  /\ steers' = [steers EXCEPT ![c.id] = c.payload]
  /\ Effect(c.id)
  /\ admission' = Released(h)
  /\ StepTo(h, "answer", "positive")
  /\ UNCHANGED <<bindings, receipt, request, turns, settings, up, liveConfig,
                 spawned, told>>

\* process_metadata, apply_lifecycle, respond_decision, update_goal: the change
\* and its receipt are one transaction.
ProcessMetadata(h) ==
  LET c == call[h] IN
  /\ Applying(h, "meta")
  /\ ~HasReceipt(c.id)
  /\ receipt' = [receipt EXCEPT ![c.id] = "applied"]
  /\ request' = [request EXCEPT ![c.id] = c.payload]
  /\ Effect(c.id)
  /\ admission' = Released(h)
  /\ StepTo(h, "answer", "positive")
  /\ UNCHANGED <<bindings, turns, steers, settings, up, liveConfig, spawned, told>>

\* admit_control accepts the tool; it is started afterwards.
AdmitControl(h) ==
  LET c == call[h] IN
  /\ Applying(h, "tool")
  /\ ~HasReceipt(c.id)
  /\ receipt' = [receipt EXCEPT ![c.id] = "accepted"]
  /\ request' = [request EXCEPT ![c.id] = c.payload]
  /\ StepTo(h, "start", "positive")
  /\ UNCHANGED <<bindings, turns, steers, settings, up, liveConfig, admission,
                 spawned, effects, told>>

StartTool(h) ==
  LET i == call[h].id IN
  /\ at[h] = "start"
  /\ spawned' = spawned \cup {i}
  /\ Effect(i)
  /\ StepTo(h, "answer", "positive")
  /\ UNCHANGED <<bindings, ledger, settings, up, liveConfig, admission, told>>

\* complete_control records the outcome once.  If that fails, the receipt stays
\* pending_or_unknown for good.
CompleteControl(i) ==
  /\ i \in spawned
  /\ spawned' = spawned \ {i}
  /\ \/ receipt[i] = "accepted" /\ receipt' = [receipt EXCEPT ![i] = "finished"]
     \/ UNCHANGED receipt
  /\ UNCHANGED <<bindings, request, turns, steers, settings, up, liveConfig,
                 admission, handling, effects, told>>

\* configure writes the settings; it does not ask the other tables.
Configure(h) ==
  LET c == call[h] IN
  /\ Applying(h, "config")
  /\ receipt[c.id] = "absent"
  /\ receipt' = [receipt EXCEPT ![c.id] = "applied"]
  /\ request' = [request EXCEPT ![c.id] = c.payload]
  /\ settings' = c.id
  /\ Effect(c.id)
  /\ Proceed(h, "publish")
  /\ UNCHANGED <<bindings, turns, steers, up, liveConfig, admission, spawned, told>>

\* A configuration whose identity has a row with this request gets that receipt,
\* whatever it says, and goes on to publish.
ConfigureAgain(h) ==
  LET c == call[h] IN
  /\ Applying(h, "config")
  /\ receipt[c.id] # "absent" /\ request[c.id] = c.payload
  /\ Proceed(h, "publish")
  /\ UNCHANGED <<bindings, ledger, settings, up, liveConfig, admission, spawned,
                 effects, told>>

Publish(h) ==
  LET i == call[h].id IN
  /\ at[h] = "publish"
  /\ liveConfig' = i
  /\ admission' = Released(h)
  /\ StepTo(h, "answer", ProcessReceipt(i))
  /\ UNCHANGED <<bindings, ledger, settings, up, spawned, effects, told>>

\* The admission transaction finds the exact command already there.
ExactRetry(h) ==
  LET c == call[h] IN
  /\ at[h] = "apply" /\ KindOf[c.payload] # "config"
  /\ CASE KindOf[c.payload] = "turn" ->
            receipt[c.id] = "absent" /\ turns[c.id] = c.payload
       [] KindOf[c.payload] = "steer" ->
            receipt[c.id] = "absent" /\ steers[c.id] = c.payload
       [] OTHER -> receipt[c.id] # "absent" /\ request[c.id] = c.payload
  /\ admission' = Released(h)
  /\ StepTo(h, "answer", ProcessReceipt(c.id))
  /\ UNCHANGED <<bindings, ledger, settings, up, liveConfig, spawned, effects, told>>

\* Any check of dispatch_admitted, or its transaction, fails.
Refused(h) ==
  /\ at[h] \in {"recheck", "apply"}
  /\ admission' = Released(h)
  /\ StepTo(h, "reject", "unknown")
  /\ UNCHANGED <<bindings, ledger, settings, up, liveConfig, spawned, effects, told>>

\* reject_unadmitted makes the refusal definite, unless something was admitted.
RejectUnadmitted(h) ==
  LET i == call[h].id IN
  /\ at[h] = "reject"
  /\ IF HasReceipt(i) \/ reserved[i] = Null
     THEN StepTo(h, "answer", "unknown") /\ UNCHANGED <<receipt, request>>
     ELSE /\ receipt' = [receipt EXCEPT ![i] = "rejected"]
          /\ request' = [request EXCEPT ![i] = reserved[i]]
          /\ StepTo(h, "answer", "negative")
  /\ UNCHANGED <<bindings, turns, steers, settings, up, liveConfig, admission,
                 spawned, effects, told>>

\* resolve_process_command: the reservation and, if nothing was admitted, the
\* tombstone that keeps it so.
Resolved(i, p, q) ==
  /\ owner[i] # Nobody => owner[i] = p
  /\ q # Null => Reservable(i, p, q)
  /\ IF HasReceipt(i)
     THEN /\ IF q # Null THEN Reserve(i, p, q) ELSE UNCHANGED bindings
          /\ UNCHANGED <<receipt, request>>
     ELSE /\ Reserve(i, p, q)
          /\ receipt' = [receipt EXCEPT ![i] = "not_admitted"]
          /\ request' = [request EXCEPT ![i] = reserved'[i]]

ResolveProcessCommand(h) ==
  LET c == call[h] IN
  /\ at[h] = "resolve"
  /\ Resolved(c.id, c.who, c.payload)
  /\ StepTo(h, "answer",
          IF HasReceipt(c.id) THEN ProcessReceipt(c.id) ELSE "negative")
  /\ UNCHANGED <<turns, steers, settings, up, liveConfig, admission, spawned,
                 effects, told>>

\* The reservation of the original command commits before the tombstone, which
\* may then fail.
ResolveHalfway(h) ==
  LET c == call[h] IN
  /\ at[h] = "resolve" /\ c.payload # Null
  /\ Reservable(c.id, c.who, c.payload)
  /\ Reserve(c.id, c.who, c.payload)
  /\ StepTo(h, "answer", "unknown")
  /\ UNCHANGED <<ledger, settings, up, liveConfig, admission, spawned, effects, told>>

\* A process about to suspend dispatches nothing; a reservation conflict, a full
\* table or a storage error is an unknown outcome.
JobFails(h) ==
  /\ at[h] \in {"gate", "bind", "check", "reject", "resolve"}
  /\ StepTo(h, "answer", "unknown")
  /\ UNCHANGED <<bindings, ledger, settings, up, liveConfig, admission, spawned,
                 effects, told>>

Respond(h) ==
  /\ at[h] = "answer"
  /\ told' = [told EXCEPT ![call[h].id] = @ \cup ({answer[h]} \ {"unknown"})]
  /\ at' = [at EXCEPT ![h] = "free"]
  /\ attached' = [attached EXCEPT ![h] = FALSE]
  /\ call' = [call EXCEPT ![h] = NoCall]
  /\ answer' = [answer EXCEPT ![h] = "unknown"]
  /\ UNCHANGED <<bindings, ledger, settings, up, liveConfig, admission, spawned,
                 effects>>

Survives(h) ==
  at[h] \in Jobs \/ (at[h] \in Task /\ KindOf[call[h].payload] = "config")

\* The handler is dropped; what it had queued or spawned goes on without it.
Dropped(h) ==
  /\ attached[h]
  /\ attached' = [attached EXCEPT ![h] = FALSE]
  /\ IF Survives(h)
     THEN UNCHANGED <<at, call, answer>>
     ELSE /\ at' = [at EXCEPT ![h] = "free"]
          /\ call' = [call EXCEPT ![h] = NoCall]
          /\ answer' = [answer EXCEPT ![h] = "unknown"]
  /\ admission' = IF at[h] \in Task /\ KindOf[call[h].payload] = "config"
                  THEN admission ELSE Released(h)
  /\ UNCHANGED <<bindings, ledger, settings, up, liveConfig, spawned, effects, told>>

-----------------------------------------------------------------------------
(* The process.                                                            *)

\* The process is gone and its execution lock with it.
Exit ==
  /\ up
  /\ up' = FALSE /\ liveConfig' = Nobody /\ admission' = Nobody /\ spawned' = {}
  /\ at' = [h \in Handlers |-> "free"]
  /\ attached' = [h \in Handlers |-> FALSE]
  /\ call' = [h \in Handlers |-> NoCall]
  /\ answer' = [h \in Handlers |-> "unknown"]
  /\ UNCHANGED <<bindings, ledger, settings, effects, told>>

\* The configuration is read back; every row has its reservation by now.
Start ==
  /\ ~up
  /\ up' = TRUE /\ liveConfig' = settings
  /\ UNCHANGED <<bindings, ledger, settings, admission, spawned, handling, effects, told>>

\* A one-shot observer takes the execution lock of a stopped session.
ObserverResolves(i, p, q) ==
  /\ ~up
  /\ Resolved(i, p, q)
  /\ told' = [told EXCEPT ![i] = @ \cup
        {IF HasReceipt(i) THEN ProcessReceipt(i) ELSE "negative"}]
  /\ UNCHANGED <<turns, steers, settings, up, liveConfig, admission, spawned,
                 handling, effects>>

-----------------------------------------------------------------------------
Requests ==
  {c \in CallRecords :
     /\ c.id # Nobody /\ c.who # Nobody
     /\ c.op = "dispatch" => c.payload # Null
     /\ c.op = "receipt" => c.payload = Null
     /\ c.op # "none"}

HandlerStep(h) ==
  \/ PassGate(h) \/ BindProcessCommand(h) \/ CheckReceipt(h)
  \/ TakeAdmission(h) \/ Recheck(h)
  \/ ApplyTurn(h) \/ ApplySteering(h) \/ ProcessMetadata(h)
  \/ AdmitControl(h) \/ StartTool(h)
  \/ Configure(h) \/ ConfigureAgain(h) \/ Publish(h)
  \/ ExactRetry(h) \/ Refused(h) \/ RejectUnadmitted(h)
  \/ ResolveProcessCommand(h) \/ ResolveHalfway(h) \/ JobFails(h)
  \/ Respond(h)

LedgerNext ==
  \/ \E h \in Handlers : \E c \in Requests : Deliver(h, c)
  \/ \E h \in Handlers : HandlerStep(h) \/ Dropped(h)
  \/ \E i \in Ids : CompleteControl(i)
  \/ Exit \/ Start
  \/ \E i \in Ids, p \in Principals, q \in Payloads \cup {Null} :
       ObserverResolves(i, p, q)

LedgerSpec == LedgerInit /\ [][LedgerNext]_ledgerVars

-----------------------------------------------------------------------------
(* Properties.                                                             *)

\* What the abstract ledger is about.
FateOf(i) ==
  CASE effects[i] = 0 /\ receipt[i] \in Negative -> "closed"
    [] effects[i] = 0 /\ HasReceipt(i) /\ receipt[i] \notin Negative -> "admitted"
    [] effects[i] = 0 /\ ~HasReceipt(i) -> "open"
    [] effects[i] = 1 /\ HasReceipt(i) /\ receipt[i] \notin Negative -> "performed"
    [] OTHER -> "broken"

Fate == INSTANCE CommandFate WITH fate <- [i \in Ids |-> FateOf(i)]

\* The ledger keeps its promise: no interleaving of retries, resolutions,
\* dropped handlers and restarts performs a command twice, or performs one whose
\* identity was closed.
KeepsItsPromise == Fate!Spec

\* Whatever was answered stays true: a sender told that its command was refused or
\* not admitted never sees it take effect, one told that it was admitted finds it
\* so, and nobody is told both.
AnswersStayTrue ==
  \A i \in Ids :
    /\ "negative" \in told[i] => receipt[i] \in Negative /\ effects[i] = 0
    /\ "positive" \in told[i] => HasReceipt(i) /\ receipt[i] \notin Negative

\* An identity lives in one table, and there with the payload it was reserved
\* for, by the principal that reserved it, however often it is reused.
OneMeaning ==
  \A i \in Ids :
    LET rows == {q \in {turns[i], steers[i]} : q # Null}
                  \cup (IF receipt[i] = "absent" THEN {} ELSE {request[i]})
    IN /\ \A q, r \in rows : q = r
       /\ receipt[i] # "absent" => turns[i] = Null /\ steers[i] = Null
       /\ reserved[i] # Null => rows \subseteq {reserved[i]}
       /\ rows # {} => owner[i] # Nobody

\* The ledger is append-only: a reservation never changes hands or payload, and a
\* receipt changes only when an accepted tool reports its outcome.
LedgerIsAppendOnly ==
  [][\A i \in Ids :
       /\ owner[i] # Nobody => owner'[i] = owner[i] /\ reserved'[i] = reserved[i]
       /\ receipt[i] # "absent" =>
            /\ request'[i] = request[i]
            /\ \/ receipt'[i] = receipt[i]
               \/ receipt[i] = "accepted" /\ receipt'[i] = "finished"
       /\ turns[i] # Null => turns'[i] = turns[i]
       /\ steers[i] # Null => steers'[i] = steers[i]]_ledgerVars

\* A definite answer to a command or a resolution goes to the principal the
\* identity is reserved for.
AnswersGoToTheOwner ==
  \A h \in Handlers :
    at[h] = "answer" /\ answer[h] # "unknown" /\ call[h].op # "receipt"
      => owner[call[h].id] = call[h].who

\* What the running process is configured with was durably accepted.
PublishedWasAccepted == liveConfig # Nobody => receipt[liveConfig] \notin Negative
=============================================================================
