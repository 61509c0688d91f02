------------------------------ MODULE RunProofs ------------------------------
(***************************************************************************)
(* Theorems about a run, for every value of the constants: the journal of  *)
(* runs (RunJournal), the ledger of commands that admits them              *)
(* (CommandLedger) and the guidance sent to one of them (Steering).  The   *)
(* three are proved apart.                                                 *)
(***************************************************************************)
EXTENDS RunJournal, CommandLedger, Steering, FiniteSetTheorems, TLAPS

-----------------------------------------------------------------------------
(***************************************************************************)
(* RunJournal, for every set of commands and calls: the states of runs and *)
(* their cleanup rows, the canonical history, and the local effects.       *)
(***************************************************************************)

\* Every message the model appends is a message.
LEMMA ExtendType ==
  ASSUME NEW h \in Seq(Message), NEW c \in Commands,
         NEW role \in {"user", "assistant", "tool"},
         NEW calls \in SUBSET Calls, NEW results \in SUBSET Calls
  PROVE  Extend(h, c, role, calls, results) \in Seq(Message)
BY DEF Extend, Message

\* finish_classified writes a terminal state whatever terminal state it is asked for.
LEMMA ClassifiedType ==
  ASSUME NEW c \in Commands, NEW s \in Terminal
  PROVE  Classified(c, s) \in Terminal
BY DEF Classified, Terminal

\* One finished run keeps the journal well typed.
LEMMA FinishType ==
  ASSUME TypeOK, NEW c \in Commands, NEW s \in Terminal, Finish(c, s)
  PROVE  /\ state' \in [Commands -> RunState \cup {"absent"}]
         /\ latest' \in Commands \cup {None}
         /\ UNCHANGED <<accepted, history, intents>>
BY ClassifiedType DEF TypeOK, Finish, RunState

\* Confirmations only take the two confirmed values.
LEMMA ConfirmType ==
  ASSUME TypeOK, NEW c \in Commands,
         NEW kind \in {"observed", "operator_attested"}, ConfirmRow(c, kind)
  PROVE  /\ obligation' \in [Commands -> Confirmation]
         /\ retained' \in [Commands -> Confirmation]
         /\ UNCHANGED <<receipts, assignment>>
BY DEF TypeOK, ConfirmRow, Confirmation

\* The unresolved calls of a history are calls.
LEMMA UnresolvedType == ASSUME NEW h PROVE Unresolved(h) \in SUBSET Calls
BY DEF Unresolved

-----------------------------------------------------------------------------
(* Type correctness.  A turn that is under way has a run.                  *)

TurnHeld == stage # "idle" => turn \in Commands
TypeInv == TypeOK /\ TurnHeld

\* The first state is well typed.
LEMMA TypeInit == Init => TypeInv
<1> SUFFICES ASSUME Init PROVE TypeInv
  OBVIOUS
<1>1. bound \in BOOLEAN
  BY BindingAssumption, Zenon DEF Init
<1>2. state \in [Commands -> RunState \cup {"absent"}]
  BY DEF Init
<1>3. /\ obligation \in [Commands -> Confirmation]
      /\ retained \in [Commands -> Confirmation]
      /\ resource \in [Commands -> ResourceState]
  BY DEF Init, Confirmation, ResourceState
<1>4. /\ accepted \in [Commands -> BOOLEAN]
      /\ assignment \in [Commands -> {"none", "pending", "clean"}]
      /\ history \in Seq(Message)
  BY DEF Init
<1>5. /\ permit \in {"fresh", "none", "stopped", "recovered"}
      /\ proof \in BOOLEAN
      /\ pc \in Phase
      /\ mode \in {"serve", "restart", "recover"}
      /\ stage \in Stage
  BY DEF Init, Phase, Stage
<1>6. /\ intents \in SUBSET Commands /\ receipts \in SUBSET Commands
      /\ locally \in SUBSET Commands /\ live \in SUBSET Commands
      /\ scope \in SUBSET Commands
      /\ latest \in Commands \cup {None} /\ turn \in Commands \cup {None}
      /\ TurnHeld
  BY DEF Init, TurnHeld
<1>7. QED
  BY <1>1, <1>2, <1>3, <1>4, <1>5, <1>6 DEF TypeInv, TypeOK

\* Cancellation and the admission, construction and refusal of a turn.
LEMMA TypeAdmission ==
  ASSUME TypeInv,
         \/ ClientNext
         \/ \E c \in Commands : AdmitTurn(c)
         \/ PreparationFails \/ RegisterLocalCleanup \/ SubmissionFails
         \/ BrowserRefuses \/ ConstructionRefused \/ ConfirmRefused
         \/ \E observed \in BOOLEAN : BuildFails(observed)
         \/ Build
  PROVE  TypeInv'
<1> USE DEF TypeInv, TypeOK, TurnHeld, journal, evidence, files, process, world
<1>1. ASSUME NEW c \in Commands, RequestCancelLocal(c) PROVE TypeInv'
  BY <1>1 DEF RequestCancelLocal
<1>2. ASSUME NEW c \in Commands, AdmitTurn(c) PROVE TypeInv'
  <2>1. history' \in Seq(Message)
    BY <1>2, ExtendType DEF AdmitTurn
  <2>2. QED BY <1>2, <2>1 DEF AdmitTurn, RunState, Active, Stage
<1>3. CASE PreparationFails
  BY <1>3, FinishType DEF PreparationFails, Terminal, Stage
<1>4. CASE RegisterLocalCleanup
  BY <1>4 DEF RegisterLocalCleanup, Confirmation, Stage
<1>5. CASE SubmissionFails
  BY <1>5 DEF SubmissionFails, Stage
<1>6. CASE BrowserRefuses
  BY <1>6, FinishType DEF BrowserRefuses, Terminal, Stage
<1>7. CASE ConstructionRefused
  BY <1>7, FinishType DEF ConstructionRefused, Terminal, Stage
<1>8. CASE ConfirmRefused
  BY <1>8, ConfirmType DEF ConfirmRefused, Stage
<1>9. ASSUME NEW observed \in BOOLEAN, BuildFails(observed) PROVE TypeInv'
  <2>1. turn \in Commands /\ Finish(turn, "Failed")
    BY <1>9 DEF BuildFails
  <2>2. CASE observed
    BY <1>9, <2>1, <2>2, FinishType DEF BuildFails, Terminal, Stage
  <2>3. CASE ~observed
    BY <1>9, <2>1, <2>3, FinishType DEF BuildFails, Terminal, Stage
  <2>4. QED BY <2>2, <2>3
<1>10. CASE Build
  BY <1>10 DEF Build, ResourceState, Stage
<1>11. QED
  BY <1>1, <1>2, <1>3, <1>4, <1>5, <1>6, <1>7, <1>8, <1>9, <1>10 DEF ClientNext

\* Execution and its checkpoints.
LEMMA TypeExecution ==
  ASSUME TypeInv,
         \/ MarkRunning
         \/ \E calls \in SUBSET Calls : CheckpointResponse(calls)
         \/ \E k \in Calls : CheckpointResult(k)
         \/ CheckpointUsage \/ AcceptCheckpoint \/ RecordAssignment
         \/ \E s \in Outcomes : ExecutionEnds(s)
         \/ ExecutionAbandoned
  PROVE  TypeInv'
<1> USE DEF TypeInv, TypeOK, TurnHeld, journal, evidence, files, process, world
<1>0. ASSUME NEW h \in Seq(Message), Checkpoint(h) PROVE TypeInv'
  BY <1>0 DEF Checkpoint, Writing, AcceptanceReset, AfterWrite, Stage
<1>1. CASE MarkRunning
  BY <1>1 DEF MarkRunning, Writing, AfterWrite, RunState, Active, Stage
<1>2. ASSUME NEW calls \in SUBSET Calls, CheckpointResponse(calls) PROVE TypeInv'
  <2>1. turn \in Commands BY <1>2 DEF CheckpointResponse, Checkpoint, Writing
  <2>2. Extend(history, turn, "assistant", calls, {}) \in Seq(Message)
    BY <2>1, ExtendType
  <2>3. QED BY <1>0, <1>2, <2>2 DEF CheckpointResponse
<1>3. ASSUME NEW k \in Calls, CheckpointResult(k) PROVE TypeInv'
  <2>1. turn \in Commands BY <1>3 DEF CheckpointResult, Checkpoint, Writing
  <2>2. Extend(history, turn, "tool", {}, {k}) \in Seq(Message)
    BY <2>1, ExtendType
  <2>3. QED BY <1>0, <1>3, <2>2 DEF CheckpointResult
<1>4. CASE CheckpointUsage
  BY <1>0, <1>4 DEF CheckpointUsage
<1>5. CASE AcceptCheckpoint
  BY <1>5 DEF AcceptCheckpoint, Writing, AfterWrite, Stage
<1>6. CASE RecordAssignment
  BY <1>6 DEF RecordAssignment
<1>7. ASSUME NEW s \in Outcomes, ExecutionEnds(s) PROVE TypeInv'
  <2>1. s \in Terminal BY OutcomesAssumption DEF Terminal
  <2>2. turn \in Commands BY <1>7 DEF ExecutionEnds, Writing
  <2>3. QED BY <1>7, <2>1, <2>2, FinishType DEF ExecutionEnds, Stage
<1>8. CASE ExecutionAbandoned
  BY <1>8 DEF ExecutionAbandoned, Stage
<1>9. QED
  BY <1>1, <1>2, <1>3, <1>4, <1>5, <1>6, <1>7, <1>8

\* Cleanup by the live owner.
LEMMA TypeCleanup == ASSUME TypeInv, CleanupNext PROVE TypeInv'
<1> USE DEF TypeInv, TypeOK, TurnHeld, journal, evidence, files, process, world
<1>1. CASE ObserveTeardown
  BY <1>1 DEF ObserveTeardown, ResourceState, Stage
<1>2. CASE FinishUnfinalized
  BY <1>2, FinishType DEF FinishUnfinalized, Terminal
<1>3. CASE ConfirmCleanup
  BY <1>3, ConfirmType DEF ConfirmCleanup, Stage
<1>4. CASE CleanupAlreadyConfirmed
  BY <1>4 DEF CleanupAlreadyConfirmed, Stage
<1>5. CASE RetainLocalObservation
  BY <1>5 DEF RetainLocalObservation
<1>6. ASSUME NEW c \in Commands, AssignmentCleaned(c) PROVE TypeInv'
  BY <1>6 DEF AssignmentCleaned
<1>7. ASSUME NEW c \in Commands, ConfirmAfterAssignment(c) PROVE TypeInv'
  BY <1>7, ConfirmType DEF ConfirmAfterAssignment
<1>8. QED
  BY <1>1, <1>2, <1>3, <1>4, <1>5, <1>6, <1>7 DEF CleanupNext

\* Launch, death and stop of the owner, and the guardian.
LEMMA TypeOwner == ASSUME TypeInv, OwnerNext PROVE TypeInv'
<1> USE DEF TypeInv, TypeOK, TurnHeld, journal, evidence, files, process, world
<1>1. ASSUME NEW m \in {"serve", "restart", "recover"}, Open(m)
      PROVE  /\ pc' \in Phase /\ mode' = m
             /\ resource' \in [Commands -> ResourceState]
  BY <1>1 DEF Open, ResourceState, Phase
<1>2. CASE Serve
  BY <1>1, <1>2 DEF Serve, Launch, Open
<1>3. CASE Restart
  BY <1>1, <1>3 DEF Restart, Launch, Open
<1>4. CASE RecoverOpens
  BY <1>1, <1>4 DEF RecoverOpens, Open
<1>5. CASE Crash
  BY <1>5 DEF Crash, Phase, Stage
<1>6. CASE Stop
  BY <1>6 DEF Stop, Phase
<1>7. CASE GuardianDrains
  BY <1>7 DEF GuardianDrains
<1>8. QED
  BY <1>2, <1>3, <1>4, <1>5, <1>6, <1>7 DEF OwnerNext

\* Startup and recovery.
LEMMA TypeRecovery == ASSUME TypeInv, RecoveryNext PROVE TypeInv'
<1> USE DEF TypeInv, TypeOK, TurnHeld, journal, evidence, files, process, world, Goto
<1>1. CASE RecoverInterrupted
  <2>1. pc' \in Phase BY <1>1 DEF RecoverInterrupted, Phase
  <2>2. CASE ActiveRuns = {}
    BY <1>1, <2>1, <2>2 DEF RecoverInterrupted
  <2>3. CASE ActiveRuns # {}
    <3>1. PICK c \in Commands : Finish(c, "Interrupted")
      BY <1>1, <2>3 DEF RecoverInterrupted, ActiveRuns
    <3>2. QED
      BY <1>1, <2>1, <3>1, FinishType DEF RecoverInterrupted, Terminal
  <2>4. QED BY <2>2, <2>3
<1>2. CASE RecoverResources
  BY <1>2 DEF RecoverResources, ResourceState, Phase
<1>3. CASE RecoverObligation
  <2>1. pc' \in Phase BY <1>3 DEF RecoverObligation, AfterProof, Phase
  <2>2. CASE PendingCleanup = {}
    BY <1>3, <2>1, <2>2 DEF RecoverObligation
  <2>3. CASE PendingCleanup # {}
    <3>1. PICK c \in Commands :
            IF assignment[c] = "pending"
            THEN /\ locally' = locally \cup {c}
                 /\ UNCHANGED <<obligation, retained, receipts, assignment>>
            ELSE ConfirmRow(c, "observed") /\ UNCHANGED locally
      BY <1>3, <2>3 DEF RecoverObligation, PendingCleanup
    <3>2. CASE assignment[c] = "pending"
      BY <1>3, <2>1, <3>1, <3>2 DEF RecoverObligation
    <3>3. CASE assignment[c] # "pending"
      BY <1>3, <2>1, <3>1, <3>3, ConfirmType DEF RecoverObligation
    <3>4. QED BY <3>2, <3>3
  <2>4. QED BY <2>2, <2>3
<1>4. CASE RecoverWithoutProof
  BY <1>4 DEF RecoverWithoutProof, Phase
<1>5. CASE AttestationEnds
  BY <1>5 DEF AttestationEnds, Phase
<1>6. ASSUME NEW c \in Commands, AttestLocalCleanup(c) PROVE TypeInv'
  BY <1>6, ConfirmType DEF AttestLocalCleanup
<1>7. ASSUME NEW c \in Commands, AttestSessionResource(c) PROVE TypeInv'
  BY <1>7 DEF AttestSessionResource, ResourceState
<1>8. ASSUME NEW c \in Commands, NEW automatic \in BOOLEAN,
             ReconcileTools(c, automatic)
      PROVE  /\ history' \in Seq(Message)
             /\ receipts' \in SUBSET Commands
             /\ UNCHANGED <<state, accepted, latest, intents,
                            obligation, retained, resource, assignment, locally>>
  <2>1. Extend(history, c, "tool", {}, Unresolved(history)) \in Seq(Message)
    BY ExtendType, UnresolvedType
  <2>2. QED BY <1>8, <2>1 DEF ReconcileTools
<1>9. ASSUME NEW c \in Commands, ReconcileLocalTools(c) PROVE TypeInv'
  BY <1>8, <1>9 DEF ReconcileLocalTools
<1>10. CASE RetainInterruptedCleanup
  BY <1>10 DEF RetainInterruptedCleanup, RetainedRow, RetainedResource,
               Confirmation, ResourceState, Phase
<1>11. CASE RecoverToolOutcomes
  <2>1. pc' \in Phase /\ permit' \in {"fresh", "none", "stopped", "recovered"}
    BY <1>11 DEF RecoverToolOutcomes, Phase
  <2>2. CASE HasPendingTools(history)
    BY <1>8, <1>11, <2>1, <2>2 DEF RecoverToolOutcomes
  <2>3. CASE ~HasPendingTools(history)
    BY <1>11, <2>1, <2>3 DEF RecoverToolOutcomes
  <2>4. QED BY <2>2, <2>3
<1>12. QED
  BY <1>1, <1>2, <1>3, <1>4, <1>5, <1>6, <1>7, <1>9, <1>10, <1>11 DEF RecoveryNext

-----------------------------------------------------------------------------
(* Cancellation.  Whatever a step does to the states of the runs is one of *)
(* five things, so what a committed cancellation decides is argued once    *)
(* about those and not about every action.                                 *)

RunStep ==
  \/ UNCHANGED <<state, intents>>
  \/ \E c \in Commands : /\ state[c] \in Active
                         /\ intents' = intents \cup {c}
                         /\ UNCHANGED state
  \/ \E c \in Commands, s \in Terminal : Finish(c, s)
  \/ \E c \in Commands : /\ state[c] = "absent"
                         /\ state' = [state EXCEPT ![c] = "Accepted"]
                         /\ UNCHANGED intents
  \/ /\ turn \in Commands /\ Writing /\ state[turn] = "Accepted"
     /\ state' = [state EXCEPT ![turn] = "Running"]
     /\ UNCHANGED intents

\* Every step of the session is one of them: only finish_classified writes a
\* terminal state.
LEMMA StepIsRunStep == ASSUME TypeInv, Next PROVE RunStep
<1> USE DEF TypeInv, TypeOK, TurnHeld, journal, evidence, files, process, world
<1>1. CASE ClientNext
  BY <1>1 DEF ClientNext, RequestCancelLocal, RunStep
<1>2. CASE TurnNext
  <2>1. ASSUME NEW c \in Commands, AdmitTurn(c) PROVE RunStep
    BY <2>1 DEF AdmitTurn, RunStep
  <2>2. CASE MarkRunning
    BY <2>2 DEF MarkRunning, Writing, RunStep
  <2>3. CASE \/ PreparationFails \/ BrowserRefuses \/ ConstructionRefused
             \/ \E observed \in BOOLEAN : BuildFails(observed)
    <3>1. turn \in Commands /\ Finish(turn, "Failed")
      BY <2>3 DEF PreparationFails, BrowserRefuses, ConstructionRefused, BuildFails
    <3>2. QED BY <3>1 DEF RunStep, Terminal
  <2>4. ASSUME NEW s \in Outcomes, ExecutionEnds(s) PROVE RunStep
    <3>1. s \in Terminal BY OutcomesAssumption DEF Terminal
    <3>2. QED BY <2>4, <3>1 DEF ExecutionEnds, Writing, RunStep
  <2>5. CASE \/ RegisterLocalCleanup \/ SubmissionFails \/ ConfirmRefused \/ Build
             \/ AcceptCheckpoint \/ RecordAssignment \/ ExecutionAbandoned
    BY <2>5 DEF RegisterLocalCleanup, SubmissionFails, ConfirmRefused, Build,
                AcceptCheckpoint, RecordAssignment, ExecutionAbandoned, RunStep
  <2>6. CASE \/ \E calls \in SUBSET Calls : CheckpointResponse(calls)
             \/ \E k \in Calls : CheckpointResult(k)
             \/ CheckpointUsage
    BY <2>6 DEF CheckpointResponse, CheckpointResult, CheckpointUsage, Checkpoint,
                RunStep
  <2>7. QED
    BY <1>2, <2>1, <2>2, <2>3, <2>4, <2>5, <2>6 DEF TurnNext
<1>3. CASE CleanupNext
  <2>1. CASE FinishUnfinalized
    BY <2>1 DEF FinishUnfinalized, RunStep, Terminal
  <2>2. CASE ~FinishUnfinalized
    BY <1>3, <2>2 DEF CleanupNext, ObserveTeardown, ConfirmCleanup,
       CleanupAlreadyConfirmed, RetainLocalObservation, AssignmentCleaned,
       ConfirmAfterAssignment, RunStep
  <2>3. QED BY <2>1, <2>2
<1>4. CASE OwnerNext
  BY <1>4 DEF OwnerNext, Serve, Restart, RecoverOpens, Launch, Open, Crash, Stop,
              GuardianDrains, RunStep
<1>5. CASE RecoveryNext
  <2>1. CASE RecoverInterrupted
    BY <2>1 DEF RecoverInterrupted, ActiveRuns, RunStep, Terminal
  <2>2. CASE RecoverToolOutcomes
    BY <2>2 DEF RecoverToolOutcomes, ReconcileTools, RunStep
  <2>3. CASE \/ RecoverResources \/ RecoverObligation \/ RecoverWithoutProof
             \/ AttestationEnds \/ RetainInterruptedCleanup
    BY <2>3 DEF RecoverResources, RecoverObligation, RecoverWithoutProof,
                AttestationEnds, RetainInterruptedCleanup, RunStep
  <2>4. ASSUME NEW c \in Commands,
               AttestLocalCleanup(c) \/ AttestSessionResource(c)
                 \/ ReconcileLocalTools(c)
        PROVE  RunStep
    BY <2>4 DEF AttestLocalCleanup, AttestSessionResource, ReconcileLocalTools,
                ReconcileTools, RunStep
  <2>5. QED BY <1>5, <2>1, <2>2, <2>3, <2>4 DEF RecoveryNext
<1>6. QED BY <1>1, <1>2, <1>3, <1>4, <1>5 DEF Next

\* A cancelled run keeps its outcome, and a run that ends after its cancellation
\* ends Cancelled or Interrupted.
LEMMA CancelStep ==
  ASSUME TypeInv, CancelWins, RunStep
  PROVE  CancelWins'
<1> USE DEF TypeInv, TypeOK
<1>1. CASE UNCHANGED <<state, intents>>
  BY <1>1 DEF CancelWins
<1>2. ASSUME NEW c \in Commands, state[c] \in Active,
             intents' = intents \cup {c}, UNCHANGED state
      PROVE  CancelWins'
  BY <1>2 DEF CancelWins, Active, Terminal
<1>3. ASSUME NEW c \in Commands, NEW s \in Terminal, Finish(c, s)
      PROVE  CancelWins'
  <2>1. c \in intents => Classified(c, s) \in {"Cancelled", "Interrupted"}
    BY DEF Classified
  <2>2. /\ state' = [state EXCEPT ![c] = Classified(c, s)]
        /\ intents' = intents
    BY <1>3 DEF Finish
  <2>3. QED BY <2>1, <2>2 DEF CancelWins
<1>4. ASSUME NEW c \in Commands, NEW s \in {"Accepted", "Running"},
             state' = [state EXCEPT ![c] = s], UNCHANGED intents
      PROVE  CancelWins'
  <2>1. s \notin Terminal BY DEF Terminal
  <2>2. QED BY <1>4, <2>1 DEF CancelWins
<1>5. QED BY <1>1, <1>2, <1>3, <1>4 DEF RunStep

\* The type invariant is inductive.
LEMMA TypeStep == TypeInv /\ [Next]_vars => TypeInv'
<1> SUFFICES ASSUME TypeInv, [Next]_vars PROVE TypeInv'
  OBVIOUS
<1>1. CASE UNCHANGED vars
  BY <1>1 DEF TypeInv, TypeOK, TurnHeld, vars, journal, evidence, files,
              process, world
<1>2. CASE ClientNext \/ TurnNext
  BY <1>2, TypeAdmission, TypeExecution DEF TurnNext
<1>3. QED
  BY <1>1, <1>2, TypeCleanup, TypeOwner, TypeRecovery DEF Next

\* Every variable keeps its type, and a turn under way always has its run: the
\* journal never holds a state, a confirmation or a resource state that its
\* readers do not know.
THEOREM TypeCorrect == Spec => []TypeOK
<1>1. TypeInv => TypeOK
  BY DEF TypeInv
<1>2. QED
  BY <1>1, TypeInit, TypeStep, PTL DEF Spec

\* For any number of turns, crashes and recoveries: a committed cancellation
\* decides its run (finish_classified).
THEOREM CancellationDecides == Spec => []CancelWins
<1> DEFINE Inv == TypeInv /\ CancelWins
<1>1. Init => Inv
  BY TypeInit DEF Init, CancelWins
<1>2. Inv /\ [Next]_vars => Inv'
  <2> SUFFICES ASSUME TypeInv, CancelWins, [Next]_vars PROVE CancelWins'
    BY TypeStep
  <2>1. CASE UNCHANGED vars
    BY <2>1 DEF vars, journal, CancelWins
  <2>2. CASE Next
    BY <2>2, StepIsRunStep, CancelStep
  <2>3. QED BY <2>1, <2>2
<1>3. QED
  BY <1>1, <1>2, PTL DEF Spec

-----------------------------------------------------------------------------
(* Cleanup evidence.  A row is written once, confirmed once, and moved by  *)
(* a fenced recovery.                                                      *)

RowStep ==
  \/ UNCHANGED <<obligation, retained>>
  \/ \E c \in Commands, kind \in {"observed", "operator_attested"} :
       ConfirmRow(c, kind)
  \/ \E c \in Commands : /\ CleanupConfirmation(c) = "none"
                         /\ obligation' = [obligation EXCEPT ![c] = "pending"]
                         /\ UNCHANGED retained
  \/ /\ retained' = [c \in Commands |-> RetainedRow(c)]
     /\ obligation' = [c \in Commands |->
           IF c \in PendingCleanup THEN "none" ELSE obligation[c]]

\* Every step of the session is one of them.
LEMMA StepIsRowStep == ASSUME TypeInv, Next PROVE RowStep
<1> USE DEF TypeInv, TypeOK, TurnHeld, journal, evidence, files, process, world
<1>1. CASE ClientNext
  BY <1>1 DEF ClientNext, RequestCancelLocal, RowStep
<1>2. CASE TurnNext
  <2>1. CASE ConfirmRefused
    BY <2>1 DEF ConfirmRefused, RowStep
  <2>2. CASE RegisterLocalCleanup
    BY <2>2 DEF RegisterLocalCleanup, RowStep
  <2>3. CASE ~ConfirmRefused /\ ~RegisterLocalCleanup
    <3>1. UNCHANGED <<obligation, retained>>
      BY <1>2, <2>3 DEF TurnNext, AdmitTurn, PreparationFails, SubmissionFails,
         BrowserRefuses, ConstructionRefused, BuildFails, Build, MarkRunning,
         CheckpointResponse, CheckpointResult, CheckpointUsage, Checkpoint,
         AcceptCheckpoint, RecordAssignment, ExecutionEnds, ExecutionAbandoned
    <3>2. QED BY <3>1 DEF RowStep
  <2>4. QED BY <2>1, <2>2, <2>3
<1>3. CASE CleanupNext
  BY <1>3 DEF CleanupNext, ObserveTeardown, FinishUnfinalized, ConfirmCleanup,
     CleanupAlreadyConfirmed, RetainLocalObservation, AssignmentCleaned,
     ConfirmAfterAssignment, RowStep
<1>4. CASE OwnerNext
  BY <1>4 DEF OwnerNext, Serve, Restart, RecoverOpens, Launch, Open, Crash, Stop,
              GuardianDrains, RowStep
<1>5. CASE RecoveryNext
  <2>1. CASE RecoverObligation
    BY <2>1 DEF RecoverObligation, PendingCleanup, RowStep
  <2>2. CASE RetainInterruptedCleanup
    BY <2>2 DEF RetainInterruptedCleanup, RowStep
  <2>3. CASE RecoverToolOutcomes
    BY <2>3 DEF RecoverToolOutcomes, ReconcileTools, RowStep
  <2>4. ASSUME NEW c \in Commands,
               AttestLocalCleanup(c) \/ AttestSessionResource(c)
                 \/ ReconcileLocalTools(c)
        PROVE  RowStep
    BY <2>4 DEF AttestLocalCleanup, AttestSessionResource, ReconcileLocalTools,
                ReconcileTools, RowStep
  <2>5. CASE \/ RecoverInterrupted \/ RecoverResources \/ RecoverWithoutProof
             \/ AttestationEnds
    BY <2>5 DEF RecoverInterrupted, RecoverResources, RecoverWithoutProof,
                AttestationEnds, RowStep
  <2>6. QED BY <1>5, <2>1, <2>2, <2>3, <2>4, <2>5 DEF RecoveryNext
<1>6. QED BY <1>1, <1>2, <1>3, <1>4, <1>5 DEF Next

OneRow == \A c \in Commands : obligation[c] = "none" \/ retained[c] = "none"

\* A row is in one table only, also after a recovery moved it.
LEMMA OneRowStep == ASSUME TypeInv, OneRow, RowStep PROVE OneRow'
<1> USE DEF TypeInv, TypeOK, OneRow
<1>1. ASSUME NEW c \in Commands, NEW kind \in {"observed", "operator_attested"},
             ConfirmRow(c, kind)
      PROVE  OneRow'
  BY <1>1 DEF ConfirmRow, CleanupConfirmation
<1>2. ASSUME NEW c \in Commands, CleanupConfirmation(c) = "none",
             obligation' = [obligation EXCEPT ![c] = "pending"],
             UNCHANGED retained
      PROVE  OneRow'
  BY <1>2 DEF CleanupConfirmation
<1>3. ASSUME retained' = [c \in Commands |-> RetainedRow(c)],
             obligation' = [c \in Commands |->
                IF c \in PendingCleanup THEN "none" ELSE obligation[c]]
      PROVE  OneRow'
  BY <1>3 DEF RetainedRow, PendingCleanup
<1>4. QED BY <1>1, <1>2, <1>3 DEF RowStep

\* What a confirmed or a pending row may become in one step.
RowKept(c) ==
  /\ CleanupConfirmation(c) \in {"observed", "operator_attested"} =>
       CleanupConfirmation(c)' = CleanupConfirmation(c)
  /\ CleanupConfirmation(c) = "pending" => CleanupConfirmation(c)' # "none"

\* No step changes a confirmation or loses a pending row.
LEMMA RowStepKeeps ==
  ASSUME TypeInv, OneRow, RowStep, NEW c \in Commands
  PROVE  RowKept(c)
<1> USE DEF TypeInv, TypeOK, OneRow, CleanupConfirmation, RowKept
<1>1. ASSUME NEW d \in Commands, NEW kind \in {"observed", "operator_attested"},
             ConfirmRow(d, kind)
      PROVE  RowKept(c)
  BY <1>1 DEF ConfirmRow
<1>2. ASSUME NEW d \in Commands, CleanupConfirmation(d) = "none",
             obligation' = [obligation EXCEPT ![d] = "pending"],
             UNCHANGED retained
      PROVE  RowKept(c)
  BY <1>2
<1>3. ASSUME retained' = [d \in Commands |-> RetainedRow(d)],
             obligation' = [d \in Commands |->
                IF d \in PendingCleanup THEN "none" ELSE obligation[d]]
      PROVE  RowKept(c)
  BY <1>3 DEF RetainedRow, PendingCleanup
<1>4. QED BY <1>1, <1>2, <1>3 DEF RowStep

\* The invariant of the evidence: a run whose turn came past its registration has
\* a row, and so has every run with effects and every running one.
Registered == {"registered", "refused", "built", "executing", "abandoned",
               "ended", "observed"}
TurnHasRow == stage \in Registered => CleanupConfirmation(turn) # "none"
EvidenceInv == TypeInv /\ OneRow /\ TurnHasRow /\ EffectsAreAccounted

\* The rows, seen from the step: they never go away.
LEMMA RowsStay ==
  ASSUME TypeInv, OneRow, RowStep, NEW c \in Commands,
         CleanupConfirmation(c) # "none"
  PROVE  CleanupConfirmation(c)' # "none"
<1>1. CleanupConfirmation(c) \in {"pending", "observed", "operator_attested"}
  BY DEF TypeInv, TypeOK, CleanupConfirmation, Confirmation
<1>2. QED BY <1>1, RowStepKeeps DEF RowKept

\* Which turn is under way, and how far: a step either leaves a turn that was
\* registered, ends it, or has just registered it.
LEMMA TurnStep ==
  ASSUME TypeInv, TurnHasRow, Next
  PROVE  \/ stage' \notin Registered
         \/ stage \in Registered /\ turn' = turn
         \/ turn' = turn /\ turn \in Commands /\ CleanupConfirmation(turn)' # "none"
<1> USE DEF TypeInv, TypeOK, TurnHeld, Registered, journal, evidence, files,
            process, world
<1>1. CASE ClientNext
  BY <1>1 DEF ClientNext, RequestCancelLocal
<1>2. CASE TurnNext
  <2>1. CASE RegisterLocalCleanup
    BY <2>1 DEF RegisterLocalCleanup, CleanupConfirmation
  <2>2. CASE ~RegisterLocalCleanup
    BY <1>2, <2>2 DEF TurnNext, AdmitTurn, PreparationFails, SubmissionFails,
       BrowserRefuses, ConstructionRefused, ConfirmRefused, BuildFails, Build,
       MarkRunning, CheckpointResponse, CheckpointResult, CheckpointUsage,
       Checkpoint, AcceptCheckpoint, RecordAssignment, ExecutionEnds,
       ExecutionAbandoned, Writing, AfterWrite
  <2>3. QED BY <2>1, <2>2
<1>3. CASE CleanupNext
  BY <1>3 DEF CleanupNext, ObserveTeardown, FinishUnfinalized, ConfirmCleanup,
     CleanupAlreadyConfirmed, RetainLocalObservation, AssignmentCleaned,
     ConfirmAfterAssignment
<1>4. CASE OwnerNext
  BY <1>4 DEF OwnerNext, Serve, Restart, RecoverOpens, Launch, Open, Crash, Stop,
              GuardianDrains
<1>5. CASE RecoveryNext
  BY <1>5 DEF RecoveryNext, RecoverInterrupted, RecoverResources,
     RecoverObligation, RecoverWithoutProof, AttestationEnds, AttestLocalCleanup,
     AttestSessionResource, ReconcileLocalTools, RetainInterruptedCleanup,
     RecoverToolOutcomes, Goto
<1>6. QED BY <1>1, <1>2, <1>3, <1>4, <1>5 DEF Next

\* Only the construction of a registered turn brings effects to life.
LEMMA LiveStep ==
  ASSUME TypeInv, Next
  PROVE  live' \subseteq live \/ (stage = "registered" /\ live' = live \cup {turn})
<1> USE DEF journal, evidence, files, process, world
<1>1. CASE ClientNext
  BY <1>1 DEF ClientNext, RequestCancelLocal
<1>2. CASE TurnNext
  BY <1>2 DEF TurnNext, AdmitTurn, PreparationFails, RegisterLocalCleanup,
     SubmissionFails, BrowserRefuses, ConstructionRefused, ConfirmRefused,
     BuildFails, Build, MarkRunning, CheckpointResponse, CheckpointResult,
     CheckpointUsage, Checkpoint, AcceptCheckpoint, RecordAssignment,
     ExecutionEnds, ExecutionAbandoned
<1>3. CASE CleanupNext
  BY <1>3 DEF CleanupNext, ObserveTeardown, FinishUnfinalized, ConfirmCleanup,
     CleanupAlreadyConfirmed, RetainLocalObservation, AssignmentCleaned,
     ConfirmAfterAssignment
<1>4. CASE OwnerNext
  BY <1>4 DEF OwnerNext, Serve, Restart, RecoverOpens, Launch, Open, Crash, Stop,
              GuardianDrains
<1>5. CASE RecoveryNext
  BY <1>5 DEF RecoveryNext, RecoverInterrupted, RecoverResources,
     RecoverObligation, RecoverWithoutProof, AttestationEnds, AttestLocalCleanup,
     AttestSessionResource, ReconcileLocalTools, RetainInterruptedCleanup,
     RecoverToolOutcomes
<1>6. QED BY <1>1, <1>2, <1>3, <1>4, <1>5 DEF Next

\* Only a built turn starts to run.
LEMMA RunningStep ==
  ASSUME TypeInv, Next, NEW c \in Commands, state'[c] = "Running"
  PROVE  state[c] = "Running" \/ (c = turn /\ stage \in Registered)
<1> USE DEF TypeInv, TypeOK
<1>1. RunStep BY StepIsRunStep
<1>2. ASSUME NEW d \in Commands, NEW s \in Terminal, Finish(d, s)
      PROVE  state[c] = "Running"
  <2>1. Classified(d, s) # "Running" BY ClassifiedType DEF Terminal
  <2>2. QED BY <1>2, <2>1 DEF Finish
<1>3. QED BY <1>1, <1>2 DEF RunStep, Writing, Registered

\* The invariant of the evidence is inductive.
LEMMA EvidenceStep == EvidenceInv /\ [Next]_vars => EvidenceInv'
<1> SUFFICES ASSUME EvidenceInv, [Next]_vars PROVE EvidenceInv'
  OBVIOUS
<1>1. TypeInv' BY TypeStep DEF EvidenceInv
<1>2. CASE UNCHANGED vars
  BY <1>1, <1>2 DEF EvidenceInv, OneRow, TurnHasRow, EffectsAreAccounted,
     CleanupConfirmation, vars, journal, evidence, files, process, world
<1>3. CASE Next
  <2>1. TypeInv /\ OneRow /\ TurnHasRow /\ EffectsAreAccounted /\ RowStep
    BY <1>3, StepIsRowStep DEF EvidenceInv
  <2>2. OneRow'
    BY <2>1, OneRowStep
  <2>3. \A c \in Commands :
          CleanupConfirmation(c) # "none" => CleanupConfirmation(c)' # "none"
    BY <2>1, RowsStay
  <2>4. stage \in Registered => turn \in Commands /\ CleanupConfirmation(turn) # "none"
    BY <2>1 DEF TurnHasRow, TypeInv, TurnHeld, Registered
  <2>5. TurnHasRow'
    <3> SUFFICES ASSUME stage' \in Registered
                 PROVE  turn' = turn /\ CleanupConfirmation(turn)' # "none"
      BY DEF TurnHasRow, CleanupConfirmation
    <3>1. CASE stage \in Registered /\ turn' = turn
      BY <2>3, <2>4, <3>1
    <3>2. QED BY <1>3, <2>1, <3>1, TurnStep
  <2>6. ASSUME NEW c \in live' PROVE CleanupConfirmation(c)' # "none"
    <3>1. c \in Commands BY <1>1, <2>6 DEF TypeInv, TypeOK
    <3>2. c \in live \/ (c = turn /\ stage \in Registered)
      BY <1>3, <2>1, <2>6, LiveStep DEF Registered
    <3>3. CleanupConfirmation(c) # "none"
      BY <2>1, <2>4, <3>2 DEF EffectsAreAccounted
    <3>4. QED BY <2>3, <3>1, <3>3
  <2>7. ASSUME NEW c \in Commands, state'[c] = "Running"
        PROVE  CleanupConfirmation(c)' # "none"
    <3>1. CleanupConfirmation(c) # "none"
      BY <1>3, <2>1, <2>4, <2>7, RunningStep DEF EffectsAreAccounted
    <3>2. QED BY <2>3, <3>1
  <2>8. EffectsAreAccounted'
    BY <2>2, <2>6, <2>7 DEF EffectsAreAccounted, OneRow, CleanupConfirmation
  <2>9. QED BY <1>1, <2>2, <2>5, <2>8 DEF EvidenceInv
<1>4. QED BY <1>2, <1>3

\* The first state satisfies it.
LEMMA EvidenceInit == Init => EvidenceInv
BY TypeInit DEF Init, EvidenceInv, OneRow, TurnHasRow, Registered,
   EffectsAreAccounted, CleanupConfirmation

\* For any number of runs, crashes, restarts and recoveries: whatever may have
\* effects has exactly one cleanup row (register_local_cleanup,
\* retain_interrupted_cleanup).
THEOREM EffectsHaveRows == Spec => []EffectsAreAccounted
<1>1. EvidenceInv => EffectsAreAccounted
  BY DEF EvidenceInv
<1>2. QED
  BY <1>1, EvidenceInit, EvidenceStep, PTL DEF Spec

\* A confirmation never changes its kind and a pending row is never lost, however
\* often it is confirmed, moved or attested (confirm_local_cleanup,
\* retain_interrupted_cleanup).
THEOREM EvidenceStays == Spec => EvidenceIsImmutable
<1> DEFINE RowsKept == \A c \in Commands : RowKept(c)
<1>1. EvidenceInv /\ [Next]_vars => [RowsKept]_vars
  <2> SUFFICES ASSUME EvidenceInv, Next PROVE RowsKept
    OBVIOUS
  <2>1. TypeInv /\ OneRow /\ RowStep
    BY StepIsRowStep DEF EvidenceInv
  <2>2. QED BY <2>1, RowStepKeeps
<1>2. QED
  BY <1>1, EvidenceInit, EvidenceStep, PTL
     DEF Spec, EvidenceIsImmutable, RowKept

-----------------------------------------------------------------------------
(***************************************************************************)
(* The canonical history: the order of turns, completions and the finality *)
(* of outcomes, for histories of any length.                               *)
(***************************************************************************)

(* One message is appended at a time.                                      *)

\* An unanswered call is followed by results only, and a call is not opened
\* again before it was answered.
Tidy(h) ==
  \A i \in 1..Len(h) : \A k \in h[i].calls :
    /\ HasResult(h, k, i + 1, Len(h)) \/ \A j \in i + 1..Len(h) : h[j].role = "tool"
    /\ \A j \in i + 1..Len(h) : k \in h[j].calls => HasResult(h, k, i + 1, j)

\* The messages of a run are next to each other.
Contiguous(h) ==
  \A i, n, m \in 1..Len(h) :
    i <= n /\ n <= m /\ h[i].run = h[m].run => h[n].run = h[i].run

\* The fields of a message of a history.
LEMMA MessageFields ==
  ASSUME NEW h \in Seq(Message), NEW i \in 1..Len(h)
  PROVE  /\ h[i] \in Message
         /\ h[i].run \in Commands
         /\ h[i].calls \in SUBSET Calls
<1>1. h[i] \in Message OBVIOUS
<1>2. QED BY <1>1 DEF Message

\* What Append does to a history.
LEMMA AppendFacts ==
  ASSUME NEW h \in Seq(Message), NEW m \in Message
  PROVE  /\ Append(h, m) \in Seq(Message)
         /\ Len(h) \in Nat
         /\ Len(Append(h, m)) = Len(h) + 1
         /\ Append(h, m)[Len(h) + 1] = m
         /\ \A i \in 1..Len(h) : Append(h, m)[i] = h[i]
         /\ \A i \in 1..Len(h) + 1 : i = Len(h) + 1 \/ i \in 1..Len(h)
OBVIOUS

\* A result that was there stays there.
LEMMA ResultStays ==
  ASSUME NEW h \in Seq(Message), NEW m \in Message, NEW k,
         NEW i \in Nat \ {0}, NEW j \in 1..Len(h)
  PROVE  HasResult(Append(h, m), k, i, j) <=> HasResult(h, k, i, j)
<1>1. \A n \in i..j : Append(h, m)[n] = h[n]
  BY AppendFacts
<1>2. QED BY <1>1 DEF HasResult

\* An answered call stays answered.
LEMMA AnswerStays ==
  ASSUME NEW h \in Seq(Message), NEW m \in Message, NEW k,
         NEW i \in Nat \ {0}, HasResult(h, k, i, Len(h))
  PROVE  HasResult(Append(h, m), k, i, Len(h) + 1)
<1>1. PICK n \in i..Len(h) : k \in h[n].results
  BY DEF HasResult
<1>2. n \in 1..Len(h) /\ n \in i..Len(h) + 1 /\ Append(h, m)[n] = h[n]
  BY AppendFacts
<1>3. QED BY <1>1, <1>2 DEF HasResult

\* A message without calls, or one after a history that owes nothing, keeps a
\* history tidy.
LEMMA AppendTidy ==
  ASSUME NEW h \in Seq(Message), NEW m \in Message, Tidy(h),
         ~HasPendingTools(h) \/ (m.role = "tool" /\ m.calls = {})
  PROVE  Tidy(Append(h, m))
<1> DEFINE g == Append(h, m)
<1> SUFFICES ASSUME NEW i \in 1..Len(g), NEW k \in g[i].calls
             PROVE  /\ \/ HasResult(g, k, i + 1, Len(g))
                       \/ \A j \in i + 1..Len(g) : g[j].role = "tool"
                    /\ \A j \in i + 1..Len(g) :
                         k \in g[j].calls => HasResult(g, k, i + 1, j)
  BY DEF Tidy
<1>0. Len(g) = Len(h) + 1 /\ Len(h) \in Nat /\ g[Len(h) + 1] = m
  BY AppendFacts
<1>1. CASE i = Len(h) + 1
  BY <1>0, <1>1
<1>2. CASE i \in 1..Len(h)
  <2>1. k \in h[i].calls BY <1>2, AppendFacts
  <2>2. CASE ~HasPendingTools(h)
    <3>1. HasResult(h, k, i + 1, Len(h))
      BY <1>2, <2>1, <2>2 DEF HasPendingTools
    <3>2. HasResult(g, k, i + 1, Len(h) + 1)
      BY <1>2, <3>1, AnswerStays
    <3>3. ASSUME NEW j \in i + 1..Len(h), k \in g[j].calls
          PROVE  HasResult(g, k, i + 1, j)
      <4>1. j \in 1..Len(h) /\ g[j] = h[j] BY <1>2, <3>3, AppendFacts
      <4>2. HasResult(h, k, i + 1, j) BY <1>2, <2>1, <3>3, <4>1 DEF Tidy
      <4>3. QED BY <1>2, <4>1, <4>2, ResultStays
    <3>4. QED BY <1>0, <1>2, <3>2, <3>3
  <2>3. CASE m.role = "tool" /\ m.calls = {}
    <3>1. \A j \in i + 1..Len(h) : k \in g[j].calls => HasResult(g, k, i + 1, j)
      <4> SUFFICES ASSUME NEW j \in i + 1..Len(h), k \in g[j].calls
                   PROVE  HasResult(g, k, i + 1, j)
        OBVIOUS
      <4>1. j \in 1..Len(h) /\ g[j] = h[j] BY <1>2, AppendFacts
      <4>2. HasResult(h, k, i + 1, j) BY <1>2, <2>1, <4>1 DEF Tidy
      <4>3. QED BY <1>2, <4>1, <4>2, ResultStays
    <3>2. k \notin g[Len(h) + 1].calls BY <1>0, <2>3
    <3>3. CASE HasResult(h, k, i + 1, Len(h))
      <4>1. HasResult(g, k, i + 1, Len(h) + 1) BY <1>2, <3>3, AnswerStays
      <4>2. QED BY <1>0, <1>2, <3>1, <3>2, <4>1
    <3>4. CASE \A j \in i + 1..Len(h) : h[j].role = "tool"
      <4>1. \A j \in i + 1..Len(h) : g[j] = h[j] BY <1>2, AppendFacts
      <4>2. \A j \in i + 1..Len(g) : g[j].role = "tool" BY <1>0, <1>2, <2>3, <3>4, <4>1
      <4>3. QED BY <1>0, <1>2, <3>1, <3>2, <4>2
    <3>5. QED BY <1>2, <2>1, <3>3, <3>4 DEF Tidy
  <2>4. QED BY <2>2, <2>3
<1>3. QED BY <1>0, <1>1, <1>2

\* In a tidy history every call that owes a result is one reconciliation sees.
LEMMA PendingIsUnresolved ==
  ASSUME NEW h \in Seq(Message), Tidy(h), HasPendingTools(h)
  PROVE  \E i \in 1..Len(h) : \E k \in h[i].calls :
           ~HasResult(h, k, i + 1, Len(h)) /\ k \in Unresolved(h)
<1>0. PICK i \in 1..Len(h) : \E k \in h[i].calls :
        \/ ~HasResult(h, k, i + 1, Len(h))
        \/ \E j \in i + 1..Len(h) : k \in h[j].calls /\ ~HasResult(h, k, i + 1, j)
  BY DEF HasPendingTools
<1>1. PICK k \in h[i].calls :
        \/ ~HasResult(h, k, i + 1, Len(h))
        \/ \E j \in i + 1..Len(h) : k \in h[j].calls /\ ~HasResult(h, k, i + 1, j)
  BY <1>0
<1>2. ~HasResult(h, k, i + 1, Len(h)) BY <1>1 DEF Tidy
<1>3. \A j \in i + 1..Len(h) : h[j].role = "tool" BY <1>2 DEF Tidy
<1>4. k \in Calls BY MessageFields
<1>5. QED BY <1>2, <1>3, <1>4 DEF Unresolved

\* An outstanding call is a pending one.
LEMMA UnresolvedIsPending ==
  ASSUME NEW h, Unresolved(h) # {} PROVE HasPendingTools(h)
BY DEF Unresolved, HasPendingTools

\* The unknown outcomes that reconciliation appends answer everything.
LEMMA ReconciledIsQuiet ==
  ASSUME NEW h \in Seq(Message), Tidy(h), NEW c \in Commands
  PROVE  ~HasPendingTools(Extend(h, c, "tool", {}, Unresolved(h)))
<1> DEFINE m == [role |-> "tool", run |-> c, calls |-> {}, results |-> Unresolved(h)]
           g == Append(h, m)
<1>1. m \in Message BY UnresolvedType DEF Message
<1>2. Tidy(g) BY <1>1, AppendTidy
<1>3. g \in Seq(Message) /\ Len(g) = Len(h) + 1 /\ Len(h) \in Nat /\ g[Len(h) + 1] = m
  BY <1>1, AppendFacts
<1> HIDE DEF g, m
<1>4. SUFFICES ASSUME HasPendingTools(g) PROVE FALSE
  BY DEF Extend, g, m
<1>50. PICK i \in 1..Len(g) : \E k \in g[i].calls :
        ~HasResult(g, k, i + 1, Len(g)) /\ k \in Unresolved(g)
  BY <1>2, <1>3, <1>4, PendingIsUnresolved
<1>5. PICK k \in g[i].calls : ~HasResult(g, k, i + 1, Len(g))
  BY <1>50
<1>6. i \in 1..Len(h)
  BY <1>3, <1>5 DEF m
<1>7. g[i] = h[i] /\ k \in h[i].calls
  BY <1>1, <1>5, <1>6, AppendFacts DEF g
<1>8. ~HasResult(h, k, i + 1, Len(h))
  BY <1>1, <1>3, <1>5, <1>6, AnswerStays DEF g
<1>9. k \in Unresolved(h)
  <2>1. \A j \in i + 1..Len(h) : h[j].role = "tool" BY <1>6, <1>7, <1>8 DEF Tidy
  <2>2. k \in Calls BY <1>6, <1>7, MessageFields
  <2>3. QED BY <1>6, <1>7, <1>8, <2>1, <2>2 DEF Unresolved
<1>10. k \in g[Len(h) + 1].results /\ Len(h) + 1 \in i + 1..Len(g)
  BY <1>3, <1>6, <1>9 DEF m
<1>11. QED BY <1>5, <1>10 DEF HasResult

\* A message of the newest run, or of a run that has none yet, keeps the
\* messages of every run together.
LEMMA AppendContiguous ==
  ASSUME NEW h \in Seq(Message), NEW m \in Message, Contiguous(h),
         \/ Len(h) > 0 /\ m.run = h[Len(h)].run
         \/ \A i \in 1..Len(h) : h[i].run # m.run
  PROVE  Contiguous(Append(h, m))
<1> DEFINE g == Append(h, m)
<1>0. /\ Len(g) = Len(h) + 1 /\ Len(h) \in Nat /\ g[Len(h) + 1] = m
      /\ \A i \in 1..Len(h) : g[i] = h[i]
  BY AppendFacts
<1> HIDE DEF g
<1> SUFFICES ASSUME NEW i \in 1..Len(g), NEW n \in 1..Len(g), NEW l \in 1..Len(g),
                    i <= n, n <= l, g[i].run = g[l].run
             PROVE  g[n].run = g[i].run
  BY DEF Contiguous, g
<1>1. CASE l \in 1..Len(h)
  <2>1. i \in 1..Len(h) /\ n \in 1..Len(h) BY <1>0, <1>1
  <2>2. QED BY <1>0, <1>1, <2>1 DEF Contiguous
<1>2. CASE l = Len(h) + 1 /\ n = Len(h) + 1
  BY <1>0, <1>2
<1>3. CASE l = Len(h) + 1 /\ n # Len(h) + 1
  <2>1. i \in 1..Len(h) /\ n \in 1..Len(h) /\ Len(h) \in 1..Len(h) /\ n <= Len(h)
    BY <1>0, <1>3
  <2>2. m.run = h[Len(h)].run /\ h[i].run = h[Len(h)].run BY <1>0, <1>3, <2>1
  <2>3. QED BY <1>0, <2>1, <2>2 DEF Contiguous
<1>4. QED BY <1>0, <1>1, <1>2, <1>3

-----------------------------------------------------------------------------
(* What a step does to the conversation is one of seven things; the rest   *)
(* of the session does not touch it.                                       *)

StepAdmits(c) ==
  /\ state[c] = "absent" /\ ActiveRuns = {} /\ ~HasPendingTools(history)
  /\ state' = [state EXCEPT ![c] = "Accepted"]
  /\ history' = Extend(history, c, "user", {}, {})
  /\ latest' = c
  /\ UNCHANGED <<accepted, receipts, assignment>>

StepFinishes(c, s) == Finish(c, s) /\ UNCHANGED <<receipts, assignment>>

StepRuns(c) ==
  /\ state[c] = "Accepted"
  /\ state' = [state EXCEPT ![c] = "Running"]
  /\ latest' = c
  /\ UNCHANGED <<accepted, history, receipts, assignment>>

StepCheckpoints(c) ==
  /\ state[c] = "Running"
  /\ \/ history' = history
     \/ \E calls \in SUBSET Calls :
          /\ ~HasPendingTools(history)
          /\ history' = Extend(history, c, "assistant", calls, {})
     \/ \E k \in Calls : history' = Extend(history, c, "tool", {}, {k})
  /\ accepted' = [accepted EXCEPT ![c] = FALSE]
  /\ latest' = c
  /\ UNCHANGED <<state, receipts, assignment>>

StepAccepts(c) ==
  /\ state[c] = "Running" /\ Answered(history)
  /\ accepted' = [accepted EXCEPT ![c] = TRUE]
  /\ latest' = c
  /\ UNCHANGED <<state, history, receipts, assignment>>

StepReconciles(c) == \E automatic \in BOOLEAN : ReconcileTools(c, automatic)

StepElsewhere ==
  /\ UNCHANGED <<state, accepted, history, latest, receipts>>
  /\ \A c \in Commands :
       assignment'[c] = "pending" => assignment[c] = "pending" \/ state[c] = "Running"

JournalStep ==
  \/ StepElsewhere
  \/ \E c \in Commands :
       \/ StepAdmits(c) \/ StepRuns(c) \/ StepCheckpoints(c) \/ StepAccepts(c)
       \/ StepReconciles(c)
       \/ \E s \in Terminal : StepFinishes(c, s)

\* Every step of the session is one of them.
LEMMA StepIsJournalStep == ASSUME TypeInv, Next PROVE JournalStep
<1> USE DEF TypeInv, TypeOK, TurnHeld, journal, evidence, files, process, world
<1>1. CASE ClientNext
  BY <1>1 DEF ClientNext, RequestCancelLocal, JournalStep, StepElsewhere
<1>2. CASE TurnNext
  <2>1. ASSUME NEW c \in Commands, AdmitTurn(c) PROVE JournalStep
    BY <2>1 DEF AdmitTurn, AdmissionOpen, JournalStep, StepAdmits
  <2>2. CASE MarkRunning
    <3>1. turn \in Commands BY <2>2 DEF MarkRunning, Writing
    <3>2. QED BY <2>2, <3>1 DEF MarkRunning, JournalStep, StepRuns
  <2>3. CASE \/ PreparationFails \/ BrowserRefuses \/ ConstructionRefused
             \/ \E observed \in BOOLEAN : BuildFails(observed)
    <3>1. turn \in Commands /\ StepFinishes(turn, "Failed")
      BY <2>3 DEF PreparationFails, BrowserRefuses, ConstructionRefused, BuildFails,
                  StepFinishes
    <3>2. "Failed" \in Terminal BY DEF Terminal
    <3>3. QED BY <3>1, <3>2 DEF JournalStep
  <2>4. ASSUME NEW s \in Outcomes, ExecutionEnds(s) PROVE JournalStep
    <3>1. s \in Terminal BY OutcomesAssumption DEF Terminal
    <3>2. turn \in Commands /\ StepFinishes(turn, s)
      BY <2>4 DEF ExecutionEnds, Writing, StepFinishes
    <3>3. QED BY <3>1, <3>2 DEF JournalStep
  <2>5. CASE \/ RegisterLocalCleanup \/ SubmissionFails \/ ConfirmRefused \/ Build
             \/ ExecutionAbandoned
    BY <2>5 DEF RegisterLocalCleanup, SubmissionFails, ConfirmRefused, Build,
                ExecutionAbandoned, ConfirmRow, JournalStep, StepElsewhere
  <2>6. CASE RecordAssignment
    BY <2>6 DEF RecordAssignment, JournalStep, StepElsewhere
  <2>7. CASE AcceptCheckpoint
    <3>1. turn \in Commands BY <2>7 DEF AcceptCheckpoint, Writing
    <3>2. QED BY <2>7, <3>1 DEF AcceptCheckpoint, JournalStep, StepAccepts
  <2>8. CASE \/ \E calls \in SUBSET Calls : CheckpointResponse(calls)
             \/ \E k \in Calls : CheckpointResult(k)
             \/ CheckpointUsage
    <3>1. turn \in Commands
      BY <2>8 DEF CheckpointResponse, CheckpointResult, CheckpointUsage, Checkpoint,
                  Writing
    <3>2. StepCheckpoints(turn)
      BY <2>8 DEF CheckpointResponse, CheckpointResult, CheckpointUsage, Checkpoint,
                  AcceptanceReset, StepCheckpoints
    <3>3. QED BY <3>1, <3>2 DEF JournalStep
  <2>9. QED
    BY <1>2, <2>1, <2>2, <2>3, <2>4, <2>5, <2>6, <2>7, <2>8 DEF TurnNext
<1>3. CASE CleanupNext
  <2>1. CASE FinishUnfinalized
    <3>1. turn \in Commands /\ StepFinishes(turn, "Interrupted")
      BY <2>1 DEF FinishUnfinalized, StepFinishes
    <3>2. "Interrupted" \in Terminal BY DEF Terminal
    <3>3. QED BY <3>1, <3>2 DEF JournalStep
  <2>2. CASE ~FinishUnfinalized
    <3>1. StepElsewhere
      BY <1>3, <2>2 DEF CleanupNext, ObserveTeardown, ConfirmCleanup,
         CleanupAlreadyConfirmed, RetainLocalObservation, AssignmentCleaned,
         ConfirmAfterAssignment, ConfirmRow, StepElsewhere
    <3>2. QED BY <3>1 DEF JournalStep
  <2>3. QED BY <2>1, <2>2
<1>4. CASE OwnerNext
  <2>1. StepElsewhere
    BY <1>4 DEF OwnerNext, Serve, Restart, RecoverOpens, Launch, Open, Crash, Stop,
                GuardianDrains, StepElsewhere
  <2>2. QED BY <2>1 DEF JournalStep
<1>5. CASE RecoveryNext
  <2>1. CASE RecoverInterrupted
    <3>1. CASE ActiveRuns = {}
      BY <2>1, <3>1 DEF RecoverInterrupted, JournalStep, StepElsewhere
    <3>2. CASE ActiveRuns # {}
      <4>1. PICK c \in Commands : StepFinishes(c, "Interrupted")
        BY <2>1, <3>2 DEF RecoverInterrupted, ActiveRuns, StepFinishes
      <4>2. "Interrupted" \in Terminal BY DEF Terminal
      <4>3. QED BY <4>1, <4>2 DEF JournalStep
    <3>3. QED BY <3>1, <3>2
  <2>2. CASE RecoverToolOutcomes
    <3>1. CASE HasPendingTools(history)
      <4>1. latest \in Commands /\ StepReconciles(latest)
        BY <2>2, <3>1 DEF RecoverToolOutcomes, StepReconciles
      <4>2. QED BY <4>1 DEF JournalStep
    <3>2. CASE ~HasPendingTools(history)
      BY <2>2, <3>2 DEF RecoverToolOutcomes, JournalStep, StepElsewhere
    <3>3. QED BY <3>1, <3>2
  <2>3. CASE \/ RecoverResources \/ RecoverObligation \/ RecoverWithoutProof
             \/ AttestationEnds \/ RetainInterruptedCleanup
    <3>1. StepElsewhere
      BY <2>3 DEF RecoverResources, RecoverObligation, RecoverWithoutProof,
                  AttestationEnds, RetainInterruptedCleanup, ConfirmRow, StepElsewhere
    <3>2. QED BY <3>1 DEF JournalStep
  <2>4. ASSUME NEW c \in Commands, AttestLocalCleanup(c) \/ AttestSessionResource(c)
        PROVE  JournalStep
    BY <2>4 DEF AttestLocalCleanup, AttestSessionResource, ConfirmRow, JournalStep,
                StepElsewhere
  <2>5. ASSUME NEW c \in Commands, ReconcileLocalTools(c) PROVE JournalStep
    <3>1. StepReconciles(c) BY <2>5 DEF ReconcileLocalTools, StepReconciles
    <3>2. QED BY <3>1 DEF JournalStep
  <2>6. QED BY <1>5, <2>1, <2>2, <2>3, <2>4, <2>5 DEF RecoveryNext
<1>6. QED BY <1>1, <1>2, <1>3, <1>4, <1>5 DEF Next

-----------------------------------------------------------------------------
(* The shape of the history: the newest event belongs to the newest        *)
(* message, and only the run of that message can be active.                *)

LatestIsLast == Len(history) > 0 => latest = history[Len(history)].run
ActiveIsLatest ==
  \A c \in Commands : state[c] \in Active => Len(history) > 0 /\ c = latest
RunsAreKnown == \A i \in 1..Len(history) : state[history[i].run] # "absent"
Shape ==
  /\ Tidy(history) /\ Contiguous(history)
  /\ LatestIsLast /\ ActiveIsLatest /\ RunsAreKnown

\* The one message a terminal run still gets.
Reconciled(c) ==
  /\ state[c] \in Terminal
  /\ c \notin receipts /\ c \in receipts'
  /\ HasPendingTools(history) /\ ~HasPendingTools(history')

\* A message that may follow a history: the prompt of a new run when nothing is
\* owed, a message of the newest run while it runs, or its reconciliation.
Follows(m) ==
  /\ ~HasPendingTools(history) \/ (m.role = "tool" /\ m.calls = {})
  /\ \/ m.role = "user" /\ state[m.run] = "absent" /\ ~HasPendingTools(history)
     \/ /\ m.role # "user"
        /\ Len(history) > 0 /\ m.run = history[Len(history)].run
        /\ state[m.run] = "Running" \/ Reconciled(m.run)

Grows == \E m \in Message : history' = Append(history, m) /\ Follows(m)

\* The history stays or one message follows it.
LEMMA HistoryGrows ==
  ASSUME TypeInv, Shape, JournalStep PROVE history' = history \/ Grows
<1> USE DEF TypeInv, TypeOK, Shape
<1>1. ASSUME NEW c \in Commands, StepAdmits(c) PROVE Grows
  <2> DEFINE m == [role |-> "user", run |-> c, calls |-> {}, results |-> {}]
  <2>1. m \in Message BY DEF Message
  <2>2. Follows(m) BY <1>1 DEF Follows, StepAdmits
  <2>3. history' = Append(history, m) BY <1>1 DEF StepAdmits, Extend
  <2>4. QED BY <2>1, <2>2, <2>3 DEF Grows
<1>2. ASSUME NEW c \in Commands, StepCheckpoints(c) PROVE history' = history \/ Grows
  <2>1. state[c] = "Running" /\ Len(history) > 0 /\ c = history[Len(history)].run
    BY <1>2 DEF StepCheckpoints, Active, ActiveIsLatest, LatestIsLast
  <2>2. ASSUME NEW calls \in SUBSET Calls, ~HasPendingTools(history),
               history' = Extend(history, c, "assistant", calls, {})
        PROVE  Grows
    <3> DEFINE m == [role |-> "assistant", run |-> c, calls |-> calls, results |-> {}]
    <3>1. m \in Message BY DEF Message
    <3>2. Follows(m) BY <2>1, <2>2 DEF Follows
    <3>3. history' = Append(history, m) BY <2>2 DEF Extend
    <3>4. QED BY <3>1, <3>2, <3>3 DEF Grows
  <2>3. ASSUME NEW k \in Calls, history' = Extend(history, c, "tool", {}, {k})
        PROVE  Grows
    <3> DEFINE m == [role |-> "tool", run |-> c, calls |-> {}, results |-> {k}]
    <3>1. m \in Message BY DEF Message
    <3>2. Follows(m) BY <2>1 DEF Follows
    <3>3. history' = Append(history, m) BY <2>3 DEF Extend
    <3>4. QED BY <3>1, <3>2, <3>3 DEF Grows
  <2>4. QED BY <1>2, <2>2, <2>3 DEF StepCheckpoints
<1>3. ASSUME NEW c \in Commands, StepReconciles(c) PROVE Grows
  <2> DEFINE m == [role |-> "tool", run |-> c, calls |-> {},
                   results |-> Unresolved(history)]
  <2>1. /\ history' = Append(history, m) /\ latest = c
        /\ state[c] \in Terminal /\ Unresolved(history) # {}
    BY <1>3 DEF StepReconciles, ReconcileTools, ReconcileAllowed, Extend
  <2>2. Len(history) > 0
    BY <2>1, SMT DEF Unresolved
  <2>3. m \in Message BY UnresolvedType DEF Message
  <2>4. Reconciled(c)
    BY <1>3, <2>1, ReconciledIsQuiet, UnresolvedIsPending
       DEF Reconciled, StepReconciles, ReconcileTools, ReconcileAllowed
  <2>5. Follows(m) BY <2>1, <2>2, <2>4 DEF Follows, LatestIsLast
  <2>6. QED BY <2>1, <2>3, <2>5 DEF Grows
<1>4. QED
  BY <1>1, <1>2, <1>3
     DEF JournalStep, StepElsewhere, StepRuns, StepAccepts, StepFinishes, Finish

\* Who is active after a step, and who was heard last.
LEMMA LatestStep ==
  ASSUME TypeInv, Shape, JournalStep
  PROVE  LatestIsLast' /\ ActiveIsLatest' /\ RunsAreKnown'
<1> USE DEF TypeInv, TypeOK, Shape
<1>0. Len(history) \in Nat /\ Len(history') \in Nat
  <2>1. CASE Grows BY <2>1, AppendFacts DEF Grows
  <2>2. QED BY <2>1, HistoryGrows
<1>1. ASSUME NEW c \in Commands, StepAdmits(c)
      PROVE  LatestIsLast' /\ ActiveIsLatest' /\ RunsAreKnown'
  <2> DEFINE m == [role |-> "user", run |-> c, calls |-> {}, results |-> {}]
  <2>1. m \in Message BY DEF Message
  <2>2. /\ Len(history') = Len(history) + 1 /\ history'[Len(history')] = m
        /\ \A i \in 1..Len(history) : history'[i] = history[i]
        /\ \A i \in 1..Len(history') : i = Len(history) + 1 \/ i \in 1..Len(history)
    BY <1>0, <1>1, <2>1, AppendFacts DEF StepAdmits, Extend
  <2>3. LatestIsLast' BY <1>1, <2>2 DEF StepAdmits, LatestIsLast
  <2>4. ActiveIsLatest'
    BY <1>0, <1>1, <2>2 DEF StepAdmits, ActiveRuns, ActiveIsLatest, Active
  <2>5. RunsAreKnown'
    <3> SUFFICES ASSUME NEW i \in 1..Len(history')
                 PROVE  state'[history'[i].run] # "absent"
      BY DEF RunsAreKnown
    <3>1. CASE i = Len(history) + 1 BY <1>1, <2>2, <3>1 DEF StepAdmits
    <3>2. CASE i \in 1..Len(history)
      <4>1. history'[i] = history[i] /\ history[i].run \in Commands
        BY <2>2, <3>2, MessageFields
      <4>2. QED BY <1>1, <3>2, <4>1 DEF StepAdmits, RunsAreKnown
    <3>3. QED BY <2>2, <3>1, <3>2
  <2>6. QED BY <2>3, <2>4, <2>5
<1>2. ASSUME NEW c \in Commands, StepCheckpoints(c) \/ StepReconciles(c), Grows
      PROVE  LatestIsLast' /\ ActiveIsLatest' /\ RunsAreKnown'
  <2>1. PICK m \in Message : history' = Append(history, m) /\ Follows(m)
    BY <1>2 DEF Grows
  <2>2. /\ Len(history') = Len(history) + 1 /\ history'[Len(history')] = m
        /\ \A i \in 1..Len(history) : history'[i] = history[i]
        /\ \A i \in 1..Len(history') : i = Len(history) + 1 \/ i \in 1..Len(history)
    BY <1>0, <2>1, AppendFacts
  <2>3. state' = state /\ latest' = c /\ m.run = c /\ state[c] # "absent"
    <3>1. ASSUME NEW role \in {"assistant", "tool"}, NEW calls \in SUBSET Calls,
                 NEW results \in SUBSET Calls,
                 history' = Extend(history, c, role, calls, results)
          PROVE  m.run = c
      <4> DEFINE n == [role |-> role, run |-> c, calls |-> calls, results |-> results]
      <4>1. n \in Message BY DEF Message
      <4>2. history'[Len(history) + 1] = n BY <3>1, <4>1, AppendFacts DEF Extend
      <4>3. QED BY <2>2, <4>2
    <3>2. history' # history BY <1>0, <2>2
    <3>3. m.run = c
      <4>1. CASE StepCheckpoints(c)
        <5>1. CASE \E calls \in SUBSET Calls :
                     history' = Extend(history, c, "assistant", calls, {})
          BY <3>1, <5>1
        <5>2. ASSUME NEW k \in Calls, history' = Extend(history, c, "tool", {}, {k})
              PROVE  m.run = c
          <6>1. {k} \in SUBSET Calls /\ {} \in SUBSET Calls OBVIOUS
          <6>2. QED BY <3>1, <5>2, <6>1
        <5>3. QED BY <3>2, <4>1, <5>1, <5>2 DEF StepCheckpoints
      <4>2. CASE StepReconciles(c)
        <5>1. history' = Extend(history, c, "tool", {}, Unresolved(history))
          BY <4>2 DEF StepReconciles, ReconcileTools
        <5>2. QED BY <3>1, <5>1, UnresolvedType
      <4>3. QED BY <1>2, <4>1, <4>2
    <3>4. QED
      BY <1>2, <3>3 DEF StepCheckpoints, StepReconciles, ReconcileTools,
                        ReconcileAllowed, Terminal
  <2>4. LatestIsLast' BY <2>2, <2>3 DEF LatestIsLast
  <2>5. c = latest \/ \A d \in Commands : state[d] \notin Active
    BY <1>2 DEF StepCheckpoints, ActiveIsLatest, Active, StepReconciles,
                ReconcileTools, ReconcileAllowed
  <2>6. ActiveIsLatest' BY <1>0, <2>2, <2>3, <2>5 DEF ActiveIsLatest
  <2>7. RunsAreKnown' BY <2>2, <2>3 DEF RunsAreKnown
  <2>8. QED BY <2>4, <2>6, <2>7
<1>3. ASSUME NEW c \in Commands, history' = history,
             \/ StepRuns(c) \/ StepCheckpoints(c) \/ StepAccepts(c)
             \/ \E s \in Terminal : StepFinishes(c, s)
      PROVE  LatestIsLast' /\ ActiveIsLatest' /\ RunsAreKnown'
  <2>1. state[c] \in Active /\ latest' = c
    BY <1>3 DEF StepRuns, StepCheckpoints, StepAccepts, StepFinishes, Finish,
                Finishable, Active
  <2>2. c = latest /\ Len(history) > 0 BY <2>1 DEF ActiveIsLatest
  <2>3. \A d \in Commands : d # c => state'[d] = state[d]
    BY <1>3 DEF StepRuns, StepCheckpoints, StepAccepts, StepFinishes, Finish
  <2>4. state'[c] # "absent"
    BY <1>3, <2>1, ClassifiedType
       DEF StepRuns, StepCheckpoints, StepAccepts, StepFinishes, Finish, Active,
           Terminal
  <2>5. RunsAreKnown' BY <1>3, <2>3, <2>4, MessageFields DEF RunsAreKnown
  <2>6. QED
    BY <1>3, <2>1, <2>2, <2>3, <2>5 DEF LatestIsLast, ActiveIsLatest
<1>4. CASE StepElsewhere
  BY <1>4 DEF StepElsewhere, LatestIsLast, ActiveIsLatest, RunsAreKnown
<1>5. QED
  <2>1. ASSUME NEW c \in Commands, StepReconciles(c) PROVE Grows
    <3>1. history' # history
      <4>1. history' = Append(history, [role |-> "tool", run |-> c, calls |-> {},
                                        results |-> Unresolved(history)])
        BY <2>1 DEF StepReconciles, ReconcileTools, Extend
      <4>2. [role |-> "tool", run |-> c, calls |-> {},
             results |-> Unresolved(history)] \in Message
        BY UnresolvedType DEF Message
      <4>3. Len(history') = Len(history) + 1 BY <4>1, <4>2, AppendFacts
      <4>4. QED BY <1>0, <4>3
    <3>2. QED BY <3>1, HistoryGrows
  <2>2. QED
    BY <1>1, <1>2, <1>3, <1>4, <2>1, HistoryGrows DEF JournalStep, StepRuns,
       StepAccepts, StepFinishes, Finish

\* The shape of the history is kept by every step.
LEMMA ShapeStep == ASSUME TypeInv, Shape, JournalStep PROVE Shape'
<1> USE DEF TypeInv, TypeOK
<1>1. LatestIsLast' /\ ActiveIsLatest' /\ RunsAreKnown' BY LatestStep
<1>2. CASE history' = history
  BY <1>1, <1>2 DEF Shape
<1>3. CASE Grows
  <2>1. PICK m \in Message : history' = Append(history, m) /\ Follows(m)
    BY <1>3 DEF Grows
  <2>2. Tidy(history') BY <2>1, AppendTidy DEF Shape, Follows
  <2>3. m.run \in Commands BY DEF Message
  <2>4. \/ Len(history) > 0 /\ m.run = history[Len(history)].run
        \/ \A i \in 1..Len(history) : history[i].run # m.run
    BY <2>1 DEF Shape, Follows, RunsAreKnown
  <2>5. Contiguous(history') BY <2>1, <2>4, AppendContiguous DEF Shape
  <2>6. QED BY <1>1, <2>2, <2>5 DEF Shape
<1>4. QED BY <1>2, <1>3, HistoryGrows

-----------------------------------------------------------------------------
(* Turns follow one another.                                               *)

\* The prefixes of a longer history are those of the shorter one.
LEMMA AppendPrefix ==
  ASSUME NEW h \in Seq(Message), NEW m \in Message, NEW n \in 0..Len(h)
  PROVE  /\ SubSeq(Append(h, m), 1, n) = SubSeq(h, 1, n)
         /\ SubSeq(h, 1, Len(h)) = h
OBVIOUS

LEMMA SameHistory == ASSUME TurnsAreSequential, history' = history PROVE TurnsAreSequential'
BY DEF TurnsAreSequential

\* Whatever follows the history, turns stay in sequence.
LEMMA SequentialStep ==
  ASSUME TypeInv, Shape, TurnsAreSequential, JournalStep
  PROVE  TurnsAreSequential'
<1> USE DEF TypeInv, TypeOK
<1>1. CASE history' = history BY <1>1, SameHistory
<1>2. CASE Grows
  <2>1. PICK m \in Message : history' = Append(history, m) /\ Follows(m)
    BY <1>2 DEF Grows
  <2>2. /\ Len(history) \in Nat /\ Len(history') = Len(history) + 1
        /\ history'[Len(history) + 1] = m
        /\ \A i \in 1..Len(history) : history'[i] = history[i]
    BY <2>1, AppendFacts
  <2> SUFFICES ASSUME NEW j \in 1..Len(history'), history'[j].role = "user"
               PROVE  /\ ~HasPendingTools(SubSeq(history', 1, j - 1))
                      /\ \A i \in 1..j - 1 : \A n \in j..Len(history') :
                           history'[n].run # history'[i].run
    BY DEF TurnsAreSequential
  <2>3. CASE j = Len(history) + 1
    <3>1. m.role = "user" /\ ~HasPendingTools(history) /\ state[m.run] = "absent"
      BY <2>1, <2>2, <2>3 DEF Follows
    <3>2. SubSeq(history', 1, j - 1) = history
      <4>1. j - 1 \in 0..Len(history) /\ j - 1 = Len(history) BY <2>2, <2>3
      <4>2. QED BY <2>1, <4>1, AppendPrefix
    <3>3. \A i \in 1..j - 1 : history'[i].run # m.run
      BY <2>2, <2>3, <3>1 DEF Shape, RunsAreKnown
    <3>4. ASSUME NEW n \in j..Len(history') PROVE history'[n] = m
      <4>1. n = Len(history) + 1 BY <2>2, <2>3
      <4>2. QED BY <2>2, <4>1
    <3>5. QED BY <3>1, <3>2, <3>3, <3>4
  <2>4. CASE j \in 1..Len(history)
    <3>1. history[j].role = "user" BY <2>2, <2>4
    <3>2. SubSeq(history', 1, j - 1) = SubSeq(history, 1, j - 1)
      <4>1. j - 1 \in 0..Len(history) BY <2>2, <2>4
      <4>2. QED BY <2>1, <4>1, AppendPrefix
    <3>3. \A i \in 1..j - 1 : \A n \in j..Len(history) :
            history[n].run # history[i].run
      BY <2>4, <3>1 DEF TurnsAreSequential
    <3>4. ASSUME NEW i \in 1..j - 1, NEW n \in j..Len(history')
          PROVE  history'[n].run # history'[i].run
      <4>1. i \in 1..Len(history) /\ history'[i] = history[i] BY <2>2, <2>4
      <4>2. CASE n \in j..Len(history)
        <5>0. n \in 1..Len(history) BY <2>2, <2>4, <4>2
        <5>1. history'[n] = history[n] BY <2>2, <5>0
        <5>2. QED BY <3>3, <4>1, <4>2, <5>1
      <4>3. CASE n = Len(history) + 1 /\ state[m.run] = "absent"
        BY <2>2, <4>1, <4>3 DEF Shape, RunsAreKnown
      <4>4. CASE n = Len(history) + 1 /\ m.run = history[Len(history)].run
        <5>1. Len(history) \in j..Len(history) BY <2>2, <2>4
        <5>2. QED BY <2>2, <3>3, <4>1, <4>4, <5>1
      <4>5. n \in j..Len(history) \/ n = Len(history) + 1 BY SMTT(30), <2>2, <2>4
      <4>6. QED BY <2>1, <4>2, <4>3, <4>4, <4>5 DEF Follows
    <3>5. ~HasPendingTools(SubSeq(history, 1, j - 1))
      BY <2>4, <3>1 DEF TurnsAreSequential
    <3>6. QED BY <3>2, <3>4, <3>5
  <2>5. QED BY <2>2, <2>3, <2>4
<1>3. QED BY <1>1, <1>2, HistoryGrows

-----------------------------------------------------------------------------
(* Completions.  An acceptance stands for the newest answer as long as its *)
(* run is active, and a completed run owes nothing.                        *)

AcceptedIsAnswered ==
  \A c \in Commands : accepted[c] =>
    state[c] # "absent" /\ (state[c] \in Active => Answered(history))
DoneIsQuiet ==
  \A c \in Commands :
    state[c] = "Completed" /\ c = latest => ~HasPendingTools(history)

\* An acceptance is never stale: any later message withdraws it.
LEMMA AcceptedStep ==
  ASSUME TypeInv, Shape, AcceptedIsAnswered, JournalStep
  PROVE  AcceptedIsAnswered'
<1> USE DEF TypeInv, TypeOK, Shape, AcceptedIsAnswered, Active
<1>1. ASSUME NEW c \in Commands, StepAdmits(c) PROVE AcceptedIsAnswered'
  BY <1>1 DEF StepAdmits, ActiveRuns
<1>2. ASSUME NEW c \in Commands, StepCheckpoints(c) PROVE AcceptedIsAnswered'
  <2>1. \A d \in Commands : state[d] \in Active => d = c
    BY <1>2 DEF StepCheckpoints, ActiveIsLatest
  <2>2. QED BY <1>2, <2>1 DEF StepCheckpoints
<1>3. ASSUME NEW c \in Commands, StepReconciles(c) PROVE AcceptedIsAnswered'
  <2>1. \A d \in Commands : state[d] \notin Active
    BY <1>3 DEF StepReconciles, ReconcileTools, ReconcileAllowed, ActiveIsLatest,
                Terminal
  <2>2. QED BY <1>3, <2>1 DEF StepReconciles, ReconcileTools
<1>4. ASSUME NEW c \in Commands, StepRuns(c) \/ StepAccepts(c)
      PROVE  AcceptedIsAnswered'
  BY <1>4 DEF StepRuns, StepAccepts
<1>5. ASSUME NEW c \in Commands, NEW s \in Terminal, StepFinishes(c, s)
      PROVE  AcceptedIsAnswered'
  <2>1. Classified(c, s) \in Terminal BY ClassifiedType
  <2>2. QED BY <1>5, <2>1 DEF StepFinishes, Finish, Finishable, Terminal
<1>6. CASE StepElsewhere
  BY <1>6 DEF StepElsewhere
<1>7. QED BY <1>1, <1>2, <1>3, <1>4, <1>5, <1>6 DEF JournalStep

\* A run that completed leaves the history without an outstanding call.
LEMMA QuietStep ==
  ASSUME TypeInv, Shape, DoneIsQuiet, JournalStep
  PROVE  DoneIsQuiet'
<1> USE DEF TypeInv, TypeOK, Shape, DoneIsQuiet, Active
<1>1. ASSUME NEW c \in Commands, StepAdmits(c) PROVE DoneIsQuiet'
  BY <1>1 DEF StepAdmits
<1>2. ASSUME NEW c \in Commands, StepCheckpoints(c) \/ StepRuns(c) \/ StepAccepts(c)
      PROVE  DoneIsQuiet'
  BY <1>2 DEF StepCheckpoints, StepRuns, StepAccepts
<1>3. ASSUME NEW c \in Commands, StepReconciles(c) PROVE DoneIsQuiet'
  <2>1. state[c] # "Completed" \/ ~(c = latest)
    BY <1>3, UnresolvedIsPending
       DEF StepReconciles, ReconcileTools, ReconcileAllowed
  <2>2. QED BY <1>3, <2>1 DEF StepReconciles, ReconcileTools, ReconcileAllowed
<1>4. ASSUME NEW c \in Commands, NEW s \in Terminal, StepFinishes(c, s)
      PROVE  DoneIsQuiet'
  BY <1>4 DEF StepFinishes, Finish, CompletionAllowed
<1>5. CASE StepElsewhere
  BY <1>5 DEF StepElsewhere
<1>6. QED BY <1>1, <1>2, <1>3, <1>4, <1>5 DEF JournalStep

\* The newest message of a run is an answer without calls.
EndsAnswered(c) ==
  \E i \in BlockOf(c) :
    /\ \A j \in BlockOf(c) : j <= i
    /\ history[i].role = "assistant" /\ history[i].calls = {}

\* Every call of a run has its result among the run's own messages.
CallsAnswered(c) ==
  \A i \in BlockOf(c) : \A k \in history[i].calls :
    \E j \in BlockOf(c) : i < j /\ k \in history[j].results

CompletedInv ==
  \A c \in Commands : state[c] = "Completed" =>
    EndsAnswered(c) /\ CallsAnswered(c) /\ assignment[c] # "pending"

\* A run's newest message is the one that no other message of it follows.
LEMMA CompletedInvSuffices == ASSUME TypeInv, CompletedInv PROVE CompletedIsResolved
<1> SUFFICES ASSUME NEW c \in Commands, state[c] = "Completed"
             PROVE  history[LastOf(c)].role = "assistant" /\ history[LastOf(c)].calls = {}
  BY DEF CompletedInv, CompletedIsResolved, CallsAnswered
<1>1. PICK i \in BlockOf(c) : /\ \A j \in BlockOf(c) : j <= i
                              /\ history[i].role = "assistant" /\ history[i].calls = {}
  BY DEF CompletedInv, EndsAnswered
<1>2. LastOf(c) \in BlockOf(c) /\ \A j \in BlockOf(c) : j <= LastOf(c)
  BY <1>1 DEF LastOf
<1>3. BlockOf(c) \subseteq Nat
  BY DEF BlockOf
<1>4. LastOf(c) = i
  BY <1>1, <1>2, <1>3
<1>5. QED BY <1>1, <1>4

\* Messages of other runs do not touch what a run ended with.
LEMMA BlockStays ==
  ASSUME TypeInv, NEW m \in Message, history' = Append(history, m),
         NEW c \in Commands, m.run # c
  PROVE  /\ BlockOf(c)' = BlockOf(c)
         /\ EndsAnswered(c) => EndsAnswered(c)'
         /\ CallsAnswered(c) => CallsAnswered(c)'
<1> USE DEF TypeInv, TypeOK
<1>1. /\ Len(history) \in Nat /\ Len(history') = Len(history) + 1
      /\ history'[Len(history) + 1] = m
      /\ \A i \in 1..Len(history) : history'[i] = history[i]
      /\ \A i \in 1..Len(history) + 1 : i = Len(history) + 1 \/ i \in 1..Len(history)
  BY AppendFacts
<1>2. BlockOf(c)' = BlockOf(c)
  <2>1. ASSUME NEW i \in BlockOf(c)' PROVE i \in BlockOf(c)
    BY <1>1, <2>1 DEF BlockOf
  <2>2. ASSUME NEW i \in BlockOf(c) PROVE i \in BlockOf(c)'
    BY <1>1, <2>2 DEF BlockOf
  <2>3. QED BY <2>1, <2>2
<1>3. \A i \in BlockOf(c) : history'[i] = history[i]
  BY <1>1 DEF BlockOf
<1>4. ASSUME EndsAnswered(c) PROVE EndsAnswered(c)'
  BY <1>2, <1>3, <1>4 DEF EndsAnswered
<1>5. ASSUME CallsAnswered(c) PROVE CallsAnswered(c)'
  BY ZenonT(30), <1>2, <1>3, <1>5 DEF CallsAnswered
<1>6. QED BY <1>2, <1>4, <1>5

\* A run that finish_classified completes ends with its accepted answer.
LEMMA CompletionResolves ==
  ASSUME TypeInv, Shape, AcceptedIsAnswered, NEW c \in Commands,
         CompletionAllowed(c)
  PROVE  EndsAnswered(c) /\ CallsAnswered(c)
<1> USE DEF TypeInv, TypeOK, Shape
<1>1. /\ state[c] = "Running" /\ accepted[c] /\ ~HasPendingTools(history)
      /\ Answered(history)
  BY DEF CompletionAllowed, AcceptedIsAnswered, Active
<1>2. /\ Len(history) \in Nat \ {0} /\ history[Len(history)].run = c
      /\ Len(history) \in 1..Len(history)
  BY <1>1 DEF ActiveIsLatest, LatestIsLast, Active
<1>3. Len(history) \in BlockOf(c) /\ \A j \in BlockOf(c) : j <= Len(history)
  BY <1>2 DEF BlockOf
<1>4. EndsAnswered(c)
  BY <1>1, <1>3 DEF EndsAnswered, Answered
<1>5. ASSUME NEW i \in BlockOf(c), NEW k \in history[i].calls
      PROVE  \E j \in BlockOf(c) : i < j /\ k \in history[j].results
  <2>1. i \in 1..Len(history) /\ history[i].run = c BY <1>5 DEF BlockOf
  <2>2. HasResult(history, k, i + 1, Len(history))
    BY <1>1, <1>5, <2>1 DEF HasPendingTools
  <2>3. PICK j \in i + 1..Len(history) : k \in history[j].results
    BY <2>2 DEF HasResult
  <2>4. j \in 1..Len(history) /\ i <= j /\ i < j /\ j <= Len(history)
    BY <2>1
  <2>5. history[j].run = history[i].run
    BY <1>2, <2>1, <2>4 DEF Contiguous
  <2>6. QED BY <2>1, <2>3, <2>4, <2>5 DEF BlockOf
<1>6. QED BY <1>4, <1>5 DEF CallsAnswered

\* What a completion recorded stays so, and a new one records it.
LEMMA CompletedStep ==
  ASSUME TypeInv, Shape, AcceptedIsAnswered, DoneIsQuiet, CompletedInv, JournalStep
  PROVE  CompletedInv'
<1> USE DEF TypeInv, TypeOK
<1> SUFFICES ASSUME NEW c \in Commands, state'[c] = "Completed"
             PROVE  /\ EndsAnswered(c)' /\ CallsAnswered(c)'
                    /\ assignment'[c] # "pending"
  BY DEF CompletedInv
<1>1. CASE state[c] = "Completed"
  <2>1. EndsAnswered(c) /\ CallsAnswered(c) /\ assignment[c] # "pending"
    BY <1>1 DEF CompletedInv
  <2>2. assignment'[c] # "pending"
    BY <1>1, <2>1 DEF JournalStep, StepElsewhere, StepAdmits, StepRuns,
       StepCheckpoints, StepAccepts, StepFinishes, StepReconciles, ReconcileTools
  <2>3. CASE history' = history
    BY <2>1, <2>2, <2>3 DEF EndsAnswered, CallsAnswered, BlockOf
  <2>4. CASE Grows
    <3>1. PICK m \in Message : history' = Append(history, m) /\ Follows(m)
      BY <2>4 DEF Grows
    <3>2. m.run # c
      <4>1. CASE m.run = c /\ Reconciled(c) /\ c = latest
        BY <1>1, <4>1 DEF Reconciled, DoneIsQuiet
      <4>2. QED
        BY <1>1, <3>1, <4>1 DEF Follows, Shape, LatestIsLast
    <3>3. QED BY <2>1, <2>2, <3>1, <3>2, BlockStays
  <2>5. QED BY <2>3, <2>4, HistoryGrows DEF Shape
<1>2. CASE state[c] # "Completed"
  <2>1. PICK s \in Terminal : StepFinishes(c, s) /\ Classified(c, s) = "Completed"
    <3>1. ASSUME NEW d \in Commands, NEW s \in Terminal, StepFinishes(d, s)
          PROVE  d = c /\ Classified(c, s) = "Completed"
      BY <1>2, <3>1 DEF StepFinishes, Finish
    <3>2. ASSUME NEW d \in Commands,
                 StepAdmits(d) \/ StepRuns(d) \/ StepCheckpoints(d) \/ StepAccepts(d)
                 \/ StepReconciles(d)
          PROVE  FALSE
      BY <1>2, <3>2 DEF StepAdmits, StepRuns, StepCheckpoints, StepAccepts,
         StepReconciles, ReconcileTools
    <3>3. ~StepElsewhere BY <1>2 DEF StepElsewhere
    <3>4. QED BY <3>1, <3>2, <3>3 DEF JournalStep
  <2>2. CompletionAllowed(c) /\ assignment'[c] # "pending" /\ history' = history
    BY <2>1 DEF StepFinishes, Finish, Classified
  <2>3. EndsAnswered(c) /\ CallsAnswered(c)
    BY <2>2, CompletionResolves
  <2>4. QED BY <2>2, <2>3 DEF EndsAnswered, CallsAnswered, BlockOf
<1>3. QED BY <1>1, <1>2

-----------------------------------------------------------------------------
(* The invariant of the history.                                           *)

HistoryInv ==
  /\ TypeInv /\ Shape
  /\ AcceptedIsAnswered /\ DoneIsQuiet /\ CompletedInv /\ TurnsAreSequential

\* The first state satisfies it.
LEMMA HistoryInit == Init => HistoryInv
<1> SUFFICES ASSUME Init PROVE HistoryInv
  OBVIOUS
<1>1. history = <<>> /\ Len(history) = 0 /\ \A c \in Commands : state[c] = "absent"
  BY DEF Init
<1>2. Shape
  BY <1>1 DEF Shape, Tidy, Contiguous, LatestIsLast, ActiveIsLatest, RunsAreKnown,
              Active
<1>3. AcceptedIsAnswered /\ DoneIsQuiet /\ CompletedInv
  BY <1>1 DEF Init, AcceptedIsAnswered, DoneIsQuiet, CompletedInv
<1>4. TurnsAreSequential
  BY <1>1 DEF TurnsAreSequential
<1>5. QED BY <1>2, <1>3, <1>4, TypeInit DEF HistoryInv

\* It is inductive.
LEMMA HistoryStep == HistoryInv /\ [Next]_vars => HistoryInv'
<1> SUFFICES ASSUME HistoryInv, [Next]_vars PROVE HistoryInv'
  OBVIOUS
<1>1. TypeInv' BY TypeStep DEF HistoryInv
<1>2. CASE UNCHANGED vars
  BY <1>1, <1>2 DEF vars, journal, evidence, HistoryInv, Shape, LatestIsLast,
     ActiveIsLatest, RunsAreKnown, AcceptedIsAnswered, DoneIsQuiet, CompletedInv,
     EndsAnswered, CallsAnswered, BlockOf, TurnsAreSequential
<1>3. CASE Next
  <2>1. JournalStep BY <1>3, StepIsJournalStep DEF HistoryInv
  <2>2. QED
    BY <1>1, <2>1, ShapeStep, AcceptedStep, QuietStep, CompletedStep, SequentialStep
       DEF HistoryInv
<1>4. QED BY <1>2, <1>3

\* For conversations of any length with any number of cancellations, crashes and
\* recoveries: a completed run ends with the answer it accepted last, every call
\* it made has a result of its own, and no participant is unclean
\* (finish_classified).
THEOREM CompletionsAreResolved == Spec => []CompletedIsResolved
<1>1. HistoryInv => CompletedIsResolved
  BY CompletedInvSuffices DEF HistoryInv
<1>2. QED
  BY <1>1, HistoryInit, HistoryStep, PTL DEF Spec

\* No message of a run comes after the next turn's prompt, and no prompt after an
\* unresolved call (admit_turn, reconcile_tools).
THEOREM TurnsFollowOneAnother == Spec => []TurnsAreSequential
<1>1. HistoryInv => TurnsAreSequential
  BY DEF HistoryInv
<1>2. QED
  BY <1>1, HistoryInit, HistoryStep, PTL DEF Spec

\* What a step may do to recorded outcomes and messages.
FinalStep ==
  /\ \A c \in Commands : state[c] \in Terminal => state'[c] = state[c]
  /\ Len(history') >= Len(history)
  /\ SubSeq(history', 1, Len(history)) = history
  /\ \A i \in Len(history) + 1..Len(history') :
       state[history'[i].run] \in Terminal =>
         /\ history'[i].run \notin receipts
         /\ history'[i].run \in receipts'
         /\ ~HasPendingTools(history')

\* Every step does only that.
LEMMA StepIsFinalStep == ASSUME HistoryInv, Next PROVE FinalStep
<1> USE DEF TypeInv, TypeOK, HistoryInv
<1>0. JournalStep BY StepIsJournalStep
<1>1. \A c \in Commands : state[c] \in Terminal => state'[c] = state[c]
  BY <1>0 DEF JournalStep, StepElsewhere, StepAdmits, StepRuns, StepCheckpoints,
     StepAccepts, StepFinishes, Finish, Finishable, StepReconciles, ReconcileTools,
     Active, Terminal
<1>2. CASE history' = history
  <2>1. /\ SubSeq(history', 1, Len(history)) = history
        /\ Len(history') >= Len(history)
        /\ \A i \in Len(history) + 1..Len(history') : FALSE
    BY <1>2
  <2>2. QED BY <1>1, <2>1 DEF FinalStep
<1>3. CASE Grows
  <2>1. PICK m \in Message : history' = Append(history, m) /\ Follows(m)
    BY <1>3 DEF Grows
  <2>2. /\ Len(history) \in Nat /\ Len(history') = Len(history) + 1
        /\ history'[Len(history) + 1] = m
    BY <2>1, AppendFacts
  <2>3. SubSeq(history', 1, Len(history)) = history
    BY <2>1, <2>2, AppendPrefix
  <2>4. state[m.run] \in Terminal => Reconciled(m.run)
    BY <2>1 DEF Follows, Terminal
  <2>5. \A i \in Len(history) + 1..Len(history') : i = Len(history) + 1
    BY <2>2
  <2>6. QED BY <1>1, <2>2, <2>3, <2>4, <2>5 DEF FinalStep, Reconciled
<1>4. QED BY <1>0, <1>2, <1>3, HistoryGrows

\* No outcome and no accepted message is ever rewritten, and a terminal run gets
\* at most the one reconciliation that settles its calls (finish_classified,
\* reconcile_tools).
THEOREM OutcomesAreFinal == Spec => TerminalIsFinal
<1>1. HistoryInv /\ [Next]_vars => [FinalStep]_vars
  BY StepIsFinalStep
<1>2. QED
  BY <1>1, HistoryInit, HistoryStep, PTL DEF Spec, TerminalIsFinal, FinalStep

-----------------------------------------------------------------------------
(***************************************************************************)
(* The local effects: what is called observed is gone, a turn runs beside  *)
(* declared effects only, and the evidence that lets a session start again *)
(* is true.                                                                *)
(***************************************************************************)

(* The owner process and the evidence of its incarnation.                  *)

\* A serving process is no recovery, has no evidence about itself and starts
\* with an empty scope; the guardian's evidence leaves nothing in scope.
ProcessInv ==
  /\ pc # "serving" => stage = "idle"
  /\ pc = "serving" => mode # "recover"
  /\ pc # "down" /\ mode # "recover" => permit = "none" /\ ~proof
  /\ pc \notin {"down", "serving"} /\ mode # "recover" => scope = {}
  /\ proof => scope = {}
  /\ pc = "settling" => mode = "restart" \/ proof
  /\ permit = "fresh" => live = {} /\ pc = "down"

\* Every step keeps it.
LEMMA ProcessStep == ASSUME TypeInv, ProcessInv, Next PROVE ProcessInv'
<1> USE DEF TypeInv, TypeOK, TurnHeld, ProcessInv, journal, evidence, files,
            process, world
<1>1. CASE ClientNext
  BY <1>1 DEF ClientNext, RequestCancelLocal
<1>2. CASE TurnNext
  <2>1. pc = "serving" /\ pc' = pc /\ mode' = mode /\ permit' = permit /\ proof' = proof
    BY <1>2 DEF TurnNext, AdmitTurn, PreparationFails, RegisterLocalCleanup,
       SubmissionFails, BrowserRefuses, ConstructionRefused, ConfirmRefused,
       BuildFails, Build, MarkRunning, CheckpointResponse, CheckpointResult,
       CheckpointUsage, Checkpoint, AcceptCheckpoint, RecordAssignment,
       ExecutionEnds, ExecutionAbandoned, Writing
  <2>2. QED BY <2>1
<1>3. CASE CleanupNext
  <2>1. pc = "serving" /\ pc' = pc /\ mode' = mode /\ permit' = permit /\ proof' = proof
    BY <1>3 DEF CleanupNext, ObserveTeardown, FinishUnfinalized, ConfirmCleanup,
       CleanupAlreadyConfirmed, RetainLocalObservation, AssignmentCleaned,
       ConfirmAfterAssignment
  <2>2. QED BY <2>1
<1>4. CASE OwnerNext
  <2>1. CASE Serve \/ Restart
    BY <2>1 DEF Serve, Restart, Launch, Open
  <2>2. CASE RecoverOpens
    BY <2>2 DEF RecoverOpens, Open
  <2>3. CASE Crash
    BY <2>3 DEF Crash
  <2>4. CASE Stop
    BY <2>4 DEF Stop
  <2>5. CASE GuardianDrains
    BY <2>5 DEF GuardianDrains
  <2>6. QED BY <1>4, <2>1, <2>2, <2>3, <2>4, <2>5 DEF OwnerNext
<1>5. CASE RecoveryNext
  <2>1. CASE RecoverInterrupted
    BY <2>1 DEF RecoverInterrupted, Goto
  <2>2. CASE RecoverResources
    BY <2>2 DEF RecoverResources, ProcessTreeGone, Goto
  <2>3. CASE RecoverObligation \/ RecoverWithoutProof \/ AttestationEnds
    BY <2>3 DEF RecoverObligation, RecoverWithoutProof, AttestationEnds, AfterProof,
                Goto
  <2>4. CASE \E c \in Commands : \/ AttestLocalCleanup(c)
                                 \/ AttestSessionResource(c)
                                 \/ ReconcileLocalTools(c)
    <3>1. UNCHANGED <<files, process, world>>
      BY <2>4 DEF AttestLocalCleanup, AttestSessionResource, ReconcileLocalTools
    <3>2. QED BY <3>1
  <2>5. CASE RetainInterruptedCleanup
    BY <2>5 DEF RetainInterruptedCleanup, Goto
  <2>6. CASE RecoverToolOutcomes
    BY <2>6 DEF RecoverToolOutcomes, Goto
  <2>7. QED BY <1>5, <2>1, <2>2, <2>3, <2>4, <2>5, <2>6 DEF RecoveryNext
<1>6. QED BY <1>1, <1>2, <1>3, <1>4, <1>5 DEF Next

-----------------------------------------------------------------------------
(* The turn under way.                                                     *)

\* A run that has done nothing yet.
Untouched(c) ==
  resource[c] = "none" /\ assignment[c] = "none" /\ c \notin locally /\ c \notin live

AbsentIsUntouched ==
  \A c \in Commands : state[c] = "absent" =>
    Untouched(c) /\ CleanupConfirmation(c) = "none"
NewTurnIsUntouched ==
  stage \in {"admitted", "registered"} => state[turn] = "Accepted" /\ Untouched(turn)
GoneTurnIsGone == stage \in {"refused", "observed"} => turn \notin live
OnlyTurnIsPending == stage \in Registered => PendingCleanup \subseteq {turn}
TurnInv ==
  /\ AbsentIsUntouched /\ NewTurnIsUntouched /\ GoneTurnIsGone /\ OnlyTurnIsPending
  /\ stage = "registered" => obligation[turn] = "pending"

\* A run nobody admitted has left no trace, whatever is recovered or attested.
LEMMA AbsentStep ==
  ASSUME TypeInv, OneRow, TurnInv, Next PROVE AbsentIsUntouched'
<1> USE DEF TypeInv, TypeOK, TurnHeld, AbsentIsUntouched, Untouched, TurnInv, journal,
            evidence, files, process, world
<1> SUFFICES ASSUME NEW c \in Commands, state'[c] = "absent"
             PROVE  Untouched(c)' /\ CleanupConfirmation(c)' = "none"
  OBVIOUS
<1>0. state[c] = "absent"
  <2>1. \A d \in Commands, s \in Terminal : Classified(d, s) # "absent"
    BY ClassifiedType DEF Terminal
  <2>2. QED BY <2>1, StepIsRunStep DEF RunStep, Finish, Active
<1>1. Untouched(c) /\ CleanupConfirmation(c) = "none" /\ obligation[c] = "none"
      /\ retained[c] = "none"
  BY <1>0 DEF CleanupConfirmation
<1>2. stage \in {"admitted", "registered"} => turn # c
  BY <1>0 DEF NewTurnIsUntouched
<1>3. CASE ClientNext
  BY <1>1, <1>3 DEF ClientNext, RequestCancelLocal, CleanupConfirmation
<1>4. CASE TurnNext
  BY ZenonT(30), <1>0, <1>1, <1>2, <1>4
     DEF TurnNext, AdmitTurn, PreparationFails, RegisterLocalCleanup,
       SubmissionFails, BrowserRefuses, ConstructionRefused, ConfirmRefused,
       BuildFails, Build, MarkRunning, CheckpointResponse, CheckpointResult,
       CheckpointUsage, Checkpoint, AcceptCheckpoint, RecordAssignment,
       ExecutionEnds, ExecutionAbandoned, Writing, ConfirmRow, CleanupConfirmation
<1>5. CASE CleanupNext
  BY <1>0, <1>1, <1>5 DEF CleanupNext, ObserveTeardown, FinishUnfinalized, ConfirmCleanup,
       CleanupAlreadyConfirmed, RetainLocalObservation, AssignmentCleaned,
       ConfirmAfterAssignment, ConfirmRow, CleanupConfirmation, Terminal
<1>6. CASE OwnerNext
  BY <1>1, <1>6 DEF OwnerNext, Serve, Restart, RecoverOpens, Launch, Open, Crash, Stop,
              GuardianDrains, CleanupConfirmation
<1>7. CASE RecoveryNext
  <2>1. CASE RecoverObligation
    BY <1>1, <2>1 DEF RecoverObligation, PendingCleanup, ConfirmRow,
                      CleanupConfirmation
  <2>2. CASE RetainInterruptedCleanup
    BY <1>1, <2>2 DEF RetainInterruptedCleanup, RetainedRow, RetainedResource,
                      PendingCleanup, CleanupConfirmation
  <2>3. ASSUME NEW d \in Commands, AttestLocalCleanup(d) \/ AttestSessionResource(d)
        PROVE  Untouched(c)' /\ CleanupConfirmation(c)' = "none"
    BY <1>1, <2>3 DEF AttestLocalCleanup, AttestSessionResource, ConfirmRow,
                      CleanupConfirmation
  <2>4. CASE \/ RecoverInterrupted \/ RecoverResources \/ RecoverWithoutProof
             \/ AttestationEnds
    BY <1>1, <2>4 DEF RecoverInterrupted, RecoverResources, RecoverWithoutProof,
                      AttestationEnds, CleanupConfirmation
  <2>5. CASE RecoverToolOutcomes \/ \E d \in Commands : ReconcileLocalTools(d)
    BY <1>1, <2>5 DEF RecoverToolOutcomes, ReconcileLocalTools, ReconcileTools,
                      CleanupConfirmation
  <2>6. QED BY <1>7, <2>1, <2>2, <2>3, <2>4, <2>5 DEF RecoveryNext
<1>8. QED BY <1>3, <1>4, <1>5, <1>6, <1>7 DEF Next

\* What TurnInv says of the turn under way.
TurnPart ==
  /\ NewTurnIsUntouched /\ GoneTurnIsGone /\ OnlyTurnIsPending
  /\ stage = "registered" => obligation[turn] = "pending"

\* Without a turn there is nothing to say.
LEMMA IdleTurn == ASSUME stage' = "idle" PROVE TurnPart'
BY DEF TurnPart, NewTurnIsUntouched, GoneTurnIsGone, OnlyTurnIsPending, Registered

\* The turn from its admission to the release of its token.
LEMMA TurnPartStep ==
  ASSUME TypeInv, ProcessInv, TurnInv, Next PROVE TurnPart'
<1> USE DEF TypeInv, TypeOK, TurnHeld, TurnInv, Untouched, journal, evidence, files,
            process, world
<1>0. TurnPart BY DEF TurnPart
<1> USE DEF TurnPart, NewTurnIsUntouched, GoneTurnIsGone, OnlyTurnIsPending,
            Registered, PendingCleanup
<1>1. CASE ClientNext
  BY <1>0, <1>1 DEF ClientNext, RequestCancelLocal
<1>2. CASE TurnNext
  <2>1. ASSUME NEW c \in Commands, AdmitTurn(c) PROVE TurnPart'
    BY <2>1 DEF AdmitTurn, AbsentIsUntouched
  <2>2. CASE PreparationFails \/ SubmissionFails \/ BrowserRefuses \/ ConfirmRefused
    BY <2>2, IdleTurn DEF PreparationFails, SubmissionFails, BrowserRefuses,
                          ConfirmRefused
  <2>3. CASE RegisterLocalCleanup
    BY <2>3 DEF RegisterLocalCleanup
  <2>4. CASE ConstructionRefused
    BY <2>4 DEF ConstructionRefused
  <2>5. ASSUME NEW observed \in BOOLEAN, BuildFails(observed) PROVE TurnPart'
    BY <2>5 DEF BuildFails
  <2>6. CASE Build
    BY <2>6 DEF Build
  <2>7. CASE \/ MarkRunning \/ AcceptCheckpoint \/ RecordAssignment
             \/ \E s \in Outcomes : ExecutionEnds(s)
             \/ ExecutionAbandoned
    BY <2>7 DEF MarkRunning, AcceptCheckpoint, RecordAssignment, ExecutionEnds,
                ExecutionAbandoned, Writing, AfterWrite
  <2>8. CASE \/ \E calls \in SUBSET Calls : CheckpointResponse(calls)
             \/ \E k \in Calls : CheckpointResult(k)
             \/ CheckpointUsage
    BY <2>8 DEF CheckpointResponse, CheckpointResult, CheckpointUsage, Checkpoint,
                Writing, AfterWrite
  <2>9. QED
    BY <1>2, <2>1, <2>2, <2>3, <2>4, <2>5, <2>6, <2>7, <2>8 DEF TurnNext
<1>3. CASE CleanupNext
  <2>1. CASE ConfirmCleanup \/ CleanupAlreadyConfirmed
    BY <2>1, IdleTurn DEF ConfirmCleanup, CleanupAlreadyConfirmed
  <2>2. CASE ObserveTeardown
    BY <2>2 DEF ObserveTeardown
  <2>3. CASE FinishUnfinalized \/ RetainLocalObservation
    BY <2>3 DEF FinishUnfinalized, RetainLocalObservation
  <2>4. ASSUME NEW c \in Commands, AssignmentCleaned(c) PROVE TurnPart'
    BY <2>4 DEF AssignmentCleaned
  <2>5. ASSUME NEW c \in Commands, ConfirmAfterAssignment(c) PROVE TurnPart'
    BY <2>5 DEF ConfirmAfterAssignment, ConfirmRow
  <2>6. QED BY <1>3, <2>1, <2>2, <2>3, <2>4, <2>5 DEF CleanupNext
<1>4. CASE OwnerNext
  <2>1. stage' = "idle"
    BY <1>4 DEF ProcessInv, OwnerNext, Serve, Restart, RecoverOpens, Launch, Open,
                Crash, Stop, GuardianDrains
  <2>2. QED BY <2>1, IdleTurn
<1>5. CASE RecoveryNext
  <2>1. pc # "serving" /\ stage' = stage
    BY <1>5 DEF RecoveryNext, RecoverInterrupted, RecoverResources, RecoverObligation,
       RecoverWithoutProof, AttestationEnds, AttestLocalCleanup,
       AttestSessionResource, ReconcileLocalTools, RetainInterruptedCleanup,
       RecoverToolOutcomes, Goto
  <2>2. QED BY <2>1, IdleTurn DEF ProcessInv
<1>6. QED BY <1>1, <1>2, <1>3, <1>4, <1>5 DEF Next

\* Both together.
LEMMA TurnInvStep ==
  ASSUME TypeInv, OneRow, ProcessInv, TurnInv, Next PROVE TurnInv'
BY AbsentStep, TurnPartStep DEF TurnInv, TurnPart

-----------------------------------------------------------------------------
(* The end of a recovery: nothing that refuses admission is left.          *)

\* Only a serving process owns resources; before its last step a recovery has
\* moved or settled all that was pending.
NothingOwned ==
  pc \notin {"down", "serving"} => \A c \in Commands : resource[c] # "owned"
NothingPending ==
  pc = "reconciling" => PendingCleanup = {} /\ PendingResources = {} /\ ActiveRuns = {}
RecoveryInv == NothingOwned /\ NothingPending

\* Every step keeps it.
LEMMA RecoveryInvStep ==
  ASSUME TypeInv, ProcessInv, RecoveryInv, Next PROVE RecoveryInv'
<1> USE DEF TypeInv, TypeOK, TurnHeld, RecoveryInv, NothingOwned, NothingPending,
            PendingCleanup, PendingResources, ActiveRuns, journal, evidence, files,
            process, world
<1>1. CASE ClientNext
  BY <1>1 DEF ClientNext, RequestCancelLocal
<1>2. CASE TurnNext \/ CleanupNext
  <2>1. pc' = "serving"
    BY <1>2 DEF TurnNext, AdmitTurn, PreparationFails, RegisterLocalCleanup,
       SubmissionFails, BrowserRefuses, ConstructionRefused, ConfirmRefused,
       BuildFails, Build, MarkRunning, CheckpointResponse, CheckpointResult,
       CheckpointUsage, Checkpoint, AcceptCheckpoint, RecordAssignment,
       ExecutionEnds, ExecutionAbandoned, Writing, CleanupNext, ObserveTeardown,
       FinishUnfinalized, ConfirmCleanup, CleanupAlreadyConfirmed,
       RetainLocalObservation, AssignmentCleaned, ConfirmAfterAssignment
  <2>2. QED BY <2>1
<1>3. CASE OwnerNext
  <2>1. CASE Serve \/ Restart \/ RecoverOpens
    BY <2>1 DEF Serve, Restart, RecoverOpens, Launch, Open
  <2>2. CASE Crash \/ Stop \/ GuardianDrains
    BY <2>2 DEF Crash, Stop, GuardianDrains
  <2>3. QED BY <1>3, <2>1, <2>2 DEF OwnerNext
<1>4. CASE RecoveryNext
  <2>1. CASE RecoverInterrupted
    BY <2>1 DEF RecoverInterrupted, Goto
  <2>2. CASE RecoverResources
    BY <2>2 DEF RecoverResources, Goto
  <2>3. CASE RecoverObligation \/ RecoverWithoutProof \/ AttestationEnds
    BY <2>3 DEF RecoverObligation, RecoverWithoutProof, AttestationEnds, AfterProof,
                Goto
  <2>4. ASSUME NEW c \in Commands,
               AttestLocalCleanup(c) \/ AttestSessionResource(c)
                 \/ ReconcileLocalTools(c)
        PROVE  RecoveryInv'
    BY <2>4 DEF AttestLocalCleanup, AttestSessionResource, ReconcileLocalTools,
                ReconcileTools
  <2>5. CASE RetainInterruptedCleanup
    BY <2>5 DEF RetainInterruptedCleanup, RetainedResource, Goto
  <2>6. CASE RecoverToolOutcomes
    BY <2>6 DEF RecoverToolOutcomes, Goto
  <2>7. QED BY <1>4, <2>1, <2>2, <2>3, <2>4, <2>5, <2>6 DEF RecoveryNext
<1>5. QED BY <1>1, <1>2, <1>3, <1>4 DEF Next

-----------------------------------------------------------------------------
(* Evidence and the world.                                                 *)

\* What is alive and still owed belongs to the newest incarnation, so that its
\* evidence is evidence about it.
Scoped ==
  \A c \in live :
    obligation[c] = "pending" \/ resource[c] \in {"owned", "cleanup_unknown"} =>
      c \in scope

\* Restart evidence, whatever process is looking at it.
PermitIsTrue ==
  /\ permit \in {"stopped", "recovered"} =>
       PendingCleanup = {} /\ PendingResources = {}
  /\ permit = "recovered" => ActiveRuns = {} /\ ~HasPendingTools(history)

WorldInv == Scoped /\ ObservedIsGone /\ PermitIsTrue

EffectsInv ==
  /\ HistoryInv /\ EvidenceInv
  /\ ProcessInv /\ TurnInv /\ RecoveryInv /\ WorldInv

\* A launch gives the old incarnation's scope up only when nothing in it is owed.
LEMMA ScopedStep == ASSUME EffectsInv, Next PROVE Scoped'
<1> USE DEF EffectsInv, EvidenceInv, HistoryInv, TypeInv, TypeOK, TurnHeld, WorldInv,
            Scoped, journal, evidence, files, process, world
<1>1. CASE ClientNext
  BY <1>1 DEF ClientNext, RequestCancelLocal
<1>2. CASE TurnNext
  <2>1. CASE RegisterLocalCleanup
    BY <2>1 DEF RegisterLocalCleanup, TurnInv, NewTurnIsUntouched, Untouched
  <2>2. CASE Build
    BY <2>2 DEF Build
  <2>3. ASSUME NEW observed \in BOOLEAN, BuildFails(observed) PROVE Scoped'
    BY <2>3 DEF BuildFails
  <2>4. CASE ConfirmRefused
    BY <2>4 DEF ConfirmRefused, ConfirmRow
  <2>5. CASE /\ ~RegisterLocalCleanup /\ ~Build /\ ~ConfirmRefused
             /\ ~\E observed \in BOOLEAN : BuildFails(observed)
    <3>1. UNCHANGED <<live, scope, obligation, resource>>
      BY <1>2, <2>5 DEF TurnNext, AdmitTurn, PreparationFails, SubmissionFails,
         BrowserRefuses, ConstructionRefused, MarkRunning, CheckpointResponse,
         CheckpointResult, CheckpointUsage, Checkpoint, AcceptCheckpoint,
         RecordAssignment, ExecutionEnds, ExecutionAbandoned
    <3>2. QED BY <3>1
  <2>6. QED BY <2>1, <2>2, <2>3, <2>4, <2>5
<1>3. CASE CleanupNext
  <2>1. CASE ObserveTeardown
    BY <2>1 DEF ObserveTeardown
  <2>2. CASE ConfirmCleanup \/ \E c \in Commands : ConfirmAfterAssignment(c)
    BY <2>2 DEF ConfirmCleanup, ConfirmAfterAssignment, ConfirmRow
  <2>3. CASE \/ FinishUnfinalized \/ CleanupAlreadyConfirmed \/ RetainLocalObservation
             \/ \E c \in Commands : AssignmentCleaned(c)
    BY <2>3 DEF FinishUnfinalized, CleanupAlreadyConfirmed, RetainLocalObservation,
                AssignmentCleaned
  <2>4. QED BY <1>3, <2>1, <2>2, <2>3 DEF CleanupNext
<1>4. CASE OwnerNext
  <2>1. CASE Serve
    <3>1. permit \in {"fresh", "stopped", "recovered"}
      BY <2>1 DEF Serve
    <3>2. \A c \in live : /\ obligation[c] # "pending"
                          /\ resource[c] \notin {"owned", "cleanup_unknown"}
      BY <3>1 DEF ProcessInv, PermitIsTrue, PendingCleanup, PendingResources
    <3>3. QED BY <2>1, <3>2 DEF Serve, Launch, Open
  <2>2. CASE Restart
    <3>1. scope = {} BY <2>2 DEF Restart, ProcessInv
    <3>2. QED BY <2>2, <3>1 DEF Restart, Launch, Open
  <2>3. CASE RecoverOpens
    BY <2>3 DEF RecoverOpens, Open
  <2>4. CASE Crash \/ Stop
    BY <2>4 DEF Crash, Stop
  <2>5. CASE GuardianDrains
    BY <2>5 DEF GuardianDrains
  <2>6. QED BY <1>4, <2>1, <2>2, <2>3, <2>4, <2>5 DEF OwnerNext
<1>5. CASE RecoveryNext
  <2>1. CASE RecoverObligation
    BY <2>1 DEF RecoverObligation, PendingCleanup, ConfirmRow
  <2>2. CASE RetainInterruptedCleanup
    BY <2>2 DEF RetainInterruptedCleanup, RetainedResource, PendingCleanup
  <2>3. ASSUME NEW c \in Commands, AttestLocalCleanup(c) \/ AttestSessionResource(c)
        PROVE  Scoped'
    BY <2>3 DEF AttestLocalCleanup, AttestSessionResource, ConfirmRow
  <2>4. CASE \/ RecoverInterrupted \/ RecoverResources \/ RecoverWithoutProof
             \/ AttestationEnds
    BY <2>4 DEF RecoverInterrupted, RecoverResources, RecoverWithoutProof,
                AttestationEnds
  <2>5. CASE RecoverToolOutcomes \/ \E c \in Commands : ReconcileLocalTools(c)
    BY <2>5 DEF RecoverToolOutcomes, ReconcileLocalTools, ReconcileTools
  <2>6. QED BY <1>5, <2>1, <2>2, <2>3, <2>4, <2>5 DEF RecoveryNext
<1>6. QED BY <1>1, <1>2, <1>3, <1>4, <1>5 DEF Next

\* Nothing that is alive and owed is left when the old process tree is gone.
LEMMA TreeGoneIsGone ==
  ASSUME EffectsInv, \/ pc = "settling"
                     \/ pc = "proving" /\ ProcessTreeGone,
         NEW c \in live
  PROVE  obligation[c] # "pending" /\ resource[c] # "cleanup_unknown"
<1>1. scope = {}
  BY DEF EffectsInv, ProcessInv, ProcessTreeGone
<1>2. QED BY <1>1 DEF EffectsInv, WorldInv, Scoped

\* Claims are made about turns whose teardown was seen, about runs already seen,
\* or on the evidence of the incarnation that started them.
LEMMA ObservedStep == ASSUME EffectsInv, Next PROVE ObservedIsGone'
<1> USE DEF EffectsInv, EvidenceInv, HistoryInv, TypeInv, TypeOK, TurnHeld, WorldInv,
            ObservedIsGone, CleanupConfirmation, journal, evidence, files, process,
            world
<1>1. CASE ClientNext
  BY <1>1 DEF ClientNext, RequestCancelLocal
<1>2. CASE TurnNext
  <2>1. CASE RegisterLocalCleanup
    BY <2>1 DEF RegisterLocalCleanup
  <2>2. CASE Build
    BY <2>2 DEF Build, TurnInv, NewTurnIsUntouched, Untouched
  <2>3. ASSUME NEW observed \in BOOLEAN, BuildFails(observed) PROVE ObservedIsGone'
    BY <2>3 DEF BuildFails, TurnInv, NewTurnIsUntouched, Untouched
  <2>4. CASE ConfirmRefused
    BY <2>4 DEF ConfirmRefused, ConfirmRow, TurnInv, GoneTurnIsGone
  <2>5. CASE /\ ~RegisterLocalCleanup /\ ~Build /\ ~ConfirmRefused
             /\ ~\E observed \in BOOLEAN : BuildFails(observed)
    <3>1. UNCHANGED <<live, obligation, retained, locally, resource>>
      BY <1>2, <2>5 DEF TurnNext, AdmitTurn, PreparationFails, SubmissionFails,
         BrowserRefuses, ConstructionRefused, MarkRunning, CheckpointResponse,
         CheckpointResult, CheckpointUsage, Checkpoint, AcceptCheckpoint,
         RecordAssignment, ExecutionEnds, ExecutionAbandoned
    <3>2. QED BY <3>1
  <2>6. QED BY <2>1, <2>2, <2>3, <2>4, <2>5
<1>3. CASE CleanupNext
  <2>1. CASE ObserveTeardown
    BY <2>1 DEF ObserveTeardown
  <2>2. CASE ConfirmCleanup
    BY <2>2 DEF ConfirmCleanup, ConfirmRow, TurnInv, GoneTurnIsGone
  <2>3. ASSUME NEW c \in Commands, ConfirmAfterAssignment(c) PROVE ObservedIsGone'
    BY <2>3 DEF ConfirmAfterAssignment, ConfirmRow
  <2>4. CASE RetainLocalObservation
    BY <2>4 DEF RetainLocalObservation, TurnInv, GoneTurnIsGone
  <2>5. CASE \/ FinishUnfinalized \/ CleanupAlreadyConfirmed
             \/ \E c \in Commands : AssignmentCleaned(c)
    BY <2>5 DEF FinishUnfinalized, CleanupAlreadyConfirmed, AssignmentCleaned
  <2>6. QED BY <1>3, <2>1, <2>2, <2>3, <2>4, <2>5 DEF CleanupNext
<1>4. CASE OwnerNext
  <2>1. CASE Serve \/ Restart \/ RecoverOpens
    BY <2>1 DEF Serve, Restart, RecoverOpens, Launch, Open
  <2>2. CASE Crash \/ Stop \/ GuardianDrains
    BY <2>2 DEF Crash, Stop, GuardianDrains
  <2>3. QED BY <1>4, <2>1, <2>2 DEF OwnerNext
<1>5. CASE RecoveryNext
  <2>1. CASE RecoverResources
    BY <2>1, TreeGoneIsGone DEF RecoverResources
  <2>2. CASE RecoverObligation
    <3>1. \A c \in live : obligation[c] # "pending"
      BY <2>2, TreeGoneIsGone DEF RecoverObligation
    <3>2. QED BY <2>2, <3>1 DEF RecoverObligation, PendingCleanup, ConfirmRow
  <2>3. CASE RetainInterruptedCleanup
    BY <2>3 DEF RetainInterruptedCleanup, RetainedResource, RetainedRow,
                PendingCleanup
  <2>4. ASSUME NEW c \in Commands, AttestLocalCleanup(c) \/ AttestSessionResource(c)
        PROVE  ObservedIsGone'
    BY <2>4 DEF AttestLocalCleanup, AttestSessionResource, ConfirmRow
  <2>5. CASE RecoverInterrupted \/ RecoverWithoutProof \/ AttestationEnds
    BY <2>5 DEF RecoverInterrupted, RecoverWithoutProof, AttestationEnds
  <2>6. CASE RecoverToolOutcomes \/ \E c \in Commands : ReconcileLocalTools(c)
    BY <2>6 DEF RecoverToolOutcomes, ReconcileLocalTools, ReconcileTools
  <2>7. QED BY <1>5, <2>1, <2>2, <2>3, <2>4, <2>5, <2>6 DEF RecoveryNext
<1>6. QED BY <1>1, <1>2, <1>3, <1>4, <1>5 DEF Next

\* Evidence is written when it is true and withdrawn before anything else may
\* start; a repeated recovery does not make it false.
LEMMA PermitStep == ASSUME EffectsInv, Next PROVE PermitIsTrue'
<1> USE DEF EffectsInv, EvidenceInv, HistoryInv, TypeInv, TypeOK, TurnHeld, WorldInv,
            journal, evidence, files, process, world
<1>1. CASE ClientNext
  BY <1>1 DEF ClientNext, RequestCancelLocal, PermitIsTrue, PendingCleanup,
              PendingResources, ActiveRuns
<1>2. CASE TurnNext \/ CleanupNext
  <2>1. pc = "serving" /\ permit' = permit
    BY <1>2 DEF TurnNext, AdmitTurn, PreparationFails, RegisterLocalCleanup,
       SubmissionFails, BrowserRefuses, ConstructionRefused, ConfirmRefused,
       BuildFails, Build, MarkRunning, CheckpointResponse, CheckpointResult,
       CheckpointUsage, Checkpoint, AcceptCheckpoint, RecordAssignment,
       ExecutionEnds, ExecutionAbandoned, Writing, CleanupNext, ObserveTeardown,
       FinishUnfinalized, ConfirmCleanup, CleanupAlreadyConfirmed,
       RetainLocalObservation, AssignmentCleaned, ConfirmAfterAssignment
  <2>2. permit' = "none" BY <2>1 DEF ProcessInv
  <2>3. QED BY <2>2 DEF PermitIsTrue
<1>3. CASE OwnerNext
  <2>1. CASE Serve \/ Restart
    BY <2>1 DEF Serve, Restart, Launch, PermitIsTrue
  <2>2. CASE RecoverOpens
    BY <2>2 DEF RecoverOpens, Open, PermitIsTrue, PendingCleanup, PendingResources,
                ActiveRuns
  <2>3. CASE Crash \/ GuardianDrains
    BY <2>3 DEF Crash, GuardianDrains, PermitIsTrue, PendingCleanup, PendingResources,
                ActiveRuns
  <2>4. CASE Stop
    BY <2>4 DEF Stop, PermitIsTrue, PendingCleanup, PendingResources
  <2>5. QED BY <1>3, <2>1, <2>2, <2>3, <2>4 DEF OwnerNext
<1>4. CASE RecoveryNext
  <2>0. ASSUME permit = "recovered" PROVE Unresolved(history) = {}
    BY <2>0, UnresolvedIsPending DEF PermitIsTrue
  <2> USE DEF PendingCleanup, PendingResources
  <2>1. CASE RecoverInterrupted
    <3>1. CASE ActiveRuns = {}
      BY <2>1, <3>1 DEF RecoverInterrupted, PermitIsTrue, ActiveRuns
    <3>2. CASE ActiveRuns # {}
      BY <2>1, <3>2 DEF RecoverInterrupted, PermitIsTrue
    <3>3. QED BY <3>1, <3>2
  <2>2. CASE RecoverResources
    BY <2>2 DEF RecoverResources, PermitIsTrue, ActiveRuns
  <2>3. CASE RecoverObligation
    BY <2>3 DEF RecoverObligation, PermitIsTrue, ActiveRuns, ConfirmRow
  <2>4. CASE RecoverWithoutProof \/ AttestationEnds
    BY <2>4 DEF RecoverWithoutProof, AttestationEnds, PermitIsTrue, ActiveRuns
  <2>5. ASSUME NEW c \in Commands, AttestLocalCleanup(c) \/ AttestSessionResource(c)
        PROVE  PermitIsTrue'
    BY <2>5 DEF AttestLocalCleanup, AttestSessionResource, ConfirmRow, PermitIsTrue,
                ActiveRuns
  <2>6. ASSUME NEW c \in Commands, ReconcileLocalTools(c) PROVE PermitIsTrue'
    <3>1. permit' = permit /\ permit # "recovered"
      BY <2>0, <2>6 DEF ReconcileLocalTools, ReconcileTools, ReconcileAllowed
    <3>2. QED BY <2>6, <3>1 DEF ReconcileLocalTools, ReconcileTools, PermitIsTrue
  <2>7. CASE RetainInterruptedCleanup
    BY <2>7 DEF RetainInterruptedCleanup, RetainedResource, PermitIsTrue, ActiveRuns
  <2>8. CASE RecoverToolOutcomes
    <3>1. PendingCleanup = {} /\ PendingResources = {} /\ ActiveRuns = {}
      BY <2>8 DEF RecoverToolOutcomes, RecoveryInv, NothingPending
    <3>2. ~HasPendingTools(history')
      <4>1. CASE HasPendingTools(history)
        BY <2>8, <4>1, ReconciledIsQuiet
           DEF RecoverToolOutcomes, ReconcileTools, Shape
      <4>2. CASE ~HasPendingTools(history)
        BY <2>8, <4>2 DEF RecoverToolOutcomes
      <4>3. QED BY <4>1, <4>2
    <3>3. UNCHANGED <<state, obligation, resource>>
      BY <2>8 DEF RecoverToolOutcomes, ReconcileTools
    <3>4. QED BY <3>1, <3>2, <3>3 DEF PermitIsTrue, ActiveRuns
  <2>9. QED
    BY <1>4, <2>1, <2>2, <2>3, <2>4, <2>5, <2>6, <2>7, <2>8 DEF RecoveryNext
<1>5. QED BY <1>1, <1>2, <1>3, <1>4 DEF Next

-----------------------------------------------------------------------------
(* The invariant of the effects.                                           *)

\* The first state satisfies it.
LEMMA EffectsInit == Init => EffectsInv
<1> SUFFICES ASSUME Init PROVE EffectsInv
  OBVIOUS
<1>1. HistoryInv /\ EvidenceInv BY HistoryInit, EvidenceInit
<1>2. ProcessInv BY DEF Init, ProcessInv
<1>3. TurnInv
  BY DEF Init, TurnInv, AbsentIsUntouched, Untouched, CleanupConfirmation,
     NewTurnIsUntouched, GoneTurnIsGone, OnlyTurnIsPending, Registered
<1>4. RecoveryInv BY DEF Init, RecoveryInv, NothingOwned, NothingPending
<1>5. WorldInv BY DEF Init, WorldInv, Scoped, ObservedIsGone, PermitIsTrue
<1>6. QED BY <1>1, <1>2, <1>3, <1>4, <1>5 DEF EffectsInv

\* It is inductive.
LEMMA EffectsStep == EffectsInv /\ [Next]_vars => EffectsInv'
<1> SUFFICES ASSUME EffectsInv, [Next]_vars PROVE EffectsInv'
  OBVIOUS
<1>1. HistoryInv' /\ EvidenceInv'
  BY HistoryStep, EvidenceStep DEF EffectsInv
<1>2. CASE UNCHANGED vars
  <2> USE <1>2 DEF vars, journal, evidence, files, process, world
  <2>1. ProcessInv' /\ RecoveryInv'
    BY DEF EffectsInv, ProcessInv, RecoveryInv, NothingOwned, NothingPending,
           PendingCleanup, PendingResources, ActiveRuns
  <2>2. TurnInv'
    BY DEF EffectsInv, TurnInv, AbsentIsUntouched, Untouched, CleanupConfirmation,
           NewTurnIsUntouched, GoneTurnIsGone, OnlyTurnIsPending, PendingCleanup
  <2>3. WorldInv'
    BY DEF EffectsInv, WorldInv, Scoped, ObservedIsGone, CleanupConfirmation,
           PermitIsTrue, PendingCleanup, PendingResources, ActiveRuns
  <2>4. QED BY <1>1, <2>1, <2>2, <2>3 DEF EffectsInv
<1>3. CASE Next
  <2>1. TypeInv /\ OneRow /\ ProcessInv /\ TurnInv /\ RecoveryInv
    BY DEF EffectsInv, EvidenceInv
  <2>2. ProcessInv' /\ TurnInv' /\ RecoveryInv'
    BY <1>3, <2>1, ProcessStep, TurnInvStep, RecoveryInvStep
  <2>3. WorldInv' BY <1>3, ScopedStep, ObservedStep, PermitStep DEF WorldInv
  <2>4. QED BY <1>1, <2>2, <2>3 DEF EffectsInv
<1>4. QED BY <1>2, <1>3

\* The restart evidence of the runs is part of it.
LEMMA PermitSuffices == EffectsInv => RestartableIsAdmissible
BY DEF EffectsInv, WorldInv, PermitIsTrue, RestartableIsAdmissible

\* A turn past its registration is the only one with a pending row; every other
\* row of something alive was retained or attested.
LEMMA OverlapSuffices == EffectsInv => OverlapIsDeclared
<1> SUFFICES ASSUME EffectsInv,
                    stage \in {"built", "executing", "abandoned", "ended"},
                    NEW c \in live \ {turn}
             PROVE  \/ obligation[c] = "operator_attested"
                    \/ retained[c] \in {"pending", "operator_attested"}
  BY DEF OverlapIsDeclared
<1>1. c \in Commands BY DEF EffectsInv, HistoryInv, TypeInv, TypeOK
<1>2. obligation[c] # "pending"
  BY <1>1 DEF EffectsInv, TurnInv, OnlyTurnIsPending, Registered, PendingCleanup
<1>3. CleanupConfirmation(c) \notin {"none", "observed"}
  BY DEF EffectsInv, EvidenceInv, EffectsAreAccounted, WorldInv, ObservedIsGone
<1>4. obligation[c] \in Confirmation /\ retained[c] \in Confirmation
  BY <1>1 DEF EffectsInv, HistoryInv, TypeInv, TypeOK
<1>5. QED BY <1>2, <1>3, <1>4 DEF CleanupConfirmation, Confirmation

\* For any number of runs, incarnations, crashes and recoveries, bound or not:
\* what the journal calls observed is gone, a turn runs only beside effects that
\* were retained as unknown or attested, and restart evidence is true
\* (confirm_local_cleanup, recover_process_cleanup, admit_turn).
THEOREM EffectsAreTold == Spec => []EffectsAreKnown
<1>1. EffectsInv => EffectsAreKnown
  BY PermitSuffices, OverlapSuffices DEF EffectsAreKnown, EffectsInv, WorldInv
<1>2. QED
  BY <1>1, EffectsInit, EffectsStep, PTL DEF Spec

\* For any conversation: completions are resolved, turns are sequential, and a
\* finished recovery leaves no call unsettled and no run active
\* (finish_classified, admit_turn, recover_tool_outcomes).
THEOREM HistoryIsTold == Spec => []HistoryIsSound
<1>1. EffectsInv => HistoryIsSound
  BY PermitSuffices, CompletedInvSuffices
     DEF HistoryIsSound, EffectsInv, HistoryInv
<1>2. QED
  BY <1>1, EffectsInit, EffectsStep, PTL DEF Spec

-----------------------------------------------------------------------------
(***************************************************************************)
(* CommandLedger, for any number of identities, principals, payloads and   *)
(* concurrent handlers.                                                    *)
(***************************************************************************)

Reserving == {"admission", "recheck", "apply", "start", "publish", "reject"}

\* The handler has reserved the identity it works on.
HasBound(h) ==
  \/ at[h] \in Reserving
  \/ at[h] = "check" /\ call[h].op = "dispatch"

\* A handler works on a real request, and each step belongs to its operation.
CallOK(h) ==
  /\ at[h] # "free" =>
       /\ call[h].id \in Ids /\ call[h].who \in Principals
       /\ call[h].op \in {"dispatch", "resolve", "receipt"}
       /\ call[h].op = "dispatch" => call[h].payload \in Payloads
  /\ at[h] \in Reserving \cup {"bind"} => call[h].op = "dispatch"
  /\ at[h] = "check" => call[h].op \in {"dispatch", "receipt"}
  /\ at[h] = "resolve" => call[h].op = "resolve"
  /\ at[h] \in {"recheck", "publish"} => KindOf[call[h].payload] = "config"

\* The reservation it found or made is its own.  A configuration past its second
\* look has a reservation with a payload, so no legacy row can be behind it.
BoundOK(h) ==
  HasBound(h) =>
    /\ owner[call[h].id] = call[h].who
    /\ reserved[call[h].id] \in {Null, call[h].payload}
    /\ at[h] = "apply" /\ KindOf[call[h].payload] = "config"
         => reserved[call[h].id] # Null

\* The one handler about to start an accepted tool.
StartOK(h) ==
  at[h] = "start" =>
    /\ receipt[call[h].id] = "accepted" /\ effects[call[h].id] = 0
    /\ \A k \in Handlers :
         at[k] = "start" /\ call[k].id = call[h].id => k = h

\* What a handler is about to say is so.
Holds(i, says) ==
  /\ says = "negative" => receipt[i] \in Negative
  /\ says = "positive" => HasReceipt(i) /\ receipt[i] \notin Negative

AnswerOK(h) ==
  at[h] \in {"answer", "start"} =>
    /\ Holds(call[h].id, answer[h])
    /\ answer[h] # "unknown" /\ call[h].op # "receipt"
         => owner[call[h].id] = call[h].who

\* A reservation without a payload stands for a row; an identity nobody reserved
\* has none.
ReservedOK(i) ==
  /\ owner[i] # Nobody /\ reserved[i] = Null => HasReceipt(i)
  /\ owner[i] = Nobody => reserved[i] = Null /\ ~HasReceipt(i)

\* One row, with the reserved payload.
RowsOK(i) ==
  /\ receipt[i] # "absent" => turns[i] = Null /\ steers[i] = Null
  /\ turns[i] # Null => steers[i] = Null /\ KindOf[turns[i]] = "turn"
  /\ steers[i] # Null => KindOf[steers[i]] = "steer"
  /\ reserved[i] # Null =>
       /\ turns[i] \in {Null, reserved[i]}
       /\ steers[i] \in {Null, reserved[i]}
       /\ receipt[i] # "absent" => request[i] = reserved[i]

\* The effects agree with the row.
EffectsOK(i) ==
  /\ ~HasReceipt(i) \/ receipt[i] \in Negative => effects[i] = 0
  /\ turns[i] # Null \/ steers[i] # Null => effects[i] = 1
  /\ receipt[i] \in {"applied", "finished"} => effects[i] = 1
  /\ receipt[i] = "accepted" => effects[i] \in {0, 1}
  /\ i \in spawned => effects[i] = 1 /\ receipt[i] = "accepted"

HandlerInv(h) == CallOK(h) /\ BoundOK(h) /\ StartOK(h) /\ AnswerOK(h)
LedgerInv(i)  == ReservedOK(i) /\ RowsOK(i) /\ EffectsOK(i)
ToldOK(i)     == \A says \in told[i] : Holds(i, says)

IInv ==
  /\ LedgerTypeOK
  /\ \A h \in Handlers : HandlerInv(h)
  /\ \A i \in Ids : LedgerInv(i) /\ ToldOK(i)

-----------------------------------------------------------------------------
(* What a step does to the ledger and to the handlers, whichever it is.    *)

\* Nothing durable is taken back.
LedgerGrows ==
  \A i \in Ids :
    /\ owner[i] # Nobody => owner'[i] = owner[i] /\ reserved'[i] = reserved[i]
    /\ receipt[i] # "absent" =>
         /\ request'[i] = request[i]
         /\ \/ receipt'[i] = receipt[i]
            \/ receipt[i] = "accepted" /\ receipt'[i] = "finished"
    /\ turns[i] # Null => turns'[i] = turns[i]
    /\ steers[i] # Null => steers'[i] = steers[i]
    /\ receipt[i] = "absent" /\ HasReceipt(i) => receipt'[i] = "absent"

\* An accepted tool is left as it is.
Quiet ==
  \A i \in Ids : receipt[i] = "accepted" =>
    receipt'[i] = "accepted" /\ effects'[i] = effects[i]

\* One handler goes on or ends; the others stand still.
Moves(h, next, says) ==
  /\ \A k \in Handlers \ {h} :
       at'[k] = at[k] /\ call'[k] = call[k] /\ answer'[k] = answer[k]
  /\ \/ at'[h] = "free"
     \/ at'[h] = next /\ answer'[h] = says /\ call'[h] = call[h]

Says == {"unknown", "positive", "negative"}

HandlingTyped ==
  /\ at \in [Handlers -> Steps]
  /\ attached \in [Handlers -> BOOLEAN]
  /\ call \in [Handlers -> CallRecords]
  /\ answer \in [Handlers -> Says]

\* The record of an idle handler is well typed.
LEMMA NoCallIsACall == NoCall \in CallRecords
BY DEF NoCall, CallRecords

\* Goto moves its handler, or ends it if its transport is gone, and nothing else.
LEMMA GotoMoves ==
  ASSUME HandlingTyped, NEW h \in Handlers, NEW next \in Steps, NEW says \in Says,
         StepTo(h, next, says)
  PROVE  HandlingTyped' /\ Moves(h, next, says)
<1>1. CASE attached[h]
  BY <1>1 DEF HandlingTyped, Moves, StepTo
<1>2. CASE ~attached[h]
  <2>1. "free" \in Steps /\ "unknown" \in Says
    BY DEF Steps, Says
  <2> QED
    BY <1>2, <2>1, NoCallIsACall DEF HandlingTyped, Moves, StepTo
<1> QED
  BY <1>1, <1>2

\* Proceed moves its handler and nothing else.
LEMMA ProceedMoves ==
  ASSUME HandlingTyped, NEW h \in Handlers, NEW next \in Steps, Proceed(h, next)
  PROVE  HandlingTyped' /\ Moves(h, next, answer[h])
BY DEF HandlingTyped, Moves, Proceed

\* The facts of a handler that stands still survive any step that takes nothing
\* back.
LEMMA StandsStill ==
  ASSUME IInv, LedgerGrows, NEW k \in Handlers,
         at'[k] = at[k], call'[k] = call[k], answer'[k] = answer[k]
  PROVE  CallOK(k)' /\ BoundOK(k)' /\ AnswerOK(k)'
<1> USE NameAssumption
<1>1. CallOK(k) /\ BoundOK(k) /\ AnswerOK(k)
  BY DEF IInv, HandlerInv
<1>2. CallOK(k)'
  BY <1>1 DEF CallOK
<1>3. BoundOK(k)'
  <2> SUFFICES ASSUME HasBound(k) PROVE BoundOK(k)'
    BY DEF BoundOK, HasBound
  <2>1. call[k].id \in Ids /\ call[k].who \in Principals
    BY <1>1 DEF CallOK, HasBound, Reserving
  <2>2. owner[call[k].id] # Nobody
    BY <1>1, <2>1 DEF BoundOK
  <2> QED
    BY <1>1, <2>1, <2>2 DEF BoundOK, LedgerGrows
<1>4. AnswerOK(k)'
  <2> SUFFICES ASSUME at[k] \in {"answer", "start"} PROVE AnswerOK(k)'
    BY DEF AnswerOK
  <2>1. call[k].id \in Ids /\ call[k].who \in Principals
    BY <1>1 DEF CallOK
  <2>2. Holds(call[k].id, answer[k])'
    BY <1>1, <2>1 DEF AnswerOK, Holds, LedgerGrows, HasReceipt, Negative
  <2>3. answer[k] # "unknown" /\ call[k].op # "receipt"
          => owner'[call[k].id] = call[k].who
    BY <1>1, <2>1 DEF AnswerOK, LedgerGrows
  <2> QED
    BY <2>2, <2>3 DEF AnswerOK
<1> QED
  BY <1>2, <1>3, <1>4

\* A tool about to be started is left alone by a step that starts none.
LEMMA StillStarting ==
  ASSUME IInv, Quiet, NEW k \in Handlers,
         \A g \in Handlers : at'[g] = "start" => at[g] = "start" /\ call'[g] = call[g]
  PROVE  StartOK(k)'
<1> SUFFICES ASSUME at'[k] = "start" PROVE StartOK(k)'
  BY DEF StartOK
<1>1. StartOK(k) /\ CallOK(k) /\ at[k] = "start" /\ call'[k] = call[k]
  BY DEF IInv, HandlerInv
<1>2. call[k].id \in Ids
  BY <1>1 DEF CallOK
<1> QED
  BY <1>1, <1>2 DEF StartOK, Quiet

\* It is enough to look at the handler that moved.
LEMMA OnlyOneMoves ==
  ASSUME IInv, LedgerGrows, Quiet, NEW h \in Handlers, NEW next, NEW says,
         Moves(h, next, says), next # "start" \/ at[h] = "start",
         at'[h] # "free" => CallOK(h)' /\ BoundOK(h)' /\ AnswerOK(h)'
  PROVE  \A k \in Handlers : HandlerInv(k)'
<1> TAKE k \in Handlers
<1>1. StartOK(k)'
  <2>1. \A g \in Handlers : at'[g] = "start" => at[g] = "start" /\ call'[g] = call[g]
    BY DEF Moves
  <2> QED
    BY <2>1, StillStarting
<1>2. CallOK(k)' /\ BoundOK(k)' /\ AnswerOK(k)'
  <2>1. CASE k # h
    <3>1. at'[k] = at[k] /\ call'[k] = call[k] /\ answer'[k] = answer[k]
      BY <2>1 DEF Moves
    <3> QED
      BY <3>1, StandsStill
  <2>2. CASE k = h /\ at'[h] # "free"
    BY <2>2
  <2>3. CASE k = h /\ at'[h] = "free"
    BY <2>3 DEF CallOK, BoundOK, AnswerOK, HasBound, Reserving
  <2> QED
    BY <2>1, <2>2, <2>3
<1> QED
  BY <1>1, <1>2 DEF HandlerInv

\* Answers given earlier stay true.
LEMMA ToldStaysTrue ==
  ASSUME IInv, LedgerGrows, UNCHANGED told
  PROVE  \A i \in Ids : ToldOK(i)'
<1> SUFFICES ASSUME NEW i \in Ids, NEW says \in told[i] PROVE Holds(i, says)'
  BY DEF ToldOK
<1>1. Holds(i, says)
  BY DEF IInv, ToldOK
<1> QED
  BY <1>1 DEF LedgerGrows, Holds, HasReceipt, Negative

-----------------------------------------------------------------------------
(* Steps that leave the ledger alone.                                      *)

VolatileTyped ==
  /\ up \in BOOLEAN
  /\ liveConfig \in Ids \cup {Nobody}
  /\ admission \in Handlers \cup {Nobody}

\* The volatile part of the type invariant.
LEMMA Typed == ASSUME LedgerTypeOK PROVE HandlingTyped /\ VolatileTyped
BY DEF LedgerTypeOK, HandlingTyped, VolatileTyped, Says

\* A step that writes nothing keeps what is known about the ledger.
LEMMA SameLedger ==
  ASSUME IInv, UNCHANGED <<bindings, ledger, effects>>, spawned' \subseteq spawned
  PROVE  LedgerGrows /\ Quiet /\ \A i \in Ids : LedgerInv(i)'
<1>1. LedgerGrows /\ Quiet
  BY DEF LedgerGrows, Quiet, bindings, ledger
<1>2. ASSUME NEW i \in Ids PROVE LedgerInv(i)'
  <2>1. LedgerInv(i)
    BY DEF IInv
  <2> QED
    BY <2>1 DEF LedgerInv, ReservedOK, RowsOK, EffectsOK, HasReceipt, bindings, ledger
<1> QED
  BY <1>1, <1>2

\* A handler step that writes nothing keeps the invariant if the handler that
\* moved keeps its own facts.
LEMMA LedgerQuietStep ==
  ASSUME IInv, UNCHANGED <<bindings, ledger, settings, spawned, effects, told>>,
         VolatileTyped', HandlingTyped',
         NEW h \in Handlers, NEW next, NEW says, Moves(h, next, says),
         next # "start" \/ at[h] = "start",
         at'[h] # "free" => CallOK(h)' /\ BoundOK(h)' /\ AnswerOK(h)'
  PROVE  IInv' /\ LedgerGrows
<1>1. LedgerTypeOK'
  BY DEF IInv, LedgerTypeOK, VolatileTyped, HandlingTyped, Says, bindings, ledger
<1>2. LedgerGrows /\ Quiet /\ \A i \in Ids : LedgerInv(i)'
  BY SameLedger
<1>3. \A k \in Handlers : HandlerInv(k)'
  BY <1>2, OnlyOneMoves
<1>4. \A i \in Ids : ToldOK(i)'
  BY <1>2, ToldStaysTrue
<1> QED
  BY <1>1, <1>2, <1>3, <1>4 DEF IInv

\* A step to which the handler's reservation and its request come along.
LEMMA CarriesOver ==
  ASSUME IInv, UNCHANGED <<bindings, ledger>>, NEW h \in Handlers,
         NEW next, NEW says, Moves(h, next, says),
         at'[h] # "free", at[h] # "free",
         next \in Reserving => HasBound(h),
         next \in Reserving \cup {"bind"} => call[h].op = "dispatch",
         next = "check" =>
           \/ call[h].op = "receipt"
           \/ call[h].op = "dispatch" /\ HasBound(h),
         next = "resolve" => call[h].op = "resolve",
         next \in {"recheck", "publish"} => KindOf[call[h].payload] = "config",
         next = "apply" /\ KindOf[call[h].payload] = "config"
           => reserved[call[h].id] # Null,
         next \in {"answer", "start"} =>
           /\ Holds(call[h].id, says)
           /\ says # "unknown" /\ call[h].op # "receipt"
                => owner[call[h].id] = call[h].who
  PROVE  CallOK(h)' /\ BoundOK(h)' /\ AnswerOK(h)'
<1>1. at'[h] = next /\ answer'[h] = says /\ call'[h] = call[h]
  BY DEF Moves
<1>2. CallOK(h) /\ BoundOK(h)
  BY DEF IInv, HandlerInv
<1>3. CallOK(h)'
  BY <1>1, <1>2 DEF CallOK
<1>4. BoundOK(h)'
  BY <1>1, <1>2 DEF BoundOK, HasBound, bindings
<1>5. AnswerOK(h)'
  <2>1. next \in {"answer", "start"} => Holds(call[h].id, says)'
    BY <1>1 DEF Holds, HasReceipt, ledger
  <2> QED
    BY <1>1, <2>1 DEF AnswerOK, bindings
<1> QED
  BY <1>3, <1>4, <1>5

\* What process_receipt says is so at the moment it is read.
LEMMA ReceiptIsTrue ==
  ASSUME NEW i
  PROVE  /\ Holds(i, ProcessReceipt(i)) /\ Holds(i, "unknown")
         /\ ProcessReceipt(i) \in Says
BY DEF Holds, ProcessReceipt, Says, Negative

\* Releasing the admission lock leaves it free or with another handler.
LEMMA ReleasedTyped ==
  ASSUME VolatileTyped, NEW h PROVE Released(h) \in Handlers \cup {Nobody}
BY DEF VolatileTyped, Released

\* Passing the dispatch gate keeps the invariant.
LEMMA PassGateInv == ASSUME IInv, NEW h \in Handlers, PassGate(h) PROVE IInv' /\ LedgerGrows
<1> DEFINE next == CASE call[h].op = "dispatch" -> "bind"
                     [] call[h].op = "receipt" -> "check"
                     [] OTHER -> "resolve"
<1>1. HandlingTyped /\ VolatileTyped /\ CallOK(h)
  BY Typed DEF IInv, HandlerInv
<1>2. call[h].op \in {"dispatch", "resolve", "receipt"} /\ at[h] = "gate"
  BY <1>1 DEF PassGate, CallOK
<1>3. next \in {"bind", "check", "resolve"} /\ next \in Steps
  BY <1>2 DEF Steps, Jobs
<1>4. Proceed(h, next)
  BY DEF PassGate
<1>5. HandlingTyped' /\ Moves(h, next, answer[h])
  BY <1>1, <1>3, <1>4, ProceedMoves
<1>6. at'[h] # "free" => CallOK(h)' /\ BoundOK(h)' /\ AnswerOK(h)'
  <2>1. /\ next = "bind" => call[h].op = "dispatch"
        /\ next = "check" => call[h].op = "receipt"
        /\ next = "resolve" => call[h].op = "resolve"
    BY <1>2
  <2> HIDE DEF next
  <2> QED
    BY <1>2, <1>3, <1>5, <2>1, CarriesOver DEF PassGate, Reserving
<1> HIDE DEF next
<1> QED
  BY <1>1, <1>3, <1>5, <1>6, LedgerQuietStep DEF PassGate, VolatileTyped

\* Reading the receipt before dispatch keeps the invariant.
LEMMA CheckReceiptInv == ASSUME IInv, NEW h \in Handlers, CheckReceipt(h) PROVE IInv' /\ LedgerGrows
<1> DEFINE i == call[h].id
<1>1. HandlingTyped /\ VolatileTyped /\ CallOK(h) /\ BoundOK(h)
  BY Typed DEF IInv, HandlerInv
<1>2. at[h] = "check" /\ UNCHANGED <<bindings, ledger, settings, up, liveConfig,
                                    admission, spawned, effects, told>>
  BY DEF CheckReceipt
<1>3. VolatileTyped'
  BY <1>1, <1>2 DEF VolatileTyped
<1>4. CASE StepTo(h, "answer", ProcessReceipt(i))
  <2>1. HandlingTyped' /\ Moves(h, "answer", ProcessReceipt(i))
    BY <1>1, <1>4, ReceiptIsTrue, GotoMoves DEF Steps
  <2>2. call[h].op # "receipt" => owner[i] = call[h].who
    BY <1>1, <1>2 DEF CallOK, BoundOK, HasBound
  <2>3. at'[h] # "free" => CallOK(h)' /\ BoundOK(h)' /\ AnswerOK(h)'
    BY <1>2, <2>1, <2>2, ReceiptIsTrue, CarriesOver DEF Reserving
  <2> QED
    BY <1>2, <1>3, <2>1, <2>3, LedgerQuietStep
<1>5. ASSUME NEW next \in {"apply", "admission"}, StepTo(h, next, "unknown"),
             call[h].op # "receipt",
             next = "apply" => KindOf[call[h].payload] = "tool"
      PROVE  IInv' /\ LedgerGrows
  <2>1. HandlingTyped' /\ Moves(h, next, "unknown")
    BY <1>1, <1>5, GotoMoves DEF Steps, Jobs, Task, Says
  <2>2. call[h].op = "dispatch" /\ HasBound(h)
    BY <1>1, <1>2, <1>5 DEF CallOK, HasBound
  <2>3. at'[h] # "free" => CallOK(h)' /\ BoundOK(h)' /\ AnswerOK(h)'
    BY <1>2, <1>5, <2>1, <2>2, CarriesOver DEF Reserving
  <2> QED
    BY <1>2, <1>3, <2>1, <2>3, LedgerQuietStep
<1> QED
  BY <1>4, <1>5 DEF CheckReceipt

\* Taking the admission lock keeps the invariant.
LEMMA TakeAdmissionInv == ASSUME IInv, NEW h \in Handlers, TakeAdmission(h) PROVE IInv' /\ LedgerGrows
<1> DEFINE next == IF KindOf[call[h].payload] = "config" THEN "recheck" ELSE "apply"
<1>1. HandlingTyped /\ VolatileTyped /\ CallOK(h)
  BY Typed DEF IInv, HandlerInv
<1>2. at[h] = "admission" /\ Proceed(h, next) /\ next \in Steps
  BY DEF TakeAdmission, Steps, Task
<1>3. HandlingTyped' /\ Moves(h, next, answer[h])
  BY <1>1, <1>2, ProceedMoves
<1>4. call[h].op = "dispatch" /\ HasBound(h)
  BY <1>1, <1>2 DEF CallOK, HasBound, Reserving
<1>5. /\ next \in {"recheck", "apply"}
      /\ next = "recheck" => KindOf[call[h].payload] = "config"
      /\ next = "apply" => KindOf[call[h].payload] # "config"
  OBVIOUS
<1> HIDE DEF next
<1>6. at'[h] # "free" => CallOK(h)' /\ BoundOK(h)' /\ AnswerOK(h)'
  BY <1>2, <1>3, <1>4, <1>5, CarriesOver DEF TakeAdmission
<1>7. VolatileTyped'
  BY <1>1 DEF TakeAdmission, VolatileTyped
<1> QED
  BY <1>3, <1>5, <1>6, <1>7, LedgerQuietStep DEF TakeAdmission

\* The second look of configure_inner keeps the invariant, and establishes that
\* the reservation has a payload.
LEMMA RecheckInv == ASSUME IInv, NEW h \in Handlers, Recheck(h) PROVE IInv' /\ LedgerGrows
<1> DEFINE i == call[h].id
<1>1. HandlingTyped /\ VolatileTyped /\ CallOK(h) /\ BoundOK(h)
  BY Typed DEF IInv, HandlerInv
<1>2. at[h] = "recheck" /\ UNCHANGED <<bindings, ledger, settings, up, liveConfig,
                                      spawned, effects, told>>
  BY DEF Recheck
<1>3. HasBound(h) /\ call[h].op = "dispatch" /\ i \in Ids /\ owner[i] = call[h].who
      /\ call[h].who \in Principals
  BY <1>1, <1>2 DEF HasBound, CallOK, BoundOK, Reserving
<1>4. VolatileTyped'
  BY <1>1, <1>2, ReleasedTyped DEF VolatileTyped, Recheck
<1>5. CASE HasReceipt(i)
  <2>1. HandlingTyped' /\ Moves(h, "answer", ProcessReceipt(i))
    BY <1>1, <1>5, ReceiptIsTrue, GotoMoves DEF Steps, Recheck
  <2>2. at'[h] # "free" => CallOK(h)' /\ BoundOK(h)' /\ AnswerOK(h)'
    BY <1>2, <1>3, <2>1, ReceiptIsTrue, CarriesOver DEF Reserving
  <2> QED
    BY <1>2, <1>4, <2>1, <2>2, LedgerQuietStep
<1>6. CASE ~HasReceipt(i)
  <2>1. HandlingTyped' /\ Moves(h, "apply", answer[h])
    BY <1>1, <1>6, ProceedMoves DEF Steps, Jobs, Recheck
  <2>2. reserved[i] # Null
    BY <1>3, <1>6, NameAssumption DEF IInv, LedgerInv, ReservedOK
  <2>3. at'[h] # "free" => CallOK(h)' /\ BoundOK(h)' /\ AnswerOK(h)'
    BY <1>2, <1>3, <2>1, <2>2, CarriesOver DEF Reserving
  <2> QED
    BY <1>2, <1>4, <2>1, <2>3, LedgerQuietStep
<1> QED
  BY <1>5, <1>6

\* A configuration that finds its own row keeps the invariant.
LEMMA ConfigureAgainInv == ASSUME IInv, NEW h \in Handlers, ConfigureAgain(h) PROVE IInv' /\ LedgerGrows
<1>1. HandlingTyped /\ VolatileTyped /\ CallOK(h)
  BY Typed DEF IInv, HandlerInv
<1>2. /\ at[h] = "apply" /\ KindOf[call[h].payload] = "config"
      /\ Proceed(h, "publish")
      /\ UNCHANGED <<bindings, ledger, settings, up, liveConfig, admission, spawned,
                     effects, told>>
  BY DEF ConfigureAgain, Applying
<1>3. HandlingTyped' /\ Moves(h, "publish", answer[h])
  BY <1>1, <1>2, ProceedMoves DEF Steps, Task
<1>4. call[h].op = "dispatch" /\ HasBound(h)
  BY <1>1, <1>2 DEF CallOK, HasBound, Reserving
<1>5. at'[h] # "free" => CallOK(h)' /\ BoundOK(h)' /\ AnswerOK(h)'
  BY <1>2, <1>3, <1>4, CarriesOver
<1>6. VolatileTyped'
  BY <1>1, <1>2 DEF VolatileTyped
<1> QED
  BY <1>2, <1>3, <1>5, <1>6, LedgerQuietStep

\* Publishing a configuration keeps the invariant of the ledger.
LEMMA PublishInv == ASSUME IInv, NEW h \in Handlers, Publish(h) PROVE IInv' /\ LedgerGrows
<1> DEFINE i == call[h].id
<1>1. HandlingTyped /\ VolatileTyped /\ CallOK(h) /\ BoundOK(h)
  BY Typed DEF IInv, HandlerInv
<1>2. /\ at[h] = "publish" /\ StepTo(h, "answer", ProcessReceipt(i))
      /\ UNCHANGED <<bindings, ledger, settings, spawned, effects, told>>
  BY DEF Publish
<1>3. HandlingTyped' /\ Moves(h, "answer", ProcessReceipt(i))
  BY <1>1, <1>2, ReceiptIsTrue, GotoMoves DEF Steps
<1>4. i \in Ids /\ owner[i] = call[h].who
  BY <1>1, <1>2 DEF CallOK, BoundOK, HasBound, Reserving
<1>5. at'[h] # "free" => CallOK(h)' /\ BoundOK(h)' /\ AnswerOK(h)'
  BY <1>2, <1>3, <1>4, ReceiptIsTrue, CarriesOver DEF Reserving
<1>6. VolatileTyped'
  BY <1>1, <1>4, ReleasedTyped DEF VolatileTyped, Publish
<1> QED
  BY <1>2, <1>3, <1>5, <1>6, LedgerQuietStep

\* A retry that finds its own row keeps the invariant.
LEMMA ExactRetryInv == ASSUME IInv, NEW h \in Handlers, ExactRetry(h) PROVE IInv' /\ LedgerGrows
<1> DEFINE i == call[h].id
<1>1. HandlingTyped /\ VolatileTyped /\ CallOK(h) /\ BoundOK(h)
  BY Typed DEF IInv, HandlerInv
<1>2. /\ at[h] = "apply" /\ StepTo(h, "answer", ProcessReceipt(i))
      /\ admission' = Released(h)
      /\ UNCHANGED <<bindings, ledger, settings, up, liveConfig, spawned, effects, told>>
  BY DEF ExactRetry
<1>3. HandlingTyped' /\ Moves(h, "answer", ProcessReceipt(i))
  BY <1>1, <1>2, ReceiptIsTrue, GotoMoves DEF Steps
<1>4. owner[i] = call[h].who
  BY <1>1, <1>2 DEF BoundOK, HasBound, Reserving
<1>5. at'[h] # "free" => CallOK(h)' /\ BoundOK(h)' /\ AnswerOK(h)'
  BY <1>2, <1>3, <1>4, ReceiptIsTrue, CarriesOver DEF Reserving
<1>6. VolatileTyped'
  BY <1>1, <1>2, ReleasedTyped DEF VolatileTyped
<1> QED
  BY <1>2, <1>3, <1>5, <1>6, LedgerQuietStep

\* A refusal before it is recorded keeps the invariant.
LEMMA RefusedInv == ASSUME IInv, NEW h \in Handlers, Refused(h) PROVE IInv' /\ LedgerGrows
<1>1. HandlingTyped /\ VolatileTyped /\ CallOK(h)
  BY Typed DEF IInv, HandlerInv
<1>2. /\ at[h] \in {"recheck", "apply"} /\ StepTo(h, "reject", "unknown")
      /\ admission' = Released(h)
      /\ UNCHANGED <<bindings, ledger, settings, up, liveConfig, spawned, effects, told>>
  BY DEF Refused
<1>3. HandlingTyped' /\ Moves(h, "reject", "unknown")
  BY <1>1, <1>2, GotoMoves DEF Steps, Jobs, Says
<1>4. call[h].op = "dispatch" /\ HasBound(h)
  BY <1>1, <1>2 DEF CallOK, HasBound, Reserving
<1>5. at'[h] # "free" => CallOK(h)' /\ BoundOK(h)' /\ AnswerOK(h)'
  BY <1>2, <1>3, <1>4, CarriesOver
<1>6. VolatileTyped'
  BY <1>1, <1>2, ReleasedTyped DEF VolatileTyped
<1> QED
  BY <1>2, <1>3, <1>5, <1>6, LedgerQuietStep

\* A failed journal job keeps the invariant.
LEMMA JobFailsInv == ASSUME IInv, NEW h \in Handlers, JobFails(h) PROVE IInv' /\ LedgerGrows
<1>1. HandlingTyped /\ VolatileTyped
  BY Typed DEF IInv
<1>2. /\ at[h] # "free" /\ StepTo(h, "answer", "unknown")
      /\ UNCHANGED <<bindings, ledger, settings, up, liveConfig, admission, spawned,
                     effects, told>>
  BY DEF JobFails
<1>3. HandlingTyped' /\ Moves(h, "answer", "unknown")
  BY <1>1, <1>2, GotoMoves DEF Steps, Says
<1>4. at'[h] # "free" => CallOK(h)' /\ BoundOK(h)' /\ AnswerOK(h)'
  BY <1>2, <1>3, ReceiptIsTrue, CarriesOver DEF Reserving
<1>5. VolatileTyped'
  BY <1>1, <1>2 DEF VolatileTyped
<1> QED
  BY <1>2, <1>3, <1>4, <1>5, LedgerQuietStep

\* Dropping a handler, with or without its job, keeps the invariant.
LEMMA DroppedInv == ASSUME IInv, NEW h \in Handlers, Dropped(h) PROVE IInv' /\ LedgerGrows
<1>1. HandlingTyped /\ VolatileTyped
  BY Typed DEF IInv
<1>2. UNCHANGED <<bindings, ledger, settings, up, liveConfig, spawned, effects, told>>
  BY DEF Dropped
<1>3. HandlingTyped'
  <2>1. CASE Survives(h)
    BY <1>1, <2>1 DEF HandlingTyped, Dropped
  <2>2. CASE ~Survives(h)
    BY <1>1, <2>2, NoCallIsACall DEF HandlingTyped, Dropped, Steps, Says
  <2> QED
    BY <2>1, <2>2
<1>4. Moves(h, at[h], answer[h])
  BY <1>1 DEF HandlingTyped, Dropped, Moves
<1>5. VolatileTyped'
  BY <1>1, <1>2, ReleasedTyped DEF VolatileTyped, Dropped
<1>6. at'[h] # "free" => CallOK(h)' /\ BoundOK(h)' /\ AnswerOK(h)'
  <2>1. LedgerGrows
    BY <1>2, SameLedger
  <2>2. at'[h] # "free" =>
          at'[h] = at[h] /\ call'[h] = call[h] /\ answer'[h] = answer[h]
    BY <1>4 DEF Moves
  <2> QED
    BY <2>1, <2>2, StandsStill
<1> QED
  BY <1>2, <1>3, <1>4, <1>5, <1>6, LedgerQuietStep

\* A new request keeps the invariant.
LEMMA DeliverInv ==
  ASSUME IInv, NEW h \in Handlers, NEW c \in Requests, Deliver(h, c) PROVE IInv' /\ LedgerGrows
<1>1. HandlingTyped /\ VolatileTyped
  BY Typed DEF IInv
<1>2. /\ UNCHANGED <<bindings, ledger, settings, up, liveConfig, admission, spawned,
                     answer, effects, told>>
      /\ at' = [at EXCEPT ![h] = "gate"] /\ call' = [call EXCEPT ![h] = c]
      /\ attached' = [attached EXCEPT ![h] = TRUE]
  BY DEF Deliver
<1>3. /\ c \in CallRecords /\ c.id \in Ids /\ c.who \in Principals
      /\ c.op \in {"dispatch", "resolve", "receipt"}
      /\ c.op = "dispatch" => c.payload \in Payloads
  BY DEF Requests, CallRecords
<1>4. HandlingTyped' /\ VolatileTyped'
  BY <1>1, <1>2, <1>3 DEF HandlingTyped, VolatileTyped, Steps
<1>5. /\ at'[h] = "gate" /\ call'[h] = c
      /\ \A k \in Handlers \ {h} :
           at'[k] = at[k] /\ call'[k] = call[k] /\ answer'[k] = answer[k]
  BY <1>1, <1>2 DEF HandlingTyped
<1>6. LedgerGrows /\ Quiet /\ \A i \in Ids : LedgerInv(i)'
  BY <1>2, SameLedger
<1>7. ASSUME NEW k \in Handlers PROVE HandlerInv(k)'
  <2>1. StartOK(k)'
    <3>1. \A g \in Handlers : at'[g] = "start" => at[g] = "start" /\ call'[g] = call[g]
      BY <1>5
    <3> QED
      BY <1>6, <3>1, StillStarting
  <2>2. CASE k # h
    BY <1>5, <1>6, <2>1, <2>2, StandsStill DEF HandlerInv
  <2>3. CASE k = h
    <3>1. CallOK(h)'
      BY <1>3, <1>5 DEF CallOK, Reserving
    <3>2. BoundOK(h)' /\ AnswerOK(h)'
      BY <1>5 DEF BoundOK, AnswerOK, HasBound, Reserving
    <3> QED
      BY <2>1, <2>3, <3>1, <3>2 DEF HandlerInv
  <2> QED
    BY <2>2, <2>3
<1>8. LedgerTypeOK'
  BY <1>2, <1>4 DEF IInv, LedgerTypeOK, VolatileTyped, HandlingTyped, Says, bindings, ledger
<1>9. \A i \in Ids : ToldOK(i)'
  BY <1>2, <1>6, ToldStaysTrue
<1> QED
  BY <1>6, <1>7, <1>8, <1>9 DEF IInv

\* An answer that leaves the process is true when it leaves.
LEMMA RespondInv == ASSUME IInv, NEW h \in Handlers, Respond(h) PROVE IInv' /\ LedgerGrows
<1> DEFINE i == call[h].id
<1>1. HandlingTyped /\ VolatileTyped /\ CallOK(h) /\ AnswerOK(h) /\ LedgerTypeOK
  BY Typed DEF IInv, HandlerInv
<1>2. i \in Ids /\ Holds(i, answer[h]) /\ answer[h] \in Says
  BY <1>1 DEF Respond, CallOK, AnswerOK, HandlingTyped
<1>3. /\ UNCHANGED <<bindings, ledger, settings, up, liveConfig, admission, spawned, effects>>
      /\ told' = [told EXCEPT ![i] = @ \cup ({answer[h]} \ {"unknown"})]
  BY DEF Respond
<1>4. HandlingTyped' /\ VolatileTyped' /\ Moves(h, "free", "unknown")
  BY <1>1, <1>3, NoCallIsACall
  DEF HandlingTyped, VolatileTyped, Respond, Steps, Says, Moves
<1>5. LedgerTypeOK'
  <2>1. told' \in [Ids -> SUBSET {"positive", "negative"}]
    BY <1>1, <1>2, <1>3 DEF LedgerTypeOK, Says
  <2> QED
    BY <1>1, <1>3, <1>4, <2>1
    DEF LedgerTypeOK, VolatileTyped, HandlingTyped, Says, bindings, ledger
<1>6. LedgerGrows /\ Quiet /\ \A j \in Ids : LedgerInv(j)'
  BY <1>3, SameLedger
<1>7. at'[h] = "free"
  BY <1>1 DEF Respond, HandlingTyped
<1>8. \A k \in Handlers : HandlerInv(k)'
  BY <1>4, <1>6, <1>7, OnlyOneMoves
<1>9. ASSUME NEW j \in Ids, NEW says \in told'[j] PROVE Holds(j, says)'
  <2>1. says \in told[j] \/ (j = i /\ says = answer[h])
    BY <1>1, <1>2, <1>3 DEF LedgerTypeOK
  <2>2. Holds(j, says)
    BY <1>2, <2>1 DEF IInv, ToldOK
  <2> QED
    BY <1>3, <2>2 DEF Holds, HasReceipt, ledger
<1> QED
  BY <1>5, <1>6, <1>8, <1>9 DEF IInv, ToldOK

\* Process death keeps the invariant.
LEMMA ExitInv == ASSUME IInv, Exit PROVE IInv' /\ LedgerGrows
<1>1. UNCHANGED <<bindings, ledger, settings, effects, told>> /\ spawned' = {}
  BY DEF Exit
<1>2. LedgerGrows /\ \A i \in Ids : LedgerInv(i)'
  BY <1>1, SameLedger
<1>3. HandlingTyped' /\ VolatileTyped'
  BY NoCallIsACall DEF Exit, HandlingTyped, VolatileTyped, Steps, Says
<1>4. LedgerTypeOK'
  BY <1>1, <1>3
  DEF IInv, LedgerTypeOK, VolatileTyped, HandlingTyped, Says, bindings, ledger
<1>5. \A k \in Handlers : HandlerInv(k)'
  BY DEF Exit, HandlerInv, CallOK, BoundOK, StartOK, AnswerOK, HasBound, Reserving
<1>6. \A i \in Ids : ToldOK(i)'
  BY <1>1, <1>2, ToldStaysTrue
<1> QED
  BY <1>2, <1>4, <1>5, <1>6 DEF IInv

\* A restart keeps the invariant.
LEMMA StartInv == ASSUME IInv, Start PROVE IInv' /\ LedgerGrows
<1>1. UNCHANGED <<bindings, ledger, settings, admission, spawned, handling, effects, told>>
  BY DEF Start
<1>2. LedgerGrows /\ Quiet /\ \A i \in Ids : LedgerInv(i)'
  BY <1>1, SameLedger
<1>3. VolatileTyped'
  BY DEF IInv, LedgerTypeOK, VolatileTyped, Start
<1>4. LedgerTypeOK'
  BY <1>1, <1>3 DEF IInv, LedgerTypeOK, VolatileTyped, bindings, ledger, handling
<1>5. ASSUME NEW k \in Handlers PROVE HandlerInv(k)'
  <2>1. at' = at /\ call' = call /\ answer' = answer
    BY <1>1 DEF handling
  <2>2. StartOK(k)'
    BY <1>2, <2>1, StillStarting
  <2> QED
    BY <1>2, <2>1, <2>2, StandsStill DEF HandlerInv
<1>6. \A i \in Ids : ToldOK(i)'
  BY <1>1, <1>2, ToldStaysTrue
<1> QED
  BY <1>2, <1>4, <1>5, <1>6 DEF IInv

-----------------------------------------------------------------------------
(* Steps that write to the ledger.                                         *)

DurableTyped ==
  /\ owner \in [Ids -> Principals \cup {Nobody}]
  /\ reserved \in [Ids -> Payloads \cup {Null}]
  /\ receipt \in [Ids -> Statuses]
  /\ request \in [Ids -> Payloads \cup {Null}]
  /\ turns \in [Ids -> Payloads \cup {Null}]
  /\ steers \in [Ids -> Payloads \cup {Null}]
  /\ settings \in Ids \cup {Nobody}
  /\ spawned \in SUBSET Ids
  /\ effects \in [Ids -> Nat]

\* The durable part of the type invariant.
LEMMA Durable == ASSUME LedgerTypeOK PROVE DurableTyped
BY DEF LedgerTypeOK, DurableTyped

\* Nothing changes about an identity.
SameAt(j) ==
  /\ owner'[j] = owner[j] /\ reserved'[j] = reserved[j]
  /\ receipt'[j] = receipt[j] /\ request'[j] = request[j]
  /\ turns'[j] = turns[j] /\ steers'[j] = steers[j]
  /\ effects'[j] = effects[j]
  /\ j \in spawned' => j \in spawned

\* An identity nothing happened to keeps its facts.
LEMMA SameAtInv == ASSUME IInv, NEW j \in Ids, SameAt(j) PROVE LedgerInv(j)'
<1>1. LedgerInv(j)
  BY DEF IInv
<1> QED
  BY <1>1 DEF SameAt, LedgerInv, ReservedOK, RowsOK, EffectsOK, HasReceipt

\* A handler step that writes keeps the invariant if the ledger and the handler
\* that moved keep theirs.
LEMMA StepInv ==
  ASSUME IInv, LedgerGrows, Quiet, UNCHANGED told,
         DurableTyped', VolatileTyped', HandlingTyped',
         \A i \in Ids : LedgerInv(i)',
         NEW h \in Handlers, NEW next, NEW says, Moves(h, next, says),
         next # "start" \/ at[h] = "start",
         at'[h] # "free" => CallOK(h)' /\ BoundOK(h)' /\ AnswerOK(h)'
  PROVE  IInv' /\ LedgerGrows
<1>1. LedgerTypeOK'
  BY DEF IInv, LedgerTypeOK, DurableTyped, VolatileTyped, HandlingTyped, Says
<1>2. \A k \in Handlers : HandlerInv(k)'
  BY OnlyOneMoves
<1>3. \A i \in Ids : ToldOK(i)'
  BY ToldStaysTrue
<1> QED
  BY <1>1, <1>2, <1>3 DEF IInv

\* A reservation is new, or it is the sender's own.
LEMMA ReserveInv ==
  ASSUME IInv, NEW i \in Ids, NEW p \in Principals, NEW q \in Payloads,
         Reservable(i, p, q), Reserve(i, p, q), UNCHANGED <<ledger, effects, spawned>>
  PROVE  /\ LedgerGrows /\ Quiet
         /\ \A j \in Ids : LedgerInv(j)'
         /\ owner' \in [Ids -> Principals \cup {Nobody}]
         /\ reserved' \in [Ids -> Payloads \cup {Null}]
         /\ owner'[i] = p /\ reserved'[i] \in {Null, q}
<1> USE NameAssumption
<1>1. DurableTyped
  BY Durable DEF IInv
<1>2. UNCHANGED <<receipt, request, turns, steers, effects, spawned>>
  BY DEF ledger
<1>3. CASE owner[i] # Nobody
  <2>1. UNCHANGED bindings
    BY <1>3 DEF Reserve
  <2>2. owner'[i] = p /\ reserved'[i] \in {Null, q}
    BY <1>3, <2>1 DEF Reservable, bindings
  <2>3. LedgerGrows /\ Quiet /\ \A j \in Ids : LedgerInv(j)'
    BY <1>2, <2>1, SameLedger
  <2> QED
    BY <1>1, <2>1, <2>2, <2>3 DEF DurableTyped, bindings
<1>4. CASE owner[i] = Nobody
  <2>1. /\ owner' = [owner EXCEPT ![i] = p]
        /\ reserved' = [reserved EXCEPT ![i] = q]
    BY <1>4 DEF Reserve
  <2>2. LedgerInv(i) /\ ~HasReceipt(i)
    BY <1>4 DEF IInv, LedgerInv, ReservedOK
  <2>3. LedgerGrows /\ Quiet
    BY <1>1, <1>2, <1>4, <2>1 DEF LedgerGrows, Quiet, DurableTyped
  <2>4. LedgerInv(i)'
    BY <1>1, <1>2, <2>1, <2>2
    DEF LedgerInv, ReservedOK, RowsOK, EffectsOK, HasReceipt, DurableTyped
  <2>5. ASSUME NEW j \in Ids, j # i PROVE LedgerInv(j)'
    <3>1. SameAt(j)
      BY <1>1, <1>2, <2>1, <2>5 DEF SameAt, DurableTyped
    <3> QED
      BY <3>1, SameAtInv
  <2> QED
    BY <1>1, <2>1, <2>3, <2>4, <2>5 DEF DurableTyped
<1> QED
  BY <1>3, <1>4

\* bind_process_command keeps the invariant.
LEMMA BindProcessCommandInv ==
  ASSUME IInv, NEW h \in Handlers, BindProcessCommand(h) PROVE IInv' /\ LedgerGrows
<1> DEFINE c == call[h]
<1>1. HandlingTyped /\ VolatileTyped /\ DurableTyped /\ CallOK(h)
  BY Typed, Durable DEF IInv, HandlerInv
<1>2. /\ at[h] = "bind" /\ StepTo(h, "check", "unknown")
      /\ Reservable(c.id, c.who, c.payload) /\ Reserve(c.id, c.who, c.payload)
      /\ UNCHANGED <<ledger, settings, up, liveConfig, admission, spawned, effects, told>>
  BY DEF BindProcessCommand
<1>3. /\ c.id \in Ids /\ c.who \in Principals /\ c.payload \in Payloads
      /\ c.op = "dispatch"
  BY <1>1, <1>2 DEF CallOK
<1> HIDE DEF c
<1>4. /\ LedgerGrows /\ Quiet
      /\ \A j \in Ids : LedgerInv(j)'
      /\ owner' \in [Ids -> Principals \cup {Nobody}]
      /\ reserved' \in [Ids -> Payloads \cup {Null}]
      /\ owner'[c.id] = c.who /\ reserved'[c.id] \in {Null, c.payload}
  BY <1>2, <1>3, ReserveInv
<1>5. HandlingTyped' /\ Moves(h, "check", "unknown")
  BY <1>1, <1>2, GotoMoves DEF Steps, Jobs, Says
<1>6. DurableTyped' /\ VolatileTyped'
  BY <1>1, <1>2, <1>4 DEF DurableTyped, VolatileTyped, ledger
<1>7. at'[h] # "free" => CallOK(h)' /\ BoundOK(h)' /\ AnswerOK(h)'
  <2> SUFFICES ASSUME at'[h] # "free" PROVE CallOK(h)' /\ BoundOK(h)' /\ AnswerOK(h)'
    OBVIOUS
  <2>1. at'[h] = "check" /\ call'[h] = c
    BY <1>5 DEF Moves, c
  <2>2. CallOK(h)'
    BY <1>3, <2>1 DEF CallOK, Reserving
  <2>3. BoundOK(h)' /\ AnswerOK(h)'
    BY <1>4, <2>1 DEF BoundOK, AnswerOK
  <2> QED
    BY <2>2, <2>3
<1> QED
  BY <1>2, <1>4, <1>5, <1>6, <1>7, StepInv

\* A resolution that only reserves keeps the invariant.
LEMMA ResolveHalfwayInv ==
  ASSUME IInv, NEW h \in Handlers, ResolveHalfway(h) PROVE IInv' /\ LedgerGrows
<1> DEFINE c == call[h]
<1>1. HandlingTyped /\ VolatileTyped /\ DurableTyped /\ CallOK(h)
  BY Typed, Durable DEF IInv, HandlerInv
<1>2. /\ at[h] = "resolve" /\ c.payload # Null /\ StepTo(h, "answer", "unknown")
      /\ Reservable(c.id, c.who, c.payload) /\ Reserve(c.id, c.who, c.payload)
      /\ UNCHANGED <<ledger, settings, up, liveConfig, admission, spawned, effects, told>>
  BY DEF ResolveHalfway
<1>3. c.id \in Ids /\ c.who \in Principals /\ c.payload \in Payloads
  BY <1>1, <1>2 DEF CallOK, HandlingTyped, CallRecords
<1>4. CallOK(h) /\ at[h] # "free"
  BY <1>1, <1>2
<1> HIDE DEF c
<1>5. /\ LedgerGrows /\ Quiet
      /\ \A j \in Ids : LedgerInv(j)'
      /\ owner' \in [Ids -> Principals \cup {Nobody}]
      /\ reserved' \in [Ids -> Payloads \cup {Null}]
  BY <1>2, <1>3, ReserveInv
<1>6. HandlingTyped' /\ Moves(h, "answer", "unknown")
  BY <1>1, <1>2, GotoMoves DEF Steps, Says
<1>7. DurableTyped' /\ VolatileTyped'
  BY <1>1, <1>2, <1>5 DEF DurableTyped, VolatileTyped, ledger
<1>8. at'[h] # "free" => CallOK(h)' /\ BoundOK(h)' /\ AnswerOK(h)'
  <2> SUFFICES ASSUME at'[h] # "free" PROVE CallOK(h)' /\ BoundOK(h)' /\ AnswerOK(h)'
    OBVIOUS
  <2>1. at'[h] = "answer" /\ call'[h] = call[h] /\ answer'[h] = "unknown"
    BY <1>6 DEF Moves
  <2>2. CallOK(h)'
    BY <1>4, <2>1 DEF CallOK, Reserving
  <2>3. BoundOK(h)' /\ AnswerOK(h)'
    BY <2>1 DEF BoundOK, AnswerOK, HasBound, Reserving, Holds
  <2> QED
    BY <2>2, <2>3
<1> QED
  BY <1>2, <1>5, <1>6, <1>7, <1>8, StepInv

\* A handler about to write the first row of an identity has its reservation.
LEMMA FirstRow ==
  ASSUME IInv, NEW h \in Handlers, at[h] \in {"apply", "reject"},
         ~HasReceipt(call[h].id)
  PROVE  /\ call[h].id \in Ids /\ call[h].payload \in Payloads
         /\ call[h].op = "dispatch" /\ call[h].who \in Principals
         /\ owner[call[h].id] = call[h].who
         /\ reserved[call[h].id] = call[h].payload
         /\ effects[call[h].id] = 0
         /\ call[h].id \notin spawned
<1>1. CallOK(h) /\ BoundOK(h)
  BY DEF IInv, HandlerInv
<1>2. /\ call[h].id \in Ids /\ call[h].payload \in Payloads
      /\ call[h].who \in Principals /\ call[h].op = "dispatch" /\ HasBound(h)
  BY <1>1 DEF CallOK, HasBound, Reserving
<1>3. LedgerInv(call[h].id)
  BY <1>2 DEF IInv
<1> QED
  BY <1>1, <1>2, <1>3, NameAssumption
  DEF BoundOK, LedgerInv, ReservedOK, EffectsOK, HasReceipt

\* What is left of a step that answers after it wrote.
LEMMA AnswersAfterWriting ==
  ASSUME IInv, NEW h \in Handlers, at[h] # "free",
         NEW says, Moves(h, "answer", says), at'[h] # "free",
         Holds(call[h].id, says)',
         says # "unknown" => owner'[call[h].id] = call[h].who
  PROVE  CallOK(h)' /\ BoundOK(h)' /\ AnswerOK(h)'
<1>1. at'[h] = "answer" /\ call'[h] = call[h] /\ answer'[h] = says
  BY DEF Moves
<1>2. CallOK(h)'
  BY <1>1 DEF IInv, HandlerInv, CallOK, Reserving
<1>3. BoundOK(h)'
  BY <1>1 DEF BoundOK, HasBound, Reserving
<1>4. AnswerOK(h)'
  BY <1>1 DEF AnswerOK, Holds, HasReceipt
<1> QED
  BY <1>2, <1>3, <1>4

\* admit_turn keeps the invariant.
LEMMA AdmitTurnInv == ASSUME IInv, NEW h \in Handlers, ApplyTurn(h) PROVE IInv' /\ LedgerGrows
<1> DEFINE i == call[h].id
<1> USE NameAssumption
<1>1. HandlingTyped /\ VolatileTyped /\ DurableTyped
  BY Typed, Durable DEF IInv
<1>2. /\ at[h] = "apply" /\ KindOf[call[h].payload] = "turn" /\ ~HasReceipt(i)
      /\ turns' = [turns EXCEPT ![i] = call[h].payload]
      /\ effects' = [effects EXCEPT ![i] = @ + 1]
      /\ admission' = Released(h) /\ StepTo(h, "answer", "positive")
      /\ UNCHANGED <<bindings, receipt, request, steers, settings, up, liveConfig,
                     spawned, told>>
  BY DEF ApplyTurn, Applying, TurnFree, Effect
<1>3. /\ i \in Ids /\ call[h].payload \in Payloads /\ owner[i] = call[h].who
      /\ call[h].who \in Principals
      /\ reserved[i] = call[h].payload /\ effects[i] = 0 /\ i \notin spawned
  BY <1>2, FirstRow
<1>4. receipt[i] = "absent" /\ turns[i] = Null /\ steers[i] = Null
  BY <1>2 DEF HasReceipt
<1>5. HandlingTyped' /\ Moves(h, "answer", "positive")
  BY <1>1, <1>2, GotoMoves DEF Steps, Says
<1>6. DurableTyped' /\ VolatileTyped'
  BY <1>1, <1>2, <1>3, ReleasedTyped DEF DurableTyped, VolatileTyped, bindings
<1>7. LedgerGrows /\ Quiet
  BY <1>1, <1>2, <1>3, <1>4 DEF LedgerGrows, Quiet, DurableTyped, bindings, HasReceipt
<1>8. /\ turns'[i] = call[h].payload /\ steers'[i] = Null /\ receipt'[i] = "absent"
      /\ effects'[i] = 1 /\ owner'[i] = call[h].who /\ reserved'[i] = call[h].payload
  BY <1>1, <1>2, <1>3, <1>4 DEF DurableTyped, bindings
<1>9. ASSUME NEW j \in Ids PROVE LedgerInv(j)'
  <2>1. CASE j = i
    BY <1>2, <1>3, <1>8, <2>1 DEF LedgerInv, ReservedOK, RowsOK, EffectsOK, HasReceipt, Negative
  <2>2. CASE j # i
    <3>1. SameAt(j)
      BY <1>1, <1>2, <2>2 DEF SameAt, DurableTyped, bindings
    <3> QED
      BY <3>1, SameAtInv
  <2> QED
    BY <2>1, <2>2
<1>10. at'[h] # "free" => CallOK(h)' /\ BoundOK(h)' /\ AnswerOK(h)'
  <2> SUFFICES ASSUME at'[h] # "free" PROVE CallOK(h)' /\ BoundOK(h)' /\ AnswerOK(h)'
    OBVIOUS
  <2>1. call'[h] = call[h]
    BY <1>5 DEF Moves
  <2>2. Holds(call[h].id, "positive")'
    BY <1>3, <1>8, <2>1 DEF Holds, HasReceipt, Negative
  <2> QED
    BY <1>2, <1>5, <1>8, <2>2, AnswersAfterWriting
<1> QED
  BY <1>2, <1>5, <1>6, <1>7, <1>9, <1>10, StepInv

\* queue_steering keeps the invariant.
LEMMA QueueSteeringInv == ASSUME IInv, NEW h \in Handlers, ApplySteering(h) PROVE IInv' /\ LedgerGrows
<1> DEFINE i == call[h].id
<1> USE NameAssumption
<1>1. HandlingTyped /\ VolatileTyped /\ DurableTyped
  BY Typed, Durable DEF IInv
<1>2. /\ at[h] = "apply" /\ KindOf[call[h].payload] = "steer" /\ ~HasReceipt(i)
      /\ steers' = [steers EXCEPT ![i] = call[h].payload]
      /\ effects' = [effects EXCEPT ![i] = @ + 1]
      /\ admission' = Released(h) /\ StepTo(h, "answer", "positive")
      /\ UNCHANGED <<bindings, receipt, request, turns, settings, up, liveConfig,
                     spawned, told>>
  BY DEF ApplySteering, Applying, Effect
<1>3. /\ i \in Ids /\ call[h].payload \in Payloads /\ owner[i] = call[h].who
      /\ call[h].who \in Principals
      /\ reserved[i] = call[h].payload /\ effects[i] = 0 /\ i \notin spawned
  BY <1>2, FirstRow
<1>4. receipt[i] = "absent" /\ turns[i] = Null /\ steers[i] = Null
  BY <1>2 DEF HasReceipt
<1>5. HandlingTyped' /\ Moves(h, "answer", "positive")
  BY <1>1, <1>2, GotoMoves DEF Steps, Says
<1>6. DurableTyped' /\ VolatileTyped'
  BY <1>1, <1>2, <1>3, ReleasedTyped DEF DurableTyped, VolatileTyped, bindings
<1>7. LedgerGrows /\ Quiet
  BY <1>1, <1>2, <1>3, <1>4 DEF LedgerGrows, Quiet, DurableTyped, bindings, HasReceipt
<1>8. /\ steers'[i] = call[h].payload /\ turns'[i] = Null /\ receipt'[i] = "absent"
      /\ effects'[i] = 1 /\ owner'[i] = call[h].who /\ reserved'[i] = call[h].payload
  BY <1>1, <1>2, <1>3, <1>4 DEF DurableTyped, bindings
<1>9. ASSUME NEW j \in Ids PROVE LedgerInv(j)'
  <2>1. CASE j = i
    BY <1>2, <1>3, <1>8, <2>1
    DEF LedgerInv, ReservedOK, RowsOK, EffectsOK, HasReceipt, Negative
  <2>2. CASE j # i
    <3>1. SameAt(j)
      BY <1>1, <1>2, <2>2 DEF SameAt, DurableTyped, bindings
    <3> QED
      BY <3>1, SameAtInv
  <2> QED
    BY <2>1, <2>2
<1>10. at'[h] # "free" => CallOK(h)' /\ BoundOK(h)' /\ AnswerOK(h)'
  <2> SUFFICES ASSUME at'[h] # "free" PROVE CallOK(h)' /\ BoundOK(h)' /\ AnswerOK(h)'
    OBVIOUS
  <2>1. call'[h] = call[h]
    BY <1>5 DEF Moves
  <2>2. Holds(call[h].id, "positive")'
    BY <1>3, <1>8, <2>1 DEF Holds, HasReceipt, Negative
  <2> QED
    BY <1>2, <1>5, <1>8, <2>2, AnswersAfterWriting
<1> QED
  BY <1>2, <1>5, <1>6, <1>7, <1>9, <1>10, StepInv

\* process_metadata keeps the invariant.
LEMMA ProcessMetadataInv == ASSUME IInv, NEW h \in Handlers, ProcessMetadata(h) PROVE IInv' /\ LedgerGrows
<1> DEFINE i == call[h].id
<1> USE NameAssumption
<1>1. HandlingTyped /\ VolatileTyped /\ DurableTyped
  BY Typed, Durable DEF IInv
<1>2. /\ at[h] = "apply" /\ KindOf[call[h].payload] = "meta" /\ ~HasReceipt(i)
      /\ receipt' = [receipt EXCEPT ![i] = "applied"]
      /\ request' = [request EXCEPT ![i] = call[h].payload]
      /\ effects' = [effects EXCEPT ![i] = @ + 1]
      /\ admission' = Released(h) /\ StepTo(h, "answer", "positive")
      /\ UNCHANGED <<bindings, turns, steers, settings, up, liveConfig, spawned, told>>
  BY DEF ProcessMetadata, Applying, Effect
<1>3. /\ i \in Ids /\ call[h].payload \in Payloads /\ owner[i] = call[h].who
      /\ call[h].who \in Principals
      /\ reserved[i] = call[h].payload /\ effects[i] = 0 /\ i \notin spawned
  BY <1>2, FirstRow
<1>4. receipt[i] = "absent" /\ turns[i] = Null /\ steers[i] = Null
  BY <1>2 DEF HasReceipt
<1>5. HandlingTyped' /\ Moves(h, "answer", "positive")
  BY <1>1, <1>2, GotoMoves DEF Steps, Says
<1>6. DurableTyped' /\ VolatileTyped'
  BY <1>1, <1>2, <1>3, ReleasedTyped DEF DurableTyped, VolatileTyped, bindings, Statuses
<1>7. LedgerGrows /\ Quiet
  BY <1>1, <1>2, <1>3, <1>4 DEF LedgerGrows, Quiet, DurableTyped, bindings, HasReceipt
<1>8. /\ receipt'[i] = "applied" /\ request'[i] = call[h].payload
      /\ turns'[i] = Null /\ steers'[i] = Null
      /\ effects'[i] = 1 /\ owner'[i] = call[h].who /\ reserved'[i] = call[h].payload
  BY <1>1, <1>2, <1>3, <1>4 DEF DurableTyped, bindings
<1>9. ASSUME NEW j \in Ids PROVE LedgerInv(j)'
  <2>1. CASE j = i
    BY <1>2, <1>3, <1>8, <2>1
    DEF LedgerInv, ReservedOK, RowsOK, EffectsOK, HasReceipt, Negative
  <2>2. CASE j # i
    <3>1. SameAt(j)
      BY <1>1, <1>2, <2>2 DEF SameAt, DurableTyped, bindings
    <3> QED
      BY <3>1, SameAtInv
  <2> QED
    BY <2>1, <2>2
<1>10. at'[h] # "free" => CallOK(h)' /\ BoundOK(h)' /\ AnswerOK(h)'
  <2> SUFFICES ASSUME at'[h] # "free" PROVE CallOK(h)' /\ BoundOK(h)' /\ AnswerOK(h)'
    OBVIOUS
  <2>1. call'[h] = call[h]
    BY <1>5 DEF Moves
  <2>2. Holds(call[h].id, "positive")'
    BY <1>3, <1>8, <2>1 DEF Holds, HasReceipt, Negative
  <2> QED
    BY <1>2, <1>5, <1>8, <2>2, AnswersAfterWriting
<1> QED
  BY <1>2, <1>5, <1>6, <1>7, <1>9, <1>10, StepInv

\* Journal::configure keeps the invariant, although it looks at one table only.
LEMMA ConfigureInv == ASSUME IInv, NEW h \in Handlers, Configure(h) PROVE IInv' /\ LedgerGrows
<1> DEFINE i == call[h].id
<1> USE NameAssumption
<1>1. HandlingTyped /\ VolatileTyped /\ DurableTyped /\ CallOK(h) /\ BoundOK(h)
  BY Typed, Durable DEF IInv, HandlerInv
<1>2. /\ at[h] = "apply" /\ KindOf[call[h].payload] = "config"
      /\ receipt[i] = "absent"
      /\ receipt' = [receipt EXCEPT ![i] = "applied"]
      /\ request' = [request EXCEPT ![i] = call[h].payload]
      /\ settings' = i
      /\ effects' = [effects EXCEPT ![i] = @ + 1]
      /\ Proceed(h, "publish")
      /\ UNCHANGED <<bindings, turns, steers, up, liveConfig, admission, spawned, told>>
  BY DEF Configure, Applying, Effect
<1>3. ~HasReceipt(i)
  <2>1. i \in Ids /\ reserved[i] = call[h].payload /\ reserved[i] # Null
    BY <1>1, <1>2 DEF CallOK, BoundOK, HasBound, Reserving
  <2>2. RowsOK(i)
    BY <2>1 DEF IInv, LedgerInv
  <2> QED
    BY <1>2, <2>1, <2>2 DEF RowsOK, HasReceipt
<1>4. /\ i \in Ids /\ call[h].payload \in Payloads /\ owner[i] = call[h].who
      /\ call[h].who \in Principals /\ call[h].op = "dispatch"
      /\ reserved[i] = call[h].payload /\ effects[i] = 0 /\ i \notin spawned
  BY <1>2, <1>3, FirstRow
<1>5. turns[i] = Null /\ steers[i] = Null
  BY <1>3 DEF HasReceipt
<1>6. HandlingTyped' /\ Moves(h, "publish", answer[h])
  BY <1>1, <1>2, ProceedMoves DEF Steps, Task
<1>7. DurableTyped' /\ VolatileTyped'
  BY <1>1, <1>2, <1>4 DEF DurableTyped, VolatileTyped, bindings, Statuses
<1>8. LedgerGrows /\ Quiet
  BY <1>1, <1>2, <1>4, <1>5 DEF LedgerGrows, Quiet, DurableTyped, bindings, HasReceipt
<1>9. /\ receipt'[i] = "applied" /\ request'[i] = call[h].payload
      /\ turns'[i] = Null /\ steers'[i] = Null
      /\ effects'[i] = 1 /\ owner'[i] = call[h].who /\ reserved'[i] = call[h].payload
  BY <1>1, <1>2, <1>4, <1>5 DEF DurableTyped, bindings
<1>10. ASSUME NEW j \in Ids PROVE LedgerInv(j)'
  <2>1. CASE j = i
    BY <1>2, <1>4, <1>9, <2>1
    DEF LedgerInv, ReservedOK, RowsOK, EffectsOK, HasReceipt, Negative
  <2>2. CASE j # i
    <3>1. SameAt(j)
      BY <1>1, <1>2, <2>2 DEF SameAt, DurableTyped, bindings
    <3> QED
      BY <3>1, SameAtInv
  <2> QED
    BY <2>1, <2>2
<1>11. at'[h] # "free" => CallOK(h)' /\ BoundOK(h)' /\ AnswerOK(h)'
  <2> SUFFICES ASSUME at'[h] # "free" PROVE CallOK(h)' /\ BoundOK(h)' /\ AnswerOK(h)'
    OBVIOUS
  <2>1. call'[h] = call[h] /\ at'[h] = "publish"
    BY <1>6 DEF Moves
  <2>2. CallOK(h)'
    BY <1>2, <1>4, <2>1 DEF CallOK
  <2>3. BoundOK(h)' /\ AnswerOK(h)'
    BY <1>9, <2>1 DEF BoundOK, AnswerOK
  <2> QED
    BY <2>2, <2>3
<1> QED
  BY <1>2, <1>6, <1>7, <1>8, <1>10, <1>11, StepInv

\* admit_control keeps the invariant: the handler is the only one that will start
\* the tool.
LEMMA AdmitControlInv == ASSUME IInv, NEW h \in Handlers, AdmitControl(h) PROVE IInv' /\ LedgerGrows
<1> DEFINE i == call[h].id
<1> USE NameAssumption
<1>1. HandlingTyped /\ VolatileTyped /\ DurableTyped /\ CallOK(h)
  BY Typed, Durable DEF IInv, HandlerInv
<1>2. /\ at[h] = "apply" /\ KindOf[call[h].payload] = "tool" /\ ~HasReceipt(i)
      /\ receipt' = [receipt EXCEPT ![i] = "accepted"]
      /\ request' = [request EXCEPT ![i] = call[h].payload]
      /\ StepTo(h, "start", "positive")
      /\ UNCHANGED <<bindings, turns, steers, settings, up, liveConfig, admission,
                     spawned, effects, told>>
  BY DEF AdmitControl, Applying
<1>3. /\ i \in Ids /\ call[h].payload \in Payloads /\ owner[i] = call[h].who
      /\ call[h].who \in Principals /\ call[h].op = "dispatch"
      /\ reserved[i] = call[h].payload /\ effects[i] = 0 /\ i \notin spawned
  BY <1>2, FirstRow
<1>4. receipt[i] = "absent" /\ turns[i] = Null /\ steers[i] = Null
  BY <1>2 DEF HasReceipt
<1>5. HandlingTyped' /\ Moves(h, "start", "positive")
  BY <1>1, <1>2, GotoMoves DEF Steps, Says
<1>6. DurableTyped' /\ VolatileTyped'
  BY <1>1, <1>2, <1>3 DEF DurableTyped, VolatileTyped, bindings, Statuses
<1>7. LedgerGrows /\ Quiet
  BY <1>1, <1>2, <1>3, <1>4 DEF LedgerGrows, Quiet, DurableTyped, bindings, HasReceipt
<1>8. /\ receipt'[i] = "accepted" /\ request'[i] = call[h].payload
      /\ turns'[i] = Null /\ steers'[i] = Null
      /\ effects'[i] = 0 /\ owner'[i] = call[h].who /\ reserved'[i] = call[h].payload
  BY <1>1, <1>2, <1>3, <1>4 DEF DurableTyped, bindings
<1>9. ASSUME NEW j \in Ids PROVE LedgerInv(j)'
  <2>1. CASE j = i
    BY <1>2, <1>3, <1>8, <2>1
    DEF LedgerInv, ReservedOK, RowsOK, EffectsOK, HasReceipt, Negative
  <2>2. CASE j # i
    <3>1. SameAt(j)
      BY <1>1, <1>2, <2>2 DEF SameAt, DurableTyped, bindings
    <3> QED
      BY <3>1, SameAtInv
  <2> QED
    BY <2>1, <2>2
<1>10. ASSUME NEW k \in Handlers PROVE HandlerInv(k)'
  \* Every other handler about to start a tool has the receipt of another identity.
  <2>1. ASSUME NEW g \in Handlers, g # h, at'[g] = "start"
        PROVE  /\ at[g] = "start" /\ call'[g] = call[g] /\ call[g].id \in Ids
               /\ call[g].id # i
               /\ receipt'[call[g].id] = "accepted" /\ effects'[call[g].id] = 0
               /\ \A f \in Handlers :
                    at[f] = "start" /\ call[f].id = call[g].id => f = g
    <3>1. at[g] = "start" /\ call'[g] = call[g]
      BY <1>5, <2>1 DEF Moves
    <3>2. StartOK(g) /\ CallOK(g)
      BY DEF IInv, HandlerInv
    <3>3. call[g].id \in Ids /\ receipt[call[g].id] = "accepted" /\ effects[call[g].id] = 0
          /\ \A f \in Handlers : at[f] = "start" /\ call[f].id = call[g].id => f = g
      BY <3>1, <3>2 DEF StartOK, CallOK
    <3> QED
      BY <1>2, <1>4, <1>7, <3>1, <3>3 DEF Quiet
  <2>2. StartOK(k)'
    <3>1. CASE k # h
      <4>1. \A g \in Handlers : at'[g] = "start" /\ call'[g].id = call'[k].id
                                 /\ at'[k] = "start" => g = k
        BY <1>5, <2>1, <3>1 DEF Moves
      <4> QED
        BY <2>1, <3>1, <4>1 DEF StartOK
    <3>2. CASE k = h
      <4>1. at'[h] = "start" => call'[h] = call[h]
        BY <1>5 DEF Moves
      <4>2. \A g \in Handlers : at'[g] = "start" /\ call'[g].id = i => g = h
        BY <2>1
      <4> QED
        BY <1>8, <3>2, <4>1, <4>2 DEF StartOK
    <3> QED
      BY <3>1, <3>2
  <2>3. CASE k # h
    <3>1. at'[k] = at[k] /\ call'[k] = call[k] /\ answer'[k] = answer[k]
      BY <1>5, <2>3 DEF Moves
    <3> QED
      BY <1>7, <2>2, <3>1, StandsStill DEF HandlerInv
  <2>4. CASE k = h /\ at'[h] # "free"
    <3>1. at'[h] = "start" /\ answer'[h] = "positive" /\ call'[h] = call[h]
      BY <1>5, <2>4 DEF Moves
    <3>2. CallOK(h)'
      BY <1>3, <3>1 DEF CallOK
    <3>3. BoundOK(h)'
      BY <1>8, <3>1 DEF BoundOK
    <3>4. Holds(call[h].id, "positive")'
      BY <1>8, <3>1 DEF Holds, HasReceipt, Negative
    <3>5. AnswerOK(h)'
      BY <1>8, <3>1, <3>4 DEF AnswerOK, Holds, HasReceipt
    <3> QED
      BY <2>2, <2>4, <3>2, <3>3, <3>5 DEF HandlerInv
  <2>5. CASE k = h /\ at'[h] = "free"
    BY <2>5 DEF HandlerInv, CallOK, BoundOK, StartOK, AnswerOK, HasBound, Reserving
  <2> QED
    BY <2>3, <2>4, <2>5
<1>11. LedgerTypeOK'
  BY <1>2, <1>5, <1>6 DEF IInv, LedgerTypeOK, DurableTyped, VolatileTyped, HandlingTyped, Says
<1>12. \A j \in Ids : ToldOK(j)'
  BY <1>2, <1>7, ToldStaysTrue
<1> QED
  BY <1>7, <1>9, <1>10, <1>11, <1>12 DEF IInv

\* Another handler about to start a tool works on another identity.
LEMMA OtherStarters ==
  ASSUME IInv, NEW i \in Ids, NEW k \in Handlers, at'[k] = "start",
         \A g \in Handlers : at'[g] = "start" => at[g] = "start" /\ call'[g] = call[g],
         \A j \in Ids \ {i} : receipt'[j] = receipt[j] /\ effects'[j] = effects[j],
         call[k].id # i
  PROVE  StartOK(k)'
<1>1. StartOK(k) /\ CallOK(k) /\ at[k] = "start" /\ call'[k] = call[k]
  BY DEF IInv, HandlerInv
<1>2. call[k].id \in Ids
  BY <1>1 DEF CallOK
<1> QED
  BY <1>1, <1>2 DEF StartOK

\* Starting an accepted tool keeps the invariant.
LEMMA StartToolInv == ASSUME IInv, NEW h \in Handlers, StartTool(h) PROVE IInv' /\ LedgerGrows
<1> DEFINE i == call[h].id
<1> USE NameAssumption
<1>1. /\ HandlingTyped /\ VolatileTyped /\ DurableTyped
      /\ CallOK(h) /\ BoundOK(h) /\ StartOK(h)
  BY Typed, Durable DEF IInv, HandlerInv
<1>2. /\ at[h] = "start" /\ spawned' = spawned \cup {i}
      /\ effects' = [effects EXCEPT ![i] = @ + 1]
      /\ StepTo(h, "answer", "positive")
      /\ UNCHANGED <<bindings, ledger, settings, up, liveConfig, admission, told>>
  BY DEF StartTool, Effect
<1>3. /\ i \in Ids /\ owner[i] = call[h].who /\ call[h].who \in Principals
      /\ receipt[i] = "accepted" /\ effects[i] = 0
      /\ \A k \in Handlers : at[k] = "start" /\ call[k].id = i => k = h
  BY <1>1, <1>2 DEF CallOK, BoundOK, StartOK, HasBound, Reserving
<1>4. HandlingTyped' /\ Moves(h, "answer", "positive")
  BY <1>1, <1>2, GotoMoves DEF Steps, Says
<1>5. DurableTyped' /\ VolatileTyped'
  BY <1>1, <1>2, <1>3 DEF DurableTyped, VolatileTyped, bindings, ledger
<1>6. LedgerGrows
  BY <1>2 DEF LedgerGrows, bindings, ledger
<1>7. effects'[i] = 1 /\ receipt'[i] = "accepted"
      /\ \A j \in Ids \ {i} : receipt'[j] = receipt[j] /\ effects'[j] = effects[j]
  BY <1>1, <1>2, <1>3 DEF DurableTyped, ledger
<1>8. ASSUME NEW j \in Ids PROVE LedgerInv(j)'
  <2>1. CASE j = i
    <3>1. LedgerInv(i)
      BY <1>3 DEF IInv
    <3> QED
      BY <1>2, <1>3, <1>7, <2>1, <3>1
      DEF LedgerInv, ReservedOK, RowsOK, EffectsOK, HasReceipt, Negative, bindings, ledger
  <2>2. CASE j # i
    <3>1. SameAt(j)
      BY <1>1, <1>2, <2>2 DEF SameAt, DurableTyped, bindings, ledger
    <3> QED
      BY <3>1, SameAtInv
  <2> QED
    BY <2>1, <2>2
<1>9. ASSUME NEW k \in Handlers PROVE HandlerInv(k)'
  <2>1. \A g \in Handlers : at'[g] = "start" =>
          g # h /\ at[g] = "start" /\ call'[g] = call[g]
    BY <1>4 DEF Moves
  <2>2. StartOK(k)'
    <3> SUFFICES ASSUME at'[k] = "start" PROVE StartOK(k)'
      BY DEF StartOK
    <3>1. call[k].id # i
      BY <1>3, <2>1
    <3> QED
      BY <1>3, <1>7, <2>1, <3>1, OtherStarters
  <2>3. CASE k # h
    <3>1. at'[k] = at[k] /\ call'[k] = call[k] /\ answer'[k] = answer[k]
      BY <1>4, <2>3 DEF Moves
    <3> QED
      BY <1>6, <2>2, <3>1, StandsStill DEF HandlerInv
  <2>4. CASE k = h /\ at'[h] # "free"
    <3>1. call'[h] = call[h]
      BY <1>4, <2>4 DEF Moves
    <3>2. Holds(call[h].id, "positive")'
      BY <1>7, <3>1 DEF Holds, HasReceipt, Negative
    <3>3. owner'[i] = call[h].who
      BY <1>2, <1>3 DEF bindings
    <3> QED
      BY <1>2, <1>4, <2>2, <2>4, <3>2, <3>3, AnswersAfterWriting DEF HandlerInv
  <2>5. CASE k = h /\ at'[h] = "free"
    BY <2>5 DEF HandlerInv, CallOK, BoundOK, StartOK, AnswerOK, HasBound, Reserving
  <2> QED
    BY <2>3, <2>4, <2>5
<1>10. LedgerTypeOK'
  BY <1>2, <1>4, <1>5 DEF IInv, LedgerTypeOK, DurableTyped, VolatileTyped, HandlingTyped, Says
<1>11. \A j \in Ids : ToldOK(j)'
  BY <1>2, <1>6, ToldStaysTrue
<1> QED
  BY <1>6, <1>8, <1>9, <1>10, <1>11 DEF IInv

\* complete_control keeps the invariant.
LEMMA CompleteControlInv == ASSUME IInv, NEW i \in Ids, CompleteControl(i) PROVE IInv' /\ LedgerGrows
<1>1. HandlingTyped /\ VolatileTyped /\ DurableTyped /\ LedgerInv(i)
  BY Typed, Durable DEF IInv
<1>2. /\ i \in spawned /\ spawned' = spawned \ {i}
      /\ \/ receipt' = [receipt EXCEPT ![i] = "finished"]
         \/ receipt' = receipt
      /\ UNCHANGED <<bindings, request, turns, steers, settings, up, liveConfig,
                     admission, handling, effects, told>>
  BY DEF CompleteControl
<1>3. effects[i] = 1 /\ receipt[i] = "accepted"
  BY <1>1, <1>2 DEF LedgerInv, EffectsOK
<1>4. receipt'[i] \in {"accepted", "finished"}
      /\ \A j \in Ids \ {i} : receipt'[j] = receipt[j] /\ effects'[j] = effects[j]
  BY <1>1, <1>2, <1>3 DEF DurableTyped
<1>5. DurableTyped'
  BY <1>1, <1>2 DEF DurableTyped, Statuses, bindings
<1>6. HandlingTyped' /\ VolatileTyped'
  BY <1>1, <1>2 DEF HandlingTyped, VolatileTyped, handling
<1>7. LedgerGrows
  BY <1>2, <1>3, <1>4 DEF LedgerGrows, bindings
<1>8. ASSUME NEW j \in Ids PROVE LedgerInv(j)'
  <2>1. CASE j = i
    BY <1>1, <1>2, <1>3, <1>4, <2>1
    DEF LedgerInv, ReservedOK, RowsOK, EffectsOK, HasReceipt, Negative, bindings
  <2>2. CASE j # i
    <3>1. SameAt(j)
      BY <1>2, <1>4, <2>2 DEF SameAt, bindings
    <3> QED
      BY <3>1, SameAtInv
  <2> QED
    BY <2>1, <2>2
<1>9. ASSUME NEW k \in Handlers PROVE HandlerInv(k)'
  <2>1. at' = at /\ call' = call /\ answer' = answer
    BY <1>2 DEF handling
  <2>2. StartOK(k)'
    <3> SUFFICES ASSUME at'[k] = "start" PROVE StartOK(k)'
      BY DEF StartOK
    <3>1. StartOK(k)
      BY DEF IInv, HandlerInv
    <3>2. call[k].id # i
      BY <1>3, <2>1, <3>1 DEF StartOK
    <3> QED
      BY <1>4, <2>1, <3>2, OtherStarters
  <2> QED
    BY <1>7, <2>1, <2>2, StandsStill DEF HandlerInv
<1>10. LedgerTypeOK'
  BY <1>2, <1>5, <1>6 DEF IInv, LedgerTypeOK, DurableTyped, VolatileTyped, HandlingTyped, Says
<1>11. \A j \in Ids : ToldOK(j)'
  BY <1>2, <1>7, ToldStaysTrue
<1> QED
  BY <1>7, <1>8, <1>9, <1>10, <1>11 DEF IInv

\* An identity without a row is closed.
LEMMA TombstoneInv ==
  ASSUME IInv, NEW i \in Ids, ~HasReceipt(i), NEW verdict \in Negative,
         NEW p \in Principals, NEW q \in Payloads \cup {Null}, Reserve(i, p, q),
         receipt' = [receipt EXCEPT ![i] = verdict],
         request' = [request EXCEPT ![i] = reserved'[i]],
         UNCHANGED <<turns, steers, effects, spawned>>
  PROVE  /\ LedgerGrows /\ Quiet
         /\ \A j \in Ids : LedgerInv(j)'
         /\ owner' \in [Ids -> Principals \cup {Nobody}]
         /\ reserved' \in [Ids -> Payloads \cup {Null}]
         /\ receipt' \in [Ids -> Statuses]
         /\ request' \in [Ids -> Payloads \cup {Null}]
         /\ receipt'[i] = verdict
         /\ owner'[i] = IF owner[i] = Nobody THEN p ELSE owner[i]
<1> USE NameAssumption
<1>1. DurableTyped /\ LedgerInv(i)
  BY Durable DEF IInv
<1>2. receipt[i] = "absent" /\ turns[i] = Null /\ steers[i] = Null /\ effects[i] = 0
      /\ i \notin spawned
  BY <1>1 DEF HasReceipt, LedgerInv, EffectsOK
<1>3. /\ owner' \in [Ids -> Principals \cup {Nobody}]
      /\ reserved' \in [Ids -> Payloads \cup {Null}]
      /\ owner'[i] = IF owner[i] = Nobody THEN p ELSE owner[i]
      /\ owner[i] # Nobody => reserved'[i] = reserved[i]
      /\ \A j \in Ids \ {i} : owner'[j] = owner[j] /\ reserved'[j] = reserved[j]
  BY <1>1 DEF Reserve, bindings, DurableTyped
<1>4. receipt' \in [Ids -> Statuses] /\ request' \in [Ids -> Payloads \cup {Null}]
      /\ receipt'[i] = verdict /\ request'[i] = reserved'[i]
      /\ \A j \in Ids \ {i} : receipt'[j] = receipt[j] /\ request'[j] = request[j]
  BY <1>1, <1>3 DEF DurableTyped, Statuses
<1>5. LedgerGrows /\ Quiet
  BY <1>2, <1>3, <1>4 DEF LedgerGrows, Quiet, HasReceipt
<1>6. ASSUME NEW j \in Ids PROVE LedgerInv(j)'
  <2>1. CASE j = i
    BY <1>2, <1>3, <1>4, <2>1
    DEF LedgerInv, ReservedOK, RowsOK, EffectsOK, HasReceipt, Negative
  <2>2. CASE j # i
    <3>1. SameAt(j)
      BY <1>3, <1>4, <2>2 DEF SameAt
    <3> QED
      BY <3>1, SameAtInv
  <2> QED
    BY <2>1, <2>2
<1> QED
  BY <1>3, <1>4, <1>5, <1>6

\* reject_unadmitted keeps the invariant.
LEMMA RejectUnadmittedInv ==
  ASSUME IInv, NEW h \in Handlers, RejectUnadmitted(h) PROVE IInv' /\ LedgerGrows
<1> DEFINE i == call[h].id
<1> USE NameAssumption
<1>1. HandlingTyped /\ VolatileTyped /\ DurableTyped
  BY Typed, Durable DEF IInv
<1>2. /\ at[h] = "reject"
      /\ UNCHANGED <<bindings, turns, steers, settings, up, liveConfig, admission,
                     spawned, effects, told>>
  BY DEF RejectUnadmitted
<1>3. VolatileTyped'
  BY <1>1, <1>2 DEF VolatileTyped
<1>4. CASE StepTo(h, "answer", "unknown") /\ UNCHANGED <<receipt, request>>
  <2>1. HandlingTyped' /\ Moves(h, "answer", "unknown")
    BY <1>1, <1>4, GotoMoves DEF Steps, Says
  <2>2. UNCHANGED ledger
    BY <1>2, <1>4 DEF ledger
  <2>3. at'[h] # "free" => CallOK(h)' /\ BoundOK(h)' /\ AnswerOK(h)'
    BY <1>2, <2>1, <2>2, ReceiptIsTrue, CarriesOver DEF Reserving
  <2> QED
    BY <1>2, <1>3, <2>1, <2>2, <2>3, LedgerQuietStep
<1>5. CASE /\ ~HasReceipt(i)
           /\ receipt' = [receipt EXCEPT ![i] = "rejected"]
           /\ request' = [request EXCEPT ![i] = reserved[i]]
           /\ StepTo(h, "answer", "negative")
  <2>1. /\ i \in Ids /\ call[h].who \in Principals /\ owner[i] = call[h].who
        /\ call[h].payload \in Payloads
    BY <1>2, <1>5, FirstRow
  <2>2. /\ Reserve(i, call[h].who, call[h].payload)
        /\ request' = [request EXCEPT ![i] = reserved'[i]]
    BY <1>2, <1>5, <2>1 DEF Reserve, bindings
  <2>3. /\ LedgerGrows /\ Quiet
        /\ \A j \in Ids : LedgerInv(j)'
        /\ receipt' \in [Ids -> Statuses]
        /\ request' \in [Ids -> Payloads \cup {Null}]
        /\ receipt'[i] = "rejected" /\ owner'[i] = call[h].who
    <3>1. "rejected" \in Negative
      BY DEF Negative
    <3> HIDE DEF i
    <3> QED
      BY <1>2, <1>5, <2>1, <2>2, <3>1, TombstoneInv
  <2>4. HandlingTyped' /\ Moves(h, "answer", "negative")
    BY <1>1, <1>5, GotoMoves DEF Steps, Says
  <2>5. DurableTyped'
    BY <1>1, <1>2, <2>3 DEF DurableTyped, bindings
  <2>6. at'[h] # "free" => CallOK(h)' /\ BoundOK(h)' /\ AnswerOK(h)'
    <3> SUFFICES ASSUME at'[h] # "free" PROVE CallOK(h)' /\ BoundOK(h)' /\ AnswerOK(h)'
      OBVIOUS
    <3>1. call'[h] = call[h]
      BY <2>4 DEF Moves
    <3>2. Holds(call[h].id, "negative")'
      BY <2>3, <3>1 DEF Holds, Negative
    <3> QED
      BY <1>2, <2>3, <2>4, <3>2, AnswersAfterWriting
  <2> QED
    BY <1>2, <1>3, <2>3, <2>4, <2>5, <2>6, StepInv
<1> QED
  BY <1>4, <1>5 DEF RejectUnadmitted

ResolvedAnswer(i) == IF HasReceipt(i) THEN ProcessReceipt(i) ELSE "negative"

\* A resolution ends with the sender's reservation and a row.
LEMMA ResolvedInv ==
  ASSUME IInv, NEW i \in Ids, NEW p \in Principals, NEW q \in Payloads \cup {Null},
         Resolved(i, p, q), UNCHANGED <<turns, steers, effects, spawned>>
  PROVE  /\ LedgerGrows /\ Quiet
         /\ \A j \in Ids : LedgerInv(j)'
         /\ owner' \in [Ids -> Principals \cup {Nobody}]
         /\ reserved' \in [Ids -> Payloads \cup {Null}]
         /\ receipt' \in [Ids -> Statuses]
         /\ request' \in [Ids -> Payloads \cup {Null}]
         /\ owner'[i] = p
         /\ ResolvedAnswer(i) = "negative" => receipt'[i] \in Negative
         /\ ResolvedAnswer(i) = "positive" =>
              receipt'[i] \notin Negative
              /\ (receipt'[i] # "absent" \/ turns'[i] # Null \/ steers'[i] # Null)
         /\ ResolvedAnswer(i) \in {"positive", "negative"}
<1> USE NameAssumption
<1>1. DurableTyped /\ LedgerInv(i)
  BY Durable DEF IInv
<1>2. CASE HasReceipt(i)
  <2>1. owner[i] = p
    BY <1>1, <1>2 DEF LedgerInv, ReservedOK, Resolved
  <2>2. UNCHANGED bindings /\ UNCHANGED <<receipt, request>>
    BY <1>2, <2>1 DEF Resolved, Reserve
  <2>3. LedgerGrows /\ Quiet /\ \A j \in Ids : LedgerInv(j)'
    BY <2>2, SameLedger DEF ledger
  <2>4. ResolvedAnswer(i) \in {"positive", "negative"} /\ Holds(i, ResolvedAnswer(i))
    BY <1>2, ReceiptIsTrue DEF ResolvedAnswer, ProcessReceipt
  <2>5. /\ ResolvedAnswer(i) = "negative" => receipt[i] \in Negative
        /\ ResolvedAnswer(i) = "positive" => receipt[i] \notin Negative
    BY <2>4 DEF Holds
  <2> QED
    BY <1>1, <1>2, <2>1, <2>2, <2>3, <2>4, <2>5 DEF DurableTyped, bindings, HasReceipt
<1>3. CASE ~HasReceipt(i)
  <2>1. /\ Reserve(i, p, q)
        /\ owner[i] # Nobody => owner[i] = p
        /\ receipt' = [receipt EXCEPT ![i] = "not_admitted"]
        /\ request' = [request EXCEPT ![i] = reserved'[i]]
    BY <1>3 DEF Resolved
  <2>2. "not_admitted" \in Negative /\ ResolvedAnswer(i) = "negative"
    BY <1>3 DEF Negative, ResolvedAnswer
  <2>3. /\ LedgerGrows /\ Quiet
        /\ \A j \in Ids : LedgerInv(j)'
        /\ owner' \in [Ids -> Principals \cup {Nobody}]
        /\ reserved' \in [Ids -> Payloads \cup {Null}]
        /\ receipt' \in [Ids -> Statuses]
        /\ request' \in [Ids -> Payloads \cup {Null}]
        /\ receipt'[i] = "not_admitted"
        /\ owner'[i] = IF owner[i] = Nobody THEN p ELSE owner[i]
    BY <1>3, <2>1, <2>2, TombstoneInv
  <2> QED
    BY <2>1, <2>2, <2>3
<1> QED
  BY <1>2, <1>3

\* resolve_process_command keeps the invariant.
LEMMA ResolveProcessCommandInv ==
  ASSUME IInv, NEW h \in Handlers, ResolveProcessCommand(h) PROVE IInv' /\ LedgerGrows
<1> DEFINE c == call[h]
           says == ResolvedAnswer(c.id)
<1>1. HandlingTyped /\ VolatileTyped /\ DurableTyped /\ CallOK(h)
  BY Typed, Durable DEF IInv, HandlerInv
<1>2. /\ at[h] = "resolve" /\ Resolved(c.id, c.who, c.payload)
      /\ StepTo(h, "answer", says)
      /\ UNCHANGED <<turns, steers, settings, up, liveConfig, admission, spawned,
                     effects, told>>
  BY DEF ResolveProcessCommand, ResolvedAnswer
<1>3. c.id \in Ids /\ c.who \in Principals /\ c.payload \in Payloads \cup {Null}
  BY <1>1, <1>2 DEF CallOK, HandlingTyped, CallRecords
<1>4. /\ LedgerGrows /\ Quiet
      /\ \A j \in Ids : LedgerInv(j)'
      /\ owner' \in [Ids -> Principals \cup {Nobody}]
      /\ reserved' \in [Ids -> Payloads \cup {Null}]
      /\ receipt' \in [Ids -> Statuses]
      /\ request' \in [Ids -> Payloads \cup {Null}]
      /\ owner'[c.id] = c.who
      /\ says = "negative" => receipt'[c.id] \in Negative
      /\ says = "positive" =>
           receipt'[c.id] \notin Negative
           /\ (receipt'[c.id] # "absent" \/ turns'[c.id] # Null \/ steers'[c.id] # Null)
      /\ says \in {"positive", "negative"}
  <2> HIDE DEF c
  <2> QED
    BY <1>2, <1>3, ResolvedInv
<1> HIDE DEF says
<1>5. HandlingTyped' /\ Moves(h, "answer", says)
  BY <1>1, <1>2, <1>4, GotoMoves DEF Steps, Says
<1>6. DurableTyped' /\ VolatileTyped'
  BY <1>1, <1>2, <1>4 DEF DurableTyped, VolatileTyped
<1>7. at'[h] # "free" => CallOK(h)' /\ BoundOK(h)' /\ AnswerOK(h)'
  <2> SUFFICES ASSUME at'[h] # "free" PROVE CallOK(h)' /\ BoundOK(h)' /\ AnswerOK(h)'
    OBVIOUS
  <2>1. at'[h] = "answer" /\ call'[h] = c /\ answer'[h] = says
    BY <1>5 DEF Moves
  <2>2. CallOK(h)'
    BY <1>1, <1>2, <2>1 DEF CallOK, Reserving
  <2>3. BoundOK(h)'
    BY <2>1 DEF BoundOK, HasBound, Reserving
  <2>4. AnswerOK(h)'
    BY <1>4, <2>1 DEF AnswerOK, Holds, HasReceipt
  <2> QED
    BY <2>2, <2>3, <2>4
<1> QED
  BY <1>2, <1>4, <1>5, <1>6, <1>7, StepInv

\* A resolution by an observer of a stopped session keeps the invariant.
LEMMA ObserverResolvesInv ==
  ASSUME IInv, NEW i \in Ids, NEW p \in Principals, NEW q \in Payloads \cup {Null},
         ObserverResolves(i, p, q)
  PROVE  IInv' /\ LedgerGrows
<1>1. HandlingTyped /\ VolatileTyped /\ DurableTyped /\ LedgerTypeOK
  BY Typed, Durable DEF IInv
<1>2. /\ Resolved(i, p, q)
      /\ told' = [told EXCEPT ![i] = @ \cup {ResolvedAnswer(i)}]
      /\ UNCHANGED <<turns, steers, settings, up, liveConfig, admission, spawned,
                     handling, effects>>
  BY DEF ObserverResolves, ResolvedAnswer
<1>3. /\ LedgerGrows /\ Quiet
      /\ \A j \in Ids : LedgerInv(j)'
      /\ owner' \in [Ids -> Principals \cup {Nobody}]
      /\ reserved' \in [Ids -> Payloads \cup {Null}]
      /\ receipt' \in [Ids -> Statuses]
      /\ request' \in [Ids -> Payloads \cup {Null}]
      /\ ResolvedAnswer(i) = "negative" => receipt'[i] \in Negative
      /\ ResolvedAnswer(i) = "positive" =>
           receipt'[i] \notin Negative
           /\ (receipt'[i] # "absent" \/ turns'[i] # Null \/ steers'[i] # Null)
      /\ ResolvedAnswer(i) \in {"positive", "negative"}
  BY <1>2, ResolvedInv
<1>4. at' = at /\ call' = call /\ answer' = answer /\ attached' = attached
  BY <1>2 DEF handling
<1>5. LedgerTypeOK'
  <2>1. told' \in [Ids -> SUBSET {"positive", "negative"}]
    BY <1>1, <1>2, <1>3 DEF LedgerTypeOK
  <2> QED
    BY <1>1, <1>2, <1>3, <1>4, <2>1 DEF LedgerTypeOK
<1>6. ASSUME NEW k \in Handlers PROVE HandlerInv(k)'
  <2>1. StartOK(k)'
    BY <1>3, <1>4, StillStarting
  <2> QED
    BY <1>3, <1>4, <2>1, StandsStill DEF HandlerInv
<1>7. ASSUME NEW j \in Ids, NEW says \in told'[j] PROVE Holds(j, says)'
  <2>1. CASE says \in told[j]
    <3>1. Holds(j, says)
      BY <2>1 DEF IInv, ToldOK
    <3> QED
      BY <1>3, <3>1 DEF LedgerGrows, Holds, HasReceipt, Negative
  <2>2. CASE says \notin told[j]
    <3>1. j = i /\ says = ResolvedAnswer(i)
      BY <1>1, <1>2, <2>2 DEF LedgerTypeOK
    <3> QED
      BY <1>3, <3>1 DEF Holds, HasReceipt
  <2> QED
    BY <2>1, <2>2
<1> QED
  BY <1>3, <1>5, <1>6, <1>7 DEF IInv, ToldOK

-----------------------------------------------------------------------------
(* The theorems.                                                           *)

\* An older journal, attributed by initialize_command_bindings, satisfies the
\* invariant.
LEMMA InitInv == ASSUME LedgerInit PROVE IInv
<1> USE NameAssumption
<1>1. LedgerTypeOK
  <2>1. /\ owner \in [Ids -> Principals \cup {Nobody}]
        /\ reserved \in [Ids -> Payloads \cup {Null}]
        /\ request \in [Ids -> Payloads \cup {Null}]
        /\ turns \in [Ids -> Payloads \cup {Null}]
        /\ steers \in [Ids -> Payloads \cup {Null}]
    BY DEF LedgerInit, Of
  <2>2. receipt \in [Ids -> Statuses] /\ effects \in [Ids -> Nat]
    BY DEF LedgerInit, Statuses
  <2>3. /\ settings \in Ids \cup {Nobody} /\ liveConfig \in Ids \cup {Nobody}
        /\ admission \in Handlers \cup {Nobody} /\ spawned \in SUBSET Ids
        /\ at \in [Handlers -> Steps]
        /\ answer \in [Handlers -> {"unknown", "positive", "negative"}]
        /\ told \in [Ids -> SUBSET {"positive", "negative"}]
    BY DEF LedgerInit, Steps
  <2>4. call \in [Handlers -> CallRecords]
    BY NoCallIsACall DEF LedgerInit
  <2>5. up \in BOOLEAN /\ attached \in [Handlers -> BOOLEAN]
    BY DEF LedgerInit
  <2> QED
    BY <2>1, <2>2, <2>3, <2>4, <2>5 DEF LedgerTypeOK
<1>2. ASSUME NEW h \in Handlers PROVE HandlerInv(h)
  BY DEF LedgerInit, HandlerInv, CallOK, BoundOK, StartOK, AnswerOK, HasBound, Reserving
<1>3. ASSUME NEW i \in Ids PROVE LedgerInv(i) /\ ToldOK(i)
  <2>1. /\ receipt[i] \in {"absent", "applied"}
        /\ request[i] \in Of("meta") \cup {Null}
        /\ turns[i] \in Of("turn") \cup {Null}
        /\ steers[i] \in Of("steer") \cup {Null}
        /\ (receipt[i] = "applied") <=> (request[i] # Null)
        /\ turns[i] # Null => request[i] = Null /\ steers[i] = Null
        /\ steers[i] # Null => request[i] = Null
        /\ owner[i] = IF request[i] = Null /\ turns[i] = Null /\ steers[i] = Null
                      THEN Nobody ELSE Owner
        /\ reserved[i] = request[i] /\ spawned = {} /\ told[i] = {}
        /\ effects[i] = IF receipt[i] # "absent" \/ turns[i] # Null \/ steers[i] # Null
                        THEN 1 ELSE 0
    BY DEF LedgerInit
  <2>2. ReservedOK(i)
    BY <2>1 DEF ReservedOK, HasReceipt
  <2>3. RowsOK(i)
    BY <2>1 DEF RowsOK, Of
  <2>4. EffectsOK(i)
    BY <2>1 DEF EffectsOK, HasReceipt, Negative
  <2> QED
    BY <2>1, <2>2, <2>3, <2>4 DEF LedgerInv, ToldOK
<1> QED
  BY <1>1, <1>2, <1>3 DEF IInv

\* So does a step that changes nothing.
LEMMA StutterInv == ASSUME IInv, UNCHANGED ledgerVars PROVE IInv' /\ LedgerGrows
<1>1. UNCHANGED <<bindings, ledger, settings, up, liveConfig, admission, spawned, handling,
                  effects, told>>
  BY DEF ledgerVars
<1>2. /\ at' = at /\ call' = call /\ answer' = answer /\ attached' = attached
      /\ owner' = owner /\ reserved' = reserved /\ receipt' = receipt
      /\ request' = request /\ turns' = turns /\ steers' = steers
  BY <1>1 DEF bindings, ledger, handling
<1>3. LedgerTypeOK'
  BY <1>1, <1>2 DEF IInv, LedgerTypeOK
<1>4. LedgerGrows /\ Quiet /\ \A i \in Ids : LedgerInv(i)'
  BY <1>1, SameLedger
<1>5. ASSUME NEW k \in Handlers PROVE HandlerInv(k)'
  <2>1. StartOK(k)'
    BY <1>2, <1>4, StillStarting
  <2> QED
    BY <1>2, <1>4, <2>1, StandsStill DEF HandlerInv
<1>6. \A i \in Ids : ToldOK(i)'
  BY <1>1, <1>4, ToldStaysTrue
<1> QED
  BY <1>3, <1>4, <1>5, <1>6 DEF IInv

\* Every step keeps the invariant and takes nothing durable back.
LEMMA NextInv == ASSUME IInv, [LedgerNext]_ledgerVars PROVE IInv' /\ LedgerGrows
<1>1. ASSUME NEW h \in Handlers, NEW c \in Requests, Deliver(h, c) PROVE IInv' /\ LedgerGrows
  BY <1>1, DeliverInv
<1>2. ASSUME NEW h \in Handlers, HandlerStep(h) PROVE IInv' /\ LedgerGrows
  <2>1. CASE PassGate(h) \/ BindProcessCommand(h) \/ CheckReceipt(h)
    BY <2>1, PassGateInv, BindProcessCommandInv, CheckReceiptInv
  <2>2. CASE TakeAdmission(h) \/ Recheck(h)
    BY <2>2, TakeAdmissionInv, RecheckInv
  <2>3. CASE ApplyTurn(h) \/ ApplySteering(h) \/ ProcessMetadata(h)
    BY <2>3, AdmitTurnInv, QueueSteeringInv, ProcessMetadataInv
  <2>4. CASE AdmitControl(h) \/ StartTool(h)
    BY <2>4, AdmitControlInv, StartToolInv
  <2>5. CASE Configure(h) \/ ConfigureAgain(h) \/ Publish(h)
    BY <2>5, ConfigureInv, ConfigureAgainInv, PublishInv
  <2>6. CASE ExactRetry(h) \/ Refused(h) \/ RejectUnadmitted(h)
    BY <2>6, ExactRetryInv, RefusedInv, RejectUnadmittedInv
  <2>7. CASE ResolveProcessCommand(h) \/ ResolveHalfway(h) \/ JobFails(h)
    BY <2>7, ResolveProcessCommandInv, ResolveHalfwayInv, JobFailsInv
  <2>8. CASE Respond(h)
    BY <2>8, RespondInv
  <2> QED
    BY <1>2, <2>1, <2>2, <2>3, <2>4, <2>5, <2>6, <2>7, <2>8 DEF HandlerStep
<1>3. ASSUME NEW h \in Handlers, Dropped(h) PROVE IInv' /\ LedgerGrows
  BY <1>3, DroppedInv
<1>4. ASSUME NEW i \in Ids, CompleteControl(i) PROVE IInv' /\ LedgerGrows
  BY <1>4, CompleteControlInv
<1>5. CASE Exit \/ Start
  BY <1>5, ExitInv, StartInv
<1>6. ASSUME NEW i \in Ids, NEW p \in Principals, NEW q \in Payloads \cup {Null},
             ObserverResolves(i, p, q)
      PROVE  IInv' /\ LedgerGrows
  BY <1>6, ObserverResolvesInv
<1>7. CASE UNCHANGED ledgerVars
  BY <1>7, StutterInv
<1> QED
  BY <1>1, <1>2, <1>3, <1>4, <1>5, <1>6, <1>7 DEF LedgerNext

\* The inductive invariant holds in every reachable state.
THEOREM LedgerInvariant == LedgerSpec => []IInv
<1>1. LedgerInit => IInv
  BY InitInv
<1>2. IInv /\ [LedgerNext]_ledgerVars => IInv'
  BY NextInv
<1> QED
  BY <1>1, <1>2, PTL DEF LedgerSpec

\* Every reachable state of the ledger and of its handlers is well typed.
THEOREM LedgerTypeCorrect == LedgerSpec => []LedgerTypeOK
<1>1. IInv => LedgerTypeOK
  BY DEF IInv
<1> QED
  BY <1>1, LedgerInvariant, PTL

\* Answers given by resolve_process_command, reject_unadmitted and the receipts
\* of admissions are never contradicted by what happens later.
THEOREM AnswersAreKept == LedgerSpec => []AnswersStayTrue
<1>1. IInv => AnswersStayTrue
  <2> SUFFICES ASSUME IInv, NEW i \in Ids
               PROVE  /\ "negative" \in told[i] => receipt[i] \in Negative /\ effects[i] = 0
                      /\ "positive" \in told[i] => HasReceipt(i) /\ receipt[i] \notin Negative
    BY DEF AnswersStayTrue
  <2>1. \A says \in told[i] : Holds(i, says)
    BY DEF IInv, ToldOK
  <2>2. EffectsOK(i)
    BY DEF IInv, LedgerInv
  <2> QED
    BY <2>1, <2>2 DEF Holds, EffectsOK
<1> QED
  BY <1>1, LedgerInvariant, PTL

\* bind_process_command gives an identity one meaning for good.
THEOREM IdentitiesHaveOneMeaning == LedgerSpec => []OneMeaning
<1>1. IInv => OneMeaning
  <2> SUFFICES ASSUME IInv, NEW i \in Ids
               PROVE  LET rows == {q \in {turns[i], steers[i]} : q # Null}
                                    \cup (IF receipt[i] = "absent" THEN {} ELSE {request[i]})
                      IN /\ \A q, r \in rows : q = r
                         /\ receipt[i] # "absent" => turns[i] = Null /\ steers[i] = Null
                         /\ reserved[i] # Null => rows \subseteq {reserved[i]}
                         /\ rows # {} => owner[i] # Nobody
    BY DEF OneMeaning
  <2>1. RowsOK(i) /\ ReservedOK(i)
    BY DEF IInv, LedgerInv
  <2> QED
    BY <2>1 DEF RowsOK, ReservedOK, HasReceipt
<1> QED
  BY <1>1, LedgerInvariant, PTL

\* A definite answer is only given to the principal the identity belongs to.
THEOREM OwnersAreAnswered == LedgerSpec => []AnswersGoToTheOwner
<1>1. IInv => AnswersGoToTheOwner
  BY DEF IInv, HandlerInv, AnswerOK, AnswersGoToTheOwner
<1> QED
  BY <1>1, LedgerInvariant, PTL

\* No step rewrites a reservation, a row or a final receipt.
THEOREM NothingIsRewritten == LedgerSpec => LedgerIsAppendOnly
<1>1. IInv /\ [LedgerNext]_ledgerVars =>
        [\A i \in Ids :
           /\ owner[i] # Nobody => owner'[i] = owner[i] /\ reserved'[i] = reserved[i]
           /\ receipt[i] # "absent" =>
                /\ request'[i] = request[i]
                /\ \/ receipt'[i] = receipt[i]
                   \/ receipt[i] = "accepted" /\ receipt'[i] = "finished"
           /\ turns[i] # Null => turns'[i] = turns[i]
           /\ steers[i] # Null => steers'[i] = steers[i]]_ledgerVars
  BY NextInv DEF LedgerGrows
<1> QED
  BY <1>1, LedgerInvariant, PTL DEF LedgerSpec, LedgerIsAppendOnly

-----------------------------------------------------------------------------
(* The ledger implements CommandFate.                                      *)

\* A step decides about one identity only, and undoes no effect.
Local(i) ==
  /\ effects'[i] >= effects[i]
  /\ \A j \in Ids \ {i} :
       /\ receipt'[j] = receipt[j] /\ effects'[j] = effects[j]
       /\ turns'[j] = turns[j] /\ steers'[j] = steers[j]

\* No step of the ledger decides about two identities.
LEMMA OneIdentity ==
  ASSUME IInv, [LedgerNext]_ledgerVars
  PROVE  UNCHANGED <<ledger, effects>> \/ \E i \in Ids : Local(i)
<1> DEFINE Goal == UNCHANGED <<ledger, effects>> \/ \E i \in Ids : Local(i)
<1>1. DurableTyped
  BY Durable DEF IInv
<1>2. ASSUME NEW h \in Handlers, HandlerStep(h) PROVE Goal
  <2>1. CallOK(h)
    BY DEF IInv, HandlerInv
  <2>2. CASE \/ PassGate(h) \/ BindProcessCommand(h) \/ CheckReceipt(h)
             \/ TakeAdmission(h) \/ Recheck(h) \/ ConfigureAgain(h) \/ Publish(h)
             \/ ExactRetry(h) \/ Refused(h) \/ ResolveHalfway(h) \/ JobFails(h)
             \/ Respond(h)
    BY <2>2 DEF PassGate, BindProcessCommand, CheckReceipt, TakeAdmission, Recheck,
                ConfigureAgain, Publish, ExactRetry, Refused, ResolveHalfway, JobFails,
                Respond
  <2>3. CASE ApplyTurn(h) \/ ApplySteering(h)
    <3>1. call[h].id \in Ids
      BY <2>1, <2>3 DEF CallOK, ApplyTurn, ApplySteering, Applying
    <3>2. Local(call[h].id)
      BY <1>1, <2>3, <3>1 DEF ApplyTurn, ApplySteering, Effect, Local, DurableTyped
    <3> QED
      BY <3>1, <3>2
  <2>4. CASE ProcessMetadata(h) \/ Configure(h)
    <3>1. call[h].id \in Ids
      BY <2>1, <2>4 DEF CallOK, ProcessMetadata, Configure, Applying
    <3>2. Local(call[h].id)
      BY <1>1, <2>4, <3>1 DEF ProcessMetadata, Configure, Effect, Local, DurableTyped
    <3> QED
      BY <3>1, <3>2
  <2>5. CASE AdmitControl(h) \/ StartTool(h)
    <3>1. call[h].id \in Ids
      BY <2>1, <2>5 DEF CallOK, AdmitControl, StartTool, Applying
    <3>2. Local(call[h].id)
      BY <1>1, <2>5, <3>1 DEF AdmitControl, StartTool, Effect, Local, DurableTyped, ledger
    <3> QED
      BY <3>1, <3>2
  <2>6. CASE RejectUnadmitted(h)
    <3>1. call[h].id \in Ids
      BY <2>1, <2>6 DEF CallOK, RejectUnadmitted
    <3>2. Local(call[h].id)
      BY <1>1, <2>6, <3>1 DEF RejectUnadmitted, Local, DurableTyped
    <3> QED
      BY <3>1, <3>2
  <2>7. CASE ResolveProcessCommand(h)
    <3>1. call[h].id \in Ids
      BY <2>1, <2>7 DEF CallOK, ResolveProcessCommand
    <3>2. Local(call[h].id)
      BY <1>1, <2>7, <3>1 DEF ResolveProcessCommand, Resolved, Local, DurableTyped
    <3> QED
      BY <3>1, <3>2
  <2> QED
    BY <1>2, <2>2, <2>3, <2>4, <2>5, <2>6, <2>7 DEF HandlerStep
<1>3. ASSUME NEW h \in Handlers, NEW c \in Requests, Deliver(h, c) PROVE Goal
  BY <1>3 DEF Deliver
<1>4. ASSUME NEW h \in Handlers, Dropped(h) PROVE Goal
  BY <1>4 DEF Dropped
<1>5. ASSUME NEW i \in Ids, CompleteControl(i) PROVE Goal
  <2>1. Local(i)
    BY <1>1, <1>5 DEF CompleteControl, Local, DurableTyped
  <2> QED
    BY <2>1
<1>6. CASE Exit \/ Start
  BY <1>6 DEF Exit, Start
<1>7. ASSUME NEW i \in Ids, NEW p \in Principals, NEW q \in Payloads \cup {Null},
             ObserverResolves(i, p, q)
      PROVE  Goal
  <2>1. Local(i)
    BY <1>1, <1>7 DEF ObserverResolves, Resolved, Local, DurableTyped
  <2> QED
    BY <2>1
<1>8. CASE UNCHANGED ledgerVars
  BY <1>8 DEF ledgerVars
<1> QED
  BY <1>2, <1>3, <1>4, <1>5, <1>6, <1>7, <1>8 DEF LedgerNext

\* Under the invariant no identity is in the broken state.
LEMMA Fates ==
  ASSUME IInv, NEW i \in Ids
  PROVE  /\ FateOf(i) = "closed" <=> receipt[i] \in Negative
         /\ FateOf(i) = "open" <=> ~HasReceipt(i)
         /\ FateOf(i) = "admitted" <=> receipt[i] = "accepted" /\ effects[i] = 0
         /\ FateOf(i) = "performed" <=> effects[i] = 1
         /\ FateOf(i) \in {"closed", "open", "admitted", "performed"}
<1>1. RowsOK(i) /\ EffectsOK(i) /\ receipt[i] \in Statuses /\ effects[i] \in Nat
  BY DEF IInv, LedgerInv, LedgerTypeOK
<1> QED
  BY <1>1 DEF FateOf, RowsOK, EffectsOK, HasReceipt, Statuses, Negative

\* What one step may do to one identity.
LEMMA FateStep ==
  ASSUME IInv, IInv', LedgerGrows, NEW i \in Ids, effects'[i] >= effects[i]
  PROVE  \/ FateOf(i)' = FateOf(i)
         \/ FateOf(i) = "open" /\ FateOf(i)' \in {"closed", "admitted", "performed"}
         \/ FateOf(i) = "admitted" /\ FateOf(i)' = "performed"
<1>1. /\ FateOf(i) = "closed" <=> receipt[i] \in Negative
      /\ FateOf(i) = "open" <=> ~HasReceipt(i)
      /\ FateOf(i) = "admitted" <=> receipt[i] = "accepted" /\ effects[i] = 0
      /\ FateOf(i) = "performed" <=> effects[i] = 1
      /\ FateOf(i) \in {"closed", "open", "admitted", "performed"}
  BY Fates
<1>2. /\ FateOf(i)' = "closed" <=> receipt'[i] \in Negative
      /\ FateOf(i)' = "open" <=> ~(receipt'[i] # "absent" \/ turns'[i] # Null \/ steers'[i] # Null)
      /\ FateOf(i)' = "admitted" <=> receipt'[i] = "accepted" /\ effects'[i] = 0
      /\ FateOf(i)' = "performed" <=> effects'[i] = 1
      /\ FateOf(i)' \in {"closed", "open", "admitted", "performed"}
  <2>1. RowsOK(i)' /\ EffectsOK(i)' /\ receipt'[i] \in Statuses /\ effects'[i] \in Nat
    BY DEF IInv, LedgerInv, LedgerTypeOK
  <2> QED
    BY <2>1 DEF FateOf, RowsOK, EffectsOK, HasReceipt, Statuses, Negative
<1>3. EffectsOK(i)' /\ EffectsOK(i) /\ effects[i] \in Nat /\ effects'[i] \in Nat
  BY DEF IInv, LedgerInv, LedgerTypeOK
<1>4. CASE FateOf(i) = "open"
  BY <1>2, <1>4
<1>5. CASE FateOf(i) = "closed"
  BY <1>1, <1>2, <1>5 DEF LedgerGrows, Negative
<1>6. CASE FateOf(i) = "admitted"
  <2>1. receipt'[i] = "accepted" \/ receipt'[i] = "finished"
    BY <1>1, <1>6 DEF LedgerGrows
  <2> QED
    BY <1>2, <1>3, <1>6, <2>1 DEF EffectsOK
<1>7. CASE FateOf(i) = "performed"
  <2>1. effects[i] = 1 /\ HasReceipt(i) /\ receipt[i] \notin Negative
    BY <1>1, <1>3, <1>7 DEF EffectsOK
  <2>2. receipt'[i] \notin Negative /\ HasReceipt(i)'
    BY <2>1 DEF LedgerGrows, HasReceipt, Negative
  <2>3. effects'[i] # 0
    BY <1>3, <2>1
  <2> QED
    BY <1>1, <1>2, <1>3, <1>7, <2>2, <2>3 DEF HasReceipt
<1> QED
  BY <1>1, <1>4, <1>5, <1>6, <1>7

\* No interleaving of retries, resolutions, dropped handlers, restarts and
\* observers makes the runtime perform a command twice, or one it has closed.
THEOREM LedgerImplementsFate == LedgerSpec => KeepsItsPromise
<1> DEFINE fate == [i \in Ids |-> FateOf(i)]
<1>1. LedgerInit => Fate!Init
  <2> SUFFICES ASSUME LedgerInit PROVE \A i \in Ids : FateOf(i) \in {"open", "performed"}
    BY DEF Fate!Init
  <2> TAKE i \in Ids
  <2>1. /\ receipt[i] \in {"absent", "applied"}
        /\ effects[i] = IF receipt[i] # "absent" \/ turns[i] # Null \/ steers[i] # Null
                        THEN 1 ELSE 0
    BY DEF LedgerInit
  <2> QED
    BY <2>1 DEF FateOf, HasReceipt, Negative
<1>2. IInv /\ IInv' /\ [LedgerNext]_ledgerVars => [Fate!Next]_fate
  <2> SUFFICES ASSUME IInv, IInv', [LedgerNext]_ledgerVars PROVE Fate!Next \/ fate' = fate
    OBVIOUS
  <2>1. LedgerGrows
    BY NextInv
  <2>2. CASE UNCHANGED <<ledger, effects>>
    <3>1. \A i \in Ids : FateOf(i)' = FateOf(i)
      BY <2>2 DEF FateOf, HasReceipt, ledger
    <3> QED
      BY <3>1
  <2>3. ASSUME NEW i \in Ids, Local(i) PROVE Fate!Next \/ fate' = fate
    <3>1. \A j \in Ids \ {i} : FateOf(j)' = FateOf(j)
      BY <2>3 DEF Local, FateOf, HasReceipt
    <3>2. \/ FateOf(i)' = FateOf(i)
          \/ FateOf(i) = "open" /\ FateOf(i)' \in {"closed", "admitted", "performed"}
          \/ FateOf(i) = "admitted" /\ FateOf(i)' = "performed"
      BY <2>1, <2>3, FateStep DEF Local
    <3>3. CASE FateOf(i)' = FateOf(i)
      BY <3>1, <3>3
    <3>4. CASE FateOf(i) = "open" /\ FateOf(i)' \in {"closed", "admitted", "performed"}
      <4>1. fate[i] = "open" /\ fate' = [fate EXCEPT ![i] = FateOf(i)']
        BY <3>1, <3>4
      <4> QED
        BY <3>4, <4>1
        DEF Fate!Next, Fate!Close, Fate!Apply, Fate!Admit, Fate!Move
    <3>5. CASE FateOf(i) = "admitted" /\ FateOf(i)' = "performed"
      <4>1. fate[i] = "admitted" /\ fate' = [fate EXCEPT ![i] = "performed"]
        BY <3>1, <3>5
      <4> QED
        BY <4>1 DEF Fate!Next, Fate!Perform, Fate!Move
    <3> QED
      BY <3>2, <3>3, <3>4, <3>5
  <2> QED
    BY <2>2, <2>3, OneIdentity
<1> QED
  BY <1>1, <1>2, LedgerInvariant, PTL DEF LedgerSpec, KeepsItsPromise, Fate!Spec

-----------------------------------------------------------------------------
(***************************************************************************)
(* Steering, for every set of receipts, every limit and histories of any   *)
(* length.                                                                 *)
(***************************************************************************)

-----------------------------------------------------------------------------
(* The inductive invariant.                                                *)

\* Guidance the queued write proposes, as positions of the proposal.
Ahead ==
  {i \in Len(transcript) + 1..Len(proposal) : proposal[i] \in Receipts}

EndsInAnswer == transcript[Len(transcript)] = "answer"

\* Where the threads are, and which run they find there.
ControlOK ==
  /\ agent \in Executing \cup {"accepted", "incomplete"} => run = "Running"
  /\ agent = "waiting" => run = "Accepted"
  /\ agent = "writing" <=> agent \in Executing /\ writing # "none"
  /\ agent \in {"waiting", "accepted", "incomplete"} => writing = "none"
  /\ holder # NoHolder => ownerUp /\ run \in RunActive /\ status[holder] = "queued"
  /\ ~ownerUp => agent = "gone" /\ writing = "none" /\ channel = <<>>

\* What a queued write proposes extends the history it was made from.
ProposalOK ==
  /\ writing = "none" => proposal = <<>>
  /\ writing = "accept" => proposal = transcript
  /\ writing # "none" =>
       /\ Len(transcript) <= Len(proposal)
       /\ \A i \in 1..Len(transcript) : proposal[i] = transcript[i]

\* Receipts are numbered in the order of their admission.
OrdinalsOK ==
  /\ IsFiniteSet(Admitted)
  /\ \A r \in Admitted : ordinal[r] <= Cardinality(Admitted)
  /\ \A r, q \in Admitted : ordinal[r] = ordinal[q] => r = q

\* Guidance in memory is queued, and lies in admission order: proposed, in the
\* channel, being delivered.
InMemoryOK ==
  /\ run \in RunActive =>
       /\ \A i \in Ahead : status[proposal[i]] = "queued"
       /\ \A j \in 1..Len(channel) : status[channel[j]] = "queued"
  /\ \A i, j \in Ahead : i < j => ordinal[proposal[i]] < ordinal[proposal[j]]
  /\ \A i, j \in 1..Len(channel) : i < j => ordinal[channel[i]] < ordinal[channel[j]]
  /\ \A i \in Ahead : \A j \in 1..Len(channel) :
       ordinal[proposal[i]] < ordinal[channel[j]]
  /\ holder # NoHolder =>
       /\ \A i \in Ahead : ordinal[proposal[i]] < ordinal[holder]
       /\ \A j \in 1..Len(channel) : ordinal[channel[j]] < ordinal[holder]

\* While a loop or a write may still deliver it, nothing queued is lost.
Tracked ==
  ownerUp /\ ~poisoned /\ (agent \in Executing \cup {"waiting"} \/ writing = "canonical")

CompleteOK ==
  Tracked => \A r \in Queued \ {holder} :
    \/ \E i \in Ahead : proposal[i] = r
    \/ \E j \in 1..Len(channel) : channel[j] = r

\* Guidance is applied in admission order.
AppliedFirst ==
  \A r, q \in Receipts : status[r] = "applied" /\ status[q] = "queued"
    => ordinal[r] < ordinal[q]

\* The queue fits the channel.
SteeringBoundOK == Cardinality(Queued) <= MaxPending

ReasonsOK ==
  /\ TerminalSettles
  /\ \A r \in Receipts : reason[r] # "QueueFull"
  /\ run \in RunActive \cup {"Completed"} => \A r \in Receipts : reason[r] # "RunCompleted"

\* The last message is an answer from the end of the response to the end of the
\* run, and the channel is closed from the last look into it.
SteeringAnswerOK ==
  /\ \/ agent \in {"answered", "closing", "sealed"}
     \/ final \/ run = "Completed"
     \/ agent = "writing" /\ writing = "canonical" /\ site \in {"drained", "closing", "final"}
     => EndsInAnswer
  /\ \/ agent = "sealed"
     \/ agent = "writing" /\ writing = "canonical" /\ site = "final"
     => channel = <<>> /\ ~open
  /\ agent = "writing" /\ writing = "canonical" =>
       /\ site = "answer" => proposal = Append(transcript, "answer")
       /\ site = "final" => proposal = transcript

SteeringIInv ==
  /\ SteeringTypeOK /\ ControlOK /\ ProposalOK /\ OrdinalsOK /\ InMemoryOK
  /\ CompleteOK /\ AppliedIsCanonical /\ AppliedFirst /\ SteeringBoundOK
  /\ ReasonsOK /\ SteeringAnswerOK

-----------------------------------------------------------------------------
(* What checkpoint_reconciled appends.                                     *)

\* The place of each position among those of P.
Place(P) == [i \in P |-> Cardinality({j \in P : j <= i})]

\* Places are strictly increasing, and every one up to the size of P is taken.
LEMMA PlaceFacts ==
  ASSUME NEW n \in Nat, NEW P \in SUBSET (1..n)
  PROVE  /\ Cardinality(P) \in Nat
         /\ Place(P) \in [P -> 1..Cardinality(P)]
         /\ \A i, j \in P : i < j => Place(P)[i] < Place(P)[j]
         /\ \A m \in 1..Cardinality(P) : \E i \in P : Place(P)[i] = m
<1> DEFINE rank == [i \in P |-> Cardinality({j \in P : j <= i})]
           UpTo(i) == {j \in P : j <= i}
<1>1. IsFiniteSet(P) /\ Cardinality(P) \in Nat
  <2>1. IsFiniteSet(1..n)
    <3>1. 1 \in Int /\ n \in Int OBVIOUS
    <3>2. QED BY <3>1, FS_Interval
  <2>2. IsFiniteSet(P) BY <2>1, FS_Subset
  <2>3. QED BY <2>2, FS_CardinalityType
<1>2. ASSUME NEW i \in P
      PROVE  /\ IsFiniteSet(UpTo(i)) /\ Cardinality(UpTo(i)) \in Nat
             /\ Cardinality(UpTo(i)) <= Cardinality(P)
  BY <1>1, UpTo(i) \in SUBSET P, FS_Subset, FS_CardinalityType
<1>3. ASSUME NEW i \in P PROVE Cardinality(UpTo(i)) >= 1
  <2>1. UpTo(i) # {} BY DEF UpTo
  <2>2. QED BY <1>2, <2>1, FS_EmptySet
<1>4. rank \in [P -> 1..Cardinality(P)]
  BY <1>1, <1>2, <1>3
<1>5. ASSUME NEW i \in P, NEW j \in P, i < j PROVE rank[i] < rank[j]
  <2>1. UpTo(i) \in SUBSET UpTo(j) /\ j \in UpTo(j) /\ j \notin UpTo(i)
    <3>1. i \in Int /\ j \in Int /\ \A k \in P : k \in Int OBVIOUS
    <3>2. \A k \in P : k <= i => k <= j BY <3>1, <1>5
    <3>3. j <= j /\ ~(j <= i) BY <3>1, <1>5
    <3>4. QED BY <3>2, <3>3, Zenon
  <2>2. Cardinality(UpTo(i)) <= Cardinality(UpTo(j))
        /\ Cardinality(UpTo(i)) # Cardinality(UpTo(j))
    <3> HIDE DEF UpTo
    <3>1. QED BY <1>2, <2>1, FS_Subset
  <2>3. QED BY <1>2, <2>2
<1>6. rank \in Injection(P, 1..Cardinality(P))
  <2>1. \A i, j \in P : rank[i] = rank[j] => i = j
    <3>1. SUFFICES ASSUME NEW i \in P, NEW j \in P, i # j PROVE rank[i] # rank[j]
      OBVIOUS
    <3>2. i < j \/ j < i BY <3>1
    <3>3. rank[i] \in Nat /\ rank[j] \in Nat BY <1>1, <1>4
    <3>4. QED BY <3>2, <3>3, <1>5
  <2>2. QED BY <1>4, <2>1 DEF Injection, IsInjective
<1>7. rank \in Surjection(P, 1..Cardinality(P))
  <2>1. /\ IsFiniteSet(1..Cardinality(P))
        /\ Cardinality(1..Cardinality(P)) = Cardinality(P)
    BY <1>1, FS_Interval
  <2>2. QED BY <1>6, <2>1, FS_Injection
<1>8. QED BY <1>1, <1>4, <1>5, <1>7 DEF Surjection, Place

Messages == Texts \cup Receipts

\* The messages a write appends to the history.
LEMMA AppendedFacts ==
  ASSUME transcript \in Seq(Messages), proposal \in Seq(Messages)
  PROVE  /\ Appended \in Seq(Messages)
         /\ Len(transcript) \in Nat /\ Len(proposal) \in Nat
         /\ Len(transcript) <= Len(proposal) =>
              Len(Appended) = Len(proposal) - Len(transcript)
         /\ \A i \in 1..Len(Appended) :
              /\ Len(transcript) + i \in Len(transcript) + 1..Len(proposal)
              /\ Appended[i] = proposal[Len(transcript) + i]
         /\ \A i \in Len(transcript) + 1..Len(proposal) :
              /\ i - Len(transcript) \in 1..Len(Appended)
              /\ Appended[i - Len(transcript)] = proposal[i]
  BY DEF Appended

\* The accepted part keeps the appended messages that are not late, in order.
LEMMA AcceptedPartFacts ==
  ASSUME transcript \in Seq(Messages), proposal \in Seq(Messages)
  PROVE  /\ AcceptedPart \in Seq(Messages)
         /\ \E pos \in [1..Len(AcceptedPart) -> 1..Len(Appended)] :
              /\ \A n \in 1..Len(AcceptedPart) :
                   /\ AcceptedPart[n] = Appended[pos[n]]
                   /\ AcceptedPart[n] \notin late
              /\ \A n, m \in 1..Len(AcceptedPart) : n < m => pos[n] < pos[m]
              /\ \A i \in 1..Len(Appended) : Appended[i] \notin late =>
                   \E n \in 1..Len(AcceptedPart) : pos[n] = i
<1> DEFINE rank == [i \in Kept |-> Rank(i)]
           K == Cardinality(Kept)
           pos == [n \in 1..K |-> CHOOSE i \in Kept : Rank(i) = n]
<1>1. Appended \in Seq(Messages) /\ Len(Appended) \in Nat
  BY AppendedFacts
<1>2. Kept \in SUBSET (1..Len(Appended)) BY DEF Kept
<1>3. /\ K \in Nat
      /\ rank \in [Kept -> 1..K]
      /\ \A i, j \in Kept : i < j => rank[i] < rank[j]
      /\ \A m \in 1..K : \E i \in Kept : rank[i] = m
  <2>1. rank = Place(Kept) BY DEF Rank, Place
  <2> HIDE DEF rank
  <2>2. QED BY <1>1, <1>2, <2>1, PlaceFacts
<1>4. ASSUME NEW n \in 1..K
      PROVE  pos[n] \in Kept /\ rank[pos[n]] = n
  <2>1. \E i \in Kept : Rank(i) = n BY <1>3
  <2>2. QED BY <2>1
<1> HIDE DEF rank, pos
<1>5. pos \in [1..K -> 1..Len(Appended)]
  <2>1. pos = [n \in 1..K |-> pos[n]] BY DEF pos
  <2>2. QED BY <1>2, <1>4, <2>1
<1>6. AcceptedPart = [n \in 1..K |-> Appended[pos[n]]]
  BY DEF AcceptedPart, pos
<1>7. AcceptedPart \in Seq(Messages) /\ Len(AcceptedPart) = K
  <2>1. \A n \in 1..K : Appended[pos[n]] \in Messages BY <1>1, <1>5
  <2>2. AcceptedPart \in [1..K -> Messages] BY <1>6, <2>1
  <2>3. QED BY <1>3, <2>2
<1>8. ASSUME NEW n \in 1..K
      PROVE  AcceptedPart[n] = Appended[pos[n]] /\ AcceptedPart[n] \notin late
  BY <1>4, <1>6 DEF Kept
<1>9. ASSUME NEW n \in 1..K, NEW m \in 1..K, n < m PROVE pos[n] < pos[m]
  <2>1. /\ pos[n] \in Kept /\ rank[pos[n]] = n
        /\ pos[m] \in Kept /\ rank[pos[m]] = m
    BY <1>4
  <2>2. pos[n] \in Int /\ pos[m] \in Int /\ n \in Int /\ m \in Int
    BY <1>5
  <2>3. ~(pos[m] < pos[n]) /\ pos[m] # pos[n]
    BY <1>3, <1>9, <2>1, <2>2
  <2>4. QED BY <2>2, <2>3
<1>10. ASSUME NEW i \in 1..Len(Appended), Appended[i] \notin late
       PROVE  \E n \in 1..K : pos[n] = i
  <2>1. i \in Kept BY <1>10 DEF Kept
  <2>2. rank[i] \in 1..K BY <1>3, <2>1
  <2>3. pos[rank[i]] \in Kept /\ rank[pos[rank[i]]] = rank[i] BY <1>4, <2>2
  <2>4. pos[rank[i]] \in Int /\ i \in Int /\ rank[i] \in Int
    <3>1. pos[rank[i]] \in 1..Len(Appended) BY <1>2, <2>3
    <3>2. rank[i] \in Int
      <4> DEFINE k == rank[i]
      <4>1. k \in 1..K BY <2>2
      <4> HIDE DEF k
      <4>2. k \in Int BY <4>1
      <4>3. QED BY <4>2 DEF k
    <3>3. QED BY <3>1, <3>2
  <2>5. ~(pos[rank[i]] < i) /\ ~(i < pos[rank[i]])
    BY <1>3, <2>1, <2>3, <2>4
  <2>6. pos[rank[i]] = i BY <2>4, <2>5
  <2>7. QED BY <2>2, <2>6
<1>11. QED
  <2>1. pos \in [1..Len(AcceptedPart) -> 1..Len(Appended)] BY <1>5, <1>7
  <2>2. QED BY <1>7, <1>8, <1>9, <1>10, <2>1, ZenonT(30)

\* An accepted receipt stands in the accepted part, at its canonical index.
LEMMA CanonicalIndexFacts ==
  ASSUME transcript \in Seq(Messages), proposal \in Seq(Messages),
         NEW r \in Proposed \ late
  PROVE  /\ CanonicalIndex(r) \in Nat
         /\ CanonicalIndex(r) > Len(transcript)
         /\ CanonicalIndex(r) - Len(transcript) \in 1..Len(AcceptedPart)
         /\ AcceptedPart[CanonicalIndex(r) - Len(transcript)] = r
<1> DEFINE c == CHOOSE i \in 1..Len(AcceptedPart) : AcceptedPart[i] = r
<1>1. PICK i \in 1..Len(Appended) : Appended[i] = r
  BY DEF Proposed, Guidance
<1>2. \E n \in 1..Len(AcceptedPart) : AcceptedPart[n] = r
  BY <1>1, AcceptedPartFacts
<1>3. c \in 1..Len(AcceptedPart) /\ AcceptedPart[c] = r
  BY <1>2
<1> HIDE DEF c
<1>4. Len(transcript) \in Nat /\ Len(AcceptedPart) \in Nat
  BY AcceptedPartFacts
<1>5. CanonicalIndex(r) = Len(transcript) + c
  BY DEF CanonicalIndex, c
<1>6. c \in Nat /\ c >= 1 /\ CanonicalIndex(r) - Len(transcript) = c
  BY <1>3, <1>4, <1>5
<1>7. QED BY <1>3, <1>4, <1>5, <1>6

-----------------------------------------------------------------------------
(* Type correctness.                                                       *)

LEMMA InitTypeOK == SteeringInit => SteeringTypeOK
<1> SUFFICES ASSUME SteeringInit PROVE SteeringTypeOK
  OBVIOUS
<1>1. transcript \in Seq(Texts \cup Receipts) BY DEF SteeringInit, Texts
<1>2. channel \in Seq(Receipts) /\ proposal \in Seq(Texts \cup Receipts)
  BY DEF SteeringInit
<1>3. agent \in AgentPhase /\ site \in Site /\ run \in RunActive \cup RunTerminal
  BY DEF SteeringInit, AgentPhase, Site, RunActive
<1>4. /\ status \in [Receipts -> {"absent", "queued", "applied", "not_applied"}]
      /\ reason \in [Receipts -> Rejection \cup {"none"}]
      /\ ordinal \in [Receipts -> Nat] /\ index \in [Receipts -> Nat]
  BY DEF SteeringInit
<1>5. QED BY <1>1, <1>2, <1>3, <1>4 DEF SteeringInit, SteeringTypeOK

\* The journal of a run and the records of its guidance in one step.
SteeringQuiet ==
  /\ UNCHANGED <<status, reason, ordinal, index, transcript>>
  /\ run' = run \/ (run = "Accepted" /\ run' = "Running")
  /\ final' = final \/ (final' /\ EndsInAnswer)

SteerStep ==
  \/ SteeringQuiet
  \/ \E r \in Receipts : QueueSteering(r)
  \/ RejectSteering
  \/ CheckpointReconciled
  \/ \E s \in RunTerminal : FinishRun(s)

\* Every step does one of five things to them.
LEMMA StepIsSteerStep == [SteeringNext]_steeringVars => SteerStep
<1> SUFFICES ASSUME [SteeringNext]_steeringVars PROVE SteerStep
  OBVIOUS
<1> USE DEF SteerStep, runJournal, records, inbox, loop
<1>1. ASSUME UNCHANGED steeringVars PROVE SteerStep BY <1>1 DEF steeringVars, SteeringQuiet
<1>2. ASSUME NEW r \in Receipts, QueueSteering(r) \/ ClockMoves(r) PROVE SteerStep
  BY <1>2 DEF ClockMoves, SteeringQuiet
<1>3. ASSUME SubmissionStep PROVE SteerStep
  BY <1>3 DEF SubmissionStep, TrySend, RejectionFails, SteeringQuiet
<1>4. ASSUME AgentStep PROVE SteerStep
  <2>1. CASE MarkRunRunning BY <2>1 DEF MarkRunRunning, SteeringQuiet
  <2>2. CASE AgentStep /\ ~MarkRunRunning
    BY <2>2 DEF AgentStep, SteeringQuiet, Propose, DrainBeforeRequest,
       ProviderInterrupted, ProviderCalls, ToolFinished, ProviderAnswers,
       DrainAfterAnswer, NothingDrained, ContinuationOffered, DrainUnderLease,
       CloseUnderLease, ProposeAcceptance, StopIncomplete, AgentFails
  <2>3. QED BY <1>4, <2>1, <2>2
<1>5. ASSUME WorkerStep PROVE SteerStep
  BY <1>5 DEF WorkerStep, AcceptFinal, Acceptable, EndsInAnswer, WriteFails, SteeringQuiet
<1>6. ASSUME EndStep PROVE SteerStep
  BY <1>6 DEF EndStep, PersistTerminal, TerminalFails, SteeringQuiet
<1>7. ASSUME GraceElapses \/ FinishRunUnfinalized \/ RequestCancel \/ OwnerCrash \/ RecoverRun
      PROVE  SteerStep
  BY <1>7 DEF GraceElapses, FinishRunUnfinalized, RequestCancel, OwnerCrash,
     RecoverRun, RunTerminal, SteeringQuiet
<1>8. QED BY <1>1, <1>2, <1>3, <1>4, <1>5, <1>6, <1>7 DEF SteeringNext

\* Records and history stay typed.
LEMMA RecordTypes ==
  ASSUME SteeringTypeOK, IsFiniteSet(Admitted), SteerStep
  PROVE  /\ run' \in RunActive \cup RunTerminal
         /\ transcript' \in Seq(Texts \cup Receipts)
         /\ status' \in [Receipts -> {"absent", "queued", "applied", "not_applied"}]
         /\ reason' \in [Receipts -> Rejection \cup {"none"}]
         /\ ordinal' \in [Receipts -> Nat]
         /\ index' \in [Receipts -> Nat]
<1>1. CASE SteeringQuiet BY <1>1 DEF SteeringQuiet, SteeringTypeOK, RunActive
<1>2. ASSUME NEW r \in Receipts, QueueSteering(r)
      PROVE  /\ status' \in [Receipts -> {"absent", "queued", "applied", "not_applied"}]
             /\ ordinal' \in [Receipts -> Nat]
             /\ UNCHANGED <<run, transcript, reason, index>>
  <2>1. NextOrdinal \in Nat BY FS_CardinalityType DEF NextOrdinal
  <2>2. QED BY <1>2, <2>1 DEF QueueSteering, runJournal, SteeringTypeOK
<1>3. CASE RejectSteering
  BY <1>3 DEF RejectSteering, SteeringTypeOK, runJournal, Rejection
<1>4. CASE CheckpointReconciled
  <2>1. transcript \in Seq(Messages) /\ proposal \in Seq(Messages)
    BY DEF SteeringTypeOK, Messages
  <2>2. transcript' \in Seq(Texts \cup Receipts)
    BY <1>4, <2>1, AcceptedPartFacts DEF CheckpointReconciled, Messages
  <2>3. index' \in [Receipts -> Nat]
    BY <1>4, <2>1, CanonicalIndexFacts DEF CheckpointReconciled, SteeringTypeOK
  <2>4. QED BY <1>4, <2>2, <2>3 DEF CheckpointReconciled, SteeringTypeOK, Rejection
<1>5. ASSUME NEW s \in RunTerminal, FinishRun(s)
      PROVE  /\ run' \in RunActive \cup RunTerminal
             /\ status' \in [Receipts -> {"absent", "queued", "applied", "not_applied"}]
             /\ reason' \in [Receipts -> Rejection \cup {"none"}]
             /\ UNCHANGED <<transcript, ordinal, index>>
  <2>1. RunClassified(s) \in RunTerminal BY DEF RunClassified, RunTerminal
  <2>2. SettleReason(RunClassified(s)) \in Rejection BY DEF SettleReason, Rejection
  <2>3. QED BY <1>5, <2>1, <2>2 DEF FinishRun, Settled, SteeringTypeOK
<1>6. QED BY <1>1, <1>2, <1>3, <1>4, <1>5 DEF SteerStep, SteeringTypeOK

\* The threads' own variables stay typed.
LEMMA ThreadTypes ==
  ASSUME SteeringTypeOK, [SteeringNext]_steeringVars
  PROVE  /\ final' \in BOOLEAN /\ cancel' \in BOOLEAN
         /\ ownerUp' \in BOOLEAN /\ gated' \in BOOLEAN
         /\ holder' \in Receipts \cup {NoHolder}
         /\ channel' \in Seq(Receipts) /\ open' \in BOOLEAN /\ poisoned' \in BOOLEAN
         /\ agent' \in AgentPhase /\ site' \in Site
         /\ writing' \in {"none", "canonical", "accept"}
         /\ proposal' \in Seq(Texts \cup Receipts)
         /\ late' \in SUBSET Receipts
<1> DEFINE Goal ==
         /\ final' \in BOOLEAN /\ cancel' \in BOOLEAN
         /\ ownerUp' \in BOOLEAN /\ gated' \in BOOLEAN
         /\ holder' \in Receipts \cup {NoHolder}
         /\ channel' \in Seq(Receipts) /\ open' \in BOOLEAN /\ poisoned' \in BOOLEAN
         /\ agent' \in AgentPhase /\ site' \in Site
         /\ writing' \in {"none", "canonical", "accept"}
         /\ proposal' \in Seq(Texts \cup Receipts)
         /\ late' \in SUBSET Receipts
<1>0. <<>> \in Seq(Receipts) /\ <<>> \in Seq(Texts \cup Receipts) OBVIOUS
<1> USE DEF SteeringTypeOK, runJournal, records, inbox, loop
<1>1. ASSUME UNCHANGED steeringVars PROVE Goal BY <1>1 DEF steeringVars
<1>2. ASSUME NEW r \in Receipts, QueueSteering(r) PROVE Goal
  BY <1>2 DEF QueueSteering
<1>3. ASSUME NEW r \in Receipts, ClockMoves(r) PROVE Goal
  BY <1>3 DEF ClockMoves
<1>4. ASSUME TrySend PROVE Goal BY <1>4 DEF TrySend
<1>5. ASSUME RejectSteering \/ RejectionFails PROVE Goal
  BY <1>5 DEF RejectSteering, RejectionFails
<1>6. ASSUME MarkRunRunning \/ ContinuationOffered \/ NothingDrained \/ StopIncomplete
             \/ AgentFails \/ TerminalFails \/ GraceElapses
      PROVE  Goal
  BY ZenonT(30), <1>6 DEF MarkRunRunning, ContinuationOffered, NothingDrained, StopIncomplete,
     AgentFails, TerminalFails, GraceElapses, ClosedWhenEmpty, AgentPhase, Executing
<1>7. ASSUME NEW w \in Site, NEW h \in Seq(Texts \cup Receipts), Propose(w, h),
             channel' \in Seq(Receipts), open' \in BOOLEAN
      PROVE  Goal
  BY <1>7 DEF Propose, AgentPhase, Executing
<1>8. ASSUME DrainBeforeRequest \/ DrainAfterAnswer \/ DrainUnderLease PROVE Goal
  <2>1. transcript \o channel \in Seq(Texts \cup Receipts) OBVIOUS
  <2>2. channel' \in Seq(Receipts) /\ open' \in BOOLEAN
    BY <1>0, <1>8 DEF DrainBeforeRequest, DrainAfterAnswer, DrainUnderLease
  <2>3. QED BY <1>7, <1>8, <2>1, <2>2
        DEF DrainBeforeRequest, DrainAfterAnswer, DrainUnderLease, Site
<1>9. ASSUME ProviderInterrupted \/ ProviderCalls \/ ToolFinished \/ ProviderAnswers
      PROVE  Goal
  <2>1. \A x \in Texts : Append(transcript, x) \in Seq(Texts \cup Receipts) OBVIOUS
  <2>2. {"segment", "call", "result", "answer"} \subseteq Texts BY DEF Texts
  <2>3. {"segment", "call", "result", "answer"} \subseteq Site BY DEF Site
  <2>4. channel' \in Seq(Receipts) /\ open' \in BOOLEAN
    BY <1>9 DEF ProviderInterrupted, ProviderCalls, ToolFinished, ProviderAnswers
  <2>5. QED BY <1>7, <1>9, <2>1, <2>2, <2>3, <2>4
        DEF ProviderInterrupted, ProviderCalls, ToolFinished, ProviderAnswers
<1>10. ASSUME CloseUnderLease PROVE Goal
  BY <1>7, <1>10 DEF CloseUnderLease, ClosedWhenEmpty, Site
<1>11. ASSUME ProposeAcceptance PROVE Goal
  BY <1>11 DEF ProposeAcceptance, AgentPhase, Executing
<1>12. ASSUME CheckpointReconciled PROVE Goal
  <2>1. AfterCheckpoint(AcceptedPart # <<>>) \in AgentPhase
    BY DEF AfterCheckpoint, AgentPhase, Executing, Site
  <2>2. QED BY <1>0, <1>12, <2>1 DEF CheckpointReconciled, Return
<1>13. ASSUME AcceptFinal \/ WriteFails PROVE Goal
  BY <1>0, <1>13 DEF AcceptFinal, WriteFails, Return, AgentPhase
<1>14. ASSUME (\E s \in RunTerminal : PersistTerminal(s)) \/ FinishRunUnfinalized
              \/ RequestCancel \/ RecoverRun
       PROVE  Goal
  BY ZenonT(30), <1>14 DEF PersistTerminal, FinishRunUnfinalized, RequestCancel,
     RecoverRun, FinishRun, AgentPhase
<1>15. ASSUME OwnerCrash PROVE Goal BY <1>0, <1>15 DEF OwnerCrash, AgentPhase
<1> HIDE DEF Goal
<1>16. Goal
  BY <1>1, <1>2, <1>3, <1>4, <1>5, <1>6, <1>8, <1>9, <1>10, <1>11, <1>12,
     <1>13, <1>14, <1>15
     DEF SteeringNext, SubmissionStep, AgentStep, WorkerStep, EndStep
<1>17. QED BY <1>16 DEF Goal

-----------------------------------------------------------------------------
(* The threads.                                                            *)

LEMMA InitControlOK == SteeringInit => ControlOK /\ ProposalOK
  BY DEF SteeringInit, ControlOK, ProposalOK, Executing

LEMMA NextControlOK ==
  ASSUME SteeringTypeOK, ControlOK, [SteeringNext]_steeringVars
  PROVE  ControlOK'
<1> USE DEF ControlOK, runJournal, records, inbox, loop
<1>1. CASE UNCHANGED steeringVars BY <1>1 DEF steeringVars
<1>2. ASSUME NEW r \in Receipts, QueueSteering(r) PROVE ControlOK'
  BY <1>2, ReceiptAssumption DEF QueueSteering, SteeringTypeOK
<1>3. ASSUME NEW r \in Receipts, ClockMoves(r) PROVE ControlOK'
  BY <1>3 DEF ClockMoves
<1>4. CASE TrySend BY <1>4 DEF TrySend
<1>5. CASE RejectSteering \/ RejectionFails
  BY <1>5 DEF RejectSteering, RejectionFails
<1>6. CASE MarkRunRunning BY <1>6 DEF MarkRunRunning, Executing, RunActive
<1>7. CASE ContinuationOffered \/ NothingDrained \/ StopIncomplete \/ AgentFails
           \/ TerminalFails \/ GraceElapses
  BY <1>7 DEF ContinuationOffered, NothingDrained, StopIncomplete, AgentFails,
     TerminalFails, GraceElapses, Executing
<1>8. ASSUME NEW w, NEW h, Propose(w, h), agent \in Executing
      PROVE  ControlOK'
  BY <1>8 DEF Propose, Executing
<1>9. CASE DrainBeforeRequest \/ DrainAfterAnswer \/ DrainUnderLease
           \/ CloseUnderLease \/ ProviderInterrupted \/ ProviderCalls
           \/ ToolFinished \/ ProviderAnswers
  BY <1>8, <1>9 DEF DrainBeforeRequest, DrainAfterAnswer, DrainUnderLease,
     CloseUnderLease, ProviderInterrupted, ProviderCalls, ToolFinished,
     ProviderAnswers, Executing
<1>10. CASE ProposeAcceptance BY <1>10 DEF ProposeAcceptance, Executing
<1>11. CASE CheckpointReconciled
  <2>1. AfterCheckpoint(AcceptedPart # <<>>) \in Executing \ {"writing"}
    BY DEF AfterCheckpoint, Executing, SteeringTypeOK, Site
  <2>2. QED BY <1>11, <2>1 DEF CheckpointReconciled, Return, Executing
<1>12. CASE AcceptFinal \/ WriteFails
  BY <1>12 DEF AcceptFinal, WriteFails, Return, Executing
<1>13. ASSUME NEW s \in RunTerminal, PersistTerminal(s) PROVE ControlOK'
  BY <1>13 DEF PersistTerminal, FinishRun, Executing
<1>14. CASE FinishRunUnfinalized \/ RecoverRun
  BY <1>14 DEF FinishRunUnfinalized, RecoverRun, FinishRun, Executing
<1>15. CASE RequestCancel BY <1>15 DEF RequestCancel
<1>16. CASE OwnerCrash BY <1>16 DEF OwnerCrash, Executing
<1> HIDE DEF ControlOK, runJournal, records, inbox, loop
<1>17. QED
  BY <1>1, <1>2, <1>3, <1>4, <1>5, <1>6, <1>7, <1>9, <1>10, <1>11, <1>12,
     <1>13, <1>14, <1>15, <1>16
     DEF SteeringNext, SubmissionStep, AgentStep, WorkerStep, EndStep

\* A queued write's proposal extends the history; when there is none it is empty.
LEMMA NextProposalOK ==
  ASSUME SteeringTypeOK, ControlOK, ProposalOK, [SteeringNext]_steeringVars
  PROVE  ProposalOK'
<1> USE DEF ProposalOK, runJournal, records, inbox, loop
<1>0. Len(transcript) \in Nat BY DEF SteeringTypeOK
<1>1. ASSUME UNCHANGED <<transcript, proposal, writing>> PROVE ProposalOK'
  BY <1>1
<1>2. ASSUME transcript' = transcript, writing' = "canonical",
             \/ \E x : proposal' = Append(transcript, x)
             \/ proposal' = transcript \o channel
             \/ proposal' = transcript
      PROVE  ProposalOK'
  <2>1. CASE \E x : proposal' = Append(transcript, x)
    <3>1. PICK x : proposal' = Append(transcript, x) BY <2>1
    <3>2. /\ Len(proposal') = Len(transcript) + 1
          /\ \A i \in 1..Len(transcript) : proposal'[i] = transcript[i]
      BY <3>1 DEF SteeringTypeOK
    <3>3. QED BY <1>0, <1>2, <3>2
  <2>2. CASE proposal' = transcript \o channel
    <3>1. /\ Len(channel) \in Nat
          /\ Len(proposal') = Len(transcript) + Len(channel)
          /\ \A i \in 1..Len(transcript) : proposal'[i] = transcript[i]
      BY <2>2 DEF SteeringTypeOK
    <3>2. QED BY <1>0, <1>2, <3>1
  <2>3. CASE proposal' = transcript BY <1>0, <1>2, <2>3
  <2>4. QED BY <1>2, <2>1, <2>2, <2>3
<1>3. CASE UNCHANGED steeringVars BY <1>1, <1>3 DEF steeringVars
<1>4. ASSUME NEW r \in Receipts, QueueSteering(r) \/ ClockMoves(r) PROVE ProposalOK'
  BY <1>1, <1>4 DEF QueueSteering, ClockMoves
<1>5. CASE SubmissionStep
  BY <1>1, <1>5 DEF SubmissionStep, TrySend, RejectSteering, RejectionFails
<1>6. CASE MarkRunRunning \/ ContinuationOffered \/ NothingDrained \/ StopIncomplete
           \/ AgentFails \/ TerminalFails \/ GraceElapses \/ RequestCancel
  BY <1>1, <1>6 DEF MarkRunRunning, ContinuationOffered, NothingDrained,
     StopIncomplete, AgentFails, TerminalFails, GraceElapses, RequestCancel
<1>7. CASE DrainBeforeRequest \/ DrainAfterAnswer \/ DrainUnderLease
           \/ CloseUnderLease \/ ProviderInterrupted \/ ProviderCalls
           \/ ToolFinished \/ ProviderAnswers
  BY <1>2, <1>7 DEF DrainBeforeRequest, DrainAfterAnswer, DrainUnderLease,
     CloseUnderLease, ProviderInterrupted, ProviderCalls, ToolFinished,
     ProviderAnswers, Propose
<1>8. CASE ProposeAcceptance BY <1>0, <1>8 DEF ProposeAcceptance
<1>9. CASE WorkerStep \/ OwnerCrash
  BY <1>9 DEF WorkerStep, CheckpointReconciled, AcceptFinal, WriteFails, OwnerCrash
<1>10. CASE (\E s \in RunTerminal : PersistTerminal(s)) \/ FinishRunUnfinalized
            \/ RecoverRun
  BY <1>1, <1>10 DEF PersistTerminal, FinishRunUnfinalized, RecoverRun, FinishRun
<1> HIDE DEF ProposalOK, runJournal, records, inbox, loop
<1>11. QED
  BY <1>3, <1>4, <1>5, <1>6, <1>7, <1>8, <1>9, <1>10
     DEF SteeringNext, AgentStep, EndStep

-----------------------------------------------------------------------------
(* Admission order.                                                        *)

LEMMA InitOrdinalsOK == SteeringInit => OrdinalsOK /\ SteeringBoundOK
<1> SUFFICES ASSUME SteeringInit PROVE OrdinalsOK /\ SteeringBoundOK
  OBVIOUS
<1>1. Admitted = {} /\ Queued = {} BY DEF SteeringInit, Admitted, Queued
<1>2. QED BY <1>1, FS_EmptySet, LimitAssumption DEF OrdinalsOK, SteeringBoundOK

\* Receipts are admitted once, with a new greatest ordinal.
LEMMA NextOrdinalsOK ==
  ASSUME SteeringTypeOK, ControlOK, OrdinalsOK, SteerStep
  PROVE  OrdinalsOK'
<1> USE DEF SteeringTypeOK
<1>1. ASSUME ordinal' = ordinal,
             \A r \in Receipts : status'[r] = "absent" <=> status[r] = "absent"
      PROVE  OrdinalsOK'
  <2>1. Admitted' = Admitted BY <1>1 DEF Admitted
  <2>2. QED BY <1>1, <2>1 DEF OrdinalsOK
<1>2. CASE SteeringQuiet BY <1>1, <1>2 DEF SteeringQuiet
<1>3. ASSUME NEW r \in Receipts, QueueSteering(r) PROVE OrdinalsOK'
  <2>1. r \notin Admitted /\ Admitted' = Admitted \cup {r}
    BY <1>3 DEF Admitted, QueueSteering
  <2>2. /\ IsFiniteSet(Admitted') /\ Cardinality(Admitted) \in Nat
        /\ Cardinality(Admitted') = Cardinality(Admitted) + 1
    BY <2>1, FS_AddElement, FS_CardinalityType DEF OrdinalsOK
  <2>3. /\ ordinal'[r] = Cardinality(Admitted) + 1
        /\ \A q \in Admitted : ordinal'[q] = ordinal[q] /\ ordinal[q] \in Nat
    BY <1>3, <2>1 DEF QueueSteering, NextOrdinal, Admitted
  <2>4. \A q \in Admitted : ordinal[q] <= Cardinality(Admitted)
    BY DEF OrdinalsOK
  <2>5. ASSUME NEW q \in Admitted' PROVE ordinal'[q] <= Cardinality(Admitted')
    <3>1. CASE q = r BY <2>2, <2>3, <3>1
    <3>2. CASE q \in Admitted
      <4>1. ordinal'[q] \in Nat /\ ordinal'[q] <= Cardinality(Admitted)
        BY <2>3, <2>4, <3>2
      <4>2. QED BY <2>2, <4>1
    <3>3. QED BY <2>1, <3>1, <3>2
  <2>6. ASSUME NEW p \in Admitted', NEW q \in Admitted', ordinal'[p] = ordinal'[q]
        PROVE  p = q
    <3>1. CASE p \in Admitted /\ q \in Admitted
      BY <2>3, <2>6, <3>1 DEF OrdinalsOK
    <3>2. CASE p = r \/ q = r
      <4>1. ASSUME NEW x \in Admitted PROVE ordinal'[x] # ordinal'[r]
        <5>1. ordinal'[x] \in Nat /\ ordinal'[x] <= Cardinality(Admitted)
          BY <2>3, <2>4
        <5>2. QED BY <2>2, <2>3, <5>1
      <4>2. QED BY <2>1, <2>6, <3>2, <4>1
    <3>3. QED BY <2>1, <3>1, <3>2
  <2>7. QED BY <2>2, <2>5, <2>6 DEF OrdinalsOK
<1>4. CASE RejectSteering
  <2>1. holder \in Receipts /\ status[holder] = "queued"
    BY <1>4 DEF RejectSteering, ControlOK
  <2>2. QED BY <1>1, <1>4, <2>1 DEF RejectSteering
<1>5. CASE CheckpointReconciled
  <2>1. \A r \in Proposed : status[r] = "queued"
    BY <1>5 DEF CheckpointReconciled, InOrder, Proposed
  <2>2. QED BY <1>1, <1>5, <2>1 DEF CheckpointReconciled
<1>6. ASSUME NEW s \in RunTerminal, FinishRun(s) PROVE OrdinalsOK'
  BY <1>1, <1>6 DEF FinishRun, Settled
<1>7. QED BY <1>2, <1>3, <1>4, <1>5, <1>6 DEF SteerStep

-----------------------------------------------------------------------------
(* Guidance in memory.                                                     *)

\* Without a canonical write nothing is proposed.
LEMMA NothingAhead ==
  ASSUME transcript \in Seq(Messages), proposal = <<>> \/ proposal = transcript
  PROVE  Ahead = {}
<1>1. Len(transcript) \in Nat OBVIOUS
<1>2. CASE proposal = <<>> BY <1>1, <1>2 DEF Ahead
<1>3. CASE proposal = transcript BY <1>1, <1>3 DEF Ahead
<1>4. QED BY <1>2, <1>3

\* What the write proposes is what lies ahead.
LEMMA ProposedIsAhead ==
  ASSUME transcript \in Seq(Messages), proposal \in Seq(Messages)
  PROVE  /\ \A i \in Ahead : proposal[i] \in Proposed
         /\ \A r \in Proposed : \E i \in Ahead : proposal[i] = r
<1>1. ASSUME NEW i \in Ahead PROVE proposal[i] \in Proposed
  <2>1. i \in Len(transcript) + 1..Len(proposal) /\ proposal[i] \in Receipts
    BY DEF Ahead
  <2>2. /\ i - Len(transcript) \in 1..Len(Appended)
        /\ Appended[i - Len(transcript)] = proposal[i]
    BY <2>1, AppendedFacts
  <2>3. QED BY <2>1, <2>2 DEF Proposed, Guidance
<1>2. ASSUME NEW r \in Proposed PROVE \E i \in Ahead : proposal[i] = r
  <2>1. PICK i \in 1..Len(Appended) : Appended[i] = r /\ r \in Receipts
    BY DEF Proposed, Guidance
  <2>2. /\ Len(transcript) + i \in Len(transcript) + 1..Len(proposal)
        /\ proposal[Len(transcript) + i] = r
    BY <2>1, AppendedFacts
  <2>3. QED BY <2>1, <2>2 DEF Ahead
<1>3. QED BY <1>1, <1>2

\* A drained channel lies ahead, in its order.
LEMMA DrainedIsAhead ==
  ASSUME transcript \in Seq(Messages), channel \in Seq(Receipts),
         transcript' = transcript, proposal' = transcript \o channel
  PROVE  /\ \A i \in Ahead' :
              /\ i - Len(transcript) \in 1..Len(channel)
              /\ proposal'[i] = channel[i - Len(transcript)]
         /\ \A j \in 1..Len(channel) :
              /\ Len(transcript) + j \in Ahead'
              /\ proposal'[Len(transcript) + j] = channel[j]
  BY DEF Ahead

\* A text is not guidance.
LEMMA TextIsNotAhead ==
  ASSUME transcript \in Seq(Messages), NEW x \in Texts,
         transcript' = transcript, proposal' = Append(transcript, x)
  PROVE  Ahead' = {}
<1>1. Len(transcript) \in Nat /\ Len(proposal') = Len(transcript) + 1
      /\ proposal'[Len(transcript) + 1] = x
  OBVIOUS
<1>2. x \notin Receipts BY ReceiptAssumption
<1>3. QED BY <1>1, <1>2 DEF Ahead

LEMMA InitMemory == SteeringInit => InMemoryOK /\ CompleteOK
<1> SUFFICES ASSUME SteeringInit PROVE InMemoryOK /\ CompleteOK
  OBVIOUS
<1>1. transcript \in Seq(Messages) BY DEF SteeringInit, Messages, Texts
<1>2. Ahead = {} BY <1>1, NothingAhead DEF SteeringInit
<1>3. QED BY <1>2 DEF SteeringInit, InMemoryOK, CompleteOK, Queued

\* What a step does to the guidance in memory.
MemoryStep ==
  \/ /\ UNCHANGED <<transcript, status, ordinal>>     \* nothing is moved
     /\ Ahead' = Ahead /\ \A i \in Ahead : proposal'[i] = proposal[i]
     /\ UNCHANGED <<channel, holder>>
     /\ run' \in RunActive => run \in RunActive
     /\ Tracked' => Tracked
  \/ /\ UNCHANGED <<transcript, status, ordinal, run, holder>>     \* drained
     /\ proposal' = transcript \o channel /\ channel' = <<>> /\ Ahead = {}
     /\ Tracked' => Tracked
  \/ /\ UNCHANGED <<transcript, status, ordinal, run, channel, holder>>    \* dropped
     /\ Ahead' = {} /\ ~Tracked'
  \/ TrySend
  \/ \E r \in Receipts : QueueSteering(r)
  \/ RejectSteering
  \/ RejectionFails
  \/ CheckpointReconciled
  \/ OwnerCrash
  \/ /\ holder = NoHolder                              \* settled
     /\ UNCHANGED <<channel, holder, proposal>>
     /\ \E s \in RunTerminal : FinishRun(s)

LEMMA StepIsMemoryStep ==
  ASSUME SteeringTypeOK, ControlOK, ProposalOK, [SteeringNext]_steeringVars
  PROVE  MemoryStep
<1> USE DEF runJournal, records, inbox, loop
<1>0. transcript \in Seq(Messages) BY DEF SteeringTypeOK, Messages
<1>1. ASSUME UNCHANGED <<transcript, status, ordinal, proposal, channel, holder, ownerUp, poisoned>>,
             run' \in RunActive => run \in RunActive,
             agent' \in Executing \cup {"waiting"} => agent \in Executing \cup {"waiting"},
             writing' = writing
      PROVE  MemoryStep
  <2>1. Ahead' = Ahead /\ (Tracked' => Tracked) BY <1>1 DEF Ahead, Tracked
  <2>2. QED BY <1>1, <2>1 DEF MemoryStep
<1>2. CASE UNCHANGED steeringVars BY <1>1, <1>2 DEF steeringVars
<1>3. ASSUME NEW r \in Receipts, ClockMoves(r) PROVE MemoryStep
  BY <1>1, <1>3 DEF ClockMoves
<1>4. CASE MarkRunRunning \/ ContinuationOffered \/ NothingDrained \/ StopIncomplete
           \/ AgentFails \/ TerminalFails \/ GraceElapses \/ RequestCancel
  BY <1>1, <1>4 DEF MarkRunRunning, ContinuationOffered, NothingDrained,
     StopIncomplete, AgentFails, TerminalFails, GraceElapses, RequestCancel,
     Executing, RunActive
<1>5. ASSUME agent \in Executing \ {"writing"}
      PROVE  writing = "none" /\ Ahead = {} /\ ownerUp
  BY <1>0, <1>5, NothingAhead DEF ControlOK, ProposalOK, Executing
<1>6. CASE DrainBeforeRequest \/ DrainAfterAnswer \/ DrainUnderLease
  <2>1. agent \in Executing \ {"writing"}
    BY <1>6 DEF DrainBeforeRequest, DrainAfterAnswer, DrainUnderLease, Executing
  <2>2. /\ UNCHANGED <<transcript, status, ordinal, run, holder, ownerUp, poisoned>>
        /\ proposal' = transcript \o channel /\ channel' = <<>>
    BY <1>6 DEF DrainBeforeRequest, DrainAfterAnswer, DrainUnderLease, Propose
  <2>3. Tracked' => Tracked BY <2>1, <2>2 DEF Tracked
  <2>4. QED BY <1>5, <2>1, <2>2, <2>3 DEF MemoryStep
<1>7. ASSUME agent \in Executing \ {"writing"}, Ahead' = {},
             UNCHANGED <<transcript, status, ordinal, run, channel, holder, ownerUp, poisoned>>
      PROVE  MemoryStep
  BY <1>5, <1>7 DEF MemoryStep, Tracked
<1>8. CASE ProviderInterrupted \/ ProviderCalls \/ ToolFinished \/ ProviderAnswers
  <2>1. /\ agent \in Executing \ {"writing"}
        /\ UNCHANGED <<transcript, status, ordinal, run, channel, holder, ownerUp, poisoned>>
        /\ \E x \in Texts : proposal' = Append(transcript, x)
    BY <1>8 DEF ProviderInterrupted, ProviderCalls, ToolFinished, ProviderAnswers,
       Propose, Executing, Texts
  <2>2. QED BY <1>0, <1>7, <2>1, TextIsNotAhead
<1>9. CASE CloseUnderLease \/ ProposeAcceptance
  <2>1. /\ agent \in Executing \ {"writing"}
        /\ UNCHANGED <<transcript, status, ordinal, run, channel, holder, ownerUp, poisoned>>
        /\ proposal' = transcript
    BY <1>9 DEF CloseUnderLease, ProposeAcceptance, Propose, Executing
  <2>2. Len(transcript) \in Nat BY DEF SteeringTypeOK
  <2>3. Ahead' = {} BY <2>1, <2>2 DEF Ahead
  <2>4. QED BY <1>7, <2>1, <2>3
<1>10. CASE AcceptFinal \/ WriteFails
  <2>1. /\ UNCHANGED <<transcript, status, ordinal, run, channel, holder>>
        /\ proposal' = <<>> /\ writing' = "none"
        /\ agent' \notin Executing \cup {"waiting"}
    BY <1>10 DEF AcceptFinal, WriteFails, Return, ControlOK, Executing
  <2>2. Len(transcript) \in Nat BY DEF SteeringTypeOK
  <2>3. Ahead' = {} BY <2>1, <2>2 DEF Ahead
  <2>4. QED BY <2>1, <2>3 DEF MemoryStep, Tracked
<1>11. ASSUME NEW s \in RunTerminal, PersistTerminal(s) PROVE MemoryStep
  BY <1>11 DEF PersistTerminal, MemoryStep
<1>12. CASE FinishRunUnfinalized
  BY <1>12 DEF FinishRunUnfinalized, MemoryStep, RunTerminal
<1>13. CASE RecoverRun
  BY <1>13 DEF RecoverRun, MemoryStep, RunTerminal, ControlOK
<1> HIDE DEF runJournal, records, inbox, loop
<1>14. ASSUME NEW r \in Receipts, QueueSteering(r) PROVE MemoryStep
  BY <1>14 DEF MemoryStep
<1>15. CASE SubmissionStep \/ CheckpointReconciled \/ OwnerCrash
  BY <1>15 DEF SubmissionStep, MemoryStep
<1>16. QED
  BY <1>2, <1>3, <1>4, <1>6, <1>8, <1>9, <1>10, <1>11, <1>12, <1>13, <1>14, <1>15
     DEF SteeringNext, AgentStep, WorkerStep, EndStep

\* Guidance in memory stays in admission order, and queued while the run is active.
LEMMA NextInMemoryOK ==
  ASSUME SteeringTypeOK, SteeringTypeOK', ControlOK, OrdinalsOK, InMemoryOK, MemoryStep
  PROVE  InMemoryOK'
<1> USE DEF InMemoryOK
<1>0. /\ transcript \in Seq(Messages) /\ proposal \in Seq(Messages)
      /\ channel \in Seq(Receipts) /\ Len(channel) \in Nat
      /\ \A i \in Ahead : i \in Int /\ proposal[i] \in Receipts
      /\ \A j \in 1..Len(channel) : channel[j] \in Receipts
      /\ \A r \in Receipts : ordinal[r] \in Nat
  BY DEF SteeringTypeOK, Messages, Ahead
<1>1. ASSUME UNCHANGED <<transcript, status, ordinal>>,
             Ahead' = Ahead \/ Ahead' = {}, \A i \in Ahead' : proposal'[i] = proposal[i],
             channel' = channel \/ channel' = <<>>,
             holder' = holder \/ holder' = NoHolder,
             run' \in RunActive => run \in RunActive
      PROVE  InMemoryOK'
  <2>1. \A i \in Ahead' : i \in Ahead BY <1>1
  <2>2. \A j \in 1..Len(channel') : j \in 1..Len(channel) /\ channel'[j] = channel[j]
    BY <1>1
  <2>3. QED BY <1>1, <2>1, <2>2
<1>2. CASE /\ UNCHANGED <<transcript, status, ordinal, run, holder>>
           /\ proposal' = transcript \o channel /\ channel' = <<>> /\ Ahead = {}
  <2>1. \A i \in Ahead' : /\ i - Len(transcript) \in 1..Len(channel)
                          /\ proposal'[i] = channel[i - Len(transcript)]
    BY <1>0, <1>2, DrainedIsAhead
  <2>2. \A j \in 1..Len(channel') : FALSE BY <1>2
  <2>3. Len(transcript) \in Nat /\ \A i \in Ahead' : i \in Int
    BY <1>0 DEF Ahead, SteeringTypeOK
  <2>4. \A i, j \in Ahead' : i < j => ordinal[proposal'[i]] < ordinal[proposal'[j]]
    <3>1. SUFFICES ASSUME NEW i \in Ahead', NEW j \in Ahead', i < j
                   PROVE  ordinal[proposal'[i]] < ordinal[proposal'[j]]
      OBVIOUS
    <3>2. i - Len(transcript) < j - Len(transcript) BY <2>3, <3>1
    <3>3. QED BY <2>1, <3>2
  <2>5. QED BY <1>2, <2>1, <2>2, <2>4
<1>3. CASE TrySend
  <2>1. /\ UNCHANGED <<transcript, proposal, status, ordinal, run>>
        /\ channel' = Append(channel, holder) /\ holder' = NoHolder
        /\ holder \in Receipts /\ status[holder] = "queued"
    BY <1>3 DEF TrySend, ControlOK, SteeringTypeOK, runJournal, records, loop
  <2>2. Ahead' = Ahead BY <2>1 DEF Ahead
  <2>3. /\ Len(channel') = Len(channel) + 1 /\ channel'[Len(channel) + 1] = holder
        /\ \A j \in 1..Len(channel) : channel'[j] = channel[j]
        /\ \A j \in 1..Len(channel') : j \in 1..Len(channel) \/ j = Len(channel) + 1
    BY <1>0, <2>1
  <2>4. \A i, j \in 1..Len(channel') : i < j => i \in 1..Len(channel)
    BY <1>0, <2>3
  <2>5. \A i, j \in 1..Len(channel') : i < j => ordinal'[channel'[i]] < ordinal'[channel'[j]]
    BY <1>3, <2>1, <2>3, <2>4 DEF TrySend
  <2>6. QED BY <1>3, <2>1, <2>2, <2>3, <2>5 DEF TrySend
<1>4. ASSUME NEW r \in Receipts, QueueSteering(r) PROVE InMemoryOK'
  <2>1. /\ run \in RunActive /\ status[r] = "absent" /\ holder = NoHolder /\ holder' = r
        /\ UNCHANGED <<transcript, proposal, channel, run>>
        /\ \A q \in Receipts \ {r} : status'[q] = status[q] /\ ordinal'[q] = ordinal[q]
        /\ ordinal'[r] = Cardinality(Admitted) + 1
    BY <1>4 DEF QueueSteering, SteeringTypeOK, runJournal, loop, NextOrdinal
  <2>2. Ahead' = Ahead BY <2>1 DEF Ahead
  <2>3. ASSUME NEW q \in Receipts, status[q] = "queued"
        PROVE  q # r /\ ordinal'[q] = ordinal[q] /\ ordinal[q] < ordinal'[r]
    <3>1. q \in Admitted BY <2>3 DEF Admitted
    <3>2. ordinal[q] <= Cardinality(Admitted) /\ Cardinality(Admitted) \in Nat
      BY <3>1, FS_CardinalityType DEF OrdinalsOK
    <3>3. QED BY <1>0, <2>1, <2>3, <3>2
  <2>4. \A i \in Ahead : status[proposal[i]] = "queued" BY <2>1
  <2>5. \A j \in 1..Len(channel) : status[channel[j]] = "queued" BY <2>1
  <2>6. /\ \A i \in Ahead :
             /\ status'[proposal[i]] = "queued"
             /\ ordinal'[proposal[i]] = ordinal[proposal[i]]
             /\ ordinal'[proposal[i]] < ordinal'[r]
        /\ \A j \in 1..Len(channel) :
             /\ status'[channel[j]] = "queued"
             /\ ordinal'[channel[j]] = ordinal[channel[j]]
             /\ ordinal'[channel[j]] < ordinal'[r]
    <3>1. \A q \in Receipts : status[q] = "queued" => status'[q] = "queued"
      BY <2>1
    <3> HIDE DEF InMemoryOK
    <3>2. QED BY <1>0, <2>3, <2>4, <2>5, <3>1
  <2>7. QED BY <2>1, <2>2, <2>6
<1>5. ASSUME NEW q, q # NoHolder => q \in Receipts,
             \A p \in Receipts : p # q => status'[p] = status[p],
             UNCHANGED <<transcript, proposal, channel, ordinal, run>>,
             q = holder, holder' = NoHolder
      PROVE  InMemoryOK'
  <2>1. Ahead' = Ahead BY <1>5 DEF Ahead
  <2>2. \A i \in Ahead : proposal[i] # holder
    <3>1. CASE holder = NoHolder BY <1>0, <3>1, ReceiptAssumption
    <3>2. CASE holder # NoHolder
      <4>1. \A i \in Ahead : ordinal[proposal[i]] < ordinal[holder] BY <3>2
      <4>2. QED BY <1>0, <1>5, <3>2, <4>1
    <3>3. QED BY <3>1, <3>2
  <2>3. \A j \in 1..Len(channel) : channel[j] # holder
    <3>1. CASE holder = NoHolder BY <1>0, <3>1, ReceiptAssumption
    <3>2. CASE holder # NoHolder
      <4>1. \A j \in 1..Len(channel) : ordinal[channel[j]] < ordinal[holder] BY <3>2
      <4>2. QED BY <1>0, <1>5, <3>2, <4>1
    <3>3. QED BY <3>1, <3>2
  <2>4. QED BY <1>0, <1>5, <2>1, <2>2, <2>3
<1>6. CASE RejectSteering \/ RejectionFails
  BY <1>5, <1>6 DEF RejectSteering, RejectionFails, SteeringTypeOK, runJournal, records, loop
<1>7. CASE CheckpointReconciled
  <2>1. /\ holder = NoHolder /\ proposal' = <<>> /\ UNCHANGED <<run, ordinal, holder, channel>>
        /\ \A r \in Receipts : r \notin Proposed => status'[r] = status[r]
    BY <1>7 DEF CheckpointReconciled, inbox
  <2>2. Ahead' = {}
    <3>1. Len(transcript') \in Nat BY DEF SteeringTypeOK
    <3>2. QED BY <2>1, <3>1 DEF Ahead
  <2>3. \A j \in 1..Len(channel) : channel[j] \notin Proposed
    <3>1. SUFFICES ASSUME NEW j \in 1..Len(channel), channel[j] \in Proposed
                   PROVE  FALSE
      OBVIOUS
    <3>2. PICK i \in Ahead : proposal[i] = channel[j]
      BY <1>0, <3>1, ProposedIsAhead
    <3>3. ordinal[proposal[i]] < ordinal[channel[j]] OBVIOUS
    <3>4. QED BY <1>0, <3>2, <3>3
  <2>4. QED BY <1>0, <2>1, <2>2, <2>3
<1>8. CASE OwnerCrash
  <2>1. /\ UNCHANGED <<transcript, status, ordinal, run>>
        /\ holder' = NoHolder /\ channel' = <<>> /\ proposal' = <<>>
    BY <1>8 DEF OwnerCrash, runJournal, records
  <2>2. Len(transcript) \in Nat BY <1>0
  <2>3. Ahead' = {} BY <2>1, <2>2 DEF Ahead
  <2>4. QED BY <1>1, <2>1, <2>3
<1>9. CASE /\ holder = NoHolder
           /\ UNCHANGED <<channel, holder, proposal>>
           /\ \E s \in RunTerminal : FinishRun(s)
  <2>1. PICK s \in RunTerminal : FinishRun(s) BY <1>9
  <2>2. run' \notin RunActive
    BY <2>1 DEF FinishRun, RunClassified, RunActive, RunTerminal
  <2>3. Ahead' = Ahead /\ ordinal' = ordinal BY <1>9, <2>1 DEF Ahead, FinishRun
  <2>4. QED BY <1>9, <2>2, <2>3
<1>10. CASE \/ /\ UNCHANGED <<transcript, status, ordinal>>
               /\ Ahead' = Ahead /\ \A i \in Ahead : proposal'[i] = proposal[i]
               /\ UNCHANGED <<channel, holder>>
               /\ run' \in RunActive => run \in RunActive
            \/ /\ UNCHANGED <<transcript, status, ordinal, run, channel, holder>>
               /\ Ahead' = {}
  BY <1>1, <1>10
<1> HIDE DEF InMemoryOK
<1>11. QED
  BY <1>2, <1>3, <1>4, <1>6, <1>7, <1>8, <1>9, <1>10 DEF MemoryStep

\* Nothing queued is lost while something may still deliver it.
LEMMA NextCompleteOK ==
  ASSUME SteeringTypeOK, SteeringTypeOK', ControlOK, ControlOK', ProposalOK, InMemoryOK, CompleteOK,
         MemoryStep
  PROVE  CompleteOK'
<1> SUFFICES ASSUME Tracked', NEW r \in Queued' \ {holder'}
             PROVE  \/ \E i \in Ahead' : proposal'[i] = r
                    \/ \E j \in 1..Len(channel') : channel'[j] = r
  BY DEF CompleteOK
<1>0. /\ transcript \in Seq(Messages) /\ proposal \in Seq(Messages)
      /\ channel \in Seq(Receipts) /\ Len(channel) \in Nat
      /\ r \in Receipts /\ r # NoHolder
      /\ ownerUp' /\ ~poisoned'
  BY SMTT(30), ReceiptAssumption DEF SteeringTypeOK, Messages, Queued, Tracked
<1>1. ASSUME Tracked, r \in Queued \ {holder}
      PROVE  \/ \E i \in Ahead : proposal[i] = r
             \/ \E j \in 1..Len(channel) : channel[j] = r
  BY <1>1 DEF CompleteOK
<1>2. CASE /\ UNCHANGED <<transcript, status, ordinal>>
           /\ Ahead' = Ahead /\ \A i \in Ahead : proposal'[i] = proposal[i]
           /\ UNCHANGED <<channel, holder>>
           /\ Tracked' => Tracked
  BY <1>1, <1>2 DEF Queued
<1>3. CASE /\ UNCHANGED <<transcript, status, ordinal, run, holder>>
           /\ proposal' = transcript \o channel /\ channel' = <<>> /\ Ahead = {}
           /\ Tracked' => Tracked
  <2>1. PICK j \in 1..Len(channel) : channel[j] = r
    BY <1>1, <1>3 DEF Queued
  <2>2. QED BY <1>0, <1>3, <2>1, DrainedIsAhead
<1>4. CASE TrySend
  <2>1. /\ UNCHANGED <<transcript, proposal, status, ownerUp, poisoned, agent, writing>>
        /\ channel' = Append(channel, holder) /\ holder \in Receipts
    BY <1>4 DEF TrySend, SteeringTypeOK, runJournal, records, loop
  <2>2. Ahead' = Ahead /\ Tracked BY <2>1 DEF Ahead, Tracked
  <2>3. /\ Len(channel') = Len(channel) + 1 /\ channel'[Len(channel) + 1] = holder
        /\ \A j \in 1..Len(channel) : channel'[j] = channel[j]
    BY <1>0, <2>1
  <2>4. CASE r = holder BY <1>0, <2>3, <2>4
  <2>5. CASE r # holder
    <3>1. r \in Queued \ {holder} BY <2>1, <2>5 DEF Queued
    <3>2. QED BY <1>0, <1>1, <2>1, <2>2, <2>3, <3>1
  <2>6. QED BY <2>4, <2>5
<1>5. ASSUME NEW q \in Receipts, QueueSteering(q)
      PROVE  \/ \E i \in Ahead' : proposal'[i] = r
             \/ \E j \in 1..Len(channel') : channel'[j] = r
  <2>1. /\ holder = NoHolder /\ holder' = q
        /\ UNCHANGED <<transcript, proposal, channel, ownerUp, poisoned, agent, writing>>
        /\ \A p \in Receipts \ {q} : status'[p] = status[p]
    BY <1>5 DEF QueueSteering, SteeringTypeOK, runJournal, loop
  <2>2. Ahead' = Ahead /\ Tracked BY <2>1 DEF Ahead, Tracked
  <2>3. r \in Queued \ {holder} BY <1>0, <2>1 DEF Queued
  <2>4. QED BY <1>1, <2>1, <2>2, <2>3
<1>6. CASE RejectSteering
  <2>1. /\ UNCHANGED <<transcript, proposal, channel, ownerUp, poisoned, agent, writing>>
        /\ holder \in Receipts
        /\ status' = [status EXCEPT ![holder] = "not_applied"]
    BY <1>6 DEF RejectSteering, SteeringTypeOK, runJournal, loop
  <2>2. Ahead' = Ahead /\ Tracked BY <2>1 DEF Ahead, Tracked
  <2>3. r \in Queued \ {holder} BY <1>0, <2>1 DEF Queued, SteeringTypeOK
  <2>4. QED BY <1>1, <2>1, <2>2, <2>3
<1>7. CASE RejectionFails BY <1>0, <1>7 DEF RejectionFails
<1>8. CASE CheckpointReconciled
  <2>1. /\ writing = "canonical" /\ ~poisoned /\ UNCHANGED <<channel, holder, ownerUp>>
        /\ holder = NoHolder
        /\ \A p \in Receipts :
             status'[p] = IF p \notin Proposed THEN status[p]
                          ELSE IF p \in late THEN "not_applied" ELSE "applied"
    BY <1>8 DEF CheckpointReconciled, inbox
  <2>2. Tracked BY <1>0, <2>1 DEF Tracked
  <2>3. r \notin Proposed /\ r \in Queued \ {holder}
    BY <1>0, <2>1 DEF Queued
  <2>4. \A i \in Ahead : proposal[i] # r
    BY <1>0, <2>3, ProposedIsAhead
  <2>5. QED BY <1>1, <2>1, <2>2, <2>3, <2>4
<1>9. CASE OwnerCrash BY <1>0, <1>9 DEF OwnerCrash
<1>10. ASSUME NEW s \in RunTerminal, FinishRun(s) PROVE FALSE
  BY <1>0, <1>10 DEF FinishRun, Settled, Queued
<1>11. QED
  BY <1>2, <1>3, <1>4, <1>5, <1>6, <1>7, <1>8, <1>9, <1>10 DEF MemoryStep

\* The queue fits the channel: a receipt is queued only while there is room.
LEMMA NextBoundOK ==
  ASSUME SteeringTypeOK, OrdinalsOK, SteeringBoundOK, SteerStep
  PROVE  SteeringBoundOK'
<1>1. IsFiniteSet(Queued) /\ Cardinality(Queued) \in Nat
  BY Queued \in SUBSET Admitted, FS_Subset, FS_CardinalityType
     DEF OrdinalsOK, Queued, Admitted
<1>2. ASSUME Queued' \subseteq Queued PROVE SteeringBoundOK'
  <2>1. Cardinality(Queued') <= Cardinality(Queued) BY <1>1, <1>2, FS_Subset
  <2>2. Cardinality(Queued') \in Nat BY <1>1, <1>2, FS_Subset, FS_CardinalityType
  <2>3. QED BY <1>1, <2>1, <2>2, LimitAssumption DEF SteeringBoundOK
<1>3. CASE SteeringQuiet BY <1>2, <1>3 DEF SteeringQuiet, Queued
<1>4. ASSUME NEW r \in Receipts, QueueSteering(r) PROVE SteeringBoundOK'
  <2>1. r \notin Queued /\ Queued' = Queued \cup {r} /\ Cardinality(Queued) < MaxPending
    BY <1>4 DEF QueueSteering, Capacity, Queued, SteeringTypeOK
  <2>2. Cardinality(Queued') = Cardinality(Queued) + 1 BY <1>1, <2>1, FS_AddElement
  <2>3. QED BY <1>1, <2>1, <2>2, LimitAssumption DEF SteeringBoundOK
<1>5. CASE RejectSteering
  BY <1>2, <1>5 DEF RejectSteering, Queued, SteeringTypeOK
<1>6. CASE CheckpointReconciled
  BY <1>2, <1>6 DEF CheckpointReconciled, Queued
<1>7. ASSUME NEW s \in RunTerminal, FinishRun(s) PROVE SteeringBoundOK'
  BY <1>2, <1>7 DEF FinishRun, Settled, Queued
<1>8. QED BY <1>3, <1>4, <1>5, <1>6, <1>7 DEF SteerStep

-----------------------------------------------------------------------------
(* What becomes canonical.                                                 *)

\* Receipts of the accepted part were proposed, are not late, and lie there in
\* admission order.
LEMMA AcceptedReceipts ==
  ASSUME SteeringTypeOK, InMemoryOK
  PROVE  /\ \A n \in 1..Len(AcceptedPart) : AcceptedPart[n] \in Receipts =>
              AcceptedPart[n] \in Proposed \ late
         /\ \A n, m \in 1..Len(AcceptedPart) :
              AcceptedPart[n] \in Receipts /\ AcceptedPart[m] \in Receipts /\ n < m =>
                ordinal[AcceptedPart[n]] < ordinal[AcceptedPart[m]]
<1>1. transcript \in Seq(Messages) /\ proposal \in Seq(Messages)
  BY DEF SteeringTypeOK, Messages
<1>2. PICK pos \in [1..Len(AcceptedPart) -> 1..Len(Appended)] :
        /\ \A n \in 1..Len(AcceptedPart) :
             /\ AcceptedPart[n] = Appended[pos[n]]
             /\ AcceptedPart[n] \notin late
        /\ \A n, m \in 1..Len(AcceptedPart) : n < m => pos[n] < pos[m]
  BY <1>1, AcceptedPartFacts
<1>3. ASSUME NEW i \in 1..Len(Appended), NEW j \in 1..Len(Appended), i < j,
             Appended[i] \in Receipts, Appended[j] \in Receipts
      PROVE  ordinal[Appended[i]] < ordinal[Appended[j]]
  <2>1. /\ Len(transcript) + i \in Ahead /\ proposal[Len(transcript) + i] = Appended[i]
        /\ Len(transcript) + j \in Ahead /\ proposal[Len(transcript) + j] = Appended[j]
        /\ Len(transcript) + i < Len(transcript) + j
    BY SMTT(30), <1>1, <1>3, AppendedFacts DEF Ahead
  <2>2. \A a, b \in Ahead : a < b => ordinal[proposal[a]] < ordinal[proposal[b]]
    BY DEF InMemoryOK
  <2> DEFINE a == Len(transcript) + i
             b == Len(transcript) + j
  <2>3. a \in Ahead /\ b \in Ahead /\ a < b /\ proposal[a] = Appended[i]
        /\ proposal[b] = Appended[j]
    BY <2>1
  <2> HIDE DEF a, b
  <2>4. QED BY <2>2, <2>3
<1>4. ASSUME NEW n \in 1..Len(AcceptedPart), AcceptedPart[n] \in Receipts
      PROVE  AcceptedPart[n] \in Proposed \ late
  BY <1>2, <1>4 DEF Proposed, Guidance
<1>5. ASSUME NEW n \in 1..Len(AcceptedPart), NEW m \in 1..Len(AcceptedPart), n < m,
             AcceptedPart[n] \in Receipts, AcceptedPart[m] \in Receipts
      PROVE  ordinal[AcceptedPart[n]] < ordinal[AcceptedPart[m]]
  BY <1>2, <1>3, <1>5
<1>6. QED BY <1>4, <1>5

\* The steps that leave the history alone keep the applied receipts as they are.
LEMMA InitCanonical == SteeringInit => AppliedIsCanonical /\ AppliedFirst
  BY ReceiptAssumption DEF SteeringInit, AppliedIsCanonical, AppliedFirst, Texts

LEMMA CanonicalStays ==
  ASSUME AppliedIsCanonical, transcript' = transcript, index' = index,
         \A r \in Receipts : status'[r] = "applied" <=> status[r] = "applied",
         \A r \in Receipts : status[r] = "applied" => ordinal'[r] = ordinal[r]
  PROVE  AppliedIsCanonical'
  BY DEF AppliedIsCanonical

LEMMA NextAppliedFirst ==
  ASSUME SteeringTypeOK, ControlOK, OrdinalsOK, AppliedFirst, SteerStep
  PROVE  AppliedFirst'
<1> USE DEF AppliedFirst
<1>1. CASE SteeringQuiet BY <1>1 DEF SteeringQuiet
<1>2. ASSUME NEW q \in Receipts, QueueSteering(q) PROVE AppliedFirst'
  <2>1. /\ status[q] = "absent" /\ ordinal'[q] = Cardinality(Admitted) + 1
        /\ status'[q] = "queued"
        /\ \A p \in Receipts \ {q} : status'[p] = status[p] /\ ordinal'[p] = ordinal[p]
    BY <1>2 DEF QueueSteering, SteeringTypeOK, NextOrdinal
  <2>2. ASSUME NEW r \in Receipts, status[r] = "applied"
        PROVE  r # q /\ ordinal[r] < ordinal'[q]
    <3>1. r \in Admitted /\ ordinal[r] \in Nat BY <2>2 DEF Admitted, SteeringTypeOK
    <3>2. ordinal[r] <= Cardinality(Admitted) /\ Cardinality(Admitted) \in Nat
      BY <3>1, FS_CardinalityType DEF OrdinalsOK
    <3>3. QED BY <2>1, <2>2, <3>1, <3>2
  <2>3. QED BY <2>1, <2>2
<1>3. CASE RejectSteering
  BY <1>3 DEF RejectSteering, SteeringTypeOK
<1>4. CASE CheckpointReconciled
  <2>1. /\ ordinal' = ordinal /\ InOrder
        /\ \A p \in Receipts :
             status'[p] = IF p \notin Proposed THEN status[p]
                          ELSE IF p \in late THEN "not_applied" ELSE "applied"
    BY <1>4 DEF CheckpointReconciled
  <2>2. SUFFICES ASSUME NEW r \in Receipts, NEW q \in Receipts,
                        status'[r] = "applied", status'[q] = "queued"
                 PROVE  ordinal[r] < ordinal[q]
    BY <2>1
  <2>3. q \notin Proposed /\ status[q] = "queued" BY <2>1, <2>2
  <2>4. CASE r \notin Proposed BY <2>1, <2>2, <2>3, <2>4
  <2>5. CASE r \in Proposed
    <3>1. PICK i \in Guidance : Appended[i] = r BY <2>5 DEF Proposed
    <3>2. ~(ordinal[q] < ordinal[r])
      BY <2>1, <2>3, <3>1 DEF InOrder, Proposed, Queued
    <3>3. status[r] = "queued" BY <2>1, <3>1 DEF InOrder
    <3>4. ordinal[q] # ordinal[r]
      BY <2>3, <2>5, <3>3 DEF OrdinalsOK, Admitted
    <3>5. ordinal[q] \in Nat /\ ordinal[r] \in Nat BY DEF SteeringTypeOK
    <3>6. QED BY <3>2, <3>4, <3>5
  <2>6. QED BY <2>4, <2>5
<1>5. ASSUME NEW s \in RunTerminal, FinishRun(s) PROVE AppliedFirst'
  BY <1>5 DEF FinishRun, Settled
<1>6. QED BY <1>1, <1>2, <1>3, <1>4, <1>5 DEF SteerStep

\* A receipt becomes canonical once, at its index, after those admitted before it.
LEMMA NextCanonical ==
  ASSUME SteeringTypeOK, ControlOK, OrdinalsOK, InMemoryOK, AppliedFirst,
         AppliedIsCanonical, SteerStep
  PROVE  AppliedIsCanonical'
<1>1. CASE SteeringQuiet BY <1>1, CanonicalStays DEF SteeringQuiet
<1>2. ASSUME NEW q \in Receipts, QueueSteering(q) PROVE AppliedIsCanonical'
  BY <1>2, CanonicalStays DEF QueueSteering, SteeringTypeOK, runJournal
<1>3. CASE RejectSteering
  BY <1>3, CanonicalStays DEF RejectSteering, SteeringTypeOK, runJournal, ControlOK
<1>4. ASSUME NEW s \in RunTerminal, FinishRun(s) PROVE AppliedIsCanonical'
  BY <1>4, CanonicalStays DEF FinishRun, Settled
<1>5. CASE CheckpointReconciled
  <2> DEFINE H == Len(transcript)
             K == Len(AcceptedPart)
             New == Proposed \ late
  <2>1. /\ transcript \in Seq(Messages) /\ proposal \in Seq(Messages)
        /\ AcceptedPart \in Seq(Messages) /\ H \in Nat /\ K \in Nat
        /\ index \in [Receipts -> Nat]
    BY AcceptedPartFacts DEF SteeringTypeOK, Messages
  <2>2. /\ transcript' = transcript \o AcceptedPart /\ ordinal' = ordinal /\ InOrder
        /\ \A p \in Receipts :
             status'[p] = IF p \notin Proposed THEN status[p]
                          ELSE IF p \in late THEN "not_applied" ELSE "applied"
        /\ \A p \in Receipts :
             index'[p] = IF p \in New THEN CanonicalIndex(p) ELSE index[p]
    BY <1>5 DEF CheckpointReconciled
  <2>3. /\ Len(transcript') = H + K
        /\ \A i \in 1..H : transcript'[i] = transcript[i] /\ i \in 1..H + K
        /\ \A n \in 1..K : transcript'[H + n] = AcceptedPart[n] /\ H + n \in 1..H + K
        /\ \A i \in 1..H + K : i \in 1..H \/ (i - H \in 1..K /\ i = H + (i - H))
    BY <2>1, <2>2
  <2>4. \A p \in Proposed : p \in Receipts /\ status[p] = "queued"
    BY <2>2 DEF Proposed, Guidance, InOrder
  <2>5. ASSUME NEW p \in Receipts, p \notin New
        PROVE  \A i \in 1..H + K : transcript'[i] = p <=> i \in 1..H /\ transcript[i] = p
    <3>1. \A n \in 1..K : AcceptedPart[n] # p BY <2>5, AcceptedReceipts
    <3>2. QED BY <2>1, <2>3, <3>1
  <2>6. ASSUME NEW p \in New
        PROVE  /\ index'[p] \in 1..H + K /\ index'[p] > H
               /\ index'[p] - H \in 1..K /\ AcceptedPart[index'[p] - H] = p
               /\ transcript'[index'[p]] = p
               /\ \A i \in 1..H + K : transcript'[i] = p => i = index'[p]
    <3>1. index'[p] = CanonicalIndex(p) BY <2>2, <2>4
    <3>2. /\ index'[p] \in Nat /\ index'[p] > H
          /\ index'[p] - H \in 1..K /\ AcceptedPart[index'[p] - H] = p
      BY <2>1, <3>1, CanonicalIndexFacts
    <3>3. index'[p] \in 1..H + K /\ transcript'[index'[p]] = p
      <4>1. index'[p] = H + (index'[p] - H) BY <2>1, <3>2
      <4>2. QED BY <2>3, <3>2, <4>1
    <3>4. \A i \in 1..H : transcript[i] # p
      BY <2>4 DEF AppliedIsCanonical
    <3>5. ASSUME NEW n \in 1..K, AcceptedPart[n] = p PROVE n = index'[p] - H
      <4> DEFINE m == index'[p] - H
      <4>1. m \in 1..K /\ AcceptedPart[m] = p BY <3>2
      <4> HIDE DEF m
      <4>2. p \in Receipts /\ ordinal[p] \in Nat BY <2>4 DEF SteeringTypeOK
      <4>3. ~(n < m) /\ ~(m < n)
        BY <3>5, <4>1, <4>2, AcceptedReceipts
      <4>4. n = m BY <4>1, <4>3
      <4>5. QED BY <4>4 DEF m
    <3>6. ASSUME NEW i \in 1..H + K, transcript'[i] = p PROVE i = index'[p]
      <4>1. i \notin 1..H BY <2>3, <3>4, <3>6
      <4>2. i - H \in 1..K /\ i = H + (i - H) BY <2>3, <4>1
      <4>3. AcceptedPart[i - H] = p BY <2>3, <3>6, <4>2
      <4>4. i - H = index'[p] - H BY <3>5, <4>2, <4>3
      <4>5. QED BY <2>1, <3>2, <4>4
    <3>7. QED BY <3>2, <3>3, <3>6
  <2>7. ASSUME NEW p \in Receipts
        PROVE  /\ (status'[p] = "applied") <=> (\E i \in 1..H + K : transcript'[i] = p)
               /\ status'[p] = "applied" =>
                    {i \in 1..H + K : transcript'[i] = p} = {index'[p]}
    <3>1. CASE p \in New
      <4>1. status'[p] = "applied" BY <2>2, <2>4, <3>1
      <4>2. QED BY <2>6, <3>1, <4>1
    <3>2. CASE p \notin New
      <4>1. (status'[p] = "applied") <=> (status[p] = "applied")
        BY <2>2, <2>4, <3>2
      <4>2. index'[p] = index[p] BY <2>2, <3>2
      <4>3. (status[p] = "applied") <=> (\E i \in 1..H : transcript[i] = p)
        BY DEF AppliedIsCanonical
      <4>4. status[p] = "applied" => {i \in 1..H : transcript[i] = p} = {index[p]}
        BY DEF AppliedIsCanonical
      <4>5. {i \in 1..H + K : transcript'[i] = p} = {i \in 1..H : transcript[i] = p}
        BY <2>3, <2>5, <3>2
      <4>6. (\E i \in 1..H + K : transcript'[i] = p) <=> (\E i \in 1..H : transcript[i] = p)
        BY <2>3, <2>5, <3>2
      <4>7. QED BY <4>1, <4>2, <4>3, <4>4, <4>5, <4>6
    <3>3. QED BY <3>1, <3>2
  <2>8. ASSUME NEW r \in Receipts, NEW q \in Receipts, status'[r] = "applied",
               status'[q] = "applied", ordinal[r] < ordinal[q]
        PROVE  index'[r] < index'[q]
    <3>0. ordinal[r] \in Nat /\ ordinal[q] \in Nat BY DEF SteeringTypeOK
    <3>1. ASSUME NEW p \in Receipts, status'[p] = "applied", p \notin New
          PROVE  status[p] = "applied" /\ index'[p] = index[p] /\ index[p] \in 1..H
      <4>1. status[p] = "applied" /\ index'[p] = index[p]
        BY <2>2, <2>4, <3>1
      <4>2. {i \in 1..H : transcript[i] = p} = {index[p]}
        BY <4>1 DEF AppliedIsCanonical
      <4>3. QED BY <4>1, <4>2
    <3>2. CASE r \notin New /\ q \notin New
      <4>1. index[r] < index[q]
        BY <2>8, <3>1, <3>2 DEF AppliedIsCanonical
      <4>2. QED BY <2>8, <3>1, <3>2, <4>1
    <3>3. CASE r \notin New /\ q \in New
      BY <2>1, <2>6, <2>8, <3>1, <3>3
    <3>4. CASE r \in New /\ q \notin New
      <4>1. status[q] = "applied" /\ status[r] = "queued"
        BY <2>4, <2>8, <3>1, <3>4
      <4>2. ordinal[q] < ordinal[r] BY <4>1 DEF AppliedFirst
      <4>3. QED BY <2>8, <3>0, <4>2
    <3>5. CASE r \in New /\ q \in New
      <4> DEFINE n == index'[r] - H
                 m == index'[q] - H
      <4>1. n \in 1..K /\ m \in 1..K /\ AcceptedPart[n] = r /\ AcceptedPart[m] = q
        BY <2>6, <3>5
      <4>2. index'[r] \in Nat /\ index'[q] \in Nat BY <2>6, <3>5
      <4>3. (n < m) => index'[r] < index'[q] BY <2>1, <4>2
      <4> HIDE DEF n, m
      <4>4. ~(m < n) BY <2>8, <3>0, <4>1, AcceptedReceipts
      <4>5. m # n BY <2>8, <3>0, <4>1
      <4>6. n < m BY <4>1, <4>4, <4>5
      <4>7. QED BY <4>3, <4>6
    <3>6. QED BY <3>2, <3>3, <3>4, <3>5
  <2>9. QED BY <2>2, <2>3, <2>7, <2>8 DEF AppliedIsCanonical
<1>6. QED BY <1>1, <1>2, <1>3, <1>4, <1>5 DEF SteerStep

-----------------------------------------------------------------------------
(* Reasons and settlement.                                                 *)

\* There is room in the channel for the receipt that is being delivered.
LEMMA ChannelFits ==
  ASSUME SteeringTypeOK, ControlOK, OrdinalsOK, InMemoryOK, SteeringBoundOK, holder # NoHolder
  PROVE  Len(channel) < MaxPending
<1> DEFINE others == Queued \ {holder}
           place == [j \in 1..Len(channel) |-> channel[j]]
<1>1. IsFiniteSet(Queued) /\ Cardinality(Queued) \in Nat
  BY Queued \in SUBSET Admitted, FS_Subset, FS_CardinalityType
     DEF OrdinalsOK, Queued, Admitted
<1>2. holder \in Queued /\ run \in RunActive /\ holder \in Receipts
  BY DEF ControlOK, SteeringTypeOK, Queued
<1>3. IsFiniteSet(others) /\ Cardinality(others) = Cardinality(Queued) - 1
  BY <1>1, <1>2, FS_RemoveElement
<1>4. Len(channel) \in Nat /\ \A j \in 1..Len(channel) : channel[j] \in Receipts
  BY DEF SteeringTypeOK
<1>5. ASSUME NEW j \in 1..Len(channel) PROVE channel[j] \in others
  <2>1. status[channel[j]] = "queued" /\ ordinal[channel[j]] < ordinal[holder]
    BY <1>2 DEF InMemoryOK
  <2>2. ordinal[holder] \in Nat BY <1>2 DEF SteeringTypeOK
  <2>3. channel[j] # holder BY <2>1, <2>2
  <2>4. QED BY <1>4, <2>1, <2>3 DEF Queued
<1>6. \A i, j \in 1..Len(channel) : channel[i] = channel[j] => i = j
  <2>1. SUFFICES ASSUME NEW i \in 1..Len(channel), NEW j \in 1..Len(channel), i < j
                 PROVE  channel[i] # channel[j]
    BY <1>4
  <2>2. ordinal[channel[i]] < ordinal[channel[j]] BY <2>1 DEF InMemoryOK
  <2>3. ordinal[channel[i]] \in Nat /\ ordinal[channel[j]] \in Nat
    BY <1>4 DEF SteeringTypeOK
  <2>4. QED BY <2>2, <2>3
<1>7. place \in Injection(1..Len(channel), others)
  <2> HIDE DEF others
  <2>1. place \in [1..Len(channel) -> others] BY <1>5
  <2>2. QED BY <1>6, <2>1 DEF Injection, IsInjective
<1> HIDE DEF others, place
<1>8. Cardinality(1..Len(channel)) <= Cardinality(others)
  BY <1>3, <1>7, FS_Injection
<1>9. Cardinality(1..Len(channel)) = Len(channel)
  <2>1. 1 \in Int /\ Len(channel) \in Int BY <1>4
  <2>2. Cardinality(1..Len(channel)) = IF 1 > Len(channel) THEN 0 ELSE Len(channel) - 1 + 1
    BY <2>1, FS_Interval
  <2>3. QED BY <1>4, <2>2
<1>10. QED BY <1>1, <1>3, <1>4, <1>8, <1>9, LimitAssumption DEF SteeringBoundOK

LEMMA InitReasonsOK == SteeringInit => ReasonsOK
  BY DEF SteeringInit, ReasonsOK, TerminalSettles, RunTerminal

\* Settled receipts have a reason or a position, and no other receipt has one.
LEMMA NextReasonsOK ==
  ASSUME SteeringTypeOK, ControlOK, OrdinalsOK, InMemoryOK, SteeringBoundOK, ReasonsOK, SteerStep
  PROVE  ReasonsOK'
<1> USE DEF ReasonsOK, TerminalSettles
<1>1. CASE SteeringQuiet
  BY <1>1 DEF SteeringQuiet, Queued, RunActive, RunTerminal
<1>2. ASSUME NEW r \in Receipts, QueueSteering(r) PROVE ReasonsOK'
  BY <1>2 DEF QueueSteering, SteeringTypeOK, runJournal, Queued, RunActive, RunTerminal
<1>3. CASE RejectSteering
  <2>1. holder # NoHolder /\ holder \in Receipts /\ ~Accepting
    BY <1>3 DEF RejectSteering, SteeringTypeOK
  <2>2. ~open
    BY <2>1, ChannelFits, LimitAssumption DEF Accepting, SteeringTypeOK
  <2>3. /\ status' = [status EXCEPT ![holder] = "not_applied"]
        /\ reason' = [reason EXCEPT ![holder] = "Closed"]
        /\ index' = index /\ run' = run /\ run \in RunActive
        /\ status[holder] = "queued"
    BY <1>3, <2>1, <2>2 DEF RejectSteering, runJournal, ControlOK
  <2>4. QED BY <2>1, <2>3 DEF SteeringTypeOK, RunActive, RunTerminal
<1>4. CASE CheckpointReconciled
  <2>1. transcript \in Seq(Messages) /\ proposal \in Seq(Messages)
        /\ Len(transcript) \in Nat
    BY DEF SteeringTypeOK, Messages
  <2>2. /\ run = "Running" /\ run' = run
        /\ \A p \in Receipts :
             /\ status'[p] = IF p \notin Proposed THEN status[p]
                             ELSE IF p \in late THEN "not_applied" ELSE "applied"
             /\ reason'[p] = IF p \in Proposed \cap late THEN "Expired" ELSE reason[p]
             /\ index'[p] = IF p \in Proposed \ late THEN CanonicalIndex(p) ELSE index[p]
    BY <1>4 DEF CheckpointReconciled
  <2>3. \A p \in Proposed : status[p] = "queued"
    BY <1>4 DEF CheckpointReconciled, InOrder, Proposed
  <2>4. \A p \in Proposed \ late : CanonicalIndex(p) # 0
    BY <2>1, CanonicalIndexFacts
  <2>5. QED BY <2>2, <2>3, <2>4 DEF RunTerminal
<1>5. ASSUME NEW s \in RunTerminal, FinishRun(s) PROVE ReasonsOK'
  <2>1. /\ run \in RunActive /\ run' = RunClassified(s) /\ run' \in RunTerminal
        /\ index' = index
        /\ run' = "Completed" => Queued = {}
        /\ \A r \in Receipts :
             /\ status'[r] = IF status[r] = "queued" THEN "not_applied" ELSE status[r]
             /\ reason'[r] = IF status[r] = "queued" THEN SettleReason(run') ELSE reason[r]
    BY <1>5 DEF FinishRun, Settled, RunClassified, RunTerminal, FinishAllowed
  <2>2. SettleReason(run') # "none" /\ SettleReason(run') # "QueueFull"
    BY DEF SettleReason
  <2>3. run' \notin RunActive BY <2>1 DEF RunActive, RunTerminal
  <2>4. QED BY <2>1, <2>2, <2>3 DEF Queued
<1>6. QED BY <1>1, <1>2, <1>3, <1>4, <1>5 DEF SteerStep

-----------------------------------------------------------------------------
(* The answer.                                                             *)

\* A write that proposes the history as it is changes nothing.
LEMMA NothingAppended ==
  ASSUME SteeringTypeOK, proposal = transcript \/ AcceptedPart = <<>>
  PROVE  transcript \o AcceptedPart = transcript
<1>1. /\ transcript \in Seq(Messages) /\ proposal \in Seq(Messages)
      /\ AcceptedPart \in Seq(Messages) /\ Len(AcceptedPart) \in Nat
      /\ Len(transcript) \in Nat
  BY AcceptedPartFacts DEF SteeringTypeOK, Messages
<1>2. CASE proposal = transcript
  <2>1. Len(Appended) = 0 BY <1>1, <1>2, AppendedFacts
  <2>2. PICK pos \in [1..Len(AcceptedPart) -> 1..Len(Appended)] : TRUE
    BY <1>1, AcceptedPartFacts
  <2>3. Len(AcceptedPart) = 0
    <3>1. SUFFICES ASSUME Len(AcceptedPart) # 0 PROVE FALSE
      OBVIOUS
    <3>2. 1 \in 1..Len(AcceptedPart) BY <1>1, <3>1
    <3>3. pos[1] \in 1..Len(Appended) BY <2>2, <3>2
    <3>4. QED BY <2>1, <3>3
  <2>4. AcceptedPart = <<>> BY <1>1, <2>3
  <2>5. QED BY <1>1, <2>4
<1>3. CASE AcceptedPart = <<>> BY <1>1, <1>3
<1>4. QED BY <1>2, <1>3

\* The checkpoint of an answer makes the answer the last message.
LEMMA AnswerAppended ==
  ASSUME SteeringTypeOK, proposal = Append(transcript, "answer"),
         transcript' = transcript \o AcceptedPart
  PROVE  EndsInAnswer'
<1>1. /\ transcript \in Seq(Messages) /\ proposal \in Seq(Messages)
      /\ AcceptedPart \in Seq(Messages) /\ Len(AcceptedPart) \in Nat
      /\ Len(transcript) \in Nat
  BY AcceptedPartFacts DEF SteeringTypeOK, Messages
<1>2. Len(Appended) = 1 /\ Appended[1] = "answer"
  <2>1. /\ Len(proposal) = Len(transcript) + 1
        /\ proposal[Len(transcript) + 1] = "answer"
    BY <1>1
  <2>2. Len(Appended) = 1
    <3>1. Len(transcript) <= Len(proposal) /\ Len(proposal) - Len(transcript) = 1
      BY <1>1, <2>1
    <3>2. QED BY <1>1, <3>1, AppendedFacts
  <2>3. QED BY <1>1, <2>1, <2>2, AppendedFacts
<1>3. "answer" \notin late
  BY ReceiptAssumption DEF SteeringTypeOK, Texts
<1>4. PICK pos \in [1..Len(AcceptedPart) -> 1..Len(Appended)] :
        /\ \A n \in 1..Len(AcceptedPart) : AcceptedPart[n] = Appended[pos[n]]
        /\ \A i \in 1..Len(Appended) : Appended[i] \notin late =>
             \E n \in 1..Len(AcceptedPart) : pos[n] = i
  BY <1>1, AcceptedPartFacts
<1>5. Len(AcceptedPart) >= 1 BY <1>1, <1>2, <1>3, <1>4
<1>6. AcceptedPart[Len(AcceptedPart)] = "answer"
  <2>1. Len(AcceptedPart) \in 1..Len(AcceptedPart) BY <1>1, <1>5
  <2>2. pos[Len(AcceptedPart)] = 1 BY <1>2, <1>4, <2>1
  <2>3. QED BY <1>2, <1>4, <2>1, <2>2
<1>7. QED BY <1>1, <1>5, <1>6 DEF EndsInAnswer

LEMMA InitAnswerOK == SteeringInit => SteeringAnswerOK
  BY DEF SteeringInit, SteeringAnswerOK

\* From the response on the answer stays last, whatever the guidance does.
LEMMA NextAnswerOK ==
  ASSUME SteeringTypeOK, ControlOK, SteeringAnswerOK, [SteeringNext]_steeringVars
  PROVE  SteeringAnswerOK'
<1> USE DEF SteeringAnswerOK, EndsInAnswer, runJournal, records, inbox, loop
<1>1. CASE UNCHANGED steeringVars BY <1>1 DEF steeringVars
<1>2. ASSUME NEW r \in Receipts, QueueSteering(r) \/ ClockMoves(r) PROVE SteeringAnswerOK'
  BY <1>2 DEF QueueSteering, ClockMoves
<1>3. CASE TrySend BY <1>3 DEF TrySend, Accepting
<1>4. CASE RejectSteering \/ RejectionFails
  BY <1>4 DEF RejectSteering, RejectionFails
<1>5. CASE MarkRunRunning BY <1>5 DEF MarkRunRunning
<1>6. CASE ContinuationOffered \/ StopIncomplete \/ AgentFails \/ TerminalFails
           \/ GraceElapses \/ RequestCancel
  BY <1>6 DEF ContinuationOffered, StopIncomplete, AgentFails, TerminalFails,
     GraceElapses, RequestCancel
<1>7. CASE NothingDrained
  BY <1>7 DEF NothingDrained, ClosedWhenEmpty
<1>8. CASE DrainBeforeRequest \/ ProviderInterrupted \/ ProviderCalls \/ ToolFinished
  BY <1>8 DEF DrainBeforeRequest, ProviderInterrupted, ProviderCalls, ToolFinished,
     Propose
<1>9. CASE ProviderAnswers BY <1>9 DEF ProviderAnswers, Propose
<1>10. CASE DrainAfterAnswer \/ DrainUnderLease
  BY <1>10 DEF DrainAfterAnswer, DrainUnderLease, Propose
<1>11. CASE CloseUnderLease
  BY <1>11 DEF CloseUnderLease, Propose, ClosedWhenEmpty
<1>12. CASE ProposeAcceptance BY <1>12 DEF ProposeAcceptance
<1>13. CASE CheckpointReconciled
  <2>1. /\ writing = "canonical" /\ run = "Running" /\ run' = run
        /\ transcript' = transcript \o AcceptedPart
        /\ final' = IF proposal = transcript THEN final ELSE FALSE
        /\ writing' = "none" /\ UNCHANGED <<channel, open>>
        /\ agent' = IF agent = "writing" THEN AfterCheckpoint(AcceptedPart # <<>>)
                    ELSE agent
    BY <1>13 DEF CheckpointReconciled, Return
  <2>2. final' => EndsInAnswer'
    BY <2>1, NothingAppended
  <2>3. CASE agent # "writing"
    <3>1. agent' \notin {"answered", "closing", "sealed", "writing"}
      BY <2>1, <2>3 DEF ControlOK, Executing
    <3>2. QED BY <2>1, <2>2, <3>1
  <2>4. CASE agent = "writing"
    <3>1. site = "answer" => EndsInAnswer'
      BY <2>1, <2>4, AnswerAppended
    <3>2. site \in {"drained", "closing", "final"} /\ AcceptedPart = <<>> => EndsInAnswer'
      BY <2>1, <2>4, NothingAppended
    <3>3. site = "final" => EndsInAnswer'
      BY <2>1, <2>4, NothingAppended
    <3>4. /\ agent' = "answered" =>
               site = "answer" \/ (site = "drained" /\ AcceptedPart = <<>>)
          /\ agent' = "closing" => site = "closing" /\ AcceptedPart = <<>>
          /\ agent' = "sealed" => site = "final"
          /\ agent' # "writing"
      BY <2>1, <2>4 DEF AfterCheckpoint, SteeringTypeOK, Site
    <3>5. agent' = "sealed" => channel' = <<>> /\ ~open'
      BY <2>1, <2>4, <3>4
    <3>6. QED BY <2>1, <2>2, <3>1, <3>2, <3>3, <3>4, <3>5
  <2>5. QED BY <2>3, <2>4
<1>14. CASE AcceptFinal
  BY <1>14 DEF AcceptFinal, Acceptable, Return, ControlOK, Executing
<1>15. CASE WriteFails
  BY <1>15 DEF WriteFails, Return, ControlOK, Executing
<1>16. ASSUME NEW s \in RunTerminal, FinishRun(s) PROVE run' = "Completed" => EndsInAnswer'
  BY <1>16 DEF FinishRun, FinishAllowed
<1>17. CASE (\E s \in RunTerminal : PersistTerminal(s)) \/ FinishRunUnfinalized
            \/ RecoverRun
  <2>1. /\ UNCHANGED <<transcript, final, writing, site, proposal, channel, open>>
        /\ run' = "Completed" => EndsInAnswer'
        /\ agent' = "gone" \/ agent' = agent
    BY <1>16, <1>17 DEF PersistTerminal, FinishRunUnfinalized, RecoverRun,
       FinishRun, RunTerminal
  <2>2. QED BY <2>1
<1>18. CASE OwnerCrash BY <1>18 DEF OwnerCrash
<1> HIDE DEF SteeringAnswerOK, EndsInAnswer, runJournal, records, inbox, loop
<1>19. QED
  BY <1>1, <1>2, <1>3, <1>4, <1>5, <1>6, <1>7, <1>8, <1>9, <1>10, <1>11, <1>12,
     <1>13, <1>14, <1>15, <1>17, <1>18
     DEF SteeringNext, SubmissionStep, AgentStep, WorkerStep, EndStep

-----------------------------------------------------------------------------
(* The theorems.                                                           *)

\* The invariant is inductive: every step that starts in it ends in it.
LEMMA InitIInv == SteeringInit => SteeringIInv
  BY InitTypeOK, InitControlOK, InitOrdinalsOK, InitMemory, InitCanonical,
     InitReasonsOK, InitAnswerOK DEF SteeringIInv

LEMMA NextIInv == SteeringIInv /\ [SteeringNext]_steeringVars => SteeringIInv'
<1> SUFFICES ASSUME SteeringIInv, [SteeringNext]_steeringVars PROVE SteeringIInv'
  OBVIOUS
<1> USE DEF SteeringIInv
<1>1. SteerStep BY StepIsSteerStep
<1>2. MemoryStep BY StepIsMemoryStep
<1>3. SteeringTypeOK'
  <2>1. IsFiniteSet(Admitted) BY DEF OrdinalsOK
  <2>2. SteeringTypeOK BY DEF SteeringIInv
  <2> HIDE DEF SteeringIInv
  <2>3. QED BY <1>1, <2>1, <2>2, RecordTypes, ThreadTypes DEF SteeringTypeOK
<1>4. ControlOK' BY NextControlOK
<1>5. ProposalOK' BY NextProposalOK
<1>6. OrdinalsOK' BY <1>1, NextOrdinalsOK
<1>7. InMemoryOK' BY <1>2, <1>3, NextInMemoryOK
<1>8. CompleteOK' BY <1>2, <1>3, <1>4, NextCompleteOK
<1>9. SteeringBoundOK' BY <1>1, NextBoundOK
<1>10. AppliedFirst' BY <1>1, NextAppliedFirst
<1>11. AppliedIsCanonical' BY <1>1, NextCanonical
<1>12. ReasonsOK' BY <1>1, NextReasonsOK
<1>13. SteeringAnswerOK' BY NextAnswerOK
<1>14. QED
  BY <1>3, <1>4, <1>5, <1>6, <1>7, <1>8, <1>9, <1>10, <1>11, <1>12, <1>13

\* Every reachable state satisfies it.
THEOREM SteeringInvariant == SteeringSpec => []SteeringIInv
  BY InitIInv, NextIInv, PTL DEF SteeringSpec

\* A queued write proposes guidance in admission order, with nothing left out.
LEMMA ProposedInOrder ==
  ASSUME SteeringIInv, writing = "canonical", run = "Running", ~poisoned
  PROVE  InOrder
<1>0. /\ SteeringTypeOK /\ transcript \in Seq(Messages) /\ proposal \in Seq(Messages)
      /\ Len(transcript) \in Nat /\ run \in RunActive
      /\ \A r \in Receipts : ordinal[r] \in Nat
  BY DEF SteeringIInv, SteeringTypeOK, Messages, RunActive
<1>1. Tracked BY DEF SteeringIInv, ControlOK, Tracked, SteeringTypeOK
<1>2. SUFFICES ASSUME NEW i \in Guidance
               PROVE  /\ status[Appended[i]] = "queued"
                      /\ \A r \in Queued : ordinal[r] < ordinal[Appended[i]] =>
                           \E j \in Guidance : j < i /\ Appended[j] = r
  BY DEF InOrder
<1>3. i \in 1..Len(Appended) /\ Appended[i] \in Receipts BY DEF Guidance
<1> DEFINE a == Len(transcript) + i
<1>4. a \in Ahead /\ proposal[a] = Appended[i]
  BY <1>0, <1>3, AppendedFacts DEF Ahead
<1>5. status[Appended[i]] = "queued"
  <2> HIDE DEF a
  <2>1. QED BY <1>0, <1>4 DEF SteeringIInv, InMemoryOK
<1>6. ASSUME NEW r \in Queued, ordinal[r] < ordinal[Appended[i]]
      PROVE  \E j \in Guidance : j < i /\ Appended[j] = r
  <2> HIDE DEF a
  <2>0. r \in Receipts /\ r # NoHolder BY ReceiptAssumption DEF Queued
  <2>1. r # holder
    <3>1. holder # NoHolder => ordinal[proposal[a]] < ordinal[holder]
      BY <1>4 DEF SteeringIInv, InMemoryOK
    <3>2. QED BY <1>0, <1>3, <1>4, <1>6, <2>0, <3>1
  <2>2. ~\E j \in 1..Len(channel) : channel[j] = r
    <3>1. \A j \in 1..Len(channel) : ordinal[proposal[a]] < ordinal[channel[j]]
      BY <1>4 DEF SteeringIInv, InMemoryOK
    <3>2. QED BY <1>0, <1>3, <1>4, <1>6, <2>0, <3>1
  <2>3. PICK k \in Ahead : proposal[k] = r
    BY <1>1, <2>1, <2>2 DEF SteeringIInv, CompleteOK
  <2>4. ~(a < k) /\ a # k
    <3>1. a < k => ordinal[proposal[a]] < ordinal[proposal[k]]
      BY <1>4, <2>3 DEF SteeringIInv, InMemoryOK
    <3>2. QED BY <1>0, <1>3, <1>4, <1>6, <2>0, <2>3, <3>1
  <2>5. k \in Len(transcript) + 1..Len(proposal) BY <2>3 DEF Ahead
  <2>6. k - Len(transcript) \in 1..Len(Appended) /\ Appended[k - Len(transcript)] = r
    BY <1>0, <2>3, <2>5, AppendedFacts
  <2>7. k - Len(transcript) < i
    BY <1>0, <1>3, <2>4, <2>5 DEF a
  <2>8. QED BY <2>0, <2>6, <2>7 DEF Guidance
<1>7. QED BY <1>5, <1>6

\* A queued receipt lies in one place in memory, once.
LEMMA NothingIsStranded ==
  ASSUME SteeringIInv
  PROVE  NothingStranded
<1>1. SUFFICES ASSUME agent \in Executing, ~poisoned, NEW r \in Receipts \ {holder}
               PROVE  Cardinality(Positions(channel, r))
                        + (IF writing = "none" THEN 0
                           ELSE Cardinality({i \in Positions(proposal, r) :
                                               i > Len(transcript)}))
                      = IF status[r] = "queued" THEN 1 ELSE 0
  BY DEF NothingStranded
<1> DEFINE C == Positions(channel, r)
           P == {i \in Ahead : proposal[i] = r}
<1>2. /\ run \in RunActive /\ Tracked /\ r \in Receipts /\ ordinal[r] \in Nat
      /\ Len(transcript) \in Nat /\ Len(proposal) \in Nat /\ Len(channel) \in Nat
      /\ transcript \in Seq(Messages)
  BY <1>1 DEF SteeringIInv, SteeringTypeOK, ControlOK, Tracked, RunActive, Executing, Messages
<1>3. (IF writing = "none" THEN 0
       ELSE Cardinality({i \in Positions(proposal, r) : i > Len(transcript)}))
      = Cardinality(P)
  <2>1. CASE writing = "none"
    <3>1. P = {} BY <1>2, <2>1, NothingAhead DEF SteeringIInv, ProposalOK
    <3>2. QED BY <2>1, <3>1, FS_EmptySet
  <2>2. CASE writing # "none"
    <3>1. {i \in Positions(proposal, r) : i > Len(transcript)} = P
      BY <1>2 DEF Positions, Ahead
    <3>2. QED BY <2>2, <3>1
  <2>3. QED BY <2>1, <2>2
<1>4. \A i, j \in P : i = j
  <2>1. \A i, j \in Ahead : i < j => ordinal[proposal[i]] < ordinal[proposal[j]]
    BY DEF SteeringIInv, InMemoryOK
  <2>2. \A i, j \in P : ~(i < j) BY <1>2, <2>1
  <2>3. \A i \in P : i \in Int BY <1>2 DEF Ahead
  <2> HIDE DEF P
  <2>4. QED BY <2>2, <2>3
<1>5. \A i, j \in C : i = j
  <2>1. \A i, j \in 1..Len(channel) : i < j => ordinal[channel[i]] < ordinal[channel[j]]
    BY DEF SteeringIInv, InMemoryOK
  <2>2. \A i, j \in C : ~(i < j) BY <1>2, <2>1 DEF Positions
  <2>3. \A i \in C : i \in Int BY <1>2 DEF Positions
  <2> HIDE DEF C
  <2>4. QED BY <2>2, <2>3
<1>6. P = {} \/ C = {}
  <2>1. \A i \in Ahead : \A j \in 1..Len(channel) :
          ordinal[proposal[i]] < ordinal[channel[j]]
    BY DEF SteeringIInv, InMemoryOK
  <2>2. QED BY <1>2, <2>1 DEF Positions
<1>7. CASE status[r] = "queued"
  <2>1. P # {} \/ C # {}
    BY <1>1, <1>2, <1>7 DEF SteeringIInv, CompleteOK, Queued, Positions
  <2> HIDE DEF P, C
  <2>2. CASE P # {}
    <3>1. PICK i : P = {i} BY <1>4, <2>2
    <3>2. Cardinality(P) = 1 /\ Cardinality(C) = 0
      BY <1>6, <3>1, FS_Singleton, FS_EmptySet
    <3>3. QED BY <1>3, <1>7, <3>2 DEF C
  <2>3. CASE C # {}
    <3>1. PICK i : C = {i} BY <1>5, <2>3
    <3>2. Cardinality(P) = 0 /\ Cardinality(C) = 1
      BY <1>6, <3>1, FS_Singleton, FS_EmptySet
    <3>3. QED BY <1>3, <1>7, <3>2 DEF C
  <2>4. QED BY <2>1, <2>2, <2>3
<1>8. CASE status[r] # "queued"
  <2>1. P = {} /\ C = {}
    BY <1>2, <1>8 DEF SteeringIInv, InMemoryOK, Positions
  <2>2. Cardinality(P) = 0 /\ Cardinality(C) = 0
    BY <2>1, FS_EmptySet
  <2> HIDE DEF P
  <2>3. QED BY <1>3, <1>8, <2>2
<1>9. QED BY <1>7, <1>8

\* Sealing finds the answer last and no guidance but what is being delivered.
LEMMA RaceIsClosed ==
  ASSUME SteeringIInv
  PROVE  CompletionRaceClosed
<1>1. SUFFICES ASSUME agent = "sealed", ~poisoned
               PROVE  /\ EndsInAnswer /\ channel = <<>> /\ ~open
                      /\ Queued \subseteq {holder}
  BY DEF CompletionRaceClosed, EndsInAnswer
<1>2. EndsInAnswer /\ channel = <<>> /\ ~open
  BY <1>1 DEF SteeringIInv, SteeringAnswerOK
<1>3. Tracked /\ writing = "none"
  BY <1>1 DEF SteeringIInv, ControlOK, Tracked, Executing, SteeringTypeOK
<1>4. Ahead = {}
  BY <1>3, NothingAhead DEF SteeringIInv, ProposalOK, SteeringTypeOK, Messages
<1>5. Queued \subseteq {holder}
  BY <1>2, <1>3, <1>4 DEF SteeringIInv, CompleteOK
<1>6. QED BY <1>2, <1>5

\* Guidance is kept whole (Safety, the invariant of the safety run): applied once
\* and in order, never stranded, never left unanswered by a completed run, and
\* never itself the reason for a failed run.
THEOREM GuidanceIsKept == SteeringSpec => []Safety
<1>1. SteeringIInv => Safety
  <2> SUFFICES ASSUME SteeringIInv PROVE Safety
    OBVIOUS
  <2>1. SteeringTypeOK /\ AppliedIsCanonical /\ TerminalSettles
    BY DEF SteeringIInv, ReasonsOK
  <2>2. CompletionAnswersGuidance
    BY DEF SteeringIInv, ReasonsOK, SteeringAnswerOK, EndsInAnswer, CompletionAnswersGuidance,
       TerminalSettles, RunTerminal
  <2>3. NothingStranded BY NothingIsStranded
  <2>4. SteeringIsNeverRefused
    BY ProposedInOrder DEF SteeringIsNeverRefused, SteeringIInv, ReasonsOK
  <2>5. CompletionRaceClosed BY RaceIsClosed
  <2>6. QED BY <2>1, <2>2, <2>3, <2>4, <2>5 DEF Safety
<1>2. QED BY <1>1, SteeringInvariant, PTL

\* The outcome of a receipt, its index and its ordinal never change again.
THEOREM ReceiptsStay == SteeringSpec => ReceiptsAreFinal
<1> DEFINE Stays ==
      \A r \in Receipts :
        /\ status[r] \in {"applied", "not_applied"} =>
             /\ status'[r] = status[r] /\ reason'[r] = reason[r]
             /\ index'[r] = index[r]
        /\ status[r] # "absent" => ordinal'[r] = ordinal[r]
<1>1. SteeringIInv /\ [SteeringNext]_steeringVars => Stays
  <2> SUFFICES ASSUME SteeringIInv, [SteeringNext]_steeringVars PROVE Stays
    OBVIOUS
  <2>0. SteeringTypeOK /\ ControlOK BY DEF SteeringIInv
  <2>1. CASE SteeringQuiet BY <2>1 DEF SteeringQuiet
  <2>2. ASSUME NEW q \in Receipts, QueueSteering(q) PROVE Stays
    BY <2>0, <2>2 DEF QueueSteering, SteeringTypeOK
  <2>3. CASE RejectSteering
    BY <2>0, <2>3 DEF RejectSteering, ControlOK, SteeringTypeOK
  <2>4. CASE CheckpointReconciled
    <3>1. \A p \in Proposed : status[p] = "queued"
      BY <2>4 DEF CheckpointReconciled, InOrder, Proposed
    <3>2. QED BY <2>4, <3>1 DEF CheckpointReconciled
  <2>5. ASSUME NEW s \in RunTerminal, FinishRun(s) PROVE Stays
    BY <2>5 DEF FinishRun, Settled
  <2> HIDE DEF Stays
  <2>6. QED BY <2>1, <2>2, <2>3, <2>4, <2>5, StepIsSteerStep DEF SteerStep
<1>2. QED BY <1>1, SteeringInvariant, PTL DEF SteeringSpec, ReceiptsAreFinal
==============================================================================
