--------------------------- MODULE InstallProofs ----------------------------
(***************************************************************************)
(* Theorems about Install: whatever is killed, fails or is put in the way, *)
(* the installation stays one of the releases, whole, a rollback undoes    *)
(* the last publication, and no file of the user is lost.                  *)
(***************************************************************************)
EXTENDS Install, TLAPS

-----------------------------------------------------------------------------
(* The inductive invariant.                                                *)

Complete == staged \cup {NoRelease}

PlanType == [previous : Maybe, rollback : Maybe, active : BOOLEAN,
             enabled : BOOLEAN, restart : BOOLEAN]
Things == Files \cup {"absent", "managed"}
OpType == [kind : {"install", "rollback"}, rel : Maybe, start : BOOLEAN, replace : BOOLEAN,
           name : 1..(Commands + 1), seen : Things, changed : BOOLEAN, had : BOOLEAN,
           undo : BOOLEAN, sure : BOOLEAN, plan : PlanType]
ViewType == [current : Maybe, unit : Maybe, enabled : BOOLEAN, running : Maybe]
Outcomes == {"none", "running", "killed", "refused", "unsettled", "restored",
             "retained", "done"}

\* The type of every variable.
Typed ==
  /\ journal \in [current : Maybe, previous : Maybe, pending : Maybe]
  /\ current \in Maybe /\ next \in Maybe /\ was \in Maybe
  /\ unit \in Maybe /\ loaded \in Maybe /\ running \in Maybe
  /\ staged \subseteq Releases /\ healthy \subseteq Releases
  /\ cmd \in [1..Commands -> Things] /\ spare \in [1..Commands -> Things]
  /\ backups \subseteq Files /\ owned \subseteq Files
  /\ enabled \in BOOLEAN /\ pc \in Labels
  /\ op \in OpType
  /\ last \in [outcome : Outcomes, before : ViewType]
  /\ runs \in 0..MaxRuns /\ kills \in 0..MaxKills /\ faults \in 0..MaxFaults

\* Every release anything refers to has been staged.
AllStaged ==
  /\ {current, next, journal.current, journal.previous, journal.pending} \subseteq Complete
  /\ {unit, loaded, running, op.plan.rollback} \subseteq Complete

\* The link and the journal: nothing published since the journal was saved, or
\* the pending release published and the one before it remembered.
JournalKnows ==
  /\ journal.current = NoRelease => journal.previous = NoRelease
  /\ \/ current = journal.current /\ journal.previous = was
     \/ /\ journal.pending # NoRelease /\ current = journal.pending
        /\ was = journal.current /\ current # journal.current

\* The labels before the exchange of the links, and those of the service.
Before   == {"recover", "recovered", "choose", "pending", "link", "spare", "exchange",
             "displaced", "next", "swap"}
Linked   == {"pending", "link", "spare", "exchange", "displaced", "next", "swap", "unlink",
             "save"}
Pended   == Linked \ {"pending"}
Forward  == {"plan", "unit", "reload", "enable", "start", "wait"}
Undoing  == {"undo", "undoDisable", "undoUnit", "undoReload", "undoEnable", "undoStart",
             "undoWait"}
Planned  == (Forward \ {"plan"}) \cup Undoing

\* Where the journal stands at each label.
Progress ==
  /\ pc \in {"choose", "pending"} => journal.pending = NoRelease
  /\ pc \in {"choose"} \cup (Linked \cap Before) => current = journal.current
  /\ pc \in Pended => journal.pending = op.rel
  /\ pc \in Linked \cup Forward \cup Undoing => op.rel \in staged
  /\ pc = "choose" /\ op.kind = "install" => op.rel \in Releases
  /\ pc \in {"recover", "recovered"} /\ ~op.undo /\ op.kind = "install" => op.rel \in Releases
  /\ pc = "swap" => next = op.rel
  /\ pc \in {"unlink", "save"} => current = op.rel
  /\ pc \in {"save"} \cup Forward \cup Undoing => next = NoRelease
  /\ pc \in Forward \cup Undoing =>
       journal.pending = NoRelease /\ current = op.rel /\ current = journal.current
  /\ pc \in {"link", "spare", "exchange", "displaced"} => op.kind = "install"
  /\ pc \in {"spare", "exchange", "displaced"} => op.name <= Commands /\ op.seen \in backups
  /\ pc # "idle" => last.outcome = "running"

\* What the invocation found, and what it has to remember to restore it.
B == last.before
Remembers ==
  /\ pc \in Before /\ ~op.undo => current = B.current
  /\ pc \in Linked \cup Forward \cup Undoing /\ ~op.undo =>
       /\ op.changed = (B.current # op.rel)
       /\ op.had = (B.current # NoRelease)
  /\ pc \in Linked /\ ~op.undo => journal.current = B.current
  /\ pc \in Forward \cup Undoing => ~op.undo /\ (op.changed => journal.previous = B.current)
  /\ pc # "idle" /\ op.undo =>
       /\ pc \in Before \cup Linked
       /\ op.kind = "rollback" /\ B.current # NoRelease
       /\ pc \in {"recover", "recovered", "choose"} =>
            /\ journal.pending = NoRelease /\ current = journal.current
            /\ journal.previous = B.current
       /\ pc \in Linked => op.rel = B.current

\* The service as the invocation found it, or equivalent to it.
AsFound ==
  /\ enabled = B.enabled
  /\ (running = NoRelease) = (B.running = NoRelease)
  /\ running # NoRelease => running \in {B.unit, B.running}
  /\ unit \in {B.unit, B.running}

\* What each step of the service change leaves.
Service ==
  /\ pc \in (Before \cup Linked \cup {"plan"}) /\ ~op.undo =>
       unit = B.unit /\ enabled = B.enabled /\ running = B.running
  /\ pc # "idle" /\ op.undo /\ op.sure => AsFound
  /\ pc \in Planned =>
       /\ op.plan.active = (B.running # NoRelease)
       /\ op.plan.enabled = B.enabled
       /\ op.plan.rollback \in {B.unit, B.running}
  /\ pc \in {"unit", "reload", "enable", "start"} => running = B.running
  /\ pc \in {"reload", "enable", "start", "wait"} => unit = op.rel
  /\ pc \in {"enable", "start", "wait"} => loaded = unit
  /\ pc \in Undoing \ {"undo", "undoWait"} => running = NoRelease
  /\ pc \in {"undoUnit", "undoReload", "undoEnable", "undoStart", "undoWait"} /\ enabled =>
       op.plan.enabled
  /\ pc \in {"undoStart", "undoWait"} => enabled = op.plan.enabled
  /\ pc \in {"undoReload", "undoEnable", "undoStart", "undoWait"} => unit = op.plan.rollback
  /\ pc = "undoWait" => op.plan.active

InstallInv ==
  /\ Typed /\ AllStaged /\ JournalKnows /\ Progress /\ Remembers /\ Service
  /\ UserFilesSurvive /\ FailureRestores /\ SuccessIsWhole

-----------------------------------------------------------------------------
(* The ways an invocation goes on or ends.                                 *)

LastType == [outcome : Outcomes, before : ViewType]

LEMMA IdleTyped == InstallAssumption => Idle \in OpType
BY DEF InstallAssumption, Idle, OpType, PlanType, Maybe, Things

Ended(o) ==
  /\ pc' = "idle" /\ op' \in OpType /\ ~op'.undo /\ op'.plan.rollback = NoRelease
  /\ last' \in LastType /\ last'.outcome = o /\ last'.before = last.before
  /\ runs' = runs /\ kills' = kills

LEMMA EndLeaves ==
  ASSUME InstallAssumption, Typed, NEW o \in Outcomes, End(o)
  PROVE  Ended(o)
<1>1. op' = Idle /\ op' \in OpType BY IdleTyped DEF End
<1>2. ~op'.undo /\ op'.plan.rollback = NoRelease BY <1>1 DEF Idle
<1>3. last \in LastType BY DEF Typed, LastType
<1>4. last' \in LastType /\ last'.outcome = o /\ last'.before = last.before
  BY <1>3 DEF End, LastType
<1>5. QED BY <1>1, <1>2, <1>4 DEF End, Ended

UndoBegins(sure) ==
  /\ op.changed /\ op.had /\ pc' = "recover"
  /\ op' \in OpType /\ op'.kind = "rollback" /\ op'.undo /\ op'.sure = sure
  /\ op'.rel = op.rel /\ op'.plan = op.plan
  /\ last' = last /\ runs' = runs /\ kills' = kills
NothingToUndo(sure) ==
  /\ ~(op.changed /\ op.had)
  /\ Ended(IF ~sure THEN "unsettled" ELSE IF op.had THEN "restored" ELSE "retained")
Returned(sure) == UndoBegins(sure) \/ NothingToUndo(sure)

LEMMA FailureLeaves ==
  ASSUME InstallAssumption, Typed, NEW sure \in BOOLEAN, ConfigureFailed(sure)
  PROVE  Returned(sure)
<1>1. CASE op.changed /\ op.had
  <2>1. op \in OpType BY DEF Typed
  <2>2. op' \in OpType BY <1>1, <2>1 DEF ConfigureFailed, OpType
  <2>3. QED BY <1>1, <2>1, <2>2 DEF ConfigureFailed, UndoBegins, Returned, OpType
<1>2. CASE ~(op.changed /\ op.had)
  <2> DEFINE o == IF ~sure THEN "unsettled" ELSE IF op.had THEN "restored" ELSE "retained"
  <2>1. End(o) BY <1>2 DEF ConfigureFailed
  <2>2. o \in Outcomes BY DEF Outcomes
  <2>3. QED BY <1>2, <2>1, <2>2, EndLeaves DEF NothingToUndo, Returned
<1>3. QED BY <1>1, <1>2

\* The fields of the operation under way.
LEMMA OpFields ==
  ASSUME Typed
  PROVE  /\ op.kind \in {"install", "rollback"} /\ op.rel \in Maybe
         /\ op.name \in 1..(Commands + 1) /\ op.seen \in Things
         /\ {op.start, op.replace, op.changed, op.had, op.undo, op.sure} \subseteq BOOLEAN
         /\ op.plan \in PlanType /\ op.plan.rollback \in Maybe /\ op.plan.previous \in Maybe
         /\ {op.plan.active, op.plan.enabled, op.plan.restart} \subseteq BOOLEAN
         /\ journal.current \in Maybe /\ journal.previous \in Maybe /\ journal.pending \in Maybe
         /\ last.outcome \in Outcomes /\ B.current \in Maybe /\ B.unit \in Maybe
         /\ B.running \in Maybe /\ B.enabled \in BOOLEAN
<1>1. op \in OpType /\ journal \in [current : Maybe, previous : Maybe, pending : Maybe]
      /\ last \in [outcome : Outcomes, before : ViewType]
  BY DEF Typed
<1>2. op.plan \in PlanType BY <1>1 DEF OpType
<1>3. last.before \in ViewType BY <1>1
<1>4. /\ op.plan.rollback \in Maybe /\ op.plan.previous \in Maybe
      /\ {op.plan.active, op.plan.enabled, op.plan.restart} \subseteq BOOLEAN
  BY <1>2 DEF PlanType
<1>5. B.current \in Maybe /\ B.unit \in Maybe /\ B.running \in Maybe /\ B.enabled \in BOOLEAN
  BY <1>3 DEF ViewType, B
<1>6. QED BY <1>1, <1>2, <1>4, <1>5 DEF OpType

\* What the choice of a release leaves of the operation.
ChoiceOf(id) ==
  /\ op' \in OpType /\ op'.rel = id
  /\ op'.kind = op.kind /\ op'.undo = op.undo /\ op'.sure = op.sure /\ op'.plan = op.plan
  /\ op'.changed = IF op.undo THEN op.changed ELSE journal.current # id
  /\ op'.had = IF op.undo THEN op.had ELSE journal.current # NoRelease

LEMMA ChosenLeaves ==
  ASSUME Typed, NEW id \in Maybe, Chosen(id)
  PROVE  ChoiceOf(id)
<1>1. op \in OpType BY DEF Typed
<1>2. op' = [[[op EXCEPT !.rel = id]
                  EXCEPT !.changed = IF op.undo THEN op.changed ELSE journal.current # id]
                  EXCEPT !.had = IF op.undo THEN op.had ELSE journal.current # NoRelease]
  BY <1>1 DEF Chosen, OpType
<1>3. op' \in OpType BY <1>1, <1>2 DEF OpType
<1>4. QED BY <1>1, <1>2, <1>3 DEF OpType, ChoiceOf

\* What every other change of one field leaves.
SameBut ==
  /\ op'.kind = op.kind /\ op'.undo = op.undo /\ op'.sure = op.sure /\ op'.rel = op.rel
  /\ op'.changed = op.changed /\ op'.had = op.had

LEMMA NameAdvances ==
  ASSUME InstallAssumption, Typed, op.name <= Commands, op' = [op EXCEPT !.name = @ + 1]
  PROVE  op' \in OpType /\ SameBut /\ op'.plan = op.plan /\ op'.name = op.name + 1
<1>1. op \in OpType BY DEF Typed
<1>2. op.name + 1 \in 1..(Commands + 1) BY <1>1 DEF OpType, InstallAssumption
<1>3. QED BY <1>1, <1>2 DEF OpType, SameBut

LEMMA FaultsAreCounted ==
  ASSUME InstallAssumption, Typed, Fault \/ NoFault
  PROVE  faults' \in 0..MaxFaults
<1>1. faults \in 0..MaxFaults /\ MaxFaults \in Nat BY DEF Typed, InstallAssumption
<1>2. CASE Fault BY <1>1, <1>2 DEF Fault
<1>3. CASE NoFault BY <1>1, <1>3 DEF NoFault
<1>4. QED BY <1>2, <1>3


(* GENERATED *)
LEMMA UserPlacesKeeps ==
  ASSUME InstallAssumption, InstallInv, NEW n \in 1..Commands, NEW f \in Files,
         UserPlaces(n, f)
  PROVE  InstallInv'
<1> USE DEF InstallInv, InstallAssumption
<1> USE DEF UserPlaces, vars, store, links, svc, bounds
<1>1. Typed'
  <2>1. op' \in OpType BY OpFields DEF Typed
  <2>2. last' \in LastType BY OpFields DEF Typed, LastType
  <2>3. QED BY OpFields, <2>1, <2>2 DEF Typed, Things, Labels, Maybe, Progress, LastType
<1>2. AllStaged'
  BY OpFields DEF Typed, Maybe, AllStaged, Complete, Progress, Linked, Pended,
         Forward, Undoing, Before
<1>3. JournalKnows'
  BY OpFields DEF Typed, Maybe, JournalKnows, Progress, Linked, Pended, Forward,
         Undoing, Before
<1>4. Progress'
  BY OpFields DEF Typed, Maybe, Labels, JournalKnows, Progress, Linked, Pended,
         Forward, Undoing, Before
<1>5. Remembers'
  BY OpFields DEF Typed, Maybe, Labels, Remembers, B, JournalKnows, Progress, Linked,
         Pended, Forward, Undoing, Before
<1>6. Service'
  BY OpFields DEF Typed, Maybe, Labels, Service, Remembers, B, AsFound, Planned,
         Progress, Linked, Pended, Forward, Undoing, Before
<1>7. UserFilesSurvive'
  BY OpFields DEF Typed, Things, Progress, UserFilesSurvive
<1>8. FailureRestores'
  BY OpFields DEF Typed, Maybe, FailureRestores, Service, Remembers, B, AsFound,
         Planned, Progress, Linked, Pended, Forward, Undoing, Before
<1>9. SuccessIsWhole'
  BY OpFields DEF Typed, Maybe, SuccessIsWhole, Service, Remembers, B, AsFound,
         Planned, Progress, Linked, Pended, Forward, Undoing, Before
<1>10. QED BY <1>1, <1>2, <1>3, <1>4, <1>5, <1>6, <1>7, <1>8, <1>9

LEMMA BeginKeeps ==
  ASSUME InstallAssumption, InstallInv, NEW kind \in {"install", "rollback"},
         NEW r \in Releases,
         NEW start \in BOOLEAN, NEW replace \in BOOLEAN, Begin(kind, r, start, replace)
  PROVE  InstallInv'
<1> USE DEF InstallInv, InstallAssumption
<1>0. op' \in OpType /\ op'.kind = kind /\ op'.rel = r /\ ~op'.undo
      /\ op'.plan.rollback = NoRelease
      /\ last' \in LastType /\ last'.outcome = "running"
      /\ last'.before.current = current /\ last'.before.unit = unit
      /\ last'.before.enabled = enabled /\ last'.before.running = running
  <2>1. Idle \in OpType BY IdleTyped
  <2>2. op' = [[[[Idle EXCEPT !.kind = kind] EXCEPT !.rel = r] EXCEPT !.start = start]
                EXCEPT !.replace = replace]
    BY <2>1 DEF OpType, Begin
  <2>3. op' \in OpType BY <2>1, <2>2 DEF OpType, Maybe
  <2>4. op'.kind = kind /\ op'.rel = r /\ ~op'.undo /\ op'.plan.rollback = NoRelease
    BY <2>2 DEF Idle
  <2>5. Observed \in ViewType BY DEF Typed, Observed, ViewType
  <2>6. last' = [outcome |-> "running", before |-> Observed] BY DEF Begin
  <2>7. last' \in LastType BY <2>5, <2>6 DEF LastType, Outcomes
  <2>8. QED BY <2>3, <2>4, <2>6, <2>7 DEF Observed
<1> USE DEF Begin, vars, store, links, svc, bounds, bounds
<1>1. Typed'
  <2>1. op' \in OpType BY OpFields, <1>0 DEF Typed
  <2>2. last' \in LastType BY OpFields, <1>0 DEF Typed, LastType
  <2>3. QED
    BY OpFields, <1>0, <2>1, <2>2 DEF Typed, Things, Labels, Maybe, Progress, LastType
<1>2. AllStaged'
  BY OpFields, <1>0 DEF Typed, Maybe, AllStaged, Complete, Progress, Linked, Pended,
         Forward, Undoing, Before
<1>3. JournalKnows'
  BY OpFields, <1>0 DEF Typed, Maybe, JournalKnows, Progress, Linked, Pended, Forward,
         Undoing, Before
<1>4. Progress'
  BY OpFields, <1>0 DEF Typed, Maybe, Labels, JournalKnows, Progress, Linked, Pended,
         Forward, Undoing, Before
<1>5. Remembers'
  BY OpFields, <1>0 DEF Typed, Maybe, Labels, Remembers, B, JournalKnows, Progress,
         Linked, Pended, Forward, Undoing, Before
<1>6. Service'
  BY OpFields, <1>0 DEF Typed, Maybe, Labels, Service, Remembers, B, AsFound, Planned,
         Progress, Linked, Pended, Forward, Undoing, Before
<1>7. UserFilesSurvive'
  BY OpFields, <1>0 DEF Typed, Things, Progress, UserFilesSurvive
<1>8. FailureRestores'
  BY OpFields, <1>0 DEF Typed, Maybe, FailureRestores, Service, Remembers, B, AsFound,
         Planned, Progress, Linked, Pended, Forward, Undoing, Before
<1>9. SuccessIsWhole'
  BY OpFields, <1>0 DEF Typed, Maybe, SuccessIsWhole, Service, Remembers, B, AsFound,
         Planned, Progress, Linked, Pended, Forward, Undoing, Before
<1>10. QED BY <1>1, <1>2, <1>3, <1>4, <1>5, <1>6, <1>7, <1>8, <1>9

LEMMA KillKeeps ==
  ASSUME InstallAssumption, InstallInv, Kill
  PROVE  InstallInv'
<1> USE DEF InstallInv, InstallAssumption
<1>0. op' \in OpType /\ ~op'.undo /\ op'.plan.rollback = NoRelease
      /\ last' \in LastType /\ last'.outcome = "killed"
  <2>1. op' \in OpType /\ ~op'.undo /\ op'.plan.rollback = NoRelease
    BY IdleTyped DEF Kill, Idle
  <2>2. last \in LastType BY DEF Typed, LastType
  <2>3. QED BY <2>1, <2>2 DEF Kill, LastType, Outcomes
<1> USE DEF Kill, vars, store, links, svc, bounds
<1>1. Typed'
  <2>1. op' \in OpType BY OpFields, <1>0 DEF Typed
  <2>2. last' \in LastType BY OpFields, <1>0 DEF Typed, LastType
  <2>3. QED
    BY OpFields, <1>0, <2>1, <2>2 DEF Typed, Things, Labels, Maybe, Progress, LastType
<1>2. AllStaged'
  BY OpFields, <1>0 DEF Typed, Maybe, AllStaged, Complete, Progress, Linked, Pended,
         Forward, Undoing, Before
<1>3. JournalKnows'
  BY OpFields, <1>0 DEF Typed, Maybe, JournalKnows, Progress, Linked, Pended, Forward,
         Undoing, Before
<1>4. Progress'
  BY OpFields, <1>0 DEF Typed, Maybe, Labels, JournalKnows, Progress, Linked, Pended,
         Forward, Undoing, Before
<1>5. Remembers'
  BY OpFields, <1>0 DEF Typed, Maybe, Labels, Remembers, B, JournalKnows, Progress,
         Linked, Pended, Forward, Undoing, Before
<1>6. Service'
  BY OpFields, <1>0 DEF Typed, Maybe, Labels, Service, Remembers, B, AsFound, Planned,
         Progress, Linked, Pended, Forward, Undoing, Before
<1>7. UserFilesSurvive'
  BY OpFields, <1>0 DEF Typed, Things, Progress, UserFilesSurvive
<1>8. FailureRestores'
  BY OpFields, <1>0 DEF Typed, Maybe, FailureRestores, Service, Remembers, B, AsFound,
         Planned, Progress, Linked, Pended, Forward, Undoing, Before
<1>9. SuccessIsWhole'
  BY OpFields, <1>0 DEF Typed, Maybe, SuccessIsWhole, Service, Remembers, B, AsFound,
         Planned, Progress, Linked, Pended, Forward, Undoing, Before
<1>10. QED BY <1>1, <1>2, <1>3, <1>4, <1>5, <1>6, <1>7, <1>8, <1>9

LEMMA RecoverKeeps ==
  ASSUME InstallAssumption, InstallInv, Recover
  PROVE  InstallInv'
<1> USE DEF InstallInv, InstallAssumption
<1> USE DEF Recover, vars, store, links, svc, bounds, RecoverAccepts, Goto, NoFault
<1>1. Typed'
  <2>1. op' \in OpType BY OpFields, EndLeaves DEF Typed, Outcomes, Ended
  <2>2. last' \in LastType BY OpFields, EndLeaves DEF Typed, LastType, Outcomes, Ended
  <2>3. QED
    BY OpFields, EndLeaves, <2>1, <2>2 DEF Typed, Things, Labels, Maybe, Progress,
           LastType, Outcomes, Ended
<1>2. AllStaged'
  BY OpFields, EndLeaves DEF Typed, Maybe, AllStaged, Complete, Progress, Linked,
         Pended, Forward, Undoing, Before, Outcomes, Ended
<1>3. JournalKnows'
  BY OpFields, EndLeaves DEF Typed, Maybe, JournalKnows, Progress, Linked, Pended,
         Forward, Undoing, Before, Outcomes, Ended
<1>4. Progress'
  BY OpFields, EndLeaves DEF Typed, Maybe, Labels, JournalKnows, Progress, Linked,
         Pended, Forward, Undoing, Before, Outcomes, Ended
<1>5. Remembers'
  BY OpFields, EndLeaves DEF Typed, Maybe, Labels, Remembers, B, JournalKnows,
         Progress, Linked, Pended, Forward, Undoing, Before, Outcomes, Ended
<1>6. Service'
  BY OpFields, EndLeaves DEF Typed, Maybe, Labels, Service, Remembers, B, AsFound,
         Planned, Progress, Linked, Pended, Forward, Undoing, Before, Outcomes, Ended
<1>7. UserFilesSurvive'
  BY OpFields, EndLeaves DEF Typed, Things, Progress, UserFilesSurvive, Outcomes, Ended
<1>8. FailureRestores'
  BY OpFields, EndLeaves DEF Typed, Maybe, FailureRestores, Service, Remembers, B,
         AsFound, Planned, Progress, Linked, Pended, Forward, Undoing, Before,
         Outcomes, Ended
<1>9. SuccessIsWhole'
  BY OpFields, EndLeaves DEF Typed, Maybe, SuccessIsWhole, Service, Remembers, B,
         AsFound, Planned, Progress, Linked, Pended, Forward, Undoing, Before,
         Outcomes, Ended
<1>10. QED BY <1>1, <1>2, <1>3, <1>4, <1>5, <1>6, <1>7, <1>8, <1>9

LEMMA RecoverSaveKeeps ==
  ASSUME InstallAssumption, InstallInv, RecoverSave
  PROVE  InstallInv'
<1> USE DEF InstallInv, InstallAssumption
<1>0. /\ journal' \in [current : Maybe, previous : Maybe, pending : Maybe]
      /\ journal'.pending = NoRelease
      /\ IF journal.pending # NoRelease /\ current = journal.pending
         THEN /\ journal'.current = journal.pending
              /\ journal'.previous = IF journal.current = journal.pending
                                     THEN journal.previous ELSE journal.current
         ELSE journal'.current = journal.current /\ journal'.previous = journal.previous
  <2>1. journal \in [current : Maybe, previous : Maybe, pending : Maybe] BY DEF Typed
  <2>2. NoRelease \in Maybe BY DEF Maybe
  <2>3. QED BY <2>1, <2>2 DEF RecoverSave, Adopt
<1> USE DEF RecoverSave, vars, store, links, svc, bounds, Goto, NoFault
<1>1. Typed'
  <2>1. op' \in OpType BY OpFields, <1>0 DEF Typed
  <2>2. last' \in LastType BY OpFields, <1>0 DEF Typed, LastType
  <2>3. QED
    BY OpFields, <1>0, <2>1, <2>2 DEF Typed, Things, Labels, Maybe, Progress, LastType
<1>2. AllStaged'
  BY OpFields, <1>0 DEF Typed, Maybe, AllStaged, Complete, Progress, Linked, Pended,
         Forward, Undoing, Before
<1>3. JournalKnows'
  BY OpFields, <1>0 DEF Typed, Maybe, JournalKnows, Progress, Linked, Pended, Forward,
         Undoing, Before
<1>4. Progress'
  BY OpFields, <1>0 DEF Typed, Maybe, Labels, JournalKnows, Progress, Linked, Pended,
         Forward, Undoing, Before, Remembers
<1>5. Remembers'
  BY OpFields, <1>0 DEF Typed, Maybe, Labels, Remembers, B, JournalKnows, Progress,
         Linked, Pended, Forward, Undoing, Before
<1>6. Service'
  BY OpFields, <1>0 DEF Typed, Maybe, Labels, Service, Remembers, B, AsFound, Planned,
         Progress, Linked, Pended, Forward, Undoing, Before
<1>7. UserFilesSurvive'
  BY OpFields, <1>0 DEF Typed, Things, Progress, UserFilesSurvive
<1>8. FailureRestores'
  BY OpFields, <1>0 DEF Typed, Maybe, FailureRestores, Service, Remembers, B, AsFound,
         Planned, Progress, Linked, Pended, Forward, Undoing, Before
<1>9. SuccessIsWhole'
  BY OpFields, <1>0 DEF Typed, Maybe, SuccessIsWhole, Service, Remembers, B, AsFound,
         Planned, Progress, Linked, Pended, Forward, Undoing, Before
<1>10. QED BY <1>1, <1>2, <1>3, <1>4, <1>5, <1>6, <1>7, <1>8, <1>9

LEMMA StageInstallKeeps ==
  ASSUME InstallAssumption, InstallInv, StageInstall
  PROVE  InstallInv'
<1> USE DEF InstallInv, InstallAssumption
<1> USE DEF StageInstall, vars, store, links, svc, bounds, NoFault
<1>1. Typed'
  <2>1. op' \in OpType
    BY OpFields, EndLeaves, ChosenLeaves DEF Typed, Outcomes, ChoiceOf, Ended
  <2>2. last' \in LastType
    BY OpFields, EndLeaves, ChosenLeaves DEF Typed, LastType, Outcomes, ChoiceOf,
           Ended
  <2>3. QED
    BY OpFields, EndLeaves, ChosenLeaves, <2>1, <2>2 DEF Typed, Things, Labels, Maybe,
           Progress, LastType, Outcomes, ChoiceOf, Ended
<1>2. AllStaged'
  BY OpFields, EndLeaves, ChosenLeaves DEF Typed, Maybe, AllStaged, Complete,
         Progress, Linked, Pended, Forward, Undoing, Before, Outcomes, ChoiceOf, Ended
<1>3. JournalKnows'
  BY OpFields, EndLeaves, ChosenLeaves DEF Typed, Maybe, JournalKnows, Progress,
         Linked, Pended, Forward, Undoing, Before, Outcomes, ChoiceOf, Ended
<1>4. Progress'
  BY OpFields, EndLeaves, ChosenLeaves DEF Typed, Maybe, Labels, JournalKnows,
         Progress, Linked, Pended, Forward, Undoing, Before, Outcomes, ChoiceOf, Ended
<1>5. Remembers'
  BY OpFields, EndLeaves, ChosenLeaves DEF Typed, Maybe, Labels, Remembers, B,
         JournalKnows, Progress, Linked, Pended, Forward, Undoing, Before, Outcomes,
         ChoiceOf, Ended
<1>6. Service'
  BY OpFields, EndLeaves, ChosenLeaves DEF Typed, Maybe, Labels, Service, Remembers,
         B, AsFound, Planned, Progress, Linked, Pended, Forward, Undoing, Before,
         Outcomes, ChoiceOf, Ended
<1>7. UserFilesSurvive'
  BY OpFields, EndLeaves, ChosenLeaves DEF Typed, Things, Progress, UserFilesSurvive,
         Outcomes, ChoiceOf, Ended
<1>8. FailureRestores'
  BY OpFields, EndLeaves, ChosenLeaves DEF Typed, Maybe, FailureRestores, Service,
         Remembers, B, AsFound, Planned, Progress, Linked, Pended, Forward, Undoing,
         Before, Outcomes, ChoiceOf, Ended
<1>9. SuccessIsWhole'
  BY OpFields, EndLeaves, ChosenLeaves DEF Typed, Maybe, SuccessIsWhole, Service,
         Remembers, B, AsFound, Planned, Progress, Linked, Pended, Forward, Undoing,
         Before, Outcomes, ChoiceOf, Ended
<1>10. QED BY <1>1, <1>2, <1>3, <1>4, <1>5, <1>6, <1>7, <1>8, <1>9

LEMMA ChooseRollbackKeeps ==
  ASSUME InstallAssumption, InstallInv, ChooseRollback
  PROVE  InstallInv'
<1> USE DEF InstallInv, InstallAssumption
<1>0. /\ pc = "choose" /\ op.kind = "rollback" /\ UNCHANGED <<store, links, svc>>
      /\ faults' \in 0..MaxFaults
      /\ \/ Ended("unsettled")
         \/ /\ ChoiceOf(journal.previous) /\ journal.previous # NoRelease /\ pc' = "pending"
            /\ last' = last /\ runs' = runs /\ kills' = kills
  <2>1. Fault \/ NoFault => faults' \in 0..MaxFaults BY FaultsAreCounted
  <2>2. End("unsettled") => Ended("unsettled") BY EndLeaves DEF Outcomes
  <2>3. Chosen(journal.previous) => ChoiceOf(journal.previous) BY OpFields, ChosenLeaves
  <2>4. QED BY <2>1, <2>2, <2>3 DEF ChooseRollback
<1> USE DEF vars, store, links, svc, bounds, Goto
<1>1. Typed'
  <2>1. op' \in OpType BY OpFields, <1>0 DEF Typed, Ended, Outcomes, ChoiceOf
  <2>2. last' \in LastType
    BY OpFields, <1>0 DEF Typed, LastType, Ended, Outcomes, ChoiceOf
  <2>3. QED
    BY OpFields, <1>0, <2>1, <2>2 DEF Typed, Things, Labels, Maybe, Progress,
           LastType, Ended, Outcomes, ChoiceOf
<1>2. AllStaged'
  BY OpFields, <1>0 DEF Typed, Maybe, AllStaged, Complete, Progress, Linked, Pended,
         Forward, Undoing, Before, Ended, Outcomes, ChoiceOf
<1>3. JournalKnows'
  BY OpFields, <1>0 DEF Typed, Maybe, JournalKnows, Progress, Linked, Pended, Forward,
         Undoing, Before, Ended, Outcomes, ChoiceOf
<1>4. Progress'
  BY OpFields, <1>0 DEF Typed, Maybe, Labels, JournalKnows, Progress, Linked, Pended,
         Forward, Undoing, Before, AllStaged, Complete, Ended, Outcomes, ChoiceOf
<1>5. Remembers'
  BY OpFields, <1>0 DEF Typed, Maybe, Labels, Remembers, B, JournalKnows, Progress,
         Linked, Pended, Forward, Undoing, Before, Ended, Outcomes, ChoiceOf
<1>6. Service'
  BY OpFields, <1>0 DEF Typed, Maybe, Labels, Service, Remembers, B, AsFound, Planned,
         Progress, Linked, Pended, Forward, Undoing, Before, Ended, Outcomes, ChoiceOf
<1>7. UserFilesSurvive'
  BY OpFields, <1>0 DEF Typed, Things, Progress, UserFilesSurvive, Ended, Outcomes,
         ChoiceOf
<1>8. FailureRestores'
  BY OpFields, <1>0 DEF Typed, Maybe, FailureRestores, Service, Remembers, B, AsFound,
         Planned, Progress, Linked, Pended, Forward, Undoing, Before, Ended, Outcomes,
         ChoiceOf
<1>9. SuccessIsWhole'
  BY OpFields, <1>0 DEF Typed, Maybe, SuccessIsWhole, Service, Remembers, B, AsFound,
         Planned, Progress, Linked, Pended, Forward, Undoing, Before, Ended, Outcomes,
         ChoiceOf
<1>10. QED BY <1>1, <1>2, <1>3, <1>4, <1>5, <1>6, <1>7, <1>8, <1>9

LEMMA SavePendingKeeps ==
  ASSUME InstallAssumption, InstallInv, SavePending
  PROVE  InstallInv'
<1> USE DEF InstallInv, InstallAssumption
<1>0. /\ journal' \in [current : Maybe, previous : Maybe, pending : Maybe]
      /\ journal'.pending = op.rel /\ journal'.current = journal.current
      /\ journal'.previous = journal.previous
  <2>1. journal \in [current : Maybe, previous : Maybe, pending : Maybe] BY DEF Typed
  <2>2. op.rel \in Maybe BY OpFields
  <2>3. QED BY <2>1, <2>2 DEF SavePending
<1> USE DEF SavePending, vars, store, links, svc, bounds, Goto, NoFault
<1>1. Typed'
  <2>1. op' \in OpType BY OpFields, <1>0 DEF Typed
  <2>2. last' \in LastType BY OpFields, <1>0 DEF Typed, LastType
  <2>3. QED
    BY OpFields, <1>0, <2>1, <2>2 DEF Typed, Things, Labels, Maybe, Progress, LastType
<1>2. AllStaged'
  BY OpFields, <1>0 DEF Typed, Maybe, AllStaged, Complete, Progress, Linked, Pended,
         Forward, Undoing, Before
<1>3. JournalKnows'
  BY OpFields, <1>0 DEF Typed, Maybe, JournalKnows, Progress, Linked, Pended, Forward,
         Undoing, Before
<1>4. Progress'
  BY OpFields, <1>0 DEF Typed, Maybe, Labels, JournalKnows, Progress, Linked, Pended,
         Forward, Undoing, Before
<1>5. Remembers'
  BY OpFields, <1>0 DEF Typed, Maybe, Labels, Remembers, B, JournalKnows, Progress,
         Linked, Pended, Forward, Undoing, Before
<1>6. Service'
  BY OpFields, <1>0 DEF Typed, Maybe, Labels, Service, Remembers, B, AsFound, Planned,
         Progress, Linked, Pended, Forward, Undoing, Before
<1>7. UserFilesSurvive'
  BY OpFields, <1>0 DEF Typed, Things, Progress, UserFilesSurvive
<1>8. FailureRestores'
  BY OpFields, <1>0 DEF Typed, Maybe, FailureRestores, Service, Remembers, B, AsFound,
         Planned, Progress, Linked, Pended, Forward, Undoing, Before
<1>9. SuccessIsWhole'
  BY OpFields, <1>0 DEF Typed, Maybe, SuccessIsWhole, Service, Remembers, B, AsFound,
         Planned, Progress, Linked, Pended, Forward, Undoing, Before
<1>10. QED BY <1>1, <1>2, <1>3, <1>4, <1>5, <1>6, <1>7, <1>8, <1>9

LEMMA LinkManagedKeeps ==
  ASSUME InstallAssumption, InstallInv, LinkManaged
  PROVE  InstallInv'
<1> USE DEF InstallInv, InstallAssumption
<1>0. op' \in OpType /\ SameBut /\ op'.plan = op.plan /\ op'.name = op.name + 1 /\ pc = "link"
  BY NameAdvances DEF LinkManaged, Linking
<1> USE DEF LinkManaged, vars, store, links, svc, bounds, Linking, NoFault
<1>1. Typed'
  <2>1. op' \in OpType BY OpFields, <1>0 DEF Typed, SameBut
  <2>2. last' \in LastType BY OpFields, <1>0 DEF Typed, LastType, SameBut
  <2>3. QED
    BY OpFields, <1>0, <2>1, <2>2 DEF Typed, Things, Labels, Maybe, Progress,
           LastType, SameBut
<1>2. AllStaged'
  BY OpFields, <1>0 DEF Typed, Maybe, AllStaged, Complete, Progress, Linked, Pended,
         Forward, Undoing, Before, SameBut
<1>3. JournalKnows'
  BY OpFields, <1>0 DEF Typed, Maybe, JournalKnows, Progress, Linked, Pended, Forward,
         Undoing, Before, SameBut
<1>4. Progress'
  BY OpFields, <1>0 DEF Typed, Maybe, Labels, JournalKnows, Progress, Linked, Pended,
         Forward, Undoing, Before, SameBut
<1>5. Remembers'
  BY OpFields, <1>0 DEF Typed, Maybe, Labels, Remembers, B, JournalKnows, Progress,
         Linked, Pended, Forward, Undoing, Before, SameBut
<1>6. Service'
  BY OpFields, <1>0 DEF Typed, Maybe, Labels, Service, Remembers, B, AsFound, Planned,
         Progress, Linked, Pended, Forward, Undoing, Before, SameBut
<1>7. UserFilesSurvive'
  BY OpFields, <1>0 DEF Typed, Things, Progress, UserFilesSurvive, SameBut
<1>8. FailureRestores'
  BY OpFields, <1>0 DEF Typed, Maybe, FailureRestores, Service, Remembers, B, AsFound,
         Planned, Progress, Linked, Pended, Forward, Undoing, Before, SameBut
<1>9. SuccessIsWhole'
  BY OpFields, <1>0 DEF Typed, Maybe, SuccessIsWhole, Service, Remembers, B, AsFound,
         Planned, Progress, Linked, Pended, Forward, Undoing, Before, SameBut
<1>10. QED BY <1>1, <1>2, <1>3, <1>4, <1>5, <1>6, <1>7, <1>8, <1>9

LEMMA LinkBackupKeeps ==
  ASSUME InstallAssumption, InstallInv, LinkBackup
  PROVE  InstallInv'
<1> USE DEF InstallInv, InstallAssumption
<1>0. \/ End("refused") /\ backups' = backups
      \/ /\ op' \in OpType /\ SameBut /\ op'.plan = op.plan /\ op'.name = op.name
         /\ op'.seen = cmd[op.name] /\ pc' = "spare" /\ last' = last
         /\ backups' = backups \cup {cmd[op.name]} /\ runs' = runs /\ kills' = kills
  <2>1. op \in OpType BY DEF Typed
  <2>2. cmd[op.name] \in Things BY DEF LinkBackup, Things
  <2>3. CASE ~op.replace BY <2>3 DEF LinkBackup
  <2>4. CASE op.replace
    <3>1. op' = [op EXCEPT !.seen = cmd[op.name]] BY <2>4 DEF LinkBackup
    <3>2. op' \in OpType BY <2>1, <2>2, <3>1 DEF OpType
    <3>3. SameBut /\ op'.plan = op.plan /\ op'.name = op.name /\ op'.seen = cmd[op.name]
      BY <2>1, <3>1 DEF OpType, SameBut
    <3>4. QED BY <2>4, <3>2, <3>3 DEF LinkBackup
  <2>5. QED BY <2>3, <2>4
<1> USE DEF LinkBackup, vars, store, links, svc, bounds, Linking, NoFault
<1>1. Typed'
  <2>1. op' \in OpType BY OpFields, EndLeaves, <1>0 DEF Typed, Outcomes, SameBut, Ended
  <2>2. last' \in LastType
    BY OpFields, EndLeaves, <1>0 DEF Typed, LastType, Outcomes, SameBut, Ended
  <2>3. QED
    BY OpFields, EndLeaves, <1>0, <2>1, <2>2 DEF Typed, Things, Labels, Maybe,
           Progress, LastType, Outcomes, SameBut, Ended
<1>2. AllStaged'
  BY OpFields, EndLeaves, <1>0 DEF Typed, Maybe, AllStaged, Complete, Progress,
         Linked, Pended, Forward, Undoing, Before, Outcomes, SameBut, Ended
<1>3. JournalKnows'
  BY OpFields, EndLeaves, <1>0 DEF Typed, Maybe, JournalKnows, Progress, Linked,
         Pended, Forward, Undoing, Before, Outcomes, SameBut, Ended
<1>4. Progress'
  BY OpFields, EndLeaves, <1>0 DEF Typed, Maybe, Labels, JournalKnows, Progress,
         Linked, Pended, Forward, Undoing, Before, Outcomes, SameBut, Ended
<1>5. Remembers'
  BY OpFields, EndLeaves, <1>0 DEF Typed, Maybe, Labels, Remembers, B, JournalKnows,
         Progress, Linked, Pended, Forward, Undoing, Before, Outcomes, SameBut, Ended
<1>6. Service'
  BY OpFields, EndLeaves, <1>0 DEF Typed, Maybe, Labels, Service, Remembers, B,
         AsFound, Planned, Progress, Linked, Pended, Forward, Undoing, Before,
         Outcomes, SameBut, Ended
<1>7. UserFilesSurvive'
  BY OpFields, EndLeaves, <1>0 DEF Typed, Things, Progress, UserFilesSurvive,
         Outcomes, SameBut, Ended
<1>8. FailureRestores'
  BY OpFields, EndLeaves, <1>0 DEF Typed, Maybe, FailureRestores, Service, Remembers,
         B, AsFound, Planned, Progress, Linked, Pended, Forward, Undoing, Before,
         Outcomes, SameBut, Ended
<1>9. SuccessIsWhole'
  BY OpFields, EndLeaves, <1>0 DEF Typed, Maybe, SuccessIsWhole, Service, Remembers,
         B, AsFound, Planned, Progress, Linked, Pended, Forward, Undoing, Before,
         Outcomes, SameBut, Ended
<1>10. QED BY <1>1, <1>2, <1>3, <1>4, <1>5, <1>6, <1>7, <1>8, <1>9

LEMMA LinkSpareKeeps ==
  ASSUME InstallAssumption, InstallInv, LinkSpare
  PROVE  InstallInv'
<1> USE DEF InstallInv, InstallAssumption
<1> USE DEF LinkSpare, vars, store, links, svc, bounds, Goto, NoFault
<1>1. Typed'
  <2>1. op' \in OpType BY OpFields, EndLeaves DEF Typed, Outcomes, Ended
  <2>2. last' \in LastType BY OpFields, EndLeaves DEF Typed, LastType, Outcomes, Ended
  <2>3. QED
    BY OpFields, EndLeaves, <2>1, <2>2 DEF Typed, Things, Labels, Maybe, Progress,
           LastType, Outcomes, Ended
<1>2. AllStaged'
  BY OpFields, EndLeaves DEF Typed, Maybe, AllStaged, Complete, Progress, Linked,
         Pended, Forward, Undoing, Before, Outcomes, Ended
<1>3. JournalKnows'
  BY OpFields, EndLeaves DEF Typed, Maybe, JournalKnows, Progress, Linked, Pended,
         Forward, Undoing, Before, Outcomes, Ended
<1>4. Progress'
  BY OpFields, EndLeaves DEF Typed, Maybe, Labels, JournalKnows, Progress, Linked,
         Pended, Forward, Undoing, Before, Outcomes, Ended
<1>5. Remembers'
  BY OpFields, EndLeaves DEF Typed, Maybe, Labels, Remembers, B, JournalKnows,
         Progress, Linked, Pended, Forward, Undoing, Before, Outcomes, Ended
<1>6. Service'
  BY OpFields, EndLeaves DEF Typed, Maybe, Labels, Service, Remembers, B, AsFound,
         Planned, Progress, Linked, Pended, Forward, Undoing, Before, Outcomes, Ended
<1>7. UserFilesSurvive'
  BY OpFields, EndLeaves DEF Typed, Things, Progress, UserFilesSurvive, Outcomes, Ended
<1>8. FailureRestores'
  BY OpFields, EndLeaves DEF Typed, Maybe, FailureRestores, Service, Remembers, B,
         AsFound, Planned, Progress, Linked, Pended, Forward, Undoing, Before,
         Outcomes, Ended
<1>9. SuccessIsWhole'
  BY OpFields, EndLeaves DEF Typed, Maybe, SuccessIsWhole, Service, Remembers, B,
         AsFound, Planned, Progress, Linked, Pended, Forward, Undoing, Before,
         Outcomes, Ended
<1>10. QED BY <1>1, <1>2, <1>3, <1>4, <1>5, <1>6, <1>7, <1>8, <1>9

LEMMA LinkExchangeKeeps ==
  ASSUME InstallAssumption, InstallInv, LinkExchange
  PROVE  InstallInv'
<1> USE DEF InstallInv, InstallAssumption
<1> USE DEF LinkExchange, vars, store, links, svc, bounds, Goto, NoFault
<1>1. Typed'
  <2>1. op' \in OpType BY OpFields DEF Typed
  <2>2. last' \in LastType BY OpFields DEF Typed, LastType
  <2>3. QED BY OpFields, <2>1, <2>2 DEF Typed, Things, Labels, Maybe, Progress, LastType
<1>2. AllStaged'
  BY OpFields DEF Typed, Maybe, AllStaged, Complete, Progress, Linked, Pended,
         Forward, Undoing, Before
<1>3. JournalKnows'
  BY OpFields DEF Typed, Maybe, JournalKnows, Progress, Linked, Pended, Forward,
         Undoing, Before
<1>4. Progress'
  BY OpFields DEF Typed, Maybe, Labels, JournalKnows, Progress, Linked, Pended,
         Forward, Undoing, Before
<1>5. Remembers'
  BY OpFields DEF Typed, Maybe, Labels, Remembers, B, JournalKnows, Progress, Linked,
         Pended, Forward, Undoing, Before
<1>6. Service'
  BY OpFields DEF Typed, Maybe, Labels, Service, Remembers, B, AsFound, Planned,
         Progress, Linked, Pended, Forward, Undoing, Before
<1>7. UserFilesSurvive'
  BY OpFields DEF Typed, Things, Progress, UserFilesSurvive
<1>8. FailureRestores'
  BY OpFields DEF Typed, Maybe, FailureRestores, Service, Remembers, B, AsFound,
         Planned, Progress, Linked, Pended, Forward, Undoing, Before
<1>9. SuccessIsWhole'
  BY OpFields DEF Typed, Maybe, SuccessIsWhole, Service, Remembers, B, AsFound,
         Planned, Progress, Linked, Pended, Forward, Undoing, Before
<1>10. QED BY <1>1, <1>2, <1>3, <1>4, <1>5, <1>6, <1>7, <1>8, <1>9

LEMMA LinkDisplacedKeeps ==
  ASSUME InstallAssumption, InstallInv, LinkDisplaced
  PROVE  InstallInv'
<1> USE DEF InstallInv, InstallAssumption
<1>0. \/ End("refused") /\ spare' = spare
      \/ /\ op' \in OpType /\ SameBut /\ op'.plan = op.plan /\ op'.name = op.name + 1
         /\ pc' = "link" /\ last' = last /\ spare[op.name] = op.seen
         /\ spare' = [spare EXCEPT ![op.name] = "absent"] /\ runs' = runs /\ kills' = kills
  BY NameAdvances DEF LinkDisplaced, Progress
<1> USE DEF LinkDisplaced, vars, store, links, svc, bounds, NoFault
<1>1. Typed'
  <2>1. op' \in OpType BY OpFields, EndLeaves, <1>0 DEF Typed, Outcomes, SameBut, Ended
  <2>2. last' \in LastType
    BY OpFields, EndLeaves, <1>0 DEF Typed, LastType, Outcomes, SameBut, Ended
  <2>3. QED
    BY OpFields, EndLeaves, <1>0, <2>1, <2>2 DEF Typed, Things, Labels, Maybe,
           Progress, LastType, Outcomes, SameBut, Ended
<1>2. AllStaged'
  BY OpFields, EndLeaves, <1>0 DEF Typed, Maybe, AllStaged, Complete, Progress,
         Linked, Pended, Forward, Undoing, Before, Outcomes, SameBut, Ended
<1>3. JournalKnows'
  BY OpFields, EndLeaves, <1>0 DEF Typed, Maybe, JournalKnows, Progress, Linked,
         Pended, Forward, Undoing, Before, Outcomes, SameBut, Ended
<1>4. Progress'
  BY OpFields, EndLeaves, <1>0 DEF Typed, Maybe, Labels, JournalKnows, Progress,
         Linked, Pended, Forward, Undoing, Before, Outcomes, SameBut, Ended
<1>5. Remembers'
  BY OpFields, EndLeaves, <1>0 DEF Typed, Maybe, Labels, Remembers, B, JournalKnows,
         Progress, Linked, Pended, Forward, Undoing, Before, Outcomes, SameBut, Ended
<1>6. Service'
  BY OpFields, EndLeaves, <1>0 DEF Typed, Maybe, Labels, Service, Remembers, B,
         AsFound, Planned, Progress, Linked, Pended, Forward, Undoing, Before,
         Outcomes, SameBut, Ended
<1>7. UserFilesSurvive'
  BY OpFields, EndLeaves, <1>0 DEF Typed, Things, Progress, UserFilesSurvive,
         Outcomes, SameBut, Ended
<1>8. FailureRestores'
  BY OpFields, EndLeaves, <1>0 DEF Typed, Maybe, FailureRestores, Service, Remembers,
         B, AsFound, Planned, Progress, Linked, Pended, Forward, Undoing, Before,
         Outcomes, SameBut, Ended
<1>9. SuccessIsWhole'
  BY OpFields, EndLeaves, <1>0 DEF Typed, Maybe, SuccessIsWhole, Service, Remembers,
         B, AsFound, Planned, Progress, Linked, Pended, Forward, Undoing, Before,
         Outcomes, SameBut, Ended
<1>10. QED BY <1>1, <1>2, <1>3, <1>4, <1>5, <1>6, <1>7, <1>8, <1>9

LEMMA LinksDoneKeeps ==
  ASSUME InstallAssumption, InstallInv, LinksDone
  PROVE  InstallInv'
<1> USE DEF InstallInv, InstallAssumption
<1> USE DEF LinksDone, vars, store, links, svc, bounds, Goto, NoFault
<1>1. Typed'
  <2>1. op' \in OpType BY OpFields DEF Typed
  <2>2. last' \in LastType BY OpFields DEF Typed, LastType
  <2>3. QED BY OpFields, <2>1, <2>2 DEF Typed, Things, Labels, Maybe, Progress, LastType
<1>2. AllStaged'
  BY OpFields DEF Typed, Maybe, AllStaged, Complete, Progress, Linked, Pended,
         Forward, Undoing, Before
<1>3. JournalKnows'
  BY OpFields DEF Typed, Maybe, JournalKnows, Progress, Linked, Pended, Forward,
         Undoing, Before
<1>4. Progress'
  BY OpFields DEF Typed, Maybe, Labels, JournalKnows, Progress, Linked, Pended,
         Forward, Undoing, Before
<1>5. Remembers'
  BY OpFields DEF Typed, Maybe, Labels, Remembers, B, JournalKnows, Progress, Linked,
         Pended, Forward, Undoing, Before
<1>6. Service'
  BY OpFields DEF Typed, Maybe, Labels, Service, Remembers, B, AsFound, Planned,
         Progress, Linked, Pended, Forward, Undoing, Before
<1>7. UserFilesSurvive'
  BY OpFields DEF Typed, Things, Progress, UserFilesSurvive
<1>8. FailureRestores'
  BY OpFields DEF Typed, Maybe, FailureRestores, Service, Remembers, B, AsFound,
         Planned, Progress, Linked, Pended, Forward, Undoing, Before
<1>9. SuccessIsWhole'
  BY OpFields DEF Typed, Maybe, SuccessIsWhole, Service, Remembers, B, AsFound,
         Planned, Progress, Linked, Pended, Forward, Undoing, Before
<1>10. QED BY <1>1, <1>2, <1>3, <1>4, <1>5, <1>6, <1>7, <1>8, <1>9

LEMMA PublishNextKeeps ==
  ASSUME InstallAssumption, InstallInv, PublishNext
  PROVE  InstallInv'
<1> USE DEF InstallInv, InstallAssumption
<1> USE DEF PublishNext, vars, store, links, svc, bounds, Goto, NoFault
<1>1. Typed'
  <2>1. op' \in OpType BY OpFields, EndLeaves DEF Typed, Outcomes, Ended
  <2>2. last' \in LastType BY OpFields, EndLeaves DEF Typed, LastType, Outcomes, Ended
  <2>3. QED
    BY OpFields, EndLeaves, <2>1, <2>2 DEF Typed, Things, Labels, Maybe, Progress,
           LastType, Outcomes, Ended
<1>2. AllStaged'
  BY OpFields, EndLeaves DEF Typed, Maybe, AllStaged, Complete, Progress, Linked,
         Pended, Forward, Undoing, Before, Outcomes, Ended
<1>3. JournalKnows'
  BY OpFields, EndLeaves DEF Typed, Maybe, JournalKnows, Progress, Linked, Pended,
         Forward, Undoing, Before, Outcomes, Ended
<1>4. Progress'
  BY OpFields, EndLeaves DEF Typed, Maybe, Labels, JournalKnows, Progress, Linked,
         Pended, Forward, Undoing, Before, Outcomes, Ended
<1>5. Remembers'
  BY OpFields, EndLeaves DEF Typed, Maybe, Labels, Remembers, B, JournalKnows,
         Progress, Linked, Pended, Forward, Undoing, Before, Outcomes, Ended
<1>6. Service'
  BY OpFields, EndLeaves DEF Typed, Maybe, Labels, Service, Remembers, B, AsFound,
         Planned, Progress, Linked, Pended, Forward, Undoing, Before, Outcomes, Ended
<1>7. UserFilesSurvive'
  BY OpFields, EndLeaves DEF Typed, Things, Progress, UserFilesSurvive, Outcomes, Ended
<1>8. FailureRestores'
  BY OpFields, EndLeaves DEF Typed, Maybe, FailureRestores, Service, Remembers, B,
         AsFound, Planned, Progress, Linked, Pended, Forward, Undoing, Before,
         Outcomes, Ended
<1>9. SuccessIsWhole'
  BY OpFields, EndLeaves DEF Typed, Maybe, SuccessIsWhole, Service, Remembers, B,
         AsFound, Planned, Progress, Linked, Pended, Forward, Undoing, Before,
         Outcomes, Ended
<1>10. QED BY <1>1, <1>2, <1>3, <1>4, <1>5, <1>6, <1>7, <1>8, <1>9

LEMMA PublishSwapKeeps ==
  ASSUME InstallAssumption, InstallInv, PublishSwap
  PROVE  InstallInv'
<1> USE DEF InstallInv, InstallAssumption
<1> USE DEF PublishSwap, vars, store, links, svc, bounds, Goto, NoFault
<1>1. Typed'
  <2>1. op' \in OpType BY OpFields DEF Typed
  <2>2. last' \in LastType BY OpFields DEF Typed, LastType
  <2>3. QED BY OpFields, <2>1, <2>2 DEF Typed, Things, Labels, Maybe, Progress, LastType
<1>2. AllStaged'
  BY OpFields DEF Typed, Maybe, AllStaged, Complete, Progress, Linked, Pended,
         Forward, Undoing, Before
<1>3. JournalKnows'
  BY OpFields DEF Typed, Maybe, JournalKnows, Progress, Linked, Pended, Forward,
         Undoing, Before
<1>4. Progress'
  BY OpFields DEF Typed, Maybe, Labels, JournalKnows, Progress, Linked, Pended,
         Forward, Undoing, Before
<1>5. Remembers'
  BY OpFields DEF Typed, Maybe, Labels, Remembers, B, JournalKnows, Progress, Linked,
         Pended, Forward, Undoing, Before
<1>6. Service'
  BY OpFields DEF Typed, Maybe, Labels, Service, Remembers, B, AsFound, Planned,
         Progress, Linked, Pended, Forward, Undoing, Before
<1>7. UserFilesSurvive'
  BY OpFields DEF Typed, Things, Progress, UserFilesSurvive
<1>8. FailureRestores'
  BY OpFields DEF Typed, Maybe, FailureRestores, Service, Remembers, B, AsFound,
         Planned, Progress, Linked, Pended, Forward, Undoing, Before
<1>9. SuccessIsWhole'
  BY OpFields DEF Typed, Maybe, SuccessIsWhole, Service, Remembers, B, AsFound,
         Planned, Progress, Linked, Pended, Forward, Undoing, Before
<1>10. QED BY <1>1, <1>2, <1>3, <1>4, <1>5, <1>6, <1>7, <1>8, <1>9

LEMMA PublishUnlinkKeeps ==
  ASSUME InstallAssumption, InstallInv, PublishUnlink
  PROVE  InstallInv'
<1> USE DEF InstallInv, InstallAssumption
<1> USE DEF PublishUnlink, vars, store, links, svc, bounds, Goto, NoFault
<1>1. Typed'
  <2>1. op' \in OpType BY OpFields, EndLeaves DEF Typed, Outcomes, Ended
  <2>2. last' \in LastType BY OpFields, EndLeaves DEF Typed, LastType, Outcomes, Ended
  <2>3. QED
    BY OpFields, EndLeaves, <2>1, <2>2 DEF Typed, Things, Labels, Maybe, Progress,
           LastType, Outcomes, Ended
<1>2. AllStaged'
  BY OpFields, EndLeaves DEF Typed, Maybe, AllStaged, Complete, Progress, Linked,
         Pended, Forward, Undoing, Before, Outcomes, Ended
<1>3. JournalKnows'
  BY OpFields, EndLeaves DEF Typed, Maybe, JournalKnows, Progress, Linked, Pended,
         Forward, Undoing, Before, Outcomes, Ended
<1>4. Progress'
  BY OpFields, EndLeaves DEF Typed, Maybe, Labels, JournalKnows, Progress, Linked,
         Pended, Forward, Undoing, Before, Outcomes, Ended
<1>5. Remembers'
  BY OpFields, EndLeaves DEF Typed, Maybe, Labels, Remembers, B, JournalKnows,
         Progress, Linked, Pended, Forward, Undoing, Before, Outcomes, Ended
<1>6. Service'
  BY OpFields, EndLeaves DEF Typed, Maybe, Labels, Service, Remembers, B, AsFound,
         Planned, Progress, Linked, Pended, Forward, Undoing, Before, Outcomes, Ended
<1>7. UserFilesSurvive'
  BY OpFields, EndLeaves DEF Typed, Things, Progress, UserFilesSurvive, Outcomes, Ended
<1>8. FailureRestores'
  BY OpFields, EndLeaves DEF Typed, Maybe, FailureRestores, Service, Remembers, B,
         AsFound, Planned, Progress, Linked, Pended, Forward, Undoing, Before,
         Outcomes, Ended
<1>9. SuccessIsWhole'
  BY OpFields, EndLeaves DEF Typed, Maybe, SuccessIsWhole, Service, Remembers, B,
         AsFound, Planned, Progress, Linked, Pended, Forward, Undoing, Before,
         Outcomes, Ended
<1>10. QED BY <1>1, <1>2, <1>3, <1>4, <1>5, <1>6, <1>7, <1>8, <1>9

LEMMA PublishSaveKeeps ==
  ASSUME InstallAssumption, InstallInv, PublishSave
  PROVE  InstallInv'
<1> USE DEF InstallInv, InstallAssumption
<1>0. /\ journal' \in [current : Maybe, previous : Maybe, pending : Maybe]
      /\ journal'.pending = NoRelease /\ journal'.current = op.rel
      /\ journal'.previous = IF journal.current = op.rel THEN journal.previous
                             ELSE journal.current
  <2>1. journal \in [current : Maybe, previous : Maybe, pending : Maybe] BY DEF Typed
  <2>2. NoRelease \in Maybe BY DEF Maybe
  <2>3. op.rel \in Maybe BY OpFields
  <2>4. QED BY <2>1, <2>2, <2>3 DEF PublishSave, Adopt
<1> USE DEF PublishSave, vars, store, links, svc, bounds, Goto, NoFault
<1>1. Typed'
  <2>1. op' \in OpType BY OpFields, EndLeaves, <1>0 DEF Typed, Outcomes, Ended
  <2>2. last' \in LastType
    BY OpFields, EndLeaves, <1>0 DEF Typed, LastType, Outcomes, Ended
  <2>3. QED
    BY OpFields, EndLeaves, <1>0, <2>1, <2>2 DEF Typed, Things, Labels, Maybe,
           Progress, LastType, Outcomes, Ended
<1>2. AllStaged'
  BY OpFields, EndLeaves, <1>0 DEF Typed, Maybe, AllStaged, Complete, Progress,
         Linked, Pended, Forward, Undoing, Before, Outcomes, Ended
<1>3. JournalKnows'
  BY OpFields, EndLeaves, <1>0 DEF Typed, Maybe, JournalKnows, Progress, Linked,
         Pended, Forward, Undoing, Before, Outcomes, Ended
<1>4. Progress'
  BY OpFields, EndLeaves, <1>0 DEF Typed, Maybe, Labels, JournalKnows, Progress,
         Linked, Pended, Forward, Undoing, Before, Outcomes, Ended
<1>5. Remembers'
  BY OpFields, EndLeaves, <1>0 DEF Typed, Maybe, Labels, Remembers, B, JournalKnows,
         Progress, Linked, Pended, Forward, Undoing, Before, Outcomes, Ended
<1>6. Service'
  BY OpFields, EndLeaves, <1>0 DEF Typed, Maybe, Labels, Service, Remembers, B,
         AsFound, Planned, Progress, Linked, Pended, Forward, Undoing, Before,
         Outcomes, Ended
<1>7. UserFilesSurvive'
  BY OpFields, EndLeaves, <1>0 DEF Typed, Things, Progress, UserFilesSurvive,
         Outcomes, Ended
<1>8. FailureRestores'
  BY OpFields, EndLeaves, <1>0 DEF Typed, Maybe, FailureRestores, Service, Remembers,
         B, AsFound, Planned, Progress, Linked, Pended, Forward, Undoing, Before,
         Outcomes, Ended
<1>9. SuccessIsWhole'
  BY OpFields, EndLeaves, <1>0 DEF Typed, Maybe, SuccessIsWhole, Service, Remembers,
         B, AsFound, Planned, Progress, Linked, Pended, Forward, Undoing, Before,
         Outcomes, Ended
<1>10. QED BY <1>1, <1>2, <1>3, <1>4, <1>5, <1>6, <1>7, <1>8, <1>9

LEMMA PlanKeeps ==
  ASSUME InstallAssumption, InstallInv, Plan
  PROVE  InstallInv'
<1> USE DEF InstallInv, InstallAssumption
<1>0. /\ pc = "plan" /\ UNCHANGED <<store, links, svc>> /\ faults' \in 0..MaxFaults
      /\ \/ Returned(TRUE)
         \/ /\ op' \in OpType /\ SameBut /\ pc' = "unit" /\ last' = last
            /\ op'.plan.active = (running # NoRelease) /\ op'.plan.enabled = enabled
            /\ op'.plan.rollback \in {unit, running} /\ runs' = runs /\ kills' = kills
  <2> DEFINE p == [previous |-> unit,
                   rollback |-> IF running # NoRelease /\ running # op.rel THEN running ELSE unit,
                   active |-> running # NoRelease, enabled |-> enabled,
                   restart |-> running # NoRelease /\ (unit # op.rel \/ running # op.rel)]
  <2>1. op \in OpType /\ faults \in 0..MaxFaults BY DEF Typed
  <2>2. p \in PlanType BY DEF Typed, PlanType
  <2>3. pc = "plan" /\ UNCHANGED <<store, links, svc>> BY DEF Plan
  <2>4. CASE Fault /\ ConfigureFailed(TRUE)
    BY <2>3, <2>4, FailureLeaves, FaultsAreCounted
  <2>5. CASE /\ op' = [op EXCEPT !.plan = p] /\ pc' = "unit" /\ NoFault
             /\ UNCHANGED <<last, runs, kills>>
    <3>1. p.active = (running # NoRelease) /\ p.enabled = enabled /\ p.rollback \in {unit, running}
      OBVIOUS
    <3> HIDE DEF p
    <3>2. op' \in OpType BY <2>1, <2>2, <2>5 DEF OpType
    <3>3. SameBut /\ op'.plan = p BY <2>1, <2>5 DEF OpType, SameBut
    <3>4. faults' \in 0..MaxFaults BY <2>1, <2>5 DEF NoFault
    <3>5. QED BY <2>3, <2>5, <3>1, <3>2, <3>3, <3>4
  <2>6. QED BY <2>4, <2>5 DEF Plan, Definition
<1> USE DEF vars, store, links, svc, bounds, Goto
<1>1. Typed'
  <2>1. op' \in OpType
    BY OpFields, <1>0 DEF Typed, Ended, Outcomes, Returned, UndoBegins, NothingToUndo,
           SameBut
  <2>2. last' \in LastType
    BY OpFields, <1>0 DEF Typed, LastType, Ended, Outcomes, Returned, UndoBegins,
           NothingToUndo, SameBut
  <2>3. QED
    BY OpFields, <1>0, <2>1, <2>2 DEF Typed, Things, Labels, Maybe, Progress,
           LastType, Ended, Outcomes, Returned, UndoBegins, NothingToUndo, SameBut
<1>2. AllStaged'
  BY OpFields, <1>0 DEF Typed, Maybe, AllStaged, Complete, Progress, Linked, Pended,
         Forward, Undoing, Before, Ended, Outcomes, Returned, UndoBegins,
         NothingToUndo, SameBut
<1>3. JournalKnows'
  BY OpFields, <1>0 DEF Typed, Maybe, JournalKnows, Progress, Linked, Pended, Forward,
         Undoing, Before, Ended, Outcomes, Returned, UndoBegins, NothingToUndo,
         SameBut
<1>4. Progress'
  BY OpFields, <1>0 DEF Typed, Maybe, Labels, JournalKnows, Progress, Linked, Pended,
         Forward, Undoing, Before, Ended, Outcomes, Returned, UndoBegins,
         NothingToUndo, SameBut
<1>5. Remembers'
  BY OpFields, <1>0 DEF Typed, Maybe, Labels, Remembers, B, JournalKnows, Progress,
         Linked, Pended, Forward, Undoing, Before, Ended, Outcomes, Returned,
         UndoBegins, NothingToUndo, SameBut
<1>6. Service'
  BY OpFields, <1>0 DEF Typed, Maybe, Labels, Service, Remembers, B, AsFound, Planned,
         Progress, Linked, Pended, Forward, Undoing, Before, Ended, Outcomes,
         Returned, UndoBegins, NothingToUndo, SameBut
<1>7. UserFilesSurvive'
  BY OpFields, <1>0 DEF Typed, Things, Progress, UserFilesSurvive, Ended, Outcomes,
         Returned, UndoBegins, NothingToUndo, SameBut
<1>8. FailureRestores'
  BY OpFields, <1>0 DEF Typed, Maybe, FailureRestores, Service, Remembers, B, AsFound,
         Planned, Progress, Linked, Pended, Forward, Undoing, Before, Ended, Outcomes,
         Returned, UndoBegins, NothingToUndo, SameBut
<1>9. SuccessIsWhole'
  BY OpFields, <1>0 DEF Typed, Maybe, SuccessIsWhole, Service, Remembers, B, AsFound,
         Planned, Progress, Linked, Pended, Forward, Undoing, Before, Ended, Outcomes,
         Returned, UndoBegins, NothingToUndo, SameBut
<1>10. QED BY <1>1, <1>2, <1>3, <1>4, <1>5, <1>6, <1>7, <1>8, <1>9

LEMMA ReplaceUnitKeeps ==
  ASSUME InstallAssumption, InstallInv, ReplaceUnit
  PROVE  InstallInv'
<1> USE DEF InstallInv, InstallAssumption
<1> USE DEF ReplaceUnit, vars, store, links, svc, bounds, Definition, Goto, NoFault
<1>1. Typed'
  <2>1. op' \in OpType BY OpFields DEF Typed
  <2>2. last' \in LastType BY OpFields DEF Typed, LastType
  <2>3. QED BY OpFields, <2>1, <2>2 DEF Typed, Things, Labels, Maybe, Progress, LastType
<1>2. AllStaged'
  BY OpFields DEF Typed, Maybe, AllStaged, Complete, Progress, Linked, Pended,
         Forward, Undoing, Before
<1>3. JournalKnows'
  BY OpFields DEF Typed, Maybe, JournalKnows, Progress, Linked, Pended, Forward,
         Undoing, Before
<1>4. Progress'
  BY OpFields DEF Typed, Maybe, Labels, JournalKnows, Progress, Linked, Pended,
         Forward, Undoing, Before
<1>5. Remembers'
  BY OpFields DEF Typed, Maybe, Labels, Remembers, B, JournalKnows, Progress, Linked,
         Pended, Forward, Undoing, Before
<1>6. Service'
  BY OpFields DEF Typed, Maybe, Labels, Service, Remembers, B, AsFound, Planned,
         Progress, Linked, Pended, Forward, Undoing, Before
<1>7. UserFilesSurvive'
  BY OpFields DEF Typed, Things, Progress, UserFilesSurvive
<1>8. FailureRestores'
  BY OpFields DEF Typed, Maybe, FailureRestores, Service, Remembers, B, AsFound,
         Planned, Progress, Linked, Pended, Forward, Undoing, Before
<1>9. SuccessIsWhole'
  BY OpFields DEF Typed, Maybe, SuccessIsWhole, Service, Remembers, B, AsFound,
         Planned, Progress, Linked, Pended, Forward, Undoing, Before
<1>10. QED BY <1>1, <1>2, <1>3, <1>4, <1>5, <1>6, <1>7, <1>8, <1>9

LEMMA ReloadKeeps ==
  ASSUME InstallAssumption, InstallInv, Reload
  PROVE  InstallInv'
<1> USE DEF InstallInv, InstallAssumption
<1> USE DEF Reload, vars, store, links, svc, bounds, Systemctl, DaemonReload, Goto, NoFault, Fault
<1>1. Typed'
  <2>1. op' \in OpType BY OpFields DEF Typed
  <2>2. last' \in LastType BY OpFields DEF Typed, LastType
  <2>3. QED BY OpFields, <2>1, <2>2 DEF Typed, Things, Labels, Maybe, Progress, LastType
<1>2. AllStaged'
  BY OpFields DEF Typed, Maybe, AllStaged, Complete, Progress, Linked, Pended,
         Forward, Undoing, Before
<1>3. JournalKnows'
  BY OpFields DEF Typed, Maybe, JournalKnows, Progress, Linked, Pended, Forward,
         Undoing, Before
<1>4. Progress'
  BY OpFields DEF Typed, Maybe, Labels, JournalKnows, Progress, Linked, Pended,
         Forward, Undoing, Before
<1>5. Remembers'
  BY OpFields DEF Typed, Maybe, Labels, Remembers, B, JournalKnows, Progress, Linked,
         Pended, Forward, Undoing, Before
<1>6. Service'
  BY OpFields DEF Typed, Maybe, Labels, Service, Remembers, B, AsFound, Planned,
         Progress, Linked, Pended, Forward, Undoing, Before
<1>7. UserFilesSurvive'
  BY OpFields DEF Typed, Things, Progress, UserFilesSurvive
<1>8. FailureRestores'
  BY OpFields DEF Typed, Maybe, FailureRestores, Service, Remembers, B, AsFound,
         Planned, Progress, Linked, Pended, Forward, Undoing, Before
<1>9. SuccessIsWhole'
  BY OpFields DEF Typed, Maybe, SuccessIsWhole, Service, Remembers, B, AsFound,
         Planned, Progress, Linked, Pended, Forward, Undoing, Before
<1>10. QED BY <1>1, <1>2, <1>3, <1>4, <1>5, <1>6, <1>7, <1>8, <1>9

LEMMA EnableUnitKeeps ==
  ASSUME InstallAssumption, InstallInv, EnableUnit
  PROVE  InstallInv'
<1> USE DEF InstallInv, InstallAssumption
<1>0. /\ pc = "enable" /\ UNCHANGED <<store, links, unit, loaded, running, healthy>>
      /\ faults' \in 0..MaxFaults /\ enabled' \in BOOLEAN
      /\ Goto("start") \/ Goto("undo")
  <2>1. enabled \in BOOLEAN BY DEF Typed
  <2>2. Fault \/ NoFault => faults' \in 0..MaxFaults BY FaultsAreCounted
  <2>3. QED BY <2>1, <2>2 DEF EnableUnit, Systemctl, Enable, svc
<1> USE DEF vars, store, links, svc, bounds, Goto
<1>1. Typed'
  <2>1. op' \in OpType BY OpFields, <1>0 DEF Typed
  <2>2. last' \in LastType BY OpFields, <1>0 DEF Typed, LastType
  <2>3. QED
    BY OpFields, <1>0, <2>1, <2>2 DEF Typed, Things, Labels, Maybe, Progress, LastType
<1>2. AllStaged'
  BY OpFields, <1>0 DEF Typed, Maybe, AllStaged, Complete, Progress, Linked, Pended,
         Forward, Undoing, Before
<1>3. JournalKnows'
  BY OpFields, <1>0 DEF Typed, Maybe, JournalKnows, Progress, Linked, Pended, Forward,
         Undoing, Before
<1>4. Progress'
  BY OpFields, <1>0 DEF Typed, Maybe, Labels, JournalKnows, Progress, Linked, Pended,
         Forward, Undoing, Before
<1>5. Remembers'
  BY OpFields, <1>0 DEF Typed, Maybe, Labels, Remembers, B, JournalKnows, Progress,
         Linked, Pended, Forward, Undoing, Before
<1>6. Service'
  BY OpFields, <1>0 DEF Typed, Maybe, Labels, Service, Remembers, B, AsFound, Planned,
         Progress, Linked, Pended, Forward, Undoing, Before
<1>7. UserFilesSurvive'
  BY OpFields, <1>0 DEF Typed, Things, Progress, UserFilesSurvive
<1>8. FailureRestores'
  BY OpFields, <1>0 DEF Typed, Maybe, FailureRestores, Service, Remembers, B, AsFound,
         Planned, Progress, Linked, Pended, Forward, Undoing, Before
<1>9. SuccessIsWhole'
  BY OpFields, <1>0 DEF Typed, Maybe, SuccessIsWhole, Service, Remembers, B, AsFound,
         Planned, Progress, Linked, Pended, Forward, Undoing, Before
<1>10. QED BY <1>1, <1>2, <1>3, <1>4, <1>5, <1>6, <1>7, <1>8, <1>9

LEMMA StartUnitKeeps ==
  ASSUME InstallAssumption, InstallInv, StartUnit
  PROVE  InstallInv'
<1> USE DEF InstallInv, InstallAssumption
<1> USE DEF StartUnit, vars, store, links, svc, bounds, Systemctl, Launch, Goto, NoFault, Fault
<1>1. Typed'
  <2>1. op' \in OpType BY OpFields, EndLeaves DEF Typed, Outcomes, Ended
  <2>2. last' \in LastType BY OpFields, EndLeaves DEF Typed, LastType, Outcomes, Ended
  <2>3. QED
    BY OpFields, EndLeaves, <2>1, <2>2 DEF Typed, Things, Labels, Maybe, Progress,
           LastType, Outcomes, Ended
<1>2. AllStaged'
  BY OpFields, EndLeaves DEF Typed, Maybe, AllStaged, Complete, Progress, Linked,
         Pended, Forward, Undoing, Before, Outcomes, Ended
<1>3. JournalKnows'
  BY OpFields, EndLeaves DEF Typed, Maybe, JournalKnows, Progress, Linked, Pended,
         Forward, Undoing, Before, Outcomes, Ended
<1>4. Progress'
  BY OpFields, EndLeaves DEF Typed, Maybe, Labels, JournalKnows, Progress, Linked,
         Pended, Forward, Undoing, Before, Outcomes, Ended
<1>5. Remembers'
  BY OpFields, EndLeaves DEF Typed, Maybe, Labels, Remembers, B, JournalKnows,
         Progress, Linked, Pended, Forward, Undoing, Before, Outcomes, Ended
<1>6. Service'
  BY OpFields, EndLeaves DEF Typed, Maybe, Labels, Service, Remembers, B, AsFound,
         Planned, Progress, Linked, Pended, Forward, Undoing, Before, Outcomes, Ended
<1>7. UserFilesSurvive'
  BY OpFields, EndLeaves DEF Typed, Things, Progress, UserFilesSurvive, Outcomes, Ended
<1>8. FailureRestores'
  BY OpFields, EndLeaves DEF Typed, Maybe, FailureRestores, Service, Remembers, B,
         AsFound, Planned, Progress, Linked, Pended, Forward, Undoing, Before,
         Outcomes, Ended
<1>9. SuccessIsWhole'
  BY OpFields, EndLeaves DEF Typed, Maybe, SuccessIsWhole, Service, Remembers, B,
         AsFound, Planned, Progress, Linked, Pended, Forward, Undoing, Before,
         Outcomes, Ended
<1>10. QED BY <1>1, <1>2, <1>3, <1>4, <1>5, <1>6, <1>7, <1>8, <1>9

LEMMA AwaitReadyKeeps ==
  ASSUME InstallAssumption, InstallInv, AwaitReady
  PROVE  InstallInv'
<1> USE DEF InstallInv, InstallAssumption
<1> USE DEF AwaitReady, vars, store, links, svc, bounds, Definition, Goto, NoFault, Fault
<1>1. Typed'
  <2>1. op' \in OpType BY OpFields, EndLeaves DEF Typed, Outcomes, Ended
  <2>2. last' \in LastType BY OpFields, EndLeaves DEF Typed, LastType, Outcomes, Ended
  <2>3. QED
    BY OpFields, EndLeaves, <2>1, <2>2 DEF Typed, Things, Labels, Maybe, Progress,
           LastType, Outcomes, Ended
<1>2. AllStaged'
  BY OpFields, EndLeaves DEF Typed, Maybe, AllStaged, Complete, Progress, Linked,
         Pended, Forward, Undoing, Before, Outcomes, Ended
<1>3. JournalKnows'
  BY OpFields, EndLeaves DEF Typed, Maybe, JournalKnows, Progress, Linked, Pended,
         Forward, Undoing, Before, Outcomes, Ended
<1>4. Progress'
  BY OpFields, EndLeaves DEF Typed, Maybe, Labels, JournalKnows, Progress, Linked,
         Pended, Forward, Undoing, Before, Outcomes, Ended
<1>5. Remembers'
  BY OpFields, EndLeaves DEF Typed, Maybe, Labels, Remembers, B, JournalKnows,
         Progress, Linked, Pended, Forward, Undoing, Before, Outcomes, Ended
<1>6. Service'
  BY OpFields, EndLeaves DEF Typed, Maybe, Labels, Service, Remembers, B, AsFound,
         Planned, Progress, Linked, Pended, Forward, Undoing, Before, Outcomes, Ended
<1>7. UserFilesSurvive'
  BY OpFields, EndLeaves DEF Typed, Things, Progress, UserFilesSurvive, Outcomes, Ended
<1>8. FailureRestores'
  BY OpFields, EndLeaves DEF Typed, Maybe, FailureRestores, Service, Remembers, B,
         AsFound, Planned, Progress, Linked, Pended, Forward, Undoing, Before,
         Outcomes, Ended
<1>9. SuccessIsWhole'
  BY OpFields, EndLeaves DEF Typed, Maybe, SuccessIsWhole, Service, Remembers, B,
         AsFound, Planned, Progress, Linked, Pended, Forward, Undoing, Before,
         Outcomes, Ended
<1>10. QED BY <1>1, <1>2, <1>3, <1>4, <1>5, <1>6, <1>7, <1>8, <1>9

LEMMA UndoStopKeeps ==
  ASSUME InstallAssumption, InstallInv, UndoStop
  PROVE  InstallInv'
<1> USE DEF InstallInv, InstallAssumption
<1>0. /\ pc = "undo" /\ UNCHANGED <<store, links, unit, loaded, enabled, healthy>>
      /\ faults' \in 0..MaxFaults
      /\ \/ Goto("undoDisable") /\ running' = NoRelease
         \/ Returned(FALSE) /\ running' \in {running, NoRelease}
  <2>1. enabled \in BOOLEAN BY DEF Typed
  <2>2. Fault \/ NoFault => faults' \in 0..MaxFaults BY FaultsAreCounted
  <2>3. Unsure => Returned(FALSE) BY FailureLeaves DEF Unsure
  <2>4. ConfigureFailed(TRUE) => Returned(TRUE) BY FailureLeaves
  <2>5. QED BY <2>1, <2>2, <2>3, <2>4 DEF UndoStop, Systemctl, Halt, svc
<1> USE DEF vars, store, links, svc, bounds, Goto
<1>1. Typed'
  <2>1. op' \in OpType
    BY OpFields, <1>0 DEF Typed, Ended, Outcomes, Returned, UndoBegins, NothingToUndo
  <2>2. last' \in LastType
    BY OpFields, <1>0 DEF Typed, LastType, Ended, Outcomes, Returned, UndoBegins,
           NothingToUndo
  <2>3. QED
    BY OpFields, <1>0, <2>1, <2>2 DEF Typed, Things, Labels, Maybe, Progress,
           LastType, Ended, Outcomes, Returned, UndoBegins, NothingToUndo
<1>2. AllStaged'
  BY OpFields, <1>0 DEF Typed, Maybe, AllStaged, Complete, Progress, Linked, Pended,
         Forward, Undoing, Before, Ended, Outcomes, Returned, UndoBegins,
         NothingToUndo
<1>3. JournalKnows'
  BY OpFields, <1>0 DEF Typed, Maybe, JournalKnows, Progress, Linked, Pended, Forward,
         Undoing, Before, Ended, Outcomes, Returned, UndoBegins, NothingToUndo
<1>4. Progress'
  BY OpFields, <1>0 DEF Typed, Maybe, Labels, JournalKnows, Progress, Linked, Pended,
         Forward, Undoing, Before, Ended, Outcomes, Returned, UndoBegins,
         NothingToUndo
<1>5. Remembers'
  BY OpFields, <1>0 DEF Typed, Maybe, Labels, Remembers, B, JournalKnows, Progress,
         Linked, Pended, Forward, Undoing, Before, Ended, Outcomes, Returned,
         UndoBegins, NothingToUndo
<1>6. Service'
  BY OpFields, <1>0 DEF Typed, Maybe, Labels, Service, Remembers, B, AsFound, Planned,
         Progress, Linked, Pended, Forward, Undoing, Before, Ended, Outcomes,
         Returned, UndoBegins, NothingToUndo
<1>7. UserFilesSurvive'
  BY OpFields, <1>0 DEF Typed, Things, Progress, UserFilesSurvive, Ended, Outcomes,
         Returned, UndoBegins, NothingToUndo
<1>8. FailureRestores'
  BY OpFields, <1>0 DEF Typed, Maybe, FailureRestores, Service, Remembers, B, AsFound,
         Planned, Progress, Linked, Pended, Forward, Undoing, Before, Ended, Outcomes,
         Returned, UndoBegins, NothingToUndo
<1>9. SuccessIsWhole'
  BY OpFields, <1>0 DEF Typed, Maybe, SuccessIsWhole, Service, Remembers, B, AsFound,
         Planned, Progress, Linked, Pended, Forward, Undoing, Before, Ended, Outcomes,
         Returned, UndoBegins, NothingToUndo
<1>10. QED BY <1>1, <1>2, <1>3, <1>4, <1>5, <1>6, <1>7, <1>8, <1>9

LEMMA UndoDisableKeeps ==
  ASSUME InstallAssumption, InstallInv, UndoDisable
  PROVE  InstallInv'
<1> USE DEF InstallInv, InstallAssumption
<1>0. /\ pc = "undoDisable" /\ UNCHANGED <<store, links, unit, loaded, running, healthy>>
      /\ faults' \in 0..MaxFaults
      /\ \/ Goto("undoUnit") /\ enabled' \in BOOLEAN /\ (enabled' => op.plan.enabled)
         \/ Returned(FALSE) /\ enabled' \in BOOLEAN
  <2>1. enabled \in BOOLEAN BY DEF Typed
  <2>2. Fault \/ NoFault => faults' \in 0..MaxFaults BY FaultsAreCounted
  <2>3. Unsure => Returned(FALSE) BY FailureLeaves DEF Unsure
  <2>4. ConfigureFailed(TRUE) => Returned(TRUE) BY FailureLeaves
  <2>5. QED BY <2>1, <2>2, <2>3, <2>4 DEF UndoDisable, Systemctl, Enable, svc
<1> USE DEF vars, store, links, svc, bounds, Goto
<1>1. Typed'
  <2>1. op' \in OpType
    BY OpFields, <1>0 DEF Typed, Ended, Outcomes, Returned, UndoBegins, NothingToUndo
  <2>2. last' \in LastType
    BY OpFields, <1>0 DEF Typed, LastType, Ended, Outcomes, Returned, UndoBegins,
           NothingToUndo
  <2>3. QED
    BY OpFields, <1>0, <2>1, <2>2 DEF Typed, Things, Labels, Maybe, Progress,
           LastType, Ended, Outcomes, Returned, UndoBegins, NothingToUndo
<1>2. AllStaged'
  BY OpFields, <1>0 DEF Typed, Maybe, AllStaged, Complete, Progress, Linked, Pended,
         Forward, Undoing, Before, Ended, Outcomes, Returned, UndoBegins,
         NothingToUndo
<1>3. JournalKnows'
  BY OpFields, <1>0 DEF Typed, Maybe, JournalKnows, Progress, Linked, Pended, Forward,
         Undoing, Before, Ended, Outcomes, Returned, UndoBegins, NothingToUndo
<1>4. Progress'
  BY OpFields, <1>0 DEF Typed, Maybe, Labels, JournalKnows, Progress, Linked, Pended,
         Forward, Undoing, Before, Ended, Outcomes, Returned, UndoBegins,
         NothingToUndo
<1>5. Remembers'
  BY OpFields, <1>0 DEF Typed, Maybe, Labels, Remembers, B, JournalKnows, Progress,
         Linked, Pended, Forward, Undoing, Before, Ended, Outcomes, Returned,
         UndoBegins, NothingToUndo
<1>6. Service'
  BY OpFields, <1>0 DEF Typed, Maybe, Labels, Service, Remembers, B, AsFound, Planned,
         Progress, Linked, Pended, Forward, Undoing, Before, Ended, Outcomes,
         Returned, UndoBegins, NothingToUndo
<1>7. UserFilesSurvive'
  BY OpFields, <1>0 DEF Typed, Things, Progress, UserFilesSurvive, Ended, Outcomes,
         Returned, UndoBegins, NothingToUndo
<1>8. FailureRestores'
  BY OpFields, <1>0 DEF Typed, Maybe, FailureRestores, Service, Remembers, B, AsFound,
         Planned, Progress, Linked, Pended, Forward, Undoing, Before, Ended, Outcomes,
         Returned, UndoBegins, NothingToUndo
<1>9. SuccessIsWhole'
  BY OpFields, <1>0 DEF Typed, Maybe, SuccessIsWhole, Service, Remembers, B, AsFound,
         Planned, Progress, Linked, Pended, Forward, Undoing, Before, Ended, Outcomes,
         Returned, UndoBegins, NothingToUndo
<1>10. QED BY <1>1, <1>2, <1>3, <1>4, <1>5, <1>6, <1>7, <1>8, <1>9

LEMMA UndoUnitKeeps ==
  ASSUME InstallAssumption, InstallInv, UndoUnit
  PROVE  InstallInv'
<1> USE DEF InstallInv, InstallAssumption
<1> USE DEF UndoUnit, vars, store, links, svc, bounds, Goto, NoFault
<1>1. Typed'
  <2>1. op' \in OpType BY OpFields DEF Typed
  <2>2. last' \in LastType BY OpFields DEF Typed, LastType
  <2>3. QED BY OpFields, <2>1, <2>2 DEF Typed, Things, Labels, Maybe, Progress, LastType
<1>2. AllStaged'
  BY OpFields DEF Typed, Maybe, AllStaged, Complete, Progress, Linked, Pended,
         Forward, Undoing, Before
<1>3. JournalKnows'
  BY OpFields DEF Typed, Maybe, JournalKnows, Progress, Linked, Pended, Forward,
         Undoing, Before
<1>4. Progress'
  BY OpFields DEF Typed, Maybe, Labels, JournalKnows, Progress, Linked, Pended,
         Forward, Undoing, Before
<1>5. Remembers'
  BY OpFields DEF Typed, Maybe, Labels, Remembers, B, JournalKnows, Progress, Linked,
         Pended, Forward, Undoing, Before
<1>6. Service'
  BY OpFields DEF Typed, Maybe, Labels, Service, Remembers, B, AsFound, Planned,
         Progress, Linked, Pended, Forward, Undoing, Before
<1>7. UserFilesSurvive'
  BY OpFields DEF Typed, Things, Progress, UserFilesSurvive
<1>8. FailureRestores'
  BY OpFields DEF Typed, Maybe, FailureRestores, Service, Remembers, B, AsFound,
         Planned, Progress, Linked, Pended, Forward, Undoing, Before
<1>9. SuccessIsWhole'
  BY OpFields DEF Typed, Maybe, SuccessIsWhole, Service, Remembers, B, AsFound,
         Planned, Progress, Linked, Pended, Forward, Undoing, Before
<1>10. QED BY <1>1, <1>2, <1>3, <1>4, <1>5, <1>6, <1>7, <1>8, <1>9

LEMMA UndoReloadKeeps ==
  ASSUME InstallAssumption, InstallInv, UndoReload
  PROVE  InstallInv'
<1> USE DEF InstallInv, InstallAssumption
<1>0. /\ pc = "undoReload" /\ UNCHANGED <<store, links, unit, enabled, running, healthy>>
      /\ faults' \in 0..MaxFaults
      /\ \/ Goto("undoEnable") /\ loaded' = unit
         \/ Returned(FALSE) /\ loaded' \in {loaded, unit}
  <2>1. enabled \in BOOLEAN BY DEF Typed
  <2>2. Fault \/ NoFault => faults' \in 0..MaxFaults BY FaultsAreCounted
  <2>3. Unsure => Returned(FALSE) BY FailureLeaves DEF Unsure
  <2>4. ConfigureFailed(TRUE) => Returned(TRUE) BY FailureLeaves
  <2>5. QED BY <2>1, <2>2, <2>3, <2>4 DEF UndoReload, Systemctl, DaemonReload, svc
<1> USE DEF vars, store, links, svc, bounds, Goto
<1>1. Typed'
  <2>1. op' \in OpType
    BY OpFields, <1>0 DEF Typed, Ended, Outcomes, Returned, UndoBegins, NothingToUndo
  <2>2. last' \in LastType
    BY OpFields, <1>0 DEF Typed, LastType, Ended, Outcomes, Returned, UndoBegins,
           NothingToUndo
  <2>3. QED
    BY OpFields, <1>0, <2>1, <2>2 DEF Typed, Things, Labels, Maybe, Progress,
           LastType, Ended, Outcomes, Returned, UndoBegins, NothingToUndo
<1>2. AllStaged'
  BY OpFields, <1>0 DEF Typed, Maybe, AllStaged, Complete, Progress, Linked, Pended,
         Forward, Undoing, Before, Ended, Outcomes, Returned, UndoBegins,
         NothingToUndo
<1>3. JournalKnows'
  BY OpFields, <1>0 DEF Typed, Maybe, JournalKnows, Progress, Linked, Pended, Forward,
         Undoing, Before, Ended, Outcomes, Returned, UndoBegins, NothingToUndo
<1>4. Progress'
  BY OpFields, <1>0 DEF Typed, Maybe, Labels, JournalKnows, Progress, Linked, Pended,
         Forward, Undoing, Before, Ended, Outcomes, Returned, UndoBegins,
         NothingToUndo
<1>5. Remembers'
  BY OpFields, <1>0 DEF Typed, Maybe, Labels, Remembers, B, JournalKnows, Progress,
         Linked, Pended, Forward, Undoing, Before, Ended, Outcomes, Returned,
         UndoBegins, NothingToUndo
<1>6. Service'
  BY OpFields, <1>0 DEF Typed, Maybe, Labels, Service, Remembers, B, AsFound, Planned,
         Progress, Linked, Pended, Forward, Undoing, Before, Ended, Outcomes,
         Returned, UndoBegins, NothingToUndo
<1>7. UserFilesSurvive'
  BY OpFields, <1>0 DEF Typed, Things, Progress, UserFilesSurvive, Ended, Outcomes,
         Returned, UndoBegins, NothingToUndo
<1>8. FailureRestores'
  BY OpFields, <1>0 DEF Typed, Maybe, FailureRestores, Service, Remembers, B, AsFound,
         Planned, Progress, Linked, Pended, Forward, Undoing, Before, Ended, Outcomes,
         Returned, UndoBegins, NothingToUndo
<1>9. SuccessIsWhole'
  BY OpFields, <1>0 DEF Typed, Maybe, SuccessIsWhole, Service, Remembers, B, AsFound,
         Planned, Progress, Linked, Pended, Forward, Undoing, Before, Ended, Outcomes,
         Returned, UndoBegins, NothingToUndo
<1>10. QED BY <1>1, <1>2, <1>3, <1>4, <1>5, <1>6, <1>7, <1>8, <1>9

LEMMA UndoEnableKeeps ==
  ASSUME InstallAssumption, InstallInv, UndoEnable
  PROVE  InstallInv'
<1> USE DEF InstallInv, InstallAssumption
<1>0. /\ pc = "undoEnable" /\ UNCHANGED <<store, links, unit, loaded, running, healthy>>
      /\ faults' \in 0..MaxFaults
      /\ \/ Goto("undoStart") /\ enabled' \in BOOLEAN /\ (op.plan.enabled => enabled')
            /\ (~op.plan.enabled => enabled' = enabled)
         \/ Returned(FALSE) /\ enabled' \in BOOLEAN
  <2>1. enabled \in BOOLEAN BY DEF Typed
  <2>2. Fault \/ NoFault => faults' \in 0..MaxFaults BY FaultsAreCounted
  <2>3. Unsure => Returned(FALSE) BY FailureLeaves DEF Unsure
  <2>4. ConfigureFailed(TRUE) => Returned(TRUE) BY FailureLeaves
  <2>5. QED BY <2>1, <2>2, <2>3, <2>4 DEF UndoEnable, Systemctl, Enable, svc
<1> USE DEF vars, store, links, svc, bounds, Goto
<1>1. Typed'
  <2>1. op' \in OpType
    BY OpFields, <1>0 DEF Typed, Ended, Outcomes, Returned, UndoBegins, NothingToUndo
  <2>2. last' \in LastType
    BY OpFields, <1>0 DEF Typed, LastType, Ended, Outcomes, Returned, UndoBegins,
           NothingToUndo
  <2>3. QED
    BY OpFields, <1>0, <2>1, <2>2 DEF Typed, Things, Labels, Maybe, Progress,
           LastType, Ended, Outcomes, Returned, UndoBegins, NothingToUndo
<1>2. AllStaged'
  BY OpFields, <1>0 DEF Typed, Maybe, AllStaged, Complete, Progress, Linked, Pended,
         Forward, Undoing, Before, Ended, Outcomes, Returned, UndoBegins,
         NothingToUndo
<1>3. JournalKnows'
  BY OpFields, <1>0 DEF Typed, Maybe, JournalKnows, Progress, Linked, Pended, Forward,
         Undoing, Before, Ended, Outcomes, Returned, UndoBegins, NothingToUndo
<1>4. Progress'
  BY OpFields, <1>0 DEF Typed, Maybe, Labels, JournalKnows, Progress, Linked, Pended,
         Forward, Undoing, Before, Ended, Outcomes, Returned, UndoBegins,
         NothingToUndo
<1>5. Remembers'
  BY OpFields, <1>0 DEF Typed, Maybe, Labels, Remembers, B, JournalKnows, Progress,
         Linked, Pended, Forward, Undoing, Before, Ended, Outcomes, Returned,
         UndoBegins, NothingToUndo
<1>6. Service'
  BY OpFields, <1>0 DEF Typed, Maybe, Labels, Service, Remembers, B, AsFound, Planned,
         Progress, Linked, Pended, Forward, Undoing, Before, Ended, Outcomes,
         Returned, UndoBegins, NothingToUndo
<1>7. UserFilesSurvive'
  BY OpFields, <1>0 DEF Typed, Things, Progress, UserFilesSurvive, Ended, Outcomes,
         Returned, UndoBegins, NothingToUndo
<1>8. FailureRestores'
  BY OpFields, <1>0 DEF Typed, Maybe, FailureRestores, Service, Remembers, B, AsFound,
         Planned, Progress, Linked, Pended, Forward, Undoing, Before, Ended, Outcomes,
         Returned, UndoBegins, NothingToUndo
<1>9. SuccessIsWhole'
  BY OpFields, <1>0 DEF Typed, Maybe, SuccessIsWhole, Service, Remembers, B, AsFound,
         Planned, Progress, Linked, Pended, Forward, Undoing, Before, Ended, Outcomes,
         Returned, UndoBegins, NothingToUndo
<1>10. QED BY <1>1, <1>2, <1>3, <1>4, <1>5, <1>6, <1>7, <1>8, <1>9

LEMMA UndoStartKeeps ==
  ASSUME InstallAssumption, InstallInv, UndoStart
  PROVE  InstallInv'
<1> USE DEF InstallInv, InstallAssumption
<1>0. /\ pc = "undoStart" /\ UNCHANGED <<store, links, unit, loaded, enabled, healthy>>
      /\ faults' \in 0..MaxFaults
      /\ \/ Goto("undoWait") /\ op.plan.active /\ running' = loaded
         \/ Returned(FALSE) /\ running' \in {running, loaded}
         \/ Returned(TRUE) /\ ~op.plan.active /\ running' = running
  <2>1. enabled \in BOOLEAN BY DEF Typed
  <2>2. Fault \/ NoFault => faults' \in 0..MaxFaults BY FaultsAreCounted
  <2>3. Unsure => Returned(FALSE) BY FailureLeaves DEF Unsure
  <2>4. ConfigureFailed(TRUE) => Returned(TRUE) BY FailureLeaves
  <2>5. QED BY <2>1, <2>2, <2>3, <2>4 DEF UndoStart, Systemctl, Launch, svc
<1> USE DEF vars, store, links, svc, bounds, Goto
<1>1. Typed'
  <2>1. op' \in OpType
    BY OpFields, <1>0 DEF Typed, Ended, Outcomes, Returned, UndoBegins, NothingToUndo
  <2>2. last' \in LastType
    BY OpFields, <1>0 DEF Typed, LastType, Ended, Outcomes, Returned, UndoBegins,
           NothingToUndo
  <2>3. QED
    BY OpFields, <1>0, <2>1, <2>2 DEF Typed, Things, Labels, Maybe, Progress,
           LastType, Ended, Outcomes, Returned, UndoBegins, NothingToUndo
<1>2. AllStaged'
  BY OpFields, <1>0 DEF Typed, Maybe, AllStaged, Complete, Progress, Linked, Pended,
         Forward, Undoing, Before, Ended, Outcomes, Returned, UndoBegins,
         NothingToUndo
<1>3. JournalKnows'
  BY OpFields, <1>0 DEF Typed, Maybe, JournalKnows, Progress, Linked, Pended, Forward,
         Undoing, Before, Ended, Outcomes, Returned, UndoBegins, NothingToUndo
<1>4. Progress'
  BY OpFields, <1>0 DEF Typed, Maybe, Labels, JournalKnows, Progress, Linked, Pended,
         Forward, Undoing, Before, Ended, Outcomes, Returned, UndoBegins,
         NothingToUndo
<1>5. Remembers'
  BY OpFields, <1>0 DEF Typed, Maybe, Labels, Remembers, B, JournalKnows, Progress,
         Linked, Pended, Forward, Undoing, Before, Ended, Outcomes, Returned,
         UndoBegins, NothingToUndo
<1>6. Service'
  BY OpFields, <1>0 DEF Typed, Maybe, Labels, Service, Remembers, B, AsFound, Planned,
         Progress, Linked, Pended, Forward, Undoing, Before, Ended, Outcomes,
         Returned, UndoBegins, NothingToUndo
<1>7. UserFilesSurvive'
  BY OpFields, <1>0 DEF Typed, Things, Progress, UserFilesSurvive, Ended, Outcomes,
         Returned, UndoBegins, NothingToUndo
<1>8. FailureRestores'
  BY OpFields, <1>0 DEF Typed, Maybe, FailureRestores, Service, Remembers, B, AsFound,
         Planned, Progress, Linked, Pended, Forward, Undoing, Before, Ended, Outcomes,
         Returned, UndoBegins, NothingToUndo
<1>9. SuccessIsWhole'
  BY OpFields, <1>0 DEF Typed, Maybe, SuccessIsWhole, Service, Remembers, B, AsFound,
         Planned, Progress, Linked, Pended, Forward, Undoing, Before, Ended, Outcomes,
         Returned, UndoBegins, NothingToUndo
<1>10. QED BY <1>1, <1>2, <1>3, <1>4, <1>5, <1>6, <1>7, <1>8, <1>9

LEMMA UndoWaitKeeps ==
  ASSUME InstallAssumption, InstallInv, UndoWait
  PROVE  InstallInv'
<1> USE DEF InstallInv, InstallAssumption
<1>0. /\ pc = "undoWait" /\ UNCHANGED <<store, links, svc>>
      /\ faults' \in 0..MaxFaults
      /\ \/ Returned(TRUE) /\ running = op.plan.rollback /\ running \in healthy
         \/ Returned(FALSE)
  <2>1. enabled \in BOOLEAN BY DEF Typed
  <2>2. Fault \/ NoFault => faults' \in 0..MaxFaults BY FaultsAreCounted
  <2>3. Unsure => Returned(FALSE) BY FailureLeaves DEF Unsure
  <2>4. ConfigureFailed(TRUE) => Returned(TRUE) BY FailureLeaves
  <2>5. QED BY <2>1, <2>2, <2>3, <2>4 DEF UndoWait, Systemctl, Goto, svc
<1> USE DEF vars, store, links, svc, bounds, Goto
<1>1. Typed'
  <2>1. op' \in OpType
    BY OpFields, <1>0 DEF Typed, Ended, Outcomes, Returned, UndoBegins, NothingToUndo
  <2>2. last' \in LastType
    BY OpFields, <1>0 DEF Typed, LastType, Ended, Outcomes, Returned, UndoBegins,
           NothingToUndo
  <2>3. QED
    BY OpFields, <1>0, <2>1, <2>2 DEF Typed, Things, Labels, Maybe, Progress,
           LastType, Ended, Outcomes, Returned, UndoBegins, NothingToUndo
<1>2. AllStaged'
  BY OpFields, <1>0 DEF Typed, Maybe, AllStaged, Complete, Progress, Linked, Pended,
         Forward, Undoing, Before, Ended, Outcomes, Returned, UndoBegins,
         NothingToUndo
<1>3. JournalKnows'
  BY OpFields, <1>0 DEF Typed, Maybe, JournalKnows, Progress, Linked, Pended, Forward,
         Undoing, Before, Ended, Outcomes, Returned, UndoBegins, NothingToUndo
<1>4. Progress'
  BY OpFields, <1>0 DEF Typed, Maybe, Labels, JournalKnows, Progress, Linked, Pended,
         Forward, Undoing, Before, Ended, Outcomes, Returned, UndoBegins,
         NothingToUndo
<1>5. Remembers'
  BY OpFields, <1>0 DEF Typed, Maybe, Labels, Remembers, B, JournalKnows, Progress,
         Linked, Pended, Forward, Undoing, Before, Ended, Outcomes, Returned,
         UndoBegins, NothingToUndo
<1>6. Service'
  BY OpFields, <1>0 DEF Typed, Maybe, Labels, Service, Remembers, B, AsFound, Planned,
         Progress, Linked, Pended, Forward, Undoing, Before, Ended, Outcomes,
         Returned, UndoBegins, NothingToUndo
<1>7. UserFilesSurvive'
  BY OpFields, <1>0 DEF Typed, Things, Progress, UserFilesSurvive, Ended, Outcomes,
         Returned, UndoBegins, NothingToUndo
<1>8. FailureRestores'
  BY OpFields, <1>0 DEF Typed, Maybe, FailureRestores, Service, Remembers, B, AsFound,
         Planned, Progress, Linked, Pended, Forward, Undoing, Before, Ended, Outcomes,
         Returned, UndoBegins, NothingToUndo
<1>9. SuccessIsWhole'
  BY OpFields, <1>0 DEF Typed, Maybe, SuccessIsWhole, Service, Remembers, B, AsFound,
         Planned, Progress, Linked, Pended, Forward, Undoing, Before, Ended, Outcomes,
         Returned, UndoBegins, NothingToUndo
<1>10. QED BY <1>1, <1>2, <1>3, <1>4, <1>5, <1>6, <1>7, <1>8, <1>9

-----------------------------------------------------------------------------
(* The installation stays whole.                                           *)

LEMMA InstallBegins == ASSUME InstallAssumption, Init PROVE InstallInv
<1> USE DEF InstallAssumption, Init
<1>1. PICK r \in IF Installed THEN healthy ELSE {NoRelease} :
        /\ journal = [current |-> r, previous |-> NoRelease, pending |-> NoRelease]
        /\ current = r
        /\ staged = {r} \ {NoRelease}
        /\ unit = r /\ loaded = r
        /\ running \in {r, NoRelease}
        /\ enabled \in IF Installed THEN BOOLEAN ELSE {FALSE}
  OBVIOUS
<1>2. r \in Maybe /\ NoRelease \in Maybe BY DEF Maybe
<1>3. op \in OpType /\ op.plan.rollback = NoRelease BY IdleTyped DEF Idle
<1>4. last.outcome = "none" /\ last \in [outcome : Outcomes, before : ViewType]
  <2>1. Observed \in ViewType BY <1>1, <1>2 DEF Observed, ViewType
  <2>2. QED BY <2>1 DEF Outcomes
<1>5. Typed
  <2>1. staged \subseteq Releases /\ running \in Maybe /\ enabled \in BOOLEAN
    BY <1>1, <1>2 DEF Maybe
  <2>2. journal \in [current : Maybe, previous : Maybe, pending : Maybe] BY <1>1, <1>2
  <2>3. /\ cmd \in [1..Commands -> Things] /\ spare \in [1..Commands -> Things]
        /\ backups \subseteq Files /\ owned \subseteq Files /\ healthy \subseteq Releases
    BY DEF Things
  <2>4. runs \in 0..MaxRuns /\ kills \in 0..MaxKills /\ faults \in 0..MaxFaults OBVIOUS
  <2>5. pc \in Labels BY DEF Labels
  <2>6. QED BY <1>1, <1>2, <1>3, <1>4, <2>1, <2>2, <2>3, <2>4, <2>5 DEF Typed
<1>6. AllStaged BY <1>1, <1>3 DEF AllStaged, Complete, Maybe
<1>7. JournalKnows BY <1>1 DEF JournalKnows
<1>8. Progress /\ Remembers /\ Service
  BY DEF Progress, Remembers, Service, Linked, Pended, Before, Forward, Undoing, Planned
<1>9. UserFilesSurvive /\ FailureRestores /\ SuccessIsWhole
  BY <1>4 DEF UserFilesSurvive, FailureRestores, SuccessIsWhole
<1>10. QED BY <1>5, <1>6, <1>7, <1>8, <1>9 DEF InstallInv

LEMMA RestKeeps == ASSUME InstallInv, UNCHANGED vars PROVE InstallInv'
<1> USE DEF InstallInv, vars, store, links, svc, bounds
<1>1. Typed' BY DEF Typed
<1>2. AllStaged' /\ JournalKnows' /\ Progress'
  BY DEF AllStaged, Complete, JournalKnows, Progress
<1>3. Remembers' /\ Service' BY DEF Remembers, Service, AsFound, B
<1>4. UserFilesSurvive' /\ FailureRestores' /\ SuccessIsWhole'
  BY DEF UserFilesSurvive, FailureRestores, SuccessIsWhole
<1>5. QED BY <1>1, <1>2, <1>3, <1>4

LEMMA InstallKeeps ==
  ASSUME InstallAssumption, InstallInv, [Next]_vars
  PROVE  InstallInv'
<1>1. CASE \E n \in 1..Commands, f \in Files : UserPlaces(n, f) BY <1>1, UserPlacesKeeps
<1>2. CASE \E k \in {"install", "rollback"}, r \in Releases, s, x \in BOOLEAN : Begin(k, r, s, x)
  BY <1>2, BeginKeeps
<1>3. CASE Kill BY <1>3, KillKeeps
<1>4. CASE Recover \/ RecoverSave \/ StageInstall \/ ChooseRollback \/ SavePending
  BY <1>4, RecoverKeeps, RecoverSaveKeeps, StageInstallKeeps, ChooseRollbackKeeps,
     SavePendingKeeps
<1>5. CASE LinkManaged \/ LinkBackup \/ LinkSpare \/ LinkExchange \/ LinkDisplaced \/ LinksDone
  BY <1>5, LinkManagedKeeps, LinkBackupKeeps, LinkSpareKeeps, LinkExchangeKeeps,
     LinkDisplacedKeeps, LinksDoneKeeps
<1>6. CASE PublishNext \/ PublishSwap \/ PublishUnlink \/ PublishSave
  BY <1>6, PublishNextKeeps, PublishSwapKeeps, PublishUnlinkKeeps, PublishSaveKeeps
<1>7. CASE Plan \/ ReplaceUnit \/ Reload \/ EnableUnit \/ StartUnit \/ AwaitReady
  BY <1>7, PlanKeeps, ReplaceUnitKeeps, ReloadKeeps, EnableUnitKeeps, StartUnitKeeps,
     AwaitReadyKeeps
<1>8. CASE \/ UndoStop \/ UndoDisable \/ UndoUnit \/ UndoReload \/ UndoEnable \/ UndoStart
           \/ UndoWait
  BY <1>8, UndoStopKeeps, UndoDisableKeeps, UndoUnitKeeps, UndoReloadKeeps,
     UndoEnableKeeps,
     UndoStartKeeps, UndoWaitKeeps
<1>9. CASE UNCHANGED vars BY <1>9, RestKeeps
<1>10. QED BY <1>1, <1>2, <1>3, <1>4, <1>5, <1>6, <1>7, <1>8, <1>9 DEF Next, Step

LEMMA InstallIsSafe == ASSUME InstallAssumption, InstallInv PROVE Safety
<1> USE DEF InstallInv
<1>1. op.rel \in Maybe /\ op.name \in 1..(Commands + 1) /\ last.outcome \in Outcomes
  BY OpFields
<1>2. TypeOK BY <1>1 DEF Typed, TypeOK, Things, Outcomes
<1>3. PublishedIsComplete
  BY DEF AllStaged, Complete, JournalKnows, PublishedIsComplete
<1>4. RollbackUndoes BY DEF JournalKnows, RollbackUndoes
<1>5. QED BY <1>2, <1>3, <1>4 DEF Safety

(* Whatever is killed between two operations, fails at the service manager or *)
(* is put in the way by the user, over every number of commands, releases and  *)
(* invocations: what is published is complete, a rollback undoes the last      *)
(* publication, no command of the user is lost, a restored failure restores    *)
(* and a success is whole (install/transaction.rs, service/systemd.rs).        *)
THEOREM InstallationStaysWhole ==
  ASSUME InstallAssumption
  PROVE  Spec => []Safety
<1>1. Init => InstallInv BY InstallBegins
<1>2. InstallInv /\ [Next]_vars => InstallInv' BY InstallKeeps
<1>3. InstallInv => Safety BY InstallIsSafe
<1>4. QED BY <1>1, <1>2, <1>3, PTL DEF Spec
=============================================================================
