------------------------------ MODULE GoalTurns ------------------------------
(***************************************************************************)
(* Automatic continuation of a Goal: a human owner sets an objective with   *)
(* limits and consents to continuation; the runtime's driver reserves a     *)
(* turn, submits it, meters it, settles it and starts the next one until a  *)
(* limit, a human act, an obstruction or an assessment stops it.            *)
(*                                                                         *)
(* Durable state is goal, rev, srev, turn, run, input, decision, cleanup.   *)
(* The driver and the execution task are volatile and interleave with the   *)
(* owner, with the provider and with a crash at any point.  Tokens and      *)
(* elapsed time are compared with their limits in the same way and are one  *)
(* resource, spent.  used counts what the provider really charged, which    *)
(* the code cannot see.                                                     *)
(***************************************************************************)
EXTENDS Integers, FiniteSets

CONSTANTS
    Budgets,     \* the token budgets an owner may give a goal
    RunLimit,    \* limits.runs
    StallLimit,  \* limits.no_progress_runs
    Costs,       \* what one provider request may cost
    MaxRequests, \* provider requests of one run (bound)
    MaxGoals,    \* goals ever set (bound)
    BrowserBusy, \* browser effects of an earlier run may be unresolved
    MaxActs,     \* acts of the owner and of his grant (bound)
    MaxCrashes   \* process crashes (bound)

LimitsAssumption ==
    /\ Budgets \subseteq Nat \ {0}
    /\ Costs \cup {RunLimit, StallLimit, MaxRequests, MaxGoals} \subseteq Nat \ {0}
    /\ {MaxActs, MaxCrashes} \subseteq Nat
    /\ BrowserBusy \in BOOLEAN

VARIABLES
    goal,      \* the goal of the session, or NoGoal
    rev,       \* revision of the goal snapshot; survives clearing
    srev,      \* revision of the session
    turn,      \* the latest row of process_goal_turns, or NoTurn
    run,       \* the latest run of the session, or NoRun
    input,     \* a bound user command that is neither admitted nor resolved
    decision,  \* an unanswered decision of some run
    cleanup,   \* cleanup obligations: "observed", "pending" or "attested"
    owner,     \* the owner's grant is current
    driver,    \* the wake loop: its step and the goal revision it read
    task,      \* the step of the execution task, "none" without one
    lock,      \* holder of the admission lock
    wake,      \* goal_wake holds a permit
    issued,    \* goals set so far: a goal is named by the command that set it
    used,      \* tokens the provider charged, per goal
    consent,   \* the owner's last word about continuation was yes
    contested, \* the owner acted after the run's report was recorded
    acts, crashes

goalVars == << goal, rev, srev, turn, run, input, decision, cleanup, owner, driver,
           task, lock, wake, issued, used, consent, contested, acts, crashes >>

journal == << issued, goal, rev, srev, turn, run, input, decision, cleanup >>
volatile == << driver, task, lock, wake >>
ghost == << used, consent, contested >>

NoGoal == [id |-> 0]
NoTurn == [goal |-> 0, state |-> "none", srev |-> 0, born |-> 0]
NoRun == [state |-> "none", cmd |-> 0]

Stopped == {"Paused", "Limited", "NeedsAttention", "Blocked", "Complete"}
Statuses == Stopped \cup {"Active"}
Terminal == {"Completed", "Failed", "Cancelled", "Interrupted"}
LiveStates == {"Accepted", "Running"}

HasGoal == goal.id # 0
Active == HasGoal /\ goal.status = "Active"
Continuing == Active /\ goal.authorized
Reserved == turn.state = "reserved"
\* The latest run is the one the latest reservation submitted.
OfTurn == run.cmd # 0 /\ run.cmd = turn.srev

\* Goal::limit_reached: runs, then tokens and time, then the no-progress bound.
LimitReached(g) ==
    g.runs >= RunLimit \/ g.spent >= g.budget \/ g.stall >= StallLimit

CleanupReady == cleanup = "observed"

\* ensure_idle: no active run, no reserved turn, every cleanup observed.
Idle == run.state \notin LiveStates /\ ~Reserved /\ CleanupReady

\* scheduling::obstruction: bound input, open decisions, unresolved effects.
Obstructed == input \/ decision \/ ~CleanupReady

-----------------------------------------------------------------------------
GoalInit ==
    /\ goal = NoGoal /\ rev = 0 /\ srev = 0
    /\ turn = NoTurn /\ run = NoRun
    /\ input = FALSE /\ decision = FALSE /\ cleanup = "observed"
    /\ owner = TRUE
    /\ driver = [step |-> "wait"] /\ task = "none" /\ lock = "free"
    /\ wake = TRUE
    /\ issued = 0 /\ used = [g \in 1..MaxGoals |-> 0]
    /\ consent = FALSE /\ contested = FALSE
    /\ acts = 0 /\ crashes = 0

Act == acts < MaxActs /\ acts' = acts + 1 /\ UNCHANGED crashes
Step == UNCHANGED << acts, crashes >>

\* persist: every change of the goal advances its revision and the session's.
Persist(g) == goal' = g /\ rev' = rev + 1 /\ srev' = srev + 1

\* scheduling::stop: an active goal stops and loses its authority; a goal that
\* is paused, limited or assessed is left as it is.
StopWith(g, status) ==
    IF g.id # 0 /\ g.status = "Active"
    THEN [g EXCEPT !.status = status, !.authorized = FALSE]
    ELSE g

-----------------------------------------------------------------------------
\* The owner's commands (update_goal), one transaction each under the
\* admission lock; each one wakes the driver.
Update(g, yes) ==
    /\ Act /\ lock = "free" /\ owner /\ driver.step # "down"
    /\ Persist(g)
    /\ consent' = yes
    /\ contested' = TRUE
    /\ wake' = TRUE
    /\ UNCHANGED << turn, run, input, decision, cleanup, owner, driver, task,
                    lock, used >>

GoalSet(budget, auto) ==
    /\ Idle /\ issued < MaxGoals /\ issued' = issued + 1
    /\ Update([id |-> issued + 1, status |-> IF auto THEN "Active" ELSE "Paused",
               authorized |-> auto, budget |-> budget, runs |-> 0, spent |-> 0,
               unmeasured |-> 0, stall |-> 0],
              auto)

GoalEdit(budget) ==
    /\ Idle /\ HasGoal /\ goal.status # "Complete"
    /\ UNCHANGED issued
    /\ LET g == [goal EXCEPT !.budget = budget, !.authorized = FALSE]
       IN  Update([g EXCEPT !.status = IF LimitReached(g) THEN "Limited"
                                                         ELSE "Paused"], FALSE)

\* Mutation: a pause keeps the standing authorisation.
GoalPauseKeeps ==
    /\ HasGoal /\ goal.status # "Complete" /\ UNCHANGED issued
    /\ Update([goal EXCEPT !.status = "Paused"], FALSE)

GoalPause ==
    /\ HasGoal /\ goal.status # "Complete" /\ UNCHANGED issued
    /\ Update([goal EXCEPT !.status = "Paused", !.authorized = FALSE], FALSE)

GoalResume ==
    /\ Idle /\ HasGoal /\ goal.status # "Complete"
    /\ ~LimitReached(goal) /\ goal.unmeasured = 0 /\ UNCHANGED issued
    /\ Update([goal EXCEPT !.status = "Active", !.authorized = TRUE], TRUE)

GoalClear == Idle /\ HasGoal /\ UNCHANGED issued /\ Update(NoGoal, FALSE)

\* The owner's grant is revoked or restored outside the runtime.
Revoke == Act /\ owner /\ owner' = FALSE /\ UNCHANGED << journal, volatile, ghost >>
Restore == Act /\ ~owner /\ owner' = TRUE /\ UNCHANGED << journal, volatile, ghost >>

-----------------------------------------------------------------------------
\* The run of an admitted command; cmd is 0 for a user's turn.
NewRun(cmd) ==
    [state |-> "Accepted", cmd |-> cmd, open |-> 0, seen |-> 0, requests |-> 0,
     metered |-> FALSE, allowance |-> 0, asked |-> FALSE, report |-> "none",
     context |-> 0]

\* Ordinary input.  A command is bound durably before it waits for the
\* admission lock, so it may arrive while the driver holds a reservation.
InputBind ==
    /\ Act /\ owner /\ ~input /\ driver.step # "down"
    /\ input' = TRUE
    /\ UNCHANGED << issued, goal, rev, srev, turn, run, decision, cleanup, owner,
                    volatile, ghost >>

\* Mutation: a user turn no longer stops automatic continuation.
InputAdmitBeside ==
    /\ Step /\ input /\ lock = "free" /\ driver.step # "down" /\ task = "none"
    /\ run.state \notin LiveStates /\ cleanup # "pending"
    /\ input' = FALSE
    /\ run' = NewRun(0)
    /\ srev' = srev + 1 /\ UNCHANGED << goal, rev >>
    /\ task' = "setup" /\ lock' = "submit"
    /\ consent' = FALSE /\ contested' = TRUE
    /\ UNCHANGED << issued, turn, decision, cleanup, owner, driver, wake, used >>

\* Admission of a turn that no reservation names stops the goal: user input
\* has precedence over continuation.
InputAdmit ==
    /\ Step /\ input /\ lock = "free" /\ driver.step # "down" /\ task = "none"
    /\ run.state \notin LiveStates /\ cleanup # "pending"
    /\ input' = FALSE
    /\ run' = NewRun(0)
    /\ IF Active THEN Persist(StopWith(goal, "NeedsAttention"))
                 ELSE srev' = srev + 1 /\ UNCHANGED << goal, rev >>
    /\ task' = "setup" /\ lock' = "submit"
    /\ consent' = FALSE /\ contested' = TRUE
    /\ UNCHANGED << issued, turn, decision, cleanup, owner, driver, wake, used >>

\* The command is refused or resolved as not admitted: a receipt closes it.
InputReject ==
    /\ Step /\ input /\ driver.step # "down"
    /\ input' = FALSE
    /\ UNCHANGED << issued, goal, rev, srev, turn, run, decision, cleanup, owner,
                    volatile, ghost >>

\* Guidance admitted into a live run stops the goal as well.
SteerRun ==
    /\ Act /\ owner /\ run.state = "Running" /\ task = "running"
    /\ IF Active THEN Persist(StopWith(goal, "NeedsAttention"))
                 ELSE srev' = srev + 1 /\ UNCHANGED << goal, rev >>
    /\ consent' = FALSE /\ contested' = TRUE
    /\ UNCHANGED << issued, turn, run, input, decision, cleanup, owner, volatile, used >>

DecisionAnswer ==
    /\ Step /\ decision /\ decision' = FALSE
    /\ UNCHANGED << issued, goal, rev, srev, turn, run, input, cleanup, owner, volatile,
                    ghost >>

\* Cleanup evidence arrives late, or an operator attests to it.
CleanupObserve(evidence) ==
    /\ Step /\ cleanup = "pending" /\ task \notin {"setup", "running"}
    /\ driver.step # "down"
    /\ cleanup' = evidence
    /\ UNCHANGED << issued, goal, rev, srev, turn, run, input, decision, owner, volatile,
                    ghost >>

-----------------------------------------------------------------------------
\* The driver (drive and advance).  It takes the admission lock for the whole
\* decision and gives it up before it dispatches the reserved command.
DriverWake ==
    /\ Step /\ driver.step = "wait" /\ wake /\ lock = "free"
    /\ wake' = FALSE
    /\ IF task = "none" /\ Continuing
       THEN driver' = [step |-> "gate", rev |-> rev] /\ lock' = "driver"
       ELSE UNCHANGED << driver, lock >>
    /\ UNCHANGED << journal, owner, task, ghost >>

\* stop_goal compares the revision that the decision was based on.
StopGoal(seen, status) ==
    IF rev = seen /\ Active THEN Persist(StopWith(goal, status))
                            ELSE UNCHANGED << goal, rev, srev >>

DriverStop ==
    /\ Step /\ driver.step = "gate"
    /\ \/ ~owner \/ LimitReached(goal) \/ goal.unmeasured > 0
       \/ Obstructed \/ ~Idle \/ rev # driver.rev \/ ~Continuing
    /\ StopGoal(driver.rev, IF owner /\ LimitReached(goal) THEN "Limited"
                                                          ELSE "NeedsAttention")
    /\ driver' = [step |-> "wait"] /\ lock' = "free"
    /\ UNCHANGED << issued, turn, run, input, decision, cleanup, owner, task, wake, ghost >>

\* reserve_goal_turn: the run is counted before it exists.
ReserveTurn ==
    /\ Step /\ driver.step = "gate" /\ owner
    /\ rev = driver.rev /\ Continuing /\ Idle /\ ~Obstructed
    /\ ~LimitReached(goal) /\ goal.unmeasured = 0
    /\ Persist([goal EXCEPT !.runs = @ + 1])
    /\ turn' = [goal |-> goal.id, state |-> "reserved", srev |-> srev + 1,
                born |-> crashes]
    /\ driver' = [step |-> "reserved", rev |-> rev + 1]
    /\ UNCHANGED << issued, run, input, decision, cleanup, owner, task, lock, wake, ghost >>

\* The authority is checked again with the exact reserved command; then the
\* admission lock is dropped.
DriverRelease ==
    /\ Step /\ driver.step = "reserved"
    /\ driver' = [driver EXCEPT !.step = IF owner THEN "dispatch" ELSE "abandon"]
    /\ lock' = IF owner THEN "free" ELSE "driver"
    /\ UNCHANGED << journal, owner, task, wake, ghost >>

\* The admission transaction rechecks everything the reservation relied on.
Admissible ==
    /\ Reserved
    /\ srev = turn.srev
    /\ turn.goal = goal.id /\ Continuing
    /\ ~Obstructed
    /\ run.state \notin LiveStates /\ owner

DriverDispatch ==
    /\ Step /\ driver.step = "dispatch" /\ lock = "free" /\ task = "none"
    /\ driver' = [driver EXCEPT !.step = IF Admissible THEN "submit" ELSE "abandon"]
    /\ IF Admissible
       THEN /\ run' = NewRun(turn.srev)
            /\ srev' = srev + 1 /\ task' = "setup" /\ lock' = "submit"
       ELSE UNCHANGED << run, srev, task, lock >>
    /\ UNCHANGED << issued, goal, rev, turn, input, decision, cleanup, owner, wake,
                    ghost >>

\* A user turn took the session first: dispatch is refused as busy.
DriverRefused ==
    /\ Step /\ driver.step = "dispatch" /\ lock = "free" /\ task # "none"
    /\ driver' = [driver EXCEPT !.step = "abandon"]
    /\ UNCHANGED << journal, owner, task, lock, wake, ghost >>

\* abandon_goal_turn: a fence against late admission, and a durable stop that
\* does not turn a pause into anything else.  A reservation whose command was
\* admitted cannot be abandoned: the call fails and the row stays reserved.
AbandonTurn ==
    /\ turn' = [turn EXCEPT !.state = "abandoned"]
    /\ Persist([StopWith(goal, "NeedsAttention") EXCEPT !.authorized = FALSE])

\* Mutation: a failed dispatch leaves its reservation behind.
DriverAbandonSilent ==
    /\ Step /\ driver.step = "abandon"
    /\ driver' = [step |-> "wait"]
    /\ lock' = IF lock = "driver" THEN "free" ELSE lock
    /\ UNCHANGED << journal, owner, task, wake, ghost >>

DriverAbandon ==
    /\ Step /\ driver.step = "abandon"
    /\ IF Reserved /\ ~OfTurn THEN AbandonTurn
                              ELSE UNCHANGED << turn, goal, rev, srev >>
    /\ driver' = [step |-> "wait"]
    /\ lock' = IF lock = "driver" THEN "free" ELSE lock
    /\ UNCHANGED << issued, run, input, decision, cleanup, owner, task, wake, ghost >>

-----------------------------------------------------------------------------
\* Mutation: a recorded report closes the goal whatever the owner did since.
SettledOverPause(measured, clean, progress) ==
    LET used1 == [goal EXCEPT !.spent = @ + run.seen,
                              !.unmeasured = IF measured THEN @ ELSE @ + 1,
                              !.stall = IF progress THEN 0 ELSE @ + 1]
        spent == used1.spent >= used1.budget
        stop == CASE ~clean                          -> "NeedsAttention"
                  [] run.state = "Cancelled"         -> IF spent THEN "Limited"
                                                                ELSE "NeedsAttention"
                  [] run.state = "Interrupted"       -> "NeedsAttention"
                  [] run.asked                       -> "NeedsAttention"
                  [] spent                           -> "Limited"
                  [] run.state # "Completed"         -> "NeedsAttention"
                  [] ~measured                       -> "NeedsAttention"
                  [] OTHER -> IF LimitReached(used1) THEN "Limited" ELSE "Active"
        assessed == /\ run.state = "Completed"
                    /\ measured /\ clean /\ ~run.asked /\ ~Obstructed /\ ~spent
                    /\ run.report # "none"
    IN  CASE assessed -> [used1 EXCEPT !.status = run.report, !.authorized = FALSE]
          [] ~assessed /\ stop # "Active" -> StopWith(used1, stop)
          [] OTHER -> used1

\* Mutation: usage nobody observed does not count as unmeasured.
SettledTrusting(measured, clean, progress) ==
    LET used1 == [goal EXCEPT !.spent = @ + run.seen,
                              !.stall = IF progress THEN 0 ELSE @ + 1]
        spent == used1.spent >= used1.budget
        stop == CASE ~clean                          -> "NeedsAttention"
                  [] run.state = "Cancelled"         -> IF spent THEN "Limited"
                                                                ELSE "NeedsAttention"
                  [] run.state = "Interrupted"       -> "NeedsAttention"
                  [] run.asked                       -> "NeedsAttention"
                  [] spent                           -> "Limited"
                  [] run.state # "Completed"         -> "NeedsAttention"
                  [] OTHER -> IF LimitReached(used1) THEN "Limited" ELSE "Active"
        assessed == /\ goal.status = "Active" /\ run.state = "Completed"
                    /\ measured /\ clean /\ ~run.asked /\ ~Obstructed /\ ~spent
                    /\ run.report # "none" /\ run.context = rev
    IN  CASE assessed -> [used1 EXCEPT !.status = run.report, !.authorized = FALSE]
          [] ~assessed /\ stop # "Active" -> StopWith(used1, stop)
          [] OTHER -> used1

\* Account a terminal goal run once.  spent takes the larger of the meter and
\* the retained lower bound; the goal stops on everything but a clean,
\* measured, completed run within its limits; a pause is never overridden.
Settled(measured, clean, progress) ==
    LET used1 == [goal EXCEPT !.spent = @ + run.seen,
                              !.unmeasured = IF measured THEN @ ELSE @ + 1,
                              !.stall = IF progress THEN 0 ELSE @ + 1]
        spent == used1.spent >= used1.budget
        stop == CASE ~clean                          -> "NeedsAttention"
                  [] run.state = "Cancelled"         -> IF spent THEN "Limited"
                                                                ELSE "NeedsAttention"
                  [] run.state = "Interrupted"       -> "NeedsAttention"
                  [] run.asked                       -> "NeedsAttention"
                  [] spent                           -> "Limited"
                  [] run.state # "Completed"         -> "NeedsAttention"
                  [] ~measured                       -> "NeedsAttention"
                  [] OTHER -> IF LimitReached(used1) THEN "Limited" ELSE "Active"
        assessed == /\ goal.status = "Active" /\ run.state = "Completed"
                    /\ measured /\ clean /\ ~run.asked /\ ~Obstructed /\ ~spent
                    /\ run.report # "none" /\ run.context = rev
    IN  CASE assessed -> [used1 EXCEPT !.status = run.report, !.authorized = FALSE]
          [] ~assessed /\ stop # "Active" -> StopWith(used1, stop)
          [] OTHER -> used1

SettleTurn(measured, clean, progress) ==
    IF OfTurn /\ Reserved
    THEN /\ turn' = [turn EXCEPT !.state = "settled"]
         /\ Persist(Settled(measured, clean, progress))
    ELSE UNCHANGED << turn, goal, rev, srev >>

\* begin_execution_meter: the allowance is what the goal has left now, and the
\* report context binds the goal revision of this moment.
MeterReady == Reserved /\ Continuing /\ goal.unmeasured = 0 /\ goal.spent < goal.budget

Submitter(next) ==
    driver' = IF driver.step = "submit" THEN [driver EXCEPT !.step = next] ELSE driver

\* Submission ends: the meter is open, the cleanup obligation is registered, the
\* task owns the run and the admission lock is released.
TaskStart ==
    /\ Step /\ task = "setup" /\ (OfTurn => MeterReady)
    /\ run' = [run EXCEPT !.state = "Running", !.metered = OfTurn,
                          !.allowance = IF OfTurn THEN goal.budget - goal.spent ELSE 0,
                          !.context = rev]
    /\ cleanup' = "pending" /\ task' = "running" /\ lock' = "free"
    /\ Submitter("wait")
    /\ UNCHANGED << issued, goal, rev, srev, turn, input, decision, owner, wake, ghost >>

\* The meter, the model settings or a workflow is refused after admission:
\* fail_before_execution, then settlement without a measurement.
TaskRefused ==
    /\ Step /\ task = "setup"
    /\ run' = [run EXCEPT !.state = "Failed"]
    /\ task' = "refused"
    /\ UNCHANGED << issued, goal, rev, srev, turn, input, decision, cleanup, owner,
                    driver, lock, wake, ghost >>

TaskRefusedSettle ==
    /\ Step /\ task = "refused"
    /\ SettleTurn(FALSE, TRUE, FALSE)
    /\ task' = "none" /\ lock' = "free"
    /\ Submitter("abandon")
    /\ UNCHANGED << issued, run, input, decision, cleanup, owner, wake, ghost >>

\* Browser effects of an earlier run are unresolved: the run fails before it
\* executes and submission returns the error; nothing settles the turn.
BrowserRefused ==
    /\ Step /\ task = "setup" /\ BrowserBusy
    /\ run' = [run EXCEPT !.state = "Failed"]
    /\ cleanup' = "pending" /\ task' = "none" /\ lock' = "free"
    /\ Submitter("abandon")
    /\ UNCHANGED << issued, goal, rev, srev, turn, input, decision, owner, wake, ghost >>

\* Mutation: the request is only recorded once its usage is known.
RequestLate(cost) ==
    /\ Step /\ task = "running" /\ run.metered /\ run.open = 0
    /\ run.requests < MaxRequests /\ run.seen < run.allowance
    /\ run' = [run EXCEPT !.requests = @ + 1]
    /\ used' = [used EXCEPT ![turn.goal] = @ + cost]
    /\ UNCHANGED << issued, goal, rev, srev, turn, input, decision, cleanup, owner,
                    volatile, consent, contested >>

\* A provider request: recorded as open before it is dispatched, refused once
\* the observed use has reached the allowance.
Request(cost) ==
    /\ Step /\ task = "running" /\ run.metered /\ run.open = 0
    /\ run.requests < MaxRequests /\ run.seen < run.allowance
    /\ run' = [run EXCEPT !.open = cost, !.requests = @ + 1]
    /\ used' = [used EXCEPT ![turn.goal] = @ + cost]
    /\ UNCHANGED << issued, goal, rev, srev, turn, input, decision, cleanup, owner,
                    volatile, consent, contested >>

\* The provider reports what the request cost.  The report may never arrive,
\* and then the request stays open for good.
Observe ==
    /\ Step /\ task = "running" /\ run.open # 0
    /\ run' = [run EXCEPT !.open = 0, !.seen = @ + run.open]
    /\ UNCHANGED << issued, goal, rev, srev, turn, input, decision, cleanup, owner,
                    volatile, ghost >>

Ask ==
    /\ Step /\ task = "running" /\ ~run.asked
    /\ run' = [run EXCEPT !.asked = TRUE] /\ decision' = TRUE
    /\ UNCHANGED << issued, goal, rev, srev, turn, input, cleanup, owner, volatile, ghost >>

\* report_goal: accepted once, while the goal still has the revision the run
\* was given and continuation is still authorised.
Report(outcome) ==
    /\ Step /\ task = "running" /\ run.metered /\ run.report = "none"
    /\ Reserved /\ rev = run.context /\ Continuing
    /\ run' = [run EXCEPT !.report = outcome]
    /\ contested' = FALSE
    /\ UNCHANGED << issued, goal, rev, srev, turn, input, decision, cleanup, owner, volatile,
                    used, consent >>

\* The run reaches a terminal state; the task then takes the admission lock.
TaskEnd(state) ==
    /\ Step /\ task = "running"
    /\ run' = [run EXCEPT !.state = state]
    /\ task' = "ended"
    /\ UNCHANGED << issued, goal, rev, srev, turn, input, decision, cleanup, owner, driver,
                    lock, wake, ghost >>

TaskLock ==
    /\ Step /\ task = "ended" /\ lock = "free"
    /\ lock' = "task" /\ task' = "terminal"
    /\ \E seen \in BOOLEAN :
         cleanup' = IF seen /\ cleanup = "pending" THEN "observed" ELSE cleanup
    /\ UNCHANGED << issued, goal, rev, srev, turn, run, input, decision, owner, driver, wake,
                    ghost >>

\* Authority that is no longer current stops the goal before its report counts.
TaskAuthority ==
    /\ Step /\ task = "terminal"
    /\ task' = "settle"
    /\ IF ~owner THEN StopGoal(rev, "NeedsAttention")
                 ELSE UNCHANGED << goal, rev, srev >>
    /\ UNCHANGED << issued, turn, run, input, decision, cleanup, owner, driver, lock,
                    wake, ghost >>

\* Mutation: the end of a run does not wake the driver.
TaskSettleSilent(progress) ==
    /\ Step /\ task = "settle"
    /\ SettleTurn(run.metered /\ run.open = 0, CleanupReady, progress)
    /\ task' = "none" /\ lock' = "free"
    /\ UNCHANGED << issued, run, input, decision, cleanup, owner, driver, wake, ghost >>

TaskSettle(progress) ==
    /\ Step /\ task = "settle"
    /\ SettleTurn(run.metered /\ run.open = 0, CleanupReady, progress)
    /\ task' = "none" /\ lock' = "free" /\ wake' = TRUE
    /\ UNCHANGED << issued, run, input, decision, cleanup, owner, driver, ghost >>

-----------------------------------------------------------------------------
\* A crash loses the driver, the task, the lock and the meter.
Crash ==
    /\ driver.step # "down" /\ crashes < MaxCrashes
    /\ crashes' = crashes + 1 /\ UNCHANGED acts
    /\ driver' = [step |-> "down"] /\ task' = "none" /\ lock' = "free"
    /\ wake' = FALSE
    /\ UNCHANGED << journal, owner, ghost >>

\* Startup: the interrupted run becomes terminal, then recover_goal_turn closes
\* the reservation without a measurement, and only then the driver starts.
RestartRun ==
    /\ Step /\ driver.step = "down" /\ run.state \in LiveStates
    /\ run' = [run EXCEPT !.state = "Interrupted"]
    /\ UNCHANGED << issued, goal, rev, srev, turn, input, decision, cleanup, owner, volatile,
                    ghost >>

\* Mutation: a restarted owner submits the reservation it finds.
RestartResends ==
    /\ Step /\ driver.step = "down" /\ run.state \notin LiveStates
    /\ driver' = [step |-> IF Reserved /\ ~OfTurn THEN "dispatch" ELSE "wait",
                  rev |-> rev]
    /\ IF Reserved /\ OfTurn THEN SettleTurn(FALSE, CleanupReady, FALSE)
                             ELSE UNCHANGED << turn, goal, rev, srev >>
    /\ wake' = TRUE
    /\ UNCHANGED << issued, run, input, decision, cleanup, owner, task, lock, ghost >>

\* Mutation: recovery settles the last goal run whether or not it was settled.
RestartSettlesAgain ==
    /\ Step /\ driver.step = "down" /\ run.state \notin LiveStates
    /\ IF OfTurn /\ turn.state # "abandoned" /\ turn.goal = goal.id
       THEN /\ turn' = [turn EXCEPT !.state = "settled"]
            /\ Persist(Settled(FALSE, CleanupReady, FALSE))
       ELSE UNCHANGED << turn, goal, rev, srev >>
    /\ driver' = [step |-> "wait"] /\ wake' = TRUE
    /\ UNCHANGED << issued, run, input, decision, cleanup, owner, task, lock, ghost >>

Restart ==
    /\ Step /\ driver.step = "down" /\ run.state \notin LiveStates
    /\ CASE Reserved /\ OfTurn  -> SettleTurn(FALSE, CleanupReady, FALSE)
         [] Reserved /\ ~OfTurn -> AbandonTurn
         [] OTHER               -> UNCHANGED << turn, goal, rev, srev >>
    /\ driver' = [step |-> "wait"] /\ wake' = TRUE
    /\ UNCHANGED << issued, run, input, decision, cleanup, owner, task, lock, ghost >>

-----------------------------------------------------------------------------
Owner ==
    \/ \E b \in Budgets, auto \in BOOLEAN : GoalSet(b, auto)
    \/ \E b \in Budgets : GoalEdit(b)
    \/ GoalPause \/ GoalResume \/ GoalClear
    \/ Revoke \/ Restore
    \/ InputBind \/ InputAdmit \/ InputReject \/ SteerRun \/ DecisionAnswer
    \/ \E e \in {"observed", "attested"} : CleanupObserve(e)

Driver == \/ DriverWake \/ DriverStop \/ ReserveTurn \/ DriverRelease
          \/ DriverDispatch \/ DriverRefused \/ DriverAbandon

Work ==
    \/ \E c \in Costs : Request(c)
    \/ Observe \/ Ask
    \/ \E o \in {"Complete", "Blocked"} : Report(o)

TaskEnds == \E s \in Terminal \ {"Interrupted"} : TaskEnd(s)

Task == \/ TaskStart \/ TaskRefused \/ TaskRefusedSettle \/ BrowserRefused
        \/ TaskEnds \/ TaskLock \/ TaskAuthority
        \/ \E p \in BOOLEAN : TaskSettle(p)

GoalNext == Owner \/ Driver \/ Work \/ Task \/ Crash \/ RestartRun \/ Restart

GoalSpec == GoalInit /\ [][GoalNext]_goalVars

\* The driver and the execution task run to their next step, and a run ends;
\* a process that is down is started again.
GoalFairness ==
    /\ WF_goalVars(Driver) /\ WF_goalVars(Task)
    /\ WF_goalVars(RestartRun \/ Restart)

GoalFairSpec == GoalSpec /\ GoalFairness

-----------------------------------------------------------------------------
Goals ==
    [id : 1..MaxGoals, status : Statuses, authorized : BOOLEAN, budget : Budgets,
     runs : 0..RunLimit, spent : Nat, unmeasured : Nat, stall : 0..StallLimit]

\* The shapes of the durable and volatile state.
GoalTypeOK ==
    /\ goal \in {NoGoal} \cup Goals
    /\ turn.state \in {"none", "reserved", "settled", "abandoned"}
    /\ run.state \in {"none"} \cup LiveStates \cup Terminal
    /\ input \in BOOLEAN /\ decision \in BOOLEAN
    /\ cleanup \in {"observed", "pending", "attested"}
    /\ task \in {"none", "setup", "refused", "running", "ended", "terminal", "settle"}
    /\ lock \in {"free", "driver", "submit", "task"}
    /\ HasGoal /\ goal.authorized => goal.status = "Active"

\* A turn is reserved, and a reserved turn admitted, only while the owner's
\* last word was consent: no pause, edit, guidance, own turn of the owner,
\* settlement or restart lets the driver run on (scheduling.rs, goals.rs).
RunsOnConsent ==
    (\/ turn'.state = "reserved" /\ turn'.srev # turn.srev
     \/ run'.cmd # 0 /\ run'.cmd # run.cmd)
    => consent

\* What the goal is charged is what the provider charged for it, unless a run
\* is counted as unmeasured or the reservation is still open; a lost report or
\* a crash can hide use but never turns it into complete accounting.
ChargesAreTrue ==
    HasGoal /\ goal.unmeasured = 0 /\ ~Reserved => goal.spent = used[goal.id]

\* The charge never exceeds the real use: no run is settled twice.
NeverOvercharged == HasGoal => goal.spent <= used[goal.id]

\* The driver never starts a run once the provider has really charged the
\* budget, whatever happened to the reports of earlier runs.
StartsWithinBudget ==
    turn'.state = "reserved" /\ turn'.srev # turn.srev
    => used[goal.id] < goal.budget

\* An assessment closes the goal only if the owner neither paused nor guided it
\* after the model reported, and the consent the run started from still stands
\* (reporting.rs, settlement.rs).
AssessmentUncontested ==
    HasGoal /\ goal.status \notin {"Complete", "Blocked"}
      /\ goal'.id = goal.id /\ goal'.status \in {"Complete", "Blocked"}
    => ~contested /\ consent

\* A reservation becomes a run at most once: after a crash the reserved
\* command is settled or fenced and never admitted by a later process.
ReservationRunsOnce ==
    run'.cmd # 0 /\ run'.cmd # run.cmd
    => turn.state = "reserved" /\ crashes = turn.born

\* An authorised goal does not sit still: the driver stops it or runs it, or
\* a user turn takes the session.
ContinuationProceeds == Continuing ~> (~Continuing \/ run.state \in LiveStates)

\* A reserved turn is settled or abandoned in the end.
ReservationResolves == Reserved ~> ~Reserved

\* The goal's account is never wrong in its own favour, nor in the driver's.
GoalSafety == GoalTypeOK /\ ChargesAreTrue /\ NeverOvercharged

\* No step starts, repeats or closes work that the owner's consent, the budget or
\* the reservation does not cover (scheduling.rs, settlement.rs): [][GoalSteps]_goalVars.
GoalSteps ==
  RunsOnConsent /\ StartsWithinBudget /\ AssessmentUncontested /\ ReservationRunsOnce
=============================================================================
