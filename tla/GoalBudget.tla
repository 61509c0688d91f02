------------------------------ MODULE GoalBudget ------------------------------
(***************************************************************************)
(* The token budget of one goal turn that delegates work to children on     *)
(* other vessels.  The live meter counts in memory, the journal retains an   *)
(* observation per request and per allocation, and the children, reached     *)
(* over a network that loses and delays, keep receipts of their own.         *)
(* An allocation is reserved in memory, made durable, dispatched (durably    *)
(* first, then remotely), and ends with the child's receipt or with proof    *)
(* that the child never ran.                                                 *)
(***************************************************************************)
EXTENDS Integers, FiniteSets, FiniteSetsExt, Functions

CONSTANTS
    Children,     \* delegated commands of the turn
    Limit,        \* tokens the goal has left when the turn starts
    RequestCosts, \* what one provider request may cost
    MaxLocal      \* provider requests of the parent itself (bound)

BudgetAssumption ==
    /\ IsFiniteSet(Children)
    /\ IsFiniteSet(RequestCosts) /\ RequestCosts \subseteq Nat \ {0} /\ RequestCosts # {}
    /\ Limit \in Nat \ {0} /\ MaxLocal \in Nat

VARIABLES
    budgetTurn, \* the goal turn: reserved or settled; spent; measured
    live,       \* the parent's run is accepted or running in the journal
    local,      \* the parent's own requests: open cost, observed tokens, number
    row,        \* process_goal_allocations with its request observation
    meter,      \* the live GoalMeter; up is FALSE once the process died
    call,       \* the tool call that delegates to a child
    budgetLock, \* holder of the meter's delegation lock, or "free"
    child       \* the child's session: what ran there and its receipt

budgetVars == << budgetTurn, live, local, row, meter, call, budgetLock, child >>

NoRow == [made |-> FALSE, budget |-> 0, dispatched |-> FALSE, receipt |-> FALSE,
          closed |-> FALSE, tokens |-> 0, complete |-> FALSE, clean |-> FALSE]

BudgetInit ==
    /\ budgetTurn = [state |-> "reserved", spent |-> 0, measured |-> TRUE]
    /\ live = TRUE
    /\ local = [open |-> 0, seen |-> 0, count |-> 0]
    /\ row = [c \in Children |-> NoRow]
    /\ meter = [up |-> TRUE, used |-> 0, uncertain |-> FALSE, reserved |-> 0,
                held |-> [c \in Children |-> "none"]]
    /\ call = [c \in Children |-> [step |-> "idle", tokens |-> 0]]
    /\ budgetLock = "free"
    /\ child = [c \in Children |-> [state |-> "absent", used |-> 0, receipt |-> 0,
                                    late |-> 0, complete |-> FALSE, clean |-> FALSE]]

Half(n) == IF n > 0 THEN n \div 2 ELSE 0

\* retained_usage: the durable lower bound over local requests and children.
Retained == local.seen + SumFunction([c \in Children |-> row[c].tokens])
RetainedComplete ==
    local.open = 0 /\ \A c \in Children : row[c].made => row[c].complete

\* Budgets that may still be spent: no receipt and no proof of non-admission.
OpenRow(c) == row[c].made /\ ~row[c].receipt /\ ~row[c].closed
OpenBudgets ==
    SumFunctionOnSet([c \in Children |-> row[c].budget], {c \in Children : OpenRow(c)})

\* check_budget: no uncertainty, every settled child clean, something left.
CleanupUnobserved == \E c \in Children : meter.held[c] = "dirty"
WithinBudget ==
    ~meter.uncertain /\ ~CleanupUnobserved /\ meter.used + meter.reserved < Limit

-----------------------------------------------------------------------------
\* The parent's own provider requests, one at a time: the observation row is
\* written before dispatch and completed when usage arrives.

\* Mutation: the parent's requests ignore what is reserved for children.
LocalBeginGreedy(cost) ==
    /\ meter.up /\ live /\ local.open = 0 /\ local.count < MaxLocal
    /\ ~meter.uncertain /\ ~CleanupUnobserved /\ meter.used < Limit
    /\ local' = [local EXCEPT !.open = cost, !.count = @ + 1]
    /\ UNCHANGED << budgetTurn, live, row, meter, call, budgetLock, child >>

LocalBegin(cost) ==
    /\ meter.up /\ live /\ local.open = 0 /\ local.count < MaxLocal
    /\ WithinBudget
    /\ local' = [local EXCEPT !.open = cost, !.count = @ + 1]
    /\ UNCHANGED << budgetTurn, live, row, meter, call, budgetLock, child >>

LocalFinish ==
    /\ meter.up /\ live /\ local.open # 0
    /\ local' = [local EXCEPT !.open = 0, !.seen = @ + local.open]
    /\ meter' = [meter EXCEPT !.used = @ + local.open]
    /\ UNCHANGED << budgetTurn, live, row, call, budgetLock, child >>

\* The attempt fails or is dropped: its cost stays unknown.
LocalFail ==
    /\ meter.up /\ live /\ local.open # 0 /\ ~meter.uncertain
    /\ meter' = [meter EXCEPT !.uncertain = TRUE]
    /\ UNCHANGED << budgetTurn, live, local, row, call, budgetLock, child >>

-----------------------------------------------------------------------------
\* Mutation: the allowance is only noted once the journal has granted it.
AllocUnreserved(c) ==
    /\ meter.up /\ live /\ budgetLock = "free" /\ call[c].step = "idle"
    /\ ~meter.uncertain /\ ~CleanupUnobserved
    /\ LET tokens == Half(Limit - meter.used - meter.reserved)
       IN  /\ tokens > 0
           /\ call' = [call EXCEPT ![c] = [step |-> "reserve", tokens |-> tokens]]
    /\ budgetLock' = c
    /\ UNCHANGED << meter, budgetTurn, live, local, row, child >>

\* GoalMeter::allocate under the delegation lock: half of what is left is
\* reserved in memory, then the journal records the intent with its own bound.
AllocReserve(c) ==
    /\ meter.up /\ live /\ budgetLock = "free" /\ call[c].step = "idle"
    /\ ~meter.uncertain /\ ~CleanupUnobserved
    /\ LET tokens == Half(Limit - meter.used - meter.reserved)
       IN  /\ tokens > 0
           /\ meter' = [meter EXCEPT !.reserved = @ + tokens]
           /\ call' = [call EXCEPT ![c] = [step |-> "reserve", tokens |-> tokens]]
    /\ budgetLock' = c
    /\ UNCHANGED << budgetTurn, live, local, row, child >>

\* allocate_goal_child: only for a live run and an open reservation.
Grant(c) ==
    LET left == Limit - Retained - OpenBudgets
    IN  IF Half(left) < call[c].tokens THEN Half(left) ELSE call[c].tokens

Grantable(c) ==
    /\ live /\ budgetTurn.state = "reserved" /\ ~row[c].made /\ Grant(c) > 0
    /\ \A d \in Children : row[d].receipt => row[d].complete /\ row[d].clean

AllocCommit(c) ==
    /\ meter.up /\ call[c].step = "reserve" /\ budgetLock = c /\ budgetLock' = "free"
    /\ IF Grantable(c)
       THEN /\ row' = [row EXCEPT ![c].made = TRUE, ![c].budget = Grant(c)]
            /\ meter' = [meter EXCEPT !.reserved = @ - (call[c].tokens - Grant(c)),
                                      !.held[c] = "open"]
            /\ call' = [call EXCEPT ![c].step = "granted"]
       ELSE /\ meter' = [meter EXCEPT !.uncertain = TRUE]
            /\ call' = [call EXCEPT ![c].step = "gone"]
            /\ UNCHANGED row
    /\ UNCHANGED << budgetTurn, live, local, child >>

\* The tool call is cancelled while the journal transaction is queued: the
\* lock is released, the transaction still runs, the reservation stays.
AllocDrop(c) ==
    /\ meter.up /\ call[c].step = "reserve" /\ budgetLock = c /\ budgetLock' = "free"
    /\ call' = [call EXCEPT ![c].step = "queued"]
    /\ UNCHANGED << budgetTurn, live, local, row, meter, child >>

AllocQueued(c) ==
    /\ meter.up /\ call[c].step = "queued"
    /\ row' = IF Grantable(c)
              THEN [row EXCEPT ![c].made = TRUE, ![c].budget = Grant(c)] ELSE row
    /\ call' = [call EXCEPT ![c].step = "gone"]
    /\ UNCHANGED << budgetTurn, live, local, meter, budgetLock, child >>

\* prepare_dispatch: durable before the remote command is sent.
Dispatchable(c) ==
    live /\ budgetTurn.state = "reserved" /\ OpenRow(c)

Dispatch(c) ==
    /\ meter.up /\ call[c].step = "granted" /\ budgetLock = "free"
    /\ IF WithinBudget /\ meter.held[c] = "open" /\ Dispatchable(c)
       THEN /\ row' = [row EXCEPT ![c].dispatched = TRUE]
            /\ call' = [call EXCEPT ![c].step = "sent"]
       ELSE /\ call' = [call EXCEPT ![c].step = "gone"]
            /\ UNCHANGED row
    /\ UNCHANGED << budgetTurn, live, local, meter, budgetLock, child >>

\* The tool call is cancelled after its grant and never dispatches.
CallDropped(c) ==
    /\ meter.up /\ call[c].step = "granted"
    /\ call' = [call EXCEPT ![c].step = "gone"]
    /\ UNCHANGED << budgetTurn, live, local, row, meter, budgetLock, child >>

-----------------------------------------------------------------------------
\* The child's vessel.  The command may arrive at any later time, or never.
ChildAdmit(c) ==
    /\ call[c].step = "sent" /\ child[c].state = "absent"
    /\ child' = [child EXCEPT ![c].state = "running"]
    /\ UNCHANGED << budgetTurn, live, local, row, meter, call, budgetLock >>

ChildWork(c, cost) ==
    /\ child[c].state = "running" /\ child[c].used < row[c].budget
    /\ child' = [child EXCEPT ![c].used = @ + cost]
    /\ UNCHANGED << budgetTurn, live, local, row, meter, call, budgetLock >>

\* settle_delegated_run: a measured run reports its use, an interrupted one a
\* lower bound that later observations may raise.
ChildEnd(c, complete, clean) ==
    /\ child[c].state = "running"
    /\ \E n \in 0..child[c].used :
         /\ complete => n = child[c].used
         /\ child' = [child EXCEPT ![c].state = "ended", ![c].receipt = n,
                                   ![c].late = n, ![c].complete = complete,
                                   ![c].clean = clean]
    /\ UNCHANGED << budgetTurn, live, local, row, meter, call, budgetLock >>

ChildLate(c) ==
    /\ child[c].state = "ended"
    /\ \/ /\ ~child[c].complete /\ child[c].late < child[c].used
          /\ child' = [child EXCEPT ![c].late = @ + 1]
       \/ ~child[c].clean /\ child' = [child EXCEPT ![c].clean = TRUE]
    /\ UNCHANGED << budgetTurn, live, local, row, meter, call, budgetLock >>

\* The child refuses the command for good, or is asked to fence it.
ChildFence(c) ==
    /\ row[c].dispatched /\ child[c].state = "absent"
    /\ child' = [child EXCEPT ![c].state = "fenced"]
    /\ UNCHANGED << budgetTurn, live, local, row, meter, call, budgetLock >>

-----------------------------------------------------------------------------
\* Mutation: the whole late receipt is charged again.
ReconcileRowWhole(c) ==
    /\ ~live /\ budgetTurn.state = "settled" /\ row[c].made /\ ~row[c].closed
    /\ child[c].state = "ended"
    /\ row' = [row EXCEPT ![c].receipt = TRUE, ![c].tokens = child[c].late,
                          ![c].complete = child[c].complete,
                          ![c].clean = child[c].clean]
    /\ budgetTurn' = [budgetTurn EXCEPT !.spent = @ + child[c].late]

\* reconcile_goal_allocation: a late observation adds only what is new, once
\* the parent's own settlement is durable.
ReconcileRow(c) ==
    /\ ~live /\ budgetTurn.state = "settled" /\ row[c].made /\ ~row[c].closed
    /\ child[c].state = "ended"
    /\ row' = [row EXCEPT ![c].receipt = TRUE, ![c].tokens = child[c].late,
                          ![c].complete = child[c].complete,
                          ![c].clean = child[c].clean]
    /\ budgetTurn' = [budgetTurn EXCEPT !.spent = @ + (child[c].late - row[c].tokens)]

\* Mutation: an imported receipt is taken to mean that the child cleaned up.
ImportRowClean(c) ==
    /\ budgetTurn.state = "reserved" /\ row[c].made /\ ~row[c].closed
    /\ row' = [row EXCEPT ![c].receipt = TRUE, ![c].tokens = child[c].receipt,
                          ![c].complete = child[c].complete, ![c].clean = TRUE]
    /\ UNCHANGED budgetTurn

\* The observer task of a live meter imports the child's receipt: the journal
\* first (settle_goal_allocation, or reconciliation once the turn is settled),
\* then the totals.
ImportRow(c) ==
    /\ budgetTurn.state = "reserved" /\ row[c].made /\ ~row[c].closed
    /\ row' = [row EXCEPT ![c].receipt = TRUE, ![c].tokens = child[c].receipt,
                          ![c].complete = child[c].complete,
                          ![c].clean = child[c].clean]
    /\ UNCHANGED budgetTurn

\* Mutation: the import does not reach the totals of the live meter.
ImportJournalOnly(c) ==
    /\ meter.up /\ budgetLock = "free" /\ meter.held[c] = "open"
    /\ child[c].state = "ended"
    /\ ImportRow(c) \/ ReconcileRow(c)
    /\ meter' = [meter EXCEPT !.held[c] = "settled"]
    /\ UNCHANGED << live, local, call, budgetLock, child >>

Import(c) ==
    /\ meter.up /\ budgetLock = "free" /\ meter.held[c] = "open"
    /\ child[c].state = "ended"
    /\ ImportRow(c) \/ ReconcileRow(c)
    /\ meter' = [meter EXCEPT !.used = @ + child[c].receipt,
                              !.reserved = @ - row[c].budget,
                              !.uncertain = @ \/ ~child[c].complete,
                              !.held[c] = IF child[c].clean THEN "settled" ELSE "dirty"]
    /\ UNCHANGED << live, local, call, budgetLock, child >>

\* Mutation: any allocation of an ended run without a receipt counts as unused.
NeverAnswered(c) == ~live

\* close_goal_allocation: zero use, only on the child's non-admission receipt or
\* for a gated allocation that was never dispatched by a run that has ended.
NeverDispatched(c) == ~row[c].dispatched /\ ~live

Closable(c) == OpenRow(c) /\ row[c].tokens = 0

CloseRow(c) ==
    row' = [row EXCEPT ![c].closed = TRUE, ![c].tokens = 0, ![c].complete = TRUE,
                       ![c].clean = TRUE]

\* The observer of a live meter receives the child's non-admission receipt.
CloseLive(c) ==
    /\ meter.up /\ budgetLock = "free" /\ meter.held[c] = "open"
    /\ child[c].state = "fenced" /\ Closable(c)
    /\ CloseRow(c)
    /\ meter' = [meter EXCEPT !.reserved = @ - row[c].budget, !.held[c] = "closed"]
    /\ UNCHANGED << budgetTurn, live, local, call, budgetLock, child >>

\* The owner's explicit reconciliation of an idle runtime.
RuntimeIdle == ~live /\ budgetTurn.state = "settled"

CloseIdle(c) ==
    /\ RuntimeIdle /\ Closable(c)
    /\ NeverDispatched(c) \/ child[c].state = "fenced"
    /\ CloseRow(c)
    /\ UNCHANGED << budgetTurn, live, local, meter, call, budgetLock, child >>

ReconcileIdle(c) ==
    /\ RuntimeIdle /\ ReconcileRow(c)
    /\ << row, budgetTurn >>' # << row, budgetTurn >>
    /\ UNCHANGED << live, local, meter, call, budgetLock, child >>

-----------------------------------------------------------------------------
\* The run ends in the journal; waiting for children is best effort.
RunEnd ==
    /\ meter.up /\ live
    /\ live' = FALSE
    /\ UNCHANGED << budgetTurn, local, row, meter, call, budgetLock, child >>

MeterComplete == ~meter.uncertain /\ local.open = 0 /\ meter.reserved = 0

\* Mutation: allowances still reserved for children count as not spent.
SettleHasty ==
    /\ meter.up /\ ~live /\ budgetTurn.state = "reserved" /\ budgetLock = "free"
    /\ meter.used >= Retained
    /\ budgetTurn' = [state |-> "settled", spent |-> meter.used,
                measured |-> ~meter.uncertain /\ local.open = 0]
    /\ UNCHANGED << live, local, row, meter, call, budgetLock, child >>

\* settle_goal_run under the settlement guard: refused when the meter is below
\* what the journal retains.
Settle ==
    /\ meter.up /\ ~live /\ budgetTurn.state = "reserved" /\ budgetLock = "free"
    /\ meter.used >= Retained
    /\ budgetTurn' = [state |-> "settled", spent |-> meter.used,
                measured |-> MeterComplete /\ RetainedComplete]
    /\ UNCHANGED << live, local, row, meter, call, budgetLock, child >>

\* The process dies; startup interrupts the run and settles without a meter.
MeterDies ==
    /\ meter.up
    /\ meter' = [meter EXCEPT !.up = FALSE]
    /\ budgetLock' = "free"
    /\ call' = [c \in Children |->
                  IF call[c].step = "sent" THEN call[c] ELSE [call[c] EXCEPT !.step = "gone"]]
    /\ UNCHANGED << budgetTurn, live, local, row, child >>

Recover ==
    /\ ~meter.up /\ (live \/ budgetTurn.state = "reserved")
    /\ live' = FALSE
    /\ budgetTurn' = IF budgetTurn.state = "reserved"
               THEN [state |-> "settled", spent |-> Retained, measured |-> FALSE]
               ELSE budgetTurn
    /\ UNCHANGED << local, row, meter, call, budgetLock, child >>

BudgetNext ==
    \/ \E n \in RequestCosts : LocalBegin(n)
    \/ LocalFinish \/ LocalFail
    \/ \E c \in Children :
         \/ AllocReserve(c) \/ AllocCommit(c) \/ AllocDrop(c) \/ AllocQueued(c)
         \/ Dispatch(c) \/ CallDropped(c)
         \/ ChildAdmit(c) \/ ChildLate(c) \/ ChildFence(c)
         \/ \E n \in RequestCosts : ChildWork(c, n)
         \/ \E complete, clean \in BOOLEAN : ChildEnd(c, complete, clean)
         \/ Import(c) \/ CloseLive(c) \/ CloseIdle(c) \/ ReconcileIdle(c)
    \/ RunEnd \/ Settle \/ MeterDies \/ Recover

BudgetSpec == BudgetInit /\ [][BudgetNext]_budgetVars

-----------------------------------------------------------------------------
\* The shapes of the rows, of the meter and of the children.
BudgetTypeOK ==
    /\ budgetTurn \in [state : {"reserved", "settled"}, spent : Nat, measured : BOOLEAN]
    /\ meter.used \in Nat /\ meter.reserved \in Nat
    /\ budgetLock \in Children \cup {"free"}
    /\ \A c \in Children :
         /\ row[c].budget \in 0..Limit /\ row[c].tokens \in Nat
         /\ call[c].step \in {"idle", "reserve", "queued", "granted", "sent", "gone"}
         /\ child[c].state \in {"absent", "running", "ended", "fenced"}

TrueUse == local.seen + local.open + SumFunction([c \in Children |-> child[c].used])
MaxCost == Max(RequestCosts)

\* The whole family stays within the budget but for what single requests
\* overshoot: a request costs what the provider says only after it was made,
\* so the parent may exceed the limit by one request, and each child by one
\* request less a token (goal_meter.rs, allocations.rs).
FamilyWithinBudget ==
    TrueUse <= Limit + MaxCost + Cardinality(Children) * (MaxCost - 1)

\* An allocation closed without cost belongs to a child that never ran and
\* never will (dispatch.rs).
ClosedNeverRuns ==
    \A c \in Children : row[c].closed =>
        /\ child[c].state \in {"absent", "fenced"}
        /\ child[c].state = "absent" => call[c].step # "sent"

\* The goal is charged exactly what the journal retains, through imports before
\* settlement, imports that race it, late receipts and repeated reconciliation.
LedgerBalances == budgetTurn.state = "settled" => budgetTurn.spent = Retained

\* Accounting called complete is complete: the charge is the real use of parent
\* and children, and nothing that could still run remains.
MeasuredIsTrue ==
    budgetTurn.state = "settled" /\ budgetTurn.measured => budgetTurn.spent = TrueUse

\* The live meter never falls below the journal, so the settlement it is
\* compared with is never refused (settle_goal_run's aggregate check).
MeterCoversJournal ==
    meter.up /\ budgetTurn.state = "reserved" => meter.used >= Retained

\* When every retained effect is observed (cleanup_ready, the gate of the next
\* turn) no child of this turn is running or can still be admitted.
ReadyIsQuiet ==
    budgetTurn.state = "settled" /\ (\A c \in Children : row[c].made => row[c].clean)
    => \A c \in Children :
         /\ child[c].state # "running"
         /\ call[c].step = "sent" => child[c].state # "absent"
         /\ child[c].state = "ended" => child[c].clean

\* Parent and children stay within one budget and the books balance, through
\* fenced dispatches, late receipts and crashes (goal_meter.rs, allocations.rs).
BudgetSafety ==
  /\ BudgetTypeOK /\ FamilyWithinBudget /\ ClosedNeverRuns /\ LedgerBalances
  /\ MeasuredIsTrue /\ MeterCoversJournal /\ ReadyIsQuiet
=============================================================================
