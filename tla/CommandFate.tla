----------------------------- MODULE CommandFate -----------------------------
(***************************************************************************)
(* What the command ledger promises a sender: a command identity is open   *)
(* until it is either admitted or closed, it is never both, and what it    *)
(* asks for happens at most once, and only if it was admitted.             *)
(***************************************************************************)
CONSTANT Ids

VARIABLE fate

\* A journal written before the ledger existed holds commands long performed.
Init == fate \in [Ids -> {"open", "performed"}]

Move(i, from, to) ==
  /\ fate[i] = from
  /\ fate' = [fate EXCEPT ![i] = to]

\* Refused, or found not to have been admitted: the identity is spent.
Close(i) == Move(i, "open", "closed")

\* Admitted and performed in one transaction.
Apply(i) == Move(i, "open", "performed")

\* Admitted first; the work is started afterwards, if ever.
Admit(i)   == Move(i, "open", "admitted")
Perform(i) == Move(i, "admitted", "performed")

Next == \E i \in Ids : Close(i) \/ Apply(i) \/ Admit(i) \/ Perform(i)

Spec == Init /\ [][Next]_fate
=============================================================================
