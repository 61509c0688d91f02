--------------------------- MODULE MCCommandLedger ---------------------------
(* Instances of CommandLedger for TLC. *)
EXTENDS CommandLedger, TLC

\* One payload of each kind, named after it.
KindIsName == [q \in Payloads |-> q]

\* Requests in progress are interchangeable.
HandlerSymmetry == Permutations(Handlers)
=============================================================================
