----------------------------- MODULE MCSteering -----------------------------
(* Instances of Steering for TLC. *)
EXTENDS Steering, TLC

\* Receipts are interchangeable.
ReceiptSymmetry == Permutations(Receipts)
=============================================================================
