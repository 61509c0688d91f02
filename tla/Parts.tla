------------------------------- MODULE Parts -------------------------------
(***************************************************************************)
(* Parts of the system side by side. Each behaviour runs one of them and   *)
(* leaves the others at rest, so the states of a module that puts parts    *)
(* side by side are the sum, not the product, of theirs.                   *)
(***************************************************************************)

VARIABLE component  \* the part that runs, for the whole behaviour

\* A part that does not run has no state.
Rest == "at rest"
=============================================================================
