---------------------------- MODULE MCRunJournal ----------------------------
(* RunJournal for TLC: two turns of one session.                           *)
EXTENDS RunJournal, TLC

\* Sound: no definition tells two commands apart when none is delegating.
CommandSymmetry == Permutations(Commands)
=============================================================================
