---------------------------- MODULE MCController ----------------------------
(* Two branches, two invocations of the CLI at a time; see the .cfg files. *)
EXTENDS Controller, TLC

ProcsAreAlike == Permutations(Procs)
=============================================================================
