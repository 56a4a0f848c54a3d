---------------------------- MODULE MCNodeEvents ----------------------------
(* Small instances of NodeEvents for TLC.                                  *)
EXTENDS NodeEvents, TLC

Symmetry == Permutations(Requests) \cup Permutations(Streams) \cup Permutations(Nodes)
            \cup Permutations(Values)
=============================================================================
