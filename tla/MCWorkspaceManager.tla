------------------------ MODULE MCWorkspaceManager --------------------------
(* Small instances of WorkspaceManager for TLC.                            *)
EXTENDS WorkspaceManager, TLC

Symmetry == Permutations(Creations) \cup Permutations(Callers) \cup Permutations(Ids)
            \cup Permutations(Starters)
=============================================================================
