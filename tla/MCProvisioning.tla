--------------------------- MODULE MCProvisioning ---------------------------
(* Small instances of Provisioning for TLC.                                *)
EXTENDS Provisioning, TLC

\* Creations and callers are interchangeable: sound for the runs without liveness.
Symmetry == Permutations(Creations) \cup Permutations(Callers)
=============================================================================
