-------------------------- MODULE MCTransportPool ---------------------------
(* Small instances of TransportPool for TLC.                               *)
EXTENDS TransportPool, TLC

Symmetry == Permutations(Clients) \cup Permutations(Conns)
=============================================================================
