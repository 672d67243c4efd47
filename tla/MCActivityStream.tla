-------------------------- MODULE MCActivityStream --------------------------
(***************************************************************************)
(* Finite instances of ActivityStream for TLC.                             *)
(***************************************************************************)
EXTENDS ActivityStream, TLC

CONSTANTS p1, p2, c1, c2

OneProducer == {p1}
TwoProducers == {p1, p2}
OneClient == {c1}
TwoClients == {c1, c2}

\* Threads are interchangeable: sound for the runs that check no liveness.
ThreadSymmetry == Permutations(TwoProducers)
=============================================================================
