------------------------- MODULE MCServerLifecycle --------------------------
(***************************************************************************)
(* An installed plugin and a developer's checkout, on one machine.         *)
(***************************************************************************)
EXTENDS ServerLifecycle

CONSTANTS i1, d1

TheInstalls == {i1}
TheDevs == {d1}
=============================================================================
