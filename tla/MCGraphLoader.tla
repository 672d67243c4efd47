--------------------------- MODULE MCGraphLoader ----------------------------
(***************************************************************************)
(* Two graphs of which neither contains the other: a build that dropped a  *)
(* node and found two.                                                     *)
(***************************************************************************)
EXTENDS GraphLoader

TheGraphs == {{1, 2}, {1, 3, 4}}
ThePartial == {1}
=============================================================================
