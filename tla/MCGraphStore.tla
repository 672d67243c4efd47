---------------------------- MODULE MCGraphStore ----------------------------
(***************************************************************************)
(* A build child and a thread that recomputes the layout, over two graphs: *)
(* the bare domain, and the domain with what a later scan has found.       *)
(***************************************************************************)
EXTENDS GraphStore

CONSTANTS child, http

TheWorkers == {child, http}
TheBuilders == {child}
TheGraphs == {{1}, {1, 2, 3}}
=============================================================================
