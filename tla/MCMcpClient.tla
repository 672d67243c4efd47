----------------------------- MODULE MCMcpClient -----------------------------
(***************************************************************************)
(* Finite instances of McpClient for TLC.                                  *)
(***************************************************************************)
EXTENDS McpClient, TLC

CONSTANTS a1, a2

TwoCallers == {a1, a2}
=============================================================================
