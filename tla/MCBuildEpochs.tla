--------------------------- MODULE MCBuildEpochs ---------------------------
(* Small instances of BuildEpochs for TLC.                                 *)
EXTENDS BuildEpochs, TLC

CONSTANTS r1, r2

OneRequest == {r1}
TwoRequests == {r1, r2}
RequestSymmetry == Permutations(TwoRequests)

NoFault == {}
RebuildFaults == {"crash", "getError", "fileError"}
ChildFaults == {"crash", "buildError", "workerError"}
=============================================================================
