---------------------------- MODULE MCMeshQueue ----------------------------
EXTENDS MeshQueue

CONSTANTS b1, b2, w1, w2

ABlocks == {b1, b2}
InOrderAB == <<b1, b2>>
SideBySide == (b1 :> <<b2>>) @@ (b2 :> <<b1>>)
TwoWorkers == {w1, w2}
=============================================================================
