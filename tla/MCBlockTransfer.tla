-------------------------- MODULE MCBlockTransfer --------------------------
EXTENDS BlockTransfer

CONSTANTS near, far, n1

NearThenFar == <<near, far>>
Both == {near, far}
Distances == (near :> 0) @@ (far :> 3)
OneNode == {n1}
OnlyNear == {near}
OnlyFar == {far}
=============================================================================
