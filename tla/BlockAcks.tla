----------------------------- MODULE BlockAcks -----------------------------
(***************************************************************************)
(* What the client promises the server: each copy of a block that it       *)
(* receives is acknowledged exactly once.  The server throttles its        *)
(* sending by the acknowledgements.  BlockTransfer takes the client for    *)
(* this (ReceiveBlock is Owe, Acknowledge is Pay); MeshQueue is what the   *)
(* client really does.                                                     *)
(***************************************************************************)
EXTENDS Naturals

CONSTANT
    Block,    \* positions of map blocks
    MaxOwed   \* bound: copies of a block that wait for their acknowledgement

VARIABLES
    owed,         \* [Block -> 0 .. MaxOwed]
    acknowledged  \* [Block -> Nat]

Init ==
    /\ owed = [p \in Block |-> 0]
    /\ acknowledged = [p \in Block |-> 0]

(* BLOCKDATA for p has been received and is to be acknowledged. *)
Owe(p) ==
    /\ owed' = [owed EXCEPT ![p] = @ + 1]
    /\ UNCHANGED acknowledged

(* GOTBLOCKS is sent, for paid[p] copies of each p. *)
Pay(paid) ==
    /\ \A p \in Block : paid[p] <= owed[p]
    /\ owed' = [p \in Block |-> owed[p] - paid[p]]
    /\ acknowledged' = [p \in Block |-> acknowledged[p] + paid[p]]

Next ==
    \/ \E p \in Block : Owe(p)
    \/ \E paid \in [Block -> 0 .. MaxOwed] : Pay(paid)

Spec == Init /\ [][Next]_<<owed, acknowledged>>
=============================================================================
