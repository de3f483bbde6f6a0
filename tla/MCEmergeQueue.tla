---------------------------- MODULE MCEmergeQueue ----------------------------
(* A player and the server itself ask for blocks 1 and 2, and for block 3, *)
(* which lies beyond the edge of the world; another player asks nothing.   *)
EXTENDS EmergeQueue, TLC

CONSTANTS ann, bob, area, edge, ann_far

Players == {ann, bob}
Positions == 1 .. 3
BeyondEdge == {3}
Nowhere == {}
Everywhere == {"step", "finish", "calling", "hooks"}
OnlyServer == {"step"}
InCallbacks == {"step", "calling"}

EmergeArea(blocks) == [peer |-> PEER_ID_INEXISTENT, blocks |-> blocks, gen |-> TRUE,
                       force |-> TRUE, callback |-> TRUE]
NextBlocks(player, blocks, generate) ==
    [peer |-> player, blocks |-> blocks, gen |-> generate, force |-> FALSE, callback |-> FALSE]

Wishes == area :> EmergeArea({1, 2}) @@ edge :> EmergeArea({2, 3})
          @@ ann_far :> NextBlocks(ann, {1, 2, 3}, FALSE)

(* The requests of a run. *)
BothAreas == {area, edge}
Far == {area, edge, ann_far}
BothAreasWishes == [r \in BothAreas |-> Wishes[r]]
FarWishes == [r \in Far |-> Wishes[r]]
=============================================================================
