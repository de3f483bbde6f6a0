--------------------------- MODULE MCPeerLifecycle ---------------------------
(* The send thread and the receive thread, each with PeerHelpers in two    *)
(* nested scopes; two objects that are given the same session id.          *)
EXTENDS PeerLifecycle, TLC

CONSTANTS first, second, send, receive

Peers == {first, second}
Threads == {send, receive}
Levels == {1, 2}
SameId == [p \in Peers |-> 2]
=============================================================================
