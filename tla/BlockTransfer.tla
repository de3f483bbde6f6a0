--------------------------- MODULE BlockTransfer ---------------------------
(***************************************************************************)
(* How one client gets the map: RemoteClient of the server, which scans    *)
(* the blocks around the player and remembers what is sent and what is on  *)
(* the wire; the map edit events of the server; and the client, which has  *)
(* a copy of the blocks, guesses the result of its own actions, and        *)
(* unloads blocks.  Blocks travel on channel 2, changes of single nodes on *)
(* channel 0, GOTBLOCKS and DELETEDBLOCKS on channel 2 of the other        *)
(* direction, INTERACT on channel 0: each channel is reliable and in       *)
(* order (ReliableChannel), but nothing orders one against another.        *)
(*                                                                         *)
(* Abstractions.  A Block is in range, in sight and not only air; what is  *)
(* left of the camera is whether it is hidden behind others.  The content  *)
(* of a node is the number of the change that made it; metadata are left   *)
(* out.  Loading and generating blocks is EmergeQueue's; here a block just *)
(* comes.                                                                  *)
(***************************************************************************)
EXTENDS Naturals, FiniteSets, Sequences, SequencesExt, FiniteSetsExt

CONSTANTS
    Block,         \* the blocks around the player ...
    Order,         \* ... in the order in which they are scanned
    Dist,          \* [Block -> Nat]: the radius at which a block is scanned
    full_d_max,    \* the largest radius
    Node,          \* the nodes of a block that may change
    Editable,      \* the blocks with such nodes
    Hideable,      \* the blocks that others may hide
    Preloaded,     \* the blocks that the server has in memory already
    m_max_simul_sends,
    LIMITED_MAX_SIMULTANEOUS_BLOCK_SENDS,
    BLOCK_SEND_DISABLE_LIMITS_MAX_D,
    max_blocks_to_send,  \* to all clients, of which there is one
    EmergeLimit,   \* blocks of this player in the emerge queue
    MaxTroubles,   \* bound: what happens from outside, see Trouble
    MaxOwed,       \* bound: copies of a block not yet acknowledged
    None           \* not a block content

ASSUME BlocksAssumption ==
    /\ full_d_max \in Nat
    /\ Order \in Seq(Block) /\ ToSet(Order) = Block
    /\ Dist \in [Block -> 0 .. full_d_max]
    /\ \A i, j \in DOMAIN Order : i < j => Dist[Order[i]] <= Dist[Order[j]]
    /\ Editable \subseteq Block /\ Hideable \subseteq Block /\ Preloaded \subseteq Block

ASSUME LimitsAssumption ==
    /\ m_max_simul_sends \in Nat \ {0} /\ EmergeLimit \in Nat \ {0}
    /\ LIMITED_MAX_SIMULTANEOUS_BLOCK_SENDS \in 0 .. m_max_simul_sends
    /\ BLOCK_SEND_DISABLE_LIMITS_MAX_D \in Nat /\ max_blocks_to_send \in Nat \ {0}

ASSUME BoundsAssumption == MaxTroubles \in Nat /\ MaxOwed \in Nat

Guess == MaxTroubles + 1      \* what the client thinks will come of its own action

ASSUME NoneAssumption == None \notin [Node -> 0 .. Guess]

VARIABLES
    map,        \* [Block -> Content]: the server's
    loaded,     \* the blocks that the server has in memory
    enqueued,   \* the blocks in the emerge queue
    arriving,   \* blocks that have come, but whose edit event is not yet dispatched
    m_unsent_map_edit_queue,
    client,     \* RemoteClient, see ClientState
    hidden,     \* the blocks that isBlockOccluded finds hidden
    to_client,  \* [{0, 2} -> Seq(message)]
    to_server,  \* [{0, 2} -> Seq(message)]
    world,      \* [Block -> Content \cup {None}]: the client's
    owed,       \* [Block -> 0 .. MaxOwed]: acknowledgements, see BlockAcks
    troubles,   \* how many there have been
    crossed,    \* ghost: blocks of which node changes and block data have crossed
    unreverted  \* ghost: nodes with a guess of the client that the server has
                \* neither carried out nor seen to be undone

serverVars == <<map, loaded, enqueued, arriving, m_unsent_map_edit_queue, client, hidden>>
clientVars == <<world, owed, crossed, unreverted>>
vars == <<serverVars, clientVars, to_client, to_server, troubles>>

Content == [Node -> 0 .. MaxTroubles]
Channel == {0, 2}
ClientState == [m_blocks_sent : SUBSET Block, m_blocks_sending : SUBSET Block,
                m_blocks_occ : SUBSET Block, m_nearest_unsent_d : 0 .. full_d_max,
                paused : BOOLEAN]
NodeChange == [p : Block, n : Node, v : 0 .. MaxTroubles]
Event == [type : {"node", "other"}, change : NodeChange, low_priority : BOOLEAN]

TypeOK ==
    /\ map \in [Block -> Content]
    /\ loaded \subseteq Block /\ arriving \subseteq loaded
    /\ enqueued \subseteq Block
    /\ m_unsent_map_edit_queue \in Seq(Event)
    /\ client \in ClientState
    /\ client.m_blocks_sending \cap client.m_blocks_sent = {}
    /\ Cardinality(client.m_blocks_sending) <= m_max_simul_sends
    /\ hidden \subseteq Hideable
    /\ DOMAIN to_client = Channel /\ DOMAIN to_server = Channel
    /\ to_client[0] \in Seq(NodeChange)
    /\ to_client[2] \in Seq([p : Block, content : Content])
    /\ to_server[0] \in Seq([p : Block, n : Node])
    /\ to_server[2] \in Seq([type : {"got", "deleted"}, p : Block])
    /\ world \in [Block -> [Node -> 0 .. Guess] \cup {None}]
    /\ owed \in [Block -> 0 .. MaxOwed]
    /\ troubles \in 0 .. MaxTroubles
    /\ crossed \subseteq Block /\ unreverted \subseteq Block \X Node

Init ==
    /\ map = [p \in Block |-> [n \in Node |-> 0]]
    /\ loaded = Preloaded /\ enqueued = {} /\ arriving = {}
    /\ m_unsent_map_edit_queue = <<>>
    /\ client = [m_blocks_sent |-> {}, m_blocks_sending |-> {}, m_blocks_occ |-> {},
                 m_nearest_unsent_d |-> 0, paused |-> FALSE]
    /\ hidden = Hideable
    /\ to_client = [c \in Channel |-> <<>>] /\ to_server = [c \in Channel |-> <<>>]
    /\ world = [p \in Block |-> None]
    /\ owed = [p \in Block |-> 0]
    /\ troubles = 0
    /\ crossed = {} /\ unreverted = {}

(* Something happens from outside: the change of a node, a move or an      *)
(* action of the player, a block that is sent for a mod or is unloaded.    *)
Trouble == troubles < MaxTroubles /\ troubles' = troubles + 1

-----------------------------------------------------------------------------
(* RemoteClient *)

Known(c) == c.m_blocks_sending \cup c.m_blocks_sent

(* Blocks must be sent again.  Unless that can wait, the scan goes back to *)
(* their distance.                                                         *)
SetBlocksNotSent(c, blocks, urgent) ==
    [c EXCEPT !.paused = @ /\ blocks = {},
              !.m_blocks_sent = @ \ blocks,
              !.m_blocks_sending = @ \ blocks,
              !.m_nearest_unsent_d = Min({@} \cup {Dist[p] : p \in Known(c) \cap urgent})]

SetBlockNotSent(c, p) == SetBlocksNotSent(c, {p}, {p})

ResendBlocksIfOnWire(c, blocks) ==
    LET again == blocks \cap c.m_blocks_sending IN SetBlocksNotSent(c, again, again)

GotBlockStillSending(c, p) ==    \* mutant: the slot is not given back
    IF p \in c.m_blocks_sending THEN [c EXCEPT !.m_blocks_sent = @ \cup {p}] ELSE c
GotBlock(c, p) ==
    IF p \in c.m_blocks_sending
    THEN [c EXCEPT !.m_blocks_sending = @ \ {p}, !.m_blocks_sent = @ \cup {p}]
    ELSE c

(* GetNextBlocks, the loop.  s is what it has come to: the blocks that are *)
(* chosen, emerged and culled; the distances of the first to be emerged    *)
(* and the first chosen; the distance at which it broke off.               *)
ScanStart == [chosen |-> {}, emerged |-> enqueued, culled |-> client.m_blocks_occ,
              nearest_emerged_d |-> None, nearest_sent_d |-> None, broke_off_d |-> None]

First(d, p) == IF d = None THEN Dist[p] ELSE d

MaxSimulDynamic(p, building) ==
    IF building /\ Dist[p] > BLOCK_SEND_DISABLE_LIMITS_MAX_D
    THEN LIMITED_MAX_SIMULTANEOUS_BLOCK_SENDS ELSE m_max_simul_sends

Culled(s, p) ==
    /\ p \in loaded \/ p \notin s.emerged
    /\ p \in s.culled \/ p \in hidden

Scanned(s, p, building) ==
    IF s.broke_off_d # None THEN s
    ELSE IF Cardinality(client.m_blocks_sending \cup s.chosen) >= MaxSimulDynamic(p, building)
    THEN [s EXCEPT !.broke_off_d = Dist[p]]
    ELSE IF p \in Known(client) THEN s
    ELSE IF Culled(s, p) THEN [s EXCEPT !.culled = @ \cup {p}]
    ELSE IF p \in loaded
    THEN [s EXCEPT !.chosen = @ \cup {p}, !.nearest_sent_d = First(@, p)]
    ELSE IF Cardinality(s.emerged) < EmergeLimit
    THEN [s EXCEPT !.emerged = @ \cup {p}, !.nearest_emerged_d = First(@, p)]
    ELSE [s EXCEPT !.broke_off_d = Dist[p], !.nearest_emerged_d = First(@, p)]

(* "Don't loop very much at a time" *)
MaxDIncrementAtTime == 2
d_max == Min({full_d_max, client.m_nearest_unsent_d + MaxDIncrementAtTime})
InScan(p) == Dist[p] \in client.m_nearest_unsent_d .. d_max

Scan(building) ==
    LET scan[i \in 0 .. Len(Order)] ==
            IF i = 0 THEN ScanStart
            ELSE IF InScan(Order[i]) THEN Scanned(scan[i - 1], Order[i], building)
            ELSE scan[i - 1]
    IN  scan[Len(Order)]

(* Where the next scan starts *)
NewNearestUnsentDOnwards(s) ==    \* mutant: the scan does not start anew at the end
    IF s.nearest_emerged_d # None THEN s.nearest_emerged_d
    ELSE IF s.broke_off_d # None THEN s.broke_off_d
    ELSE Min({full_d_max, d_max + 1})
NewNearestUnsentD(s) ==
    LET d == IF s.broke_off_d = None THEN d_max + 1 ELSE s.broke_off_d
    IN  CASE s.nearest_emerged_d # None -> s.nearest_emerged_d
          [] s.nearest_emerged_d = None /\ d > full_d_max -> 0
          [] s.nearest_emerged_d = None /\ d <= full_d_max /\ s.nearest_sent_d # None ->
                s.nearest_sent_d
          [] OTHER -> d

FullMapSent(s) ==
    s.nearest_emerged_d = None /\ s.broke_off_d = None /\ d_max + 1 > full_d_max

BlockData(p) == [p |-> p, content |-> map[p]]

(* SendBlocks, in a server step: what the scan has chosen is sent in the   *)
(* order of the distances, as far as the limit of the server allows.       *)
Sorted(chosen) ==
    {q \in [1 .. Cardinality(chosen) -> chosen] :
        \A i, j \in DOMAIN q : i < j => q[i] # q[j] /\ Dist[q[i]] <= Dist[q[j]]}

Sending(s) ==
    LET room == {i \in 1 .. Cardinality(s.chosen) :
                    Cardinality(client.m_blocks_sending) + i <= max_blocks_to_send}
    IN  {SubSeq(q, 1, Cardinality(room)) : q \in Sorted(s.chosen)}

SendBlocks(building) ==
    /\ ~client.paused
    /\ Cardinality(client.m_blocks_sending) < m_max_simul_sends
    /\ LET s == Scan(building)
           new_d == NewNearestUnsentD(s)
       IN  /\ enqueued' = s.emerged
           /\ \E sent \in Sending(s) :
               /\ client' = [client EXCEPT
                    !.m_blocks_sending = @ \cup ToSet(sent),
                    !.m_nearest_unsent_d = new_d,
                    !.m_blocks_occ = IF new_d # client.m_nearest_unsent_d THEN {} ELSE s.culled,
                    !.paused = FullMapSent(s)]
               /\ to_client' = [to_client EXCEPT ![2] =
                    @ \o [i \in DOMAIN sent |-> BlockData(sent[i])]]
    /\ UNCHANGED <<map, loaded, arriving, m_unsent_map_edit_queue, hidden, to_server,
                   clientVars, troubles>>

(* m_nothing_to_send_pause_timer runs out. *)
PauseOver ==
    /\ client.paused
    /\ client' = [client EXCEPT !.paused = FALSE]
    /\ UNCHANGED <<map, loaded, enqueued, arriving, m_unsent_map_edit_queue, hidden,
                   to_client, to_server, clientVars, troubles>>

(* SendBlock, for a mod: the block is sent without being counted. *)
ForceSend(p) ==
    /\ p \in loaded \ client.m_blocks_sent
    /\ Trouble
    /\ to_client' = [to_client EXCEPT ![2] = Append(@, BlockData(p))]
    /\ UNCHANGED <<serverVars, to_server, clientVars>>

(* The player goes elsewhere or looks elsewhere: the scan starts anew.  It *)
(* does so, too, when it is taking too long.                               *)
Move(seen) ==
    /\ Trouble
    /\ hidden' = Hideable \ seen
    /\ client' = [client EXCEPT !.m_nearest_unsent_d = 0]
    /\ UNCHANGED <<map, loaded, enqueued, arriving, m_unsent_map_edit_queue, to_client,
                   to_server, clientVars>>

(* What hides a block is dug away. *)
Uncover(p) ==
    /\ p \in hidden
    /\ hidden' = hidden \ {p}
    /\ UNCHANGED <<map, loaded, enqueued, arriving, m_unsent_map_edit_queue, client,
                   to_client, to_server, clientVars, troubles>>

-----------------------------------------------------------------------------
(* The server's map *)

EditEvent(type, p, n, v, low_priority) ==
    [type |-> type, change |-> [p |-> p, n |-> n, v |-> v], low_priority |-> low_priority]

(* An emerge thread has loaded or generated a block; it dispatches the     *)
(* event in a lock of its own.                                             *)
BlockArrives(p) ==
    /\ p \in enqueued
    /\ enqueued' = enqueued \ {p}
    /\ loaded' = loaded \cup {p}
    /\ arriving' = arriving \cup {p}
    /\ UNCHANGED <<map, m_unsent_map_edit_queue, client, hidden, to_client, to_server,
                   clientVars, troubles>>

DispatchArrival(p) ==
    /\ p \in arriving
    /\ arriving' = arriving \ {p}
    /\ \E n \in Node : m_unsent_map_edit_queue' =
            Append(m_unsent_map_edit_queue, EditEvent("other", p, n, map[p][n], FALSE))
    /\ UNCHANGED <<map, loaded, enqueued, client, hidden, to_client, to_server, clientVars,
                   troubles>>

(* Something changes a node of the map: alone (addNodeWithEvent), or as    *)
(* part of a bulk change, which may be of low priority (liquids, light).   *)
ChangeNode(type, p, n, low_priority) ==
    /\ Trouble
    /\ map' = [map EXCEPT ![p][n] = troubles']
    /\ m_unsent_map_edit_queue' =
            Append(m_unsent_map_edit_queue, EditEvent(type, p, n, troubles', low_priority))

Edit(p, n, type, low_priority) ==
    /\ p \in Editable \cap loaded
    /\ type = "node" => ~low_priority
    /\ ChangeNode(type, p, n, low_priority)
    /\ UNCHANGED <<loaded, enqueued, arriving, client, hidden, to_client, to_server,
                   clientVars>>

(* The queued events, at the end of a server step.  The change of a node   *)
(* is sent by itself to a client that has the block and is not far away;   *)
(* otherwise the block is to be sent again, whatever else changes in it.   *)
(* What counts is whether the first such event of a block can wait.        *)
Position(i) == m_unsent_map_edit_queue[i].change.p

SentAlone(far) ==
    {i \in DOMAIN m_unsent_map_edit_queue :
        /\ Position(i) \in client.m_blocks_sent
        /\ \A j \in 1 .. i : Position(j) = Position(i) =>
                m_unsent_map_edit_queue[j].type = "node" /\ j \notin far}

InOrder(alone) ==
    {q \in [1 .. Cardinality(alone) -> alone] : \A j, k \in DOMAIN q : j < k => q[j] < q[k]}

ProcessEdits(far) ==
    /\ m_unsent_map_edit_queue # <<>>
    /\ LET alone == SentAlone(far)
           again == DOMAIN m_unsent_map_edit_queue \ alone
           IsFirst(i) == \A j \in again : j < i => Position(j) # Position(i)
           urgent == {i \in again : IsFirst(i) /\ ~m_unsent_map_edit_queue[i].low_priority}
       IN  /\ client' = SetBlocksNotSent(client, {Position(i) : i \in again},
                                         {Position(i) : i \in urgent})
           /\ \E order \in InOrder(alone) :
                  to_client' = [to_client EXCEPT ![0] =
                      @ \o [k \in DOMAIN order |-> m_unsent_map_edit_queue[order[k]].change]]
    /\ m_unsent_map_edit_queue' = <<>>
    /\ UNCHANGED <<map, loaded, enqueued, arriving, hidden, to_server, clientVars, troubles>>

-----------------------------------------------------------------------------
(* The server's packet handlers *)

HandleBlocks ==
    /\ to_server[2] # <<>>
    /\ LET m == Head(to_server[2])
       IN  client' = IF m.type = "got" THEN GotBlock(client, m.p)
                     ELSE SetBlockNotSent(client, m.p)
    /\ to_server' = [to_server EXCEPT ![2] = Tail(@)]
    /\ UNCHANGED <<map, loaded, enqueued, arriving, m_unsent_map_edit_queue, hidden,
                   to_client, clientVars, troubles>>

(* INTERACT, of which u is the block of the other of the two nodes that    *)
(* are pointed at: a dig changes one of them, a placement the other.       *)

(* It is carried out.  A placement that the server expects the client to   *)
(* have predicted has both blocks sent again, and so has a dig that leaves *)
(* something there; otherwise only blocks on the wire are.                 *)
CarriedOut(m, u, predicted) ==
    /\ ChangeNode("node", m.p, m.n, FALSE)
    /\ client' = IF predicted THEN SetBlocksNotSent(client, {m.p, u}, {m.p, u})
                 ELSE ResendBlocksIfOnWire(client, {m.p, u})
    /\ UNCHANGED unreverted

(* It is refused, and the block sent again "to revert change on            *)
(* client-side".                                                           *)
RefusedUnreverted(m, u) ==    \* mutant: what is refused is just ignored
    UNCHANGED <<client, map, m_unsent_map_edit_queue, troubles, unreverted>>
Refused(m, u) ==
    /\ client' = SetBlocksNotSent(client, {m.p, u}, {m.p, u})
    /\ UNCHANGED <<map, m_unsent_map_edit_queue, troubles, unreverted>>

(* It is refused, but the guess may be left as it is.  The item is not in  *)
(* the hotbar, or there is no such player: ignored.  A placement by a dead *)
(* player, or too far away, or without the privilege has one block sent    *)
(* again, and the guess may be in the other.  For an item that has no      *)
(* prediction at the server only blocks on the wire are sent again.        *)
Unreverted(m, u) ==
    /\ \/ UNCHANGED client
       \/ u # m.p /\ client' = SetBlockNotSent(client, u)
       \/ client' = ResendBlocksIfOnWire(client, {m.p, u})
    /\ unreverted' = IF world[m.p] # None /\ world[m.p][m.n] = Guess
                     THEN unreverted \cup {<<m.p, m.n>>} ELSE unreverted
    /\ UNCHANGED <<map, m_unsent_map_edit_queue, troubles>>

HandleInteract ==
    /\ to_server[0] # <<>>
    /\ LET m == Head(to_server[0])
       IN  \E u \in Block :
              \/ m.p \in loaded /\ \E predicted \in BOOLEAN : CarriedOut(m, u, predicted)
              \/ Refused(m, u)
              \/ Unreverted(m, u)
    /\ to_server' = [to_server EXCEPT ![0] = Tail(@)]
    /\ UNCHANGED <<loaded, enqueued, arriving, hidden, to_client, world, owed, crossed>>

-----------------------------------------------------------------------------
(* The client *)

Older(content, m) == content[m.n] < m.v
Newer(content, m) == content[m.n] > m.v

(* BLOCKDATA replaces what the client has of the block. *)
OweForNew(p) ==    \* mutant: a copy of what is there already needs no mesh
    owed' = IF world[p] = map[p] THEN owed ELSE [owed EXCEPT ![p] = @ + 1]
Owe(p) == owed' = [owed EXCEPT ![p] = @ + 1]

ReceiveBlock ==
    /\ to_client[2] # <<>>
    /\ LET m == Head(to_client[2])
       IN  /\ world' = [world EXCEPT ![m.p] = m.content]
           /\ owed[m.p] < MaxOwed /\ Owe(m.p)
           /\ crossed' =
                IF \E c \in ToSet(to_client[0]) : c.p = m.p /\ Newer(m.content, c)
                THEN crossed \cup {m.p}
                ELSE IF m.content = map[m.p] THEN crossed \ {m.p} ELSE crossed
           /\ unreverted' = unreverted \ ({m.p} \X Node)
    /\ to_client' = [to_client EXCEPT ![2] = Tail(@)]
    /\ UNCHANGED <<serverVars, to_server, troubles>>

(* ADDNODE, REMOVENODE: a block the client does not have is left alone.    *)
ReceiveNode ==
    /\ to_client[0] # <<>>
    /\ LET m == Head(to_client[0])
       IN  /\ world' = IF world[m.p] = None THEN world ELSE [world EXCEPT ![m.p][m.n] = m.v]
           /\ crossed' = crossed \cup
                {b.p : b \in {c \in ToSet(to_client[2]) : c.p = m.p /\ Older(c.content, m)}}
           /\ unreverted' = unreverted \ {<<m.p, m.n>>}
    /\ to_client' = [to_client EXCEPT ![0] = Tail(@)]
    /\ UNCHANGED <<serverVars, to_server, owed, troubles>>

(* GOTBLOCKS, when the mesh of the block has been made: see MeshQueue. *)
Acknowledge(p, k) ==
    /\ k <= owed[p] /\ owed' = [owed EXCEPT ![p] = @ - k]
    /\ to_server' = [to_server EXCEPT ![2] = Append(@, [type |-> "got", p |-> p])]
    /\ UNCHANGED <<serverVars, to_client, world, crossed, unreverted, troubles>>

(* timerUpdate: the block is not referred to by the mesh queue. *)
Unload(p) ==
    /\ Trouble
    /\ world[p] # None /\ owed[p] = 0
    /\ world' = [world EXCEPT ![p] = None]
    /\ to_server' = [to_server EXCEPT ![2] = Append(@, [type |-> "deleted", p |-> p])]
    /\ unreverted' = unreverted \ ({p} \X Node)
    /\ UNCHANGED <<serverVars, to_client, owed, crossed>>

(* The client digs or places a node and guesses what will come of it. *)
Interact(p, n) ==
    /\ p \in Editable /\ world[p] # None
    /\ Trouble
    /\ world' = [world EXCEPT ![p][n] = Guess]
    /\ to_server' = [to_server EXCEPT ![0] = Append(@, [p |-> p, n |-> n])]
    /\ UNCHANGED <<serverVars, to_client, owed, crossed, unreverted>>

-----------------------------------------------------------------------------
Next ==
    \/ \E building \in BOOLEAN : SendBlocks(building)
    \/ PauseOver
    \/ \E p \in Block : ForceSend(p)
    \/ \E seen \in SUBSET Hideable : Move(seen)
    \/ \E p \in Block : Uncover(p)
    \/ \E p \in Block : BlockArrives(p) \/ DispatchArrival(p)
    \/ \E p \in Block, n \in Node, type \in {"node", "other"}, low_priority \in BOOLEAN :
            Edit(p, n, type, low_priority)
    \/ \E far \in SUBSET DOMAIN m_unsent_map_edit_queue : ProcessEdits(far)
    \/ HandleBlocks
    \/ HandleInteract
    \/ ReceiveBlock
    \/ ReceiveNode
    \/ \E p \in Block : \E k \in 1 .. MaxOwed : Acknowledge(p, k)
    \/ \E p \in Block : Unload(p)
    \/ \E p \in Block, n \in Node : Interact(p, n)

Spec == Init /\ [][Next]_vars

(* The server steps, the emerge threads and both ends of the channels keep *)
(* going, and every block the client has got is acknowledged (MeshQueue).  *)
(* A player does not go on building for ever: while he does, no block but  *)
(* the nearest is sent.                                                    *)
Fairness ==
    /\ SF_vars(SendBlocks(FALSE))
    /\ WF_vars(PauseOver)
    /\ \A p \in Block : WF_vars(BlockArrives(p)) /\ WF_vars(DispatchArrival(p))
    /\ WF_vars(\E far \in SUBSET DOMAIN m_unsent_map_edit_queue : ProcessEdits(far))
    /\ WF_vars(HandleBlocks)
    /\ WF_vars(HandleInteract)
    /\ WF_vars(ReceiveBlock) /\ WF_vars(ReceiveNode)
    /\ \A p \in Block : WF_vars(\E k \in 1 .. MaxOwed : Acknowledge(p, k))

FairSpec == Spec /\ Fairness

-----------------------------------------------------------------------------
OnTheWay(p) == \E m \in ToSet(to_client[2]) : m.p = p

(* A slot of the throttle is given back: for every block in                *)
(* m_blocks_sending there is something under way at whose end the server   *)
(* hears of it.  A slot without would be lost for good.                    *)
SlotsComeBack ==
    \A p \in client.m_blocks_sending :
        OnTheWay(p) \/ owed[p] > 0 \/ \E m \in ToSet(to_server[2]) : m.p = p

(* Nothing that concerns p is under way or waits to be looked at. *)
Settled(p) ==
    /\ ~OnTheWay(p)
    /\ \A m \in ToSet(to_client[0]) \cup ToSet(to_server[0]) \cup ToSet(to_server[2]) : m.p # p
    /\ \A e \in ToSet(m_unsent_map_edit_queue) : e.change.p # p

(* What counts as sent, the client has, and has it as it is, when all that *)
(* was under way has arrived: no change is lost, no block that it has      *)
(* unloaded, and of its own guesses only those are left that the server    *)
(* lets stand (Unreverted).  Apart from these a node can only be wrong     *)
(* after its change and a copy of its block have crossed, that is, when    *)
(* the later of them has overtaken the other on another channel.           *)
StaleOnlyIfCrossed ==
    \A p \in client.m_blocks_sent \ crossed : Settled(p) =>
        /\ world[p] # None
        /\ \A n \in Node : world[p][n] = map[p][n] \/ <<p, n>> \in unreverted

(* A block that is not hidden comes to the client, and comes back when it  *)
(* has been unloaded.                                                      *)
VisibleArrives ==
    \A p \in Block : <>[](p \notin hidden) => []<>(world[p] # None)
=============================================================================
