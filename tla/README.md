# TLA+ models of the Sandboxy engine

Sandboxy is a voxel game engine (a fork of Luanti/Minetest): a server that keeps
a world of blocks, clients that show it, and Lua mods that run in both. This
directory holds TLA+ modules that model the concurrent core of the engine, TLC
configurations that model-check them on small instances, and TLAPS proofs. Paths
such as `emerge.cpp:481` are relative to `src/src/` of the repository; those of
the network protocol are in `src/src/network/mtp/`.

    SeqNum.tla                 comparison of u16 sequence numbers
    SeqNumProofs.tla           ... for every size of the number space
    FifoChannel.tla            what a reliable channel promises
    ReliableChannel.tla        one direction of one reliable channel
    ReliableChannelProofs.tla
    Handshake.tla              how a client gets its peer id
    HandshakeProofs.tla
    PeerLifecycle.tla          use counts and deletion of Peer objects
    PeerLifecycleProofs.tla
    EmergeQueue.tla            the queue of blocks to be loaded or generated
    EmergeQueueProofs.tla
    MapGeneration.tla          what happens to a block that is
    MapGenerationProofs.tla
    BlockTransfer.tla          how a client gets the blocks around it
    BlockTransferProofs.tla
    BlockAcks.tla              what the client promises of acknowledgements
    MeshQueue.tla              how the client makes the meshes of its blocks
    MeshQueueProofs.tla
    MC*.tla, MC*.cfg           instances for TLC

`PROJECT.json` lists the components, the runs, a mutant for every property, the
lines of code each definition stands for, the findings, the hazards and the
theorems.

## 1. Inventory

### 1.1 The network protocol (`network/mtp`)

A `Connection` (of a client or of the server) has a send thread, a receive
thread, and users: `Client` or `Server`, which call it from their own threads.
They share the container of peers (`m_peers_mutex`), a queue of commands to the
send thread, a queue of events to the user, and in each `UDPPeer` three
`Channel`s with their own mutexes.

| part | state | operations | hard behaviour | correct when |
|---|---|---|---|---|
| sequence numbers (`internal.h:126-152`) | none; u16 numbers that start at 65500 | `seqnum_higher`, `seqnum_in_window`, counting up and back | wrap around after 36 packets | they agree with the cyclic distance |
| reliable channel (`impl.cpp:189-347, 637-800, 1043-1207`, `threads.cpp:299-386, 671-761, 1084-1414`) | next numbers, window size, `queued_commands`, `queued_reliables`, both `ReliablePacketBuffer`s | number a command, send, resend, ping, receive, acknowledge, hand on, drop | loss, duplication, reordering, late ACKs, numbers put back | everything is delivered once and in order; nothing is forgotten before it is delivered |
| joining (`threads.cpp:193-234, 388-445, 522-605, 929-1082, 1237-1255`, `impl.cpp:1361-1374, 1580-1671`) | the client's `m_peer_id` and stored headers; half-open peers of the server | connect, create a peer, SET_PEER_ID, reminder, fix the headers, time out | nothing is resent to half-open peers; ids are used again | a client joins at last; an open peer and its client agree on the id |
| peer objects (`impl.cpp:802-977, 1310-1411, 1464-1509, 1580-1627`) | container, use count and pending deletion of each `Peer`, events | look up, use, create, delete, destroy the connection | three threads with plain pointers between two mutexes | no use after delete, one delete, no leak; the user hears of peers in order |
| split packets (`impl.cpp:96-146, 404-542`) | partial messages by number | split, insert, reassemble, time out | late copies, lost chunks | a message comes out whole, or not at all |

### 1.2 Emerging blocks (`emerge.cpp`, `servermap.cpp`, `map.cpp`)

Server and Lua ask `EmergeManager` for blocks. Each request makes or joins an
entry `BlockEmergeData` (`m_blocks_enqueued`), and the position goes into the
queue of one `EmergeThread`, which is signalled. A thread pops the position,
looks for the block in memory (under the environment mutex), reads it from the
database (under the database mutex only), or makes a `BlockMakeData`, generates
on a copy without any mutex, and writes the copy back. Then it runs the
callbacks, Lua under the environment mutex among them.

| part | state | operations | hard behaviour | correct when |
|---|---|---|---|---|
| emerge queue | entries, queues, counts per player, the `Event` and stop flag of each thread, the environment mutex and `m_queue_mutex` | ask, merge, refuse, pop, wait, run callbacks, cancel, stop | callbacks that ask again; a thread that dies of bad data; stopping at any point | bookkeeping is exact; each callback runs at last; nobody waits for ever |
| map | blocks in memory with their modified state, blocks on disk, `m_chunks_in_progress`, a vmanip per thread | find, read, load, start, finish, set a node, save, unload | everything that happens between two holds of the environment mutex | one generator per chunk; nothing saved, generated or built is lost |

### 1.3 Blocks on their way to the screen

In each step the server scans the blocks around each player (`GetNextBlocks`), asks
for those it does not have to be emerged, and sends the others, as long as not too
many are on the wire. Changes of the map are queued as events and dispatched at
the end of the step: a change of a node is sent by itself to clients that have
the block, otherwise the block is marked to be sent again. The client puts the
block into its map, has its mesh made by worker threads, and acknowledges it when
the mesh is there. It changes its own copy of a node when the player digs or
places, before the server has said anything. Blocks travel on channel 2, node
changes on channel 0; GOTBLOCKS and DELETEDBLOCKS on channel 2, INTERACT on
channel 0. Channels are in order each, not against one another.

| part | state | operations | hard behaviour | correct when |
|---|---|---|---|---|
| `server/clientiface.cpp`, `server.cpp:742-1030, 2348-2543` | `m_blocks_sent`, `m_blocks_sending`, the distance the scan has come to, the occlusion cache, map edit events | scan, send, acknowledge, mark as not sent, dispatch events, refuse or carry out an INTERACT | changes while a block or its acknowledgement is on the wire; limits; a cached scan | no slot is lost; the client ends up with what the server has; what can be seen arrives |
| `client/mesh_generator_thread.cpp`, `client/client.cpp:582-665` | queue of updates, urgent and in-flight positions, two queues of results, reference counts of blocks | queue, merge, pop, read, put a result, show, acknowledge, unload | several workers read blocks without a mutex; merging; results that overtake | blocks are held as long as they are needed; the last mesh is of the last state; one acknowledgement per BLOCKDATA |

### 1.4 The rest

| part | interacts by | hard behaviour | correct when | here |
|---|---|---|---|---|
| `script/cpp_api/s_async.cpp` | job queue, semaphore, results | stopping with jobs queued, autoscaling | each job runs once, its result is handed on once | planned |
| `server/activeobjectmgr.cpp`, `util/container.h` | callbacks that add and remove objects while they are iterated | deletion in iteration, reuse of ids | each live object is visited, no deleted one | planned |
| `inventorymanager.cpp` | callbacks into Lua between check and move | the inventory changes under the move | items are neither lost nor made | planned |
| `modchannels.cpp`, `httpfetch.cpp`, `server/rollback.cpp` | calls; a thread around libcurl; SQLite | small | | planned / no |
| `serverenvironment.cpp`, `mapblock.cpp`, the rest of `server.cpp` | one thread under the environment mutex | order of calls more than concurrency | | only their calls into the parts above |
| Lua bindings, builtin Lua, definitions, settings | | sequential | | no |
| databases, map generators, rendering, GUI, vendored code | | external or pure computation | | no |

## 2. Plan

Written, in the order of importance:

1. `SeqNum`, `ReliableChannel` over it, `FifoChannel` as its abstraction.
2. `PeerLifecycle`.
3. `EmergeQueue`, then `MapGeneration`: the two halves of the work of an emerge
   thread. The first keeps the queue and the callbacks and forgets the block,
   the second the block and forgets who asked for it.
4. `Handshake`.
5. `BlockTransfer`: one client and the server, over four channels such as
   `ReliableChannel` describes.
6. `MeshQueue`, and `BlockAcks` as the promise by which the two meet: `BlockTransfer`
   takes the client for it, `MeshQueue` is shown to keep it.

Next:

7. `SplitBuffer`: chunks of unreliable and reliable messages, reassembly and
   timeouts; `ReliableChannel` delivers chunks, this module joins them.
8. `ModifySafeMap` with `ActiveObjectMgr`; `AsyncJobs`; `InventoryMove`.

Runs are few and each carries several properties; a new module gets one run for
safety and, where something must happen, one with fairness.

Every safety property and every refinement that a run checks is proved (section
5). Theorems worth proving next: those of the modules above once they are there;
and the steps of the liveness arguments that are not themselves temporal, such as
that a queue from which nothing is taken is left in a state where taking is
enabled.

## 3. The modules and the code

A model keeps the control of the code and abstracts its data. One action is one
critical section or one handler with everything it calls; the text of each
module says what a step is. Operators whose comment ends in "mutant" are wrong
variants of the definition after them, by which the properties were tested
(section 4); no specification uses them.

### SeqNum, ReliableChannel, FifoChannel

`SeqNum` has the operators on u16 numbers over a number space of any even size;
`MaxWindow` is half of it, as MAX_RELIABLE_WINDOW_SIZE is half of 65536. The
window constants of the protocol keep that ratio in every instance.

`ReliableChannel` is one direction of one channel.

| variable | code |
|---|---|
| `queued_commands`, `queued_reliables` | the same members of `Channel` |
| `outgoing_reliables_sent`, `incoming_reliables` | `ReliablePacketBuffer`s |
| `next_outgoing_seqnum`, `next_incoming_seqnum`, `m_window_size` | members of `Channel` |
| `data`, `acks` | the UDP network, external |
| `submitted`, `stream`, `delivered`, `handed` | history: what was sent, numbered, handed on; `handed` are the chunks among the latter |

| action | code |
|---|---|
| `Send` | `Connection::Send`, `UDPPeer::PutReliableSendCommand` |
| `RunCommandQueues` | `UDPPeer::RunCommandQueues` |
| `SendPackets` | one round of the loop of `sendPackets` over `queued_reliables` |
| `RawSendAsPacket` | `rawSendAsPacket` of a reliable packet: PING, SET_PEER_ID |
| `ResendReliable` | the resends of `runTimeouts` and RESEND_ONE |
| `UpdateTimers` | the window size follows loss statistics: any allowed value |
| `ReceiveAck` | `handlePacketType_Control`, ACK |
| `CheckIncomingBuffers` | `checkIncomingBuffers` |
| `ReceiveReliable` | `handlePacketType_Reliable` |
| `Lose` | the network drops a packet for good |

Numbering a command is one step: numbers are given out by the send thread and,
for a command that finds its queue empty, by the thread of the user, both under
the channel's mutex for the time of a command. A packet carries, as history, its
position in the stream, so that the properties can say which packet is meant by
a number. Receiving leaves a packet in flight, so that it can be received again,
later, or never. `Surviving` is the one assumption on the network: a copy does
not live until half the number space has been given out after it, 32768 packets
in the program. Without it every protocol with finite numbers fails. `HandOn` is what
both ways of receiving a packet in turn have in common.

A PING that finds room in the window overtakes the packets that are queued for it
(`threads.cpp:361`). `MaxOvertaking` bounds how many do before the queue moves on: a
ping is due every 5 s, the queue is looked at every 50 ms, so that the program's
value is 1; it has to be less than any window. `BacklogFits` is the hypothesis of the
theorems: no window and no command is so large that with what is queued before it
a packet is stored that lies half the number space back. The code does not enforce
it (see 6), but it holds for windows from 32 to 2048 and commands of up to 31714
packets; `MCReliableChannel` checks that its instances satisfy it.

The error path of `ReliablePacketBuffer::insert` (`IncomingDataCorruption`) needs
two different packets with one number, which only a faulty peer sends.

`FifoChannel` is the promise: a queue whose receiver gets what was sent, in
order, once. `Fifo` in `ReliableChannel` is the refinement: what has been sent is
all chunks the user has submitted, what has been received is what has been
handed on without the pings.

### PeerLifecycle

| variable | code |
|---|---|
| `m_peers`, `m_peers_mutex` | the container of `Connection` |
| `allocation`, `m_usage`, `m_pending_deletion` | each `Peer` object |
| `helper` | the object each `PeerHelper` on a thread's stack holds |
| `pc`, `pointer`, `slot` | where a thread is in `deletePeer` or `getPeerNoEx` |
| `m_event_queue`, `clients` | events, by id; the ids the user has a client for (`ClientInterface::m_clients`) |
| `destroyed`, `early` | ~Connection; history, see below |

`GetPeerNoEx` and `IncUseCount` are two steps, because the object is looked up
under one mutex and counted under another; `DeletePeer`, `PutRemovedEvent`,
`Drop` and `DeleteObject` are four. An event carries the id of a peer, not the
object, and the user goes by the id: `HandleEvent` is `CreateClient`, which leaves
alone an id that has a client, or `DeleteClient`. `deletePeer` takes a peer out of
the container before it puts the event, without the mutex, so another thread may
give the same id to a new peer in between. The user is then told added, added,
removed, and ends up with no client for the new peer (6). `early` notes the ids
to which that has happened, until what the user is still to hear is of the last
owner again; ToldInOrder says of the others that the user's clients follow the
container, and of all that no client is left behind. The raw pointers that `createServerPeer` and
`connect` use need no steps: the socket is bound after them, and nobody else
can get at the peer before.

### Handshake

Clients (`m_peer_id`, the stored packets, the commands for the send thread) and
the server (`m_peers` with `half_open`, the queue of commands). The windows and
the order of delivery are left to `ReliableChannel`; here a session is the set of
numbers it has received. The server's commands are a set: their order does not
matter to what they do, and doing one twice is what the network does to packets.
Simplifications: a client's receive thread handles one SET_PEER_ID at a time;
RESEND_ONE resends only what the server's send buffer holds first, which is
SET_PEER_ID until it is acknowledged; of timeouts only those of half-open peers.
Ids may be used again after a timeout. `fix_peer_id` does not touch
`queued_reliables`; a client without an id does not have enough packets under
way for anything to be there.

### EmergeQueue

| variable | code |
|---|---|
| `m_blocks_enqueued`, `m_peer_queue_count` | members of `EmergeManager` |
| `m_block_queue`, `m_queue_event`, `m_request_stop` | of each `EmergeThread` |
| `m_queue_mutex`, `m_env_mutex` | who holds them between steps |
| `pc`, `job`, `left`, `request`, `signalling` | what a thread is at |
| `asked`, `refcount`, `lost` | requests, `ScriptCallbackState::refcount`, history |

An actor is the server thread (later the thread that runs `~Server`) or an emerge
thread. Any of them may run Lua under the environment mutex, and Lua may ask for
blocks: `AskingIn` says in which of the four kinds of callback it does
(`AskingInAssumption`: there are no others). A request
is a player's (`GetNextBlocks`) or one of `core.emerge_area`, which may have a
callback. `m_queue_mutex` appears as a variable because of `cancelPendingItems`,
the only code that holds it across other steps. The callbacks of an entry are a
set, since each request asks for a position once. Requests made while no thread
runs any more are never served; nothing is claimed of them.

### MapGeneration

A thread is `idle`, `reading` the database, has `read` it, or is `making` a chunk;
between two of these it holds no mutex, and the server may do anything, unloading
any block included: neither the emerge thread nor `initBlockMake` takes a
reference or resets the usage timer, which is all `timerUpdate` looks at. A block
is [generated, edits, modified]; an edit is one change of one node. `vmanip` is
the thread's copy of chunk and border. The database is one function;
`dbase_ro` and the migration from it are folded into it.

`FinishBlockMake` may take away any edits that generators may write over
(`Replaceable`), in the chunk and in the border around it: caves carve ground
content there (`mapgen/cavegen.cpp:368-374, 572-592`), dungeons do, trees grow into
air. An edit whose node is neither ground content nor air is left alone. What is
not in memory when the chunk is finished is not written, so a block of the chunk
that was unloaded meanwhile stays ungenerated and is generated when it is asked
for again.

`rushed` notes a block that was changed or generated, saved and unloaded in the
time between the database's answer to a thread and its second look at memory.
What that thread then puts into memory is older than what is on disk, and the
next save replaces the newer by the older. By default a block stays in memory for 29 s
after its last use (`server_unload_unused_data_timeout`) and `timerUpdate` is called
every 2.92 s, so this takes a reading that waits half a minute for the
environment mutex; but nothing else prevents it. The properties exempt such
blocks and no others. `raced` notes edits made while a thread had a copy of the
block.

Left out: light updates of `finishBlockMake`, `on_generated` and schematics placed
by force, which may write over anything, `core.delete_area`, Lua VoxelManips,
changes of nodes in blocks that are not generated.

### BlockTransfer

| variable | code |
|---|---|
| `map`, `loaded` | the server's blocks |
| `enqueued`, `arriving` | `EmergeManager::isBlockInQueue`; blocks in memory whose event an emerge thread has yet to dispatch |
| `m_unsent_map_edit_queue` | the same member of `Server` |
| `client` | `m_blocks_sent`, `m_blocks_sending`, `m_blocks_occ`, `m_nearest_unsent_d` of `RemoteClient`; `paused` is `m_nothing_to_send_pause_timer >= 0` |
| `hidden` | what `Map::isBlockOccluded` says |
| `to_client`, `to_server` | the reliable channels 0 and 2 of each direction |
| `world`, `owed` | the client's blocks; its acknowledgements to come |
| `troubles`, `crossed`, `unreverted` | bound and history |

| action | code |
|---|---|
| `SendBlocks` | `Server::SendBlocks` with `GetNextBlocks`: `Scanned` is the body of its loop, `NewNearestUnsentD` and `FullMapSent` what follows it |
| `PauseOver`, `Move` | the timers and resets at the beginning of `GetNextBlocks`; a scan that takes too long starts anew as after a move |
| `ForceSend` | `Server::SendBlock`, `core.send_mapblock` |
| `Uncover` | a block stops being hidden |
| `BlockArrives`, `DispatchArrival` | the end of `EmergeThread::run` |
| `Edit`, `ProcessEdits` | changes of the map and their events, `sendNodeChangePkt`, `SetBlocksNotSent` |
| `HandleBlocks` | GOTBLOCKS and DELETEDBLOCKS |
| `HandleInteract` | INTERACT: `CarriedOut`, with the effects of a dig or of a placement; `Refused`, with the block of the guess sent again; or `Unreverted`, without |
| `ReceiveBlock`, `ReceiveNode` | the client's handlers of BLOCKDATA, ADDNODE, REMOVENODE |
| `Acknowledge` | GOTBLOCKS for one position, which may stand for several copies |
| `Unload`, `Interact` | `timerUpdate` and DELETEDBLOCKS; a dig or placement with its prediction |

The server's handlers and its step run in one thread at a time under the
environment mutex, so each is one action. A block has a few nodes whose content
is the number of the change that made it; `Guess` is a prediction. Left out: node
metadata, blocks of air beyond `block_send_optimize_distance`, blocks out of sight
or beyond the limits, the states a client goes through before it is active. Two
clients would share only `max_blocks_to_send`. Beyond
`block_cull_optimize_distance` `isBlockOccluded` looks at one random point of a
block; `hidden` is then taken to be what it finds. The scan is a recursive function
over `Order`, and `InOrder` lists the events that are sent by themselves in the order
of the queue. `crossed` notes the blocks for
which a node change and a block were on their way at once and the older one
arrives last; a later full copy clears it.

`Unreverted` stands for the ways of `handleCommand_Interact` that may leave the
client's guess where it is: no player, or an item out of the hotbar (lines
893-930), where nothing is sent; a placement when dead, too far away or without
the privilege (903-918, 949-969, 994-1002), where the block of only one of the two nodes
pointed at is sent again, while the guess may be in the other; and an item for
which the server expects no prediction (1217-1219), where only blocks on the wire
are sent again. `unreverted` notes the nodes whose guess was left so, until a block
or a node change replaces it. `HandleInteract` may take any of these ways for any
request, which is more than the code does.

A scan that comes to a position that is in the emerge queue already breaks off
all the same when the queue is at its limit (`emerge.cpp:362-376`).

### MeshQueue, BlockAcks

| variable | code |
|---|---|
| `world`, `refs`, `shown` | the client's blocks, `MapBlock::m_refcount`, `MapBlock::mesh` |
| `to_add`, `draining`, `blocks_to_ack` | where the main thread is in `updateBlock` or in the loop over the results, and its local variable |
| `m_queue`, `m_urgents`, `m_inflight_blocks` | members of `MeshUpdateQueue` |
| `worker`, `m_update_sem` | the threads of `MeshUpdateManager` and their semaphores |
| `m_queue_out`, `m_queue_out_urgent` | members of `MeshUpdateManager` |
| `changes`, `overtaken`, `acknowledged` | bound and history |

| action | code |
|---|---|
| `ReceiveBlock`, `EditBlock` | BLOCKDATA; `addNode`, `removeNode`: the block changes, updates of it and its neighbours are requested |
| `AddBlock` | one call of `MeshUpdateQueue::addBlock`: a new update or one merged into an old one |
| `DeferUpdate`, `WakeUp` | the semaphores of the workers |
| `StartDraining`, `TakeUrgent`, `NoUrgent`, `TakeNormal`, `SendGotBlocks` | the loop of `Client::step` with the two looks of `getNextResult`, each under a mutex of its own |
| `Unload` | `timerUpdate` of a block nothing holds |
| `Pop`, `FindNothing`, `FillBlockData`, `PutResult`, `Done` | `doUpdate` and `pop`; the blocks of an update are read one after the other without a mutex |

A mesh is the versions its blocks had when they were read, so that staleness can
be seen. The main thread writes a block while a worker may read it; a torn read
is as much out of date as an old one, and is replaced by the same later update,
since the main thread requests that after the write. `BlockAcks` counts:
each BLOCKDATA makes one acknowledgement owed, GOTBLOCKS pays some. `AcksSpec` is
the refinement: what is owed is what is in requests, updates, at workers, in
results and in `blocks_to_ack` (`Owed`; a sum is the number of `AckPlaces`, one
for each acknowledgement of each update). `EdgeAssumption` says that a block whose
update a change requests is one that reads the changed block. That is so with
`many_neighbors`, which follows from the default settings: `addBlock` always reads the 27 blocks
and `updateBlock` requests updates of the 26 around the changed one
(`mesh_generator_thread.cpp:261-278`). Without `smooth_lighting`, or with
`performance_tradeoffs`, it requests only those at the six faces while 27 are
still read, so a mesh may keep what a block at its edge or corner was; this case
is not covered. `overtaken` exempts a block from `StaleOnlyIfOvertaken` until it is
unloaded, although a later update shows it as it is. Meshes of several blocks (`client_mesh_chunk` > 1)
and cracks are left out.

## 4. The runs

Every property of a passing run has a mutant in `PROJECT.json`: a plausible bug in
one definition that makes TLC report that property under the same configuration.

| run | configuration | states | what it shows |
|---|---|---|---|
| reliable_channel | MCReliableChannel.cfg | 243 174 | safety and refinement of the channel |
| reliable_lossy | MCReliableLossy.cfg | smaller, temporal | everything is delivered and acknowledged |
| handshake | MCHandshake.cfg | 574 908 | agreement on ids with timeouts and reuse |
| join | MCJoin.cfg | 46 229 | a client joins over a lossy network |
| session_lost | MCSessionLost.cfg | violated | a finding, see 6 |
| peer_lifecycle | MCPeerLifecycle.cfg | 58 154 | lifetime of peers, the user's clients by id, deletion at last |
| emerge_queue | MCEmergeQueue.cfg | 2 259 685 | bookkeeping, with failures and stopping |
| emerge_served | MCEmergeServed.cfg | 54 326 | callbacks are run, stopping ends |
| emerge_deadlock | MCEmergeDeadlock.cfg | violated | a finding |
| map_generation | MCMapGeneration.cfg | 2 275 330 | nothing generated or built is lost, with the exceptions of section 3 |
| block_transfer | MCBlockTransfer.cfg | 82 104 | slots come back, the client is up to date, what is visible arrives |
| mesh_queue | MCMeshQueue.cfg | 37 813 | references, order of meshes, each block acknowledged once |

Bounds, and why they are enough:

- reliable_channel: numbers 0..11 from 10 on, windows of 2 or 4, seven chunks in
  commands of one or two, one ping, which may overtake. Numbers wrap around after two packets, a
  window can lie across the wrap, a command can fail half-way on both sides of
  it. No loss: a packet that is
  never received is as good as lost where safety is concerned.
- reliable_lossy: two chunks and a ping, started one before the wrap; packets and
  ACKs may be lost at any time.
- handshake: two clients compete for one id; a half-open peer times out once, so
  the id is handed out again while packets with it, and SET_PEER_ID to the first
  client, are under way. One reliable packet, since the handshake needs one.
- join: one client, two ids, losses. No timeout: the property exempts them.
- peer_lifecycle: two threads with two nested scopes each and two objects with
  the same id: enough for a thread to hold an object that another drops, and for
  the id to be reused meanwhile. Removing a level removes the case of a scope
  that is left by a thread that still uses the object in the outer scope.
- emerge_queue: two threads, three positions of which one is beyond the limit,
  two overlapping areas with callbacks and a player with quotas 2, 1 and 2 in
  all; Lua asks in every kind of callback; scripts and block data fail; the
  server stops at any point. Merging, refusing and cancelling all happen.
- emerge_served: the same without the player and without failures, Lua asking in
  the server step, with fairness.
- map_generation: two chunks of one block each, in each other's border; two
  threads; two edits of one of the blocks, of a node generators leave alone and
  of one they may write over. Blocks may be unloaded at any time, so each can be
  read, copied, generated, unloaded and loaded again by either thread in any
  order. `OverLimit` is empty, so the branch that refuses a
  chunk beyond `mapgen_limit` is not exercised.
- block_transfer: a block next to the player, which has a node that may change,
  and one at distance 3, which may be hidden; so the scan takes two rounds
  and comes back. At most two blocks on the wire, one block sent per step, none
  but near ones while the player builds (the program's constants 0 and 1), one
  in the emerge queue. Two events from outside (a change, a move, a dig or
  placement, an unload, a block sent for a mod): a change that crosses a block
  that crosses a dig. Blocks come from the emerge queue at any time. Safety
  holds with three events, too, which takes longer than a run should.
- mesh_queue: two blocks, each in the other's mesh, two workers, two changes, of
  which any may be urgent, and unloading at any time. Two changes are what it
  takes to merge updates, to keep a worker off a block, and to overtake.

CHECK_DEADLOCK is off where the program may come to rest: the user may stop
sending, the server may have stopped.

### Fairness

- `ReliableChannel`: the send thread wakes at least every 50 ms
  (`threads.cpp:86`), so its queues and timers are weakly fair, as is draining the
  buffer, which the receive thread does before each read. Receipt of a packet
  that is sent again and again is strongly fair: the network lets one through.
- `Handshake`: as few assumptions as will do. `Client::step` repeats TOSERVER_INIT
  every 1.5 s until answered (`client/client.cpp:428-444`): weakly fair. Receipt of
  TOSERVER_INIT and SET_PEER_ID is strongly fair, the two commands of the server
  weakly. Resending by the client is not needed, nor is any ACK.
- `PeerLifecycle`: a thread finishes what it has begun, and leaves its scopes.
  The latter is strongly fair, since other scopes of the thread come and go.
- `EmergeQueue`: threads are strongly fair: `m_env_mutex` is an `ordered_mutex`,
  which lets in everybody who waits, in order (`threading/ordered_mutex.h`);
  `m_queue_mutex` is a std::mutex, held for a few instructions but by
  `cancelPendingItems`, whose owner makes progress. Lua callbacks return.
  The server is assumed to start its threads and, once told to stop, to get the
  environment mutex; it is under no obligation to stop.
- `BlockTransfer`: the server steps, emerge threads and handlers go on (weak
  fairness; what channels carry arrives by `ReliableChannel`). A step in which
  the player has not built lately is strongly fair: while he builds without a
  pause, far blocks are not sent, and nobody promises that they are. Nothing is
  assumed of what comes from outside.
- `MeshQueue`: the main thread gets through its calls, `Client::step` is called
  again and again, and each worker that can go on does. Weak fairness is enough:
  nothing but the worker itself disables its next step for ever.

## 5. The proofs

Checked by TLAPS for every value of the constants; the assumptions are the
named ASSUMEs of the modules, which TLC evaluates in each run.

- **SeqNumProofs**: the comparisons of numbers are those of the cyclic distance
  (`HigherLemma`, `WindowLemma`), every number received falls into exactly one of
  the cases of the handler (`ClassificationLemma`), and adding n numbers one by
  one and taking n away again comes back to the start (`PlusMinus`).
- **ReliableChannelProofs**: both counters are u16 values at all times. The
  invariant has to speak of the queued commands, too: putting numbers back is
  right only if a command has fewer chunks than half the number space
  (`NumbersPutBack`). Of it and the lemmas follow `ComparisonsCorrect` and
  `AlwaysClassified` for all states. The invariant of the whole channel (`IInv`,
  under `BacklogFits`) says of every packet, in the queue, in the sender's buffer, on
  the network or at the receiver, that its number is that of its place in the
  stream (`SenderInv`, `NetworkInv`, `ReceiverInv`), that sender and receiver are
  never more than half the number space apart, so that a number and a position
  determine each other, that the queued commands are the chunks submitted and
  not yet numbered (`CommandsInv`), that the stream carries the others in order
  (`StreamInv`), that the receiver has handed on a prefix of it (`HandedInv`), and
  NothingForgotten. From it come TypeOK, AckHitsItsPacket and CopyJudgedRightly, and
  the refinement of `FifoChannel`: handing on a chunk is a step of the queue's
  receiver, submitting a command one of its sender, everything else, a ping
  included, a stutter.
- **PeerLifecycleProofs**: the invariant says who is responsible for an object:
  it is in the container, or one thread is at work on deleting it, or it is marked
  and has users; and that use counts are the numbers of PeerHelpers. Its two
  halves (DeletedByTheLast, NotLeaked) make up DeletedExactlyOnce, and they
  are not inductive by themselves, since neither says that
  no second thread may come to own the object. ToldInOrder follows from an
  invariant (`ToldInv`) on what the user would know of an id after each of the
  queued events (`Knows`): whatever client it ends up with is that of an object
  that is in the container or whose removal is still to be put (`KnownIsAround`);
  and of an id not in `early` there is one such object at a time (`OneAround`), the
  user will have its client (`AroundIsKnown`), and each event in the queue is news to
  the user when its turn comes (`EventsAreNews`).
- **EmergeQueueProofs**: QueuesMatchEntries is proved of a form that speaks of
  places instead of counting them (`QueueInv`), which also bounds the length of a
  queue by the number of positions. QuotaExact needs it, and that a refusal is
  decided before anything is charged; a player is never forced in, and a merge
  leaves the entry with its first requester. RefcountExact counts a callback in
  four places; the proof has one lemma for each move between them (`JoinStep`,
  `TakeStep`, `CallStep`, and `PassOverStep` or `LoadErrorStep` where it is lost).
  It needs that a request comes to a position once and is made by one actor
  (`AskInv`), that a refused request has no callbacks (`RefusedStep`), that whoever
  takes a block has none in hand (`PlacesInv`), and that nothing calls back for a
  request that has not been made (`CallbackInv`). NoLockCycle holds under `Calm`: Lua
  asks for blocks neither in `on_generated` nor in completion callbacks, and if it
  asks in the server's steps, no thread stops on an error. Without any one of the
  three TLC finds a cycle (for the second it is the finding of section 6). The proof
  (`LockInv`) rests on two orders: only a thread that gives up holds
  `m_queue_mutex` across steps (`HolderCancels`), and without errors none gives up
  before the server has taken its last step (`EndsAreOrdered`), while the shutdown
  hooks run when all threads have ended (`HooksComeLast`).
- **HandshakeProofs**: all rests on one fact about packets: a packet bears no id
  but the one its sender has, or none (`IdsOwn`), which in turn needs that a
  client sets its id only once. So a packet with an id from a peer's address
  proves that the client there has that id. OnePeerPerAddress needs that
  `createPeer` is reached only when `lookupPeer` found nothing; HeadersFixed that
  the command to fix the headers is queued by whoever sets the id. AckedIsReceived
  follows an acknowledgement back to the peer that made it (`AckedInv`): a packet
  is kept before the command to acknowledge it is queued, so the command, the
  packet that answers it and the client's empty place in its buffer each imply
  that the peer at the client's address has the number; OnePeerPerAddress says
  that it is the same peer all the while.
- **MapGenerationProofs**: CleanMeansSaved, GeneratedForGood and EditsKept need two
  more facts: what a thread has read from the database is still there, unless the
  block is in memory by now, in which case it is not used, or was unloaded again
  meanwhile, which `rushed` notes (`ReadIsSaved`); and the
  copies of a block, whichever thread has them, agree with the block, in memory or
  on disk, and so with each other, but for the edits made meanwhile and those
  that may be written over (`CopiesAgree`). That a block is unloaded while it is
  copied disturbs neither: what is not in memory is not written. Each step that puts
  blocks into memory is shown to be one of a single kind (`LoadedFrom`, `Started`),
  which changes nothing for whoever asks for a block (`EveryStepKeeps`).
  OneMakerPerChunk has an invariant of its own. Nothing is assumed of when
  blocks are unloaded.
- **BlockTransferProofs**: TypeOK needs that the scan chooses only blocks the client
  does not know of and no more than its limits allow. `ScanIs` shows that the
  recursive function of `Scan` exists, `ScanGood` that each position keeps this,
  both by induction over the position. SlotsComeBack needs besides that each
  chosen block that is sent is put on channel 2 in the same step. Then each
  message keeps the promise when it turns into the next: BLOCKDATA into an
  acknowledgement owed, that into GOTBLOCKS, that into a free slot.
  StaleOnlyIfCrossed says something of quiet states only; the invariant `FreshInv`
  says of every state where the present content of a node is (`Located`): in the
  queue of events, on channel 0, in a copy on channel 2, or at the client, where
  nothing else is coming; or the client has a guess the server will hear of or has
  let stand (`Guessed`), or has deleted the block. It needs that what is pending on a channel never gets
  older from front to end (`InTurn`) nor is ever ahead of the map (`Past`), that the
  last event of a node tells its present state (`Current`), and that a block the
  server counts as known is at the client, on its way there, or deleted (`HasIt`):
  else a change could be sent to a client that leaves it alone.
- **MeshQueueProofs**: RefsExact sums over four places an update can be in, so
  the proof moves one update from one of them to the next and shows that the
  counts of holders do not change (lemmas on cardinalities of holders of
  appended, removed and replaced updates). ResultsInOrder needs that only one
  worker is at a block (`WorkersApart`), that a later update of a block holds what
  the earlier ones still hold (`HoldsGrow`), and hence that it has read and will
  read nothing older (`JobsNewer`): a block that is held does not go away, and its
  versions only grow. For StaleOnlyIfOvertaken, `FreshInv` says that the latest state
  of every block a mesh reads is carried by something: a request of the main
  thread, an update in the queue, a worker that has it or has yet to read it, a
  result, or the mesh that is drawn (`AllCarried`); that of two carriers the later
  is never older (`Comparable`), unless an urgent result has overtaken; and that
  what is drawn is no newer than what follows (`ShownFirst`). AcksSpec counts
  acknowledgements in six places. One lemma, on bijections between places
  (`AcksMove`), gives what a queue loses with its head, gains at its end or loses
  from its middle, and what a worker takes and leaves; there is one more for each
  step that moves some (`AddBlockAcks`, `PopAcks`, `PutAcks`, `TakeAcks`,
  `SendAcks`). The invariant it needs (`AckInv`) is that a block to be acknowledged
  is there when `addBlock` looks for it: else the request, and the acknowledgement
  with it, would be dropped.

Induction: the theorems of the library that take a predicate cannot be used, but
`WFMin` (every nonempty set of naturals has a least element) can, and gives
induction over the members of a set (`Smallest`, `SetInduction`), by which the
scan of `BlockTransfer` is treated.

Only model-checked, since fairness and ENABLED are outside of what TLAPS proves:
EverythingDelivered, EverythingAcknowledged, DroppedIsDeleted, EveryCallbackRun,
StopEnds, Joined, VisibleArrives and EveryBlockAcknowledged.

## 6. Findings

1. **session_lost** (`threads.cpp:193`): a half-open peer that has acknowledged a
   client's packets can time out; the client joins through the next one, whose
   channel waits for ever for the packet that was acknowledged.
2. **emerge_deadlock** (`emerge.cpp:481`): completion callbacks are run under
   `m_queue_mutex`; one that calls `core.emerge_area` locks that mutex again.

Seen while modelling, not checked by a run:

- `impl.cpp:664`: while nothing is unacknowledged, numbers are given out without
  a limit. After a command of nearly MAX_RELIABLE_WINDOW_SIZE chunks one more
  packet moves the window of `insert`, so that the first chunks are not stored
  for resending. With commands that large TLC reports NothingForgotten; the
  bounds of reliable_channel leave them out.
- `impl.cpp:1401-1406`: when the id of a peer is given to a new one between
  `deletePeer`'s erasing the old peer and its event, the server ignores the first
  event ("The client shouldn't already exist", `server/clientiface.cpp:872`) and
  deletes the client of the new peer at the second. TLC finds it when
  ToldInOrder does not exempt `early`; ids are picked at random out of 65533, so it
  is most unlikely.
- Between the database's answer and its use the block may be loaded by someone
  else, changed, saved and unloaded (`emerge.cpp:545` only looks whether it is in
  memory): the old content is then put into memory. TLC finds it without the
  exemption of `rushed`; it takes a thread that waits as long as a block is kept
  in memory.
- A block of a chunk that is unloaded while the chunk is generated is not
  written back (`map.cpp:821-847`): for it the work is lost, and it is generated
  once more when it is asked for.
- `servermap.cpp:281`: an edit of a border block made while a neighbouring chunk
  is generated is overwritten when the chunk is finished; EditsKept exempts it.
- A late GOTBLOCKS of an earlier copy marks a block as sent while a newer copy is
  still on channel 2 (`clientiface.cpp:407`). An ADDNODE sent then on channel 0
  can overtake that copy, which was made before and takes the change back; and
  an ADDNODE overtaken by a newer BLOCKDATA puts an old content back. These are
  the `crossed` blocks that StaleOnlyIfCrossed exempts; without it TLC finds
  both.
- When `full_d_max` is at most 2 (`max_block_send_distance` 2, or a fog distance of
  32 nodes), the scan is over in one round, `m_nearest_unsent_d` stays 0, and the
  occlusion cache is not cleared (`clientiface.cpp:400`): a block that was hidden
  and is not any more may never be sent. TLC finds VisibleArrives violated with
  full_d_max = 2; the run has 3.
- INTERACT may leave the client with its guess although nothing has crossed
  (`network/serverpackethandler.cpp`): an item out of the hotbar is ignored without
  sending anything (923-930); a placement refused because the player is dead or
  too far away sends only the block of the node pointed at (909-910, 998-999), and one without
  the privilege only that above it (965), although the predicted node may lie in
  the block next to it; and nothing but blocks on the wire is sent when the server
  knows of no prediction (1217). StaleOnlyIfCrossed exempts these nodes; without
  that TLC finds them.
- `network/peerhandler.h:27-30` says that a peer is still in the container when
  `deletingPeer` is called; `impl.cpp:1401` erases it before the event is put.
- A request that joins an entry does not count for its player
  (`emerge.cpp:383-388`), so the limits described in `settingtypes.txt:2415` are
  limits on entries, not on requests.
- `emerge.cpp:691` passes over positions beyond the limit of the map without
  running their callbacks, although `lua_api.md:6704` counts on all of them.
- A chunk whose generation is refused for `mapgen_limit`, or whose `on_generated`
  in the mapgen environment fails, stays in `m_chunks_in_progress`
  (`servermap.cpp:207`, before the return at 217) and is never made.
- An urgent mesh result can overtake an older normal one
  (`client/mesh_generator_thread.cpp:282`), which is then shown last;
  StaleOnlyIfOvertaken exempts it.

## 7. What is not modelled

See the components in `PROJECT.json` for each part and the reason. In short: the
parts marked "planned" in 1.4 and split packets are next. Times, rates and sizes (RTT,
window growth, quotas per iteration) are replaced by free choice. Map generators,
rendering, formats, databases and Lua bindings are data, computation or I/O
without control of their own. Vendored libraries are left aside.
