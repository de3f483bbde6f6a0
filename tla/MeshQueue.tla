----------------------------- MODULE MeshQueue -----------------------------
(***************************************************************************)
(* How the client makes the meshes of its blocks: the main thread, which   *)
(* changes blocks, queues updates and shows the results; the worker        *)
(* threads, which take updates from the queue, read the blocks and make    *)
(* the meshes.  An update holds the blocks it reads, so that they are not  *)
(* unloaded, and brings the acknowledgements for the server.               *)
(*                                                                         *)
(* Abstractions.  What is in a block is the number of the change that made *)
(* it; a mesh is what its blocks were when they were read.  A mesh is of   *)
(* one block (client_mesh_chunk is 1, the default).  A block that is being *)
(* written while a worker reads it is read as it was before: a mixture of  *)
(* the two would be out of date just the same.                             *)
(***************************************************************************)
EXTENDS Naturals, FiniteSets, Sequences, SequencesExt

CONSTANTS
    Block,      \* positions of blocks, and so of meshes
    Order,      \* ... in the order in which a worker reads them
    Neighbors,  \* [Block -> Seq(Block)]
    Worker,     \* the worker threads
    MaxChanges, \* bound: blocks that are received or changed
    None        \* not a mesh, not a job

ASSUME NeighborsAssumption ==
    /\ Neighbors \in [Block -> Seq(Block)]
    /\ Order \in Seq(Block) /\ ToSet(Order) = Block

(* A mesh reads its block and the 26 around it, and updateBlock updates    *)
(* the same 26 (many_neighbors).  Without smooth_lighting, or with         *)
(* performance_tradeoffs, it would update only six of the blocks read.     *)
ASSUME EdgeAssumption ==
    \A p, q \in Block : q \in ToSet(Neighbors[p]) => p \in ToSet(Neighbors[q])

ASSUME WorkerAssumption == IsFiniteSet(Worker)

ASSUME BoundAssumption == MaxChanges \in Nat

VARIABLES
    world,     \* [Block -> Version]: the blocks of the client, Absent or loaded
    refs,      \* [Block -> Nat]: m_refcount
    shown,     \* [Block -> Mesh \cup {None}]: the meshes that are drawn
    to_add,    \* what the main thread is about to queue, and whether to wake
    draining,  \* where it is in the loop over the results
    blocks_to_ack,       \* [Block -> Nat]
    m_queue,             \* Seq(Update)
    m_urgents,           \* SUBSET Block
    m_inflight_blocks,   \* SUBSET Block
    worker,              \* [Worker -> WorkerState]
    m_update_sem,        \* the workers that have been signalled
    m_queue_out,         \* Seq(Result)
    m_queue_out_urgent,  \* Seq(Result)
    changes,   \* how many there have been
    overtaken, \* ghost: positions where an older mesh may be shown last
    acknowledged  \* ghost: [Block -> Nat], the acknowledgements sent

mainVars == <<world, refs, shown, to_add, draining, blocks_to_ack, changes, overtaken,
              acknowledged>>
queueVars == <<m_queue, m_urgents, m_inflight_blocks>>
outVars == <<m_queue_out, m_queue_out_urgent>>
vars == <<mainVars, queueVars, outVars, worker, m_update_sem>>

Version == 0 .. MaxChanges
Absent == 0
Reads(p) == {p} \cup ToSet(Neighbors[p])
Data == UNION {[S -> Version] : S \in SUBSET Block}

(* A missing mesh is not taken for one. *)
ASSUME NoneAssumption == None \notin Data

(* holds: the blocks of map_blocks that are not null.  acks: how often p is *)
(* in ack_list.                                                            *)
Update == [p : Block, acks : Nat, urgent : BOOLEAN, holds : SUBSET Block]
Result == [p : Block, acks : Nat, urgent : BOOLEAN, holds : SUBSET Block, mesh : Data]
Request == [p : Block, ack : BOOLEAN, urgent : BOOLEAN]
Adding == [requests : Seq(Request), wake : BOOLEAN]

(* data: what the worker has read so far. *)
WorkerState == [pc : {"asleep", "pop", "work", "done"}, job : Update \cup {None}, data : Data]

TypeOK ==
    /\ world \in [Block -> Version] /\ refs \in [Block -> Nat]
    /\ shown \in [Block -> Data \cup {None}]
    /\ \A p \in Block : shown[p] \in [Reads(p) -> Version] \cup {None}
    /\ to_add \in Adding
    /\ draining \in {"no", "urgent", "normal"}
    /\ blocks_to_ack \in [Block -> Nat]
    /\ m_queue \in Seq(Update)
    /\ m_urgents \subseteq {m_queue[i].p : i \in DOMAIN m_queue}
    /\ m_inflight_blocks \subseteq Block
    /\ worker \in [Worker -> WorkerState]
    /\ \A w \in Worker : worker[w].pc \in {"work", "done"} => worker[w].job \in Update
    /\ m_update_sem \subseteq Worker
    /\ m_queue_out \in Seq(Result) /\ m_queue_out_urgent \in Seq(Result)
    /\ changes \in Version /\ overtaken \subseteq Block
    /\ acknowledged \in [Block -> Nat]

Asleep == [pc |-> "asleep", job |-> None, data |-> <<>>]

Init ==
    /\ world = [p \in Block |-> Absent] /\ refs = [p \in Block |-> 0]
    /\ shown = [p \in Block |-> None]
    /\ to_add = [requests |-> <<>>, wake |-> FALSE]
    /\ draining = "no"
    /\ blocks_to_ack = [p \in Block |-> 0]
    /\ m_queue = <<>> /\ m_urgents = {} /\ m_inflight_blocks = {}
    /\ worker = [w \in Worker |-> Asleep]
    /\ m_update_sem = {}
    /\ m_queue_out = <<>> /\ m_queue_out_urgent = <<>>
    /\ changes = 0 /\ overtaken = {}
    /\ acknowledged = [p \in Block |-> 0]

-----------------------------------------------------------------------------
(* The main thread *)

Idle == to_add.requests = <<>> /\ ~to_add.wake /\ draining = "no"

(* addUpdateMeshTaskWithEdge: the block, then its neighbours. *)
WithoutEdge(p, ack, urgent) ==    \* mutant: the neighbours keep their meshes
    [requests |-> <<[p |-> p, ack |-> ack, urgent |-> urgent]>>, wake |-> TRUE]
WithEdge(p, ack, urgent) ==
    [requests |-> <<[p |-> p, ack |-> ack, urgent |-> urgent]>> \o
            [i \in DOMAIN Neighbors[p] |->
                [p |-> Neighbors[p][i], ack |-> FALSE, urgent |-> urgent]],
     wake |-> TRUE]

ChangeBlock(p, ack, urgent) ==
    /\ Idle
    /\ changes < MaxChanges
    /\ changes' = changes + 1
    /\ world' = [world EXCEPT ![p] = changes + 1]
    /\ to_add' = WithEdge(p, ack, urgent)
    /\ UNCHANGED <<refs, shown, draining, blocks_to_ack, overtaken, acknowledged,
                   queueVars, outVars, worker, m_update_sem>>

(* handleCommand_BlockData *)
ReceiveBlock(p) == ChangeBlock(p, TRUE, FALSE)

(* addNode, removeNode *)
EditBlock(p) == world[p] # Absent /\ ChangeBlock(p, FALSE, TRUE)

(* MeshUpdateQueue::addBlock.  A block that is not there has no mesh.  If   *)
(* there is an update of the block in the queue, it takes up the request   *)
(* and the blocks that have come since; otherwise there is a new one.      *)
Loaded == {p \in Block : world[p] # Absent}

Grab(held) == refs' = [b \in Block |-> refs[b] + IF b \in held THEN 1 ELSE 0]

MergedNotHeld(q, r) ==    \* mutant: the new blocks are counted but not noted
    [q EXCEPT !.acks = @ + (IF r.ack THEN 1 ELSE 0), !.urgent = @ \/ r.urgent]
MergedUnacked(q, r) ==    \* mutant: the acknowledgement is forgotten
    [q EXCEPT !.urgent = @ \/ r.urgent, !.holds = @ \cup (Reads(r.p) \cap Loaded)]
Merged(q, r) == [q EXCEPT !.acks = @ + (IF r.ack THEN 1 ELSE 0),
                          !.urgent = @ \/ r.urgent,
                          !.holds = @ \cup (Reads(r.p) \cap Loaded)]

NewUpdate(r) == [p |-> r.p, acks |-> IF r.ack THEN 1 ELSE 0, urgent |-> r.urgent,
                 holds |-> Reads(r.p) \cap Loaded]

MarkUrgentAnyway(r) ==    \* mutant: before it is known whether there is such a block
    m_urgents \cup {p \in {r.p} : r.urgent}
MarkUrgent(r) == m_urgents \cup {p \in {r.p} \cap Loaded : r.urgent}

AddBlock ==
    /\ to_add.requests # <<>>
    /\ LET r == Head(to_add.requests)
           queued == {i \in DOMAIN m_queue : m_queue[i].p = r.p}
       IN  /\ m_urgents' = MarkUrgent(r)
           /\ \/ /\ world[r.p] = Absent
                 /\ UNCHANGED <<m_queue, refs>>
              \/ /\ world[r.p] # Absent /\ queued = {}
                 /\ m_queue' = Append(m_queue, NewUpdate(r))
                 /\ Grab(Reads(r.p) \cap Loaded)
              \/ /\ world[r.p] # Absent
                 /\ \E i \in queued :
                        /\ m_queue' = [m_queue EXCEPT ![i] = Merged(@, r)]
                        /\ Grab((Reads(r.p) \cap Loaded) \ m_queue[i].holds)
    /\ to_add' = [to_add EXCEPT !.requests = Tail(@)]
    /\ UNCHANGED <<world, shown, draining, blocks_to_ack, changes, overtaken,
                   acknowledged, m_inflight_blocks, outVars, worker, m_update_sem>>

(* deferUpdate, of every worker *)
DeferUpdate ==
    /\ to_add.requests = <<>> /\ to_add.wake
    /\ to_add' = [to_add EXCEPT !.wake = FALSE]
    /\ m_update_sem' = Worker
    /\ UNCHANGED <<world, refs, shown, draining, blocks_to_ack, changes, overtaken,
                   acknowledged, queueVars, outVars, worker>>

(* Client::step takes the results, urgent ones first, until there is none. *)
StartDraining ==
    /\ Idle
    /\ draining' = "urgent"
    /\ UNCHANGED <<world, refs, shown, to_add, blocks_to_ack, changes, overtaken,
                   acknowledged, queueVars, outVars, worker, m_update_sem>>

Show(r) ==
    /\ shown' = [shown EXCEPT ![r.p] = r.mesh]
    /\ blocks_to_ack' = [blocks_to_ack EXCEPT ![r.p] = @ + r.acks]
    /\ refs' = [b \in Block |-> refs[b] - IF b \in r.holds THEN 1 ELSE 0]
    /\ draining' = "urgent"

(* A result is taken before an older one of the other queue. *)
NotNewer(m1, m2) == \A b \in DOMAIN m1 : m1[b] <= m2[b]

Overtake(r, others) ==
    overtaken' = overtaken \cup
        {o.p : o \in {x \in ToSet(others) : x.p = r.p /\ NotNewer(x.mesh, r.mesh)}}

TakeUrgent ==
    /\ draining = "urgent" /\ m_queue_out_urgent # <<>>
    /\ LET r == Head(m_queue_out_urgent)
       IN  /\ Show(r)
           /\ Overtake(r, m_queue_out)
    /\ m_queue_out_urgent' = Tail(m_queue_out_urgent)
    /\ UNCHANGED <<world, to_add, changes, acknowledged, queueVars, m_queue_out, worker,
                   m_update_sem>>

NoUrgentEnds ==    \* mutant: the loop ends without a look at the other queue
    /\ draining = "urgent" /\ m_queue_out_urgent = <<>>
    /\ draining' = "no"
    /\ UNCHANGED <<world, refs, shown, to_add, blocks_to_ack, changes, overtaken,
                   acknowledged, queueVars, outVars, worker, m_update_sem>>
NoUrgent ==
    /\ draining = "urgent" /\ m_queue_out_urgent = <<>>
    /\ draining' = "normal"
    /\ UNCHANGED <<world, refs, shown, to_add, blocks_to_ack, changes, overtaken,
                   acknowledged, queueVars, outVars, worker, m_update_sem>>

TakeNormal ==
    /\ draining = "normal" /\ m_queue_out # <<>>
    /\ LET r == Head(m_queue_out)
       IN  /\ Show(r)
           /\ Overtake(r, m_queue_out_urgent)
    /\ m_queue_out' = Tail(m_queue_out)
    /\ UNCHANGED <<world, to_add, changes, acknowledged, queueVars, m_queue_out_urgent,
                   worker, m_update_sem>>

(* sendGotBlocks, when there is no result left *)
SendGotBlocks ==
    /\ draining = "normal" /\ m_queue_out = <<>>
    /\ draining' = "no"
    /\ acknowledged' = [p \in Block |-> acknowledged[p] + blocks_to_ack[p]]
    /\ blocks_to_ack' = [p \in Block |-> 0]
    /\ UNCHANGED <<world, refs, shown, to_add, changes, overtaken, queueVars, outVars,
                   worker, m_update_sem>>

(* timerUpdate: only blocks that nothing holds are unloaded. *)
Unload(p) ==
    /\ Idle
    /\ world[p] # Absent /\ refs[p] = 0
    /\ world' = [world EXCEPT ![p] = Absent]
    /\ shown' = [shown EXCEPT ![p] = None]
    /\ overtaken' = overtaken \ {p}
    /\ UNCHANGED <<refs, to_add, draining, blocks_to_ack, changes, acknowledged,
                   queueVars, outVars, worker, m_update_sem>>

-----------------------------------------------------------------------------
(* The workers *)

SetPc(w, pc) == worker' = [worker EXCEPT ![w].pc = pc]

WakeUp(w) ==
    /\ worker[w].pc = "asleep" /\ w \in m_update_sem
    /\ m_update_sem' = m_update_sem \ {w}
    /\ SetPc(w, "pop")
    /\ UNCHANGED <<mainVars, queueVars, outVars>>

(* The updates that pop may take, under the lock: urgent ones if there are *)
(* any, none of a block that another worker is at.                         *)
PoppableAnyway ==    \* mutant: another worker may be at it
    {i \in DOMAIN m_queue : m_urgents = {} \/ m_queue[i].p \in m_urgents}
Poppable ==
    {i \in DOMAIN m_queue : /\ m_urgents = {} \/ m_queue[i].p \in m_urgents
                            /\ m_queue[i].p \notin m_inflight_blocks}

Pop(w) ==
    /\ worker[w].pc = "pop"
    /\ \E i \in Poppable :
        /\ \A j \in Poppable : i <= j
        /\ m_queue' = RemoveAt(m_queue, i)
        /\ m_urgents' = m_urgents \ {m_queue[i].p}
        /\ m_inflight_blocks' = m_inflight_blocks \cup {m_queue[i].p}
        /\ worker' = [worker EXCEPT ![w] =
                [pc |-> "work", job |-> m_queue[i], data |-> <<>>]]
    /\ UNCHANGED <<mainVars, outVars, m_update_sem>>

FindNothing(w) ==
    /\ worker[w].pc = "pop" /\ Poppable = {}
    /\ SetPc(w, "asleep")
    /\ UNCHANGED <<mainVars, queueVars, outVars, m_update_sem>>

(* fillDataFromMapBlocks, one block after the other, without the lock.     *)
(* Where there was no block, a placeholder is read.                        *)
Unread(w) == Reads(worker[w].job.p) \ DOMAIN worker[w].data

ReadBlock(w, b) ==
    LET data == worker[w].data
        v == IF b \in worker[w].job.holds THEN world[b] ELSE Absent
    IN  [x \in DOMAIN data \cup {b} |-> IF x = b THEN v ELSE data[x]]

FillBlockData(w) ==
    /\ worker[w].pc = "work"
    /\ \E i \in DOMAIN Order :
        /\ Order[i] \in Unread(w) /\ \A j \in 1 .. i - 1 : Order[j] \notin Unread(w)
        /\ worker' = [worker EXCEPT ![w].data = ReadBlock(w, Order[i])]
    /\ UNCHANGED <<mainVars, queueVars, outVars, m_update_sem>>

ResultOf(w) ==
    LET q == worker[w].job
    IN  [p |-> q.p, acks |-> q.acks, urgent |-> q.urgent, holds |-> q.holds,
         mesh |-> worker[w].data]

PutResult(w) ==
    /\ worker[w].pc = "work" /\ Unread(w) = {}
    /\ IF worker[w].job.urgent
       THEN /\ m_queue_out_urgent' = Append(m_queue_out_urgent, ResultOf(w))
            /\ UNCHANGED m_queue_out
       ELSE /\ m_queue_out' = Append(m_queue_out, ResultOf(w))
            /\ UNCHANGED m_queue_out_urgent
    /\ worker' = [worker EXCEPT ![w] = [@ EXCEPT !.pc = "done", !.data = <<>>]]
    /\ UNCHANGED <<mainVars, queueVars, m_update_sem>>

Done(w) ==
    /\ worker[w].pc = "done"
    /\ m_inflight_blocks' = m_inflight_blocks \ {worker[w].job.p}
    /\ worker' = [worker EXCEPT ![w] = [@ EXCEPT !.pc = "pop", !.job = None]]
    /\ UNCHANGED <<mainVars, m_queue, m_urgents, outVars, m_update_sem>>

-----------------------------------------------------------------------------
MainNext ==
    \/ \E p \in Block : ReceiveBlock(p) \/ EditBlock(p) \/ Unload(p)
    \/ AddBlock \/ DeferUpdate
    \/ StartDraining \/ TakeUrgent \/ NoUrgent \/ TakeNormal \/ SendGotBlocks

WorkerNext(w) ==
    \/ WakeUp(w) \/ Pop(w) \/ FindNothing(w) \/ FillBlockData(w) \/ PutResult(w) \/ Done(w)

Next == MainNext \/ \E w \in Worker : WorkerNext(w)

Spec == Init /\ [][Next]_vars

(* Client::step is called again and again and ends; the workers run.       *)
Fairness ==
    /\ WF_vars(AddBlock) /\ WF_vars(DeferUpdate) /\ WF_vars(StartDraining)
    /\ WF_vars(TakeUrgent \/ NoUrgent \/ TakeNormal \/ SendGotBlocks)
    /\ \A w \in Worker : WF_vars(WorkerNext(w))

FairSpec == Spec /\ Fairness

-----------------------------------------------------------------------------
Jobs == {w \in Worker : worker[w].pc = "work"}

(* How many updates hold b, wherever they are *)
Holders(s, b) == {i \in DOMAIN s : b \in s[i].holds}
HoldingJobs(b) == {w \in Jobs : b \in worker[w].job.holds}
Holding(b) ==
    Cardinality(Holders(m_queue, b)) + Cardinality(HoldingJobs(b))
      + Cardinality(Holders(m_queue_out, b)) + Cardinality(Holders(m_queue_out_urgent, b))

(* A block is counted once for each update that holds it, and what is held *)
(* is not unloaded: the workers read no block that has been deleted, and   *)
(* no block is kept for ever.                                              *)
RefsExact ==
    \A b \in Block : refs[b] = Holding(b) /\ (refs[b] > 0 => world[b] # Absent)

(* Although several workers make meshes at a time, the results of a block  *)
(* that are given back by the same queue come in the order in which the    *)
(* blocks were read: m_inflight_blocks keeps a second worker off a block.  *)
InOrder(s) ==
    \A i, j \in DOMAIN s : i < j /\ s[i].p = s[j].p => NotNewer(s[i].mesh, s[j].mesh)

ResultsInOrder == InOrder(m_queue_out) /\ InOrder(m_queue_out_urgent)

(* When nothing is under way, what is drawn is what the blocks are now,    *)
(* unless the result of an urgent update has overtaken that of a normal    *)
(* one.                                                                    *)
Settled(p) ==
    /\ to_add.requests = <<>>
    /\ \A i \in DOMAIN m_queue : m_queue[i].p # p
    /\ \A w \in Jobs : worker[w].job.p # p
    /\ \A r \in ToSet(m_queue_out) \cup ToSet(m_queue_out_urgent) : r.p # p

UpToDate(p) ==
    shown[p] # None /\ \A b \in Reads(p) : world[b] # Absent => shown[p][b] = world[b]

StaleOnlyIfOvertaken ==
    \A p \in Block \ overtaken : world[p] # Absent /\ Settled(p) => UpToDate(p)

(* The acknowledgements that are on their way, in ack_list of a request,   *)
(* an update or a result, or in blocks_to_ack.                             *)
AckPlaces(f, p) == UNION {{x} \X (1 .. f[x].acks) : x \in {y \in DOMAIN f : f[y].p = p}}
AcksIn(f, p) == Cardinality(AckPlaces(f, p))

Asked == [i \in DOMAIN to_add.requests |-> NewUpdate(to_add.requests[i])]
AtWork == [w \in Jobs |-> worker[w].job]
Owed == [p \in Block |->
    AcksIn(Asked, p) + AcksIn(m_queue, p) + AcksIn(AtWork, p)
      + AcksIn(m_queue_out, p) + AcksIn(m_queue_out_urgent, p) + blocks_to_ack[p]]

(* The client keeps the promise of BlockAcks: however updates are merged   *)
(* and overtake each other, each BLOCKDATA is acknowledged exactly once.   *)
Acks == INSTANCE BlockAcks WITH owed <- Owed, MaxOwed <- MaxChanges
AcksSpec == Acks!Spec

(* Every block that has been received is acknowledged in the end: each     *)
(* update is popped by a worker at last, however often urgent ones push    *)
(* ahead, and Client::step looks at both queues of results.                *)
EveryBlockAcknowledged == \A p \in Block : Owed[p] > 0 ~> Owed[p] = 0
=============================================================================
